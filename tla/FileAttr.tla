------------------------------ MODULE FileAttr ------------------------------
(***************************************************************************)
(* Who edits a file: cvs edit, unedit, the end of an edit at a commit and  *)
(* the edit that update makes of a modified file (src/edit.cpp, server.cpp,*)
(* update.cpp), which all read CVS/fileattr.xml in the repository, change  *)
(* the tree in memory and write it back (src/fileattr.cpp).                *)
(*                                                                         *)
(* A working directory remembers its edit in CVS/Base and in the entry,    *)
(* and queues what the repository has to be told in CVS/Notify.  With a    *)
(* local repository the queue is removed before the tree is written, with  *)
(* a server each line goes after the server has written.                   *)
(*                                                                         *)
(* One directory, one file, the trunk.  Directory locks are taken to do    *)
(* what DirLocks shows; with a lock server there are none.  Watches, the   *)
(* -u option of unedit, the option of commit that keeps edits and the       *)
(* notify scripts are left out.                                             *)
(***************************************************************************)
EXTENDS Naturals, Sequences

CONSTANTS
    User,
    None,       \* not an editor
    Torn,       \* a fileattr.xml that is not complete
    Option,     \* the options of edit that are tried
    MaxNotes,   \* bound on the lines in CVS/Notify
    MaxCrash    \* bound on the number of commands cut off

ASSUME NotesAssumption == MaxNotes \in Nat \ {0} /\ MaxCrash \in Nat
ASSUME NoneAssumption == None \notin User /\ \A e \in [excl : BOOLEAN, tag : {"HEAD", "all"}] : e # None
ASSUME OptionAssumption == Option \subseteq [excl : BOOLEAN, tag : {"HEAD", "all"}]

VARIABLES
    lockserver, \* LockServer is set: the directory locks do nothing
    remote,     \* the users who work with a server
    disk,       \* CVS/fileattr.xml: the editors
    writer,     \* who has the write lock on the directory
    readers,    \* those who have read locks
    editing,    \* the users whose working directory has an edit
    notify,     \* CVS/Notify of each user
    pc,         \* where the user's command is
    job,        \* what it is: "send", "commit" or "auto"
    copy,       \* its tree
    line,       \* the lines of the queue that it has done
    modified,   \* the tree was changed
    refused,    \* an edit was refused
    crashes,    \* commands cut off so far
    overtaken,  \* history: an update has written since the write lock was taken
    excused     \* history: users to whom one of the known flaws happened

locks == <<writer, readers, overtaken>>
local == <<editing, notify>>
tree  == <<copy, line, modified, refused>>
vars  == <<lockserver, remote, disk, locks, local, pc, job, tree, crashes, excused>>

\* HEAD or, for the -w option, the whole file.
Tag    == {"HEAD", "all"}
Editor == [excl : BOOLEAN, tag : Tag]
Note   == [type : {"E", "U"}, excl : BOOLEAN, tag : Tag]

Nobody == [u \in User |-> None]

Init ==
    /\ lockserver \in BOOLEAN
    /\ remote \in SUBSET User
    /\ disk = Nobody
    /\ writer = None /\ readers = {} /\ overtaken = FALSE
    /\ editing = {} /\ notify = [u \in User |-> << >>]
    /\ pc = [u \in User |-> "idle"] /\ job = [u \in User |-> "send"]
    /\ copy = [u \in User |-> Nobody] /\ line = [u \in User |-> 0]
    /\ modified = [u \in User |-> FALSE] /\ refused = [u \in User |-> FALSE]
    /\ crashes = 0
    /\ excused = {}

Goto(u, where) == pc' = [pc EXCEPT ![u] = where]

\* fileattr_free drops the tree.
Free(u) ==
    /\ copy' = [copy EXCEPT ![u] = Nobody]
    /\ modified' = [modified EXCEPT ![u] = FALSE]

Finish(u) ==
    /\ Free(u)
    /\ line' = [line EXCEPT ![u] = 0]
    /\ job' = [job EXCEPT ![u] = "send"]
    /\ refused' = [refused EXCEPT ![u] = FALSE]
    /\ Goto(u, "idle")

-----------------------------------------------------------------------------
(* Editors *)

IsExclusive(editors, u) == editors[u] # None /\ editors[u].excl

\* Mutant: the name of the branch is not looked at.
AnyBranch(editors, u, tag) ==
    ~ \E v \in User : IsExclusive(editors, v) /\ editors[v].tag = "all"

\* check_can_edit; "none" is a null tag.
CanEdit(editors, u, tag) ==
    ~ \E v \in User :
        /\ IsExclusive(editors, v)
        /\ editors[v].tag = "all" \/ tag = "none" \/ (editors[v].tag = tag /\ v # u)

\* editor_set for an edit: what is not given stays as it was.
SetEditor(editors, u, excl, tag) ==
    LET old == IF editors[u] = None THEN [excl |-> FALSE, tag |-> "all"] ELSE editors[u] IN
    [editors EXCEPT ![u] = [excl |-> old.excl \/ excl,
                            tag  |-> IF tag = "HEAD" THEN tag ELSE old.tag]]

\* ... and for the end of one.
ClearEditor(editors, u) == [editors EXCEPT ![u] = None]

\* The tag of an edit as check_can_edit gets it: a server makes the empty tag
\* of an edit of the whole file a null pointer.
NoteTag(u, tag) == IF u \in remote /\ tag = "all" THEN "none" ELSE tag

\* Mutant: the tree is not marked as changed.
NotifyUnmarked(u, note) ==
    \/ /\ note.type = "U"
       /\ copy' = [copy EXCEPT ![u] = ClearEditor(@, u)]
       /\ UNCHANGED <<modified, refused>>
    \/ /\ note.type = "E" /\ CanEdit(copy[u], u, NoteTag(u, note.tag))
       /\ copy' = [copy EXCEPT ![u] = SetEditor(@, u, note.excl, note.tag)]
       /\ UNCHANGED <<modified, refused>>
    \/ /\ note.type = "E" /\ ~CanEdit(copy[u], u, NoteTag(u, note.tag))
       /\ refused' = [refused EXCEPT ![u] = TRUE]
       /\ UNCHANGED <<copy, modified>>

\* notify_do.
NotifyDo(u, note) ==
    \/ /\ note.type = "U"
       /\ copy' = [copy EXCEPT ![u] = ClearEditor(@, u)]
       /\ modified' = [modified EXCEPT ![u] = @ \/ copy[u][u] # None]
       /\ UNCHANGED refused
    \/ /\ note.type = "E" /\ CanEdit(copy[u], u, NoteTag(u, note.tag))
       /\ copy' = [copy EXCEPT ![u] = SetEditor(@, u, note.excl, note.tag)]
       /\ modified' = [modified EXCEPT ![u] = TRUE]
       /\ UNCHANGED refused
    \/ /\ note.type = "E" /\ ~CanEdit(copy[u], u, NoteTag(u, note.tag))
       /\ refused' = [refused EXCEPT ![u] = TRUE]
       /\ UNCHANGED <<copy, modified>>

-----------------------------------------------------------------------------
(* edit and unedit, in the working directory *)

HasRoom(u) == Len(notify[u]) < MaxNotes

\* edit; check is the -c option.  It looks at fileattr.xml, with no lock, and a
\* server also refuses if there is an exclusive editor.
Edit(u, option, check) ==
    /\ pc[u] = "idle" /\ HasRoom(u)
    /\ disk # Torn
    /\ check => disk = Nobody
    /\ u \in remote => CanEdit(disk, u, "none")
    /\ notify' = [notify EXCEPT ![u] = Append(@, [type |-> "E", excl |-> option.excl, tag |-> option.tag])]
    /\ Goto(u, "base")
    /\ UNCHANGED <<lockserver, remote, disk, locks, editing, job, tree, crashes, excused>>

\* edit_fileproc makes the copy in CVS/Base and registers the edit.
EditBase(u) ==
    /\ pc[u] = "base"
    /\ editing' = editing \union {u}
    /\ job' = [job EXCEPT ![u] = "send"]
    /\ Goto(u, "lock")
    /\ UNCHANGED <<lockserver, remote, disk, locks, notify, tree, crashes, excused>>

\* unedit_fileproc reverts the file and then queues the line.
Unedit(u) ==
    /\ pc[u] = "idle" /\ HasRoom(u)
    /\ editing' = editing \ {u}
    /\ Goto(u, "note")
    /\ UNCHANGED <<lockserver, remote, disk, locks, notify, job, tree, crashes, excused>>

UneditLine == [type |-> "U", excl |-> FALSE, tag |-> "HEAD"]

UneditNote(u) ==
    /\ pc[u] = "note"
    /\ notify' = [notify EXCEPT ![u] = Append(@, UneditLine)]
    /\ job' = [job EXCEPT ![u] = "send"]
    /\ Goto(u, "lock")
    /\ UNCHANGED <<lockserver, remote, disk, locks, editing, tree, crashes, excused>>

\* Another command in the directory: update, commit, or one that sends a queue
\* that was left, which with a server every command does first and otherwise only
\* an edit or unedit of another file.
Start(u, what) ==
    /\ pc[u] = "idle"
    /\ what = "send" => notify[u] # << >>
    /\ what # "send" /\ u \in remote => notify[u] = << >>
    /\ job' = [job EXCEPT ![u] = what]
    /\ Goto(u, "lock")
    /\ UNCHANGED <<lockserver, remote, disk, locks, local, tree, crashes, excused>>

-----------------------------------------------------------------------------
(* The repository *)

\* Mutant: a writer does not wait for another one.
CanLockTogether(u) == lockserver \/ readers = {}

\* lock_tree_for_write or lock_dir_for_write; update has a read lock.
CanLock(u) == lockserver \/ (writer = None /\ (job[u] = "auto" \/ readers = {}))

Lock(u) ==
    IF lockserver
      THEN UNCHANGED locks
      ELSE /\ writer' = IF job[u] = "auto" THEN writer ELSE u
           /\ readers' = IF job[u] = "auto" THEN readers \union {u} ELSE readers
           /\ UNCHANGED overtaken

\* Lock_Cleanup, after a write of an update if overtakes.
Release(u, overtakes) ==
    /\ writer' = IF writer = u THEN None ELSE writer
    /\ readers' = readers \ {u}
    /\ overtaken' = (writer' # None /\ (overtaken \/ overtakes))

\* fileattr_read, under the lock.  A tree that is not complete is a fatal error,
\* before which a server sends the answers it has.
Read(u) ==
    /\ pc[u] = "lock" /\ CanLock(u)
    /\ \/ /\ disk = Torn /\ line[u] = 0
          /\ Finish(u)
          /\ UNCHANGED locks
       \/ /\ disk = Torn /\ line[u] # 0
          /\ Goto(u, "answer")
          /\ UNCHANGED <<locks, job, tree>>
       \/ /\ disk # Torn
          /\ Lock(u)
          /\ copy' = [copy EXCEPT ![u] = disk]
          /\ Goto(u, job[u])
          /\ UNCHANGED <<job, line, modified, refused>>
    /\ UNCHANGED <<lockserver, remote, disk, local, crashes, excused>>

\* A local edit of the whole file has an empty tag, which equals no branch: the
\* exclusive edits of the others do not stop it, and if the user was an editor of
\* the branch she stays one.
EmptyTag(u, note) == u \notin remote /\ note.excl /\ note.tag = "all"

\* One line of the queue: one round of server_notify, which writes the tree and
\* reads it again for the next line, or of ncheck_fileproc, which does not.
NotifyLine(u) ==
    /\ pc[u] = "send" /\ line[u] < Len(notify[u])
    /\ LET note == notify[u][line[u] + 1] IN
         /\ NotifyDo(u, note)
         /\ excused' = IF EmptyTag(u, note) THEN excused \union {u} ELSE excused
    /\ line' = [line EXCEPT ![u] = @ + 1]
    /\ IF u \in remote THEN Goto(u, "write") ELSE UNCHANGED pc
    /\ UNCHANGED <<lockserver, remote, disk, locks, local, job, crashes>>

\* Mutant: CVS/Notify stays.
QueueKept(u) ==
    /\ pc[u] = "send" /\ u \notin remote
    /\ line[u] = Len(notify[u])
    /\ line' = [line EXCEPT ![u] = 0]
    /\ Goto(u, IF refused[u] THEN "rollback" ELSE "write")
    /\ UNCHANGED <<lockserver, remote, disk, locks, local, job, copy, modified, refused, crashes,
                   excused>>

\* The end of ncheck_fileproc's queue, which is removed before the tree is written.
QueueDone(u) ==
    /\ pc[u] = "send" /\ u \notin remote
    /\ line[u] = Len(notify[u])
    /\ notify' = [notify EXCEPT ![u] = << >>]
    /\ line' = [line EXCEPT ![u] = 0]
    /\ Goto(u, IF refused[u] THEN "rollback" ELSE "write")
    /\ UNCHANGED <<lockserver, remote, disk, locks, editing, job, copy, modified, refused, crashes,
                   excused>>

\* unedit_fileproc for a refused edit, which the user may decline if the file
\* was modified.  Its line stays in the queue.
Rollback(u) ==
    /\ pc[u] = "rollback"
    /\ \/ /\ editing' = editing \ {u}
          /\ notify' = [notify EXCEPT ![u] = Append(@, UneditLine)]
          /\ UNCHANGED excused
       \/ excused' = excused \union {u} /\ UNCHANGED local
    /\ Goto(u, "write")
    /\ UNCHANGED <<lockserver, remote, disk, locks, job, tree, crashes>>

\* A queue left in a local working directory outlives this command, and what it
\* says of the edit is no longer so when it is sent.
OldQueue(u) ==
    excused' = IF notify[u] = << >> THEN excused ELSE excused \union {u}

\* Mutant: the edit is not ended.
CheckinOnly(u) ==
    /\ pc[u] = "commit"
    /\ editing' = IF u \in remote THEN editing ELSE editing \ {u}
    /\ OldQueue(u)
    /\ Goto(u, "write")
    /\ UNCHANGED <<lockserver, remote, disk, locks, notify, job, tree, crashes>>

\* Checkin and notify_do at the end of commit_fileproc; the client of a server
\* hears of it later.
Checkin(u) ==
    /\ pc[u] = "commit"
    /\ editing' = IF u \in remote THEN editing ELSE editing \ {u}
    /\ copy' = [copy EXCEPT ![u] = ClearEditor(@, u)]
    /\ modified' = [modified EXCEPT ![u] = copy[u][u] # None]
    /\ OldQueue(u)
    /\ Goto(u, "write")
    /\ UNCHANGED <<lockserver, remote, disk, locks, notify, job, line, refused, crashes>>

\* edit_modified_file, called by update, with excl if the file has the option
\* for exclusive edits; do_recursion then gives the read lock back, before the
\* tree is written.
AutoEdit(u, excl) ==
    /\ pc[u] = "auto"
    /\ IF CanEdit(copy[u], u, "none")
         THEN /\ copy' = [copy EXCEPT ![u] = SetEditor(@, u, excl, "none")]
              /\ modified' = [modified EXCEPT ![u] = TRUE]
              /\ editing' = editing \union {u}
         ELSE UNCHANGED <<copy, modified, editing>>
    /\ OldQueue(u)
    /\ Release(u, FALSE)
    /\ Goto(u, "write")
    /\ UNCHANGED <<lockserver, remote, disk, notify, job, line, refused, crashes>>

\* Those whose entries a tree replaces that it was not read with.
Overwritten(u) ==
    IF disk = Torn THEN User ELSE {v \in User \ {u} : disk[v] # copy[u][v]}

\* fileattr_free and Lock_Cleanup; a server goes on to the next line, and when
\* all are done the client is answered.
Done(u, overtakes) ==
    /\ Release(u, overtakes)
    /\ IF u \in remote /\ job[u] # "auto"
         THEN /\ Free(u)
              /\ Goto(u, IF line[u] < Len(notify[u]) THEN "lock" ELSE "answer")
              /\ UNCHANGED <<job, line, refused>>
         ELSE Finish(u)

\* fileattr_write, if the tree was changed: the file is truncated ...
WriteStart(u) ==
    /\ pc[u] = "write"
    /\ IF modified[u]
         THEN /\ disk' = Torn
              /\ excused' = excused \union Overwritten(u)
              /\ overtaken' = (writer # None /\ (overtaken \/ job[u] = "auto"))
              /\ Goto(u, "writing")
              /\ UNCHANGED <<writer, readers, job, tree>>
         ELSE Done(u, FALSE) /\ UNCHANGED <<disk, excused>>
    /\ UNCHANGED <<lockserver, remote, local, crashes>>

\* ... and written, perhaps by two at a time.
WriteEnd(u) ==
    /\ pc[u] = "writing"
    /\ \/ disk' = copy[u]
       \/ (\E v \in User \ {u} : pc[v] = "writing") /\ disk' = Torn
    /\ excused' = excused \union
         IF disk = Torn THEN {} ELSE {v \in User : disk[v] # copy[u][v]}
    /\ Done(u, job[u] = "auto")
    /\ UNCHANGED <<lockserver, remote, local, crashes>>

\* The client hears of it: notified_a_file removes the first line, for each of
\* those that were done; mark_up_to_date ends the edit.  A refused edit is
\* answered like any other.
Answer(u) ==
    /\ pc[u] = "answer"
    /\ IF job[u] = "send"
         THEN /\ notify' = [notify EXCEPT ![u] = Tail(@)]
              /\ excused' = IF refused[u] THEN excused \union {u} ELSE excused
              /\ UNCHANGED editing
         ELSE editing' = editing \ {u} /\ UNCHANGED <<notify, excused>>
    /\ IF line[u] > 1
         THEN line' = [line EXCEPT ![u] = @ - 1] /\ UNCHANGED <<pc, job, copy, modified, refused>>
         ELSE Finish(u)
    /\ UNCHANGED <<lockserver, remote, disk, locks, crashes>>

\* Commands that can be cut off there and leave the two sides as they should be.
Harmless(u) ==
    \/ pc[u] \in {"lock", "send"}
    \/ u \in remote /\ job[u] = "send" /\ pc[u] \in {"write", "answer"}

Crash(u) ==
    /\ pc[u] # "idle"
    /\ crashes < MaxCrash
    /\ crashes' = crashes + 1
    /\ excused' = IF Harmless(u) THEN excused ELSE excused \union {u}
    /\ Release(u, FALSE)
    /\ Finish(u)
    /\ UNCHANGED <<lockserver, remote, disk, local>>

Next ==
    \E u \in User :
      \/ \E option \in Option, check \in BOOLEAN : Edit(u, option, check)
      \/ EditBase(u) \/ Unedit(u) \/ UneditNote(u)
      \/ \E what \in {"send", "commit", "auto"} : Start(u, what)
      \/ Read(u) \/ NotifyLine(u) \/ QueueDone(u) \/ Rollback(u)
      \/ Checkin(u) \/ \E excl \in BOOLEAN : AutoEdit(u, excl)
      \/ WriteStart(u) \/ WriteEnd(u) \/ Answer(u)
      \/ Crash(u)

Spec == Init /\ [][Next]_vars

-----------------------------------------------------------------------------
(* Properties *)

Position == {"idle", "base", "note", "lock", "send", "rollback", "commit", "auto",
             "write", "writing", "answer"}

\* Types of the state, and the bound of CVS/Notify.
TypeOK ==
    /\ lockserver \in BOOLEAN /\ remote \subseteq User
    /\ disk = Torn \/ disk \in [User -> {None} \union Editor]
    /\ writer \in {None} \union User /\ readers \subseteq User /\ overtaken \in BOOLEAN
    /\ editing \subseteq User
    /\ notify \in [User -> Seq(Note)] /\ \A u \in User : Len(notify[u]) <= MaxNotes
    /\ pc \in [User -> Position] /\ job \in [User -> {"send", "commit", "auto"}]
    /\ copy \in [User -> [User -> {None} \union Editor]]
    /\ line \in [User -> 0 .. MaxNotes]
    /\ modified \in [User -> BOOLEAN] /\ refused \in [User -> BOOLEAN]
    /\ crashes \in 0 .. MaxCrash /\ excused \subseteq User

Quiet(u) == pc[u] = "idle" /\ notify[u] = << >> /\ disk # Torn

\* A user who has an edit in her working directory, and nothing left to tell the
\* repository, is one of its editors, whatever the others do and whatever is cut
\* off, but for the flaws that excused records.
EditingIsListed ==
    \A u \in editing \ excused : Quiet(u) => disk[u] # None

\* An editor in the repository has the file in edit, or has the end of the edit
\* in her queue, but for the same flaws.
ListedIsEditing ==
    \A u \in User \ (editing \union excused) : Quiet(u) => disk[u] = None

\* Two users never have exclusive edits of the same branch, those that update
\* makes included, unless one of them wrote over the other, was cut off, or made
\* a local edit of the whole file, whose empty tag check_can_edit lets pass.
OneExclusive ==
    disk # Torn =>
      \A u, v \in User \ excused :
        u # v /\ IsExclusive(disk, u) /\ IsExclusive(disk, v) => disk[u].tag # disk[v].tag

\* Commands that take the write lock lose nothing of each other: from fileattr_read
\* to fileattr_write the others are in the file what they are in the tree of who
\* has the lock.  Only an update, which writes after it has given its read lock
\* back, can come between.
LockedIsCurrent ==
    \A u \in User :
      writer = u /\ pc[u] \in {"send", "rollback", "commit", "write"} /\ ~overtaken =>
        disk # Torn /\ \A v \in User \ {u} : disk[v] = copy[u][v]

-----------------------------------------------------------------------------
(* The inductive invariant of FileAttrProofs *)

Inside == {"send", "rollback", "commit", "auto", "write", "writing"}

\* Who is inside has the write lock, alone, but for update; and with a lock server
\* there is none.
LockHolds ==
    /\ lockserver => writer = None
    /\ writer = None => ~overtaken
    /\ ~lockserver => \A u \in User : pc[u] \in Inside /\ job[u] # "auto" => writer = u
    /\ \A u \in User : writer = u => pc[u] \in Inside /\ job[u] # "auto"

\* The job at each position.
JobFits(u) ==
    /\ pc[u] \in {"idle", "base", "note", "send", "rollback"} => job[u] = "send"
    /\ pc[u] \in {"commit", "auto"} => job[u] = pc[u]
    /\ pc[u] = "answer" => job[u] # "auto"
    /\ pc[u] = "answer" => u \in remote
    /\ pc[u] = "rollback" => u \notin remote

\* The queue at each position.
QueueFits(u) ==
    /\ pc[u] = "note" => HasRoom(u)
    /\ pc[u] = "rollback" => notify[u] = << >>
    /\ pc[u] \in {"base", "send"} => notify[u] # << >>
    /\ pc[u] = "lock" /\ job[u] = "send" => notify[u] # << >>
    /\ pc[u] = "answer" /\ job[u] = "send" => line[u] # 0
    /\ u \in remote /\ job[u] = "send" /\ pc[u] \in {"write", "writing"} => line[u] # 0
    /\ u \in remote /\ pc[u] = "send" => line[u] < Len(notify[u])
    /\ u \in remote /\ job[u] # "send" => notify[u] = << >>

\* What is known of the tree at each position.
TreeFits(u) ==
    /\ line[u] # 0 => /\ line[u] <= Len(notify[u]) /\ job[u] = "send"
                     /\ \/ pc[u] = "send"
                        \/ u \in remote /\ pc[u] \in {"lock", "write", "writing", "answer"}
    /\ pc[u] \in {"idle", "base", "note", "commit", "auto"} => ~modified[u] /\ ~refused[u]
    /\ pc[u] = "lock" => ~modified[u] /\ (refused[u] => line[u] # 0) /\ (line[u] # 0 => line[u] < Len(notify[u]))
    /\ pc[u] = "send" /\ line[u] = 0 => ~modified[u] /\ ~refused[u]
    /\ refused[u] => job[u] = "send"

\* Exclusive edits in a tree.
Distinct(editors) ==
    \A u, v \in User \ excused :
      u # v /\ IsExclusive(editors, u) /\ IsExclusive(editors, v) => editors[u].tag # editors[v].tag

AllDistinct == OneExclusive /\ \A w \in User : Distinct(copy[w])

\* While anyone is not excused there is one who writes at most, and the file is
\* torn as long as it lasts.
OneWrites ==
    excused # User => \A u, v \in User :
      pc[u] = "writing" /\ pc[v] = "writing" => u = v /\ disk = Torn

\* The repository has u as an editor, also when what is being written is complete;
\* and it has not.
Listed(u) ==
    /\ disk # Torn => disk[u] # None
    /\ \A v \in User : pc[v] = "writing" => copy[v][u] # None

Unlisted(u) ==
    /\ disk # Torn => disk[u] = None
    /\ \A v \in User : pc[v] = "writing" => copy[v][u] = None

\* The repository and the working directory agree, and the repository and the
\* user's own tree.
Agrees(u) == (u \in editing => Listed(u)) /\ (u \notin editing => Unlisted(u))
Kept(u)   == (copy[u][u] # None => Listed(u)) /\ (copy[u][u] = None => Unlisted(u))

\* The tree of u and her working directory agree.
TreeAgrees(u) == copy[u][u] # None <=> u \in editing

\* The last line of the queue, if there is one, says whether she has an edit.
LastSays(u) ==
    notify[u] # << >> => (notify[u][Len(notify[u])].type = "E" <=> u \in editing)

\* What is known of a user who is not excused before, in and after her command.
OutsideHolds(u) ==
    /\ pc[u] = "base" => notify[u][Len(notify[u])].type = "E"
    /\ pc[u] = "note" => u \notin editing
    /\ pc[u] \in {"idle", "lock"} => LastSays(u)
    /\ pc[u] \in {"idle", "lock"} /\ notify[u] = << >> => Agrees(u)

InsideHolds(u) ==
    /\ pc[u] \in {"send", "rollback", "commit", "auto", "write"} /\ ~modified[u] => Kept(u)
    /\ pc[u] = "writing" => Kept(u)
    /\ pc[u] \in {"commit", "auto"} /\ notify[u] = << >> => TreeAgrees(u)
    /\ pc[u] = "send" => LastSays(u)
    /\ pc[u] = "send" /\ u \notin remote /\ line[u] # 0 /\ ~refused[u] =>
         (notify[u][line[u]].type = "E" <=> copy[u][u] # None)

WriteHolds(u) ==
    pc[u] \in {"write", "writing"} =>
      /\ LastSays(u)
      /\ u \notin remote \/ job[u] = "auto" => (notify[u] = << >> => TreeAgrees(u))
      /\ u \in remote /\ job[u] = "commit" => copy[u][u] = None
      /\ u \in remote /\ job[u] = "send" /\ ~refused[u] =>
           (notify[u][line[u]].type = "E" <=> copy[u][u] # None)

AnswerHolds(u) ==
    pc[u] = "answer" =>
      /\ LastSays(u)
      /\ job[u] = "commit" => Unlisted(u)
      /\ job[u] = "send" /\ ~refused[u] =>
           (line[u] = Len(notify[u]) =>
              (notify[u][line[u]].type = "E" => Listed(u)) /\ (notify[u][line[u]].type = "U" => Unlisted(u)))

Told(u) == OutsideHolds(u) /\ InsideHolds(u) /\ WriteHolds(u) /\ AnswerHolds(u)

IndInv ==
    /\ TypeOK
    /\ LockHolds
    /\ LockedIsCurrent
    /\ \A u \in User : JobFits(u) /\ QueueFits(u) /\ TreeFits(u)
    /\ AllDistinct
    /\ OneWrites
    /\ \A u \in User \ excused : Told(u)
=============================================================================
