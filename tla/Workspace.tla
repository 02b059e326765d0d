----------------------------- MODULE Workspace ------------------------------
(***************************************************************************)
(* One file in the working directories of several users: Classify_File     *)
(* (src/classify.cpp) and what update, commit, add and remove do for each  *)
(* of its answers.  The repository is local, has the trunk only, and uses  *)
(* directory locks.  A commit is therefore alone in it (DirLocks and       *)
(* RcsAccess are about that), and the other commands write only to the     *)
(* working directory of their user, so that one command at a time shows    *)
(* all they can do to each other.  Users change their files also while     *)
(* their commands run, and a command can be cut off between any two        *)
(* changes of the file, the entry and the repository.                      *)
(* Not modelled: RCS_merge's answer that there is nothing to merge, which  *)
(* takes a file equal to its base and such a file is not merged.           *)
(*                                                                         *)
(* A text is the set of the edits in it.  A time stamp matters only as far *)
(* as the file's equals the one in its entry; sleep_past makes sure that   *)
(* they differ after an edit that follows a command.  Tags, keyword modes, *)
(* edit data and the -n option are left out.                               *)
(***************************************************************************)
EXTENDS Naturals, Sequences, FiniteSets

CONSTANTS
    User,
    Edits,      \* edits that users can make
    None,       \* no file, no entry, no text
    MaxRev,     \* bound on the number of revisions
    MaxCrash    \* bound on the number of commands cut off

ASSUME NoneAssumption  == \A t \in SUBSET Edits : t # None
ASSUME BoundAssumption == MaxRev \in Nat \ {0} /\ MaxCrash \in Nat

VARIABLES
    binary,     \* the file cannot be merged
    revs,       \* the revisions on the trunk: text and whether dead
    file,       \* the text of each user's working file, or None
    entry,      \* the line for it in CVS/Entries, or None
    saved,      \* the .#file.REV copies of each user
    pc,         \* where the user's command is
    crashes,    \* commands cut off so far
    made,       \* history: the edits made so far
    discarded,  \* history: those in a file that its user removed or tossed
    raced,      \* history: those made while a command of that user ran
    marked,     \* history: users whose file has unresolved conflicts
    replaced,   \* history: those in a copy or a file that was overwritten unseen
    buried,     \* history: those in a head that was removed unseen
    remerged    \* history: users whose file was merged with unresolved conflicts

history == <<made, discarded, raced, marked, replaced, buried, remerged>>
vars == <<binary, revs, file, entry, saved, pc, crashes,
          made, discarded, raced, marked, replaced, buried, remerged>>

Text == SUBSET Edits

\* gone: the revision has a minus sign.  stamp: the time stamp is that of the
\* file.  conflict: the file had conflicts, and its time stamp then was that
\* of the file now ("same") or was not ("changed").
Entry == [rev : 0 .. MaxRev, gone : BOOLEAN, stamp : BOOLEAN,
          conflict : {"no", "same", "changed"}]
ASSUME EntryAssumption == \A e \in Entry : e # None

Updating   == {"checkout", "stamp", "merge", "merged", "conflicts", "unlink", "resurrect",
               "revive", "revived"}
Committing == {"checkin", "compare", "register", "remove", "bury", "unlinkdead",
               "scratch"}

-----------------------------------------------------------------------------
(* Version_TS and Classify_File *)

HeadRev     == Len(revs)
HeadText == revs[HeadRev].text
Live     == HeadRev > 0 /\ ~revs[HeadRev].dead
Base(u)  == revs[entry[u].rev].text

Normal(u) == entry[u] # None /\ entry[u].rev > 0 /\ ~entry[u].gone
Exists(u) == file[u] # None

\* RCS_cmp_file: a file with conflict markers is like no revision.
SameText(u, text) == file[u] = text /\ u \notin marked

\* The time stamp tells, or else No_Difference.
Differs(u) == ~entry[u].stamp /\ ~SameText(u, Base(u))

Classify_File(u) ==
    CASE entry[u] = None ->
           IF HeadRev = 0 THEN "UNKNOWN"
           ELSE IF ~Live THEN IF Exists(u) THEN "UNKNOWN" ELSE "UPTODATE"
           ELSE IF Exists(u) /\ ~SameText(u, HeadText) THEN "CONFLICT" ELSE "CHECKOUT"
      [] entry[u] # None /\ entry[u].rev = 0 ->
           IF ~Exists(u) THEN "REMOVE_ENTRY" ELSE IF Live THEN "CONFLICT" ELSE "ADDED"
      [] entry[u] # None /\ entry[u].gone ->
           IF Exists(u) THEN "REMOVED"
           ELSE IF ~Live THEN "REMOVE_ENTRY"
           ELSE IF entry[u].rev = HeadRev THEN "REMOVED" ELSE "CONFLICT"
      [] Normal(u) ->
           IF ~Live THEN IF Exists(u) /\ Differs(u) THEN "CONFLICT" ELSE "REMOVE_ENTRY"
           ELSE IF ~Exists(u) THEN "CHECKOUT"
           ELSE IF entry[u].rev = HeadRev
             THEN IF Differs(u) THEN "MODIFIED" ELSE "UPTODATE"
             ELSE IF Differs(u) THEN "NEEDS_MERGE" ELSE "PATCH"

EntryAt(r, stamp, conflict) ==
    [rev |-> r, gone |-> FALSE, stamp |-> stamp, conflict |-> conflict]

\* No_Difference registers a file that is as the repository has it.
Settled(u) ==
    IF entry[u] = None /\ Live /\ SameText(u, HeadText) THEN EntryAt(HeadRev, TRUE, "no")
    ELSE IF Normal(u) /\ Exists(u) /\ ~entry[u].stamp /\ ~Differs(u)
      THEN EntryAt(entry[u].rev, TRUE, "no")
    ELSE entry[u]

Init ==
    /\ binary \in BOOLEAN
    /\ revs \in {<< >>, <<[text |-> {}, dead |-> FALSE]>>}
    /\ file = [u \in User |-> None]
    /\ entry = [u \in User |-> None]
    /\ saved = [u \in User |-> [r \in 0 .. MaxRev |-> None]]
    /\ pc = [u \in User |-> "idle"]
    /\ crashes = 0
    /\ made = {} /\ discarded = {} /\ raced = {} /\ marked = {} /\ replaced = {}
    /\ buried = {} /\ remerged = {}

-----------------------------------------------------------------------------
(* The user *)

AllIdle == \A u \in User : pc[u] = "idle"

\* The file is written at another time than its entry has.
Restamp(u) ==
    IF entry[u] = None THEN None
    ELSE [entry[u] EXCEPT !.stamp = FALSE,
                          !.conflict = IF @ = "same" THEN "changed" ELSE @]

\* A change that a command is about to register or to overwrite is a race.
EditFile(u) ==
    \E e \in Edits \ made :
      /\ \A v \in User \ {u} : pc[v] = "idle"
      /\ file' = [file EXCEPT ![u] = {e} \union IF Exists(u) THEN file[u] ELSE {}]
      /\ entry' = [entry EXCEPT ![u] = Restamp(u)]
      /\ made' = made \union {e}
      /\ raced' = IF pc[u] = "idle" THEN raced ELSE raced \union {e}
      /\ marked' \in {marked, marked \ {u}}
      /\ UNCHANGED <<binary, revs, saved, pc, crashes, discarded, replaced, buried, remerged>>

TouchFile(u) ==
    /\ AllIdle
    /\ Exists(u)
    /\ entry' = [entry EXCEPT ![u] = Restamp(u)]
    /\ UNCHANGED <<binary, revs, file, saved, pc, crashes, history>>

DeleteFile(u) ==
    /\ AllIdle
    /\ Exists(u)
    /\ file' = [file EXCEPT ![u] = None]
    /\ discarded' = discarded \union file[u]
    /\ marked' = marked \ {u}
    /\ entry' = [entry EXCEPT ![u] = Restamp(u)]
    /\ UNCHANGED <<binary, revs, saved, pc, crashes, made, raced, replaced, buried, remerged>>

-----------------------------------------------------------------------------
(* update *)

Goto(u, where) == pc' = [pc EXCEPT ![u] = where]
SetFile(u, t)  == file' = [file EXCEPT ![u] = t]
SetEntry(u, e) == entry' = [entry EXCEPT ![u] = e]

\* Mutant: no copy is made.
SaveNothing(u) == UNCHANGED <<saved, replaced>>

\* The copy .#file.REV, REV being the revision in the entry.  An earlier copy
\* of that name is replaced.
Save(u) ==
    LET old == saved[u][entry[u].rev] IN
    /\ saved' = [saved EXCEPT ![u][entry[u].rev] = file[u]]
    /\ replaced' = IF old = None THEN replaced ELSE replaced \union (old \ file[u])

\* T_MODIFIED: the conflict is over when the file has been written since and
\* has no conflict markers.
Resolved(u) ==
    IF entry[u].conflict = "changed" /\ u \notin marked
      THEN [entry[u] EXCEPT !.conflict = "no"]
      ELSE entry[u]

\* update_fileproc; toss is the -C option.
Update(u, toss) ==
    LET status == Classify_File(u) IN
    /\ AllIdle \/ pc[u] = "resurrect"
    /\ CASE status \in {"PATCH", "CHECKOUT"} ->
              /\ Goto(u, "checkout") /\ SetEntry(u, Settled(u))
              /\ UNCHANGED <<saved, discarded, replaced>>
         [] status = "NEEDS_MERGE" /\ ~toss ->
              /\ Goto(u, "merge") /\ UNCHANGED <<entry, saved, discarded, replaced>>
         [] status \in {"MODIFIED", "NEEDS_MERGE"} /\ toss ->
              /\ Goto(u, "checkout") /\ Save(u)
              /\ discarded' = discarded \union file[u]
              /\ UNCHANGED entry
         [] status = "MODIFIED" /\ ~toss ->
              /\ Goto(u, "idle") /\ SetEntry(u, Resolved(u))
              /\ UNCHANGED <<saved, discarded, replaced>>
         [] status = "REMOVE_ENTRY" ->
              /\ Goto(u, "unlink") /\ SetEntry(u, None)
              /\ UNCHANGED <<saved, discarded, replaced>>
         [] status \in {"UNKNOWN", "UPTODATE", "CONFLICT", "ADDED", "REMOVED"} ->
              /\ Goto(u, "idle") /\ SetEntry(u, Settled(u))
              /\ UNCHANGED <<saved, discarded, replaced>>
    /\ UNCHANGED <<binary, revs, file, crashes, made, raced, marked, buried, remerged>>

\* checkout_file writes the file, and registers it with its time stamp.
CheckoutFile(u) ==
    /\ pc[u] = "checkout"
    /\ SetFile(u, HeadText)
    /\ marked' = marked \ {u}
    /\ Goto(u, "stamp")
    /\ entry' = [entry EXCEPT ![u] = Restamp(u)]
    /\ UNCHANGED <<binary, revs, saved, crashes, made, discarded, raced, replaced, buried, remerged>>

\* Mutant: the entry keeps its revision.
CheckoutUnregistered(u) ==
    /\ pc[u] = "stamp"
    /\ SetEntry(u, IF Normal(u) THEN entry[u] ELSE EntryAt(HeadRev, TRUE, "no"))
    /\ Goto(u, "idle")
    /\ UNCHANGED <<binary, revs, file, saved, crashes, history>>

CheckoutRegister(u) ==
    /\ pc[u] = "stamp"
    /\ SetEntry(u, EntryAt(HeadRev, TRUE, "no"))
    /\ Goto(u, "idle")
    /\ UNCHANGED <<binary, revs, file, saved, crashes, history>>

\* Mutant: the changes in the repository are left out.
MineWins(base, mine, theirs) == mine

\* RCS_merge, diff3: the changes from the base to the head go into the file.
Merge(base, mine, theirs) ==
    (mine \intersect theirs) \union (mine \ base) \union (theirs \ base)

\* merge_file: the file is copied to .#file.REV, and merged, with or without
\* conflicts; a file that cannot be merged is replaced by the revision.
MergeFile(u) ==
    /\ pc[u] = "merge"
    /\ Save(u)
    /\ IF binary
         THEN /\ SetFile(u, HeadText)
              /\ Goto(u, "stamp")
              /\ marked' = marked \ {u}
         ELSE /\ SetFile(u, Merge(Base(u), file[u], HeadText))
              /\ \/ Goto(u, "merged") /\ UNCHANGED marked
                 \/ /\ Merge(Base(u), file[u], HeadText) # file[u]
                    /\ Goto(u, "conflicts")
                    /\ marked' = marked \union {u}
    /\ remerged' = IF u \in marked THEN remerged \union {u} ELSE remerged
    /\ entry' = [entry EXCEPT ![u] = Restamp(u)]
    /\ UNCHANGED <<binary, revs, crashes, made, discarded, raced, buried>>

\* Mutant: the merged file is registered with its time stamp.
MergeStamped(u) ==
    /\ pc[u] \in {"merged", "conflicts"}
    /\ SetEntry(u, EntryAt(HeadRev, TRUE, IF pc[u] = "merged" THEN "no" ELSE "same"))
    /\ Goto(u, "idle")
    /\ UNCHANGED <<binary, revs, file, saved, crashes, history>>

\* The time stamp is "Result of merge", and the conflict's that of the file.
MergeRegister(u) ==
    /\ pc[u] \in {"merged", "conflicts"}
    /\ SetEntry(u, EntryAt(HeadRev, FALSE, IF pc[u] = "merged" THEN "no" ELSE "same"))
    /\ Goto(u, "idle")
    /\ UNCHANGED <<binary, revs, file, saved, crashes, history>>

\* scratch_file: the entry is gone, and now the file goes.
UnlinkFile(u) ==
    /\ pc[u] = "unlink"
    /\ SetFile(u, None)
    /\ marked' = marked \ {u}
    /\ Goto(u, "idle")
    /\ UNCHANGED <<binary, revs, entry, saved, crashes, made, discarded, raced, replaced, buried, remerged>>

-----------------------------------------------------------------------------
(* commit *)

\* Mutant: a conflict does not keep the file from being committed.
ConflictIgnored(u, force) == FALSE

\* The file had conflicts and has not been written since.
ConflictStands(u, force) == ~force /\ entry[u].conflict = "same"

\* check_fileproc; force is the -f option, which takes the file as it is, with
\* its conflicts.  Any other status ends the command.
Commit(u, force) ==
    LET found  == Classify_File(u)
        status == IF force /\ found = "UPTODATE" THEN "MODIFIED" ELSE found
    IN
    /\ AllIdle
    /\ force => Exists(u)
    /\ HeadRev < MaxRev
    /\ SetEntry(u, Settled(u))
    /\ \/ /\ \/ status = "ADDED"
             \/ status = "MODIFIED" /\ ~ConflictStands(u, force)
          /\ Goto(u, "checkin")
          /\ marked' = IF force THEN marked \ {u} ELSE marked
       \/ /\ status = "REMOVED"
          /\ Goto(u, "remove")
          /\ UNCHANGED marked
       \/ /\ status \notin {"ADDED", "MODIFIED", "REMOVED"}
          /\ UNCHANGED <<pc, marked>>
    /\ UNCHANGED <<binary, revs, file, saved, crashes, made, discarded, raced, replaced, buried, remerged>>

NewRevision(text, dead) == revs' = Append(revs, [text |-> text, dead |-> dead])

\* Checkin, for a modified and for an added file.
Checkin(u) ==
    /\ pc[u] = "checkin"
    /\ NewRevision(file[u], FALSE)
    /\ marked' = marked \ {u}
    /\ Goto(u, "compare")
    /\ UNCHANGED <<binary, file, entry, saved, crashes, made, discarded, raced, replaced, buried, remerged>>

\* A file that is not what checking it out would give is checked out; a binary
\* one is not compared and stays as it is.
CheckinCompare(u) ==
    /\ pc[u] = "compare"
    /\ IF binary THEN UNCHANGED file ELSE SetFile(u, HeadText)
    /\ Goto(u, "register")
    /\ UNCHANGED <<binary, revs, entry, saved, crashes, history>>

\* Mutant: the entry is one revision ahead.
RegisterNext(u) ==
    /\ pc[u] = "register"
    /\ SetEntry(u, EntryAt(HeadRev + 1, TRUE, "no"))
    /\ Goto(u, "idle")
    /\ UNCHANGED <<binary, revs, file, saved, crashes, history>>

CheckinRegister(u) ==
    /\ pc[u] = "register"
    /\ SetEntry(u, EntryAt(HeadRev, TRUE, "no"))
    /\ Goto(u, "idle")
    /\ UNCHANGED <<binary, revs, file, saved, crashes, history>>

\* remove_file checks the head out, over whatever file there is, checks it in as
\* dead, and RCS_checkin removes it.  Classify_File compares the revisions only
\* when the file is gone: if it is back, the head may be one that its user has
\* never had.
RemoveCheckout(u) ==
    /\ pc[u] = "remove"
    /\ SetFile(u, HeadText)
    /\ SetEntry(u, Restamp(u))
    /\ marked' = marked \ {u}
    /\ replaced' = IF Exists(u) THEN replaced \union (file[u] \ HeadText) ELSE replaced
    /\ buried' = IF Live /\ entry[u].rev # HeadRev THEN buried \union HeadText ELSE buried
    /\ Goto(u, "bury")
    /\ UNCHANGED <<binary, revs, saved, crashes, made, discarded, raced, remerged>>

RemoveCheckin(u) ==
    /\ pc[u] = "bury"
    /\ NewRevision(file[u], TRUE)
    /\ Goto(u, "unlinkdead")
    /\ UNCHANGED <<binary, file, entry, saved, crashes, history>>

RemoveUnlink(u) ==
    /\ pc[u] = "unlinkdead"
    /\ SetFile(u, None)
    /\ Goto(u, "scratch")
    /\ UNCHANGED <<binary, revs, entry, saved, crashes, history>>

RemoveScratch(u) ==
    /\ pc[u] = "scratch"
    /\ SetEntry(u, None)
    /\ Goto(u, "idle")
    /\ UNCHANGED <<binary, revs, file, saved, crashes, history>>

-----------------------------------------------------------------------------
(* add and remove *)

\* add; force is the -f option.  It takes no lock: what a commit at the same
\* time does to it is not modelled.
Add(u, force) ==
    /\ AllIdle
    /\ \/ /\ entry[u] = None /\ ~Live /\ Exists(u)
          /\ SetEntry(u, EntryAt(0, HeadRev > 0, "no"))
          /\ UNCHANGED pc
       \/ /\ entry[u] = None /\ ~Live /\ HeadRev > 0 /\ ~Exists(u)
          /\ Goto(u, "revive")
          /\ UNCHANGED entry
       \/ /\ entry[u] # None
          /\ entry[u].gone
          /\ SetEntry(u, EntryAt(entry[u].rev, FALSE, entry[u].conflict))
          /\ IF Exists(u) THEN force /\ UNCHANGED pc ELSE Goto(u, "resurrect")
    /\ UNCHANGED <<binary, revs, file, saved, crashes, history>>

\* checkout_file of a dead revision, for add: it becomes an added file.
ReviveFile(u) ==
    /\ pc[u] = "revive"
    /\ SetFile(u, HeadText)
    /\ Goto(u, "revived")
    /\ UNCHANGED <<binary, revs, entry, saved, crashes, history>>

ReviveRegister(u) ==
    /\ pc[u] = "revived"
    /\ SetEntry(u, EntryAt(0, TRUE, "no"))
    /\ Goto(u, "idle")
    /\ UNCHANGED <<binary, revs, file, saved, crashes, history>>

\* remove; force is the -f option, which removes the file first.  A file that
\* is there keeps its entry, unless it was only added.
Remove(u, force) ==
    LET left == Exists(u) /\ ~force IN
    /\ AllIdle
    /\ SetEntry(u, IF entry[u] = None THEN None
                   ELSE IF entry[u].rev = 0 THEN None
                   ELSE [entry[u] EXCEPT !.gone = @ \/ ~left])
    /\ IF force /\ Exists(u)
         THEN /\ SetFile(u, None)
              /\ discarded' = discarded \union file[u]
              /\ marked' = marked \ {u}
         ELSE UNCHANGED <<file, discarded, marked>>
    /\ UNCHANGED <<binary, revs, saved, pc, crashes, made, raced, replaced, buried, remerged>>

-----------------------------------------------------------------------------
\* A signal, a fatal error or a crash.
Crash(u) ==
    /\ pc[u] # "idle"
    /\ crashes < MaxCrash
    /\ crashes' = crashes + 1
    /\ Goto(u, "idle")
    /\ UNCHANGED <<binary, revs, file, entry, saved, history>>

Next ==
    \E u \in User :
      \/ EditFile(u) \/ TouchFile(u) \/ DeleteFile(u)
      \/ \E toss \in BOOLEAN : Update(u, toss)
      \/ CheckoutFile(u) \/ CheckoutRegister(u)
      \/ MergeFile(u) \/ MergeRegister(u) \/ UnlinkFile(u)
      \/ \E force \in BOOLEAN : Commit(u, force) \/ Add(u, force) \/ Remove(u, force)
      \/ Checkin(u) \/ CheckinCompare(u) \/ CheckinRegister(u)
      \/ RemoveCheckout(u) \/ RemoveCheckin(u) \/ RemoveUnlink(u) \/ RemoveScratch(u)
      \/ ReviveFile(u) \/ ReviveRegister(u)
      \/ Crash(u)

Spec == Init /\ [][Next]_vars

-----------------------------------------------------------------------------
(* Properties *)

\* Types of the state; an entry names a revision that there is.
TypeOK ==
    /\ binary \in BOOLEAN
    /\ revs \in Seq([text : Text, dead : BOOLEAN]) /\ HeadRev <= MaxRev
    /\ file \in [User -> {None} \union Text]
    /\ entry \in [User -> {None} \union Entry]
    /\ \A u \in User : entry[u] # None => entry[u].rev <= HeadRev
    /\ saved \in [User -> [0 .. MaxRev -> {None} \union Text]]
    /\ pc \in [User -> {"idle"} \union Updating \union Committing]
    /\ crashes \in 0 .. MaxCrash
    /\ made \subseteq Edits /\ discarded \subseteq made /\ raced \subseteq made
    /\ marked \subseteq User
    /\ replaced \subseteq made /\ buried \subseteq made /\ remerged \subseteq User

In(e, text) == text # None /\ e \in text

\* An edit stays in some working file, in a copy or in a revision, whatever
\* commands its user and others give and whatever is cut off, unless its user
\* removed it or made it while a command of hers ran.  Two flaws are excepted:
\* a removal is committed although the file is back, and a copy is overwritten
\* by a later one of the same name.
NoWorkLost ==
    \A e \in made \ (discarded \union raced \union replaced) :
      \/ \E u \in User : In(e, file[u]) \/ \E r \in 0 .. MaxRev : In(e, saved[u][r])
      \/ \E r \in 1 .. HeadRev : e \in revs[r].text

\* A commit does not take another user's work out of the head: what is in one
\* head and not in the next was in a file that its user removed, or in a head that
\* was removed unseen.
HeadKeeps ==
    [][Live /\ Live' => HeadText \ HeadText' \subseteq discarded \union buried]_vars

\* A file that is taken for up to date lacks nothing of the head, and has nothing
\* else but what its user put into it while a command of hers ran.
UpToDateIsEqual ==
    \A u \in User :
      Normal(u) /\ pc[u] \in {"idle"} \union Updating /\ Classify_File(u) = "UPTODATE" =>
        HeadText \subseteq file[u] /\ file[u] \ HeadText \subseteq raced

\* A file with conflicts can be told from its entry, and is not committed
\* before its user has written it, unless another merge into it went well and
\* cleared the mark.
ConflictsAreSeen ==
    \A u \in marked \ remerged :
      /\ pc[u] = "idle" /\ Classify_File(u) = "MODIFIED" => entry[u].conflict # "no"
      /\ pc[u] = "checkin" => entry[u].conflict = "changed"

\* One update is enough: when it ends the file needs no other, unless an added
\* file had disappeared that somebody else added too.
UpdateSettles ==
    [][\A u \in User :
         pc[u] \in Updating /\ pc'[u] = "idle" /\ crashes' = crashes
           /\ ~(pc[u] = "unlink" /\ Live) =>
           Classify_File(u)' \notin {"PATCH", "CHECKOUT", "NEEDS_MERGE", "REMOVE_ENTRY"}]_vars

-----------------------------------------------------------------------------
(* The inductive invariant behind the theorems of WorkspaceProofs *)

\* One command at a time.
Alone(u) == \A v \in User \ {u} : pc[v] = "idle"
OneBusy  == \A u \in User : pc[u] # "idle" => Alone(u)

\* Only edits that were made are anywhere.
TextsMade ==
    /\ \A u \in User :
         /\ file[u] # None => file[u] \subseteq made
         /\ \A r \in 0 .. MaxRev : saved[u][r] # None => saved[u][r] \subseteq made
    /\ \A r \in 1 .. HeadRev : revs[r].text \subseteq made

Given   == discarded \union buried
Mine(u) == IF Exists(u) THEN file[u] ELSE {}

\* What was in a head and is not in this one was given up.
HeadsKept ==
    \A r \in 1 .. HeadRev :
      ~revs[r].dead => revs[r].text \ (IF Live THEN HeadText ELSE {}) \subseteq Given

\* An entry is about a live revision, whose text is in the file or was given up,
\* and with its time stamp the file is that text.
EntryHolds(u) ==
    /\ entry[u] # None /\ entry[u].gone => entry[u].rev > 0
    /\ entry[u] # None /\ entry[u].rev > 0 =>
         /\ ~revs[entry[u].rev].dead
         /\ Base(u) \ Mine(u) \subseteq Given
         /\ entry[u].gone => Base(u) \subseteq Given
    /\ Normal(u) /\ entry[u].stamp /\ Exists(u) =>
         Base(u) \subseteq file[u] /\ file[u] \ Base(u) \subseteq raced

Excused == discarded \union raced \union replaced

Stored(e) ==
    \/ \E v \in User : \E r \in 0 .. MaxRev : In(e, saved[v][r])
    \/ \E r \in 1 .. HeadRev : e \in revs[r].text

\* Where the command of u is, and what it knows there.
CommandKnows(u) ==
    /\ pc[u] \in {"checkout", "stamp", "merge", "merged", "conflicts", "compare", "register"} => Live
    /\ pc[u] \in {"revive", "revived"} => ~Live /\ HeadRev > 0
    /\ pc[u] \in {"stamp", "merge", "merged", "conflicts", "revived", "checkin", "compare",
                  "register", "bury"} => Exists(u)
    /\ pc[u] \in {"unlink", "revive", "revived"} => entry[u] = None
    /\ pc[u] \in {"merge", "merged", "conflicts", "resurrect"} => Normal(u)
    /\ pc[u] \in {"merge", "merged", "conflicts"} => entry[u].rev < HeadRev
    /\ pc[u] \in {"remove", "bury", "unlinkdead", "scratch"} => entry[u] # None /\ entry[u].gone
    /\ pc[u] \in {"checkin", "remove", "bury"} => HeadRev < MaxRev

\* What it is about to overwrite is somewhere else.
OverwritesStored(u) ==
    pc[u] \in {"checkout", "unlink", "revive"} =>
      Mine(u) \subseteq Excused \union {e \in made : Stored(e)}

\* What it is about to register, or to check in, has what the head has.
FileHasHead(u) ==
    /\ pc[u] \in {"stamp", "compare", "register"} => HeadText \subseteq file[u]
    /\ pc[u] \in {"merged", "conflicts"} => HeadText \ file[u] \subseteq Given
    /\ pc[u] = "checkin" /\ Live => HeadText \ file[u] \subseteq Given
    /\ pc[u] = "bury" /\ Live => HeadText \subseteq Given

\* What it is about to register with a time stamp, or to remove, is the head.
HeadHasFile(u) ==
    /\ pc[u] \in {"stamp", "compare", "register", "unlinkdead"} => Mine(u) \ HeadText \subseteq raced
    /\ pc[u] = "compare" /\ Normal(u) /\ entry[u].stamp =>
         Base(u) \subseteq HeadText /\ HeadText \ Base(u) \subseteq raced

PlaceHolds(u) ==
    CommandKnows(u) /\ OverwritesStored(u) /\ FileHasHead(u) /\ HeadHasFile(u)

\* A file with conflict markers has the entry of the merge that made them, or
\* one that the merge was cut off before it could replace.
MarkHolds(u) ==
    u \in marked =>
      /\ Exists(u) /\ Normal(u) /\ ~entry[u].stamp
      /\ pc[u] \in {"idle", "checkout", "merge", "merged", "conflicts", "checkin"}
      /\ u \notin remerged =>
           /\ pc[u] # "merged"
           /\ entry[u].rev < HeadRev \/ entry[u].conflict # "no"
           /\ pc[u] = "checkin" => entry[u].conflict = "changed"

IndInv ==
    /\ TypeOK /\ OneBusy /\ TextsMade /\ HeadsKept /\ NoWorkLost
    /\ \A u \in User : EntryHolds(u) /\ PlaceHolds(u) /\ MarkHolds(u)
=============================================================================
