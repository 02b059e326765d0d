------------------------------- MODULE Entries ------------------------------
(***************************************************************************)
(* The entries of one working directory: src/entries.cpp, and the search   *)
(* for subdirectories in src/find_names.cpp.  A command reads CVS/Entries, *)
(* CVS/Entries.Extra and CVS/Entries.Log into a list, records every change *)
(* of the list in CVS/Entries.Log, and rewrites CVS/Entries when it ends.  *)
(* It can be cut off between any two system calls, by a signal, a fatal    *)
(* error or a crash; the next command starts from the files.               *)
(*                                                                         *)
(* CVS/Entries.Extra.Log is written but never read, and CVS/Entries.Old is *)
(* never read either: both are left out.  The backup files are written     *)
(* from the start each time, so that what an earlier process left in them  *)
(* does not matter.  A command with -n changes its list but writes none of *)
(* these files: it does not happen here.                                   *)
(***************************************************************************)
EXTENDS Naturals, Sequences

CONSTANTS
    File,       \* names of files
    Sub,        \* names of subdirectories
    Data,       \* revision, timestamp, options and tag of a file's entry
    Edit,       \* edit revision, tag and bug id of a file's entry
    DirData,    \* the data of a subdirectory's entry
    Star,       \* the edit revision `*': keep what was there
    None,       \* no entry, or no edit data
    MaxLog,     \* bound: no change when Entries.Log has that many lines
    MaxFaults   \* bounds on commands cut off and on failing system calls

Name  == File \union Sub
Value == Data \union {DirData}

ASSUME NameAssumption  == File \intersect Sub = {}
ASSUME ValueAssumption == None \notin Value /\ DirData \notin Data
ASSUME EditAssumption  == None \notin Edit /\ Star \notin Edit /\ Star # None
ASSUME BoundAssumption == MaxLog \in Nat /\ MaxFaults \in [abort : Nat, io : Nat]

VARIABLES
    entries,   \* CVS/Entries: the data of each name
    dline,     \* CVS/Entries has an empty D line
    extra,     \* CVS/Entries.Extra: the edit data of each name
    logfile,   \* CVS/Entries.Log exists
    log,       \* its lines
    present,   \* the subdirectories that are there and have a CVS directory
    list,      \* the list of the process: the data of each name
    edits,     \* and its edit data
    subdirs,   \* sdtp is NULL or sdtp->subdirs: all subdirectories are listed
    found,     \* the subdirectories that register_subdir_proc has yet to register
    pc,        \* where the process is
    after,     \* what follows write_entries
    faults,    \* aborts and failures so far
    slip       \* history: the mishaps so far that the code does not provide for

fileVars == <<entries, dline, extra, logfile, log>>
listVars == <<list, edits, subdirs>>
vars == <<entries, dline, extra, logfile, log, present, list, edits, subdirs,
          found, pc, after, faults, slip>>

-----------------------------------------------------------------------------
(* What a process reads *)

Line == [cmd : {"A", "R"}, name : Name, data : Value]

Mentioned(n) == \E i \in DOMAIN log : log[i].name = n

\* The last line on a name decides: AddEntryNode replaces what is there, and
\* an R takes it out.
LastLine(n) ==
    log[CHOOSE i \in DOMAIN log :
          log[i].name = n /\ \A j \in DOMAIN log : log[j].name = n => j <= i]

\* Entries_Open: the Entries file and then the log.
ReadData(n) ==
    IF Mentioned(n)
      THEN IF LastLine(n).cmd = "A" THEN LastLine(n).data ELSE None
      ELSE entries[n]

\* Mutant: the edit data is looked up after the log has been read.
ReadEditLate(n) == IF ReadData(n) = None THEN None ELSE extra[n]

\* Entries_Open: Entries.Extra is read before the log, and an entry from the
\* log has no edit data.
ReadEdit(n) == IF Mentioned(n) \/ entries[n] = None THEN None ELSE extra[n]

\* fgetentent saw a line that begins with D, be it an addition or a removal.
SawDir ==
    \/ dline
    \/ \E n \in Name : entries[n] = DirData
    \/ \E i \in DOMAIN log : log[i].data = DirData

Init ==
    /\ entries = [n \in Name |-> None]
    /\ dline \in BOOLEAN
    /\ extra = [n \in Name |-> None]
    /\ logfile = FALSE
    /\ log = << >>
    /\ present \in IF dline THEN {{}} ELSE SUBSET Sub
    /\ list = [n \in Name |-> None]
    /\ edits = [n \in Name |-> None]
    /\ subdirs = FALSE
    /\ found = {}
    /\ pc = "none"
    /\ after = "none"
    /\ faults = [abort |-> 0, io |-> 0]
    /\ slip = {}

\* A system call fails.
Failure ==
    /\ faults.io < MaxFaults.io
    /\ faults' = [faults EXCEPT !.io = @ + 1]

\* Mutant: the log is left for write_entries to remove, but not read.
OpenWithoutLog ==
    /\ pc = "none"
    /\ list' = entries
    /\ edits' = extra
    /\ subdirs' = SawDir
    /\ pc' = IF logfile THEN "write" ELSE "ready"
    /\ after' = "ready"
    /\ UNCHANGED <<fileVars, present, found, faults, slip>>

\* Entries_Open reads everything, and rewrites Entries if there is a log.
Entries_Open ==
    /\ pc = "none"
    /\ list' = [n \in Name |-> ReadData(n)]
    /\ edits' = [n \in Name |-> ReadEdit(n)]
    /\ subdirs' = SawDir
    /\ pc' = IF logfile THEN "write" ELSE "ready"
    /\ after' = "ready"
    /\ UNCHANGED <<fileVars, present, found, faults, slip>>

-----------------------------------------------------------------------------
(* write_entries *)

\* Both backup files are written; if one cannot be opened write_entries
\* returns and leaves the log.
WriteBackup ==
    /\ pc = "write"
    /\ \/ pc' = "rename" /\ UNCHANGED faults
       \/ Failure /\ pc' = after
    /\ UNCHANGED <<fileVars, present, listVars, found, after, slip>>

\* Mutant: the log is removed before the new files are there.
LogFirst ==
    /\ pc = "rename"
    /\ logfile' = FALSE /\ log' = << >>
    /\ pc' = "extra"
    /\ UNCHANGED <<entries, dline, extra, present, listVars, found, after, faults, slip>>

\* Entries.Backup becomes Entries; with no subdirectory in it and all of
\* them known it has a D line.
RenameEntries ==
    /\ pc = "rename"
    /\ entries' = list
    /\ dline' = (subdirs /\ \A n \in Name : list[n] # DirData)
    /\ pc' = "extra"
    /\ UNCHANGED <<extra, logfile, log, present, listVars, found, after, faults, slip>>

\* Mutant: Entries.Extra is not rewritten.
ExtraForgotten ==
    /\ pc = "extra"
    /\ pc' = "unlink"
    /\ UNCHANGED <<fileVars, present, listVars, found, after, faults, slip>>

\* Entries.Extra.Backup becomes Entries.Extra.
RenameExtra ==
    /\ pc = "extra"
    /\ extra' = [n \in Name |-> IF list[n] = None THEN None ELSE edits[n]]
    /\ pc' = "unlink"
    /\ UNCHANGED <<entries, dline, logfile, log, present, listVars, found, after, faults, slip>>

\* The log is removed; if it cannot be it stays, with a warning.
UnlinkLog ==
    /\ pc = "unlink"
    /\ \/ logfile' = FALSE /\ log' = << >> /\ UNCHANGED faults
       \/ Failure /\ UNCHANGED <<logfile, log>>
    /\ pc' = after
    /\ UNCHANGED <<entries, dline, extra, present, listVars, found, after, slip>>

\* Entries_Close.
Entries_Close ==
    /\ pc = "ready"
    /\ pc' = IF logfile THEN "write" ELSE "exit"
    /\ after' = "exit"
    /\ UNCHANGED <<fileVars, present, listVars, found, faults, slip>>

\* The memory of the process is gone.
Forget ==
    /\ list' = [n \in Name |-> None]
    /\ edits' = [n \in Name |-> None]
    /\ subdirs' = FALSE
    /\ found' = {}
    /\ pc' = "none"
    /\ after' = "none"

\* dellist.
Exit ==
    /\ pc = "exit"
    /\ Forget
    /\ UNCHANGED <<fileVars, present, faults, slip>>

-----------------------------------------------------------------------------
(* Changes of the list *)

\* Lines are appended to the log.
Logged(lines) == logfile' = TRUE /\ log' = log \o lines

\* A command makes changes while the log is short.
Changes == pc = "ready" /\ Len(log) < MaxLog

\* Mutant: a removal is logged by the name alone.
LogLineBare(cmd, n, d) ==
    [cmd |-> cmd, name |-> n, data |-> IF cmd = "R" THEN None ELSE d]

LogLine(cmd, n, d) == [cmd |-> cmd, name |-> n, data |-> d]

\* write_ent_proc writes the line that follows the command letter, and
\* write_ent_ex_proc writes it to the same file once more, without a
\* letter: fgetentent takes that for an addition.
Recorded(cmd, n, d) == <<LogLine(cmd, n, d), LogLine("A", n, d)>>

SetEntry(n, d, e) ==
    /\ list' = [list EXCEPT ![n] = d]
    /\ edits' = [edits EXCEPT ![n] = e]

\* Register: an edit revision of `*' keeps the edit data of the old entry.
\* If the log cannot be opened only the list has the change.
Register(n, d, e) ==
    /\ Changes
    /\ SetEntry(n, d, IF e = Star /\ list[n] # None THEN edits[n] ELSE e)
    /\ \/ Logged(Recorded("A", n, d)) /\ UNCHANGED <<faults, slip>>
       \/ /\ Failure
          /\ slip' = slip \union {"unlogged"}
          /\ UNCHANGED <<logfile, log>>
    /\ UNCHANGED <<entries, dline, extra, present, subdirs, found, pc, after>>

\* Scratch_Entry.
Scratch_Entry(n) ==
    /\ Changes
    /\ list[n] # None
    /\ Logged(Recorded("R", n, list[n]))
    /\ SetEntry(n, None, None)
    /\ UNCHANGED <<entries, dline, extra, present, subdirs, found, pc, after, faults, slip>>

\* Rename_Entry.  addnode does not replace an entry that is already there.
Rename_Entry(from, to) ==
    /\ Changes
    /\ from # to /\ list[from] # None
    /\ Logged(Recorded("R", from, list[from]) \o Recorded("A", to, list[from]))
    /\ IF list[to] = None
         THEN /\ list' = [list EXCEPT ![from] = None, ![to] = list[from]]
              /\ edits' = [edits EXCEPT ![from] = None, ![to] = edits[from]]
              /\ UNCHANGED slip
         ELSE /\ SetEntry(from, None, None)
              /\ slip' = slip \union {"over"}
    /\ UNCHANGED <<entries, dline, extra, present, subdirs, found, pc, after, faults>>

-----------------------------------------------------------------------------
(* Subdirectories *)

Unlisted == {s \in present : list[s] = None}

\* A subdirectory is recorded while others are unlisted: the next process
\* takes all of them for listed.
Partial(others) == IF subdirs \/ others = {} THEN slip ELSE slip \union {"partial"}

\* Subdir_Register in a directory that was just made.
Subdir_Register(s) ==
    /\ Changes
    /\ Logged(<<LogLine("A", s, DirData)>>)
    /\ SetEntry(s, DirData, None)
    /\ present' = present \union {s}
    /\ slip' = Partial(Unlisted \ {s})
    /\ UNCHANGED <<entries, dline, extra, subdirs, found, pc, after, faults>>

\* Subdir_Deregister of a directory that was just removed.
Subdir_Deregister(s) ==
    /\ Changes
    /\ Logged(<<LogLine("R", s, DirData)>>)
    /\ SetEntry(s, None, None)
    /\ present' = present \ {s}
    /\ slip' = Partial(Unlisted \ {s})
    /\ UNCHANGED <<entries, dline, extra, subdirs, found, pc, after, faults>>

\* Mutant: Subdirs_Known is called although subdirectories were found.
FindNothing ==
    /\ pc = "ready"
    /\ ~subdirs
    /\ subdirs' = TRUE
    /\ logfile' = TRUE
    /\ UNCHANGED <<entries, dline, extra, log, present, list, edits, found, pc, after, faults, slip>>

\* Find_Directories in a directory whose Entries file does not list the
\* subdirectories: it looks for them.  If there is none Subdirs_Known makes
\* a log, so that Entries_Close does something.
Find_Directories ==
    /\ pc = "ready"
    /\ ~subdirs
    /\ IF Unlisted = {}
         THEN /\ subdirs' = TRUE
              /\ logfile' = TRUE
              /\ UNCHANGED <<found, pc>>
         ELSE /\ found' = Unlisted
              /\ pc' = "finding"
              /\ UNCHANGED <<subdirs, logfile>>
    /\ UNCHANGED <<entries, dline, extra, log, present, list, edits, after, faults, slip>>

\* register_subdir_proc, for each one that was found.
RegisterFound(s) ==
    /\ pc = "finding"
    /\ s \in found
    /\ Logged(<<LogLine("A", s, DirData)>>)
    /\ SetEntry(s, DirData, None)
    /\ found' = found \ {s}
    /\ pc' = IF found = {s} THEN "ready" ELSE "finding"
    /\ UNCHANGED <<entries, dline, extra, present, subdirs, after, faults, slip>>

-----------------------------------------------------------------------------
(* Faults *)

\* A signal, a fatal error or a crash: nothing more is written.
Abort ==
    /\ pc # "none"
    /\ faults.abort < MaxFaults.abort
    /\ faults' = [faults EXCEPT !.abort = @ + 1]
    /\ slip' = IF found = {} THEN slip ELSE slip \union {"partial"}
    /\ Forget
    /\ UNCHANGED <<fileVars, present>>

-----------------------------------------------------------------------------
Next ==
    \/ Entries_Open \/ Entries_Close \/ Exit
    \/ WriteBackup \/ RenameEntries \/ RenameExtra \/ UnlinkLog
    \/ \E n \in File : \/ \E d \in Data : \E e \in Edit \union {None, Star} : Register(n, d, e)
                       \/ Scratch_Entry(n)
                       \/ \E m \in File : Rename_Entry(n, m)
    \/ \E s \in Sub : Subdir_Register(s) \/ Subdir_Deregister(s) \/ RegisterFound(s)
    \/ Find_Directories
    \/ Abort

Spec == Init /\ [][Next]_vars

-----------------------------------------------------------------------------
(* Properties *)

Place  == {"none", "ready", "finding", "write", "rename", "extra", "unlink", "exit"}
Mishap == {"unlogged", "over", "partial"}

\* Types of the state.
TypeOK ==
    /\ entries \in [Name -> Value \union {None}]
    /\ dline \in BOOLEAN
    /\ extra \in [Name -> Edit \union {None, Star}]
    /\ logfile \in BOOLEAN
    /\ log \in Seq(Line)
    /\ present \subseteq Sub
    /\ list \in [Name -> Value \union {None}]
    /\ edits \in [Name -> Edit \union {None, Star}]
    /\ subdirs \in BOOLEAN
    /\ found \subseteq Sub
    /\ pc \in Place
    /\ after \in {"none", "ready", "exit"}
    /\ faults \in [abort : Nat, io : Nat]
    /\ slip \subseteq Mishap

Running == pc # "none"
Exact   == slip \intersect {"unlogged", "over"} = {}

\* There is never data in the list that the files do not have, at any step
\* of a change or of write_entries: a process that is cut off loses no entry
\* it has registered.
NothingOnlyInMemory ==
    Running /\ Exact => \A n \in Name : list[n] # None => ReadData(n) = list[n]

\* The edit data that the next process reads is that of the entry it reads
\* with it, or none: Entries and Entries.Extra are renamed one after the
\* other, and the log has no edit data.
EditNeverStale ==
    Running /\ Exact => \A n \in Name : ReadEdit(n) \in {edits[n], None} \/ list[n] = None

\* A command that ends in the normal way leaves exactly its list, removals
\* and edit data included, also after commands that were cut off, unless a
\* file could not be written.
CloseSettles ==
    pc = "exit" /\ faults.io = 0 =>
        \A n \in Name : ReadData(n) = list[n] /\ ReadEdit(n) = edits[n]

\* When the files say that all subdirectories are listed, they are.
KnownIsComplete ==
    pc = "none" /\ "partial" \notin slip /\ Exact /\ SawDir =>
        \A s \in present : ReadData(s) = DirData

-----------------------------------------------------------------------------
(* Entries implements EntryStore *)

Stored == [n \in Name |-> ReadData(n)]

Store == INSTANCE EntryStore WITH
    stored  <- Stored,
    running <- Running,
    memory  <- IF Running THEN list ELSE Stored,
    healthy <- Exact

\* What is registered is stored at once, the store only moves towards the
\* list, and a command that is cut off loses nothing but removals.
ImplementsEntryStore == Store!Spec

-----------------------------------------------------------------------------
(* The inductive invariant behind the theorems of EntriesProofs *)

\* Where write_entries is: what it has written is the list of the process, and
\* a log without a file is empty.
WriteOrder ==
    /\ Running => after \in {"ready", "exit"}
    /\ ~logfile => log = << >>
    /\ pc \in {"extra", "unlink"} => entries = list
    /\ pc = "unlink" => extra = [n \in Name |-> IF list[n] = None THEN None ELSE edits[n]]
    /\ \A n \in Name : list[n] = None => edits[n] = None

\* With no failure so far, a process without a log has exactly what is stored.
NoLogNoChange ==
    faults.io = 0 /\ (pc = "exit" \/ (pc = "ready" /\ ~logfile)) =>
        /\ log = << >> /\ entries = list
        /\ \A n \in Name : ReadEdit(n) = edits[n]

IndInv ==
    /\ TypeOK
    /\ WriteOrder
    /\ NoLogNoChange
    /\ NothingOnlyInMemory
    /\ EditNeverStale

\* A name of a subdirectory is never the name of a file's entry.
KindLine == {x \in Line : x.name \in Sub => x.data = DirData}

\* Behind KnownIsComplete: a process that knows all subdirectories, whose files
\* will say so, or that is about to register them, has listed the ones that are
\* there, but for those that register_subdir_proc will register next.
KnownInv ==
    /\ found # {} => pc = "finding"
    /\ \A s \in Sub : list[s] \in {None, DirData} /\ entries[s] \in {None, DirData}
    /\ log \in Seq(KindLine)
    /\ "partial" \notin slip /\ Exact =>
         /\ Running /\ (SawDir \/ subdirs \/ pc = "finding") =>
              \A s \in present : list[s] = DirData \/ s \in found
         /\ ~Running /\ SawDir => \A s \in present : ReadData(s) = DirData
=============================================================================
