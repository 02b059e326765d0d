------------------------------ MODULE DirLocks ------------------------------
(***************************************************************************)
(* The locks of src/lock.cpp in a repository without a lock server: the    *)
(* directory `#cvs.lock' is the master lock of a repository directory, the *)
(* files `#cvs.rfl.*' are its read locks, and a writer keeps the master    *)
(* lock and leaves a `#cvs.wfl.*' for people to look at.  A process runs   *)
(* commands; each command reads its directories one at a time              *)
(* (src/recurse.cpp), or locks all of them for writing                     *)
(* (lock_tree_for_write), or is a notification of the server, which locks  *)
(* one directory (lock_dir_for_write).                                     *)
(*                                                                         *)
(* Every system call is a step, and so is every assignment to have_lckdir: *)
(* a signal can arrive between the two.                                    *)
(***************************************************************************)
EXTENDS Naturals, Sequences

CONSTANTS
    Proc,       \* the processes
    Dir,        \* the repository directories, in the order of fsortcmp
    Script,     \* the commands of each process, in order
    None,       \* no process
    LockDir,    \* CVSROOT/config says where the lock files go
    MaxFaults   \* bounds on kills, signals and failing system calls

Command == [kind : {"read", "write", "notify"}, dirs : (SUBSET Dir) \ {{}}]

ASSUME DirAssumption     == Dir \subseteq Nat
ASSUME ScriptAssumption  == Script \in [Proc -> Seq(Command) \ {<< >>}]
ASSUME NoneAssumption    == None \notin Proc
ASSUME LockDirAssumption == LockDir \in BOOLEAN
ASSUME FaultAssumption   == MaxFaults \in [kill : Nat, signal : Nat, io : Nat]

VARIABLES
    lckdir,    \* who made the `#cvs.lock' of each directory
    rfl,       \* the read locks of each directory
    wfl,       \* the write locks of each directory
    pc,        \* where each process is
    cmd,       \* its command
    todo,      \* the directories it still has to lock, the present one included
    listed,    \* global_readlock or locklist: what remove_locks has to go through
    have,      \* the directories with have_lckdir set
    readlock,  \* the name of the read lock is known
    why,       \* what it does after remove_locks
    faults,    \* kills, signals and failures so far
    slip       \* history: the mishaps so far that the code does not provide for

fileVars == <<lckdir, rfl, wfl>>
listVars == <<cmd, todo, listed>>
vars == <<lckdir, rfl, wfl, pc, cmd, todo, listed, have, readlock, why, faults, slip>>

-----------------------------------------------------------------------------
(* State *)

Locking  == {"mkdir", "stat", "have", "readers", "file", "clear", "cleared"}
Removing == {"unlink", "rmdir", "forget"}
Idle     == {"start", "done", "gone"}
Mishap   == {"mkdir", "rmdir", "cleanup", "fclose", "remove", "unlocked"}

\* The first name of a sorted list.
First(S) == CHOOSE d \in S : \A e \in S : d <= e

Kind(p)  == Script[p][cmd[p]].kind
Dirs(p)  == Script[p][cmd[p]].dirs
Reads(p) == Kind(p) = "read"

Here(p)  == First(todo[p])    \* the directory being locked
There(p) == First(listed[p])  \* the directory being unlocked

\* Lock_Cleanup, which does not enter itself again, rather than the
\* remove_locks of Writer_Lock.
InLockCleanup(p) == pc[p] \in Removing /\ why[p] # "retry"

Goto(p, label) == pc' = [pc EXCEPT ![p] = label]
RemoveThen(p, next) == Goto(p, "unlink") /\ why' = [why EXCEPT ![p] = next]

Init ==
    /\ lckdir = [d \in Dir |-> None]
    /\ rfl = [d \in Dir |-> {}]
    /\ wfl = [d \in Dir |-> {}]
    /\ pc = [p \in Proc |-> "start"]
    /\ cmd = [p \in Proc |-> 1]
    /\ todo = [p \in Proc |-> {}]
    /\ listed = [p \in Proc |-> {}]
    /\ have = [p \in Proc |-> {}]
    /\ readlock = [p \in Proc |-> FALSE]
    /\ why = [p \in Proc |-> "end"]
    /\ faults = [kill |-> 0, signal |-> 0, io |-> 0]
    /\ slip = {}

\* A system call fails.
Failure ==
    /\ faults.io < MaxFaults.io
    /\ faults' = [faults EXCEPT !.io = @ + 1]

\* A rmdir or an unlink fails: a message is printed, the lock stays, and the
\* process goes on as if it were gone.
RemovalFails ==
    /\ Failure
    /\ slip' = slip \union {"remove"}

-----------------------------------------------------------------------------
(* Taking the locks *)

\* Reader_Lock of the first directory, or Writer_Lock of them all.
Start(p) ==
    /\ pc[p] = "start"
    /\ todo' = [todo EXCEPT ![p] = Dirs(p)]
    /\ listed' = [listed EXCEPT ![p] = IF Reads(p) THEN {First(Dirs(p))} ELSE Dirs(p)]
    /\ readlock' = [readlock EXCEPT ![p] = @ \/ Reads(p)]
    /\ Goto(p, "mkdir")
    /\ UNCHANGED <<fileVars, cmd, have, why, faults, slip>>

\* What an L_ERROR leads to: Reader_Lock and lock_tree_for_write give up,
\* lock_dir_for_write does not look at what Writer_Lock returns.
AfterError(p) == IF Kind(p) = "notify" THEN "unlocked" ELSE "exit"

\* set_lock: mkdir of `#cvs.lock' succeeds, or finds it there, or fails for
\* another reason (as does a stat that fails): L_ERROR.
Mkdir(p) ==
    /\ pc[p] = "mkdir"
    /\ \/ /\ lckdir[Here(p)] = None
          /\ lckdir' = [lckdir EXCEPT ![Here(p)] = p]
          /\ Goto(p, "have")
          /\ UNCHANGED <<readlock, why, faults>>
       \/ /\ lckdir[Here(p)] # None
          /\ Goto(p, "stat")
          /\ UNCHANGED <<lckdir, readlock, why, faults>>
       \/ /\ Failure
          /\ readlock' = [readlock EXCEPT ![p] = @ /\ ~Reads(p)]
          /\ RemoveThen(p, AfterError(p))
          /\ UNCHANGED lckdir
    /\ UNCHANGED <<rfl, wfl, listVars, have, slip>>

\* Mutant: a writer that finds a lock sleeps without giving back what it has.
StatKeeping(p) ==
    /\ pc[p] = "stat"
    /\ IF Reads(p) \/ lckdir[Here(p)] = None
         THEN Goto(p, "mkdir") /\ UNCHANGED <<why, listed>>
         ELSE RemoveThen(p, "retry") /\ listed' = [listed EXCEPT ![p] = {}]
    /\ UNCHANGED <<fileVars, cmd, todo, have, readlock, faults, slip>>

\* set_lock looks at the lock it did not get.  A reader sleeps and tries
\* again; a writer first gives back what it has, unless the lock has gone.
Stat(p) ==
    /\ pc[p] = "stat"
    /\ IF Reads(p) \/ lckdir[Here(p)] = None
         THEN Goto(p, "mkdir") /\ UNCHANGED why
         ELSE RemoveThen(p, "retry")
    /\ UNCHANGED <<fileVars, listVars, have, readlock, faults, slip>>

\* Mutant: have_lckdir is not set.
HaveForgotten(p) ==
    /\ pc[p] = "have"
    /\ Goto(p, IF Reads(p) THEN "file" ELSE "readers")
    /\ UNCHANGED <<fileVars, listVars, have, readlock, why, faults, slip>>

\* set_lock: have_lckdir = 1, after the mkdir.
Have(p) ==
    /\ pc[p] = "have"
    /\ have' = [have EXCEPT ![p] = @ \union {Here(p)}]
    /\ Goto(p, IF Reads(p) THEN "file" ELSE "readers")
    /\ UNCHANGED <<fileVars, listVars, readlock, why, faults, slip>>

\* The read locks that readers_exist finds: it looks in the repository, also
\* when lock_name has put them elsewhere.
ReadersSeen(d) == IF LockDir THEN {} ELSE rfl[d]

\* Mutant: the writer does not look for readers.
ReadersIgnored(p) ==
    /\ pc[p] = "readers"
    /\ Goto(p, "file")
    /\ UNCHANGED <<why, faults, fileVars, listVars, have, readlock, slip>>

\* write_lock asks readers_exist; an opendir that fails is fatal.
ReadersExist(p) ==
    /\ pc[p] = "readers"
    /\ \/ /\ ReadersSeen(Here(p)) = {}
          /\ Goto(p, "file")
          /\ UNCHANGED <<why, faults>>
       \/ /\ ReadersSeen(Here(p)) # {}
          /\ Goto(p, "clear")
          /\ why' = [why EXCEPT ![p] = "retry"]
          /\ UNCHANGED faults
       \/ /\ Failure
          /\ RemoveThen(p, "exit")
    /\ UNCHANGED <<fileVars, listVars, have, readlock, slip>>

\* Reader_Lock creates `#cvs.rfl.*'.  If that fails its name is forgotten,
\* even when the file was created and only the fclose failed.
ReadFile(p) ==
    /\ pc[p] = "file"
    /\ Reads(p)
    /\ \/ /\ rfl' = [rfl EXCEPT ![Here(p)] = @ \union {p}]
          /\ UNCHANGED <<readlock, faults, slip>>
       \/ /\ Failure
          /\ readlock' = [readlock EXCEPT ![p] = FALSE]
          /\ UNCHANGED <<rfl, slip>>
       \/ /\ Failure
          /\ rfl' = [rfl EXCEPT ![Here(p)] = @ \union {p}]
          /\ readlock' = [readlock EXCEPT ![p] = FALSE]
          /\ slip' = slip \union {"fclose"}
    /\ Goto(p, "clear")
    /\ UNCHANGED <<lckdir, wfl, listVars, have, why>>

\* write_lock creates `#cvs.wfl.*', and goes on to the next directory.  If
\* that fails it unlinks the file, or tries to, and returns L_ERROR.
WriteFile(p) ==
    /\ pc[p] = "file"
    /\ ~Reads(p)
    /\ \/ /\ wfl' = [wfl EXCEPT ![Here(p)] = @ \union {p}]
          /\ todo' = [todo EXCEPT ![p] = @ \ {Here(p)}]
          /\ Goto(p, IF todo[p] = {Here(p)} THEN "work" ELSE "mkdir")
          /\ UNCHANGED <<why, faults>>
       \/ /\ Failure
          /\ Goto(p, "clear")
          /\ why' = [why EXCEPT ![p] = AfterError(p)]
          /\ wfl' \in {wfl, [wfl EXCEPT ![Here(p)] = @ \union {p}]}
          /\ UNCHANGED todo
    /\ UNCHANGED <<lckdir, rfl, cmd, listed, have, readlock, slip>>

\* clear_lock: rmdir of `#cvs.lock', whoever made it ...
Clear(p) ==
    /\ pc[p] = "clear"
    /\ \/ lckdir' = [lckdir EXCEPT ![Here(p)] = None] /\ UNCHANGED <<faults, slip>>
       \/ RemovalFails /\ UNCHANGED lckdir
    /\ Goto(p, "cleared")
    /\ UNCHANGED <<rfl, wfl, listVars, have, readlock, why>>

\* ... and have_lckdir = 0, whatever became of it.  A reader has its lock now,
\* unless it failed; a writer has to give back what it has.
Cleared(p) ==
    /\ pc[p] = "cleared"
    /\ have' = [have EXCEPT ![p] = @ \ {Here(p)}]
    /\ CASE Reads(p) /\ readlock[p]  -> Goto(p, "work") /\ UNCHANGED why
         [] Reads(p) /\ ~readlock[p] -> RemoveThen(p, "exit")
         [] ~Reads(p)                -> Goto(p, "unlink") /\ UNCHANGED why
    /\ UNCHANGED <<fileVars, listVars, readlock, faults, slip>>

-----------------------------------------------------------------------------
(* Giving them back *)

\* The command has done its work in the directory or in the tree, and calls
\* Lock_Cleanup.
Work(p) ==
    /\ pc[p] = "work"
    /\ RemoveThen(p, IF Reads(p) THEN "next" ELSE "end")
    /\ UNCHANGED <<fileVars, listVars, have, readlock, faults, slip>>

\* lock_simple_remove unlinks the process's own lock files, by names no other
\* process uses; an unlink may fail, and the file then stays.
UnlinkFiles(p, d) ==
    /\ \/ rfl' = [rfl EXCEPT ![d] = IF readlock[p] THEN @ \ {p} ELSE @]
       \/ UNCHANGED rfl
    /\ \/ wfl' = [wfl EXCEPT ![d] = @ \ {p}]
       \/ UNCHANGED wfl
    /\ IF p \in wfl'[d] \/ (readlock[p] /\ p \in rfl'[d])
         THEN RemovalFails
         ELSE UNCHANGED <<faults, slip>>

\* Mutant: the lock directory is removed whether or not it is ours.
UnlinkAll(p) ==
    /\ pc[p] = "unlink"
    /\ listed[p] # {}
    /\ UnlinkFiles(p, There(p))
    /\ Goto(p, "rmdir") /\ UNCHANGED listed
    /\ UNCHANGED <<lckdir, cmd, todo, have, readlock, why>>

\* lock_simple_remove goes on to the next directory if it does not have the
\* lock directory.
Unlink(p) ==
    /\ pc[p] = "unlink"
    /\ listed[p] # {}
    /\ UnlinkFiles(p, There(p))
    /\ IF There(p) \in have[p]
         THEN Goto(p, "rmdir") /\ UNCHANGED listed
         ELSE listed' = [listed EXCEPT ![p] = @ \ {There(p)}] /\ UNCHANGED pc
    /\ UNCHANGED <<lckdir, cmd, todo, have, readlock, why>>

\* lock_simple_remove: rmdir of `#cvs.lock', whoever made it ...
Rmdir(p) ==
    /\ pc[p] = "rmdir"
    /\ \/ lckdir' = [lckdir EXCEPT ![There(p)] = None] /\ UNCHANGED <<faults, slip>>
       \/ RemovalFails /\ UNCHANGED lckdir
    /\ Goto(p, "forget")
    /\ UNCHANGED <<rfl, wfl, listVars, have, readlock, why>>

\* ... and have_lckdir = 0, whatever became of it.
Forget(p) ==
    /\ pc[p] = "forget"
    /\ have' = [have EXCEPT ![p] = @ \ {There(p)}]
    /\ listed' = [listed EXCEPT ![p] = @ \ {There(p)}]
    /\ Goto(p, "unlink")
    /\ UNCHANGED <<fileVars, cmd, todo, readlock, why, faults, slip>>

\* Mutant: one command too many.
CommandOverrun(p) ==
    /\ cmd' = [cmd EXCEPT ![p] = @ + 1] /\ Goto(p, IF cmd[p] < Len(Script[p]) THEN "start" ELSE "done")
    /\ UNCHANGED <<todo, listed, slip>>

\* The process begins its next command, or ends.
CommandOver(p) ==
    /\ IF cmd[p] < Len(Script[p])
         THEN cmd' = [cmd EXCEPT ![p] = @ + 1] /\ Goto(p, "start")
         ELSE UNCHANGED cmd /\ Goto(p, "done")
    /\ UNCHANGED <<todo, listed, slip>>

\* Mutant: the recursion locks the directory it has just been in.
NextRepeated(p) ==
    /\ listed' = [listed EXCEPT ![p] = {Here(p)}]
    /\ Goto(p, "mkdir")
    /\ UNCHANGED <<cmd, todo, slip>>

\* do_recursion goes on to the next directory and read locks it.
NextDirectory(p) ==
    /\ todo' = [todo EXCEPT ![p] = @ \ {Here(p)}]
    /\ listed' = [listed EXCEPT ![p] = {First(todo[p] \ {Here(p)})}]
    /\ Goto(p, "mkdir")
    /\ UNCHANGED <<cmd, slip>>

\* Writer_Lock has slept and starts again with the whole list.
Retry(p) ==
    /\ todo' = [todo EXCEPT ![p] = Dirs(p)]
    /\ listed' = [listed EXCEPT ![p] = Dirs(p)]
    /\ Goto(p, "mkdir")
    /\ UNCHANGED <<cmd, slip>>

\* remove_locks is done.
Removed(p) ==
    /\ pc[p] = "unlink"
    /\ listed[p] = {}
    /\ \/ why[p] = "next" /\ todo[p] # {Here(p)} /\ NextDirectory(p)
       \/ why[p] = "next" /\ todo[p] = {Here(p)} /\ CommandOver(p)
       \/ why[p] = "end" /\ CommandOver(p)
       \/ why[p] = "retry" /\ Retry(p)
       \/ why[p] = "exit" /\ Goto(p, "gone") /\ UNCHANGED <<listVars, slip>>
       \/ /\ why[p] = "unlocked"
          /\ Goto(p, "work")
          /\ slip' = slip \union {"unlocked"}
          /\ UNCHANGED listVars
    /\ UNCHANGED <<fileVars, have, readlock, why, faults>>

-----------------------------------------------------------------------------
(* Faults *)

\* SIGKILL or a power failure.
Kill(p) ==
    /\ pc[p] \in Locking \union Removing \union {"work"}
    /\ faults.kill < MaxFaults.kill
    /\ faults' = [faults EXCEPT !.kill = @ + 1]
    /\ Goto(p, "killed")
    /\ UNCHANGED <<fileVars, listVars, have, readlock, why, slip>>

\* The mishap that a signal is at some places: the flag have_lckdir does not
\* yet say what the mkdir or the rmdir did.
SignalMishap(p) ==
    CASE pc[p] = "have"                  -> {"mkdir"}
      [] pc[p] \in {"cleared", "forget"} -> {"rmdir"}
      [] OTHER                           -> {}

\* A signal that is caught: main_cleanup calls Lock_Cleanup and exits.  In
\* the middle of Lock_Cleanup it just exits.
Signal(p) ==
    /\ pc[p] \in Locking \union Removing \union {"start", "work"}
    /\ faults.signal < MaxFaults.signal
    /\ faults' = [faults EXCEPT !.signal = @ + 1]
    /\ IF InLockCleanup(p)
         THEN /\ Goto(p, "gone")
              /\ slip' = IF listed[p] = {} THEN slip ELSE slip \union {"cleanup"}
              /\ UNCHANGED why
         ELSE /\ RemoveThen(p, "exit")
              /\ slip' = slip \union SignalMishap(p)
    /\ UNCHANGED <<fileVars, listVars, have, readlock>>

-----------------------------------------------------------------------------
Step(p) ==
    \/ Start(p) \/ Mkdir(p) \/ Stat(p) \/ Have(p) \/ ReadersExist(p)
    \/ ReadFile(p) \/ WriteFile(p) \/ Clear(p) \/ Cleared(p) \/ Work(p)
    \/ Unlink(p) \/ Rmdir(p) \/ Forget(p) \/ Removed(p)

Finished ==
    /\ \A p \in Proc : pc[p] \in {"done", "gone", "killed"}
    /\ UNCHANGED vars

Next ==
    \/ \E p \in Proc : Step(p) \/ Kill(p) \/ Signal(p)
    \/ Finished

\* A process that can run does run: lock_wait sleeps for 15 seconds only.
Fairness == \A p \in Proc : WF_vars(Step(p))

Spec == Init /\ [][Next]_vars /\ Fairness

-----------------------------------------------------------------------------
(* Properties *)

\* Types of the state.
TypeOK ==
    /\ lckdir \in [Dir -> Proc \union {None}]
    /\ rfl \in [Dir -> SUBSET Proc]
    /\ wfl \in [Dir -> SUBSET Proc]
    /\ pc \in [Proc -> Idle \union Locking \union Removing \union {"work", "killed"}]
    /\ cmd \in [Proc -> Nat]
    /\ \A p \in Proc : cmd[p] \in 1 .. Len(Script[p])
    /\ todo \in [Proc -> SUBSET Dir]
    /\ listed \in [Proc -> SUBSET Dir]
    /\ have \in [Proc -> SUBSET Dir]
    /\ readlock \in [Proc -> BOOLEAN]
    /\ why \in [Proc -> {"next", "end", "retry", "exit", "unlocked"}]
    /\ faults \in [kill : Nat, signal : Nat, io : Nat]
    /\ slip \subseteq Mishap

ReadsIn(p, d)  == pc[p] = "work" /\ Reads(p) /\ d = Here(p)
WritesIn(p, d) == pc[p] = "work" /\ ~Reads(p) /\ d \in Dirs(p)

\* While a process works in a directory it has locked for writing, nobody
\* else works there: over trees of directories, whatever is killed or fails,
\* and also after most signals.  The exceptions are a signal between a rmdir
\* and the reset of have_lckdir, and the notification that goes on without
\* its lock.
Exclusive ==
    ~LockDir /\ slip \intersect {"rmdir", "unlocked"} = {} =>
        \A p, q \in Proc : \A d \in Dir :
            p # q /\ WritesIn(p, d) => ~WritesIn(q, d) /\ ~ReadsIn(q, d)

\* A process between two commands, and one that has ended other than by
\* SIGKILL, has left no lock of any kind behind, unless a signal came just
\* after the mkdir or during Lock_Cleanup, the fclose of a read lock failed,
\* or the removal of a lock did, which is printed and forgotten.
NothingLeft ==
    slip \intersect {"mkdir", "cleanup", "fclose", "remove"} = {} =>
        \A p \in Proc : pc[p] \in Idle =>
            \A d \in Dir : lckdir[d] # p /\ p \notin rfl[d] /\ p \notin wfl[d]

\* A lock directory goes only in a step of its owner.
OwnerRemoves ==
    \A d \in Dir : \A q \in Proc :
        lckdir[d] = q /\ lckdir'[d] # q /\ "rmdir" \notin slip => pc'[q] # pc[q]

\* `#cvs.lock' is removed by its name; it is nevertheless always the process
\* that made it that removes it.
OnlyOwnLock == [][OwnerRemoves]_vars

\* Every command ends: writers that wait for each other or for readers hold
\* nothing while they sleep.  (A lock that was left behind, by SIGKILL or by a
\* mishap, makes the others wait for ever.)
Termination ==
    \A p \in Proc : <>(\/ pc[p] \in {"done", "gone"}
                       \/ \E q \in Proc : pc[q] = "killed"
                       \/ slip # {})

\* Where lock_wait sleeps: a reader in set_lock, a writer in Writer_Lock when
\* remove_locks is done.
Sleeps(p) ==
    \/ pc[p] = "stat" /\ Reads(p)
    \/ pc[p] = "unlink" /\ listed[p] = {} /\ why[p] = "retry"

\* Nobody sleeps with a lock in his hand: a process in lock_wait has no lock
\* directory and no lock file in any directory, however many of its tree it
\* had locked before, so that no two commands can wait for each other.  The
\* exceptions are those of NothingLeft: a writer whose rmdir fails goes to
\* sleep before its own lock.
SleepsEmptyHanded ==
    slip \intersect {"mkdir", "cleanup", "fclose", "remove"} = {} =>
        \A p \in Proc : Sleeps(p) =>
            \A d \in Dir : lckdir[d] # p /\ p \notin rfl[d] /\ p \notin wfl[d]

\* There is no writer and reader at the same time in a directory.
NoReaderAndWriter ==
    \A p, q \in Proc : \A d \in Dir : WritesIn(p, d) => ~ReadsIn(q, d)

-----------------------------------------------------------------------------
(* The inductive invariant of DirLocksProofs.tla *)

Safe == "rmdir" \notin slip
Tidy == slip \intersect {"mkdir", "cleanup", "fclose", "remove"} = {}

\* What remove_locks will go through covers what the process may have.
Lists(p) ==
    /\ have[p] \subseteq listed[p]
    /\ pc[p] \in Locking => /\ todo[p] # {}
                            /\ todo[p] \subseteq Dirs(p)
                            /\ listed[p] = IF Reads(p) THEN {Here(p)} ELSE Dirs(p)
    /\ pc[p] = "work" /\ Reads(p) => /\ todo[p] # {} /\ todo[p] \subseteq Dirs(p)
                                     /\ listed[p] = {Here(p)}
    /\ pc[p] \in {"readers", "file", "clear", "cleared"} => Here(p) \in have[p]
    /\ pc[p] = "readers" => ~Reads(p)
    /\ pc[p] \in {"rmdir", "forget"} => There(p) \in have[p]
    /\ pc[p] \in {"start", "done"} => listed[p] = {}
    /\ pc[p] = "gone" => listed[p] = {} \/ "cleanup" \in slip

\* What a process goes on to after remove_locks fits its command.
Reason(p) ==
    /\ pc[p] \in Removing => /\ why[p] = "next" => /\ Reads(p) /\ readlock[p]
                                                    /\ todo[p] # {} /\ todo[p] \subseteq Dirs(p)
                             /\ why[p] \in {"retry", "unlocked"} => ~Reads(p)
    /\ pc[p] \in {"clear", "cleared"} /\ ~Reads(p) => why[p] \in {"retry", "exit", "unlocked"}

\* have_lckdir tells the truth, except right after a rmdir.
LockDirsOwned(p) ==
    Safe =>
      /\ pc[p] = "have" => lckdir[Here(p)] = p
      /\ \A d \in have[p] :
           \/ lckdir[d] = p
           \/ pc[p] \in {"gone", "killed"}
           \/ pc[p] = "cleared" /\ d = Here(p)
           \/ pc[p] = "forget" /\ d = There(p)

\* A writer keeps the lock directories of the tree it has walked.
TreeKept(p) ==
    ~Reads(p) =>
      /\ pc[p] \in Locking => Dirs(p) \ todo[p] \subseteq have[p]
      /\ pc[p] = "work" => Dirs(p) \subseteq have[p] \/ "unlocked" \in slip

\* ... and no reader comes into it.
NoReaders(p) ==
    ~LockDir /\ Safe /\ ~Reads(p) =>
      /\ pc[p] \in Locking => \A d \in Dirs(p) \ todo[p] : rfl[d] = {}
      /\ pc[p] = "file" => rfl[Here(p)] = {}
      /\ pc[p] = "work" => "unlocked" \in slip \/ \A d \in Dirs(p) : rfl[d] = {}

\* A reader has its read lock.
ReadLocked(p) ==
    Reads(p) =>
      /\ pc[p] \in {"mkdir", "stat", "have", "file"} => readlock[p]
      /\ pc[p] = "work" => readlock[p] /\ p \in rfl[Here(p)]
      /\ pc[p] \in {"clear", "cleared"} /\ readlock[p] => p \in rfl[Here(p)]

\* Every lock directory a process has made is known to it ...
MadeKnown(p) ==
    Tidy /\ pc[p] # "killed" =>
      /\ \A d \in Dir : lckdir[d] = p => d \in have[p] \/ (pc[p] = "have" /\ d = Here(p))
      /\ pc[p] = "cleared" => lckdir[Here(p)] # p
      /\ pc[p] = "forget" => lckdir[There(p)] # p

\* ... and every file is on its list.
FilesListed(p) ==
    Tidy /\ pc[p] # "killed" =>
      \A d \in Dir :
        /\ p \in rfl[d] =>
             /\ d \in listed[p] /\ readlock[p]
             /\ pc[p] \notin {"mkdir", "stat", "have", "readers", "file"}
        /\ p \in wfl[d] => d \in listed[p]
        /\ pc[p] \in {"rmdir", "forget"} /\ d = There(p) => p \notin rfl[d] \union wfl[d]

\* A reader comes to a directory with nothing of another one, and with nothing
\* of an earlier write command.
HandsFree(p) ==
    Reads(p) =>
      /\ pc[p] \in {"mkdir", "stat", "have"} => have[p] = {}
      /\ Tidy /\ pc[p] \in {"mkdir", "stat"} => \A d \in Dir : p \notin wfl[d]

LocalInv(p) ==
    /\ Lists(p)
    /\ Reason(p)
    /\ LockDirsOwned(p)
    /\ TreeKept(p)
    /\ NoReaders(p)
    /\ ReadLocked(p)
    /\ MadeKnown(p)
    /\ FilesListed(p)
    /\ HandsFree(p)

IndInv == TypeOK /\ \A p \in Proc : LocalInv(p)

=============================================================================
