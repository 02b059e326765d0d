--------------------------- MODULE DirLocksProofs ---------------------------
(***************************************************************************)
(* Proofs about DirLocks, for any processes, directories, commands and     *)
(* numbers of faults.                                                      *)
(*                                                                         *)
(* IndInv says of every process on its own how its lists (todo, listed,    *)
(* have, readlock) stand to its locks on disk.  A step of a process p is   *)
(* shown to keep LocalInv(p), and to leave the others alone in the sense   *)
(* of Alone(p): it changes nothing of theirs, takes none of their lock     *)
(* directories, and adds no read lock where they have one.  That suffices  *)
(* for their LocalInv (OthersKeep).                                        *)
(***************************************************************************)
EXTENDS DirLocks, SequenceTheorems, WellFoundedInduction, TLAPS

-----------------------------------------------------------------------------
(* Commands and their directories *)

\* The first name of a sorted list is on the list.
LEMMA FirstIn ==
    ASSUME NEW S, S \subseteq Dir, S # {}
    PROVE  First(S) \in S
<1> DEFINE R == OpToRel(<, Nat)
<1>1. S \subseteq Nat
  BY DirAssumption
<1>2. PICK d \in S : \A e \in S : ~(<<e, d>> \in R)
  BY <1>1, NatLessThanWellFounded, WFMin
<1>3. R = {ss \in Nat \X Nat : ss[1] < ss[2]}
  BY DEF OpToRel
<1>4. \A e, f \in Nat : e < f => <<e, f>> \in R
  BY <1>3
<1> HIDE DEF R
<1>5. ASSUME NEW e \in S PROVE d <= e
  <2>1. d \in Nat /\ e \in Nat
    BY <1>1
  <2>2. ~(e < d)
    BY <1>2, <1>4, <2>1
  <2> QED BY <2>1, <2>2
<1> QED
  BY <1>5 DEF First

\* What a process does is a matter of its command only.
LEMMA SameCommand ==
    ASSUME NEW p \in Proc, cmd'[p] = cmd[p]
    PROVE  Kind(p)' = Kind(p) /\ Dirs(p)' = Dirs(p) /\ (Reads(p)' <=> Reads(p))
BY DEF Kind, Dirs, Reads

\* A command has directories.
LEMMA CommandDirs ==
    ASSUME TypeOK, NEW p \in Proc
    PROVE  Dirs(p) \subseteq Dir /\ Dirs(p) # {}
<1>1. Script[p] \in Seq(Command) /\ cmd[p] \in 1 .. Len(Script[p])
  BY ScriptAssumption DEF TypeOK
<1>2. Script[p][cmd[p]] \in Command
  BY <1>1
<1>3. \A c \in Command : c.dirs \in (SUBSET Dir) \ {{}}
  BY DEF Command
<1>4. Dirs(p) \in (SUBSET Dir) \ {{}}
  BY <1>2, <1>3 DEF Dirs
<1> QED
  BY <1>4

-----------------------------------------------------------------------------
(* One process and the others *)

Counts == [kill : Nat, signal : Nat, io : Nat]

\* Counting a fault.
LEMMA Counted ==
    ASSUME NEW f \in Counts
    PROVE  /\ [f EXCEPT !.kill = @ + 1] \in Counts
           /\ [f EXCEPT !.signal = @ + 1] \in Counts
           /\ [f EXCEPT !.io = @ + 1] \in Counts
BY DEF Counts

\* What IndInv says of one process, with the members of its lists.
Known(p) ==
    /\ TypeOK
    /\ Lists(p) /\ Reason(p) /\ LockDirsOwned(p) /\ TreeKept(p) /\ NoReaders(p)
    /\ ReadLocked(p) /\ MadeKnown(p) /\ FilesListed(p) /\ HandsFree(p)
    /\ Dirs(p) \subseteq Dir /\ Dirs(p) # {} /\ First(Dirs(p)) \in Dirs(p)
    /\ todo[p] \subseteq Dir /\ listed[p] \subseteq Dir /\ have[p] \subseteq Dir
    /\ todo[p] # {} => Here(p) \in todo[p] /\ Here(p) \in Dir
    /\ listed[p] # {} => There(p) \in listed[p] /\ There(p) \in Dir

\* IndInv gives all of Known.
LEMMA LocalFacts ==
    ASSUME IndInv, NEW p \in Proc
    PROVE  Known(p)
<1>1. TypeOK /\ LocalInv(p)
  BY DEF IndInv
<1>2. todo[p] \subseteq Dir /\ listed[p] \subseteq Dir /\ have[p] \subseteq Dir
  BY <1>1 DEF TypeOK
<1>3. Dirs(p) \subseteq Dir /\ Dirs(p) # {}
  BY <1>1, CommandDirs
<1> QED
  BY <1>1, <1>2, <1>3, FirstIn DEF Known, LocalInv, Here, There

\* A jump to a place of the process.
LEMMA GotoType ==
    ASSUME IndInv, NEW p \in Proc,
           \E l \in Idle \union Locking \union Removing \union {"work", "killed"} :
              pc' = [pc EXCEPT ![p] = l]
    PROVE  pc' \in [Proc -> Idle \union Locking \union Removing \union {"work", "killed"}]
BY DEF IndInv, TypeOK

\* A step of p is no business of the others.
Alone(p) ==
    /\ \A q \in Proc \ {p} :
         /\ pc'[q] = pc[q] /\ cmd'[q] = cmd[q] /\ todo'[q] = todo[q]
         /\ listed'[q] = listed[q] /\ have'[q] = have[q]
         /\ readlock'[q] = readlock[q] /\ why'[q] = why[q]
         /\ \A d \in Dir : /\ q \in rfl'[d] <=> q \in rfl[d]
                           /\ q \in wfl'[d] <=> q \in wfl[d]
                           /\ lckdir'[d] = q => lckdir[d] = q
                           /\ lckdir[d] = q /\ Safe' => /\ lckdir'[d] = q
                                                        /\ ~LockDir /\ rfl[d] = {} => rfl'[d] = {}
    /\ slip \subseteq slip'

\* A step that leaves q alone keeps what the invariant says of q.
LEMMA OthersKeep ==
    ASSUME IndInv, NEW p \in Proc, Alone(p), NEW q \in Proc \ {p}
    PROVE  LocalInv(q)'
<1> USE DEF Alone, Safe, Tidy, Here, There
<1>0. Known(q)
  BY LocalFacts
<1>c. Dirs(q)' = Dirs(q) /\ (Reads(q)' <=> Reads(q))
  BY SameCommand
<1>1. Lists(q)'
  <2>1. CASE Reads(q)
    BY <1>0, <1>c, <2>1 DEF Known, Lists
  <2>2. CASE ~Reads(q)
    BY <1>0, <1>c, <2>2 DEF Known, Lists
  <2> QED
    BY <2>1, <2>2
<1>2. Reason(q)'
  BY <1>0, <1>c DEF Known, Reason
<1>3. LockDirsOwned(q)'
  BY <1>0 DEF Known, LockDirsOwned, Lists, Locking
<1>4. TreeKept(q)'
  BY <1>0, <1>c DEF Known, TreeKept
<1>5. NoReaders(q)'
  BY <1>0, <1>c DEF Known, NoReaders, LockDirsOwned, TreeKept, Lists, Locking
<1>6. ReadLocked(q)'
  BY <1>0, <1>c DEF Known, ReadLocked, Lists, Locking
<1>7. MadeKnown(q)'
  BY <1>0 DEF Known, MadeKnown, Lists, Locking
<1>8. FilesListed(q)'
  BY <1>0 DEF Known, FilesListed, Lists
<1>9. HandsFree(q)'
  BY <1>0, <1>c DEF Known, HandsFree
<1> QED
  BY <1>1, <1>2, <1>3, <1>4, <1>5, <1>6, <1>7, <1>8, <1>9 DEF LocalInv

-----------------------------------------------------------------------------
(* The steps of a process *)

\* A command begins with empty lists, and lists what it is about to lock.
LEMMA StartKeeps ==
    ASSUME IndInv, NEW p \in Proc, Start(p)
    PROVE  TypeOK' /\ Alone(p) /\ LocalInv(p)'
<1> USE DEF Start, Goto, RemoveThen, fileVars, listVars,
            Locking, Removing, Safe, Tidy, Here, There
<1>0. Known(p)
  BY LocalFacts
<1>c. cmd' = cmd /\ Kind(p)' = Kind(p) /\ Dirs(p)' = Dirs(p) /\ (Reads(p)' <=> Reads(p))
  BY SameCommand
<1>1. TypeOK'
  <2>1. lckdir' \in [Dir -> Proc \union {None}] /\ rfl' \in [Dir -> SUBSET Proc] /\ wfl' \in [Dir -> SUBSET Proc]
    BY <1>0 DEF Known, Lists, TypeOK
  <2>2. pc' \in [Proc -> Idle \union Locking \union Removing \union {"work", "killed"}]
    BY <1>0 DEF Known, TypeOK
  <2>3. todo' \in [Proc -> SUBSET Dir] /\ listed' \in [Proc -> SUBSET Dir] /\ have' \in [Proc -> SUBSET Dir]
    BY <1>0 DEF Known, Lists, TypeOK
  <2>4. readlock' \in [Proc -> BOOLEAN] /\ why' \in [Proc -> {"next", "end", "retry", "exit", "unlocked"}]
    BY <1>0 DEF Known, TypeOK
  <2>5. faults' \in Counts /\ slip' \subseteq Mishap
    BY <1>0, Counted DEF Known, TypeOK, Counts, Mishap
  <2> QED
    BY <1>0, <1>c, <2>1, <2>2, <2>3, <2>4, <2>5 DEF Known, TypeOK, Counts
<1>2. Alone(p)
  BY <1>0, <1>c, NoneAssumption DEF Known, Alone, TypeOK, LockDirsOwned, Lists
<1>3. Lists(p)'
  BY <1>0, <1>c, NoneAssumption DEF Known, TypeOK, Lists
<1>4. Reason(p)'
  BY <1>0, <1>c, NoneAssumption DEF Known, TypeOK, Lists, Reason
<1>5. LockDirsOwned(p)'
  BY <1>0, <1>c, NoneAssumption DEF Known, TypeOK, Lists, LockDirsOwned
<1>6. TreeKept(p)'
  BY <1>0, <1>c, NoneAssumption DEF Known, TypeOK, Lists, TreeKept
<1>7. NoReaders(p)'
  BY <1>0, <1>c, NoneAssumption DEF Known, TypeOK, Lists, NoReaders
<1>8. ReadLocked(p)'
  BY <1>0, <1>c, NoneAssumption DEF Known, TypeOK, Lists, ReadLocked
<1>9. MadeKnown(p)'
  BY <1>0, <1>c, NoneAssumption DEF Known, TypeOK, Lists, MadeKnown
<1>10. FilesListed(p)'
  BY <1>0, <1>c, NoneAssumption DEF Known, TypeOK, Lists, FilesListed
<1>11. HandsFree(p)'
  <2>1. have' = have /\ wfl' = wfl /\ slip' = slip
    OBVIOUS
  <2>2. have[p] = {} /\ (Tidy => \A d \in Dir : p \notin wfl[d])
    BY <1>0 DEF Known, Lists, FilesListed
  <2> QED
    BY <2>1, <2>2 DEF HandsFree
<1> QED
  BY <1>1, <1>2, <1>3, <1>4, <1>5, <1>6, <1>7, <1>8, <1>9, <1>10, <1>11 DEF LocalInv

\* A lock directory is made only where there is none.
LEMMA MkdirKeeps ==
    ASSUME IndInv, NEW p \in Proc, Mkdir(p)
    PROVE  TypeOK' /\ Alone(p) /\ LocalInv(p)'
<1> USE DEF Mkdir, Failure, AfterError, Goto, RemoveThen, fileVars, listVars,
            Locking, Removing, Safe, Tidy, Here, There
<1>0. Known(p)
  BY LocalFacts
<1>c. cmd' = cmd /\ Kind(p)' = Kind(p) /\ Dirs(p)' = Dirs(p) /\ (Reads(p)' <=> Reads(p))
  BY SameCommand
<1>1. TypeOK'
  <2>1. lckdir' \in [Dir -> Proc \union {None}] /\ rfl' \in [Dir -> SUBSET Proc] /\ wfl' \in [Dir -> SUBSET Proc]
    BY <1>0 DEF Known, Lists, TypeOK
  <2>2. pc' \in [Proc -> Idle \union Locking \union Removing \union {"work", "killed"}]
    <3>1. \E l \in {"have", "stat", "unlink"} : pc' = [pc EXCEPT ![p] = l]
      OBVIOUS
    <3> QED
      BY <3>1, GotoType
  <2>3. todo' \in [Proc -> SUBSET Dir] /\ listed' \in [Proc -> SUBSET Dir] /\ have' \in [Proc -> SUBSET Dir]
    BY <1>0 DEF Known, Lists, TypeOK
  <2>4. readlock' \in [Proc -> BOOLEAN] /\ why' \in [Proc -> {"next", "end", "retry", "exit", "unlocked"}]
    BY <1>0 DEF Known, TypeOK
  <2>5. faults' \in Counts /\ slip' \subseteq Mishap
    BY <1>0, Counted DEF Known, TypeOK, Counts, Mishap
  <2> QED
    BY <1>0, <1>c, <2>1, <2>2, <2>3, <2>4, <2>5 DEF Known, TypeOK, Counts
<1>2. Alone(p)
  BY <1>0, <1>c, NoneAssumption DEF Known, Alone, TypeOK, LockDirsOwned, Lists
<1>3. Lists(p)'
  BY <1>0, <1>c, NoneAssumption DEF Known, TypeOK, Lists
<1>4. Reason(p)'
  BY <1>0, <1>c, NoneAssumption DEF Known, TypeOK, Lists, Reason, Reads
<1>5. LockDirsOwned(p)'
  BY <1>0, <1>c, NoneAssumption DEF Known, TypeOK, Lists, LockDirsOwned
<1>6. TreeKept(p)'
  BY <1>0, <1>c, NoneAssumption DEF Known, TypeOK, Lists, TreeKept
<1>7. NoReaders(p)'
  BY <1>0, <1>c, NoneAssumption DEF Known, TypeOK, Lists, NoReaders
<1>8. ReadLocked(p)'
  BY <1>0, <1>c, NoneAssumption DEF Known, TypeOK, Lists, ReadLocked
<1>9. MadeKnown(p)'
  BY <1>0, <1>c, NoneAssumption DEF Known, TypeOK, Lists, MadeKnown
<1>10. FilesListed(p)'
  BY <1>0, <1>c, NoneAssumption DEF Known, TypeOK, Lists, FilesListed
<1>11. HandsFree(p)'
  BY <1>0, <1>c DEF Known, TypeOK, Lists, HandsFree
<1> QED
  BY <1>1, <1>2, <1>3, <1>4, <1>5, <1>6, <1>7, <1>8, <1>9, <1>10, <1>11 DEF LocalInv

\* Looking at the lock changes no lock.
LEMMA StatKeeps ==
    ASSUME IndInv, NEW p \in Proc, Stat(p)
    PROVE  TypeOK' /\ Alone(p) /\ LocalInv(p)'
<1> USE DEF Stat, Goto, RemoveThen, fileVars, listVars,
            Locking, Removing, Safe, Tidy, Here, There
<1>0. Known(p)
  BY LocalFacts
<1>c. cmd' = cmd /\ Kind(p)' = Kind(p) /\ Dirs(p)' = Dirs(p) /\ (Reads(p)' <=> Reads(p))
  BY SameCommand
<1>1. TypeOK'
  <2>1. lckdir' \in [Dir -> Proc \union {None}] /\ rfl' \in [Dir -> SUBSET Proc] /\ wfl' \in [Dir -> SUBSET Proc]
    BY <1>0 DEF Known, Lists, TypeOK
  <2>2. pc' \in [Proc -> Idle \union Locking \union Removing \union {"work", "killed"}]
    <3>1. \E l \in {"mkdir", "unlink"} : pc' = [pc EXCEPT ![p] = l]
      OBVIOUS
    <3> QED
      BY <3>1, GotoType
  <2>3. todo' \in [Proc -> SUBSET Dir] /\ listed' \in [Proc -> SUBSET Dir] /\ have' \in [Proc -> SUBSET Dir]
    BY <1>0 DEF Known, Lists, TypeOK
  <2>4. readlock' \in [Proc -> BOOLEAN] /\ why' \in [Proc -> {"next", "end", "retry", "exit", "unlocked"}]
    BY <1>0 DEF Known, TypeOK
  <2>5. faults' \in Counts /\ slip' \subseteq Mishap
    BY <1>0, Counted DEF Known, TypeOK, Counts, Mishap
  <2> QED
    BY <1>0, <1>c, <2>1, <2>2, <2>3, <2>4, <2>5 DEF Known, TypeOK, Counts
<1>2. Alone(p)
  BY <1>0, <1>c, NoneAssumption DEF Known, Alone, TypeOK, LockDirsOwned, Lists
<1>3. Lists(p)'
  BY <1>0, <1>c, NoneAssumption DEF Known, TypeOK, Lists
<1>4. Reason(p)'
  BY <1>0, <1>c, NoneAssumption DEF Known, TypeOK, Lists, Reason
<1>5. LockDirsOwned(p)'
  BY <1>0, <1>c, NoneAssumption DEF Known, TypeOK, Lists, LockDirsOwned
<1>6. TreeKept(p)'
  BY <1>0, <1>c, NoneAssumption DEF Known, TypeOK, Lists, TreeKept
<1>7. NoReaders(p)'
  BY <1>0, <1>c, NoneAssumption DEF Known, TypeOK, Lists, NoReaders
<1>8. ReadLocked(p)'
  BY <1>0, <1>c, NoneAssumption DEF Known, TypeOK, Lists, ReadLocked
<1>9. MadeKnown(p)'
  BY <1>0, <1>c, NoneAssumption DEF Known, TypeOK, Lists, MadeKnown
<1>10. FilesListed(p)'
  BY <1>0, <1>c, NoneAssumption DEF Known, TypeOK, Lists, FilesListed
<1>11. HandsFree(p)'
  BY <1>0, <1>c DEF Known, TypeOK, Lists, HandsFree
<1> QED
  BY <1>1, <1>2, <1>3, <1>4, <1>5, <1>6, <1>7, <1>8, <1>9, <1>10, <1>11 DEF LocalInv

\* Setting have_lckdir catches up with the mkdir.
LEMMA HaveKeeps ==
    ASSUME IndInv, NEW p \in Proc, Have(p)
    PROVE  TypeOK' /\ Alone(p) /\ LocalInv(p)'
<1> USE DEF Have, Goto, RemoveThen, fileVars, listVars,
            Locking, Removing, Safe, Tidy, Here, There
<1>0. Known(p)
  BY LocalFacts
<1>c. cmd' = cmd /\ Kind(p)' = Kind(p) /\ Dirs(p)' = Dirs(p) /\ (Reads(p)' <=> Reads(p))
  BY SameCommand
<1>1. TypeOK'
  <2>1. lckdir' \in [Dir -> Proc \union {None}] /\ rfl' \in [Dir -> SUBSET Proc] /\ wfl' \in [Dir -> SUBSET Proc]
    BY <1>0 DEF Known, Lists, TypeOK
  <2>2. pc' \in [Proc -> Idle \union Locking \union Removing \union {"work", "killed"}]
    BY <1>0 DEF Known, TypeOK
  <2>3. todo' \in [Proc -> SUBSET Dir] /\ listed' \in [Proc -> SUBSET Dir] /\ have' \in [Proc -> SUBSET Dir]
    BY <1>0 DEF Known, Lists, TypeOK
  <2>4. readlock' \in [Proc -> BOOLEAN] /\ why' \in [Proc -> {"next", "end", "retry", "exit", "unlocked"}]
    BY <1>0 DEF Known, TypeOK
  <2>5. faults' \in Counts /\ slip' \subseteq Mishap
    BY <1>0, Counted DEF Known, TypeOK, Counts, Mishap
  <2> QED
    BY <1>0, <1>c, <2>1, <2>2, <2>3, <2>4, <2>5 DEF Known, TypeOK, Counts
<1>2. Alone(p)
  BY <1>0, <1>c, NoneAssumption DEF Known, Alone, TypeOK, LockDirsOwned, Lists
<1>3. Lists(p)'
  BY <1>0, <1>c, NoneAssumption DEF Known, TypeOK, Lists
<1>4. Reason(p)'
  BY <1>0, <1>c, NoneAssumption DEF Known, TypeOK, Lists, Reason
<1>5. LockDirsOwned(p)'
  BY <1>0, <1>c, NoneAssumption DEF Known, TypeOK, Lists, LockDirsOwned
<1>6. TreeKept(p)'
  BY <1>0, <1>c, NoneAssumption DEF Known, TypeOK, Lists, TreeKept
<1>7. NoReaders(p)'
  BY <1>0, <1>c, NoneAssumption DEF Known, TypeOK, Lists, NoReaders
<1>8. ReadLocked(p)'
  BY <1>0, <1>c, NoneAssumption DEF Known, TypeOK, Lists, ReadLocked
<1>9. MadeKnown(p)'
  BY <1>0, <1>c, NoneAssumption DEF Known, TypeOK, Lists, MadeKnown
<1>10. FilesListed(p)'
  BY <1>0, <1>c, NoneAssumption DEF Known, TypeOK, Lists, FilesListed
<1>11. HandsFree(p)'
  BY <1>0, <1>c DEF Known, TypeOK, Lists, HandsFree
<1> QED
  BY <1>1, <1>2, <1>3, <1>4, <1>5, <1>6, <1>7, <1>8, <1>9, <1>10, <1>11 DEF LocalInv

\* A writer goes on only where readers_exist has seen no reader.
LEMMA ReadersExistKeeps ==
    ASSUME IndInv, NEW p \in Proc, ReadersExist(p)
    PROVE  TypeOK' /\ Alone(p) /\ LocalInv(p)'
<1> USE DEF ReadersExist, Failure, ReadersSeen, Goto, RemoveThen, fileVars, listVars,
            Locking, Removing, Safe, Tidy, Here, There
<1>0. Known(p)
  BY LocalFacts
<1>c. cmd' = cmd /\ Kind(p)' = Kind(p) /\ Dirs(p)' = Dirs(p) /\ (Reads(p)' <=> Reads(p))
  BY SameCommand
<1>1. TypeOK'
  <2>1. lckdir' \in [Dir -> Proc \union {None}] /\ rfl' \in [Dir -> SUBSET Proc] /\ wfl' \in [Dir -> SUBSET Proc]
    BY <1>0 DEF Known, Lists, TypeOK
  <2>2. pc' \in [Proc -> Idle \union Locking \union Removing \union {"work", "killed"}]
    <3>1. \E l \in {"file", "clear", "unlink"} : pc' = [pc EXCEPT ![p] = l]
      OBVIOUS
    <3> QED
      BY <3>1, GotoType
  <2>3. todo' \in [Proc -> SUBSET Dir] /\ listed' \in [Proc -> SUBSET Dir] /\ have' \in [Proc -> SUBSET Dir]
    BY <1>0 DEF Known, Lists, TypeOK
  <2>4. readlock' \in [Proc -> BOOLEAN] /\ why' \in [Proc -> {"next", "end", "retry", "exit", "unlocked"}]
    BY <1>0 DEF Known, TypeOK
  <2>5. faults' \in Counts /\ slip' \subseteq Mishap
    BY <1>0, Counted DEF Known, TypeOK, Counts, Mishap
  <2> QED
    BY <1>0, <1>c, <2>1, <2>2, <2>3, <2>4, <2>5 DEF Known, TypeOK, Counts
<1>2. Alone(p)
  BY <1>0, <1>c, NoneAssumption DEF Known, Alone, TypeOK, LockDirsOwned, Lists
<1>3. Lists(p)'
  BY <1>0, <1>c, NoneAssumption DEF Known, TypeOK, Lists
<1>4. Reason(p)'
  BY <1>0, <1>c, NoneAssumption DEF Known, TypeOK, Lists, Reason
<1>5. LockDirsOwned(p)'
  BY <1>0, <1>c, NoneAssumption DEF Known, TypeOK, Lists, LockDirsOwned
<1>6. TreeKept(p)'
  BY <1>0, <1>c, NoneAssumption DEF Known, TypeOK, Lists, TreeKept
<1>7. NoReaders(p)'
  BY <1>0, <1>c, NoneAssumption DEF Known, TypeOK, Lists, NoReaders
<1>8. ReadLocked(p)'
  BY <1>0, <1>c, NoneAssumption DEF Known, TypeOK, Lists, ReadLocked
<1>9. MadeKnown(p)'
  BY <1>0, <1>c, NoneAssumption DEF Known, TypeOK, Lists, MadeKnown
<1>10. FilesListed(p)'
  BY <1>0, <1>c, NoneAssumption DEF Known, TypeOK, Lists, FilesListed
<1>11. HandsFree(p)'
  BY <1>0, <1>c DEF Known, TypeOK, Lists, HandsFree
<1> QED
  BY <1>1, <1>2, <1>3, <1>4, <1>5, <1>6, <1>7, <1>8, <1>9, <1>10, <1>11 DEF LocalInv

\* A read lock appears only under the reader's own lock directory, so in no writer's tree.
LEMMA ReadFileKeeps ==
    ASSUME IndInv, NEW p \in Proc, ReadFile(p)
    PROVE  TypeOK' /\ Alone(p) /\ LocalInv(p)'
<1> USE DEF ReadFile, Failure, Goto, RemoveThen, fileVars, listVars,
            Locking, Removing, Safe, Tidy, Here, There
<1>0. Known(p)
  BY LocalFacts
<1>c. cmd' = cmd /\ Kind(p)' = Kind(p) /\ Dirs(p)' = Dirs(p) /\ (Reads(p)' <=> Reads(p))
  BY SameCommand
<1>1. TypeOK'
  <2>1. lckdir' \in [Dir -> Proc \union {None}] /\ rfl' \in [Dir -> SUBSET Proc] /\ wfl' \in [Dir -> SUBSET Proc]
    <3>1. Here(p) \in Dir /\ rfl \in [Dir -> SUBSET Proc]
      BY <1>0 DEF Known, Lists, TypeOK
    <3>2. [rfl EXCEPT ![Here(p)] = @ \union {p}] \in [Dir -> SUBSET Proc]
      BY <3>1
    <3>3. rfl' = rfl \/ rfl' = [rfl EXCEPT ![Here(p)] = @ \union {p}]
      OBVIOUS
    <3> QED
      BY <1>0, <3>1, <3>2, <3>3 DEF Known, TypeOK
  <2>2. pc' \in [Proc -> Idle \union Locking \union Removing \union {"work", "killed"}]
    BY <1>0 DEF Known, TypeOK
  <2>3. todo' \in [Proc -> SUBSET Dir] /\ listed' \in [Proc -> SUBSET Dir] /\ have' \in [Proc -> SUBSET Dir]
    BY <1>0 DEF Known, Lists, TypeOK
  <2>4. readlock' \in [Proc -> BOOLEAN] /\ why' \in [Proc -> {"next", "end", "retry", "exit", "unlocked"}]
    BY <1>0 DEF Known, TypeOK
  <2>5. faults' \in Counts /\ slip' \subseteq Mishap
    BY <1>0, Counted DEF Known, TypeOK, Counts, Mishap
  <2> QED
    BY <1>0, <1>c, <2>1, <2>2, <2>3, <2>4, <2>5 DEF Known, TypeOK, Counts
<1>2. Alone(p)
  BY <1>0, <1>c, NoneAssumption DEF Known, Alone, TypeOK, LockDirsOwned, Lists
<1>3. Lists(p)'
  BY <1>0, <1>c, NoneAssumption DEF Known, TypeOK, Lists
<1>4. Reason(p)'
  BY <1>0, <1>c, NoneAssumption DEF Known, TypeOK, Lists, Reason
<1>5. LockDirsOwned(p)'
  BY <1>0, <1>c, NoneAssumption DEF Known, TypeOK, Lists, LockDirsOwned
<1>6. TreeKept(p)'
  BY <1>0, <1>c, NoneAssumption DEF Known, TypeOK, Lists, TreeKept
<1>7. NoReaders(p)'
  BY <1>0, <1>c, NoneAssumption DEF Known, TypeOK, Lists, NoReaders
<1>8. ReadLocked(p)'
  BY <1>0, <1>c, NoneAssumption DEF Known, TypeOK, Lists, ReadLocked
<1>9. MadeKnown(p)'
  BY <1>0, <1>c, NoneAssumption DEF Known, TypeOK, Lists, MadeKnown
<1>10. FilesListed(p)'
  BY <1>0, <1>c, NoneAssumption, ZenonT(40) DEF Known, TypeOK, Lists, ReadLocked, FilesListed
<1>11. HandsFree(p)'
  BY <1>0, <1>c DEF Known, TypeOK, Lists, HandsFree
<1> QED
  BY <1>1, <1>2, <1>3, <1>4, <1>5, <1>6, <1>7, <1>8, <1>9, <1>10, <1>11 DEF LocalInv

\* A writer goes on to the next directory with the lock directory in hand.
LEMMA WriteFileKeeps ==
    ASSUME IndInv, NEW p \in Proc, WriteFile(p)
    PROVE  TypeOK' /\ Alone(p) /\ LocalInv(p)'
<1> USE DEF WriteFile, Failure, AfterError, Goto, RemoveThen, fileVars, listVars,
            Locking, Removing, Safe, Tidy, Here, There
<1>0. Known(p)
  BY LocalFacts
<1>c. cmd' = cmd /\ Kind(p)' = Kind(p) /\ Dirs(p)' = Dirs(p) /\ (Reads(p)' <=> Reads(p))
  BY SameCommand
<1>1. TypeOK'
  <2>1. lckdir' \in [Dir -> Proc \union {None}] /\ rfl' \in [Dir -> SUBSET Proc] /\ wfl' \in [Dir -> SUBSET Proc]
    <3>1. Here(p) \in Dir /\ wfl \in [Dir -> SUBSET Proc]
      BY <1>0 DEF Known, Lists, TypeOK
    <3>2. [wfl EXCEPT ![Here(p)] = @ \union {p}] \in [Dir -> SUBSET Proc]
      BY <3>1
    <3>3. wfl' = wfl \/ wfl' = [wfl EXCEPT ![Here(p)] = @ \union {p}]
      OBVIOUS
    <3> QED
      BY <1>0, <3>1, <3>2, <3>3 DEF Known, TypeOK
  <2>2. pc' \in [Proc -> Idle \union Locking \union Removing \union {"work", "killed"}]
    <3>1. \E l \in {"work", "mkdir", "clear"} : pc' = [pc EXCEPT ![p] = l]
      OBVIOUS
    <3>2. {"work", "mkdir", "clear"} \subseteq Idle \union Locking \union Removing \union {"work", "killed"}
      OBVIOUS
    <3> QED
      BY <3>1, <3>2, GotoType
  <2>3. todo' \in [Proc -> SUBSET Dir] /\ listed' \in [Proc -> SUBSET Dir] /\ have' \in [Proc -> SUBSET Dir]
    <3>1. [todo EXCEPT ![p] = @ \ {Here(p)}] \in [Proc -> SUBSET Dir]
      BY <1>0 DEF Known, TypeOK
    <3>2. todo' = todo \/ todo' = [todo EXCEPT ![p] = @ \ {Here(p)}]
      OBVIOUS
    <3> QED
      BY <1>0, <3>1, <3>2 DEF Known, TypeOK
  <2>4. readlock' \in [Proc -> BOOLEAN] /\ why' \in [Proc -> {"next", "end", "retry", "exit", "unlocked"}]
    BY <1>0 DEF Known, TypeOK
  <2>5. faults' \in Counts /\ slip' \subseteq Mishap
    BY <1>0, Counted DEF Known, TypeOK, Counts, Mishap
  <2> QED
    BY <1>0, <1>c, <2>1, <2>2, <2>3, <2>4, <2>5 DEF Known, TypeOK, Counts
<1>2. Alone(p)
  <2>1. \A q \in Proc \ {p} : \A d \in Dir : q \in wfl'[d] <=> q \in wfl[d]
    <3>1. wfl' = wfl \/ wfl' = [wfl EXCEPT ![Here(p)] = @ \union {p}]
      OBVIOUS
    <3>2. wfl \in [Dir -> SUBSET Proc]
      BY <1>0 DEF Known, TypeOK
    <3> QED
      BY <3>1, <3>2
  <2>2. \A q \in Proc \ {p} : pc'[q] = pc[q] /\ todo'[q] = todo[q] /\ why'[q] = why[q]
    BY <1>0 DEF Known, TypeOK
  <2> QED
    BY <1>c, <2>1, <2>2 DEF Alone
<1>3. Lists(p)'
  BY <1>0, <1>c, NoneAssumption DEF Known, TypeOK, Lists
<1>4. Reason(p)'
  BY <1>0, <1>c, NoneAssumption DEF Known, TypeOK, Lists, Reason
<1>5. LockDirsOwned(p)'
  BY <1>0, <1>c, NoneAssumption DEF Known, TypeOK, Lists, LockDirsOwned
<1>6. TreeKept(p)'
  BY <1>0, <1>c, NoneAssumption DEF Known, TypeOK, Lists, TreeKept
<1>7. NoReaders(p)'
  <2>1. CASE /\ todo' = [todo EXCEPT ![p] = @ \ {Here(p)}]
             /\ pc' = [pc EXCEPT ![p] = IF todo[p] = {Here(p)} THEN "work" ELSE "mkdir"]
    <3>1. todo'[p] = todo[p] \ {Here(p)} /\ pc'[p] \in {"work", "mkdir"}
      BY <1>0, <2>1 DEF Known, TypeOK
    <3>2. pc'[p] = "work" => todo[p] = {Here(p)}
      BY <1>0, <2>1 DEF Known, TypeOK
    <3> QED
      BY <1>0, <1>c, <3>1, <3>2 DEF Known, NoReaders
  <2>2. CASE pc' = [pc EXCEPT ![p] = "clear"] /\ todo' = todo
    <3>1. pc'[p] = "clear"
      BY <1>0, <2>2 DEF Known, TypeOK
    <3> QED
      BY <1>0, <1>c, <2>2, <3>1 DEF Known, NoReaders
  <2> QED
    BY <2>1, <2>2
<1>8. ReadLocked(p)'
  BY <1>0, <1>c, NoneAssumption DEF Known, TypeOK, Lists, ReadLocked
<1>9. MadeKnown(p)'
  BY <1>0, <1>c, NoneAssumption DEF Known, TypeOK, Lists, MadeKnown
<1>10. FilesListed(p)'
  <2>1. pc'[p] \in {"work", "mkdir", "clear"}
    BY <1>0 DEF Known, TypeOK
  <2>2. Tidy => \A d \in Dir : p \in wfl'[d] => d \in listed[p]
    <3>1. wfl' = wfl \/ wfl' = [wfl EXCEPT ![Here(p)] = @ \union {p}]
      OBVIOUS
    <3>2. Here(p) \in listed[p] /\ wfl \in [Dir -> SUBSET Proc]
      BY <1>0 DEF Known, TypeOK, Lists
    <3>3. Tidy => \A d \in Dir : p \in wfl[d] => d \in listed[p]
      BY <1>0 DEF Known, FilesListed
    <3> QED
      BY <3>1, <3>2, <3>3
  <2> QED
    BY <1>0, <2>1, <2>2 DEF Known, FilesListed
<1>11. HandsFree(p)'
  BY <1>0, <1>c DEF Known, TypeOK, Lists, HandsFree
<1> QED
  BY <1>1, <1>2, <1>3, <1>4, <1>5, <1>6, <1>7, <1>8, <1>9, <1>10, <1>11 DEF LocalInv

\* clear_lock removes a lock directory that have_lckdir says is its own.
LEMMA ClearKeeps ==
    ASSUME IndInv, NEW p \in Proc, Clear(p)
    PROVE  TypeOK' /\ Alone(p) /\ LocalInv(p)'
<1> USE DEF Clear, RemovalFails, Failure, Goto, RemoveThen, fileVars, listVars,
            Locking, Removing, Safe, Tidy, Here, There
<1>0. Known(p)
  BY LocalFacts
<1>c. cmd' = cmd /\ Kind(p)' = Kind(p) /\ Dirs(p)' = Dirs(p) /\ (Reads(p)' <=> Reads(p))
  BY SameCommand
<1>1. TypeOK'
  <2>1. lckdir' \in [Dir -> Proc \union {None}] /\ rfl' \in [Dir -> SUBSET Proc] /\ wfl' \in [Dir -> SUBSET Proc]
    BY <1>0 DEF Known, Lists, TypeOK
  <2>2. pc' \in [Proc -> Idle \union Locking \union Removing \union {"work", "killed"}]
    BY <1>0 DEF Known, TypeOK
  <2>3. todo' \in [Proc -> SUBSET Dir] /\ listed' \in [Proc -> SUBSET Dir] /\ have' \in [Proc -> SUBSET Dir]
    BY <1>0 DEF Known, Lists, TypeOK
  <2>4. readlock' \in [Proc -> BOOLEAN] /\ why' \in [Proc -> {"next", "end", "retry", "exit", "unlocked"}]
    BY <1>0 DEF Known, TypeOK
  <2>5. faults' \in Counts /\ slip' \subseteq Mishap
    BY <1>0, Counted DEF Known, TypeOK, Counts, Mishap
  <2> QED
    BY <1>0, <1>c, <2>1, <2>2, <2>3, <2>4, <2>5 DEF Known, TypeOK, Counts
<1>2. Alone(p)
  BY <1>0, <1>c, NoneAssumption DEF Known, Alone, TypeOK, LockDirsOwned, Lists
<1>3. Lists(p)'
  BY <1>0, <1>c, NoneAssumption DEF Known, TypeOK, Lists
<1>4. Reason(p)'
  BY <1>0, <1>c, NoneAssumption DEF Known, TypeOK, Lists, Reason
<1>5. LockDirsOwned(p)'
  BY <1>0, <1>c, NoneAssumption DEF Known, TypeOK, Lists, LockDirsOwned
<1>6. TreeKept(p)'
  BY <1>0, <1>c, NoneAssumption DEF Known, TypeOK, Lists, TreeKept
<1>7. NoReaders(p)'
  BY <1>0, <1>c, NoneAssumption DEF Known, TypeOK, Lists, NoReaders
<1>8. ReadLocked(p)'
  BY <1>0, <1>c, NoneAssumption DEF Known, TypeOK, Lists, ReadLocked
<1>9. MadeKnown(p)'
  BY <1>0, <1>c, NoneAssumption DEF Known, TypeOK, Lists, MadeKnown
<1>10. FilesListed(p)'
  BY <1>0, <1>c, NoneAssumption DEF Known, TypeOK, Lists, FilesListed
<1>11. HandsFree(p)'
  BY <1>0, <1>c DEF Known, TypeOK, Lists, HandsFree
<1> QED
  BY <1>1, <1>2, <1>3, <1>4, <1>5, <1>6, <1>7, <1>8, <1>9, <1>10, <1>11 DEF LocalInv

\* Resetting have_lckdir catches up with the rmdir of clear_lock.
LEMMA ClearedKeeps ==
    ASSUME IndInv, NEW p \in Proc, Cleared(p)
    PROVE  TypeOK' /\ Alone(p) /\ LocalInv(p)'
<1> USE DEF Goto, RemoveThen, fileVars, listVars,
            Locking, Removing, Safe, Tidy, Here, There
<1>0. Known(p)
  BY LocalFacts
<1>c. cmd' = cmd /\ Kind(p)' = Kind(p) /\ Dirs(p)' = Dirs(p) /\ (Reads(p)' <=> Reads(p))
  BY SameCommand DEF Cleared
<1>e. /\ lckdir' = lckdir /\ rfl' = rfl /\ wfl' = wfl
      /\ todo' = todo /\ listed' = listed /\ readlock' = readlock
      /\ faults' = faults /\ slip' = slip
      /\ have' = [have EXCEPT ![p] = @ \ {Here(p)}]
      /\ pc[p] = "cleared"
  BY DEF Cleared
<1>g. \/ /\ pc' = [pc EXCEPT ![p] = "work"] /\ why' = why
         /\ Reads(p) /\ readlock[p]
      \/ /\ pc' = [pc EXCEPT ![p] = "unlink"]
         /\ \/ why' = [why EXCEPT ![p] = "exit"]
            \/ why' = why /\ ~Reads(p)
  BY DEF Cleared
<1>h. /\ have'[p] = have[p] \ {Here(p)}
      /\ \/ pc'[p] = "work" /\ Reads(p) /\ readlock[p]
         \/ pc'[p] = "unlink" /\ (why'[p] = "exit" \/ (why'[p] = why[p] /\ ~Reads(p)))
  BY <1>0, <1>e, <1>g DEF Known, TypeOK
<1>1. TypeOK'
  <2>1. pc' \in [Proc -> Idle \union Locking \union Removing \union {"work", "killed"}]
    BY <1>g, GotoType
  <2>2. have' \in [Proc -> SUBSET Dir]
    BY <1>0, <1>e DEF Known, TypeOK
  <2>3. why' \in [Proc -> {"next", "end", "retry", "exit", "unlocked"}]
    BY <1>0, <1>g DEF Known, TypeOK
  <2> QED
    BY <1>0, <1>c, <1>e, <2>1, <2>2, <2>3 DEF Known, TypeOK
<1>2. Alone(p)
  BY <1>0, <1>c, <1>e, <1>g DEF Known, Alone, TypeOK
<1>3. Lists(p)'
  BY <1>0, <1>c, <1>e, <1>h DEF Known, Lists
<1>4. Reason(p)'
  BY <1>0, <1>c, <1>e, <1>h DEF Known, Reason
<1>5. LockDirsOwned(p)'
  BY <1>0, <1>e, <1>h DEF Known, LockDirsOwned
<1>6. TreeKept(p)'
  BY <1>0, <1>c, <1>e, <1>h DEF Known, TreeKept
<1>7. NoReaders(p)'
  BY <1>0, <1>c, <1>e, <1>h DEF Known, NoReaders
<1>8. ReadLocked(p)'
  BY <1>0, <1>c, <1>e, <1>h DEF Known, ReadLocked
<1>9. MadeKnown(p)'
  BY <1>0, <1>e, <1>h DEF Known, MadeKnown
<1>10. FilesListed(p)'
  BY <1>0, <1>e, <1>h DEF Known, FilesListed
<1>11. HandsFree(p)'
  BY <1>c, <1>h DEF HandsFree
<1> QED
  BY <1>1, <1>2, <1>3, <1>4, <1>5, <1>6, <1>7, <1>8, <1>9, <1>10, <1>11 DEF LocalInv

\* Lock_Cleanup starts with the lists of the command.
LEMMA WorkKeeps ==
    ASSUME IndInv, NEW p \in Proc, Work(p)
    PROVE  TypeOK' /\ Alone(p) /\ LocalInv(p)'
<1> USE DEF Work, Goto, RemoveThen, fileVars, listVars,
            Locking, Removing, Safe, Tidy, Here, There
<1>0. Known(p)
  BY LocalFacts
<1>c. cmd' = cmd /\ Kind(p)' = Kind(p) /\ Dirs(p)' = Dirs(p) /\ (Reads(p)' <=> Reads(p))
  BY SameCommand
<1>1. TypeOK'
  <2>1. lckdir' \in [Dir -> Proc \union {None}] /\ rfl' \in [Dir -> SUBSET Proc] /\ wfl' \in [Dir -> SUBSET Proc]
    BY <1>0 DEF Known, Lists, TypeOK
  <2>2. pc' \in [Proc -> Idle \union Locking \union Removing \union {"work", "killed"}]
    BY <1>0 DEF Known, TypeOK
  <2>3. todo' \in [Proc -> SUBSET Dir] /\ listed' \in [Proc -> SUBSET Dir] /\ have' \in [Proc -> SUBSET Dir]
    BY <1>0 DEF Known, Lists, TypeOK
  <2>4. readlock' \in [Proc -> BOOLEAN] /\ why' \in [Proc -> {"next", "end", "retry", "exit", "unlocked"}]
    BY <1>0 DEF Known, TypeOK
  <2>5. faults' \in Counts /\ slip' \subseteq Mishap
    BY <1>0, Counted DEF Known, TypeOK, Counts, Mishap
  <2> QED
    BY <1>0, <1>c, <2>1, <2>2, <2>3, <2>4, <2>5 DEF Known, TypeOK, Counts
<1>2. Alone(p)
  BY <1>0, <1>c, NoneAssumption DEF Known, Alone, TypeOK, LockDirsOwned, Lists
<1>3. Lists(p)'
  BY <1>0, <1>c, NoneAssumption DEF Known, TypeOK, Lists
<1>4. Reason(p)'
  BY <1>0, <1>c DEF Known, TypeOK, Lists, Reason, ReadLocked
<1>5. LockDirsOwned(p)'
  BY <1>0, <1>c, NoneAssumption DEF Known, TypeOK, Lists, LockDirsOwned
<1>6. TreeKept(p)'
  BY <1>0, <1>c, NoneAssumption DEF Known, TypeOK, Lists, TreeKept
<1>7. NoReaders(p)'
  BY <1>0, <1>c, NoneAssumption DEF Known, TypeOK, Lists, NoReaders
<1>8. ReadLocked(p)'
  BY <1>0, <1>c, NoneAssumption DEF Known, TypeOK, Lists, ReadLocked
<1>9. MadeKnown(p)'
  BY <1>0, <1>c, NoneAssumption DEF Known, TypeOK, Lists, MadeKnown
<1>10. FilesListed(p)'
  BY <1>0, <1>c, NoneAssumption DEF Known, TypeOK, Lists, FilesListed
<1>11. HandsFree(p)'
  BY <1>0, <1>c DEF Known, TypeOK, Lists, HandsFree
<1> QED
  BY <1>1, <1>2, <1>3, <1>4, <1>5, <1>6, <1>7, <1>8, <1>9, <1>10, <1>11 DEF LocalInv

\* The files of a directory are gone before the directory leaves the list,
\* unless an unlink failed.
LEMMA UnlinkKeeps ==
    ASSUME IndInv, NEW p \in Proc, Unlink(p)
    PROVE  TypeOK' /\ Alone(p) /\ LocalInv(p)'
<1> DEFINE d0 == There(p)
<1> USE DEF Locking, Removing, Safe, Tidy
<1>0. Known(p)
  BY LocalFacts
<1>a. /\ lckdir' = lckdir /\ cmd' = cmd /\ todo' = todo /\ have' = have
      /\ readlock' = readlock /\ why' = why
      /\ pc[p] = "unlink" /\ listed[p] # {}
      /\ \/ d0 \in have[p] /\ pc' = [pc EXCEPT ![p] = "rmdir"] /\ listed' = listed
         \/ d0 \notin have[p] /\ pc' = pc /\ listed' = [listed EXCEPT ![p] = @ \ {d0}]
  BY DEF Unlink, Goto
<1>b. /\ \/ rfl' = [rfl EXCEPT ![d0] = IF readlock[p] THEN @ \ {p} ELSE @]
         \/ rfl' = rfl
      /\ wfl' = [wfl EXCEPT ![d0] = @ \ {p}] \/ wfl' = wfl
      /\ \/ /\ p \notin wfl'[d0] /\ (readlock[p] => p \notin rfl'[d0])
            /\ faults' = faults /\ slip' = slip
         \/ /\ faults' = [faults EXCEPT !.io = @ + 1]
            /\ slip' = slip \union {"remove"}
  BY DEF Unlink, UnlinkFiles, RemovalFails, Failure
<1>c. Kind(p)' = Kind(p) /\ Dirs(p)' = Dirs(p) /\ (Reads(p)' <=> Reads(p))
  BY <1>a, SameCommand
<1>d. d0 \in listed[p] /\ d0 \in Dir
  BY <1>0, <1>a DEF Known
<1>e. Here(p)' = Here(p) /\ (listed' = listed => There(p)' = d0)
  BY <1>a DEF Here, There
<1> HIDE DEF d0
<1>1. TypeOK'
  <2>1. rfl' \in [Dir -> SUBSET Proc] /\ wfl' \in [Dir -> SUBSET Proc]
    <3>1. rfl \in [Dir -> SUBSET Proc] /\ wfl \in [Dir -> SUBSET Proc]
      BY <1>0 DEF Known, TypeOK
    <3> QED
      BY <3>1, <1>b, <1>d
  <2>2. pc' \in [Proc -> Idle \union Locking \union Removing \union {"work", "killed"}]
    BY <1>0, <1>a DEF Known, TypeOK
  <2>3. listed' \in [Proc -> SUBSET Dir]
    <3>1. listed \in [Proc -> SUBSET Dir]
      BY <1>0 DEF Known, TypeOK
    <3> QED
      BY <3>1, <1>a
  <2>4. faults' \in Counts /\ slip' \subseteq Mishap
    BY <1>0, <1>b, Counted DEF Known, TypeOK, Counts, Mishap
  <2> QED
    BY <1>0, <1>a, <2>1, <2>2, <2>3, <2>4 DEF Known, TypeOK, Counts
<1>f. \A d \in Dir :
        /\ rfl'[d] \subseteq rfl[d] /\ wfl'[d] \subseteq wfl[d]
        /\ rfl[d] \subseteq rfl'[d] \union {p} /\ wfl[d] \subseteq wfl'[d] \union {p}
        /\ p \in rfl[d] /\ p \notin rfl'[d] => d = d0 /\ readlock[p]
  <2>1. rfl \in [Dir -> SUBSET Proc] /\ wfl \in [Dir -> SUBSET Proc]
    BY <1>0 DEF Known, TypeOK
  <2> QED
    BY <2>1, <1>b
<1>g. Tidy' => Tidy /\ p \notin wfl'[d0] /\ (readlock[p] => p \notin rfl'[d0])
  BY <1>b
<1>h. /\ pc'[p] \in {"unlink", "rmdir"}
      /\ pc'[p] = "rmdir" => d0 \in have[p] /\ listed'[p] = listed[p] /\ There(p)' = d0
      /\ listed'[p] \subseteq listed[p] /\ listed[p] \ {d0} \subseteq listed'[p]
      /\ d0 \in have[p] => d0 \in listed'[p]
      /\ \A q \in Proc \ {p} : pc'[q] = pc[q] /\ listed'[q] = listed[q]
  BY <1>0, <1>a, <1>d, <1>e DEF Known, TypeOK
<1>2. Alone(p)
  BY <1>a, <1>b, <1>f, <1>h DEF Alone
<1>3. Lists(p)'
  BY <1>0, <1>a, <1>h DEF Known, Lists
<1>4. Reason(p)'
  BY <1>0, <1>a, <1>c, <1>h DEF Known, Reason
<1>5. LockDirsOwned(p)'
  BY <1>0, <1>a, <1>b, <1>h DEF Known, LockDirsOwned
<1>6. TreeKept(p)'
  BY <1>h DEF TreeKept
<1>7. NoReaders(p)'
  BY <1>h DEF NoReaders
<1>8. ReadLocked(p)'
  BY <1>h DEF ReadLocked
<1>9. MadeKnown(p)'
  BY <1>0, <1>a, <1>g, <1>h DEF Known, MadeKnown
<1>10. FilesListed(p)'
  <2> SUFFICES ASSUME Tidy', NEW d \in Dir
               PROVE  /\ p \in rfl'[d] =>
                           /\ d \in listed'[p] /\ readlock'[p]
                           /\ pc'[p] \notin {"mkdir", "stat", "have", "readers", "file"}
                      /\ p \in wfl'[d] => d \in listed'[p]
                      /\ pc'[p] \in {"rmdir", "forget"} /\ d = There(p)' => p \notin rfl'[d] \union wfl'[d]
    BY DEF FilesListed
  <2>1. /\ p \in rfl[d] => d \in listed[p] /\ readlock[p]
        /\ p \in wfl[d] => d \in listed[p]
    BY <1>0, <1>a, <1>g DEF Known, FilesListed
  <2>2. p \in rfl'[d] => d # d0 /\ p \in rfl[d]
    BY <2>1, <1>f, <1>g
  <2>3. p \in wfl'[d] => d # d0 /\ p \in wfl[d]
    BY <1>f, <1>g
  <2> QED
    BY <2>1, <2>2, <2>3, <1>a, <1>h
<1>11. HandsFree(p)'
  BY <1>h DEF HandsFree
<1> QED
  BY <1>1, <1>2, <1>3, <1>4, <1>5, <1>6, <1>7, <1>8, <1>9, <1>10, <1>11 DEF LocalInv

\* lock_simple_remove removes a lock directory that have_lckdir says is its own.
LEMMA RmdirKeeps ==
    ASSUME IndInv, NEW p \in Proc, Rmdir(p)
    PROVE  TypeOK' /\ Alone(p) /\ LocalInv(p)'
<1> USE DEF Rmdir, RemovalFails, Failure, Goto, RemoveThen, fileVars, listVars,
            Locking, Removing, Safe, Tidy, Here, There
<1>0. Known(p)
  BY LocalFacts
<1>c. cmd' = cmd /\ Kind(p)' = Kind(p) /\ Dirs(p)' = Dirs(p) /\ (Reads(p)' <=> Reads(p))
  BY SameCommand
<1>1. TypeOK'
  <2>1. lckdir' \in [Dir -> Proc \union {None}] /\ rfl' \in [Dir -> SUBSET Proc] /\ wfl' \in [Dir -> SUBSET Proc]
    BY <1>0 DEF Known, Lists, TypeOK
  <2>2. pc' \in [Proc -> Idle \union Locking \union Removing \union {"work", "killed"}]
    BY <1>0 DEF Known, TypeOK
  <2>3. todo' \in [Proc -> SUBSET Dir] /\ listed' \in [Proc -> SUBSET Dir] /\ have' \in [Proc -> SUBSET Dir]
    BY <1>0 DEF Known, Lists, TypeOK
  <2>4. readlock' \in [Proc -> BOOLEAN] /\ why' \in [Proc -> {"next", "end", "retry", "exit", "unlocked"}]
    BY <1>0 DEF Known, TypeOK
  <2>5. faults' \in Counts /\ slip' \subseteq Mishap
    BY <1>0, Counted DEF Known, TypeOK, Counts, Mishap
  <2> QED
    BY <1>0, <1>c, <2>1, <2>2, <2>3, <2>4, <2>5 DEF Known, TypeOK, Counts
<1>2. Alone(p)
  BY <1>0, <1>c, NoneAssumption DEF Known, Alone, TypeOK, LockDirsOwned, Lists
<1>3. Lists(p)'
  BY <1>0, <1>c, NoneAssumption DEF Known, TypeOK, Lists
<1>4. Reason(p)'
  BY <1>0, <1>c, NoneAssumption DEF Known, TypeOK, Lists, Reason
<1>5. LockDirsOwned(p)'
  BY <1>0, <1>c, NoneAssumption DEF Known, TypeOK, Lists, LockDirsOwned
<1>6. TreeKept(p)'
  BY <1>0, <1>c, NoneAssumption DEF Known, TypeOK, Lists, TreeKept
<1>7. NoReaders(p)'
  BY <1>0, <1>c, NoneAssumption DEF Known, TypeOK, Lists, NoReaders
<1>8. ReadLocked(p)'
  BY <1>0, <1>c, NoneAssumption DEF Known, TypeOK, Lists, ReadLocked
<1>9. MadeKnown(p)'
  BY <1>0, <1>c, NoneAssumption DEF Known, TypeOK, Lists, MadeKnown
<1>10. FilesListed(p)'
  BY <1>0, <1>c, NoneAssumption DEF Known, TypeOK, Lists, FilesListed
<1>11. HandsFree(p)'
  BY <1>0, <1>c DEF Known, TypeOK, Lists, HandsFree
<1> QED
  BY <1>1, <1>2, <1>3, <1>4, <1>5, <1>6, <1>7, <1>8, <1>9, <1>10, <1>11 DEF LocalInv

\* Resetting have_lckdir catches up with the rmdir of lock_simple_remove.
LEMMA ForgetKeeps ==
    ASSUME IndInv, NEW p \in Proc, Forget(p)
    PROVE  TypeOK' /\ Alone(p) /\ LocalInv(p)'
<1> USE DEF Forget, Goto, RemoveThen, fileVars, listVars,
            Locking, Removing, Safe, Tidy, Here, There
<1>0. Known(p)
  BY LocalFacts
<1>c. cmd' = cmd /\ Kind(p)' = Kind(p) /\ Dirs(p)' = Dirs(p) /\ (Reads(p)' <=> Reads(p))
  BY SameCommand
<1>1. TypeOK'
  <2>1. lckdir' \in [Dir -> Proc \union {None}] /\ rfl' \in [Dir -> SUBSET Proc] /\ wfl' \in [Dir -> SUBSET Proc]
    BY <1>0 DEF Known, Lists, TypeOK
  <2>2. pc' \in [Proc -> Idle \union Locking \union Removing \union {"work", "killed"}]
    BY <1>0 DEF Known, TypeOK
  <2>3. todo' \in [Proc -> SUBSET Dir] /\ listed' \in [Proc -> SUBSET Dir] /\ have' \in [Proc -> SUBSET Dir]
    BY <1>0 DEF Known, Lists, TypeOK
  <2>4. readlock' \in [Proc -> BOOLEAN] /\ why' \in [Proc -> {"next", "end", "retry", "exit", "unlocked"}]
    BY <1>0 DEF Known, TypeOK
  <2>5. faults' \in Counts /\ slip' \subseteq Mishap
    BY <1>0, Counted DEF Known, TypeOK, Counts, Mishap
  <2> QED
    BY <1>0, <1>c, <2>1, <2>2, <2>3, <2>4, <2>5 DEF Known, TypeOK, Counts
<1>2. Alone(p)
  BY <1>0, <1>c, NoneAssumption DEF Known, Alone, TypeOK, LockDirsOwned, Lists
<1>3. Lists(p)'
  BY <1>0, <1>c, NoneAssumption DEF Known, TypeOK, Lists
<1>4. Reason(p)'
  BY <1>0, <1>c, NoneAssumption DEF Known, TypeOK, Lists, Reason
<1>5. LockDirsOwned(p)'
  BY <1>0, <1>c, NoneAssumption DEF Known, TypeOK, Lists, LockDirsOwned
<1>6. TreeKept(p)'
  BY <1>0, <1>c, NoneAssumption DEF Known, TypeOK, Lists, TreeKept
<1>7. NoReaders(p)'
  BY <1>0, <1>c, NoneAssumption DEF Known, TypeOK, Lists, NoReaders
<1>8. ReadLocked(p)'
  BY <1>0, <1>c, NoneAssumption DEF Known, TypeOK, Lists, ReadLocked
<1>9. MadeKnown(p)'
  BY <1>0, <1>c, NoneAssumption DEF Known, TypeOK, Lists, MadeKnown
<1>10. FilesListed(p)'
  BY <1>0, <1>c, NoneAssumption DEF Known, TypeOK, Lists, FilesListed
<1>11. HandsFree(p)'
  BY <1>0, <1>c DEF Known, TypeOK, Lists, HandsFree
<1> QED
  BY <1>1, <1>2, <1>3, <1>4, <1>5, <1>6, <1>7, <1>8, <1>9, <1>10, <1>11 DEF LocalInv

\* A killed process keeps what it has; nothing is said of it any more.
LEMMA KillKeeps ==
    ASSUME IndInv, NEW p \in Proc, Kill(p)
    PROVE  TypeOK' /\ Alone(p) /\ LocalInv(p)'
<1> USE DEF Kill, Goto, RemoveThen, fileVars, listVars,
            Locking, Removing, Safe, Tidy, Here, There
<1>0. Known(p)
  BY LocalFacts
<1>c. cmd' = cmd /\ Kind(p)' = Kind(p) /\ Dirs(p)' = Dirs(p) /\ (Reads(p)' <=> Reads(p))
  BY SameCommand
<1>1. TypeOK'
  <2>1. lckdir' \in [Dir -> Proc \union {None}] /\ rfl' \in [Dir -> SUBSET Proc] /\ wfl' \in [Dir -> SUBSET Proc]
    BY <1>0 DEF Known, Lists, TypeOK
  <2>2. pc' \in [Proc -> Idle \union Locking \union Removing \union {"work", "killed"}]
    BY <1>0 DEF Known, TypeOK
  <2>3. todo' \in [Proc -> SUBSET Dir] /\ listed' \in [Proc -> SUBSET Dir] /\ have' \in [Proc -> SUBSET Dir]
    BY <1>0 DEF Known, Lists, TypeOK
  <2>4. readlock' \in [Proc -> BOOLEAN] /\ why' \in [Proc -> {"next", "end", "retry", "exit", "unlocked"}]
    BY <1>0 DEF Known, TypeOK
  <2>5. faults' \in Counts /\ slip' \subseteq Mishap
    BY <1>0, Counted DEF Known, TypeOK, Counts, Mishap
  <2> QED
    BY <1>0, <1>c, <2>1, <2>2, <2>3, <2>4, <2>5 DEF Known, TypeOK, Counts
<1>2. Alone(p)
  BY <1>0, <1>c, NoneAssumption DEF Known, Alone, TypeOK, LockDirsOwned, Lists
<1>3. Lists(p)'
  BY <1>0, <1>c, NoneAssumption DEF Known, TypeOK, Lists
<1>4. Reason(p)'
  BY <1>0, <1>c, NoneAssumption DEF Known, TypeOK, Lists, Reason
<1>5. LockDirsOwned(p)'
  BY <1>0, <1>c, NoneAssumption DEF Known, TypeOK, Lists, LockDirsOwned
<1>6. TreeKept(p)'
  BY <1>0, <1>c, NoneAssumption DEF Known, TypeOK, Lists, TreeKept
<1>7. NoReaders(p)'
  BY <1>0, <1>c, NoneAssumption DEF Known, TypeOK, Lists, NoReaders
<1>8. ReadLocked(p)'
  BY <1>0, <1>c, NoneAssumption DEF Known, TypeOK, Lists, ReadLocked
<1>9. MadeKnown(p)'
  BY <1>0, <1>c, NoneAssumption DEF Known, TypeOK, Lists, MadeKnown
<1>10. FilesListed(p)'
  BY <1>0, <1>c, NoneAssumption DEF Known, TypeOK, Lists, FilesListed
<1>11. HandsFree(p)'
  BY <1>0, <1>c DEF Known, TypeOK, Lists, HandsFree
<1> QED
  BY <1>1, <1>2, <1>3, <1>4, <1>5, <1>6, <1>7, <1>8, <1>9, <1>10, <1>11 DEF LocalInv

\* A signal ends in remove_locks, or is a mishap.
LEMMA SignalKeeps ==
    ASSUME IndInv, NEW p \in Proc, Signal(p)
    PROVE  TypeOK' /\ Alone(p) /\ LocalInv(p)'
<1> USE DEF Signal, SignalMishap, InLockCleanup, Goto, RemoveThen, fileVars, listVars,
            Locking, Removing, Safe, Tidy, Here, There
<1>0. Known(p)
  BY LocalFacts
<1>c. cmd' = cmd /\ Kind(p)' = Kind(p) /\ Dirs(p)' = Dirs(p) /\ (Reads(p)' <=> Reads(p))
  BY SameCommand
<1>1. TypeOK'
  <2>1. lckdir' \in [Dir -> Proc \union {None}] /\ rfl' \in [Dir -> SUBSET Proc] /\ wfl' \in [Dir -> SUBSET Proc]
    BY <1>0 DEF Known, Lists, TypeOK
  <2>2. pc' \in [Proc -> Idle \union Locking \union Removing \union {"work", "killed"}]
    <3>1. \E l \in {"gone", "unlink"} : pc' = [pc EXCEPT ![p] = l]
      OBVIOUS
    <3> QED
      BY <3>1, GotoType DEF Idle
  <2>3. todo' \in [Proc -> SUBSET Dir] /\ listed' \in [Proc -> SUBSET Dir] /\ have' \in [Proc -> SUBSET Dir]
    BY <1>0 DEF Known, Lists, TypeOK
  <2>4. readlock' \in [Proc -> BOOLEAN] /\ why' \in [Proc -> {"next", "end", "retry", "exit", "unlocked"}]
    BY <1>0 DEF Known, TypeOK
  <2>5. faults' \in Counts /\ slip' \subseteq Mishap
    BY <1>0, Counted, ZenonT(40) DEF Known, TypeOK, Counts, Mishap
  <2> QED
    BY <1>0, <1>c, <2>1, <2>2, <2>3, <2>4, <2>5 DEF Known, TypeOK, Counts
<1>2. Alone(p)
  BY <1>0, <1>c, NoneAssumption DEF Known, Alone, TypeOK, LockDirsOwned, Lists
<1>3. Lists(p)'
  BY <1>0, <1>c, NoneAssumption DEF Known, TypeOK, Lists
<1>4. Reason(p)'
  BY <1>0, <1>c, NoneAssumption DEF Known, TypeOK, Lists, Reason
<1>5. LockDirsOwned(p)'
  BY <1>0, <1>c, NoneAssumption DEF Known, TypeOK, Lists, LockDirsOwned
<1>6. TreeKept(p)'
  BY <1>0, <1>c, NoneAssumption DEF Known, TypeOK, Lists, TreeKept
<1>7. NoReaders(p)'
  BY <1>0, <1>c, NoneAssumption DEF Known, TypeOK, Lists, NoReaders
<1>8. ReadLocked(p)'
  BY <1>0, <1>c, NoneAssumption DEF Known, TypeOK, Lists, ReadLocked
<1>9. MadeKnown(p)'
  <2>1. lckdir' = lckdir /\ have' = have
    OBVIOUS
  <2>2. pc \in [Proc -> Idle \union Locking \union Removing \union {"work", "killed"}]
    BY <1>0 DEF Known, TypeOK
  <2>3. pc'[p] \in {"gone", "unlink"} /\ pc[p] # "killed"
    BY <2>2
  <2>4. Tidy' => Tidy /\ pc[p] # "have"
    BY <2>2
  <2>5. MadeKnown(p)
    BY <1>0 DEF Known
  <2> HIDE DEF Signal, Tidy
  <2> QED
    BY <2>1, <2>3, <2>4, <2>5 DEF MadeKnown
<1>10. FilesListed(p)'
  BY <1>0, <1>c, NoneAssumption DEF Known, TypeOK, Lists, FilesListed
<1>11. HandsFree(p)'
  BY <1>0, <1>c DEF Known, TypeOK, Lists, HandsFree
<1> QED
  BY <1>1, <1>2, <1>3, <1>4, <1>5, <1>6, <1>7, <1>8, <1>9, <1>10, <1>11 DEF LocalInv

\* When remove_locks is done, a process has nothing, and says so.
LEMMA RemovedKeeps ==
    ASSUME IndInv, NEW p \in Proc, Removed(p)
    PROVE  TypeOK' /\ Alone(p) /\ LocalInv(p)'
<1> USE DEF fileVars, listVars, Goto, Locking, Removing, Safe, Tidy, Here, There
<1>0. Known(p)
  BY LocalFacts
<1>1. /\ pc[p] = "unlink" /\ have[p] = {}
      /\ lckdir' = lckdir /\ rfl' = rfl /\ wfl' = wfl
      /\ have' = have /\ readlock' = readlock /\ why' = why /\ faults' = faults
  BY <1>0 DEF Removed, Known, Lists
<1>2. Tidy => \A d \in Dir : lckdir[d] # p /\ p \notin rfl[d] /\ p \notin wfl[d]
  BY <1>0, <1>1 DEF Removed, Known, MadeKnown, FilesListed
<1>3. CASE why[p] = "next" /\ todo[p] # {Here(p)} /\ NextDirectory(p)
  <2>1. TypeOK' /\ Alone(p)
    <3>1. todo[p] \ {Here(p)} \subseteq Dir /\ todo[p] \ {Here(p)} # {}
      BY <1>0, <1>1, <1>3 DEF Known, Reason
    <3>2. {First(todo[p] \ {Here(p)})} \subseteq Dir
      BY <3>1, FirstIn
    <3> QED
      BY <1>0, <1>1, <1>3, <3>1, <3>2 DEF NextDirectory, Known, TypeOK, Alone
  <2>2. /\ todo'[p] = todo[p] \ {Here(p)} /\ todo'[p] # {}
        /\ listed'[p] = {First(todo'[p])} /\ pc'[p] = "mkdir"
    BY <1>0, <1>1, <1>3 DEF NextDirectory, Known, TypeOK, Reason
  <2>3. Reads(p) /\ readlock[p] /\ todo[p] \subseteq Dirs(p)
    BY <1>0, <1>1, <1>3 DEF Known, Reason
  <2>4. slip' = slip /\ Dirs(p)' = Dirs(p) /\ (Reads(p)' <=> Reads(p))
    BY <1>3, SameCommand DEF NextDirectory
  <2>5. Lists(p)' /\ Reason(p)' /\ LockDirsOwned(p)' /\ TreeKept(p)'
    BY <1>1, <2>2, <2>3, <2>4 DEF Lists, Reason, LockDirsOwned, TreeKept
  <2>6. NoReaders(p)' /\ ReadLocked(p)' /\ MadeKnown(p)' /\ FilesListed(p)' /\ HandsFree(p)'
    BY <1>1, <1>2, <2>2, <2>3, <2>4 DEF NoReaders, ReadLocked, MadeKnown, FilesListed, HandsFree
  <2> QED
    BY <2>1, <2>5, <2>6 DEF LocalInv
<1>4. CASE CommandOver(p)
  <2>1. TypeOK' /\ Alone(p)
    <3>1. cmd' = cmd \/ (cmd[p] < Len(Script[p]) /\ cmd' = [cmd EXCEPT ![p] = @ + 1])
      BY <1>4 DEF CommandOver
    <3>2. Len(Script[p]) \in Nat /\ cmd \in [Proc -> Nat] /\ \A q \in Proc : cmd[q] \in 1 .. Len(Script[q])
      BY <1>0, ScriptAssumption DEF Known, TypeOK
    <3>3. cmd' \in [Proc -> Nat] /\ \A q \in Proc : cmd'[q] \in 1 .. Len(Script[q])
      BY <3>1, <3>2
    <3>4. pc' = [pc EXCEPT ![p] = "start"] \/ pc' = [pc EXCEPT ![p] = "done"]
      BY <1>4 DEF CommandOver
    <3>5. TypeOK'
      BY <1>0, <1>1, <1>4, <3>3, <3>4 DEF CommandOver, Known, TypeOK, Idle
    <3>6. Alone(p)
      BY <1>0, <1>1, <1>4, <3>1, <3>4 DEF CommandOver, Known, TypeOK, Alone
    <3> QED
      BY <3>5, <3>6
  <2>2. pc'[p] \in {"start", "done"} /\ listed'[p] = {} /\ slip' = slip
    BY <1>0, <1>4 DEF Removed, CommandOver, Known, TypeOK
  <2>3. Lists(p)' /\ Reason(p)' /\ LockDirsOwned(p)' /\ TreeKept(p)'
    BY <1>1, <2>2 DEF Lists, Reason, LockDirsOwned, TreeKept
  <2>4. NoReaders(p)' /\ ReadLocked(p)' /\ MadeKnown(p)' /\ FilesListed(p)' /\ HandsFree(p)'
    BY <1>1, <1>2, <2>2 DEF NoReaders, ReadLocked, MadeKnown, FilesListed, HandsFree
  <2> QED
    BY <2>1, <2>3, <2>4 DEF LocalInv
<1>5. CASE why[p] = "retry" /\ Retry(p)
  <2>1. TypeOK' /\ Alone(p)
    BY <1>0, <1>1, <1>5 DEF Retry, Known, TypeOK, Alone
  <2>2. todo'[p] = Dirs(p) /\ listed'[p] = Dirs(p) /\ pc'[p] = "mkdir" /\ ~Reads(p)
    BY <1>0, <1>1, <1>5 DEF Retry, Known, TypeOK, Reason
  <2>3. slip' = slip /\ Dirs(p)' = Dirs(p) /\ (Reads(p)' <=> Reads(p)) /\ Dirs(p) # {}
    BY <1>0, <1>5, SameCommand DEF Retry, Known
  <2>4. Lists(p)' /\ Reason(p)' /\ LockDirsOwned(p)' /\ TreeKept(p)'
    BY <1>1, <2>2, <2>3 DEF Lists, Reason, LockDirsOwned, TreeKept
  <2>5. NoReaders(p)' /\ ReadLocked(p)' /\ MadeKnown(p)' /\ FilesListed(p)' /\ HandsFree(p)'
    BY <1>1, <1>2, <2>2, <2>3 DEF NoReaders, ReadLocked, MadeKnown, FilesListed, HandsFree
  <2> QED
    BY <2>1, <2>4, <2>5 DEF LocalInv
<1>6. CASE why[p] = "exit" /\ Goto(p, "gone") /\ UNCHANGED <<listVars, slip>>
  <2>1. TypeOK' /\ Alone(p)
    BY <1>0, <1>1, <1>6 DEF Known, TypeOK, Idle, Alone
  <2>2. pc'[p] = "gone" /\ listed'[p] = {} /\ slip' = slip
    BY <1>0, <1>6 DEF Removed, Known, TypeOK
  <2>3. Lists(p)' /\ Reason(p)' /\ LockDirsOwned(p)' /\ TreeKept(p)'
    BY <1>1, <2>2 DEF Lists, Reason, LockDirsOwned, TreeKept
  <2>4. NoReaders(p)' /\ ReadLocked(p)' /\ MadeKnown(p)' /\ FilesListed(p)' /\ HandsFree(p)'
    BY <1>1, <1>2, <2>2 DEF NoReaders, ReadLocked, MadeKnown, FilesListed, HandsFree
  <2> QED
    BY <2>1, <2>3, <2>4 DEF LocalInv
<1>7. CASE /\ why[p] = "unlocked" /\ Goto(p, "work")
           /\ slip' = slip \union {"unlocked"} /\ UNCHANGED listVars
  <2>1. TypeOK' /\ Alone(p)
    BY <1>0, <1>1, <1>7 DEF Known, TypeOK, Mishap, Alone
  <2>2. pc'[p] = "work" /\ listed'[p] = {} /\ "unlocked" \in slip' /\ ~Reads(p)
    BY <1>0, <1>1, <1>7 DEF Removed, Known, TypeOK, Reason
  <2>3. (Reads(p)' <=> Reads(p)) /\ (Tidy' => Tidy)
    BY <1>7, SameCommand
  <2>4. Lists(p)' /\ Reason(p)' /\ LockDirsOwned(p)' /\ TreeKept(p)'
    BY <1>1, <2>2, <2>3 DEF Lists, Reason, LockDirsOwned, TreeKept
  <2>5. NoReaders(p)' /\ ReadLocked(p)' /\ MadeKnown(p)' /\ FilesListed(p)' /\ HandsFree(p)'
    BY <1>1, <1>2, <2>2, <2>3 DEF NoReaders, ReadLocked, MadeKnown, FilesListed, HandsFree
  <2> QED
    BY <2>1, <2>4, <2>5 DEF LocalInv
<1> QED
  BY <1>3, <1>4, <1>5, <1>6, <1>7 DEF Removed

-----------------------------------------------------------------------------
(* The theorems *)

\* A step of a process keeps the invariant, and is no business of the others.
LEMMA StepKeeps ==
    ASSUME IndInv, NEW p \in Proc, Step(p) \/ Kill(p) \/ Signal(p)
    PROVE  IndInv' /\ Alone(p)
<1>1. TypeOK' /\ Alone(p) /\ LocalInv(p)'
  BY StartKeeps, MkdirKeeps, StatKeeps, HaveKeeps, ReadersExistKeeps, ReadFileKeeps,
     WriteFileKeeps, ClearKeeps, ClearedKeeps, WorkKeeps, UnlinkKeeps, RmdirKeeps,
     ForgetKeeps, RemovedKeeps, KillKeeps, SignalKeeps DEF Step
<1>2. \A q \in Proc \ {p} : LocalInv(q)'
  BY <1>1, OthersKeep
<1> QED
  BY <1>1, <1>2 DEF IndInv

\* The invariant holds at the beginning.
LEMMA InitKeeps ==
    ASSUME Init PROVE IndInv
<1>1. TypeOK
  <2>1. \A p \in Proc : Script[p] \in Seq(Command) /\ Script[p] # << >>
    BY ScriptAssumption
  <2>2. ASSUME NEW p \in Proc PROVE 1 \in 1 .. Len(Script[p])
    <3>1. \A s \in Seq(Command) : s # << >> => Len(s) \in Nat \ {0}
      BY EmptySeq
    <3>2. Len(Script[p]) \in Nat \ {0}
      BY <2>1, <3>1
    <3> QED
      BY <3>2
  <2> QED
    BY <2>2 DEF Init, TypeOK, Idle
<1>2. ASSUME NEW p \in Proc PROVE LocalInv(p)
  <2>1. /\ pc[p] = "start" /\ have[p] = {} /\ listed[p] = {}
        /\ \A d \in Dir : lckdir[d] # p /\ p \notin rfl[d] /\ p \notin wfl[d]
    BY NoneAssumption DEF Init
  <2> QED
    BY <2>1 DEF LocalInv, Lists, Reason, LockDirsOwned, TreeKept, NoReaders, ReadLocked,
                MadeKnown, FilesListed, HandsFree, Locking, Removing
<1> QED
  BY <1>1, <1>2 DEF IndInv

\* A step in which nothing changes keeps the invariant.
LEMMA StutterKeeps ==
    ASSUME IndInv, UNCHANGED vars PROVE IndInv'
<1>1. TypeOK'
  BY DEF IndInv, TypeOK, vars
<1>2. ASSUME NEW p \in Proc PROVE LocalInv(p)'
  <2>1. LocalInv(p) /\ Kind(p)' = Kind(p) /\ Dirs(p)' = Dirs(p) /\ (Reads(p)' <=> Reads(p))
    BY SameCommand DEF IndInv, vars
  <2> QED
    BY <2>1 DEF vars, LocalInv, Lists, Reason, LockDirsOwned, TreeKept, NoReaders, ReadLocked,
                MadeKnown, FilesListed, HandsFree, Here, There, Safe, Tidy
<1> QED
  BY <1>1, <1>2 DEF IndInv

\* The inductive invariant holds of every behaviour: at any time, the lists of
\* every process tell which locks it has on disk.
THEOREM Invariance == Spec => []IndInv
<1>1. ASSUME IndInv, [Next]_vars PROVE IndInv'
  BY <1>1, StepKeeps, StutterKeeps DEF Next, Finished
<1> QED
  BY InitKeeps, <1>1, PTL DEF Spec

\* The types of the state.
THEOREM TypeCorrect == Spec => []TypeOK
<1>1. IndInv => TypeOK
  BY DEF IndInv
<1> QED
  BY <1>1, Invariance, PTL

\* The invariant makes writers exclusive: a writer at work has the lock
\* directories of its tree and has seen no reader in it, and another process at
\* work there would have one of the two.
LEMMA WritersAlone ==
    ASSUME IndInv PROVE Exclusive
<1> SUFFICES ASSUME ~LockDir, slip \intersect {"rmdir", "unlocked"} = {},
                    NEW p \in Proc, NEW q \in Proc, NEW d \in Dir, p # q, WritesIn(p, d)
             PROVE  ~WritesIn(q, d) /\ ~ReadsIn(q, d)
  BY DEF Exclusive
<1>0. Known(p) /\ Known(q)
  BY LocalFacts
<1>1. Safe /\ "unlocked" \notin slip
  BY DEF Safe
<1>2. lckdir[d] = p /\ rfl[d] = {}
  BY <1>0, <1>1 DEF Known, WritesIn, TreeKept, LockDirsOwned, NoReaders
<1>3. ~WritesIn(q, d)
  <2>1. WritesIn(q, d) => lckdir[d] = q
    BY <1>0, <1>1 DEF Known, WritesIn, TreeKept, LockDirsOwned
  <2> QED
    BY <1>2, <2>1
<1>4. ~ReadsIn(q, d)
  BY <1>0, <1>2 DEF Known, ReadsIn, ReadLocked
<1> QED
  BY <1>3, <1>4

\* While a process works in a directory locked for writing nobody else works
\* there, for any processes, trees, kills, failures and signals, but for a signal
\* between a rmdir and the reset of have_lckdir and a notification without a lock.
THEOREM Exclusion == Spec => []Exclusive
BY WritersAlone, Invariance, PTL

\* A process between commands, or ended other than by SIGKILL, has left no lock
\* behind, but for the mishaps that NothingLeft names.
THEOREM NothingLeftBehind == Spec => []NothingLeft
<1>1. ASSUME IndInv PROVE NothingLeft
  <2> SUFFICES ASSUME Tidy, NEW p \in Proc, pc[p] \in Idle, NEW d \in Dir
               PROVE  lckdir[d] # p /\ p \notin rfl[d] /\ p \notin wfl[d]
    BY DEF NothingLeft, Tidy
  <2>0. Known(p)
    BY <1>1, LocalFacts
  <2>1. listed[p] = {} /\ have[p] = {}
    BY <2>0 DEF Known, Lists, Idle, Tidy
  <2> QED
    BY <2>0, <2>1 DEF Known, MadeKnown, FilesListed, Idle
<1> QED
  BY <1>1, Invariance, PTL

\* Nobody holds a lock while he sleeps, neither a reader before his master lock
\* nor a writer that has met somebody in the middle of its tree, but for the
\* mishaps that SleepsEmptyHanded names: lock_wait cannot be part of a circle.
THEOREM NobodySleepsOnALock == Spec => []SleepsEmptyHanded
<1>1. ASSUME IndInv PROVE SleepsEmptyHanded
  <2> SUFFICES ASSUME Tidy, NEW p \in Proc, Sleeps(p), NEW d \in Dir
               PROVE  lckdir[d] # p /\ p \notin rfl[d] /\ p \notin wfl[d]
    BY DEF SleepsEmptyHanded, Tidy
  <2>0. Known(p)
    BY <1>1, LocalFacts
  <2>1. CASE pc[p] = "stat" /\ Reads(p)
    <3>1. have[p] = {} /\ p \notin wfl[d]
      BY <2>0, <2>1 DEF Known, HandsFree
    <3> QED
      BY <2>0, <2>1, <3>1 DEF Known, MadeKnown, FilesListed
  <2>2. CASE pc[p] = "unlink" /\ listed[p] = {}
    <3>1. have[p] = {}
      BY <2>0, <2>2 DEF Known, Lists
    <3> QED
      BY <2>0, <2>2, <3>1 DEF Known, MadeKnown, FilesListed
  <2> QED
    BY <2>1, <2>2 DEF Sleeps
<1> QED
  BY <1>1, Invariance, PTL

\* A lock directory is removed by the process that made it, unless a signal came
\* between a rmdir and the reset of have_lckdir.
THEOREM OwnLocks == Spec => OnlyOwnLock
<1>1. ASSUME IndInv, [Next]_vars
      PROVE  [OwnerRemoves]_vars
  <2>1. SUFFICES ASSUME ~ UNCHANGED vars, NEW d \in Dir, NEW q \in Proc,
                        lckdir[d] = q, lckdir'[d] # q, "rmdir" \notin slip
                 PROVE  pc'[q] # pc[q]
    BY DEF OwnerRemoves
  <2>2. PICK p \in Proc : Step(p) \/ Kill(p) \/ Signal(p)
    BY <1>1, <2>1 DEF Next, Finished
  <2>3. lckdir' # lckdir
    BY <2>1
  <2>4. Mkdir(p) \/ Clear(p) \/ Rmdir(p)
    BY <2>2, <2>3 DEF Step, Start, Stat, Have, ReadersExist, ReadFile, WriteFile, Cleared, Work,
                      Unlink, Forget, Removed, Kill, Signal, fileVars
  <2>5. "rmdir" \notin slip'
    BY <2>1, <2>4 DEF Mkdir, Clear, Rmdir, RemovalFails
  <2>6. p = q
    BY <1>1, <2>1, <2>2, <2>5, StepKeeps DEF Alone, Safe
  <2>7. pc'[p] # pc[p]
    BY <1>1, <2>1, <2>3, <2>4 DEF IndInv, TypeOK, Mkdir, Clear, Rmdir, Goto
  <2> QED
    BY <2>6, <2>7
<1> QED
  BY <1>1, Invariance, PTL DEF Spec, OnlyOwnLock

=============================================================================
