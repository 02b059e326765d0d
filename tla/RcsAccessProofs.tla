--------------------------- MODULE RcsAccessProofs --------------------------
(***************************************************************************)
(* Proofs about RcsAccess: for any number of users and files, any scripts  *)
(* and any number of faults, the writer of an RCS file is alone with it    *)
(* and no process removes the `,f,' of another one, as long as the         *)
(* connections to the lock service hold.                                   *)
(***************************************************************************)
EXTENDS RcsAccess, TLAPS

-----------------------------------------------------------------------------
(* Flags, passes and places *)

\* The three kinds of lock are different.
LEMMA FlagsDiffer ==
    /\ ReadFull # WriteAdvisory /\ ReadFull # WriteFull /\ WriteAdvisory # WriteFull
    /\ {ReadFull, WriteAdvisory, WriteFull} = FlagSets
<1>1. "Write" \in WriteAdvisory /\ "Write" \in WriteFull /\ "Write" \notin ReadFull
  BY DEF ReadFull, WriteAdvisory, WriteFull
<1>2. "Full" \in WriteFull /\ "Full" \notin WriteAdvisory
  BY DEF WriteAdvisory, WriteFull
<1>. QED  BY <1>1, <1>2 DEF FlagSets

\* What the lock service grants (request_lock): a read lock if no other
\* process holds a write lock, a write lock if no other process holds a lock.
LEMMA FreeMeans ==
    ASSUME locks \subseteq Lock, NEW u, NEW f, NEW flags \in FlagSets,
           Table!Free(u, f, flags), NEW l \in locks, l.path = f, l.owner # u
    PROVE  flags = ReadFull /\ l.flags = ReadFull
<1>1. ~Table!Blocks(l, u, f, flags)
  BY DEF Table!Free
<1>2. l.flags \in FlagSets
  BY DEF Lock
<1>3. "Write" \in WriteAdvisory /\ "Write" \in WriteFull /\ "Write" \notin ReadFull
      /\ {"Read", "Full"} = ReadFull
  BY DEF ReadFull, WriteAdvisory, WriteFull
<1>4. CASE flags = ReadFull
  BY <1>1, <1>2, <1>3, <1>4 DEF Table!Blocks, FlagSets
<1>5. CASE flags # ReadFull
  <2>1. "Write" \in flags
    BY <1>3, <1>5 DEF FlagSets
  <2>2. "Write" \notin l.flags /\ ~({"Read", "Full"} \subseteq l.flags)
    BY <1>1, <2>1 DEF Table!Blocks
  <2>. QED  BY <2>2, <1>2, <1>3 DEF FlagSets
<1>. QED  BY <1>4, <1>5

\* The passes of the commands.
LEMMA PassesOfCommand ==
    ASSUME NEW c \in Command
    PROVE  /\ Len(Passes(c)) \in {1, 2}
           /\ Passes(c)[1] # "commit"
           /\ Len(Passes(c)) = 2 =>
                (Passes(c)[1] = "check" <=> Passes(c)[2] = "commit")
           /\ Len(Passes(c)) = 2 => Passes(c)[2] # "check"
           /\ Len(Passes(c)) = 1 => Passes(c)[1] # "check"
  BY DEF Command, Passes

\* The script and the visits of a user are never empty.
LEMMA Nonempty ==
    ASSUME NEW u \in User
    PROVE  /\ Script[u] \in Seq(Command) /\ Len(Script[u]) \in Nat \ {0}
           /\ Visit[u] \in Seq(File) /\ Len(Visit[u]) \in Nat \ {0}
<1>1. Script[u] \in Seq(Command) /\ Script[u] # << >>
  BY ScriptAssumption
<1>2. Visit[u] \in Seq(File) /\ Visit[u] # << >>
  BY VisitAssumption
<1>3. \A S : \A s \in Seq(S) : s # << >> => Len(s) \in Nat \ {0}
  OBVIOUS
<1>. QED  BY <1>1, <1>2, <1>3

\* A process is at one of its files, in one of the passes of its command.
LEMMA PlaceOK ==
    ASSUME TypeOK, NEW u \in User
    PROVE  /\ Here(u) \in File
           /\ Script[u][pos[u].cmd] \in Command
  BY Nonempty DEF TypeOK, Here

-----------------------------------------------------------------------------
(* Types *)

\* Where a process goes next is a place.
LEMMA NextPlaceOK ==
    ASSUME TypeOK, NEW u \in User
    PROVE  /\ NextPlace(u) \in [cmd : Nat, pass : Nat, file : Nat]
           /\ NextPlace(u).cmd = pos[u].cmd
           /\ NextPlace(u).pass \in 1 .. Len(Passes(Script[u][pos[u].cmd]))
           /\ NextPlace(u).file \in 1 .. Len(Visit[u])
<1>1. /\ pos[u] \in [cmd : Nat, pass : Nat, file : Nat]
      /\ pos[u].cmd \in 1 .. Len(Script[u])
      /\ pos[u].pass \in 1 .. Len(Passes(Script[u][pos[u].cmd]))
      /\ pos[u].file \in 1 .. Len(Visit[u])
  BY DEF TypeOK
<1>2. Len(Visit[u]) \in Nat \ {0} /\ Len(Passes(Script[u][pos[u].cmd])) \in {1, 2}
  BY Nonempty, PlaceOK, PassesOfCommand
<1>3. CASE pos[u].file < Len(Visit[u])
  <2>1. NextPlace(u) = [pos[u] EXCEPT !.file = pos[u].file + 1]
    BY <1>3 DEF NextPlace
  <2>. QED  BY <2>1, <1>1, <1>2, <1>3
<1>4. CASE NextPlace(u) = [cmd |-> pos[u].cmd, pass |-> pos[u].pass + 1, file |-> 1]
           /\ pos[u].pass < Len(Passes(Script[u][pos[u].cmd]))
  <2>1. /\ NextPlace(u) \in [cmd : Nat, pass : Nat, file : Nat]
        /\ NextPlace(u).cmd = pos[u].cmd
        /\ NextPlace(u).pass = pos[u].pass + 1
        /\ NextPlace(u).file = 1
    BY <1>1, <1>4
  <2>2. PICK n \in {1, 2} : n = Len(Passes(Script[u][pos[u].cmd]))
    BY <1>2
  <2>3. pos[u].pass + 1 \in 1 .. n
    BY <1>1, <1>4, <2>2
  <2>. QED  BY <1>2, <2>1, <2>2, <2>3
<1>. QED  BY <1>1, <1>3, <1>4 DEF NextPlace

\* The lock commands keep the set of locks a set of locks.
LEMMA LockTypes ==
    ASSUME TypeOK, NEW u \in User, NEW flags \in FlagSets, NEW next \in Working,
           \/ LockAndWait(u, flags, next) \/ Unlock(u, flags, next)
    PROVE  /\ locks' \subseteq Lock
           /\ tries' \in [User -> Nat]
           /\ conn' = conn
           /\ pc' \in [User -> Idle \union Leaving \union Working]
<1>0. /\ pc \in [User -> Idle \union Leaving \union Working]
      /\ {next, "cleanup"} \subseteq Idle \union Leaving \union Working
  BY DEF TypeOK, Leaving
<1>1. [owner |-> u, path |-> Here(u), flags |-> flags] \in Lock
  BY PlaceOK DEF Lock
<1>2. CASE LockAndWait(u, flags, next)
  <2>1. tries \in [User -> Nat] /\ locks \subseteq Lock
    BY DEF TypeOK
  <2>2. CASE Granted(u, flags) /\ tries' = [tries EXCEPT ![u] = 0]
                /\ Goto(u, next) /\ UNCHANGED conn
    BY <1>0, <1>1, <2>1, <2>2 DEF Granted, Goto
  <2>3. CASE tries' = [tries EXCEPT ![u] = tries[u] + 1] /\ UNCHANGED <<locks, conn>>
    <3>1. Goto(u, pc[u]) \/ Goto(u, "cleanup")
      BY <1>2, <2>3, <2>1 DEF LockAndWait, Goto
    <3>. QED  BY <1>0, <2>1, <2>3, <3>1 DEF Goto
  <2>4. CASE Goto(u, "cleanup") /\ UNCHANGED <<locks, tries, conn>>
    BY <1>0, <2>1, <2>4 DEF Goto
  <2>. QED  BY <1>2, <2>2, <2>3, <2>4 DEF LockAndWait
<1>3. CASE Unlock(u, flags, next)
  BY <1>0, <1>3 DEF Unlock, Goto, TypeOK
<1>. QED  BY <1>2, <1>3

\* What a process writes is an RCS file.
LEMMA RewrittenType ==
    ASSUME TypeOK, NEW u \in User
    PROVE  Rewritten(u) \in Tree
<1>1. tree[u] \in Tree
  BY DEF TypeOK
<1>2. Append(tree[u].revs, u) \in Seq(User \union {Original})
  BY <1>1 DEF Tree
<1>3. CASE Kind(u) \in {"tag", "admin"}
  BY <1>1, <1>3 DEF Rewritten, Tree
<1>4. CASE Kind(u) = "commit"
  BY <1>1, <1>2, <1>4 DEF Rewritten, Tree
<1>. QED  BY <1>1, <1>3, <1>4 DEF Rewritten, Tree

\* Every step keeps the types.
LEMMA TypeStep ==
    ASSUME TypeOK, [Next]_vars
    PROVE  TypeOK'
<1>. USE DEF nodeVars, lockVars, diskVars, Goto
<1>t. /\ disk \in [File -> Tree]
      /\ lockfile \in [File -> User \union {None}]
      /\ locks \subseteq Lock
      /\ tree \in [User -> Tree]
      /\ sandbox \in [User -> [File -> Seq(User \union {Original})]]
      /\ pc \in [User -> Idle \union Leaving \union Working]
      /\ pos \in [User -> [cmd : Nat, pass : Nat, file : Nat]]
      /\ writes \in [User -> Nat]
      /\ faults \in [kill : Nat, signal : Nat, drop : Nat]
      /\ raced \subseteq User \X File
  BY DEF TypeOK
<1>f. faults \in [kill : Nat, signal : Nat, drop : Nat]
  BY DEF TypeOK
<1>r. \A u \in User : <<u, Here(u)>> \in User \X File
  BY PlaceOK
<1>l. "cleanup" \in Idle \union Leaving \union Working
  BY DEF Leaving
<1>1. ASSUME NEW u \in User, Begin(u) PROVE TypeOK'
  BY <1>1 DEF TypeOK, Begin, Working
<1>2. ASSUME NEW u \in User, Open(u) PROVE TypeOK'
  BY <1>2, PlaceOK DEF TypeOK, Open, Working
<1>3. ASSUME NEW u \in User, ReadLock(u) PROVE TypeOK'
  <2>1. raced' \subseteq User \X File
    BY <1>3, <1>t, <1>r DEF ReadLock, NoteRace
  <2>2. /\ locks' \subseteq Lock /\ tries' \in [User -> Nat] /\ conn' = conn
        /\ pc' \in [User -> Idle \union Leaving \union Working]
    BY <1>3, LockTypes, FlagsDiffer DEF ReadLock, Working
  <2>. QED  BY <1>3, <2>1, <2>2, <1>t DEF TypeOK, ReadLock
<1>4. ASSUME NEW u \in User, FreeNode(u) PROVE TypeOK'
  <2>1. /\ pos' \in [User -> [cmd : Nat, pass : Nat, file : Nat]]
        /\ \A v \in User : /\ pos'[v].cmd \in 1 .. Len(Script[v])
                           /\ pos'[v].pass \in 1 .. Len(Passes(Script[v][pos'[v].cmd]))
                           /\ pos'[v].file \in 1 .. Len(Visit[v])
    BY <1>4, NextPlaceOK DEF FreeNode, TypeOK
  <2>2. /\ locks' \subseteq Lock /\ tries' \in [User -> Nat] /\ conn' = conn
        /\ \E label \in {"open", "close", "cleanup"} : Goto(u, label)
    BY <1>4, <1>t DEF FreeNode, Unlock, TypeOK
  <2>3. pc' \in [User -> Idle \union Leaving \union Working]
    BY <2>2, <1>t DEF Working, Leaving
  <2>4. UNCHANGED <<diskVars, nodeVars, err, sandbox, faults, raced>>
    BY <1>4 DEF FreeNode
  <2>. QED  BY <2>1, <2>2, <2>3, <2>4 DEF TypeOK
<1>5. ASSUME NEW u \in User, Close(u) PROVE TypeOK'
  <2>1. CASE pos[u].cmd < Len(Script[u])
    <3>1. /\ pos' \in [User -> [cmd : Nat, pass : Nat, file : Nat]]
          /\ \A v \in User : /\ pos'[v].cmd \in 1 .. Len(Script[v])
                             /\ pos'[v].pass \in 1 .. Len(Passes(Script[v][pos'[v].cmd]))
                             /\ pos'[v].file \in 1 .. Len(Visit[v])
      <4>1. pos[u].cmd + 1 \in 1 .. Len(Script[u])
        BY <2>1, Nonempty DEF TypeOK
      <4>2. 1 \in 1 .. Len(Passes(Script[u][pos[u].cmd + 1])) /\ 1 \in 1 .. Len(Visit[u])
        BY <4>1, Nonempty, PassesOfCommand
      <4>3. pos' = [pos EXCEPT ![u] = [cmd |-> pos[u].cmd + 1, pass |-> 1, file |-> 1]]
        BY <1>5, <2>1 DEF Close
      <4>4. pos' \in [User -> [cmd : Nat, pass : Nat, file : Nat]]
        BY <4>1, <4>3, <1>t
      <4>5. ASSUME NEW v \in User
            PROVE  /\ pos'[v].cmd \in 1 .. Len(Script[v])
                   /\ pos'[v].pass \in 1 .. Len(Passes(Script[v][pos'[v].cmd]))
                   /\ pos'[v].file \in 1 .. Len(Visit[v])
        <5>1. CASE v = u
          BY <4>1, <4>2, <4>3, <1>t, <5>1
        <5>2. CASE v # u
          <6>1. pos'[v] = pos[v]
            BY <4>3, <1>t, <5>2
          <6>. QED  BY <6>1 DEF TypeOK
        <5>. QED  BY <5>1, <5>2
      <4>. QED  BY <4>4, <4>5
    <3>. QED  BY <1>5, <2>1, <3>1 DEF TypeOK, Close, Idle
  <2>2. CASE ~(pos[u].cmd < Len(Script[u]))
    BY <1>5, <2>2 DEF TypeOK, Close, Idle
  <2>. QED  BY <2>1, <2>2
<1>6. ASSUME NEW u \in User, Cleanup(u) PROVE TypeOK'
  BY <1>6, PlaceOK DEF TypeOK, Cleanup, Leaving
<1>7. ASSUME NEW u \in User, UpdateFileproc(u) PROVE TypeOK'
  <2>1. sandbox' \in [User -> [File -> Seq(User \union {Original})]]
    BY <1>7, <1>t, PlaceOK DEF UpdateFileproc, Tree
  <2>. QED  BY <1>7, <2>1 DEF TypeOK, UpdateFileproc, Working
<1>8. ASSUME NEW u \in User, LookFileproc(u) PROVE TypeOK'
  <2>1. err' \in [User -> BOOLEAN]
    BY <1>8 DEF LookFileproc, TypeOK, Tree
  <2>. QED  BY <1>8, <2>1 DEF TypeOK, LookFileproc, Working
<1>9. ASSUME NEW u \in User, CheckFileproc(u) PROVE TypeOK'
  BY <1>9 DEF TypeOK, CheckFileproc, Working
<1>10. ASSUME NEW u \in User, TryAdvisory(u) PROVE TypeOK'
  <2>1. raced' \subseteq User \X File
    BY <1>10, <1>t, <1>r DEF TryAdvisory, NoteRace
  <2>2. locks' \subseteq Lock
    BY <1>10, <1>t, PlaceOK, FlagsDiffer DEF TryAdvisory, Granted, Lock
  <2>. QED  BY <1>10, <2>1, <2>2 DEF TypeOK, TryAdvisory, Working, Leaving
<1>11. ASSUME NEW u \in User, AwaitAdvisory(u) PROVE TypeOK'
  <2>1. raced' \subseteq User \X File
    BY <1>11, <1>t, <1>r DEF AwaitAdvisory, NoteRace
  <2>2. /\ locks' \subseteq Lock /\ tries' \in [User -> Nat] /\ conn' = conn
        /\ pc' \in [User -> Idle \union Leaving \union Working]
    BY <1>11, LockTypes, FlagsDiffer DEF AwaitAdvisory, Working
  <2>. QED  BY <1>11, <2>1, <2>2, <1>t DEF TypeOK, AwaitAdvisory
<1>12. ASSUME NEW u \in User, AddRcsFile(u) PROVE TypeOK'
  <2>1. disk' \in [File -> Tree]
    <3>1. [disk[Here(u)] EXCEPT !.exists = TRUE] \in Tree
      <4>1. PICK t \in Tree : t = disk[Here(u)]
        BY <1>t, PlaceOK
      <4>2. [t EXCEPT !.exists = TRUE] \in Tree
        BY DEF Tree
      <4>. QED  BY <4>1, <4>2
    <3>2. disk' = [disk EXCEPT ![Here(u)] = [disk[Here(u)] EXCEPT !.exists = TRUE]]
      BY <1>12 DEF AddRcsFile
    <3>. QED  BY <3>1, <3>2, <1>t, PlaceOK
  <2>. QED  BY <1>12, <2>1 DEF TypeOK, AddRcsFile, Working
<1>13. ASSUME NEW u \in User, StartRewrite(u) \/ NothingToDo(u) PROVE TypeOK'
  BY <1>13 DEF TypeOK, StartRewrite, NothingToDo, Working
<1>14. ASSUME NEW u \in User, WriteLock(u) PROVE TypeOK'
  <2>2. /\ locks' \subseteq Lock /\ tries' \in [User -> Nat] /\ conn' = conn
        /\ pc' \in [User -> Idle \union Leaving \union Working]
    BY <1>14, LockTypes, FlagsDiffer DEF WriteLock, Working
  <2>. QED  BY <1>14, <2>2, <1>t DEF TypeOK, WriteLock
<1>15. ASSUME NEW u \in User, Create(u) PROVE TypeOK'
  <2>1. lockfile' \in [File -> User \union {None}]
    BY <1>15, <1>t, PlaceOK DEF Create
  <2>. QED  BY <1>15, <2>1 DEF TypeOK, Create, Working, Leaving
<1>16. ASSUME NEW u \in User, Rename(u) PROVE TypeOK'
  <2>1. disk' \in [File -> Tree] /\ lockfile' \in [File -> User \union {None}]
    <3>1. lockfile[Here(u)] # None => Rewritten(lockfile[Here(u)]) \in Tree
      BY <1>t, PlaceOK, RewrittenType
    <3>2. CASE lockfile[Here(u)] # None
      <4>1. /\ disk' = [disk EXCEPT ![Here(u)] = Rewritten(lockfile[Here(u)])]
            /\ lockfile' = [lockfile EXCEPT ![Here(u)] = None]
        BY <1>16, <3>2 DEF Rename
      <4>. QED  BY <4>1, <3>1, <3>2, <1>t, PlaceOK
    <3>3. CASE lockfile[Here(u)] = None
      BY <1>16, <1>t, <3>3 DEF Rename
    <3>. QED  BY <3>2, <3>3
  <2>. QED  BY <1>16, <2>1 DEF TypeOK, Rename, Working, Leaving
<1>17. ASSUME NEW u \in User, WriteUnlock(u) PROVE TypeOK'
  BY <1>17, <1>l DEF TypeOK, WriteUnlock, Unlock, Working
<1>18. ASSUME NEW u \in User, Reparse(u) PROVE TypeOK'
  <2>1. PICK again \in BOOLEAN :
          /\ again = (Kind(u) = "commit" /\ Added(u) /\ writes[u] = 0)
          /\ named' = [named EXCEPT ![u] = again]
    BY <1>18 DEF Reparse
  <2>2. \E label \in {"wlock", "release", "free"} : Goto(u, label)
    BY <1>18 DEF Reparse
  <2>3. tree' \in [User -> Tree] /\ writes' \in [User -> Nat]
    <3>1. tree' = [tree EXCEPT ![u] = disk[Here(u)]] /\ writes' = [writes EXCEPT ![u] = writes[u] + 1]
      BY <1>18 DEF Reparse
    <3>. QED  BY <1>t, PlaceOK, <3>1
  <2>. QED  BY <1>18, <2>1, <2>2, <2>3 DEF TypeOK, Reparse, Working
<1>19. ASSUME NEW u \in User, ReleaseAdvisory(u) PROVE TypeOK'
  <2>1. sandbox' \in [User -> [File -> Seq(User \union {Original})]]
    BY <1>19, <1>t, PlaceOK DEF ReleaseAdvisory, Tree
  <2>. QED  BY <1>19, <2>1, <1>l DEF TypeOK, ReleaseAdvisory, Unlock, Working
<1>20. ASSUME NEW u \in User, Kill(u) \/ Signal(u) PROVE TypeOK'
  <2>1. faults' \in [kill : Nat, signal : Nat, drop : Nat]
    <3>1. CASE faults' = [faults EXCEPT !.kill = faults.kill + 1]
      BY <3>1, <1>f
    <3>2. CASE faults' = [faults EXCEPT !.signal = faults.signal + 1]
      BY <3>2, <1>f
    <3>. QED  BY <1>20, <3>1, <3>2 DEF Kill, Signal
  <2>2. pc' \in [User -> Idle \union Leaving \union Working]
    BY <1>20, <1>t, <1>l DEF Kill, Signal, Idle
  <2>. QED  BY <1>20, <2>1, <2>2 DEF TypeOK, Kill, Signal
<1>21. ASSUME NEW u \in User, Buried(u) \/ Drop(u) PROVE TypeOK'
  <2>1. faults' \in [kill : Nat, signal : Nat, drop : Nat]
    BY <1>21, <1>t DEF Buried, Drop
  <2>. QED  BY <1>21, <2>1 DEF TypeOK, Buried, Drop
<1>22. CASE UNCHANGED vars
  BY <1>22 DEF TypeOK, vars
<1>. QED
  BY <1>1, <1>2, <1>3, <1>4, <1>5, <1>6, <1>7, <1>8, <1>9, <1>10, <1>11, <1>12, <1>13,
     <1>14, <1>15, <1>16, <1>17, <1>18, <1>19, <1>20, <1>21, <1>22
  DEF Next, Step, Finished, CommitFileproc, TagFileproc, AdminFileproc

-----------------------------------------------------------------------------
(* Locks *)

Moves(u) == Step(u) \/ Kill(u) \/ Signal(u) \/ Buried(u) \/ Drop(u)

\* A step of one process leaves the others, and their locks, alone.
LEMMA OthersKeep ==
    ASSUME TypeOK, NEW u \in User, Moves(u), NEW v \in User, v # u
    PROVE  /\ pc'[v] = pc[v] /\ pos'[v] = pos[v] /\ tree'[v] = tree[v]
           /\ named'[v] = named[v] /\ conn'[v] = conn[v] /\ err'[v] = err[v]
           /\ \A f, flags : Holds(v, f, flags)' <=> Holds(v, f, flags)
<1>. USE DEF nodeVars, lockVars, diskVars, Goto
<1>t. /\ pc \in [User -> Idle \union Leaving \union Working]
      /\ pos \in [User -> [cmd : Nat, pass : Nat, file : Nat]]
      /\ tree \in [User -> Tree]
      /\ named \in [User -> BOOLEAN] /\ conn \in [User -> BOOLEAN] /\ err \in [User -> BOOLEAN]
  BY DEF TypeOK
<1>k. ASSUME UNCHANGED locks PROVE \A f, flags : Holds(v, f, flags)' <=> Holds(v, f, flags)
  BY <1>k DEF Holds
<1>r. ASSUME locks' = locks \ LocksOf(u)
      PROVE \A f, flags : Holds(v, f, flags)' <=> Holds(v, f, flags)
  BY <1>r DEF Holds, LocksOf
<1>g. ASSUME NEW flags, Granted(u, flags)
      PROVE \A f, fl : Holds(v, f, fl)' <=> Holds(v, f, fl)
  BY <1>g DEF Holds, Granted
<1>n. ASSUME NEW flags, NEW next, Unlock(u, flags, next)
      PROVE \A f, fl : Holds(v, f, fl)' <=> Holds(v, f, fl)
  BY <1>n DEF Holds, Unlock
<1>w. ASSUME NEW flags, NEW next, LockAndWait(u, flags, next)
      PROVE /\ \A f, fl : Holds(v, f, fl)' <=> Holds(v, f, fl)
            /\ pc'[v] = pc[v] /\ conn'[v] = conn[v]
  BY <1>w, <1>g, <1>k, <1>t DEF LockAndWait
<1>1. CASE Begin(u)           BY <1>1, <1>t, <1>k DEF Begin
<1>2. CASE Open(u)            BY <1>2, <1>t, <1>k DEF Open
<1>3. CASE ReadLock(u)        BY <1>3, <1>t, <1>w DEF ReadLock
<1>4. CASE FreeNode(u)
  <2>1. \A f, fl : Holds(v, f, fl)' <=> Holds(v, f, fl)
    BY <1>4, <1>n, <1>k DEF FreeNode
  <2>. QED  BY <1>4, <1>t, <2>1 DEF FreeNode, Unlock
<1>5. CASE Close(u)           BY <1>5, <1>t, <1>r DEF Close
<1>6. CASE Cleanup(u)         BY <1>6, <1>t, <1>k DEF Cleanup
<1>7. CASE UpdateFileproc(u)  BY <1>7, <1>t, <1>k DEF UpdateFileproc
<1>8. CASE LookFileproc(u)    BY <1>8, <1>t, <1>k DEF LookFileproc
<1>9. CASE CheckFileproc(u)   BY <1>9, <1>t, <1>k DEF CheckFileproc
<1>10. CASE TryAdvisory(u)    BY <1>10, <1>t, <1>k, <1>g DEF TryAdvisory
<1>11. CASE AwaitAdvisory(u)  BY <1>11, <1>t, <1>w DEF AwaitAdvisory
<1>12. CASE AddRcsFile(u)     BY <1>12, <1>t, <1>k DEF AddRcsFile
<1>13. CASE StartRewrite(u) \/ NothingToDo(u)
  BY <1>13, <1>t, <1>k DEF StartRewrite, NothingToDo
<1>14. CASE WriteLock(u)      BY <1>14, <1>t, <1>w DEF WriteLock
<1>15. CASE Create(u)         BY <1>15, <1>t, <1>k DEF Create
<1>16. CASE Rename(u)         BY <1>16, <1>t, <1>k DEF Rename
<1>17. CASE WriteUnlock(u)    BY <1>17, <1>t, <1>n DEF WriteUnlock, Unlock
<1>18. CASE Reparse(u)        BY <1>18, <1>t, <1>k DEF Reparse
<1>19. CASE ReleaseAdvisory(u) BY <1>19, <1>t, <1>n DEF ReleaseAdvisory, Unlock
<1>20. CASE Kill(u) \/ Signal(u)  BY <1>20, <1>t, <1>k DEF Kill, Signal
<1>21. CASE Buried(u) \/ Drop(u)  BY <1>21, <1>t, <1>r DEF Buried, Drop
<1>. QED
  BY <1>1, <1>2, <1>3, <1>4, <1>5, <1>6, <1>7, <1>8, <1>9, <1>10, <1>11, <1>12, <1>13,
     <1>14, <1>15, <1>16, <1>17, <1>18, <1>19, <1>20, <1>21
  DEF Moves, Step, CommitFileproc, TagFileproc, AdminFileproc

\* A step grants one lock to a connected process or only releases locks.
LEMMA LocksStep ==
    ASSUME TypeOK, NEW u \in User, Moves(u)
    PROVE  \/ locks' \subseteq locks
           \/ /\ conn[u] /\ conn' = conn
              /\ \E flags \in FlagSets : Granted(u, flags)
<1>. USE FlagsDiffer DEF nodeVars, lockVars, diskVars
<1>w. ASSUME NEW flags \in FlagSets, NEW next, LockAndWait(u, flags, next)
      PROVE  \/ locks' = locks
             \/ conn[u] /\ conn' = conn /\ Granted(u, flags)
  BY <1>w DEF LockAndWait
<1>1. CASE ReadLock(u)        BY <1>1, <1>w DEF ReadLock
<1>2. CASE AwaitAdvisory(u)   BY <1>2, <1>w DEF AwaitAdvisory
<1>3. CASE WriteLock(u)       BY <1>3, <1>w DEF WriteLock
<1>4. CASE TryAdvisory(u)     BY <1>4 DEF TryAdvisory
<1>5. CASE FreeNode(u) \/ WriteUnlock(u) \/ ReleaseAdvisory(u)
  BY <1>5 DEF FreeNode, WriteUnlock, ReleaseAdvisory, Unlock
<1>6. CASE Close(u) \/ Buried(u) \/ Drop(u)
  BY <1>6 DEF Close, Buried, Drop
<1>7. CASE UNCHANGED locks    BY <1>7
<1>. QED
  BY <1>1, <1>2, <1>3, <1>4, <1>5, <1>6, <1>7
  DEF Moves, Step, Begin, Open, Cleanup, UpdateFileproc, LookFileproc, CheckFileproc,
      AddRcsFile, CommitFileproc, TagFileproc, AdminFileproc, StartRewrite, NothingToDo,
      Create, Rename, Reparse, Kill, Signal

\* A step changes the connection of the process that takes it at most, and
\* with the connection go the locks.
LEMMA ConnStep ==
    ASSUME TypeOK, NEW u \in User, Moves(u)
    PROVE  \/ conn' = conn
           \/ conn' = [conn EXCEPT ![u] = TRUE] /\ locks' = locks /\ Begin(u)
           \/ conn' = [conn EXCEPT ![u] = FALSE] /\ locks' = locks \ LocksOf(u)
  BY DEF nodeVars, lockVars, diskVars, Moves, Step, Begin, Open, ReadLock, FreeNode,
      Close, Cleanup, UpdateFileproc, LookFileproc, CheckFileproc, TryAdvisory,
      AwaitAdvisory, AddRcsFile, CommitFileproc, TagFileproc, AdminFileproc, StartRewrite,
      NothingToDo, WriteLock, Create, Rename, WriteUnlock, Reparse, ReleaseAdvisory,
      Kill, Signal, Buried, Drop, LockAndWait, Unlock

\* Locks of two processes on one file stay read locks.
LEMMA CompatibleStep ==
    ASSUME IndInv, NEW u \in User, Moves(u)
    PROVE  Compatible'
<1>t. TypeOK /\ Compatible /\ locks \subseteq Lock
  BY DEF IndInv, TypeOK
<1>1. CASE locks' \subseteq locks
  BY <1>1, <1>t DEF Compatible
<1>2. ASSUME NEW flags \in FlagSets, Granted(u, flags)
      PROVE  Compatible'
  <2>1. Table!Free(u, Here(u), flags)
    BY <1>2 DEF Granted
  <2>2. ASSUME NEW l \in locks, l.path = Here(u), l.owner # u
        PROVE  flags = ReadFull /\ l.flags = ReadFull
    BY <1>t, <2>1, <2>2, FreeMeans
  <2>3. PICK new : /\ new = [owner |-> u, path |-> Here(u), flags |-> flags]
                   /\ locks' = locks \union {new}
    BY <1>2 DEF Granted
  <2>4. new.owner = u /\ new.path = Here(u) /\ new.flags = flags
    BY <2>3
  <2>. QED  BY <1>t, <2>2, <2>3, <2>4 DEF Compatible
<1>. QED  BY <1>t, <1>1, <1>2, LocksStep

\* A lock stays the lock of a connected process.
LEMMA ConnectedStep ==
    ASSUME IndInv, NEW u \in User, Moves(u)
    PROVE  LocksConnected'
<1>t. TypeOK /\ LocksConnected /\ locks \subseteq Lock /\ conn \in [User -> BOOLEAN]
  BY DEF IndInv, TypeOK
<1>o. \A l \in locks : l.owner \in User
  BY <1>t DEF Lock
<1>1. CASE conn' = conn /\ locks' \subseteq locks
  BY <1>1, <1>t DEF LocksConnected
<1>2. ASSUME NEW flags \in FlagSets, Granted(u, flags), conn[u], conn' = conn
      PROVE  LocksConnected'
  BY <1>2, <1>t DEF LocksConnected, Granted
<1>3. CASE conn' = [conn EXCEPT ![u] = TRUE] /\ locks' = locks
  BY <1>3, <1>t, <1>o DEF LocksConnected
<1>4. CASE conn' = [conn EXCEPT ![u] = FALSE] /\ locks' = locks \ LocksOf(u)
  BY <1>4, <1>t, <1>o DEF LocksConnected, LocksOf
<1>. QED  BY <1>t, <1>1, <1>2, <1>3, <1>4, LocksStep, ConnStep

-----------------------------------------------------------------------------
(* What a process has locked where *)

\* A lock command grants the lock and goes on, or waits, or fails; it takes
\* no lock away.
LEMMA WaitOutcome ==
    ASSUME TypeOK, NEW u \in User, NEW flags, NEW next, LockAndWait(u, flags, next)
    PROVE  /\ conn' = conn
           /\ \A f, fl : Holds(u, f, fl) => Holds(u, f, fl)'
           /\ \/ /\ pc'[u] = next
                 /\ \A f : f = Here(u) => Holds(u, f, flags)'
              \/ pc'[u] \in {pc[u], "cleanup"}
<1>t. pc \in [User -> Idle \union Leaving \union Working]
  BY DEF TypeOK
<1>1. CASE Granted(u, flags) /\ Goto(u, next)
  <2>1. [owner |-> u, path |-> Here(u), flags |-> flags] \in locks'
    BY <1>1 DEF Granted
  <2>. QED  BY <1>1, <1>t, <2>1 DEF Granted, Goto, Holds, LockAndWait
<1>2. CASE UNCHANGED locks /\ (Goto(u, pc[u]) \/ Goto(u, "cleanup"))
  BY <1>2, <1>t DEF Goto, Holds, LockAndWait
<1>. QED  BY <1>1, <1>2 DEF LockAndWait

\* An unlock command gives one lock back and no other.
LEMMA UnlockOutcome ==
    ASSUME TypeOK, NEW u \in User, NEW flags, NEW next, Unlock(u, flags, next)
    PROVE  /\ conn' = conn
           /\ pc'[u] \in {next, "cleanup"}
           /\ conn[u] => pc'[u] = next
           /\ \A f, fl : Holds(u, f, fl) /\ (f # Here(u) \/ fl # flags) => Holds(u, f, fl)'
  BY DEF TypeOK, Unlock, Holds, Goto

\* A command starts with the first pass over the first file.
LEMMA AtStartStep ==
    ASSUME IndInv, NEW u \in User, Moves(u)
    PROVE  AtStart'
<1>. USE DEF nodeVars, lockVars, diskVars
<1>t. /\ TypeOK /\ AtStart
      /\ pc \in [User -> Idle \union Leaving \union Working]
      /\ pos \in [User -> [cmd : Nat, pass : Nat, file : Nat]]
  BY DEF IndInv, TypeOK
<1>o. ASSUME NEW v \in User, v # u PROVE pc'[v] = "start" => pos'[v].pass = 1 /\ pos'[v].file = 1
  BY <1>o, <1>t, OthersKeep DEF AtStart
<1>s. ASSUME pc'[u] # "start" PROVE AtStart'
  BY <1>s, <1>o DEF AtStart
<1>1. CASE ReadLock(u) \/ AwaitAdvisory(u) \/ WriteLock(u)
  <2>1. PICK flags \in FlagSets, next \in Working : LockAndWait(u, flags, next)
    BY <1>1, FlagsDiffer DEF ReadLock, AwaitAdvisory, WriteLock, Working
  <2>2. pc'[u] \in {next, pc[u], "cleanup"}
    BY <2>1, <1>t, WaitOutcome
  <2>. QED  BY <1>1, <2>2, <1>s DEF Working, ReadLock, AwaitAdvisory, WriteLock
<1>2. CASE Close(u)
  <2>1. CASE pos[u].cmd < Len(Script[u])
    <3>1. pos'[u] = [cmd |-> pos[u].cmd + 1, pass |-> 1, file |-> 1]
      BY <1>2, <2>1, <1>t DEF Close
    <3>. QED  BY <1>o, <3>1 DEF AtStart
  <2>2. CASE ~(pos[u].cmd < Len(Script[u]))
    BY <1>2, <2>2, <1>s, <1>t DEF Close, Goto
  <2>. QED  BY <2>1, <2>2
<1>3. CASE Drop(u) \/ Buried(u)
  BY <1>3, <1>t DEF Drop, Buried, AtStart
<1>4. CASE FreeNode(u) \/ WriteUnlock(u) \/ ReleaseAdvisory(u)
  BY <1>4, <1>s, <1>t DEF FreeNode, WriteUnlock, ReleaseAdvisory, Unlock, Goto
<1>. QED
  BY <1>1, <1>2, <1>3, <1>4, <1>s, <1>t
  DEF Moves, Step, Begin, Open, Cleanup, UpdateFileproc, LookFileproc, CheckFileproc,
      TryAdvisory, AddRcsFile, CommitFileproc, TagFileproc, AdminFileproc, StartRewrite,
      NothingToDo, Create, Rename, Reparse, Kill, Signal, Goto

\* rcs_lockfile is set exactly while the file is rewritten.
LEMMA NamedStep ==
    ASSUME IndInv, NEW u \in User, Moves(u)
    PROVE  NamedWhileWriting'
<1>. USE DEF nodeVars, lockVars, diskVars
<1>t. /\ TypeOK /\ NamedWhileWriting
      /\ pc \in [User -> Idle \union Leaving \union Working]
      /\ named \in [User -> BOOLEAN]
  BY DEF IndInv, TypeOK
<1>i. /\ pc[u] \in Writing => named[u]
      /\ named[u] => pc[u] \in Writing \union {"cleanup", "dead"}
  BY <1>t DEF NamedWhileWriting
<1>o. ASSUME NEW v \in User, v # u
      PROVE  /\ pc'[v] \in Writing => named'[v]
             /\ named'[v] => pc'[v] \in Writing \union {"cleanup", "dead"}
  BY <1>o, <1>t, OthersKeep DEF NamedWhileWriting
<1>s. ASSUME /\ pc'[u] \in Writing => named'[u]
             /\ named'[u] => pc'[u] \in Writing \union {"cleanup", "dead"}
      PROVE  NamedWhileWriting'
  BY <1>s, <1>o DEF NamedWhileWriting
<1>1. CASE ReadLock(u) \/ AwaitAdvisory(u)
  <2>1. PICK flags \in FlagSets, next \in {"proc", "free"} : LockAndWait(u, flags, next)
    BY <1>1, FlagsDiffer DEF ReadLock, AwaitAdvisory
  <2>2. pc'[u] \in {next, pc[u], "cleanup"}
    BY <2>1, <1>t, WaitOutcome
  <2>. QED  BY <1>1, <1>i, <2>2, <1>s DEF Writing, ReadLock, AwaitAdvisory
<1>2. CASE WriteLock(u)
  <2>2. pc'[u] \in {"create", pc[u], "cleanup"}
    BY <1>2, <1>t, WaitOutcome DEF WriteLock
  <2>. QED  BY <1>2, <1>i, <2>2, <1>s DEF Writing, WriteLock
<1>3. CASE FreeNode(u) \/ WriteUnlock(u) \/ ReleaseAdvisory(u)
  BY <1>3, <1>s, <1>i, <1>t DEF FreeNode, WriteUnlock, ReleaseAdvisory, Unlock, Goto, Writing
<1>4. CASE Drop(u) \/ Buried(u)
  BY <1>4, <1>s, <1>i, <1>t DEF Drop, Buried, Writing
<1>5. CASE Kill(u) \/ Signal(u)
  BY <1>5, <1>s, <1>i, <1>t DEF Kill, Signal, Writing, Goto
<1>6. CASE Reparse(u)
  BY <1>6, <1>s, <1>i, <1>t DEF Reparse, Writing, Goto
<1>7. CASE Cleanup(u) \/ Create(u) \/ Rename(u) \/ StartRewrite(u)
  BY <1>7, <1>s, <1>i, <1>t DEF Cleanup, Create, Rename, StartRewrite, Writing, Goto
<1>8. CASE Close(u)
  BY <1>8, <1>s, <1>i, <1>t DEF Close, Writing, Goto
<1>9. CASE /\ pc[u] \in {"start", "open", "proc", "advisory"} /\ UNCHANGED named
           /\ pc'[u] \in {"open", "rlock", "proc", "advisory", "advwait", "free", "cleanup"}
  BY <1>9, <1>s, <1>i DEF Writing
<1>. QED
  BY <1>1, <1>2, <1>3, <1>4, <1>5, <1>6, <1>7, <1>8, <1>9, <1>t
  DEF Moves, Step, Begin, Open, UpdateFileproc, LookFileproc, CheckFileproc,
      TryAdvisory, AddRcsFile, CommitFileproc, TagFileproc, AdminFileproc,
      NothingToDo, Goto

\* A process that stays connected was connected, and keeps its locks but for
\* the one it gives back.
LEMMA OwnKeep ==
    ASSUME TypeOK, NEW u \in User, Moves(u), conn'[u], ~Begin(u)
    PROVE  /\ conn[u] /\ ~Close(u)
           /\ FreeNode(u) \/ pos' = pos
           /\ \A f, fl : Holds(u, f, fl) =>
                \/ Holds(u, f, fl)'
                \/ f = Here(u) /\ fl = ReadFull /\ FreeNode(u)
                \/ f = Here(u) /\ fl = WriteFull /\ WriteUnlock(u)
                \/ f = Here(u) /\ fl = WriteAdvisory /\ ReleaseAdvisory(u)
<1>. USE DEF nodeVars, lockVars, diskVars
<1>t. TypeOK /\ conn \in [User -> BOOLEAN]
  BY DEF TypeOK
<1>g. ASSUME NEW flags, Granted(u, flags)
      PROVE  \A f, fl : Holds(u, f, fl) => Holds(u, f, fl)'
  BY <1>g DEF Granted, Holds
<1>k. ASSUME UNCHANGED locks
      PROVE  \A f, fl : Holds(u, f, fl) => Holds(u, f, fl)'
  BY <1>k DEF Holds
<1>1. CASE ReadLock(u) \/ AwaitAdvisory(u) \/ WriteLock(u)
  <2>1. PICK flags \in FlagSets, next \in Working : LockAndWait(u, flags, next)
    BY <1>1, FlagsDiffer DEF ReadLock, AwaitAdvisory, WriteLock, Working
  <2>2. conn' = conn /\ \A f, fl : Holds(u, f, fl) => Holds(u, f, fl)'
    BY <2>1, <1>t, WaitOutcome
  <2>3. pos' = pos /\ ~Close(u)
    BY <1>1 DEF ReadLock, AwaitAdvisory, WriteLock, Close
  <2>. QED  BY <2>2, <2>3
<1>2. CASE FreeNode(u)
  <2>1. ~Close(u)
    BY <1>2 DEF FreeNode, Close
  <2>2. CASE tree[u].exists
    <3>1. PICK next : Unlock(u, ReadFull, next)
      BY <1>2, <2>2 DEF FreeNode
    <3>2. conn' = conn /\ \A f, fl : Holds(u, f, fl) /\ (f # Here(u) \/ fl # ReadFull)
                                     => Holds(u, f, fl)'
      BY <3>1, <1>t, UnlockOutcome
    <3>. QED  BY <1>2, <2>1, <3>2
  <2>3. CASE ~tree[u].exists
    BY <1>2, <2>1, <2>3, <1>k DEF FreeNode
  <2>. QED  BY <2>2, <2>3
<1>3. CASE WriteUnlock(u)
  <2>1. ~Close(u) /\ pos' = pos /\ Unlock(u, WriteFull, "reparse")
    BY <1>3 DEF WriteUnlock, Close
  <2>2. conn' = conn /\ \A f, fl : Holds(u, f, fl) /\ (f # Here(u) \/ fl # WriteFull)
                                   => Holds(u, f, fl)'
    BY <2>1, <1>t, UnlockOutcome
  <2>. QED  BY <1>3, <2>1, <2>2
<1>4. CASE ReleaseAdvisory(u)
  <2>1. ~Close(u) /\ pos' = pos /\ Unlock(u, WriteAdvisory, "free")
    BY <1>4 DEF ReleaseAdvisory, Close
  <2>2. conn' = conn /\ \A f, fl : Holds(u, f, fl) /\ (f # Here(u) \/ fl # WriteAdvisory)
                                   => Holds(u, f, fl)'
    BY <2>1, <1>t, UnlockOutcome
  <2>. QED  BY <1>4, <2>1, <2>2
<1>5. CASE Close(u) \/ Buried(u) \/ Drop(u)
  BY <1>5, <1>t DEF Close, Buried, Drop
<1>6. CASE TryAdvisory(u)
  <2>1. \A f, fl : Holds(u, f, fl) => Holds(u, f, fl)'
    BY <1>6, <1>g, <1>k DEF TryAdvisory
  <2>. QED  BY <1>6, <2>1 DEF TryAdvisory, Close
<1>7. CASE UNCHANGED <<locks, conn, pos>> /\ ~Close(u)
  BY <1>7, <1>k
<1>. QED
  BY <1>1, <1>2, <1>3, <1>4, <1>5, <1>6, <1>7
  DEF Moves, Step, Begin, Open, Cleanup, UpdateFileproc, LookFileproc, CheckFileproc,
      AddRcsFile, CommitFileproc, TagFileproc, AdminFileproc, StartRewrite, NothingToDo,
      Create, Rename, Reparse, Kill, Signal, Close

\* The read lock stays while the file is worked on.
LEMMA ReadLockedStep ==
    ASSUME IndInv, NEW u \in User, Moves(u)
    PROVE  ReadLocked'
<1>. USE DEF nodeVars, lockVars, diskVars
<1>t. /\ TypeOK /\ ReadLocked /\ NamedWhileWriting
      /\ pc \in [User -> Idle \union Leaving \union Working]
      /\ named \in [User -> BOOLEAN] /\ tree \in [User -> Tree]
  BY DEF IndInv, TypeOK
<1>i. /\ conn[u] /\ pc[u] = "proc" /\ tree[u].exists => Holds(u, Here(u), ReadFull)
      /\ conn[u] /\ named[u] => Holds(u, Here(u), ReadFull)
  BY <1>t DEF ReadLocked
<1>n. named[u] => pc[u] \in Writing \union {"cleanup", "dead"}
  BY <1>t DEF NamedWhileWriting
<1>o. ASSUME NEW v \in User, v # u, conn'[v], (pc'[v] = "proc" /\ tree'[v].exists) \/ named'[v]
      PROVE  Holds(v, Here(v), ReadFull)'
  <2>1. Holds(v, Here(v), ReadFull) /\ Here(v)' = Here(v)
    BY <1>o, <1>t, OthersKeep DEF ReadLocked, Here
  <2>. QED  BY <1>o, <1>t, <2>1, OthersKeep DEF Holds
<1>s. SUFFICES ASSUME conn'[u], (pc'[u] = "proc" /\ tree'[u].exists) \/ named'[u]
               PROVE  Holds(u, Here(u), ReadFull)'
  BY <1>o DEF ReadLocked
<1>1. CASE Begin(u)
  BY <1>1, <1>s, <1>t, <1>n DEF Begin, Goto, Writing
<1>2. CASE FreeNode(u)
  BY <1>2, <1>s, <1>t, <1>n DEF FreeNode, Unlock, Goto, Writing
<1>3. CASE ReadLock(u)
  <2>1. /\ Here(u)' = Here(u) /\ pc[u] = "rlock" /\ named' = named
        /\ LockAndWait(u, ReadFull, "proc")
    BY <1>3 DEF ReadLock, Here
  <2>2. pc'[u] = "proc"
    BY <1>s, <1>n, <2>1 DEF Writing
  <2>3. Holds(u, Here(u), ReadFull)'
    BY <1>t, <2>1, <2>2, WaitOutcome DEF Holds
  <2>. QED  BY <2>3
<1>4. CASE ~Begin(u) /\ ~FreeNode(u) /\ ~ReadLock(u)
  <2>1. /\ conn[u] /\ ~Close(u) /\ pos' = pos
        /\ \A f : Holds(u, f, ReadFull) => Holds(u, f, ReadFull)'
    BY <1>4, <1>s, <1>t, OwnKeep, FlagsDiffer
  <2>2. (pc[u] = "proc" /\ tree[u].exists) \/ named[u]
    <3>1. CASE WriteLock(u) \/ AwaitAdvisory(u)
      <4>1. pc'[u] # "proc" /\ named' = named
        BY <3>1, <1>t, WaitOutcome DEF WriteLock, AwaitAdvisory
      <4>. QED  BY <1>s, <4>1
    <3>2. CASE WriteUnlock(u) \/ ReleaseAdvisory(u)
      BY <3>2, <1>s, <1>t DEF WriteUnlock, ReleaseAdvisory, Unlock, Goto
    <3>3. CASE Reparse(u)
      BY <3>3, <1>t DEF Reparse, NamedWhileWriting, Writing
    <3>4. CASE StartRewrite(u) /\ pc[u] = "proc"
      BY <3>4 DEF StartRewrite
    <3>5. CASE Open(u)
      BY <3>5, <1>s, <1>t DEF Open, Goto
    <3>6. CASE Drop(u) \/ Buried(u)
      BY <3>6, <1>s DEF Drop, Buried
    <3>7. CASE pc'[u] # "proc" /\ (named'[u] => named[u])
      BY <3>7, <1>s
    <3>. QED
      BY <3>1, <3>2, <3>3, <3>4, <3>5, <3>6, <3>7, <1>4, <2>1, <1>t
      DEF Moves, Step, Cleanup, UpdateFileproc, LookFileproc, CheckFileproc,
          TryAdvisory, AddRcsFile, CommitFileproc, TagFileproc, AdminFileproc,
          NothingToDo, Create, Rename, Kill, Signal, Goto
  <2>3. Here(u)' = Here(u)
    BY <2>1 DEF Here
  <2>. QED  BY <1>i, <2>1, <2>2, <2>3 DEF Holds
<1>. QED  BY <1>1, <1>2, <1>3, <1>4

\* The write lock stays until the file is replaced.
LEMMA WriteLockedStep ==
    ASSUME IndInv, NEW u \in User, Moves(u)
    PROVE  WriteLocked'
<1>. USE DEF nodeVars, lockVars, diskVars
<1>t. /\ TypeOK /\ WriteLocked
      /\ pc \in [User -> Idle \union Leaving \union Working]
  BY DEF IndInv, TypeOK
<1>o. ASSUME NEW v \in User, v # u, conn'[v], pc'[v] \in {"create", "rename", "unlock"}
      PROVE  Holds(v, Here(v), WriteFull)'
  <2>1. Holds(v, Here(v), WriteFull) /\ Here(v)' = Here(v)
    BY <1>o, <1>t, OthersKeep DEF WriteLocked, Here
  <2>. QED  BY <1>o, <1>t, <2>1, OthersKeep DEF Holds
<1>s. SUFFICES ASSUME conn'[u], pc'[u] \in {"create", "rename", "unlock"}
               PROVE  Holds(u, Here(u), WriteFull)'
  BY <1>o DEF WriteLocked
<1>1. CASE WriteLock(u)
  <2>1. Here(u)' = Here(u) /\ pc[u] = "wlock" /\ LockAndWait(u, WriteFull, "create")
    BY <1>1 DEF WriteLock, Here
  <2>2. pc'[u] = "create" /\ pc'[u] # pc[u]
    BY <1>s, <1>t, <2>1, WaitOutcome
  <2>. QED  BY <1>t, <2>1, <2>2, WaitOutcome DEF Holds
<1>2. CASE Begin(u) \/ FreeNode(u) \/ WriteUnlock(u)
  BY <1>2, <1>s, <1>t DEF Begin, FreeNode, WriteUnlock, Unlock, Goto
<1>3. CASE ~WriteLock(u) /\ ~Begin(u) /\ ~FreeNode(u) /\ ~WriteUnlock(u)
  <2>1. /\ conn[u] /\ ~Close(u) /\ pos' = pos
        /\ \A f : Holds(u, f, WriteFull) => Holds(u, f, WriteFull)'
    BY <1>3, <1>s, <1>t, OwnKeep, FlagsDiffer
  <2>2. pc[u] \in {"create", "rename", "unlock"}
    <3>1. CASE ReadLock(u) \/ AwaitAdvisory(u)
      BY <3>1, <1>s, <1>t, WaitOutcome DEF ReadLock, AwaitAdvisory
    <3>2. CASE ReleaseAdvisory(u)
      BY <3>2, <1>s, <1>t DEF ReleaseAdvisory, Unlock, Goto
    <3>3. CASE Reparse(u)
      BY <3>3, <1>s, <1>t DEF Reparse, Goto
    <3>4. CASE Drop(u) \/ Buried(u)
      BY <3>4, <1>s DEF Drop, Buried
    <3>. QED
      BY <3>1, <3>2, <3>3, <3>4, <1>3, <1>s, <2>1, <1>t
      DEF Moves, Step, Open, Cleanup, UpdateFileproc, LookFileproc, CheckFileproc,
          TryAdvisory, AddRcsFile, CommitFileproc, TagFileproc, AdminFileproc,
          StartRewrite, NothingToDo, Create, Rename, Kill, Signal, Goto
  <2>3. Here(u)' = Here(u)
    BY <2>1 DEF Here
  <2>. QED  BY <1>t, <2>1, <2>2, <2>3 DEF Holds, WriteLocked
<1>. QED  BY <1>1, <1>2, <1>3

-----------------------------------------------------------------------------
(* The file `,f,' *)

\* Whose `,f,' it is, and what its owner does and holds.
Owned(f, v) ==
    /\ pc[v] \in {"rename", "cleanup", "dead"}
    /\ Here(v) = f
    /\ pc[v] # "dead" => named[v]
    /\ conn[v] => Holds(v, f, WriteFull)

\* A step changes no `,f,' but that of the file the process is at, where it
\* creates its own or removes one.
LEMMA LockfileStep ==
    ASSUME TypeOK, NEW u \in User, Moves(u), NEW f \in File, lockfile'[f] # None
    PROVE  \/ lockfile'[f] = lockfile[f] /\ ~(f = Here(u) /\ Cleanup(u) /\ named[u])
                                        /\ ~(f = Here(u) /\ Rename(u))
           \/ lockfile'[f] = u /\ Create(u) /\ f = Here(u) /\ pc'[u] = "rename"
<1>. USE DEF nodeVars, lockVars, diskVars
<1>t. /\ lockfile \in [File -> User \union {None}] /\ Here(u) \in File
      /\ pc \in [User -> Idle \union Leaving \union Working]
  BY PlaceOK DEF TypeOK
<1>1. CASE Create(u)
  BY <1>1, <1>t DEF Create, Goto, Cleanup, Rename
<1>2. CASE Rename(u)
  BY <1>2, <1>t DEF Rename, Cleanup
<1>3. CASE Cleanup(u)
  BY <1>3, <1>t DEF Rename, Cleanup
<1>4. CASE UNCHANGED lockfile /\ ~Cleanup(u) /\ ~Rename(u)
  BY <1>4
<1>. QED
  BY <1>1, <1>2, <1>3, <1>4
  DEF Moves, Step, Begin, Open, ReadLock, FreeNode, Close, UpdateFileproc, LookFileproc,
      CheckFileproc, TryAdvisory, AwaitAdvisory, AddRcsFile, CommitFileproc, TagFileproc,
      AdminFileproc, StartRewrite, NothingToDo, WriteLock, WriteUnlock, Reparse,
      ReleaseAdvisory, Kill, Signal, Buried, Drop

\* The owner of a `,f,' keeps what it needs.
LEMMA OwnedStep ==
    ASSUME IndInv, NEW u \in User, Moves(u)
    PROVE  LockfileOwned'
<1>. USE DEF nodeVars, lockVars, diskVars
<1>t. /\ TypeOK /\ WriteLocked /\ NamedWhileWriting /\ None \notin User
      /\ pc \in [User -> Idle \union Leaving \union Working]
      /\ named \in [User -> BOOLEAN] /\ conn \in [User -> BOOLEAN]
      /\ lockfile \in [File -> User \union {None}]
  BY NobodyAssumption DEF IndInv, TypeOK
<1>i. \A f \in File : lockfile[f] # None => Owned(f, lockfile[f])
  BY DEF IndInv, LockfileOwned, Owned
<1>s. SUFFICES ASSUME NEW f \in File, lockfile'[f] # None,
                      NEW v, v = lockfile'[f]
               PROVE  Owned(f, v)'
  BY DEF LockfileOwned, Owned
<1>1. CASE v = u /\ Create(u) /\ f = Here(u) /\ pc'[u] = "rename"
  <2>1. named[u] /\ (conn[u] => Holds(u, f, WriteFull))
    BY <1>1, <1>t DEF WriteLocked, NamedWhileWriting, Writing, Create
  <2>2. UNCHANGED <<pos, named, conn, locks>>
    BY <1>1 DEF Create
  <2>. QED  BY <1>1, <2>1, <2>2 DEF Owned, Here, Holds
<1>2. CASE v = lockfile[f] /\ v # u
  <2>1. v \in User /\ Owned(f, v)
    BY <1>2, <1>s, <1>t, <1>i
  <2>2. /\ pc'[v] = pc[v] /\ pos'[v] = pos[v] /\ named'[v] = named[v] /\ conn'[v] = conn[v]
        /\ Holds(v, f, WriteFull)' <=> Holds(v, f, WriteFull)
    BY <1>2, <2>1, <1>t, OthersKeep
  <2>. QED  BY <2>1, <2>2 DEF Owned, Here
<1>3. CASE /\ u = lockfile[f] /\ u = v
           /\ ~(f = Here(u) /\ Cleanup(u) /\ named[u]) /\ ~(f = Here(u) /\ Rename(u))
  <2>1. Owned(f, u) /\ f = Here(u)
    BY <1>3, <1>s, <1>i DEF Owned
  <2>2. ~Cleanup(u) /\ ~Rename(u)
    BY <1>3, <2>1 DEF Owned, Cleanup
  <2>3. Kill(u) \/ Signal(u) \/ Buried(u) \/ Drop(u)
    BY <2>1, <2>2
    DEF Owned, Moves, Step, Begin, Open, ReadLock, FreeNode, Close, UpdateFileproc,
        LookFileproc, CheckFileproc, TryAdvisory, AwaitAdvisory, AddRcsFile, CommitFileproc,
        TagFileproc, AdminFileproc, Create, WriteLock, WriteUnlock, Reparse, ReleaseAdvisory
  <2>4. CASE Kill(u) \/ Signal(u)
    <3>1. UNCHANGED <<pos, named, conn, locks>> /\ pc'[u] \in {"dead", "cleanup"}
      BY <2>4, <1>t DEF Kill, Signal, Goto
    <3>2. pc'[u] # "dead" => pc[u] # "dead"
      BY <2>4, <1>t DEF Kill, Signal, Goto, Working
    <3>. QED  BY <1>3, <2>1, <3>1, <3>2 DEF Owned, Here, Holds
  <2>5. CASE Buried(u) \/ Drop(u)
    <3>1. UNCHANGED <<pos, named, pc>> /\ ~conn'[u]
      BY <2>5, <1>t DEF Buried, Drop
    <3>. QED  BY <1>3, <2>1, <3>1 DEF Owned, Here
  <2>. QED  BY <2>3, <2>4, <2>5
<1>. QED  BY <1>1, <1>2, <1>3, <1>s, <1>t, LockfileStep

-----------------------------------------------------------------------------
(* The advisory locks of a commit *)

\* The i-th file of u is one of those whose advisory lock u must hold.
Covered(u, i) ==
    \/ /\ Kind(u) = "check" /\ ~err[u]
       /\ i < pos[u].file \/ (i = pos[u].file /\ pc[u] = "free")
    \/ /\ Kind(u) = "commit"
       /\ i > pos[u].file \/ (i = pos[u].file /\ pc[u] # "free")

\* A first pass is not the second pass of a commit, and only a commit has a
\* check for its first pass.
LEMMA KindOfPass ==
    ASSUME TypeOK, NEW u \in User
    PROVE  /\ pos[u].pass = 1 => Kind(u) # "commit"
           /\ \A c : c = Script[u][pos[u].cmd] /\ pos[u].pass < Len(Passes(c)) =>
                /\ pos[u].pass = 1
                /\ Kind(u) = "check" <=> Passes(c)[pos[u].pass + 1] = "commit"
                /\ Passes(c)[pos[u].pass + 1] # "check"
<1>1. PICK c \in Command : c = Script[u][pos[u].cmd]
  BY PlaceOK
<1>2. pos[u].pass \in 1 .. Len(Passes(c)) /\ Kind(u) = Passes(c)[pos[u].pass]
  BY <1>1 DEF TypeOK, Kind
<1>3. PICK p \in Nat : p = pos[u].pass
  BY DEF TypeOK
<1>4. PICK n \in {1, 2} : n = Len(Passes(c))
  BY PassesOfCommand
<1>5. p < n => p = 1 /\ n = 2 /\ p + 1 = 2
  <2>1. p \in 1 .. n
    BY <1>2, <1>3, <1>4
  <2>. QED  BY <2>1
<1>. QED  BY <1>1, <1>2, <1>3, <1>4, <1>5, PassesOfCommand

\* A check leads to no rewrite.
LEMMA CheckWritesStep ==
    ASSUME IndInv, NEW u \in User, Moves(u)
    PROVE  CheckWritesNothing'
<1>. USE DEF nodeVars, lockVars, diskVars
<1>t. /\ TypeOK /\ CheckWritesNothing
      /\ pc \in [User -> Idle \union Leaving \union Working]
  BY DEF IndInv, TypeOK
<1>o. ASSUME NEW v \in User, v # u, pc'[v] \in Writing \union {"release"}
      PROVE  Kind(v)' # "check"
  <2>1. pc'[v] = pc[v] /\ pos'[v] = pos[v]
    BY <1>o, <1>t, OthersKeep
  <2>. QED  BY <1>o, <1>t, <2>1 DEF CheckWritesNothing, Kind
<1>s. SUFFICES ASSUME pc'[u] \in Writing \union {"release"}
               PROVE  Kind(u)' # "check"
  BY <1>o DEF CheckWritesNothing
<1>1. CASE pc[u] \in Writing \union {"release"} /\ UNCHANGED pos
  BY <1>1, <1>t DEF CheckWritesNothing, Kind
<1>2. CASE StartRewrite(u) /\ Kind(u) # "check"
  BY <1>2 DEF StartRewrite, Kind
<1>3. CASE ReadLock(u) \/ AwaitAdvisory(u)
  <2>1. PICK flags \in FlagSets, next \in {"proc", "free"} : LockAndWait(u, flags, next)
    BY <1>3, FlagsDiffer DEF ReadLock, AwaitAdvisory
  <2>2. pc'[u] \in {next, pc[u], "cleanup"}
    BY <2>1, <1>t, WaitOutcome
  <2>. QED  BY <1>3, <1>s, <2>2 DEF Writing, ReadLock, AwaitAdvisory
<1>4. CASE FreeNode(u) \/ Close(u)
  BY <1>4, <1>s, <1>t DEF FreeNode, Close, Unlock, Goto, Writing
<1>5. CASE Drop(u) \/ Buried(u)
  BY <1>5, <1>1, <1>s DEF Drop, Buried
<1>6. CASE WriteLock(u) \/ WriteUnlock(u) \/ ReleaseAdvisory(u) \/ Create(u) \/ Rename(u)
           \/ Reparse(u)
  BY <1>6, <1>1
  DEF WriteLock, WriteUnlock, ReleaseAdvisory, Create, Rename, Reparse, Writing
<1>7. CASE pc'[u] \in {"open", "rlock", "proc", "advisory", "advwait", "free", "cleanup",
                       "close", "dead"}
  BY <1>7, <1>s DEF Writing
<1>. QED
  BY <1>2, <1>3, <1>4, <1>5, <1>6, <1>7, <1>t
  DEF Moves, Step, Begin, Open, Cleanup, UpdateFileproc, LookFileproc, CheckFileproc,
      TryAdvisory, AddRcsFile, CommitFileproc, TagFileproc, AdminFileproc, NothingToDo,
      Kill, Signal, Goto

\* A commit keeps the advisory locks it needs.
LEMMA AdvisoryStep ==
    ASSUME IndInv, NEW u \in User, Moves(u)
    PROVE  AdvisoryLocked'
<1>. USE DEF nodeVars, lockVars, diskVars
<1>t. /\ TypeOK /\ AdvisoryLocked /\ AtStart /\ CheckWritesNothing
      /\ pc \in [User -> Idle \union Leaving \union Working]
      /\ pos \in [User -> [cmd : Nat, pass : Nat, file : Nat]]
      /\ err \in [User -> BOOLEAN]
  BY DEF IndInv, TypeOK
<1>i. \A v \in User : conn[v] /\ pc[v] \in Working =>
        \A i \in 1 .. Len(Visit[v]) : Covered(v, i) => Holds(v, Visit[v][i], WriteAdvisory)
  BY <1>t DEF AdvisoryLocked, Covered
<1>o. ASSUME NEW v \in User, v # u, conn'[v], pc'[v] \in Working,
             NEW i \in 1 .. Len(Visit[v]), Covered(v, i)'
      PROVE  Holds(v, Visit[v][i], WriteAdvisory)'
  <2>1. /\ pc'[v] = pc[v] /\ pos'[v] = pos[v] /\ err'[v] = err[v] /\ conn'[v] = conn[v]
        /\ \A f, fl : Holds(v, f, fl)' <=> Holds(v, f, fl)
    BY <1>o, <1>t, OthersKeep
  <2>2. Covered(v, i)
    BY <1>o, <2>1 DEF Covered, Kind
  <2>. QED  BY <1>o, <1>i, <2>1, <2>2
<1>s. SUFFICES ASSUME conn'[u], pc'[u] \in Working,
                      NEW i \in 1 .. Len(Visit[u]), Covered(u, i)'
               PROVE  Holds(u, Visit[u][i], WriteAdvisory)'
  BY <1>o DEF AdvisoryLocked, Covered
<1>n. PICK n \in Nat : n = pos[u].file /\ n \in 1 .. Len(Visit[u])
  BY DEF IndInv, TypeOK
<1>h. Visit[u][i] = Here(u) => i = pos[u].file
  BY <1>n, VisitAssumption DEF Here
<1>1. CASE Begin(u)
  <2>1. pos'[u].pass = 1 /\ pos'[u].file = 1 /\ pos' = pos
    BY <1>1, <1>t DEF Begin, AtStart
  <2>2. Kind(u)' # "commit"
    BY <2>1, <1>t, KindOfPass DEF Kind
  <2>3. pc'[u] = "open"
    BY <1>1, <1>t DEF Begin, Goto
  <2>. QED  BY <1>s, <2>1, <2>2, <2>3 DEF Covered
<1>2. CASE FreeNode(u)
  <2>1. /\ conn[u] /\ pc[u] = "free" /\ pc'[u] = "open" /\ UNCHANGED err
        /\ pos'[u] = NextPlace(u) /\ NextPlace(u) # pos[u]
    BY <1>2, <1>s, <1>t, OwnKeep DEF FreeNode, Unlock, Goto, Working, Begin
  <2>2. Holds(u, Visit[u][i], WriteAdvisory) => Holds(u, Visit[u][i], WriteAdvisory)'
    <3>1. ~Begin(u) /\ ~WriteUnlock(u) /\ ~ReleaseAdvisory(u) /\ WriteAdvisory # ReadFull
      BY <1>2, FlagsDiffer DEF FreeNode, Begin, WriteUnlock, ReleaseAdvisory
    <3>. QED  BY <1>t, <1>s, <3>1, OwnKeep
  <2>3. Covered(u, i)
    <3>1. CASE pos[u].file < Len(Visit[u])
      <4>1. /\ pos'[u].cmd = pos[u].cmd /\ pos'[u].pass = pos[u].pass
            /\ pos'[u].file = pos[u].file + 1
        BY <2>1, <3>1, <1>t DEF NextPlace
      <4>2. Kind(u)' = Kind(u)
        BY <4>1 DEF Kind
      <4>. QED  BY <1>s, <1>n, <2>1, <4>1, <4>2 DEF Covered
    <3>2. CASE /\ pos[u].file = Len(Visit[u]) /\ ~err[u]
               /\ pos[u].pass < Len(Passes(Script[u][pos[u].cmd]))
               /\ pos'[u] = [cmd |-> pos[u].cmd, pass |-> pos[u].pass + 1, file |-> 1]
      <4>1. Kind(u)' = Passes(Script[u][pos[u].cmd])[pos[u].pass + 1]
        BY <3>2 DEF Kind
      <4>2. Kind(u)' # "check" /\ (Kind(u)' = "commit" => Kind(u) = "check")
        BY <4>1, <3>2, <1>t, KindOfPass
      <4>3. Kind(u)' = "commit"
        BY <1>s, <4>2 DEF Covered
      <4>. QED  BY <4>2, <4>3, <3>2, <1>n, <2>1 DEF Covered
    <3>. QED  BY <2>1, <3>1, <3>2, <1>n DEF NextPlace
  <2>. QED  BY <1>i, <2>1, <2>2, <2>3 DEF Working
<1>3. CASE ~Begin(u) /\ ~FreeNode(u)
  <2>1. /\ conn[u] /\ ~Close(u) /\ pos' = pos
        /\ \A f : Holds(u, f, WriteAdvisory) =>
             Holds(u, f, WriteAdvisory)' \/ (f = Here(u) /\ ReleaseAdvisory(u))
    BY <1>3, <1>s, <1>t, OwnKeep, FlagsDiffer
  <2>2. Kind(u)' = Kind(u)
    BY <2>1 DEF Kind
  <2>3. CASE TryAdvisory(u) \/ AwaitAdvisory(u)
    <3>1. UNCHANGED err /\ pc[u] \in {"advisory", "advwait"}
      BY <2>3 DEF TryAdvisory, AwaitAdvisory
    <3>2. CASE Kind(u) = "check" /\ i = pos[u].file
      <4>1. pc'[u] = "free"
        BY <1>s, <2>1, <2>2, <3>2, <1>n DEF Covered
      <4>2. \A f : f = Here(u) => Holds(u, f, WriteAdvisory)'
        <5>1. CASE AwaitAdvisory(u)
          BY <5>1, <4>1, <1>t, <3>1, WaitOutcome DEF AwaitAdvisory
        <5>2. CASE TryAdvisory(u)
          <6>1. Granted(u, WriteAdvisory)
            BY <5>2, <4>1, <1>t DEF TryAdvisory, Goto
          <6>. QED  BY <6>1 DEF Granted, Holds
        <5>. QED  BY <5>1, <5>2, <2>3
      <4>. QED  BY <3>2, <4>2 DEF Here
    <3>3. CASE ~(Kind(u) = "check" /\ i = pos[u].file)
      <4>1. Covered(u, i) /\ pc[u] \in Working /\ ~ReleaseAdvisory(u)
        BY <1>s, <2>1, <2>2, <3>1, <3>3, <1>n DEF Covered, Working, ReleaseAdvisory
      <4>. QED  BY <1>i, <2>1, <4>1
    <3>. QED  BY <3>2, <3>3
  <2>4. CASE ReleaseAdvisory(u)
    <3>1. pc[u] = "release" /\ pc'[u] = "free" /\ UNCHANGED err
      BY <2>4, <2>1, <1>t DEF ReleaseAdvisory, Unlock, Goto
    <3>2. Kind(u) # "check"
      BY <3>1, <1>t DEF CheckWritesNothing
    <3>3. i # pos[u].file
      BY <1>s, <2>1, <2>2, <3>1, <3>2, <1>n DEF Covered
    <3>4. Covered(u, i) /\ pc[u] \in Working
      BY <1>s, <2>1, <2>2, <3>1, <3>3 DEF Covered, Working
    <3>. QED  BY <1>i, <1>h, <2>1, <3>3, <3>4
  <2>5. CASE ~TryAdvisory(u) /\ ~AwaitAdvisory(u) /\ ~ReleaseAdvisory(u)
    <3>1. /\ pc[u] \in Working /\ pc[u] # "free"
          /\ ~err'[u] => ~err[u]
          /\ Kind(u) = "check" /\ pc'[u] = "free" => err'[u]
      <4>0. ~Drop(u) /\ ~Buried(u)
        BY <1>s, <1>t, <2>1 DEF Drop, Buried, IndInv, TypeOK
      <4>1. CASE ReadLock(u) \/ WriteLock(u)
        <5>1. PICK flags \in FlagSets, next \in {"proc", "create"} : LockAndWait(u, flags, next)
          BY <4>1, FlagsDiffer DEF ReadLock, WriteLock
        <5>2. pc'[u] \in {next, pc[u], "cleanup"}
          BY <5>1, <1>t, WaitOutcome
        <5>. QED  BY <4>1, <5>2 DEF ReadLock, WriteLock, Working
      <4>2. CASE Reparse(u) \/ Create(u) \/ Rename(u) \/ WriteUnlock(u)
        <5>1. Kind(u) # "check"
          BY <4>2, <1>t DEF CheckWritesNothing, Writing, Reparse, Create, Rename, WriteUnlock
        <5>. QED  BY <4>2, <5>1 DEF Reparse, Create, Rename, WriteUnlock, Working
      <4>3. CASE CheckFileproc(u)
        BY <4>3, <1>t DEF CheckFileproc, Goto, Working
      <4>4. CASE LookFileproc(u)
        BY <4>4, <1>t DEF LookFileproc, Goto, Working
      <4>5. CASE Kill(u) \/ Signal(u) \/ Cleanup(u)
        BY <4>5, <1>s, <1>t DEF Kill, Signal, Cleanup, Goto, Working
      <4>6. CASE /\ Open(u) \/ UpdateFileproc(u) \/ AddRcsFile(u) \/ CommitFileproc(u)
                    \/ TagFileproc(u) \/ AdminFileproc(u)
        BY <4>6, <1>t
        DEF Open, UpdateFileproc, AddRcsFile, CommitFileproc, TagFileproc, AdminFileproc,
            StartRewrite, NothingToDo, Goto, Working
      <4>. QED
        BY <1>3, <2>1, <2>5, <4>0, <4>1, <4>2, <4>3, <4>4, <4>5, <4>6 DEF Moves, Step
    <3>2. Covered(u, i)
      <4>1. pos'[u] = pos[u]
        BY <2>1
      <4>. QED  BY <1>s, <2>2, <3>1, <4>1 DEF Covered
    <3>. QED  BY <1>i, <2>1, <2>5, <3>1, <3>2
  <2>. QED  BY <2>3, <2>4, <2>5
<1>. QED  BY <1>1, <1>2, <1>3

-----------------------------------------------------------------------------
(* The theorems *)

\* The initial state has the types and satisfies the invariant.
LEMMA InitInv == Init => IndInv
<1>. SUFFICES ASSUME Init PROVE IndInv
  OBVIOUS
<1>0. << >> \in Seq(User \union {Original}) /\ <<Original>> \in Seq(User \union {Original})
  OBVIOUS
<1>1. disk \in [File -> Tree]
  <2>1. disk = [f \in File |-> [exists |-> f \in Stored,
                               revs |-> IF f \in Stored THEN <<Original>> ELSE << >>,
                               marks |-> {}]]
    BY DEF Init
  <2>2. ASSUME NEW f \in File
        PROVE  [exists |-> f \in Stored,
                revs |-> IF f \in Stored THEN <<Original>> ELSE << >>, marks |-> {}] \in Tree
    <3>1. CASE f \in Stored
      <4>1. [exists |-> TRUE, revs |-> <<Original>>, marks |-> {}] \in Tree
        BY <1>0 DEF Tree
      <4>2. (f \in Stored) = TRUE
        BY <3>1
      <4>. QED  BY <3>1, <4>1, <4>2
    <3>2. CASE f \notin Stored
      <4>1. [exists |-> FALSE, revs |-> << >>, marks |-> {}] \in Tree
        BY <1>0 DEF Tree
      <4>2. (f \in Stored) = FALSE
        BY <3>2
      <4>. QED  BY <3>2, <4>1, <4>2
    <3>. QED  BY <3>1, <3>2
  <2>. QED  BY <2>1, <2>2
<1>2. sandbox \in [User -> [File -> Seq(User \union {Original})]]
  BY <1>1 DEF Init, Tree
<1>3. tree \in [User -> Tree]
  BY <1>0 DEF Init, Tree
<1>4. \A u \in User : /\ pos[u].cmd \in 1 .. Len(Script[u])
                       /\ pos[u].pass \in 1 .. Len(Passes(Script[u][pos[u].cmd]))
                       /\ pos[u].file \in 1 .. Len(Visit[u])
  <2>. SUFFICES ASSUME NEW u \in User
                PROVE  /\ pos[u].cmd \in 1 .. Len(Script[u])
                       /\ pos[u].pass \in 1 .. Len(Passes(Script[u][pos[u].cmd]))
                       /\ pos[u].file \in 1 .. Len(Visit[u])
    OBVIOUS
  <2>1. pos[u].cmd = 1 /\ pos[u].pass = 1 /\ pos[u].file = 1
    BY DEF Init
  <2>2. 1 \in 1 .. Len(Script[u]) /\ 1 \in 1 .. Len(Visit[u])
    BY Nonempty
  <2>3. Script[u][1] \in Command
    BY <2>2, Nonempty
  <2>4. 1 \in 1 .. Len(Passes(Script[u][1]))
    BY <2>3, PassesOfCommand
  <2>. QED  BY <2>1, <2>2, <2>4
<1>5. TypeOK
  <2>1. /\ pc \in [User -> Idle \union Leaving \union Working]
        /\ pos \in [User -> [cmd : Nat, pass : Nat, file : Nat]]
        /\ faults \in [kill : Nat, signal : Nat, drop : Nat]
    BY DEF Init, Idle
  <2>. QED  BY <1>1, <1>2, <1>3, <1>4, <2>1 DEF TypeOK, Init
<1>6. Compatible /\ LocksConnected /\ LockfileOwned
  BY DEF Init, Compatible, LocksConnected, LockfileOwned
<1>7. AtStart /\ NamedWhileWriting /\ CheckWritesNothing
  BY DEF Init, AtStart, NamedWhileWriting, CheckWritesNothing, Writing
<1>8. ReadLocked /\ WriteLocked /\ AdvisoryLocked
  BY DEF Init, ReadLocked, WriteLocked, AdvisoryLocked
<1>. QED  BY <1>5, <1>6, <1>7, <1>8 DEF IndInv

\* Every step keeps the invariant.
LEMMA InvStep ==
    ASSUME IndInv, [Next]_vars
    PROVE  IndInv'
<1>1. TypeOK'
  BY TypeStep DEF IndInv
<1>2. ASSUME NEW u \in User, Moves(u) PROVE IndInv'
  BY <1>1, <1>2, CompatibleStep, ConnectedStep, AtStartStep, NamedStep, CheckWritesStep,
     ReadLockedStep, WriteLockedStep, AdvisoryStep, OwnedStep DEF IndInv
<1>3. CASE UNCHANGED vars
  BY <1>1, <1>3
  DEF IndInv, vars, Compatible, LocksConnected, AtStart, NamedWhileWriting,
      CheckWritesNothing, ReadLocked, WriteLocked, AdvisoryLocked, LockfileOwned, Holds,
      Here, Kind
<1>. QED  BY <1>2, <1>3 DEF Next, Moves, Finished

\* The inductive invariant: who holds which lock at which point of a command
\* (rcs.cpp, commit.cpp), and whose `,f,' is on the disk.
THEOREM Invariance == Spec => []IndInv
  BY InitInv, InvStep, PTL DEF Spec

\* The state of the processes, of the files and of the lock service has its
\* type in every reachable state.
THEOREM TypeCorrect == Spec => []TypeOK
<1>1. IndInv => TypeOK
  BY DEF IndInv
<1>. QED  BY <1>1, Invariance, PTL

\* Whatever the users, files, scripts and faults: only a killed process
\* leaves a `,f,' behind (rcs_cleanup).
THEOREM NothingLeft == Spec => []NoLockfileLeft
<1>1. IndInv => NoLockfileLeft
  BY NobodyAssumption DEF IndInv, LockfileOwned, NoLockfileLeft
<1>. QED  BY <1>1, Invariance, PTL

\* A connected commit keeps the advisory locks of the files it still has to
\* check in, through both passes (check_fileproc, commit_fileproc).
THEOREM Coverage == Spec => []CommitCoversTree
<1>1. IndInv => CommitCoversTree
  <2>. SUFFICES ASSUME IndInv, NEW u \in User, Kind(u) = "commit", pc[u] \in Working, conn[u],
                       NEW i \in (pos[u].file + 1) .. Len(Visit[u])
                PROVE  Holds(u, Visit[u][i], WriteAdvisory)
    BY DEF CommitCoversTree
  <2>1. pos[u].file \in Nat /\ Len(Visit[u]) \in Nat
    BY Nonempty DEF IndInv, TypeOK
  <2>2. i \in 1 .. Len(Visit[u]) /\ i > pos[u].file
    BY <2>1
  <2>. QED  BY <2>2 DEF IndInv, AdvisoryLocked
<1>. QED  BY <1>1, Invariance, PTL

\* A lock other than a read lock is alone on its file.
LEMMA Alone ==
    ASSUME IndInv, NEW u \in User, NEW f, NEW flags \in {WriteAdvisory, WriteFull},
           Holds(u, f, flags), NEW l \in locks, l.path = f
    PROVE  l.owner = u
<1>1. PICK k \in locks : k.owner = u /\ k.path = f /\ k.flags = flags
  BY DEF Holds
<1>2. flags # ReadFull
  BY FlagsDiffer
<1>. QED  BY <1>1, <1>2 DEF IndInv, Compatible

\* A step changes an RCS file only by a rename or by add_rcs_file.
LEMMA DiskStep ==
    ASSUME TypeOK, NEW u \in User, Moves(u), NEW f \in File, disk'[f] # disk[f]
    PROVE  f = Here(u) /\ Acts(u) /\ (Rename(u) \/ AddRcsFile(u))
<1>. USE DEF nodeVars, lockVars, diskVars
<1>t. /\ disk \in [File -> Tree] /\ Here(u) \in File
      /\ pc \in [User -> Idle \union Leaving \union Working]
  BY PlaceOK DEF TypeOK
<1>1. CASE Rename(u)
  BY <1>1, <1>t DEF Rename, Goto, Acts
<1>2. CASE AddRcsFile(u)
  BY <1>2, <1>t DEF AddRcsFile, Goto, Acts
<1>3. CASE UNCHANGED disk
  BY <1>3
<1>. QED
  BY <1>1, <1>2, <1>3
  DEF Moves, Step, Begin, Open, ReadLock, FreeNode, Close, Cleanup, UpdateFileproc,
      LookFileproc, CheckFileproc, TryAdvisory, AwaitAdvisory, CommitFileproc, TagFileproc,
      AdminFileproc, StartRewrite, NothingToDo, WriteLock, Create, WriteUnlock, Reparse,
      ReleaseAdvisory, Kill, Signal, Buried, Drop

\* Who changes an RCS file works on it and, while its connection holds, is
\* alone with it.
LEMMA DiskAlone ==
    ASSUME IndInv, NEW u \in User, Moves(u), NEW f \in File, disk'[f] # disk[f]
    PROVE  /\ f = Here(u) /\ Acts(u) /\ (Rename(u) \/ AddRcsFile(u))
           /\ conn[u] => \A l \in locks : l.path = f => l.owner = u
<1>1. f = Here(u) /\ Acts(u) /\ (Rename(u) \/ AddRcsFile(u))
  BY DiskStep DEF IndInv
<1>2. ASSUME conn[u]
      PROVE  \E flags \in {WriteAdvisory, WriteFull} : Holds(u, f, flags)
  <2>1. CASE Rename(u)
    BY <1>1, <1>2, <2>1 DEF IndInv, WriteLocked, Rename
  <2>2. CASE AddRcsFile(u)
    <3>1. pc[u] \in Working /\ pc[u] # "free" /\ Kind(u) = "commit"
      BY <2>2 DEF AddRcsFile, Working
    <3>2. pos[u].file \in 1 .. Len(Visit[u])
      BY DEF IndInv, TypeOK
    <3>3. Holds(u, Visit[u][pos[u].file], WriteAdvisory)
      BY <1>2, <3>1, <3>2 DEF IndInv, AdvisoryLocked
    <3>. QED  BY <1>1, <3>3 DEF Here
  <2>. QED  BY <1>1, <2>1, <2>2
<1>. QED  BY <1>1, <1>2, Alone

\* An RCS file is created or replaced only by a process that works on it and,
\* while its connection holds, only when nobody else holds a lock on it.
THEOREM WritersAlone == Spec => WriterAlone
<1>1. ASSUME IndInv, [Next]_vars, NEW f \in File, disk'[f] # disk[f]
      PROVE  \E u \in User :
               /\ Acts(u) /\ Here(u) = f
               /\ conn[u] => \A l \in locks : l.path = f => l.owner = u
  <2>1. PICK u \in User : Moves(u)
    BY <1>1 DEF Next, Moves, Finished, vars
  <2>. QED  BY <1>1, <2>1, DiskAlone
<1>2. IndInv /\ [Next]_vars =>
        [\A f \in File : disk'[f] # disk[f] =>
           \E u \in User :
             /\ Acts(u) /\ Here(u) = f
             /\ conn[u] => \A l \in locks : l.path = f => l.owner = u]_vars
  BY <1>1
<1>. QED  BY <1>2, Invariance, PTL DEF Spec, WriterAlone

\* A `,f,' that is there is replaced only by a rename or by rcs_cleanup.
LEMMA Removes ==
    ASSUME TypeOK, NEW u \in User, Moves(u), NEW f \in File, lockfile[f] # None,
           lockfile'[f] # lockfile[f]
    PROVE  f = Here(u) /\ Acts(u) /\ (Rename(u) \/ (Cleanup(u) /\ named[u]))
<1>. USE DEF nodeVars, lockVars, diskVars
<1>t. /\ lockfile \in [File -> User \union {None}] /\ Here(u) \in File
      /\ pc \in [User -> Idle \union Leaving \union Working]
  BY PlaceOK DEF TypeOK
<1>1. CASE Rename(u)
  BY <1>1, <1>t DEF Rename, Goto, Acts
<1>2. CASE Cleanup(u)
  BY <1>2, <1>t DEF Cleanup, Goto, Acts
<1>3. CASE Create(u)
  BY <1>3, <1>t DEF Create
<1>4. CASE UNCHANGED lockfile
  BY <1>4
<1>. QED
  BY <1>1, <1>2, <1>3, <1>4
  DEF Moves, Step, Begin, Open, ReadLock, FreeNode, Close, UpdateFileproc, LookFileproc,
      CheckFileproc, TryAdvisory, AwaitAdvisory, AddRcsFile, CommitFileproc, TagFileproc,
      AdminFileproc, StartRewrite, NothingToDo, WriteLock, WriteUnlock, Reparse,
      ReleaseAdvisory, Kill, Signal, Buried, Drop

\* rcs_cleanup and rename_file remove, while the connections hold, only the
\* process's own `,f,' or the one a dead process left.
THEOREM OwnLockfiles == Spec => OnlyOwnLockfile
<1>1. ASSUME IndInv, [Next]_vars, NEW f \in File, lockfile[f] # None,
             lockfile'[f] # lockfile[f]
      PROVE  \E u \in User :
               /\ Acts(u) /\ Here(u) = f
               /\ \/ lockfile[f] = u
                  \/ pc[lockfile[f]] = "dead"
                  \/ ~conn[u] \/ ~conn[lockfile[f]]
  <2>1. PICK u \in User : Moves(u)
    BY <1>1 DEF Next, Moves, Finished, vars
  <2>2. f = Here(u) /\ Acts(u) /\ (Rename(u) \/ (Cleanup(u) /\ named[u]))
    BY <1>1, <2>1, Removes DEF IndInv
  <2>3. PICK v \in User : v = lockfile[f]
    BY <1>1 DEF IndInv, TypeOK
  <2>4. conn[v] => Holds(v, f, WriteFull)
    BY <1>1, <2>3 DEF IndInv, LockfileOwned
  <2>5. ASSUME conn[u] PROVE \E l \in locks : l.path = f /\ l.owner = u
    <3>1. Holds(u, f, WriteFull) \/ Holds(u, f, ReadFull)
      BY <1>1, <2>2, <2>5 DEF IndInv, WriteLocked, ReadLocked, Rename
    <3>. QED  BY <3>1 DEF Holds
  <2>6. conn[u] /\ conn[v] => u = v
    BY <1>1, <2>4, <2>5, Alone
  <2>. QED  BY <2>2, <2>3, <2>6
<1>2. IndInv /\ [Next]_vars =>
        [\A f \in File : lockfile[f] # None /\ lockfile'[f] # lockfile[f] =>
           \E u \in User :
             /\ Acts(u) /\ Here(u) = f
             /\ \/ lockfile[f] = u
                \/ pc[lockfile[f]] = "dead"
                \/ ~conn[u] \/ ~conn[lockfile[f]]]_vars
  BY <1>1
<1>. QED  BY <1>2, Invariance, PTL DEF Spec, OnlyOwnLockfile

-----------------------------------------------------------------------------
(* While the connections hold: what others leave alone *)

\* As long as no connection is lost, none has been lost.
LEMMA NoDrop ==
    ASSUME TypeOK, NEW u \in User, Moves(u), faults'.drop = 0
    PROVE  faults.drop = 0 /\ ~Drop(u)
<1>. USE DEF nodeVars, lockVars, diskVars
<1>t. faults \in [kill : Nat, signal : Nat, drop : Nat]
  BY DEF TypeOK
<1>1. CASE Drop(u)
  <2>1. faults'.drop = faults.drop + 1
    BY <1>1, <1>t DEF Drop
  <2>. QED  BY <2>1, <1>t
<1>2. CASE Kill(u) \/ Signal(u)
  BY <1>2, <1>t, <1>1 DEF Kill, Signal
<1>3. CASE faults' = faults /\ ~Drop(u)
  BY <1>3
<1>. QED
  BY <1>1, <1>2, <1>3
  DEF Moves, Step, Begin, Open, ReadLock, FreeNode, Close, Cleanup, UpdateFileproc,
      LookFileproc, CheckFileproc, TryAdvisory, AwaitAdvisory, AddRcsFile, CommitFileproc,
      TagFileproc, AdminFileproc, StartRewrite, NothingToDo, WriteLock, Create, Rename,
      WriteUnlock, Reparse, ReleaseAdvisory, Buried

\* A step of one process leaves the working files and the history of the
\* others alone.
LEMMA OthersHistory ==
    ASSUME TypeOK, NEW u \in User, Moves(u), NEW v \in User, v # u
    PROVE  /\ writes'[v] = writes[v] /\ sandbox'[v] = sandbox[v]
           /\ \A f : <<v, f>> \in raced' <=> <<v, f>> \in raced
<1>. USE DEF nodeVars, lockVars, diskVars
<1>t. /\ writes \in [User -> Nat]
      /\ sandbox \in [User -> [File -> Seq(User \union {Original})]]
  BY DEF TypeOK
<1>1. writes'[v] = writes[v]
  BY <1>t
  DEF Moves, Step, Begin, Open, ReadLock, FreeNode, Close, Cleanup, UpdateFileproc,
      LookFileproc, CheckFileproc, TryAdvisory, AwaitAdvisory, AddRcsFile, CommitFileproc,
      TagFileproc, AdminFileproc, StartRewrite, NothingToDo, WriteLock, Create, Rename,
      WriteUnlock, Reparse, ReleaseAdvisory, Kill, Signal, Buried, Drop
<1>2. sandbox'[v] = sandbox[v]
  <2>1. CASE UpdateFileproc(u) \/ ReleaseAdvisory(u)
    BY <2>1, <1>t DEF UpdateFileproc, ReleaseAdvisory
  <2>2. CASE sandbox' = sandbox
    BY <2>2
  <2>. QED
    BY <2>1, <2>2
    DEF Moves, Step, Begin, Open, ReadLock, FreeNode, Close, Cleanup, LookFileproc,
        CheckFileproc, TryAdvisory, AwaitAdvisory, AddRcsFile, CommitFileproc,
        TagFileproc, AdminFileproc, StartRewrite, NothingToDo, WriteLock, Create, Rename,
        WriteUnlock, Reparse, Kill, Signal, Buried, Drop
<1>3. \A f : <<v, f>> \in raced' <=> <<v, f>> \in raced
  <2>1. CASE NoteRace(u)
    BY <2>1 DEF NoteRace
  <2>2. CASE Begin(u)
    BY <2>2 DEF Begin
  <2>3. CASE raced' = raced
    BY <2>3
  <2>. QED
    BY <2>1, <2>2, <2>3
    DEF Moves, Step, Open, ReadLock, FreeNode, Close, Cleanup, UpdateFileproc,
        LookFileproc, CheckFileproc, TryAdvisory, AwaitAdvisory, AddRcsFile,
        CommitFileproc, TagFileproc, AdminFileproc, StartRewrite, NothingToDo, WriteLock,
        Create, Rename, WriteUnlock, Reparse, ReleaseAdvisory, Kill, Signal, Buried, Drop
<1>. QED  BY <1>1, <1>2, <1>3

\* What the rename and add_rcs_file put on the disk.
LEMMA DiskContent ==
    ASSUME TypeOK, NEW u \in User, Rewrites(u), Moves(u), NEW f \in File, disk'[f] # disk[f]
    PROVE  \/ /\ Rename(u) /\ f = Here(u) /\ pc'[u] = "unlock"
              /\ disk'[f] = Rewritten(u)
           \/ /\ AddRcsFile(u) /\ f = Here(u)
              /\ disk'[f] = [disk[f] EXCEPT !.exists = TRUE]
<1>t. /\ disk \in [File -> Tree] /\ Here(u) \in File /\ None \notin User
      /\ pc \in [User -> Idle \union Leaving \union Working]
  BY PlaceOK, NobodyAssumption DEF TypeOK
<1>1. f = Here(u) /\ (Rename(u) \/ AddRcsFile(u))
  BY DiskStep
<1>2. CASE Rename(u)
  <2>1. lockfile[Here(u)] = u /\ lockfile[Here(u)] # None
    BY <1>2, <1>t DEF Rename, Rewrites
  <2>2. disk' = [disk EXCEPT ![Here(u)] = Rewritten(u)] /\ Goto(u, "unlock")
    BY <1>2, <2>1 DEF Rename
  <2>. QED  BY <1>1, <1>2, <1>t, <2>2 DEF Goto
<1>3. CASE AddRcsFile(u)
  <2>1. disk' = [disk EXCEPT ![Here(u)] = [disk[Here(u)] EXCEPT !.exists = TRUE]]
    BY <1>3 DEF AddRcsFile
  <2>. QED  BY <1>1, <1>3, <1>t, <2>1
<1>. QED  BY <1>1, <1>2, <1>3

\* What a process writes keeps the file there; the revisions and the marks
\* are those of the tree it has parsed, and what the pass adds.
LEMMA RewrittenKeeps ==
    ASSUME TypeOK, NEW u \in User
    PROVE  /\ Rewritten(u).exists = tree[u].exists
           /\ Rewritten(u).revs \in {tree[u].revs, Append(tree[u].revs, u)}
           /\ tree[u].marks \subseteq Rewritten(u).marks
<1>1. tree[u] \in Tree
  BY DEF TypeOK
<1>2. CASE Kind(u) \in {"tag", "admin"}
  BY <1>1, <1>2 DEF Rewritten, Tree
<1>3. CASE Kind(u) = "commit" /\ writes[u] = 0
  BY <1>1, <1>3 DEF Rewritten, Tree
<1>4. CASE Kind(u) \notin {"tag", "admin"} /\ ~(Kind(u) = "commit" /\ writes[u] = 0)
  BY <1>4 DEF Rewritten
<1>. QED  BY <1>2, <1>3, <1>4

\* An RCS file that is there stays there.
LEMMA ThereStays ==
    ASSUME TypeOK, NEW u \in User, Rewrites(u), Moves(u), NEW f \in File, disk[f].exists
    PROVE  disk'[f].exists
<1>1. CASE disk'[f] = Rewritten(u) /\ Rename(u)
  <2>1. tree[u].exists
    BY <1>1 DEF Rewrites, Writing, Rename
  <2>. QED  BY <1>1, <2>1, RewrittenKeeps
<1>2. CASE disk'[f] = [disk[f] EXCEPT !.exists = TRUE]
  <2>1. disk[f] \in Tree
    BY DEF TypeOK
  <2>. QED  BY <1>2, <2>1 DEF Tree
<1>. QED  BY <1>1, <1>2, DiskContent

\* A file on which another process holds a lock does not change, and its
\* `,f,' stays the write-locked owner's.
LEMMA LockedStays ==
    ASSUME IndInv, NEW u \in User, Steady(u), Moves(u), NEW v \in User, v # u,
           NEW f \in File, NEW flags, Holds(v, f, flags)
    PROVE  disk'[f] = disk[f]
<1>. SUFFICES ASSUME disk'[f] # disk[f] PROVE FALSE
  OBVIOUS
<1>1. /\ Rename(u) \/ AddRcsFile(u)
      /\ conn[u] => \A l \in locks : l.path = f => l.owner = u
  BY DiskAlone
<1>2. conn[u]
  BY <1>1 DEF Steady, Connected, Rename, AddRcsFile, Working
<1>3. \E l \in locks : l.path = f /\ l.owner = v
  BY DEF Holds
<1>. QED  BY <1>1, <1>2, <1>3

LEMMA LockfileStays ==
    ASSUME IndInv, NEW u \in User, Steady(u), Moves(u), NEW v \in User, v # u,
           NEW f \in File, Holds(v, f, WriteFull), lockfile[f] = v
    PROVE  lockfile'[f] = v
<1>. SUFFICES ASSUME lockfile'[f] # v PROVE FALSE
  OBVIOUS
<1>t. TypeOK /\ lockfile[f] # None
  BY NobodyAssumption DEF IndInv
<1>1. f = Here(u) /\ (Rename(u) \/ (Cleanup(u) /\ named[u]))
  BY <1>t, Removes
<1>2. conn[u]
  BY <1>1 DEF Steady, Connected, Rename, Cleanup, Working, Leaving
<1>3. Holds(u, f, WriteFull) \/ Holds(u, f, ReadFull)
  BY <1>1, <1>2 DEF IndInv, WriteLocked, ReadLocked, Rename
<1>4. \E l \in locks : l.path = f /\ l.owner = u
  BY <1>3 DEF Holds
<1>. QED  BY <1>4, Alone

\* What a process at work has locked: the file it writes and, in the second
\* pass of a commit, the file it is at.
LEMMA WorksLocked ==
    ASSUME IndInv, NEW v \in User, Connected(v)
    PROVE  /\ Kind(v) = "commit" /\ pc[v] \in Working /\ pc[v] # "free" =>
                Holds(v, Here(v), WriteAdvisory)
           /\ pc[v] \in Writing => Holds(v, Here(v), ReadFull)
           /\ pc[v] = "proc" /\ tree[v].exists => Holds(v, Here(v), ReadFull)
           /\ pc[v] = "rename" => Holds(v, Here(v), WriteFull)
<1>1. pc[v] \in Working => conn[v]
  BY DEF Connected
<1>2. ASSUME Kind(v) = "commit", pc[v] \in Working, pc[v] # "free"
      PROVE  Holds(v, Here(v), WriteAdvisory)
  <2>1. pos[v].file \in 1 .. Len(Visit[v])
    BY DEF IndInv, TypeOK
  <2>. QED  BY <1>1, <1>2, <2>1 DEF IndInv, AdvisoryLocked, Here
<1>3. Writing \subseteq Working /\ "proc" \in Working /\ "rename" \in Working
  BY DEF Writing, Working
<1>. QED  BY <1>1, <1>2, <1>3 DEF IndInv, NamedWhileWriting, ReadLocked, WriteLocked

\* What a process knows of its files survives the steps of the others.
LEMMA OtherSteady ==
    ASSUME IndInv, NEW u \in User, Steady(u), Moves(u), NEW v \in User, v # u, Steady(v)
    PROVE  Steady(v)'
<1>t. TypeOK /\ Here(v) \in File
  BY PlaceOK DEF IndInv
<1>k. /\ pc'[v] = pc[v] /\ pos'[v] = pos[v] /\ tree'[v] = tree[v] /\ conn'[v] = conn[v]
      /\ writes'[v] = writes[v] /\ sandbox'[v] = sandbox[v]
  BY <1>t, OthersKeep, OthersHistory
<1>l. \A f, flags : Holds(v, f, flags)' <=> Holds(v, f, flags)
  BY <1>t, OthersKeep
<1>r. \A f : <<v, f>> \in raced' <=> <<v, f>> \in raced
  BY <1>t, OthersHistory
<1>h. Here(v)' = Here(v) /\ Kind(v)' = Kind(v) /\ Base(v)' = Base(v)
  BY <1>k DEF Here, Kind, Base
<1>d. \A f \in File : \A flags : Holds(v, f, flags) => disk'[f] = disk[f]
  BY LockedStays
<1>w. /\ Kind(v) = "commit" /\ pc[v] \in Working /\ pc[v] # "free" =>
           Holds(v, Here(v), WriteAdvisory)
      /\ pc[v] \in Writing => Holds(v, Here(v), ReadFull)
      /\ pc[v] = "proc" /\ tree[v].exists => Holds(v, Here(v), ReadFull)
      /\ pc[v] = "rename" => Holds(v, Here(v), WriteFull)
  BY WorksLocked DEF Steady
<1>1. Connected(v)'
  BY <1>k DEF Steady, Connected
<1>2. Rewrites(v)'
  <2>1. pc[v] = "rename" => lockfile'[Here(v)] = v
    BY <1>t, <1>w, LockfileStays DEF Steady, Rewrites
  <2>. QED  BY <2>1, <1>k, <1>h DEF Steady, Rewrites
<1>3. StillThere(v)'
  <2>1. disk[Here(v)].exists => disk'[Here(v)].exists
    BY <1>t, ThereStays DEF Steady
  <2>. QED  BY <2>1, <1>k, <1>h DEF Steady, StillThere
<1>4. OneReadLock(v)'
  BY <1>k, <1>h, <1>l DEF Steady, OneReadLock
<1>5. AdvisoryOfCommit(v)'
  BY <1>k, <1>l DEF Steady, AdvisoryOfCommit
<1>6. Checked(v)'
  BY <1>k, <1>h DEF Steady, Checked
<1>7. TreeCurrent(v)'
  <2>1. /\ pc[v] \in {"wlock", "create", "rename"} => disk'[Here(v)] = disk[Here(v)]
        /\ pc[v] = "proc" /\ tree[v].exists => disk'[Here(v)] = disk[Here(v)]
        /\ Kind(v) = "commit" /\ pc[v] \in {"rlock", "proc", "wlock", "create", "rename"} =>
             disk'[Here(v)] = disk[Here(v)]
    BY <1>t, <1>d, <1>w DEF Working, Writing
  <2>. QED  BY <2>1, <1>k, <1>h, <1>r DEF Steady, TreeCurrent
<1>8. AdvisoryFresh(v)'
  <2>1. \A f : CheckedIn(v, f)' <=> CheckedIn(v, f)
    BY <1>k, <1>h DEF CheckedIn
  <2>2. \A f \in File : Holds(v, f, WriteAdvisory) => disk'[f] = disk[f]
    BY <1>d
  <2>. QED  BY <2>1, <2>2, <1>k, <1>l, <1>r DEF Steady, AdvisoryFresh
<1>. QED  BY <1>1, <1>2, <1>3, <1>4, <1>5, <1>6, <1>7, <1>8 DEF Steady

-----------------------------------------------------------------------------
(* While the connections hold: what a process does itself *)

\* Between Begin and Close a process that is not dead stays connected.
LEMMA Flow ==
    ASSUME TypeOK, NEW u \in User, Connected(u), Moves(u),
           ~Begin(u), ~Close(u), ~Buried(u), ~Drop(u)
    PROVE  /\ conn' = conn /\ conn[u]
           /\ pc[u] \in Working \union {"cleanup", "close"}
           /\ pc'[u] \in Working \union {"cleanup", "close", "dead"}
           /\ pc'[u] \in Working => pc[u] \in Working
<1>. USE DEF nodeVars, lockVars, diskVars
<1>t. /\ pc \in [User -> Idle \union Leaving \union Working]
      /\ pc[u] \in Working \union Leaving => conn[u]
  BY DEF TypeOK, Connected
<1>1. CASE ReadLock(u) \/ AwaitAdvisory(u) \/ WriteLock(u)
  <2>1. PICK flags \in FlagSets, next \in {"proc", "free", "create"} :
          LockAndWait(u, flags, next)
    BY <1>1, FlagsDiffer DEF ReadLock, AwaitAdvisory, WriteLock
  <2>2. conn' = conn /\ pc'[u] \in {next, pc[u], "cleanup"}
    BY <2>1, WaitOutcome
  <2>3. pc[u] \in Working
    BY <1>1 DEF ReadLock, AwaitAdvisory, WriteLock, Working
  <2>. QED  BY <1>t, <2>2, <2>3 DEF Working
<1>2. CASE FreeNode(u) \/ WriteUnlock(u) \/ ReleaseAdvisory(u)
  BY <1>2, <1>t DEF FreeNode, WriteUnlock, ReleaseAdvisory, Unlock, Goto, Working
<1>3. CASE Kill(u) \/ Signal(u) \/ Cleanup(u)
  BY <1>3, <1>t DEF Kill, Signal, Cleanup, Goto, Working, Leaving
<1>4. CASE Reparse(u) \/ Rename(u) \/ Create(u) \/ (StartRewrite(u) /\ pc[u] = "proc")
  BY <1>4, <1>t DEF Reparse, Rename, Create, StartRewrite, Goto, Working
<1>5. CASE /\ conn' = conn /\ pc[u] \in {"open", "proc", "advisory"}
           /\ pc'[u] \in {"open", "rlock", "proc", "advisory", "advwait", "wlock", "free",
                          "cleanup"}
  BY <1>5, <1>t DEF Working
<1>. QED
  BY <1>1, <1>2, <1>3, <1>4, <1>5, <1>t
  DEF Moves, Step, Open, UpdateFileproc, LookFileproc, CheckFileproc, TryAdvisory,
      AddRcsFile, CommitFileproc, TagFileproc, AdminFileproc, StartRewrite, NothingToDo,
      Goto

\* Which lock a step can add, and where the process is then.
LEMMA NewLock ==
    ASSUME TypeOK, NEW u \in User, Moves(u), NEW f, NEW flags, Holds(u, f, flags)'
    PROVE  \/ Holds(u, f, flags)
           \/ /\ f = Here(u) /\ flags = ReadFull
              /\ ReadLock(u) /\ pc'[u] = "proc" /\ locks' # locks
           \/ /\ f = Here(u) /\ flags = WriteFull /\ WriteLock(u)
           \/ /\ f = Here(u) /\ flags = WriteAdvisory
              /\ TryAdvisory(u) \/ AwaitAdvisory(u)
              /\ pc'[u] = "free" /\ locks' # locks
<1>. USE DEF nodeVars, lockVars, diskVars
<1>t. pc \in [User -> Idle \union Leaving \union Working]
  BY DEF TypeOK
<1>s. ASSUME locks' \subseteq locks PROVE Holds(u, f, flags)
  BY <1>s DEF Holds
<1>g. ASSUME NEW fl, Granted(u, fl), ~Holds(u, f, flags)
      PROVE  f = Here(u) /\ flags = fl /\ locks' # locks
  BY <1>g DEF Granted, Holds
<1>w. ASSUME NEW fl, NEW next, LockAndWait(u, fl, next)
      PROVE  locks' \subseteq locks \/ (Granted(u, fl) /\ pc'[u] = next)
  BY <1>w, <1>t DEF LockAndWait, Goto
<1>1. CASE ReadLock(u)        BY <1>1, <1>s, <1>g, <1>w DEF ReadLock
<1>2. CASE WriteLock(u)       BY <1>2, <1>s, <1>g, <1>w DEF WriteLock
<1>3. CASE AwaitAdvisory(u)   BY <1>3, <1>s, <1>g, <1>w DEF AwaitAdvisory
<1>4. CASE TryAdvisory(u)     BY <1>4, <1>s, <1>g, <1>t DEF TryAdvisory, Goto
<1>5. CASE locks' \subseteq locks   BY <1>5, <1>s
<1>6. CASE FreeNode(u) \/ WriteUnlock(u) \/ ReleaseAdvisory(u)
  BY <1>6, <1>5 DEF FreeNode, WriteUnlock, ReleaseAdvisory, Unlock
<1>. QED
  BY <1>1, <1>2, <1>3, <1>4, <1>5, <1>6
  DEF Moves, Step, Begin, Open, Close, Cleanup, UpdateFileproc, LookFileproc,
      CheckFileproc, AddRcsFile, CommitFileproc, TagFileproc, AdminFileproc, StartRewrite,
      NothingToDo, Create, Rename, Reparse, Kill, Signal, Buried, Drop

\* A process that is not connected has no lock.
LEMMA NoLocks ==
    ASSUME IndInv, NEW u \in User, Connected(u), pc[u] \in {"start", "done"}, NEW f, NEW flags
    PROVE  ~Holds(u, f, flags)
<1>1. ~conn[u]
  BY DEF Connected
<1>2. \A l \in locks : conn[l.owner]
  BY DEF IndInv, LocksConnected
<1>. QED  BY <1>1, <1>2 DEF Holds

\* Only the commands named commit check and check in.
LEMMA CommitKinds ==
    ASSUME TypeOK, NEW u \in User
    PROVE  Script[u][pos[u].cmd] = "commit" <=> Kind(u) \in {"check", "commit"}
<1>1. PICK c \in Command : c = Script[u][pos[u].cmd]
  BY PlaceOK
<1>2. pos[u].pass \in 1 .. Len(Passes(c)) /\ Kind(u) = Passes(c)[pos[u].pass]
  BY <1>1 DEF TypeOK, Kind
<1>3. Len(Passes(c)) \in {1, 2}
  BY PassesOfCommand
<1>4. pos[u].pass \in {1, 2} /\ pos[u].pass <= Len(Passes(c))
  BY <1>2, <1>3
<1>5. CASE c = "commit"
  BY <1>1, <1>2, <1>4, <1>5 DEF Passes
<1>6. CASE c = "update" \/ c = "admin"
  <2>1. Len(Passes(c)) = 1
    BY <1>6 DEF Passes
  <2>2. pos[u].pass = 1
    BY <1>4, <2>1
  <2>. QED  BY <1>1, <1>2, <1>6, <2>2 DEF Passes
<1>7. CASE c = "tag"
  BY <1>1, <1>2, <1>4, <1>7 DEF Passes
<1>. QED  BY <1>5, <1>6, <1>7 DEF Command

LEMMA ConnectedOwn ==
    ASSUME TypeOK, NEW u \in User, Connected(u), Moves(u), ~Drop(u)
    PROVE  Connected(u)'
<1>. USE DEF nodeVars, lockVars, diskVars
<1>t. /\ pc \in [User -> Idle \union Leaving \union Working]
      /\ conn \in [User -> BOOLEAN]
  BY DEF TypeOK
<1>1. CASE Begin(u)
  BY <1>1, <1>t DEF Begin, Goto, Connected
<1>2. CASE Close(u)
  BY <1>2, <1>t DEF Close, Goto, Connected, Working, Leaving
<1>3. CASE Buried(u)
  BY <1>3, <1>t DEF Buried, Connected, Working, Leaving
<1>4. CASE ~Begin(u) /\ ~Close(u) /\ ~Buried(u)
  <2>1. conn'[u] /\ pc'[u] \in Working \union {"cleanup", "close", "dead"}
    BY <1>4, Flow
  <2>. QED  BY <2>1 DEF Connected, Working
<1>. QED  BY <1>1, <1>2, <1>3, <1>4

\* How a process comes to a place where it rewrites.
LEMMA RewritesOwn ==
    ASSUME IndInv, NEW u \in User, Steady(u), Moves(u), ~Drop(u)
    PROVE  Rewrites(u)'
<1>. USE DEF nodeVars, lockVars, diskVars
<1>t. /\ TypeOK /\ Here(u) \in File
      /\ pc \in [User -> Idle \union Leaving \union Working]
      /\ lockfile \in [File -> User \union {None}] /\ tree \in [User -> Tree]
  BY PlaceOK DEF IndInv, TypeOK
<1>i. /\ pc[u] \in Writing => Kind(u) \in {"tag", "admin", "commit"} /\ tree[u].exists
      /\ pc[u] = "release" => Kind(u) = "commit"
      /\ pc[u] = "rename" => lockfile[Here(u)] = u
  BY DEF Steady, Rewrites
<1>n. ASSUME pc'[u] \notin Writing \union {"release"} PROVE Rewrites(u)'
  BY <1>n DEF Rewrites, Writing
<1>k. ASSUME pos' = pos PROVE Kind(u)' = Kind(u) /\ Here(u)' = Here(u)
  BY <1>k DEF Kind, Here
<1>1. CASE pc[u] = "proc" /\ StartRewrite(u) /\ Kind(u) \in {"tag", "admin", "commit"}
  <2>1. pc'[u] = "wlock" /\ pos' = pos /\ tree'[u] = tree[u] /\ tree[u].exists
    BY <1>1, <1>t DEF StartRewrite, Goto
  <2>. QED  BY <1>1, <1>k, <2>1 DEF Rewrites
<1>2. CASE WriteLock(u)
  <2>1. pos' = pos /\ tree' = tree /\ pc[u] = "wlock" /\ LockAndWait(u, WriteFull, "create")
    BY <1>2 DEF WriteLock
  <2>2. pc'[u] \in {"create", "wlock", "cleanup"}
    BY <2>1, <1>t, WaitOutcome
  <2>. QED  BY <1>i, <1>k, <2>1, <2>2 DEF Rewrites, Writing
<1>3. CASE Create(u)
  <2>1. pos' = pos /\ tree' = tree /\ pc[u] = "create"
    BY <1>3 DEF Create
  <2>2. pc'[u] = "cleanup" \/ (pc'[u] = "rename" /\ lockfile'[Here(u)] = u)
    BY <1>3, <1>t DEF Create, Goto
  <2>. QED  BY <1>i, <1>k, <2>1, <2>2 DEF Rewrites, Writing
<1>4. CASE Rename(u) \/ WriteUnlock(u)
  <2>1. /\ pos' = pos /\ tree' = tree /\ pc[u] \in Writing
        /\ pc'[u] \in {"unlock", "reparse", "cleanup"}
    BY <1>4, <1>t DEF Rename, WriteUnlock, Unlock, Goto, Writing
  <2>. QED  BY <1>i, <1>k, <2>1 DEF Rewrites, Writing
<1>5. CASE Reparse(u)
  <2>1. /\ pos' = pos /\ tree'[u] = disk[Here(u)] /\ pc[u] = "reparse"
        /\ pc'[u] \in {"wlock", "release"} => Kind(u) = "commit"
        /\ pc'[u] \in {"wlock", "release", "free"}
    BY <1>5, <1>t DEF Reparse, Goto
  <2>2. disk[Here(u)].exists
    BY <1>i, <2>1 DEF Steady, StillThere, Working, Writing
  <2>. QED  BY <1>k, <2>1, <2>2 DEF Rewrites, Writing
<1>6. CASE ReadLock(u) \/ AwaitAdvisory(u)
  <2>1. PICK flags \in FlagSets, next \in {"proc", "free"} : LockAndWait(u, flags, next)
    BY <1>6, FlagsDiffer DEF ReadLock, AwaitAdvisory
  <2>2. pc'[u] \in {next, pc[u], "cleanup"}
    BY <2>1, <1>t, WaitOutcome
  <2>. QED  BY <1>6, <1>n, <2>2 DEF Writing, ReadLock, AwaitAdvisory
<1>7. CASE FreeNode(u) \/ ReleaseAdvisory(u) \/ Close(u)
  BY <1>7, <1>n, <1>t DEF FreeNode, ReleaseAdvisory, Unlock, Close, Goto, Writing
<1>8. CASE Buried(u)
  BY <1>8, <1>n DEF Buried, Writing
<1>. QED
  BY <1>1, <1>2, <1>3, <1>4, <1>5, <1>6, <1>7, <1>8, <1>n, <1>t
  DEF Moves, Step, Begin, Open, Cleanup, UpdateFileproc, LookFileproc, CheckFileproc,
      TryAdvisory, AddRcsFile, CommitFileproc, TagFileproc, AdminFileproc, NothingToDo,
      Kill, Signal, Goto, Writing

\* A step that changes neither the parsed tree nor the place nor the disk.
LEMMA OwnTree ==
    ASSUME TypeOK, NEW u \in User, Moves(u),
           ~Open(u), ~Reparse(u), ~FreeNode(u), ~Close(u)
    PROVE  /\ tree' = tree /\ writes' = writes /\ pos' = pos
           /\ ~Rename(u) /\ ~AddRcsFile(u) => disk' = disk
           /\ ~ReleaseAdvisory(u) /\ ~UpdateFileproc(u) => sandbox' = sandbox
           /\ ~Begin(u) => raced \subseteq raced'
<1>. USE DEF nodeVars, lockVars, diskVars
<1>1. tree' = tree /\ writes' = writes /\ pos' = pos
  BY DEF Moves, Step, Begin, ReadLock, Cleanup, UpdateFileproc, LookFileproc,
      CheckFileproc, TryAdvisory, AwaitAdvisory, AddRcsFile, CommitFileproc, TagFileproc,
      AdminFileproc, StartRewrite, NothingToDo, WriteLock, Create, Rename, WriteUnlock,
      ReleaseAdvisory, Kill, Signal, Buried, Drop
<1>2. ~Rename(u) /\ ~AddRcsFile(u) => disk' = disk
  BY DEF Moves, Step, Begin, ReadLock, Cleanup, UpdateFileproc, LookFileproc,
      CheckFileproc, TryAdvisory, AwaitAdvisory, CommitFileproc, TagFileproc,
      AdminFileproc, StartRewrite, NothingToDo, WriteLock, Create, WriteUnlock,
      ReleaseAdvisory, Kill, Signal, Buried, Drop
<1>3. ~ReleaseAdvisory(u) /\ ~UpdateFileproc(u) => sandbox' = sandbox
  BY DEF Moves, Step, Begin, ReadLock, Cleanup, LookFileproc,
      CheckFileproc, TryAdvisory, AwaitAdvisory, AddRcsFile, CommitFileproc, TagFileproc,
      AdminFileproc, StartRewrite, NothingToDo, WriteLock, Create, Rename, WriteUnlock,
      Kill, Signal, Buried, Drop
<1>4. ~Begin(u) => raced \subseteq raced'
  BY DEF Moves, Step, ReadLock, Cleanup, UpdateFileproc, LookFileproc,
      CheckFileproc, TryAdvisory, AwaitAdvisory, AddRcsFile, CommitFileproc, TagFileproc,
      AdminFileproc, StartRewrite, NothingToDo, WriteLock, Create, Rename, WriteUnlock,
      ReleaseAdvisory, Kill, Signal, Buried, Drop, NoteRace
<1>. QED  BY <1>1, <1>2, <1>3, <1>4

\* Open and RCS_reparsercsfile read what the disk holds.
LEMMA Reads ==
    ASSUME TypeOK, NEW u \in User, Open(u) \/ Reparse(u)
    PROVE  /\ tree'[u] = disk[Here(u)] /\ UNCHANGED <<disk, pos, locks, sandbox, raced>>
           /\ Here(u)' = Here(u) /\ Kind(u)' = Kind(u)
<1>. USE DEF nodeVars, lockVars, diskVars
<1>1. tree'[u] = disk[Here(u)] /\ UNCHANGED <<disk, pos, locks, sandbox, raced>>
  BY DEF TypeOK, Open, Reparse
<1>. QED  BY <1>1 DEF Here, Kind

\* Where the steps that begin, end or move on lead.
LEMMA Moved ==
    ASSUME TypeOK, NEW u \in User, Connected(u), FreeNode(u) \/ Close(u) \/ Begin(u)
    PROVE  pc'[u] \in {"open", "close", "start", "done"}
<1>. USE DEF nodeVars, lockVars, diskVars
<1>t. pc \in [User -> Idle \union Leaving \union Working]
  BY DEF TypeOK
<1>1. CASE FreeNode(u)
  <2>1. conn[u]
    BY <1>1 DEF Connected, FreeNode, Working
  <2>. QED  BY <1>1, <1>t, <2>1 DEF FreeNode, Unlock, Goto
<1>. QED  BY <1>1, <1>t DEF Close, Begin, Goto

\* A process that ends, dies or is interrupted works no more.
LEMMA Stops ==
    ASSUME TypeOK, NEW u \in User, Close(u) \/ Buried(u) \/ Kill(u) \/ Signal(u)
    PROVE  pc'[u] \notin Working
  BY DEF TypeOK, Close, Buried, Kill, Signal, Goto, Working

LEMMA StillThereOwn ==
    ASSUME IndInv, NEW u \in User, Steady(u), Moves(u), ~Drop(u)
    PROVE  StillThere(u)'
<1>t. TypeOK /\ Here(u) \in File /\ Connected(u)
  BY PlaceOK DEF IndInv, Steady
<1>1. CASE FreeNode(u) \/ Close(u) \/ Begin(u)
  <2>1. pc'[u] \in {"open", "close", "start", "done"}
    BY <1>1, <1>t, Moved
  <2>. QED  BY <2>1 DEF StillThere, Working
<1>2. CASE Open(u) \/ Reparse(u)
  BY <1>2, <1>t, Reads DEF StillThere
<1>3. CASE Buried(u) \/ Kill(u) \/ Signal(u)
  <2>1. pc'[u] \notin Working
    BY <1>3, <1>t, Stops
  <2>. QED  BY <2>1 DEF StillThere
<1>4. CASE AddRcsFile(u)
  <2>1. pc'[u] = "open"
    BY <1>4, <1>t DEF AddRcsFile, Goto, TypeOK
  <2>. QED  BY <2>1 DEF StillThere
<1>5. CASE ~(FreeNode(u) \/ Close(u) \/ Begin(u) \/ Open(u) \/ Reparse(u) \/ Buried(u)
             \/ Kill(u) \/ Signal(u) \/ AddRcsFile(u))
  <2>1. tree' = tree /\ pos' = pos
    BY <1>5, <1>t, OwnTree
  <2>2. pc'[u] \in Working => pc[u] \in Working
    BY <1>5, <1>t, Flow
  <2>3. pc[u] # "open"
    BY <1>5
    DEF Moves, Step, Begin, ReadLock, Cleanup, UpdateFileproc, LookFileproc,
      CheckFileproc, TryAdvisory, AwaitAdvisory, AddRcsFile, CommitFileproc, TagFileproc,
      AdminFileproc, WriteLock, Create, Rename, WriteUnlock, ReleaseAdvisory
  <2>4. disk[Here(u)].exists => disk'[Here(u)].exists
    BY <1>t, ThereStays DEF Steady
  <2>5. Here(u)' = Here(u)
    BY <2>1 DEF Here
  <2>. QED  BY <2>1, <2>2, <2>3, <2>4, <2>5 DEF Steady, StillThere
<1>. QED  BY <1>1, <1>2, <1>3, <1>4, <1>5

LEMMA OneReadOwn ==
    ASSUME IndInv, NEW u \in User, Steady(u), Moves(u), ~Drop(u)
    PROVE  OneReadLock(u)'
<1>. USE DEF nodeVars, lockVars, diskVars
<1>t. /\ TypeOK /\ Here(u) \in File /\ Connected(u)
      /\ pc \in [User -> Idle \union Leaving \union Working]
      /\ tree \in [User -> Tree]
  BY PlaceOK DEF IndInv, Steady, TypeOK
<1>i. /\ pc[u] = "rlock" => tree[u].exists
      /\ \A f \in File : pc[u] \in Working /\ Holds(u, f, ReadFull) =>
           f = Here(u) /\ pc[u] \notin {"open", "rlock"} /\ tree[u].exists
  BY DEF Steady, OneReadLock
<1>n. ASSUME pc'[u] # "rlock", \A f \in File : ~Holds(u, f, ReadFull)'
      PROVE  OneReadLock(u)'
  BY <1>n DEF OneReadLock
<1>w. ASSUME pc'[u] \notin Working PROVE OneReadLock(u)'
  BY <1>w DEF OneReadLock, Working
<1>o. ASSUME ~ReadLock(u) PROVE \A f : Holds(u, f, ReadFull)' => Holds(u, f, ReadFull)
  BY <1>o, <1>t, NewLock, FlagsDiffer
<1>1. CASE Begin(u)
  <2>1. pc[u] = "start" /\ pc'[u] = "open" /\ ~ReadLock(u)
    BY <1>1, <1>t DEF Begin, Goto, ReadLock
  <2>2. \A f : ~Holds(u, f, ReadFull)
    BY <2>1, <1>t, NoLocks
  <2>. QED  BY <1>n, <1>o, <2>1, <2>2
<1>2. CASE Close(u) \/ Buried(u) \/ Kill(u) \/ Signal(u)
  <2>1. pc'[u] \notin Working
    BY <1>2, <1>t, Stops
  <2>. QED  BY <1>w, <2>1
<1>3. CASE FreeNode(u)
  <2>1. ~ReadLock(u) /\ pc[u] = "free" /\ pc[u] \in Working
    BY <1>3 DEF FreeNode, ReadLock, Working
  <2>2. pc'[u] # "rlock"
    BY <1>3, <1>t, Moved
  <2>3. ASSUME NEW f \in File PROVE ~Holds(u, f, ReadFull)'
    <3>1. CASE tree[u].exists
      <4>1. locks' = {l \in locks : ~(/\ l.owner = u
                                      /\ l.path = Here(u)
                                      /\ l.flags = ReadFull)}
        BY <1>3, <3>1 DEF FreeNode, Unlock
      <4>2. Holds(u, f, ReadFull)' => f # Here(u)
        BY <4>1 DEF Holds
      <4>. QED  BY <4>2, <1>i, <1>o, <2>1
    <3>2. CASE ~tree[u].exists
      BY <3>2, <1>i, <1>o, <2>1
    <3>. QED  BY <3>1, <3>2
  <2>. QED  BY <1>n, <2>2, <2>3
<1>4. CASE Open(u)
  <2>1. /\ pc[u] = "open" /\ pc[u] \in Working /\ ~ReadLock(u)
        /\ pc'[u] = "rlock" => disk[Here(u)].exists
    BY <1>4, <1>t DEF Open, Working, ReadLock, Goto
  <2>2. tree'[u] = disk[Here(u)]
    BY <1>4, <1>t, Reads
  <2>3. \A f \in File : ~Holds(u, f, ReadFull)'
    BY <1>i, <1>o, <2>1
  <2>. QED  BY <2>1, <2>2, <2>3 DEF OneReadLock
<1>5. CASE ReadLock(u)
  <2>1. /\ pc[u] = "rlock" /\ pc[u] \in Working /\ tree' = tree /\ pos' = pos
        /\ LockAndWait(u, ReadFull, "proc")
    BY <1>5 DEF ReadLock, Working
  <2>2. pc'[u] \in {"proc", "rlock", "cleanup"}
    BY <2>1, <1>t, WaitOutcome
  <2>3. tree'[u].exists /\ Here(u)' = Here(u)
    BY <1>i, <2>1 DEF Here
  <2>4. \A f \in File : Holds(u, f, ReadFull)' => f = Here(u) /\ pc'[u] = "proc"
    BY <1>i, <1>t, <2>1, NewLock, FlagsDiffer
  <2>. QED  BY <2>2, <2>3, <2>4 DEF OneReadLock
<1>6. CASE AddRcsFile(u)
  <2>1. /\ pc[u] = "proc" /\ pc[u] \in Working /\ ~tree[u].exists /\ pc'[u] = "open"
        /\ ~ReadLock(u)
    BY <1>6, <1>t DEF AddRcsFile, Working, Goto, ReadLock
  <2>. QED  BY <1>i, <1>n, <1>o, <2>1
<1>7. CASE Reparse(u)
  <2>1. /\ pc[u] = "reparse" /\ pc[u] \in Working /\ pc[u] \in Writing /\ ~ReadLock(u)
        /\ pc'[u] \in {"wlock", "release", "free"}
    BY <1>7, <1>t DEF Reparse, Working, Writing, Goto, ReadLock
  <2>2. tree'[u] = disk[Here(u)] /\ Here(u)' = Here(u)
    BY <1>7, <1>t, Reads
  <2>3. disk[Here(u)].exists
    BY <2>1 DEF Steady, Rewrites, StillThere
  <2>. QED  BY <1>i, <1>o, <2>1, <2>2, <2>3 DEF OneReadLock
<1>8. CASE ~(Begin(u) \/ Close(u) \/ Buried(u) \/ Kill(u) \/ Signal(u) \/ FreeNode(u)
             \/ Open(u) \/ ReadLock(u) \/ AddRcsFile(u) \/ Reparse(u))
  <2>1. tree' = tree /\ pos' = pos
    BY <1>8, <1>t, OwnTree
  <2>2. pc'[u] \in Working => pc[u] \in Working
    BY <1>8, <1>t, Flow
  <2>3. pc'[u] \notin {"open", "rlock"}
    <3>1. CASE AwaitAdvisory(u) \/ WriteLock(u)
      BY <3>1, <1>t, WaitOutcome DEF AwaitAdvisory, WriteLock
    <3>. QED
      BY <1>8, <3>1, <1>t
      DEF Moves, Step, Cleanup, UpdateFileproc, LookFileproc, CheckFileproc,
          TryAdvisory, CommitFileproc, TagFileproc, AdminFileproc, StartRewrite,
          NothingToDo, Create, Rename, WriteUnlock, ReleaseAdvisory, Unlock, Goto
  <2>4. Here(u)' = Here(u)
    BY <2>1 DEF Here
  <2>. QED  BY <1>8, <1>i, <1>o, <2>1, <2>2, <2>3, <2>4 DEF OneReadLock
<1>. QED  BY <1>1, <1>2, <1>3, <1>4, <1>5, <1>6, <1>7, <1>8

LEMMA AdvisoryCommitOwn ==
    ASSUME IndInv, NEW u \in User, Steady(u), Moves(u), ~Drop(u)
    PROVE  AdvisoryOfCommit(u)'
<1>t. /\ TypeOK /\ Connected(u)
      /\ pc \in [User -> Idle \union Leaving \union Working]
      /\ pos \in [User -> [cmd : Nat, pass : Nat, file : Nat]]
  BY DEF IndInv, Steady, TypeOK
<1>1. CASE Begin(u)
  <2>1. pc[u] = "start" /\ ~TryAdvisory(u) /\ ~AwaitAdvisory(u)
    BY <1>1 DEF Begin, TryAdvisory, AwaitAdvisory
  <2>2. \A f : ~Holds(u, f, WriteAdvisory)'
    BY <2>1, <1>t, NoLocks, NewLock, FlagsDiffer
  <2>. QED  BY <2>2 DEF AdvisoryOfCommit
<1>2. CASE Close(u) \/ Buried(u)
  <2>1. pc'[u] \notin Working
    BY <1>2, <1>t, Stops
  <2>. QED  BY <2>1 DEF AdvisoryOfCommit
<1>3. CASE ~Begin(u) /\ ~Close(u) /\ ~Buried(u)
  <2>1. pc'[u] \in Working => pc[u] \in Working
    BY <1>3, <1>t, Flow
  <2>2. pos'[u].cmd = pos[u].cmd
    <3>1. CASE FreeNode(u)
      BY <3>1, <1>t, NextPlaceOK DEF FreeNode
    <3>2. CASE pos' = pos
      BY <3>2
    <3>. QED  BY <1>3, <1>t, <3>1, <3>2, OwnTree, Reads
  <2>3. \A f \in File : Holds(u, f, WriteAdvisory)' =>
          Holds(u, f, WriteAdvisory) \/ pc[u] \in {"advisory", "advwait"}
    BY <1>t, NewLock, FlagsDiffer DEF TryAdvisory, AwaitAdvisory
  <2>4. pc[u] \in {"advisory", "advwait"} => Script[u][pos[u].cmd] = "commit"
    BY <1>t, CommitKinds DEF Steady, Checked
  <2>. QED  BY <2>1, <2>2, <2>3, <2>4 DEF Steady, AdvisoryOfCommit
<1>. QED  BY <1>1, <1>2, <1>3

LEMMA CheckedOwn ==
    ASSUME IndInv, NEW u \in User, Steady(u), Moves(u), ~Drop(u)
    PROVE  Checked(u)'
<1>. USE DEF nodeVars, lockVars, diskVars
<1>t. TypeOK /\ pc \in [User -> Idle \union Leaving \union Working]
  BY DEF IndInv, TypeOK
<1>k. ASSUME UNCHANGED <<pos, sandbox, tree>>, Kind(u) = "check", Base(u) = tree[u].revs
      PROVE  Checked(u)'
  BY <1>k DEF Checked, Kind, Base, Here
<1>n. ASSUME pc'[u] \notin {"advisory", "advwait"} PROVE Checked(u)'
  BY <1>n DEF Checked
<1>1. CASE CheckFileproc(u)
  BY <1>1, <1>k, <1>n, <1>t DEF CheckFileproc, Goto
<1>2. CASE TryAdvisory(u) \/ AwaitAdvisory(u)
  BY <1>2, <1>k DEF TryAdvisory, AwaitAdvisory, Steady, Checked
<1>3. CASE ReadLock(u) \/ WriteLock(u)
  BY <1>3, <1>n, <1>t, WaitOutcome DEF ReadLock, WriteLock
<1>4. CASE FreeNode(u) \/ WriteUnlock(u) \/ ReleaseAdvisory(u) \/ Close(u)
  BY <1>4, <1>n, <1>t DEF FreeNode, WriteUnlock, ReleaseAdvisory, Unlock, Close, Goto
<1>5. CASE Buried(u)
  BY <1>5, <1>n DEF Buried
<1>. QED
  BY <1>1, <1>2, <1>3, <1>4, <1>5, <1>n, <1>t
  DEF Moves, Step, Begin, Open, Cleanup, UpdateFileproc, LookFileproc, AddRcsFile,
      CommitFileproc, TagFileproc, AdminFileproc, StartRewrite, NothingToDo, Create,
      Rename, Reparse, Kill, Signal, Goto

LEMMA TreeOwn ==
    ASSUME IndInv, NEW u \in User, Steady(u), Moves(u), ~Drop(u)
    PROVE  TreeCurrent(u)'
<1>. USE DEF nodeVars, lockVars, diskVars
<1>t. /\ TypeOK /\ Here(u) \in File /\ Connected(u)
      /\ pc \in [User -> Idle \union Leaving \union Working]
      /\ tree \in [User -> Tree] /\ disk \in [File -> Tree]
  BY PlaceOK DEF IndInv, Steady, TypeOK
<1>i. /\ Kind(u) = "commit" /\ pc[u] \in {"rlock", "proc", "wlock", "create", "rename"} =>
           tree[u] = disk[Here(u)]
      /\ pc[u] \in {"wlock", "create", "rename"} \/ (pc[u] = "proc" /\ tree[u].exists) =>
           tree[u] = disk[Here(u)] \/ <<u, Here(u)>> \in raced
  BY DEF Steady, TreeCurrent
<1>n. ASSUME pc'[u] \notin {"rlock", "proc", "wlock", "create", "rename"}
      PROVE  TreeCurrent(u)'
  BY <1>n DEF TreeCurrent
<1>k. ASSUME UNCHANGED <<disk, tree, pos, raced>>,
             pc[u] \in {"wlock", "create", "rename"} \/ (pc[u] = "proc" /\ tree[u].exists),
             pc'[u] \in {"wlock", "create", "rename", "unlock", "cleanup"}
      PROVE  TreeCurrent(u)'
  <2>1. Here(u)' = Here(u) /\ Kind(u)' = Kind(u) /\ tree'[u] = tree[u]
        /\ disk'[Here(u)] = disk[Here(u)]
    BY <1>k DEF Here, Kind
  <2>. QED  BY <1>i, <1>k, <2>1 DEF TreeCurrent
<1>1. CASE Open(u) \/ Reparse(u)
  <2>1. tree'[u] = disk'[Here(u)] /\ Here(u)' = Here(u)
    BY <1>1, <1>t, Reads
  <2>. QED  BY <2>1 DEF TreeCurrent
<1>2. CASE ReadLock(u)
  <2>1. /\ UNCHANGED <<disk, tree, pos>> /\ pc[u] = "rlock"
        /\ LockAndWait(u, ReadFull, "proc") /\ NoteRace(u)
    BY <1>2 DEF ReadLock
  <2>2. pc'[u] \in {"proc", "rlock", "cleanup"}
    BY <1>t, <2>1, WaitOutcome
  <2>3. /\ Here(u)' = Here(u) /\ Kind(u)' = Kind(u) /\ tree'[u] = tree[u]
        /\ disk'[Here(u)] = disk[Here(u)]
    BY <2>1 DEF Here, Kind
  <2>4. ASSUME pc'[u] = "proc" PROVE tree[u] = disk[Here(u)] \/ <<u, Here(u)>> \in raced'
    <3>1. Holds(u, Here(u), ReadFull)' /\ ~Holds(u, Here(u), ReadFull)
      <4>1. \A f : f = Here(u) => Holds(u, f, ReadFull)'
        BY <2>1, <2>4, <1>t, WaitOutcome
      <4>2. ~Holds(u, Here(u), ReadFull)
        BY <2>1, <1>t DEF Steady, OneReadLock, Working
      <4>. QED  BY <2>3, <4>1, <4>2 DEF Holds
    <3>2. locks' # locks
      BY <3>1, <2>3 DEF Holds
    <3>. QED  BY <3>2, <2>1 DEF NoteRace
  <2>. QED  BY <1>i, <2>1, <2>2, <2>3, <2>4 DEF TreeCurrent
<1>3. CASE pc[u] = "proc" /\ StartRewrite(u)
  BY <1>3, <1>k, <1>t DEF StartRewrite, Goto
<1>4. CASE WriteLock(u)
  <2>1. pc'[u] \in {"create", "wlock", "cleanup"}
    BY <1>4, <1>t, WaitOutcome DEF WriteLock
  <2>. QED  BY <1>4, <1>k, <2>1 DEF WriteLock
<1>5. CASE Create(u)
  BY <1>5, <1>k, <1>t DEF Create, Goto
<1>6. CASE AwaitAdvisory(u)
  BY <1>6, <1>n, <1>t, WaitOutcome DEF AwaitAdvisory
<1>7. CASE FreeNode(u) \/ WriteUnlock(u) \/ ReleaseAdvisory(u) \/ Close(u) \/ Rename(u)
  BY <1>7, <1>n, <1>t DEF FreeNode, WriteUnlock, ReleaseAdvisory, Unlock, Close, Rename, Goto
<1>8. CASE Buried(u)
  BY <1>8, <1>n DEF Buried
<1>. QED
  BY <1>1, <1>2, <1>3, <1>4, <1>5, <1>6, <1>7, <1>8, <1>n, <1>t
  DEF Moves, Step, Begin, Cleanup, UpdateFileproc, LookFileproc, CheckFileproc,
      TryAdvisory, AddRcsFile, CommitFileproc, TagFileproc, AdminFileproc, NothingToDo,
      Kill, Signal, Goto

LEMMA FreshOwn ==
    ASSUME IndInv, NEW u \in User, Steady(u), Moves(u), ~Drop(u)
    PROVE  AdvisoryFresh(u)'
<1>. USE DEF nodeVars, lockVars, diskVars
<1>t. /\ TypeOK /\ Here(u) \in File /\ Connected(u)
      /\ pc \in [User -> Idle \union Leaving \union Working]
      /\ sandbox \in [User -> [File -> Seq(User \union {Original})]]
      /\ writes \in [User -> Nat] /\ disk \in [File -> Tree]
  BY PlaceOK DEF IndInv, Steady, TypeOK
<1>n. ASSUME pc'[u] \notin Working PROVE AdvisoryFresh(u)'
  BY <1>n DEF AdvisoryFresh
<1>. SUFFICES ASSUME pc'[u] \in Working, NEW f \in File, Holds(u, f, WriteAdvisory)'
              PROVE  \/ sandbox'[u][f] = disk'[f].revs
                     \/ <<u, f>> \in raced'
                     \/ CheckedIn(u, f)'
  BY DEF AdvisoryFresh
<1>e. ~Close(u) /\ ~Buried(u) /\ ~Kill(u) /\ ~Signal(u)
  BY <1>t, Stops
<1>b. ~Begin(u)
  <2>. SUFFICES ASSUME Begin(u) PROVE FALSE
    OBVIOUS
  <2>1. pc[u] = "start" /\ ~TryAdvisory(u) /\ ~AwaitAdvisory(u)
    BY DEF Begin, TryAdvisory, AwaitAdvisory
  <2>. QED  BY <2>1, <1>t, NoLocks, NewLock, FlagsDiffer
<1>w. pc[u] \in Working
  BY <1>t, <1>e, <1>b, Flow
<1>i. ASSUME Holds(u, f, WriteAdvisory)
      PROVE  /\ \/ sandbox[u][f] = disk[f].revs
                \/ <<u, f>> \in raced
                \/ CheckedIn(u, f)
             /\ Kind(u) \in {"check", "commit"}
  BY <1>i, <1>w, <1>t, CommitKinds DEF Steady, AdvisoryFresh, AdvisoryOfCommit
<1>h. ASSUME ~TryAdvisory(u), ~AwaitAdvisory(u) PROVE Holds(u, f, WriteAdvisory)
  BY <1>h, <1>t, NewLock, FlagsDiffer
<1>k. ASSUME Holds(u, f, WriteAdvisory), sandbox'[u][f] = sandbox[u][f],
             disk'[f].revs = disk[f].revs, raced \subseteq raced',
             CheckedIn(u, f) => CheckedIn(u, f)'
      PROVE  \/ sandbox'[u][f] = disk'[f].revs
             \/ <<u, f>> \in raced'
             \/ CheckedIn(u, f)'
  BY <1>k, <1>i
<1>1. CASE TryAdvisory(u) \/ AwaitAdvisory(u)
  <2>1. /\ UNCHANGED <<disk, tree, pos, sandbox>> /\ NoteRace(u)
        /\ pc[u] \in {"advisory", "advwait"}
    BY <1>1 DEF TryAdvisory, AwaitAdvisory
  <2>2. CASE Holds(u, f, WriteAdvisory)
    <3>1. raced \subseteq raced' /\ ~CheckedIn(u, f)
      BY <2>1 DEF NoteRace, CheckedIn
    <3>. QED  BY <1>k, <2>1, <2>2, <3>1
  <2>3. CASE ~Holds(u, f, WriteAdvisory)
    <3>1. f = Here(u) /\ locks' # locks
      BY <2>3, <1>t, NewLock, FlagsDiffer
    <3>2. Base(u) = tree[u].revs
      BY <2>1 DEF Steady, Checked
    <3>3. tree[u] = disk[f] \/ <<u, f>> \in raced'
      BY <2>1, <3>1 DEF NoteRace
    <3>. QED  BY <2>1, <3>1, <3>2, <3>3 DEF Base
  <2>. QED  BY <2>2, <2>3
<1>2. CASE UpdateFileproc(u)
  <2>1. Kind(u) = "update" /\ ~TryAdvisory(u) /\ ~AwaitAdvisory(u)
    BY <1>2 DEF UpdateFileproc, TryAdvisory, AwaitAdvisory
  <2>. QED  BY <2>1, <1>h, <1>i
<1>3. CASE ReleaseAdvisory(u)
  <2>1. /\ pc[u] = "release" /\ ~TryAdvisory(u) /\ ~AwaitAdvisory(u)
        /\ UNCHANGED <<disk, raced>>
        /\ sandbox' = [sandbox EXCEPT ![u][Here(u)] = tree[u].revs]
        /\ locks' = {l \in locks : ~(/\ l.owner = u
                                     /\ l.path = Here(u)
                                     /\ l.flags = WriteAdvisory)}
    BY <1>3 DEF ReleaseAdvisory, Unlock, TryAdvisory, AwaitAdvisory
  <2>2. f # Here(u)
    BY <2>1 DEF Holds
  <2>3. sandbox'[u][f] = sandbox[u][f] /\ ~CheckedIn(u, f)
    BY <2>1, <2>2, <1>t DEF CheckedIn
  <2>. QED  BY <1>h, <1>k, <2>1, <2>3
<1>4. CASE Open(u) \/ Reparse(u)
  <2>1. /\ UNCHANGED <<disk, pos, locks, sandbox, raced>>
        /\ Here(u)' = Here(u) /\ Kind(u)' = Kind(u)
    BY <1>4, <1>t, Reads
  <2>2. ~TryAdvisory(u) /\ ~AwaitAdvisory(u)
    BY <1>4 DEF Open, Reparse, TryAdvisory, AwaitAdvisory
  <2>3. CheckedIn(u, f) => CheckedIn(u, f)'
    <3>1. CASE Open(u)
      BY <3>1 DEF Open, CheckedIn
    <3>2. CASE Reparse(u)
      <4>1. writes'[u] > 0 /\ (Kind(u) = "commit" => pc'[u] \in {"wlock", "release"})
        BY <3>2, <1>t DEF Reparse, Goto
      <4>. QED  BY <2>1, <4>1 DEF CheckedIn
    <3>. QED  BY <1>4, <3>1, <3>2
  <2>. QED  BY <1>h, <1>k, <2>1, <2>2, <2>3
<1>5. CASE FreeNode(u)
  <2>1. /\ pc[u] = "free" /\ UNCHANGED <<disk, sandbox, raced>>
        /\ ~TryAdvisory(u) /\ ~AwaitAdvisory(u)
    BY <1>5 DEF FreeNode, TryAdvisory, AwaitAdvisory
  <2>2. ~CheckedIn(u, f)
    BY <2>1 DEF CheckedIn
  <2>. QED  BY <1>h, <1>k, <2>1, <2>2
<1>6. CASE Rename(u)
  <2>1. /\ pc[u] = "rename" /\ UNCHANGED <<sandbox, raced, pos>>
        /\ ~TryAdvisory(u) /\ ~AwaitAdvisory(u)
        /\ pc'[u] = "unlock"
    BY <1>6, <1>t DEF Rename, TryAdvisory, AwaitAdvisory, Goto, Working
  <2>2. Here(u)' = Here(u) /\ Kind(u)' = Kind(u)
    BY <2>1 DEF Here, Kind
  <2>3. CASE f = Here(u)
    <3>1. Kind(u) = "commit"
      BY <1>h, <1>i, <2>1 DEF Steady, Rewrites, Writing
    <3>. QED  BY <2>1, <2>2, <2>3, <3>1 DEF CheckedIn
  <2>4. CASE f # Here(u)
    <3>1. disk'[f] = disk[f] /\ ~CheckedIn(u, f)
      BY <2>4, <1>t, DiskStep DEF CheckedIn
    <3>. QED  BY <1>h, <1>k, <2>1, <3>1
  <2>. QED  BY <2>3, <2>4
<1>7. CASE AddRcsFile(u)
  <2>1. /\ pc[u] = "proc" /\ UNCHANGED <<sandbox, raced>>
        /\ ~TryAdvisory(u) /\ ~AwaitAdvisory(u)
    BY <1>7 DEF AddRcsFile, TryAdvisory, AwaitAdvisory
  <2>2. ~CheckedIn(u, f)
    BY <2>1 DEF CheckedIn
  <2>3. disk'[f].revs = disk[f].revs
    <3>1. CASE disk'[f] = disk[f]
      BY <3>1
    <3>2. CASE disk'[f] = [disk[f] EXCEPT !.exists = TRUE]
      BY <3>2, <1>t DEF Tree
    <3>3. ~Rename(u)
      BY <1>7 DEF AddRcsFile, Rename
    <3>. QED  BY <3>1, <3>2, <3>3, <1>t, DiskContent DEF Steady
  <2>. QED  BY <1>h, <1>k, <2>1, <2>2, <2>3
<1>8. CASE ~(TryAdvisory(u) \/ AwaitAdvisory(u) \/ UpdateFileproc(u) \/ ReleaseAdvisory(u)
             \/ Open(u) \/ Reparse(u) \/ FreeNode(u) \/ Rename(u) \/ AddRcsFile(u))
  <2>1. /\ writes' = writes /\ pos' = pos /\ disk' = disk /\ sandbox' = sandbox
        /\ raced \subseteq raced'
    BY <1>8, <1>e, <1>b, <1>t, OwnTree
  <2>2. CheckedIn(u, f) => CheckedIn(u, f)'
    <3>1. pc[u] \in {"wlock", "create", "unlock"} =>
            \/ pc'[u] \in {"wlock", "create", "rename"} /\ pc[u] # "unlock"
            \/ pc'[u] = "reparse"
      <4>1. CASE WriteLock(u)
        <5>1. pc'[u] \in {"create", "wlock", "cleanup"} /\ pc[u] = "wlock"
          BY <4>1, <1>t, WaitOutcome DEF WriteLock
        <5>. QED  BY <5>1 DEF Working
      <4>2. CASE Create(u) \/ WriteUnlock(u)
        BY <4>2, <1>t DEF Create, WriteUnlock, Unlock, Goto, Working
      <4>. QED
        BY <4>1, <4>2, <1>8, <1>e, <1>b
        DEF Moves, Step, ReadLock, Cleanup, LookFileproc, CheckFileproc,
            CommitFileproc, TagFileproc, AdminFileproc
    <3>2. pc[u] \notin {"rename", "reparse", "release"}
      BY <1>8, <1>e, <1>b
      DEF Moves, Step, ReadLock, Cleanup, LookFileproc, CheckFileproc, WriteLock, Create,
          WriteUnlock, CommitFileproc, TagFileproc, AdminFileproc
    <3>3. Here(u)' = Here(u) /\ Kind(u)' = Kind(u)
      BY <2>1 DEF Here, Kind
    <3>. QED  BY <2>1, <3>1, <3>2, <3>3 DEF CheckedIn
  <2>. QED  BY <1>8, <1>h, <1>k, <2>1, <2>2
<1>. QED  BY <1>1, <1>2, <1>3, <1>4, <1>5, <1>6, <1>7, <1>8

-----------------------------------------------------------------------------
(* The theorems about the contents of the files *)

\* A sequence is a prefix of itself, and of itself with one more element.
LEMMA PrefixGrows ==
    ASSUME NEW S, NEW s \in Seq(S), NEW e \in S
    PROVE  IsPrefix(s, s) /\ IsPrefix(s, Append(s, e))
<1>1. Len(s) \in Nat /\ Append(s, e) \in Seq(S) /\ Len(Append(s, e)) = Len(s) + 1
  OBVIOUS
<1>2. SubSeq(Append(s, e), 1, Len(s)) = SubSeq(s, 1, Len(s))
  <2>1. \A i \in 1 .. Len(s) : Append(s, e)[i] = s[i]
    OBVIOUS
  <2>. QED  BY <1>1, <2>1
<1>. QED  BY <1>1, <1>2 DEF IsPrefix

LEMMA InitUndropped == Init => Undropped
<1>. SUFFICES ASSUME Init, NEW u \in User PROVE Steady(u)
  BY DEF Undropped
<1>1. pc[u] = "start" /\ ~conn[u] /\ locks = {}
  BY DEF Init
<1>2. Connected(u) /\ Rewrites(u) /\ StillThere(u) /\ OneReadLock(u)
  BY <1>1 DEF Connected, Rewrites, StillThere, OneReadLock, Holds, Working, Leaving, Writing
<1>3. AdvisoryOfCommit(u) /\ Checked(u) /\ TreeCurrent(u) /\ AdvisoryFresh(u)
  BY <1>1 DEF AdvisoryOfCommit, Checked, TreeCurrent, AdvisoryFresh, Holds, Working
<1>. QED  BY <1>2, <1>3 DEF Steady

LEMMA UndroppedStep ==
    ASSUME IndInv, Undropped, [Next]_vars
    PROVE  Undropped'
<1>1. ASSUME NEW u \in User, Moves(u), faults'.drop = 0, NEW v \in User
      PROVE  Steady(v)'
  <2>1. ~Drop(u) /\ \A w \in User : Steady(w)
    BY <1>1, NoDrop DEF IndInv, Undropped
  <2>2. CASE v = u
    <3>1. Connected(u)' /\ Rewrites(u)' /\ StillThere(u)' /\ OneReadLock(u)'
      BY <1>1, <2>1, ConnectedOwn, RewritesOwn, StillThereOwn, OneReadOwn DEF IndInv, Steady
    <3>2. AdvisoryOfCommit(u)' /\ Checked(u)' /\ TreeCurrent(u)' /\ AdvisoryFresh(u)'
      BY <1>1, <2>1, AdvisoryCommitOwn, CheckedOwn, TreeOwn, FreshOwn
    <3>. QED  BY <2>2, <3>1, <3>2 DEF Steady
  <2>3. CASE v # u
    BY <1>1, <2>1, <2>3, OtherSteady
  <2>. QED  BY <2>2, <2>3
<1>2. CASE UNCHANGED vars
  <2>. SUFFICES ASSUME faults'.drop = 0, NEW v \in User PROVE Steady(v)'
    BY DEF Undropped
  <2>1. Steady(v)
    BY <1>2 DEF Undropped, vars
  <2>. QED
    BY <1>2, <2>1
    DEF vars, Steady, Connected, Rewrites, StillThere, OneReadLock, AdvisoryOfCommit,
        Checked, TreeCurrent, AdvisoryFresh, CheckedIn, Holds, Here, Kind, Base
<1>3. CASE \E u \in User : Moves(u)
  BY <1>1, <1>3 DEF Undropped
<1>. QED  BY <1>2, <1>3 DEF Next, Moves, Finished

\* While no connection to the lock service is lost, what a process has parsed
\* and checked under its locks is still so when it writes (rcsbuf_open,
\* check_fileproc, RCS_rewrite), unless it was overtaken before its lock.
THEOREM SteadyWhileConnected == Spec => []Undropped
  BY InitUndropped, UndroppedStep, Invariance, PTL DEF Spec

\* What the next rename of a process puts on the disk.
LEMMA RenameKeeps ==
    ASSUME IndInv, NEW u \in User, Steady(u), Rename(u), NEW f \in File, f = Here(u),
           disk'[f] = Rewritten(u)
    PROVE  \/ /\ IsPrefix(disk[f].revs, disk'[f].revs)
              /\ disk[f].marks \subseteq disk'[f].marks
           \/ Kind(u) \in {"tag", "admin"} /\ <<u, f>> \in raced
<1>1. /\ Kind(u) \in {"tag", "admin", "commit"}
      /\ Kind(u) = "commit" => tree[u] = disk[f]
      /\ tree[u] = disk[f] \/ <<u, f>> \in raced
  BY DEF Steady, Rewrites, TreeCurrent, Writing, Rename
<1>2. CASE tree[u] = disk[f]
  <2>1. /\ Rewritten(u).revs \in {disk[f].revs, Append(disk[f].revs, u)}
        /\ disk[f].marks \subseteq Rewritten(u).marks
    BY <1>2, RewrittenKeeps DEF IndInv
  <2>2. disk[f].revs \in Seq(User \union {Original}) /\ u \in User \union {Original}
    BY DEF IndInv, TypeOK, Tree
  <2>. QED  BY <2>1, <2>2, PrefixGrows
<1>. QED  BY <1>1, <1>2

\* While the connections hold, a revision or a tag is lost only by a tag or
\* admin command that was overtaken between its fopen and its read lock
\* (rcsbuf_open), whatever the users, scripts, files, kills and signals: a
\* commit never loses one.
THEOREM LostByRaceOnly == Spec => LostOnlyIfRaced
<1>1. ASSUME IndInv, Undropped, [Next]_vars, NEW f \in File
      PROVE  \/ /\ IsPrefix(disk[f].revs, disk'[f].revs)
                /\ disk[f].marks \subseteq disk'[f].marks
             \/ faults.drop > 0
             \/ \E u \in User : /\ Acts(u) /\ Here(u) = f /\ Kind(u) \in {"tag", "admin"}
                                /\ <<u, f>> \in raced
  <2>t. /\ TypeOK /\ disk[f] \in Tree /\ faults.drop \in Nat
        /\ disk[f].revs \in Seq(User \union {Original})
        /\ Original \in User \union {Original}
    BY <1>1 DEF IndInv, TypeOK, Tree
  <2>1. CASE disk'[f].revs = disk[f].revs /\ disk'[f].marks = disk[f].marks
    BY <2>1, <2>t, PrefixGrows
  <2>2. CASE disk'[f] # disk[f] /\ faults.drop = 0
    <3>1. PICK u \in User : Moves(u)
      BY <1>1, <2>2 DEF Next, Moves, Finished, vars
    <3>2. Steady(u) /\ Rewrites(u)
      BY <1>1, <2>2 DEF Undropped, Steady
    <3>3. Acts(u) /\ f = Here(u)
      BY <2>2, <2>t, <3>1, DiskStep
    <3>4. CASE Rename(u) /\ disk'[f] = Rewritten(u)
      BY <1>1, <3>2, <3>3, <3>4, RenameKeeps
    <3>5. CASE disk'[f] = [disk[f] EXCEPT !.exists = TRUE]
      BY <3>5, <2>t, <2>1 DEF Tree
    <3>. QED  BY <2>2, <2>t, <3>1, <3>2, <3>4, <3>5, DiskContent
  <2>3. CASE disk'[f] = disk[f]
    BY <2>1, <2>3
  <2>4. CASE faults.drop # 0
    BY <2>4, <2>t
  <2>. QED  BY <2>2, <2>3, <2>4
<1>2. IndInv /\ Undropped /\ [Next]_vars =>
        [\A f \in File :
           \/ /\ IsPrefix(disk[f].revs, disk'[f].revs)
              /\ disk[f].marks \subseteq disk'[f].marks
           \/ faults.drop > 0
           \/ \E u \in User : /\ Acts(u) /\ Here(u) = f /\ Kind(u) \in {"tag", "admin"}
                              /\ <<u, f>> \in raced]_vars
  BY <1>1
<1>. QED  BY <1>2, Invariance, SteadyWhileConnected, PTL DEF Spec, LostOnlyIfRaced

\* While the connections hold, a revision is checked in on top of the one its
\* author has worked from, unless the file had changed before the check was
\* granted its lock (check_fileproc, RCS_checkin).
THEOREM CheckedInOnTop == Spec => UpToDateUnlessRaced
<1>1. ASSUME IndInv, Undropped, [Next]_vars, NEW u \in User, Checkin(u)
      PROVE  \/ Base(u) = disk[Here(u)].revs
             \/ <<u, Here(u)>> \in raced
             \/ faults.drop > 0
  <2>1. TypeOK /\ faults.drop \in Nat /\ Here(u) \in File
    BY <1>1, PlaceOK DEF IndInv, TypeOK
  <2>2. ASSUME faults.drop = 0
        PROVE  Base(u) = disk[Here(u)].revs \/ <<u, Here(u)>> \in raced
    <3>1. Steady(u) /\ Connected(u)
      BY <1>1, <2>2 DEF Undropped, Steady
    <3>2. /\ Kind(u) = "commit" /\ pc[u] = "rename" /\ pc[u] \in Working
          /\ ~CheckedIn(u, Here(u))
      BY <1>1 DEF Checkin, CheckedIn, Working
    <3>3. Holds(u, Here(u), WriteAdvisory)
      BY <1>1, <3>1, <3>2, WorksLocked
    <3>. QED  BY <2>1, <3>1, <3>2, <3>3 DEF Steady, AdvisoryFresh, Base
  <2>. QED  BY <2>1, <2>2
<1>2. IndInv /\ Undropped /\ [Next]_vars =>
        [\A u \in User : Checkin(u) =>
           \/ Base(u) = disk[Here(u)].revs
           \/ <<u, Here(u)>> \in raced
           \/ faults.drop > 0]_vars
  BY <1>1
<1>. QED  BY <1>2, Invariance, SteadyWhileConnected, PTL DEF Spec, UpToDateUnlessRaced

-----------------------------------------------------------------------------
(* The commands implement a log of revisions *)

LEMMA InitRegistered == Init => AllRegistered
<1>. SUFFICES ASSUME Init, NEW u \in User PROVE Registered(u)
  BY DEF AllRegistered
<1>1. pc[u] = "start"
  BY DEF Init
<1>2. ASSUME NEW f \in File, ~disk[f].exists PROVE sandbox[u][f] = << >>
  <2>1. f \notin Stored
    BY <1>2 DEF Init
  <2>2. disk[f].revs = << >>
    BY <2>1 DEF Init
  <2>. QED  BY <2>2 DEF Init
<1>. QED  BY <1>1, <1>2 DEF Registered

\* What is registered of the others' files stays so.
LEMMA OtherRegistered ==
    ASSUME IndInv, NEW u \in User, Steady(u), Moves(u),
           NEW v \in User, v # u, Steady(v), Registered(v)
    PROVE  Registered(v)'
<1>t. TypeOK /\ Here(v) \in File /\ Rewrites(u)
  BY PlaceOK DEF IndInv, Steady
<1>k. /\ pc'[v] = pc[v] /\ pos'[v] = pos[v] /\ tree'[v] = tree[v]
      /\ sandbox'[v] = sandbox[v]
  BY <1>t, OthersKeep, OthersHistory
<1>h. Here(v)' = Here(v) /\ Base(v)' = Base(v)
  BY <1>k DEF Here, Base
<1>1. ASSUME pc[v] = "release" PROVE disk'[Here(v)] = disk[Here(v)]
  <2>1. Kind(v) = "commit" /\ pc[v] \in Working /\ pc[v] # "free"
    BY <1>1 DEF Steady, Rewrites, Working
  <2>2. Holds(v, Here(v), WriteAdvisory)
    BY <2>1, WorksLocked DEF Steady
  <2>. QED  BY <1>t, <2>2, LockedStays
<1>2. \A f \in File : disk[f].exists => disk'[f].exists
  BY <1>t, ThereStays
<1>. QED  BY <1>k, <1>h, <1>1, <1>2 DEF Registered, Added

\* What a step of the process itself does to it.
LEMMA OwnRegistered ==
    ASSUME IndInv, NEW u \in User, Steady(u), Registered(u), Moves(u), ~Drop(u)
    PROVE  Registered(u)'
<1>. USE DEF nodeVars, lockVars, diskVars
<1>t. /\ TypeOK /\ Here(u) \in File /\ Connected(u) /\ Rewrites(u)
      /\ pc \in [User -> Idle \union Leaving \union Working]
      /\ sandbox \in [User -> [File -> Seq(User \union {Original})]]
  BY PlaceOK DEF IndInv, Steady, TypeOK
<1>x. \A f \in File : disk[f].exists => disk'[f].exists
  BY <1>t, ThereStays
<1>s. ASSUME sandbox' = sandbox PROVE \A f \in File : ~disk'[f].exists => sandbox'[u][f] = << >>
  BY <1>s, <1>x DEF Registered
<1>1. CASE FreeNode(u) \/ Close(u) \/ Begin(u)
  <2>1. pc'[u] \in {"open", "close", "start", "done"}
    BY <1>1, <1>t, Moved
  <2>2. sandbox' = sandbox
    BY <1>1 DEF FreeNode, Close, Begin
  <2>. QED  BY <2>1, <2>2, <1>s DEF Registered
<1>2. CASE Open(u)
  <2>1. /\ tree'[u] = disk[Here(u)] /\ sandbox' = sandbox /\ Here(u)' = Here(u)
        /\ pc'[u] \in {"rlock", "proc"}
    BY <1>2, <1>t, Reads DEF Open, Goto
  <2>2. ~tree'[u].exists => sandbox'[u][Here(u)'] = << >>
    BY <2>1, <1>t DEF Registered
  <2>. QED  BY <2>1, <2>2, <1>s DEF Registered, Added, Base
<1>3. CASE Reparse(u)
  <2>1. /\ tree'[u] = disk[Here(u)] /\ sandbox' = sandbox /\ Here(u)' = Here(u) /\ disk' = disk
        /\ pc'[u] \in {"wlock", "release", "free"}
    BY <1>3, <1>t, Reads DEF Reparse, Goto
  <2>2. pc[u] = "reparse" /\ tree[u].exists
    BY <1>3 DEF Reparse, Steady, Rewrites, Writing
  <2>3. disk[Here(u)].exists
    BY <2>2 DEF Steady, StillThere, Working
  <2>. QED  BY <2>1, <2>3, <1>s DEF Registered
<1>4. CASE Buried(u) \/ Kill(u) \/ Signal(u)
  <2>1. pc'[u] \notin Working
    BY <1>4, <1>t, Stops
  <2>2. sandbox' = sandbox
    BY <1>4 DEF Buried, Kill, Signal
  <2>. QED  BY <2>1, <2>2, <1>s DEF Registered, Working
<1>5. CASE UpdateFileproc(u)
  <2>1. pc'[u] = "free" /\ disk' = disk
    BY <1>5, <1>t DEF UpdateFileproc, Goto
  <2>2. CASE Added(u)
    BY <1>5, <2>1, <2>2, <1>s DEF UpdateFileproc, Registered
  <2>3. CASE ~Added(u)
    <3>1. tree[u].exists /\ disk[Here(u)].exists
      BY <1>5, <2>3 DEF UpdateFileproc, Registered, Steady, StillThere, Working
    <3>2. \A f \in File : f # Here(u) => sandbox'[u][f] = sandbox[u][f]
      BY <1>5, <2>3, <1>t DEF UpdateFileproc
    <3>. QED  BY <2>1, <3>1, <3>2 DEF Registered
  <2>. QED  BY <2>2, <2>3
<1>6. CASE ReleaseAdvisory(u)
  <2>1. pc'[u] \in {"free", "cleanup"} /\ disk' = disk
    BY <1>6, <1>t DEF ReleaseAdvisory, Unlock, Goto
  <2>2. disk[Here(u)].exists
    BY <1>6 DEF ReleaseAdvisory, Registered
  <2>3. \A f \in File : f # Here(u) => sandbox'[u][f] = sandbox[u][f]
    BY <1>6, <1>t DEF ReleaseAdvisory
  <2>. QED  BY <2>1, <2>2, <2>3 DEF Registered
<1>7. CASE ReadLock(u)
  <2>1. tree[u].exists /\ pc[u] = "rlock"
    BY <1>7 DEF ReadLock, Steady, OneReadLock
  <2>2. tree' = tree /\ sandbox' = sandbox
    BY <1>7 DEF ReadLock
  <2>3. pc'[u] \in {"proc", "rlock", "cleanup"}
    BY <1>7, <1>t, <2>1 DEF ReadLock, LockAndWait, Goto
  <2>. QED  BY <2>1, <2>2, <2>3, <1>s DEF Registered
<1>8. CASE /\ sandbox' = sandbox
           /\ pc'[u] \notin {"release", "proc"}
  BY <1>8, <1>s DEF Registered
<1>9. CASE AwaitAdvisory(u) \/ WriteLock(u)
  <2>1. sandbox' = sandbox
    BY <1>9 DEF AwaitAdvisory, WriteLock
  <2>2. pc'[u] \in {"free", "create", "cleanup", "advwait", "wlock"}
    BY <1>9, <1>t DEF AwaitAdvisory, WriteLock, LockAndWait, Goto
  <2>. QED  BY <2>1, <2>2, <1>8
<1>10. CASE Cleanup(u) \/ Create(u) \/ Rename(u) \/ WriteUnlock(u) \/ TryAdvisory(u)
  BY <1>10, <1>8, <1>t DEF Cleanup, Create, Rename, WriteUnlock, TryAdvisory, Unlock, Goto
<1>11. CASE StartRewrite(u) \/ NothingToDo(u)
  BY <1>11, <1>8, <1>t DEF StartRewrite, NothingToDo, Goto
<1>12. CASE LookFileproc(u) \/ CheckFileproc(u) \/ AddRcsFile(u)
  BY <1>12, <1>8, <1>t DEF LookFileproc, CheckFileproc, AddRcsFile, Goto
<1>. QED
  BY <1>1, <1>2, <1>3, <1>4, <1>5, <1>6, <1>7, <1>9, <1>10, <1>11, <1>12
  DEF Moves, Step, CommitFileproc, TagFileproc, AdminFileproc

LEMMA RegisteredStep ==
    ASSUME IndInv, Undropped, AllRegistered, [Next]_vars
    PROVE  AllRegistered'
<1>1. ASSUME NEW u \in User, Moves(u), faults'.drop = 0, NEW v \in User
      PROVE  Registered(v)'
  <2>1. ~Drop(u) /\ \A w \in User : Steady(w) /\ Registered(w)
    BY <1>1, NoDrop DEF IndInv, Undropped, AllRegistered
  <2>. QED  BY <1>1, <2>1, OwnRegistered, OtherRegistered
<1>2. CASE UNCHANGED vars
  <2>. SUFFICES ASSUME faults'.drop = 0, NEW v \in User PROVE Registered(v)'
    BY DEF AllRegistered
  <2>1. Registered(v)
    BY <1>2 DEF AllRegistered, vars
  <2>. QED  BY <1>2, <2>1 DEF vars, Registered, Here, Added, Base
<1>3. CASE \E u \in User : Moves(u)
  BY <1>1, <1>3 DEF AllRegistered
<1>. QED  BY <1>2, <1>3 DEF Next, Moves, Finished

\* What the rename of a process does to the log: a check-in on top of what its
\* author has worked from, a mark, or nothing.
LEMMA RenameRefines ==
    ASSUME IndInv, NEW u \in User, Steady(u), <<u, Here(u)>> \notin raced, Rename(u)
    PROVE  \/ Log!CheckIn(u, Here(u))
           \/ \E m \in {"tag", "admin"} : Log!SetMark(Here(u), m)
           \/ disk' = disk /\ sandbox' = sandbox
<1> DEFINE f == Here(u)
<1>t. /\ TypeOK /\ f \in File /\ disk \in [File -> Tree] /\ disk[f] \in Tree
      /\ pc[u] = "rename" /\ sandbox' = sandbox /\ Connected(u)
  BY PlaceOK DEF IndInv, TypeOK, Rename, Steady
<1>1. lockfile[f] = u /\ lockfile[f] # None
  BY <1>t, NobodyAssumption DEF Steady, Rewrites
<1>2. disk' = [disk EXCEPT ![f] = Rewritten(u)]
  BY <1>1 DEF Rename
<1>3. Kind(u) \in {"tag", "admin", "commit"} /\ tree[u] = disk[f]
  BY <1>t DEF Steady, Rewrites, TreeCurrent, Writing
<1> HIDE DEF f
<1>4. CASE Kind(u) \in {"tag", "admin"}
  <2>1. Rewritten(u) = [disk[f] EXCEPT !.marks = @ \union {Kind(u)}]
    BY <1>3, <1>4 DEF Rewritten
  <2>2. Rewritten(u).revs = disk[f].revs /\ Rewritten(u).marks = disk[f].marks \union {Kind(u)}
    BY <2>1, <1>t DEF Tree
  <2>3. [g \in File |-> disk'[g].revs] = [g \in File |-> disk[g].revs]
    BY <1>2, <1>t, <2>2
  <2>4. [g \in File |-> disk'[g].marks] =
          [[g \in File |-> disk[g].marks] EXCEPT ![f] = @ \union {Kind(u)}]
    BY <1>2, <1>t, <2>2
  <2>. QED  BY <1>4, <1>t, <2>3, <2>4 DEF Log!SetMark, f
<1>5. CASE Kind(u) = "commit" /\ writes[u] = 0
  <2>1. Rewritten(u) = [disk[f] EXCEPT !.revs = Append(@, u)]
    BY <1>3, <1>5 DEF Rewritten
  <2>2. Rewritten(u).revs = Append(disk[f].revs, u) /\ Rewritten(u).marks = disk[f].marks
    BY <2>1, <1>t DEF Tree
  <2>3. [g \in File |-> disk'[g].marks] = [g \in File |-> disk[g].marks]
    BY <1>2, <1>t, <2>2
  <2>4. [g \in File |-> disk'[g].revs] =
          [[g \in File |-> disk[g].revs] EXCEPT ![f] = Append(@, u)]
    BY <1>2, <1>t, <2>2
  <2>5. pc[u] \in Working /\ pc[u] # "free" /\ ~CheckedIn(u, f)
    BY <1>t, <1>5 DEF CheckedIn, Working
  <2>6. Holds(u, f, WriteAdvisory)
    BY <1>t, <1>5, <2>5, WorksLocked DEF f
  <2>7. sandbox[u][f] = disk[f].revs
    BY <1>t, <2>5, <2>6 DEF Steady, AdvisoryFresh, f
  <2>8. sandbox[u][f] = [g \in File |-> disk[g].revs][f]
    BY <1>t, <2>7
  <2>. QED  BY <1>t, <2>3, <2>4, <2>8 DEF Log!CheckIn, f
<1>6. CASE Kind(u) = "commit" /\ writes[u] # 0
  <2>1. Rewritten(u) = disk[f]
    BY <1>3, <1>6 DEF Rewritten
  <2>. QED  BY <1>2, <1>t, <2>1
<1>. QED  BY <1>3, <1>4, <1>5, <1>6

\* A process writes only the file it is at, in the repository and in its own
\* working directory.
LEMMA OneFileAtATime ==
    ASSUME IndInv, NEW u \in User, Moves(u)
    PROVE  /\ \A g \in File : g # Here(u) => disk'[g] = disk[g]
           /\ \A v \in User, g \in File :
                <<v, g>> # <<u, Here(u)>> => sandbox'[v][g] = sandbox[v][g]
<1>. USE DEF nodeVars, lockVars, diskVars
<1>t. /\ Here(u) \in File /\ disk \in [File -> Tree]
      /\ sandbox \in [User -> [File -> Seq(User \union {Original})]]
  BY PlaceOK DEF IndInv, TypeOK
<1>1. CASE Rename(u)
  BY <1>1, <1>t DEF Rename
<1>2. CASE AddRcsFile(u)
  BY <1>2, <1>t DEF AddRcsFile
<1>3. CASE UpdateFileproc(u)
  BY <1>3, <1>t DEF UpdateFileproc
<1>4. CASE ReleaseAdvisory(u)
  BY <1>4, <1>t DEF ReleaseAdvisory
<1>5. CASE disk' = disk /\ sandbox' = sandbox
  BY <1>5
<1>. QED
  BY <1>1, <1>2, <1>3, <1>4, <1>5
  DEF Moves, Step, Begin, Open, ReadLock, FreeNode, Close, Cleanup, LookFileproc,
      CheckFileproc, TryAdvisory, AwaitAdvisory, CommitFileproc, TagFileproc, AdminFileproc,
      StartRewrite, NothingToDo, WriteLock, Create, WriteUnlock, Reparse, Kill, Signal,
      Buried, Drop

\* Whatever a process that was overtaken does, the log allows it.
LEMMA StrayStep ==
    ASSUME IndInv, NEW u \in User, <<u, Here(u)>> \in Overtaken, Moves(u)
    PROVE  Log!LogNext
<1>1. PICK f \in File : f = Here(u)
  BY PlaceOK DEF IndInv, TypeOK
<1>2. \A g \in File : g # f => disk'[g] = disk[g]
  BY <1>1, OneFileAtATime
<1>3. \A v \in User, g \in File : <<v, g>> # <<u, f>> => sandbox'[v][g] = sandbox[v][g]
  BY <1>1, OneFileAtATime
<1>4. Log!Astray(u, f)
  BY <1>1, <1>2, <1>3 DEF Log!Astray
<1>. QED  BY <1>4 DEF Log!LogNext

\* Every other step of a process is a step of the log, or none.
LEMMA LogStep ==
    ASSUME IndInv, NEW u \in User, Steady(u), Registered(u),
           <<u, Here(u)>> \notin raced, Moves(u)
    PROVE  [Log!LogNext]_(Log!logVars)
<1>. USE DEF nodeVars, lockVars, diskVars
<1>t. /\ TypeOK /\ Here(u) \in File /\ disk \in [File -> Tree]
      /\ sandbox \in [User -> [File -> Seq(User \union {Original})]]
  BY PlaceOK DEF IndInv, TypeOK
<1>s. ASSUME disk' = disk, sandbox' = sandbox PROVE UNCHANGED Log!logVars
  BY <1>s DEF Log!logVars
<1>h. ASSUME disk' = disk,
             sandbox' = [sandbox EXCEPT ![u][Here(u)] = disk[Here(u)].revs]
      PROVE  Log!GetHead(u, Here(u))
  <2>1. disk[Here(u)].revs = [g \in File |-> disk[g].revs][Here(u)]
    BY <1>t
  <2>. QED  BY <1>h, <2>1 DEF Log!GetHead
<1>1. CASE Rename(u)
  <2>1. CASE Log!CheckIn(u, Here(u))
    <3>1. PICK f \in File : f = Here(u)
      BY <1>t
    <3>2. Log!CheckIn(u, f)
      BY <2>1, <3>1 DEF Log!CheckIn
    <3>. QED  BY <3>2 DEF Log!LogNext
  <2>2. CASE \E m \in {"tag", "admin"} : Log!SetMark(Here(u), m)
    BY <2>2, <1>t DEF Log!LogNext
  <2>3. CASE disk' = disk /\ sandbox' = sandbox
    BY <2>3, <1>s
  <2>. QED  BY <1>1, <2>1, <2>2, <2>3, RenameRefines
<1>2. CASE AddRcsFile(u)
  <2>1. disk' = [disk EXCEPT ![Here(u)] = [disk[Here(u)] EXCEPT !.exists = TRUE]]
    BY <1>2 DEF AddRcsFile
  <2>2. \A g \in File : disk'[g].revs = disk[g].revs /\ disk'[g].marks = disk[g].marks
    BY <2>1, <1>t DEF Tree
  <2>3. sandbox' = sandbox
    BY <1>2 DEF AddRcsFile
  <2>. QED  BY <2>2, <2>3 DEF Log!logVars
<1>3. CASE UpdateFileproc(u)
  <2>1. disk' = disk /\ pc[u] = "proc"
    BY <1>3 DEF UpdateFileproc
  <2>2. CASE Added(u)
    BY <1>3, <2>1, <2>2, <1>s DEF UpdateFileproc
  <2>3. CASE ~Added(u)
    <3>1. tree[u] = disk[Here(u)]
      BY <2>1, <2>3 DEF Registered, Steady, TreeCurrent
    <3>2. Log!GetHead(u, Here(u))
      BY <1>3, <2>1, <2>3, <3>1, <1>h DEF UpdateFileproc
    <3>. QED  BY <3>2, <1>t DEF Log!LogNext
  <2>. QED  BY <2>2, <2>3
<1>4. CASE ReleaseAdvisory(u)
  <2>1. disk' = disk /\ tree[u] = disk[Here(u)]
    BY <1>4 DEF ReleaseAdvisory, Registered
  <2>2. Log!GetHead(u, Here(u))
    BY <1>4, <2>1, <1>h DEF ReleaseAdvisory
  <2>. QED  BY <2>2, <1>t DEF Log!LogNext
<1>5. CASE disk' = disk /\ sandbox' = sandbox
  BY <1>5, <1>s
<1>. QED
  BY <1>1, <1>2, <1>3, <1>4, <1>5
  DEF Moves, Step, Begin, Open, ReadLock, FreeNode, Close, Cleanup, LookFileproc,
      CheckFileproc, TryAdvisory, AwaitAdvisory, CommitFileproc, TagFileproc, AdminFileproc,
      StartRewrite, NothingToDo, WriteLock, Create, WriteUnlock, Reparse, Kill, Signal,
      Buried, Drop

\* The commands implement a log of revisions: check_fileproc in one pass and
\* RCS_checkin in another, with locks that are taken file by file, amount to one
\* step that compares and appends, a tag to one that adds its mark, and an update
\* to one that reads all of it.  A process that was overtaken between its fopen
\* and its lock spoils no more than that file.
THEOREM Refinement == Spec => ImplementsRevisionLog
<1>1. Init => Log!LogInit
  <2>. SUFFICES ASSUME Init PROVE Log!LogInit
    OBVIOUS
  <2>1. [f \in File |-> disk[f].marks] = [f \in File |-> {}]
    BY DEF Init
  <2>2. sandbox = [u \in User |-> [f \in File |-> disk[f].revs]]
    BY DEF Init
  <2>3. Overtaken = {}
    BY DEF Init, Overtaken
  <2>. QED  BY <2>1, <2>2, <2>3 DEF Log!LogInit
<1>2. IndInv /\ Undropped /\ AllRegistered /\ [Next]_vars
        => [Log!LogNext]_(Log!logVars)
  <2>. SUFFICES ASSUME IndInv, Undropped, AllRegistered, [Next]_vars
                PROVE  [Log!LogNext]_(Log!logVars)
    OBVIOUS
  <2>1. CASE UNCHANGED vars
    BY <2>1 DEF vars, Log!logVars
  <2>2. ASSUME NEW u \in User, Moves(u) PROVE [Log!LogNext]_(Log!logVars)
    <3>1. CASE <<u, Here(u)>> \in Overtaken
      BY <2>2, <3>1, StrayStep
    <3>2. CASE <<u, Here(u)>> \notin Overtaken
      <4>1. Here(u) \in File
        BY PlaceOK DEF IndInv, TypeOK
      <4>2. faults.drop = 0 /\ <<u, Here(u)>> \notin raced
        BY <3>2, <4>1 DEF Overtaken
      <4>. QED  BY <2>2, <4>2, LogStep DEF Undropped, AllRegistered
    <3>. QED  BY <3>1, <3>2
  <2>. QED  BY <2>1, <2>2 DEF Next, Moves, Finished
<1>3. Spec => []AllRegistered
  BY InitRegistered, RegisteredStep, Invariance, SteadyWhileConnected, PTL DEF Spec
<1>. QED
  BY <1>1, <1>2, <1>3, Invariance, SteadyWhileConnected, PTL
  DEF Spec, ImplementsRevisionLog, Log!LogSpec
=============================================================================
