--------------------------- MODULE FileAttrProofs ---------------------------
(***************************************************************************)
(* What FileAttr promises, proved for any number of users, lines in a      *)
(* queue and commands cut off: the repository and the working directories  *)
(* agree on who edits, exclusive edits exclude one another, and under the  *)
(* write lock no one's change is written over.  IndInv is kept by each     *)
(* action.  All but the two steps of fileattr_write leave fileattr.xml and *)
(* what others are writing alone: Calm is the shape of such a step, and    *)
(* CalmKeeps the part of the argument they share.                          *)
(***************************************************************************)
EXTENDS FileAttr, SequenceTheorems, TLAPS

\* Only u moves, and the history grows.
Frame(u) ==
    /\ lockserver' = lockserver /\ remote' = remote
    /\ excused \subseteq excused'
    /\ \A v \in User \ {u} :
         /\ pc'[v] = pc[v] /\ job'[v] = job[v] /\ notify'[v] = notify[v]
         /\ copy'[v] = copy[v] /\ line'[v] = line[v]
         /\ modified'[v] = modified[v] /\ refused'[v] = refused[v]
         /\ v \in editing' <=> v \in editing

\* What the repository says of v stays.
Stays(v) == (Listed(v) => Listed(v)') /\ (Unlisted(v) => Unlisted(v)')

Fits(u) == JobFits(u) /\ QueueFits(u) /\ TreeFits(u)

\* A step of u that does not touch fileattr.xml.
Calm(u) == TypeOK' /\ Frame(u) /\ disk' = disk /\ pc'[u] # "writing"

\* What is left to show of such a step.
Settled(u) ==
    /\ LockHolds' /\ LockedIsCurrent'
    /\ Fits(u)' /\ Distinct(copy[u])'
    /\ u \notin excused' => Told(u)'

-----------------------------------------------------------------------------
(* Queues *)

\* Facts about the queues of Note lines that the proofs need.
LEMMA QueueFacts ==
  ASSUME NEW q \in Seq(Note)
  PROVE  /\ Len(q) \in Nat
         /\ q = << >> <=> Len(q) = 0
         /\ \A i \in 1 .. Len(q) : q[i] \in Note /\ q[i].type \in {"E", "U"}
<1>1. Len(q) \in Nat /\ (q = << >> <=> Len(q) = 0)
  BY LenProperties, EmptySeq
<1>2. \A i \in 1 .. Len(q) : q[i] \in Note
  BY ElementOfSeq
<1> QED
  BY <1>1, <1>2 DEF Note

\* The last line after one is appended.
LEMMA AppendFacts ==
  ASSUME NEW q \in Seq(Note), NEW e \in Note
  PROVE  /\ Append(q, e) \in Seq(Note)
         /\ Len(Append(q, e)) = Len(q) + 1
         /\ Append(q, e) # << >>
         /\ Append(q, e)[Len(Append(q, e))] = e
BY AppendProperties

\* The first line is removed: the last one stays, unless there was only one.
LEMMA TailFacts ==
  ASSUME NEW q \in Seq(Note), q # << >>
  PROVE  /\ Tail(q) \in Seq(Note)
         /\ Len(Tail(q)) = Len(q) - 1
         /\ Tail(q) # << >> => Tail(q)[Len(Tail(q))] = q[Len(q)]
         /\ Tail(q) = << >> => q[Len(q)] = q[1]
         /\ Len(q) > 1 <=> Tail(q) # << >>
         /\ \A i \in 1 .. Len(q) - 1 : Tail(q)[i] = q[i + 1]
<1>1. /\ Tail(q) \in Seq(Note) /\ Len(Tail(q)) = Len(q) - 1
      /\ \A i \in 1 .. Len(Tail(q)) : Tail(q)[i] = q[i + 1]
  BY HeadTailProperties
<1>2. /\ Len(q) \in Nat /\ Len(q) # 0
      /\ Tail(q) = << >> <=> Len(Tail(q)) = 0
  BY <1>1, QueueFacts
<1> QED
  BY <1>1, <1>2

-----------------------------------------------------------------------------
(* The shared part *)

\* The position of a user whom a step leaves alone still fits.
LEMMA OthersFit ==
  ASSUME NEW u \in User, NEW v \in User, v # u, Frame(u), Fits(v)
  PROVE  Fits(v)'
<1>1. /\ remote' = remote
      /\ pc'[v] = pc[v] /\ job'[v] = job[v] /\ notify'[v] = notify[v]
      /\ line'[v] = line[v] /\ modified'[v] = modified[v] /\ refused'[v] = refused[v]
  BY DEF Frame
<1>2. JobFits(v)'
  BY <1>1 DEF Fits, JobFits
<1>3. QueueFits(v)'
  BY <1>1 DEF Fits, QueueFits, HasRoom
<1>4. TreeFits(v)'
  BY <1>1 DEF Fits, TreeFits
<1> QED
  BY <1>2, <1>3, <1>4 DEF Fits

\* ... and what is known of her still holds, if the repository says the same.
LEMMA OthersTold ==
  ASSUME NEW u \in User, NEW v \in User, v # u, Frame(u), Stays(v), Told(v)
  PROVE  Told(v)'
<1>1. /\ remote' = remote
      /\ pc'[v] = pc[v] /\ job'[v] = job[v] /\ notify'[v] = notify[v]
      /\ copy'[v] = copy[v] /\ line'[v] = line[v]
      /\ modified'[v] = modified[v] /\ refused'[v] = refused[v]
      /\ v \in editing' <=> v \in editing
  BY DEF Frame
<1>2. /\ Agrees(v) => Agrees(v)'
      /\ Kept(v) => Kept(v)'
      /\ TreeAgrees(v) => TreeAgrees(v)'
      /\ LastSays(v) => LastSays(v)'
  BY <1>1 DEF Stays, Agrees, Kept, TreeAgrees, LastSays
<1>3. OutsideHolds(v)'
  BY <1>1, <1>2 DEF Told, OutsideHolds
<1>4. InsideHolds(v)'
  BY <1>1, <1>2 DEF Told, InsideHolds
<1>5. WriteHolds(v)'
  BY <1>1, <1>2 DEF Told, WriteHolds
<1>6. AnswerHolds(v)'
  BY <1>1, <1>2 DEF Told, AnswerHolds, Stays
<1> QED
  BY <1>3, <1>4, <1>5, <1>6 DEF Told

\* A calm step leaves what the repository says of anyone.
LEMMA CalmStays ==
  ASSUME NEW u \in User, Calm(u), NEW v \in User
  PROVE  Stays(v)
<1>1. disk' = disk
  BY DEF Calm
<1>2. \A w \in User : pc'[w] = "writing" => pc[w] = "writing" /\ copy'[w] = copy[w]
  BY DEF Calm, Frame
<1>3. Listed(v) => Listed(v)'
  BY <1>1, <1>2 DEF Listed
<1>4. Unlisted(v) => Unlisted(v)'
  BY <1>1, <1>2 DEF Unlisted
<1> QED
  BY <1>3, <1>4 DEF Stays

\* Exclusive edits that differ go on to do so when more users are excused.
LEMMA DistinctGrows ==
  ASSUME NEW u \in User, Frame(u), NEW e, Distinct(e)
  PROVE  \A v, w \in User \ excused' :
           v # w /\ IsExclusive(e, v) /\ IsExclusive(e, w) => e[v].tag # e[w].tag
BY DEF Frame, Distinct

\* The invariant after a calm step of u, if what is left to show is shown.
LEMMA CalmKeeps ==
  ASSUME IndInv, NEW u \in User, Calm(u), Settled(u)
  PROVE  IndInv'
<1>0. /\ Frame(u) /\ TypeOK' /\ disk' = disk
      /\ \A w \in User : pc'[w] = "writing" => pc[w] = "writing"
      /\ excused \subseteq excused' /\ excused \subseteq User /\ excused' \subseteq User
  BY DEF Calm, Frame, IndInv, TypeOK
<1>1. \A v \in User : (JobFits(v) /\ QueueFits(v) /\ TreeFits(v))'
  <2> SUFFICES ASSUME NEW v \in User PROVE Fits(v)'
    BY DEF Fits
  <2>1. Fits(v)
    BY DEF IndInv, Fits
  <2> QED
    BY <1>0, <2>1, OthersFit DEF Settled
<1>2. OneExclusive'
  <2> SUFFICES ASSUME disk # Torn PROVE OneExclusive'
    BY <1>0 DEF OneExclusive
  <2>1. Distinct(disk)
    BY DEF IndInv, AllDistinct, OneExclusive, Distinct
  <2> QED
    BY <1>0, <2>1, DistinctGrows DEF OneExclusive
<1>3. \A w \in User : Distinct(copy[w])'
  <2> SUFFICES ASSUME NEW w \in User PROVE Distinct(copy[w])'
    OBVIOUS
  <2>1. CASE w = u
    BY <2>1 DEF Settled
  <2>2. CASE w # u
    <3>1. copy'[w] = copy[w] /\ Distinct(copy[w])
      BY <1>0, <2>2 DEF Frame, IndInv, AllDistinct
    <3> QED
      BY <1>0, <3>1, DistinctGrows DEF Distinct
  <2> QED
    BY <2>1, <2>2
<1>4. OneWrites'
  BY <1>0 DEF IndInv, OneWrites
<1>5. \A v \in User \ excused' : Told(v)'
  <2> SUFFICES ASSUME NEW v \in User, v \notin excused' PROVE Told(v)'
    OBVIOUS
  <2>1. Told(v)
    BY <1>0 DEF IndInv
  <2> QED
    BY <1>0, <2>1, OthersTold, CalmStays DEF Settled
<1> QED
  BY <1>0, <1>1, <1>2, <1>3, <1>4, <1>5 DEF IndInv, AllDistinct, Settled

-----------------------------------------------------------------------------
(* Locks *)

\* The tree of u changes in the entry of u only.
OwnEntry(u) == \A v \in User \ {u} : copy'[u][v] = copy[u][v]

\* A step of a command that does not have the lock.
LEMMA OutsideKeeps ==
  ASSUME IndInv, NEW u \in User, Calm(u), UNCHANGED locks,
         pc[u] \notin Inside, pc'[u] \notin Inside
  PROVE  LockHolds' /\ LockedIsCurrent'
<1>0. Frame(u) /\ disk' = disk /\ writer' = writer /\ overtaken' = overtaken
  BY DEF Calm, locks
<1>1. LockHolds'
  BY <1>0 DEF IndInv, LockHolds, Frame
<1>2. LockedIsCurrent'
  BY <1>0 DEF IndInv, LockedIsCurrent, Frame, Inside
<1> QED
  BY <1>1, <1>2

\* A step of one that has it and changes no one else's entry.
LEMMA InsideKeeps ==
  ASSUME IndInv, NEW u \in User, Calm(u), UNCHANGED locks,
         pc[u] \in {"send", "rollback", "commit"},
         pc'[u] \in {"send", "rollback", "write"}, job'[u] = job[u], OwnEntry(u)
  PROVE  LockHolds' /\ LockedIsCurrent'
<1>0. /\ Frame(u) /\ disk' = disk /\ writer' = writer /\ overtaken' = overtaken
      /\ LockHolds /\ LockedIsCurrent
  BY DEF Calm, locks, IndInv
<1>1. LockHolds'
  BY <1>0 DEF LockHolds, Frame, Inside
<1>3. LockedIsCurrent'
  <2> SUFFICES ASSUME NEW w \in User, writer = w, ~overtaken,
                      pc'[w] \in {"send", "rollback", "commit", "write"}
               PROVE  disk # Torn /\ \A v \in User \ {w} : disk[v] = copy'[w][v]
    BY <1>0 DEF LockedIsCurrent
  <2>1. CASE w = u
    BY <1>0, <2>1 DEF LockedIsCurrent, OwnEntry
  <2>2. CASE w # u
    BY <1>0, <2>2 DEF LockedIsCurrent, Frame
  <2> QED
    BY <2>1, <2>2
<1> QED
  BY <1>1, <1>3

\* A step that gives the lock up, at the end or for the write of an update.
LEMMA ReleaseKeeps ==
  ASSUME IndInv, NEW u \in User, Calm(u), Release(u, FALSE),
         pc'[u] \notin Inside \/ job'[u] = "auto"
  PROVE  LockHolds' /\ LockedIsCurrent'
<1>0. /\ Frame(u) /\ disk' = disk /\ LockHolds /\ LockedIsCurrent /\ TypeOK
      /\ writer' = IF writer = u THEN None ELSE writer
      /\ overtaken' <=> writer' # None /\ overtaken
  BY DEF Calm, IndInv, Release
<1>1. \A w \in User : writer' = w => writer = w /\ w # u
  BY <1>0, NoneAssumption
<1>2. LockHolds'
  BY <1>0, <1>1 DEF LockHolds, Frame, TypeOK
<1>3. LockedIsCurrent'
  <2> SUFFICES ASSUME NEW w \in User, writer' = w, ~overtaken',
                      pc'[w] \in {"send", "rollback", "commit", "write"}
               PROVE  disk' # Torn /\ \A v \in User \ {w} : disk'[v] = copy'[w][v]
    BY DEF LockedIsCurrent
  <2>1. writer = w /\ w # u /\ writer' # None
    BY <1>1, NoneAssumption
  <2>2. ~overtaken
    BY <1>0, <2>1
  <2>3. pc[w] = pc'[w] /\ copy[w] = copy'[w]
    BY <1>0, <2>1 DEF Frame
  <2>4. disk # Torn /\ \A v \in User \ {w} : disk[v] = copy[w][v]
    BY <1>0, <2>1, <2>2, <2>3 DEF LockedIsCurrent
  <2> QED
    BY <1>0, <2>3, <2>4
<1> QED
  BY <1>2, <1>3

-----------------------------------------------------------------------------
(* Working directories *)

\* An empty tree has no exclusive edits.
LEMMA NobodyDistinct ==
  \A v \in User : ~IsExclusive(Nobody, v)
BY DEF IsExclusive, Nobody

\* Where no one is exclusive there is nothing to tell apart.
LEMMA EmptyTree ==
  ASSUME NEW u \in User, copy'[u] = Nobody
  PROVE  Distinct(copy[u])'
BY NobodyDistinct DEF Distinct

\* A tree that is as before.
LEMMA SameTree ==
  ASSUME IndInv, NEW u \in User, Frame(u), copy'[u] = copy[u]
  PROVE  Distinct(copy[u])'
<1>1. Distinct(copy[u])
  BY DEF IndInv, AllDistinct
<1> QED
  BY <1>1, DistinctGrows DEF Distinct

\* What has to be known of a user between two commands.
LEMMA ToldOutside ==
  ASSUME NEW u \in User, pc'[u] \in {"idle", "lock"}, LastSays(u)',
         notify'[u] = << >> => Agrees(u)'
  PROVE  Told(u)'
BY DEF Told, OutsideHolds, InsideHolds, WriteHolds, AnswerHolds

\* Edit queues a line.
LEMMA EditKeeps ==
  ASSUME IndInv, NEW u \in User, NEW option \in Option, NEW check \in BOOLEAN,
         Edit(u, option, check)
  PROVE  IndInv'
<1> DEFINE n == [type |-> "E", excl |-> option.excl, tag |-> option.tag]
<1>0. /\ TypeOK /\ JobFits(u) /\ QueueFits(u) /\ TreeFits(u) /\ n \in Note
      /\ notify[u] \in Seq(Note)
  BY OptionAssumption DEF IndInv, TypeOK, Note, Tag
<1>1. /\ pc[u] = "idle" /\ Len(notify[u]) < MaxNotes
      /\ notify' = [notify EXCEPT ![u] = Append(notify[u], n)]
      /\ pc' = [pc EXCEPT ![u] = "base"]
      /\ UNCHANGED <<lockserver, remote, disk, locks, editing, job, tree, crashes, excused>>
  BY DEF Edit, HasRoom, Goto
<1> HIDE DEF n
<1>2. /\ Append(notify[u], n) \in Seq(Note)
      /\ Len(Append(notify[u], n)) <= MaxNotes
      /\ Append(notify[u], n) # << >>
      /\ Append(notify[u], n)[Len(Append(notify[u], n))] = n
      /\ n.type = "E"
  <2>1. n.type = "E"
    BY DEF n
  <2>2. Len(notify[u]) \in Nat
    BY <1>0, QueueFacts
  <2>3. Len(Append(notify[u], n)) <= MaxNotes
    BY <1>0, <1>1, <2>2, AppendFacts, NotesAssumption
  <2> QED
    BY <1>0, <2>1, <2>3, AppendFacts
<1>3. Calm(u)
  <2>1. TypeOK'
    BY <1>0, <1>1, <1>2 DEF TypeOK, Position, locks, tree
  <2> QED
    BY <1>0, <1>1, <2>1 DEF Calm, Frame, TypeOK, locks, tree
<1>4. /\ pc'[u] = "base" /\ job'[u] = job[u] /\ line'[u] = line[u]
      /\ modified'[u] = modified[u] /\ refused'[u] = refused[u] /\ copy'[u] = copy[u]
      /\ notify'[u] = Append(notify[u], n)
  BY <1>0, <1>1 DEF TypeOK, tree
<1>5. Fits(u)'
  BY <1>0, <1>1, <1>2, <1>4 DEF Fits, JobFits, QueueFits, TreeFits
<1>6. Told(u)'
  BY <1>2, <1>4 DEF Told, OutsideHolds, InsideHolds, WriteHolds, AnswerHolds
<1>7. LockHolds' /\ LockedIsCurrent'
  BY <1>1, <1>3, <1>4, OutsideKeeps DEF Inside
<1>8. Distinct(copy[u])'
  BY <1>3, <1>4, SameTree DEF Calm
<1> QED
  BY <1>3, <1>5, <1>6, <1>7, <1>8, CalmKeeps DEF Settled

\* EditBase makes the edit of which the last line tells.
LEMMA EditBaseKeeps ==
  ASSUME IndInv, NEW u \in User, EditBase(u)
  PROVE  IndInv'
<1>0. TypeOK /\ JobFits(u) /\ QueueFits(u) /\ TreeFits(u)
  BY DEF IndInv
<1>1. /\ pc[u] = "base" /\ editing' = editing \union {u}
      /\ job' = [job EXCEPT ![u] = "send"] /\ pc' = [pc EXCEPT ![u] = "lock"]
      /\ UNCHANGED <<lockserver, remote, disk, locks, notify, tree, crashes, excused>>
  BY DEF EditBase, Goto
<1>3. Calm(u)
  <2>1. TypeOK'
    BY <1>0, <1>1 DEF TypeOK, Position, locks, tree
  <2> QED
    BY <1>0, <1>1, <2>1 DEF Calm, Frame, TypeOK, locks, tree
<1>4. /\ pc'[u] = "lock" /\ job'[u] = "send" /\ line'[u] = line[u]
      /\ modified'[u] = modified[u] /\ refused'[u] = refused[u] /\ copy'[u] = copy[u]
      /\ notify'[u] = notify[u] /\ u \in editing'
  BY <1>0, <1>1 DEF TypeOK, tree
<1>5. Fits(u)'
  BY <1>0, <1>1, <1>4 DEF Fits, JobFits, QueueFits, TreeFits
<1>6. ASSUME u \notin excused' PROVE Told(u)'
  <2>1. notify[u] # << >> /\ notify[u][Len(notify[u])].type = "E"
    BY <1>0, <1>1, <1>6 DEF IndInv, Told, OutsideHolds, QueueFits
  <2> QED
    BY <1>4, <2>1, ToldOutside DEF LastSays
<1>7. LockHolds' /\ LockedIsCurrent'
  BY <1>1, <1>3, <1>4, OutsideKeeps DEF Inside
<1>8. Distinct(copy[u])'
  BY <1>3, <1>4, SameTree DEF Calm
<1> QED
  BY <1>3, <1>5, <1>6, <1>7, <1>8, CalmKeeps DEF Settled

\* Unedit ends the edit before there is a line that says so.
LEMMA UneditKeeps ==
  ASSUME IndInv, NEW u \in User, Unedit(u)
  PROVE  IndInv'
<1>0. TypeOK /\ JobFits(u) /\ QueueFits(u) /\ TreeFits(u)
  BY DEF IndInv
<1>1. /\ pc[u] = "idle" /\ HasRoom(u) /\ editing' = editing \ {u}
      /\ pc' = [pc EXCEPT ![u] = "note"]
      /\ UNCHANGED <<lockserver, remote, disk, locks, notify, job, tree, crashes, excused>>
  BY DEF Unedit, Goto
<1>3. Calm(u)
  <2>1. TypeOK'
    BY <1>0, <1>1 DEF TypeOK, Position, locks, tree
  <2> QED
    BY <1>0, <1>1, <2>1 DEF Calm, Frame, TypeOK, locks, tree
<1>4. /\ pc'[u] = "note" /\ job'[u] = job[u] /\ line'[u] = line[u]
      /\ modified'[u] = modified[u] /\ refused'[u] = refused[u] /\ copy'[u] = copy[u]
      /\ notify'[u] = notify[u] /\ u \notin editing'
  BY <1>0, <1>1 DEF TypeOK, tree
<1>5. Fits(u)'
  BY <1>0, <1>1, <1>4 DEF Fits, JobFits, QueueFits, TreeFits, HasRoom
<1>6. Told(u)'
  BY <1>4 DEF Told, OutsideHolds, InsideHolds, WriteHolds, AnswerHolds
<1>7. LockHolds' /\ LockedIsCurrent'
  BY <1>1, <1>3, <1>4, OutsideKeeps DEF Inside
<1>8. Distinct(copy[u])'
  BY <1>3, <1>4, SameTree DEF Calm
<1> QED
  BY <1>3, <1>5, <1>6, <1>7, <1>8, CalmKeeps DEF Settled

\* UneditNote adds the line.
LEMMA UneditNoteKeeps ==
  ASSUME IndInv, NEW u \in User, UneditNote(u)
  PROVE  IndInv'
<1>0. /\ TypeOK /\ JobFits(u) /\ QueueFits(u) /\ TreeFits(u)
      /\ notify[u] \in Seq(Note) /\ UneditLine \in Note
  BY DEF IndInv, TypeOK, UneditLine, Note, Tag
<1>1. /\ pc[u] = "note"
      /\ notify' = [notify EXCEPT ![u] = Append(notify[u], UneditLine)]
      /\ job' = [job EXCEPT ![u] = "send"] /\ pc' = [pc EXCEPT ![u] = "lock"]
      /\ UNCHANGED <<lockserver, remote, disk, locks, editing, tree, crashes, excused>>
  BY DEF UneditNote, Goto
<1>2. /\ Append(notify[u], UneditLine) \in Seq(Note)
      /\ Len(Append(notify[u], UneditLine)) <= MaxNotes
      /\ Append(notify[u], UneditLine) # << >>
      /\ Append(notify[u], UneditLine)[Len(Append(notify[u], UneditLine))].type = "U"
  <2>1. Len(notify[u]) < MaxNotes
    BY <1>0, <1>1 DEF QueueFits, HasRoom
  <2>2. UneditLine.type = "U"
    BY DEF UneditLine
  <2> QED
    BY <1>0, <2>1, <2>2, AppendFacts, QueueFacts, NotesAssumption
<1>3. Calm(u)
  <2>1. TypeOK'
    BY <1>0, <1>1, <1>2 DEF TypeOK, Position, locks, tree
  <2> QED
    BY <1>0, <1>1, <2>1 DEF Calm, Frame, TypeOK, locks, tree
<1>4. /\ pc'[u] = "lock" /\ job'[u] = "send" /\ line'[u] = line[u]
      /\ modified'[u] = modified[u] /\ refused'[u] = refused[u] /\ copy'[u] = copy[u]
      /\ notify'[u] = Append(notify[u], UneditLine)
      /\ editing' = editing /\ remote' = remote
  BY <1>0, <1>1 DEF TypeOK, tree
<1>5. Fits(u)'
  BY <1>0, <1>1, <1>2, <1>4 DEF Fits, JobFits, QueueFits, TreeFits
<1>6. ASSUME u \notin excused' PROVE Told(u)'
  <2>1. u \notin editing
    BY <1>0, <1>1, <1>6 DEF IndInv, Told, OutsideHolds
  <2> QED
    BY <1>2, <1>4, <2>1, ToldOutside DEF LastSays
<1>7. LockHolds' /\ LockedIsCurrent'
  BY <1>1, <1>3, <1>4, OutsideKeeps DEF Inside
<1>8. Distinct(copy[u])'
  BY <1>3, <1>4, SameTree DEF Calm
<1> QED
  BY <1>3, <1>5, <1>6, <1>7, <1>8, CalmKeeps DEF Settled

\* Start leaves the working directory as it is.
LEMMA StartKeeps ==
  ASSUME IndInv, NEW u \in User, NEW what \in {"send", "commit", "auto"}, Start(u, what)
  PROVE  IndInv'
<1>0. TypeOK /\ JobFits(u) /\ QueueFits(u) /\ TreeFits(u)
  BY DEF IndInv
<1>1. /\ pc[u] = "idle"
      /\ what = "send" => notify[u] # << >>
      /\ what # "send" /\ u \in remote => notify[u] = << >>
      /\ job' = [job EXCEPT ![u] = what] /\ pc' = [pc EXCEPT ![u] = "lock"]
      /\ UNCHANGED <<lockserver, remote, disk, locks, editing, notify, tree, crashes, excused>>
  BY DEF Start, Goto, local
<1>3. Calm(u)
  <2>1. TypeOK'
    BY <1>0, <1>1 DEF TypeOK, Position, locks, tree
  <2> QED
    BY <1>0, <1>1, <2>1 DEF Calm, Frame, TypeOK, locks, tree
<1>4. /\ pc'[u] = "lock" /\ job'[u] = what /\ line'[u] = line[u]
      /\ modified'[u] = modified[u] /\ refused'[u] = refused[u] /\ copy'[u] = copy[u]
      /\ notify'[u] = notify[u] /\ editing' = editing /\ remote' = remote
  BY <1>0, <1>1 DEF TypeOK, tree
<1>5. Fits(u)'
  BY <1>0, <1>1, <1>4 DEF Fits, JobFits, QueueFits, TreeFits
<1>6. ASSUME u \notin excused' PROVE Told(u)'
  <2>1. LastSays(u) /\ (notify[u] = << >> => Agrees(u))
    BY <1>0, <1>1, <1>6 DEF IndInv, Told, OutsideHolds
  <2>2. Stays(u)
    BY <1>3, CalmStays
  <2> QED
    BY <1>4, <2>1, <2>2, ToldOutside DEF LastSays, Agrees, Stays
<1>7. LockHolds' /\ LockedIsCurrent'
  BY <1>1, <1>3, <1>4, OutsideKeeps DEF Inside
<1>8. Distinct(copy[u])'
  BY <1>3, <1>4, SameTree DEF Calm
<1> QED
  BY <1>3, <1>5, <1>6, <1>7, <1>8, CalmKeeps DEF Settled

-----------------------------------------------------------------------------
(* The tree *)

\* A tree whose entry of u is excused, not exclusive, alone, or as it was.
NoClash(u) ==
    \/ u \in excused'
    \/ ~IsExclusive(copy'[u], u)
    \/ \A v \in User \ {u} : ~IsExclusive(copy[u], v)
    \/ IsExclusive(copy[u], u) /\ copy'[u][u].tag = copy[u][u].tag

\* Such a change leaves the exclusive edits of the tree distinct.
LEMMA OwnDistinct ==
  ASSUME IndInv, NEW u \in User, Frame(u), OwnEntry(u), NoClash(u)
  PROVE  Distinct(copy[u])'
<1>1. Distinct(copy[u]) /\ excused \subseteq excused'
  BY DEF IndInv, AllDistinct, Frame
<1>2. \A v \in User \ {u} : copy'[u][v] = copy[u][v]
  BY DEF OwnEntry
<1> SUFFICES ASSUME NEW v \in User \ excused', NEW w \in User \ excused', v # w,
                    IsExclusive(copy'[u], v), IsExclusive(copy'[u], w)
             PROVE  copy'[u][v].tag # copy'[u][w].tag
  BY DEF Distinct
<1>3. CASE v # u /\ w # u
  BY <1>1, <1>2, <1>3 DEF Distinct, IsExclusive
<1>4. CASE v = u
  BY <1>1, <1>2, <1>4 DEF Distinct, IsExclusive, NoClash
<1>5. CASE w = u
  BY <1>1, <1>2, <1>5 DEF Distinct, IsExclusive, NoClash
<1> QED
  BY <1>3, <1>4, <1>5

\* Where check_can_edit accepts a branch, or a null tag, no one else has an
\* exclusive edit.
LEMMA CanEditAlone ==
  ASSUME NEW e \in [User -> {None} \union Editor], NEW u \in User,
         NEW tag \in {"HEAD", "none"}, CanEdit(e, u, tag)
  PROVE  \A v \in User \ {u} : ~IsExclusive(e, v)
BY NoneAssumption DEF CanEdit, IsExclusive, Editor, Tag

\* What editor_set makes of the user's entry.
LEMMA SetFacts ==
  ASSUME NEW e \in [User -> {None} \union Editor], NEW u \in User,
         NEW excl \in BOOLEAN, NEW tag \in {"HEAD", "all", "none"}
  PROVE  /\ SetEditor(e, u, excl, tag) \in [User -> {None} \union Editor]
         /\ SetEditor(e, u, excl, tag)[u] # None
         /\ \A v \in User \ {u} : SetEditor(e, u, excl, tag)[v] = e[v]
         /\ ~excl /\ tag # "HEAD" /\ IsExclusive(SetEditor(e, u, excl, tag), u) =>
              IsExclusive(e, u) /\ SetEditor(e, u, excl, tag)[u].tag = e[u].tag
<1> DEFINE old == IF e[u] = None THEN [excl |-> FALSE, tag |-> "all"] ELSE e[u]
           new == [excl |-> old.excl \/ excl, tag |-> IF tag = "HEAD" THEN tag ELSE old.tag]
<1>1. old \in Editor
  BY DEF Editor, Tag
<1>2. new \in Editor
  BY <1>1 DEF Editor, Tag
<1>3. SetEditor(e, u, excl, tag) = [e EXCEPT ![u] = new]
  BY DEF SetEditor
<1>4. new # None
  BY <1>2, NoneAssumption DEF Editor, Tag
<1>5. ~excl /\ tag # "HEAD" /\ new.excl => e[u] # None /\ e[u].excl /\ new.tag = e[u].tag
  OBVIOUS
<1> HIDE DEF new
<1> QED
  BY <1>2, <1>3, <1>4, <1>5 DEF IsExclusive

\* What a change of the tree says of the user.
TreeMoves(u) ==
    /\ copy' = [copy EXCEPT ![u] = copy'[u]] /\ copy'[u] \in [User -> {None} \union Editor]
    /\ modified' = [modified EXCEPT ![u] = modified'[u]] /\ modified'[u] \in BOOLEAN
    /\ refused' = [refused EXCEPT ![u] = refused'[u]] /\ refused'[u] \in BOOLEAN
    /\ OwnEntry(u)
    /\ ~modified'[u] => ~modified[u] /\ copy'[u][u] = copy[u][u]

\* notify_do does what the line says unless it refuses, and marks a tree that is
\* not what it was.
LEMMA NotifyDoFacts ==
  ASSUME IndInv, NEW u \in User, NEW note \in Note, NotifyDo(u, note)
  PROVE  /\ TreeMoves(u)
         /\ ~refused'[u] => ~refused[u] /\ (note.type = "E" <=> copy'[u][u] # None)
<1>0. /\ copy \in [User -> [User -> {None} \union Editor]]
      /\ copy[u] \in [User -> {None} \union Editor]
      /\ modified \in [User -> BOOLEAN] /\ refused \in [User -> BOOLEAN]
      /\ note.type \in {"E", "U"} /\ note.excl \in BOOLEAN /\ note.tag \in {"HEAD", "all", "none"}
  BY DEF IndInv, TypeOK, Note, Tag
<1>1. CASE /\ note.type = "U"
           /\ copy' = [copy EXCEPT ![u] = ClearEditor(@, u)]
           /\ modified' = [modified EXCEPT ![u] = @ \/ copy[u][u] # None]
           /\ UNCHANGED refused
  <2>1. copy'[u] = [copy[u] EXCEPT ![u] = None]
    BY <1>0, <1>1 DEF ClearEditor
  <2>2. modified'[u] = (modified[u] \/ copy[u][u] # None)
    BY <1>0, <1>1
  <2>3. TreeMoves(u)
    BY <1>0, <1>1, <2>1, <2>2 DEF TreeMoves, OwnEntry
  <2> QED
    BY <1>0, <1>1, <2>1, <2>3
<1>2. CASE /\ note.type = "E"
           /\ copy' = [copy EXCEPT ![u] = SetEditor(@, u, note.excl, note.tag)]
           /\ modified' = [modified EXCEPT ![u] = TRUE]
           /\ UNCHANGED refused
  <2>1. copy'[u] = SetEditor(copy[u], u, note.excl, note.tag) /\ modified'[u]
    BY <1>0, <1>2
  <2>2. /\ copy'[u] \in [User -> {None} \union Editor] /\ copy'[u][u] # None
        /\ \A v \in User \ {u} : copy'[u][v] = copy[u][v]
    BY <1>0, <2>1, SetFacts
  <2>3. TreeMoves(u)
    BY <1>0, <1>2, <2>1, <2>2 DEF TreeMoves, OwnEntry
  <2> QED
    BY <1>2, <2>2, <2>3
<1>3. CASE /\ note.type = "E"
           /\ refused' = [refused EXCEPT ![u] = TRUE]
           /\ UNCHANGED <<copy, modified>>
  BY <1>0, <1>3 DEF TreeMoves, OwnEntry
<1> QED
  BY <1>1, <1>2, <1>3 DEF NotifyDo

\* ... and an edit it accepts clashes with no one else's, but for the empty tag of
\* a local edit of the whole file.
LEMMA NotifyDoClash ==
  ASSUME IndInv, NEW u \in User, NEW note \in Note, NotifyDo(u, note),
         EmptyTag(u, note) => u \in excused'
  PROVE  NoClash(u)
<1>0. /\ copy \in [User -> [User -> {None} \union Editor]]
      /\ copy[u] \in [User -> {None} \union Editor]
      /\ note.type \in {"E", "U"} /\ note.excl \in BOOLEAN /\ note.tag \in {"HEAD", "all"}
  BY DEF IndInv, TypeOK, Note, Tag
<1>1. CASE copy' = [copy EXCEPT ![u] = ClearEditor(@, u)]
  <2>1. copy'[u][u] = None
    BY <1>0, <1>1 DEF ClearEditor
  <2> QED
    BY <2>1 DEF NoClash, IsExclusive
<1>2. CASE /\ CanEdit(copy[u], u, NoteTag(u, note.tag))
           /\ copy' = [copy EXCEPT ![u] = SetEditor(@, u, note.excl, note.tag)]
  <2>1. copy'[u] = SetEditor(copy[u], u, note.excl, note.tag)
    BY <1>0, <1>2
  <2>2. CASE NoteTag(u, note.tag) \in {"HEAD", "none"}
    BY <1>0, <1>2, <2>2, CanEditAlone DEF NoClash
  <2>3. CASE NoteTag(u, note.tag) \notin {"HEAD", "none"}
    <3>1. u \notin remote /\ note.tag = "all"
      BY <1>0, <2>3 DEF NoteTag
    <3>2. CASE note.excl
      BY <3>1, <3>2 DEF EmptyTag, NoClash
    <3>3. CASE ~note.excl
      BY <1>0, <2>1, <3>1, <3>3, SetFacts DEF NoClash
    <3> QED
      BY <3>2, <3>3
  <2> QED
    BY <2>2, <2>3
<1>3. CASE UNCHANGED copy
  BY <1>3 DEF NoClash
<1> QED
  BY <1>1, <1>2, <1>3 DEF NotifyDo

-----------------------------------------------------------------------------
(* The repository *)

\* The end of a command: nothing is left of its tree.
LEMMA FinishFacts ==
  ASSUME TypeOK, NEW u \in User, Finish(u)
  PROVE  /\ pc' = [pc EXCEPT ![u] = "idle"] /\ pc'[u] = "idle"
         /\ job' = [job EXCEPT ![u] = "send"] /\ job'[u] = "send"
         /\ copy' = [copy EXCEPT ![u] = Nobody] /\ copy'[u] = Nobody
         /\ line' = [line EXCEPT ![u] = 0] /\ line'[u] = 0
         /\ modified' = [modified EXCEPT ![u] = FALSE] /\ ~modified'[u]
         /\ refused' = [refused EXCEPT ![u] = FALSE] /\ ~refused'[u]
         /\ Nobody \in [User -> {None} \union Editor]
         /\ Fits(u)'
<1>1. /\ pc' = [pc EXCEPT ![u] = "idle"]
      /\ job' = [job EXCEPT ![u] = "send"]
      /\ copy' = [copy EXCEPT ![u] = Nobody]
      /\ line' = [line EXCEPT ![u] = 0]
      /\ modified' = [modified EXCEPT ![u] = FALSE]
      /\ refused' = [refused EXCEPT ![u] = FALSE]
  BY DEF Finish, Free, Goto
<1>2. /\ pc'[u] = "idle" /\ job'[u] = "send" /\ copy'[u] = Nobody
      /\ line'[u] = 0 /\ ~modified'[u] /\ ~refused'[u]
  BY <1>1 DEF TypeOK
<1>3. Fits(u)'
  BY <1>2 DEF Fits, JobFits, QueueFits, TreeFits
<1>4. Nobody \in [User -> {None} \union Editor]
  BY DEF Nobody
<1> QED
  BY <1>1, <1>2, <1>3, <1>4

\* ... and what is has its type.
LEMMA FinishTyped ==
  ASSUME TypeOK, NEW u \in User, Finish(u)
  PROVE  /\ pc' \in [User -> Position] /\ job' \in [User -> {"send", "commit", "auto"}]
         /\ copy' \in [User -> [User -> {None} \union Editor]]
         /\ line' \in [User -> 0 .. MaxNotes]
         /\ modified' \in [User -> BOOLEAN] /\ refused' \in [User -> BOOLEAN]
<1>1. /\ pc' = [pc EXCEPT ![u] = "idle"] /\ job' = [job EXCEPT ![u] = "send"]
      /\ copy' = [copy EXCEPT ![u] = Nobody] /\ line' = [line EXCEPT ![u] = 0]
      /\ modified' = [modified EXCEPT ![u] = FALSE] /\ refused' = [refused EXCEPT ![u] = FALSE]
  BY FinishFacts
<1>2. pc' \in [User -> Position] /\ job' \in [User -> {"send", "commit", "auto"}]
  BY <1>1 DEF TypeOK, Position
<1>3. copy' \in [User -> [User -> {None} \union Editor]]
  <2>1. Nobody \in [User -> {None} \union Editor]
    BY DEF Nobody
  <2> QED
    BY <1>1, <2>1 DEF TypeOK
<1>4. line' \in [User -> 0 .. MaxNotes]
  BY <1>1, NotesAssumption DEF TypeOK
<1>5. modified' \in [User -> BOOLEAN] /\ refused' \in [User -> BOOLEAN]
  BY <1>1 DEF TypeOK
<1> QED
  BY <1>2, <1>3, <1>4, <1>5

\* Read fails, with no lock: the working directory is as it was.
LEMMA ReadFails ==
  ASSUME IndInv, NEW u \in User, pc[u] = "lock", Finish(u),
         UNCHANGED <<lockserver, remote, disk, locks, editing, notify, crashes, excused>>
  PROVE  IndInv'
<1>0. TypeOK /\ QueueFits(u)
  BY DEF IndInv
<1>3. Calm(u)
  <2>1. TypeOK'
    BY <1>0, FinishTyped DEF TypeOK, locks
  <2> QED
    BY <1>0, <2>1, FinishFacts DEF Calm, Frame, TypeOK, locks
<1>4. /\ pc'[u] = "idle" /\ Fits(u)' /\ copy'[u] = Nobody
      /\ notify'[u] = notify[u] /\ editing' = editing
  BY <1>0, FinishFacts
<1>6. ASSUME u \notin excused' PROVE Told(u)'
  <2>1. LastSays(u) /\ (notify[u] = << >> => Agrees(u))
    BY <1>0, <1>6 DEF IndInv, Told, OutsideHolds
  <2>2. Stays(u)
    BY <1>3, CalmStays
  <2> QED
    BY <1>4, <2>1, <2>2, ToldOutside DEF LastSays, Agrees, Stays
<1>7. LockHolds' /\ LockedIsCurrent'
  BY <1>3, <1>4, OutsideKeeps DEF Inside
<1>8. Distinct(copy[u])'
  BY <1>4, EmptyTree
<1> QED
  BY <1>3, <1>4, <1>6, <1>7, <1>8, CalmKeeps DEF Settled

\* Read fails after some lines were done: the client hears of those, and keeps the
\* others.
LEMMA ReadStops ==
  ASSUME IndInv, NEW u \in User, pc[u] = "lock", line[u] # 0, pc' = [pc EXCEPT ![u] = "answer"],
         UNCHANGED <<lockserver, remote, disk, locks, editing, notify, job, tree, crashes, excused>>
  PROVE  IndInv'
<1>0. /\ TypeOK /\ JobFits(u) /\ QueueFits(u) /\ TreeFits(u)
      /\ UNCHANGED <<copy, line, modified, refused, writer, readers, overtaken>>
  BY DEF IndInv, tree, locks
<1>1. pc'[u] = "answer" /\ job[u] = "send" /\ u \in remote /\ line[u] < Len(notify[u])
  BY <1>0 DEF TypeOK, TreeFits
<1>2. Calm(u)
  <2>1. TypeOK'
    BY <1>0 DEF TypeOK, Position
  <2> QED
    BY <1>0, <1>1, <2>1 DEF Calm, Frame, TypeOK
<1>3. Fits(u)'
  BY <1>0, <1>1 DEF Fits, JobFits, QueueFits, TreeFits
<1>4. ASSUME u \notin excused' PROVE Told(u)'
  <2>1. LastSays(u) /\ line[u] # Len(notify[u])
    BY <1>0, <1>1, <1>4, QueueFacts DEF IndInv, Told, OutsideHolds, TypeOK
  <2> QED
    BY <1>0, <1>1, <2>1 DEF Told, OutsideHolds, InsideHolds, WriteHolds, AnswerHolds, LastSays
<1>5. LockHolds' /\ LockedIsCurrent'
  BY <1>1, <1>2, OutsideKeeps DEF Inside
<1>6. Distinct(copy[u])'
  BY <1>0, <1>2, SameTree DEF Calm
<1> QED
  BY <1>2, <1>3, <1>4, <1>5, <1>6, CalmKeeps DEF Settled

\* Read takes the lock and gets the tree that is in the file, which no one is
\* writing.
LEMMA ReadSucceeds ==
  ASSUME IndInv, NEW u \in User, pc[u] = "lock", CanLock(u), Lock(u), disk # Torn,
         copy' = [copy EXCEPT ![u] = disk], pc' = [pc EXCEPT ![u] = job[u]],
         UNCHANGED <<lockserver, remote, disk, editing, notify, job, line, modified, refused,
                     crashes, excused>>
  PROVE  IndInv'
<1>0. /\ TypeOK /\ JobFits(u) /\ QueueFits(u) /\ TreeFits(u) /\ LockHolds /\ LockedIsCurrent
      /\ disk \in [User -> {None} \union Editor]
  BY DEF IndInv, TypeOK
<1>2. /\ writer' = IF lockserver \/ job[u] = "auto" THEN writer ELSE u
      /\ readers' \in {readers, readers \union {u}} /\ overtaken' = overtaken
      /\ lockserver \/ writer = None
  BY DEF Lock, CanLock, locks
<1>3. Calm(u)
  <2>1. TypeOK'
    BY <1>0, <1>2 DEF TypeOK, Position
  <2> QED
    BY <1>0, <2>1 DEF Calm, Frame, TypeOK
<1>4. /\ pc'[u] = job[u] /\ job'[u] = job[u] /\ copy'[u] = disk /\ line'[u] = line[u]
      /\ modified'[u] = modified[u] /\ refused'[u] = refused[u]
      /\ notify'[u] = notify[u] /\ editing' = editing /\ remote' = remote
      /\ job[u] \in {"send", "commit", "auto"}
  BY <1>0 DEF TypeOK
<1>5. Fits(u)'
  <2>1. ~modified[u] /\ (refused[u] => line[u] # 0) /\ (line[u] # 0 => job[u] = "send" /\ u \in remote)
    BY <1>0 DEF TreeFits
  <2>2. job[u] = "send" => notify[u] # << >> /\ line[u] < Len(notify[u])
    BY <1>0, QueueFacts DEF QueueFits, TreeFits, TypeOK
  <2>3. JobFits(u)' /\ QueueFits(u)'
    BY <1>0, <1>4, <2>1, <2>2 DEF JobFits, QueueFits, HasRoom
  <2>4. TreeFits(u)'
    BY <1>0, <1>4, <2>1, <2>2 DEF TreeFits
  <2> QED
    BY <2>3, <2>4 DEF Fits
<1>6. ASSUME u \notin excused' PROVE Told(u)'
  <2>1. Told(u) /\ (line[u] # 0 => u \in remote)
    BY <1>0, <1>6 DEF IndInv, TreeFits
  <2>2. \A v \in User : pc[v] # "writing"
    BY <1>6, <1>0 DEF IndInv, OneWrites, TypeOK
  <2>3. LastSays(u)' /\ (notify[u] = << >> => Agrees(u))
    BY <1>4, <2>1 DEF Told, OutsideHolds, LastSays
  <2>4. Kept(u)'
    BY <1>3, <1>4, <2>2 DEF Kept, Listed, Unlisted, Calm, Frame
  <2>5. notify[u] = << >> => TreeAgrees(u)'
    BY <1>4, <2>3 DEF Agrees, Listed, Unlisted, TreeAgrees
  <2> QED
    BY <1>4, <2>1, <2>3, <2>4, <2>5 DEF Told, OutsideHolds, InsideHolds, WriteHolds, AnswerHolds
<1>7. LockHolds'
  <2>1. \A w \in User \ {u} : pc'[w] = pc[w] /\ job'[w] = job[w]
    BY <1>3 DEF Calm, Frame
  <2>2. CASE lockserver
    BY <1>0, <1>2, <2>2, <2>1, NoneAssumption DEF LockHolds
  <2>3. CASE ~lockserver
    <3>1. pc'[u] \in Inside
      BY <1>4 DEF Inside
    <3> QED
      BY <1>0, <1>2, <1>4, <2>1, <2>3, <3>1, NoneAssumption DEF LockHolds
  <2> QED
    BY <2>2, <2>3
<1>8. LockedIsCurrent'
  <2> SUFFICES ASSUME NEW w \in User, writer' = w, ~overtaken',
                      pc'[w] \in {"send", "rollback", "commit", "write"}
               PROVE  disk # Torn /\ \A v \in User \ {w} : disk[v] = copy'[w][v]
    BY DEF LockedIsCurrent
  <2>1. CASE w = u
    BY <1>4, <2>1
  <2>2. CASE w # u
    BY <1>0, <1>2, <1>3, <2>2, NoneAssumption DEF LockedIsCurrent, Calm, Frame
  <2> QED
    BY <2>1, <2>2
<1>9. Distinct(copy[u])'
  <2>1. Distinct(disk)
    BY DEF IndInv, AllDistinct, OneExclusive, Distinct
  <2> QED
    BY <1>3, <1>4, <2>1, DistinctGrows DEF Distinct, Calm
<1> QED
  BY <1>3, <1>5, <1>6, <1>7, <1>8, <1>9, CalmKeeps DEF Settled

\* Read, whatever it finds.
LEMMA ReadKeeps ==
  ASSUME IndInv, NEW u \in User, Read(u)
  PROVE  IndInv'
<1>1. CASE Finish(u) /\ UNCHANGED locks
  BY <1>1, ReadFails DEF Read, local
<1>3. CASE line[u] # 0 /\ Goto(u, "answer") /\ UNCHANGED <<locks, job, tree>>
  BY <1>3, ReadStops DEF Read, local, Goto
<1>2. CASE /\ disk # Torn /\ Lock(u)
           /\ copy' = [copy EXCEPT ![u] = disk] /\ Goto(u, job[u])
           /\ UNCHANGED <<job, line, modified, refused>>
  BY <1>2, ReadSucceeds DEF Read, local, Goto
<1> QED
  BY <1>1, <1>2, <1>3 DEF Read

\* NotifyLine: the tree says of u what the last line done says, unless an edit was
\* refused.
LEMMA NotifyLineKeeps ==
  ASSUME IndInv, NEW u \in User, NotifyLine(u)
  PROVE  IndInv'
<1> DEFINE k == line[u] + 1
           note == notify[u][k]
<1>0. /\ TypeOK /\ JobFits(u) /\ QueueFits(u) /\ TreeFits(u)
      /\ notify[u] \in Seq(Note) /\ Len(notify[u]) \in Nat /\ line[u] \in Nat
      /\ Len(notify[u]) <= MaxNotes
  BY QueueFacts, NotesAssumption DEF IndInv, TypeOK
<1>1. /\ pc[u] = "send" /\ line[u] < Len(notify[u]) /\ NotifyDo(u, note)
      /\ excused' = IF EmptyTag(u, note) THEN excused \union {u} ELSE excused
      /\ pc' = (IF u \in remote THEN [pc EXCEPT ![u] = "write"] ELSE pc)
      /\ line' = [line EXCEPT ![u] = k]
      /\ UNCHANGED <<lockserver, remote, disk, locks, editing, notify, job, crashes>>
  BY DEF NotifyLine, Goto, local
<1>2. note \in Note /\ k \in 1 .. Len(notify[u]) /\ k \in 0 .. MaxNotes
  BY <1>0, <1>1, QueueFacts, NotesAssumption
<1> HIDE DEF note
<1>3. /\ TreeMoves(u) /\ NoClash(u)
      /\ ~refused'[u] => ~refused[u] /\ (note.type = "E" <=> copy'[u][u] # None)
  BY <1>1, <1>2, NotifyDoFacts, NotifyDoClash
<1>4. Calm(u)
  <2>1. TypeOK'
    <3>1. pc' \in [User -> Position] /\ line' \in [User -> 0 .. MaxNotes]
      BY <1>0, <1>1, <1>2 DEF TypeOK, Position
    <3>2. /\ copy' \in [User -> [User -> {None} \union Editor]]
          /\ modified' \in [User -> BOOLEAN] /\ refused' \in [User -> BOOLEAN]
      BY <1>0, <1>3 DEF TypeOK, TreeMoves
    <3>3. excused' \subseteq User
      BY <1>0, <1>1 DEF TypeOK
    <3> QED
      BY <1>0, <1>1, <3>1, <3>2, <3>3 DEF TypeOK, locks
  <2> QED
    BY <1>0, <1>1, <1>3, <2>1 DEF Calm, Frame, TypeOK, locks, TreeMoves
<1>5. /\ job'[u] = "send" /\ job'[u] = job[u] /\ notify'[u] = notify[u] /\ notify[u] # << >>
      /\ editing' = editing /\ remote' = remote
      /\ line'[u] = k /\ k # 0
      /\ u \in remote => pc'[u] = "write"
      /\ u \notin remote => pc'[u] = "send"
  BY <1>0, <1>1, <1>2 DEF TypeOK, JobFits, QueueFits, TreeFits
<1>6. Fits(u)'
  BY <1>2, <1>5 DEF Fits, JobFits, QueueFits, TreeFits
<1>7. ASSUME u \notin excused' PROVE Told(u)'
  <2>1. InsideHolds(u)
    BY <1>0, <1>1, <1>7 DEF IndInv, Told
  <2>2. LastSays(u)'
    BY <1>1, <1>5, <2>1 DEF InsideHolds, LastSays
  <2>3. ~modified'[u] => Kept(u)'
    <3>1. Stays(u)
      BY <1>4, CalmStays
    <3> QED
      BY <1>1, <1>3, <2>1, <3>1 DEF InsideHolds, Kept, Stays, TreeMoves
  <2>4. ~refused'[u] => (notify[u][k].type = "E" <=> copy'[u][u] # None)
    BY <1>3 DEF note
  <2>5. CASE u \in remote
    BY <1>5, <2>2, <2>3, <2>4, <2>5 DEF Told, OutsideHolds, InsideHolds, WriteHolds, AnswerHolds
  <2>6. CASE u \notin remote
    BY <1>5, <2>2, <2>3, <2>4, <2>6 DEF Told, OutsideHolds, InsideHolds, WriteHolds, AnswerHolds
  <2> QED
    BY <2>5, <2>6
<1>8. LockHolds' /\ LockedIsCurrent'
  BY <1>1, <1>3, <1>4, <1>5, InsideKeeps DEF TreeMoves
<1>9. Distinct(copy[u])'
  BY <1>3, <1>4, OwnDistinct DEF Calm, TreeMoves
<1> QED
  BY <1>4, <1>6, <1>7, <1>8, <1>9, CalmKeeps DEF Settled

\* QueueDone: when the queue is done the tree and the working directory agree.
LEMMA QueueDoneKeeps ==
  ASSUME IndInv, NEW u \in User, QueueDone(u)
  PROVE  IndInv'
<1>0. /\ TypeOK /\ JobFits(u) /\ QueueFits(u) /\ TreeFits(u)
      /\ notify[u] \in Seq(Note)
  BY DEF IndInv, TypeOK
<1>1. /\ pc[u] = "send" /\ u \notin remote /\ line[u] = Len(notify[u])
      /\ notify' = [notify EXCEPT ![u] = << >>] /\ line' = [line EXCEPT ![u] = 0]
      /\ pc' = [pc EXCEPT ![u] = IF refused[u] THEN "rollback" ELSE "write"]
      /\ UNCHANGED <<lockserver, remote, disk, locks, editing, job, copy, modified, refused,
                     crashes, excused>>
  BY DEF QueueDone, Goto
<1>2. << >> \in Seq(Note) /\ Len(<< >>) <= MaxNotes /\ Len(<< >>) = 0
  BY NotesAssumption
<1>3. Calm(u)
  <2>1. TypeOK'
    BY <1>0, <1>1, <1>2, NotesAssumption DEF TypeOK, Position, locks
  <2> QED
    BY <1>0, <1>1, <2>1 DEF Calm, Frame, TypeOK, locks
<1>4. /\ pc'[u] \in {"rollback", "write"} /\ (pc'[u] = "write" => ~refused[u])
      /\ job'[u] = "send" /\ job'[u] = job[u] /\ copy'[u] = copy[u] /\ line'[u] = 0
      /\ modified'[u] = modified[u] /\ refused'[u] = refused[u]
      /\ notify'[u] = << >> /\ editing' = editing /\ remote' = remote /\ line[u] # 0
  BY <1>0, <1>1, QueueFacts DEF TypeOK, JobFits, QueueFits
<1>5. Fits(u)'
  BY <1>1, <1>4 DEF Fits, JobFits, QueueFits, TreeFits
<1>6. ASSUME u \notin excused' PROVE Told(u)'
  <2>1. InsideHolds(u)
    BY <1>0, <1>1, <1>6 DEF IndInv, Told
  <2>2. ~modified'[u] => Kept(u)'
    <3>1. Stays(u)
      BY <1>3, CalmStays
    <3> QED
      BY <1>1, <1>4, <2>1, <3>1 DEF InsideHolds, Kept, Stays
  <2>3. ~refused[u] => TreeAgrees(u)'
    <3>1. notify[u] # << >> /\ line[u] = Len(notify[u]) /\ line[u] # 0
      BY <1>0, <1>1, <1>4 DEF QueueFits
    <3> QED
      BY <1>1, <1>4, <2>1, <3>1 DEF InsideHolds, LastSays, TreeAgrees
  <2> QED
    BY <1>1, <1>4, <2>2, <2>3
       DEF Told, OutsideHolds, InsideHolds, WriteHolds, AnswerHolds, LastSays
<1>7. LockHolds' /\ LockedIsCurrent'
  BY <1>1, <1>3, <1>4, InsideKeeps DEF OwnEntry
<1>8. Distinct(copy[u])'
  BY <1>3, <1>4, SameTree DEF Calm
<1> QED
  BY <1>3, <1>5, <1>6, <1>7, <1>8, CalmKeeps DEF Settled

\* Rollback leaves no edit, and a line that says so.
LEMMA RollbackKeeps ==
  ASSUME IndInv, NEW u \in User, Rollback(u)
  PROVE  IndInv'
<1> DEFINE q == Append(notify[u], UneditLine)
<1>0. /\ TypeOK /\ JobFits(u) /\ QueueFits(u) /\ TreeFits(u)
      /\ notify[u] \in Seq(Note) /\ UneditLine \in Note
  BY DEF IndInv, TypeOK, UneditLine, Note, Tag
<1>1. /\ pc[u] = "rollback" /\ pc' = [pc EXCEPT ![u] = "write"]
      /\ \/ editing' = editing \ {u} /\ notify' = [notify EXCEPT ![u] = q] /\ excused' = excused
         \/ excused' = excused \union {u} /\ editing' = editing /\ notify' = notify
      /\ UNCHANGED <<lockserver, remote, disk, locks, job, copy, line, modified, refused, crashes>>
  BY DEF Rollback, Goto, local, tree
<1>2. /\ q \in Seq(Note) /\ Len(q) <= MaxNotes /\ q # << >> /\ q[Len(q)].type = "U"
  <2>1. Len(notify[u]) = 0
    BY <1>0, <1>1, QueueFacts DEF QueueFits
  <2>2. UneditLine.type = "U"
    BY DEF UneditLine
  <2> QED
    BY <1>0, <2>1, <2>2, AppendFacts, NotesAssumption
<1> HIDE DEF q
<1>3. Calm(u)
  <2>1. TypeOK'
    <3>1. /\ notify' \in [User -> Seq(Note)] /\ \A v \in User : Len(notify'[v]) <= MaxNotes
          /\ editing' \subseteq User /\ excused' \subseteq User
      <4>1. notify \in [User -> Seq(Note)] /\ \A v \in User : Len(notify[v]) <= MaxNotes
        BY <1>0 DEF TypeOK
      <4>2. notify' \in [User -> Seq(Note)] /\ \A v \in User : Len(notify'[v]) <= MaxNotes
        <5>1. CASE notify' = notify
          BY <4>1, <5>1
        <5>2. CASE notify' = [notify EXCEPT ![u] = q]
          BY <1>2, <4>1, <5>2
        <5> QED
          BY <1>1, <5>1, <5>2
      <4> QED
        BY <1>0, <1>1, <4>2 DEF TypeOK
    <3>2. pc' \in [User -> Position]
      BY <1>0, <1>1 DEF TypeOK, Position
    <3> QED
      BY <1>0, <1>1, <3>1, <3>2 DEF TypeOK, locks
  <2> QED
    BY <1>0, <1>1, <2>1 DEF Calm, Frame, TypeOK, locks
<1>4. /\ pc'[u] = "write" /\ job'[u] = "send" /\ job'[u] = job[u] /\ copy'[u] = copy[u]
      /\ line'[u] = line[u] /\ line[u] = 0 /\ modified'[u] = modified[u]
      /\ u \notin remote /\ remote' = remote
  BY <1>0, <1>1 DEF TypeOK, JobFits, TreeFits
<1>5. Fits(u)'
  BY <1>4 DEF Fits, JobFits, QueueFits, TreeFits
<1>6. ASSUME u \notin excused' PROVE Told(u)'
  <2>1. InsideHolds(u) /\ notify'[u] = q /\ u \notin editing'
    BY <1>0, <1>1, <1>6 DEF IndInv, Told, TypeOK
  <2>2. ~modified'[u] => Kept(u)'
    <3>1. Stays(u)
      BY <1>3, CalmStays
    <3> QED
      BY <1>1, <1>4, <2>1, <3>1 DEF InsideHolds, Kept, Stays
  <2> QED
    BY <1>2, <1>4, <2>1, <2>2
       DEF Told, OutsideHolds, InsideHolds, WriteHolds, AnswerHolds, LastSays
<1>7. LockHolds' /\ LockedIsCurrent'
  BY <1>1, <1>3, <1>4, InsideKeeps DEF OwnEntry
<1>8. Distinct(copy[u])'
  BY <1>3, <1>4, SameTree DEF Calm
<1> QED
  BY <1>3, <1>5, <1>6, <1>7, <1>8, CalmKeeps DEF Settled

\* A change of the tree at the end of which it is written.
LEMMA TreeTyped ==
  ASSUME TypeOK, NEW u \in User, TreeMoves(u)
  PROVE  /\ copy' \in [User -> [User -> {None} \union Editor]]
         /\ modified' \in [User -> BOOLEAN] /\ refused' \in [User -> BOOLEAN]
         /\ \A v \in User \ {u} : /\ copy'[v] = copy[v] /\ modified'[v] = modified[v]
                                  /\ refused'[v] = refused[v]
BY DEF TypeOK, TreeMoves

\* Checkin ends the edit on both sides, for a client once it is answered.
LEMMA CheckinKeeps ==
  ASSUME IndInv, NEW u \in User, Checkin(u)
  PROVE  IndInv'
<1>0. /\ TypeOK /\ JobFits(u) /\ QueueFits(u) /\ TreeFits(u)
      /\ copy[u] \in [User -> {None} \union Editor]
  BY DEF IndInv, TypeOK
<1>1. /\ pc[u] = "commit" /\ pc' = [pc EXCEPT ![u] = "write"]
      /\ editing' = IF u \in remote THEN editing ELSE editing \ {u}
      /\ copy' = [copy EXCEPT ![u] = ClearEditor(copy[u], u)]
      /\ modified' = [modified EXCEPT ![u] = copy[u][u] # None]
      /\ excused' = IF notify[u] = << >> THEN excused ELSE excused \union {u}
      /\ UNCHANGED <<lockserver, remote, disk, locks, notify, job, line, refused, crashes>>
  BY DEF Checkin, Goto, OldQueue
<1>2. /\ copy'[u] = [copy[u] EXCEPT ![u] = None] /\ copy'[u][u] = None
      /\ modified'[u] = (copy[u][u] # None) /\ ~modified[u]
  BY <1>0, <1>1 DEF TypeOK, ClearEditor, TreeFits
<1>3. TreeMoves(u)
  <2>1. /\ modified' = [modified EXCEPT ![u] = modified'[u]] /\ modified'[u] \in BOOLEAN
        /\ refused' = [refused EXCEPT ![u] = refused'[u]] /\ refused'[u] \in BOOLEAN
    BY <1>0, <1>1 DEF TypeOK
  <2>2. copy'[u] \in [User -> {None} \union Editor]
    BY <1>0, <1>2
  <2>3. copy' = [copy EXCEPT ![u] = copy'[u]]
    <3>1. copy'[u] = ClearEditor(copy[u], u)
      BY <1>0, <1>1 DEF TypeOK
    <3> QED
      BY <1>1, <3>1
  <2>4. OwnEntry(u) /\ (~modified'[u] => copy'[u][u] = copy[u][u])
    BY <1>0, <1>2 DEF OwnEntry
  <2> QED
    BY <1>2, <2>1, <2>2, <2>3, <2>4 DEF TreeMoves
<1>4. Calm(u)
  <2>1. TypeOK'
    <3>1. pc' \in [User -> Position] /\ excused' \subseteq User /\ editing' \subseteq User
      BY <1>0, <1>1 DEF TypeOK, Position
    <3> QED
      BY <1>0, <1>1, <1>3, <3>1, TreeTyped DEF TypeOK, locks
  <2> QED
    BY <1>0, <1>1, <1>3, <2>1, TreeTyped DEF Calm, Frame, TypeOK
<1>5. /\ pc'[u] = "write" /\ job'[u] = "commit" /\ job'[u] = job[u] /\ line'[u] = 0
      /\ ~refused'[u] /\ notify'[u] = notify[u] /\ remote' = remote
      /\ u \notin remote => u \notin editing'
  BY <1>0, <1>1 DEF TypeOK, JobFits, TreeFits
<1>6. Fits(u)'
  BY <1>0, <1>5 DEF Fits, JobFits, QueueFits, TreeFits
<1>7. ASSUME u \notin excused' PROVE Told(u)'
  <2>1. InsideHolds(u) /\ notify'[u] = << >>
    BY <1>0, <1>1, <1>5, <1>7 DEF IndInv, Told
  <2>2. ~modified'[u] => Kept(u)'
    <3>1. Stays(u)
      BY <1>4, CalmStays
    <3> QED
      BY <1>1, <1>2, <2>1, <3>1 DEF InsideHolds, Kept, Stays
  <2> QED
    BY <1>2, <1>5, <2>1, <2>2
       DEF Told, OutsideHolds, InsideHolds, WriteHolds, AnswerHolds, LastSays, TreeAgrees
<1>8. LockHolds' /\ LockedIsCurrent'
  BY <1>1, <1>3, <1>4, <1>5, InsideKeeps DEF TreeMoves
<1>9. Distinct(copy[u])'
  <2>1. NoClash(u)
    BY <1>2 DEF NoClash, IsExclusive
  <2> QED
    BY <1>3, <1>4, <2>1, OwnDistinct DEF Calm, TreeMoves
<1> QED
  BY <1>4, <1>6, <1>7, <1>8, <1>9, CalmKeeps DEF Settled

\* AutoEdit makes an edit on both sides or on none.
LEMMA AutoEditKeeps ==
  ASSUME IndInv, NEW u \in User, NEW excl \in BOOLEAN, AutoEdit(u, excl)
  PROVE  IndInv'
<1>0. /\ TypeOK /\ JobFits(u) /\ QueueFits(u) /\ TreeFits(u)
      /\ copy[u] \in [User -> {None} \union Editor]
  BY DEF IndInv, TypeOK
<1>1. /\ pc[u] = "auto" /\ pc' = [pc EXCEPT ![u] = "write"]
      /\ excused' = IF notify[u] = << >> THEN excused ELSE excused \union {u}
      /\ Release(u, FALSE)
      /\ UNCHANGED <<lockserver, remote, disk, notify, job, line, refused, crashes>>
  BY DEF AutoEdit, Goto, OldQueue
<1>2. /\ TreeMoves(u) /\ NoClash(u) /\ editing' \in {editing, editing \union {u}}
      /\ \/ copy'[u][u] # None /\ modified'[u] /\ u \in editing'
         \/ copy'[u] = copy[u] /\ ~modified'[u] /\ editing' = editing
  <2>0. ~modified[u] /\ refused \in [User -> BOOLEAN] /\ refused' = refused
    BY <1>0, <1>1 DEF TreeFits, TypeOK
  <2>1. CASE /\ CanEdit(copy[u], u, "none")
             /\ copy' = [copy EXCEPT ![u] = SetEditor(@, u, excl, "none")]
             /\ modified' = [modified EXCEPT ![u] = TRUE]
             /\ editing' = editing \union {u}
    <3>1. copy'[u] = SetEditor(copy[u], u, excl, "none") /\ modified'[u]
      BY <1>0, <2>1 DEF TypeOK
    <3>2. /\ copy'[u] \in [User -> {None} \union Editor] /\ copy'[u][u] # None
          /\ \A v \in User \ {u} : copy'[u][v] = copy[u][v]
      BY <1>0, <3>1, SetFacts
    <3>3. TreeMoves(u)
      BY <1>0, <2>0, <2>1, <3>1, <3>2 DEF TreeMoves, OwnEntry, TypeOK
    <3>4. NoClash(u)
      BY <1>0, <2>1, CanEditAlone DEF NoClash
    <3> QED
      BY <2>1, <3>1, <3>2, <3>3, <3>4
  <2>2. CASE UNCHANGED <<copy, modified, editing>>
    BY <1>0, <2>0, <2>2 DEF TreeMoves, OwnEntry, TypeOK, NoClash
  <2> QED
    BY <2>1, <2>2 DEF AutoEdit
<1>4. Calm(u)
  <2>1. TypeOK'
    <3>1. pc' \in [User -> Position] /\ excused' \subseteq User /\ editing' \subseteq User
      BY <1>0, <1>1, <1>2 DEF TypeOK, Position
    <3>2. writer' \in {None} \union User /\ readers' \subseteq User /\ overtaken' \in BOOLEAN
      BY <1>0, <1>1 DEF TypeOK, Release
    <3> QED
      BY <1>0, <1>1, <1>2, <3>1, <3>2, TreeTyped DEF TypeOK
  <2> QED
    BY <1>0, <1>1, <1>2, <2>1, TreeTyped DEF Calm, Frame, TypeOK
<1>5. /\ pc'[u] = "write" /\ job'[u] = "auto" /\ job'[u] = job[u] /\ line'[u] = 0
      /\ ~refused'[u] /\ notify'[u] = notify[u] /\ remote' = remote
  BY <1>0, <1>1 DEF TypeOK, JobFits, TreeFits
<1>6. Fits(u)'
  BY <1>0, <1>5 DEF Fits, JobFits, QueueFits, TreeFits
<1>7. ASSUME u \notin excused' PROVE Told(u)'
  <2>1. InsideHolds(u) /\ notify'[u] = << >> /\ notify[u] = << >>
    BY <1>0, <1>1, <1>5, <1>7 DEF IndInv, Told
  <2>2. ~modified'[u] => Kept(u)'
    <3>1. Stays(u)
      BY <1>4, CalmStays
    <3> QED
      BY <1>1, <1>2, <2>1, <3>1 DEF InsideHolds, Kept, Stays, TreeMoves
  <2>3. TreeAgrees(u)'
    BY <1>1, <1>2, <2>1 DEF InsideHolds, TreeAgrees
  <2> QED
    BY <1>5, <2>1, <2>2, <2>3
       DEF Told, OutsideHolds, InsideHolds, WriteHolds, AnswerHolds, LastSays
<1>8. LockHolds' /\ LockedIsCurrent'
  BY <1>1, <1>4, <1>5, ReleaseKeeps
<1>9. Distinct(copy[u])'
  BY <1>2, <1>4, OwnDistinct DEF Calm, TreeMoves
<1> QED
  BY <1>4, <1>6, <1>7, <1>8, <1>9, CalmKeeps DEF Settled

-----------------------------------------------------------------------------
(* The write *)

\* The command of u moves, with its tree, and no one else's.
CommandMoves(u) ==
    /\ pc' \in [User -> Position] /\ job' \in [User -> {"send", "commit", "auto"}]
    /\ copy' \in [User -> [User -> {None} \union Editor]]
    /\ line' \in [User -> 0 .. MaxNotes]
    /\ modified' \in [User -> BOOLEAN] /\ refused' \in [User -> BOOLEAN]
    /\ \A v \in User \ {u} :
         /\ pc'[v] = pc[v] /\ job'[v] = job[v] /\ copy'[v] = copy[v] /\ line'[v] = line[v]
         /\ modified'[v] = modified[v] /\ refused'[v] = refused[v]

\* What the file says after a step of u is what her tree said.
SaysTree(u) ==
    (copy[u][u] # None => Listed(u)') /\ (copy[u][u] = None => Unlisted(u)')

\* The end of a command that has the lock: a client waits for the answer.
LEMMA DoneFacts ==
  ASSUME TypeOK, NEW u \in User, NEW overtakes, Done(u, overtakes)
  PROVE  /\ CommandMoves(u) /\ Release(u, overtakes)
         /\ copy'[u] = Nobody /\ ~modified'[u]
         /\ \/ /\ pc'[u] = IF line[u] < Len(notify[u]) THEN "lock" ELSE "answer"
               /\ u \in remote /\ job[u] # "auto"
               /\ job'[u] = job[u] /\ line'[u] = line[u] /\ refused'[u] = refused[u]
            \/ /\ pc'[u] = "idle" /\ (u \notin remote \/ job[u] = "auto")
               /\ job'[u] = "send" /\ line'[u] = 0 /\ ~refused'[u]
<1> DEFINE where == IF line[u] < Len(notify[u]) THEN "lock" ELSE "answer"
<1>0. Release(u, overtakes) /\ Nobody \in [User -> {None} \union Editor] /\ where \in {"lock", "answer"}
  BY DEF Done, Nobody
<1>1. CASE /\ u \in remote /\ job[u] # "auto"
           /\ Free(u) /\ Goto(u, where) /\ UNCHANGED <<job, line, refused>>
  <2>1. /\ copy' = [copy EXCEPT ![u] = Nobody] /\ line' = line
        /\ modified' = [modified EXCEPT ![u] = FALSE] /\ pc' = [pc EXCEPT ![u] = where]
        /\ job' = job /\ refused' = refused
    BY <1>1 DEF Free, Goto
  <2> HIDE DEF where
  <2>2. CommandMoves(u)
    BY <1>0, <2>1, NotesAssumption DEF CommandMoves, TypeOK, Position
  <2>3. copy'[u] = Nobody /\ line'[u] = line[u] /\ ~modified'[u] /\ pc'[u] = where
    BY <2>1 DEF TypeOK
  <2> QED
    BY <1>0, <1>1, <2>1, <2>2, <2>3 DEF where
<1>2. CASE /\ ~(u \in remote /\ job[u] # "auto") /\ Finish(u)
  <2>1. /\ pc' = [pc EXCEPT ![u] = "idle"] /\ job' = [job EXCEPT ![u] = "send"]
        /\ copy' = [copy EXCEPT ![u] = Nobody] /\ line' = [line EXCEPT ![u] = 0]
        /\ modified' = [modified EXCEPT ![u] = FALSE] /\ refused' = [refused EXCEPT ![u] = FALSE]
    BY <1>2, FinishFacts
  <2>2. CommandMoves(u)
    BY <1>0, <1>2, <2>1, FinishTyped DEF CommandMoves, TypeOK
  <2>3. /\ pc'[u] = "idle" /\ job'[u] = "send" /\ copy'[u] = Nobody /\ line'[u] = 0
        /\ ~modified'[u] /\ ~refused'[u]
    BY <2>1 DEF TypeOK
  <2> QED
    BY <1>0, <1>2, <2>2, <2>3
<1> QED
  BY <1>1, <1>2 DEF Done

\* ... and the rest of what has to be known of u then.
LEMMA DoneTold ==
  ASSUME IndInv, NEW u \in User, pc[u] \in {"write", "writing"},
         NEW overtakes, Done(u, overtakes), UNCHANGED <<remote, editing, notify>>
  PROVE  /\ Fits(u)'
         /\ u \notin excused /\ SaysTree(u) => Told(u)'
<1>0. /\ TypeOK /\ JobFits(u) /\ QueueFits(u) /\ TreeFits(u)
      /\ job[u] \in {"send", "commit", "auto"}
      /\ remote' = remote /\ editing' = editing /\ notify'[u] = notify[u]
  BY DEF IndInv, TypeOK
<1>1. /\ copy'[u] = Nobody /\ ~modified'[u]
      /\ \/ /\ pc'[u] = IF line[u] < Len(notify[u]) THEN "lock" ELSE "answer"
            /\ u \in remote /\ job[u] # "auto"
            /\ job'[u] = job[u] /\ line'[u] = line[u] /\ refused'[u] = refused[u]
         \/ /\ pc'[u] = "idle" /\ (u \notin remote \/ job[u] = "auto")
            /\ job'[u] = "send" /\ line'[u] = 0 /\ ~refused'[u]
  BY <1>0, DoneFacts
<1>c. /\ notify[u] \in Seq(Note) /\ Len(notify[u]) \in Nat /\ line[u] \in Nat /\ line[u] <= Len(notify[u])
      /\ u \in remote /\ job[u] = "send" => line[u] # 0
      /\ u \in remote /\ job[u] = "commit" => line[u] = 0 /\ notify[u] = << >> /\ Len(notify[u]) = 0
  BY <1>0, QueueFacts DEF TypeOK, QueueFits, TreeFits
<1>2. Fits(u)'
  <2>1. CASE pc'[u] = "idle"
    BY <1>0, <1>1, <2>1 DEF Fits, JobFits, QueueFits, TreeFits
  <2>2. CASE pc'[u] \in {"lock", "answer"}
    BY <1>0, <1>1, <1>c, <2>2, QueueFacts DEF Fits, JobFits, QueueFits, TreeFits
  <2> QED
    BY <1>1, <2>1, <2>2
<1>3. ASSUME u \notin excused, SaysTree(u) PROVE Told(u)'
  <2>1. WriteHolds(u)
    BY <1>3 DEF IndInv, Told
  <2>2. LastSays(u)'
    BY <1>0, <2>1 DEF WriteHolds, LastSays
  <2>3. CASE pc'[u] = "idle"
    <3>1. notify[u] = << >> => TreeAgrees(u)
      BY <1>1, <2>1, <2>3 DEF WriteHolds
    <3>2. notify'[u] = << >> => Agrees(u)'
      BY <1>0, <1>3, <3>1 DEF Agrees, SaysTree, TreeAgrees
    <3> QED
      BY <2>2, <2>3, <3>2, ToldOutside
  <2>4. CASE pc'[u] = "answer"
    <3>1. /\ u \in remote /\ job'[u] = job[u] /\ refused'[u] = refused[u] /\ job[u] # "auto"
          /\ line'[u] = line[u]
      BY <1>1, <2>4
    <3>2. job[u] = "commit" => Unlisted(u)'
      BY <1>3, <2>1, <3>1 DEF WriteHolds, SaysTree
    <3>3. job[u] = "send" /\ ~refused[u] =>
            /\ notify[u][line[u]].type = "E" => Listed(u)'
            /\ notify[u][line[u]].type = "U" => Unlisted(u)'
      BY <1>3, <2>1, <3>1 DEF WriteHolds, SaysTree
    <3> QED
      BY <1>0, <2>2, <2>4, <3>1, <3>2, <3>3
         DEF Told, OutsideHolds, InsideHolds, WriteHolds, AnswerHolds
  <2>5. CASE pc'[u] = "lock"
    <3>1. notify[u] # << >>
      BY <1>0, <1>1, <1>c, <2>5
    <3> QED
      BY <1>0, <2>2, <2>5, <3>1, ToldOutside
  <2> QED
    BY <1>1, <2>3, <2>4, <2>5
<1> QED
  BY <1>2, <1>3

\* Nothing was changed: the file already says what the tree does.
LEMMA WriteNothing ==
  ASSUME IndInv, NEW u \in User, pc[u] = "write", ~modified[u], Done(u, FALSE),
         UNCHANGED <<lockserver, remote, disk, editing, notify, crashes, excused>>
  PROVE  IndInv'
<1>0. TypeOK
  BY DEF IndInv
<1>1. /\ CommandMoves(u) /\ Release(u, FALSE) /\ copy'[u] = Nobody
      /\ pc'[u] \in {"idle", "lock", "answer"}
  BY <1>0, DoneFacts
<1>2. Calm(u)
  <2>1. writer' \in {None} \union User /\ readers' \subseteq User /\ overtaken' \in BOOLEAN
    BY <1>0, <1>1 DEF Release, TypeOK
  <2>2. TypeOK'
    BY <1>0, <1>1, <2>1 DEF TypeOK, CommandMoves
  <2> QED
    BY <1>0, <1>1, <2>2 DEF Calm, Frame, CommandMoves
<1>3. ASSUME u \notin excused' PROVE Told(u)'
  <2>1. Kept(u) /\ Stays(u)
    BY <1>2, <1>3, CalmStays DEF IndInv, Told, InsideHolds
  <2>2. SaysTree(u)
    BY <2>1 DEF Kept, Stays, SaysTree
  <2> QED
    BY <1>3, <2>2, DoneTold
<1>4. Fits(u)'
  BY DoneTold
<1>5. LockHolds' /\ LockedIsCurrent'
  BY <1>1, <1>2, ReleaseKeeps DEF Inside
<1>6. Distinct(copy[u])'
  BY <1>1, EmptyTree
<1> QED
  BY <1>2, <1>3, <1>4, <1>5, <1>6, CalmKeeps DEF Settled

\* What is left to show of a step that touches the file.
Written(u) ==
    /\ TypeOK' /\ Frame(u) /\ LockHolds' /\ LockedIsCurrent'
    /\ Fits(u)' /\ AllDistinct' /\ OneWrites'
    /\ \A v \in User \ {u} : v \notin excused' => Stays(v)
    /\ u \notin excused' => Told(u)'

\* The invariant after such a step.
LEMMA WrittenKeeps ==
  ASSUME IndInv, NEW u \in User, Written(u)
  PROVE  IndInv'
<1>0. Frame(u) /\ excused \subseteq excused'
  BY DEF Written, Frame
<1>1. \A v \in User : (JobFits(v) /\ QueueFits(v) /\ TreeFits(v))'
  <2> SUFFICES ASSUME NEW v \in User PROVE Fits(v)'
    BY DEF Fits
  <2>1. Fits(v)
    BY DEF IndInv, Fits
  <2> QED
    BY <1>0, <2>1, OthersFit DEF Written
<1>2. \A v \in User \ excused' : Told(v)'
  <2> SUFFICES ASSUME NEW v \in User, v \notin excused' PROVE Told(v)'
    OBVIOUS
  <2>1. Told(v)
    BY <1>0 DEF IndInv
  <2> QED
    BY <1>0, <2>1, OthersTold DEF Written
<1> QED
  BY <1>1, <1>2 DEF IndInv, Written

\* While a command is inside no one else has the write lock, unless it is an update.
LEMMA NoOtherWriter ==
  ASSUME IndInv, NEW u \in User, pc[u] \in Inside, job[u] # "auto", NEW w \in User, writer = w
  PROVE  w = u
BY NoneAssumption DEF IndInv, LockHolds

\* WriteStart truncates the file: who was in it as the tree has it will be so again,
\* and the others are excused.
LEMMA WriteTruncates ==
  ASSUME IndInv, NEW u \in User, pc[u] = "write",
         disk' = Torn, excused' = excused \union Overwritten(u),
         pc' = [pc EXCEPT ![u] = "writing"],
         overtaken' = (writer # None /\ (overtaken \/ job[u] = "auto")),
         UNCHANGED <<lockserver, remote, writer, readers, editing, notify, job, copy, line,
                     modified, refused, crashes>>
  PROVE  IndInv'
<1>0. /\ TypeOK /\ JobFits(u) /\ QueueFits(u) /\ TreeFits(u) /\ LockHolds /\ pc[u] \in Inside
      /\ Overwritten(u) \subseteq User /\ OneWrites /\ excused \subseteq User
  BY DEF IndInv, TypeOK, Inside, Overwritten
<1>1. TypeOK'
  BY <1>0 DEF TypeOK, Position
<1>2. Frame(u) /\ pc'[u] = "writing"
  BY <1>0 DEF Frame, TypeOK
<1>3. LockHolds'
  <2>1. writer' = None => ~overtaken'
    OBVIOUS
  <2>2. \A w \in User : (pc'[w] \in Inside <=> pc[w] \in Inside) /\ job'[w] = job[w]
    BY <1>0, <1>2 DEF Frame, Inside
  <2> QED
    BY <1>0, <2>1, <2>2 DEF LockHolds
<1>4. LockedIsCurrent'
  <2>1. \A w \in User : writer' = w /\ ~overtaken' => w = u
    BY <1>0, NoOtherWriter, NoneAssumption
  <2> QED
    BY <1>2, <2>1 DEF LockedIsCurrent
<1>5. Fits(u)'
  BY <1>0, <1>2 DEF Fits, JobFits, QueueFits, TreeFits
<1>6. AllDistinct'
  <2>1. \A w \in User : Distinct(copy[w])'
    <3> SUFFICES ASSUME NEW w \in User PROVE Distinct(copy[w])'
      OBVIOUS
    <3>1. Distinct(copy[w])
      BY DEF IndInv, AllDistinct
    <3> QED
      BY <1>2, <3>1, DistinctGrows DEF Distinct
  <2> QED
    BY <2>1 DEF AllDistinct, OneExclusive
<1>7. disk = Torn => excused' = User
  BY <1>0 DEF Overwritten
<1>8. excused' # User => disk # Torn /\ \A v \in User : pc[v] # "writing"
  BY <1>0, <1>7 DEF OneWrites
<1>9. OneWrites'
  BY <1>2, <1>8 DEF OneWrites, Frame
<1>10. ASSUME NEW v \in User \ {u}, v \notin excused' PROVE Stays(v)
  <2>1. disk # Torn /\ disk[v] = copy[u][v] /\ \A w \in User : pc[w] # "writing"
    BY <1>0, <1>8, <1>10 DEF Overwritten
  <2>2. \A w \in User : pc'[w] = "writing" => w = u
    BY <1>2, <2>1 DEF Frame
  <2> QED
    BY <2>1, <2>2 DEF Stays, Listed, Unlisted
<1>11. ASSUME u \notin excused' PROVE Told(u)'
  <2>1. WriteHolds(u)
    BY <1>0, <1>11 DEF IndInv, Told
  <2>2. \A w \in User : pc'[w] = "writing" => w = u
    BY <1>0, <1>2, <1>8, <1>11 DEF Frame
  <2>3. Kept(u)'
    BY <2>2 DEF Kept, Listed, Unlisted
  <2>4. WriteHolds(u)'
    BY <1>2, <2>1 DEF WriteHolds, LastSays, TreeAgrees
  <2> QED
    BY <1>2, <2>3, <2>4 DEF Told, OutsideHolds, InsideHolds, AnswerHolds
<1> QED
  BY <1>1, <1>2, <1>3, <1>4, <1>5, <1>6, <1>9, <1>10, <1>11, WrittenKeeps DEF Written

\* WriteStart, whether the tree was changed or not.
LEMMA WriteStartKeeps ==
  ASSUME IndInv, NEW u \in User, WriteStart(u)
  PROVE  IndInv'
<1>1. CASE /\ modified[u] /\ disk' = Torn /\ excused' = excused \union Overwritten(u)
           /\ overtaken' = (writer # None /\ (overtaken \/ job[u] = "auto"))
           /\ Goto(u, "writing") /\ UNCHANGED <<writer, readers, job, tree>>
  BY <1>1, WriteTruncates DEF WriteStart, Goto, local, tree
<1>2. CASE ~modified[u] /\ Done(u, FALSE) /\ UNCHANGED <<disk, excused>>
  BY <1>2, WriteNothing DEF WriteStart, local
<1> QED
  BY <1>1, <1>2 DEF WriteStart

\* WriteEnd: the file is the tree, or torn if another one writes as well.
LEMMA WriteEndKeeps ==
  ASSUME IndInv, NEW u \in User, WriteEnd(u)
  PROVE  IndInv'
<1>0. /\ TypeOK /\ LockHolds /\ pc[u] = "writing" /\ pc[u] \in Inside /\ OneWrites
      /\ copy[u] \in [User -> {None} \union Editor] /\ excused \subseteq User
  BY DEF IndInv, TypeOK, Inside, WriteEnd
<1>1. /\ disk' = copy[u] \/ disk' = Torn
      /\ excused \subseteq excused' /\ excused' \subseteq User
      /\ Done(u, job[u] = "auto")
      /\ UNCHANGED <<lockserver, remote, editing, notify, crashes>>
  BY <1>0 DEF WriteEnd, local
<1>2. /\ CommandMoves(u) /\ Release(u, job[u] = "auto") /\ copy'[u] = Nobody
      /\ pc'[u] \in {"idle", "lock", "answer"}
  BY <1>0, <1>1, DoneFacts
<1>3. TypeOK'
  <2>1. writer' \in {None} \union User /\ readers' \subseteq User /\ overtaken' \in BOOLEAN
    BY <1>0, <1>2 DEF Release, TypeOK
  <2>2. disk' = Torn \/ disk' \in [User -> {None} \union Editor]
    BY <1>0, <1>1
  <2> QED
    BY <1>0, <1>1, <1>2, <2>1, <2>2 DEF TypeOK, CommandMoves
<1>4. Frame(u)
  BY <1>1, <1>2 DEF Frame, CommandMoves
<1>5. /\ writer' = (IF writer = u THEN None ELSE writer)
      /\ overtaken' <=> writer' # None /\ (overtaken \/ job[u] = "auto")
  BY <1>2 DEF Release
<1>6. LockHolds' /\ LockedIsCurrent'
  <2>1. \A w \in User : writer' = w => writer = w /\ w # u
    BY <1>5, NoneAssumption
  <2>2. pc'[u] \notin Inside
    BY <1>2 DEF Inside
  <2>3. \A w \in User : writer' = w => overtaken'
    BY <1>0, <1>5, <2>1, NoOtherWriter, NoneAssumption
  <2>4. LockHolds'
    <3>1. writer' = None => ~overtaken'
      BY <1>5
    <3>2. \A w \in User \ {u} : pc'[w] = pc[w] /\ job'[w] = job[w]
      BY <1>4 DEF Frame
    <3>3. \A w \in User \ {u} : writer = w => writer' = w
      BY <1>5
    <3>4. lockserver' = lockserver /\ (writer = None => writer' = None)
      BY <1>1, <1>5
    <3> QED
      BY <1>0, <2>1, <2>2, <3>1, <3>2, <3>3, <3>4 DEF LockHolds
  <2> QED
    BY <2>3, <2>4 DEF LockedIsCurrent
<1>7. Fits(u)'
  BY <1>0, <1>1, DoneTold
<1>8. AllDistinct'
  <2>1. \A w \in User : Distinct(copy[w])
    BY DEF IndInv, AllDistinct
  <2>2. \A w \in User : Distinct(copy[w])'
    <3> SUFFICES ASSUME NEW w \in User PROVE Distinct(copy[w])'
      OBVIOUS
    <3>1. CASE w = u
      BY <1>2, <3>1, EmptyTree
    <3>2. CASE w # u
      <4>1. copy'[w] = copy[w] /\ Distinct(copy[w])
        BY <1>4, <2>1, <3>2 DEF Frame
      <4> QED
        BY <1>4, <4>1, DistinctGrows DEF Distinct
    <3> QED
      BY <3>1, <3>2
  <2>3. OneExclusive'
    <3>1. CASE disk' = Torn
      BY <3>1 DEF OneExclusive
    <3>2. CASE disk' = copy[u]
      BY <1>4, <2>1, <3>2, DistinctGrows DEF OneExclusive
    <3> QED
      BY <1>1, <3>1, <3>2
  <2> QED
    BY <2>2, <2>3 DEF AllDistinct
<1>9. \A w \in User : pc'[w] = "writing" => w # u /\ pc[w] = "writing" /\ copy'[w] = copy[w]
  BY <1>2, <1>4 DEF Frame
<1>10. OneWrites'
  <2>1. excused' # User => \A w \in User : pc'[w] # "writing"
    BY <1>0, <1>1, <1>9 DEF OneWrites
  <2> QED
    BY <2>1 DEF OneWrites
<1>11. \A v \in User : Stays(v)
  <2> SUFFICES ASSUME NEW v \in User PROVE Stays(v)
    OBVIOUS
  <2>1. Listed(v) => Listed(v)'
    BY <1>0, <1>1, <1>9 DEF Listed
  <2>2. Unlisted(v) => Unlisted(v)'
    BY <1>0, <1>1, <1>9 DEF Unlisted
  <2> QED
    BY <2>1, <2>2 DEF Stays
<1>12. ASSUME u \notin excused' PROVE Told(u)'
  <2>1. Kept(u) /\ Stays(u) /\ u \notin excused
    BY <1>0, <1>1, <1>11, <1>12 DEF IndInv, Told, InsideHolds
  <2>2. SaysTree(u)
    BY <2>1 DEF Kept, Stays, SaysTree
  <2> QED
    BY <1>0, <1>1, <2>1, <2>2, DoneTold
<1> QED
  BY <1>3, <1>4, <1>6, <1>7, <1>8, <1>10, <1>11, <1>12, WrittenKeeps DEF Written

-----------------------------------------------------------------------------
(* The end of a command *)

\* Answer: the first line goes, and the repository says what it said.
LEMMA AnswerKeeps ==
  ASSUME IndInv, NEW u \in User, Answer(u)
  PROVE  IndInv'
<1>0. /\ TypeOK /\ JobFits(u) /\ QueueFits(u) /\ TreeFits(u) /\ pc[u] = "answer"
      /\ notify[u] \in Seq(Note) /\ Len(notify[u]) \in Nat /\ Len(notify[u]) <= MaxNotes
      /\ job[u] \in {"send", "commit"} /\ u \in remote
      /\ line[u] \in Nat /\ line[u] <= MaxNotes
      /\ UNCHANGED <<lockserver, remote, disk, locks, crashes>>
  BY QueueFacts, NotesAssumption DEF IndInv, TypeOK, JobFits, Answer
<1>1. /\ job[u] = "send" =>
           /\ line[u] # 0 /\ line[u] <= Len(notify[u]) /\ notify[u] # << >>
           /\ notify' = [notify EXCEPT ![u] = Tail(notify[u])]
           /\ excused' = (IF refused[u] THEN excused \union {u} ELSE excused)
           /\ editing' = editing
           /\ Tail(notify[u]) \in Seq(Note) /\ Len(Tail(notify[u])) = Len(notify[u]) - 1
      /\ job[u] = "commit" =>
           /\ line[u] = 0 /\ notify[u] = << >>
           /\ editing' = editing \ {u} /\ notify' = notify /\ excused' = excused
  <2>1. job[u] = "send" => line[u] # 0 /\ line[u] <= Len(notify[u]) /\ notify[u] # << >>
    BY <1>0, QueueFacts DEF QueueFits, TreeFits
  <2>2. job[u] = "commit" => line[u] = 0 /\ notify[u] = << >>
    BY <1>0 DEF QueueFits, TreeFits
  <2> QED
    BY <1>0, <2>1, <2>2, TailFacts DEF Answer
<1>2. /\ CommandMoves(u)
      /\ \/ /\ line[u] > 1 /\ pc'[u] = "answer" /\ job'[u] = job[u] /\ line'[u] = line[u] - 1
            /\ copy'[u] = copy[u] /\ modified'[u] = modified[u] /\ refused'[u] = refused[u]
         \/ /\ line[u] <= 1 /\ pc'[u] = "idle" /\ job'[u] = "send" /\ line'[u] = 0
            /\ copy'[u] = Nobody /\ ~modified'[u] /\ ~refused'[u]
  <2>1. CASE line[u] > 1
    <3>1. line' = [line EXCEPT ![u] = @ - 1] /\ UNCHANGED <<pc, job, copy, modified, refused>>
      BY <2>1 DEF Answer
    <3>2. line[u] - 1 \in 0 .. MaxNotes
      BY <1>0, <2>1, NotesAssumption
    <3>3. CommandMoves(u) /\ line'[u] = line[u] - 1
      BY <1>0, <3>1, <3>2 DEF CommandMoves, TypeOK
    <3> QED
      BY <1>0, <2>1, <3>1, <3>3
  <2>2. CASE ~(line[u] > 1)
    <3>1. Finish(u)
      BY <2>2 DEF Answer
    <3>2. /\ pc' = [pc EXCEPT ![u] = "idle"] /\ job' = [job EXCEPT ![u] = "send"]
          /\ copy' = [copy EXCEPT ![u] = Nobody] /\ line' = [line EXCEPT ![u] = 0]
          /\ modified' = [modified EXCEPT ![u] = FALSE] /\ refused' = [refused EXCEPT ![u] = FALSE]
      BY <1>0, <3>1, FinishFacts
    <3>3. CommandMoves(u)
      BY <1>0, <3>1, <3>2, FinishTyped DEF CommandMoves, TypeOK
    <3> QED
      BY <1>0, <2>2, <3>1, <3>3, FinishFacts
  <2> QED
    BY <2>1, <2>2
<1>3. Calm(u)
  <2>1. /\ notify' \in [User -> Seq(Note)] /\ \A v \in User : Len(notify'[v]) <= MaxNotes
        /\ editing' \subseteq User /\ excused' \subseteq User
    <3>1. notify \in [User -> Seq(Note)] /\ \A v \in User : Len(notify[v]) <= MaxNotes
      BY <1>0 DEF TypeOK
    <3>2. editing \subseteq User /\ excused \subseteq User
      BY <1>0 DEF TypeOK
    <3>3. CASE job[u] = "commit"
      BY <1>1, <3>1, <3>2, <3>3
    <3>4. CASE job[u] = "send"
      <4>1. notify[u] \in Seq(Note) /\ notify[u] # << >> /\ Len(notify[u]) <= MaxNotes
        BY <1>0, <1>1, <3>1, <3>4
      <4>2. Tail(notify[u]) \in Seq(Note) /\ Len(Tail(notify[u])) <= MaxNotes
        BY <4>1, NotesAssumption
      <4>3. notify' = [notify EXCEPT ![u] = Tail(notify[u])] /\ editing' = editing
        BY <1>1, <3>4
      <4> QED
        BY <1>1, <3>1, <3>2, <3>4, <4>2, <4>3
    <3> QED
      BY <1>0, <3>3, <3>4
  <2>2. TypeOK'
    BY <1>0, <1>2, <2>1 DEF TypeOK, locks, CommandMoves
  <2>3. \A v \in User \ {u} : notify'[v] = notify[v] /\ (v \in editing' <=> v \in editing)
    BY <1>0, <1>1 DEF TypeOK
  <2>4. excused \subseteq excused' /\ (excused' \subseteq excused \union {u})
    BY <1>0, <1>1
  <2>5. Frame(u)
    BY <1>0, <1>2, <2>3, <2>4 DEF Frame, CommandMoves
  <2> QED
    BY <1>0, <1>2, <2>2, <2>5 DEF Calm
<1>5. /\ job[u] = "send" => notify'[u] = Tail(notify[u])
      /\ job[u] = "commit" => notify'[u] = << >> /\ u \notin editing'
      /\ remote' = remote
  BY <1>0, <1>1 DEF TypeOK
<1>6. Fits(u)'
  <2>1. CASE pc'[u] = "idle"
    BY <1>2, <2>1 DEF Fits, JobFits, QueueFits, TreeFits
  <2>2. CASE pc'[u] = "answer"
    <3>0. job[u] = "send"
      BY <1>0, <1>1, <1>2, <2>2
    <3>1. job[u] = "send" /\ Len(notify'[u]) = Len(notify[u]) - 1 /\ line[u] <= Len(notify[u])
      BY <1>1, <1>5, <3>0
    <3> QED
      BY <1>0, <1>2, <1>5, <2>2, <3>1 DEF Fits, JobFits, QueueFits, TreeFits
  <2> QED
    BY <1>2, <2>1, <2>2
<1>7. ASSUME u \notin excused' PROVE Told(u)'
  <2>1. /\ AnswerHolds(u) /\ Stays(u) /\ (job[u] = "send" => ~refused[u])
    BY <1>0, <1>1, <1>3, <1>7, CalmStays DEF IndInv, Told
  <2>2. CASE job[u] = "commit"
    <3>1. LastSays(u)' /\ Agrees(u)'
      BY <1>0, <1>5, <2>1, <2>2 DEF AnswerHolds, Stays, LastSays, Agrees
    <3> QED
      BY <1>1, <1>2, <2>2, <3>1, ToldOutside
  <2>3. CASE job[u] = "send"
    <3> DEFINE q == notify[u]
               k == line[u]
    <3>1. /\ notify'[u] # << >> => notify'[u][Len(notify'[u])] = q[Len(q)]
          /\ notify'[u] = << >> => Len(q) = 1
          /\ \A i \in 1 .. Len(q) - 1 : notify'[u][i] = q[i + 1]
          /\ Len(notify'[u]) = Len(q) - 1
      <4>1. q \in Seq(Note) /\ q # << >> /\ notify'[u] = Tail(q)
        BY <1>0, <1>1, <1>5, <2>3
      <4>2. /\ Len(Tail(q)) = Len(q) - 1
            /\ Tail(q) # << >> => Tail(q)[Len(Tail(q))] = q[Len(q)]
            /\ \A i \in 1 .. Len(q) - 1 : Tail(q)[i] = q[i + 1]
        BY <4>1, TailFacts
      <4>3. Tail(q) = << >> => Len(q) = 1
        <5>1. Len(q) \in Nat /\ Tail(q) \in Seq(Note)
          BY <4>1, QueueFacts, TailFacts
        <5>2. Tail(q) = << >> <=> Len(Tail(q)) = 0
          BY <5>1, QueueFacts
        <5> QED
          BY <4>2, <5>1, <5>2
      <4> QED
        BY <4>1, <4>2, <4>3
    <3>2. q[Len(q)].type = "E" <=> u \in editing
      BY <1>0, <1>1, <2>1, <2>3 DEF AnswerHolds, LastSays
    <3>3. LastSays(u)'
      BY <1>1, <2>3, <3>1, <3>2 DEF LastSays
    <3>4. q[Len(q)].type \in {"E", "U"}
      BY <1>0, <1>1, <2>3, QueueFacts
    <3>5. k = Len(q) => (q[k].type = "E" => Listed(u)') /\ (q[k].type = "U" => Unlisted(u)')
      BY <1>0, <2>1, <2>3 DEF AnswerHolds, Stays
    <3>6. CASE pc'[u] = "idle"
      <4>1. ASSUME notify'[u] = << >> PROVE Agrees(u)'
        <5>1. k = Len(q)
          BY <1>0, <1>1, <1>2, <2>3, <3>1, <3>6, <4>1
        <5> QED
          BY <1>1, <2>3, <3>2, <3>4, <3>5, <5>1 DEF Agrees
      <4> QED
        BY <3>3, <3>6, <4>1, ToldOutside
    <3>7. CASE pc'[u] = "answer"
      <4>1. k \in Nat /\ k > 1 /\ k <= Len(q) /\ line'[u] = k - 1 /\ job'[u] = "send"
        BY <1>0, <1>1, <1>2, <2>3, <3>7
      <4>2. notify'[u][k - 1] = q[k]
        <5>1. k - 1 \in 1 .. Len(q) - 1 /\ (k - 1) + 1 = k
          BY <1>0, <4>1
        <5> QED
          BY <3>1, <5>1
      <4>3. line'[u] = Len(notify'[u]) => k = Len(q)
        BY <1>0, <3>1, <4>1
      <4> QED
        BY <3>3, <3>5, <3>7, <4>1, <4>2, <4>3
           DEF Told, OutsideHolds, InsideHolds, WriteHolds, AnswerHolds
    <3> QED
      BY <1>2, <3>6, <3>7
  <2> QED
    BY <1>0, <2>2, <2>3
<1>8. LockHolds' /\ LockedIsCurrent'
  BY <1>0, <1>2, <1>3, OutsideKeeps DEF Inside
<1>9. Distinct(copy[u])'
  BY <1>2, <1>3, EmptyTree, SameTree DEF Calm
<1> QED
  BY <1>3, <1>6, <1>7, <1>8, <1>9, CalmKeeps DEF Settled

\* Crash: where it is harmless the queue still says what is to be done.
LEMMA CrashKeeps ==
  ASSUME IndInv, NEW u \in User, Crash(u)
  PROVE  IndInv'
<1>0. TypeOK /\ JobFits(u) /\ QueueFits(u) /\ TreeFits(u)
  BY DEF IndInv
<1>1. /\ crashes < MaxCrash /\ crashes' = crashes + 1
      /\ excused' = IF Harmless(u) THEN excused ELSE excused \union {u}
      /\ Release(u, FALSE) /\ Finish(u)
      /\ UNCHANGED <<lockserver, remote, disk, editing, notify>>
  BY DEF Crash, local
<1>2. /\ pc'[u] = "idle" /\ Fits(u)' /\ copy'[u] = Nobody
      /\ notify'[u] = notify[u] /\ editing' = editing
  BY <1>0, <1>1, FinishFacts
<1>3. Calm(u)
  <2>1. /\ writer' \in {None} \union User /\ readers' \subseteq User /\ overtaken' \in BOOLEAN
        /\ excused' \subseteq User
    BY <1>0, <1>1 DEF Release, TypeOK
  <2>2. crashes' \in 0 .. MaxCrash
    BY <1>0, <1>1, NotesAssumption DEF TypeOK
  <2>3. TypeOK'
    BY <1>0, <1>1, <2>1, <2>2, FinishTyped DEF TypeOK
  <2>4. Frame(u)
    <3>1. /\ pc' = [pc EXCEPT ![u] = "idle"] /\ job' = [job EXCEPT ![u] = "send"]
          /\ copy' = [copy EXCEPT ![u] = Nobody] /\ line' = [line EXCEPT ![u] = 0]
          /\ modified' = [modified EXCEPT ![u] = FALSE]
          /\ refused' = [refused EXCEPT ![u] = FALSE]
      BY <1>0, <1>1, FinishFacts
    <3> QED
      BY <1>0, <1>1, <3>1 DEF Frame, TypeOK
  <2> QED
    BY <1>1, <1>2, <2>3, <2>4 DEF Calm
<1>4. ASSUME u \notin excused' PROVE Told(u)'
  <2>1. Harmless(u) /\ Told(u) /\ Stays(u)
    BY <1>0, <1>1, <1>3, <1>4, CalmStays DEF IndInv
  <2>2. LastSays(u)
    BY <2>1 DEF Harmless, Told, OutsideHolds, InsideHolds, WriteHolds, AnswerHolds
  <2>3. notify[u] = << >> => Agrees(u)
    <3>1. CASE pc[u] \in {"lock", "send"}
      BY <1>0, <2>1, <3>1 DEF Told, OutsideHolds, QueueFits
    <3>2. CASE u \in remote /\ job[u] = "send" /\ pc[u] \in {"write", "answer"}
      <4>1. line[u] # 0 /\ line[u] <= Len(notify[u]) /\ line[u] \in Nat
        BY <1>0, <3>2, NotesAssumption DEF QueueFits, TreeFits, TypeOK
      <4>2. notify[u] # << >>
        BY <4>1
      <4> QED
        BY <4>2
    <3> QED
      BY <2>1, <3>1, <3>2 DEF Harmless
  <2> QED
    BY <1>2, <2>1, <2>2, <2>3, ToldOutside DEF LastSays, Agrees, Stays
<1>5. LockHolds' /\ LockedIsCurrent'
  BY <1>1, <1>2, <1>3, ReleaseKeeps DEF Inside
<1>6. Distinct(copy[u])'
  BY <1>2, EmptyTree
<1> QED
  BY <1>2, <1>3, <1>4, <1>5, <1>6, CalmKeeps DEF Settled

-----------------------------------------------------------------------------
(* The theorems *)

\* At first there are no editors, no queues and no commands.
LEMMA InitIndInv == Init => IndInv
<1> SUFFICES ASSUME Init PROVE IndInv
  OBVIOUS
<1>1. /\ \A u \in User : /\ pc[u] = "idle" /\ job[u] = "send" /\ notify[u] = << >>
                         /\ copy[u] = Nobody /\ line[u] = 0 /\ ~modified[u] /\ ~refused[u]
      /\ disk = Nobody /\ editing = {} /\ excused = {} /\ writer = None /\ ~overtaken
  BY DEF Init
<1>2. \A u \in User : Nobody[u] = None
  BY DEF Nobody
<1>3. TypeOK
  <2>1. Nobody \in [User -> {None} \union Editor]
    BY DEF Nobody
  <2>2. << >> \in Seq(Note) /\ Len(<< >>) = 0
    OBVIOUS
  <2>3. overtaken \in BOOLEAN /\ lockserver \in BOOLEAN
    BY DEF Init
  <2>4. 0 \in 0 .. MaxNotes /\ 0 \in 0 .. MaxCrash
    BY NotesAssumption
  <2> QED
    BY <2>1, <2>2, <2>3, <2>4 DEF Init, TypeOK, Position
<1>4. LockHolds /\ LockedIsCurrent
  BY <1>1, NoneAssumption DEF LockHolds, LockedIsCurrent, Inside
<1>5. \A u \in User : JobFits(u) /\ QueueFits(u) /\ TreeFits(u)
  BY <1>1 DEF JobFits, QueueFits, TreeFits
<1>6. AllDistinct
  BY <1>1, NobodyDistinct DEF AllDistinct, OneExclusive, Distinct
<1>7. OneWrites
  BY <1>1 DEF OneWrites
<1>8. \A u \in User \ excused : Told(u)
  <2> SUFFICES ASSUME NEW u \in User PROVE Told(u)
    OBVIOUS
  <2>1. Unlisted(u)
    BY <1>1, <1>2 DEF Unlisted
  <2> QED
    BY <1>1, <2>1 DEF Told, OutsideHolds, InsideHolds, WriteHolds, AnswerHolds, LastSays, Agrees
<1> QED
  BY <1>3, <1>4, <1>5, <1>6, <1>7, <1>8 DEF IndInv

\* Every step keeps the invariant.
LEMMA NextIndInv == IndInv /\ [Next]_vars => IndInv'
<1> SUFFICES ASSUME IndInv, [Next]_vars PROVE IndInv'
  OBVIOUS
<1>1. CASE UNCHANGED vars
  <2>1. /\ UNCHANGED <<lockserver, remote, disk, writer, readers, overtaken, editing, notify>>
        /\ UNCHANGED <<pc, job, copy, line, modified, refused, crashes, excused>>
    BY <1>1 DEF vars, locks, local, tree
  <2>2. TypeOK' /\ LockHolds' /\ LockedIsCurrent'
    BY <2>1 DEF IndInv, TypeOK, LockHolds, LockedIsCurrent
  <2>3. AllDistinct' /\ OneWrites'
    BY <2>1 DEF IndInv, AllDistinct, OneExclusive, Distinct, IsExclusive, OneWrites
  <2>4. \A u \in User : (JobFits(u) /\ QueueFits(u) /\ TreeFits(u))'
    BY <2>1 DEF IndInv, JobFits, QueueFits, TreeFits, HasRoom
  <2>5. \A u \in User \ excused' : Told(u)'
    <3> SUFFICES ASSUME NEW u \in User, u \notin excused PROVE Told(u)'
      BY <2>1
    <3>1. Told(u)
      BY DEF IndInv
    <3>2. Listed(u)' <=> Listed(u)
      BY <2>1 DEF Listed
    <3>3. Unlisted(u)' <=> Unlisted(u)
      BY <2>1 DEF Unlisted
    <3> QED
      BY <2>1, <3>1, <3>2, <3>3 DEF Told, OutsideHolds, InsideHolds, WriteHolds, AnswerHolds,
                                    LastSays, Agrees, Kept, TreeAgrees
  <2> QED
    BY <2>2, <2>3, <2>4, <2>5 DEF IndInv
<1>2. CASE Next
  <2> SUFFICES ASSUME NEW u \in User,
                      \/ \E option \in Option, check \in BOOLEAN : Edit(u, option, check)
                      \/ EditBase(u) \/ Unedit(u) \/ UneditNote(u)
                      \/ \E what \in {"send", "commit", "auto"} : Start(u, what)
                      \/ Read(u) \/ NotifyLine(u) \/ QueueDone(u) \/ Rollback(u)
                      \/ Checkin(u) \/ \E excl \in BOOLEAN : AutoEdit(u, excl)
                      \/ WriteStart(u) \/ WriteEnd(u) \/ Answer(u)
                      \/ Crash(u)
               PROVE  IndInv'
    BY <1>2 DEF Next
  <2>1. CASE \E option \in Option, check \in BOOLEAN : Edit(u, option, check)
    BY <2>1, EditKeeps
  <2>2. CASE EditBase(u)
    BY <2>2, EditBaseKeeps
  <2>3. CASE Unedit(u)
    BY <2>3, UneditKeeps
  <2>4. CASE UneditNote(u)
    BY <2>4, UneditNoteKeeps
  <2>5. CASE \E what \in {"send", "commit", "auto"} : Start(u, what)
    BY <2>5, StartKeeps
  <2>6. CASE Read(u)
    BY <2>6, ReadKeeps
  <2>7. CASE NotifyLine(u)
    BY <2>7, NotifyLineKeeps
  <2>8. CASE QueueDone(u)
    BY <2>8, QueueDoneKeeps
  <2>9. CASE Rollback(u)
    BY <2>9, RollbackKeeps
  <2>10. CASE Checkin(u)
    BY <2>10, CheckinKeeps
  <2>11. CASE \E excl \in BOOLEAN : AutoEdit(u, excl)
    BY <2>11, AutoEditKeeps
  <2>12. CASE WriteStart(u)
    BY <2>12, WriteStartKeeps
  <2>13. CASE WriteEnd(u)
    BY <2>13, WriteEndKeeps
  <2>14. CASE Answer(u)
    BY <2>14, AnswerKeeps
  <2>15. CASE Crash(u)
    BY <2>15, CrashKeeps
  <2> QED
    BY <2>1, <2>2, <2>3, <2>4, <2>5, <2>6, <2>7, <2>8, <2>9, <2>10, <2>11, <2>12, <2>13,
       <2>14, <2>15
<1> QED
  BY <1>1, <1>2

\* The inductive invariant: locks, queues, trees and positions fit one another, and
\* of each user who is not excused it is known what the repository says.
THEOREM Invariance == Spec => []IndInv
<1> QED
  BY InitIndInv, NextIndInv, PTL DEF Spec

\* The state has its types and the queue its bound.
THEOREM TypeCorrect == Spec => []TypeOK
<1>1. IndInv => TypeOK
  BY DEF IndInv
<1> QED
  BY <1>1, Invariance, PTL

\* Who has an edit in her working directory and nothing left to tell is listed in
\* fileattr.xml, but for the flaws excused records.
THEOREM EditsAreListed == Spec => []EditingIsListed
<1>1. IndInv => EditingIsListed
  BY DEF IndInv, EditingIsListed, Quiet, Told, OutsideHolds, Agrees, Listed, TypeOK
<1> QED
  BY <1>1, Invariance, PTL

\* Who is listed in fileattr.xml has the edit or its end in her queue.
THEOREM EditorsEdit == Spec => []ListedIsEditing
<1>1. IndInv => ListedIsEditing
  BY DEF IndInv, ListedIsEditing, Quiet, Told, OutsideHolds, Agrees, Unlisted
<1> QED
  BY <1>1, Invariance, PTL

\* Exclusive edits of one branch exclude one another, in the file and so in every
\* tree that is read from it.
THEOREM ExclusiveIsOne == Spec => []OneExclusive
<1>1. IndInv => OneExclusive
  BY DEF IndInv, AllDistinct
<1> QED
  BY <1>1, Invariance, PTL

\* Commands that take the write lock lose nothing of each other: under it the others
\* are in the file what they are in the tree, unless an update has written meanwhile.
THEOREM LockKeepsOthers == Spec => []LockedIsCurrent
<1>1. IndInv => LockedIsCurrent
  BY DEF IndInv
<1> QED
  BY <1>1, Invariance, PTL
=============================================================================
