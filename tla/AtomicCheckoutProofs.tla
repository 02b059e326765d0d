----------------------- MODULE AtomicCheckoutProofs -------------------------
(***************************************************************************)
(* Proofs about AtomicCheckout.tla, for every number of processes, files   *)
(* and jobs.  They rest on the invariant of the lock service, which holds  *)
(* here because every step of the system is a step of the service or       *)
(* leaves it alone.                                                        *)
(***************************************************************************)
EXTENDS AtomicCheckout, LockServerProofs

-----------------------------------------------------------------------------
(* What a command to the service does to the connections, locks and         *)
(* transactions of each process                                             *)

\* The service has the same of process t after the step.
Same(t) ==
    /\ Up(t)' <=> Up(t)
    /\ \A id : IsLock(t, id)' <=> IsLock(t, id)
    /\ \A id : IsLock(t, id) => LockMap'[id] = LockMap[id]
    /\ \A f, v : Wrote(t, f, v)' <=> Wrote(t, f, v)

OthersSame(s) == \A t \in Sock \ {s} : Same(t)

\* Nothing happens in the maps.
LEMMA NothingEffect ==
    ASSUME UNCHANGED <<SockToClient, LockMap, TransactionList>>, NEW t
    PROVE  Same(t)
BY DEF Same, Up, IsLock, Wrote

\* Two processes have different clients, unless both have the phantom.
LEMMA ClientsDiffer ==
    ASSUME IndInv, NEW s, NEW t, s # t, Up(s), Up(t),
           SockToClient[s] = SockToClient[t]
    PROVE  SockToClient[s] = 0
BY DEF IndInv, SocketsDisjoint, Up

\* A client that owns a lock or a transaction is registered and is not the phantom.
LEMMA OwnersReal ==
    ASSUME IndInv
    PROVE  /\ \A id \in DOMAIN LockMap : /\ LockMap[id].owner # 0
                                         /\ LockMap[id].owner \in DOMAIN LockClientMap
           /\ \A i \in DOMAIN TransactionList :
                /\ TransactionList[i].owner # 0
                /\ TransactionList[i].owner \in DOMAIN LockClientMap
<1>1. \A c : State(c) = "Active" => c # 0 /\ c \in DOMAIN LockClientMap
  BY DEF IndInv, ClientsConnected, State
<1> QED BY <1>1 DEF IndInv, OwnersActive

\* A lock or a transaction belongs to one process.
LEMMA OneOwner ==
    ASSUME IndInv, NEW s, NEW t, s # t, Up(s), Up(t)
    PROVE  /\ \A id \in DOMAIN LockMap :
                ~(LockMap[id].owner = SockToClient[s] /\ LockMap[id].owner = SockToClient[t])
           /\ \A i \in DOMAIN TransactionList :
                ~(TransactionList[i].owner = SockToClient[s]
                   /\ TransactionList[i].owner = SockToClient[t])
BY ClientsDiffer, OwnersReal

\* A new client has no locks and no transactions.
LEMMA OpenEffect ==
    ASSUME IndInv, NEW s \in Sock, OpenLockClient(s)
    PROVE  /\ OthersSame(s)
           /\ Up(s)' /\ ~Up(s)
           /\ \A id : ~IsLock(s, id)'
           /\ \A f, v : ~Wrote(s, f, v)'
<1> DEFINE client == next_client_id + 1
<1>1. /\ SockToClient' = Put(SockToClient, s, client)
      /\ UNCHANGED <<LockMap, TransactionList>>
      /\ thread[s] = "register"
  BY DEF OpenLockClient, lockVars
<1>2. s \notin DOMAIN SockToClient
  BY <1>1 DEF IndInv, SocketsServed
<1>3. /\ DOMAIN SockToClient' = DOMAIN SockToClient \union {s}
      /\ SockToClient'[s] = client
      /\ \A t \in DOMAIN SockToClient : t # s => SockToClient'[t] = SockToClient[t]
  BY <1>1 DEF Put
<1>4. \A c \in DOMAIN LockClientMap : c # client
  BY DEF IndInv, ClientsConnected, TypeOK, IsMap
<1>5. /\ \A id \in DOMAIN LockMap : LockMap[id].owner # client
      /\ \A i \in DOMAIN TransactionList : TransactionList[i].owner # client
  BY <1>4, OwnersReal
<1> HIDE DEF client
<1>6. Up(s)' /\ ~Up(s)
  BY <1>2, <1>3 DEF Up
<1>7. (\A id : ~IsLock(s, id)') /\ (\A f, v : ~Wrote(s, f, v)')
  BY <1>1, <1>3, <1>5 DEF IsLock, Wrote
<1>8. ASSUME NEW t \in Sock \ {s} PROVE Same(t)
  <2>1. /\ Up(t)' <=> Up(t)
        /\ Up(t) => SockToClient'[t] = SockToClient[t]
    BY <1>3 DEF Up
  <2> QED BY <1>1, <2>1 DEF Same, IsLock, Wrote
<1> QED BY <1>6, <1>7, <1>8 DEF OthersSame

\* A granted lock is a new one of its owner.
LEMMA GrantEffect ==
    ASSUME IndInv, NEW s \in Sock, NEW path, NEW flags, LockGranted(s, path, flags)
    PROVE  LET id == global_lockId + 1 IN
           /\ OthersSame(s)
           /\ Up(s)' /\ Up(s)
           /\ \A x : IsLock(s, x)' <=> IsLock(s, x) \/ x = id
           /\ \A x : IsLock(s, x) => LockMap'[x] = LockMap[x]
           /\ LockMap'[id].path = path /\ LockMap'[id].flags = flags
           /\ LockMap'[id].versions =
                [b \in {TransactionList[i].branch : i \in SeenBy(ClientOf(s), path, flags)} |->
                   TransactionList[CHOOSE i \in SeenBy(ClientOf(s), path, flags) : TRUE].oldversion]
           /\ \A f, v : Wrote(s, f, v)' <=> Wrote(s, f, v)
           /\ ~IsLock(s, id)
           /\ UNCHANGED <<SockToClient, TransactionList, LockClientMap>>
<1> DEFINE id == global_lockId + 1
           vm == [b \in {TransactionList[i].branch : i \in SeenBy(ClientOf(s), path, flags)} |->
                   TransactionList[CHOOSE i \in SeenBy(ClientOf(s), path, flags) : TRUE].oldversion]
           new == [owner |-> SockToClient[s], path |-> path, flags |-> flags, versions |-> vm]
<1>1. /\ LockMap' = Put(LockMap, id, new)
      /\ UNCHANGED <<SockToClient, LockClientMap, TransactionList>>
      /\ s \in DOMAIN SockToClient
  BY DEF LockGranted, LockRequest, Connected, ClientOf
<1>2. id \notin DOMAIN LockMap
  BY DEF IndInv, OwnersActive, TypeOK, IsMap
<1>3. /\ new.owner = SockToClient[s] /\ new.path = path /\ new.flags = flags
      /\ new.versions = vm
  OBVIOUS
<1>4. State(SockToClient[s]) = "Active"
  BY DEF LockGranted, LockRequest, ClientOf
<1>5. SockToClient[s] # 0
  BY <1>4 DEF IndInv, ClientsConnected, State
<1> HIDE DEF new, vm, id
<1>6. /\ DOMAIN LockMap' = DOMAIN LockMap \union {id}
      /\ LockMap'[id] = new
      /\ \A x \in DOMAIN LockMap : LockMap'[x] = LockMap[x]
  BY <1>1, <1>2 DEF Put
<1>7. /\ \A x : IsLock(s, x)' <=> IsLock(s, x) \/ x = id
      /\ \A x : IsLock(s, x) => LockMap'[x] = LockMap[x]
      /\ ~IsLock(s, id)
  BY <1>1, <1>2, <1>3, <1>6 DEF IsLock, Up
<1>8. ASSUME NEW t \in Sock \ {s} PROVE Same(t)
  <2>1. Up(t) => SockToClient[t] # SockToClient[s]
    BY <1>1, <1>5, ClientsDiffer DEF Up
  <2>2. Up(t)' <=> Up(t)
    BY <1>1 DEF Up
  <2>3. \A x : IsLock(t, x)' <=> IsLock(t, x)
    BY <1>1, <1>2, <1>3, <1>6, <2>1 DEF IsLock, Up
  <2>4. \A x : IsLock(t, x) => LockMap'[x] = LockMap[x]
    BY <1>6 DEF IsLock
  <2>5. \A f, v : Wrote(t, f, v)' <=> Wrote(t, f, v)
    BY <1>1 DEF Wrote, Up
  <2> QED BY <2>2, <2>3, <2>4, <2>5 DEF Same
<1>9. Up(s)' /\ Up(s) /\ \A f, v : Wrote(s, f, v)' <=> Wrote(s, f, v)
  BY <1>1 DEF Up, Wrote
<1> QED BY <1>1, <1>3, <1>6, <1>7, <1>8, <1>9 DEF OthersSame, vm, id

\* An unlocked lock is gone, and nothing else.
LEMMA UnlockEffect ==
    ASSUME IndInv, NEW s \in Sock, NEW id, DoUnlock(s, id)
    PROVE  /\ OthersSame(s)
           /\ Up(s)' /\ Up(s)
           /\ \A x : IsLock(s, x)' <=> IsLock(s, x) /\ x # id
           /\ \A x : IsLock(s, x)' => LockMap'[x] = LockMap[x]
           /\ \A f, v : Wrote(s, f, v)' <=> Wrote(s, f, v)
           /\ UNCHANGED <<SockToClient, TransactionList, LockClientMap>>
<1>1. /\ LockMap' = Drop(LockMap, {id})
      /\ UNCHANGED <<SockToClient, LockClientMap, TransactionList>>
      /\ s \in DOMAIN SockToClient
      /\ id \in DOMAIN LockMap
      /\ LockMap[id].owner = SockToClient[s]
  BY DEF DoUnlock, OwnLock, Connected, ClientOf
<1>2. /\ DOMAIN LockMap' = DOMAIN LockMap \ {id}
      /\ \A x \in DOMAIN LockMap' : LockMap'[x] = LockMap[x]
  BY <1>1 DEF Drop
<1>3. /\ \A x : IsLock(s, x)' <=> IsLock(s, x) /\ x # id
      /\ \A x : IsLock(s, x)' => LockMap'[x] = LockMap[x]
  BY <1>1, <1>2 DEF IsLock, Up
<1>4. ASSUME NEW t \in Sock \ {s} PROVE Same(t)
  <2>1. Up(t) => LockMap[id].owner # SockToClient[t]
    BY <1>1, OneOwner DEF Up
  <2>2. \A x : IsLock(t, x)' <=> IsLock(t, x)
    BY <1>1, <1>2, <2>1 DEF IsLock, Up
  <2>3. \A x : IsLock(t, x) => LockMap'[x] = LockMap[x]
    BY <1>2, <2>1 DEF IsLock
  <2> QED BY <1>1, <2>2, <2>3 DEF Same, Up, Wrote
<1>5. Up(s)' /\ Up(s) /\ \A f, v : Wrote(s, f, v)' <=> Wrote(s, f, v)
  BY <1>1 DEF Up, Wrote
<1> QED BY <1>1, <1>3, <1>4, <1>5 DEF OthersSame

\* A report is a new transaction of its owner.
LEMMA ModifiedEffect ==
    ASSUME IndInv, NEW s \in Sock, NEW id, NEW branch, NEW old, DoModified(s, id, branch, old)
    PROVE  /\ OthersSame(s)
           /\ Up(s)' /\ Up(s)
           /\ \A x : IsLock(s, x)' <=> IsLock(s, x)
           /\ UNCHANGED <<SockToClient, LockMap, LockClientMap>>
           /\ \A f, v : Wrote(s, f, v)' <=>
                Wrote(s, f, v) \/ (f = LockMap[id].path /\ v = old)
           /\ \A i \in DOMAIN TransactionList' :
                \/ TransactionList'[i].branch = branch
                \/ i \in DOMAIN TransactionList /\ TransactionList'[i] = TransactionList[i]
<1> DEFINE new == [owner |-> SockToClient[s], path |-> LockMap[id].path,
                   branch |-> branch, oldversion |-> old]
<1>1. /\ TransactionList' = Append(TransactionList, new)
      /\ UNCHANGED <<SockToClient, LockMap, LockClientMap>>
      /\ s \in DOMAIN SockToClient
      /\ LockMap[id].owner = SockToClient[s] /\ id \in DOMAIN LockMap
  BY DEF DoModified, OwnLock, Connected, ClientOf
<1>2. /\ new.owner = SockToClient[s] /\ new.path = LockMap[id].path
      /\ new.branch = branch /\ new.oldversion = old
  OBVIOUS
<1> HIDE DEF new
<1>3. /\ \A i \in DOMAIN TransactionList :
           i \in DOMAIN TransactionList' /\ TransactionList'[i] = TransactionList[i]
      /\ \A i \in DOMAIN TransactionList' :
           \/ TransactionList'[i] = new
           \/ i \in DOMAIN TransactionList /\ TransactionList'[i] = TransactionList[i]
      /\ \E i \in DOMAIN TransactionList' : TransactionList'[i] = new
  <2>1. TransactionList \in Seq(Transaction)
    BY DEF IndInv, TypeOK
  <2>2. /\ Len(TransactionList) \in Nat
        /\ DOMAIN TransactionList = 1 .. Len(TransactionList)
        /\ DOMAIN TransactionList' = 1 .. Len(TransactionList) + 1
        /\ \A i \in 1 .. Len(TransactionList) : TransactionList'[i] = TransactionList[i]
        /\ TransactionList'[Len(TransactionList) + 1] = new
    BY <1>1, <2>1
  <2> QED BY <2>2
<1>4. \A f, v : Wrote(s, f, v)' <=> Wrote(s, f, v) \/ (f = LockMap[id].path /\ v = old)
  BY <1>1, <1>2, <1>3 DEF Wrote, Up
<1>5. ASSUME NEW t \in Sock \ {s} PROVE Same(t)
  <2>1. Up(t) => SockToClient[s] # SockToClient[t]
    BY <1>1, OneOwner DEF Up
  <2>2. \A f, v : Wrote(t, f, v)' <=> Wrote(t, f, v)
    BY <1>1, <1>2, <1>3, <2>1 DEF Wrote, Up
  <2> QED BY <1>1, <2>2 DEF Same, Up, IsLock
<1>6. Up(s)' /\ Up(s) /\ \A x : IsLock(s, x)' <=> IsLock(s, x)
  BY <1>1 DEF Up, IsLock
<1> QED BY <1>1, <1>2, <1>3, <1>4, <1>5, <1>6 DEF OthersSame

\* std::partition loses no wanted transaction.
LEMMA PartitionKeepsAll ==
    ASSUME NEW wanted \in SUBSET DOMAIN TransactionList, Partition(wanted),
           NEW j \in wanted
    PROVE  \E i \in DOMAIN TransactionList' : TransactionList'[i] = TransactionList[j]
<1>1. PICK n \in 0 .. Len(TransactionList) : \E f \in Bijection(1 .. n, wanted) :
         TransactionList' = [i \in 1 .. n |-> TransactionList[f[i]]]
  BY DEF Partition
<1>2. PICK f \in Bijection(1 .. n, wanted) :
         TransactionList' = [i \in 1 .. n |-> TransactionList[f[i]]]
  BY <1>1
<1>3. PICK i \in 1 .. n : f[i] = j
  BY <1>2 DEF Bijection, Surjection
<1> QED BY <1>2, <1>3

\* The end of a connection takes away what its process had, and nothing else.
LEMMA CloseEffect ==
    ASSUME IndInv, NEW s \in Sock, CloseLockClient(s)
    PROVE  /\ OthersSame(s)
           /\ Up(s) /\ ~Up(s)'
           /\ \A i \in DOMAIN TransactionList' :
                \E j \in DOMAIN TransactionList : TransactionList'[i] = TransactionList[j]
<1> DEFINE client == SockToClient[s]
           wanted == {i \in DOMAIN TransactionList :
                        TransactionList[i].owner \in DOMAIN LockClientMap \ {client}}
<1>1. /\ LockMap' = Drop(LockMap, {id \in DOMAIN LockMap : LockMap[id].owner = client})
      /\ SockToClient' = Drop(SockToClient, {s})
      /\ Partition(wanted)
      /\ s \in DOMAIN SockToClient
  BY DEF CloseLockClient, LocksOf, ClientOf, Connected
<1>2. /\ \A x \in DOMAIN LockMap' : x \in DOMAIN LockMap /\ LockMap'[x] = LockMap[x]
      /\ \A x \in DOMAIN LockMap : LockMap[x].owner # client => x \in DOMAIN LockMap'
  BY <1>1 DEF Drop
<1>3. /\ DOMAIN SockToClient' = DOMAIN SockToClient \ {s}
      /\ \A x \in DOMAIN SockToClient' : SockToClient'[x] = SockToClient[x]
  BY <1>1 DEF Drop
<1>4. \A i \in DOMAIN TransactionList' :
         \E j \in wanted : TransactionList'[i] = TransactionList[j]
  BY <1>1, PartitionKeeps DEF IndInv
<1>5. \A j \in wanted : \E i \in DOMAIN TransactionList' : TransactionList'[i] = TransactionList[j]
  BY <1>1, PartitionKeepsAll
<1>6. Up(s) /\ ~Up(s)'
  BY <1>1, <1>3 DEF Up
<1>7. ASSUME NEW t \in Sock \ {s} PROVE Same(t)
  <2>1. /\ Up(t)' <=> Up(t)
        /\ Up(t) => SockToClient'[t] = SockToClient[t]
    BY <1>3 DEF Up
  <2>2. Up(t) => /\ \A x \in DOMAIN LockMap : LockMap[x].owner = SockToClient[t] =>
                      LockMap[x].owner # client
                 /\ \A i \in DOMAIN TransactionList :
                      TransactionList[i].owner = SockToClient[t] => i \in wanted
    BY <1>6, OneOwner, OwnersReal
  <2> HIDE DEF wanted, client
  <2>3. \A x : IsLock(t, x)' <=> IsLock(t, x)
    BY <1>2, <2>1, <2>2 DEF IsLock
  <2>4. \A x : IsLock(t, x) => LockMap'[x] = LockMap[x]
    BY <1>2, <2>2 DEF IsLock
  <2>5. ASSUME NEW f, NEW v PROVE Wrote(t, f, v)' <=> Wrote(t, f, v)
    <3>1. ASSUME Wrote(t, f, v) PROVE Wrote(t, f, v)'
      BY <3>1, <1>5, <2>1, <2>2 DEF Wrote
    <3>2. ASSUME Wrote(t, f, v)' PROVE Wrote(t, f, v)
      BY <3>2, <1>4, <2>1 DEF Wrote, wanted
    <3> QED BY <3>1, <3>2
  <2> QED BY <2>1, <2>3, <2>4, <2>5 DEF Same
<1> QED BY <1>4, <1>6, <1>7 DEF OthersSame, wanted

\* The clients of the others stay as they are.
LEMMA CloseKeepsClients ==
    ASSUME IndInv, NEW s \in Sock, CloseLockClient(s),
           NEW t \in Sock \ {s}, Up(t), SockToClient[t] # 0
    PROVE  /\ SockToClient'[t] = SockToClient[t]
           /\ LockClientMap'[SockToClient[t]] = LockClientMap[SockToClient[t]]
<1> DEFINE client == SockToClient[s]
<1>1. /\ SockToClient' = Drop(SockToClient, {s})
      /\ LockClientMap' = Drop(LockClientMap, {client})
      /\ s \in DOMAIN SockToClient
  BY DEF CloseLockClient, ClientOf, Connected
<1>2. SockToClient'[t] = SockToClient[t]
  BY <1>1 DEF Drop, Up
<1>3. SockToClient[t] \in DOMAIN LockClientMap /\ SockToClient[t] # client
  BY <1>1, ClientsDiffer DEF IndInv, SocketsServed, Up
<1> QED BY <1>1, <1>2, <1>3 DEF Drop

-----------------------------------------------------------------------------
(* Locks *)

\* The flags of the three kinds of locks.
LEMMA Kinds ==
    /\ ReadFull # WriteFull /\ ReadFull # WriteAdvisory /\ WriteFull # WriteAdvisory
    /\ "Write" \in WriteFull /\ "Write" \in WriteAdvisory
    /\ {"Read", "Full"} \subseteq ReadFull
    /\ ReadFull \in FlagSets /\ WriteFull \in FlagSets /\ WriteAdvisory \in FlagSets
    /\ \A flags \in FlagSets :
         flags = ReadFull \/ flags = WriteFull \/ flags = WriteAdvisory
BY FlagsUsed DEF ReadFull, WriteFull, WriteAdvisory

\* While a process may replace a file nobody else has a lock on it.
LEMMA WriterIsAlone ==
    ASSUME IndInv, NEW s, NEW t, s # t, NEW f, NEW flags, Holds(s, f, WriteFull)
    PROVE  ~Holds(t, f, flags)
<1> SUFFICES ASSUME Holds(t, f, flags) PROVE FALSE
  OBVIOUS
<1>1. PICK x \in DOMAIN LockMap : IsLock(s, x) /\ LockMap[x].path = f /\ LockMap[x].flags = WriteFull
  BY DEF Holds
<1>2. PICK y \in DOMAIN LockMap : IsLock(t, y) /\ LockMap[y].path = f
  BY DEF Holds
<1>3. LockMap[x].owner # LockMap[y].owner
  BY <1>1, <1>2, OneOwner DEF IsLock
<1>4. LockMap[y].flags \in FlagSets
  BY DEF IndInv, TypeOK, IsMap, Lock
<1>5. "Write" \notin LockMap[y].flags /\ ~({"Read", "Full"} \subseteq LockMap[y].flags)
  BY <1>1, <1>2, <1>3, Kinds DEF IndInv, WriteExclusion
<1> QED BY <1>4, <1>5, Kinds

\* A process of which the service has the same holds the same locks.
LEMMA SameHolds ==
    ASSUME NEW t, Same(t)
    PROVE  /\ \A f, flags : Holds(t, f, flags)' <=> Holds(t, f, flags)
           /\ \A id : IsRead(t, id)' <=> IsRead(t, id)
<1>1. \A id : IsLock(t, id) => id \in DOMAIN LockMap
  BY DEF IsLock
<1>2. \A id : IsLock(t, id)' => id \in DOMAIN LockMap'
  BY DEF IsLock
<1>3. \A f, flags : Holds(t, f, flags)' <=> Holds(t, f, flags)
  BY <1>1, <1>2 DEF Same, Holds
<1>4. \A id : IsRead(t, id)' <=> IsRead(t, id)
  BY DEF Same, IsRead
<1> QED BY <1>3, <1>4

\* LockOf finds the lock that the process has on its file.
LEMMA LockOfHeld ==
    ASSUME NEW s, NEW flags, Holds(s, Here(s), flags)
    PROVE  /\ IsLock(s, LockOf(s, flags)) /\ LockOf(s, flags) \in DOMAIN LockMap
           /\ LockMap[LockOf(s, flags)].path = Here(s)
           /\ LockMap[LockOf(s, flags)].flags = flags
<1>1. \E id \in DOMAIN LockMap :
        LockMap[id].owner = ClientOf(s) /\ LockMap[id].path = Here(s) /\ LockMap[id].flags = flags
  BY DEF Holds, IsLock, ClientOf
<1>2. /\ LockOf(s, flags) \in DOMAIN LockMap
      /\ LockMap[LockOf(s, flags)].owner = ClientOf(s)
      /\ LockMap[LockOf(s, flags)].path = Here(s)
      /\ LockMap[LockOf(s, flags)].flags = flags
  BY <1>1 DEF LockOf
<1>3. Up(s)
  BY DEF Holds, IsLock
<1> QED BY <1>2, <1>3 DEF IsLock, ClientOf

\* The version told with a lock is a number.
LEMMA HeadNat ==
    ASSUME IndInv, StateOK, NEW s \in Sock, NEW id \in DOMAIN LockMap
    PROVE  HeadBy(s, id) \in Nat
<1> DEFINE told == LockMap[id].versions
<1>1. told \in VersionMap
  BY DEF IndInv, TypeOK, IsMap, Lock
<1>2. PICK B \in SUBSET Branch : told \in [B -> Version]
  BY <1>1 DEF VersionMap
<1>3. Trunk \in DOMAIN told => told[Trunk] \in Nat
  BY <1>2, VersionAssumption
<1>4. Len(tree[s]) \in Nat
  BY DEF StateOK
<1> QED BY <1>3, <1>4 DEF HeadBy

\* RCS_head uses the read lock of the process.
LEMMA HeadIs ==
    ASSUME NEW s
    PROVE  HeadVersion(s) = HeadBy(s, LockOf(s, ReadFull))
BY DEF HeadVersion, HeadBy

-----------------------------------------------------------------------------
(* The repository *)

\* A step of s replaces its file, or no file.
RepoStep(s) ==
    \/ repo' = repo
    \/ pc[s] = "rename" /\ repo' = [repo EXCEPT ![Here(s)] = Append(tree[s], s)]

\* The file of a process at work is a file.
LEMMA HereIsFile ==
    ASSUME StateOK, NEW s \in Sock, Placed(s), pc[s] \in Working
    PROVE  Here(s) \in Path /\ pos[s] \in DOMAIN Files(s) /\ Files(s) \in Seq(Path)
<1>1. Files(s) \in Seq(Path) /\ pos[s] \in DOMAIN Files(s)
  BY DEF StateOK, Job, Files, Placed
<1> QED BY <1>1 DEF Here

\* Files grow at their end, and only where nobody else has a lock.
LEMMA RepoGrows ==
    ASSUME CommandInv, NEW s \in Sock, RepoStep(s)
    PROVE  /\ repo' \in [Path -> Seq(Author)]
           /\ \A f \in Path : Begins(repo[f], repo'[f])
           /\ \A f \in Path : repo'[f] # repo[f] =>
                \A t \in Sock \ {s} : \A flags : ~Holds(t, f, flags)
<1>1. CASE repo' = repo
  BY <1>1 DEF CommandInv, StateOK, Begins
<1>2. CASE pc[s] = "rename" /\ repo' = [repo EXCEPT ![Here(s)] = Append(tree[s], s)]
  <2>1. /\ tree[s] = repo[Here(s)] /\ Holds(s, Here(s), WriteFull)
        /\ Here(s) \in Path /\ IndInv
    BY <1>2, HereIsFile DEF CommandInv, CommandHolds, Opened, WriteLocked, Placed, Writing, Working
  <2>2. tree[s] \in Seq(Author) /\ s \in Author /\ repo \in [Path -> Seq(Author)]
    BY DEF CommandInv, StateOK, Author
  <2>3. Append(tree[s], s) \in Seq(Author) /\ Begins(tree[s], Append(tree[s], s))
    BY <2>2 DEF Begins
  <2>4. /\ repo' \in [Path -> Seq(Author)]
        /\ repo'[Here(s)] = Append(tree[s], s)
        /\ \A f \in Path : f # Here(s) => repo'[f] = repo[f]
    BY <1>2, <2>1, <2>2, <2>3
  <2>5. \A f \in Path : Begins(repo[f], repo'[f])
    <3>1. \A r \in Seq(Author) : Begins(r, r)
      BY DEF Begins
    <3> QED BY <2>1, <2>2, <2>3, <2>4, <3>1
  <2> QED BY <2>1, <2>4, <2>5, WriterIsAlone
<1> QED BY <1>1, <1>2 DEF RepoStep

\* A revision of a beginning of a file is one of the file.
LEMMA BeginsKeeps ==
    ASSUME NEW a \in Seq(Author), NEW b \in Seq(Author), Begins(a, b), NEW k \in DOMAIN a
    PROVE  k \in DOMAIN b /\ b[k] = a[k]
BY DEF Begins

\* A beginning of a beginning is a beginning.
LEMMA BeginsTransitive ==
    ASSUME NEW a \in Seq(Author), NEW b \in Seq(Author), NEW c \in Seq(Author),
           Begins(a, b), Begins(b, c)
    PROVE  Begins(a, c)
BY DEF Begins

-----------------------------------------------------------------------------
(* What a step of one process leaves to the others *)

\* Nothing of process t changes, but that more may be known of it.
Aside(t) ==
    /\ Same(t)
    /\ job' = job
    /\ pc'[t] = pc[t] /\ pass'[t] = pass[t] /\ pos'[t] = pos[t] /\ tree'[t] = tree[t]
    /\ shown \subseteq shown' /\ raced \subseteq raced'
    /\ got'[t] = got[t]

\* What CommandInv says of a process holds after the step of another.
LEMMA OtherHolds ==
    ASSUME CommandInv, NEW s \in Sock, NEW t \in Sock \ {s}, Aside(t), RepoStep(s)
    PROVE  CommandHolds(t)'
<1>1. /\ Kind(t)' = Kind(t) /\ Files(t)' = Files(t) /\ Here(t)' = Here(t)
      /\ pc'[t] = pc[t] /\ pass'[t] = pass[t] /\ pos'[t] = pos[t] /\ tree'[t] = tree[t]
      /\ Up(t)' <=> Up(t)
  BY DEF Aside, Same, Kind, Files, Here
<1>2. /\ \A f, flags : Holds(t, f, flags)' <=> Holds(t, f, flags)
      /\ \A id : IsRead(t, id)' <=> IsRead(t, id)
  BY SameHolds DEF Aside
<1>3. CommandHolds(t) /\ StateOK
  BY DEF CommandInv
<1>4. Placed(t)'
  BY <1>1, <1>3 DEF Placed, CommandHolds
<1>5. ReadLocked(t)'
  <2>1. \A id : IsRead(t, id) => id \in DOMAIN LockMap
    BY DEF IsRead, IsLock
  <2> QED BY <1>1, <1>2, <1>3, <2>1 DEF ReadLocked, CommandHolds
<1>6. WriteLocked(t)'
  BY <1>1, <1>2, <1>3 DEF WriteLocked, CommandHolds
<1>7. \A f \in Path : \A flags : Holds(t, f, flags) => repo'[f] = repo[f]
  BY RepoGrows
<1>8. \A i \in DOMAIN Files(t) : Files(t)[i] \in Path
  BY <1>3 DEF StateOK, Job, Files
<1>9. Covered(t)'
  <2>1. \A i : Awaiting(t, i)' <=> Awaiting(t, i)
    BY <1>1 DEF Awaiting
  <2>2. t \in shown \union raced => t \in shown' \union raced'
    BY DEF Aside
  <2> QED BY <1>1, <1>2, <1>3, <1>7, <1>8, <2>1, <2>2 DEF Covered, CommandHolds
<1>10. Opened(t)'
  <2>1. pc[t] \in Working => Here(t) \in Path /\ pos[t] \in DOMAIN Files(t)
    BY <1>3, HereIsFile DEF CommandHolds
  <2>2. pc[t] \in {"lock", "head", "check", "advisory", "wlock", "modified", "rename"} =>
          Begins(tree[t], repo'[Here(t)])
    <3> SUFFICES ASSUME pc[t] \in {"lock", "head", "check", "advisory", "wlock", "modified", "rename"}
                 PROVE  Begins(tree[t], repo'[Here(t)])
      OBVIOUS
    <3>1. Here(t) \in Path /\ Begins(tree[t], repo[Here(t)])
      BY <1>3, <2>1 DEF Working, Reading, Writing, CommandHolds, Opened
    <3>2. Begins(repo[Here(t)], repo'[Here(t)]) /\ repo' \in [Path -> Seq(Author)]
      BY <3>1, RepoGrows
    <3>3. tree[t] \in Seq(Author) /\ repo[Here(t)] \in Seq(Author) /\ repo'[Here(t)] \in Seq(Author)
      BY <1>3, <3>1, <3>2 DEF StateOK
    <3> QED BY <3>1, <3>2, <3>3, BeginsTransitive
  <2>3. pc[t] \in {"lock", "wlock", "modified", "rename"} /\ pass[t] = "commit" =>
          repo'[Here(t)] = repo[Here(t)]
    <3> SUFFICES ASSUME pc[t] \in {"lock", "wlock", "modified", "rename"}, pass[t] = "commit"
                 PROVE  repo'[Here(t)] = repo[Here(t)]
      OBVIOUS
    <3>1. Awaiting(t, pos[t])
      BY <1>3, <2>1 DEF Awaiting, Working, Reading, Writing, CommandHolds, Placed
    <3>2. Holds(t, Here(t), WriteAdvisory)
      BY <1>3, <3>1, <2>1 DEF CommandHolds, Covered, Here, Awaiting
    <3> QED BY <1>7, <2>1, <3>2 DEF Working, Reading, Writing
  <2>4. pc[t] \in {"check", "advisory"} => repo'[Here(t)] = repo[Here(t)]
    BY <1>3, <1>7, <2>1 DEF CommandHolds, ReadLocked, Working, Reading, Writing
  <2>5. (t \in raced => t \in raced') /\ (t \in shown => t \in shown')
    BY DEF Aside
  <2> QED BY <1>1, <1>3, <2>2, <2>3, <2>4, <2>5 DEF Opened, CommandHolds
<1> QED BY <1>4, <1>5, <1>6, <1>9, <1>10 DEF CommandHolds

-----------------------------------------------------------------------------
(* The locks of the process that acts *)

\* A granted lock adds to what the process holds.
LEMMA GrantHolds ==
    ASSUME IndInv, NEW s \in Sock, NEW path, NEW flags, LockGranted(s, path, flags)
    PROVE  /\ Holds(s, path, flags)'
           /\ \A f, fl : Holds(s, f, fl) => Holds(s, f, fl)'
           /\ \A x : IsRead(s, x)' <=> IsRead(s, x) \/ (x = global_lockId + 1 /\ flags = ReadFull)
           /\ Up(s) /\ Up(s)'
<1> DEFINE id == global_lockId + 1
<1>1. /\ Up(s)' /\ Up(s)
      /\ \A x : IsLock(s, x)' <=> IsLock(s, x) \/ x = id
      /\ \A x : IsLock(s, x) => LockMap'[x] = LockMap[x]
      /\ LockMap'[id].path = path /\ LockMap'[id].flags = flags
      /\ ~IsLock(s, id)
  BY GrantEffect
<1> HIDE DEF id
<1>2. \A x : IsLock(s, x)' => x \in DOMAIN LockMap'
  BY DEF IsLock
<1>3. Holds(s, path, flags)' /\ \A f, fl : Holds(s, f, fl) => Holds(s, f, fl)'
  BY <1>1, <1>2 DEF Holds
<1>4. \A x : IsRead(s, x)' <=> IsRead(s, x) \/ (x = id /\ flags = ReadFull)
  BY <1>1 DEF IsRead
<1> QED BY <1>1, <1>3, <1>4 DEF id

\* A lock that is given back takes nothing else away.
LEMMA UnlockHolds ==
    ASSUME IndInv, NEW s \in Sock, NEW id, DoUnlock(s, id)
    PROVE  /\ \A f, fl : Holds(s, f, fl) /\ (LockMap[id].path # f \/ LockMap[id].flags # fl) =>
                Holds(s, f, fl)'
           /\ \A x : IsRead(s, x)' <=> IsRead(s, x) /\ x # id
           /\ Up(s) /\ Up(s)'
<1>1. /\ Up(s)' /\ Up(s)
      /\ \A x : IsLock(s, x)' <=> IsLock(s, x) /\ x # id
      /\ \A x : IsLock(s, x)' => LockMap'[x] = LockMap[x]
  BY UnlockEffect
<1>2. \A x : IsLock(s, x)' => x \in DOMAIN LockMap'
  BY DEF IsLock
<1>3. \A f, fl : Holds(s, f, fl) /\ (LockMap[id].path # f \/ LockMap[id].flags # fl) =>
        Holds(s, f, fl)'
  BY <1>1, <1>2 DEF Holds
<1>4. \A x : IsRead(s, x)' <=> IsRead(s, x) /\ x # id
  BY <1>1 DEF IsRead
<1> QED BY <1>1, <1>3, <1>4

\* The job of a process does not change.
LEMMA JobSame ==
    ASSUME NEW s, job' = job
    PROVE  /\ Kind(s)' = Kind(s) /\ Files(s)' = Files(s)
           /\ pos'[s] = pos[s] => Here(s)' = Here(s)
BY DEF Kind, Files, Here

-----------------------------------------------------------------------------
(* The process that acts, one lemma for each action *)

\* Registering gives a client that has nothing.
LEMMA RegisterOwn ==
    ASSUME CommandInv, NEW s \in Sock, Register(s)
    PROVE  CommandHolds(s)'
<1>1. /\ pc'[s] = "connect" /\ pc[s] = "connect" /\ pass'[s] = pass[s] /\ pos'[s] = pos[s]
      /\ Files(s) # << >> /\ Kind(s)' = Kind(s) /\ Files(s)' = Files(s)
      /\ CommandHolds(s) /\ IndInv
  BY JobSame DEF Register, commands, CommandInv
<1>2. Placed(s)'
  BY <1>1 DEF Placed, CommandHolds, Working, Reading, Writing
<1>3. ReadLocked(s)'
  <2>1. CASE OpenLockClient(s)
    BY <1>1, <2>1, OpenEffect DEF ReadLocked, IsRead, Reading, Writing
  <2>2. CASE ~OpenLockClient(s)
    <3>1. UNCHANGED <<SockToClient, LockMap, TransactionList>>
      BY <2>2 DEF Register, Accept, LockTimeCompare, LockTimeStore, LockTimeCopy, lockVars
    <3>2. \A id : IsRead(s, id)' <=> IsRead(s, id)
      BY <3>1, NothingEffect, SameHolds
    <3> QED BY <1>1, <3>1, <3>2 DEF ReadLocked, CommandHolds, Reading, Writing
  <2> QED BY <2>1, <2>2
<1>4. WriteLocked(s)' /\ Covered(s)' /\ Opened(s)'
  BY <1>1 DEF WriteLocked, Covered, Opened, Awaiting, Working, Reading, Writing
<1> QED BY <1>2, <1>3, <1>4 DEF CommandHolds

\* Logging in begins the first pass at the first file.
LEMMA LoginOwn ==
    ASSUME CommandInv, NEW s \in Sock, Login(s)
    PROVE  CommandHolds(s)'
<1>1. /\ pc'[s] = "open" /\ pc[s] = "connect" /\ pass'[s] = pass[s] /\ pos'[s] = pos[s]
      /\ Kind(s)' = Kind(s) /\ Files(s)' = Files(s)
      /\ CommandHolds(s) /\ StateOK
  BY JobSame DEF Login, Goto, CommandInv, StateOK
<1>2. UNCHANGED <<SockToClient, LockMap, TransactionList>> /\ Up(s)
  BY DEF Login, DoClient, Connected, Up, lockVars
<1>3. Up(s)' /\ \A id : IsRead(s, id)' <=> IsRead(s, id)
  BY <1>2, NothingEffect, SameHolds DEF Same
<1>4. pos[s] = 1 /\ pass[s] = "check" /\ 1 \in DOMAIN Files(s)
  BY <1>1, <1>2 DEF CommandHolds, Placed, StateOK, Job, Files
<1>5. Placed(s)'
  BY <1>1, <1>3, <1>4 DEF Placed, CommandHolds, Writing
<1>6. ReadLocked(s)'
  BY <1>1, <1>2, <1>3 DEF ReadLocked, CommandHolds, Reading, Writing
<1>7. WriteLocked(s)' /\ Opened(s)'
  BY <1>1 DEF WriteLocked, Opened
<1>8. Covered(s)'
  <2>1. \A i \in DOMAIN Files(s) : ~(i < 1)
    BY <1>1 DEF StateOK, Job, Files
  <2> QED BY <1>1, <1>4, <2>1 DEF Covered, Awaiting
<1> QED BY <1>5, <1>6, <1>7, <1>8 DEF CommandHolds

\* The end of the connection leaves nothing to be said of the process.
LEMMA DisconnectOwn ==
    ASSUME CommandInv, NEW s \in Sock, Disconnect(s)
    PROVE  CommandHolds(s)'
<1>1. /\ pc'[s] \in {"done", "dead"} /\ pass'[s] = pass[s] /\ pos'[s] = pos[s]
      /\ pc'[s] = "done" => pc[s] = "end"
      /\ Kind(s)' = Kind(s) /\ Files(s)' = Files(s)
      /\ CommandHolds(s) /\ StateOK /\ IndInv
  BY JobSame DEF Disconnect, CommandInv, StateOK
<1>2. ~Up(s)'
  BY <1>1, CloseEffect DEF Disconnect
<1>3. Placed(s)'
  BY <1>1, <1>2 DEF Placed, CommandHolds, Working, Reading, Writing
<1>4. ReadLocked(s)'
  BY <1>1, <1>2 DEF ReadLocked, IsRead, IsLock, Reading, Writing
<1>5. WriteLocked(s)' /\ Opened(s)' /\ Covered(s)'
  BY <1>1 DEF WriteLocked, Opened, Covered, Awaiting, Working, Reading, Writing
<1> QED BY <1>3, <1>4, <1>5 DEF CommandHolds

\* A process that is killed keeps its locks and does nothing with them.
LEMMA KillOwn ==
    ASSUME CommandInv, NEW s \in Sock, Kill(s)
    PROVE  CommandHolds(s)'
<1>1. /\ pc'[s] = "dead" /\ pass'[s] = pass[s] /\ pos'[s] = pos[s]
      /\ Kind(s)' = Kind(s) /\ Files(s)' = Files(s)
      /\ CommandHolds(s)
      /\ UNCHANGED <<SockToClient, LockMap, TransactionList>>
  BY JobSame DEF Kill, Goto, CommandInv, StateOK, vars
<1>2. Up(s)' <=> Up(s)
  BY <1>1 DEF Up
<1>3. Placed(s)'
  BY <1>1, <1>2 DEF Placed, CommandHolds, Working, Reading, Writing
<1>4. ReadLocked(s)' /\ WriteLocked(s)' /\ Opened(s)' /\ Covered(s)'
  BY <1>1 DEF ReadLocked, WriteLocked, Opened, Covered, Awaiting, Working, Reading, Writing
<1> QED BY <1>3, <1>4 DEF CommandHolds

\* fopen: what is opened is the file at that time.
LEMMA OpenOwn ==
    ASSUME CommandInv, NEW s \in Sock, Open(s)
    PROVE  CommandHolds(s)'
<1>1. /\ pc'[s] = "lock" /\ pc[s] = "open" /\ pass'[s] = pass[s] /\ pos'[s] = pos[s]
      /\ tree'[s] = repo[Here(s)] /\ repo' = repo /\ shown' = shown /\ raced' = raced
      /\ Kind(s)' = Kind(s) /\ Files(s)' = Files(s) /\ Here(s)' = Here(s)
      /\ CommandHolds(s) /\ StateOK
      /\ UNCHANGED <<SockToClient, LockMap, TransactionList>>
  BY JobSame DEF Open, Goto, CommandInv, StateOK, vars, history
<1>2. /\ Up(s)' <=> Up(s)
      /\ \A f, flags : Holds(s, f, flags)' <=> Holds(s, f, flags)
      /\ \A id : IsRead(s, id)' <=> IsRead(s, id)
  BY <1>1, NothingEffect, SameHolds DEF Same
<1>3. Placed(s)'
  BY <1>1, <1>2 DEF Placed, CommandHolds, Working, Reading, Writing
<1>4. ReadLocked(s)' /\ WriteLocked(s)'
  BY <1>1, <1>2 DEF ReadLocked, WriteLocked, CommandHolds, Reading, Writing
<1>5. Covered(s)'
  <2>1. \A i : Awaiting(s, i)' <=> Awaiting(s, i)
    BY <1>1 DEF Awaiting, Working
  <2> QED BY <1>1, <1>2, <2>1 DEF Covered, CommandHolds
<1>6. Opened(s)'
  <2>1. Here(s) \in Path
    BY <1>1, HereIsFile DEF CommandHolds, Working
  <2>2. repo[Here(s)] \in Seq(Author)
    BY <1>1, <2>1 DEF StateOK
  <2>3. Begins(tree'[s], repo'[Here(s)])
    BY <1>1, <2>2 DEF Begins
  <2> QED BY <1>1, <2>3 DEF Opened
<1> QED BY <1>3, <1>4, <1>5, <1>6 DEF CommandHolds

\* The read lock is the only one of the process, and a file that was replaced is noted.
LEMMA ReadLockOwn ==
    ASSUME CommandInv, NEW s \in Sock, ReadLock(s)
    PROVE  CommandHolds(s)'
<1>1. /\ pc[s] = "lock" /\ pass'[s] = pass[s] /\ pos'[s] = pos[s]
      /\ tree' = tree /\ repo' = repo /\ shown' = shown /\ raced \subseteq raced'
      /\ tree[s] = repo[Here(s)] \/ s \in raced'
      /\ Kind(s)' = Kind(s) /\ Files(s)' = Files(s) /\ Here(s)' = Here(s)
      /\ CommandHolds(s) /\ StateOK /\ IndInv
      /\ LockGranted(s, Here(s), ReadFull)
  BY JobSame DEF ReadLock, CommandInv
<1>2. /\ pc'[s] \in {"head", "wlock", "check"}
      /\ pc'[s] = "head" <=> Kind(s) = "update"
      /\ pc'[s] = "wlock" => pass[s] = "commit"
      /\ pc'[s] = "check" => pass[s] # "commit"
  BY <1>1 DEF ReadLock, Goto, StateOK
<1>3. Kind(s) = "update" \/ Kind(s) = "commit"
  BY <1>1 DEF StateOK, Job, Kind
<1>4. /\ Holds(s, Here(s), ReadFull)'
      /\ \A f, fl : Holds(s, f, fl) => Holds(s, f, fl)'
      /\ \A x : IsRead(s, x)' <=> IsRead(s, x) \/ x = global_lockId + 1
      /\ Up(s) /\ Up(s)'
  BY <1>1, GrantHolds
<1>5. Placed(s)'
  BY <1>1, <1>2, <1>3, <1>4 DEF Placed, CommandHolds, Working, Reading, Writing
<1>6. ReadLocked(s)'
  <2>1. \A x \in DOMAIN LockMap : ~IsRead(s, x)
    BY <1>1 DEF CommandHolds, ReadLocked, Reading, Writing
  <2>2. \A x : IsRead(s, x)' => x = global_lockId + 1
    BY <1>4, <2>1 DEF IsRead, IsLock
  <2>3. pc'[s] \in Reading \union Writing
    BY <1>2 DEF Reading, Writing
  <2> QED BY <1>1, <1>4, <2>2, <2>3 DEF ReadLocked
<1>7. WriteLocked(s)'
  BY <1>2 DEF WriteLocked
<1>8. Covered(s)'
  <2>1. \A i : Awaiting(s, i)' <=> Awaiting(s, i)
    BY <1>1, <1>2 DEF Awaiting, Working, Reading, Writing
  <2>2. s \in shown \union raced => s \in shown' \union raced'
    BY <1>1
  <2> QED BY <1>1, <1>2, <1>4, <2>1, <2>2 DEF Covered, CommandHolds
<1>9. Opened(s)'
  BY <1>1, <1>2 DEF Opened, CommandHolds
<1> QED BY <1>5, <1>6, <1>7, <1>8, <1>9 DEF CommandHolds

\* An update takes the head under its read lock.
LEMMA TakeHeadOwn ==
    ASSUME CommandInv, NEW s \in Sock, TakeHead(s)
    PROVE  CommandHolds(s)'
<1>1. /\ pc'[s] = "free" /\ pc[s] = "head" /\ pass'[s] = pass[s] /\ pos'[s] = pos[s]
      /\ Kind(s)' = Kind(s) /\ Files(s)' = Files(s) /\ Here(s)' = Here(s)
      /\ CommandHolds(s)
      /\ UNCHANGED <<SockToClient, LockMap, TransactionList>>
  BY JobSame DEF TakeHead, Goto, CommandInv, StateOK, vars
<1>2. /\ Up(s)' <=> Up(s)
      /\ \A f, flags : Holds(s, f, flags)' <=> Holds(s, f, flags)
      /\ \A id : IsRead(s, id)' <=> IsRead(s, id)
  BY <1>1, NothingEffect, SameHolds DEF Same
<1>3. Kind(s) = "update"
  BY <1>1 DEF CommandHolds, Placed
<1>4. Placed(s)'
  BY <1>1, <1>2 DEF Placed, CommandHolds, Working, Reading, Writing
<1>5. ReadLocked(s)' /\ WriteLocked(s)'
  BY <1>1, <1>2 DEF ReadLocked, WriteLocked, CommandHolds, Reading, Writing
<1>6. Covered(s)' /\ Opened(s)'
  BY <1>1, <1>3 DEF Covered, Awaiting, Opened
<1> QED BY <1>4, <1>5, <1>6 DEF CommandHolds

\* A file that passes the check has the base revision, or an old version was told.
LEMMA CheckOwn ==
    ASSUME CommandInv, NEW s \in Sock, Check(s)
    PROVE  CommandHolds(s)'
<1>1. /\ pc[s] = "check" /\ pos'[s] = pos[s]
      /\ tree' = tree /\ repo' = repo /\ raced' = raced /\ shown \subseteq shown'
      /\ \/ /\ pc'[s] = "advisory" /\ pass'[s] = pass[s] /\ HeadVersion(s) = Base
         \/ pc'[s] = "free" /\ pass'[s] = "failed"
      /\ HeadVersion(s) = Len(tree[s]) \/ s \in shown'
      /\ Kind(s)' = Kind(s) /\ Files(s)' = Files(s) /\ Here(s)' = Here(s)
      /\ CommandHolds(s)
      /\ UNCHANGED <<SockToClient, LockMap, TransactionList>>
  BY JobSame DEF Check, Goto, CommandInv, StateOK, vars
<1>2. /\ Up(s)' <=> Up(s)
      /\ \A f, flags : Holds(s, f, flags)' <=> Holds(s, f, flags)
      /\ \A id : IsRead(s, id)' <=> IsRead(s, id)
  BY <1>1, NothingEffect, SameHolds DEF Same
<1>3. Placed(s)'
  BY <1>1, <1>2 DEF Placed, CommandHolds, Working, Reading, Writing
<1>4. ReadLocked(s)' /\ WriteLocked(s)'
  BY <1>1, <1>2 DEF ReadLocked, WriteLocked, CommandHolds, Reading, Writing
<1>5. Covered(s)'
  <2>1. \A i : Awaiting(s, i)' => Awaiting(s, i)
    BY <1>1 DEF Awaiting, Working, Reading
  <2>2. s \in shown \union raced => s \in shown' \union raced'
    BY <1>1
  <2> QED BY <1>1, <1>2, <2>1, <2>2 DEF Covered, CommandHolds
<1>6. Opened(s)'
  BY <1>1 DEF Opened, CommandHolds
<1> QED BY <1>3, <1>4, <1>5, <1>6 DEF CommandHolds

\* A step that leaves the maps of the service and the commands alone, as one that
\* asks the service in vain.
LEMMA NothingOwn ==
    ASSUME CommandInv, NEW s \in Sock,
           UNCHANGED <<SockToClient, LockMap, TransactionList>>,
           UNCHANGED <<commands, history>>
    PROVE  CommandHolds(s)'
<1>1. UNCHANGED <<SockToClient, LockMap, TransactionList>>
  OBVIOUS
<1>2. /\ Up(s)' <=> Up(s)
      /\ \A f, fl : Holds(s, f, fl)' <=> Holds(s, f, fl)
      /\ \A id : IsRead(s, id)' <=> IsRead(s, id)
  BY <1>1, NothingEffect, SameHolds DEF Same
<1>3. /\ pc' = pc /\ pass' = pass /\ pos' = pos /\ tree' = tree /\ repo' = repo
      /\ shown' = shown /\ raced' = raced
      /\ Kind(s)' = Kind(s) /\ Files(s)' = Files(s) /\ Here(s)' = Here(s)
      /\ CommandHolds(s)
  BY JobSame DEF commands, history, CommandInv
<1>4. Placed(s)' /\ WriteLocked(s)' /\ Opened(s)'
  BY <1>2, <1>3 DEF Placed, WriteLocked, Opened, CommandHolds
<1>5. ReadLocked(s)'
  BY <1>1, <1>2, <1>3 DEF ReadLocked, CommandHolds
<1>6. Covered(s)'
  <2>1. \A i : Awaiting(s, i)' <=> Awaiting(s, i)
    BY <1>3 DEF Awaiting
  <2> QED BY <1>2, <1>3, <2>1 DEF Covered, CommandHolds
<1> QED BY <1>4, <1>5, <1>6 DEF CommandHolds

\* From the advisory lock on, a checked file is still as it was checked.
LEMMA AdvisoryOwn ==
    ASSUME CommandInv, NEW s \in Sock, Advisory(s)
    PROVE  CommandHolds(s)'
<1>1. CASE LockGranted(s, Here(s), WriteAdvisory) /\ Goto(s, "free")
  <2>1. /\ pc[s] = "advisory" /\ pc'[s] = "free" /\ pos'[s] = pos[s] /\ pass'[s] = pass[s]
        /\ tree' = tree /\ repo' = repo /\ raced' = raced /\ shown' = shown
        /\ Kind(s)' = Kind(s) /\ Files(s)' = Files(s) /\ Here(s)' = Here(s)
        /\ CommandHolds(s) /\ IndInv /\ StateOK
    BY <1>1, JobSame DEF Advisory, Goto, CommandInv, StateOK, history
  <2>2. /\ Holds(s, Here(s), WriteAdvisory)'
        /\ \A f, fl : Holds(s, f, fl) => Holds(s, f, fl)'
        /\ \A x : IsRead(s, x)' <=> IsRead(s, x)
        /\ Up(s) /\ Up(s)'
    BY <1>1, <2>1, GrantHolds, Kinds
  <2>3. Placed(s)' /\ WriteLocked(s)' /\ Opened(s)'
    BY <2>1, <2>2 DEF Placed, WriteLocked, Opened, CommandHolds, Working, Reading, Writing
  <2>4. ReadLocked(s)'
    <3>1. \A x : IsRead(s, x) => x \in DOMAIN LockMap
      BY DEF IsRead, IsLock
    <3> QED BY <2>1, <2>2, <3>1 DEF ReadLocked, CommandHolds, Reading, Writing
  <2>5. Covered(s)'
    <3>1. \A i : Awaiting(s, i)' => Awaiting(s, i) \/ i = pos[s]
      BY <2>1 DEF Awaiting, Working, Reading
    <3>2. Len(repo[Here(s)]) = Base \/ s \in shown \union raced
      BY <2>1 DEF CommandHolds, Opened
    <3>3. Files(s)[pos[s]] = Here(s)
      BY DEF Here
    <3> QED BY <2>1, <2>2, <3>1, <3>2, <3>3 DEF Covered, CommandHolds
  <2> QED BY <2>3, <2>4, <2>5 DEF CommandHolds
<1>2. CASE UNCHANGED pc /\ \E flags : LockWaitsForTransaction(s, Here(s), flags)
  BY <1>2, NothingOwn DEF Advisory, LockWaitsForTransaction, commands
<1> QED BY <1>1, <1>2 DEF Advisory

\* The write lock is there before the file is replaced.
LEMMA WriteLockOwn ==
    ASSUME CommandInv, NEW s \in Sock, WriteLock(s)
    PROVE  CommandHolds(s)'
<1>1. CASE LockGranted(s, Here(s), WriteFull) /\ Goto(s, "modified")
  <2>1. /\ pc[s] = "wlock" /\ pc'[s] = "modified" /\ pos'[s] = pos[s] /\ pass'[s] = pass[s]
        /\ tree' = tree /\ repo' = repo /\ raced' = raced /\ shown' = shown
        /\ Kind(s)' = Kind(s) /\ Files(s)' = Files(s) /\ Here(s)' = Here(s)
        /\ CommandHolds(s) /\ IndInv /\ StateOK
    BY <1>1, JobSame DEF WriteLock, Goto, CommandInv, StateOK, history
  <2>2. /\ Holds(s, Here(s), WriteFull)'
        /\ \A f, fl : Holds(s, f, fl) => Holds(s, f, fl)'
        /\ \A x : IsRead(s, x)' <=> IsRead(s, x)
        /\ Up(s) /\ Up(s)'
    BY <1>1, <2>1, GrantHolds, Kinds
  <2>3. Placed(s)' /\ WriteLocked(s)' /\ Opened(s)'
    BY <2>1, <2>2 DEF Placed, WriteLocked, Opened, CommandHolds, Working, Reading, Writing
  <2>4. ReadLocked(s)'
    <3>1. \A x : IsRead(s, x) => x \in DOMAIN LockMap
      BY DEF IsRead, IsLock
    <3> QED BY <2>1, <2>2, <3>1 DEF ReadLocked, CommandHolds, Reading, Writing
  <2>5. Covered(s)'
    <3>1. \A i : Awaiting(s, i)' => Awaiting(s, i)
      BY <2>1 DEF Awaiting, Working, Writing
    <3> QED BY <2>1, <2>2, <3>1 DEF Covered, CommandHolds
  <2> QED BY <2>3, <2>4, <2>5 DEF CommandHolds
<1>2. CASE UNCHANGED pc /\ \E flags : LockWaitsForTransaction(s, Here(s), flags)
  BY <1>2, NothingOwn DEF WriteLock, LockWaitsForTransaction, commands
<1> QED BY <1>1, <1>2 DEF WriteLock

\* A report changes no lock.
LEMMA ModifiedOwn ==
    ASSUME CommandInv, NEW s \in Sock, Modified(s)
    PROVE  CommandHolds(s)'
<1>1. /\ pc[s] = "modified" /\ pc'[s] = "rename" /\ pos'[s] = pos[s] /\ pass'[s] = pass[s]
      /\ tree' = tree /\ repo' = repo /\ raced' = raced /\ shown' = shown
      /\ Kind(s)' = Kind(s) /\ Files(s)' = Files(s) /\ Here(s)' = Here(s)
      /\ CommandHolds(s) /\ IndInv
      /\ DoModified(s, LockOf(s, WriteFull), Trunk, Len(tree[s]))
  BY JobSame DEF Modified, Goto, CommandInv, StateOK, history
<1>2. /\ Up(s) /\ Up(s)' /\ UNCHANGED <<SockToClient, LockMap>>
  BY <1>1, ModifiedEffect
<1>3. /\ \A f, fl : Holds(s, f, fl)' <=> Holds(s, f, fl)
      /\ \A x : IsRead(s, x)' <=> IsRead(s, x)
  BY <1>2 DEF Holds, IsRead, IsLock, Up
<1>4. Placed(s)' /\ WriteLocked(s)' /\ Opened(s)'
  BY <1>1, <1>2, <1>3 DEF Placed, WriteLocked, Opened, CommandHolds, Working, Reading, Writing
<1>5. ReadLocked(s)'
  BY <1>1, <1>2, <1>3 DEF ReadLocked, CommandHolds, Reading, Writing
<1>6. Covered(s)'
  <2>1. \A i : Awaiting(s, i)' => Awaiting(s, i)
    BY <1>1 DEF Awaiting, Working, Writing
  <2> QED BY <1>1, <1>3, <2>1 DEF Covered, CommandHolds
<1> QED BY <1>4, <1>5, <1>6 DEF CommandHolds

\* The file that is replaced is the one the process is at, and no other of its job.
LEMMA RenameOwn ==
    ASSUME CommandInv, NEW s \in Sock, Rename(s)
    PROVE  CommandHolds(s)'
<1>1. /\ pc[s] = "rename" /\ pc'[s] = "wunlock" /\ pos'[s] = pos[s] /\ pass'[s] = pass[s]
      /\ repo' = [repo EXCEPT ![Here(s)] = Append(tree[s], s)]
      /\ raced' = raced /\ shown' = shown
      /\ Kind(s)' = Kind(s) /\ Files(s)' = Files(s) /\ Here(s)' = Here(s)
      /\ CommandHolds(s) /\ StateOK
      /\ UNCHANGED <<SockToClient, LockMap, TransactionList>>
  BY JobSame DEF Rename, Goto, CommandInv, StateOK, history, vars
<1>2. /\ Up(s)' <=> Up(s)
      /\ \A f, flags : Holds(s, f, flags)' <=> Holds(s, f, flags)
      /\ \A id : IsRead(s, id)' <=> IsRead(s, id)
  BY <1>1, NothingEffect, SameHolds DEF Same
<1>3. Placed(s)' /\ WriteLocked(s)' /\ Opened(s)'
  BY <1>1, <1>2 DEF Placed, WriteLocked, Opened, CommandHolds, Working, Reading, Writing
<1>4. ReadLocked(s)'
  BY <1>1, <1>2 DEF ReadLocked, CommandHolds, Reading, Writing
<1>5. Covered(s)'
  <2>1. \A i : Awaiting(s, i)' => Awaiting(s, i)
    BY <1>1 DEF Awaiting, Working, Writing
  <2>2. \A i \in DOMAIN Files(s) : i # pos[s] => Files(s)[i] # Here(s)
    BY <1>1, HereIsFile DEF StateOK, Here, CommandHolds, Working, Writing
  <2>3. \A i \in DOMAIN Files(s) : i # pos[s] => repo'[Files(s)[i]] = repo[Files(s)[i]]
    BY <1>1, <2>2 DEF StateOK, Job, Files
  <2> QED BY <1>1, <1>2, <2>1, <2>3 DEF Covered, CommandHolds
<1> QED BY <1>3, <1>4, <1>5 DEF CommandHolds

\* The write lock goes after the file is replaced.
LEMMA WriteUnlockOwn ==
    ASSUME CommandInv, NEW s \in Sock, WriteUnlock(s)
    PROVE  CommandHolds(s)'
<1>1. /\ pc[s] = "wunlock" /\ pc'[s] = "aunlock" /\ pos'[s] = pos[s] /\ pass'[s] = pass[s]
      /\ repo' = repo /\ raced' = raced /\ shown' = shown
      /\ Kind(s)' = Kind(s) /\ Files(s)' = Files(s) /\ Here(s)' = Here(s)
      /\ CommandHolds(s) /\ IndInv
      /\ DoUnlock(s, LockOf(s, WriteFull))
  BY JobSame DEF WriteUnlock, Goto, CommandInv, StateOK, history
<1>2. /\ LockMap[LockOf(s, WriteFull)].flags = WriteFull
      /\ \A x : IsRead(s, x) => x # LockOf(s, WriteFull)
  BY <1>1, LockOfHeld, Kinds DEF CommandHolds, WriteLocked, IsRead
<1>3. /\ \A f : Holds(s, f, ReadFull) => Holds(s, f, ReadFull)'
      /\ \A f : Holds(s, f, WriteAdvisory) => Holds(s, f, WriteAdvisory)'
      /\ \A x : IsRead(s, x)' <=> IsRead(s, x)
      /\ Up(s) /\ Up(s)'
  BY <1>1, <1>2, UnlockHolds, Kinds
<1>4. Placed(s)' /\ WriteLocked(s)' /\ Opened(s)'
  BY <1>1, <1>3 DEF Placed, WriteLocked, Opened, CommandHolds, Working, Reading, Writing
<1>5. ReadLocked(s)'
  <2>1. \A x : IsRead(s, x) => x \in DOMAIN LockMap
    BY DEF IsRead, IsLock
  <2> QED BY <1>1, <1>3, <2>1 DEF ReadLocked, CommandHolds, Reading, Writing
<1>6. Covered(s)'
  <2>1. \A i : Awaiting(s, i)' => Awaiting(s, i)
    BY <1>1 DEF Awaiting, Working, Writing
  <2> QED BY <1>1, <1>3, <2>1 DEF Covered, CommandHolds
<1> QED BY <1>4, <1>5, <1>6 DEF CommandHolds

\* The advisory lock that goes is that of the file committed.
LEMMA AdvisoryUnlockOwn ==
    ASSUME CommandInv, NEW s \in Sock, AdvisoryUnlock(s)
    PROVE  CommandHolds(s)'
<1>1. /\ pc[s] = "aunlock" /\ pc'[s] = "free" /\ pos'[s] = pos[s] /\ pass'[s] = pass[s]
      /\ repo' = repo /\ raced' = raced /\ shown' = shown
      /\ Kind(s)' = Kind(s) /\ Files(s)' = Files(s) /\ Here(s)' = Here(s)
      /\ CommandHolds(s) /\ IndInv /\ StateOK
      /\ DoUnlock(s, LockOf(s, WriteAdvisory))
  BY JobSame DEF AdvisoryUnlock, Goto, CommandInv, StateOK, history
<1>2. pos[s] \in DOMAIN Files(s) /\ Here(s) = Files(s)[pos[s]] /\ pass[s] = "commit" /\ Kind(s) = "commit"
  BY <1>1, HereIsFile DEF CommandHolds, Placed, Working, Writing, Here
<1>3. Awaiting(s, pos[s])
  BY <1>1, <1>2 DEF Awaiting, Working, Writing
<1>4. Holds(s, Here(s), WriteAdvisory)
  BY <1>1, <1>2, <1>3 DEF CommandHolds, Covered
<1>5. /\ LockMap[LockOf(s, WriteAdvisory)].flags = WriteAdvisory
      /\ LockMap[LockOf(s, WriteAdvisory)].path = Here(s)
      /\ \A x : IsRead(s, x) => x # LockOf(s, WriteAdvisory)
  BY <1>4, LockOfHeld, Kinds DEF IsRead
<1>6. /\ \A f : Holds(s, f, ReadFull) => Holds(s, f, ReadFull)'
      /\ \A f : f # Here(s) /\ Holds(s, f, WriteAdvisory) => Holds(s, f, WriteAdvisory)'
      /\ \A x : IsRead(s, x)' <=> IsRead(s, x)
      /\ Up(s) /\ Up(s)'
  BY <1>1, <1>5, UnlockHolds, Kinds
<1>7. Placed(s)' /\ WriteLocked(s)' /\ Opened(s)'
  BY <1>1, <1>6 DEF Placed, WriteLocked, Opened, CommandHolds, Working, Reading, Writing
<1>8. ReadLocked(s)'
  <2>1. \A x : IsRead(s, x) => x \in DOMAIN LockMap
    BY DEF IsRead, IsLock
  <2> QED BY <1>1, <1>6, <2>1 DEF ReadLocked, CommandHolds, Reading, Writing
<1>9. Covered(s)'
  <2>1. \A i : Awaiting(s, i)' => Awaiting(s, i) /\ i # pos[s]
    BY <1>1, <1>2 DEF Awaiting, Working, Writing, StateOK
  <2>2. \A i \in DOMAIN Files(s) : i # pos[s] => Files(s)[i] # Here(s)
    BY <1>1, <1>2 DEF StateOK
  <2> QED BY <1>1, <1>6, <2>1, <2>2 DEF Covered, CommandHolds
<1> QED BY <1>7, <1>8, <1>9 DEF CommandHolds

\* The read lock goes before the next file or pass.
LEMMA FreeOwn ==
    ASSUME CommandInv, NEW s \in Sock, Free(s)
    PROVE  CommandHolds(s)'
<1>1. /\ pc[s] = "free" /\ repo' = repo /\ raced' = raced /\ shown' = shown
      /\ Kind(s)' = Kind(s) /\ Files(s)' = Files(s)
      /\ CommandHolds(s) /\ IndInv /\ StateOK
      /\ DoUnlock(s, LockOf(s, ReadFull))
  BY JobSame DEF Free, CommandInv, history
<1>2. pos[s] \in DOMAIN Files(s) /\ Files(s) \in Seq(Path) /\ pos[s] \in Nat /\ pos[s] >= 1
  BY <1>1, HereIsFile DEF CommandHolds, Working, Reading, StateOK
<1>3. /\ Holds(s, Here(s), ReadFull)
      /\ \A x, y \in DOMAIN LockMap : IsRead(s, x) /\ IsRead(s, y) => x = y
  BY <1>1 DEF CommandHolds, ReadLocked, Reading
<1>4. /\ LockMap[LockOf(s, ReadFull)].flags = ReadFull
      /\ LockOf(s, ReadFull) \in DOMAIN LockMap
      /\ IsRead(s, LockOf(s, ReadFull))
  BY <1>3, LockOfHeld DEF IsRead
<1>5. /\ \A f : Holds(s, f, WriteAdvisory) => Holds(s, f, WriteAdvisory)'
      /\ \A x : IsRead(s, x)' <=> IsRead(s, x) /\ x # LockOf(s, ReadFull)
      /\ Up(s) /\ Up(s)'
  BY <1>1, <1>4, UnlockHolds, Kinds
<1>6. \A x : ~IsRead(s, x)'
  <2>1. \A x : IsRead(s, x) => x \in DOMAIN LockMap
    BY DEF IsRead, IsLock
  <2> QED BY <1>3, <1>4, <1>5, <2>1
<1>7. \/ /\ pos[s] < Len(Files(s)) /\ pos'[s] = pos[s] + 1
         /\ pc'[s] = "open" /\ pass'[s] = pass[s]
      \/ /\ pos[s] = Len(Files(s)) /\ Kind(s) = "commit" /\ pass[s] = "check"
         /\ pos'[s] = 1 /\ pc'[s] = "open" /\ pass'[s] = "commit"
      \/ /\ pos[s] = Len(Files(s)) /\ pos'[s] = pos[s]
         /\ pc'[s] = "end" /\ pass'[s] = pass[s]
  BY <1>1 DEF Free, Goto, StateOK
<1>8. Files(s) # << >> /\ (pass[s] # "check" => Kind(s) = "commit")
  BY <1>1, <1>5 DEF CommandHolds, Placed
<1>9. pc'[s] = "open" => pos'[s] \in DOMAIN Files(s)
  BY <1>2, <1>7
<1>10. Placed(s)'
  BY <1>1, <1>5, <1>7, <1>8, <1>9 DEF Placed, Working, Reading, Writing
<1>11. ReadLocked(s)' /\ WriteLocked(s)' /\ Opened(s)'
  BY <1>6, <1>7 DEF ReadLocked, WriteLocked, Opened, Reading, Writing
<1>12. \A i : Awaiting(s, i)' => Awaiting(s, i)
  <2> SUFFICES ASSUME NEW i, Awaiting(s, i)' PROVE Awaiting(s, i)
    OBVIOUS
  <2>1. i \in DOMAIN Files(s) /\ i \in Nat /\ i >= 1 /\ i <= Len(Files(s)) /\ Kind(s) = "commit"
    BY <1>1, <1>2 DEF Awaiting
  <2>2. pc'[s] = "open"
    BY <1>7 DEF Awaiting, Working, Reading, Writing
  <2>3. /\ pass'[s] = "check" => i < pos'[s]
        /\ pass'[s] = "commit" => i >= pos'[s]
        /\ pass'[s] \in {"check", "commit"}
    BY <1>2, <1>7, <2>1, <2>2 DEF Awaiting
  <2> QED BY <1>1, <1>2, <1>7, <2>1, <2>2, <2>3 DEF Awaiting, Working, Reading
<1>13. Covered(s)'
  <2>1. pc'[s] \notin {"wunlock", "aunlock"} /\ pc[s] = "free"
    BY <1>1, <1>7
  <2> QED BY <1>1, <1>5, <1>12, <2>1 DEF Covered, CommandHolds
<1> QED BY <1>10, <1>11, <1>13 DEF CommandHolds

-----------------------------------------------------------------------------
(* All steps *)

\* A step of the system is a step of the service, or leaves it alone.
LEMMA ServiceStep ==
    ASSUME CommandInv, [SystemNext]_system
    PROVE  [Next]_vars
<1> SUFFICES ASSUME ~UNCHANGED vars PROVE Next
  OBVIOUS
<1>1. CASE UNCHANGED system
  BY <1>1 DEF system
<1>2. CASE ClockTick
  BY <1>2 DEF ClockTick, Next
<1>3. ASSUME NEW s \in Sock, Kill(s) PROVE FALSE
  BY <1>3 DEF Kill
<1>4. ASSUME NEW s \in Sock, Step(s) PROVE Next
  <2>1. pc[s] \in Working => Here(s) \in Path
    BY HereIsFile DEF CommandInv, CommandHolds
  <2>2. \A flags : Holds(s, Here(s), flags) => LockOf(s, flags) \in DOMAIN LockMap
    BY LockOfHeld
  <2>3. Len(tree[s]) \in Version /\ Trunk \in Branch
    BY VersionAssumption, NameAssumption DEF CommandInv, StateOK
  <2>4. ASSUME Command(s) \/ Connect(s) \/ Close(s) PROVE Next
    BY <2>4 DEF Next
  <2>5. CASE Register(s)
    BY <2>4, <2>5 DEF Register, Connect
  <2>6. CASE Login(s)
    BY <2>4, <2>6 DEF Login, Command
  <2>7. CASE Disconnect(s)
    BY <2>4, <2>7 DEF Disconnect, Close
  <2>8. CASE Open(s) \/ TakeHead(s) \/ Check(s) \/ Rename(s)
    BY <2>8 DEF Open, TakeHead, Check, Rename
  <2>9. CASE ReadLock(s)
    BY <2>1, <2>4, <2>9, Kinds DEF ReadLock, Command, Working
  <2>10. CASE Advisory(s)
    BY <2>1, <2>4, <2>10, Kinds DEF Advisory, Command, Working, Reading
  <2>11. CASE WriteLock(s)
    BY <2>1, <2>4, <2>11, Kinds DEF WriteLock, Command, Working, Writing
  <2>12. CASE Free(s)
    BY <2>4, <2>12 DEF Free, Command, DoUnlock, OwnLock
  <2>13. CASE WriteUnlock(s)
    BY <2>4, <2>13 DEF WriteUnlock, Command, DoUnlock, OwnLock
  <2>14. CASE AdvisoryUnlock(s)
    BY <2>4, <2>14 DEF AdvisoryUnlock, Command, DoUnlock, OwnLock
  <2>15. CASE Modified(s)
    BY <2>3, <2>4, <2>15 DEF Modified, Command, DoModified, OwnLock
  <2> QED BY <1>4, <2>5, <2>6, <2>7, <2>8, <2>9, <2>10, <2>11, <2>12, <2>13, <2>14, <2>15 DEF Step
<1> QED BY <1>1, <1>2, <1>3, <1>4 DEF SystemNext

-----------------------------------------------------------------------------
(* The whole step *)

\* A step of one process leaves the others aside, and the history grows.
LEMMA StepAside ==
    ASSUME CommandInv, NEW s \in Sock, Step(s) \/ Kill(s)
    PROVE  /\ \A t \in Sock \ {s} : Aside(t)
           /\ RepoStep(s)
           /\ job' = job /\ hidden \subseteq hidden'
           /\ \A t \in Sock : over[t] \subseteq over'[t]
<1> DEFINE Rest(t) == /\ pc'[t] = pc[t] /\ pass'[t] = pass[t] /\ pos'[t] = pos[t]
                      /\ tree'[t] = tree[t] /\ got'[t] = got[t]
           Grown == /\ shown \subseteq shown' /\ raced \subseteq raced'
                    /\ job' = job /\ hidden \subseteq hidden'
                    /\ \A t \in Sock : over[t] \subseteq over'[t]
<1> SUFFICES OthersSame(s) /\ (\A t \in Sock \ {s} : Rest(t)) /\ Grown /\ RepoStep(s)
  BY DEF Aside, OthersSame
<1>1. IndInv /\ StateOK
  BY DEF CommandInv
<1>2. UNCHANGED <<SockToClient, LockMap, TransactionList>> => OthersSame(s)
  BY NothingEffect DEF OthersSame
<1>3. CASE Register(s)
  <2>1. OthersSame(s)
    BY <1>1, <1>2, <1>3, OpenEffect
       DEF Register, Accept, LockTimeCompare, LockTimeStore, LockTimeCopy, lockVars
  <2> QED BY <1>3, <2>1 DEF Register, commands, history, RepoStep
<1>4. CASE Login(s)
  BY <1>1, <1>2, <1>4 DEF Login, DoClient, lockVars, Goto, history, RepoStep, StateOK
<1>5. CASE Disconnect(s)
  BY <1>1, <1>5, CloseEffect DEF Disconnect, RepoStep, StateOK
<1>6. CASE Open(s)
  BY <1>1, <1>2, <1>6 DEF Open, vars, Goto, history, RepoStep, StateOK
<1>7. CASE ReadLock(s)
  BY <1>1, <1>7, GrantEffect DEF ReadLock, Goto, RepoStep, StateOK
<1>8. CASE TakeHead(s)
  BY <1>1, <1>2, <1>8 DEF TakeHead, vars, Goto, history, RepoStep, StateOK
<1>9. CASE Check(s)
  BY <1>1, <1>2, <1>9 DEF Check, vars, Goto, history, RepoStep, StateOK
<1>10. CASE Advisory(s) \/ WriteLock(s)
  <2>1. OthersSame(s)
    BY <1>1, <1>2, <1>10, GrantEffect DEF Advisory, WriteLock, LockWaitsForTransaction
  <2> QED BY <1>1, <1>10, <2>1 DEF Advisory, WriteLock, Goto, history, RepoStep, StateOK
<1>11. CASE Free(s) \/ WriteUnlock(s) \/ AdvisoryUnlock(s)
  <2>1. OthersSame(s)
    BY <1>1, <1>11, UnlockEffect DEF Free, WriteUnlock, AdvisoryUnlock
  <2> QED BY <1>1, <1>11, <2>1
          DEF Free, WriteUnlock, AdvisoryUnlock, Goto, history, RepoStep, StateOK
<1>12. CASE Modified(s)
  BY <1>1, <1>12, ModifiedEffect DEF Modified, Goto, history, RepoStep, StateOK
<1>13. CASE Rename(s)
  BY <1>1, <1>2, <1>13 DEF Rename, vars, Goto, history, RepoStep, StateOK
<1>14. CASE Kill(s)
  BY <1>1, <1>2, <1>14 DEF Kill, vars, Goto, history, RepoStep, StateOK
<1> QED BY <1>3, <1>4, <1>5, <1>6, <1>7, <1>8, <1>9, <1>10, <1>11, <1>12, <1>13, <1>14 DEF Step

\* The head that an update takes is a sequence of revisions.
LEMMA HeadTaken ==
    ASSUME CommandInv, NEW s \in Sock, pc[s] = "head"
    PROVE  (IF HeadVersion(s) <= Len(tree[s]) THEN SubSeq(tree[s], 1, HeadVersion(s)) ELSE << >>)
             \in Seq(Author)
<1>1. IndInv /\ StateOK /\ Holds(s, Here(s), ReadFull)
  BY DEF CommandInv, CommandHolds, ReadLocked, Reading
<1>2. LockOf(s, ReadFull) \in DOMAIN LockMap
  BY <1>1, LockOfHeld
<1>3. HeadVersion(s) \in Nat
  BY <1>1, <1>2, HeadNat, HeadIs
<1>4. tree[s] \in Seq(Author)
  BY <1>1 DEF StateOK
<1> DEFINE h == HeadVersion(s)
<1> HIDE DEF h
<1>5. h \in Nat
  BY <1>3 DEF h
<1>6. h <= Len(tree[s]) => SubSeq(tree[s], 1, h) \in Seq(Author)
  BY <1>4, <1>5
<1> QED BY <1>6 DEF h

\* Every step keeps the types.
LEMMA StateStep ==
    ASSUME CommandInv, NEW s \in Sock, Step(s) \/ Kill(s)
    PROVE  StateOK'
<1>1. StateOK
  BY DEF CommandInv
<1>2. repo' \in [Path -> Seq(Author)] /\ job' = job
  BY RepoGrows, StepAside
<1>3. /\ job' \in [Sock -> Job]
      /\ \A t \in Sock : \A m, n \in DOMAIN Files(t)' : Files(t)'[m] = Files(t)'[n] => m = n
  <2>1. \A t : Files(t)' = Files(t)
    BY <1>2 DEF Files
  <2> QED BY <1>1, <1>2, <2>1 DEF StateOK
<1> DEFINE Rest == /\ tree \in [Sock -> Seq(Author)]
                   /\ got \in [Sock -> [Path -> Seq(Author)]]
                   /\ pc \in [Sock -> Working \union {"connect", "end", "done", "dead"}]
                   /\ pass \in [Sock -> {"check", "commit", "failed"}] /\ pos \in [Sock -> Nat]
                   /\ over \in [Sock -> SUBSET Sock] /\ hidden \subseteq Sock \X Sock
                   /\ shown \subseteq Sock /\ raced \subseteq Sock
<1>4. Rest
  BY <1>1 DEF StateOK
<1> SUFFICES Rest'
  BY <1>2, <1>3 DEF StateOK
<1>5. CASE Register(s)
  BY <1>4, <1>5 DEF Register, commands, history
<1>6. CASE Login(s) \/ Advisory(s) \/ WriteLock(s) \/ Modified(s) \/ Rename(s) \/ WriteUnlock(s)
             \/ AdvisoryUnlock(s) \/ Kill(s)
  <2>1. UNCHANGED <<pass, pos, tree, got, history>>
    BY <1>6 DEF Login, Advisory, WriteLock, Modified, Rename, WriteUnlock, AdvisoryUnlock, Kill
  <2>2. \/ pc' = pc
        \/ \E to \in Working \union {"dead"} : pc' = [pc EXCEPT ![s] = to]
    BY <1>6 DEF Login, Advisory, WriteLock, Modified, Rename, WriteUnlock, AdvisoryUnlock, Kill,
                Goto, Working, Reading, Writing
  <2> QED BY <1>4, <2>1, <2>2 DEF history
<1>7. CASE Disconnect(s)
  <2>1. over' \in [Sock -> SUBSET Sock]
    BY <1>4, <1>7 DEF Disconnect
  <2>2. pc' \in [Sock -> Working \union {"connect", "end", "done", "dead"}]
    BY <1>4, <1>7 DEF Disconnect
  <2> QED BY <1>4, <1>7, <2>1, <2>2 DEF Disconnect
<1>8. CASE Open(s)
  <2>1. repo[Here(s)] \in Seq(Author)
    BY <1>1, <1>8, HereIsFile DEF StateOK, CommandInv, CommandHolds, Open, Working
  <2> QED BY <1>4, <1>8, <2>1 DEF Open, Goto, history, Working
<1>9. CASE ReadLock(s)
  <2>1. NotTold(s) \subseteq Sock
    BY DEF NotTold
  <2>2. hidden' \subseteq Sock \X Sock /\ raced' \subseteq Sock
    BY <1>4, <1>9, <2>1 DEF ReadLock
  <2>3. \E to \in Working : pc' = [pc EXCEPT ![s] = to]
    BY <1>9 DEF ReadLock, Goto, Working, Reading, Writing
  <2> QED BY <1>4, <1>9, <2>2, <2>3 DEF ReadLock
<1>10. CASE TakeHead(s)
  <2> DEFINE new == IF HeadVersion(s) <= Len(tree[s]) THEN SubSeq(tree[s], 1, HeadVersion(s)) ELSE << >>
  <2>1. new \in Seq(Author)
    BY <1>10, HeadTaken DEF TakeHead
  <2>2. got' = [got EXCEPT ![s][Here(s)] = new] /\ Goto(s, "free")
        /\ UNCHANGED <<pass, pos, tree, history>>
    BY <1>10 DEF TakeHead
  <2> HIDE DEF new
  <2>3. got' \in [Sock -> [Path -> Seq(Author)]]
    BY <1>4, <2>1, <2>2
  <2> QED BY <1>4, <2>2, <2>3 DEF Goto, history, Working, Reading
<1>11. CASE Check(s)
  <2>1. \E to \in Working : pc' = [pc EXCEPT ![s] = to]
    BY <1>11 DEF Check, Goto, Working, Reading
  <2>2. pass' = pass \/ pass' = [pass EXCEPT ![s] = "failed"]
    BY <1>11 DEF Check
  <2>3. UNCHANGED <<pos, tree, got, over, hidden, raced>> /\ shown' \subseteq shown \union {s}
    BY <1>11 DEF Check
  <2>4. pc' \in [Sock -> Working \union {"connect", "end", "done", "dead"}]
    BY <1>4, <2>1
  <2>5. pass' \in [Sock -> {"check", "commit", "failed"}]
    BY <1>4, <2>2
  <2> QED BY <1>4, <2>3, <2>4, <2>5
<1>12. CASE Free(s)
  <2>1. \E to \in Working \union {"end"} : pc' = [pc EXCEPT ![s] = to]
    BY <1>12 DEF Free, Goto, Working
  <2>2. pass' = pass \/ pass' = [pass EXCEPT ![s] = "commit"]
    BY <1>12 DEF Free
  <2>3. pos' = pos \/ \E n \in Nat : pos' = [pos EXCEPT ![s] = n]
    BY <1>4, <1>12 DEF Free
  <2>4. UNCHANGED <<tree, got, history>>
    BY <1>12 DEF Free
  <2>5. pc' \in [Sock -> Working \union {"connect", "end", "done", "dead"}]
    BY <1>4, <2>1
  <2>6. pass' \in [Sock -> {"check", "commit", "failed"}]
    BY <1>4, <2>2
  <2>7. pos' \in [Sock -> Nat]
    BY <1>4, <2>3
  <2> QED BY <1>4, <2>4, <2>5, <2>6, <2>7 DEF history
<1> QED BY <1>5, <1>6, <1>7, <1>8, <1>9, <1>10, <1>11, <1>12 DEF Step

\* Every step keeps CommandInv.
LEMMA CommandStep ==
    ASSUME CommandInv, [SystemNext]_system
    PROVE  CommandInv'
<1>1. IndInv'
  BY ServiceStep, NextInv DEF CommandInv
<1>2. ASSUME UNCHANGED <<SockToClient, LockMap, TransactionList>>, UNCHANGED <<commands, history>>
      PROVE  CommandInv'
  <2>1. \A s \in Sock : CommandHolds(s)'
    BY <1>2, NothingOwn
  <2>2. StateOK'
    BY <1>2 DEF CommandInv, StateOK, commands, history, Files
  <2> QED BY <1>1, <2>1, <2>2 DEF CommandInv
<1>3. CASE UNCHANGED system \/ ClockTick
  BY <1>2, <1>3 DEF system, vars, ClockTick, Tick
<1>4. ASSUME NEW s \in Sock, Step(s) \/ Kill(s) PROVE CommandInv'
  <2>1. \A t \in Sock \ {s} : CommandHolds(t)'
    BY <1>4, StepAside, OtherHolds
  <2>2. CommandHolds(s)'
    BY <1>4, RegisterOwn, LoginOwn, DisconnectOwn, KillOwn, OpenOwn, ReadLockOwn, TakeHeadOwn,
       CheckOwn, AdvisoryOwn, FreeOwn, WriteLockOwn, ModifiedOwn, RenameOwn, WriteUnlockOwn,
       AdvisoryUnlockOwn DEF Step
  <2>3. StateOK'
    BY <1>4, StateStep
  <2> QED BY <1>1, <2>1, <2>2, <2>3 DEF CommandInv
<1> QED BY <1>3, <1>4 DEF SystemNext

\* CommandInv holds at first.
LEMMA CommandInit ==
    ASSUME SystemInit
    PROVE  CommandInv
<1>1. IndInv /\ DOMAIN SockToClient = {} /\ DOMAIN LockMap = {}
  BY InitInv, EmptyIsMap DEF SystemInit, Init
<1>2. StateOK
  <2>1. /\ job \in [Sock -> Job]
        /\ \A s \in Sock : \A m, n \in DOMAIN Files(s) : Files(s)[m] = Files(s)[n] => m = n
    BY JobAssumption DEF SystemInit, Files
  <2>2. <<Original>> \in Seq(Author) /\ << >> \in Seq(Author)
    BY DEF Author
  <2> QED BY <2>1, <2>2 DEF SystemInit, StateOK
<1>3. ASSUME NEW s \in Sock PROVE CommandHolds(s)
  <2>1. pc[s] = "connect" /\ pos[s] = 1 /\ pass[s] = "check" /\ ~Up(s)
    BY <1>1 DEF SystemInit, Up
  <2>2. Placed(s) /\ ReadLocked(s)
    BY <1>1, <2>1 DEF Placed, ReadLocked, Working, Reading, Writing
  <2>3. WriteLocked(s) /\ Covered(s) /\ Opened(s)
    BY <2>1 DEF WriteLocked, Covered, Opened, Awaiting, Working, Reading, Writing
  <2> QED BY <2>2, <2>3 DEF CommandHolds
<1> QED BY <1>1, <1>2, <1>3 DEF CommandInv

\* The commands keep their locks, and the service its invariant.
THEOREM SystemInvariance == SystemSpec => []CommandInv
<1>1. SystemInit => CommandInv
  BY CommandInit
<1>2. CommandInv /\ [SystemNext]_system => CommandInv'
  BY CommandStep
<1> QED BY <1>1, <1>2, PTL DEF SystemSpec

\* The commands use the service as it is specified: whatever is proved of it holds
\* for them.
THEOREM ServiceServed == SystemSpec => Spec
<1>1. SystemInit => Init
  BY DEF SystemInit
<1>2. CommandInv /\ [SystemNext]_system => [Next]_vars
  BY ServiceStep
<1> QED BY <1>1, <1>2, SystemInvariance, PTL DEF SystemSpec, Spec

\* What the service promises holds for the commands that use it: no write lock is
\* held beside a write or a full read lock of another process (LockParse.cpp,
\* request_lock).
THEOREM ServiceExclusive == SystemSpec => []WriteExclusion
BY ServiceServed, Exclusion, PTL

\* A commit replaces the file that it checked, unless it was shown an old version or
\* the file was replaced between fopen and lock.
THEOREM CommitsOnTop == SystemSpec => UpToDateUnlessShown
<1>1. ASSUME CommandInv, NEW s \in Sock, Rename(s)
      PROVE  Len(tree[s]) = Base \/ s \in shown \union raced
  <2>1. pc[s] = "rename" /\ CommandHolds(s) /\ StateOK
    BY <1>1 DEF Rename, CommandInv
  <2>2. pos[s] \in DOMAIN Files(s) /\ pass[s] = "commit" /\ Kind(s) = "commit"
    BY <2>1 DEF CommandHolds, Placed, Working, Writing
  <2>3. Awaiting(s, pos[s])
    BY <2>1, <2>2 DEF Awaiting, Working, Writing
  <2>4. Len(repo[Here(s)]) = Base \/ s \in shown \union raced
    BY <2>1, <2>2, <2>3 DEF CommandHolds, Covered, Here
  <2>5. tree[s] = repo[Here(s)]
    BY <2>1, <2>2 DEF CommandHolds, Opened
  <2> QED BY <2>4, <2>5
<1>2. CommandInv /\ [SystemNext]_system =>
        [\A s \in Sock :
           Rename(s) => \/ Len(tree[s]) = Base
                        \/ s \in shown \union raced]_system
  BY <1>1
<1> QED BY <1>2, SystemInvariance, PTL DEF SystemSpec, UpToDateUnlessShown

-----------------------------------------------------------------------------
(* Revisions and transactions *)

\* Where a step can take the process.
LEMMA Course ==
    ASSUME StateOK, NEW s \in Sock, Step(s) \/ Kill(s)
    PROVE  /\ pc'[s] = "rename" => Modified(s)
           /\ pc'[s] = "head" => ReadLock(s) /\ Kind(s) = "update"
           /\ pc'[s] = "wlock" => (ReadLock(s) /\ pass[s] = "commit") \/ WriteLock(s)
           /\ pc'[s] = "modified" => WriteLock(s) /\ LockGranted(s, Here(s), WriteFull)
           /\ pc'[s] = "lock" => Open(s)
           /\ pc'[s] = "connect" => Register(s)
           /\ pc'[s] = "done" => Disconnect(s)
           /\ pc'[s] = "end" => Free(s)
<1>1. CASE Register(s)
  BY <1>1 DEF Register, commands
<1>2. CASE Login(s) \/ Kill(s)
  BY <1>2 DEF StateOK, Login, Kill, Goto
<1>3. CASE Disconnect(s)
  BY <1>3 DEF StateOK, Disconnect
<1>4. CASE Open(s) \/ TakeHead(s) \/ Check(s) \/ Rename(s)
  BY <1>4 DEF StateOK, Open, TakeHead, Check, Rename, Goto
<1>5. CASE ReadLock(s)
  BY <1>5 DEF StateOK, ReadLock, Goto
<1>6. CASE Advisory(s)
  BY <1>6 DEF StateOK, Advisory, Goto
<1>7. CASE WriteLock(s)
  BY <1>7 DEF StateOK, WriteLock, Goto
<1>8. CASE Free(s) \/ WriteUnlock(s) \/ AdvisoryUnlock(s)
  BY <1>8 DEF StateOK, Free, WriteUnlock, AdvisoryUnlock, Goto
<1>9. CASE Modified(s)
  BY <1>9 DEF StateOK, Modified, Goto
<1> QED BY <1>1, <1>2, <1>3, <1>4, <1>5, <1>6, <1>7, <1>8, <1>9 DEF Step

\* What a step does to the transactions of the process that acts.
LEMMA ReportsKept ==
    ASSUME CommandInv, NEW s \in Sock, Step(s) \/ Kill(s), pc[s] # "connect"
    PROVE  /\ pc'[s] # "connect"
           /\ pass[s] = "commit" => pass'[s] = "commit"
           /\ Up(s)' => Up(s)
           /\ Up(s)' => \A f, v : Wrote(s, f, v) => Wrote(s, f, v)'
           /\ ~Modified(s) => \A f, v : Wrote(s, f, v)' => Wrote(s, f, v)
<1>1. IndInv /\ StateOK /\ CommandHolds(s)
  BY DEF CommandInv
<1>2. pc'[s] # "connect"
  BY <1>1, Course DEF Register
<1>3. UNCHANGED <<SockToClient, LockMap, TransactionList>> =>
        (Up(s)' <=> Up(s)) /\ \A f, v : Wrote(s, f, v)' <=> Wrote(s, f, v)
  BY NothingEffect DEF Same
<1>4. CASE Disconnect(s)
  BY <1>1, <1>2, <1>4, CloseEffect DEF Disconnect, Wrote
<1>5. CASE Open(s) \/ TakeHead(s) \/ Rename(s) \/ Kill(s)
  BY <1>2, <1>3, <1>5 DEF Open, TakeHead, Rename, Kill, vars
<1>6. CASE Check(s)
  BY <1>1, <1>2, <1>3, <1>6 DEF Check, vars, CommandHolds, Placed
<1>7. CASE ReadLock(s)
  BY <1>1, <1>2, <1>7, GrantEffect DEF ReadLock
<1>8. CASE Advisory(s) \/ WriteLock(s)
  <2>1. CASE \E flags : LockGranted(s, Here(s), flags)
    BY <1>1, <1>2, <1>8, <2>1, GrantEffect DEF Advisory, WriteLock
  <2>2. CASE \E flags : LockWaitsForTransaction(s, Here(s), flags)
    BY <1>2, <1>3, <1>8, <2>2 DEF Advisory, WriteLock, LockWaitsForTransaction
  <2> QED BY <1>8, <2>1, <2>2 DEF Advisory, WriteLock
<1>9. CASE WriteUnlock(s) \/ AdvisoryUnlock(s)
  BY <1>1, <1>2, <1>9, UnlockEffect DEF WriteUnlock, AdvisoryUnlock
<1>10. CASE Free(s)
  BY <1>1, <1>2, <1>10, UnlockEffect DEF Free, StateOK
<1>11. CASE Modified(s)
  BY <1>1, <1>2, <1>11, ModifiedEffect DEF Modified
<1>12. ~Register(s) /\ ~Login(s)
  BY DEF Register, Login
<1> QED BY <1>4, <1>5, <1>6, <1>7, <1>8, <1>9, <1>10, <1>11, <1>12 DEF Step

\* A revision that a process has opened is one of the file.
LEMMA TreeReported ==
    ASSUME CommandInv, ReportInv, NEW u \in Sock,
           pc[u] \in {"lock", "head", "check", "advisory", "wlock", "modified", "rename"},
           NEW i \in DOMAIN tree[u]
    PROVE  /\ Here(u) \in Path /\ i \in DOMAIN repo[Here(u)] /\ repo[Here(u)][i] = tree[u][i]
           /\ tree[u][i] \in Sock =>
                /\ pc[tree[u][i]] # "connect" /\ pass[tree[u][i]] = "commit"
                /\ Up(tree[u][i]) => Wrote(tree[u][i], Here(u), i - 1)
<1>1. Here(u) \in Path
  BY HereIsFile DEF CommandInv, CommandHolds, Working, Reading, Writing
<1>2. Begins(tree[u], repo[Here(u)])
  BY DEF CommandInv, CommandHolds, Opened
<1>3. tree[u] \in Seq(Author) /\ repo[Here(u)] \in Seq(Author)
  BY <1>1 DEF CommandInv, StateOK
<1>4. i \in DOMAIN repo[Here(u)] /\ repo[Here(u)][i] = tree[u][i]
  BY <1>2, <1>3 DEF Begins
<1> QED BY <1>1, <1>4 DEF ReportInv, RevisionsReported

\* What a lock that is granted tells.
LEMMA ToldBy ==
    ASSUME CommandInv, ReportInv, NEW s \in Sock, LockGranted(s, Here(s), ReadFull),
           tree' = tree, NEW j \in SeenBy(ClientOf(s), Here(s), ReadFull),
           NEW id, id = global_lockId + 1
    PROVE  HeadBy(s, id)' = TransactionList[j].oldversion
<1> DEFINE seen == SeenBy(ClientOf(s), Here(s), ReadFull)
<1>1. /\ LockMap'[id].versions =
           [b \in {TransactionList[i].branch : i \in seen} |->
              TransactionList[CHOOSE i \in seen : TRUE].oldversion]
  <2> DEFINE vm == [b \in {TransactionList[i].branch : i \in seen} |->
                      TransactionList[CHOOSE i \in seen : TRUE].oldversion]
             new == [owner |-> SockToClient[s], path |-> Here(s), flags |-> ReadFull,
                     versions |-> vm]
  <2>1. LockMap' = Put(LockMap, id, new)
    BY DEF LockGranted, LockRequest, ClientOf
  <2>2. new.versions = vm
    OBVIOUS
  <2> HIDE DEF new
  <2>3. LockMap'[id] = new
    BY <2>1 DEF Put
  <2> QED
    BY <2>2, <2>3
<1>2. \A i \in seen : i = j
  <2>1. \A i \in seen : i \in FirstOn(Here(s)) /\ i \in DOMAIN TransactionList
    BY DEF SeenBy, FirstOn
  <2>2. DOMAIN TransactionList \subseteq Nat
    BY DEF CommandInv, IndInv, TypeOK
  <2>3. \A i, k \in FirstOn(Here(s)) : i <= k /\ k <= i
    BY DEF FirstOn
  <2> QED BY <2>1, <2>2, <2>3
<1>3. seen = {j}
  BY <1>2
<1>4. (CHOOSE i \in seen : TRUE) = j
  BY <1>3
<1>5. TransactionList[j].branch = Trunk
  BY DEF ReportInv, OnTrunk, SeenBy, FirstOn
<1> HIDE DEF seen
<1>6. LockMap'[id].versions = [b \in {Trunk} |-> TransactionList[j].oldversion]
  BY <1>1, <1>3, <1>4, <1>5
<1> QED BY <1>6 DEF HeadBy

\* If the service sees no transaction, the head is the last revision opened.
LEMMA ToldNothing ==
    ASSUME IndInv, NEW s \in Sock, LockGranted(s, Here(s), ReadFull),
           tree' = tree, SeenBy(ClientOf(s), Here(s), ReadFull) = {},
           NEW id, id = global_lockId + 1
    PROVE  HeadBy(s, id)' = Len(tree[s])
<1> DEFINE seen == SeenBy(ClientOf(s), Here(s), ReadFull)
<1>1. LockMap'[id].versions =
        [b \in {TransactionList[i].branch : i \in seen} |->
           TransactionList[CHOOSE i \in seen : TRUE].oldversion]
  BY GrantEffect
<1>2. Trunk \notin DOMAIN LockMap'[id].versions
  BY <1>1
<1> QED BY <1>2 DEF HeadBy

\* A new revision was reported; an old one keeps its report.
LEMMA RevisionsStep ==
    ASSUME CommandInv, ReportInv, NEW s \in Sock, Step(s) \/ Kill(s)
    PROVE  RevisionsReported'
<1> SUFFICES ASSUME NEW f \in Path, NEW k \in DOMAIN repo'[f], NEW d \in Sock, repo'[f][k] = d
             PROVE  /\ pc'[d] # "connect" /\ pass'[d] = "commit"
                    /\ Up(d)' => Wrote(d, f, k - 1)'
  BY DEF RevisionsReported
<1>1. RepoStep(s) /\ \A t \in Sock \ {s} : Aside(t)
  BY StepAside
<1>2. repo \in [Path -> Seq(Author)] /\ tree \in [Sock -> Seq(Author)]
  BY DEF CommandInv, StateOK
<1>3. CASE k \in DOMAIN repo[f] /\ repo[f][k] = d
  <2>1. pc[d] # "connect" /\ pass[d] = "commit" /\ (Up(d) => Wrote(d, f, k - 1))
    BY <1>3 DEF ReportInv, RevisionsReported
  <2>2. CASE d = s
    BY <2>1, <2>2, ReportsKept
  <2>3. CASE d # s
    BY <1>1, <2>1, <2>3 DEF Aside, Same
  <2> QED BY <2>2, <2>3
<1>4. CASE ~(k \in DOMAIN repo[f] /\ repo[f][k] = d)
  <2>1. /\ pc[s] = "rename" /\ repo' = [repo EXCEPT ![Here(s)] = Append(tree[s], s)]
        /\ f = Here(s)
    BY <1>1, <1>2, <1>4 DEF RepoStep
  <2>2. tree[s] = repo[f] /\ pass[s] = "commit"
    BY <2>1 DEF CommandInv, CommandHolds, Opened, Placed, Writing
  <2>3. repo'[f] = Append(repo[f], s)
    BY <1>2, <2>1, <2>2
  <2>4. k = Len(repo[f]) + 1 /\ d = s
    BY <1>2, <1>4, <2>3
  <2>5. Wrote(s, f, Len(repo[f]))
    BY <2>1, <2>2 DEF ReportInv, ReportsFirst
  <2>6. k - 1 = Len(repo[f])
    BY <1>2, <2>4
  <2> QED BY <2>1, <2>2, <2>4, <2>5, <2>6, ReportsKept
<1> QED BY <1>3, <1>4

\* Only commits on the trunk are reported.
LEMMA OnTrunkStep ==
    ASSUME CommandInv, ReportInv, NEW s \in Sock, Step(s) \/ Kill(s)
    PROVE  OnTrunk'
<1>1. IndInv /\ OnTrunk
  BY DEF CommandInv, ReportInv
<1>2. CASE UNCHANGED TransactionList
  BY <1>1, <1>2 DEF OnTrunk
<1>3. CASE Modified(s)
  BY <1>1, <1>3, ModifiedEffect DEF Modified, OnTrunk
<1>4. CASE Disconnect(s)
  BY <1>1, <1>4, CloseEffect DEF Disconnect, OnTrunk
<1>5. UNCHANGED TransactionList \/ Modified(s) \/ Disconnect(s)
  <2>1. Register(s) \/ Login(s) => UNCHANGED TransactionList
    BY DEF Register, Login, Accept, LockTimeCompare, LockTimeStore, LockTimeCopy, OpenLockClient,
           DoClient, lockVars
  <2>2. Open(s) \/ TakeHead(s) \/ Check(s) \/ Rename(s) \/ Kill(s) => UNCHANGED TransactionList
    BY DEF Open, TakeHead, Check, Rename, Kill, vars
  <2>3. ReadLock(s) \/ Advisory(s) \/ WriteLock(s) => UNCHANGED TransactionList
    BY DEF ReadLock, Advisory, WriteLock, LockGranted, LockWaitsForTransaction
  <2>4. Free(s) \/ WriteUnlock(s) \/ AdvisoryUnlock(s) => UNCHANGED TransactionList
    BY DEF Free, WriteUnlock, AdvisoryUnlock, DoUnlock
  <2> QED BY <2>1, <2>2, <2>3, <2>4 DEF Step
<1> QED BY <1>2, <1>3, <1>4, <1>5

\* Modified comes before the rename.
LEMMA ReportsFirstStep ==
    ASSUME CommandInv, ReportInv, NEW s \in Sock, Step(s) \/ Kill(s), NEW t \in Sock
    PROVE  ReportsFirst(t)'
<1>1. CASE t # s
  <2>1. Aside(t) /\ Here(t)' = Here(t)
    BY <1>1, StepAside, JobSame DEF Aside
  <2> QED BY <2>1 DEF Aside, Same, ReportInv, ReportsFirst
<1>2. CASE t = s
  <2> SUFFICES ASSUME pc'[s] = "rename" PROVE Wrote(s, Here(s), Len(tree[s]))'
    BY <1>2 DEF ReportsFirst
  <2>1. Modified(s)
    BY Course DEF CommandInv
  <2>2. /\ pc[s] = "modified" /\ tree' = tree /\ Here(s)' = Here(s)
        /\ DoModified(s, LockOf(s, WriteFull), Trunk, Len(tree[s]))
    BY <2>1, JobSame DEF Modified
  <2>3. LockMap[LockOf(s, WriteFull)].path = Here(s)
    BY <2>2, LockOfHeld DEF CommandInv, CommandHolds, WriteLocked
  <2>4. ASSUME NEW f, NEW v, f = Here(s), v = Len(tree[s]) PROVE Wrote(s, f, v)'
    BY <2>2, <2>3, <2>4, ModifiedEffect DEF CommandInv
  <2> QED BY <2>2, <2>4
<1> QED BY <1>1, <1>2

\* An update that is told of no transaction of a process takes its revisions as they are.
LEMMA HeadIsFinishedOwn ==
    ASSUME CommandInv, ReportInv, NEW s \in Sock, ReadLock(s), pc'[s] = "head"
    PROVE  HeadIsFinished(s)'
<1>1. /\ pc[s] = "lock" /\ tree' = tree /\ Kind(s) = "update"
      /\ LockGranted(s, Here(s), ReadFull)
      /\ hidden' = hidden \union ({s} \X NotTold(s))
  BY Course DEF ReadLock, Step, CommandInv
<1>2. IndInv /\ StateOK /\ CommandHolds(s)
  BY DEF CommandInv
<1> SUFFICES ASSUME NEW id, IsRead(s, id)', NEW i \in DOMAIN tree[s],
                    i <= HeadBy(s, id)', NEW d \in Sock, tree[s][i] = d, Up(d)'
             PROVE  <<s, d>> \in hidden'
  BY <1>1 DEF HeadIsFinished
<1>3. id = global_lockId + 1
  <2>1. \A x \in DOMAIN LockMap : ~IsRead(s, x)
    BY <1>1, <1>2 DEF CommandHolds, ReadLocked, Reading, Writing
  <2>2. ~IsRead(s, id)
    BY <2>1 DEF IsRead, IsLock
  <2> QED BY <1>1, <1>2, <2>2, GrantHolds
<1>4. d # s
  <2>1. pass[d] = "commit"
    BY <1>1, TreeReported
  <2> QED BY <1>1, <1>2, <2>1 DEF CommandHolds, Placed
<1>5. Up(d)
  BY <1>1, <1>2, <1>4, GrantEffect DEF OthersSame, Same
<1>6. Wrote(d, Here(s), i - 1)
  BY <1>1, <1>5, TreeReported
<1>7. PICK j \in DOMAIN TransactionList :
        /\ TransactionList[j].owner = SockToClient[d] /\ TransactionList[j].path = Here(s)
        /\ TransactionList[j].oldversion = i - 1
  BY <1>6 DEF Wrote
<1>8. j \notin SeenBy(ClientOf(s), Here(s), ReadFull)
  <2> SUFFICES ASSUME j \in SeenBy(ClientOf(s), Here(s), ReadFull) PROVE FALSE
    OBVIOUS
  <2>1. HeadBy(s, id)' = i - 1
    BY <1>1, <1>3, <1>7, ToldBy
  <2>2. i \in Nat
    BY <1>2 DEF StateOK
  <2> QED BY <2>1, <2>2
<1>9. d \in Owner(TransactionList[j].owner)
  BY <1>5, <1>7 DEF Owner, Up
<1>10. d \in NotTold(s)
  BY <1>4, <1>7, <1>8, <1>9 DEF NotTold
<1> QED BY <1>1, <1>10

\* What an update was told stays true until it takes the head.
LEMMA HeadIsFinishedStep ==
    ASSUME CommandInv, ReportInv, NEW s \in Sock, Step(s) \/ Kill(s), NEW u \in Sock
    PROVE  HeadIsFinished(u)'
<1>1. CASE u = s
  BY <1>1, Course, HeadIsFinishedOwn DEF HeadIsFinished, CommandInv
<1>2. CASE u # s
  <2>1. Aside(u) /\ hidden \subseteq hidden' /\ \A t \in Sock \ {s} : Aside(t)
    BY <1>2, StepAside
  <2> SUFFICES ASSUME pc[u] = "head", NEW id, IsRead(u, id)', NEW i \in DOMAIN tree[u],
                      i <= HeadBy(u, id)', NEW d \in Sock, tree[u][i] = d, Up(d)'
               PROVE  <<u, d>> \in hidden
    BY <2>1 DEF HeadIsFinished, Aside
  <2>2. IsRead(u, id) /\ id \in DOMAIN LockMap /\ LockMap'[id] = LockMap[id]
    BY <2>1, SameHolds DEF Aside, Same, IsRead, IsLock
  <2>3. HeadBy(u, id)' = HeadBy(u, id)
    BY <2>1, <2>2 DEF HeadBy, Aside
  <2>4. Up(d)
    <3>1. CASE d # s
      BY <2>1, <3>1 DEF Aside, Same
    <3>2. CASE d = s
      BY <3>2, TreeReported, ReportsKept
    <3> QED BY <3>1, <3>2
  <2> QED BY <2>2, <2>3, <2>4 DEF ReportInv, HeadIsFinished
<1> QED BY <1>1, <1>2

\* Every step keeps ReportInv.
LEMMA ReportStep ==
    ASSUME CommandInv, ReportInv, [SystemNext]_system
    PROVE  ReportInv'
<1>1. ASSUME UNCHANGED <<SockToClient, LockMap, TransactionList>>, UNCHANGED <<commands, history>>
      PROVE  ReportInv'
  <2>1. \A t : /\ Up(t)' <=> Up(t)
               /\ \A f, v : Wrote(t, f, v)' <=> Wrote(t, f, v)
               /\ \A id : IsRead(t, id)' <=> IsRead(t, id)
               /\ \A id : HeadBy(t, id)' = HeadBy(t, id)
    BY <1>1, NothingEffect, SameHolds DEF Same, HeadBy, commands
  <2>2. RevisionsReported' /\ OnTrunk'
    BY <1>1, <2>1 DEF ReportInv, RevisionsReported, OnTrunk, commands
  <2>3. ASSUME NEW t \in Sock PROVE ReportsFirst(t)' /\ HeadIsFinished(t)'
    <3>1. Here(t)' = Here(t)
      BY <1>1, JobSame DEF commands
    <3> QED BY <1>1, <2>1, <3>1 DEF ReportInv, ReportsFirst, HeadIsFinished, commands, history
  <2> QED BY <2>2, <2>3 DEF ReportInv
<1>2. CASE UNCHANGED system \/ ClockTick
  BY <1>1, <1>2 DEF system, vars, ClockTick, Tick
<1>3. ASSUME NEW s \in Sock, Step(s) \/ Kill(s) PROVE ReportInv'
  BY <1>3, RevisionsStep, OnTrunkStep, ReportsFirstStep, HeadIsFinishedStep DEF ReportInv
<1> QED BY <1>2, <1>3 DEF SystemNext

\* ReportInv holds at first.
LEMMA ReportInit ==
    ASSUME SystemInit
    PROVE  ReportInv
<1>1. RevisionsReported
  BY NameAssumption DEF SystemInit, RevisionsReported
<1>2. OnTrunk
  BY DEF SystemInit, Init, OnTrunk
<1>3. \A s \in Sock : ReportsFirst(s) /\ HeadIsFinished(s)
  BY DEF SystemInit, ReportsFirst, HeadIsFinished
<1> QED BY <1>1, <1>2, <1>3 DEF ReportInv

\* ReportInv is an invariant.
LEMMA ReportInvariance == SystemSpec => [](CommandInv /\ ReportInv)
<1>1. SystemInit => ReportInv
  BY ReportInit
<1>2. CommandInv /\ ReportInv /\ [SystemNext]_system => ReportInv'
  BY ReportStep
<1> QED BY <1>1, <1>2, SystemInvariance, PTL DEF SystemSpec

\* An update does not take a revision of a commit that is still connected, unless it
\* was not told of it.
THEOREM UnfinishedUnseen == SystemSpec => []NothingUnfinished
<1>1. ASSUME CommandInv, ReportInv PROVE NothingUnfinished
  <2> SUFFICES ASSUME NEW u \in Sock, pc[u] = "head", NEW i \in 1 .. HeadVersion(u),
                      i \in DOMAIN tree[u], tree[u][i] \in DOMAIN SockToClient
               PROVE  <<u, tree[u][i]>> \in hidden
    BY DEF NothingUnfinished
  <2>1. IndInv /\ Holds(u, Here(u), ReadFull)
    BY <1>1 DEF CommandInv, CommandHolds, ReadLocked, Reading
  <2>2. LockOf(u, ReadFull) \in DOMAIN LockMap /\ IsRead(u, LockOf(u, ReadFull))
    BY <2>1, LockOfHeld DEF IsRead
  <2>3. i <= HeadBy(u, LockOf(u, ReadFull))
    BY HeadIs
  <2>4. tree[u][i] \in Sock /\ Up(tree[u][i])
    BY <2>1 DEF IndInv, TypeOK, IsMap, Up
  <2> QED BY <1>1, <2>2, <2>3, <2>4 DEF ReportInv, HeadIsFinished
<1> QED BY <1>1, ReportInvariance, PTL

-----------------------------------------------------------------------------
(* All or nothing *)

\* A transaction is as old as its report.
LEMMA WroteStep ==
    ASSUME CommandInv, NEW s \in Sock, Step(s) \/ Kill(s),
           NEW e \in Sock, NEW f, NEW v, Wrote(e, f, v)'
    PROVE  Wrote(e, f, v) \/ (Modified(s) /\ e = s /\ f = Here(s) /\ v = Len(tree[s]))
<1>1. IndInv /\ StateOK /\ CommandHolds(s)
  BY DEF CommandInv
<1>2. CASE e # s
  BY <1>2, StepAside DEF Aside, Same
<1>3. CASE e = s /\ Modified(s)
  <2>1. /\ pc[s] = "modified" /\ DoModified(s, LockOf(s, WriteFull), Trunk, Len(tree[s]))
    BY <1>3 DEF Modified
  <2>2. LockMap[LockOf(s, WriteFull)].path = Here(s)
    BY <1>1, <2>1, LockOfHeld DEF CommandHolds, WriteLocked
  <2> QED BY <1>1, <1>3, <2>1, <2>2, ModifiedEffect
<1>4. CASE e = s /\ ~Modified(s) /\ pc[s] # "connect"
  BY <1>4, ReportsKept
<1>5. CASE e = s /\ pc[s] = "connect"
  <2>1. Register(s) \/ Login(s)
    BY <1>5 DEF Step, Disconnect, Open, ReadLock, TakeHead, Check, Advisory, Free, WriteLock,
                Modified, Rename, WriteUnlock, AdvisoryUnlock, Kill
  <2>2. ~OpenLockClient(s)
    BY <1>1, <1>5, OpenEffect
  <2>3. UNCHANGED <<SockToClient, LockMap, TransactionList>>
    BY <2>1, <2>2 DEF Register, Login, Accept, LockTimeCompare, LockTimeStore, LockTimeCopy,
                      DoClient, lockVars
  <2> QED BY <1>5, <2>3, NothingEffect DEF Same
<1> QED BY <1>2, <1>3, <1>4, <1>5

\* The ones that keep their connection keep the time they began at.
LEMMA StartSame ==
    ASSUME CommandInv, NEW s \in Sock, Step(s) \/ Kill(s),
           NEW t \in Sock, Up(t), SockToClient[t] # 0, ~(Disconnect(s) /\ t = s)
    PROVE  /\ Up(t)' /\ SockToClient'[t] = SockToClient[t]
           /\ LockClientMap'[SockToClient[t]].starttime = LockClientMap[SockToClient[t]].starttime
<1>1. IndInv /\ StateOK /\ CommandHolds(s)
  BY DEF CommandInv
<1> DEFINE client == SockToClient[t]
<1>2. /\ client \in DOMAIN LockClientMap /\ client \in Nat /\ client <= next_client_id
      /\ next_client_id \in Nat
  BY <1>1 DEF IndInv, SocketsServed, TypeOK, IsMap, Up
<1>3. CASE UNCHANGED <<SockToClient, LockClientMap>>
  BY <1>3 DEF Up
<1>4. CASE Register(s) /\ OpenLockClient(s)
  <2>1. ~Up(s)
    BY <1>1, <1>4, OpenEffect
  <2>2. /\ SockToClient' = Put(SockToClient, s, next_client_id + 1)
        /\ LockClientMap' = Put(LockClientMap, next_client_id + 1,
             [state |-> "Login", root |-> NoRoot, starttime |-> stamp[s]])
    BY <1>4 DEF OpenLockClient
  <2>3. t \in DOMAIN SockToClient /\ t # s /\ client # next_client_id + 1
    BY <1>2, <2>1 DEF Up
  <2>4. SockToClient'[t] = SockToClient[t] /\ t \in DOMAIN SockToClient'
    BY <2>2, <2>3 DEF Put
  <2>5. LockClientMap'[client] = LockClientMap[client]
    BY <1>2, <2>2, <2>3 DEF Put
  <2> QED BY <2>4, <2>5 DEF Up
<1>5. CASE Login(s)
  <2>1. PICK root \in Root : DoClient(s, root)
    BY <1>5 DEF Login
  <2>2. /\ SockToClient' = SockToClient
        /\ LockClientMap' = [LockClientMap EXCEPT ![ClientOf(s)].root = root,
                                                  ![ClientOf(s)].state = "Active"]
    BY <2>1 DEF DoClient
  <2>3. LockClientMap \in [DOMAIN LockClientMap -> LockClient]
    BY <1>1 DEF IndInv, TypeOK, IsMap
  <2>4. LockClientMap'[client].starttime = LockClientMap[client].starttime
    BY <1>2, <2>2, <2>3 DEF LockClient
  <2> QED BY <2>2, <2>4 DEF Up
<1>6. CASE Disconnect(s)
  <2>1. t # s /\ CloseLockClient(s)
    BY <1>6 DEF Disconnect
  <2>2. Up(t)'
    BY <1>1, <2>1, CloseEffect DEF OthersSame, Same
  <2>3. SockToClient'[t] = SockToClient[t] /\ LockClientMap'[client] = LockClientMap[client]
    BY <1>1, <2>1, CloseKeepsClients
  <2> QED BY <2>2, <2>3
<1>7. \/ UNCHANGED <<SockToClient, LockClientMap>> \/ (Register(s) /\ OpenLockClient(s))
      \/ Login(s) \/ Disconnect(s)
  <2>1. Register(s) /\ ~OpenLockClient(s) => UNCHANGED <<SockToClient, LockClientMap>>
    BY DEF Register, Accept, LockTimeCompare, LockTimeStore, LockTimeCopy
  <2>2. Open(s) \/ TakeHead(s) \/ Check(s) \/ Rename(s) \/ Kill(s) =>
          UNCHANGED <<SockToClient, LockClientMap>>
    BY DEF Open, TakeHead, Check, Rename, Kill, vars
  <2>3. ReadLock(s) \/ Advisory(s) \/ WriteLock(s) => UNCHANGED <<SockToClient, LockClientMap>>
    BY DEF ReadLock, Advisory, WriteLock, LockGranted, LockWaitsForTransaction
  <2>4. Free(s) \/ WriteUnlock(s) \/ AdvisoryUnlock(s) => UNCHANGED <<SockToClient, LockClientMap>>
    BY DEF Free, WriteUnlock, AdvisoryUnlock, DoUnlock
  <2>5. Modified(s) => UNCHANGED <<SockToClient, LockClientMap>>
    BY DEF Modified, DoModified
  <2> QED BY <2>1, <2>2, <2>3, <2>4, <2>5 DEF Step
<1> QED BY <1>3, <1>4, <1>5, <1>6, <1>7

\* Whether a client sees another's transactions does not change.
LEMMA SeesStable ==
    ASSUME CommandInv, NEW s \in Sock, Step(s) \/ Kill(s), NEW c \in Sock, NEW e \in Sock,
           Up(c), SockToClient[c] # 0, Up(e), SockToClient[e] # 0,
           ~(Disconnect(s) /\ s \in {c, e}), Sees(c, e)
    PROVE  Sees(c, e)'
<1>1. /\ SockToClient'[c] = SockToClient[c]
      /\ LockClientMap'[SockToClient[c]].starttime = LockClientMap[SockToClient[c]].starttime
  BY StartSame
<1>2. /\ SockToClient'[e] = SockToClient[e]
      /\ LockClientMap'[SockToClient[e]].starttime = LockClientMap[SockToClient[e]].starttime
  BY StartSame
<1> QED BY <1>1, <1>2 DEF Sees, Overlaps, TimeIntersects, TimeLE, TimeGE

\* Only Disconnect ends a connection.
LEMMA UpStays ==
    ASSUME CommandInv, NEW s \in Sock, Step(s) \/ Kill(s),
           NEW t \in Sock, Up(t), ~(Disconnect(s) /\ t = s)
    PROVE  Up(t)'
<1>1. IndInv
  BY DEF CommandInv
<1>2. CASE t # s
  BY <1>2, StepAside DEF Aside, Same
<1>3. CASE t = s /\ SockToClient[s] # 0
  BY <1>3, StartSame
<1>4. CASE t = s /\ SockToClient[s] = 0
  <2>1. CASE UNCHANGED SockToClient
    BY <1>4, <2>1 DEF Up
  <2>2. CASE OpenLockClient(s)
    BY <1>1, <1>4, <2>2, OpenEffect
  <2>3. UNCHANGED SockToClient \/ OpenLockClient(s)
    BY <1>4 DEF Step, Register, Accept, LockTimeCompare, LockTimeStore, LockTimeCopy, Login, DoClient,
        Open, TakeHead, Check, Rename, Kill, vars, ReadLock, Advisory, WriteLock, LockGranted,
        LockWaitsForTransaction, Free, WriteUnlock, AdvisoryUnlock, DoUnlock, Modified, DoModified
  <2> QED BY <2>1, <2>2, <2>3
<1> QED BY <1>2, <1>3, <1>4

\* A command that has ended, or was killed, does nothing more but lose its connection.
LEMMA EndStays ==
    ASSUME CommandInv, NEW s \in Sock, Step(s) \/ Kill(s), pc[s] \in {"done", "dead"}
    PROVE  Disconnect(s) /\ pc'[s] = pc[s] /\ pass'[s] = pass[s] /\ pc[s] = "dead"
<1>1. Disconnect(s)
  BY DEF Step, Register, Login, Open, ReadLock, TakeHead, Check, Advisory, Free, WriteLock,
         Modified, Rename, WriteUnlock, AdvisoryUnlock, Kill
<1> QED BY <1>1 DEF Disconnect, CommandInv, StateOK

\* The client of a process that has a lock or a transaction is not the phantom.
LEMMA RealClient ==
    ASSUME IndInv, NEW t
    PROVE  /\ \A f, flags : Holds(t, f, flags) => Up(t) /\ SockToClient[t] # 0
           /\ \A f, v : Wrote(t, f, v) => Up(t) /\ SockToClient[t] # 0
BY OwnersReal DEF Holds, IsLock, Wrote

\* A transaction is of a process that is connected.
LEMMA TransactionOf ==
    ASSUME IndInv, NEW i \in DOMAIN TransactionList
    PROVE  /\ TransactionList[i].oldversion \in Nat
           /\ \E e \in Sock : /\ Up(e) /\ SockToClient[e] = TransactionList[i].owner
                              /\ Wrote(e, TransactionList[i].path, TransactionList[i].oldversion)
<1>1. /\ TransactionList[i].owner # 0 /\ TransactionList[i].owner \in DOMAIN LockClientMap
  BY OwnersReal
<1>2. PICK e \in DOMAIN SockToClient : SockToClient[e] = TransactionList[i].owner
  BY <1>1 DEF IndInv, ClientsConnected
<1>3. e \in Sock
  BY DEF IndInv, TypeOK, IsMap
<1>4. TransactionList[i] \in Transaction
  BY DEF IndInv, TypeOK
<1>5. TransactionList[i].oldversion \in Nat
  BY <1>4, VersionAssumption DEF Transaction
<1> QED BY <1>2, <1>3, <1>5 DEF Up, Wrote

\* The files of a job are its own, one place each.
LEMMA FilesDiffer ==
    ASSUME StateOK, NEW s \in Sock
    PROVE  /\ Files(s) \in Seq(Path) /\ DOMAIN Files(s) = 1 .. Len(Files(s)) /\ Len(Files(s)) \in Nat
           /\ \A j \in DOMAIN Files(s) : j \in Nat /\ Files(s)[j] \in Path
           /\ \A i, j \in DOMAIN Files(s) : Files(s)[i] = Files(s)[j] => i = j
<1>1. Files(s) \in Seq(Path)
  BY DEF StateOK, Job, Files
<1>2. \A i, j \in DOMAIN Files(s) : Files(s)[i] = Files(s)[j] => i = j
  BY DEF StateOK
<1> QED BY <1>1, <1>2

\* A commit reports each file once, when it is at it.
LEMMA NotYetStep ==
    ASSUME CommandInv, AtomicInv, NEW s \in Sock, Step(s) \/ Kill(s), NEW c \in Sock
    PROVE  NotYet(c)'
<1>1. IndInv /\ StateOK /\ CommandHolds(s) /\ NotYet(c) /\ job' = job
  BY StepAside DEF CommandInv, AtomicInv
<1>2. Files(c)' = Files(c)
  BY <1>1 DEF Files
<1>3. CASE c # s
  <2>1. Aside(c)
    BY <1>3, StepAside
  <2> QED BY <1>1, <1>2, <2>1 DEF Aside, Same, NotYet
<1>4. CASE c = s
  <2> SUFFICES ASSUME NEW j \in DOMAIN Files(s), NEW v \in Nat,
                      NEW f, f = Files(s)[j], Wrote(s, f, v)'
               PROVE  /\ pass'[s] = "commit"
                      /\ pc'[s] \in Working =>
                           /\ j <= pos'[s]
                           /\ j = pos'[s] => pc'[s] \notin {"open", "lock", "wlock", "modified"}
    BY <1>2, <1>4 DEF NotYet
  <2>1. CASE Modified(s) /\ Files(s)[j] = Here(s)
    <3>1. pc[s] = "modified" /\ pc'[s] = "rename" /\ pass'[s] = pass[s] /\ pos'[s] = pos[s]
      BY <1>1, <2>1 DEF Modified, Goto, StateOK
    <3>2. pass[s] = "commit" /\ pos[s] \in DOMAIN Files(s)
      BY <1>1, <3>1 DEF CommandHolds, Placed, Working, Writing
    <3>3. j = pos[s] /\ j \in Nat
      BY <1>1, <2>1, <3>2, FilesDiffer DEF Here
    <3> QED BY <3>1, <3>2, <3>3
  <2>2. CASE ~(Modified(s) /\ Files(s)[j] = Here(s))
    <3>1. Wrote(s, f, v)
      BY <2>2, WroteStep
    <3>2. /\ pass[s] = "commit"
          /\ pc[s] \in Working => /\ j <= pos[s]
                                  /\ j = pos[s] => pc[s] \notin {"open", "lock", "wlock", "modified"}
      BY <1>1, <1>4, <3>1 DEF NotYet
    <3>3. j \in Nat /\ pos[s] \in Nat
      BY <1>1, FilesDiffer DEF StateOK
    <3>4. pc[s] # "connect" /\ pc[s] \notin {"check", "advisory"}
      BY <1>1, <3>2 DEF CommandHolds, Placed
    <3>5. pass'[s] = "commit"
      BY <3>2, <3>4, ReportsKept
    <3>6. CASE Free(s)
      BY <1>1, <3>2, <3>3, <3>5, <3>6 DEF Free, Goto, StateOK, Working, Reading
    <3>7. CASE Disconnect(s) \/ Kill(s)
      BY <1>1, <3>5, <3>7 DEF Disconnect, Kill, Goto, StateOK, Working, Reading, Writing
    <3>8. CASE Open(s) \/ ReadLock(s) \/ TakeHead(s) \/ WriteLock(s) \/ Modified(s) \/ Rename(s)
                 \/ WriteUnlock(s) \/ AdvisoryUnlock(s)
      <4>1. pos'[s] = pos[s] /\ pc[s] \in Working
        BY <3>8 DEF Open, ReadLock, TakeHead, WriteLock, Modified, Rename, WriteUnlock, AdvisoryUnlock,
                    Working, Reading, Writing
      <4>2. pc'[s] \in {"open", "lock", "wlock", "modified"} =>
              pc[s] \in {"open", "lock", "wlock", "modified"}
        BY <1>1, <3>8 DEF Open, ReadLock, TakeHead, WriteLock, Modified, Rename, WriteUnlock,
                          AdvisoryUnlock, Goto, StateOK
      <4> QED BY <3>2, <3>3, <3>5, <4>1, <4>2
    <3> QED BY <3>4, <3>6, <3>7, <3>8 DEF Step, Register, Login, Check, Advisory
  <2> QED BY <2>1, <2>2
<1> QED BY <1>3, <1>4

\* A revision stays in its file.
LEMMA RevisionStays ==
    ASSUME CommandInv, NEW s \in Sock, Step(s) \/ Kill(s), NEW f \in Path, NEW c,
           \E k \in DOMAIN repo[f] : repo[f][k] = c
    PROVE  \E k \in DOMAIN repo'[f] : repo'[f][k] = c
<1>1. Begins(repo[f], repo'[f]) /\ repo' \in [Path -> Seq(Author)] /\ repo \in [Path -> Seq(Author)]
  BY StepAside, RepoGrows DEF CommandInv, StateOK
<1>2. repo[f] \in Seq(Author) /\ repo'[f] \in Seq(Author)
  BY <1>1
<1>3. PICK k \in DOMAIN repo[f] : repo[f][k] = c
  OBVIOUS
<1>4. k \in DOMAIN repo'[f] /\ repo'[f][k] = c
  BY <1>1, <1>2, <1>3, BeginsKeeps
<1> QED BY <1>4

\* A commit goes on from a file only after it has replaced it.
LEMMA ReplacedStep ==
    ASSUME CommandInv, AtomicInv, NEW s \in Sock, Step(s) \/ Kill(s), NEW c \in Sock
    PROVE  Replaced(c)'
<1> DEFINE After == {"wunlock", "aunlock", "free", "end", "done"}
<1>1. IndInv /\ StateOK /\ CommandHolds(s) /\ Replaced(c) /\ job' = job
  BY StepAside DEF CommandInv, AtomicInv
<1>2. Files(c)' = Files(c) /\ \A j \in DOMAIN Files(c) : j \in Nat /\ Files(c)[j] \in Path
  BY <1>1, FilesDiffer DEF Files
<1> SUFFICES ASSUME NEW j \in DOMAIN Files(c), pass'[c] = "commit",
                    j < pos'[c] \/ (j = pos'[c] /\ pc'[c] \in After)
             PROVE  \E k \in DOMAIN repo'[Files(c)[j]] : repo'[Files(c)[j]][k] = c
  BY <1>2 DEF Replaced
<1>3. ASSUME pass[c] = "commit", j < pos[c] \/ (j = pos[c] /\ pc[c] \in After)
      PROVE  \E k \in DOMAIN repo'[Files(c)[j]] : repo'[Files(c)[j]][k] = c
  <2>1. \E k \in DOMAIN repo[Files(c)[j]] : repo[Files(c)[j]][k] = c
    BY <1>1, <1>3 DEF Replaced
  <2> QED BY <1>2, <2>1, RevisionStays
<1>4. CASE c # s
  BY <1>3, <1>4, StepAside DEF Aside
<1>5. CASE c = s
  <2>1. CASE Rename(s) /\ j = pos[s]
    <3>1. repo' = [repo EXCEPT ![Here(s)] = Append(tree[s], s)] /\ pc[s] = "rename"
      BY <2>1 DEF Rename
    <3>2. tree[s] \in Seq(Author) /\ repo \in [Path -> Seq(Author)] /\ Here(s) \in Path
      BY <1>1, <3>1, HereIsFile DEF StateOK, CommandHolds, Working, Writing
    <3>3. repo'[Here(s)] = Append(tree[s], s)
      BY <3>1, <3>2
    <3>4. Len(tree[s]) + 1 \in DOMAIN repo'[Here(s)] /\ repo'[Here(s)][Len(tree[s]) + 1] = s
      BY <3>2, <3>3
    <3> QED BY <1>5, <2>1, <3>4 DEF Here
  <2>2. CASE Rename(s) /\ j # pos[s]
    BY <1>1, <1>3, <1>5, <2>2 DEF Rename
  <2>3. CASE Free(s)
    <3>1. \/ pos'[s] = pos[s] + 1 /\ pass'[s] = pass[s] /\ pc'[s] = "open"
          \/ pos'[s] = 1 /\ pc'[s] = "open"
          \/ pos'[s] = pos[s] /\ pass'[s] = pass[s]
      BY <1>1, <2>3 DEF Free, Goto, StateOK
    <3>2. pc[s] = "free" /\ pos[s] \in Nat /\ j >= 1
      BY <1>1, <1>5, <2>3, FilesDiffer DEF Free, StateOK
    <3>3. CASE pos'[s] = 1 /\ pc'[s] = "open"
      BY <1>2, <1>5, <3>2, <3>3
    <3>4. CASE pass'[s] = pass[s] /\ ((pos'[s] = pos[s] + 1 /\ pc'[s] = "open") \/ pos'[s] = pos[s])
      <4>1. pass[c] = "commit" /\ (j < pos[c] \/ (j = pos[c] /\ pc[c] \in After))
        BY <1>2, <1>5, <3>2, <3>4
      <4> QED BY <1>3, <4>1
    <3> QED BY <3>1, <3>3, <3>4
  <2>4. CASE WriteUnlock(s) \/ AdvisoryUnlock(s) \/ Disconnect(s) \/ Kill(s)
    BY <1>1, <1>3, <1>5, <2>4 DEF WriteUnlock, AdvisoryUnlock, Disconnect, Kill, Goto, StateOK
  <2>5. CASE Open(s) \/ ReadLock(s) \/ WriteLock(s) \/ Modified(s)
    BY <1>1, <1>3, <1>5, <2>5 DEF Open, ReadLock, WriteLock, Modified, Goto, StateOK
  <2>6. Register(s) \/ Login(s) \/ TakeHead(s) \/ Check(s) \/ Advisory(s) =>
          pass[s] # "commit" /\ pass'[s] # "commit"
    BY <1>1 DEF Register, Login, TakeHead, Check, Advisory, commands, StateOK, CommandHolds, Placed
  <2> QED BY <1>5, <2>1, <2>2, <2>3, <2>4, <2>5, <2>6 DEF Step
<1> QED BY <1>4, <1>5

\* A revision on top of an open transaction is of a commit that was not told.
LEMMA OnTopStep ==
    ASSUME CommandInv, AtomicInv, NEW s \in Sock, Step(s) \/ Kill(s)
    PROVE  OnTopIsBlind'
<1>1. /\ IndInv /\ StateOK /\ CommandHolds(s) /\ RepoStep(s) /\ hidden \subseteq hidden'
  BY StepAside DEF CommandInv
<1> SUFFICES ASSUME NEW d \in Sock, NEW f \in Path, NEW v \in Nat, Wrote(d, f, v)',
                    NEW k \in DOMAIN repo'[f], k > v, NEW c \in Sock \ {d}, repo'[f][k] = c
             PROVE  Blind(c)'
  BY DEF OnTopIsBlind
<1>2. Blind(c) => Blind(c)'
  BY <1>1 DEF Blind
<1>3. repo \in [Path -> Seq(Author)] /\ tree \in [Sock -> Seq(Author)]
  BY <1>1 DEF StateOK
<1>4. pc[s] \in {"modified", "rename"} => tree[s] = repo[Here(s)]
  BY <1>1 DEF CommandHolds, Opened, Placed, Writing
<1>5. Wrote(d, f, v)
  <2> SUFFICES ASSUME Modified(s), f = Here(s), v = Len(tree[s]) PROVE FALSE
    BY WroteStep
  <2>1. repo' = repo /\ v = Len(repo[f])
    BY <1>4 DEF Modified
  <2> QED BY <1>3, <2>1
<1>6. CASE k \in DOMAIN repo[f] /\ repo[f][k] = c
  BY <1>2, <1>5, <1>6 DEF AtomicInv, OnTopIsBlind
<1>7. CASE ~(k \in DOMAIN repo[f] /\ repo[f][k] = c)
  <2>1. /\ pc[s] = "rename" /\ repo' = [repo EXCEPT ![Here(s)] = Append(tree[s], s)]
        /\ f = Here(s)
    BY <1>1, <1>3, <1>7 DEF RepoStep
  <2>2. c = s
    BY <1>3, <1>4, <1>7, <2>1
  <2>3. Blind(s)
    BY <1>5, <2>1, <2>2 DEF AtomicInv, Aware
  <2> QED BY <1>2, <2>2, <2>3
<1> QED BY <1>6, <1>7

\* Nobody reports a file that another has a lock on.
LEMMA ReportAlone ==
    ASSUME CommandInv, NEW s \in Sock, Step(s) \/ Kill(s), NEW c \in Sock,
           NEW e \in Sock \ {c}, NEW f, NEW v, Wrote(e, f, v)', Holds(c, f, ReadFull)
    PROVE  Wrote(e, f, v)
<1> SUFFICES ASSUME Modified(s), e = s, f = Here(s) PROVE FALSE
  BY WroteStep
<1>1. Holds(s, Here(s), WriteFull)
  BY DEF CommandInv, CommandHolds, WriteLocked, Modified
<1> QED BY <1>1, WriterIsAlone DEF CommandInv

\* A commit that gets a read lock is told of the transaction of another, or not.
LEMMA AwareOfReports ==
    ASSUME CommandInv, NEW s \in Sock, ReadLock(s), NEW e \in Sock \ {s}, NEW v, Wrote(e, Here(s), v)
    PROVE  <<s, e>> \in hidden' \/ Sees(s, e)
<1>1. PICK i \in DOMAIN TransactionList :
        TransactionList[i].owner = SockToClient[e] /\ TransactionList[i].path = Here(s)
  BY DEF Wrote
<1>2. CASE i \in SeenBy(ClientOf(s), Here(s), ReadFull)
  BY <1>1, <1>2 DEF SeenBy, Sees, ClientOf
<1>3. CASE i \notin SeenBy(ClientOf(s), Here(s), ReadFull)
  <2>1. e \in Owner(TransactionList[i].owner)
    BY <1>1 DEF Owner, Wrote, Up
  <2>2. e \in NotTold(s)
    BY <1>1, <1>3, <2>1 DEF NotTold
  <2> QED BY <2>2 DEF ReadLock
<1> QED BY <1>2, <1>3

\* A write lock is granted where there is no transaction that the commit knows of.
LEMMA AwareOfNone ==
    ASSUME CommandInv, AtomicInv, NEW s \in Sock, pc[s] = "wlock",
           LockGranted(s, Here(s), WriteFull), NEW e \in Sock \ {s}, NEW v, Wrote(e, Here(s), v)
    PROVE  Blind(s)
<1>1. IndInv /\ StateOK /\ CommandHolds(s)
  BY DEF CommandInv
<1>2. PICK i \in DOMAIN TransactionList : TransactionList[i].path = Here(s)
  BY DEF Wrote
<1>3. PICK k : k \in FirstOn(Here(s))
  BY <1>1, <1>2, FirstExists DEF IndInv
<1>4. k \in DOMAIN TransactionList /\ TransactionList[k].path = Here(s)
  BY <1>3 DEF FirstOn
<1>5. PICK d \in Sock : /\ Up(d) /\ SockToClient[d] = TransactionList[k].owner
                        /\ Wrote(d, Here(s), TransactionList[k].oldversion)
  BY <1>1, <1>4, TransactionOf
<1>6. TransactionList[k].oldversion \in Nat
  BY <1>1, <1>4, TransactionOf
<1>7. pos[s] \in DOMAIN Files(s) /\ Files(s)[pos[s]] = Here(s)
  BY <1>1, HereIsFile DEF CommandHolds, Working, Writing, Here
<1>8. d # s
  BY <1>5, <1>6, <1>7 DEF AtomicInv, NotYet, Working, Writing
<1>9. <<s, d>> \in hidden \/ Sees(s, d)
  BY <1>5, <1>6, <1>8 DEF AtomicInv, Aware
<1>10. ~Sees(s, d)
  <2> SUFFICES ASSUME Sees(s, d) PROVE FALSE
    OBVIOUS
  <2>1. SeenBy(ClientOf(s), Here(s), WriteFull) = {}
    BY Kinds DEF LockGranted
  <2>2. Up(s)
    BY <1>1 DEF CommandHolds, Placed, Working, Writing
  <2>3. TransactionList[k].owner # ClientOf(s)
    BY <1>1, <1>4, <1>5, <1>8, <2>2, OneOwner DEF ClientOf
  <2>4. TransactionList[k].owner \in DOMAIN LockClientMap
    BY <1>1, <1>4, OwnersReal
  <2>5. Overlaps(TransactionList[k].owner, ClientOf(s))
    BY <1>5 DEF Sees, ClientOf
  <2>6. k \in SeenBy(ClientOf(s), Here(s), WriteFull)
    BY <1>3, <2>3, <2>4, <2>5, Kinds DEF SeenBy
  <2> QED BY <2>1, <2>6
<1> QED BY <1>8, <1>9, <1>10 DEF Blind

\* What a commit knows of transactions stays true until it has replaced the file.
LEMMA AwareStep ==
    ASSUME CommandInv, AtomicInv, NEW s \in Sock, Step(s) \/ Kill(s), NEW c \in Sock
    PROVE  Aware(c)'
<1>1. /\ IndInv /\ StateOK /\ CommandHolds(c) /\ Aware(c) /\ hidden \subseteq hidden' /\ job' = job
  BY StepAside DEF CommandInv, AtomicInv
<1>2. Blind(c) => Blind(c)'
  BY <1>1 DEF Blind
<1>3. pc'[c] \in {"wlock", "modified", "rename"} =>
        /\ pos'[c] = pos[c]
        /\ pc'[c] = "wlock" => pc[c] = "wlock" \/ (c = s /\ ReadLock(s))
        /\ pc'[c] = "modified" =>
             pc[c] = "modified" \/ (c = s /\ WriteLock(s) /\ LockGranted(s, Here(s), WriteFull))
        /\ pc'[c] = "rename" => pc[c] \in {"modified", "rename"}
  <2>1. CASE c # s
    BY <2>1, StepAside DEF Aside
  <2>2. CASE c = s
    BY <1>1, <2>2, Course DEF ReadLock, WriteLock, Modified
  <2> QED BY <2>1, <2>2
<1>4. pc'[c] \in {"wlock", "modified", "rename"} => Here(c)' = Here(c)
  BY <1>1, <1>3, JobSame
<1>5. ASSUME pc[c] \in Writing, NEW e \in Sock \ {c}, NEW v, NEW f, f = Here(c), Wrote(e, f, v)'
      PROVE  Wrote(e, f, v)
  BY <1>1, <1>5, ReportAlone DEF CommandHolds, ReadLocked
<1>6. ASSUME pc'[c] = "wlock", NEW e \in Sock \ {c}, NEW v \in Nat, NEW f, f = Here(c), Wrote(e, f, v)'
      PROVE  <<c, e>> \in hidden' \/ Sees(c, e)'
  <2>1. Up(e)'
    BY <1>6 DEF Wrote
  <2>2. ~Disconnect(s) \/ s # e
    BY <1>1, <2>1, CloseEffect DEF Disconnect
  <2>3. ~Disconnect(s) \/ s # c
    BY <1>1, <1>6 DEF Disconnect, StateOK
  <2>4. ASSUME Wrote(e, f, v), Sees(c, e), Up(c), SockToClient[c] # 0 PROVE Sees(c, e)'
    <3>1. Up(e) /\ SockToClient[e] # 0
      BY <1>1, <2>4, RealClient
    <3> QED BY <2>2, <2>3, <2>4, <3>1, SeesStable
  <2>5. CASE pc[c] = "wlock"
    <3>1. Wrote(e, f, v)
      BY <1>5, <1>6, <2>5 DEF Writing
    <3>2. <<c, e>> \in hidden \/ Sees(c, e)
      BY <1>1, <1>6, <2>5, <3>1 DEF Aware
    <3>3. Up(c) /\ SockToClient[c] # 0
      BY <1>1, <2>5, RealClient DEF CommandHolds, ReadLocked, Writing
    <3> QED BY <1>1, <2>4, <3>1, <3>2, <3>3
  <2>6. CASE c = s /\ ReadLock(s)
    <3>1. LockGranted(s, Here(s), ReadFull)
      BY <2>6 DEF ReadLock
    <3>2. Wrote(e, f, v)
      BY <1>6, <2>6, WroteStep DEF Modified, ReadLock
    <3>3. <<c, e>> \in hidden' \/ Sees(c, e)
      BY <1>6, <2>6, <3>2, AwareOfReports
    <3>4. Up(c) /\ SockToClient[c] # 0
      <4>1. State(SockToClient[s]) = "Active" /\ Up(s)
        BY <3>1 DEF LockGranted, LockRequest, ClientOf, Connected, Up
      <4> QED BY <1>1, <2>6, <4>1 DEF IndInv, ClientsConnected, State
    <3> QED BY <2>4, <3>2, <3>3, <3>4
  <2> QED BY <1>3, <1>6, <2>5, <2>6
<1>7. ASSUME pc'[c] \in {"modified", "rename"}, ~Blind(c)',
             NEW e \in Sock \ {c}, NEW v \in Nat, NEW f, f = Here(c), Wrote(e, f, v)'
      PROVE  FALSE
  <2>1. CASE pc[c] \in {"modified", "rename"}
    <3>1. Wrote(e, f, v)
      BY <1>5, <1>7, <2>1 DEF Writing
    <3> QED BY <1>1, <1>2, <1>7, <2>1, <3>1 DEF Aware
  <2>2. CASE c = s /\ WriteLock(s) /\ LockGranted(s, Here(s), WriteFull)
    <3>1. pc[s] = "wlock"
      BY <2>2 DEF WriteLock
    <3>2. Wrote(e, f, v)
      BY <1>5, <1>7, <2>2, <3>1 DEF Writing
    <3> QED BY <1>2, <1>7, <2>2, <3>1, <3>2, AwareOfNone
  <2> QED BY <1>3, <1>7, <2>1, <2>2
<1> QED BY <1>4, <1>6, <1>7 DEF Aware

\* A commit that has ended has replaced all its files.
LEMMA FinishedReplaced ==
    ASSUME CommandInv, AtomicInv, NEW c \in Sock, Finished(c), NEW f \in Touched(c)
    PROVE  \E k \in DOMAIN repo[f] : repo[f][k] = c
<1>1. StateOK /\ CommandHolds(c) /\ Replaced(c)
  BY DEF CommandInv, AtomicInv
<1>2. PICK j \in DOMAIN Files(c) : f = Files(c)[j]
  BY DEF Touched
<1>3. pos[c] = Len(Files(c)) /\ pc[c] = "done" /\ pass[c] = "commit"
  BY <1>1 DEF CommandHolds, Placed, Finished
<1>4. j < pos[c] \/ j = pos[c]
  BY <1>1, <1>3, FilesDiffer
<1> QED BY <1>1, <1>2, <1>3, <1>4 DEF Replaced

\* A commit that ends does so before those that are connected.
LEMMA FinishesOver ==
    ASSUME CommandInv, NEW s \in Sock, Step(s) \/ Kill(s), NEW u \in Sock, Up(u),
           NEW c \in Sock, Finished(c)', c \notin over'[u]
    PROVE  Finished(c) /\ c \notin over[u]
<1>1. over[u] \subseteq over'[u] /\ StateOK
  BY StepAside DEF CommandInv
<1>2. CASE c # s
  BY <1>1, <1>2, StepAside DEF Aside, Finished
<1>3. CASE c = s
  <2>1. Disconnect(s)
    BY <1>1, <1>3, Course DEF Finished
  <2>2. s \in over'[u]
    BY <2>1 DEF Disconnect, Up
  <2> QED BY <1>3, <2>2
<1> QED BY <1>2, <1>3

\* A commit that ended before the update began is in what it opens.
LEMMA LoadedFirst ==
    ASSUME CommandInv, AtomicInv, NEW s \in Sock, Step(s) \/ Kill(s), NEW u \in Sock,
           Kind(u)' = "update", pc'[u] \in {"lock", "head"},
           NEW c \in Sock, Finished(c)', c \notin over'[u], (Here(u) \in Touched(c))'
    PROVE  \E k \in DOMAIN tree'[u] : tree'[u][k] = c
<1>1. /\ StateOK /\ CommandHolds(u) /\ Loaded(u) /\ job' = job
  BY StepAside DEF CommandInv, AtomicInv
<1>2. Kind(u) = "update" /\ Files(u)' = Files(u) /\ Touched(c)' = Touched(c)
  BY <1>1 DEF Kind, Files, Touched
<1>3. CASE u # s
  <2>1. /\ pc[u] \in {"lock", "head"} /\ Here(u)' = Here(u) /\ tree'[u] = tree[u]
    BY <1>1, <1>3, StepAside, JobSame DEF Aside
  <2>2. Up(u)
    BY <1>1, <2>1 DEF CommandHolds, Placed, Working, Reading
  <2>3. Finished(c) /\ c \notin over[u]
    BY <2>2, FinishesOver
  <2> QED BY <1>1, <1>2, <2>1, <2>3 DEF Loaded
<1>4. CASE u = s /\ Open(s)
  <2>1. /\ pc[s] = "open" /\ Here(s)' = Here(s) /\ tree'[s] = repo[Here(s)]
    BY <1>1, <1>4, JobSame DEF Open, StateOK
  <2>2. Up(s)
    BY <1>1, <1>4, <2>1 DEF CommandHolds, Placed, Working
  <2>3. Finished(c)
    BY <1>4, <2>2, FinishesOver
  <2> QED BY <1>2, <1>4, <2>1, <2>3, FinishedReplaced
<1>5. CASE u = s /\ ReadLock(s)
  <2>1. /\ pc[s] = "lock" /\ Here(s)' = Here(s) /\ tree'[s] = tree[s]
    BY <1>1, <1>5, JobSame DEF ReadLock
  <2>2. Up(s)
    BY <1>1, <1>5, <2>1 DEF CommandHolds, Placed, Working
  <2>3. Finished(c) /\ c \notin over[s]
    BY <1>5, <2>2, FinishesOver
  <2> QED BY <1>1, <1>2, <1>5, <2>1, <2>3 DEF Loaded
<1> QED BY <1>1, <1>3, <1>4, <1>5, Course

\* The revisions after the version that an update is told.
LEMMA LoadedOwn ==
    ASSUME CommandInv, ReportInv, AtomicInv, NEW s \in Sock, ReadLock(s),
           NEW id, IsRead(s, id)', NEW k \in DOMAIN tree[s], k > HeadBy(s, id)',
           NEW c \in Sock, tree[s][k] = c
    PROVE  Up(c) \/ Blind(c)
<1>1. /\ pc[s] = "lock" /\ tree' = tree /\ LockGranted(s, Here(s), ReadFull)
      /\ IndInv /\ StateOK /\ CommandHolds(s)
  BY DEF ReadLock, CommandInv
<1>2. id = global_lockId + 1
  <2>1. \A x \in DOMAIN LockMap : ~IsRead(s, x)
    BY <1>1 DEF CommandHolds, ReadLocked, Reading, Writing
  <2>2. ~IsRead(s, id)
    BY <2>1 DEF IsRead, IsLock
  <2> QED BY <1>1, <2>2, GrantHolds
<1>3. CASE SeenBy(ClientOf(s), Here(s), ReadFull) = {}
  <2>1. HeadBy(s, id)' = Len(tree[s])
    BY <1>1, <1>2, <1>3, ToldNothing
  <2>2. tree[s] \in Seq(Author)
    BY <1>1 DEF StateOK
  <2> QED BY <2>1, <2>2
<1>4. ASSUME NEW j \in SeenBy(ClientOf(s), Here(s), ReadFull) PROVE Up(c) \/ Blind(c)
  <2>1. HeadBy(s, id)' = TransactionList[j].oldversion
    BY <1>1, <1>2, ToldBy
  <2>2. j \in DOMAIN TransactionList /\ TransactionList[j].path = Here(s)
    BY DEF SeenBy, FirstOn
  <2>3. PICK d \in Sock : Up(d) /\ Wrote(d, Here(s), TransactionList[j].oldversion)
    BY <1>1, <2>2, TransactionOf
  <2>4. TransactionList[j].oldversion \in Nat
    BY <1>1, <2>2, TransactionOf
  <2>5. Here(s) \in Path /\ k \in DOMAIN repo[Here(s)] /\ repo[Here(s)][k] = c
    BY <1>1, TreeReported
  <2>6. k > TransactionList[j].oldversion
    BY <2>1
  <2>7. c # d => Blind(c)
    BY <2>3, <2>4, <2>5, <2>6 DEF AtomicInv, OnTopIsBlind
  <2> QED BY <2>3, <2>7
<1> QED BY <1>3, <1>4

\* A revision after the told version is of a commit that has not ended, or ended meanwhile.
LEMMA LoadedAfter ==
    ASSUME CommandInv, ReportInv, AtomicInv, NEW s \in Sock, Step(s) \/ Kill(s), NEW u \in Sock,
           pc'[u] = "head", NEW id, IsRead(u, id)', NEW k \in DOMAIN tree'[u],
           k > HeadBy(u, id)', NEW c \in Sock, tree'[u][k] = c
    PROVE  Up(c)' \/ c \in over'[u] \/ Blind(c)'
<1>1. /\ IndInv /\ StateOK /\ CommandHolds(u) /\ Loaded(u) /\ hidden \subseteq hidden'
      /\ over[u] \subseteq over'[u]
  BY StepAside DEF CommandInv, AtomicInv
<1>2. Blind(c) => Blind(c)'
  BY <1>1 DEF Blind
<1>3. Up(c) /\ Up(u) => Up(c)' \/ c \in over'[u]
  BY UpStays DEF Disconnect, Up
<1>4. CASE u # s
  <2>1. /\ Aside(u)
    BY <1>4, StepAside
  <2>2. /\ pc[u] = "head" /\ tree'[u] = tree[u] /\ IsRead(u, id) /\ LockMap'[id] = LockMap[id]
    BY <2>1, SameHolds DEF Aside, Same, IsRead
  <2>3. HeadBy(u, id)' = HeadBy(u, id) /\ id \in DOMAIN LockMap
    BY <2>2 DEF HeadBy, IsRead, IsLock
  <2>4. Up(c) \/ c \in over[u] \/ Blind(c)
    BY <1>1, <2>2, <2>3 DEF Loaded
  <2>5. Up(u)
    BY <2>2 DEF IsRead, IsLock
  <2> QED BY <1>1, <1>2, <1>3, <2>4, <2>5
<1>5. CASE u = s
  <2>1. ReadLock(s) /\ tree' = tree
    BY <1>1, <1>5, Course DEF ReadLock
  <2>2. Up(c) \/ Blind(c)
    BY <1>5, <2>1, LoadedOwn
  <2>3. Up(s)
    BY <1>1, <1>5, <2>1 DEF ReadLock, CommandHolds, Placed, Working
  <2> QED BY <1>2, <1>3, <1>5, <2>2, <2>3
<1> QED BY <1>4, <1>5

\* Every step keeps Loaded.
LEMMA LoadedStep ==
    ASSUME CommandInv, ReportInv, AtomicInv, NEW s \in Sock, Step(s) \/ Kill(s), NEW u \in Sock
    PROVE  Loaded(u)'
<1>1. ASSUME Kind(u)' = "update", pc'[u] \in {"lock", "head"},
             NEW c \in Sock, Finished(c)', c \notin over'[u], (Here(u) \in Touched(c))'
      PROVE  \E k \in DOMAIN tree'[u] : tree'[u][k] = c
  BY <1>1, LoadedFirst
<1>2. ASSUME pc'[u] = "head", NEW id \in DOMAIN LockMap', IsRead(u, id)', NEW k \in DOMAIN tree'[u],
             k > HeadBy(u, id)', tree'[u][k] \in Sock
      PROVE  Up(tree[u][k])' \/ tree'[u][k] \in over'[u] \/ Blind(tree[u][k])'
  <2>1. PICK c \in Sock : c = tree'[u][k]
    BY <1>2
  <2>2. Up(c)' \/ c \in over'[u] \/ Blind(c)'
    BY <1>2, <2>1, LoadedAfter
  <2> QED BY <2>1, <2>2 DEF Up, Blind
<1> QED BY <1>1, <1>2 DEF Loaded

\* What TakenHolds says of file f.
GotHolds(u, f) ==
    \A c \in Sock :
      /\ Has(u, f, c) => \/ pc[c] \in {"done", "dead"} /\ pass[c] = "commit"
                         \/ <<u, c>> \in hidden
      /\ Finished(c) /\ f \in Touched(c) =>
           c \in over[u] \/ Blind(c) \/ Has(u, f, c) \/ got[u][f] = << >>

\* It stays, as long as the update is connected.
LEMMA GotStays ==
    ASSUME CommandInv, NEW s \in Sock, Step(s) \/ Kill(s), NEW u \in Sock, Up(u),
           pc[u] \notin {"done", "dead"},
           NEW f, got'[u][f] = got[u][f], GotHolds(u, f)
    PROVE  GotHolds(u, f)'
<1>1. StateOK /\ hidden \subseteq hidden' /\ job' = job /\ over[u] \subseteq over'[u]
  BY StepAside DEF CommandInv
<1> SUFFICES ASSUME NEW c \in Sock
             PROVE  /\ Has(u, f, c)' => \/ pc'[c] \in {"done", "dead"} /\ pass'[c] = "commit"
                                        \/ <<u, c>> \in hidden'
                    /\ Finished(c)' /\ f \in Touched(c)' =>
                         c \in over'[u] \/ Blind(c)' \/ Has(u, f, c)' \/ got'[u][f] = << >>
  BY DEF GotHolds
<1>2. /\ Has(u, f, c)' <=> Has(u, f, c)
      /\ Touched(c)' = Touched(c)
      /\ Blind(c) => Blind(c)'
  BY <1>1 DEF Has, Touched, Files, Blind
<1>3. pc[c] \in {"done", "dead"} => pc'[c] = pc[c] /\ pass'[c] = pass[c]
  <2>1. CASE c = s
    BY <2>1, EndStays
  <2>2. CASE c # s
    BY <2>2, StepAside DEF Aside
  <2> QED BY <2>1, <2>2
<1>4. Has(u, f, c)' => \/ pc'[c] \in {"done", "dead"} /\ pass'[c] = "commit"
                       \/ <<u, c>> \in hidden'
  BY <1>1, <1>2, <1>3 DEF GotHolds
<1>5. Finished(c)' /\ c \notin over'[u] => Finished(c) /\ c \notin over[u]
  BY FinishesOver
<1>6. Finished(c)' /\ f \in Touched(c)' =>
        c \in over'[u] \/ Blind(c)' \/ Has(u, f, c)' \/ got'[u][f] = << >>
  BY <1>2, <1>5 DEF GotHolds
<1> QED BY <1>4, <1>6

\* The head that an update takes.
LEMMA GotFirst ==
    ASSUME CommandInv, ReportInv, AtomicInv, NEW s \in Sock, TakeHead(s), NEW f, f = Here(s)
    PROVE  GotHolds(s, f)'
<1> DEFINE h == HeadVersion(s)
           new == IF h <= Len(tree[s]) THEN SubSeq(tree[s], 1, h) ELSE << >>
           id == LockOf(s, ReadFull)
<1>1. /\ pc[s] = "head" /\ IndInv /\ StateOK /\ CommandHolds(s) /\ Kind(s) = "update"
      /\ got' = [got EXCEPT ![s][Here(s)] = new]
  BY DEF TakeHead, CommandInv, CommandHolds, Placed
<1>2. f \in Path
  BY <1>1, HereIsFile DEF CommandHolds, Working, Reading
<1>3. Holds(s, Here(s), ReadFull)
  BY <1>1 DEF CommandHolds, ReadLocked, Reading
<1>4. id \in DOMAIN LockMap /\ IsRead(s, id) /\ h = HeadBy(s, id)
  BY <1>3, LockOfHeld, HeadIs DEF IsRead
<1>5. h \in Nat /\ tree[s] \in Seq(Author)
  BY <1>1, <1>4, HeadNat DEF StateOK
<1> HIDE DEF h, id
<1>6. got'[s][f] = new
  BY <1>1, <1>2 DEF StateOK
<1>7. /\ UNCHANGED <<pass, job, over, hidden>>
      /\ \A c \in Sock \ {s} : pc'[c] = pc[c]
      /\ pc'[s] = "free"
  BY <1>1 DEF TakeHead, history, Goto, StateOK
<1> SUFFICES ASSUME NEW c \in Sock
             PROVE  /\ Has(s, f, c)' => \/ pc'[c] \in {"done", "dead"} /\ pass'[c] = "commit"
                                        \/ <<s, c>> \in hidden'
                    /\ Finished(c)' /\ f \in Touched(c)' =>
                         c \in over'[s] \/ Blind(c)' \/ Has(s, f, c)' \/ got'[s][f] = << >>
  BY DEF GotHolds
<1>8. Has(s, f, c)' <=> \E i \in DOMAIN new : new[i] = c
  BY <1>6 DEF Has
<1>9. ASSUME Has(s, f, c)'
      PROVE  (pc'[c] \in {"done", "dead"} /\ pass'[c] = "commit") \/ <<s, c>> \in hidden'
  <2>1. PICK i \in DOMAIN new : new[i] = c
    BY <1>8, <1>9
  <2>2. i \in DOMAIN tree[s] /\ tree[s][i] = c /\ i <= h
    BY <1>5, <2>1
  <2>3. pc[c] # "connect" /\ pass[c] = "commit"
    BY <1>1, <2>2, TreeReported
  <2>4. Up(c) => <<s, c>> \in hidden
    BY <1>1, <1>4, <2>2 DEF ReportInv, HeadIsFinished
  <2>5. ~Up(c) => pc[c] \in {"done", "dead"}
    BY <1>1, <2>3 DEF CommandInv, CommandHolds, Placed, StateOK
  <2>6. pc[c] \in {"done", "dead"} => c # s
    BY <1>1
  <2> QED BY <1>7, <2>3, <2>4, <2>5, <2>6
<1>10. ASSUME Finished(c)', f \in Touched(c)'
       PROVE  c \in over'[s] \/ Blind(c)' \/ Has(s, f, c)' \/ got'[s][f] = << >>
  <2>1. c # s /\ Finished(c) /\ f \in Touched(c)
    BY <1>7, <1>10 DEF Finished, Touched, Files
  <2>2. ~Up(c)
    BY <2>1 DEF CommandInv, CommandHolds, Placed, Finished
  <2>3. CASE c \in over[s]
    BY <1>7, <2>3
  <2>4. CASE c \notin over[s] /\ h <= Len(tree[s])
    <3>1. PICK k \in DOMAIN tree[s] : tree[s][k] = c
      BY <1>1, <2>1, <2>4 DEF AtomicInv, Loaded
    <3>2. CASE k > h
      <4>1. Blind(c)
        BY <1>1, <1>4, <2>2, <2>4, <3>1, <3>2 DEF AtomicInv, Loaded
      <4> QED BY <1>7, <4>1 DEF Blind
    <3>3. CASE ~(k > h)
      <4>1. k \in DOMAIN new /\ new[k] = c
        BY <1>5, <2>4, <3>1, <3>3
      <4> QED BY <1>8, <4>1
    <3> QED BY <3>2, <3>3
  <2>5. CASE ~(h <= Len(tree[s]))
    BY <1>6, <2>5
  <2> QED BY <2>3, <2>4, <2>5
<1> QED BY <1>9, <1>10

\* Every step keeps TakenHolds.
LEMMA TakenStep ==
    ASSUME CommandInv, ReportInv, AtomicInv, NEW s \in Sock, Step(s) \/ Kill(s), NEW u \in Sock
    PROVE  TakenHolds(u)'
<1>1. /\ StateOK /\ CommandHolds(u) /\ TakenHolds(u) /\ job' = job
  BY StepAside DEF CommandInv, AtomicInv
<1>2. Files(u)' = Files(u) /\ Kind(u)' = Kind(u)
  BY <1>1 DEF Files, Kind
<1> SUFFICES ASSUME NEW j \in DOMAIN Files(u), Taken(u, j)', NEW f, f = Files(u)[j]
             PROVE  GotHolds(u, f)'
  BY <1>2 DEF TakenHolds, GotHolds
<1>3. ASSUME Taken(u, j) PROVE GotHolds(u, f) /\ Up(u) /\ pc[u] \notin {"done", "dead"}
  BY <1>1, <1>3 DEF TakenHolds, GotHolds, Taken, CommandHolds, Placed, Working, Reading, Writing
<1>4. ASSUME Taken(u, j), got'[u][f] = got[u][f] PROVE GotHolds(u, f)'
  BY <1>3, <1>4, GotStays
<1>5. CASE u # s
  <2>1. Aside(u)
    BY <1>5, StepAside
  <2>2. Taken(u, j) /\ got'[u] = got[u]
    BY <1>2, <2>1 DEF Aside, Taken
  <2> QED BY <1>4, <2>2
<1>6. CASE u = s
  <2>1. /\ Kind(s) = "update" /\ pc'[s] \in Working \union {"end"} /\ j \in Nat /\ pos[s] \in Nat
        /\ j >= 1 /\ (j < pos'[s] \/ (j = pos'[s] /\ pc'[s] \in {"free", "end"}))
        /\ pass[s] = "check"
    BY <1>1, <1>2, <1>6, FilesDiffer DEF Taken, StateOK, CommandHolds, Placed
  <2>2. CASE TakeHead(s)
    <3>1. pos' = pos /\ pc[s] = "head"
      BY <1>1, <2>2 DEF TakeHead, StateOK
    <3>2. CASE j = pos[s]
      BY <1>6, <2>2, <3>2, GotFirst DEF Here
    <3>3. CASE j # pos[s]
      <4>1. pos[s] \in DOMAIN Files(s)
        BY <1>1, <1>6, <3>1 DEF CommandHolds, Placed, Working, Reading
      <4>2. f # Here(s) /\ Here(s) \in Path
        BY <1>1, <1>6, <3>3, <4>1, FilesDiffer DEF Here
      <4>3. got'[s][f] = got[s][f]
        BY <1>1, <2>2, <4>2 DEF TakeHead, StateOK
      <4>4. Taken(s, j)
        BY <1>6, <2>1, <3>1, <3>3 DEF Taken, Working, Reading
      <4> QED BY <1>4, <1>6, <4>3, <4>4
    <3> QED BY <3>2, <3>3
  <2>3. CASE Free(s)
    <3>1. /\ got' = got /\ pc[s] = "free"
          /\ \/ pos'[s] = pos[s] + 1 /\ pc'[s] = "open"
             \/ pos'[s] = pos[s]
      BY <1>1, <2>1, <2>3 DEF Free, Goto, StateOK
    <3>2. Taken(s, j)
      BY <1>6, <2>1, <3>1 DEF Taken, Working, Reading
    <3> QED BY <1>4, <1>6, <3>1, <3>2
  <2>4. CASE Open(s) \/ ReadLock(s)
    <3>1. /\ got' = got /\ pos' = pos /\ pc[s] \in Working /\ pc'[s] \notin {"free", "end"}
      BY <1>1, <2>4 DEF Open, ReadLock, Goto, StateOK, Working
    <3>2. Taken(s, j)
      BY <1>6, <2>1, <3>1 DEF Taken
    <3> QED BY <1>4, <1>6, <3>1, <3>2
  <2>5. CASE Login(s)
    <3>1. pos'[s] = 1 /\ pc'[s] = "open"
      BY <1>1, <1>6, <2>5 DEF Login, Goto, StateOK, CommandHolds, Placed
    <3> QED BY <2>1, <3>1
  <2>6. pc'[s] \notin Working \union {"end"} \/ ~(Register(s) \/ Disconnect(s) \/ Kill(s))
    BY <1>1 DEF Register, Disconnect, Kill, commands, Goto, StateOK, Working, Reading, Writing
  <2>7. pc[s] \notin {"check", "advisory"} \union Writing
    BY <1>1, <1>6, <2>1 DEF CommandHolds, Placed
  <2>8. ~(Check(s) \/ Advisory(s) \/ WriteLock(s) \/ Modified(s) \/ Rename(s) \/ WriteUnlock(s)
           \/ AdvisoryUnlock(s))
    BY <2>7 DEF Check, Advisory, WriteLock, Modified, Rename, WriteUnlock, AdvisoryUnlock, Writing
  <2> QED BY <2>1, <2>2, <2>3, <2>4, <2>5, <2>6, <2>8 DEF Step
<1> QED BY <1>5, <1>6

\* The exceptions of AtomicWhileOpen, and what it says of updates that have just ended.
Exempt(u, c) ==
    \/ c \in over[u] \/ <<u, c>> \in hidden \/ pc[c] = "dead"
    \/ \E d \in Sock : <<c, d>> \in hidden
    \/ \E f \in Touched(u) : got[u][f] = << >>
AtomicAtEnd ==
    \A u, c \in Sock : pc[u] = "end" /\ Kind(u) = "update" /\ Mixed(u, c) => Exempt(u, c)

\* An update at its end has taken all its files.
LEMMA EndIsAtomic == CommandInv /\ (\A u \in Sock : TakenHolds(u)) => AtomicAtEnd
<1> SUFFICES ASSUME CommandInv, NEW u \in Sock, TakenHolds(u), pc[u] = "end", Kind(u) = "update",
                    NEW c \in Sock, Mixed(u, c)
             PROVE  Exempt(u, c)
  BY DEF AtomicAtEnd
<1>1. StateOK /\ CommandHolds(u)
  BY DEF CommandInv
<1>2. PICK f, g \in Touched(c) \intersect Touched(u) : Has(u, f, c) /\ ~Has(u, g, c)
  BY DEF Mixed
<1>3. \A h \in Touched(u) : GotHolds(u, h)
  <2> SUFFICES ASSUME NEW j \in DOMAIN Files(u) PROVE GotHolds(u, Files(u)[j])
    BY DEF Touched
  <2>1. pos[u] = Len(Files(u))
    BY <1>1 DEF CommandHolds, Placed
  <2>2. j < pos[u] \/ j = pos[u]
    BY <1>1, <2>1, FilesDiffer
  <2>3. Taken(u, j)
    BY <2>2 DEF Taken
  <2> QED BY <2>3 DEF TakenHolds, GotHolds
<1>4. Finished(c) \/ pc[c] = "dead" \/ <<u, c>> \in hidden
  BY <1>2, <1>3 DEF GotHolds, Finished
<1>5. Finished(c) => c \in over[u] \/ Blind(c) \/ got[u][g] = << >>
  BY <1>2, <1>3 DEF GotHolds
<1> QED BY <1>2, <1>4, <1>5 DEF Blind, Exempt

\* After its end an update is no longer touched.
LEMMA WhileOpenStep ==
    ASSUME CommandInv, AtomicInv, NEW s \in Sock, Step(s) \/ Kill(s), AtomicAtEnd'
    PROVE  AtomicWhileOpen'
<1>1. StateOK /\ AtomicWhileOpen /\ hidden \subseteq hidden' /\ job' = job
  BY StepAside DEF CommandInv, AtomicInv
<1> SUFFICES ASSUME NEW u \in Sock, NEW c \in Sock,
                    Updated(u)', Kind(c)' = "commit", Mixed(u, c)'
             PROVE  Exempt(u, c)'
  BY DEF AtomicWhileOpen, Exempt
<1>2. CASE pc'[u] = "end"
  BY <1>2 DEF AtomicAtEnd, Updated
<1>3. CASE pc'[u] = "done"
  <2>1. pc[u] \in {"end", "done"} /\ got'[u] = got[u] /\ over[u] \subseteq over'[u]
    <3>1. CASE u # s
      BY <1>3, <3>1, StepAside DEF Aside
    <3>2. CASE u = s
      BY <1>1, <1>3, <3>2, Course, StepAside DEF Disconnect, StateOK
    <3> QED BY <3>1, <3>2
  <2>2. /\ Kind(c)' = Kind(c) /\ Kind(u)' = Kind(u)
        /\ Touched(c)' = Touched(c) /\ Touched(u)' = Touched(u)
    BY <1>1 DEF Kind, Touched, Files
  <2>3. Mixed(u, c) /\ Updated(u) /\ Kind(c) = "commit"
    BY <2>1, <2>2 DEF Mixed, Has, Updated
  <2>4. Exempt(u, c)
    BY <1>1, <2>3 DEF AtomicWhileOpen, Exempt
  <2>5. pc[c] = "dead" => pc'[c] = "dead"
    <3>1. CASE c # s
      BY <3>1, StepAside DEF Aside
    <3>2. CASE c = s
      BY <3>2, EndStays
    <3> QED BY <3>1, <3>2
  <2> QED BY <1>1, <2>1, <2>2, <2>4, <2>5 DEF Exempt
<1> QED BY <1>2, <1>3 DEF Updated

\* Every step keeps AtomicInv.
LEMMA AtomicStep ==
    ASSUME CommandInv, ReportInv, AtomicInv, CommandInv', [SystemNext]_system
    PROVE  AtomicInv'
<1>1. ASSUME UNCHANGED <<SockToClient, LockMap, TransactionList, LockClientMap>>,
             UNCHANGED <<commands, history>>
      PROVE  AtomicInv'
  <2>1. \A t : /\ Up(t)' <=> Up(t)
               /\ \A f, v : Wrote(t, f, v)' <=> Wrote(t, f, v)
               /\ \A id : IsRead(t, id)' <=> IsRead(t, id)
               /\ \A id : HeadBy(t, id)' = HeadBy(t, id)
    BY <1>1, NothingEffect, SameHolds DEF Same, HeadBy, commands
  <2>2. \A c : /\ Kind(c)' = Kind(c) /\ Files(c)' = Files(c) /\ Here(c)' = Here(c)
               /\ Touched(c)' = Touched(c) /\ (Finished(c)' <=> Finished(c))
               /\ (Blind(c)' <=> Blind(c)) /\ (Updated(c)' <=> Updated(c))
               /\ \A e : Sees(c, e)' <=> Sees(c, e)
               /\ \A f, g : Has(c, f, g)' <=> Has(c, f, g)
               /\ \A j : Taken(c, j)' <=> Taken(c, j)
    BY <1>1 DEF commands, history, Kind, Files, Here, Touched, Finished, Blind, Updated, Sees,
                Overlaps, Has, Taken
  <2>3. OnTopIsBlind'
    BY <1>1, <2>1, <2>2 DEF AtomicInv, OnTopIsBlind, commands
  <2>4. AtomicWhileOpen'
    <3>1. \A u, c : Mixed(u, c)' <=> Mixed(u, c)
      BY <2>2 DEF Mixed
    <3> QED BY <1>1, <2>2, <3>1 DEF AtomicInv, AtomicWhileOpen, commands, history
  <2>5. ASSUME NEW c \in Sock
        PROVE  NotYet(c)' /\ Replaced(c)' /\ Aware(c)' /\ Loaded(c)' /\ TakenHolds(c)'
    <3>1. NotYet(c)' /\ Replaced(c)'
      BY <1>1, <2>1, <2>2 DEF AtomicInv, NotYet, Replaced, commands
    <3>2. Aware(c)'
      BY <1>1, <2>1, <2>2 DEF AtomicInv, Aware, commands, history
    <3>3. Loaded(c)'
      BY <1>1, <2>1, <2>2 DEF AtomicInv, Loaded, commands, history
    <3>4. TakenHolds(c)'
      BY <1>1, <2>1, <2>2 DEF AtomicInv, TakenHolds, commands, history
    <3> QED BY <3>1, <3>2, <3>3, <3>4
  <2> QED BY <2>3, <2>4, <2>5 DEF AtomicInv
<1>2. CASE UNCHANGED system \/ ClockTick
  BY <1>1, <1>2 DEF system, vars, ClockTick, Tick
<1>3. ASSUME NEW s \in Sock, Step(s) \/ Kill(s) PROVE AtomicInv'
  <2>1. /\ OnTopIsBlind'
        /\ \A c \in Sock : NotYet(c)' /\ Replaced(c)' /\ Aware(c)' /\ Loaded(c)' /\ TakenHolds(c)'
    BY <1>3, OnTopStep, NotYetStep, ReplacedStep, AwareStep, LoadedStep, TakenStep
  <2>2. (CommandInv /\ (\A u \in Sock : TakenHolds(u)) => AtomicAtEnd)'
    BY EndIsAtomic, PTL
  <2>3. AtomicWhileOpen'
    BY <1>3, <2>1, <2>2, WhileOpenStep
  <2> QED BY <2>1, <2>3 DEF AtomicInv
<1> QED BY <1>2, <1>3 DEF SystemNext

\* AtomicInv holds at first.
LEMMA AtomicInit ==
    ASSUME SystemInit
    PROVE  AtomicInv
<1>1. \A s \in Sock : pc[s] = "connect" /\ pass[s] = "check" /\ ~Up(s)
  BY EmptyIsMap DEF SystemInit, Init, Up
<1>2. OnTopIsBlind /\ AtomicWhileOpen
  BY <1>1 DEF OnTopIsBlind, AtomicWhileOpen, Updated, Wrote
<1>3. ASSUME NEW s \in Sock PROVE NotYet(s) /\ Replaced(s) /\ Aware(s) /\ Loaded(s) /\ TakenHolds(s)
  BY <1>1 DEF NotYet, Replaced, Aware, Loaded, TakenHolds, Taken, Wrote, Working, Reading, Writing
<1> QED BY <1>2, <1>3 DEF AtomicInv

\* An update gets all of a commit or nothing, with the exceptions that AtomicWhileOpen
\* names.
THEOREM AtomicCheckouts == SystemSpec => []AtomicWhileOpen
<1>1. SystemInit => AtomicInv
  BY AtomicInit
<1>2. CommandInv /\ ReportInv /\ AtomicInv /\ CommandInv' /\ [SystemNext]_system => AtomicInv'
  BY AtomicStep
<1>3. AtomicInv => AtomicWhileOpen
  BY DEF AtomicInv
<1> QED BY <1>1, <1>2, <1>3, ReportInvariance, PTL DEF SystemSpec
=============================================================================
