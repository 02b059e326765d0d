-------------------------- MODULE LockServerProofs --------------------------
(***************************************************************************)
(* Proofs about LockServer.tla, for every number of sockets, paths, roots, *)
(* branches, versions and every value of the bounds.                       *)
(***************************************************************************)
EXTENDS LockServer, WellFoundedInduction, TLAPS

-----------------------------------------------------------------------------
(* Finite maps *)

\* The empty map is a map.
LEMMA EmptyIsMap ==
    ASSUME NEW S, NEW T
    PROVE  IsMap(EmptyMap, S, T) /\ DOMAIN EmptyMap = {}
BY DEF IsMap, EmptyMap

-----------------------------------------------------------------------------
(* The steps that touch only the threads and the clock *)

\* No client, lock or transaction changes, and no registered socket loses its
\* thread.
ThreadStep ==
    /\ UNCHANGED <<SockToClient, LockClientMap, LockMap, TransactionList,
                   next_client_id, global_lockId>>
    /\ thread' \in [Sock -> {"idle", "compare", "store", "copy", "register", "serving"}]
    /\ \A s \in DOMAIN SockToClient : thread'[s] = thread[s]

\* The clock moves, or OpenLockClient runs up to its critical section, or a
\* thread without a client ends.
LEMMA ThreadSteps ==
    ASSUME IndInv,
           \/ Tick
           \/ \E s \in Sock : \/ Accept(s) \/ AcceptNoName(s) \/ LockTimeCompare(s)
                              \/ LockTimeStore(s) \/ LockTimeCopy(s)
                              \/ AlreadyClosed(s)
    PROVE  ThreadStep /\ TypeOK'
<1> USE DEF IndInv, TypeOK, SocketsServed, ThreadStep, Time, threadVars, timeVars, lockVars
<1>1. CASE Tick
  <2>1. clock' \in 0 .. ClockMod - 1
    BY <1>1, ClockAssumption DEF Tick
  <2> QED BY <1>1, <2>1 DEF Tick, IsMap
<1>2. ASSUME NEW s \in Sock, Accept(s) PROVE ThreadStep /\ TypeOK'
  BY <1>2 DEF Accept, IsMap
<1>3. ASSUME NEW s \in Sock, AcceptNoName(s) PROVE ThreadStep /\ TypeOK'
  BY <1>3 DEF AcceptNoName, IsMap
<1>4. ASSUME NEW s \in Sock, LockTimeCompare(s) PROVE ThreadStep /\ TypeOK'
  BY <1>4 DEF LockTimeCompare, Rolled, IsMap
<1>5. ASSUME NEW s \in Sock, LockTimeStore(s) PROVE ThreadStep /\ TypeOK'
  BY <1>5 DEF LockTimeStore, IsMap
<1>6. ASSUME NEW s \in Sock, LockTimeCopy(s) PROVE ThreadStep /\ TypeOK'
  BY <1>6 DEF LockTimeCopy, IsMap
<1>7. ASSUME NEW s \in Sock, AlreadyClosed(s) PROVE ThreadStep /\ TypeOK'
  BY <1>7 DEF AlreadyClosed, IsMap
<1> QED BY <1>1, <1>2, <1>3, <1>4, <1>5, <1>6, <1>7

\* ... such a step preserves the invariant.
LEMMA ThreadStepInv ==
    ASSUME IndInv, ThreadStep, TypeOK'
    PROVE  IndInv'
BY DEF IndInv, ThreadStep, SocketsServed, SocketsDisjoint, ClientsConnected,
       OwnersActive, State, IdsBounded, WriteExclusion

-----------------------------------------------------------------------------
(* The critical sections, one lemma each *)

\* A new client has a fresh id and no locks.
LEMMA OpenLockClientInv ==
    ASSUME IndInv, NEW s \in Sock, OpenLockClient(s)
    PROVE  IndInv'
<1> DEFINE client == next_client_id + 1
           fresh == [state |-> "Login", root |-> NoRoot, starttime |-> stamp[s]]
<1> USE DEF IndInv, OpenLockClient, timeVars, lockVars
<1>1. client \in Nat /\ fresh \in LockClient
  BY DEF TypeOK, LockClient
<1>2. /\ IsMap(SockToClient', Sock, Nat)
      /\ DOMAIN SockToClient' = DOMAIN SockToClient \union {s}
      /\ SockToClient'[s] = client
      /\ \A x \in DOMAIN SockToClient : x # s => SockToClient'[x] = SockToClient[x]
  BY <1>1 DEF TypeOK, Put, IsMap
<1>3. /\ IsMap(LockClientMap', Nat, LockClient)
      /\ DOMAIN LockClientMap' = DOMAIN LockClientMap \union {client}
      /\ LockClientMap'[client] = fresh
      /\ \A x \in DOMAIN LockClientMap : x # client => LockClientMap'[x] = LockClientMap[x]
  BY <1>1 DEF TypeOK, Put, IsMap
<1>4. s \notin DOMAIN SockToClient
  BY DEF SocketsServed
<1>5. client \notin DOMAIN LockClientMap
  BY <1>1 DEF ClientsConnected, TypeOK, IsMap
<1>6. TypeOK'
  <2>1. NoTime \in Time
    BY ClockAssumption DEF Time, NoTime
  <2>2. stamp' \in [Sock -> Time]
    BY <2>1 DEF TypeOK
  <2>3. thread' \in [Sock -> {"idle", "compare", "store", "copy", "register", "serving"}]
    BY DEF TypeOK
  <2>4. next_client_id' \in Nat
    BY <1>1 DEF TypeOK
  <2>5. clock' = clock /\ last_clock' = last_clock /\ LockMap' = LockMap
    OBVIOUS
  <2>6. TransactionList' = TransactionList /\ global_lockId' = global_lockId
    OBVIOUS
  <2> QED
    BY <1>2, <1>3, <2>2, <2>3, <2>4, <2>5, <2>6, Zenon DEF TypeOK
<1>7. SocketsServed'
  BY <1>1, <1>2, <1>3, <1>4 DEF SocketsServed, TypeOK, IsMap
<1>8. SocketsDisjoint'
  BY <1>1, <1>2, <1>4 DEF SocketsDisjoint, SocketsServed, TypeOK, IsMap
<1>9. ClientsConnected'
  <2>1. client <= next_client_id' /\ client # 0 /\ fresh.state # "Active"
    BY <1>1 DEF TypeOK
  <2>2. SUFFICES ASSUME NEW c \in DOMAIN LockClientMap, c # client
                 PROVE  /\ c <= next_client_id'
                        /\ c # 0 => \E t \in DOMAIN SockToClient' : SockToClient'[t] = c
    BY <1>2, <1>3, <2>1 DEF ClientsConnected
  <2>3. c <= next_client_id /\ c \in Nat
    BY DEF ClientsConnected, TypeOK, IsMap
  <2>4. c # 0 => \E t \in DOMAIN SockToClient : SockToClient[t] = c
    BY DEF ClientsConnected
  <2> QED BY <1>2, <1>4, <2>3, <2>4 DEF TypeOK
<1>10. OwnersActive'
  BY <1>3, <1>5 DEF OwnersActive, State
<1>11. IdsBounded'
  BY BoundsAssumption DEF IdsBounded, TypeOK
<1>12. WriteExclusion'
  BY DEF WriteExclusion
<1> QED BY <1>6, <1>7, <1>8, <1>9, <1>10, <1>11, <1>12

\* Registering the phantom client 0 of a socket.
LEMMA PhantomLookupInv ==
    ASSUME IndInv, NEW s \in Sock, PhantomLookup(s)
    PROVE  IndInv'
<1> USE DEF IndInv, PhantomLookup, threadVars, timeVars, lockVars
<1>1. /\ IsMap(SockToClient', Sock, Nat)
      /\ DOMAIN SockToClient' = DOMAIN SockToClient \union {s}
      /\ SockToClient'[s] = 0
      /\ \A x \in DOMAIN SockToClient : x # s => SockToClient'[x] = SockToClient[x]
  BY DEF TypeOK, Put, IsMap
<1>2. TypeOK'
  BY <1>1 DEF TypeOK
<1>3. SocketsServed' /\ SocketsDisjoint'
  BY <1>1 DEF SocketsServed, SocketsDisjoint, TypeOK
<1>4. ClientsConnected'
  BY <1>1 DEF ClientsConnected
<1>5. OwnersActive' /\ IdsBounded' /\ WriteExclusion'
  BY DEF OwnersActive, State, IdsBounded, WriteExclusion
<1> QED BY <1>2, <1>3, <1>4, <1>5

\* The closed client 0 that a handler inserts.
LEMMA PhantomCommandInv ==
    ASSUME IndInv, NEW s \in Sock, PhantomCommand(s)
    PROVE  IndInv'
<1> USE DEF IndInv, PhantomCommand, Connected, ClientOf, threadVars, timeVars, lockVars
<1>1. SockToClient[s] = 0
  BY DEF SocketsServed
<1>2. DefaultClient \in LockClient
  BY ClockAssumption DEF DefaultClient, LockClient, Time, NoTime
<1>3. /\ IsMap(LockClientMap', Nat, LockClient)
      /\ DOMAIN LockClientMap' = DOMAIN LockClientMap \union {0}
      /\ LockClientMap'[0] = DefaultClient
      /\ \A x \in DOMAIN LockClientMap : x # 0 => LockClientMap'[x] = LockClientMap[x]
  BY <1>1, <1>2 DEF TypeOK, Put, IsMap
<1>4. TypeOK'
  BY <1>3 DEF TypeOK
<1>5. SocketsServed' /\ SocketsDisjoint'
  BY <1>3 DEF SocketsServed, SocketsDisjoint
<1>6. ClientsConnected'
  BY <1>3 DEF ClientsConnected, DefaultClient, TypeOK
<1>7. OwnersActive'
  BY <1>1, <1>3 DEF OwnersActive, State, DefaultClient
<1>8. IdsBounded' /\ WriteExclusion'
  BY DEF IdsBounded, WriteExclusion
<1> QED BY <1>4, <1>5, <1>6, <1>7, <1>8

\* DoClient and DoMonitor: a client that was logging in changes state.
LEMMA LoginInv ==
    ASSUME IndInv, NEW s \in Sock,
           DoMonitor(s) \/ \E root \in Root : DoClient(s, root)
    PROVE  IndInv'
<1> DEFINE client == SockToClient[s]
<1> USE DEF IndInv, Connected, ClientOf, threadVars, timeVars, lockVars
<1>1. /\ client \in DOMAIN LockClientMap
      /\ LockClientMap[client].state = "Login"
      /\ UNCHANGED <<thread, stamp, clock, last_clock, SockToClient, LockMap,
                     TransactionList, next_client_id, global_lockId>>
  BY DEF DoMonitor, DoClient, State
<1>2. PICK new \in LockClient :
         /\ LockClientMap' = [LockClientMap EXCEPT ![client] = new]
         /\ new.state = "Active" => new.root \in Root
  <2>1. LockClientMap[client] \in LockClient
    BY <1>1 DEF TypeOK, IsMap
  <2>2. ASSUME DoMonitor(s)
        PROVE  \E new \in LockClient :
                 /\ LockClientMap' = [LockClientMap EXCEPT ![client] = new]
                 /\ new.state = "Active" => new.root \in Root
    <3> DEFINE new == [LockClientMap[client] EXCEPT !.state = "Monitor"]
    <3>1. new \in LockClient /\ new.state # "Active"
      BY <2>1, <2>2 DEF LockClient
    <3>2. LockClientMap' = [LockClientMap EXCEPT ![client] = new]
      BY <2>1, <2>2, <1>1 DEF DoMonitor, LockClient, TypeOK, IsMap
    <3> QED BY <3>1, <3>2
  <2>3. ASSUME NEW root \in Root, DoClient(s, root)
        PROVE  \E new \in LockClient :
                 /\ LockClientMap' = [LockClientMap EXCEPT ![client] = new]
                 /\ new.state = "Active" => new.root \in Root
    <3> DEFINE new == [LockClientMap[client] EXCEPT !.root = root, !.state = "Active"]
    <3>1. new \in LockClient /\ new.root \in Root
      BY <2>1, <2>3 DEF LockClient
    <3>2. LockClientMap' = [LockClientMap EXCEPT ![client] = new]
      BY <2>1, <2>3, <1>1 DEF DoClient, LockClient, TypeOK, IsMap
    <3> QED BY <3>1, <3>2
  <2> QED BY <2>2, <2>3
<1>3. /\ DOMAIN LockClientMap' = DOMAIN LockClientMap
      /\ LockClientMap'[client] = new
      /\ \A c \in DOMAIN LockClientMap : c # client => LockClientMap'[c] = LockClientMap[c]
  BY <1>1, <1>2 DEF TypeOK, IsMap
<1>4. TypeOK'
  BY <1>1, <1>2, <1>3 DEF TypeOK, IsMap
<1>5. SocketsServed' /\ SocketsDisjoint' /\ IdsBounded' /\ WriteExclusion'
  BY <1>1, <1>3 DEF SocketsServed, SocketsDisjoint, IdsBounded, WriteExclusion
<1>6. client # 0
  BY <1>1 DEF ClientsConnected
<1>7. ClientsConnected'
  BY <1>1, <1>2, <1>3, <1>6 DEF ClientsConnected
<1>8. OwnersActive'
  BY <1>1, <1>3 DEF OwnersActive, State
<1> QED BY <1>4, <1>5, <1>7, <1>8

\* The versions a granted lock remembers are a version map.
LEMMA VersionsType ==
    ASSUME TypeOK, NEW client, NEW path, NEW flags
    PROVE  LET seen == SeenBy(client, path, flags)
           IN  [b \in {TransactionList[i].branch : i \in seen} |->
                  TransactionList[CHOOSE i \in seen : TRUE].oldversion] \in VersionMap
<1> DEFINE seen == SeenBy(client, path, flags)
           dom == {TransactionList[i].branch : i \in seen}
           old == TransactionList[CHOOSE i \in seen : TRUE].oldversion
<1>1. \A i \in seen : TransactionList[i] \in Transaction
  BY DEF TypeOK, SeenBy, FirstOn
<1>2. dom \in SUBSET Branch
  BY <1>1 DEF Transaction
<1>3. dom # {} => old \in Version
  BY <1>1 DEF Transaction
<1> HIDE DEF dom, old
<1>4. [b \in dom |-> old] \in [dom -> Version]
  BY <1>3
<1> QED BY <1>2, <1>4 DEF VersionMap, dom, old, seen

\* A lock is granted only when no other client's lock stands in the way, so
\* exclusion survives.
LEMMA LockGrantedInv ==
    ASSUME IndInv, NEW s \in Sock, NEW path \in Path, NEW flags \in FlagSets,
           LockGranted(s, path, flags)
    PROVE  IndInv'
<1> USE DEF IndInv, Connected, ClientOf, threadVars, timeVars
<1> DEFINE client == SockToClient[s]
           id == global_lockId + 1
           seen == SeenBy(client, path, flags)
           vm == [b \in {TransactionList[i].branch : i \in seen} |->
                    TransactionList[CHOOSE i \in seen : TRUE].oldversion]
           new == [owner |-> client, path |-> path, flags |-> flags, versions |-> vm]
<1>1. vm \in VersionMap
  BY VersionsType
<1> HIDE DEF vm
<1>2. client \in Nat /\ id \in Nat /\ State(client) = "Active"
  BY DEF TypeOK, IsMap, LockGranted, LockRequest
<1>3. new \in Lock
  BY <1>1, <1>2 DEF Lock
<1>4. LockMap' = Put(LockMap, id, new)
  BY DEF LockGranted, vm
<1> HIDE DEF new
<1>5. /\ IsMap(LockMap', Nat, Lock)
      /\ DOMAIN LockMap' = DOMAIN LockMap \union {id}
      /\ LockMap'[id] = new
      /\ \A x \in DOMAIN LockMap : x # id => LockMap'[x] = LockMap[x]
  BY <1>2, <1>3, <1>4 DEF TypeOK, Put, IsMap
<1>6. id \notin DOMAIN LockMap
  BY <1>2 DEF OwnersActive, TypeOK, IsMap
<1>7. /\ UNCHANGED <<thread, stamp, clock, last_clock, SockToClient, LockClientMap,
                     TransactionList, next_client_id>>
      /\ global_lockId' = id
      /\ global_lockId < MaxLocks
  BY DEF LockGranted
<1>8. TypeOK'
  BY <1>2, <1>5, <1>7 DEF TypeOK
<1>9. SocketsServed' /\ SocketsDisjoint' /\ ClientsConnected'
  BY <1>7 DEF SocketsServed, SocketsDisjoint, ClientsConnected
<1>10. OwnersActive'
  <2>1. \A x \in DOMAIN LockMap : x \in Nat /\ x <= id /\ State(LockMap[x].owner) = "Active"
    BY <1>2 DEF OwnersActive, TypeOK, IsMap
  <2>2. id <= id /\ new.owner = client
    BY <1>2 DEF new
  <2>3. \A c : State(c)' = State(c)
    BY <1>7 DEF State
  <2>4. \A x \in DOMAIN LockMap' : x <= id /\ State(LockMap'[x].owner) = "Active"
    BY <1>2, <1>5, <1>6, <2>1, <2>2
  <2>5. \A i \in DOMAIN TransactionList : State(TransactionList[i].owner) = "Active"
    BY DEF OwnersActive
  <2> QED BY <1>7, <2>3, <2>4, <2>5 DEF OwnersActive
<1>11. IdsBounded'
  BY <1>2, <1>7, BoundsAssumption DEF IdsBounded, TypeOK
<1>12. WriteExclusion'
  <2>1. \A x \in DOMAIN LockMap : ~Blocks(LockMap[x], client, path, flags)
    BY DEF LockGranted, request_lock
  <2>2. new.owner = client /\ new.path = path /\ new.flags = flags
    BY DEF new
  <2> QED BY <1>5, <1>6, <2>1, <2>2 DEF WriteExclusion, Blocks
<1> QED BY <1>8, <1>9, <1>10, <1>11, <1>12

\* Waiting for a transaction uses up a lock id.
LEMMA LockWaitsInv ==
    ASSUME IndInv, NEW s \in Sock, NEW path \in Path, NEW flags \in FlagSets,
           LockWaitsForTransaction(s, path, flags)
    PROVE  IndInv'
<1> USE DEF IndInv, LockWaitsForTransaction, threadVars, timeVars
<1>1. TypeOK' /\ IdsBounded'
  BY BoundsAssumption DEF TypeOK, IdsBounded
<1>2. SocketsServed' /\ SocketsDisjoint' /\ ClientsConnected' /\ WriteExclusion'
  BY DEF SocketsServed, SocketsDisjoint, ClientsConnected, WriteExclusion
<1>3. OwnersActive'
  BY DEF OwnersActive, State, TypeOK, IsMap
<1> QED BY <1>1, <1>2, <1>3

\* Releasing a lock.
LEMMA DoUnlockInv ==
    ASSUME IndInv, NEW s \in Sock, NEW id, DoUnlock(s, id)
    PROVE  IndInv'
<1> USE DEF IndInv, DoUnlock, threadVars, timeVars
<1>1. /\ IsMap(LockMap', Nat, Lock)
      /\ DOMAIN LockMap' = DOMAIN LockMap \ {id}
      /\ \A x \in DOMAIN LockMap' : LockMap'[x] = LockMap[x]
  BY DEF TypeOK, Drop, IsMap
<1>2. TypeOK'
  BY <1>1 DEF TypeOK
<1>3. SocketsServed' /\ SocketsDisjoint' /\ ClientsConnected' /\ IdsBounded'
  BY DEF SocketsServed, SocketsDisjoint, ClientsConnected, IdsBounded
<1>4. OwnersActive'
  BY <1>1 DEF OwnersActive, State
<1>5. WriteExclusion'
  BY <1>1 DEF WriteExclusion
<1> QED BY <1>2, <1>3, <1>4, <1>5

\* Recording a transaction.
LEMMA DoModifiedInv ==
    ASSUME IndInv, NEW s \in Sock, NEW id, NEW branch \in Branch,
           NEW old \in Version, DoModified(s, id, branch, old)
    PROVE  IndInv'
<1> DEFINE new == [owner |-> SockToClient[s], path |-> LockMap[id].path,
                   branch |-> branch, oldversion |-> old]
<1> USE DEF IndInv, DoModified, OwnLock, Connected, ClientOf, threadVars, timeVars
<1>1. new \in Transaction
  BY DEF TypeOK, IsMap, Lock, Transaction
<1>2. TransactionList' = Append(TransactionList, new)
  OBVIOUS
<1> HIDE DEF new
<1>3. /\ TransactionList' \in Seq(Transaction)
      /\ \A i \in DOMAIN TransactionList' :
            \/ TransactionList'[i] = new
            \/ i \in DOMAIN TransactionList /\ TransactionList'[i] = TransactionList[i]
  <2>1. TransactionList \in Seq(Transaction)
    BY DEF TypeOK
  <2> QED BY ONLY <1>1, <1>2, <2>1
<1>4. TypeOK'
  BY <1>3 DEF TypeOK
<1>5. /\ SocketsServed' /\ SocketsDisjoint' /\ ClientsConnected' /\ IdsBounded'
      /\ WriteExclusion'
  BY DEF SocketsServed, SocketsDisjoint, ClientsConnected, IdsBounded, WriteExclusion
<1>6. State(new.owner) = "Active"
  BY DEF new
<1>7. OwnersActive'
  BY <1>3, <1>6 DEF OwnersActive, State
<1> QED BY <1>4, <1>5, <1>7

\* std::partition and resize: what is left was there before, and is wanted.
LEMMA PartitionKeeps ==
    ASSUME TypeOK, NEW wanted \in SUBSET DOMAIN TransactionList, Partition(wanted)
    PROVE  /\ TransactionList' \in Seq(Transaction)
           /\ \A i \in DOMAIN TransactionList' :
                \E j \in wanted : TransactionList'[i] = TransactionList[j]
<1>0. PICK n \in 0 .. Len(TransactionList) : \E f \in Bijection(1 .. n, wanted) :
         TransactionList' = [i \in 1 .. n |-> TransactionList[f[i]]]
  BY DEF Partition
<1>1. PICK f \in Bijection(1 .. n, wanted) :
         TransactionList' = [i \in 1 .. n |-> TransactionList[f[i]]]
  BY <1>0
<1>2. f \in [1 .. n -> wanted]
  BY DEF Bijection, Injection
<1>3. n \in Nat
  BY DEF TypeOK
<1>4. \A i \in 1 .. n : TransactionList[f[i]] \in Transaction
  BY <1>2 DEF TypeOK
<1> QED BY <1>1, <1>2, <1>3, <1>4

\* Closing removes the client, its socket, its locks and its transactions.
LEMMA CloseLockClientInv ==
    ASSUME IndInv, NEW s \in Sock, CloseLockClient(s)
    PROVE  IndInv'
<1> DEFINE client == SockToClient[s]
           wanted == {i \in DOMAIN TransactionList :
                        TransactionList[i].owner \in DOMAIN LockClientMap \ {client}}
<1> USE DEF IndInv
<1>1. /\ LockMap' = Drop(LockMap, {id \in DOMAIN LockMap : LockMap[id].owner = client})
      /\ SockToClient' = Drop(SockToClient, {s})
      /\ LockClientMap' = Drop(LockClientMap, {client})
      /\ Partition(wanted)
      /\ last_clock' = [Rolled(clock) EXCEPT !.clock = clock]
      /\ thread' = [thread EXCEPT ![s] = "idle"]
      /\ UNCHANGED <<stamp, clock, next_client_id, global_lockId>>
      /\ s \in DOMAIN SockToClient
  BY DEF CloseLockClient, LocksOf, ClientOf, Connected
<1>2. /\ IsMap(LockMap', Nat, Lock)
      /\ \A x \in DOMAIN LockMap' : /\ x \in DOMAIN LockMap
                                   /\ LockMap'[x] = LockMap[x]
                                   /\ LockMap[x].owner # client
  BY <1>1 DEF TypeOK, Drop, IsMap
<1>3. /\ IsMap(SockToClient', Sock, Nat)
      /\ DOMAIN SockToClient' = DOMAIN SockToClient \ {s}
      /\ \A x \in DOMAIN SockToClient' : SockToClient'[x] = SockToClient[x]
  BY <1>1 DEF TypeOK, Drop, IsMap
<1>4. /\ IsMap(LockClientMap', Nat, LockClient)
      /\ DOMAIN LockClientMap' = DOMAIN LockClientMap \ {client}
      /\ \A x \in DOMAIN LockClientMap' : LockClientMap'[x] = LockClientMap[x]
  BY <1>1 DEF TypeOK, Drop, IsMap
<1>5. /\ TransactionList' \in Seq(Transaction)
      /\ \A i \in DOMAIN TransactionList' :
           \E j \in wanted : TransactionList'[i] = TransactionList[j]
  BY <1>1, PartitionKeeps
<1>6. last_clock' \in Time
  <2>1. last_clock \in Time /\ clock \in 0 .. ClockMod - 1
    BY DEF TypeOK
  <2>2. Rolled(clock) \in Time
    BY <2>1 DEF Time, Rolled
  <2> QED BY <1>1, <2>1, <2>2 DEF Time
<1>7. TypeOK'
  BY <1>1, <1>2, <1>3, <1>4, <1>5, <1>6 DEF TypeOK
<1>8. SocketsServed'
  <2>1. SUFFICES ASSUME NEW t \in DOMAIN SockToClient, t # s
                 PROVE  /\ thread'[t] = "serving"
                        /\ SockToClient[t] <= next_client_id
                        /\ SockToClient[t] # 0 => SockToClient[t] \in DOMAIN LockClientMap'
    BY <1>1, <1>3 DEF SocketsServed
  <2>2. SockToClient[t] # 0 => SockToClient[t] # client
    BY <1>1, <2>1 DEF SocketsDisjoint
  <2> QED BY <1>1, <1>4, <2>1, <2>2 DEF SocketsServed, TypeOK, IsMap
<1>9. SocketsDisjoint'
  BY <1>3 DEF SocketsDisjoint
<1>10. ClientsConnected'
  <2>1. \A c \in DOMAIN LockClientMap' :
          c # 0 => \E t \in DOMAIN SockToClient' : SockToClient'[t] = c
    <3>1. SUFFICES ASSUME NEW c \in DOMAIN LockClientMap, c # client, c # 0
                   PROVE  \E t \in DOMAIN SockToClient' : SockToClient'[t] = c
      BY <1>4
    <3>2. PICK t \in DOMAIN SockToClient : SockToClient[t] = c
      BY <3>1 DEF ClientsConnected
    <3>3. t \in DOMAIN SockToClient'
      BY <1>3, <3>1, <3>2
    <3> QED BY <1>3, <3>2, <3>3
  <2>2. /\ next_client_id' = next_client_id
        /\ \A c \in DOMAIN LockClientMap' :
             c \in DOMAIN LockClientMap /\ LockClientMap'[c] = LockClientMap[c]
    BY <1>1, <1>4
  <2>3. ClientsConnected
    OBVIOUS
  <2>4. \A c \in DOMAIN LockClientMap' :
          /\ c <= next_client_id'
          /\ c = 0 => LockClientMap'[c].state = "Closed"
          /\ LockClientMap'[c].state = "Active" => LockClientMap'[c].root \in Root
    BY <2>2, <2>3 DEF ClientsConnected
  <2> QED BY <2>1, <2>4 DEF ClientsConnected
<1>12. OwnersActive'
  <2> DEFINE Live(o) == o \in DOMAIN LockClientMap' /\ LockClientMap'[o].state = "Active"
  <2>0. \A o : o # client /\ State(o) = "Active" => Live(o)
    BY <1>4 DEF State
  <2>1. \A x \in DOMAIN LockMap' : x <= global_lockId' /\ Live(LockMap'[x].owner)
    BY <1>1, <1>2, <2>0 DEF OwnersActive
  <2>2. \A j \in wanted : Live(TransactionList[j].owner)
    BY <2>0 DEF OwnersActive
  <2>3. \A i \in DOMAIN TransactionList' : Live(TransactionList'[i].owner)
    BY <1>5, <2>2
  <2> QED BY <2>1, <2>3 DEF OwnersActive, State
<1>13. IdsBounded'
  BY <1>1 DEF IdsBounded
<1>14. WriteExclusion'
  BY <1>2 DEF WriteExclusion
<1> QED BY <1>7, <1>8, <1>9, <1>10, <1>12, <1>13, <1>14

-----------------------------------------------------------------------------
(* The theorems *)

\* The invariant holds initially ...
LEMMA InitInv == Init => IndInv
<1> SUFFICES ASSUME Init PROVE IndInv
  OBVIOUS
<1> USE DEF Init
<1>1. TypeOK
  BY EmptyIsMap, ClockAssumption DEF TypeOK, Time, NoTime
<1>2. DOMAIN SockToClient = {} /\ DOMAIN LockClientMap = {} /\ DOMAIN LockMap = {}
  BY EmptyIsMap
<1>3. DOMAIN TransactionList = {}
  OBVIOUS
<1> QED BY <1>1, <1>2, <1>3, BoundsAssumption
        DEF IndInv, SocketsServed, SocketsDisjoint, ClientsConnected, OwnersActive,
            IdsBounded, WriteExclusion

\* ... and every step preserves it.
LEMMA NextInv == IndInv /\ [Next]_vars => IndInv'
<1> SUFFICES ASSUME IndInv, [Next]_vars PROVE IndInv'
  OBVIOUS
<1>1. CASE UNCHANGED vars
  BY <1>1 DEF vars, IndInv, TypeOK, SocketsServed, SocketsDisjoint, ClientsConnected,
              OwnersActive, State, IdsBounded, WriteExclusion
<1>2. CASE Tick
  BY <1>2, ThreadSteps, ThreadStepInv
<1>3. ASSUME NEW s \in Sock, Connect(s) PROVE IndInv'
  BY <1>3, ThreadSteps, ThreadStepInv, OpenLockClientInv DEF Connect
<1>4. ASSUME NEW s \in Sock, Command(s) PROVE IndInv'
  BY <1>4, PhantomLookupInv, PhantomCommandInv, LoginInv, LockGrantedInv,
     LockWaitsInv, DoUnlockInv, DoModifiedInv DEF Command
<1>5. ASSUME NEW s \in Sock, Close(s) PROVE IndInv'
  BY <1>5, ThreadSteps, ThreadStepInv, CloseLockClientInv DEF Close
<1> QED BY <1>1, <1>2, <1>3, <1>4, <1>5 DEF Next

THEOREM Invariance == Spec => []IndInv
BY InitInv, NextInv, PTL DEF Spec

\* Type correctness of the lock service.
THEOREM TypeCorrect == Spec => []TypeOK
<1>1. IndInv => TypeOK
  BY DEF IndInv
<1> QED BY <1>1, Invariance, PTL

\* A write lock excludes the write locks and full read locks of all others.
THEOREM Exclusion == Spec => []WriteExclusion
<1>1. IndInv => WriteExclusion
  BY DEF IndInv
<1> QED BY <1>1, Invariance, PTL

\* Every lock and every transaction belongs to an active client with exactly
\* one connection.
THEOREM NothingOutlives == Spec => []NothingOutlivesItsClient
<1>1. ASSUME IndInv, NEW c, State(c) = "Active" PROVE Served(c)
  <2>1. c \in DOMAIN LockClientMap /\ c # 0
    BY <1>1 DEF IndInv, ClientsConnected, State
  <2>2. PICK s \in DOMAIN SockToClient : SockToClient[s] = c
    BY <1>1, <2>1 DEF IndInv, ClientsConnected
  <2>3. s \in Sock /\ Connected(s)
    BY <1>1 DEF IndInv, SocketsServed, TypeOK, IsMap, Connected
  <2>4. \A t \in DOMAIN SockToClient : SockToClient[t] = c <=> t = s
    BY <1>1, <2>1, <2>2 DEF IndInv, SocketsDisjoint
  <2> QED BY <1>1, <2>3, <2>4 DEF Served
<1>2. IndInv => NothingOutlivesItsClient
  BY <1>1 DEF NothingOutlivesItsClient, IndInv, OwnersActive
<1> QED BY <1>2, Invariance, PTL

\* The client 0 of an unregistered socket owns nothing.
THEOREM PhantomHarmless == Spec => []PhantomOwnsNothing
<1>1. ASSUME IndInv PROVE PhantomOwnsNothing
  <2>1. State(0) = "Closed"
    BY <1>1 DEF IndInv, ClientsConnected, State
  <2> QED BY <1>1, <2>1 DEF PhantomOwnsNothing, IndInv, OwnersActive
<1> QED BY <1>1, Invariance, PTL

-----------------------------------------------------------------------------
(* LockServer implements LockTable *)

\* The abstract table seen through the refinement mapping.
Held == [id \in DOMAIN LockMap |->
           [owner |-> LockMap[id].owner, path |-> LockMap[id].path,
            flags |-> LockMap[id].flags]]

\* A grant is an abstract Acquire.
LEMMA GrantRefines ==
    ASSUME IndInv, NEW s \in Sock, NEW path \in Path, NEW flags \in FlagSets,
           LockGranted(s, path, flags)
    PROVE  Table!Acquire(SockToClient[s], path, flags) /\ SockToClient[s] \in 0 .. MaxClients
<1> DEFINE client == SockToClient[s]
           id == global_lockId + 1
<1>1. client \in 0 .. MaxClients
  BY BoundsAssumption DEF IndInv, TypeOK, IsMap, SocketsServed, IdsBounded, LockGranted,
                          LockRequest, Connected
<1>2. global_lockId' = id /\ id \in Nat /\ id <= MaxLocks
  BY BoundsAssumption DEF IndInv, TypeOK, IdsBounded, LockGranted
<1>3. PICK vm : LockMap' = Put(LockMap, id, [owner |-> client, path |-> path,
                                            flags |-> flags, versions |-> vm])
  BY DEF LockGranted, ClientOf
<1>4. Table!Free(client, path, flags)
  BY DEF LockGranted, request_lock, ClientOf, Table!Free, Table!Blocks, Blocks
<1>5. Table!FreshId
  BY <1>2 DEF Table!FreshId, IndInv, TypeOK
<1>6. Held' = [x \in DOMAIN Held \union {id} |->
                 IF x = id THEN [owner |-> client, path |-> path, flags |-> flags]
                           ELSE Held[x]]
  BY <1>3 DEF Held, Put
<1> QED BY <1>1, <1>2, <1>4, <1>5, <1>6 DEF Table!Acquire, Held

\* A step that removes exactly the locks ids of one client is a Release.
LEMMA DropRefines ==
    ASSUME NEW client, NEW ids, ids \subseteq {id \in DOMAIN LockMap : LockMap[id].owner = client},
           LockMap' = Drop(LockMap, ids), global_lockId' = global_lockId
    PROVE  Table!Release(client)
<1>1. Held' = [id \in DOMAIN Held \ ids |-> Held[id]]
  BY DEF Held, Drop
<1>2. ids \in SUBSET {id \in DOMAIN Held : Held[id].owner = client}
  BY DEF Held
<1> QED BY <1>1, <1>2 DEF Table!Release, Held

\* Every step is a step of the table or leaves it alone.
LEMMA StepRefines ==
    IndInv /\ [Next]_vars => [Table!TableNext]_(Table!tableVars)
<1> SUFFICES ASSUME IndInv, [Next]_vars
             PROVE  Table!TableNext \/ UNCHANGED <<LockMap, global_lockId>>
  BY DEF Table!tableVars
<1> USE DEF threadVars, timeVars, lockVars
<1>1. CASE UNCHANGED vars
  BY <1>1 DEF vars
<1>2. CASE Tick
  BY <1>2 DEF Tick
<1>3. ASSUME NEW s \in Sock, Connect(s) PROVE UNCHANGED <<LockMap, global_lockId>>
  BY <1>3 DEF Connect, Accept, AcceptNoName, LockTimeCompare, LockTimeStore,
              LockTimeCopy, OpenLockClient
<1>4. ASSUME NEW s \in Sock, Command(s)
      PROVE  Table!TableNext \/ UNCHANGED <<LockMap, global_lockId>>
  <2>1. ASSUME NEW path \in Path, NEW flags \in FlagSets, LockGranted(s, path, flags)
        PROVE  Table!TableNext
    BY <2>1, GrantRefines DEF Table!TableNext
  <2>2. ASSUME NEW path \in Path, NEW flags \in FlagSets,
               LockWaitsForTransaction(s, path, flags)
        PROVE  Table!TableNext
    <3>1. Table!FreshId
      BY <2>2, BoundsAssumption DEF LockWaitsForTransaction, Table!FreshId, IndInv, TypeOK
    <3> QED BY <2>2, <3>1 DEF LockWaitsForTransaction, Table!TableNext, Table!Waste
  <2>3. ASSUME NEW id \in DOMAIN LockMap, DoUnlock(s, id) PROVE Table!TableNext
    <3>1. PICK c \in 0 .. MaxClients : c = SockToClient[s]
      BY <2>3, BoundsAssumption DEF DoUnlock, OwnLock, Connected, IndInv, TypeOK, IsMap,
                                    SocketsServed, IdsBounded
    <3>2. Table!Release(c)
      BY <2>3, <3>1, DropRefines DEF DoUnlock, OwnLock, ClientOf
    <3> QED BY <3>2 DEF Table!TableNext
  <2> QED BY <1>4, <2>1, <2>2, <2>3
          DEF Command, PhantomLookup, PhantomCommand, DoClient, DoMonitor, DoModified
<1>5. ASSUME NEW s \in Sock, Close(s)
      PROVE  Table!TableNext \/ UNCHANGED <<LockMap, global_lockId>>
  <2>1. CASE AlreadyClosed(s)
    BY <2>1 DEF AlreadyClosed
  <2>2. CASE CloseLockClient(s)
    <3>1. PICK c \in 0 .. MaxClients : c = SockToClient[s]
      BY <2>2, BoundsAssumption DEF CloseLockClient, Connected, IndInv, TypeOK, IsMap,
                                    SocketsServed, IdsBounded
    <3>2. PICK ids : ids = {id \in DOMAIN LockMap : LockMap[id].owner = c}
      OBVIOUS
    <3>3. LockMap' = Drop(LockMap, ids) /\ global_lockId' = global_lockId
      BY <2>2, <3>1, <3>2 DEF CloseLockClient, LocksOf, ClientOf
    <3>4. Table!Release(c)
      BY <3>2, <3>3, DropRefines
    <3> QED BY <3>4 DEF Table!TableNext
  <2> QED BY <1>5, <2>1, <2>2 DEF Close
<1> QED BY <1>1, <1>2, <1>3, <1>4, <1>5 DEF Next

\* The lock service implements the abstract lock table.
THEOREM Refinement == Spec => ImplementsLockTable
<1>1. Init => Table!TableInit
  BY DEF Init, Table!TableInit, EmptyMap
<1> QED BY <1>1, StepRefines, Invariance, PTL
        DEF Spec, ImplementsLockTable, Table!TableSpec

-----------------------------------------------------------------------------
(* Isolation of transactions *)

\* std::find finds a transaction whenever there is one on the path.
LEMMA FirstExists ==
    ASSUME TypeOK, NEW i \in DOMAIN TransactionList
    PROVE  \E k \in FirstOn(TransactionList[i].path) : TRUE
<1> DEFINE on == {j \in DOMAIN TransactionList :
                    TransactionList[j].path = TransactionList[i].path}
           R == OpToRel(<, Nat)
<1>1. on \subseteq Nat /\ on # {}
  BY DEF TypeOK
<1>2. PICK k \in on : \A j \in on : ~(<<j, k>> \in R)
  BY <1>1, NatLessThanWellFounded, WFMin
<1>3. R = {ss \in Nat \X Nat : ss[1] < ss[2]}
  BY DEF OpToRel
<1>4. \A j, m \in Nat : j < m => <<j, m>> \in R
  BY <1>3
<1> HIDE DEF R, on
<1>5. ASSUME NEW j \in on PROVE k <= j
  <2>1. j \in Nat /\ k \in Nat
    BY <1>1
  <2>2. ~(j < k)
    BY <1>2, <1>4, <2>1
  <2> QED BY <2>1, <2>2
<1> QED BY <1>5 DEF FirstOn, on

\* A request that may see transactions sees the foreign one on its path, if all
\* transactions are visible and those on a path are of one client.
LEMMA ForeignSeen ==
    ASSUME IndInv, TransactionsVisible, OneTransactionPerPath,
           NEW client, State(client) = "Active", NEW flags,
           {"Read", "Full"} \subseteq flags \/ "Write" \in flags,
           NEW i \in DOMAIN TransactionList, TransactionList[i].owner # client
    PROVE  \E k : k \in SeenBy(client, TransactionList[i].path, flags)
<1>1. PICK k \in FirstOn(TransactionList[i].path) : TRUE
  BY FirstExists DEF IndInv
<1>2. k \in DOMAIN TransactionList /\ TransactionList[k].path = TransactionList[i].path
  BY DEF FirstOn
<1>3. TransactionList[k].owner = TransactionList[i].owner
  BY <1>2 DEF OneTransactionPerPath
<1>4. TransactionList[k].owner \in DOMAIN LockClientMap /\ client \in DOMAIN LockClientMap
  BY <1>2 DEF IndInv, OwnersActive, State
<1>5. Overlaps(TransactionList[k].owner, client)
  BY <1>2, <1>3, <1>4 DEF TransactionsVisible
<1> QED BY <1>1, <1>3, <1>4, <1>5 DEF SeenBy

\* A grant respects the open transactions.
LEMMA GrantIsolated ==
    ASSUME IndInv, TransactionsVisible, TransactionIsolation,
           NEW s \in Sock, NEW path \in Path, NEW flags \in FlagSets,
           LockGranted(s, path, flags)
    PROVE  TransactionIsolation'
<1> DEFINE client == SockToClient[s]
           id == global_lockId + 1
           seen == SeenBy(client, path, flags)
           dom == {TransactionList[i].branch : i \in seen}
<1>1. PICK new : /\ LockMap' = Put(LockMap, id, new)
                 /\ new.owner = client /\ new.path = path /\ new.flags = flags
                 /\ DOMAIN new.versions = dom
  <2> DEFINE new == [owner |-> client, path |-> path, flags |-> flags,
                     versions |-> [b \in dom |->
                        TransactionList[CHOOSE i \in seen : TRUE].oldversion]]
  <2>1. LockMap' = Put(LockMap, id, new)
    BY DEF LockGranted, ClientOf
  <2>2. /\ new.owner = client /\ new.path = path /\ new.flags = flags
        /\ DOMAIN new.versions = dom
    OBVIOUS
  <2> HIDE DEF new
  <2> QED BY <2>1, <2>2
<1>2. /\ TransactionList' = TransactionList
      /\ "Write" \notin flags \/ seen = {}
      /\ State(client) = "Active"
  BY DEF LockGranted, LockRequest, ClientOf
<1>3. ASSUME NEW i \in DOMAIN TransactionList, TransactionList[i].path = path,
             TransactionList[i].owner # client
      PROVE  /\ "Write" \notin flags
             /\ {"Read", "Full"} \subseteq flags => dom # {}
  <2>1. {"Read", "Full"} \subseteq flags \/ "Write" \in flags => seen # {}
    BY <1>2, <1>3, ForeignSeen DEF TransactionIsolation
  <2> QED BY <1>2, <2>1
<1>4. /\ DOMAIN LockMap' = DOMAIN LockMap \union {id}
      /\ LockMap'[id] = new
      /\ \A x \in DOMAIN LockMap : x # id => LockMap'[x] = LockMap[x]
  BY <1>1 DEF Put
<1>5. NoWriteDuringTransaction'
  BY <1>1, <1>2, <1>3, <1>4 DEF NoWriteDuringTransaction, TransactionIsolation
<1>6. OneTransactionPerPath'
  BY <1>2 DEF OneTransactionPerPath, TransactionIsolation
<1>7. ReadersKnowOldVersion'
  BY <1>1, <1>2, <1>3, <1>4 DEF ReadersKnowOldVersion, TransactionIsolation
<1> QED BY <1>5, <1>6, <1>7 DEF TransactionIsolation

\* A transaction is recorded under a write lock, which keeps the others out.
LEMMA ModifiedIsolated ==
    ASSUME IndInv, TransactionIsolation, NEW s \in Sock, NEW id,
           NEW branch, NEW old, DoModified(s, id, branch, old)
    PROVE  TransactionIsolation'
<1> DEFINE new == [owner |-> SockToClient[s], path |-> LockMap[id].path,
                   branch |-> branch, oldversion |-> old]
<1>1. /\ TransactionList' = Append(TransactionList, new)
      /\ LockMap' = LockMap
      /\ id \in DOMAIN LockMap
      /\ LockMap[id].owner = SockToClient[s]
      /\ "Write" \in LockMap[id].flags
  BY DEF DoModified, OwnLock, ClientOf
<1>2. new.owner = LockMap[id].owner /\ new.path = LockMap[id].path
  BY <1>1
<1> HIDE DEF new
<1>3. \A i \in DOMAIN TransactionList' :
         \/ TransactionList'[i] = new
         \/ i \in DOMAIN TransactionList /\ TransactionList'[i] = TransactionList[i]
  <2>1. TransactionList \in Seq(Transaction)
    BY DEF IndInv, TypeOK
  <2> QED BY ONLY <1>1, <2>1
<1>4. \A x \in DOMAIN LockMap : LockMap[x].path = new.path /\ LockMap[x].owner # new.owner
         => "Write" \notin LockMap[x].flags /\ ~({"Read", "Full"} \subseteq LockMap[x].flags)
  BY <1>1, <1>2 DEF IndInv, WriteExclusion
<1>5. \A i \in DOMAIN TransactionList :
         TransactionList[i].path = new.path => TransactionList[i].owner = new.owner
  BY <1>1, <1>2 DEF TransactionIsolation, NoWriteDuringTransaction
<1>6. NoWriteDuringTransaction'
  BY <1>1, <1>3, <1>4 DEF NoWriteDuringTransaction, TransactionIsolation
<1>7. OneTransactionPerPath'
  BY <1>3, <1>5 DEF OneTransactionPerPath, TransactionIsolation
<1>8. ReadersKnowOldVersion'
  BY <1>1, <1>3, <1>4 DEF ReadersKnowOldVersion, TransactionIsolation
<1> QED BY <1>6, <1>7, <1>8 DEF TransactionIsolation

\* Unlocking and closing only remove locks and transactions.
LEMMA RemovalIsolated ==
    ASSUME IndInv, TransactionIsolation,
           \E s \in Sock : CloseLockClient(s) \/ \E id : DoUnlock(s, id)
    PROVE  TransactionIsolation'
<1>1. \A x \in DOMAIN LockMap' : x \in DOMAIN LockMap /\ LockMap'[x] = LockMap[x]
  <2>1. PICK K : LockMap' = Drop(LockMap, K)
    BY DEF CloseLockClient, DoUnlock
  <2> QED BY <2>1 DEF Drop
<1>2. \A i \in DOMAIN TransactionList' :
         \E j \in DOMAIN TransactionList : TransactionList'[i] = TransactionList[j]
  <2>1. CASE \E s \in Sock : \E id : DoUnlock(s, id)
    BY <2>1 DEF DoUnlock
  <2>2. ASSUME NEW s \in Sock, CloseLockClient(s)
        PROVE  \A i \in DOMAIN TransactionList' :
                 \E j \in DOMAIN TransactionList : TransactionList'[i] = TransactionList[j]
    <3> DEFINE wanted == {i \in DOMAIN TransactionList :
                 TransactionList[i].owner \in DOMAIN LockClientMap \ {SockToClient[s]}}
    <3>1. Partition(wanted)
      BY <2>2 DEF CloseLockClient, ClientOf
    <3> QED BY <3>1, PartitionKeeps DEF IndInv
  <2> QED BY <2>1, <2>2
<1>3. NoWriteDuringTransaction'
  BY <1>1, <1>2 DEF NoWriteDuringTransaction, TransactionIsolation
<1>4. OneTransactionPerPath'
  BY <1>2 DEF OneTransactionPerPath, TransactionIsolation
<1>5. ReadersKnowOldVersion'
  BY <1>1, <1>2 DEF ReadersKnowOldVersion, TransactionIsolation
<1> QED BY <1>3, <1>4, <1>5 DEF TransactionIsolation

\* Every step out of a state where all transactions are visible keeps the
\* transactions isolated.
LEMMA StepIsolated ==
    IndInv /\ TransactionsVisible /\ TransactionIsolation /\ [Next]_vars
    => TransactionIsolation'
<1> SUFFICES ASSUME IndInv, TransactionsVisible, TransactionIsolation, [Next]_vars
             PROVE  TransactionIsolation'
  OBVIOUS
<1>1. ASSUME UNCHANGED <<LockMap, TransactionList>> PROVE TransactionIsolation'
  BY <1>1 DEF TransactionIsolation, NoWriteDuringTransaction, OneTransactionPerPath,
              ReadersKnowOldVersion
<1>2. CASE UNCHANGED vars
  BY <1>1, <1>2 DEF vars
<1>3. CASE Tick
  BY <1>1, <1>3 DEF Tick
<1>4. ASSUME NEW s \in Sock, Connect(s) PROVE UNCHANGED <<LockMap, TransactionList>>
  BY <1>4 DEF Connect, Accept, AcceptNoName, LockTimeCompare, LockTimeStore,
              LockTimeCopy, OpenLockClient, lockVars
<1>5. ASSUME NEW s \in Sock, Command(s)
      PROVE  \/ UNCHANGED <<LockMap, TransactionList>>
             \/ \E path \in Path, flags \in FlagSets : LockGranted(s, path, flags)
             \/ \E id : DoUnlock(s, id) \/ \E branch, old : DoModified(s, id, branch, old)
  BY <1>5 DEF Command, PhantomLookup, PhantomCommand, DoClient, DoMonitor,
              LockWaitsForTransaction, lockVars
<1>6. ASSUME NEW s \in Sock, Close(s)
      PROVE  UNCHANGED <<LockMap, TransactionList>> \/ CloseLockClient(s)
  BY <1>6 DEF Close, AlreadyClosed, lockVars
<1> QED BY <1>1, <1>2, <1>3, <1>4, <1>5, <1>6, GrantIsolated, ModifiedIsolated,
           RemovalIsolated DEF Next

\* As long as every open transaction has been visible to every connected
\* client, no client can write what another has committed and not yet closed,
\* the open transactions on a path are of one client, and full readers know
\* the version before: what run lockserver_isolation checks among the states
\* it reaches through visible transactions.
THEOREM Isolation ==
    Spec /\ []TransactionsVisible => [](VisibleIsolation /\ TransactionIsolation)
<1>1. Init => TransactionIsolation
  <2> SUFFICES ASSUME Init PROVE TransactionIsolation
    OBVIOUS
  <2>1. DOMAIN TransactionList = {}
    BY DEF Init
  <2> QED BY <2>1 DEF TransactionIsolation, NoWriteDuringTransaction,
                      OneTransactionPerPath, ReadersKnowOldVersion
<1>2. TransactionIsolation => VisibleIsolation
  BY DEF VisibleIsolation
<1> QED BY <1>1, <1>2, StepIsolated, Invariance, PTL DEF Spec
=============================================================================
