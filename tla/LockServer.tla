----------------------------- MODULE LockServer -----------------------------
(***************************************************************************)
(* The lock service (lockservice/LockParse.cpp and the connection threads  *)
(* of lockservice/server.cpp).  Every cvs process keeps one TCP connection *)
(* to it; one thread per connection parses the commands, and every handler *)
(* runs under the one mutex ClientLock, so a handler is one action.  Three *)
(* things are not under the mutex: lock_time() in OpenLockClient, which    *)
(* reads and writes the static last_clock in several steps, the clock      *)
(* itself, and the accept loop.                                            *)
(*                                                                         *)
(* A request that is refused (001 FAIL) or has to wait for a lock          *)
(* (002 WAIT) changes nothing and is a stuttering step.                    *)
(***************************************************************************)
EXTENDS Integers, Sequences, FiniteSets, Functions

CONSTANTS
    Sock,             \* socket numbers the process can have open at once
    Path,             \* lockable paths
    Root,             \* repository roots clients announce
    NoRoot,           \* the empty root of a client that announced none
    PathsUnder,       \* the paths that begin with a root
    Branch,           \* branch names in Modified commands
    Version,          \* revision numbers in Modified commands
    FlagSets,         \* the flag combinations of Lock commands
    ClockMod,         \* clock_t wraps at this value
    MaxClients,       \* bound on next_client_id
    MaxLocks,         \* bound on global_lockId
    MaxTransactions,  \* bound on the length of TransactionList
    MaxRollover       \* bound on last_clock.rollover

Flag == {"Read", "Write", "Advisory", "Full"}

ASSUME RootAssumption ==
    /\ NoRoot \notin Root
    /\ PathsUnder \in [Root -> SUBSET Path]
ASSUME FlagAssumption == FlagSets \subseteq SUBSET Flag
ASSUME ClockAssumption == ClockMod \in Nat \ {0}
ASSUME BoundsAssumption ==
    {MaxClients, MaxLocks, MaxTransactions, MaxRollover} \subseteq Nat

VARIABLES
    thread,           \* where the thread of each socket is
    stamp,            \* the thread's this_clock, then its l.starttime
    clock,            \* what times() / GetTickCount() returns
    last_clock,       \* static locktime_t last_clock of lock_time()
    SockToClient,     \* socket -> client id
    LockClientMap,    \* client id -> LockClient
    LockMap,          \* lock id -> Lock
    TransactionList,  \* what the clients reported with Modified
    next_client_id,
    global_lockId

threadVars == <<thread, stamp>>
timeVars   == <<clock, last_clock>>
lockVars   == <<LockMap, TransactionList, global_lockId>>
vars == <<thread, stamp, clock, last_clock, SockToClient, LockClientMap,
          LockMap, TransactionList, next_client_id, global_lockId>>

-----------------------------------------------------------------------------
(* Types *)

Time == [clock : 0 .. ClockMod - 1, rollover : Nat]
NoTime == [clock |-> 0, rollover |-> 0]

LockClient == [state     : {"Login", "Active", "Monitor", "Closed"},
               root      : Root \union {NoRoot},
               starttime : Time]

\* Mutants: the constructor leaves the state uninitialised, or sets lcLogin.
UninitialisedClient == [state |-> "?", root |-> NoRoot, starttime |-> NoTime]
LoggingInClient == [state |-> "Login", root |-> NoRoot, starttime |-> NoTime]

\* A LockClient as std::map default-inserts it.
DefaultClient == [state |-> "Closed", root |-> NoRoot, starttime |-> NoTime]

VersionMap == UNION {[B -> Version] : B \in SUBSET Branch}

Lock == [owner : Nat, path : Path, flags : FlagSets, versions : VersionMap]

\* The version and type fields of TransactionStruct are never read.
Transaction == [owner : Nat, path : Path, branch : Branch, oldversion : Version]

\* Finite maps.
IsMap(f, S, T) == f \in [DOMAIN f -> T] /\ DOMAIN f \subseteq S
Put(f, k, v) == [x \in DOMAIN f \union {k} |-> IF x = k THEN v ELSE f[x]]
Drop(f, K) == [x \in DOMAIN f \ K |-> f[x]]
EmptyMap == [x \in {} |-> x]

-----------------------------------------------------------------------------
(* Time: locktime_t, TimeIntersects, lock_time *)

TimeLE(a, b) == \/ a.rollover < b.rollover
                \/ a.rollover = b.rollover /\ a.clock <= b.clock

\* operator>= compares the clocks with <=, as the code does.
TimeGE(a, b) == \/ a.rollover > b.rollover
                \/ a.rollover = b.rollover /\ a.clock <= b.clock

TimeIntersects(start1, end1, start2, end2) ==
    \/ TimeLE(start1, start2) /\ (end1 = NoTime \/ TimeGE(end1, start2))
    \/ TimeGE(start1, start2) /\ (end2 = NoTime \/ TimeGE(end2, start1))

\* The endtime of a client is set and the client erased in one critical
\* section, so every client found in the map has a zero endtime.
Overlaps(c, d) == TimeIntersects(LockClientMap[c].starttime, NoTime,
                                 LockClientMap[d].starttime, NoTime)

\* last_clock.rollover++ if the clock seems to have gone back.
Rolled(this_clock) ==
    IF this_clock < last_clock.clock
      THEN [last_clock EXCEPT !.rollover = @ + 1] ELSE last_clock

-----------------------------------------------------------------------------
Init ==
    /\ thread = [s \in Sock |-> "idle"]
    /\ stamp = [s \in Sock |-> NoTime]
    /\ clock = 0
    /\ last_clock = NoTime
    /\ SockToClient = EmptyMap
    /\ LockClientMap = EmptyMap
    /\ LockMap = EmptyMap
    /\ TransactionList = << >>
    /\ next_client_id = 0
    /\ global_lockId = 0

Tick ==
    /\ clock' = (clock + 1) % ClockMod
    /\ UNCHANGED <<thread, stamp, last_clock, SockToClient, LockClientMap,
                   LockMap, TransactionList, next_client_id, global_lockId>>

-----------------------------------------------------------------------------
(* Connecting: run_server, start_thread, thread_proc, OpenLockClient *)

\* The thread starts; gethostname succeeds; lock_time() reads the clock.
Accept(s) ==
    /\ thread[s] = "idle"
    /\ next_client_id < MaxClients
    /\ thread' = [thread EXCEPT ![s] = "compare"]
    /\ stamp' = [stamp EXCEPT ![s].clock = clock]
    /\ UNCHANGED <<clock, last_clock, SockToClient, LockClientMap, lockVars,
                   next_client_id>>

\* gethostname fails: OpenLockClient returns false before it registers the
\* client, thread_proc ignores that and reads commands all the same.
AcceptNoName(s) ==
    /\ thread[s] = "idle"
    /\ thread' = [thread EXCEPT ![s] = "serving"]
    /\ UNCHANGED <<stamp, timeVars, SockToClient, LockClientMap, lockVars,
                   next_client_id>>

\* The rest of lock_time(), on the shared last_clock without the mutex:
\* compare, store and copy may interleave with those of other threads.
LockTimeCompare(s) ==
    /\ thread[s] = "compare"
    /\ Rolled(stamp[s].clock).rollover <= MaxRollover
    /\ last_clock' = Rolled(stamp[s].clock)
    /\ thread' = [thread EXCEPT ![s] = "store"]
    /\ UNCHANGED <<stamp, clock, SockToClient, LockClientMap, lockVars,
                   next_client_id>>

LockTimeStore(s) ==
    /\ thread[s] = "store"
    /\ last_clock' = [last_clock EXCEPT !.clock = stamp[s].clock]
    /\ thread' = [thread EXCEPT ![s] = "copy"]
    /\ UNCHANGED <<stamp, clock, SockToClient, LockClientMap, lockVars,
                   next_client_id>>

LockTimeCopy(s) ==
    /\ thread[s] = "copy"
    /\ stamp' = [stamp EXCEPT ![s] = last_clock]
    /\ thread' = [thread EXCEPT ![s] = "register"]
    /\ UNCHANGED <<timeVars, SockToClient, LockClientMap, lockVars,
                   next_client_id>>

\* The critical section of OpenLockClient.
OpenLockClient(s) ==
    /\ thread[s] = "register"
    /\ next_client_id < MaxClients
    /\ LET client == next_client_id + 1 IN
         /\ next_client_id' = client
         /\ SockToClient' = Put(SockToClient, s, client)
         /\ LockClientMap' = Put(LockClientMap, client,
              [state |-> "Login", root |-> NoRoot, starttime |-> stamp[s]])
    /\ thread' = [thread EXCEPT ![s] = "serving"]
    /\ stamp' = [stamp EXCEPT ![s] = NoTime]
    /\ UNCHANGED <<timeVars, lockVars>>

-----------------------------------------------------------------------------
(* Commands *)

\* ParseLockCommand has found the client of the socket.
Connected(s) == thread[s] = "serving" /\ s \in DOMAIN SockToClient
ClientOf(s) == SockToClient[s]
State(c) == IF c \in DOMAIN LockClientMap THEN LockClientMap[c].state ELSE "Closed"

\* SockToClient[sock] inserts client 0 for a socket that has no client ...
PhantomLookup(s) ==
    /\ thread[s] = "serving"
    /\ s \notin DOMAIN SockToClient
    /\ SockToClient' = Put(SockToClient, s, 0)
    /\ UNCHANGED <<threadVars, timeVars, LockClientMap, lockVars, next_client_id>>

\* ... and the state test at the head of a handler inserts a closed client 0,
\* which every handler refuses.
PhantomCommand(s) ==
    /\ Connected(s)
    /\ ClientOf(s) \notin DOMAIN LockClientMap
    /\ LockClientMap' = Put(LockClientMap, ClientOf(s), DefaultClient)
    /\ UNCHANGED <<threadVars, timeVars, SockToClient, lockVars, next_client_id>>

DoClient(s, root) ==
    /\ Connected(s)
    /\ State(ClientOf(s)) = "Login"
    /\ LockClientMap' = [LockClientMap EXCEPT ![ClientOf(s)].root = root,
                                              ![ClientOf(s)].state = "Active"]
    /\ UNCHANGED <<threadVars, timeVars, SockToClient, lockVars, next_client_id>>

DoMonitor(s) ==
    /\ Connected(s)
    /\ State(ClientOf(s)) = "Login"
    /\ LockClientMap' = [LockClientMap EXCEPT ![ClientOf(s)].state = "Monitor"]
    /\ UNCHANGED <<threadVars, timeVars, SockToClient, lockVars, next_client_id>>

\* Mutant: a write does not wait for full reads.
BlocksWritesOnly(lock, client, path, flags) ==
    lock.path = path /\ lock.owner # client /\ "Write" \in lock.flags

\* request_lock: a lock of another client stands in the way.
Blocks(lock, client, path, flags) ==
    /\ lock.path = path
    /\ lock.owner # client
    /\ IF "Write" \in flags
         THEN "Write" \in lock.flags \/ {"Read", "Full"} \subseteq lock.flags
         ELSE "Write" \in lock.flags

request_lock(client, path, flags) ==
    \A id \in DOMAIN LockMap : ~Blocks(LockMap[id], client, path, flags)

\* std::find: the first transaction on the path (its index, in a set).
FirstOn(path) ==
    LET on == {i \in DOMAIN TransactionList : TransactionList[i].path = path}
    IN  {i \in on : \A j \in on : i <= j}

\* Mutant: full readers do not look for transactions.
SeenByWriters(client, path, flags) ==
    {i \in FirstOn(path) :
       LET owner == TransactionList[i].owner IN
         /\ "Write" \in flags
         /\ owner # client
         /\ owner \in DOMAIN LockClientMap
         /\ Overlaps(owner, client)}

\* Of the transactions on the path the request looks at the first only, if it
\* is of another client that still exists and whose time overlaps ours.
SeenBy(client, path, flags) ==
    {i \in FirstOn(path) :
       LET owner == TransactionList[i].owner IN
         /\ {"Read", "Full"} \subseteq flags \/ "Write" \in flags
         /\ owner # client
         /\ owner \in DOMAIN LockClientMap
         /\ Overlaps(owner, client)}

\* The checks of DoLock that come before request_lock.
LockRequest(s, path, flags) ==
    /\ Connected(s)
    /\ State(ClientOf(s)) = "Active"
    /\ flags \intersect {"Read", "Write"} # {}
    /\ path \in PathsUnder[LockClientMap[ClientOf(s)].root]

\* 000 OK Lock granted; the lock remembers the version before the transaction.
LockGranted(s, path, flags) ==
    /\ LockRequest(s, path, flags)
    /\ request_lock(ClientOf(s), path, flags)
    /\ global_lockId < MaxLocks
    /\ LET seen == SeenBy(ClientOf(s), path, flags) IN
         /\ "Write" \notin flags \/ seen = {}
         /\ LockMap' = Put(LockMap, global_lockId + 1,
              [owner |-> ClientOf(s), path |-> path, flags |-> flags,
               versions |-> [b \in {TransactionList[i].branch : i \in seen} |->
                  TransactionList[CHOOSE i \in seen : TRUE].oldversion]])
    /\ global_lockId' = global_lockId + 1
    /\ UNCHANGED <<threadVars, timeVars, SockToClient, LockClientMap,
                   TransactionList, next_client_id>>

\* 002 WAIT for a transaction: the new lock id is used up all the same.
LockWaitsForTransaction(s, path, flags) ==
    /\ LockRequest(s, path, flags)
    /\ request_lock(ClientOf(s), path, flags)
    /\ global_lockId < MaxLocks
    /\ "Write" \in flags
    /\ SeenBy(ClientOf(s), path, flags) # {}
    /\ global_lockId' = global_lockId + 1
    /\ UNCHANGED <<threadVars, timeVars, SockToClient, LockClientMap, LockMap,
                   TransactionList, next_client_id>>

\* A lock id that names a lock of the client (any number may be sent: a
\* parameter that is not a number leaves the id uninitialised).
OwnLock(s, id) ==
    /\ Connected(s)
    /\ State(ClientOf(s)) = "Active"
    /\ id \in DOMAIN LockMap
    /\ LockMap[id].owner = ClientOf(s)

DoUnlock(s, id) ==
    /\ OwnLock(s, id)
    /\ LockMap' = Drop(LockMap, {id})
    /\ UNCHANGED <<threadVars, timeVars, SockToClient, LockClientMap,
                   TransactionList, next_client_id, global_lockId>>

DoModified(s, id, branch, oldversion) ==
    /\ OwnLock(s, id)
    /\ "Write" \in LockMap[id].flags
    /\ Len(TransactionList) < MaxTransactions
    /\ TransactionList' = Append(TransactionList,
         [owner |-> ClientOf(s), path |-> LockMap[id].path,
          branch |-> branch, oldversion |-> oldversion])
    /\ UNCHANGED <<threadVars, timeVars, SockToClient, LockClientMap, LockMap,
                   next_client_id, global_lockId>>

-----------------------------------------------------------------------------
(* Closing: DoClose, or the end of the connection, then CloseLockClient *)

\* Mutants: the list is not resized after the partition; closing clears LockMap.
PartitionOnly(wanted) == UNCHANGED TransactionList
AllLocks(client) == DOMAIN LockMap

\* The locks that go with a client.
LocksOf(client) == {id \in DOMAIN LockMap : LockMap[id].owner = client}

\* std::partition keeps the wanted transactions in any order; resize drops
\* the others.
Partition(wanted) ==
    \E n \in 0 .. Len(TransactionList) : \E f \in Bijection(1 .. n, wanted) :
       TransactionList' = [i \in 1 .. n |-> TransactionList[f[i]]]

\* Whether the client was the last one (everything is cleared) or not (it is
\* erased, and every transaction whose owner is no longer in the map), what
\* is left is the same.
CloseLockClient(s) ==
    LET client == ClientOf(s)
        wanted == {i \in DOMAIN TransactionList :
                     TransactionList[i].owner \in DOMAIN LockClientMap \ {client}}
    IN  /\ Connected(s)
        /\ LockMap' = Drop(LockMap, LocksOf(client))
        /\ SockToClient' = Drop(SockToClient, {s})
        /\ LockClientMap' = Drop(LockClientMap, {client})
        /\ Partition(wanted)
        /\ Rolled(clock).rollover <= MaxRollover
        /\ last_clock' = [Rolled(clock) EXCEPT !.clock = clock]
        /\ thread' = [thread EXCEPT ![s] = "idle"]
        /\ UNCHANGED <<stamp, clock, next_client_id, global_lockId>>

\* The socket has no client: there is nothing to close.
AlreadyClosed(s) ==
    /\ thread[s] = "serving"
    /\ s \notin DOMAIN SockToClient
    /\ thread' = [thread EXCEPT ![s] = "idle"]
    /\ UNCHANGED <<stamp, timeVars, SockToClient, LockClientMap, lockVars,
                   next_client_id>>

-----------------------------------------------------------------------------
Connect(s) ==
    \/ Accept(s) \/ AcceptNoName(s) \/ LockTimeCompare(s) \/ LockTimeStore(s)
    \/ LockTimeCopy(s) \/ OpenLockClient(s)

Command(s) ==
    \/ PhantomLookup(s) \/ PhantomCommand(s)
    \/ \E root \in Root : DoClient(s, root)
    \/ DoMonitor(s)
    \/ \E path \in Path, flags \in FlagSets :
         LockGranted(s, path, flags) \/ LockWaitsForTransaction(s, path, flags)
    \/ \E id \in DOMAIN LockMap :
         \/ DoUnlock(s, id)
         \/ \E branch \in Branch, old \in Version : DoModified(s, id, branch, old)

Close(s) == CloseLockClient(s) \/ AlreadyClosed(s)

Next == Tick \/ \E s \in Sock : Connect(s) \/ Command(s) \/ Close(s)

Spec == Init /\ [][Next]_vars

-----------------------------------------------------------------------------
(* Properties *)

\* Every variable keeps its type: the maps are finite maps of records, the
\* transaction list is a sequence of transactions.
TypeOK ==
    /\ thread \in [Sock -> {"idle", "compare", "store", "copy", "register", "serving"}]
    /\ stamp \in [Sock -> Time]
    /\ clock \in 0 .. ClockMod - 1
    /\ last_clock \in Time
    /\ IsMap(SockToClient, Sock, Nat)
    /\ IsMap(LockClientMap, Nat, LockClient)
    /\ IsMap(LockMap, Nat, Lock)
    /\ TransactionList \in Seq(Transaction)
    /\ next_client_id \in Nat
    /\ global_lockId \in Nat

\* What the RCS code relies on when it rewrites a file: while a client holds a
\* write lock on a path, no other client holds a write lock or a full read
\* lock on it, whatever the order of the requests was (request_lock looks at
\* each kind of request separately).
WriteExclusion ==
    \A i, j \in DOMAIN LockMap :
       /\ LockMap[i].path = LockMap[j].path
       /\ LockMap[i].owner # LockMap[j].owner
       /\ "Write" \in LockMap[i].flags
       => /\ "Write" \notin LockMap[j].flags
          /\ ~({"Read", "Full"} \subseteq LockMap[j].flags)

\* Nothing outlives its client: the owner of every lock and of every
\* transaction is an active client with exactly one connection, whose closing
\* will remove them (CloseLockClient); else a lock would be held for ever.
Served(client) ==
    /\ State(client) = "Active"
    /\ \E s \in Sock : /\ Connected(s)
                      /\ \A t \in DOMAIN SockToClient :
                           SockToClient[t] = client <=> t = s
NothingOutlivesItsClient ==
    /\ \A id \in DOMAIN LockMap : Served(LockMap[id].owner)
    /\ \A i \in DOMAIN TransactionList : Served(TransactionList[i].owner)

\* A socket that OpenLockClient failed to register talks as client 0 and never
\* gets to hold a lock or to record a transaction.
PhantomOwnsNothing ==
    /\ State(0) = "Closed"
    /\ \A id \in DOMAIN LockMap : LockMap[id].owner # 0
    /\ \A i \in DOMAIN TransactionList : TransactionList[i].owner # 0

\* Every open transaction is visible: whoever is connected meanwhile has not
\* started, by the clock of the service, before the owner of the transaction.
TransactionsVisible ==
    \A i \in DOMAIN TransactionList, c \in DOMAIN LockClientMap :
       LET o == TransactionList[i].owner
       IN  o # c /\ o \in DOMAIN LockClientMap => Overlaps(o, c)

\* "If a transaction is still in progress and a version has been committed, we
\* can't allow even an advisory write yet" (DoLock): no client holds a write
\* lock on a path that another client has committed and not yet closed.
NoWriteDuringTransaction ==
    \A id \in DOMAIN LockMap, i \in DOMAIN TransactionList :
       /\ LockMap[id].path = TransactionList[i].path
       /\ "Write" \in LockMap[id].flags
       => LockMap[id].owner = TransactionList[i].owner

\* ... hence the open transactions on a path are of one client, ...
OneTransactionPerPath ==
    \A i, j \in DOMAIN TransactionList :
       TransactionList[i].path = TransactionList[j].path
       => TransactionList[i].owner = TransactionList[j].owner

\* ... and who holds a full read lock on the path knows the version before.
ReadersKnowOldVersion ==
    \A id \in DOMAIN LockMap, i \in DOMAIN TransactionList :
       /\ LockMap[id].path = TransactionList[i].path
       /\ LockMap[id].owner # TransactionList[i].owner
       /\ {"Read", "Full"} \subseteq LockMap[id].flags
       => DOMAIN LockMap[id].versions # {}

TransactionIsolation ==
    /\ NoWriteDuringTransaction
    /\ OneTransactionPerPath
    /\ ReadersKnowOldVersion

\* As long as every transaction is visible to all, transactions are isolated.
VisibleIsolation == TransactionsVisible => TransactionIsolation

\* The service implements the abstract lock table: grants never conflict, lock
\* ids are never reused (not even the ones used up by a request that had to
\* wait for a transaction), a held lock never changes, and no step takes away
\* locks of two clients.
Table == INSTANCE LockTable WITH
    Client <- 0 .. MaxClients,
    MaxId  <- MaxLocks,
    held   <- [id \in DOMAIN LockMap |->
                 [owner |-> LockMap[id].owner, path |-> LockMap[id].path,
                  flags |-> LockMap[id].flags]],
    lastId <- global_lockId
ImplementsLockTable == Table!TableSpec

-----------------------------------------------------------------------------
(* The inductive invariant behind the theorems of LockServerProofs *)

\* A socket in the map belongs to a running thread; its client is registered,
\* unless it is the phantom client 0.
SocketsServed ==
    \A s \in DOMAIN SockToClient :
       /\ thread[s] = "serving"
       /\ SockToClient[s] <= next_client_id
       /\ SockToClient[s] # 0 => SockToClient[s] \in DOMAIN LockClientMap

\* Two sockets share no client but the phantom.
SocketsDisjoint ==
    \A s, t \in DOMAIN SockToClient :
       SockToClient[s] = SockToClient[t] /\ SockToClient[s] # 0 => s = t

\* A client in the map has a socket; it has announced its root once active;
\* the phantom is closed.
ClientsConnected ==
    \A c \in DOMAIN LockClientMap :
       /\ c <= next_client_id
       /\ c # 0 => \E s \in DOMAIN SockToClient : SockToClient[s] = c
       /\ c = 0 => LockClientMap[c].state = "Closed"
       /\ LockClientMap[c].state = "Active" => LockClientMap[c].root \in Root

\* Lock ids were issued; locks and transactions belong to active clients.
OwnersActive ==
    /\ \A id \in DOMAIN LockMap :
         id <= global_lockId /\ State(LockMap[id].owner) = "Active"
    /\ \A i \in DOMAIN TransactionList : State(TransactionList[i].owner) = "Active"

\* The ids stay within their bounds.
IdsBounded == next_client_id <= MaxClients /\ global_lockId <= MaxLocks

IndInv ==
    /\ TypeOK
    /\ SocketsServed
    /\ SocketsDisjoint
    /\ ClientsConnected
    /\ OwnersActive
    /\ IdsBounded
    /\ WriteExclusion
=============================================================================
