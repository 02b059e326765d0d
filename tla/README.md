# CVSNT: a TLA+ verification project

CVSNT is a version control server and client. Many processes, one per
connection, work on one repository of RCS files, and nothing but locks keeps them
from overwriting each other. This project models that core: the lock service, the
way the commands lock, parse and rewrite RCS files, the lock files that are used
without a lock service, and the transactions that are to make checkouts atomic.
Around it are the states that a user keeps and that have to agree with the
repository: the entries of the working directory, the working file itself, and
the edits that are registered in the repository. Paths below are relative to the
repository.

## 1. Inventory

| Component | State | Operations | Hard behaviour | What makes it correct |
|---|---|---|---|---|
| **Lock service**: `src/lockservice/LockParse.cpp`, `server.cpp` | `SockToClient`, `LockClientMap`, `LockMap`, `TransactionList`, ids, `last_clock` | connect, `Client`, `Lock`, `Unlock`, `Modified`, `Version`, `Close`, `Monitor` | a thread per connection; `lock_time()` outside the mutex; vanished clients; default-inserted clients | compatible locks; locks end with their client; transactions are isolated |
| **RCS file access**: `src/src/rcs.cpp`, `commit.cpp`, `tag.cpp`, `admin.cpp`, `lock.cpp`, `recurse.cpp` | `f,v`, `,f,`, the parsed tree, `rcs_lockfile`, locks held | open, read lock, rewrite (write lock, create, rename, unlock), check and commit pass, cleanup | interleaved processes; kill; signals; lost connection; waits that give up | a writer is alone; no revision is lost; a commit is up to date; no `,f,` is left |
| **Directory locks**: `src/src/lock.cpp` | `#cvs.lock`, `#cvs.rfl.*`, `#cvs.wfl.*`, `have_lckdir`, `locklist` | `Reader_Lock`, `Writer_Lock`, `set_lock`, `clear_lock`, `remove_locks`, `Lock_Cleanup` | signals between a system call and its flag; failing system calls; trees locked one directory at a time | one writer or many readers; locks are removed by their maker, and all of them |
| **Atomic checkouts**: `rcs.cpp`, `commit.cpp`, `lock.cpp`, `LockParse.cpp` | transactions, the version told with a lock, the head that a command takes | `Modified`, `Version`, `RCS_head` | report before rename, question after open; transactions that end while updates run | a checkout sees a commit entirely or not at all |
| **Working directory administration**: `entries.cpp`, `find_names.cpp` | `Entries`, `Entries.Extra`, `Entries.Log`, the list in memory | open, register, scratch, rename, register subdirectories, rewrite | crash between two system calls, failing calls, replay of the log | nothing registered is lost; the files of an entry belong together |
| **File attributes, watch, edit, notify**: `fileattr.cpp`, `edit.cpp`, `watch.cpp` | `fileattr.xml`, `CVS/Notify`, `CVS/Base` | edit, unedit, notify, the end of an edit at a commit, the edit of update | read, modify, write of a shared file; a queue that is delivered later, or twice | both sides agree on who edits; one exclusive editor |
| **Classification, update, commit, add, remove**: `classify.cpp`, `vers_ts.cpp`, `update.cpp`, `commit.cpp`, `checkin.cpp`, `add.cpp`, `remove.cpp` | working file, entry, `.#` copies, head | `Classify_File` and what each command does for its answers | edits during a command; crash between file and entry | no edit is lost; up to date means equal; conflicts stay marked |
| **Revision tree**: `rcs.cpp` | numbers, branches, tags, deltas | number, branch, check in | boundary cases of numbering | new numbers are new |
| **Protocol**: `server.cpp`, `client.cpp`, `buffer.cpp` | requests, responses, buffers | one per request | an answer that is lost after the request was done | a request that is sent again does no harm |
| Reading commands, configuration, triggers, authentication, libraries, diff, Windows front ends, vendored code | | | sequential, or input and output | not modelled, see section 8 |

The components interact through calls on the same process (commands call
`rcs.cpp` and `lock.cpp`), through a TCP connection (lock.cpp to the lock
service) and through files that other processes see. With a lock service the
directory locks are not used, and without one there are no file locks:
`lock.cpp` tests `lock_server` at the head of every function. So `RcsAccess`
and `DirLocks` are alternatives, and `RcsAccess` stands on the lock table that
`LockServer` implements. `AtomicCheckout` extends `LockServer`: it is the composition
of the commands with the service itself. `Workspace` is about one user's files and takes a commit to
be alone in the repository, which is what the other two are for; `FileAttr`
takes a directory lock to do what `DirLocks` shows.

The hazards that the properties are for are in `PROJECT.json`, each with its
source line.

## 2. Modules

| Module | Models |
|---|---|
| `LockTable` | the abstract lock table: a lock is granted when no lock of another client blocks it, a client's locks are released |
| `LockServer` | the lock service, one action per command, with the threads and the clock |
| `MCLockServer` | instances of it |
| `LockServerProofs` | its theorems |
| `RevisionLog` | what the users see of the files: logs of revisions to which an up-to-date author appends |
| `RcsAccess` | the commands that open, lock and rewrite RCS files, on an instance of `LockTable` |
| `MCRcsAccess`, `RcsAccessProofs` | its instances and theorems |
| `DirLocks` | the lock directories and lock files of a repository without a lock service |
| `MCDirLocks`, `DirLocksProofs` | its instances and theorems |
| `AtomicCheckout`, `MCAtomicCheckout`, `AtomicCheckoutProofs` | updates and commits with `AtomicCheckouts`, on top of `LockServer`, which it extends; its instances and theorems |
| `EntryStore` | what the administrative files promise: a map that is stored as it is changed |
| `Entries`, `MCEntries`, `EntriesProofs` | the files of `CVS/` as `entries.cpp` and `find_names.cpp` write them; its instance and theorems |
| `Workspace`, `MCWorkspace`, `WorkspaceProofs` | one file in the working directories of several users: classify, update, commit, add, remove; its instance and theorems |
| `FileAttr`, `MCFileAttr`, `FileAttrProofs` | edit and unedit, the queue of notifications and `fileattr.xml`; its instance and theorems |

### LockServer and LockTable

The variables are the tables of `LockParse.cpp` by their names. Every command
handler runs under the mutex `ClientLock`, so it is one action: `DoClient`,
`LockGranted` and `LockWaitsForTransaction` (the two outcomes of `DoLock` that
change anything; a `001` or `002` answer of `request_lock` changes nothing),
`DoUnlock`, `DoModified`, `DoMonitor`, `CloseLockClient`. `OpenLockClient` calls
`lock_time()` outside the mutex: it is split into the read of the clock, the
comparison with the static `last_clock`, the store and the copy, so that two
accepting threads interleave in it. A socket whose registration failed still has
a thread, and `map::operator[]` makes a client 0 for it (`PhantomLookup`,
`PhantomCommand`). `std::partition` in `CloseLockClient` is unstable: the model
takes any order it may leave behind.

`LockTable` knows only owners, paths and flags. `ImplementsLockTable` says that
`LockServer` implements it under the mapping `Held` (a lock without its
versions). `RcsAccess` takes the same table as its lock service, which is what
the refinement is for.

### RcsAccess

A user runs a script of commands; a command is a process with one connection and
one or two recursions over its files: update, tag (look, then tag), admin, commit
(check, then commit). For each file: `Open` (the `fopen` in `rcsbuf_open`),
`ReadLock`, the file procedure of the pass, possibly a rewrite (`StartRewrite`,
`WriteLock`, `Create`, `Rename`, `WriteUnlock`, `Reparse`), then `FreeNode`. A
commit takes the advisory lock in its first pass (`TryAdvisory`,
`AwaitAdvisory`) and gives it back in the second (`ReleaseAdvisory`). Every answer
of the lock service and every change of a file is a step. An RCS file is the
sequence of the authors of its trunk and two marks.

`raced` is a history variable: the files that a process was let into after they
had changed since its `fopen`. It separates what the order of `fopen` and lock
explains from what it does not.

`RevisionLog` is the abstract specification: no locks, processes or passes, only a
log of revisions for each file, marks that are only added, and working files that are
brought to the end of the log. `ImplementsRevisionLog` says that the commands come to
that: the log is what is on the disk, and the base of a user is what `CVS/Entries` has.
The two passes of a commit, with the locks given back in between, are one step at the
rename of each file. To a user who was overtaken (`raced`, or anybody once a connection
was lost) nothing is promised at that file, and his step changes no other.

Abstractions: the Unix build is modelled (on Win32 `rcs_internal_lockfile` unlinks
`,f,` before it creates it, rcs.cpp:9104). `Version_TS` calls `RCS_parse` a second
time for a file that the first call did not find (vers_ts.cpp:228); the two are
one `Open`. `AddRcsFile` is one step, although `add_rcs_file` writes the new file under
its final name (commit.cpp:2147), where others could read it half written. The files are modified or added ones on the trunk. Reserved edits,
`verify_access`, mappings and notifications do not change what is modelled and
are left out.

### DirLocks

A process runs a script of commands: `read` (a recursion that read locks one
directory at a time), `write` (`lock_tree_for_write`), `notify`
(`lock_dir_for_write` of the server). Each system call is a step and so is the
assignment to `have_lckdir` that follows it, because the signal handlers of
main.cpp run `Lock_Cleanup` at any instruction: `sighandle.c` installs them with
an empty mask, and `SIG_beginCrSect` is not called anywhere. `CVS_FUDGELOCKS` is
not defined in any build, so there is no breaking of old locks. Any system call may
fail. A `rmdir` or `unlink` that fails is printed and forgotten (lock.cpp:663, 675,
684, 1155): the lock stays, `have_lckdir` is reset and the process goes on
(`RemovalFails`), or back to sleep, with its own lock before it. `slip` is a
history variable that names the mishaps the code does not provide for; the
properties say which mishap breaks what.

### AtomicCheckout

With `AtomicCheckouts` set, a commit tells the service of each new revision
(`Modified`) while it has the write lock and before the new file gets its name;
whoever locks the file afterwards is told the revision before it and takes that
for the head (`HeadVersion`). Each socket of the service is one process with one
job: an update, or a commit with its two passes. The module extends `LockServer`, so
that `Init`, `Next`, `Spec` and `vars` are those of the service, and those of the
composition are `SystemInit`, `SystemNext`, `SystemSpec` and `system`. The handlers are
those of the service, with its clock and its connection threads, and the actions here
add what the process does before and after: `Register` and `Login`, `Open` (the `fopen`), `ReadLock`,
`TakeHead` or `Check` and `Advisory`, then `WriteLock`, `Modified`, `Rename`,
`WriteUnlock`, `AdvisoryUnlock`, and `Free`. A process that is refused asks again.
A process whose connection ends (`Disconnect`), after its work or after `Kill`, loses
its locks and its transactions. Four history variables name what the properties except: commits
that ended while a process was connected (`over`), transactions that it was not
told of (`hidden`), commits whose check was told an old version (`shown`), and
files replaced between `fopen` and lock (`raced`).

### Entries and EntryStore

A command reads `Entries`, `Entries.Extra` and `Entries.Log` into a list
(`Entries_Open`), appends a line to the log with every change (`Register`,
`Scratch_Entry`, `Rename_Entry`, `Subdir_Register`, `Subdir_Deregister`) and
rewrites the files when it ends (`WriteBackup`, `RenameEntries`, `RenameExtra`,
`UnlinkLog`). Each system call is a step; `Abort` cuts the command off between any
two, and a call can fail where the code goes on after a failure. `Scratch_Entry`
writes two lines, the second without its letter, as the code does: a removal is in
effect only once the files are rewritten. `Find_Directories` registers the
subdirectories it finds one by one, which is what can be left half done.
`EntryStore` is the abstract specification: what the next process would read is a
map that follows the list, and a process that is cut off loses nothing but
removals. `slip` records three mishaps: a change that could not be logged, an entry
renamed to a name that has one already, which the list and the log take differently,
and a subdirectory recorded while others are not yet listed.

### Workspace

A text is the set of the edits in it, so that what is lost can be seen: diff3 is
the three-way merge of sets, and a file that cannot be merged (`-kb`) is replaced
with its copy kept. `Classify_File` is the decision table of classify.cpp; the
actions are what update, commit, add and remove do for its answers, each change
of the file, of the entry and of the repository being a step. The user may edit
at any time, also between two steps of a command of hers, and `Crash` cuts a command
off. Commands follow each other: a commit is alone in the repository, and the
other commands write in one user's directory only. The history variables name what
the properties except; `buried` is what was in a head that a committed removal took
away although its user never had that head: `Classify_File` compares the revisions
only when the file is gone (classify.cpp:209-216), and `remove_file` removes whatever
the head is. After a check-in a text file is compared with the revision and checked out
again if it differs; a binary one stays as it is (checkin.cpp:86).

### FileAttr

`edit` writes the line of a notification into `CVS/Notify`, makes the copy in
`CVS/Base`, and sends the queue; the receiver reads `fileattr.xml`, changes the tree
(`NotifyLine` for each line of the queue, `Checkin` of a commit, `AutoEdit` of update)
and writes it back in two steps, between which the file is torn. `line` counts the
lines of the queue that are done. After the last one `QueueDone` removes a local queue;
a server writes the file after each line, and when it has done them all, or met a torn
file, the answers go out and the client forgets one line with each (`Answer`). An update
has only a read lock, and `do_recursion` gives it back (recurse.cpp:945) before it writes
the edits that it made (recurse.cpp:974): `AutoEdit` releases the lock, and the two steps
of the write follow without any. `overtaken` records that this happened to a process that
has the write lock. A user works locally or with a server,
and the repository has directory locks or a lock server, under which
`lock_dir_for_write` does nothing: `Init` takes every combination. `excused` names
the users to whom one of the known flaws has happened: their change was written over
for want of a lock (with a lock server, or by an update), the local queue was removed
before the tree was written, an old line of the queue was delivered after the edit
had ended, a refused edit was kept by its user, or the edit was of the whole file in
a local working directory, whose empty tag equals no branch (edit.cpp:1213).

## 3. Runs that pass

| Run | Instance | Checks |
|---|---|---|
| `lockserver` | 2 sockets, 3 successive clients, 2 locks, 1 path, a root that holds it and one that does not, five flag sets, a clock that wraps at 2, one rollover | `TypeOK`; `WriteExclusion`: a write lock of one client and a write or full read lock of another never coexist; `NothingOutlivesItsClient`: every lock and transaction has a live, unique owner; `PhantomOwnsNothing`; `ImplementsLockTable` |
| `lockserver_isolation` | 3 sockets and clients, 2 locks, 2 transactions; the constraint keeps the states in which every open transaction is visible to all clients | `VisibleIsolation`: then no other client holds a write lock on the path of an open transaction, and a full reader has been told the version from before it |
| `rcsaccess` | two commits and a tag, by 3 users on one file; one signal and one lost connection | `TypeOK`, `NoLockfileLeft`, `WriterAlone`, `LostOnlyIfRaced` |
| `rcsaccess_tree` | update, commit and tag, admin and commit, by 2 users over 2 files in opposite orders, one of them new; one kill | `CommitCoversTree`, `OnlyOwnLockfile`, `ImplementsRevisionLog`, `Termination` |
| `dirlocks` | read, write and notify by 2 processes in two directories, three commands each; one kill, one signal, one failing call | `TypeOK`, `Exclusive`, `NothingLeft`, `OnlyOwnLock`; `SleepsEmptyHanded`: who sleeps in `lock_wait` has no lock directory and no lock file, but for a mishap; `Termination` |
| `atomic` | an update and a commit of two files; two commits over two files, in the same and in the opposite order; an update and two commits of one file; one kill where two have work to do, a clock of two values | `AtomicWhileOpen`: an update sees a commit entirely or not at all; `NothingUnfinished`: the head that it takes has no revision of a commit that is still connected; `UpToDateUnlessShown`: a commit adds to the revision that its author had |
| `entries` | 2 files, 2 subdirectories, 2 values, 1 edit; a log of 2 lines, two aborts, one failing call; the constraint lets two of the names be in use at a time | `TypeOK`; `NothingOnlyInMemory`: what is in the list is in the files at every step; `EditNeverStale`: no edit data of an older entry; `CloseSettles`: a command that ends leaves exactly its list; `KnownIsComplete`: no subdirectory is missing from a directory that says it has listed all; `ImplementsEntryStore` |
| `workspace` | 2 users, 2 edits, mergeable and binary; a revision and up to two commands cut off, two and one, or three revisions | `TypeOK`; `NoWorkLost`: an edit stays in some file, copy or revision; `UpToDateIsEqual`: an up-to-date file has all of the head, and nothing else but what was put into it while a command ran; `ConflictsAreSeen`; `HeadKeeps`: what leaves the head was removed by a user, or buried by a removal; `UpdateSettles`: one update is enough |
| `fileattr` | 2 users, exclusive edits of the trunk and of the whole file, two lines that wait, one command cut off; the constraint leaves out what follows once both users are excused | `TypeOK`; `EditingIsListed` and `ListedIsEditing`: once the queues are empty the working directories and `fileattr.xml` agree; `OneExclusive`; `LockedIsCurrent`: under the write lock nobody's change is written over, but by an update |

Bounds. Exclusion and ownership concern two processes and one file or directory,
so two or three processes and one file make them fail if they can; two files
visited in opposite orders, or two directories locked as a tree by one process
and one by one by another, are what it takes to wait in a circle. One fault of
each kind at any step covers every place where a fault can hit. Three clients on
two sockets make a socket number be used again. `WaitLimit` is 1 or 2 instead of 20: a
process either gets in or gives up, and the count matters only for being finite.
`ClockMod` 2 lets clocks be equal, in order and wrapped. In `atomic` the
jobs are alternatives, because three processes with two files each are beyond TLC:
an update and a commit of two files is what half a commit takes, and two commits
beside an update are what two transactions on a file take; `MaxLocks` 13 lets all
of them finish, except for the two commits in opposite orders, which may run out of
ids in their last steps. Two aborts in `entries` and `workspace` let the second
one hit a command that starts from what the first has left; in `workspace` a command
that is cut off counts as a revision, because all of both is beyond a run of some
minutes. Two edits by two users are a conflict or a merge, and three revisions let
somebody be two behind. Each operation of `Entries` is
about one name, or two for a rename, so two names in use at a time are enough. In
`dirlocks` two processes run every pair of read, write and notify against each other:
it takes two to exclude or to wait for each other.
In `fileattr` two lines let an edit and its end be queued together, in either order;
once every user is excused only `LockedIsCurrent` says anything, and that is proved.
Every property has a
mutant of the code that breaks it under the same instance (`PROJECT.json`,
`mutants`).

The properties name their exceptions, and the exceptions are behaviours of the
code. `LostOnlyIfRaced` and `ImplementsRevisionLog` except a file that was replaced
between a process's `fopen` and the grant of its lock: the same order also lets a
command work on an outdated tree and two commits pass the up-to-date check with
the same base. `NothingLeft` and `SleepsEmptyHanded` except a signal between a `mkdir`
and its flag, a signal inside `Lock_Cleanup`, a failing `fclose` of a read lock and a
`rmdir` or `unlink` that fails; `Exclusive` a signal between a `rmdir` and its flag and
the notification that goes on without its lock. `Termination` of
`DirLocks` excepts the same mishaps and a kill: nothing removes a stale
`#cvs.lock`, so everybody else waits for it for ever. `AtomicWhileOpen` excepts a
commit that ended while the update ran, and one whose transaction the service did
not show: section 4 has the first, and the second is the comparison of times in
`operator>=`. The same comparison lets a commit write on top of a transaction that it
was not told of, and an update that is told of that transaction misses both revisions
while it sees the second commit in another file; this takes an update and two commits
with two files between three processes, more than the run's jobs. The last exception
is a file that was opened before the version it is told exists: the update has no
revision of it at all. `UpToDateUnlessShown` excepts a commit whose check was answered with
the version before an open transaction: it passes, waits for the advisory lock
until the other commit has ended, and then commits on top of a revision that its
author has not seen. `NoWorkLost` excepts an edit made while a command of the same
user ran, a removal that is committed although the file is back, and a `.#` copy
that a second merge from the same revision overwrites; `ConflictsAreSeen` a second
merge into a file with conflicts that goes well by itself. `LockedIsCurrent` excepts a
writer that an update overtook. `OneExclusive` excepts users who were written over or cut
off, and the local exclusive edit of the whole file.

Fairness. `Spec` of `RcsAccess` and `DirLocks` has weak fairness of every
process's steps: a process that can run is run by the operating system, and the
only waits are `sleep(1)` (lock.cpp, between two `Lock` commands) and the sleep
in `lock_wait`. In `RcsAccess` the lock service also notices a closed connection
(`Buried`): its thread is in `recv`. There is no fairness of kills, signals or
failures, and none between processes: a writer of `DirLocks` is not promised to
win against an endless stream of readers, and the scripts are finite.
`LockServer` has no liveness property: it never waits for anybody. `Entries`,
`Workspace`, `FileAttr` and `AtomicCheckout` have none either: nothing in them
waits but for locks, and those are the subject of the first two modules.

## 4. Runs that find a violation

Each checks what a comment or the documentation says against what the code does.
The findings in `PROJECT.json` quote the line.

| Run | Property | What happens |
|---|---|---|
| `rcsaccess_comment_lost` | `NoLostRevision` | the file is opened before the read lock is asked for and replaced meanwhile; a tag writes the old file back, without the revision committed meanwhile |
| `dirlocks_comment_lockdir` | `NoReaderAndWriter` | with `LockDir` the read locks are not where `readers_exist` looks |
| `atomic_doc_allornothing` | `AllOrNothing` | the service forgets the transactions of a commit when it disconnects; an update that was shown the old version of one file takes the new version of the next |

Other disagreements that the models show, which are exceptions of the passing
properties and have no run of their own:

- `operator>=` of `locktime_t` compares the clocks with `<=` (LockParse.cpp:132): a
  client that connected before the owner of a transaction does not see it and gets
  a write lock, against the comment at LockParse.cpp:568 (`NoWriteDuringTransaction`
  fails where `TransactionsVisible` does not hold).
- commit.cpp:1119 says that the file is released to avoid a deadlock, but
  `rcsbuf_close` keeps the read lock: two commits wait for each other until one
  gives up (`Termination` counts on that).
- A signal between the `rmdir` of `#cvs.lock` and `have_lckdir = 0` removes another
  writer's lock directory, so that there can be two writers (lock.cpp:19-20).
- The log line of a removal is read as an addition (entries.cpp:257), so that a
  removal does not survive an abort, against cvs.dbk:1178-1184.
- A file that is scheduled for removal and is there again is classified
  `T_REMOVED` whatever the head is (classify.cpp:215), and the commit removes a
  revision that its user never had.
- The error "is not a valid editor of the file" of a commit is never reached
  (commit.cpp:1041): `Lookup` succeeds also when it finds nothing and leaves the node at
  the root (XmlNode.cpp:219-229), which has no tag, so that the loop ends at its first
  test. A commit is refused to nobody, and `FileAttr` has no such guard.
- update writes `fileattr.xml` after it has given its lock back (recurse.cpp:945, 974), so
  that even with directory locks it can replace or tear the file under a writer.
- `edit -x` does not imply `-c` (edit.cpp:829), as cvs.dbk:6140-6143 says it does.
- Atomic checkouts are off unless `AtomicCheckouts` is set (main.cpp:81), while the
  documentation says that they occur by default.

## 5. What is proved

For every value of the constants, from the named assumptions on them only.

**LockServerProofs**: `TypeCorrect`, `Exclusion` (`WriteExclusion`),
`NothingOutlives`, `PhantomHarmless`, `Refinement` (`ImplementsLockTable`) and
`Isolation` (`VisibleIsolation`). The invariant adds to the properties that registered sockets have
serving threads, that client ids are below the counter and used by one socket
only, and that owners are active: without these, the close of one socket could
remove the client of another. `Isolation` is about the behaviours in which all
open transactions stay visible, which is what the wrong comparison denies; the run
selects the same behaviours with a state constraint.

**RcsAccessProofs**: `Invariance`, `TypeCorrect`, `NothingLeft`
(`NoLockfileLeft`), `Coverage` (`CommitCoversTree`), `WritersAlone`
(`WriterAlone`), `OwnLockfiles` (`OnlyOwnLockfile`). The properties are about a
single step (a rename, an unlink); the invariant says which locks a process holds
at each place. Its core is that the read lock outlives the write lock on both
sides (`ReadLocked`), so that nobody else can be between `WriteLock` and
`WriteUnlock` while `rcs_lockfile` names the file, although that variable is set
too early and cleared too late.

`SteadyWhileConnected`, `LostByRaceOnly` (`LostOnlyIfRaced`) and `CheckedInOnTop`
(`UpToDateUnlessRaced`) have a second invariant, `Undropped`: as long as no connection
was lost, what a process has read is still so when it writes. Its conjuncts follow the
order of a commit: the file passed the check (`Checked`), under the advisory lock the
disk keeps what the author worked from (`AdvisoryFresh`), so the second pass parses
that (`TreeCurrent`) and appends to it. Tag and admin have no such lock, and
`TreeCurrent` holds for them only if they were not overtaken between `fopen` and lock.
A step of one process keeps this for the others (`OtherSteady`) because the disk
changes only where nobody else holds a lock, which is `WriterAlone` again.

`Refinement` (`ImplementsRevisionLog`) says that the commands implement `RevisionLog`.
It contains `UpToDateUnlessRaced`, which has therefore no run of its own. The third
invariant, `AllRegistered`, says that what a commit registers at its end is what is on
the disk, and that only a file which its user has added can be missing. Every step is
then a step of `RevisionLog` or changes nothing that it sees. A step of a process that
was overtaken writes only the file it is at (`OneFileAtATime`); of the others, the rename
of a commit is `CheckIn` because of `Undropped`, that of a tag or admin adds its mark to
the file as it is, and the two places that write an entry are `GetHead`.

**DirLocksProofs**: `Invariance`, `TypeCorrect`, `Exclusion` (`Exclusive`),
`NothingLeftBehind` (`NothingLeft`), `OwnLocks` (`OnlyOwnLock`) and
`NobodySleepsOnALock` (`SleepsEmptyHanded`). The invariant is
a conjunction over the processes of `LocalInv(p)`: what the lists of p in memory
(`todo`, `listed`, `have`, `readlock`) say of its files. `Exclusive` needs that a
writer keeps the lock directories of all the directories it has walked
(`TreeKept`), that `have_lckdir` tells the truth (`LockDirsOwned`), and that no
reader has come since it looked (`NoReaders`). It does not need that removals succeed;
`MadeKnown` and `FilesListed`, by which nothing is left behind, do. The proof has one lemma per action
for the process that acts, and one lemma for the others: a step that takes none
of their lock directories and adds no read lock under them keeps their
`LocalInv` (`Alone`, `OthersKeep`). `HandsFree` is the part for waiting: a
reader comes to a directory with nothing of another one and nothing of an earlier
write command; a writer sleeps only after `remove_locks` is through with its list.
Nobody can therefore wait in a circle; what is left for `Termination` is fairness.

**EntriesProofs**: `Invariance`, `TypeCorrect`, `NothingLost`
(`NothingOnlyInMemory`), `EditsFresh` (`EditNeverStale`), `Settled`
(`CloseSettles`), `Complete` (`KnownIsComplete`) and `Refinement`
(`ImplementsEntryStore`), for logs of any length and any number of aborts and
failing calls. What a process reads is written as a function of `Entries` and the
log (`Read`), and the first lemmas say what one more line does to it. The invariant
(`IndInv` in `Entries`) adds to the properties where `write_entries` is: after the
first rename `Entries` is the list, after the second `Entries.Extra` is its edit
data (`WriteOrder`), and a process without a log has changed nothing
(`NoLogNoChange`). The step that is not obvious is the first rename, when the new
`Entries` goes with the old `Entries.Extra`: a name that the log does not mention
had the same entry before, so that its edit data is still right. `Complete` has an
invariant of its own (`KnownInv`), about the subdirectories that a process is about
to register. Each step of a process but the first and the last moves what is stored
towards the list (`Towards`); that is the refinement.

**WorkspaceProofs**: `Invariance`, `TypeCorrect`, `WorkIsKept` (`NoWorkLost`),
`UpToDateIsTrue` (`UpToDateIsEqual`), `ConflictsSeen` (`ConflictsAreSeen`),
`HeadsKeepWork` (`HeadKeeps`) and `UpdateIsEnough` (`UpdateSettles`), for any number of
users, edits, revisions and commands cut off. The core of the invariant is what an
entry promises (`EntryHolds`): the text of its revision is in the file or was given up;
a file with the time stamp of its entry has all of it and nothing else, but for what was
written while a command ran. From it follows what a command may overwrite (`OverwritesStored`)
and that a file that is checked in has all that the head has (`FileHasHead`), which
gives `HeadsKept`: whatever was in an earlier live revision is in the head or was given
up. `MarkHolds` is about conflicts: the entry of a file with markers is the one of the
merge that made them or an older one.

**FileAttrProofs**: `Invariance`, `TypeCorrect`, `EditsAreListed` (`EditingIsListed`),
`EditorsEdit` (`ListedIsEditing`), `ExclusiveIsOne` (`OneExclusive`) and
`LockKeepsOthers` (`LockedIsCurrent`), for any number of users and queues of any length.
The invariant has two halves. One is about the write lock: who is between `Read` and the
end of the write has it (`LockHolds`), but for an update, so that under it the others'
entries in the tree are those in the file as long as no update has written (`overtaken`). The other follows a user who is not excused through a
command (`Told`): the last line of her queue says whether she has an edit, the line
done last says what her tree has, and when the queue is empty the repository agrees.
The file is torn while it is written, so that `Listed` and `Unlisted` also speak of the
trees that are being written (`Kept`).

**AtomicCheckoutProofs**: `SystemInvariance`, `ServiceServed`, `CommitsOnTop`
(`UpToDateUnlessShown`), `UnfinishedUnseen` (`NothingUnfinished`) and `AtomicCheckouts`
(`AtomicWhileOpen`), for any number of processes, files, kills and any jobs in which a
file comes once. `ServiceServed` says that the commands use the service as it is
specified (`SystemSpec => Spec`), so that the theorems of `LockServerProofs` hold for
them (`ServiceExclusive` is one: `WriteExclusion` of the composition), and its invariant is a part of this one. The invariant comes in three layers, each
of which is inductive given the ones before. `CommandInv`: which locks a command has at
each place; what it opened is a beginning of the file, and the file itself in the second
pass (`Opened`); a checked file does not change until it is committed, because of the
advisory lock (`Covered`). `ReportInv`: a revision of a commit that is connected has its
transaction, made before the rename (`RevisionsReported`); an update that locks the file
either sees that transaction, and then its head is before the revision, or the commit is
among those it was not told of (`HeadIsFinished`). `AtomicInv`: a commit that has ended is
in all its files (`Replaced`), so an update that opens one later finds it there
(`Loaded`), unless the version that it is told is older; then the transaction it is told
of is of that commit, which is connected, or of another one that the commit wrote on top
of without seeing it (`OnTopIsBlind`). So the files that an update has taken have the same
commits (`TakenHolds`). The commands and the service meet in lemmas that say what each
handler does to the locks and transactions of one process and that it leaves those of the
others alone (`Same`, `OthersSame`). Versions are all the natural numbers
(`VersionAssumption`), as `Len` of a file may be any.

## 6. What is only model-checked

`Termination` of `RcsAccess` and of `DirLocks`: liveness under fairness is out of the
prover's reach. For `DirLocks` the safety half of it is proved (`NobodySleepsOnALock`). All the other properties of the passing runs are stated by a theorem.

## 7. Plan

1. Added and removed files and branches in `RcsAccess` and `AtomicCheckout`; watches
   in `FileAttr`.
2. The numbering of revisions and branches as operators against a reference
   definition.

## 8. What is not modelled

Commands that read and print (log, annotate, diff, history); configuration,
modules, mappings and access control, which are parsed into tables that do not
change while a command runs; triggers and authentication, which are plug-ins and
wrappers; the libraries cvsapi and cvstools; diff and delta algorithms over file
contents; the Windows front ends; vendored code, which is most of the lines.
Watches are left out of `FileAttr`; they are sequential, as is the wrong `else` in
watch.cpp:41. The wrap of 32-bit lock ids on the wire (LockParse.cpp:580) takes 2^32
requests to one service; answers of the lock service that arrive in two segments
(lock.cpp:237) take a network that splits a few bytes. A second pass of a commit
that fails half way leaves half a commit in the repository (commit.cpp:751): the
documentation promises no more than atomic files there.
