# A TLA+ model of esfwx

esfwx is a C++ framework: `escore` (strings, variants, reflection, streams,
threads, synchronisation, events), `escomm` (sockets, servers, channels,
devices, RPC), `esscript` (a scripting language), `esmdi` (documents) and
`esmath`. Most of it is sequential; what is hard to get right and hard to test
is the part where threads meet, and the part where objects are kept in step by
hand. This directory models both, from the bottom up: the semaphore, the thread
object built on four of them, the socket server built on thread objects and the
byte channel on top of it, the event dispatcher, the counted interface pointers,
and the manager of open documents with the container it keeps them in.

The POSIX build is the one modelled. Sources under `escore/{zlib,pcre,iconv,crypto}`,
`esmath/alglib` and `tests/gtest` are third-party code and are left aside.

## Inventory

| component | state | operations | interacts with |
|---|---|---|---|
| EsSemaphore (`escore/EsSyncObjects.posix.cxx`) | `m_semFree`, `m_semLock`, `m_cnt`, `m_maxCnt`, `m_mx` | `post`, `wait`, `tryWait`, `wait(ms)` | everything below |
| EsMutex, EsCriticalSection | owner, recursion | `lock`, `unlock`, `tryLock` | everything below |
| EsThread (`escore/EsThread.cpp`, `EsThread.posix.cxx`) | `m_state`, `m_id`, `m_thread`, four semaphores of limit 1 | `start`, `stop`, `stopAndWait`, `suspend`, `resume`, `checkForStopping` | its own POSIX thread; derived classes |
| EsSocketServer (`escomm/EsSocketServer.cpp`) | `m_clients`; per handler `m_in`, `m_out`, `m_ttl`, `m_alive`, `m_disconnected`, `m_aux` | `open`, `close`, `send`, `sendTo`, `disconnectedSet`, listener and handler loops | EsThread, EsSemaphore, peers |
| EsEventDispatcher (`escore/EsEventDispatcher.cpp`) | `m_queue`, `m_subs`; per subscriber `m_active`, `m_subscribed`, queue, `m_sem` | `eventPost`, `eventPostUrgent`, `process`, `subscribe`, `unsubscribe`, `clear`, `activeSet`, `reset`, `eventReceive`, destructors | EsSemaphore; posters, pump and receivers in different threads |
| EsIntfPtr (`escore/EsBaseIntf.h`, `EsBaseIntfImpl.hxx`) | `m_intf`, `m_own`, `m_cs`; per object `m_rc`, `m_destroying` | assignment, `request`, `reset`, `incRef`, `decRef` | every interface object |
| EsChannelIoSocketServer (`escomm`) | `m_in`, `m_csin`, `m_expectedLen`, `m_sin` | `open`, `close`, `reset`, `bytesGet`, `bytesPut`, `onClientDataReceived` | EsSocketServer's handler; one caller |
| EsAssocContainer (`escore`) | `m_indexed`, `m_mapped` | `newValueSet`, `keyChange`, `itemDelete` | EsDocumentManager, scripts |
| EsDocumentManager, EsDocument (`esmdi`) | `m_reg`, `m_docs`, `m_newDocCounter`; per document `m_key`, `m_mgr`, `m_new`, `m_modified`, `m_vals` | register, create, open, close, close all; `valueSet`, `valueDelete`, `read`, `write` | EsAssocContainer, listeners of its events |
| EsRpcServices, sockets, UART, Bluetooth, FTDI | connection, buffers | open, close, read, write | devices, peers |
| esscript | code, symbol tables, stacks | compile, run, debug | reflection, EsThreadWorker, EsEventHandler |
| data types, XML, streams, numerics, cryptography | values | sequential functions | - |

`PROJECT.json` lists them all under "components", those that are not modelled
with the reason, and under "hazards" what can go wrong in this code that a
test would hardly reach, with the property that would catch it.

What makes each of the modelled components correct:

* **EsSemaphore**: tokens are neither lost nor made, although the count and two
  POSIX semaphores change one at a time; a post does not block.
* **EsThread**: one worker per object at a time; a thread joined once; a stop that is
  asked for happens, also from suspension, and does not hit the next start;
  `m_state` and the pause semaphore do not drift apart.
* **EsSocketServer**: never more handler threads than the limit; output arrives once
  and in order; a handler does not sleep on work; after `close()` nobody calls
  back; `close()` returns; an idle client expires.
* **EsEventDispatcher**: every event is accounted for; receivers see each event
  at most once and in order; no event is stranded behind a semaphore without a
  token; nobody is notified after `unsubscribe()` or the destructor returned.
* **EsIntfPtr**: the count is the number of references at every moment of every
  assignment; an object is destroyed once, by whoever gives up the last one.
* **EsChannelIoSocketServer**: bytes are read once and in order; the handler's
  comparison, made outside the lock, misses no reader it should wake; a read
  with no left-overs of earlier ones is whole.
* **EsDocumentManager**: the container's two halves, the documents' own keys and
  the events its listeners hear tell the same, also after calls that threw
  halfway; one document of a singleton type; a change is not forgotten. The last
  two are not so without restriction (see below).

## Modules

| module | what it is | lines of code it stands for |
|---|---|---|
| `CountingSemaphore` | abstract: a count, who was granted, which results a call may have | the promise of EsSemaphore |
| `EsSemaphore` | detailed: one step per access to `m_semFree`, `m_semLock`, `m_cnt`, `m_mx` | `EsSyncObjects.posix.cxx` 364-557 |
| `EsSemaphoreProofs` | theorems about the two | |
| `EsThread` | one step per critical section, semaphore operation and unlocked access to `m_id` | `EsThread.cpp`, `EsThread.posix.cxx` |
| `EsThreadProofs` | theorems about thread objects that one thread starts | |
| `EsSocketServer` | listener, handlers, application, peers | `EsSocketServer.cpp` 13-980 |
| `EsSocketServerProofs` | theorems about the server | |
| `EsEventDispatcher` | posters, the pump, subscribers, receivers, destructors | `EsEventDispatcher.cpp` |
| `EsEventDispatcherProofs` | theorems about the dispatcher | |
| `EsIntfPtr` | pointers, their locks, counts; one access to a count per step | `EsBaseIntf.h` 80-340, `EsBaseIntfImpl.hxx` 604-639 |
| `EsIntfPtrProofs` | theorems about the pointers | |
| `EsChannelIoSocketServer` | the caller, the handler's callback, the server's sessions | `EsChannelIoSocketServer.cpp` 115-424 |
| `EsChannelIoSocketServerProofs` | theorems about the channel | |
| `EsAssocContainer` | the container as operators on a record | `EsAssocContainer.cpp` 176-342 |
| `EsAssocContainerProofs` | lemmas: each operator keeps a container consistent and the other values in place | |
| `EsDocumentManager` | the manager and its documents; extends the container | `EsDocumentManager.cpp`, `EsDocument.cpp` |
| `EsDocumentManagerProofs` | theorems about the manager, from those lemmas | |
| `MC...` | instances for TLC; the `.cfg` files give the bounds | |

The modules use one another by contract. `EsSemaphore` is shown to implement
`CountingSemaphore`; the other modules use semaphores as that specification
says. In `EsThread` and `EsSocketServer` a semaphore has limit 1 and each wait
that could overlap a post posts the token back itself, so a post that is ignored
in between leaves the same value and the operations are atomic. In
`EsEventDispatcher` the difference matters, and a wait is two steps
(`ReceiveGranted`, `ReceiveCounted`): a post in between may be ignored at the
limit. In `EsSocketServer` the threads are EsThreads: `start()` returns with the
worker running, `stopAndWait()` when it has ended (`ClientErase`,
`CloseReturn`). `EsChannelIoSocketServer` uses the server as that module shows it:
chunks in order from one handler at a time, no callback after `close()`
(`QuietAfterClose`), no second client after the first one left, because it stays
registered (`socket_server_removed`) and the channel admits one.
`EsDocumentManager` applies the operators of `EsAssocContainer` to `m_docs`.

### EsSemaphore

`semFree`, `semLock`, `cnt`, `mx` are `m_semFree`, `m_semLock`, `m_cnt` and the
holders of `m_mx`; `pc`, `call` and `result` are the threads' places and
results. `post()` is `PostLock`, then `PostFull` or `PostFree`, `PostCount`,
`PostSlot`; the three waits are `Take` or `Refuse`, and `lockDec()` is
`LockDecLock`, `LockDecSlot`, `LockDecCount` or `LockDecSkip`. The POSIX calls
return -1 on failure and not the error number the switches look for, so an
empty, elapsed or interrupted wait reports `resultError` and an interrupted post
`resultOk` (`PostInterrupted`), as does a post that is ignored at the limit: the
header's `resultBusy`, `resultTimeout` and `resultOverflow` never occur. What a call
without effect returns is therefore a parameter of `CountingSemaphore`: the
semaphore implements it with the results of the code (`CodedRefusal`), and not with
those of the header (`DocumentedRefusal`). `semFree` and
`semLock` stop at `SemValueMax`, as `sem_post()` does with `EOVERFLOW`. A maximum
of 0, "no upper limit" in the header, is SEM_VALUE_MAX: then a wait that takes
its token before the poster took its slot overflows `m_semLock` and fails with
the token gone. A limit below it has room for that, until interrupted posts have
used it up: `HeadRoom` says how much is left, `NoTokenLost` what it is worth, and
`WaitFails` of `CountingSemaphore` what becomes of the promise afterwards: nothing is
left of it.
`MaxInterrupts` bounds the signals and `spilled` counts, as history, the tokens
lost in a failed `lockDec()`. Since a timed wait may be refused at any moment,
durations do not occur.

### EsThread

`state`, `id`, `cs`, `started`, `pause`, `stop`, `stopped`, `thread` are the
members of those names; `wpc` is where each POSIX thread is in
`threadWorker()`, `pc` where each controller is in the method it calls. A
critical section that does not wait inside is one step; `suspend()`, which waits
for `m_pause` under `m_cs`, is two, with `m_cs` held between them. `m_id` is read
and written outside `m_cs` by `stop()`, `stopAndWait()`, `cleanup()` and
`threadCreate()`: each access is a step. `m_stopped` is constructed with 1 and
never taken at a start, so `stopAndWait()` really waits in `pthread_join()` only.
`worker()` calls `checkForStopping()` again and again and ends when it returns
true, when it is done, or with an exception.

`Ops` says which methods each controller uses and `EagerOps` which of them it may
call while a `start()` and the first steps of the thread are under way. `OneStarter`
is the one restriction of the theorems: a single controller starts threads, and
no other is in the middle of `stopAndWait()` meanwhile, for a `cleanup()` that
overlaps a start would reset the `m_id` of the new thread. It leaves any number of
threads in `stop()`, `stopAndWait()`, `suspend()` and `resume()`. `MCEsThread` assumes it
of its instances, which TLC checks.

Two things the code does under it are kept in the model. Several waiters: both of
two threads in `stopAndWait()` may find `m_id` set and join the same POSIX thread,
although EsThread.cpp:124 posts `m_stopped` back to "enable multiple wait for
stop"; `pthread_join()` of a thread that was joined is undefined, and the model lets it
return. `thread_waiters` shows it, and the properties of the run `thread` hold
nevertheless. A stop during a suspended start: `startSuspendedCheck()` writes
`Suspended` over whatever `m_state` has become, so the stop is lost until somebody
resumes the thread, and after a further `suspend()` `stopAndWait()` may wait for good.
The run has it, too: `StoppingIsFinal` names this step as its only exception, and
`StopHonoured` and `CallsReturn` speak of a stop that does not find the thread about
to suspend itself (`Suspending`). What the run leaves out is `suspend()` and `resume()`
during a start: a `suspend()` during a suspended one holds `m_cs` and waits for the
`m_pause` that the new thread holds while it waits for `m_cs`, a deadlock.

### EsSocketServer

`clients` is the key set of `m_clients`, `handler[a]` the Handler object of an
address with its members and its thread's place. A client's address identifies
it. Received data is a flag; queued output is a sequence of numbered units, of
which the socket may take any prefix. `Ttl` counts idle turns of a handler's
loop instead of milliseconds. The peers (`PeerArrives`, `PeerData`, `PeerBreaks`)
are external: they connect, send and break off at will. `Listener` is
`connectionListen()` or `connectionlessListen()` with `disconnectedCleanup()`
before and `onExitWorker()` after the loop. An `open()` whose `bind()` or `listen()`
fails changes nothing here and is no step. A send that takes part of the output
may find the connection gone afterwards (`Taken`). Two facts of the code show in the
model: `clientRemove()` returns early for a handler that is not alive
(`Removable`), so a dead handler stays registered, and `auxDataWait()` posts
`m_aux` back, so a datagram handler that was woken once neither sleeps nor ages
again (`Idle`).

### EsEventDispatcher

`queue`, `subs`, `csSubs` are `m_queue`, `m_subs` in the order of precedence and
the lock `m_csSubs`; `active`, `subscribed`, `inbox`, `sem` belong to the
subscribers. `process()` is `ProcessPop`, `ProcessLock`, `ProcessNext` (the test of
`activeGet()` and `isInterestedIn()`), `NotifyAsync` or `NotifySync`, `ProcessEnd`;
the destructor of an asynchronous subscriber is `DtorDeactivate`, `DtorReset`,
and, in the base class, `DtorUnsubscribe`. Categories are the fixed set of
events a subscriber is interested in. Events are numbered by their posts.

### EsIntfPtr

`intf`, `own`, `cs` are the members of the pointers, `rc` the objects' counts;
`op` is what a thread is doing. An assignment is `Assign` (the source is locked),
`Lock` (the target), `Clean` (`decRef()` of the old object), `Destroy` if that was
the last reference, `Set`, `IncRef`; `AssignRequested` is the assignment of
another interface, through a temporary pointer with a reference of its own
(`Drop`). Pointers that do not own are made by `ResetToWeak`. `Sources` says which
pointers are assigned to which: in one direction only, because the locks of
source and target nest and two opposite assignments wait for each other. Moving
takes no lock and is for pointers one thread owns.

### EsChannelIoSocketServer

`in`, `expectedLen`, `sin` are `m_in`, `m_expectedLen`, `m_sin`, `session` where the
server is. The callback is three steps: `DataReceived` under `m_csin`, `Compare`
and `Post` after it. `bytesGet()` is `BytesGet`, then `WaitOk` or `WaitTimeout`, then
`ReadBytes` under `m_csin`. The caller holds the channel's lock (`cLock()`), so
there is one. Bytes are numbered. Some facts of the code show: only a chunk that
ends exactly at the expected length posts, so bytes that were there before the
read, or a chunk that goes past it, leave the reader to its time-out; a token of
a read that timed out, or of a chunk that `reset()` cleared, makes a later read
short. `clean` marks the reads that nothing of the kind precedes.

### EsDocumentManager and EsAssocContainer

A container value has `indexed`, the nodes in order, and `mapped`, the positions of
the keys. Deletion renumbers the nodes that moved, by their keys. `docs` is
`m_docs`, `doc[d]` the members of each open document; a call is one step, except
`documentsCloseAll()`, which closes the documents that were open at its start one
by one and ends at the first that refuses. `told` is what a listener concludes
from the created, closed and key-changed events. Two steps fail halfway:
`DocumentOpenVacates`, where the open singleton was closed before the new document
could be read, and `WriteAsRefused`, where `keySet()` has assigned `m_key` when
`keyChange()` throws. The second leaves a document under a key that is not its
own, and `documentOpen()` then closes another document; `refused` remembers that
it happened, and `KeyAgrees` and `SingletonUnique` hold until then. `Kinds` is
`isKindOf()`: a complex type ("Main:Sub") is no kind of its documents, so its
singleton attribute has no effect. A type that is derived from a singleton type is
of that kind too, and `documentOpen()` may close its document instead of the one
of the singleton type, which then gets a second one: `SingletonUnique` speaks of
types from which none is derived (`Underived`), and `OneSingletonOpen`, without
that condition, is violated. `valueSet()` replaces `m_modified` by the comparison of
one value (EsDocument.cpp:132): setting any value to what it is already withdraws
the flag of the changes made before, `isModified()` ("Document have unsaved
changes", EsDocument.h:31) is false, and the next save skips them. The model does
the same and remembers it in `again`, the one exception of `UnsavedFlagged`. The object that `documentOpen()` creates may be in
the place of the one it has just closed: `Docs` bounds the documents open at once.

## Runs

| run | instance | shows |
|---|---|---|
| `semaphore` | 3 threads, limit 2, one token, SEM_VALUE_MAX 4, one interrupt | the balances, `PostNeverBlocks`, `NoTokenLost`, the implementation of `CountingSemaphore`, and `CallsReturn`, with and without a failed `lockDec()` |
| `semaphore_documented` | 2 threads, default arguments, SEM_VALUE_MAX 3 | violated: a refused `tryWait()` does not return `resultBusy` |
| `thread` | a starter and a second controller, which both stop and wait, 2 starts, at once or suspended | the safety and liveness of the start/stop/suspend protocol |
| `thread_waiters` | 2 controllers that wait, 1 start | violated: both join the same thread |
| `socket_server` | 2 clients, room for one, 2 units each, 2 opens, stream and datagram | `HandlersBounded`, `QuietAfterClose`, `OutputInOrder`, `AuxWakes`; `CloseReturns`, `QueuedSent`, `IdleConnectionExpires` |
| `socket_server_removed` | 1 stream client | violated: a dead client is never removed |
| `event_dispatcher` | 1 asynchronous and 1 synchronous subscriber, queues of 2, 3 events | accounting, order, tokens, unsubscription, `InboxEmptied` |
| `event_dispatcher_destroyed` | 1 event | violated: notified with its members destroyed |
| `documents` | 2 documents, a singleton type and a derived singleton type, 3 keys, 1 automatic key | `IndexMatches`, `EventsTell`, `KeyAgrees`, `SingletonUnique`, `UnsavedFlagged` |
| `documents_singletons` | 2 documents, a singleton type and one derived from it | violated: two documents of the singleton type are open |
| `channel` | 5 bytes, reads of 1 to 3, 2 sessions | `ReadOnce`, `WakesAtLength`, `FreshReadIsWhole` |
| `pointers` | 2 threads, 3 pointers, 2 objects, assigned in one direction | `RefsCounted`, `DestroyedByLastOwner`, no deadlock |

The five violations are in `PROJECT.json` under "findings", each with the line
of a header, a comment or a test it contradicts. Every property of a passing run has
a mutant there: one of the operators under "Faulty variants" put in place of the
definition it varies, a bug the property must notice.

**Bounds.** Three threads are the fewest with a poster, a waiter and a third
thread between them; limit 2 lets two tokens be out at once. Two starts are the
fewest for a signal of one life to hit the next, and for a join of the wrong
thread. Two clients with room for one put a newcomer against a dead or leaving
client; two units let one be appended while the other is being sent. The server is
opened twice, so that a second life meets what the first left, and the place of
a client that was joined goes to another one. SEM_VALUE_MAX 4 is where three
threads at limit 2 have room before an interrupted post and none after it.
Queues of two with three events
overflow both, with an event left to be reordered. Two documents are the fewest
for a refused rename, a singleton in the way and a gap in the container; the
third key is where a rename can go. Five bytes let a read of three meet bytes
left over, a chunk that goes past it, and a second session. Three pointers make a
chain, with an object passed on while its source lets go of it. `MaxInterrupts`, `MaxStarts`,
`MaxSends`, `MaxOpens`, `MaxEvents`, `MaxNew` and `MaxBytes` are the bounds that do not exist in the code.
Deadlock is checked in `thread`, `semaphore` and `pointers`; it is switched off where
the system may rest: all threads in `wait()` with nobody to post, the server or
channel closed for good, no event left to post, every object made, no document
registered. Documents, threads and objects are interchangeable, and the runs
that use symmetry check no liveness.

**Fairness.** A thread inside a call or a worker loop is scheduled (weak
fairness); a lock or semaphore that is free again and again is obtained (strong
fairness), which the C library's queueing and spinning give in practice though
POSIX does not promise it. It is stated for all steps of one thread together, since
a thread waits for one thing at a time. `worker()` of EsThread keeps calling
`checkForStopping()`, as its contract demands. A handler's socket that could
take data again and again takes some (`SendSome`). The main thread pumps
`process()` and the owners of asynchronous subscribers call `eventReceive()`.
Nothing is assumed of callers, peers and posters.

## Proofs

`EsSemaphoreProofs` proves, for every set of threads, initial count, limit,
SEM_VALUE_MAX and number of interrupts that satisfy the two assumptions of
`EsSemaphore` (`ThreadsAssumption`, `CountAssumption`):

* `TypeCorrect`, `TokensConserved`, `SlotsConserved`: `TypeOK`, `TokenBalance`,
  `SlotBalance` are invariants;
* `PostSafe`: a post never finds `m_semLock` empty;
* `DeadBranches`: `sem_post(m_semFree)` never overflows and `lockDec()` never finds
  `m_cnt` at 0 (`CountCovers`, which no run checks: it is part of the argument);
* `TokensKept`: as long as there is `HeadRoom` (the limit, the interrupted posts so
  far and all but two of the threads stay below SEM_VALUE_MAX) no wait has lost
  its token;
* `Implementation`: `Spec => ImplementsCountingSemaphore`, for any limit.

The argument rests on one inductive invariant. `TypeOK` alone is not inductive:
that `m_cnt` stays in range needs the mutex (`MutexHeld`: whoever is in a
critical section holds it, and the test of `m_cnt` it made still holds), and the
range of the two POSIX semaphores needs the balances, which tie each of them to
`m_cnt` and to the number of threads at the places where one was changed and the
other not yet. A step that moves a thread between those places changes a
cardinality by one; lemmas about finite sets state how, and each action is then
arithmetic. `PostNeverBlocks` follows from `SlotBalance`: a thread about to take
a slot is itself one of those counted there. The head room bounds `m_semLock`
by the same equation, so the failing branch of `lockDec()` is out of reach while it
is there, and it never comes back once it is gone. The
refinement maps `cnt` plus the post between `sem_post()` and `++m_cnt` to the
abstract count; every step is one abstract step or a stutter.

`EsAssocContainerProofs` proves that adding, renaming and deleting keep a container
consistent, for any sets of keys and values. Two facts carry it: in a consistent
container no two nodes have the same key, so the position the renumbering of
`internalDelete()` finds for a key is unique; and after a deletion the nodes behind
the gap moved by one while those before it did not.

`EsDocumentManagerProofs` proves all six properties of the run `documents`, for any
documents, types, keys and bounds that satisfy `TypesAssumption`: `IndexConsistent`
and `EventsFollow` (`IndexMatches`, `EventsTell`), then `TypeCorrect`, `KeysAgree` and
`OneSingleton` (`TypeOK`, `KeyAgrees`, `SingletonUnique`). The first inductive
invariant is the consistent container together with `Closing`: the keys
`documentsCloseAll()` still has to close are open and distinct. Without it
`CloseNext` could delete a key that is not there, and `ItemDelete` would say
nothing. `EventsTell` then follows step by step from what each operator does to the
set of keys. The second, `Documented`, says that the documents with members are
those the collection holds, each under one key (`Members`), and adds `KeyAgrees` and
`Singles`. They are needed together: `documentOpen()` closes whatever is held under
the key that the first document of the type states, so that it closes this very
document takes `KeyAgrees`, that no second one remains takes `Singles`, and that a
deletion takes out one document only takes `Members`. `ChangesFlagged` (`UnsavedFlagged`) needs
nothing but the types: each call leaves every record flagged. The attempt to prove
`SingletonUnique` without `Underived` showed the counterexample that
`documents_singletons` now checks.

`EsEventDispatcherProofs` proves the five invariants of the run `event_dispatcher`, for
any subscribers, limits and numbers of events: `TypesHold`, `EventsAccounted`,
`TokensSuffice`, `SubscribersNotified` and `OrderKept` (`TypeOK`, `EventAccounted`,
`TokenPerEvent`, `NotifiedSubscribed`, `ReceivedInOrder`). `Registry` says who is in
`m_subs` while the loop of `process()` holds `m_csSubs`. `Tokens` adds to `TokenPerEvent`
that a token that was granted is still counted, so an ignored post at the limit
strands nothing. `Accounts` adds that no event is at two places, and `Ordered` that
events that are not urgent wait in the order of their posts. `Deliveries` is the
strengthening of `ReceivedInOrder`: what a subscriber got and has in its queue is
a part of what `process()` took, in that order, and those whom the loop has still
to visit have not got the event in hand.

`EsSocketServerProofs` proves the five invariants of the run `socket_server`, for any
clients, limits and bounds: `TypeCorrect`, `BoundedHandlers`, `Quiet`, `OutputOrdered` and
`Wakes` (`TypeOK`, `HandlersBounded`, `QuietAfterClose`, `OutputInOrder`, `AuxWakes`).
`Flow` relates the copy that `response()` sends to `m_out`: the copy is its head
until the length that was sent is erased, whatever `send()` appends meanwhile; the
units sent and those in `m_out` that are not scheduled for erasure are a prefix of
those queued. `Current` says that the listener deals with one client at a time.
`Stopped` says whom `onExitWorker()` has still to stop: only clients in `todo` or
`cur` are alive; since a handler that is not alive only ends, nobody calls back
after `close()`. `Woken` is `AuxWakes` at every place of a handler, not only where it
waits.

`EsThreadProofs` proves the type invariant and the three safety properties of
the run `thread` for any number of controllers and of starts, under the one
hypothesis `OneStarter` about the callers: `TypeCorrect`, `OneWorker`, `StartsClean` and
`StopsForGood` (`TypeOK`, `AtMostOneWorker`, `FreshStop`, `StoppingIsFinal`). Without it
the `cleanup()` of one thread's `stopAndWait()` may reset the `m_id` of a thread that
another has started since. Several waiters, the double join they bring, and stops
during a suspended start are inside the theorems. The inductive invariant, `Core` and
`StartsAlone`, says what each place of a controller (`Caller`) and of a POSIX
thread (`Thread`) tells of the object: while a start or a join is under way the
last thread is past its use of the object (`Quiet`), all earlier ones are too,
`m_state` and `m_id` give it away when one is not (`Told`), and nobody else is in
`start()` or `stopAndWait()` while one starts (`StartsAlone`). `StopsForGood` follows
step by step: the only assignments to `m_state` outside `cleanup()` and the end of the
thread that do not test for `Stopping` under the same lock are those of a start, which finds no thread,
and of `startSuspendedCheck()`.

`EsChannelIoSocketServerProofs` proves `TypeCorrect`, `BytesReadOnce`, `NoLostWakeup`
and `FreshReads`: all four properties of the channel, for any lengths and bounds.
`Stream` says of the bytes read and those in `m_in` that each is ordered, the first
are below the second, and together with the dropped ones they are all that came;
appending, clearing and splitting keep it. `Waiting` is the strengthening of
`WakesAtLength` and `FreshReadIsWhole`: while a reader waits, `m_expectedLen` is the
length it asked for, and a handler between the lock and its comparison
remembers a length from which the right token, or none, will follow.

`EsIntfPtrProofs` proves `TypeCorrect`, `RefsAreCounted` and `DestroyedOnce` (`TypeOK`,
`RefsCounted`, `DestroyedByLastOwner`) for any threads, pointers and objects;
no order of the locks is assumed, for that matters to deadlock only. `Locks`
says that a thread in the middle of an assignment holds the lock of the pointer
it changes and of the one it copies, hence no two threads are in the middle of
changing one pointer, and the only pointer that stops or starts to be counted in
a step is the stepping thread's. `Forms` says where the reference of the
new object comes from: from the thread, if it holds one, or else from the locked
source, which still owns the object when `incRef()` comes; so an object is not
destroyed between the reading of a pointer and the counting of the copy. `Balanced`
is then kept by each step, which adds or takes one reference, hands one over, or
leaves the object alone. That no count is negative, in `TypeOK`, follows from it; no
run checks `TypeOK` beside `RefsCounted`.

Only model-checked: the liveness properties under fairness (`CallsReturn`,
`StopHonoured`, `ResumeReleases`, `CloseReturns`, `QueuedSent`, `IdleConnectionExpires`,
`InboxEmptied`), which are outside the prover's reach together with `ENABLED`, and
with them the absence of deadlock in `semaphore`, `thread` and `pointers`. Every
invariant and every action property of a passing run is proved.

## Not modelled

EsMutex's ownership and error codes; failures of `pthread_create` and of
scheduling parameters; durations; torn reads of unlocked members (`m_in`,
`m_clients` in `disconnectedSet()`); a subscriber that unsubscribes inside its own
`notify()`; destruction of a semaphore in use; moving and detaching interface
pointers, and requests from pointers that do not own; several callers of one
channel without its lock; the files of documents; numeric keys, which
`EsAssocContainer::itemDelete()` takes for positions; the Windows build. The components marked
`not_modelled` in `PROJECT.json` are sequential, pure input and output, numerics
or wrappers of drivers and third-party code.

## Plan

1. `EsSemaphore`, `EsThread`, `EsSocketServer`, `EsEventDispatcher`: done, with the
   proofs of the first.
2. `EsChannelIoSocketServer`, `EsIntfPtr`, `EsAssocContainer`, `EsDocumentManager`: done.
3. Proofs of `EsAssocContainer`, `EsDocumentManager`, the channel and `EsIntfPtr`: done.
4. Proofs of `EsThread`, `EsSocketServer` and `EsEventDispatcher`: done.
5. Further proofs: `TypeCorrect` and `OneWorker` of `EsThread` under a weaker hypothesis
   than `OneStarter`, with starts by several threads that exclude one
   another; `SingletonUnique` after a refused rename, for the documents that were
   not renamed; what the server promises the channel (`QuietAfterClose`, one handler
   at a time) as an abstract specification of a session that both implement.
