------------------------- MODULE EsEventDispatcher -------------------------
(* EsEventDispatcher and its subscribers (escore/EsEventDispatcher.cpp):   *)
(* any thread posts events to a bounded queue; the main thread pumps       *)
(* process(), which hands one event to the subscribers in the order of     *)
(* their precedence; an asynchronous subscriber queues it, bounded too,    *)
(* for the thread that calls eventReceive().  A synchronous one may        *)
(* consume it.  m_sem is an EsSemaphore, used as CountingSemaphore says:   *)
(* a token is granted before the count is lowered, and a post at the limit *)
(* is ignored.  Events are numbered in the order of their posts.           *)
EXTENDS Naturals, Sequences, FiniteSets, SequencesExt

CONSTANTS Async,       \* EsEventSubscriberAsync objects
          Sync,        \* subscribers that handle events inside notify()
          Interests,   \* Interests[s]: the events s's categories cover
          QueueMax,    \* EsEventDispatcher::queueMaxLength
          SubQueueMax, \* EsEventSubscriberAsync::queueMaxLength
          MaxEvents    \* bound: events posted

Subs   == Async \cup Sync
Events == 1..MaxEvents

ASSUME DispatcherAssumption ==
    /\ Async \cap Sync = {} /\ IsFiniteSet(Subs)
    /\ Interests \in [Subs -> SUBSET Events]
    /\ {QueueMax, SubQueueMax} \subseteq Nat \ {0}
    /\ MaxEvents \in Nat

VARIABLES
    queue,      \* m_queue
    subs,       \* m_subs, in the order of precedence
    subscribed, \* m_subscribed of each
    active,     \* m_active of each
    csSubs,     \* m_csSubs is held by process()
    dpc, evt,   \* where process() is, and with which event
    left,       \* the subscribers its loop has still to visit
    consumed,   \* flagConsumed of that event
    inbox,      \* m_queue of each asynchronous subscriber
    sem,        \* the count of its m_sem
    rpc,        \* where its thread is in eventReceive()
    life,       \* where each subscriber is in its destructor
    posted,     \* history: events posted so far
    urgent,     \* history: those posted with eventPostUrgent()
    dropped,    \* history: those queueLengthRestrict() threw away
    done,       \* history: those process() took, in that order
    received    \* history: what eventReceive() returned to each thread

pump     == <<csSubs, dpc, evt, left, consumed>>
registry == <<subs, subscribed>>
async    == <<inbox, sem, rpc>>
history  == <<posted, urgent, dropped, done, received>>
vars == <<queue, registry, active, pump, async, life, history>>

DispatchPcs == {"idle", "lock", "next", "notify"}
ReceivePcs  == {"idle", "granted", "pop"}
Lives       == {"alive", "deactivated", "reset", "gone"}

TypeOK ==
    /\ queue \in Seq(Events) /\ Len(queue) <= QueueMax
    /\ subs \in Seq(Subs) /\ IsInjective(subs)
    /\ subscribed \in [Subs -> BOOLEAN]
    /\ active \in [Subs -> BOOLEAN]
    /\ csSubs \in BOOLEAN
    /\ dpc \in DispatchPcs
    /\ evt \in 0..MaxEvents
    /\ left \in Seq(Subs)
    /\ consumed \in BOOLEAN
    /\ inbox \in [Async -> Seq(Events)]
    /\ \A s \in Async : Len(inbox[s]) <= SubQueueMax
    /\ sem \in [Async -> 0..SubQueueMax]
    /\ rpc \in [Async -> ReceivePcs]
    /\ life \in [Subs -> Lives]
    /\ posted \in 0..MaxEvents

Init ==
    /\ queue = <<>>
    /\ subs \in SetToSeqs(Subs)
    /\ subscribed = [s \in Subs |-> TRUE]
    /\ active = [s \in Subs |-> TRUE]
    /\ csSubs = FALSE
    /\ dpc = "idle" /\ evt = 0
    /\ left = <<>>
    /\ consumed = FALSE
    /\ inbox = [s \in Async |-> <<>>]
    /\ sem = [s \in Async |-> 0]
    /\ rpc = [s \in Async |-> "idle"]
    /\ life = [s \in Subs |-> "alive"]
    /\ posted = 0
    /\ urgent = {} /\ dropped = {}
    /\ done = <<>>
    /\ received = [s \in Async |-> <<>>]

-----------------------------------------------------------------------------
\* internalUnsubscribe(): the subscriber is searched for and erased.
Erased(s) ==
    IF s \in ToSet(subs)
    THEN \E i \in DOMAIN subs : subs[i] = s /\ subs' = RemoveAt(subs, i)
    ELSE UNCHANGED subs

(* Faulty variants of definitions below: the properties must tell them     *)
(* apart.                                                                  *)

\* One event too many before the front goes.
RestrictedLate == IF Len(queue) > QueueMax THEN Tail(queue) ELSE queue

\* front() without pop_front().
ProcessPopKept ==
    /\ dpc = "idle" /\ queue # <<>>
    /\ evt' = Head(queue)
    /\ done' = Append(done, evt')
    /\ dpc' = "lock"
    /\ UNCHANGED <<queue, registry, active, csSubs, left, consumed, async, life,
                   posted, urgent, dropped, received>>

\* m_sem made with a limit one below the length of the queue.
NotifyAsyncLimit ==
    LET s == Head(left)
        full == Len(inbox[s]) >= SubQueueMax
    IN  /\ dpc = "notify" /\ s \in Async
        /\ inbox' = [inbox EXCEPT
               ![s] = Append(IF full THEN Tail(@) ELSE @, evt)]
        /\ sem' = [sem EXCEPT ![s] = IF @ < SubQueueMax - 1 THEN @ + 1 ELSE @]
        /\ left' = Tail(left)
        /\ dpc' = "next"
        /\ UNCHANGED <<queue, registry, active, csSubs, evt, consumed, rpc,
                       life, history>>

\* unsubscribe() without m_csSubs.
UnsubscribeUnlocked(s) ==
    /\ life[s] = "alive" /\ subscribed[s]
    /\ Erased(s)
    /\ subscribed' = [subscribed EXCEPT ![s] = FALSE]
    /\ UNCHANGED <<queue, active, pump, async, life, history>>

\* One receiver drains every token, and then one event.
ReceiveCountedAll(s) ==
    /\ rpc[s] = "granted"
    /\ rpc' = [rpc EXCEPT ![s] = "pop"]
    /\ sem' = [sem EXCEPT ![s] = 0]
    /\ UNCHANGED <<queue, registry, active, pump, inbox, life, history>>

\* The newest event is received first.
ReceivePopLast(s) ==
    /\ rpc[s] = "pop"
    /\ rpc' = [rpc EXCEPT ![s] = "idle"]
    /\ IF inbox[s] = <<>>
       THEN UNCHANGED <<inbox, received>>
       ELSE /\ inbox' = [inbox EXCEPT ![s] = Front(@)]
            /\ received' = [received EXCEPT ![s] = Append(@, Last(inbox[s]))]
    /\ UNCHANGED <<queue, registry, active, pump, sem, life, posted, urgent,
                   dropped, done>>

-----------------------------------------------------------------------------
(* Posting                                                                 *)

\* queueLengthRestrict(): the front goes, be it urgent or the oldest.
Restricted == IF Len(queue) >= QueueMax THEN Tail(queue) ELSE queue

EventPost ==
    /\ posted < MaxEvents
    /\ posted' = posted + 1
    /\ \/ queue' = Append(Restricted, posted') /\ UNCHANGED urgent
       \/ /\ queue' = <<posted'>> \o Restricted
          /\ urgent' = urgent \cup {posted'}
    /\ dropped' = dropped \cup (ToSet(queue) \ ToSet(Restricted))
    /\ UNCHANGED <<registry, active, pump, async, life, done, received>>

-----------------------------------------------------------------------------
(* process(), in the main thread                                           *)

ProcessPop ==
    /\ dpc = "idle" /\ queue # <<>>
    /\ evt' = Head(queue)
    /\ queue' = Tail(queue)
    /\ done' = Append(done, evt')
    /\ dpc' = "lock"
    /\ UNCHANGED <<registry, active, csSubs, left, consumed, async, life, posted,
                   urgent, dropped, received>>

ProcessLock ==
    /\ dpc = "lock" /\ ~csSubs
    /\ csSubs' = TRUE
    /\ left' = subs
    /\ dpc' = "next"
    /\ UNCHANGED <<queue, registry, active, evt, consumed, async, life, history>>

\* Unless the last one consumed the event, the next subscriber is asked:
\* activeGet() and isInterestedIn().
ProcessNext ==
    /\ dpc = "next" /\ left # <<>> /\ ~consumed
    /\ IF active[Head(left)] /\ evt \in Interests[Head(left)]
       THEN dpc' = "notify" /\ UNCHANGED left
       ELSE left' = Tail(left) /\ UNCHANGED dpc
    /\ UNCHANGED <<queue, registry, active, csSubs, evt, consumed, async, life,
                   history>>

\* EsEventSubscriberAsync::notify(): make room, queue, post m_sem.
NotifyAsync ==
    LET s == Head(left)
        full == Len(inbox[s]) >= SubQueueMax
    IN  /\ dpc = "notify" /\ s \in Async
        /\ inbox' = [inbox EXCEPT
               ![s] = Append(IF full THEN Tail(@) ELSE @, evt)]
        /\ sem' = [sem EXCEPT ![s] = IF @ < SubQueueMax THEN @ + 1 ELSE @]
        /\ left' = Tail(left)
        /\ dpc' = "next"
        /\ UNCHANGED <<queue, registry, active, csSubs, evt, consumed, rpc,
                       life, history>>

\* notify() of a synchronous subscriber, which may consume the event.
NotifySync ==
    /\ dpc = "notify" /\ Head(left) \in Sync
    /\ consumed' \in {consumed, TRUE}
    /\ left' = Tail(left)
    /\ dpc' = "next"
    /\ UNCHANGED <<queue, registry, active, csSubs, evt, async, life, history>>

ProcessEnd ==
    /\ dpc = "next" /\ (left = <<>> \/ consumed)
    /\ csSubs' = FALSE
    /\ dpc' = "idle" /\ evt' = 0
    /\ left' = <<>> /\ consumed' = FALSE
    /\ UNCHANGED <<queue, registry, active, async, life, history>>

-----------------------------------------------------------------------------
(* Subscribers                                                             *)

Member(s, b) == subscribed' = [subscribed EXCEPT ![s] = b]

\* subscribe(precedence): the precedence decides on the place in m_subs.
Subscribe(s) ==
    /\ life[s] = "alive"
    /\ ~csSubs /\ ~subscribed[s]
    /\ \E i \in 1..Len(subs) + 1 : subs' = InsertAt(subs, i, s)
    /\ Member(s, TRUE)
    /\ UNCHANGED <<queue, active, pump, async, life, history>>

Unsubscribe(s) ==
    /\ life[s] = "alive"
    /\ ~csSubs /\ subscribed[s]
    /\ Erased(s)
    /\ Member(s, FALSE)
    /\ UNCHANGED <<queue, active, pump, async, life, history>>

\* internalClear(): m_csSubs is held, the subscribers' own locks are not.
Clear ==
    /\ ~csSubs /\ subs # <<>>
    /\ subs' = <<>>
    /\ subscribed' = [s \in Subs |-> subscribed[s] /\ s \notin ToSet(subs)]
    /\ UNCHANGED <<queue, active, pump, async, life, history>>

\* reset() empties the queue and leaves m_sem as it is.
ResetInbox(s) ==
    inbox' = IF s \in Async THEN [inbox EXCEPT ![s] = <<>>] ELSE inbox

\* activeSet(): onActivate() resets an asynchronous subscriber.
ActiveSet(s) ==
    /\ life[s] = "alive"
    /\ active' = [active EXCEPT ![s] = ~@]
    /\ IF active[s] THEN UNCHANGED inbox ELSE ResetInbox(s)
    /\ UNCHANGED <<queue, registry, pump, sem, rpc, life, history>>

Reset(s) ==
    /\ s \in Async /\ life[s] = "alive"
    /\ ResetInbox(s)
    /\ UNCHANGED <<queue, registry, active, pump, sem, rpc, life, history>>

Die(s, from, to) ==
    life[s] = from /\ life' = [life EXCEPT ![s] = to]

\* ~EsEventSubscriberAsync(), which nobody calls with a receiver inside.
DtorDeactivate(s) ==
    /\ s \in Async /\ rpc[s] = "idle"
    /\ Die(s, "alive", "deactivated")
    /\ active' = [active EXCEPT ![s] = FALSE]
    /\ UNCHANGED <<queue, registry, pump, async, history>>

DtorReset(s) ==
    /\ s \in Async
    /\ Die(s, "deactivated", "reset")
    /\ ResetInbox(s)
    /\ UNCHANGED <<queue, registry, active, pump, sem, rpc, history>>

\* ~EsEventSubscriber(), with the members of the derived class destroyed.
DtorUnsubscribe(s) ==
    /\ Die(s, IF s \in Async THEN "reset" ELSE "alive", "gone")
    /\ \/ ~subscribed[s] /\ UNCHANGED registry
       \/ subscribed[s] /\ ~csSubs /\ Erased(s) /\ Member(s, FALSE)
    /\ UNCHANGED <<queue, active, pump, async, history>>

-----------------------------------------------------------------------------
(* eventReceive(), in the thread that owns the subscriber                  *)

ReceiveGranted(s) ==
    /\ rpc[s] = "idle" /\ life[s] = "alive" /\ sem[s] > 0
    /\ rpc' = [rpc EXCEPT ![s] = "granted"]
    /\ UNCHANGED <<queue, registry, active, pump, inbox, sem, life, history>>

ReceiveCounted(s) ==
    /\ rpc[s] = "granted"
    /\ rpc' = [rpc EXCEPT ![s] = "pop"]
    /\ sem' = [sem EXCEPT ![s] = @ - 1]
    /\ UNCHANGED <<queue, registry, active, pump, inbox, life, history>>

ReceivePop(s) ==
    /\ rpc[s] = "pop"
    /\ rpc' = [rpc EXCEPT ![s] = "idle"]
    /\ IF inbox[s] = <<>>
       THEN UNCHANGED <<inbox, received>>
       ELSE /\ inbox' = [inbox EXCEPT ![s] = Tail(@)]
            /\ received' = [received EXCEPT ![s] = Append(@, Head(inbox[s]))]
    /\ UNCHANGED <<queue, registry, active, pump, sem, life, posted, urgent,
                   dropped, done>>

\* A receiver may consume() the event it shares with process(), whose loop
\* may still be on it.
Consume(s) ==
    /\ evt \in ToSet(received[s]) /\ ~consumed
    /\ consumed' = TRUE
    /\ UNCHANGED <<queue, registry, active, csSubs, dpc, evt, left, async, life,
                   history>>

-----------------------------------------------------------------------------
Process == ProcessPop \/ ProcessLock \/ ProcessNext \/ NotifyAsync
           \/ NotifySync \/ ProcessEnd

Receive(s) == ReceiveGranted(s) \/ ReceiveCounted(s) \/ ReceivePop(s)

Control(s) == \/ Subscribe(s) \/ Unsubscribe(s) \/ ActiveSet(s) \/ Reset(s)
              \/ DtorDeactivate(s) \/ DtorReset(s) \/ DtorUnsubscribe(s)

Next == \/ EventPost
        \/ Process
        \/ Clear
        \/ \E s \in Subs : Control(s)
        \/ \E s \in Async : Receive(s) \/ Consume(s)

Spec == Init /\ [][Next]_vars

\* The main thread pumps process(); the owners of asynchronous subscribers
\* keep calling eventReceive().
FairSpec ==
    /\ Spec
    /\ WF_vars(Process)
    /\ \A s \in Async : WF_vars(Receive(s))

-----------------------------------------------------------------------------
\* Every posted event is in the queue, taken by process() or dropped, and is
\* so once: posts of several threads, urgent ones and the overflow included.
EventAccounted ==
    /\ ToSet(queue) \cup dropped \cup ToSet(done) = 1..posted
    /\ Len(queue) + Cardinality(dropped) + Len(done) = posted

\* What a thread receives, and what waits for it, it gets once and in the
\* order in which process() took it, though two bounded queues, reset() and
\* ignored posts of m_sem lie on the way; events that are not urgent arrive in
\* the order of their posts.
ReceivedInOrder ==
    \A s \in Async :
        LET got == received[s] \o inbox[s]
            Turn(n) == CHOOSE i \in DOMAIN done : done[i] = n
        IN  /\ ToSet(got) \subseteq ToSet(done)
            /\ \A i, j \in DOMAIN got :
                  i < j => /\ Turn(got[i]) < Turn(got[j])
                           /\ \/ got[i] < got[j]
                              \/ {got[i], got[j]} \cap urgent # {}

\* m_sem never holds fewer tokens than there are events to receive: none is
\* stranded because reset() or a post at the limit unbalanced the two.
TokenPerEvent ==
    \A s \in Async :
        Len(inbox[s]) <= sem[s] + (IF rpc[s] = "pop" THEN 1 ELSE 0)

\* Once unsubscribe(), or the destructor, has returned the subscriber is not
\* notified any more, not even of the event in hand.
NotifiedSubscribed ==
    dpc = "notify" => Head(left) \in ToSet(subs) /\ life[Head(left)] # "gone"

\* What is queued for a subscriber is received, or reset, however the posts of
\* m_sem that were ignored, or had no event any more, went before.
InboxEmptied ==
    \A s \in Async :
        inbox[s] # <<>> ~> inbox[s] = <<>> \/ life[s] # "alive"

-----------------------------------------------------------------------------
\* EsEventDispatcher.h: an asynchronous subscriber "may be used in threads".
\* Destroyed in one, it is not notified from another once its own members,
\* the queue and the semaphore, are gone.
NotifiedWhole ==
    dpc = "notify" => life[Head(left)] \in {"alive", "deactivated"}
=============================================================================
