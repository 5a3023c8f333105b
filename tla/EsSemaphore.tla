---------------------------- MODULE EsSemaphore ----------------------------
(* EsSemaphore as the POSIX build implements it                            *)
(* (escore/EsSyncObjects.posix.cxx): a bounded counting semaphore made of  *)
(* two POSIX semaphores, a counter and a recursive mutex.  m_semFree holds *)
(* the tokens a waiter may take, m_semLock the slots a poster may fill,    *)
(* and m_cnt the count that decides whether a post has any effect.  The    *)
(* three are updated one at a time: m_semFree is decremented outside the   *)
(* mutex, m_semLock is decremented by the poster after it unlocked.        *)
EXTENDS Integers, FiniteSets

CONSTANTS Threads,       \* the threads that share the semaphore
          InitialCount,  \* constructor argument initialCount
          MaxCount,      \* constructor argument maxCount, 0 for "no limit"
          SemValueMax,   \* SEM_VALUE_MAX of the C library
          MaxInterrupts  \* bound: signals delivered to blocked calls

ASSUME ThreadsAssumption == IsFiniteSet(Threads) /\ Threads # {}
ASSUME CountAssumption ==
    /\ InitialCount \in Nat
    /\ MaxCount \in Nat
    /\ SemValueMax \in Nat \ {0}
    /\ MaxCount <= SemValueMax
    /\ MaxInterrupts \in Nat

\* m_maxCnt and the initial m_cnt, after the constructor's two corrections.
maxCnt == IF MaxCount = 0 THEN SemValueMax ELSE MaxCount
initCnt == IF InitialCount > maxCnt THEN maxCnt ELSE InitialCount

VARIABLES
    semFree,     \* value of m_semFree
    semLock,     \* value of m_semLock
    cnt,         \* m_cnt
    mx,          \* holders of m_mx: {} or one thread
    pc,          \* where each thread is in the call it makes
    call,        \* the call each thread makes, or made last
    result,      \* what that call returned, "none" while it runs
    interrupted, \* history: posts whose sem_wait(m_semLock) got EINTR
    spilled      \* history: waits that took a token but failed in lockDec

vars == <<semFree, semLock, cnt, mx, pc, call, result, interrupted, spilled>>

Calls   == {"post", "wait", "tryWait", "timedWait"}
Results == {"none", "Ok", "Busy", "Timeout", "Overflow", "Error"}
WaitPcs == {"wait", "tryWait", "timedWait"}
Pcs     == {"idle", "post", "postFree", "postCount", "postSlot",
            "dec", "decSlot", "decCount"} \cup WaitPcs

At(places) == {t \in Threads : pc[t] \in places}

TypeOK ==
    /\ semFree \in 0..SemValueMax
    /\ semLock \in 0..SemValueMax
    /\ cnt \in 0..maxCnt
    /\ mx \in SUBSET Threads
    /\ pc \in [Threads -> Pcs]
    /\ call \in [Threads -> Calls]
    /\ result \in [Threads -> Results]
    /\ interrupted \in 0..MaxInterrupts
    /\ spilled \in Nat

Init ==
    /\ semFree = initCnt
    /\ semLock = maxCnt - initCnt
    /\ cnt = initCnt
    /\ mx = {}
    /\ pc = [t \in Threads |-> "idle"]
    /\ call = [t \in Threads |-> "post"]
    /\ result = [t \in Threads |-> "none"]
    /\ interrupted = 0
    /\ spilled = 0

-----------------------------------------------------------------------------
Goto(t, place) ==
    /\ pc' = [pc EXCEPT ![t] = place]
    /\ UNCHANGED <<call, result>>

Return(t, r) ==
    /\ pc' = [pc EXCEPT ![t] = "idle"]
    /\ result' = [result EXCEPT ![t] = r]
    /\ UNCHANGED call

Lock(t)   == mx = {} /\ mx' = {t}
Unlock(t) == mx' = mx \ {t}

\* A thread enters post(), wait(), tryWait() or wait(ms).
Enter(t) ==
    /\ pc[t] = "idle"
    /\ \E c \in Calls :
          /\ pc' = [pc EXCEPT ![t] = c]
          /\ call' = [call EXCEPT ![t] = c]
    /\ result' = [result EXCEPT ![t] = "none"]
    /\ UNCHANGED <<semFree, semLock, cnt, mx, interrupted, spilled>>

-----------------------------------------------------------------------------
(* Faulty variants of actions below: the properties must tell them apart.  *)

\* The count is compared with an off-by-one limit before the post.
PostFullEarly(t) ==
    /\ pc[t] = "postFree"
    /\ cnt >= maxCnt - 1
    /\ Unlock(t)
    /\ Return(t, "Ok")
    /\ UNCHANGED <<semFree, semLock, cnt, interrupted, spilled>>

\* The early return leaves the mutex locked.
PostFullLocked(t) ==
    /\ pc[t] = "postFree"
    /\ cnt >= maxCnt
    /\ Return(t, "Ok")
    /\ UNCHANGED <<semFree, semLock, cnt, mx, interrupted, spilled>>

\* The limit is not tested.
PostFreeUnchecked(t) ==
    /\ pc[t] = "postFree"
    /\ semFree < SemValueMax
    /\ semFree' = semFree + 1
    /\ Goto(t, "postCount")
    /\ UNCHANGED <<semLock, cnt, mx, interrupted, spilled>>

\* The slot is not taken.
PostSlotKept(t) ==
    /\ pc[t] = "postSlot"
    /\ Return(t, "Ok")
    /\ UNCHANGED <<semFree, semLock, cnt, mx, interrupted, spilled>>

\* The slot is not given back.
LockDecSlotKept(t) ==
    /\ pc[t] = "decSlot"
    /\ cnt > 0
    /\ semLock < SemValueMax
    /\ Goto(t, "decCount")
    /\ UNCHANGED <<semFree, semLock, cnt, mx, interrupted, spilled>>

\* --m_cnt is forgotten.
LockDecCountKept(t) ==
    /\ pc[t] = "decCount"
    /\ Unlock(t)
    /\ Return(t, "Ok")
    /\ UNCHANGED <<semFree, semLock, cnt, interrupted, spilled>>

-----------------------------------------------------------------------------
(* post()                                                                  *)

PostLock(t) ==
    /\ pc[t] = "post"
    /\ Lock(t)
    /\ Goto(t, "postFree")
    /\ UNCHANGED <<semFree, semLock, cnt, interrupted, spilled>>

\* m_cnt == m_maxCnt: unlock and report success, nothing was posted.
PostFull(t) ==
    /\ pc[t] = "postFree"
    /\ cnt >= maxCnt
    /\ Unlock(t)
    /\ Return(t, "Ok")
    /\ UNCHANGED <<semFree, semLock, cnt, interrupted, spilled>>

\* sem_post(m_semFree): a waiter may take the token at once, before ++m_cnt.
\* Were it to overflow, the count would stay and the post would go on.
PostFree(t) ==
    LET posted == semFree < SemValueMax IN
    /\ pc[t] = "postFree"
    /\ cnt < maxCnt
    /\ semFree' = IF posted THEN semFree + 1 ELSE semFree
    /\ mx' = IF posted THEN mx ELSE mx \ {t}
    /\ Goto(t, IF posted THEN "postCount" ELSE "postSlot")
    /\ UNCHANGED <<semLock, cnt, interrupted, spilled>>

PostCount(t) ==
    /\ pc[t] = "postCount"
    /\ cnt' = cnt + 1
    /\ Unlock(t)
    /\ Goto(t, "postSlot")
    /\ UNCHANGED <<semFree, semLock, interrupted, spilled>>

\* sem_wait(m_semLock), outside the mutex: blocks on an empty m_semLock.
PostSlot(t) ==
    /\ pc[t] = "postSlot"
    /\ semLock > 0
    /\ semLock' = semLock - 1
    /\ Return(t, "Ok")
    /\ UNCHANGED <<semFree, cnt, mx, interrupted, spilled>>

\* A signal interrupts sem_wait(m_semLock): -1 is not an errno, so the
\* switch falls through to resultOk, and the slot is not consumed.
PostInterrupted(t) ==
    /\ pc[t] = "postSlot"
    /\ interrupted < MaxInterrupts
    /\ interrupted' = interrupted + 1
    /\ Return(t, "Ok")
    /\ UNCHANGED <<semFree, semLock, cnt, mx, spilled>>

-----------------------------------------------------------------------------
(* wait(), tryWait() and wait(ms)                                          *)

\* sem_wait, sem_trywait or sem_timedwait takes a token from m_semFree.
Take(t) ==
    /\ pc[t] \in WaitPcs
    /\ semFree > 0
    /\ semFree' = semFree - 1
    /\ Goto(t, "dec")
    /\ UNCHANGED <<semLock, cnt, mx, interrupted, spilled>>

\* The three calls return -1 when they fail (empty, elapsed, interrupted);
\* none of the switch's errno cases matches it.
Refuse(t) ==
    /\ \/ pc[t] = "tryWait" /\ semFree = 0
       \/ pc[t] = "timedWait"
       \/ pc[t] = "wait" /\ MaxInterrupts > 0
    /\ Return(t, "Error")
    /\ UNCHANGED <<semFree, semLock, cnt, mx, interrupted, spilled>>

LockDecLock(t) ==
    /\ pc[t] = "dec"
    /\ Lock(t)
    /\ Goto(t, "decSlot")
    /\ UNCHANGED <<semFree, semLock, cnt, interrupted, spilled>>

LockDecSlot(t) ==
    /\ pc[t] = "decSlot"
    /\ cnt > 0
    /\ semLock < SemValueMax
    /\ semLock' = semLock + 1
    /\ Goto(t, "decCount")
    /\ UNCHANGED <<semFree, cnt, mx, interrupted, spilled>>

\* lockDec() leaves the count alone: because m_cnt is 0, which it takes for
\* success, or because sem_post(m_semLock) overflows, and then the wait that
\* took the token reports an error.
LockDecSkip(t) ==
    LET failed == cnt > 0 IN
    /\ pc[t] = "decSlot"
    /\ ~(cnt > 0 /\ semLock < SemValueMax)
    /\ spilled' = IF failed THEN spilled + 1 ELSE spilled
    /\ Unlock(t)
    /\ Return(t, IF failed THEN "Error" ELSE "Ok")
    /\ UNCHANGED <<semFree, semLock, cnt, interrupted>>

LockDecCount(t) ==
    /\ pc[t] = "decCount"
    /\ cnt' = cnt - 1
    /\ Unlock(t)
    /\ Return(t, "Ok")
    /\ UNCHANGED <<semFree, semLock, interrupted, spilled>>

-----------------------------------------------------------------------------
Post(t) ==
    \/ PostLock(t)
    \/ PostFull(t)
    \/ PostFree(t)
    \/ PostCount(t)
    \/ PostSlot(t)
    \/ PostInterrupted(t)

LockDec(t) ==
    \/ LockDecLock(t)
    \/ LockDecSlot(t)
    \/ LockDecSkip(t)
    \/ LockDecCount(t)

Wait(t) == Take(t) \/ Refuse(t) \/ LockDec(t)

Next == \E t \in Threads : Enter(t) \/ Post(t) \/ Wait(t)

Spec == Init /\ [][Next]_vars

\* A call that has started runs on: its thread is scheduled, and the mutex or
\* the token that is there again and again is obtained in the end.
Proceed(t) ==
    \/ PostLock(t) \/ PostFull(t) \/ PostFree(t) \/ PostCount(t) \/ PostSlot(t)
    \/ Take(t) \/ LockDec(t)

Fairness == \A t \in Threads : SF_vars(Proceed(t))

FairSpec == Spec /\ Fairness

-----------------------------------------------------------------------------
(* What is conserved                                                       *)

Taken    == At({"dec", "decSlot", "decCount"}) \* a token, not yet discounted
Counting == At({"postCount"})                  \* token out, not yet counted
Filling  == At({"postSlot"})                   \* counted, slot not yet filled
Freed    == At({"decCount"})                   \* slot freed, still counted

\* Every token is accounted for: m_semFree holds what m_cnt counts, plus the
\* token of the post between sem_post(m_semFree) and ++m_cnt, less those taken
\* by waits that have not decremented m_cnt yet, less those that were lost with
\* a failed lockDec().
TokenBalance ==
    semFree = cnt + Cardinality(Counting) - Cardinality(Taken) - spilled

\* The mirror for m_semLock: free slots, those owed by posts still to come to
\* sem_wait(m_semLock), and those that interrupted posts left behind.
SlotBalance ==
    semLock = maxCnt - cnt
              + Cardinality(Filling) + Cardinality(Freed) + interrupted

\* m_mx guards the critical sections of post() and lockDec(), and the test
\* of m_cnt still holds when the section comes to its assignment.
MutexHeld ==
    /\ \A t, u \in mx : t = u
    /\ \A t \in Threads :
          /\ t \in mx <=> pc[t] \in {"postFree", "postCount", "decSlot", "decCount"}
          /\ pc[t] = "postCount" => cnt < maxCnt
          /\ pc[t] = "decCount" => cnt > 0

\* post() counts first and then waits for a slot without the mutex; it must
\* never find m_semLock empty there, or a post would block its caller.
PostNeverBlocks == Filling # {} => semLock > 0

\* lockDec() finds the token it discounts still counted: its test of m_cnt
\* never fails, and neither does the sem_post of post().
CountCovers ==
    \A t \in Threads :
        /\ pc[t] = "decSlot" => cnt > 0
        /\ pc[t] = "postFree" /\ cnt < maxCnt => semFree < SemValueMax

\* The room m_semLock needs above its limit: the slots that interrupted posts
\* left, and those owed by every other thread at the moment a wait frees one.
HeadRoom == maxCnt + interrupted + Cardinality(Threads) - 2 < SemValueMax

\* While that room is left under SEM_VALUE_MAX no wait loses the token it
\* took: the signals already received decide, not those still to come.
NoTokenLost == HeadRoom => spilled = 0

\* What a call without effect returns: as the code has it, and as the header
\* has it (EsSyncObjects.h:180-182), where an error is what is left for a
\* wait() that a signal ends.
CodedRefusal      == [c \in WaitPcs |-> "Error"]
DocumentedRefusal == [wait |-> "Error", tryWait |-> "Busy", timedWait |-> "Timeout"]

\* EsSemaphore implements CountingSemaphore until a wait fails with its token:
\* the count rises with sem_post(m_semFree) and falls with --m_cnt, a wait is
\* granted when it takes its token, and a call is refused or ignored only when
\* CountingSemaphore may do so.  The results are those the code gives.
Contract == INSTANCE CountingSemaphore WITH
    Users    <- Threads,
    Initial  <- initCnt,
    Limit    <- maxCnt,
    Refusal  <- CodedRefusal,
    Ignored  <- "Ok",
    count    <- cnt + Cardinality(Counting),
    effected <- Taken \cup Counting \cup Filling,
    asked    <- call,
    outcome  <- result,
    failed   <- spilled > 0

ImplementsCountingSemaphore == Contract!Spec

\* The same with the results of the header: tryWait() returns resultBusy if
\* wait() would block (EsSyncObjects.h:180, 204), wait(ms) resultTimeout, and
\* a post() that does not increase the counter resultOverflow.
Documented == INSTANCE CountingSemaphore WITH
    Users    <- Threads,
    Initial  <- initCnt,
    Limit    <- maxCnt,
    Refusal  <- DocumentedRefusal,
    Ignored  <- "Overflow",
    count    <- cnt + Cardinality(Counting),
    effected <- Taken \cup Counting \cup Filling,
    asked    <- call,
    outcome  <- result,
    failed   <- spilled > 0

ImplementsDocumentedSemaphore == Documented!Spec

\* A post() that has begun returns, however many threads take, refuse or post
\* around it: it is not kept in m_mx nor in sem_wait(m_semLock).  A wait that
\* took a token reports back, also when lockDec() fails.
CallsReturn ==
    \A t \in Threads :
        /\ pc[t] = "post" ~> pc[t] = "idle"
        /\ pc[t] = "dec" ~> pc[t] = "idle"
=============================================================================
