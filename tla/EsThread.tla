------------------------------ MODULE EsThread ------------------------------
(* EsThread (escore/EsThread.cpp, EsThread.posix.cxx): the start, stop,    *)
(* suspend and resume protocol between the threads that control an EsThread *)
(* object and the POSIX threads it creates.  m_cs guards m_state; m_id is   *)
(* read and written with and without it; four semaphores of limit 1 carry   *)
(* the signals.  The semaphores are atomic here: EsSemaphore implements     *)
(* CountingSemaphore, and each wait on m_pause, m_stop and m_stopped that   *)
(* could overlap a post gives its token back itself, so a post ignored      *)
(* meanwhile leaves the same value behind.                                  *)
EXTENDS Integers, FiniteSets

CONSTANTS Controllers,  \* threads that call the object's methods
          Ops,          \* Ops[c]: the methods controller c calls
          StartStates,  \* the start states asked for: "Normal", "Suspended"
          EagerOps,     \* EagerOps[ss][c]: the methods that c may call in
                        \* the middle of another's start(ss), or before the
                        \* thread has passed startSuspendedCheck()
          MaxStarts     \* bound: POSIX threads created

Methods == {"start", "stop", "stopAndWait", "suspend", "resume"}

ASSUME OpsAssumption ==
    /\ Ops \in [Controllers -> SUBSET Methods]
    /\ StartStates \subseteq {"Normal", "Suspended"}
    /\ EagerOps \in [{"Normal", "Suspended"} ->
                       [Controllers -> SUBSET (Methods \ {"start"})]]
    /\ MaxStarts \in Nat

VARIABLES
    state,    \* m_state
    id,       \* m_id: 0 is EsThreadIdNone
    cs,       \* holders of m_cs across steps: {}, {controller} or {thread}
    started, pause, stop, stopped,  \* the semaphores m_started...m_stopped
    thread,   \* m_thread: the POSIX thread created last, 0 before the first
    wpc,      \* where each POSIX thread is in threadWorker()
    joined,   \* how often each POSIX thread was joined
    pc,       \* where each controller is in the method it calls
    asked     \* the start state each controller's start() asked for

semaphores == <<started, pause, stop, stopped>>
worker     == <<thread, wpc, joined>>
caller     == <<pc, asked>>
vars == <<state, id, cs, semaphores, worker, caller>>

Workers == 1..MaxStarts
States  == {"None", "Running", "Stopping", "Suspended"}

StartPcs == {"start", "startCheck", "startJoin", "startReset", "startPause",
             "startCreate", "startId", "startWait", "startResume"}
StopPcs  == {"stop", "stopLock"}
StopAndWaitPcs == {"stopAndWait", "waitState", "waitSet", "waitStopped",
                   "waitRepost", "waitCheck", "waitJoin", "waitReset"}
PcsOf == [start |-> StartPcs, stop |-> StopPcs,
          stopAndWait |-> StopAndWaitPcs,
          suspend |-> {"suspend", "suspendPause"}, resume |-> {"resume"}]
CallerPcs == {"idle"} \cup UNION {PcsOf[m] : m \in Methods}
WorkerPcs == {"none", "born", "check", "checkRepost", "checkSuspend",
              "startPause", "startRepost", "enter", "work", "pause",
              "pauseRepost", "stopWait", "stopRepost", "result", "exit",
              "exitResult", "final", "finalId", "finalUnlock", "exiting",
              "ended"}

\* The POSIX threads that exist and have not come to their last instruction.
Alive == {w \in Workers : wpc[w] \notin {"none", "ended"}}

TypeOK ==
    /\ state \in States
    /\ id \in 0..MaxStarts
    /\ cs \in SUBSET (Controllers \cup Workers)
    /\ <<started, pause, stop, stopped>> \in [1..4 -> 0..1]
    /\ thread \in 0..MaxStarts
    /\ wpc \in [Workers -> WorkerPcs]
    /\ joined \in [Workers -> Nat]
    /\ pc \in [Controllers -> CallerPcs]
    /\ asked \in [Controllers -> {"Normal", "Suspended"}]

Init ==
    /\ state = "None"
    /\ id = 0
    /\ cs = {}
    /\ started = 0 /\ pause = 0 /\ stop = 0 /\ stopped = 1
    /\ thread = 0
    /\ wpc = [w \in Workers |-> "none"]
    /\ joined = [w \in Workers |-> 0]
    /\ pc = [c \in Controllers |-> "idle"]
    /\ asked = [c \in Controllers |-> "Normal"]

-----------------------------------------------------------------------------
At(c, from, to) == pc[c] = from /\ pc' = [pc EXCEPT ![c] = to] /\ UNCHANGED asked

\* A section under m_cs that does not block is one step.
Locked == cs = {} /\ UNCHANGED cs

\* The new thread is past startSuspendedCheck(), or there is none.
Settled == \A w \in Workers :
    wpc[w] \notin {"born", "check", "checkRepost", "checkSuspend"}

\* Callers keep the methods that are not eager apart from start() and from
\* the first steps of the thread it creates.
MayStart(c, ss) ==
    /\ thread < MaxStarts
    /\ Settled \/ ss = asked[c]
    /\ \A d \in Controllers : \A m \in Methods \ EagerOps[ss][d] :
          m # "start" => pc[d] \notin PcsOf[m]

MayCall(c, m) ==
    \/ Settled /\ \A d \in Controllers : pc[d] \notin StartPcs
    \/ \A d \in Controllers : "start" \in Ops[d] => m \in EagerOps[asked[d]][c]

Call(c) ==
    /\ pc[c] = "idle"
    /\ \E m \in Ops[c] :
          /\ pc' = [pc EXCEPT ![c] = m]
          /\ \/ /\ m = "start"
                /\ \E ss \in StartStates :
                      MayStart(c, ss) /\ asked' = [asked EXCEPT ![c] = ss]
             \/ m # "start" /\ MayCall(c, m) /\ UNCHANGED asked
    /\ UNCHANGED <<state, id, cs, semaphores, worker>>

(* start()                                                                 *)

\* A suspended thread is resumed, a running or stopping one is an error.
\* m_started.tryWait() follows the release of m_cs; only a worker posts
\* m_started and none is alive, so the two are one step.
StartState(c) ==
    /\ Locked
    /\ \/ state = "None" /\ At(c, "start", "startCheck")
       \/ state = "Suspended" /\ At(c, "start", "startResume")
       \/ state \in {"Running", "Stopping"} /\ At(c, "start", "idle")
    /\ started' = IF state = "None" THEN 0 ELSE started
    /\ UNCHANGED <<state, id, pause, stop, stopped, worker>>

StartPause(c) ==
    /\ At(c, "startPause", "startCreate")
    /\ pause' = IF asked[c] = "Suspended" THEN 0 ELSE 1
    /\ UNCHANGED <<state, id, cs, started, stop, stopped, worker>>

\* pthread_create(): the new thread may run to its end before m_id is set.
StartCreate(c) ==
    /\ At(c, "startCreate", "startId")
    /\ thread' = thread + 1
    /\ wpc' = [wpc EXCEPT ![thread + 1] = "born"]
    /\ UNCHANGED <<state, id, cs, semaphores, joined>>

StartId(c) ==
    /\ At(c, "startId", "startWait")
    /\ id' = thread
    /\ UNCHANGED <<state, cs, semaphores, worker>>

StartWait(c) ==
    /\ started = 1
    /\ started' = 0
    /\ At(c, "startWait", "idle")
    /\ UNCHANGED <<state, id, cs, pause, stop, stopped, worker>>

(* cleanup(), from start() and from stopAndWait()                          *)

CleanupPcs == {<<"startCheck", "startJoin", "startReset", "startPause">>,
               <<"waitCheck", "waitJoin", "waitReset", "idle">>}

\* Faulty variants: no join, no reset of m_stop.
CleanupJoinSkipped(c) ==
    /\ \E p \in CleanupPcs : At(c, p[2], p[3])
    /\ UNCHANGED <<state, id, cs, semaphores, worker>>

CleanupResetKeepsStop(c) ==
    /\ \E p \in CleanupPcs : At(c, p[3], p[4])
    /\ state' = "None"
    /\ id' = 0
    /\ UNCHANGED <<cs, semaphores, worker>>

\* m_id is tested without m_cs.
CleanupCheck(c) ==
    /\ \E p \in CleanupPcs : At(c, p[1], IF id = 0 THEN p[3] ELSE p[2])
    /\ UNCHANGED <<state, id, cs, semaphores, worker>>

\* pthread_join() waits for the end of m_thread.
CleanupJoin(c) ==
    /\ \E p \in CleanupPcs : At(c, p[2], p[3])
    /\ wpc[thread] = "ended"
    /\ joined' = [joined EXCEPT ![thread] = @ + 1]
    /\ UNCHANGED <<state, id, cs, semaphores, thread, wpc>>

CleanupReset(c) ==
    /\ \E p \in CleanupPcs : At(c, p[3], p[4])
    /\ state' = "None"
    /\ stop' = 0
    /\ id' = 0
    /\ UNCHANGED <<cs, started, pause, stopped, worker>>

(* stop() and stopAndWait()                                                *)

\* Both return at once when there is no thread: m_id is read without m_cs.
StopCheck(c) ==
    /\ \/ /\ id = 0
          /\ At(c, "stop", "idle") \/ At(c, "stopAndWait", "idle")
       \/ /\ id # 0
          /\ At(c, "stop", "stopLock") \/ At(c, "stopAndWait", "waitState")
    /\ UNCHANGED <<state, id, cs, semaphores, worker>>

\* Faulty variant: m_pause is not posted.
StoppingPaused == state' = "Stopping" /\ stop' = 1 /\ UNCHANGED pause
\* stoppingSet(), and the same assignments of stop().
Stopping == state' = "Stopping" /\ pause' = 1 /\ stop' = 1

StopLocked(c) ==
    /\ Locked
    /\ At(c, "stopLock", "idle")
    /\ IF state # "None" THEN Stopping ELSE UNCHANGED <<state, pause, stop>>
    /\ UNCHANGED <<id, started, stopped, worker>>

WaitState(c) ==
    /\ Locked
    /\ At(c, "waitState", IF state = "None" THEN "waitCheck" ELSE "waitSet")
    /\ UNCHANGED <<state, id, semaphores, worker>>

\* stoppingSet(): m_cs was released since the state was read.
WaitSet(c) ==
    /\ Locked
    /\ At(c, "waitSet", "waitStopped")
    /\ Stopping
    /\ UNCHANGED <<id, started, stopped, worker>>

WaitStopped(c) ==
    /\ stopped = 1
    /\ stopped' = 0
    /\ At(c, "waitStopped", "waitRepost")
    /\ UNCHANGED <<state, id, cs, started, pause, stop, worker>>

WaitRepost(c) ==
    /\ stopped' = 1
    /\ At(c, "waitRepost", "waitCheck")
    /\ UNCHANGED <<state, id, cs, started, pause, stop, worker>>

(* suspend() and resume()                                                  *)

\* Faulty variants of resume(): m_state is not tested, m_pause not posted.
ResumeAny(c) ==
    /\ Locked
    /\ At(c, "resume", "idle") \/ At(c, "startResume", "idle")
    /\ state' = "Running" /\ pause' = 1
    /\ UNCHANGED <<id, started, stop, stopped, worker>>

ResumePaused(c) ==
    /\ Locked
    /\ At(c, "resume", "idle") \/ At(c, "startResume", "idle")
    /\ state' = IF state = "Suspended" THEN "Running" ELSE state
    /\ UNCHANGED <<id, semaphores, worker>>

\* suspend() keeps m_cs while it waits for m_pause.
Suspend(c) ==
    /\ cs = {}
    /\ \/ /\ state = "Running"
          /\ cs' = {c}
          /\ At(c, "suspend", "suspendPause")
       \/ /\ state # "Running"
          /\ At(c, "suspend", "idle")
          /\ UNCHANGED cs
    /\ UNCHANGED <<state, id, semaphores, worker>>

SuspendPause(c) ==
    /\ pause = 1
    /\ pause' = 0
    /\ state' = "Suspended"
    /\ cs' = {}
    /\ At(c, "suspendPause", "idle")
    /\ UNCHANGED <<id, started, stop, stopped, worker>>

Resume(c) ==
    /\ Locked
    /\ At(c, "resume", "idle") \/ At(c, "startResume", "idle")
    /\ IF state = "Suspended" THEN state' = "Running" /\ pause' = 1
                              ELSE UNCHANGED <<state, pause>>
    /\ UNCHANGED <<id, started, stop, stopped, worker>>

-----------------------------------------------------------------------------
(* threadWorker(), in the POSIX thread w                                   *)

Go(w, from, to) ==
    /\ wpc[w] = from
    /\ wpc' = [wpc EXCEPT ![w] = to]
    /\ UNCHANGED <<thread, joined, caller>>

RunningSet(w) ==
    /\ Locked
    /\ Go(w, "born", "check")
    /\ state' = "Running"
    /\ started' = 1
    /\ UNCHANGED <<id, pause, stop, stopped>>

\* startSuspendedCheck(): m_pause tells whether the start is suspended.
CheckPause(w) ==
    /\ Go(w, "check", IF pause = 1 THEN "checkRepost" ELSE "checkSuspend")
    /\ pause' = 0
    /\ UNCHANGED <<state, id, cs, started, stop, stopped>>

CheckSuspend(w) ==
    /\ Locked
    /\ Go(w, "checkSuspend", "startPause")
    /\ state' = "Suspended"
    /\ UNCHANGED <<id, semaphores>>

\* Faulty variants: pausedCheck() keeps the token, checkForStopping() posts
\* m_stop without its limit.
PauseKept(w) ==
    /\ \/ Go(w, "checkRepost", "startPause")
       \/ Go(w, "startRepost", "enter")
       \/ Go(w, "pauseRepost", "stopWait")
    /\ UNCHANGED <<state, id, cs, semaphores>>

StopRepostUnlimited(w) ==
    /\ Go(w, "stopRepost", "result")
    /\ stop' = stop + 1
    /\ UNCHANGED <<state, id, cs, started, pause, stopped>>

\* pausedCheck(): before onEnterWorker(), and in every checkForStopping().
PauseWait(w) ==
    /\ pause = 1
    /\ pause' = 0
    /\ Go(w, "startPause", "startRepost") \/ Go(w, "pause", "pauseRepost")
    /\ UNCHANGED <<state, id, cs, started, stop, stopped>>

PauseRepost(w) ==
    /\ \/ Go(w, "checkRepost", "startPause")
       \/ Go(w, "startRepost", "enter")
       \/ Go(w, "pauseRepost", "stopWait")
    /\ pause' = 1
    /\ UNCHANGED <<state, id, cs, started, stop, stopped>>

\* onEnterWorker(), and a cycle of worker(): go on, fail or be done.
Enter(w) ==
    /\ Go(w, "enter", "work") \/ Go(w, "enter", "result")
    /\ UNCHANGED <<state, id, cs, semaphores>>

Work(w) ==
    /\ Go(w, "work", "pause") \/ Go(w, "work", "result")
    /\ UNCHANGED <<state, id, cs, semaphores>>

\* m_stop.wait(ms) in checkForStopping().
StopWait(w) ==
    /\ Go(w, "stopWait", IF stop = 1 THEN "stopRepost" ELSE "work")
    /\ stop' = 0
    /\ UNCHANGED <<state, id, cs, started, pause, stopped>>

StopRepost(w) ==
    /\ Go(w, "stopRepost", "result")
    /\ stop' = 1
    /\ UNCHANGED <<state, id, cs, started, pause, stopped>>

\* resultSet() takes m_cs to log the outcome.
ResultSet(w) ==
    /\ Locked
    /\ Go(w, "result", "exit") \/ Go(w, "exitResult", "final")
    /\ UNCHANGED <<state, id, semaphores>>

ExitWorker(w) ==
    /\ Go(w, "exit", "final") \/ Go(w, "exit", "exitResult")
    /\ UNCHANGED <<state, id, cs, semaphores>>

\* The last section under m_cs.  The semaphores and m_id are used without
\* m_cs elsewhere, so the posts and the reset of m_id are two steps.
Final(w) ==
    /\ cs = {}
    /\ cs' = {w}
    /\ Go(w, "final", "finalId")
    /\ stop' = 1 /\ pause' = 1 /\ stopped' = 1
    /\ UNCHANGED <<state, id, started>>

FinalId(w) ==
    /\ Go(w, "finalId", "finalUnlock")
    /\ state' = "None"
    /\ id' = 0
    /\ UNCHANGED <<cs, semaphores>>

FinalUnlock(w) ==
    /\ Go(w, "finalUnlock", "exiting")
    /\ cs' = {}
    /\ UNCHANGED <<state, id, semaphores>>

\* onThreadExit(): pthread_exit().
ThreadExit(w) ==
    /\ Go(w, "exiting", "ended")
    /\ UNCHANGED <<state, id, cs, semaphores>>

-----------------------------------------------------------------------------
Start(c) == \/ StartState(c) \/ StartPause(c) \/ StartCreate(c)
            \/ StartId(c) \/ StartWait(c)
Cleanup(c) == CleanupCheck(c) \/ CleanupJoin(c) \/ CleanupReset(c)
Stop(c) == \/ StopCheck(c) \/ StopLocked(c) \/ WaitState(c) \/ WaitSet(c)
           \/ WaitStopped(c) \/ WaitRepost(c)
Pausing(c) == Suspend(c) \/ SuspendPause(c) \/ Resume(c)

CallStep(c) == Start(c) \/ Cleanup(c) \/ Stop(c) \/ Pausing(c)

ThreadWorker(w) ==
    \/ RunningSet(w) \/ CheckPause(w) \/ CheckSuspend(w)
    \/ PauseWait(w) \/ PauseRepost(w) \/ Enter(w) \/ Work(w)
    \/ StopWait(w) \/ StopRepost(w) \/ ResultSet(w) \/ ExitWorker(w)
    \/ Final(w) \/ FinalId(w) \/ FinalUnlock(w) \/ ThreadExit(w)

Next == \/ \E c \in Controllers : Call(c) \/ CallStep(c)
        \/ \E w \in Workers : ThreadWorker(w)

Spec == Init /\ [][Next]_vars

\* A thread inside a method or in threadWorker() runs on, and whoever waits
\* for a lock or a semaphore that is free again and again gets it in the end.
\* worker() keeps calling checkForStopping() or ends.
FairSpec == /\ Spec
            /\ \A c \in Controllers : SF_vars(CallStep(c))
            /\ \A w \in Workers : SF_vars(ThreadWorker(w))

-----------------------------------------------------------------------------
\* How an object is used: one thread starts its threads, and no other thread
\* is in the middle of stopAndWait() while one starts.
OneStarter ==
    \A c, d \in Controllers :
        c # d /\ "start" \in Ops[c] =>
            /\ "start" \notin Ops[d]
            /\ \A ss \in {"Normal", "Suspended"} : "stopAndWait" \notin EagerOps[ss][d]

-----------------------------------------------------------------------------
\* The threads that are in the code of a derived class or around it, with the
\* object's fields in use.
Executing == {w \in Workers :
                wpc[w] \notin {"none", "finalUnlock", "exiting", "ended"}}

PausedPcs == {"startPause", "pause"}

\* The new thread is about to suspend itself, in startSuspendedCheck().
Suspending == \E w \in Workers : \/ wpc[w] \in {"born", "check"} /\ pause = 0
                                 \/ wpc[w] = "checkSuspend"

\* One object never runs two workers at once, however the next start() meets
\* the end of the worker before it and the threads that stop it and wait.
AtMostOneWorker == Cardinality(Executing) <= 1

\* A POSIX thread is joined at most once, however many wait for its end.
JoinedOnce == \A w \in Workers : joined[w] <= 1

\* A new thread starts with a clean m_stop: it is not stopped by a signal
\* meant for the one before.
FreshStop ==
    \A w \in Workers : wpc[w] \in {"born", "check"} /\ stop = 1
                       => state = "Stopping"

\* A thread asked to stop is neither resumed nor suspended: only its end, or
\* the cleanup after it, changes m_state.  The one exception is the thread
\* itself, when it comes to suspend its start after it was asked to stop.
StoppingIsFinal ==
    [][state = "Stopping" => \/ state' \in {"Stopping", "None"}
                             \/ \E w \in Workers : CheckSuspend(w)]_vars

\* A thread asked to stop ends, from suspension too, unless it is about to
\* suspend its start.
StopHonoured == state = "Stopping" /\ ~Suspending ~> state = "None"

\* stopAndWait(), of a thread that is not about to suspend its start, and
\* suspend(), which keeps m_cs while it waits for m_pause, come back.
CallsReturn ==
    \A c \in Controllers :
        \/ pc[c] = "stopAndWait" /\ ~Suspending
        \/ pc[c] = "suspend"
        ~> pc[c] = "idle"

\* resume() frees the worker that is paused, unless another suspend() comes.
ResumeReleases ==
    \A w \in Workers :
        wpc[w] \in PausedPcs /\ (\E c \in Controllers : pc[c] = "resume")
        ~> \/ wpc[w] \notin PausedPcs
           \/ \E c \in Controllers : pc[c] \in PcsOf["suspend"]
=============================================================================
