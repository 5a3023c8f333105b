--------------------------- MODULE EsThreadProofs ---------------------------
(* Theorems about EsThread, for any number of controllers and of starts.   *)
EXTENDS EsThread, FiniteSetTheorems, TLAPS

OwnerPcs  == StartPcs \cup StopAndWaitPcs
Preparing == {"startCheck", "startJoin", "startReset", "startPause", "startCreate"}

\* The threads that have done their part: m_id is reset.
Gone == {"finalUnlock", "exiting", "ended"}
Quiet == thread \in Workers => wpc[thread] \in Gone

\* What a controller's place tells of the object and of its thread.
Caller(c) ==
    /\ pc[c] \in StartPcs => "start" \in Ops[c]
    /\ pc[c] = "suspendPause" =>
          /\ cs = {c} /\ state = "Running" /\ thread \in Workers
          /\ wpc[thread] \notin Gone \cup {"born"}
          /\ \A w \in Workers : wpc[w] \notin {"finalId", "finalUnlock"}
    /\ pc[c] \in {"start"} \cup Preparing => thread < MaxStarts
    /\ pc[c] \in Preparing => state = "None" /\ started = 0
    /\ pc[c] \in Preparing \cup {"waitReset"} => Quiet
    /\ pc[c] \in {"startPause", "startCreate"} => stop = 0
    /\ pc[c] \in {"startJoin", "waitJoin", "startId"} =>
          thread \in Workers

\* What a POSIX thread's place tells.
Thread(w) ==
    /\ w > thread => wpc[w] = "none"
    /\ w < thread => wpc[w] \in Gone
    /\ w = thread => wpc[w] # "none"
    /\ wpc[w] \in {"finalId", "finalUnlock"} => cs = {w}
    /\ wpc[w] = "born" =>
          /\ state = "None" /\ started = 0 /\ stop = 0
          /\ \E c \in Controllers : pc[c] \in {"startId", "startWait"}
    /\ wpc[w] = "check" /\ stop = 1 => state = "Stopping"

\* m_state and m_id tell when no thread executes.
Told ==
    /\ state = "None" => Quiet \/ wpc[thread] = "born"
    /\ state \in {"Running", "Suspended"} =>
          thread \in Workers /\ wpc[thread] \notin Gone \cup {"born"}
    /\ id = 0 => Quiet \/ \E c \in Controllers : pc[c] = "startId"
    /\ id # 0 => thread \in Workers

\* TypeOK, a semaphore at a time.
Types ==
    /\ state \in States
    /\ id \in 0..MaxStarts
    /\ cs \subseteq Controllers \cup Workers
    /\ started \in 0..1 /\ pause \in 0..1 /\ stop \in 0..1 /\ stopped \in 0..1
    /\ thread \in 0..MaxStarts
    /\ wpc \in [Workers -> WorkerPcs]
    /\ joined \in [Workers -> Nat]
    /\ pc \in [Controllers -> CallerPcs]
    /\ asked \in [Controllers -> {"Normal", "Suspended"}]

\* Nobody is in the middle of stopAndWait() while a thread starts.
StartsAlone ==
    \A c, d \in Controllers : pc[c] \in StartPcs => pc[d] \notin StopAndWaitPcs

Core ==
    /\ Types
    /\ \A c \in Controllers : Caller(c)
    /\ \A w \in Workers : Thread(w)
    /\ Told

\* The inductive invariant.
IInv == Core /\ StartsAlone

-----------------------------------------------------------------------------
(* Places                                                                  *)

LEMMA Places ==
    /\ CallerPcs = {"idle"} \cup StartPcs \cup StopPcs \cup StopAndWaitPcs
                   \cup {"suspend", "suspendPause", "resume"}
    /\ PcsOf["start"] = StartPcs /\ PcsOf["stop"] = StopPcs
    /\ PcsOf["stopAndWait"] = StopAndWaitPcs
    /\ PcsOf["suspend"] = {"suspend", "suspendPause"} /\ PcsOf["resume"] = {"resume"}
<1>1. /\ PcsOf["start"] = StartPcs /\ PcsOf["stop"] = StopPcs
      /\ PcsOf["stopAndWait"] = StopAndWaitPcs
      /\ PcsOf["suspend"] = {"suspend", "suspendPause"} /\ PcsOf["resume"] = {"resume"}
  BY DEF PcsOf
<1>2. UNION {PcsOf[m] : m \in Methods} =
          PcsOf["start"] \cup PcsOf["stop"] \cup PcsOf["stopAndWait"]
          \cup PcsOf["suspend"] \cup PcsOf["resume"]
  BY DEF Methods
<1> QED
  BY <1>1, <1>2 DEF CallerPcs

LEMMA PlacesDiffer ==
    ASSUME NEW m \in Methods, NEW n \in Methods, NEW p \in PcsOf[m]
    PROVE  /\ p # "idle"
           /\ p \in PcsOf[n] => m = n
           /\ m \in PcsOf[m]
  BY Places DEF Methods, StartPcs, StopPcs, StopAndWaitPcs

\* A call keeps to the places of its method.
LEMMA Within ==
    ASSUME NEW c \in Controllers, CallStep(c)
    PROVE  \E m \in Methods : \E from \in PcsOf[m], to \in PcsOf[m] \cup {"idle"} :
               At(c, from, to)
<1>1. /\ "start" \in Methods /\ "stop" \in Methods /\ "stopAndWait" \in Methods
      /\ "suspend" \in Methods /\ "resume" \in Methods
  BY DEF Methods
<1>2. CASE Start(c)
  <2>1. \E from \in StartPcs, to \in StartPcs \cup {"idle"} : At(c, from, to)
    BY <1>2 DEF Start, StartState, StartPause, StartCreate, StartId, StartWait, StartPcs
  <2> QED
    BY <1>1, <2>1, Places
<1>3. CASE Cleanup(c)
  <2>1. \/ \E from \in StartPcs, to \in StartPcs \cup {"idle"} : At(c, from, to)
        \/ \E from \in StopAndWaitPcs, to \in StopAndWaitPcs \cup {"idle"} : At(c, from, to)
    <3>1. CASE CleanupCheck(c)
      BY <3>1 DEF CleanupCheck, CleanupPcs, StartPcs, StopAndWaitPcs
    <3>2. CASE CleanupJoin(c)
      BY <3>2 DEF CleanupJoin, CleanupPcs, StartPcs, StopAndWaitPcs
    <3>3. CASE CleanupReset(c)
      BY <3>3 DEF CleanupReset, CleanupPcs, StartPcs, StopAndWaitPcs
    <3> QED
      BY <1>3, <3>1, <3>2, <3>3 DEF Cleanup
  <2> QED
    BY <1>1, <2>1, Places
<1>4. CASE Stop(c)
  <2>1. \/ \E from \in StopPcs, to \in StopPcs \cup {"idle"} : At(c, from, to)
        \/ \E from \in StopAndWaitPcs, to \in StopAndWaitPcs \cup {"idle"} : At(c, from, to)
    BY <1>4 DEF Stop, StopCheck, StopLocked, WaitState, WaitSet, WaitStopped, WaitRepost,
                StopPcs, StopAndWaitPcs
  <2> QED
    BY <1>1, <2>1, Places
<1>5. CASE Pausing(c)
  <2>1. \/ \E from \in {"suspend", "suspendPause"},
              to \in {"suspend", "suspendPause", "idle"} : At(c, from, to)
        \/ At(c, "resume", "idle") \/ At(c, "startResume", "idle")
    BY <1>5 DEF Pausing, Suspend, SuspendPause, Resume
  <2>2. "startResume" \in StartPcs
    BY DEF StartPcs
  <2> QED
    BY <1>1, <2>1, <2>2, Places
<1> QED
  BY <1>2, <1>3, <1>4, <1>5 DEF CallStep

LEMMA AloneKept ==
    ASSUME OneStarter, IInv, [Next]_vars
    PROVE  StartsAlone'
<1>1. Types /\ StartsAlone /\ \A c \in Controllers : Caller(c)
  BY DEF IInv, Core
<1>2. CASE UNCHANGED vars \/ \E w \in Workers : ThreadWorker(w)
  <2>1. pc' = pc
    <3>1. ASSUME NEW w \in Workers, ThreadWorker(w) PROVE pc' = pc
      BY <3>1 DEF ThreadWorker, RunningSet, CheckPause, CheckSuspend, PauseWait, PauseRepost,
                  Enter, Work, StopWait, StopRepost, ResultSet, ExitWorker, Final, FinalId,
                  FinalUnlock, ThreadExit, Go, caller
    <3> QED
      BY <1>2, <3>1 DEF vars, caller
  <2> QED
    BY <1>1, <2>1 DEF StartsAlone
<1>3. ASSUME NEW c \in Controllers, CallStep(c) PROVE StartsAlone'
  <2>1. PICK m \in Methods : \E from \in PcsOf[m], to \in PcsOf[m] \cup {"idle"} :
                                 At(c, from, to)
    BY <1>3, Within
  <2>2. PICK from \in PcsOf[m], to \in PcsOf[m] \cup {"idle"} : At(c, from, to)
    BY <2>1
  <2>3. /\ pc[c] = from /\ pc'[c] = to
        /\ \A d \in Controllers \ {c} : pc'[d] = pc[d]
    BY <1>1, <2>2 DEF At, Types
  <2>4. \A n \in Methods : pc'[c] \in PcsOf[n] => pc[c] \in PcsOf[n]
    BY <2>2, <2>3, PlacesDiffer
  <2>5. /\ pc'[c] \in StartPcs => pc[c] \in StartPcs
        /\ pc'[c] \in StopAndWaitPcs => pc[c] \in StopAndWaitPcs
    BY <2>4, Places DEF Methods
  <2> QED
    BY <1>1, <2>3, <2>5 DEF StartsAlone
<1>4. ASSUME NEW c \in Controllers, Call(c) PROVE StartsAlone'
  <2>1. PICK m \in Ops[c] :
           /\ pc[c] = "idle" /\ pc' = [pc EXCEPT ![c] = m]
           /\ \/ m = "start" /\ \E ss \in StartStates : MayStart(c, ss)
              \/ m # "start" /\ MayCall(c, m)
    BY <1>4 DEF Call
  <2>2. /\ pc'[c] = m /\ \A d \in Controllers \ {c} : pc'[d] = pc[d]
        /\ m \in Methods /\ "start" \in Methods /\ "stopAndWait" \in Methods
        /\ StartStates \subseteq {"Normal", "Suspended"}
    BY <1>1, <2>1, OpsAssumption DEF Types, Methods
  <2>3. CASE m = "start"
    <3>1. PICK ss \in StartStates : MayStart(c, ss)
      BY <2>1, <2>3
    <3>2. \A d \in Controllers \ {c} : "stopAndWait" \notin EagerOps[ss][d]
      BY <2>1, <2>2, <2>3 DEF OneStarter
    <3>3. \A d \in Controllers \ {c} : pc[d] \notin StopAndWaitPcs
      BY <2>2, <3>1, <3>2, Places DEF MayStart
    <3>4. "start" \notin StopAndWaitPcs
      BY DEF StopAndWaitPcs
    <3>5. \A d \in Controllers \ {c} : pc[d] \notin StartPcs
      BY <1>1, <2>1, <2>3 DEF Caller, OneStarter
    <3> QED
      BY <2>2, <2>3, <3>3, <3>4, <3>5 DEF StartsAlone
  <2>4. CASE m # "start"
    <3>1. pc'[c] \notin StartPcs
      BY <2>2, <2>4 DEF Methods, StartPcs
    <3>2. pc'[c] \in StopAndWaitPcs => m = "stopAndWait"
      BY <2>2 DEF Methods, StopAndWaitPcs
    <3>3. ASSUME m = "stopAndWait", NEW d \in Controllers, pc[d] \in StartPcs PROVE FALSE
      <4>1. "start" \in Ops[d] /\ asked[d] \in {"Normal", "Suspended"}
        BY <1>1, <3>3 DEF Caller, Types
      <4>2. m \in EagerOps[asked[d]][c]
        BY <2>1, <2>4, <3>3, <4>1 DEF MayCall
      <4>3. c # d
        BY <2>1, <3>3 DEF StartPcs
      <4> QED
        BY <3>3, <4>1, <4>2, <4>3 DEF OneStarter
    <3> QED
      BY <1>1, <2>2, <3>1, <3>2, <3>3 DEF StartsAlone
  <2> QED
    BY <2>3, <2>4
<1> QED
  BY <1>2, <1>3, <1>4 DEF Next

\* While one starts a thread nobody else is in start() or stopAndWait().
LEMMA Alone ==
    ASSUME OneStarter, IInv, NEW c \in Controllers, NEW d \in Controllers,
           pc[c] \in StartPcs, pc[d] \in OwnerPcs
    PROVE  c = d
<1>1. Caller(c) /\ Caller(d) /\ StartsAlone
  BY DEF IInv, Core
<1> QED
  BY <1>1 DEF Caller, OneStarter, StartsAlone, OwnerPcs

\* A step of a controller.
LEMMA Moved ==
    ASSUME IInv, NEW c \in Controllers, NEW from, NEW to \in CallerPcs,
           At(c, from, to)
    PROVE  /\ pc[c] = from /\ pc' \in [Controllers -> CallerPcs] /\ pc'[c] = to
           /\ \A d \in Controllers \ {c} : pc'[d] = pc[d]
           /\ asked' = asked
  BY DEF IInv, Core, Types, At

\* A step that only takes the controller from one place to another.
LEMMA Walk ==
    ASSUME IInv, NEW c \in Controllers, NEW from, NEW to \in CallerPcs,
           At(c, from, to), Caller(c)',
           UNCHANGED <<state, id, cs, pause, stop, worker>>,
           started' \in {0, started}, stopped' \in 0..1,
           from \notin {"startId", "startReset", "waitReset", "suspendPause"},
           from = "startWait" => \A w \in Workers : wpc[w] # "born"
    PROVE  Core'
<1>1. /\ pc[c] = from /\ pc' \in [Controllers -> CallerPcs] /\ pc'[c] = to
      /\ \A d \in Controllers \ {c} : pc'[d] = pc[d]
      /\ asked' = asked
  BY Moved
<1>2. UNCHANGED <<thread, wpc, joined>>
  BY DEF worker
<1>3. Types'
  BY <1>1, <1>2 DEF IInv, Core, Types
<1>4. ASSUME NEW d \in Controllers PROVE Caller(d)'
  <2>1. Caller(d)
    BY DEF IInv, Core
  <2> QED
    BY <1>1, <1>2, <2>1 DEF Caller, StartPcs, Preparing, Quiet
<1>5. ASSUME NEW w \in Workers PROVE Thread(w)'
  <2>1. Thread(w) /\ started \in 0..1
    BY DEF IInv, Core, Types
  <2> QED
    BY <1>1, <1>2, <2>1 DEF Thread
<1>6. Told'
  BY <1>1, <1>2 DEF IInv, Core, Told, Quiet
<1> QED
  BY <1>3, <1>4, <1>5, <1>6 DEF IInv, Core

-----------------------------------------------------------------------------
(* start()                                                                 *)

LEMMA StartStep ==
    ASSUME OneStarter, IInv, NEW c \in Controllers, Start(c)
    PROVE  Core'
<1>1. Caller(c) /\ Types /\ Told
  BY DEF IInv, Core
<1>2. StartPcs \cup StopAndWaitPcs \cup {"idle"} \subseteq CallerPcs
  BY Places
<1>3. CASE StartState(c)
  <2>1. CASE state = "None" /\ At(c, "start", "startCheck")
    <3>1. Quiet
      <4>1. wpc[thread] # "born" \/ thread \notin Workers
        <5>1. \A d \in Controllers : pc[d] \in OwnerPcs => d = c
          BY <2>1, Alone DEF At, StartPcs
        <5>2. pc[c] \notin {"startId", "startWait"}
          BY <2>1 DEF At
        <5> QED
          BY <5>1, <5>2 DEF IInv, Core, Thread, OwnerPcs, StartPcs
      <4> QED
        BY <1>1, <2>1, <4>1 DEF Told, Quiet
    <3>2. Caller(c)'
      BY <1>1, <1>3, <2>1, <3>1, Moved
         DEF StartState, At, Caller, StartPcs, Preparing, Quiet, worker, Types
    <3> QED
      BY <1>2, <1>3, <2>1, <3>2, Walk DEF StartState, Locked, StartPcs, Types, IInv, Core
  <2>2. CASE state # "None" /\ \E to \in {"startResume", "idle"} : At(c, "start", to)
    <3>1. PICK to \in {"startResume", "idle"} : At(c, "start", to)
      BY <2>2
    <3>2. to \in CallerPcs
      BY <1>2 DEF StartPcs
    <3>3. Caller(c)'
      BY <1>1, <1>3, <3>1
         DEF StartState, At, Caller, StartPcs, Preparing, Quiet, worker, Types
    <3> QED
      BY <1>2, <1>3, <2>2, <3>1, <3>2, <3>3, Walk DEF StartState, Locked, Types, IInv, Core
  <2> QED
    BY <1>3, <2>1, <2>2 DEF StartState
<1>4. CASE StartPause(c)
  <2>1. /\ At(c, "startPause", "startCreate") /\ pause' \in 0..1
        /\ UNCHANGED <<state, id, cs, started, stop, stopped, thread, wpc, joined>>
    BY <1>4 DEF StartPause, worker
  <2>2. /\ pc[c] = "startPause" /\ pc' \in [Controllers -> CallerPcs] /\ pc'[c] = "startCreate"
        /\ \A d \in Controllers \ {c} : pc'[d] = pc[d]
        /\ asked' = asked
    BY <1>2, <2>1, Moved DEF StartPcs
  <2>3. Types'
    BY <1>1, <2>1, <2>2 DEF Types
  <2>4. ASSUME NEW d \in Controllers PROVE Caller(d)'
    <3>1. Caller(d)
      BY DEF IInv, Core
    <3> QED
      BY <2>1, <2>2, <3>1 DEF Caller, StartPcs, Preparing, Quiet
  <2>5. ASSUME NEW w \in Workers PROVE Thread(w)'
    <3>1. Thread(w)
      BY DEF IInv, Core
    <3> QED
      BY <2>1, <2>2, <3>1 DEF Thread
  <2>6. Told'
    BY <1>1, <2>1, <2>2 DEF Told, Quiet
  <2> QED
    BY <2>3, <2>4, <2>5, <2>6 DEF IInv, Core
<1>5. CASE StartCreate(c)
  <2>1. /\ At(c, "startCreate", "startId")
        /\ thread' = thread + 1 /\ wpc' = [wpc EXCEPT ![thread + 1] = "born"]
        /\ UNCHANGED <<state, id, cs, started, pause, stop, stopped, joined>>
    BY <1>5 DEF StartCreate, semaphores
  <2>2. /\ pc[c] = "startCreate" /\ pc' \in [Controllers -> CallerPcs] /\ pc'[c] = "startId"
        /\ \A d \in Controllers \ {c} : pc'[d] = pc[d]
        /\ asked' = asked
    BY <1>2, <2>1, Moved DEF StartPcs
  <2>3. /\ thread \in Nat /\ MaxStarts \in Nat /\ thread < MaxStarts /\ thread + 1 \in Workers
        /\ state = "None" /\ started = 0 /\ stop = 0 /\ Quiet
    BY <1>1, <2>2, OpsAssumption DEF Caller, Types, Preparing, Workers
  <2>4. /\ wpc' \in [Workers -> WorkerPcs] /\ wpc'[thread + 1] = "born"
        /\ \A w \in Workers : w # thread + 1 => wpc'[w] = wpc[w]
    BY <1>1, <2>1, <2>3 DEF Types, WorkerPcs
  <2>5. \A d \in Controllers \ {c} : pc[d] \notin OwnerPcs
    BY <2>2, Alone DEF StartPcs
  <2>6. Types'
    BY <1>1, <2>1, <2>2, <2>3, <2>4 DEF Types
  <2>7. ASSUME NEW d \in Controllers PROVE Caller(d)'
    <3>1. Caller(d)
      BY DEF IInv, Core
    <3> QED
      BY <2>1, <2>2, <2>3, <2>5, <3>1
         DEF Caller, OwnerPcs, StopAndWaitPcs, StartPcs, Preparing, Quiet
  <2>8. ASSUME NEW w \in Workers PROVE Thread(w)'
    <3>1. Thread(w) /\ w \in Nat
      BY DEF IInv, Core, Workers
    <3>2. CASE w = thread + 1
      BY <2>1, <2>2, <2>3, <2>4, <3>1, <3>2 DEF Thread
    <3>3. CASE w # thread + 1
      BY <2>1, <2>2, <2>3, <2>4, <3>1, <3>3 DEF Thread, Quiet, Gone, Workers
    <3> QED
      BY <3>2, <3>3
  <2>9. Told'
    BY <1>1, <2>1, <2>2, <2>3, <2>4 DEF Told, Quiet
  <2> QED
    BY <2>6, <2>7, <2>8, <2>9 DEF IInv, Core
<1>6. CASE StartId(c)
  <2>1. /\ At(c, "startId", "startWait") /\ id' = thread
        /\ UNCHANGED <<state, cs, started, pause, stop, stopped, thread, wpc, joined>>
    BY <1>6 DEF StartId, semaphores, worker
  <2>2. /\ pc[c] = "startId" /\ pc' \in [Controllers -> CallerPcs] /\ pc'[c] = "startWait"
        /\ \A d \in Controllers \ {c} : pc'[d] = pc[d]
        /\ asked' = asked
    BY <1>2, <2>1, Moved DEF StartPcs
  <2>3. Types'
    BY <1>1, <2>1, <2>2 DEF Types
  <2>4. ASSUME NEW d \in Controllers PROVE Caller(d)'
    <3>1. Caller(d)
      BY DEF IInv, Core
    <3> QED
      BY <2>1, <2>2, <3>1 DEF Caller, StartPcs, Preparing, Quiet
  <2>5. ASSUME NEW w \in Workers PROVE Thread(w)'
    <3>1. Thread(w)
      BY DEF IInv, Core
    <3> QED
      BY <2>1, <2>2, <3>1 DEF Thread
  <2>6. Told'
    <3>1. thread \in Workers /\ thread # 0
      BY <1>1, <2>2 DEF Caller, Workers
    <3> QED
      BY <1>1, <2>1, <2>2, <3>1 DEF Told, Quiet
  <2> QED
    BY <2>3, <2>4, <2>5, <2>6 DEF IInv, Core
<1>7. CASE StartWait(c)
  <2>1. \A w \in Workers : wpc[w] # "born"
    BY <1>7 DEF StartWait, IInv, Core, Thread
  <2>2. Caller(c)'
    BY <1>1, <1>7
       DEF StartWait, At, Caller, StartPcs, Preparing, Quiet, worker, Types
  <2> QED
    BY <1>1, <1>2, <1>7, <2>1, <2>2, Walk DEF StartWait, Types
<1> QED
  BY <1>3, <1>4, <1>5, <1>6, <1>7 DEF Start

-----------------------------------------------------------------------------
(* cleanup()                                                               *)

LEMMA CleanupStep ==
    ASSUME OneStarter, IInv, NEW c \in Controllers, Cleanup(c)
    PROVE  Core'
<1>1. Caller(c) /\ Types /\ Told
  BY DEF IInv, Core
<1>2. StartPcs \cup StopAndWaitPcs \cup {"idle"} \subseteq CallerPcs
  BY Places
<1>3. CASE CleanupCheck(c)
  <2>1. PICK from \in {"startCheck", "waitCheck"},
             to \in {"startReset", "startJoin", "waitReset", "waitJoin"} :
           /\ At(c, from, to)
           /\ from = "startCheck" <=> to \in {"startReset", "startJoin"}
           /\ id = 0 <=> to \in {"startReset", "waitReset"}
    BY <1>3 DEF CleanupCheck, CleanupPcs
  <2>2. pc[c] = from
    BY <2>1 DEF At
  <2>3. \A d \in Controllers : pc[d] # "startId"
    <3>1. \A d \in Controllers : pc[d] \in StartPcs => d = c
      BY <2>1, <2>2, Alone DEF OwnerPcs, StartPcs, StopAndWaitPcs
    <3> QED
      BY <2>1, <2>2, <3>1 DEF StartPcs
  <2>4. Caller(c)'
    <3>1. pc'[c] = to /\ UNCHANGED <<state, id, cs, started, stop, thread, wpc, joined>>
      BY <1>1, <1>3, <2>1 DEF CleanupCheck, At, Types, semaphores, worker
    <3>2. to \in StartPcs => from \in StartPcs
      BY <2>1 DEF StartPcs
    <3>3. id = 0 => Quiet
      BY <1>1, <2>3 DEF Told
    <3>4. id # 0 => thread \in Workers
      BY <1>1, <2>3 DEF Told
    <3> QED
      BY <1>1, <2>1, <2>2, <3>1, <3>2, <3>3, <3>4 DEF Caller, Preparing, Quiet
  <2>5. to \in CallerPcs
    BY <1>2, <2>1 DEF StartPcs, StopAndWaitPcs
  <2> QED
    BY <1>1, <1>3, <2>1, <2>4, <2>5, Walk DEF CleanupCheck, semaphores, Types
<1>4. CASE CleanupJoin(c)
  <2>1. PICK from \in {"startJoin", "waitJoin"}, to \in {"startReset", "waitReset"} :
           At(c, from, to) /\ (from = "startJoin" <=> to = "startReset")
    BY <1>4 DEF CleanupJoin, CleanupPcs
  <2>2. /\ wpc[thread] = "ended" /\ joined' = [joined EXCEPT ![thread] = @ + 1]
        /\ UNCHANGED <<state, id, cs, started, pause, stop, stopped, thread, wpc>>
    BY <1>4 DEF CleanupJoin, semaphores
  <2>3. /\ pc[c] = from /\ pc' \in [Controllers -> CallerPcs] /\ pc'[c] = to
        /\ \A d \in Controllers \ {c} : pc'[d] = pc[d]
        /\ asked' = asked
    <3>1. to \in CallerPcs
      BY <1>2, <2>1 DEF StartPcs, StopAndWaitPcs
    <3> QED
      BY <2>1, <3>1, Moved
  <2>4. thread \in Workers
    BY <1>1, <2>1, <2>3 DEF Caller
  <2>5. joined' \in [Workers -> Nat]
    BY <1>1, <2>2, <2>4 DEF Types
  <2>7. Types'
    BY <1>1, <2>2, <2>3, <2>5 DEF Types
  <2>8. ASSUME NEW d \in Controllers PROVE Caller(d)'
    <3>1. Caller(d)
      BY DEF IInv, Core
    <3> QED
      BY <2>1, <2>2, <2>3, <3>1
         DEF Caller, StartPcs, Preparing, Quiet, Gone
  <2>9. ASSUME NEW w \in Workers PROVE Thread(w)'
    <3>1. Thread(w) /\ w \in Nat /\ thread \in Nat
      BY <1>1, OpsAssumption DEF IInv, Core, Workers, Types
    <3> QED
      BY <2>1, <2>2, <2>3, <2>5, <3>1 DEF Thread
  <2>10. Told'
    BY <1>1, <2>1, <2>2, <2>3 DEF Told, Quiet, Gone
  <2> QED
    BY <2>7, <2>8, <2>9, <2>10 DEF IInv, Core
<1>5. CASE CleanupReset(c)
  <2>1. PICK from \in {"startReset", "waitReset"}, to \in {"startPause", "idle"} :
           At(c, from, to) /\ (from = "startReset" <=> to = "startPause")
    BY <1>5 DEF CleanupReset, CleanupPcs
  <2>2. /\ state' = "None" /\ stop' = 0 /\ id' = 0
        /\ UNCHANGED <<cs, started, pause, stopped, thread, wpc, joined>>
    BY <1>5 DEF CleanupReset, worker
  <2>3. /\ pc[c] = from /\ pc' \in [Controllers -> CallerPcs] /\ pc'[c] = to
        /\ \A d \in Controllers \ {c} : pc'[d] = pc[d]
        /\ asked' = asked
    <3>1. to \in CallerPcs
      BY <1>2, <2>1 DEF StartPcs
    <3> QED
      BY <2>1, <3>1, Moved
  <2>4. Quiet
    BY <1>1, <2>1, <2>3 DEF Caller, Preparing
  <2>6. Types'
    BY <1>1, <2>2, <2>3, OpsAssumption DEF Types, States
  <2>7. ASSUME NEW d \in Controllers PROVE Caller(d)'
    <3>1. Caller(d)
      BY DEF IInv, Core
    <3> QED
      BY <2>1, <2>2, <2>3, <2>4, <3>1
         DEF Caller, StartPcs, Preparing, Quiet
  <2>8. ASSUME NEW w \in Workers PROVE Thread(w)'
    <3>1. Thread(w) /\ w \in Nat /\ thread \in Nat
      BY <1>1, OpsAssumption DEF IInv, Core, Workers, Types
    <3>2. wpc[w] \notin {"born", "check"}
      BY <2>4, <3>1, <1>1 DEF Thread, Quiet, Gone
    <3> QED
      BY <2>1, <2>2, <2>3, <3>1, <3>2 DEF Thread
  <2>9. Told'
    BY <2>2, <2>4 DEF Told, Quiet
  <2> QED
    BY <2>6, <2>7, <2>8, <2>9 DEF IInv, Core
<1> QED
  BY <1>3, <1>4, <1>5 DEF Cleanup

-----------------------------------------------------------------------------
(* stop() and stopAndWait()                                                *)

\* stoppingSet(), and the same assignments of stop(), of a thread that is not
\* being created.
LEMMA StoppingStep ==
    ASSUME IInv, NEW c \in Controllers, NEW from, NEW to \in CallerPcs, At(c, from, to),
           cs = {}, Stopping, UNCHANGED <<id, cs, started, stopped, worker>>,
           \/ from = "stopLock" /\ to = "idle" /\ state # "None"
           \/ /\ from = "waitSet" /\ to = "waitStopped"
              /\ \A d \in Controllers : pc[d] \notin StartPcs
    PROVE  Core'
<1>1. /\ state' = "Stopping" /\ pause' = 1 /\ stop' = 1
      /\ UNCHANGED <<id, cs, started, stopped, thread, wpc, joined>>
  BY DEF Stopping, worker
<1>2. /\ pc[c] = from /\ pc' \in [Controllers -> CallerPcs] /\ pc'[c] = to
      /\ \A d \in Controllers \ {c} : pc'[d] = pc[d]
      /\ asked' = asked
  BY Moved
<1>3. Types'
  BY <1>1, <1>2 DEF IInv, Core, Types, States
<1>4. ASSUME NEW d \in Controllers PROVE Caller(d)'
  <2>1. Caller(d)
    BY DEF IInv, Core
  <2> QED
    BY <1>1, <1>2, <2>1 DEF Caller, StartPcs, Preparing, Quiet
<1>5. ASSUME NEW w \in Workers PROVE Thread(w)'
  <2>1. Thread(w)
    BY DEF IInv, Core
  <2> QED
    BY <1>1, <1>2, <2>1 DEF Thread, OwnerPcs, StartPcs
<1>6. Told'
  BY <1>1, <1>2 DEF IInv, Core, Told, Quiet
<1> QED
  BY <1>3, <1>4, <1>5, <1>6 DEF IInv, Core

LEMMA StopStep ==
    ASSUME OneStarter, IInv, NEW c \in Controllers, Stop(c)
    PROVE  Core'
<1>1. Caller(c) /\ Types /\ Told
  BY DEF IInv, Core
<1>2. StopPcs \cup StopAndWaitPcs \cup {"idle"} \subseteq CallerPcs
  BY Places
<1>3. CASE StopCheck(c)
  <2>1. PICK from \in {"stop", "stopAndWait"}, to \in {"idle", "stopLock", "waitState"} :
           At(c, from, to) /\ (to = "waitState" => from = "stopAndWait")
    BY <1>3 DEF StopCheck
  <2>2. Caller(c)'
    BY <1>1, <1>3, <2>1
       DEF StopCheck, At, Caller, StartPcs, Preparing, worker, Types
  <2>3. to \in CallerPcs
    BY <1>2, <2>1 DEF StopPcs, StopAndWaitPcs
  <2> QED
    BY <1>1, <1>3, <2>1, <2>2, <2>3, Walk DEF StopCheck, semaphores, Types
<1>4. CASE StopLocked(c)
  <2>1. At(c, "stopLock", "idle") /\ cs = {} /\ UNCHANGED <<cs, id, started, stopped, worker>>
    BY <1>4 DEF StopLocked, Locked
  <2>2. CASE state = "None"
    <3>1. UNCHANGED <<state, pause, stop>>
      BY <1>4, <2>2 DEF StopLocked
    <3>2. Caller(c)'
      BY <1>1, <2>1, <3>1
         DEF At, Caller, StartPcs, Preparing, worker, Types
    <3> QED
      BY <1>1, <1>2, <2>1, <3>1, <3>2, Walk DEF Types
  <2>3. CASE state # "None"
    BY <1>2, <1>4, <2>1, <2>3, StoppingStep DEF StopLocked
  <2> QED
    BY <2>2, <2>3
<1>5. CASE WaitState(c)
  <2>1. PICK to \in {"waitCheck", "waitSet"} : At(c, "waitState", to)
    BY <1>5 DEF WaitState
  <2>2. Caller(c)'
    BY <1>1, <1>5, <2>1
       DEF WaitState, Locked, At, Caller, StartPcs, Preparing, worker, Types
  <2>3. to \in CallerPcs
    BY <1>2, <2>1 DEF StopAndWaitPcs
  <2> QED
    BY <1>1, <1>5, <2>1, <2>2, <2>3, Walk DEF WaitState, Locked, semaphores, Types
<1>6. CASE WaitSet(c)
  <2>1. At(c, "waitSet", "waitStopped")
    BY <1>6 DEF WaitSet
  <2>2. \A d \in Controllers : pc[d] \notin StartPcs
    BY <2>1 DEF At, IInv, StartsAlone, StopAndWaitPcs
  <2>3. "waitStopped" \in CallerPcs
    BY <1>2 DEF StopAndWaitPcs
  <2> QED
    BY <1>6, <2>1, <2>2, <2>3, StoppingStep DEF WaitSet, Locked
<1>7. CASE WaitStopped(c)
  <2>1. Caller(c)'
    BY <1>1, <1>7
       DEF WaitStopped, At, Caller, StartPcs, Preparing, worker, Types
  <2>2. "waitRepost" \in CallerPcs
    BY <1>2 DEF StopAndWaitPcs
  <2> QED
    BY <1>1, <1>7, <2>1, <2>2, Walk DEF WaitStopped, Types
<1>8. CASE WaitRepost(c)
  <2>1. Caller(c)'
    BY <1>1, <1>8
       DEF WaitRepost, At, Caller, StartPcs, Preparing, worker, Types
  <2>2. "waitCheck" \in CallerPcs
    BY <1>2 DEF StopAndWaitPcs
  <2> QED
    BY <1>1, <1>8, <2>1, <2>2, Walk DEF WaitRepost, Types
<1> QED
  BY <1>3, <1>4, <1>5, <1>6, <1>7, <1>8 DEF Stop

-----------------------------------------------------------------------------
(* suspend() and resume()                                                  *)

LEMMA PausingStep ==
    ASSUME IInv, NEW c \in Controllers, Pausing(c)
    PROVE  Core'
<1>1. Caller(c) /\ Types /\ Told
  BY DEF IInv, Core
<1>2. {"suspend", "suspendPause", "resume", "idle"} \subseteq CallerPcs
  BY Places
<1>3. CASE Suspend(c)
  <2>1. CASE state = "Running"
    <3>1. /\ cs = {} /\ cs' = {c} /\ At(c, "suspend", "suspendPause")
          /\ UNCHANGED <<state, id, started, pause, stop, stopped, thread, wpc, joined>>
      BY <1>3, <2>1 DEF Suspend, semaphores, worker
    <3>2. /\ pc[c] = "suspend" /\ pc' \in [Controllers -> CallerPcs] /\ pc'[c] = "suspendPause"
          /\ \A d \in Controllers \ {c} : pc'[d] = pc[d]
          /\ asked' = asked
      BY <1>2, <3>1, Moved
    <3>3. Types'
      BY <1>1, <3>1, <3>2 DEF Types
    <3>4. ASSUME NEW d \in Controllers PROVE Caller(d)'
      <4>1. Caller(d)
        BY DEF IInv, Core
      <4>2. \A w \in Workers : wpc[w] \notin {"finalId", "finalUnlock"}
        BY <3>1 DEF IInv, Core, Thread
      <4>3. thread \in Workers /\ wpc[thread] \notin Gone \cup {"born"}
        BY <1>1, <2>1 DEF Told
      <4> QED
        BY <1>1, <2>1, <3>1, <3>2, <4>1, <4>2, <4>3
           DEF Caller, StartPcs, Preparing, Quiet
    <3>5. ASSUME NEW w \in Workers PROVE Thread(w)'
      <4>1. Thread(w)
        BY DEF IInv, Core
      <4> QED
        BY <3>1, <3>2, <4>1 DEF Thread
    <3>6. Told'
      BY <1>1, <3>1, <3>2 DEF Told, Quiet
    <3> QED
      BY <3>3, <3>4, <3>5, <3>6 DEF IInv, Core
  <2>2. CASE state # "Running"
    <3>1. At(c, "suspend", "idle") /\ UNCHANGED <<state, id, cs, semaphores, worker>>
      BY <1>3, <2>2 DEF Suspend
    <3>2. Caller(c)'
      BY <1>1, <3>1
         DEF At, Caller, StartPcs, Preparing, semaphores, worker, Types
    <3> QED
      BY <1>1, <1>2, <3>1, <3>2, Walk DEF semaphores, Types
  <2> QED
    BY <2>1, <2>2
<1>4. CASE SuspendPause(c)
  <2>1. /\ At(c, "suspendPause", "idle") /\ pause' = 0 /\ state' = "Suspended" /\ cs' = {}
        /\ UNCHANGED <<id, started, stop, stopped, thread, wpc, joined>>
    BY <1>4 DEF SuspendPause, worker
  <2>2. /\ pc[c] = "suspendPause" /\ pc' \in [Controllers -> CallerPcs] /\ pc'[c] = "idle"
        /\ \A d \in Controllers \ {c} : pc'[d] = pc[d]
        /\ asked' = asked
    BY <1>2, <2>1, Moved
  <2>3. /\ cs = {c} /\ state = "Running" /\ thread \in Workers
        /\ wpc[thread] \notin Gone \cup {"born"}
        /\ \A w \in Workers : wpc[w] \notin {"finalId", "finalUnlock"}
    BY <1>1, <2>2 DEF Caller
  <2>4. Types'
    BY <1>1, <2>1, <2>2 DEF Types, States
  <2>5. ASSUME NEW d \in Controllers PROVE Caller(d)'
    <3>1. Caller(d)
      BY DEF IInv, Core
    <3> QED
      BY <2>1, <2>2, <2>3, <3>1
         DEF Caller, StartPcs, Preparing, Quiet
  <2>6. ASSUME NEW w \in Workers PROVE Thread(w)'
    <3>1. Thread(w)
      BY DEF IInv, Core
    <3> QED
      BY <2>1, <2>2, <2>3, <3>1 DEF Thread
  <2>7. Told'
    BY <1>1, <2>1, <2>2, <2>3 DEF Told, Quiet
  <2> QED
    BY <2>4, <2>5, <2>6, <2>7 DEF IInv, Core
<1>5. CASE Resume(c)
  <2>1. PICK from \in {"resume", "startResume"} : At(c, from, "idle")
    BY <1>5 DEF Resume
  <2>2. cs = {} /\ UNCHANGED <<cs, id, started, stop, stopped, worker>>
    BY <1>5 DEF Resume, Locked
  <2>3. CASE state = "Suspended"
    <3>1. /\ state' = "Running" /\ pause' = 1
          /\ UNCHANGED <<id, cs, started, stop, stopped, thread, wpc, joined>>
      BY <1>5, <2>2, <2>3 DEF Resume, worker
    <3>2. /\ pc[c] = from /\ pc' \in [Controllers -> CallerPcs] /\ pc'[c] = "idle"
          /\ \A d \in Controllers \ {c} : pc'[d] = pc[d]
          /\ asked' = asked
      BY <1>2, <2>1, Moved
    <3>3. Types'
      BY <1>1, <3>1, <3>2 DEF Types, States
    <3>4. ASSUME NEW d \in Controllers PROVE Caller(d)'
      <4>1. Caller(d)
        BY DEF IInv, Core
      <4> QED
        BY <2>1, <2>3, <3>1, <3>2, <4>1
           DEF Caller, StartPcs, Preparing, Quiet
    <3>5. ASSUME NEW w \in Workers PROVE Thread(w)'
      <4>1. Thread(w)
        BY DEF IInv, Core
      <4> QED
        BY <2>1, <2>3, <3>1, <3>2, <4>1 DEF Thread
    <3>6. Told'
      BY <1>1, <2>1, <2>3, <3>1, <3>2 DEF Told, Quiet
    <3> QED
      BY <3>3, <3>4, <3>5, <3>6 DEF IInv, Core
  <2>4. CASE state # "Suspended"
    <3>1. UNCHANGED <<state, pause>>
      BY <1>5, <2>4 DEF Resume
    <3>2. Caller(c)'
      BY <1>1, <2>1, <2>2, <3>1
         DEF At, Caller, StartPcs, Preparing, worker, Types
    <3> QED
      BY <1>1, <1>2, <2>1, <2>2, <3>1, <3>2, Walk DEF Types
  <2> QED
    BY <2>3, <2>4
<1> QED
  BY <1>3, <1>4, <1>5 DEF Pausing

\* A call begins.
LEMMA CallStepHolds ==
    ASSUME OneStarter, IInv, NEW c \in Controllers, Call(c)
    PROVE  Core'
<1>1. Caller(c) /\ Types
  BY DEF IInv, Core
<1>2. PICK m \in Ops[c] :
         /\ pc[c] = "idle" /\ pc' = [pc EXCEPT ![c] = m]
         /\ m = "start" => thread < MaxStarts
  BY DEF Call, MayStart
<1>3. m \in Methods /\ m \in CallerPcs
  <2>1. Ops[c] \subseteq Methods
    BY OpsAssumption
  <2> QED
    BY <2>1, Places DEF Methods, StartPcs, StopPcs, StopAndWaitPcs
<1>4. asked' \in [Controllers -> {"Normal", "Suspended"}]
  BY <1>1, OpsAssumption DEF Call, Types
<1>5. /\ UNCHANGED <<state, id, cs, started, pause, stop, stopped, thread, wpc, joined>>
      /\ pc' \in [Controllers -> CallerPcs] /\ pc'[c] = m
      /\ \A d \in Controllers \ {c} : pc'[d] = pc[d]
  BY <1>1, <1>2, <1>3 DEF Call, semaphores, worker, Types
<1>6. Types'
  BY <1>1, <1>4, <1>5 DEF Types
<1>7. ASSUME NEW d \in Controllers PROVE Caller(d)'
  <2>1. Caller(d)
    BY DEF IInv, Core
  <2> QED
    BY <1>2, <1>3, <1>5, <2>1
       DEF Caller, StartPcs, Preparing, Quiet, Methods
<1>8. ASSUME NEW w \in Workers PROVE Thread(w)'
  <2>1. Thread(w)
    BY DEF IInv, Core
  <2> QED
    BY <1>2, <1>5, <2>1 DEF Thread
<1>9. Told'
  BY <1>2, <1>5 DEF IInv, Core, Told, Quiet
<1> QED
  BY <1>6, <1>7, <1>8, <1>9 DEF IInv, Core

-----------------------------------------------------------------------------
(* threadWorker()                                                          *)

\* A thread that has not done its part is the one created last.
LEMMA Last ==
    ASSUME IInv, NEW w \in Workers, wpc[w] \notin Gone \cup {"none"}
    PROVE  w = thread
<1>1. Thread(w) /\ w \in Nat /\ thread \in Nat
  BY OpsAssumption DEF IInv, Core, Types, Workers
<1> QED
  BY <1>1 DEF Thread

\* A step that takes the thread on, in the middle of its work.
LEMMA GoOn ==
    ASSUME IInv, NEW w \in Workers, NEW from, NEW to, Go(w, from, to),
           to \in WorkerPcs \ (Gone \cup {"none", "born", "check", "finalId"}),
           from \notin Gone \cup {"none", "born", "finalId"},
           UNCHANGED <<id, cs, started, stopped>>, pause' \in 0..1, stop' \in 0..1,
           state' = state \/ (cs = {} /\ state' = "Suspended")
    PROVE  Core'
<1>1. Types /\ Told /\ Thread(w)
  BY DEF IInv, Core
<1>2. /\ wpc[w] = from /\ wpc' \in [Workers -> WorkerPcs] /\ wpc'[w] = to
      /\ \A v \in Workers : v # w => wpc'[v] = wpc[v]
      /\ UNCHANGED <<thread, joined, pc, asked>>
  BY <1>1 DEF Go, caller, Types
<1>3. w = thread
  BY <1>2, Last
<1>4. Types'
  BY <1>1, <1>2 DEF Types, States
<1>5. ASSUME NEW d \in Controllers PROVE Caller(d)'
  <2>1. Caller(d)
    BY DEF IInv, Core
  <2> QED
    BY <1>2, <1>3, <2>1 DEF Caller, Quiet, Preparing, Gone
<1>6. ASSUME NEW v \in Workers PROVE Thread(v)'
  <2>1. Thread(v) /\ v \in Nat /\ thread \in Nat
    BY <1>1, OpsAssumption DEF IInv, Core, Types, Workers
  <2>2. CASE v = w
    BY <1>1, <1>2, <1>3, <2>1, <2>2 DEF Thread, Gone
  <2>3. CASE v # w
    BY <1>2, <1>3, <2>1, <2>3 DEF Thread, Gone
  <2> QED
    BY <2>2, <2>3
<1>7. Told'
  BY <1>1, <1>2, <1>3 DEF Told, Quiet
<1> QED
  BY <1>4, <1>5, <1>6, <1>7 DEF IInv, Core

\* The last steps: m_cs is taken, m_id is reset, m_cs is released, the end.
LEMMA EndStep ==
    ASSUME IInv, NEW w \in Workers, Final(w) \/ FinalId(w) \/ FinalUnlock(w) \/ ThreadExit(w)
    PROVE  Core'
<1>1. Types /\ Told /\ Thread(w) /\ w \in Nat /\ thread \in Nat /\ MaxStarts \in Nat
  BY OpsAssumption DEF IInv, Core, Types, Workers
<1>2. CASE Final(w)
  <2>1. /\ cs = {} /\ cs' = {w} /\ stop' = 1 /\ pause' = 1 /\ stopped' = 1
        /\ UNCHANGED <<state, id, started>> /\ Go(w, "final", "finalId")
    BY <1>2 DEF Final
  <2>2. /\ wpc[w] = "final" /\ wpc' \in [Workers -> WorkerPcs] /\ wpc'[w] = "finalId"
        /\ \A v \in Workers : v # w => wpc'[v] = wpc[v]
        /\ UNCHANGED <<thread, joined, pc, asked>>
    BY <1>1, <2>1 DEF Go, caller, Types, WorkerPcs
  <2>3. w = thread
    BY <2>2, Last DEF Gone
  <2>4. Types'
    BY <1>1, <2>1, <2>2 DEF Types
  <2>5. ASSUME NEW d \in Controllers PROVE Caller(d)'
    <3>1. Caller(d)
      BY DEF IInv, Core
    <3> QED
      BY <2>1, <2>2, <2>3, <3>1 DEF Caller, Quiet, Preparing, Gone
  <2>6. ASSUME NEW v \in Workers PROVE Thread(v)'
    <3>1. Thread(v) /\ v \in Nat
      BY DEF IInv, Core, Workers
    <3>2. v # w => wpc[v] \in Gone \cup {"none"}
      BY <1>1, <2>3, <3>1 DEF Thread
    <3> QED
      BY <1>1, <2>1, <2>2, <2>3, <3>1, <3>2 DEF Thread, Gone
  <2>7. Told'
    BY <1>1, <2>1, <2>2, <2>3 DEF Told, Quiet, Gone
  <2> QED
    BY <2>4, <2>5, <2>6, <2>7 DEF IInv, Core
<1>3. CASE FinalId(w)
  <2>1. /\ state' = "None" /\ id' = 0 /\ Go(w, "finalId", "finalUnlock")
        /\ UNCHANGED <<cs, started, pause, stop, stopped>>
    BY <1>3 DEF FinalId, semaphores
  <2>2. /\ wpc[w] = "finalId" /\ wpc' \in [Workers -> WorkerPcs] /\ wpc'[w] = "finalUnlock"
        /\ \A v \in Workers : v # w => wpc'[v] = wpc[v]
        /\ UNCHANGED <<thread, joined, pc, asked>>
    BY <1>1, <2>1 DEF Go, caller, Types, WorkerPcs
  <2>3. w = thread
    BY <2>2, Last DEF Gone
  <2>4. Types'
    BY <1>1, <2>1, <2>2 DEF Types, States
  <2>5. ASSUME NEW d \in Controllers PROVE Caller(d)'
    <3>1. Caller(d)
      BY DEF IInv, Core
    <3> QED
      BY <2>1, <2>2, <2>3, <3>1 DEF Caller, Quiet, Preparing, Gone
  <2>6. ASSUME NEW v \in Workers PROVE Thread(v)'
    <3>1. Thread(v) /\ v \in Nat
      BY DEF IInv, Core, Workers
    <3>2. v # w => wpc[v] \in Gone \cup {"none"}
      BY <1>1, <2>3, <3>1 DEF Thread
    <3> QED
      BY <1>1, <2>1, <2>2, <2>3, <3>1, <3>2 DEF Thread, Gone
  <2>7. Told'
    BY <2>1, <2>2, <2>3 DEF Told, Quiet, Gone
  <2> QED
    BY <2>4, <2>5, <2>6, <2>7 DEF IInv, Core
<1>4. CASE FinalUnlock(w)
  <2>1. /\ cs' = {} /\ Go(w, "finalUnlock", "exiting")
        /\ UNCHANGED <<state, id, started, pause, stop, stopped>>
    BY <1>4 DEF FinalUnlock, semaphores
  <2>2. /\ wpc[w] = "finalUnlock" /\ wpc' \in [Workers -> WorkerPcs] /\ wpc'[w] = "exiting"
        /\ \A v \in Workers : v # w => wpc'[v] = wpc[v]
        /\ UNCHANGED <<thread, joined, pc, asked>>
    BY <1>1, <2>1 DEF Go, caller, Types, WorkerPcs
  <2>3. cs = {w} /\ \A v \in Workers : wpc[v] \in {"finalId", "finalUnlock"} => v = w
    BY <2>2 DEF IInv, Core, Thread
  <2>4. Types'
    BY <1>1, <2>1, <2>2 DEF Types
  <2>5. ASSUME NEW d \in Controllers PROVE Caller(d)'
    <3>1. Caller(d)
      BY DEF IInv, Core
    <3> QED
      BY <2>1, <2>2, <3>1 DEF Caller, Quiet, Preparing, Gone
  <2>6. ASSUME NEW v \in Workers PROVE Thread(v)'
    <3>1. Thread(v)
      BY DEF IInv, Core
    <3> QED
      BY <2>1, <2>2, <2>3, <3>1 DEF Thread, Gone
  <2>7. Told'
    BY <1>1, <2>1, <2>2 DEF Told, Quiet, Gone
  <2> QED
    BY <2>4, <2>5, <2>6, <2>7 DEF IInv, Core
<1>5. CASE ThreadExit(w)
  <2>1. /\ Go(w, "exiting", "ended")
        /\ UNCHANGED <<state, id, cs, started, pause, stop, stopped>>
    BY <1>5 DEF ThreadExit, semaphores
  <2>2. /\ wpc[w] = "exiting" /\ wpc' \in [Workers -> WorkerPcs] /\ wpc'[w] = "ended"
        /\ \A v \in Workers : v # w => wpc'[v] = wpc[v]
        /\ UNCHANGED <<thread, joined, pc, asked>>
    BY <1>1, <2>1 DEF Go, caller, Types, WorkerPcs
  <2>3. Types'
    BY <1>1, <2>1, <2>2 DEF Types
  <2>4. ASSUME NEW d \in Controllers PROVE Caller(d)'
    <3>1. Caller(d)
      BY DEF IInv, Core
    <3> QED
      BY <2>1, <2>2, <3>1 DEF Caller, Quiet, Preparing, Gone
  <2>5. ASSUME NEW v \in Workers PROVE Thread(v)'
    <3>1. Thread(v)
      BY DEF IInv, Core
    <3> QED
      BY <2>1, <2>2, <3>1 DEF Thread, Gone
  <2>6. Told'
    BY <1>1, <2>1, <2>2 DEF Told, Quiet, Gone
  <2> QED
    BY <2>3, <2>4, <2>5, <2>6 DEF IInv, Core
<1> QED
  BY <1>2, <1>3, <1>4, <1>5

LEMMA WorkerStep ==
    ASSUME OneStarter, IInv, NEW w \in Workers, ThreadWorker(w)
    PROVE  Core'
<1>1. Types /\ Told /\ Thread(w) /\ w \in Nat /\ thread \in Nat /\ MaxStarts \in Nat
  BY OpsAssumption DEF IInv, Core, Types, Workers
<1>2. CASE RunningSet(w)
  <2>1. /\ cs = {} /\ cs' = cs /\ state' = "Running" /\ started' = 1
        /\ UNCHANGED <<id, pause, stop, stopped>> /\ Go(w, "born", "check")
    BY <1>2 DEF RunningSet, Locked
  <2>2. /\ wpc[w] = "born" /\ wpc' \in [Workers -> WorkerPcs] /\ wpc'[w] = "check"
        /\ \A v \in Workers : v # w => wpc'[v] = wpc[v]
        /\ UNCHANGED <<thread, joined, pc, asked>>
    BY <1>1, <2>1 DEF Go, caller, Types, WorkerPcs
  <2>3. w = thread
    BY <2>2, Last DEF Gone
  <2>4. Types'
    BY <1>1, <2>1, <2>2 DEF Types, States
  <2>5. ASSUME NEW d \in Controllers PROVE Caller(d)'
    <3>1. Caller(d)
      BY DEF IInv, Core
    <3> QED
      BY <2>1, <2>2, <2>3, <3>1 DEF Caller, Quiet, Preparing, Gone
  <2>6. ASSUME NEW v \in Workers PROVE Thread(v)'
    <3>1. Thread(v) /\ v \in Nat
      BY DEF IInv, Core, Workers
    <3>2. v # w => wpc[v] \in Gone \cup {"none"}
      BY <1>1, <2>3, <3>1 DEF Thread
    <3> QED
      BY <1>1, <2>1, <2>2, <2>3, <3>1, <3>2 DEF Thread, Gone
  <2>7. Told'
    BY <1>1, <2>1, <2>2, <2>3 DEF Told, Quiet, Gone
  <2> QED
    BY <2>4, <2>5, <2>6, <2>7 DEF IInv, Core
<1>3. CASE CheckPause(w)
  <2>1. PICK to \in {"checkRepost", "checkSuspend"} : Go(w, "check", to)
    BY <1>3 DEF CheckPause
  <2> QED
    BY <1>1, <1>3, <2>1, GoOn DEF CheckPause, Types, WorkerPcs, Gone
<1>4. CASE CheckSuspend(w)
  BY <1>1, <1>4, GoOn DEF CheckSuspend, Locked, semaphores, Types, WorkerPcs, Gone
<1>5. CASE PauseWait(w)
  <2>1. PICK from \in {"startPause", "pause"}, to \in {"startRepost", "pauseRepost"} : Go(w, from, to)
    BY <1>5 DEF PauseWait
  <2> QED
    BY <1>1, <1>5, <2>1, GoOn DEF PauseWait, Types, WorkerPcs, Gone
<1>6. CASE PauseRepost(w)
  <2>1. PICK from \in {"checkRepost", "startRepost", "pauseRepost"},
             to \in {"startPause", "enter", "stopWait"} : Go(w, from, to)
    BY <1>6 DEF PauseRepost
  <2> QED
    BY <1>1, <1>6, <2>1, GoOn DEF PauseRepost, Types, WorkerPcs, Gone
<1>7. CASE Enter(w)
  <2>1. PICK to \in {"work", "result"} : Go(w, "enter", to)
    BY <1>7 DEF Enter
  <2> QED
    BY <1>1, <1>7, <2>1, GoOn DEF Enter, semaphores, Types, WorkerPcs, Gone
<1>8. CASE Work(w)
  <2>1. PICK to \in {"pause", "result"} : Go(w, "work", to)
    BY <1>8 DEF Work
  <2> QED
    BY <1>1, <1>8, <2>1, GoOn DEF Work, semaphores, Types, WorkerPcs, Gone
<1>9. CASE StopWait(w)
  <2>1. PICK to \in {"stopRepost", "work"} : Go(w, "stopWait", to)
    BY <1>9 DEF StopWait
  <2> QED
    BY <1>1, <1>9, <2>1, GoOn DEF StopWait, Types, WorkerPcs, Gone
<1>10. CASE StopRepost(w)
  BY <1>1, <1>10, GoOn DEF StopRepost, Types, WorkerPcs, Gone
<1>11. CASE ResultSet(w)
  <2>1. PICK from \in {"result", "exitResult"}, to \in {"exit", "final"} : Go(w, from, to)
    BY <1>11 DEF ResultSet
  <2> QED
    BY <1>1, <1>11, <2>1, GoOn DEF ResultSet, Locked, semaphores, Types, WorkerPcs, Gone
<1>12. CASE ExitWorker(w)
  <2>1. PICK to \in {"final", "exitResult"} : Go(w, "exit", to)
    BY <1>12 DEF ExitWorker
  <2> QED
    BY <1>1, <1>12, <2>1, GoOn DEF ExitWorker, semaphores, Types, WorkerPcs, Gone
<1> QED
  BY <1>2, <1>3, <1>4, <1>5, <1>6, <1>7, <1>8, <1>9, <1>10, <1>11, <1>12, EndStep
     DEF ThreadWorker

-----------------------------------------------------------------------------
(* The invariant and what follows from it                                  *)

LEMMA InitHolds ==
    ASSUME Init
    PROVE  IInv
<1>1. MaxStarts \in Nat /\ Workers \subseteq Nat \ {0}
  BY OpsAssumption DEF Workers
<1>2. Types
  BY <1>1, Places DEF Init, Types, States, WorkerPcs
<1>3. ASSUME NEW c \in Controllers PROVE Caller(c)
  BY DEF Init, Caller, StartPcs, Preparing
<1>4. ASSUME NEW w \in Workers PROVE Thread(w)
  BY <1>1 DEF Init, Thread
<1>5. Told
  BY <1>1 DEF Init, Told, Quiet
<1>6. StartsAlone
  BY DEF Init, StartsAlone, StartPcs
<1> QED
  BY <1>2, <1>3, <1>4, <1>5, <1>6 DEF IInv, Core

LEMMA NextHolds ==
    ASSUME OneStarter, IInv, [Next]_vars
    PROVE  IInv'
<1>1. ASSUME UNCHANGED vars PROVE Core'
  BY <1>1 DEF vars, semaphores, worker, caller, IInv, Core, Types, Caller, Thread, Told, Quiet
<1>2. ASSUME NEW c \in Controllers, Call(c) \/ CallStep(c) PROVE Core'
  BY <1>2, CallStepHolds, StartStep, CleanupStep, StopStep, PausingStep DEF CallStep
<1>3. ASSUME NEW w \in Workers, ThreadWorker(w) PROVE Core'
  BY <1>3, WorkerStep
<1>4. StartsAlone'
  BY AloneKept
<1> QED
  BY <1>1, <1>2, <1>3, <1>4 DEF Next, IInv

LEMMA Invariance == OneStarter => (Spec => []IInv)
<1> SUFFICES ASSUME OneStarter PROVE Spec => []IInv
  OBVIOUS
<1>1. Init => IInv
  BY InitHolds
<1>2. IInv /\ [Next]_vars => IInv'
  BY NextHolds
<1> QED
  BY <1>1, <1>2, PTL DEF Spec

\* Every variable of an EsThread object keeps its range.
THEOREM TypeCorrect == OneStarter => (Spec => []TypeOK)
<1> SUFFICES ASSUME OneStarter PROVE Spec => []TypeOK
  OBVIOUS
<1>1. IInv => TypeOK
  BY DEF IInv, Core, Types, TypeOK
<1> QED
  BY <1>1, Invariance, PTL

\* With one starter an object never runs two workers at once, however many
\* threads stop, suspend, resume and wait for them.
THEOREM OneWorker == OneStarter => (Spec => []AtMostOneWorker)
<1> SUFFICES ASSUME OneStarter PROVE Spec => []AtMostOneWorker
  OBVIOUS
<1>1. IInv => AtMostOneWorker
  <2> SUFFICES ASSUME IInv PROVE AtMostOneWorker
    OBVIOUS
  <2>1. Executing \subseteq {thread}
    BY Last DEF Executing, Gone
  <2>2. Cardinality(Executing) <= 1
    <3>1. Executing = {} \/ Executing = {thread}
      BY <2>1
    <3>2. Cardinality({}) = 0 /\ Cardinality({thread}) = 1
      BY FS_EmptySet, FS_Singleton
    <3>3. Cardinality(Executing) \in {0, 1}
      BY <3>1, <3>2
    <3> QED
      BY <3>3
  <2> QED
    BY <2>2 DEF AtMostOneWorker
<1> QED
  BY <1>1, Invariance, PTL

\* With one starter no thread starts with a signal meant for the one before.
THEOREM StartsClean == OneStarter => (Spec => []FreshStop)
<1> SUFFICES ASSUME OneStarter PROVE Spec => []FreshStop
  OBVIOUS
<1>1. IInv => FreshStop
  BY DEF IInv, Core, Thread, FreshStop
<1> QED
  BY <1>1, Invariance, PTL

-----------------------------------------------------------------------------
(* Stopping is final                                                       *)

\* m_state leaves "Stopping" for "None", or for what a thread makes of it
\* that suspends its start.
LEMMA StoppingStays ==
    ASSUME IInv, Next, state = "Stopping"
    PROVE  state' \in {"Stopping", "None"} \/ \E w \in Workers : CheckSuspend(w)
<1>1. ASSUME NEW c \in Controllers, Call(c) \/ CallStep(c)
      PROVE  state' \in {"Stopping", "None"}
  <2>1. Caller(c)
    BY DEF IInv, Core
  <2>2. CASE Call(c) \/ Start(c)
    BY <2>2 DEF Call, Start, StartState, StartPause, StartCreate, StartId, StartWait
  <2>3. CASE Cleanup(c)
    BY <2>3 DEF Cleanup, CleanupCheck, CleanupJoin, CleanupReset
  <2>4. CASE Stop(c)
    BY <2>4 DEF Stop, StopCheck, StopLocked, WaitState, WaitSet, WaitStopped, WaitRepost, Stopping
  <2>5. CASE Pausing(c)
    <3>1. pc[c] # "suspendPause"
      BY <2>1 DEF Caller
    <3> QED
      BY <2>5, <3>1 DEF Pausing, Suspend, SuspendPause, Resume, At
  <2> QED
    BY <1>1, <2>2, <2>3, <2>4, <2>5 DEF CallStep
<1>2. ASSUME NEW w \in Workers, ThreadWorker(w), ~CheckSuspend(w)
      PROVE  state' \in {"Stopping", "None"}
  <2>1. Thread(w)
    BY DEF IInv, Core
  <2>2. wpc[w] # "born"
    BY <2>1 DEF Thread
  <2> QED
    BY <1>2, <2>2
       DEF ThreadWorker, RunningSet, CheckPause, PauseWait, PauseRepost, Enter, Work,
           StopWait, StopRepost, ResultSet, ExitWorker, Final, FinalId, FinalUnlock,
           ThreadExit, Go, semaphores
<1> QED
  BY <1>1, <1>2 DEF Next

\* With one starter a thread asked to stop is neither resumed nor suspended,
\* except by itself at the end of startSuspendedCheck().
THEOREM StopsForGood == OneStarter => (Spec => StoppingIsFinal)
<1> SUFFICES ASSUME OneStarter PROVE Spec => StoppingIsFinal
  OBVIOUS
<1>1. IInv /\ [Next]_vars => [state = "Stopping" => \/ state' \in {"Stopping", "None"}
                                                   \/ \E w \in Workers : CheckSuspend(w)]_vars
  BY StoppingStays
<1> QED
  BY <1>1, Invariance, PTL DEF Spec, StoppingIsFinal
=============================================================================
