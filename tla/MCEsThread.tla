----------------------------- MODULE MCEsThread -----------------------------
(* Instances of EsThread for TLC: an owner, which starts the thread, and a *)
(* second controller with the methods that other threads may call.         *)
EXTENDS EsThread

CONSTANTS owner, other

AnyStart == {"Normal", "Suspended"}
AtOnce   == {"Normal"}

\* The whole interface but for a second start().
SharedOps == [c \in Controllers |->
                 IF c = owner THEN {"start", "stop", "stopAndWait"}
                              ELSE {"stop", "stopAndWait", "suspend", "resume"}]

\* One starts the thread, and both wait for its end.
WaitOps == [c \in Controllers |->
               {"stopAndWait"} \cup (IF c = owner THEN {"start"} ELSE {})]

\* stop() may come at any moment of a start, and so may the stopAndWait() of
\* the owner once its start() is back.
EagerStops ==
    [ss \in AnyStart |->
        [c \in Controllers |-> {"stop"} \cup (IF c = owner THEN {"stopAndWait"} ELSE {})]]

\* The instances are among those that the theorems are about.
ASSUME UseAssumption == OneStarter

=============================================================================
