------------------------- MODULE CountingSemaphore -------------------------
(* What EsSemaphore promises its callers: a bounded count that a post      *)
(* raises in one step and a wait lowers, and never more waits granted than *)
(* the count covers.  Waits are granted before the count is lowered, so a  *)
(* post that arrives in between may still find the semaphore full: it is   *)
(* then ignored, as a post at the limit is.  What a caller is told of a    *)
(* call without effect is a parameter: the header and the code differ.     *)
EXTENDS Integers, FiniteSets

CONSTANTS Users, Initial, Limit,
          Refusal,  \* Refusal[c]: what a refused wait c returns
          Ignored   \* what a post without effect returns

VARIABLES count,    \* the semaphore's count
          effected, \* users whose call had its effect and has not returned
          asked,    \* the call each user makes, or made last
          outcome,  \* what it returned, "none" while it runs
          failed    \* a granted wait has failed: the count is wrong for good

vars == <<count, effected, asked, outcome, failed>>

WaitCalls == {"wait", "tryWait", "timedWait"}
granted == {u \in effected : asked[u] \in WaitCalls}

Init ==
    /\ count = Initial
    /\ effected = {}
    /\ asked = [u \in Users |-> "post"]
    /\ outcome = [u \in Users |-> "none"]
    /\ failed = FALSE

Answer(u, r) == outcome' = [outcome EXCEPT ![u] = r]

Ask(u) ==
    /\ u \notin effected
    /\ \E c \in WaitCalls \cup {"post"} : asked' = [asked EXCEPT ![u] = c]
    /\ Answer(u, "none")
    /\ UNCHANGED <<count, effected>>

Unanswered(u, calls) ==
    u \notin effected /\ asked[u] \in calls /\ outcome[u] = "none"

Post(u) ==
    /\ Unanswered(u, {"post"})
    /\ count < Limit
    /\ count' = count + 1
    /\ effected' = effected \cup {u}
    /\ UNCHANGED <<asked, outcome>>

PostReturn(u) ==
    /\ u \in effected \ granted
    /\ effected' = effected \ {u}
    /\ Answer(u, "Ok")
    /\ UNCHANGED <<count, asked>>

PostIgnored(u) ==
    /\ Unanswered(u, {"post"})
    /\ count = Limit
    /\ Answer(u, Ignored)
    /\ UNCHANGED <<count, effected, asked>>

Grant(u) ==
    /\ Unanswered(u, WaitCalls)
    /\ Cardinality(granted) < count
    /\ effected' = effected \cup {u}
    /\ UNCHANGED <<count, asked, outcome>>

WaitReturn(u) ==
    /\ u \in granted
    /\ count' = count - 1
    /\ effected' = effected \ {u}
    /\ Answer(u, "Ok")
    /\ UNCHANGED asked

\* tryWait() is refused only when every token is granted already.
Refuse(u) ==
    /\ Unanswered(u, WaitCalls)
    /\ asked[u] = "tryWait" => count = Cardinality(granted)
    /\ Answer(u, Refusal[asked[u]])
    /\ UNCHANGED <<count, effected, asked>>

\* A granted wait reports an error: its token is gone, and still counted.
WaitFails(u) ==
    /\ u \in granted
    /\ failed' = TRUE
    /\ effected' = effected \ {u}
    /\ Answer(u, "Error")
    /\ UNCHANGED <<count, asked>>

\* Nothing is promised of a semaphore that has failed a granted wait.
Next ==
    \/ \E u \in Users :
          \/ /\ \/ Ask(u) \/ Post(u) \/ PostReturn(u) \/ PostIgnored(u)
                \/ Grant(u) \/ WaitReturn(u) \/ Refuse(u)
             /\ UNCHANGED failed
          \/ WaitFails(u)
    \/ failed /\ failed'

Spec == Init /\ [][Next]_vars
=============================================================================
