------------------------ MODULE MCEsEventDispatcher ------------------------
(* An instance of EsEventDispatcher for TLC: an asynchronous subscriber    *)
(* and a synchronous one, in either order of precedence, so that each can  *)
(* consume what the other would be notified of.                            *)
EXTENDS EsEventDispatcher

CONSTANTS async1, sync1

\* The synchronous subscriber covers the first event only.
FirstOnly == [s \in Subs |-> IF s = sync1 THEN {1} ELSE Events]
=============================================================================
