-------------------------- MODULE EsAssocContainer --------------------------
(* EsAssocContainer (escore/EsAssocContainer.cpp): nodes with a key and a   *)
(* value in the order they were added, and an index from keys to positions. *)
(* The operations are operators on a container value, for the modules of    *)
(* the components that own one.  Positions count from 1.  Keys are strings: *)
(* a numeric one would be taken for a position by itemDelete().  What the   *)
(* code answers with an exception is a precondition the caller tests.       *)
EXTENDS Naturals, Sequences, SequencesExt

NewContainer == [indexed |-> <<>>, mapped |-> [k \in {} |-> 0]]

KeyExists(c, k) == k \in DOMAIN c.mapped

ValueGet(c, k) == c.indexed[c.mapped[k]].val

AllKeysGet(c) == [i \in DOMAIN c.indexed |-> c.indexed[i].key]

AllValuesGet(c) == [i \in DOMAIN c.indexed |-> c.indexed[i].val]

\* newValueSet(), for a key that does not exist.
NewValueSet(c, k, v) ==
    [indexed |-> Append(c.indexed, [key |-> k, val |-> v]),
     mapped  |-> [x \in DOMAIN c.mapped \cup {k} |->
                    IF x = k THEN Len(c.indexed) + 1 ELSE c.mapped[x]]]

\* keyChange(), for an old key that exists and a new one that does not.
KeyChange(c, old, new) ==
    [indexed |-> [c.indexed EXCEPT ![c.mapped[old]] = [key |-> new, val |-> @.val]],
     mapped  |-> [x \in (DOMAIN c.mapped \ {old}) \cup {new} |->
                    IF x = new THEN c.mapped[old] ELSE c.mapped[x]]]

-----------------------------------------------------------------------------
(* Faulty variants of operators below.                                     *)

\* Renumbering starts behind the node that moved into the gap.
RenumberedLate(indexed, mapped, from) ==
    [x \in DOMAIN mapped |->
        LET at == {i \in (from + 1)..Len(indexed) : indexed[i].key = x}
        IN  IF at = {} THEN mapped[x] ELSE CHOOSE i \in at : TRUE]

-----------------------------------------------------------------------------
\* The loop of internalDelete(): the nodes from a position on are looked up
\* by their keys and told where they are.
Renumbered(indexed, mapped, from) ==
    [x \in DOMAIN mapped |->
        LET at == {i \in from..Len(indexed) : indexed[i].key = x}
        IN  IF at = {} THEN mapped[x] ELSE CHOOSE i \in at : TRUE]

\* itemDelete() and valueDelete(), for a key that exists.
ItemDelete(c, k) ==
    LET idx     == c.mapped[k]
        indexed == RemoveAt(c.indexed, idx)
        mapped  == [x \in DOMAIN c.mapped \ {k} |-> c.mapped[x]]
    IN  [indexed |-> indexed, mapped |-> Renumbered(indexed, mapped, idx)]

-----------------------------------------------------------------------------
\* The two halves agree: each node is where the index says its key is, and
\* the index has no other keys.
Consistent(c) ==
    /\ \A i \in DOMAIN c.indexed :
          /\ c.indexed[i].key \in DOMAIN c.mapped
          /\ c.mapped[c.indexed[i].key] = i
    /\ \A k \in DOMAIN c.mapped :
          /\ c.mapped[k] \in DOMAIN c.indexed
          /\ c.indexed[c.mapped[k]].key = k
=============================================================================
