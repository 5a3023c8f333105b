----------------------- MODULE EsAssocContainerProofs -----------------------
(* The operations of EsAssocContainer keep its nodes and its index in step, *)
(* whatever the keys and values are.                                        *)
EXTENDS EsAssocContainer, SequenceTheorems, TLAPS

Nodes(K, V) == [key : K, val : V]

Container(c, K, V) == c.indexed \in Seq(Nodes(K, V)) /\ Consistent(c)

\* What is left of a sequence when one element is taken out.
LEMMA RemoveAtProperties ==
    ASSUME NEW S, NEW s \in Seq(S), NEW idx \in 1..Len(s)
    PROVE  /\ RemoveAt(s, idx) \in Seq(S)
           /\ Len(RemoveAt(s, idx)) = Len(s) - 1
           /\ \A i \in 1..(Len(s) - 1) :
                 RemoveAt(s, idx)[i] = IF i < idx THEN s[i] ELSE s[i + 1]
<1> DEFINE before == SubSeq(s, 1, idx - 1)
           after  == SubSeq(s, idx + 1, Len(s))
<1>1. Len(s) \in Nat /\ idx \in Int /\ \A i \in 1..Len(s) : s[i] \in S
  OBVIOUS
<1>2. /\ before \in Seq(S) /\ Len(before) = idx - 1
      /\ \A i \in 1..(idx - 1) : before[i] = s[i]
  <2>1. \A i \in 1..(idx - 1) : s[i] \in S
    BY <1>1
  <2>2. /\ before \in Seq(S)
        /\ Len(before) = IF 1 <= idx - 1 THEN (idx - 1) - 1 + 1 ELSE 0
        /\ \A i \in 1..((idx - 1) - 1 + 1) : before[i] = s[1 + i - 1]
    BY <1>1, <2>1, SubSeqProperties
  <2>3. idx - 1 \in Nat /\ (idx - 1) - 1 + 1 = idx - 1 /\ \A i \in Int : 1 + i - 1 = i
    BY <1>1
  <2> HIDE DEF before, after
  <2>4. Len(before) = idx - 1
    BY <1>1, <2>2, <2>3
  <2>5. ASSUME NEW i \in 1..(idx - 1) PROVE before[i] = s[i]
    BY <2>2, <2>3
  <2> QED
    BY <2>2, <2>4, <2>5
<1>3. /\ after \in Seq(S) /\ Len(after) = Len(s) - idx
      /\ \A i \in 1..(Len(s) - idx) : after[i] = s[idx + i]
  <2>1. \A i \in (idx + 1)..Len(s) : s[i] \in S
    BY <1>1
  <2>2. /\ after \in Seq(S)
        /\ Len(after) = IF idx + 1 <= Len(s) THEN Len(s) - (idx + 1) + 1 ELSE 0
        /\ \A i \in 1..(Len(s) - (idx + 1) + 1) : after[i] = s[(idx + 1) + i - 1]
    BY <1>1, <2>1, SubSeqProperties
  <2> HIDE DEF after
  <2> QED
    BY <1>1, <2>2
<1>4. RemoveAt(s, idx) = before \o after
  BY DEF RemoveAt
<1> HIDE DEF before, after
<1>5. /\ before \o after \in Seq(S)
      /\ Len(before \o after) = Len(before) + Len(after)
      /\ \A i \in 1..(Len(before) + Len(after)) : (before \o after)[i] =
            IF i <= Len(before) THEN before[i] ELSE after[i - Len(before)]
  BY <1>2, <1>3, ConcatProperties
<1> QED
  BY <1>1, <1>2, <1>3, <1>4, <1>5

\* An empty container is consistent.
LEMMA NewContainerConsistent ==
    ASSUME NEW K, NEW V
    PROVE  Container(NewContainer, K, V) /\ DOMAIN NewContainer.mapped = {}
  BY DEF Container, Consistent, NewContainer

\* No two nodes have the same key.
LEMMA KeysDistinct ==
    ASSUME NEW c, Consistent(c),
           NEW i \in DOMAIN c.indexed, NEW j \in DOMAIN c.indexed,
           c.indexed[i].key = c.indexed[j].key
    PROVE  i = j
  BY DEF Consistent

\* newValueSet() of a key that is not there.
LEMMA NewValueSetConsistent ==
    ASSUME NEW K, NEW V, NEW c, Container(c, K, V),
           NEW k \in K, NEW v \in V, ~KeyExists(c, k)
    PROVE  /\ Container(NewValueSet(c, k, v), K, V)
           /\ DOMAIN NewValueSet(c, k, v).mapped = DOMAIN c.mapped \cup {k}
<1> DEFINE s == c.indexed
           n == NewValueSet(c, k, v)
<1>1. /\ n.indexed = Append(s, [key |-> k, val |-> v])
      /\ n.mapped = [x \in DOMAIN c.mapped \cup {k} |->
                       IF x = k THEN Len(s) + 1 ELSE c.mapped[x]]
  BY DEF NewValueSet
<1>2. s \in Seq(Nodes(K, V)) /\ DOMAIN s = 1..Len(s) /\ Len(s) \in Nat
  BY DEF Container
<1>3. /\ n.indexed \in Seq(Nodes(K, V))
      /\ DOMAIN n.indexed = 1..(Len(s) + 1)
      /\ n.indexed[Len(s) + 1] = [key |-> k, val |-> v]
      /\ \A i \in 1..Len(s) : n.indexed[i] = s[i]
  BY <1>1, <1>2 DEF Nodes
<1>4. DOMAIN n.mapped = DOMAIN c.mapped \cup {k}
  BY <1>1
<1>5. ASSUME NEW i \in DOMAIN n.indexed
      PROVE  n.indexed[i].key \in DOMAIN n.mapped /\ n.mapped[n.indexed[i].key] = i
  <2>1. CASE i = Len(s) + 1
    BY <2>1, <1>1, <1>3
  <2>2. CASE i \in 1..Len(s)
    <3>1. n.indexed[i] = s[i] /\ s[i].key \in DOMAIN c.mapped
          /\ c.mapped[s[i].key] = i
      BY <2>2, <1>2, <1>3 DEF Container, Consistent
    <3> QED
      BY <3>1, <1>1 DEF KeyExists
  <2> QED
    BY <2>1, <2>2, <1>2, <1>3, <1>5
<1>6. ASSUME NEW x \in DOMAIN n.mapped
      PROVE  n.mapped[x] \in DOMAIN n.indexed /\ n.indexed[n.mapped[x]].key = x
  <2>1. CASE x = k
    BY <2>1, <1>1, <1>2, <1>3
  <2>2. CASE x # k
    <3>1. /\ x \in DOMAIN c.mapped /\ n.mapped[x] = c.mapped[x]
          /\ c.mapped[x] \in 1..Len(s) /\ s[c.mapped[x]].key = x
      BY <2>2, <1>1, <1>2, <1>4, <1>6 DEF Container, Consistent
    <3> QED
      BY <3>1, <1>2, <1>3
  <2> QED
    BY <2>1, <2>2
<1> QED
  BY <1>3, <1>4, <1>5, <1>6 DEF Container, Consistent

\* keyChange() from a key that is there to one that is not.
LEMMA KeyChangeConsistent ==
    ASSUME NEW K, NEW V, NEW c, Container(c, K, V),
           NEW old, NEW new \in K, KeyExists(c, old), ~KeyExists(c, new)
    PROVE  /\ Container(KeyChange(c, old, new), K, V)
           /\ DOMAIN KeyChange(c, old, new).mapped
                = (DOMAIN c.mapped \ {old}) \cup {new}
<1> DEFINE s == c.indexed
           at == c.mapped[old]
           n == KeyChange(c, old, new)
<1>1. /\ n.indexed = [s EXCEPT ![at] = [key |-> new, val |-> @.val]]
      /\ n.mapped = [x \in (DOMAIN c.mapped \ {old}) \cup {new} |->
                       IF x = new THEN at ELSE c.mapped[x]]
  BY DEF KeyChange
<1>2. /\ s \in Seq(Nodes(K, V)) /\ DOMAIN s = 1..Len(s) /\ Len(s) \in Nat
      /\ at \in DOMAIN s /\ s[at].key = old
  BY DEF Container, Consistent, KeyExists
<1>3. /\ DOMAIN n.indexed = DOMAIN s
      /\ n.indexed[at].key = new
      /\ \A i \in DOMAIN s : i # at => n.indexed[i] = s[i]
      /\ n.indexed \in Seq(Nodes(K, V))
  <2> DEFINE e == [key |-> new, val |-> s[at].val]
  <2>1. s[at] \in Nodes(K, V)
    BY <1>2
  <2>2. e \in Nodes(K, V) /\ e.key = new
    BY <2>1 DEF Nodes
  <2>3. n.indexed = [s EXCEPT ![at] = e]
    BY <1>1
  <2> HIDE DEF e, s, at, n
  <2> QED
    BY <1>2, <2>2, <2>3, ExceptSeq
<1>4. ASSUME NEW i \in DOMAIN n.indexed
      PROVE  n.indexed[i].key \in DOMAIN n.mapped /\ n.mapped[n.indexed[i].key] = i
  <2>1. CASE i = at
    BY <2>1, <1>1, <1>3
  <2>2. CASE i # at
    <3>1. /\ n.indexed[i] = s[i] /\ s[i].key \in DOMAIN c.mapped
          /\ c.mapped[s[i].key] = i /\ s[i].key # old
      BY <2>2, <1>2, <1>3, <1>4 DEF Container, Consistent
    <3> QED
      BY <3>1, <1>1 DEF KeyExists
  <2> QED
    BY <2>1, <2>2
<1>5. ASSUME NEW x \in DOMAIN n.mapped
      PROVE  n.mapped[x] \in DOMAIN n.indexed /\ n.indexed[n.mapped[x]].key = x
  <2>1. CASE x = new
    BY <2>1, <1>1, <1>2, <1>3
  <2>2. CASE x # new
    <3>1. /\ x \in DOMAIN c.mapped /\ x # old /\ n.mapped[x] = c.mapped[x]
          /\ c.mapped[x] \in DOMAIN s /\ s[c.mapped[x]].key = x
      BY <2>2, <1>1, <1>5 DEF Container, Consistent
    <3> QED
      BY <3>1, <1>2, <1>3
  <2> QED
    BY <2>1, <2>2
<1> QED
  BY <1>1, <1>3, <1>4, <1>5 DEF Container, Consistent

\* internalDelete(): the loop that renumbers the nodes behind the gap leaves
\* every position right, because no two nodes have the same key.
LEMMA ItemDeleteConsistent ==
    ASSUME NEW K, NEW V, NEW c, Container(c, K, V),
           NEW k, KeyExists(c, k)
    PROVE  /\ Container(ItemDelete(c, k), K, V)
           /\ DOMAIN ItemDelete(c, k).mapped = DOMAIN c.mapped \ {k}
<1> DEFINE s == c.indexed
           idx == c.mapped[k]
           r == RemoveAt(s, idx)
           At(x) == {i \in idx..Len(r) : r[i].key = x}
           n == ItemDelete(c, k)
<1>1. /\ n.indexed = r
      /\ n.mapped = [x \in DOMAIN c.mapped \ {k} |->
                       IF At(x) = {} THEN c.mapped[x] ELSE CHOOSE i \in At(x) : TRUE]
  BY DEF ItemDelete, Renumbered
<1>2. /\ s \in Seq(Nodes(K, V)) /\ DOMAIN s = 1..Len(s) /\ Len(s) \in Nat
      /\ idx \in 1..Len(s) /\ s[idx].key = k
  BY DEF Container, Consistent, KeyExists
<1>3. /\ r \in Seq(Nodes(K, V))
      /\ DOMAIN r = 1..(Len(s) - 1) /\ Len(r) = Len(s) - 1
      /\ \A i \in 1..(Len(s) - 1) : r[i] = IF i < idx THEN s[i] ELSE s[i + 1]
  <2> HIDE DEF s, idx
  <2>1. /\ r \in Seq(Nodes(K, V)) /\ Len(r) = Len(s) - 1
        /\ \A i \in 1..(Len(s) - 1) : r[i] = IF i < idx THEN s[i] ELSE s[i + 1]
    BY <1>2, RemoveAtProperties
  <2> HIDE DEF r
  <2> QED
    BY <2>1
<1>4. /\ \A i \in 1..Len(s) : s[i].key \in DOMAIN c.mapped /\ c.mapped[s[i].key] = i
      /\ \A x \in DOMAIN c.mapped : /\ c.mapped[x] \in 1..Len(s)
                                     /\ s[c.mapped[x]].key = x
  BY <1>2 DEF Container, Consistent
<1> HIDE DEF s, idx, r, n
<1>5. ASSUME NEW i \in 1..(Len(s) - 1)
      PROVE  /\ r[i].key \in DOMAIN c.mapped \ {k}
             /\ n.mapped[r[i].key] = i
  <2>1. CASE i < idx
    <3>1. /\ r[i] = s[i] /\ i \in 1..Len(s) /\ c.mapped[r[i].key] = i
          /\ r[i].key \in DOMAIN c.mapped \ {k}
      BY <2>1, <1>2, <1>3, <1>4, <1>5
    <3>2. ASSUME NEW y \in At(r[i].key) PROVE FALSE
      <4>1. /\ y \in 1..(Len(s) - 1) /\ ~(y < idx) /\ r[y].key = r[i].key
            /\ y + 1 \in 1..Len(s)
        BY <1>2, <1>3
      <4>2. r[y] = s[y + 1] /\ c.mapped[s[y + 1].key] = y + 1
        BY <4>1, <1>3, <1>4
      <4> QED
        BY <4>1, <4>2, <3>1, <2>1, <1>2
    <3> QED
      BY <3>1, <3>2, <1>1
  <2>2. CASE ~(i < idx)
    <3>1. /\ r[i] = s[i + 1] /\ i + 1 \in 1..Len(s) /\ c.mapped[r[i].key] = i + 1
          /\ r[i].key \in DOMAIN c.mapped \ {k}
      BY <2>2, <1>2, <1>3, <1>4, <1>5
    <3>2. i \in At(r[i].key)
      BY <2>2, <1>2, <1>3
    <3>3. ASSUME NEW y \in At(r[i].key) PROVE y = i
      <4>1. /\ y \in 1..(Len(s) - 1) /\ ~(y < idx) /\ r[y].key = r[i].key
            /\ y + 1 \in 1..Len(s)
        BY <1>2, <1>3
      <4>2. r[y] = s[y + 1] /\ c.mapped[s[y + 1].key] = y + 1
        BY <4>1, <1>3, <1>4
      <4> QED
        BY <4>1, <4>2, <3>1
    <3>4. (CHOOSE y \in At(r[i].key) : TRUE) \in At(r[i].key)
      BY <3>2
    <3>5. n.mapped[r[i].key] = CHOOSE y \in At(r[i].key) : TRUE
      BY <3>1, <3>2, <1>1
    <3> QED
      BY <3>1, <3>3, <3>4, <3>5
  <2> QED
    BY <2>1, <2>2
<1>6. ASSUME NEW x \in DOMAIN c.mapped \ {k}
      PROVE  n.mapped[x] \in 1..(Len(s) - 1) /\ r[n.mapped[x]].key = x
  <2> DEFINE j == c.mapped[x]
  <2>1. j \in 1..Len(s) /\ s[j].key = x /\ j # idx
    BY <1>2, <1>4
  <2> HIDE DEF j
  <2>2. PICK i \in 1..(Len(s) - 1) : r[i].key = x
    <3>1. CASE j < idx
      BY <3>1, <2>1, <1>2, <1>3
    <3>2. CASE idx < j
      <4>1. j - 1 \in 1..(Len(s) - 1) /\ ~(j - 1 < idx) /\ (j - 1) + 1 = j
        BY <3>2, <2>1, <1>2
      <4> QED
        BY <4>1, <2>1, <1>3
    <3> QED
      BY <3>1, <3>2, <2>1, <1>2
  <2> QED
    BY <2>2, <1>5
<1> QED
  BY <1>1, <1>3, <1>5, <1>6 DEF Container, Consistent, n

-----------------------------------------------------------------------------
\* The values of a container, each under its key.
Held(c) == {ValueGet(c, k) : k \in DOMAIN c.mapped}

\* allValuesGet() returns just these.
LEMMA HeldValues ==
    ASSUME NEW K, NEW V, NEW c, Container(c, K, V)
    PROVE  /\ Range(AllValuesGet(c)) = Held(c)
           /\ \A k \in DOMAIN c.mapped : k \in K /\ ValueGet(c, k) \in V
<1>1. \A i \in DOMAIN c.indexed : c.indexed[i] \in Nodes(K, V)
  BY DEF Container
<1>2. \A i \in DOMAIN c.indexed : c.indexed[i].key \in K /\ c.indexed[i].val \in V
  BY <1>1 DEF Nodes
<1>3. /\ \A i \in DOMAIN c.indexed : /\ c.indexed[i].key \in DOMAIN c.mapped
                                     /\ c.mapped[c.indexed[i].key] = i
      /\ \A k \in DOMAIN c.mapped : /\ c.mapped[k] \in DOMAIN c.indexed
                                    /\ c.indexed[c.mapped[k]].key = k
  BY DEF Container, Consistent
<1>4. Range(AllValuesGet(c)) = {c.indexed[i].val : i \in DOMAIN c.indexed}
  BY DEF Range, AllValuesGet
<1>5. Range(AllValuesGet(c)) = Held(c)
  BY <1>3, <1>4 DEF Held, ValueGet
<1> QED
  BY <1>2, <1>3, <1>5 DEF ValueGet

\* newValueSet() leaves the other values alone.
LEMMA NewValueSetValues ==
    ASSUME NEW K, NEW V, NEW c, Container(c, K, V),
           NEW k \in K, NEW v \in V, ~KeyExists(c, k)
    PROVE  /\ ValueGet(NewValueSet(c, k, v), k) = v
           /\ \A x \in DOMAIN c.mapped :
                 ValueGet(NewValueSet(c, k, v), x) = ValueGet(c, x)
<1> DEFINE s == c.indexed
           n == NewValueSet(c, k, v)
<1>1. /\ n.indexed = Append(s, [key |-> k, val |-> v])
      /\ n.mapped = [x \in DOMAIN c.mapped \cup {k} |->
                       IF x = k THEN Len(s) + 1 ELSE c.mapped[x]]
  BY DEF NewValueSet
<1>2. /\ s \in Seq(Nodes(K, V)) /\ DOMAIN s = 1..Len(s) /\ Len(s) \in Nat
      /\ \A x \in DOMAIN c.mapped : c.mapped[x] \in 1..Len(s)
  BY DEF Container, Consistent
<1>3. /\ n.indexed[Len(s) + 1] = [key |-> k, val |-> v]
      /\ \A i \in 1..Len(s) : n.indexed[i] = s[i]
  BY <1>1, <1>2 DEF Nodes
<1> HIDE DEF s, n
<1>4. ValueGet(n, k) = v
  BY <1>1, <1>3 DEF ValueGet
<1>5. ASSUME NEW x \in DOMAIN c.mapped PROVE ValueGet(n, x) = ValueGet(c, x)
  <2>1. n.mapped[x] = c.mapped[x]
    BY <1>1 DEF KeyExists
  <2> QED
    BY <2>1, <1>2, <1>3 DEF ValueGet, s
<1> QED
  BY <1>4, <1>5 DEF n

\* keyChange() moves a value to another key.
LEMMA KeyChangeValues ==
    ASSUME NEW K, NEW V, NEW c, Container(c, K, V),
           NEW old, NEW new \in K, KeyExists(c, old), ~KeyExists(c, new)
    PROVE  /\ ValueGet(KeyChange(c, old, new), new) = ValueGet(c, old)
           /\ \A x \in DOMAIN c.mapped \ {old} :
                 ValueGet(KeyChange(c, old, new), x) = ValueGet(c, x)
<1> DEFINE s == c.indexed
           at == c.mapped[old]
           n == KeyChange(c, old, new)
<1>1. /\ n.indexed = [s EXCEPT ![at] = [key |-> new, val |-> @.val]]
      /\ n.mapped = [x \in (DOMAIN c.mapped \ {old}) \cup {new} |->
                       IF x = new THEN at ELSE c.mapped[x]]
  BY DEF KeyChange
<1>2. /\ at \in DOMAIN s /\ s[at].key = old
      /\ \A x \in DOMAIN c.mapped : c.mapped[x] \in DOMAIN s /\ s[c.mapped[x]].key = x
  BY DEF Container, Consistent, KeyExists
<1>3. n.indexed[at].val = s[at].val /\ \A i \in DOMAIN s : i # at => n.indexed[i] = s[i]
  BY <1>1, <1>2
<1> HIDE DEF n
<1>4. ValueGet(n, new) = ValueGet(c, old)
  BY <1>1, <1>3 DEF ValueGet
<1>5. ASSUME NEW x \in DOMAIN c.mapped \ {old} PROVE ValueGet(n, x) = ValueGet(c, x)
  <2>1. n.mapped[x] = c.mapped[x]
    BY <1>1 DEF KeyExists
  <2>2. c.mapped[x] \in DOMAIN s /\ c.mapped[x] # at
    BY <1>2
  <2> QED
    BY <2>1, <2>2, <1>3 DEF ValueGet
<1> QED
  BY <1>4, <1>5 DEF n

\* internalDelete() leaves every other value under its key.
LEMMA ItemDeleteValues ==
    ASSUME NEW K, NEW V, NEW c, Container(c, K, V), NEW k, KeyExists(c, k)
    PROVE  \A x \in DOMAIN c.mapped \ {k} :
              ValueGet(ItemDelete(c, k), x) = ValueGet(c, x)
<1> DEFINE s == c.indexed
           idx == c.mapped[k]
           r == RemoveAt(s, idx)
           n == ItemDelete(c, k)
<1>1. n.indexed = r
  BY DEF ItemDelete
<1>2. /\ s \in Seq(Nodes(K, V)) /\ DOMAIN s = 1..Len(s) /\ Len(s) \in Nat
      /\ idx \in 1..Len(s)
  BY DEF Container, Consistent, KeyExists
<1>3. /\ DOMAIN r = 1..(Len(s) - 1)
      /\ \A i \in 1..(Len(s) - 1) : r[i] = IF i < idx THEN s[i] ELSE s[i + 1]
  <2> HIDE DEF s, idx
  <2>1. /\ r \in Seq(Nodes(K, V)) /\ Len(r) = Len(s) - 1
        /\ \A i \in 1..(Len(s) - 1) : r[i] = IF i < idx THEN s[i] ELSE s[i + 1]
    BY <1>2, RemoveAtProperties
  <2> HIDE DEF r
  <2> QED
    BY <2>1
<1>4. Container(n, K, V) /\ DOMAIN n.mapped = DOMAIN c.mapped \ {k}
  BY ItemDeleteConsistent
<1>5. \A j \in DOMAIN s : c.mapped[s[j].key] = j
  BY DEF Container, Consistent
<1>6. \A x \in DOMAIN n.mapped : /\ n.mapped[x] \in 1..(Len(s) - 1)
                                 /\ r[n.mapped[x]].key = x
  BY <1>1, <1>3, <1>4 DEF Container, Consistent
<1> HIDE DEF r, n, idx
<1>7. ASSUME NEW x \in DOMAIN c.mapped \ {k} PROVE ValueGet(n, x) = ValueGet(c, x)
  <2> DEFINE i == n.mapped[x]
  <2>1. i \in 1..(Len(s) - 1) /\ r[i].key = x
    BY <1>4, <1>6
  <2> HIDE DEF i
  <2>2. PICK j \in 1..Len(s) : r[i] = s[j]
    <3>1. i \in 1..Len(s) /\ i + 1 \in 1..Len(s)
      BY <2>1, <1>2
    <3> QED
      BY <3>1, <2>1, <1>3
  <2>3. c.mapped[x] = j
    BY <2>1, <2>2, <1>2, <1>5
  <2> QED
    BY <2>2, <2>3, <1>1 DEF ValueGet, i
<1> QED
  BY <1>7 DEF n
=============================================================================
