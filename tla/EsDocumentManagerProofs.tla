----------------------- MODULE EsDocumentManagerProofs -----------------------
(* What holds of EsDocumentManager for any documents, types and keys.       *)
EXTENDS EsDocumentManager, EsAssocContainerProofs, FiniteSetTheorems,
        WellFoundedInduction

\* documentsCloseAll() has each key once, and only those that are open.
Closing ==
    /\ closing \in Seq(Keys)
    /\ \A i \in DOMAIN closing : KeyExists(docs, closing[i])
    /\ \A i, j \in DOMAIN closing : closing[i] = closing[j] => i = j

\* The inductive invariant.
IInv == Container(docs, Keys, Docs) /\ Closing

\* A step that leaves no keys to close keeps Closing.
LEMMA NothingToClose ==
    ASSUME Idle PROVE closing' = <<>> /\ Closing'
  BY DEF Idle, Closing

\* The keys of the container are keys, each at one position only.
LEMMA AllKeys ==
    ASSUME Container(docs, Keys, Docs), NEW s, s = AllKeysGet(docs)
    PROVE  /\ s \in Seq(Keys)
           /\ \A i \in DOMAIN s : KeyExists(docs, s[i])
           /\ \A i, j \in DOMAIN s : s[i] = s[j] => i = j
<1>1. /\ docs.indexed \in Seq(Nodes(Keys, Docs))
      /\ DOMAIN docs.indexed = 1..Len(docs.indexed) /\ Len(docs.indexed) \in Nat
  BY DEF Container
<1>2. /\ DOMAIN s = DOMAIN docs.indexed
      /\ \A i \in DOMAIN s : s[i] = docs.indexed[i].key
      /\ s = [i \in 1..Len(docs.indexed) |-> docs.indexed[i].key]
  BY <1>1 DEF AllKeysGet
<1>3. \A i \in DOMAIN s : docs.indexed[i].key \in Keys
  <2> SUFFICES ASSUME NEW i \in DOMAIN s PROVE docs.indexed[i].key \in Keys
    OBVIOUS
  <2>1. docs.indexed[i] \in Nodes(Keys, Docs)
    BY <1>1, <1>2
  <2> QED
    BY <2>1 DEF Nodes
<1>4. s \in Seq(Keys)
  BY <1>1, <1>2, <1>3
<1>5. ASSUME NEW i \in DOMAIN s, NEW j \in DOMAIN s, s[i] = s[j] PROVE i = j
  BY <1>2, <1>5, KeysDistinct DEF Container
<1> QED
  BY <1>2, <1>4, <1>5 DEF Container, Consistent, KeyExists

\* A document enters the collection under a key that is free.
LEMMA AttachConsistent ==
    ASSUME NEW c, Container(c, Keys, Docs),
           NEW k \in Keys, NEW d \in Docs, ~KeyExists(c, k),
           NEW r, r.key = k, NEW heard, Attach(c, d, r, heard)
    PROVE  Container(docs, Keys, Docs)'
<1>1. docs' = NewValueSet(c, k, d)
  BY DEF Attach
<1>2. Container(NewValueSet(c, k, d), Keys, Docs)
  BY NewValueSetConsistent
<1> QED
  BY <1>1, <1>2 DEF Container, Consistent

\* What documentOpen() closes first leaves a consistent collection.
LEMMA RemainingConsistent ==
    ASSUME Container(docs, Keys, Docs), NEW t \in Types, MayVacate(t)
    PROVE  Container(Remaining(t), Keys, Docs)
<1>1. CASE Vacated(t) = {}
  BY <1>1 DEF Remaining
<1>2. CASE Vacated(t) # {}
  <2> DEFINE k == CHOOSE k \in Vacated(t) : TRUE
  <2>1. k \in Vacated(t)
    BY <1>2
  <2>2. KeyExists(docs, k)
    BY <2>1 DEF MayVacate
  <2>3. Remaining(t) = ItemDelete(docs, k)
    BY <1>2 DEF Remaining
  <2> HIDE DEF k
  <2> QED
    BY <2>2, <2>3, ItemDeleteConsistent
<1> QED
  BY <1>1, <1>2

\* Every call keeps the container consistent; internalDelete() needs the key
\* it is given to be there, hence Closing.
LEMMA Invariance == Spec => []IInv
<1>1. Init => IInv
  BY NewContainerConsistent DEF Init, IInv, Closing
<1>2. ASSUME IInv, [Next]_vars PROVE IInv'
  <2> USE DEF IInv
  <2>0. CASE UNCHANGED vars
    BY <1>2, <2>0 DEF vars, Closing, Container, Consistent
  <2>1. ASSUME Idle, UNCHANGED docs PROVE IInv'
    BY <1>2, <2>1, NothingToClose DEF Container, Consistent
  <2>2. ASSUME NEW t \in Types, DocumentRegister(t) \/ DocumentCreateFails(t)
        PROVE  IInv'
    BY <2>1, <2>2 DEF DocumentRegister, DocumentCreateFails
  <2>3. ASSUME NEW t \in Types, DocumentOpenVacates(t) PROVE IInv'
    <3>1. Idle /\ MayVacate(t) /\ docs' = Remaining(t)
      BY <2>3 DEF DocumentOpenVacates
    <3> QED
      BY <1>2, <3>1, RemainingConsistent, NothingToClose DEF Container, Consistent
  <2>4. ASSUME NEW t \in Types, NEW d \in Docs, DocumentCreateAutoKey(t, d)
        PROVE  IInv'
    <3> DEFINE k == NewKey[t][newDocCounter[t]]
    <3>1. Idle /\ ~KeyExists(docs, k)
      BY <2>4 DEF DocumentCreateAutoKey
    <3>2. PICK r \in Fresh(t, k) : Attach(docs, d, r, told)
      BY <2>4 DEF DocumentCreateAutoKey
    <3>3. r.key = k /\ k \in Keys
      BY <3>2 DEF Fresh, Documents
    <3> HIDE DEF k
    <3> QED
      BY <1>2, <3>1, <3>2, <3>3, AttachConsistent, NothingToClose
  <2>5. ASSUME NEW t \in Types, NEW k \in Keys, NEW d \in Docs,
               DocumentCreate(t, k, d)
        PROVE  IInv'
    <3>1. Idle /\ ~KeyExists(docs, k)
      BY <2>5 DEF DocumentCreate
    <3>2. PICK r \in Fresh(t, k) : Attach(docs, d, r, told)
      BY <2>5 DEF DocumentCreate
    <3>3. r.key = k
      BY <3>2 DEF Fresh
    <3> QED
      BY <1>2, <3>1, <3>2, <3>3, AttachConsistent, NothingToClose
  <2>6. ASSUME NEW t \in Types, NEW k \in Keys, NEW d \in Docs,
               DocumentOpen(t, k, d)
        PROVE  IInv'
    <3>1. Idle /\ MayVacate(t) /\ ~KeyExists(Remaining(t), k)
      BY <2>6 DEF DocumentOpen
    <3>2. PICK r \in Loaded(t, k) \cup Fresh(t, k) :
                 Attach(Remaining(t), d, r, told \ Vacated(t))
      BY <2>6 DEF DocumentOpen
    <3>3. r.key = k
      BY <3>2 DEF Fresh, Loaded
    <3>4. Container(Remaining(t), Keys, Docs)
      BY <1>2, <3>1, RemainingConsistent
    <3> QED
      BY <3>1, <3>2, <3>3, <3>4, AttachConsistent, NothingToClose
  <2>7. ASSUME NEW k \in Keys, DocumentClose(k) PROVE IInv'
    <3>1. Idle /\ KeyExists(docs, k) /\ docs' = ItemDelete(docs, k)
      BY <2>7 DEF DocumentClose, Close
    <3>2. Container(ItemDelete(docs, k), Keys, Docs)
      BY <1>2, <3>1, ItemDeleteConsistent
    <3> QED
      BY <3>1, <3>2, NothingToClose DEF Container, Consistent
  <2>8. CASE DocumentsCloseAll
    <3>1. docs' = docs /\ closing' = AllKeysGet(docs)
      BY <2>8 DEF DocumentsCloseAll
    <3> QED
      BY <1>2, <3>1, AllKeys DEF Closing, Container, Consistent, KeyExists
  <2>9. CASE CloseNext
    <3> DEFINE k == Head(closing)
    <3>1. closing # <<>> /\ closing' = Tail(closing) /\ docs' = ItemDelete(docs, k)
      BY <2>9 DEF CloseNext, Close
    <3>2. /\ closing \in Seq(Keys) /\ Len(closing) \in Nat \ {0}
          /\ k = closing[1] /\ Tail(closing) \in Seq(Keys)
          /\ DOMAIN Tail(closing) = 1..(Len(closing) - 1)
          /\ \A i \in 1..(Len(closing) - 1) : Tail(closing)[i] = closing[i + 1]
      BY <1>2, <3>1 DEF Closing
    <3>3. KeyExists(docs, k)
      BY <1>2, <3>2 DEF Closing
    <3>4. /\ Container(ItemDelete(docs, k), Keys, Docs)
          /\ DOMAIN ItemDelete(docs, k).mapped = DOMAIN docs.mapped \ {k}
      BY <1>2, <3>3, ItemDeleteConsistent
    <3>5. ASSUME NEW i \in 1..(Len(closing) - 1)
          PROVE  i + 1 \in DOMAIN closing /\ KeyExists(ItemDelete(docs, k), closing[i + 1])
      <4>1. i + 1 \in DOMAIN closing /\ i + 1 # 1 /\ 1 \in DOMAIN closing
        BY <3>2
      <4>2. closing[i + 1] # k /\ KeyExists(docs, closing[i + 1])
        BY <1>2, <3>2, <4>1 DEF Closing
      <4> QED
        BY <4>1, <4>2, <3>4 DEF KeyExists
    <3>6. ASSUME NEW i \in 1..(Len(closing) - 1), NEW j \in 1..(Len(closing) - 1),
                 closing[i + 1] = closing[j + 1]
          PROVE  i = j
      <4>1. i + 1 = j + 1
        BY <1>2, <3>5, <3>6 DEF Closing
      <4> QED
        BY <4>1
    <3>7. Closing'
      BY <3>1, <3>2, <3>5, <3>6 DEF Closing
    <3> QED
      BY <3>1, <3>4, <3>7 DEF Container, Consistent
  <2>10. CASE CloseNextRefused
    BY <1>2, <2>10 DEF CloseNextRefused, Closing, Container, Consistent
  <2>11. ASSUME NEW d \in Docs,
                \/ \E v \in Vals : ValueSet(d, v)
                \/ ValueDelete(d) \/ Read(d) \/ Write(d)
                \/ \E k \in Keys : WriteAsRefused(d, k)
         PROVE  IInv'
    BY <2>1, <2>11 DEF ValueSet, ValueDelete, Read, Write, WriteAsRefused
  <2>12. ASSUME NEW d \in Docs, NEW k \in Keys, WriteAs(d, k) PROVE IInv'
    <3>1. /\ Idle /\ ~KeyExists(docs, k) /\ KeyExists(docs, doc[d].key)
          /\ docs' = KeyChange(docs, doc[d].key, k)
      BY <2>12 DEF WriteAs
    <3>2. Container(KeyChange(docs, doc[d].key, k), Keys, Docs)
      BY <1>2, <3>1, KeyChangeConsistent
    <3> QED
      BY <3>1, <3>2, NothingToClose DEF Container, Consistent
  <2> QED
    BY <1>2, <2>0, <2>2, <2>3, <2>4, <2>5, <2>6, <2>7, <2>8, <2>9, <2>10,
       <2>11, <2>12 DEF Next
<1> QED
  BY <1>1, <1>2, PTL DEF Spec

\* The container's index and its nodes agree after any sequence of openings,
\* renamings, closings and calls that threw (keyChange(), internalDelete()).
THEOREM IndexConsistent == Spec => []IndexMatches
<1>1. IInv => IndexMatches
  BY DEF IInv, Container, IndexMatches
<1> QED
  BY <1>1, Invariance, PTL

-----------------------------------------------------------------------------
\* What documentOpen() closes first: nothing, or the one key it names.
LEMMA VacatedKey ==
    ASSUME NEW t \in Types, Container(docs, Keys, Docs), MayVacate(t)
    PROVE  DOMAIN Remaining(t).mapped = DOMAIN docs.mapped \ Vacated(t)
<1>1. CASE Vacated(t) = {}
  BY <1>1 DEF Remaining
<1>2. CASE Vacated(t) # {}
  <2> DEFINE k == CHOOSE k \in Vacated(t) : TRUE
  <2>1. k \in Vacated(t)
    BY <1>2
  <2>2. \A a \in Vacated(t), b \in Vacated(t) : a = b
    BY DEF Vacated
  <2>3. KeyExists(docs, k) /\ Remaining(t) = ItemDelete(docs, k)
    BY <1>2, <2>1 DEF MayVacate, Remaining
  <2> HIDE DEF k
  <2>4. Vacated(t) = {k}
    BY <2>1, <2>2
  <2> QED
    BY <2>3, <2>4, ItemDeleteConsistent
<1> QED
  BY <1>1, <1>2

\* A document enters the collection as its listeners hear of it.
LEMMA AttachTold ==
    ASSUME NEW c, Container(c, Keys, Docs),
           NEW k \in Keys, NEW d \in Docs, ~KeyExists(c, k),
           NEW r, r.key = k, NEW heard, heard = DOMAIN c.mapped,
           Attach(c, d, r, heard)
    PROVE  EventsTell'
<1>1. docs' = NewValueSet(c, k, d) /\ told' = heard \cup {k}
  BY DEF Attach
<1>2. DOMAIN NewValueSet(c, k, d).mapped = DOMAIN c.mapped \cup {k}
  BY NewValueSetConsistent
<1> QED
  BY <1>1, <1>2 DEF EventsTell

\* A listener of DocumentCreated, DocumentClosed and DocumentKeyChanged knows
\* exactly the keys that are open: no call, and no call that throws halfway,
\* changes the collection without the event, or posts the event without the
\* change (documentAttach(), documentClose(), keyChange()).
THEOREM EventsFollow == Spec => []EventsTell
<1>1. Init => EventsTell
  BY DEF Init, EventsTell, NewContainer
<1>2. ASSUME IInv, EventsTell, [Next]_vars PROVE EventsTell'
  <2> USE DEF IInv
  <2>0. CASE UNCHANGED vars
    BY <1>2, <2>0 DEF vars, EventsTell
  <2>1. ASSUME UNCHANGED <<docs, told>> PROVE EventsTell'
    BY <1>2, <2>1 DEF EventsTell
  <2>2. ASSUME NEW t \in Types, DocumentRegister(t) \/ DocumentCreateFails(t)
        PROVE  EventsTell'
    BY <2>1, <2>2 DEF DocumentRegister, DocumentCreateFails
  <2>3. ASSUME NEW t \in Types, DocumentOpenVacates(t) PROVE EventsTell'
    <3>1. MayVacate(t) /\ docs' = Remaining(t) /\ told' = told \ Vacated(t)
      BY <2>3 DEF DocumentOpenVacates
    <3> QED
      BY <1>2, <3>1, VacatedKey DEF EventsTell
  <2>4. ASSUME NEW t \in Types, NEW d \in Docs, DocumentCreateAutoKey(t, d)
        PROVE  EventsTell'
    <3> DEFINE k == NewKey[t][newDocCounter[t]]
    <3>1. ~KeyExists(docs, k)
      BY <2>4 DEF DocumentCreateAutoKey
    <3>2. PICK r \in Fresh(t, k) : Attach(docs, d, r, told)
      BY <2>4 DEF DocumentCreateAutoKey
    <3>3. r.key = k /\ k \in Keys
      BY <3>2 DEF Fresh, Documents
    <3> HIDE DEF k
    <3> QED
      BY <1>2, <3>1, <3>2, <3>3, AttachTold DEF EventsTell
  <2>5. ASSUME NEW t \in Types, NEW k \in Keys, NEW d \in Docs,
               DocumentCreate(t, k, d)
        PROVE  EventsTell'
    <3>1. ~KeyExists(docs, k)
      BY <2>5 DEF DocumentCreate
    <3>2. PICK r \in Fresh(t, k) : Attach(docs, d, r, told)
      BY <2>5 DEF DocumentCreate
    <3>3. r.key = k
      BY <3>2 DEF Fresh
    <3> QED
      BY <1>2, <3>1, <3>2, <3>3, AttachTold DEF EventsTell
  <2>6. ASSUME NEW t \in Types, NEW k \in Keys, NEW d \in Docs,
               DocumentOpen(t, k, d)
        PROVE  EventsTell'
    <3>1. MayVacate(t) /\ ~KeyExists(Remaining(t), k)
      BY <2>6 DEF DocumentOpen
    <3>2. PICK r \in Loaded(t, k) \cup Fresh(t, k) :
                 Attach(Remaining(t), d, r, told \ Vacated(t))
      BY <2>6 DEF DocumentOpen
    <3>3. r.key = k
      BY <3>2 DEF Fresh, Loaded
    <3>4. Container(Remaining(t), Keys, Docs)
      BY <1>2, <3>1, RemainingConsistent
    <3>5. told \ Vacated(t) = DOMAIN Remaining(t).mapped
      BY <1>2, <3>1, VacatedKey DEF EventsTell
    <3> QED
      BY <3>1, <3>2, <3>3, <3>4, <3>5, AttachTold
  <2>7. ASSUME NEW k, KeyExists(docs, k), Close(k) PROVE EventsTell'
    <3>1. docs' = ItemDelete(docs, k) /\ told' = told \ {k}
      BY <2>7 DEF Close
    <3>2. DOMAIN ItemDelete(docs, k).mapped = DOMAIN docs.mapped \ {k}
      BY <1>2, <2>7, ItemDeleteConsistent
    <3> QED
      BY <1>2, <3>1, <3>2 DEF EventsTell
  <2>8. ASSUME NEW k \in Keys, DocumentClose(k) PROVE EventsTell'
    BY <2>7, <2>8 DEF DocumentClose
  <2>9. CASE CloseNext
    <3>1. closing # <<>> /\ Close(Head(closing))
      BY <2>9 DEF CloseNext
    <3>2. 1 \in DOMAIN closing /\ Head(closing) = closing[1]
      BY <1>2, <3>1 DEF Closing
    <3>3. KeyExists(docs, Head(closing))
      BY <1>2, <3>2 DEF Closing
    <3> QED
      BY <2>7, <3>1, <3>3
  <2>10. CASE DocumentsCloseAll \/ CloseNextRefused
    BY <2>1, <2>10 DEF DocumentsCloseAll, CloseNextRefused
  <2>11. ASSUME NEW d \in Docs,
                \/ \E v \in Vals : ValueSet(d, v)
                \/ ValueDelete(d) \/ Read(d) \/ Write(d)
                \/ \E k \in Keys : WriteAsRefused(d, k)
         PROVE  EventsTell'
    BY <2>1, <2>11 DEF ValueSet, ValueDelete, Read, Write, WriteAsRefused
  <2>12. ASSUME NEW d \in Docs, NEW k \in Keys, WriteAs(d, k) PROVE EventsTell'
    <3>1. /\ ~KeyExists(docs, k) /\ KeyExists(docs, doc[d].key)
          /\ docs' = KeyChange(docs, doc[d].key, k)
          /\ told' = (told \ {doc[d].key}) \cup {k}
      BY <2>12 DEF WriteAs
    <3>2. DOMAIN KeyChange(docs, doc[d].key, k).mapped
            = (DOMAIN docs.mapped \ {doc[d].key}) \cup {k}
      BY <1>2, <3>1, KeyChangeConsistent
    <3> QED
      BY <1>2, <3>1, <3>2 DEF EventsTell
  <2> QED
    BY <1>2, <2>0, <2>2, <2>3, <2>4, <2>5, <2>6, <2>8, <2>9, <2>10, <2>11,
       <2>12 DEF Next
<1> QED
  BY <1>1, <1>2, Invariance, PTL DEF Spec

-----------------------------------------------------------------------------
\* No document is under two keys.
Distinct(c) ==
    \A k, l \in DOMAIN c.mapped : ValueGet(c, k) = ValueGet(c, l) => k = l

\* The counters and the history.
Counted ==
    /\ registered \subseteq Types
    /\ newDocCounter \in [Types -> 0..MaxNew]
    /\ refused \in BOOLEAN

\* The documents with members are those that the collection holds.
Members ==
    /\ doc \in [Docs -> Documents \cup {Gone}]
    /\ \A d \in Docs : Open(d) <=> d \in Held(docs)
    /\ Distinct(docs)

\* SingletonUnique, without counting.
Singles ==
    ~refused =>
    \A t \in Singletons : Underived(t) => \A d, e \in OfType(t) : d = e

\* The second inductive invariant, on top of IInv.  documentOpen() closes what
\* the first document of the type says its key is: that this is the document
\* the singleton forbids takes KeyAgrees and Singles, and that no second one is
\* left takes Members.
Documented == Counted /\ Members /\ KeyAgrees /\ Singles

\* A set of positions has a first one.
LEMMA MinProperty ==
    ASSUME NEW S \in SUBSET Nat, S # {} PROVE Min(S) \in S
<1>1. \E m \in S : \A y \in S : ~(y < m)
  <2>1. PICK m \in S : \A y \in S : ~(<<y, m>> \in OpToRel(<, Nat))
    BY NatLessThanWellFounded, WFMin
  <2>2. \A y \in S : <<y, m>> \in OpToRel(<, Nat) <=> y < m
    BY DEF OpToRel
  <2> QED
    BY <2>1, <2>2, Zenon
<1>2. \A x \in S, y \in S : ~(y < x) <=> x =< y
  BY SMT
<1>3. \E m \in S : \A y \in S : m =< y
  BY <1>1, <1>2
<1> QED
  BY <1>3 DEF Min

\* documentFindFirstByType() finds a document of the kind if there is one.
LEMMA FirstByType ==
    ASSUME Container(docs, Keys, Docs), NEW t \in Types
    PROVE  \/ /\ DocumentFindFirstByType(t) = NoDoc
              /\ \A d \in Held(docs) : t \notin Kinds[doc[d].type]
           \/ /\ DocumentFindFirstByType(t) \in Held(docs)
              /\ t \in Kinds[doc[DocumentFindFirstByType(t)].type]
<1> DEFINE vals == AllValuesGet(docs)
           found == {i \in DOMAIN vals : t \in Kinds[doc[vals[i]].type]}
<1>1. Range(vals) = Held(docs)
  BY HeldValues
<1>2. DocumentFindFirstByType(t) = IF found = {} THEN NoDoc ELSE vals[Min(found)]
  BY DEF DocumentFindFirstByType
<1>3. found \in SUBSET Nat
  <2>1. docs.indexed \in Seq(Nodes(Keys, Docs))
    BY DEF Container
  <2>2. DOMAIN vals = 1..Len(docs.indexed) /\ Len(docs.indexed) \in Nat
    BY <2>1 DEF AllValuesGet
  <2> QED
    BY <2>2
<1> HIDE DEF vals
<1>4. CASE found = {}
  <2>1. \A i \in DOMAIN vals : t \notin Kinds[doc[vals[i]].type]
    BY <1>4
  <2>2. \A d \in Held(docs) : t \notin Kinds[doc[d].type]
    BY <2>1, <1>1 DEF Range
  <2> QED
    BY <2>2, <1>2, <1>4
<1>5. CASE found # {}
  <2>1. Min(found) \in found
    BY <1>3, <1>5, MinProperty
  <2>2. vals[Min(found)] \in Held(docs) /\ t \in Kinds[doc[vals[Min(found)]].type]
    BY <2>1, <1>1 DEF Range
  <2> QED
    BY <2>2, <1>2, <1>5
<1> QED
  BY <1>4, <1>5

\* No open document has the members of one that is not.
LEMMA GoneIsNone == ASSUME NEW r \in Documents PROVE r # Gone
<1>1. DOMAIN r = {"key", "type", "new", "modified", "vals", "saved", "again"}
  BY DEF Documents
<1>2. DOMAIN Gone = {"new"}
  BY DEF Gone
<1> QED
  BY <1>1, <1>2

\* A document is open just when it has members.
LEMMA OpenMembers ==
    ASSUME doc \in [Docs -> Documents \cup {Gone}], NEW d \in Docs
    PROVE  /\ Open(d) <=> doc[d] \in Documents
           /\ ~Open(d) <=> doc[d] = Gone
  BY GoneIsNone DEF Open

\* itemDelete() takes out this document and no other.
LEMMA ItemDeleteMembers ==
    ASSUME Container(docs, Keys, Docs), Distinct(docs), NEW k, KeyExists(docs, k)
    PROVE  /\ Distinct(ItemDelete(docs, k))
           /\ Held(ItemDelete(docs, k)) = Held(docs) \ {ValueGet(docs, k)}
           /\ ValueGet(docs, k) \in Docs
           /\ \A x \in DOMAIN ItemDelete(docs, k).mapped :
                 /\ x \in DOMAIN docs.mapped
                 /\ ValueGet(ItemDelete(docs, k), x) = ValueGet(docs, x)
<1>1. DOMAIN ItemDelete(docs, k).mapped = DOMAIN docs.mapped \ {k}
  BY ItemDeleteConsistent
<1>2. \A x \in DOMAIN docs.mapped \ {k} :
         ValueGet(ItemDelete(docs, k), x) = ValueGet(docs, x)
  BY ItemDeleteValues
<1>3. \A x \in DOMAIN docs.mapped : ValueGet(docs, x) \in Docs
  BY HeldValues
<1> QED
  BY <1>1, <1>2, <1>3 DEF Distinct, Held, KeyExists

\* So does documentOpen() before it opens, if it closes anything.
LEMMA RemainingMembers ==
    ASSUME Container(docs, Keys, Docs), Distinct(docs),
           NEW t \in Types, MayVacate(t)
    PROVE  /\ Distinct(Remaining(t))
           /\ Held(Remaining(t)) \subseteq Held(docs)
           /\ \A x \in DOMAIN Remaining(t).mapped :
                 /\ x \in DOMAIN docs.mapped
                 /\ ValueGet(Remaining(t), x) = ValueGet(docs, x)
<1>1. CASE Vacated(t) = {}
  BY <1>1 DEF Remaining
<1>2. CASE Vacated(t) # {}
  <2> DEFINE k == CHOOSE k \in Vacated(t) : TRUE
  <2>1. k \in Vacated(t)
    BY <1>2
  <2>2. KeyExists(docs, k) /\ Remaining(t) = ItemDelete(docs, k)
    BY <1>2, <2>1 DEF MayVacate, Remaining
  <2> HIDE DEF k
  <2> QED
    BY <2>2, ItemDeleteMembers
<1> QED
  BY <1>1, <1>2

\* After documentOpen() has closed what stands in its way, no document of an
\* underived singleton type is open.
LEMMA SingletonVacated ==
    ASSUME Container(docs, Keys, Docs), Documented, ~refused,
           NEW t \in Singletons, Underived(t), MayVacate(t)
    PROVE  \A d \in Held(Remaining(t)) : doc[d].type # t
<1> DEFINE first == DocumentFindFirstByType(t)
<1>1. t \in Types /\ t \in Kinds[t]
  BY TypesAssumption DEF Underived
<1>2. ASSUME NEW d \in Held(docs)
      PROVE  d \in Docs /\ Open(d) /\ doc[d] \in Documents
  <2>1. d \in Docs
    BY <1>2, HeldValues DEF Held
  <2> QED
    BY <1>2, <2>1, OpenMembers DEF Documented, Members
<1>3. CASE /\ first = NoDoc
           /\ \A d \in Held(docs) : t \notin Kinds[doc[d].type]
  <2>1. Held(Remaining(t)) \subseteq Held(docs)
    BY <1>1, RemainingMembers DEF Documented, Members
  <2> QED
    BY <1>1, <1>3, <2>1
<1>4. CASE first \in Held(docs) /\ t \in Kinds[doc[first].type]
  <2> HIDE DEF first
  <2>1. first \in Docs /\ Open(first) /\ doc[first] \in Documents
    BY <1>2, <1>4
  <2>2. doc[first].type \in Types
    BY <2>1 DEF Documents
  <2>3. first \in OfType(t)
    BY <1>4, <2>1, <2>2 DEF OfType, Underived
  <2>4. PICK k \in DOMAIN docs.mapped : ValueGet(docs, k) = first
    BY <1>4 DEF Held
  <2>5. doc[first].key = k
    BY <2>4 DEF Documented, KeyAgrees
  <2>6. Vacated(t) = {k}
    BY <2>1, <2>5 DEF Vacated, first
  <2>7. Remaining(t) = ItemDelete(docs, k) /\ KeyExists(docs, k)
    BY <2>4, <2>6 DEF Remaining, KeyExists
  <2>8. Held(Remaining(t)) = Held(docs) \ {first}
    BY <2>4, <2>7, ItemDeleteMembers DEF Documented, Members
  <2>9. ASSUME NEW d \in Held(docs), doc[d].type = t PROVE d = first
    <3>1. d \in OfType(t)
      BY <1>2, <2>9 DEF OfType
    <3> QED
      BY <2>3, <3>1 DEF Documented, Singles
  <2> QED
    BY <2>8, <2>9
<1> QED
  BY <1>1, <1>3, <1>4, FirstByType

\* A document enters a collection c, which is the one there is or what
\* documentOpen() left of it.
LEMMA AttachDocumented ==
    ASSUME Container(docs, Keys, Docs), Documented, Counted', refused' = refused,
           NEW c, Container(c, Keys, Docs), Distinct(c),
           Held(c) \subseteq Held(docs),
           \A x \in DOMAIN c.mapped : /\ x \in DOMAIN docs.mapped
                                      /\ ValueGet(c, x) = ValueGet(docs, x),
           NEW k \in Keys, ~KeyExists(c, k), NEW d \in Docs, d \notin Held(c),
           NEW r \in Documents, r.key = k, NEW heard, Attach(c, d, r, heard),
           ~refused /\ r.type \in Singletons /\ Underived(r.type)
             => \A x \in Held(c) : doc[x].type # r.type
    PROVE  Documented'
<1>1. docs' = NewValueSet(c, k, d)
  BY DEF Attach
<1>2. doc' = [x \in Docs |-> IF x = d THEN r
                             ELSE IF x \in Held(c) THEN doc[x] ELSE Gone]
  <2>1. Range(AllValuesGet(c)) = Held(c)
    BY HeldValues
  <2> QED
    BY <2>1 DEF Attach
<1>3. /\ DOMAIN docs'.mapped = DOMAIN c.mapped \cup {k} /\ k \notin DOMAIN c.mapped
      /\ ValueGet(docs', k) = d
      /\ \A x \in DOMAIN c.mapped : ValueGet(docs', x) = ValueGet(c, x)
  BY <1>1, NewValueSetConsistent, NewValueSetValues DEF KeyExists
<1>4. Held(docs') = Held(c) \cup {d}
  BY <1>3 DEF Held
<1>5. ASSUME NEW x \in Held(c)
      PROVE  /\ x \in Docs /\ Open(x) /\ doc[x] \in Documents
             /\ x # d /\ doc'[x] = doc[x]
  <2>1. x \in Docs
    BY <1>5, HeldValues DEF Held
  <2> QED
    BY <1>2, <1>5, <2>1, OpenMembers DEF Documented, Members
<1>6. doc' \in [Docs -> Documents \cup {Gone}] /\ doc'[d] = r
  BY <1>2, <1>5
<1>7. ASSUME NEW x \in Docs PROVE Open(x)' <=> x \in Held(docs')
  <2>1. Open(x)' <=> doc'[x] # Gone
    BY DEF Open
  <2>2. \A y \in Documents : y # Gone
    BY GoneIsNone
  <2>3. CASE x = d
    BY <2>1, <2>2, <2>3, <1>4, <1>6
  <2>4. CASE x \in Held(c)
    BY <2>1, <2>2, <2>4, <1>4, <1>5
  <2>5. CASE x # d /\ x \notin Held(c)
    BY <2>1, <2>5, <1>2, <1>4
  <2> QED
    BY <2>3, <2>4, <2>5
<1>8. Distinct(docs')
  BY <1>3 DEF Distinct, Held
<1>9. Members'
  BY <1>6, <1>7, <1>8 DEF Members, Held, Distinct, ValueGet
<1>10. KeyAgrees'
  <2> SUFFICES ASSUME ~refused, NEW x \in DOMAIN docs'.mapped
               PROVE  doc'[ValueGet(docs', x)].key = x
    BY DEF KeyAgrees, ValueGet
  <2>1. CASE x = k
    BY <2>1, <1>3, <1>6
  <2>2. CASE x \in DOMAIN c.mapped
    <3>1. ValueGet(docs', x) = ValueGet(docs, x) /\ ValueGet(docs, x) \in Held(c)
      BY <2>2, <1>3 DEF Held
    <3>2. doc[ValueGet(docs, x)].key = x
      BY <2>2 DEF Documented, KeyAgrees
    <3> QED
      BY <3>1, <3>2, <1>5
  <2> QED
    BY <2>1, <2>2, <1>3
<1>11. Singles'
  <2> SUFFICES ASSUME ~refused, NEW t \in Singletons, Underived(t),
                      NEW a \in Docs, Open(a)', doc'[a].type = t,
                      NEW b \in Docs, Open(b)', doc'[b].type = t
               PROVE  a = b
    BY DEF Singles, OfType
  <2>1. a \in Held(c) \cup {d} /\ b \in Held(c) \cup {d}
    BY <1>4, <1>7
  <2>2. CASE a \in Held(c) /\ b \in Held(c)
    <3>1. a \in OfType(t) /\ b \in OfType(t)
      BY <2>2, <1>5 DEF OfType
    <3> QED
      BY <3>1 DEF Documented, Singles
  <2>3. CASE r.type = t
    BY <2>1, <2>3, <1>5
  <2> QED
    BY <2>1, <2>2, <2>3, <1>6
<1> QED
  BY <1>9, <1>10, <1>11 DEF Documented

\* Documents leave the collection, and only lose their members by it.
LEMMA LeaveDocumented ==
    ASSUME Container(docs, Keys, Docs), Documented, Counted', refused' = refused,
           NEW c, docs' = c, Distinct(c), Held(c) \subseteq Held(docs),
           \A x \in DOMAIN c.mapped : /\ x \in DOMAIN docs.mapped
                                      /\ ValueGet(c, x) = ValueGet(docs, x),
           doc' = [x \in Docs |-> IF x \in Held(c) THEN doc[x] ELSE Gone]
    PROVE  Documented'
<1>1. ASSUME NEW x \in Held(c)
      PROVE  x \in Docs /\ Open(x) /\ doc[x] \in Documents /\ doc'[x] = doc[x]
  <2>1. x \in Docs
    BY <1>1, HeldValues DEF Held
  <2> QED
    BY <1>1, <2>1, OpenMembers DEF Documented, Members
<1>2. doc' \in [Docs -> Documents \cup {Gone}]
  BY <1>1
<1>3. ASSUME NEW x \in Docs PROVE Open(x)' <=> x \in Held(c)
  BY <1>1, GoneIsNone DEF Open
<1>4. Members'
  BY <1>2, <1>3 DEF Members, Held, Distinct, ValueGet
<1>5. KeyAgrees'
  <2> SUFFICES ASSUME ~refused, NEW x \in DOMAIN c.mapped
               PROVE  doc'[ValueGet(c, x)].key = x
    BY DEF KeyAgrees, ValueGet
  <2>1. ValueGet(c, x) \in Held(c)
    BY DEF Held
  <2>2. doc[ValueGet(docs, x)].key = x
    BY DEF Documented, KeyAgrees
  <2> QED
    BY <2>1, <2>2, <1>1
<1>6. ASSUME NEW t, NEW x \in OfType(t)' PROVE x \in OfType(t)
  BY <1>1, <1>3, <1>6 DEF OfType
<1>7. Singles'
  BY <1>6 DEF Documented, Singles
<1> QED
  BY <1>4, <1>5, <1>7 DEF Documented

\* The document at this key is closed.
LEMMA CloseDocumented ==
    ASSUME Container(docs, Keys, Docs), Documented, NEW k, KeyExists(docs, k),
           Close(k)
    PROVE  Documented'
<1> DEFINE c == ItemDelete(docs, k)
           d == ValueGet(docs, k)
<1>1. /\ docs' = c /\ doc' = [doc EXCEPT ![d] = Gone]
      /\ UNCHANGED <<registered, newDocCounter, refused>>
  BY DEF Close
<1>2. /\ Distinct(c) /\ Held(c) = Held(docs) \ {d} /\ d \in Docs
      /\ \A x \in DOMAIN c.mapped : /\ x \in DOMAIN docs.mapped
                                    /\ ValueGet(c, x) = ValueGet(docs, x)
  BY ItemDeleteMembers DEF Documented, Members
<1> HIDE DEF c, d
<1>3. \A x \in Docs : x \notin Held(docs) => doc[x] = Gone
  BY OpenMembers DEF Documented, Members
<1>4. doc' = [x \in Docs |-> IF x \in Held(c) THEN doc[x] ELSE Gone]
  BY <1>1, <1>2, <1>3 DEF Documented, Members
<1>5. Counted'
  BY <1>1 DEF Documented, Counted
<1> QED
  BY <1>1, <1>2, <1>4, <1>5, LeaveDocumented

\* A document that is open gets other members, of the same type.
LEMMA ChangedMembers ==
    ASSUME doc \in [Docs -> Documents \cup {Gone}], NEW d \in Docs, Open(d),
           NEW r \in Documents, r.type = doc[d].type, doc' = [doc EXCEPT ![d] = r]
    PROVE  /\ doc' \in [Docs -> Documents \cup {Gone}]
           /\ doc'[d] = r
           /\ \A x \in Docs : x # d => doc'[x] = doc[x]
           /\ \A x \in Docs : Open(x)' <=> Open(x)
           /\ \A x \in Docs : doc'[x].type = doc[x].type
<1>1. /\ doc' \in [Docs -> Documents \cup {Gone}] /\ doc'[d] = r
      /\ \A x \in Docs : x # d => doc'[x] = doc[x]
  OBVIOUS
<1>2. ASSUME NEW x \in Docs PROVE Open(x)' <=> Open(x)
  BY <1>1, GoneIsNone DEF Open
<1> QED
  BY <1>1, <1>2

\* The collection stays as it is, and so does the document's key.
LEMMA ChangeDocumented ==
    ASSUME Container(docs, Keys, Docs), Documented,
           UNCHANGED <<registered, newDocCounter, docs, refused>>,
           NEW d \in Docs, Open(d), NEW r \in Documents,
           r.type = doc[d].type, r.key = doc[d].key, doc' = [doc EXCEPT ![d] = r]
    PROVE  Documented'
<1>1. /\ doc' \in [Docs -> Documents \cup {Gone}]
      /\ doc'[d] = r
      /\ \A x \in Docs : x # d => doc'[x] = doc[x]
      /\ \A x \in Docs : Open(x)' <=> Open(x)
      /\ \A x \in Docs : doc'[x].type = doc[x].type
  BY ChangedMembers DEF Documented, Members
<1>2. Counted'
  BY DEF Documented, Counted
<1>3. Members'
  BY <1>1 DEF Documented, Members, Held, Distinct, ValueGet
<1>4. KeyAgrees'
  <2> SUFFICES ASSUME ~refused, NEW x \in DOMAIN docs.mapped
               PROVE  doc'[ValueGet(docs, x)].key = x
    BY DEF KeyAgrees, ValueGet
  <2>1. doc[ValueGet(docs, x)].key = x
    BY DEF Documented, KeyAgrees
  <2>2. ValueGet(docs, x) \in Docs
    BY HeldValues
  <2> QED
    BY <2>1, <2>2, <1>1
<1>5. \A t : OfType(t)' = OfType(t)
  BY <1>1 DEF OfType
<1>6. Singles'
  BY <1>5 DEF Documented, Singles
<1> QED
  BY <1>2, <1>3, <1>4, <1>6 DEF Documented

\* What write() leaves of a document, with another key or its own.
LEMMA WrittenDocument ==
    ASSUME NEW r \in Documents, NEW k \in Keys
    PROVE  /\ Written(r) \in Documents
           /\ Written(r).type = r.type /\ Written(r).key = r.key
           /\ [Written(r) EXCEPT !.key = k] \in Documents
           /\ [Written(r) EXCEPT !.key = k].type = r.type
           /\ [Written(r) EXCEPT !.key = k].key = k
<1>1. r.vals \in Contents
  BY DEF Documents
<1>2. [r EXCEPT !.saved = r.vals, !.new = FALSE, !.modified = FALSE,
               !.again = FALSE] \in Documents
  BY <1>1 DEF Documents
<1>3. Written(r) \in Documents /\ Written(r).type = r.type /\ Written(r).key = r.key
  BY <1>2 DEF Written, Documents
<1> HIDE DEF Written
<1>4. [Written(r) EXCEPT !.key = k] \in Documents
  BY <1>3 DEF Documents
<1>5. /\ [Written(r) EXCEPT !.key = k].type = Written(r).type
      /\ [Written(r) EXCEPT !.key = k].key = k
  BY <1>3 DEF Documents
<1> QED
  BY <1>3, <1>4, <1>5

\* The document goes by another key, in itself and in the collection.
LEMMA WriteAsDocumented ==
    ASSUME Container(docs, Keys, Docs), Documented,
           NEW d \in Docs, NEW k \in Keys, WriteAs(d, k)
    PROVE  Documented'
<1> DEFINE old == doc[d].key
           c == KeyChange(docs, old, k)
           r == [Written(doc[d]) EXCEPT !.key = k]
<1>1. /\ Open(d) /\ ~KeyExists(docs, k) /\ KeyExists(docs, old)
      /\ docs' = c /\ doc' = [doc EXCEPT ![d] = r]
      /\ UNCHANGED <<registered, newDocCounter, refused>>
  BY DEF WriteAs
<1>2. doc[d] \in Documents
  BY <1>1, OpenMembers DEF Documented, Members
<1>3. r \in Documents /\ r.type = doc[d].type /\ r.key = k
  BY <1>2, WrittenDocument
<1>4. /\ DOMAIN c.mapped = (DOMAIN docs.mapped \ {old}) \cup {k}
      /\ ValueGet(c, k) = ValueGet(docs, old)
      /\ \A x \in DOMAIN docs.mapped \ {old} : ValueGet(c, x) = ValueGet(docs, x)
  BY <1>1, KeyChangeConsistent, KeyChangeValues
<1> HIDE DEF c, r, old
<1>5. /\ doc' \in [Docs -> Documents \cup {Gone}]
      /\ doc'[d] = r
      /\ \A x \in Docs : x # d => doc'[x] = doc[x]
      /\ \A x \in Docs : Open(x)' <=> Open(x)
      /\ \A x \in Docs : doc'[x].type = doc[x].type
  BY <1>1, <1>3, ChangedMembers DEF Documented, Members
<1>6. Counted'
  BY <1>1 DEF Documented, Counted
<1>7. k \notin DOMAIN docs.mapped /\ old \in DOMAIN docs.mapped
  BY <1>1 DEF KeyExists
<1>8. Held(c) = Held(docs) /\ Distinct(c)
  <2>1. Held(c) = Held(docs)
    BY <1>4, <1>7 DEF Held
  <2>2. Distinct(c)
    BY <1>4, <1>7 DEF Documented, Members, Distinct
  <2> QED
    BY <2>1, <2>2
<1>9. Members'
  <2>1. Held(docs)' = Held(c) /\ Distinct(docs)' = Distinct(c)
    BY <1>1 DEF Held, Distinct, ValueGet
  <2> QED
    BY <2>1, <1>5, <1>8 DEF Documented, Members
<1>10. KeyAgrees'
  <2> SUFFICES ASSUME ~refused, NEW x \in DOMAIN c.mapped
               PROVE  doc'[ValueGet(c, x)].key = x
    BY <1>1 DEF KeyAgrees, ValueGet
  <2>1. ValueGet(docs, old) = d
    <3>1. PICK y \in DOMAIN docs.mapped : ValueGet(docs, y) = d
      BY <1>1 DEF Documented, Members, Held
    <3>2. doc[ValueGet(docs, y)].key = y
      BY DEF Documented, KeyAgrees
    <3> QED
      BY <3>1, <3>2 DEF old
  <2>2. CASE x = k
    BY <2>1, <2>2, <1>3, <1>4, <1>5
  <2>3. CASE x \in DOMAIN docs.mapped \ {old}
    <3>1. ValueGet(c, x) = ValueGet(docs, x) /\ ValueGet(docs, x) \in Docs
      BY <2>3, <1>4, HeldValues
    <3>2. ValueGet(docs, x) # d
      BY <2>1, <2>3, <1>7 DEF Documented, Members, Distinct
    <3>3. doc[ValueGet(docs, x)].key = x
      BY <2>3 DEF Documented, KeyAgrees
    <3> QED
      BY <3>1, <3>2, <3>3, <1>5
  <2> QED
    BY <2>2, <2>3, <1>4
<1>11. \A t : OfType(t)' = OfType(t)
  BY <1>5 DEF OfType
<1>12. Singles'
  BY <1>1, <1>11 DEF Documented, Singles
<1> QED
  BY <1>6, <1>9, <1>10, <1>12 DEF Documented

\* keyChange() throws: the document goes by the other key only in itself.
LEMMA WriteAsRefusedDocumented ==
    ASSUME Container(docs, Keys, Docs), Documented,
           NEW d \in Docs, NEW k \in Keys, WriteAsRefused(d, k)
    PROVE  Documented'
<1> DEFINE r == [Written(doc[d]) EXCEPT !.key = k]
<1>1. /\ Open(d) /\ doc' = [doc EXCEPT ![d] = r] /\ refused' = TRUE
      /\ UNCHANGED <<registered, newDocCounter, docs>>
  BY DEF WriteAsRefused
<1>2. doc[d] \in Documents
  BY <1>1, OpenMembers DEF Documented, Members
<1>3. r \in Documents /\ r.type = doc[d].type
  BY <1>2, WrittenDocument
<1> HIDE DEF r
<1>4. /\ doc' \in [Docs -> Documents \cup {Gone}]
      /\ \A x \in Docs : Open(x)' <=> Open(x)
  BY <1>1, <1>3, ChangedMembers DEF Documented, Members
<1>5. Members'
  BY <1>1, <1>4 DEF Documented, Members, Held, Distinct, ValueGet
<1> QED
  BY <1>1, <1>5 DEF Documented, Counted, KeyAgrees, Singles

LEMMA DocumentsInvariance == Spec => []Documented
<1>1. Init => Documented
  <2> SUFFICES ASSUME Init PROVE Documented
    OBVIOUS
  <2>1. \A d \in Docs : doc[d] = Gone /\ ~Open(d)
    BY DEF Init, Open
  <2>2. DOMAIN docs.mapped = {}
    BY NewContainerConsistent DEF Init
  <2>3. Members
    BY <2>1, <2>2 DEF Init, Members, Held, Distinct
  <2>4. KeyAgrees /\ Singles
    BY <2>1, <2>2 DEF KeyAgrees, Singles, OfType
  <2>5. Counted
    <3>1. 0 \in 0..MaxNew
      BY TypesAssumption
    <3> QED
      BY <3>1 DEF Init, Counted
  <2> QED
    BY <2>3, <2>4, <2>5 DEF Documented
<1>2. ASSUME IInv, Documented, [Next]_vars PROVE Documented'
  <2>1. Container(docs, Keys, Docs)
    BY <1>2 DEF IInv
  <2>2. ASSUME UNCHANGED <<docs, doc, refused>>, Counted' PROVE Documented'
    BY <1>2, <2>2 DEF Documented, Members, KeyAgrees, Singles, OfType, Open,
       Held, Distinct, ValueGet
  <2>3. CASE UNCHANGED vars
    BY <1>2, <2>2, <2>3 DEF vars, Documented, Counted
  <2>4. \A d \in Docs : Open(d) <=> d \in Held(docs)
    BY <1>2 DEF Documented, Members
  <2>5. Distinct(docs) /\ Counted
    BY <1>2 DEF Documented, Members
  <2>6. ASSUME NEW t \in Types, CountNew(t), UNCHANGED <<registered, refused>>
        PROVE  Counted'
    <3>1. newDocCounter[t] \in 0..MaxNew /\ newDocCounter[t] + 1 \in 0..MaxNew
      BY <2>5, <2>6, TypesAssumption DEF Counted, CountNew
    <3> QED
      BY <2>5, <2>6, <3>1 DEF Counted, CountNew
  <2>7. ASSUME NEW t \in Types, DocumentRegister(t) PROVE Documented'
    BY <2>2, <2>5, <2>7 DEF DocumentRegister, Counted
  <2>8. ASSUME NEW t \in Types, DocumentCreateFails(t) PROVE Documented'
    BY <2>2, <2>6, <2>8 DEF DocumentCreateFails
  <2>9. ASSUME NEW t \in Types, MayCreate(t), t \in Singletons, Underived(t)
        PROVE  \A x \in Held(docs) : doc[x].type # t
    <3>1. DocumentFindFirstByType(t) = NoDoc /\ t \in Kinds[t]
      BY <2>9 DEF MayCreate, Underived
    <3>2. NoDoc \notin Held(docs)
      BY <2>1, HeldValues, TypesAssumption DEF Held
    <3>3. \A x \in Held(docs) : t \notin Kinds[doc[x].type]
      BY <2>1, <3>1, <3>2, FirstByType
    <3> QED
      BY <3>1, <3>3
  <2>10. ASSUME NEW t \in Types, NEW k \in Keys, NEW d \in Docs, MayCreate(t),
                ~Open(d), ~KeyExists(docs, k), NEW r \in Fresh(t, k),
                Attach(docs, d, r, told), Counted', UNCHANGED refused
         PROVE  Documented'
    <3>1. r \in Documents /\ r.key = k /\ r.type = t
      BY <2>10 DEF Fresh
    <3>2. d \notin Held(docs)
      BY <2>4, <2>10
    <3>3. ~refused /\ r.type \in Singletons /\ Underived(r.type)
            => \A x \in Held(docs) : doc[x].type # r.type
      BY <2>9, <2>10, <3>1
    <3>4. /\ Held(docs) \subseteq Held(docs)
          /\ \A x \in DOMAIN docs.mapped : /\ x \in DOMAIN docs.mapped
                                           /\ ValueGet(docs, x) = ValueGet(docs, x)
      OBVIOUS
    <3>5. Documented /\ Distinct(docs)
      BY <1>2, <2>5
    <3> QED
      BY <2>1, <2>10, <3>1, <3>2, <3>3, <3>4, <3>5, AttachDocumented
  <2>11. ASSUME NEW t \in Types, NEW d \in Docs, DocumentCreateAutoKey(t, d)
         PROVE  Documented'
    <3> DEFINE k == NewKey[t][newDocCounter[t]]
    <3>1. /\ MayCreate(t) /\ ~Open(d) /\ ~KeyExists(docs, k) /\ CountNew(t)
          /\ UNCHANGED <<registered, refused>>
      BY <2>11 DEF DocumentCreateAutoKey
    <3>2. PICK r \in Fresh(t, k) : Attach(docs, d, r, told)
      BY <2>11 DEF DocumentCreateAutoKey
    <3>3. k \in Keys
      BY <3>2 DEF Fresh, Documents
    <3> HIDE DEF k
    <3> QED
      BY <2>6, <2>10, <3>1, <3>2, <3>3
  <2>12. ASSUME NEW t \in Types, NEW k \in Keys, NEW d \in Docs,
                DocumentCreate(t, k, d)
         PROVE  Documented'
    <3>1. /\ MayCreate(t) /\ ~Open(d) /\ ~KeyExists(docs, k)
          /\ UNCHANGED <<registered, newDocCounter, refused>>
      BY <2>12 DEF DocumentCreate
    <3>2. PICK r \in Fresh(t, k) : Attach(docs, d, r, told)
      BY <2>12 DEF DocumentCreate
    <3>3. Counted'
      BY <2>5, <3>1 DEF Counted
    <3> QED
      BY <2>10, <3>1, <3>2, <3>3
  <2>13. ASSUME NEW t \in Types, MayVacate(t)
         PROVE  /\ Container(Remaining(t), Keys, Docs) /\ Distinct(Remaining(t))
                /\ Range(AllValuesGet(Remaining(t))) = Held(Remaining(t))
                /\ Held(Remaining(t)) \subseteq Held(docs)
                /\ \A x \in DOMAIN Remaining(t).mapped :
                      /\ x \in DOMAIN docs.mapped
                      /\ ValueGet(Remaining(t), x) = ValueGet(docs, x)
    <3>1. Container(Remaining(t), Keys, Docs)
      BY <2>1, <2>13, RemainingConsistent
    <3>2. Range(AllValuesGet(Remaining(t))) = Held(Remaining(t))
      BY <3>1, HeldValues
    <3> QED
      BY <2>1, <2>5, <2>13, <3>1, <3>2, RemainingMembers
  <2>14. ASSUME NEW t \in Types, NEW k \in Keys, NEW d \in Docs,
                DocumentOpen(t, k, d)
         PROVE  Documented'
    <3> DEFINE c == Remaining(t)
    <3>1. /\ MayVacate(t) /\ ~KeyExists(c, k) /\ d \notin Range(AllValuesGet(c))
          /\ UNCHANGED <<registered, newDocCounter, refused>>
      BY <2>14 DEF DocumentOpen
    <3>2. PICK r \in Loaded(t, k) \cup Fresh(t, k) :
                 Attach(c, d, r, told \ Vacated(t))
      BY <2>14 DEF DocumentOpen
    <3>3. r \in Documents /\ r.key = k /\ r.type = t
      BY <3>2 DEF Loaded, Fresh
    <3>4. Counted'
      BY <2>5, <3>1 DEF Counted
    <3>5. ~refused /\ r.type \in Singletons /\ Underived(r.type)
            => \A x \in Held(c) : doc[x].type # r.type
      BY <1>2, <2>1, <3>1, <3>3, SingletonVacated
    <3>6. /\ Container(c, Keys, Docs) /\ Distinct(c)
          /\ Held(c) \subseteq Held(docs) /\ d \notin Held(c)
          /\ \A x \in DOMAIN c.mapped : /\ x \in DOMAIN docs.mapped
                                        /\ ValueGet(c, x) = ValueGet(docs, x)
      BY <2>13, <3>1
    <3> HIDE DEF c
    <3>7. Documented
      BY <1>2
    <3>8. refused' = refused
      BY <3>1
    <3>9. ~KeyExists(c, k)
      BY <3>1
    <3> QED
      BY <2>1, <3>2, <3>3, <3>4, <3>5, <3>6, <3>7, <3>8, <3>9, AttachDocumented
  <2>15. ASSUME NEW t \in Types, DocumentOpenVacates(t) PROVE Documented'
    <3> DEFINE c == Remaining(t)
    <3>1. /\ MayVacate(t) /\ docs' = c
          /\ doc' = [x \in Docs |-> IF x \in Range(AllValuesGet(c)) THEN doc[x]
                                    ELSE Gone]
          /\ UNCHANGED <<registered, newDocCounter, refused>>
      BY <2>15 DEF DocumentOpenVacates
    <3>2. Counted'
      BY <2>5, <3>1 DEF Counted
    <3>3. /\ Distinct(c) /\ Held(c) \subseteq Held(docs)
          /\ Range(AllValuesGet(c)) = Held(c)
          /\ \A x \in DOMAIN c.mapped : /\ x \in DOMAIN docs.mapped
                                        /\ ValueGet(c, x) = ValueGet(docs, x)
      BY <2>13, <3>1
    <3> HIDE DEF c
    <3> QED
      BY <1>2, <2>1, <3>1, <3>2, <3>3, LeaveDocumented
  <2>16. ASSUME NEW k \in Keys, DocumentClose(k) PROVE Documented'
    BY <1>2, <2>1, <2>16, CloseDocumented DEF DocumentClose
  <2>17. CASE CloseNext
    <3>1. closing # <<>> /\ Close(Head(closing))
      BY <2>17 DEF CloseNext
    <3>2. 1 \in DOMAIN closing /\ Head(closing) = closing[1]
      BY <1>2, <3>1 DEF IInv, Closing
    <3>3. KeyExists(docs, Head(closing))
      BY <1>2, <3>2 DEF IInv, Closing
    <3> QED
      BY <1>2, <2>1, <3>1, <3>3, CloseDocumented
  <2>18. CASE DocumentsCloseAll \/ CloseNextRefused
    BY <2>2, <2>5, <2>18 DEF DocumentsCloseAll, CloseNextRefused, Counted
  <2>19. ASSUME NEW d \in Docs, Open(d) PROVE doc[d] \in Documents
    BY <1>2, <2>19, OpenMembers DEF Documented, Members
  <2>20. ASSUME NEW d \in Docs, NEW v \in Vals, ValueSet(d, v) PROVE Documented'
    <3> DEFINE r == [doc[d] EXCEPT !.vals = v, !.modified = (doc[d].vals # v),
                                   !.again = /\ doc[d].vals = v
                                             /\ ~doc[d].new
                                             /\ @ \/ doc[d].modified]
    <3>1. /\ Open(d) /\ doc' = [doc EXCEPT ![d] = r]
          /\ UNCHANGED <<registered, newDocCounter, docs, refused>>
      BY <2>20 DEF ValueSet
    <3>2. r \in Documents /\ r.type = doc[d].type /\ r.key = doc[d].key
      BY <2>19, <3>1 DEF Documents, Contents
    <3> HIDE DEF r
    <3> QED
      BY <1>2, <2>1, <3>1, <3>2, ChangeDocumented
  <2>21. ASSUME NEW d \in Docs, ValueDelete(d) PROVE Documented'
    <3> DEFINE r == [doc[d] EXCEPT !.vals = NoVal, !.modified = TRUE, !.again = FALSE]
    <3>1. /\ Open(d) /\ doc' = [doc EXCEPT ![d] = r]
          /\ UNCHANGED <<registered, newDocCounter, docs, refused>>
      BY <2>21 DEF ValueDelete
    <3>2. r \in Documents /\ r.type = doc[d].type /\ r.key = doc[d].key
      BY <2>19, <3>1 DEF Documents, Contents
    <3> HIDE DEF r
    <3> QED
      BY <1>2, <2>1, <3>1, <3>2, ChangeDocumented
  <2>22. ASSUME NEW d \in Docs, Read(d) PROVE Documented'
    <3>1. Open(d) /\ UNCHANGED <<registered, newDocCounter, docs, refused>>
      BY <2>22 DEF Read
    <3>2. PICK r \in Loaded(doc[d].type, doc[d].key) : doc' = [doc EXCEPT ![d] = r]
      BY <2>22 DEF Read
    <3>3. r \in Documents /\ r.type = doc[d].type /\ r.key = doc[d].key
      BY <3>2 DEF Loaded
    <3> QED
      BY <1>2, <2>1, <3>1, <3>2, <3>3, ChangeDocumented
  <2>23. ASSUME NEW d \in Docs, Write(d) PROVE Documented'
    <3> DEFINE r == Written(doc[d])
    <3>1. /\ Open(d) /\ doc' = [doc EXCEPT ![d] = r]
          /\ UNCHANGED <<registered, newDocCounter, docs, refused>>
      BY <2>23 DEF Write
    <3>2. doc[d].key \in Keys
      BY <2>19, <3>1 DEF Documents
    <3>3. r \in Documents /\ r.type = doc[d].type /\ r.key = doc[d].key
      BY <2>19, <3>1, <3>2, WrittenDocument
    <3> HIDE DEF r
    <3> QED
      BY <1>2, <2>1, <3>1, <3>3, ChangeDocumented
  <2>24. ASSUME NEW d \in Docs, NEW k \in Keys, WriteAs(d, k) \/ WriteAsRefused(d, k)
         PROVE  Documented'
    BY <1>2, <2>1, <2>24, WriteAsDocumented, WriteAsRefusedDocumented
  <2> QED
    BY <1>2, <2>3, <2>7, <2>8, <2>11, <2>12, <2>14, <2>15, <2>16, <2>17, <2>18,
       <2>20, <2>21, <2>22, <2>23, <2>24 DEF Next
<1> QED
  BY <1>1, <1>2, Invariance, PTL DEF Spec

\* Every variable keeps its type; a document has its members exactly while the
\* collection holds it, and documentsCloseAll() has only open keys left.
THEOREM TypeCorrect == Spec => []TypeOK
<1>1. IInv /\ Documented /\ EventsTell => TypeOK
  <2> SUFFICES ASSUME IInv, Documented, EventsTell PROVE TypeOK
    OBVIOUS
  <2>1. Range(AllValuesGet(docs)) = Held(docs) /\ Held(docs) \subseteq Docs
    BY HeldValues DEF IInv, Held
  <2>2. {d \in Docs : Open(d)} = Range(AllValuesGet(docs))
    BY <2>1 DEF Documented, Members
  <2>3. DOMAIN docs.mapped \subseteq Keys
    BY HeldValues DEF IInv
  <2>4. Range(closing) \subseteq DOMAIN docs.mapped
    BY DEF IInv, Closing, Range, KeyExists
  <2> QED
    BY <2>2, <2>3, <2>4 DEF TypeOK, Documented, Members, Counted, EventsTell
<1> QED
  BY <1>1, Invariance, EventsFollow, DocumentsInvariance, PTL

\* What a document's keyGet() says is the key under which the collection holds
\* it, until a rename is refused (EsDocument::keySet(), keyChange()).
THEOREM KeysAgree == Spec => []KeyAgrees
<1>1. Documented => KeyAgrees
  BY DEF Documented
<1> QED
  BY <1>1, DocumentsInvariance, PTL

\* At most one document of a singleton type from which no other is derived is
\* open, whichever of documentCreate() and documentOpen() made it, until a
\* rename is refused.
THEOREM OneSingleton == Spec => []SingletonUnique
<1>1. Documented => SingletonUnique
  <2> SUFFICES ASSUME Documented, ~refused, NEW t \in Singletons, Underived(t)
               PROVE  Cardinality(OfType(t)) <= 1
    BY DEF SingletonUnique
  <2>1. \A d, e \in OfType(t) : d = e
    BY DEF Documented, Singles
  <2>2. CASE OfType(t) = {}
    BY <2>2, FS_EmptySet
  <2>3. CASE OfType(t) # {}
    <3>1. PICK d \in OfType(t) : TRUE
      BY <2>3
    <3>2. OfType(t) = {d}
      BY <2>1, <3>1
    <3> QED
      BY <3>2, FS_Singleton
  <2> QED
    BY <2>2, <2>3
<1> QED
  BY <1>1, DocumentsInvariance, PTL

-----------------------------------------------------------------------------
(* UnsavedFlagged, by the records the steps leave of each document.         *)
Flagged(r) == ~r.new /\ r.vals # r.saved => r.modified \/ r.again

\* write() leaves nothing unsaved, unless it found no flag.
LEMMA WrittenFlagged ==
    ASSUME NEW r \in Documents, Flagged(r), NEW k \in Keys
    PROVE  Flagged(Written(r)) /\ Flagged([Written(r) EXCEPT !.key = k])
<1>1. CASE r.new \/ r.modified
  <2>1. Written(r).vals = Written(r).saved
    BY <1>1 DEF Written, Documents
  <2>2. Written(r) \in Documents
    BY WrittenDocument
  <2> HIDE DEF Written
  <2>3. [Written(r) EXCEPT !.key = k].vals = [Written(r) EXCEPT !.key = k].saved
    BY <2>1, <2>2 DEF Documents
  <2> QED
    BY <2>1, <2>3 DEF Flagged
<1>2. CASE ~(r.new \/ r.modified)
  <2>1. Written(r) = r
    BY <1>2 DEF Written
  <2> QED
    BY <2>1 DEF Flagged, Documents
<1> QED
  BY <1>1, <1>2

\* One document changes, and is flagged.
LEMMA ChangeFlagged ==
    ASSUME doc \in [Docs -> Documents \cup {Gone}], UnsavedFlagged,
           NEW d \in Docs, NEW r, Flagged(r), doc' = [doc EXCEPT ![d] = r]
    PROVE  UnsavedFlagged'
<1> SUFFICES ASSUME NEW x \in Docs, Open(x)' PROVE Flagged(doc'[x])
  BY DEF UnsavedFlagged, Flagged
<1>1. CASE x = d
  BY <1>1
<1>2. CASE x # d
  BY <1>2 DEF UnsavedFlagged, Flagged, Open
<1> QED
  BY <1>1, <1>2

\* The others stay as they are, or are gone.
LEMMA AttachFlagged ==
    ASSUME UnsavedFlagged, NEW c, NEW d \in Docs, NEW r, NEW heard,
           Flagged(r), Attach(c, d, r, heard)
    PROVE  UnsavedFlagged'
<1> SUFFICES ASSUME NEW x \in Docs, Open(x)' PROVE Flagged(doc'[x])
  BY DEF UnsavedFlagged, Flagged
<1>1. doc'[x] \in {r, doc[x]} \/ doc'[x] = Gone
  BY DEF Attach
<1>2. doc'[x] # Gone
  BY DEF Open
<1>3. CASE doc'[x] = doc[x]
  BY <1>2, <1>3 DEF UnsavedFlagged, Flagged, Open
<1> QED
  BY <1>1, <1>2, <1>3

\* What was changed since it was last read or written is flagged, for any
\* contents and calls, unless a value was set to what it was.
THEOREM ChangesFlagged == Spec => []UnsavedFlagged
<1>1. Init => UnsavedFlagged
  BY DEF Init, UnsavedFlagged, Open
<1>2. ASSUME Documented, UnsavedFlagged, [Next]_vars PROVE UnsavedFlagged'
  <2>1. doc \in [Docs -> Documents \cup {Gone}]
    BY <1>2 DEF Documented, Members
  <2>2. ASSUME NEW d \in Docs, Open(d)
        PROVE  doc[d] \in Documents /\ Flagged(doc[d])
    BY <1>2, <2>1, <2>2 DEF Open, UnsavedFlagged, Flagged
  <2>3. CASE UNCHANGED doc
    BY <1>2, <2>3 DEF UnsavedFlagged, Open
  <2>4. ASSUME NEW t, NEW k, NEW r \in Loaded(t, k) \cup Fresh(t, k)
        PROVE  Flagged(r)
    BY DEF Loaded, Fresh, Flagged
  <2>5. ASSUME NEW t \in Types, NEW d \in Docs, DocumentCreateAutoKey(t, d)
        PROVE  UnsavedFlagged'
    <3>1. PICK r \in Fresh(t, NewKey[t][newDocCounter[t]]) : Attach(docs, d, r, told)
      BY <2>5 DEF DocumentCreateAutoKey
    <3> QED
      BY <1>2, <2>4, <3>1, AttachFlagged
  <2>6. ASSUME NEW t \in Types, NEW k \in Keys, NEW d \in Docs,
               DocumentCreate(t, k, d) \/ DocumentOpen(t, k, d)
        PROVE  UnsavedFlagged'
    <3>1. CASE DocumentCreate(t, k, d)
      <4>1. PICK r \in Fresh(t, k) : Attach(docs, d, r, told)
        BY <3>1 DEF DocumentCreate
      <4> QED
        BY <1>2, <2>4, <4>1, AttachFlagged
    <3>2. CASE DocumentOpen(t, k, d)
      <4>1. PICK r \in Loaded(t, k) \cup Fresh(t, k) :
                   Attach(Remaining(t), d, r, told \ Vacated(t))
        BY <3>2 DEF DocumentOpen
      <4> QED
        BY <1>2, <2>4, <4>1, AttachFlagged
    <3> QED
      BY <2>6, <3>1, <3>2
  <2>7. ASSUME NEW t \in Types, DocumentOpenVacates(t) PROVE UnsavedFlagged'
    BY <1>2, <2>7 DEF DocumentOpenVacates, UnsavedFlagged, Open
  <2>8. ASSUME NEW k, Close(k) PROVE UnsavedFlagged'
    BY <1>2, <2>1, <2>8 DEF Close, UnsavedFlagged, Open
  <2>9. ASSUME NEW d \in Docs, NEW v \in Vals, ValueSet(d, v) PROVE UnsavedFlagged'
    <3> DEFINE r == [doc[d] EXCEPT !.vals = v, !.modified = (doc[d].vals # v),
                                   !.again = /\ doc[d].vals = v
                                             /\ ~doc[d].new
                                             /\ @ \/ doc[d].modified]
    <3>1. Open(d) /\ doc' = [doc EXCEPT ![d] = r]
      BY <2>9 DEF ValueSet
    <3>2. Flagged(r)
      BY <2>2, <3>1 DEF Flagged, Documents
    <3> HIDE DEF r
    <3> QED
      BY <1>2, <2>1, <3>1, <3>2, ChangeFlagged
  <2>10. ASSUME NEW d \in Docs, ValueDelete(d) PROVE UnsavedFlagged'
    <3> DEFINE r == [doc[d] EXCEPT !.vals = NoVal, !.modified = TRUE, !.again = FALSE]
    <3>1. Open(d) /\ doc' = [doc EXCEPT ![d] = r]
      BY <2>10 DEF ValueDelete
    <3>2. Flagged(r)
      BY <2>2, <3>1 DEF Flagged, Documents
    <3> HIDE DEF r
    <3> QED
      BY <1>2, <2>1, <3>1, <3>2, ChangeFlagged
  <2>11. ASSUME NEW d \in Docs, Read(d) PROVE UnsavedFlagged'
    <3>1. PICK r \in Loaded(doc[d].type, doc[d].key) : doc' = [doc EXCEPT ![d] = r]
      BY <2>11 DEF Read
    <3> QED
      BY <1>2, <2>1, <2>4, <3>1, ChangeFlagged
  <2>12. ASSUME NEW d \in Docs, Write(d) PROVE UnsavedFlagged'
    <3>1. Open(d) /\ doc' = [doc EXCEPT ![d] = Written(doc[d])]
      BY <2>12 DEF Write
    <3>2. doc[d].key \in Keys
      BY <2>2, <3>1 DEF Documents
    <3>3. Flagged(Written(doc[d]))
      BY <2>2, <3>1, <3>2, WrittenFlagged
    <3> QED
      BY <1>2, <2>1, <3>1, <3>3, ChangeFlagged
  <2>13. ASSUME NEW d \in Docs, NEW k \in Keys, WriteAs(d, k) \/ WriteAsRefused(d, k)
         PROVE  UnsavedFlagged'
    <3>1. Open(d) /\ doc' = [doc EXCEPT ![d] = [Written(doc[d]) EXCEPT !.key = k]]
      BY <2>13 DEF WriteAs, WriteAsRefused
    <3>2. Flagged([Written(doc[d]) EXCEPT !.key = k])
      BY <2>2, <3>1, WrittenFlagged
    <3> QED
      BY <1>2, <2>1, <3>1, <3>2, ChangeFlagged
  <2>14. CASE UNCHANGED vars
    BY <2>3, <2>14 DEF vars
  <2>15. ASSUME NEW t \in Types, DocumentRegister(t) \/ DocumentCreateFails(t)
         PROVE  UnsavedFlagged'
    BY <2>3, <2>15 DEF DocumentRegister, DocumentCreateFails
  <2>16. CASE DocumentsCloseAll \/ CloseNextRefused
    BY <2>3, <2>16 DEF DocumentsCloseAll, CloseNextRefused
  <2>17. CASE CloseNext \/ \E k \in Keys : DocumentClose(k)
    BY <2>8, <2>17 DEF CloseNext, DocumentClose
  <2> QED
    BY <1>2, <2>5, <2>6, <2>7, <2>9, <2>10, <2>11, <2>12, <2>13, <2>14, <2>15,
       <2>16, <2>17 DEF Next
<1> QED
  BY <1>1, <1>2, DocumentsInvariance, PTL DEF Spec
=============================================================================
