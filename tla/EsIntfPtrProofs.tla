--------------------------- MODULE EsIntfPtrProofs ---------------------------
(* What holds of EsIntfPtr for any threads, pointers and objects.           *)
EXTENDS EsIntfPtr, FiniteSetTheorems, TLAPS

Types ==
    /\ intf \in [Pointers -> Objects \cup {NoObject}]
    /\ own \in [Pointers -> BOOLEAN]
    /\ cs \in [Pointers -> Threads \cup {NoThread}]
    /\ rc \in [Objects -> Int]
    /\ made \subseteq Objects
    /\ destroyed \in [Objects -> Nat]
    /\ pc \in [Threads -> Pcs]
    /\ op \in [Threads -> Operations]

\* A thread that changes a pointer has its lock, and that of the source.
Locks ==
    \A t \in Threads :
        /\ pc[t] \in {"clean", "destroy", "set", "inc"} => cs[op[t].dst] = t
        /\ pc[t] \in {"lock", "clean", "destroy", "set", "inc"} =>
              \A s \in op[t].src : s # op[t].dst /\ cs[s] = t

\* What the pointer becomes the owner of is counted, or was on arrival; until
\* it is counted the locked source owns it.
Forms ==
    \A t \in Threads :
        /\ op[t].inc \/ op[t].held <=> op[t].own /\ op[t].val # NoObject
        /\ pc[t] \in {"lock", "clean", "destroy", "set", "inc"}
              /\ op[t].inc /\ ~op[t].held =>
              \E s \in op[t].src : intf[s] = op[t].val /\ own[s]
        /\ pc[t] = "inc" =>
              /\ op[t].inc
              /\ intf[op[t].dst] = op[t].val /\ own[op[t].dst]
        /\ pc[t] \in {"drop", "dropDestroy"} => op[t].held
        /\ pc[t] = "destroy" => intf[op[t].dst] # NoObject

\* Only objects that were made are referred to and destroyed.
Known ==
    /\ \A p \in Pointers : intf[p] \in made \cup {NoObject}
    /\ \A t \in Threads : op[t].val \in made \cup {NoObject}
    /\ \A o \in Objects \ made : destroyed[o] = 0

Shape == Types /\ Locks /\ Forms /\ Known

\* Counting up or down leaves counts counts.
LEMMA DestroyedTypes ==
    ASSUME destroyed \in [Objects -> Nat], NEW o,
           destroyed' = [destroyed EXCEPT ![o] = @ + 1]
    PROVE  destroyed' \in [Objects -> Nat]
<1>1. CASE o \in Objects
  BY <1>1
<1>2. CASE o \notin Objects
  BY <1>2
<1> QED
  BY <1>1, <1>2

LEMMA CountedTypes ==
    ASSUME rc \in [Objects -> Int], NEW o, NEW n \in Int, Counted(o, n)
    PROVE  rc' \in [Objects -> Int]
<1>1. CASE o \in Objects
  BY <1>1 DEF Counted
<1>2. CASE o \notin Objects
  BY <1>2 DEF Counted
<1> QED
  BY <1>1, <1>2

\* No step takes a pointer out of its operation's hands.
LEMMA ShapeStep ==
    ASSUME Shape, NEW t \in Threads,
           \/ \E p \in Pointers :
                 \/ Reset(t, p)
                 \/ \E o \in Objects : ResetToNew(t, p, o)
                 \/ \E s \in Sources[p] : \/ ResetToWeak(t, p, s)
                                          \/ Assign(t, p, s)
                                          \/ AssignRequested(t, p, s)
           \/ Lock(t) \/ Clean(t) \/ Destroy(t) \/ Set(t) \/ IncRef(t)
           \/ Drop(t) \/ DropDestroy(t)
    PROVE  Shape'
<1> USE PointersAssumption DEF Shape, Types, Pcs
<1>1. ASSUME NEW o, NEW n \in Int, Counted(o, n) PROVE rc' \in [Objects -> Int]
  BY <1>1, CountedTypes
<1>2. CASE Lock(t)
  <2>1. Types'
    BY <1>2 DEF Lock, Operations
  <2>2. Locks'
    BY <1>2 DEF Lock, Locks, Operations
  <2>3. Forms' /\ Known'
    BY <1>2 DEF Lock, Forms, Known
  <2> QED
    BY <2>1, <2>2, <2>3
<1>3. CASE Clean(t)
  <2>0. rc' \in [Objects -> Int]
    BY <1>1, <1>3 DEF Clean, DecRef
  <2>1. Types'
    BY <1>3, <2>0 DEF Clean, DecRef, Counted
  <2>2. Locks'
    BY <1>3 DEF Clean, DecRef, Locks
  <2>3. Forms' /\ Known'
    BY <1>3 DEF Clean, DecRef, Forms, Known
  <2> QED
    BY <2>1, <2>2, <2>3
<1>4. CASE Destroy(t)
  <2>0. destroyed' \in [Objects -> Nat]
    BY <1>4, DestroyedTypes DEF Destroy
  <2>1. Types'
    BY <1>4, <2>0 DEF Destroy
  <2>2. Locks'
    BY <1>4 DEF Destroy, Locks
  <2>3. Forms' /\ Known'
    BY <1>4 DEF Destroy, Forms, Known, Operations
  <2> QED
    BY <2>1, <2>2, <2>3
<1>5. CASE Set(t)
  <2>1. Types'
    BY <1>5 DEF Set, Unlock, Operations
  <2>2. Locks'
    BY <1>5 DEF Set, Unlock, Locks, Operations
  <2>3. Forms' /\ Known'
    BY <1>5 DEF Set, Locks, Forms, Known, Operations
  <2> QED
    BY <2>1, <2>2, <2>3
<1>6. CASE IncRef(t)
  <2>0. rc' \in [Objects -> Int]
    BY <1>1, <1>6 DEF IncRef
  <2>1. Types'
    BY <1>6, <2>0 DEF IncRef, Unlock
  <2>2. Locks'
    BY <1>6 DEF IncRef, Unlock, Locks, Operations
  <2>3. Forms' /\ Known'
    BY <1>6 DEF IncRef, Forms, Known
  <2> QED
    BY <2>1, <2>2, <2>3
<1>7. CASE Drop(t)
  <2>0. rc' \in [Objects -> Int]
    BY <1>1, <1>7 DEF Drop, DecRef
  <2>1. Types'
    BY <1>7, <2>0 DEF Drop, DecRef
  <2>2. Locks'
    BY <1>7 DEF Drop, DecRef, Locks
  <2>3. Forms' /\ Known'
    BY <1>7 DEF Drop, DecRef, Forms, Known
  <2> QED
    BY <2>1, <2>2, <2>3
<1>8. CASE DropDestroy(t)
  <2>0. destroyed' \in [Objects -> Nat]
    BY <1>8, DestroyedTypes DEF DropDestroy
  <2>1. Types'
    BY <1>8, <2>0 DEF DropDestroy
  <2>2. Locks'
    BY <1>8 DEF DropDestroy, Locks
  <2>3. Forms' /\ Known'
    BY <1>8 DEF DropDestroy, Forms, Known, Operations
  <2> QED
    BY <2>1, <2>2, <2>3
<1>9. ASSUME NEW p \in Pointers,
             \/ Reset(t, p)
             \/ \E o \in Objects : ResetToNew(t, p, o)
             \/ \E s \in Sources[p] : \/ ResetToWeak(t, p, s)
                                      \/ Assign(t, p, s)
                                      \/ AssignRequested(t, p, s)
      PROVE  Shape'
  <2>1. CASE Reset(t, p)
    BY <2>1 DEF Reset, Begin, Operations, Locks, Forms, Known
  <2>2. ASSUME NEW o \in Objects, ResetToNew(t, p, o) PROVE Shape'
    <3>1. rc' \in [Objects -> Int]
      BY <1>1, <2>2 DEF ResetToNew
    <3>2. Types'
      BY <2>2, <3>1 DEF ResetToNew, Begin, Operations
    <3>3. Locks'
      BY <2>2 DEF ResetToNew, Begin, Locks
    <3>4. Forms'
      BY <2>2 DEF ResetToNew, Begin, Forms
    <3>5. Known'
      BY <2>2 DEF ResetToNew, Begin, Known
    <3> QED
      BY <3>2, <3>3, <3>4, <3>5
  <2>3. ASSUME NEW s \in Sources[p], ResetToWeak(t, p, s) PROVE Shape'
    <3>1. Types'
      BY <2>3 DEF ResetToWeak, Begin, Operations
    <3>2. Locks'
      BY <2>3 DEF ResetToWeak, Begin, Locks
    <3>3. Forms' /\ Known'
      BY <2>3 DEF ResetToWeak, Begin, Forms, Known
    <3> QED
      BY <3>1, <3>2, <3>3
  <2>4. ASSUME NEW s \in Sources[p], Assign(t, p, s) PROVE Shape'
    <3>1. Types'
      BY <2>4 DEF Assign, Begin, Operations
    <3>2. Locks'
      BY <2>4 DEF Assign, Begin, Locks
    <3>3. Forms'
      BY <2>4 DEF Assign, Begin, Forms
    <3>4. Known'
      BY <2>4 DEF Assign, Begin, Known
    <3> QED
      BY <3>1, <3>2, <3>3, <3>4
  <2>5. ASSUME NEW s \in Sources[p], AssignRequested(t, p, s) PROVE Shape'
    <3>1. rc' \in [Objects -> Int]
      BY <1>1, <2>5 DEF AssignRequested
    <3>2. Types'
      BY <2>5, <3>1 DEF AssignRequested, Begin, Operations
    <3>3. Locks'
      BY <2>5 DEF AssignRequested, Begin, Locks
    <3>4. Forms'
      BY <2>5 DEF AssignRequested, Begin, Forms
    <3>5. Known'
      BY <2>5 DEF AssignRequested, Begin, Known
    <3> QED
      BY <3>2, <3>3, <3>4, <3>5
  <2> QED
    BY <1>9, <2>1, <2>2, <2>3, <2>4, <2>5
<1> QED
  BY <1>2, <1>3, <1>4, <1>5, <1>6, <1>7, <1>8, <1>9

-----------------------------------------------------------------------------
\* The threads about to destroy an object.
Destroying(o) ==
    {t \in Threads : \/ pc[t] = "destroy" /\ intf[op[t].dst] = o
                     \/ pc[t] = "dropDestroy" /\ op[t].val = o}

Balanced(o) ==
    /\ rc[o] = Cardinality(Owners(o)) + Cardinality(Holders(o))
    /\ o \in made =>
          destroyed[o] + Cardinality(Destroying(o))
          = IF Owners(o) \cup Holders(o) = {} THEN 1 ELSE 0

\* The inductive invariant.
IInv == Shape /\ \A o \in Objects : Balanced(o)

\* The sets that are counted are finite, before and after a step.
LEMMA Finite ==
    ASSUME NEW o
    PROVE  /\ IsFiniteSet(Owners(o)) /\ IsFiniteSet(Holders(o))
           /\ IsFiniteSet(Destroying(o))
           /\ IsFiniteSet(Owners(o)') /\ IsFiniteSet(Holders(o)')
           /\ IsFiniteSet(Destroying(o)')
<1>1. /\ \A S \in SUBSET Pointers : IsFiniteSet(S)
      /\ \A S \in SUBSET Threads : IsFiniteSet(S)
  BY FS_Subset, PointersAssumption
<1>2. Owners(o) \in SUBSET Pointers /\ Owners(o)' \in SUBSET Pointers
  BY DEF Owners
<1>3. Holders(o) \in SUBSET Threads /\ Holders(o)' \in SUBSET Threads
  BY DEF Holders
<1>4. Destroying(o) \in SUBSET Threads /\ Destroying(o)' \in SUBSET Threads
  BY DEF Destroying
<1> QED
  BY <1>1, <1>2, <1>3, <1>4

\* One element more, one element less.
LEMMA CountOne ==
    ASSUME NEW S, IsFiniteSet(S), NEW x
    PROVE  /\ Cardinality(S) \in Nat
           /\ Cardinality(S) = 0 <=> S = {}
           /\ x \notin S => Cardinality(S \cup {x}) = Cardinality(S) + 1
           /\ x \in S => Cardinality(S \ {x}) = Cardinality(S) - 1
  BY FS_CardinalityType, FS_EmptySet, FS_AddElement, FS_RemoveElement

\* An object a step has nothing to do with.
LEMMA Unaffected ==
    ASSUME NEW o, Balanced(o), rc'[o] = rc[o], destroyed'[o] = destroyed[o],
           o \in made' => o \in made,
           Owners(o)' = Owners(o), Holders(o)' = Holders(o),
           Destroying(o)' = Destroying(o)
    PROVE  Balanced(o)'
  BY DEF Balanced

-----------------------------------------------------------------------------
\* An operation that begins concerns nobody but the holder of a reference.
LEMMA BeginSets ==
    ASSUME Types, NEW t \in Threads, NEW o, Begin(t, o), NEW q
    PROVE  /\ Owners(q)' = Owners(q) /\ Destroying(q)' = Destroying(q)
           /\ t \notin Holders(q)
           /\ o.val = q /\ o.held => Holders(q)' = Holders(q) \cup {t}
           /\ ~(o.val = q /\ o.held) => Holders(q)' = Holders(q)
<1>1. /\ pc[t] = "idle" /\ pc'[t] = "lock" /\ op'[t] = o /\ intf' = intf /\ own' = own
      /\ \A u \in Threads \ {t} : pc'[u] = pc[u] /\ op'[u] = op[u]
  BY DEF Begin, Types
<1>2. Owners(q)' = Owners(q)
  BY <1>1 DEF Owners
<1>3. Destroying(q)' = Destroying(q)
  BY <1>1 DEF Destroying
<1> QED
  BY <1>1, <1>2, <1>3 DEF Holders

\* A thread goes on to the next part of its operation.
Goes(t, l) == pc' = [pc EXCEPT ![t] = l] /\ op' = op

\* The only thread in the middle of an operation on a pointer is the one that
\* has its lock.
LEMMA OwnersStep ==
    ASSUME Types, Locks, NEW t \in Threads, NEW l, NEW q,
           pc[t] \in {"lock", "clean", "destroy", "set", "inc", "drop", "dropDestroy"},
           Goes(t, l), intf' = intf, own' = own
    PROVE  /\ pc[t] \notin {"destroy", "set", "inc"}
                 /\ l \notin {"destroy", "set", "inc"} => Owners(q)' = Owners(q)
           /\ pc[t] \in {"destroy", "set", "inc"}
                 /\ l \in {"destroy", "set", "inc"} => Owners(q)' = Owners(q)
           /\ pc[t] = "clean" /\ l \in {"destroy", "set", "inc"}
                 => Owners(q)' = Owners(q) \ {op[t].dst}
<1>1. /\ pc'[t] = l /\ \A u \in Threads \ {t} : pc'[u] = pc[u]
      /\ op[t].dst \in Pointers /\ op' = op
  BY DEF Goes, Types, Operations
<1>2. CASE pc[t] \notin {"destroy", "set", "inc"} /\ l \notin {"destroy", "set", "inc"}
  BY <1>1, <1>2 DEF Owners
<1>3. CASE pc[t] \in {"destroy", "set", "inc"} /\ l \in {"destroy", "set", "inc"}
  BY <1>1, <1>3 DEF Owners
<1>4. CASE pc[t] = "clean" /\ l \in {"destroy", "set", "inc"}
  BY <1>1, <1>4 DEF Owners, Locks
<1> QED
  BY <1>2, <1>3, <1>4

\* Who holds a reference, and who is about to destroy, as a thread goes on.
LEMMA ThreadStep ==
    ASSUME Types, NEW t \in Threads, NEW l, NEW q,
           pc[t] # "idle", Goes(t, l)
    PROVE  /\ pc[t] # "dropDestroy" /\ l \notin {"idle", "dropDestroy"}
                 => Holders(q)' = Holders(q)
           /\ ~(op[t].val = q /\ op[t].held) => Holders(q)' = Holders(q)
           /\ pc[t] = "dropDestroy" /\ l = "idle" => Holders(q)' = Holders(q)
           /\ pc[t] # "dropDestroy" /\ l \in {"idle", "dropDestroy"}
                 /\ op[t].val = q /\ op[t].held =>
                    t \in Holders(q) /\ Holders(q)' = Holders(q) \ {t}
<1>1. /\ pc'[t] = l /\ \A u \in Threads \ {t} : pc'[u] = pc[u]
      /\ op' = op
  BY DEF Goes, Types
<1> QED
  BY <1>1 DEF Holders

LEMMA DestroyingStep ==
    ASSUME Types, NEW t \in Threads, NEW l, NEW q,
           Goes(t, l), intf' = intf
    PROVE  /\ {pc[t], l} \cap {"destroy", "dropDestroy"} = {}
                 => Destroying(q)' = Destroying(q)
           /\ pc[t] \notin {"destroy", "dropDestroy"} => t \notin Destroying(q)
           /\ pc[t] = "drop" /\ l = "dropDestroy" =>
                 Destroying(q)' = Destroying(q) \cup
                                  (IF op[t].val = q THEN {t} ELSE {})
           /\ pc[t] = "destroy" /\ l = "set" =>
                 /\ t \in Destroying(q) <=> intf[op[t].dst] = q
                 /\ Destroying(q)' = Destroying(q) \ {t}
           /\ pc[t] = "dropDestroy" /\ l = "idle" =>
                 /\ t \in Destroying(q) <=> op[t].val = q
                 /\ Destroying(q)' = Destroying(q) \ {t}
<1>1. /\ pc'[t] = l /\ \A u \in Threads \ {t} : pc'[u] = pc[u]
      /\ op' = op
  BY DEF Goes, Types
<1> QED
  BY <1>1 DEF Destroying

-----------------------------------------------------------------------------
\* A reference is counted as somebody gets it who got it from an owner.
LEMMA Taken ==
    ASSUME Types, NEW o \in Objects, Balanced(o), rc'[o] = rc[o] + 1,
           UNCHANGED <<destroyed, made>>,
           Destroying(o)' = Destroying(o), NEW x,
           Owners(o) \cup Holders(o) # {},
           \/ /\ Owners(o)' = Owners(o) \cup {x} /\ x \notin Owners(o)
              /\ Holders(o)' = Holders(o)
           \/ /\ Holders(o)' = Holders(o) \cup {x} /\ x \notin Holders(o)
              /\ Owners(o)' = Owners(o)
    PROVE  Balanced(o)'
<1>1. /\ Cardinality(Owners(o)) \in Nat /\ Cardinality(Holders(o)) \in Nat
      /\ Cardinality(Owners(o))' + Cardinality(Holders(o))'
           = Cardinality(Owners(o)) + Cardinality(Holders(o)) + 1
  <2>1. Cardinality(Owners(o)) \in Nat /\ Cardinality(Holders(o)) \in Nat
    BY Finite, CountOne
  <2>2. CASE /\ Owners(o)' = Owners(o) \cup {x} /\ x \notin Owners(o)
             /\ Holders(o)' = Holders(o)
    <3>1. Cardinality(Owners(o))' = Cardinality(Owners(o)) + 1
      BY <2>2, Finite, CountOne
    <3> QED
      BY <2>1, <2>2, <3>1
  <2>3. CASE /\ Holders(o)' = Holders(o) \cup {x} /\ x \notin Holders(o)
             /\ Owners(o)' = Owners(o)
    <3>1. Cardinality(Holders(o))' = Cardinality(Holders(o)) + 1
      BY <2>3, Finite, CountOne
    <3> QED
      BY <2>1, <2>3, <3>1
  <2> QED
    BY <2>1, <2>2, <2>3
<1>2. rc[o]' = Cardinality(Owners(o))' + Cardinality(Holders(o))'
  BY <1>1 DEF Balanced, Types
<1>3. Owners(o)' \cup Holders(o)' # {}
  OBVIOUS
<1> QED
  BY <1>2, <1>3 DEF Balanced

\* A reference is given up: with the last one the object is destroyed.
LEMMA GivenUp ==
    ASSUME Types, NEW o \in Objects, Balanced(o), rc'[o] = rc[o] - 1,
           UNCHANGED <<destroyed, made>>, NEW x,
           \/ /\ Owners(o)' = Owners(o) \ {x} /\ x \in Owners(o)
              /\ Holders(o)' = Holders(o)
           \/ /\ Holders(o)' = Holders(o) \ {x} /\ x \in Holders(o)
              /\ Owners(o)' = Owners(o),
           NEW t, t \notin Destroying(o),
           Destroying(o)' = Destroying(o) \cup
               (IF rc[o] - 1 < 1 /\ destroyed[o] = 0 THEN {t} ELSE {})
    PROVE  Balanced(o)'
<1>1. /\ Cardinality(Owners(o)) \in Nat /\ Cardinality(Holders(o)) \in Nat
      /\ Cardinality(Owners(o))' + Cardinality(Holders(o))'
           = Cardinality(Owners(o)) + Cardinality(Holders(o)) - 1
  <2>1. Cardinality(Owners(o)) \in Nat /\ Cardinality(Holders(o)) \in Nat
    BY Finite, CountOne
  <2>2. CASE /\ Owners(o)' = Owners(o) \ {x} /\ x \in Owners(o)
             /\ Holders(o)' = Holders(o)
    <3>1. Cardinality(Owners(o))' = Cardinality(Owners(o)) - 1
      BY <2>2, Finite, CountOne
    <3> QED
      BY <2>1, <2>2, <3>1
  <2>3. CASE /\ Holders(o)' = Holders(o) \ {x} /\ x \in Holders(o)
             /\ Owners(o)' = Owners(o)
    <3>1. Cardinality(Holders(o))' = Cardinality(Holders(o)) - 1
      BY <2>3, Finite, CountOne
    <3> QED
      BY <2>1, <2>3, <3>1
  <2> QED
    BY <2>1, <2>2, <2>3
<1>2. rc[o]' = Cardinality(Owners(o))' + Cardinality(Holders(o))'
  BY <1>1 DEF Balanced, Types
<1>3. /\ Cardinality(Owners(o))' \in Nat /\ Cardinality(Holders(o))' \in Nat
      /\ Cardinality(Owners(o))' = 0 <=> Owners(o)' = {}
      /\ Cardinality(Holders(o))' = 0 <=> Holders(o)' = {}
  BY Finite, CountOne
<1>4. Owners(o)' \cup Holders(o)' = {} <=> rc[o] - 1 < 1
  <2>1. rc[o] - 1 = Cardinality(Owners(o))' + Cardinality(Holders(o))'
    BY <1>2
  <2> QED
    BY <1>3, <2>1
<1>5. /\ Cardinality(Destroying(o)) \in Nat
      /\ Cardinality(Destroying(o) \cup {t}) = Cardinality(Destroying(o)) + 1
  BY Finite, CountOne
<1>6. o \in made => destroyed[o] = 0 /\ Cardinality(Destroying(o)) = 0
  <2>1. Owners(o) \cup Holders(o) # {}
    OBVIOUS
  <2>2. o \in made => destroyed[o] + Cardinality(Destroying(o)) = 0
    BY <2>1 DEF Balanced
  <2> QED
    BY <1>5, <2>2 DEF Types
<1>7. o \in made => destroyed[o]' + Cardinality(Destroying(o))'
                      = IF Owners(o)' \cup Holders(o)' = {} THEN 1 ELSE 0
  <2>1. CASE rc[o] - 1 < 1
    BY <1>4, <1>5, <1>6, <2>1
  <2>2. CASE ~(rc[o] - 1 < 1)
    BY <1>4, <1>6, <2>2
  <2> QED
    BY <2>1, <2>2
<1> QED
  BY <1>2, <1>7 DEF Balanced

\* What a thread was about to destroy is destroyed.
LEMMA Gone ==
    ASSUME Types, NEW o \in Objects, Balanced(o), rc' = rc, made' = made,
           Owners(o)' = Owners(o), Holders(o)' = Holders(o),
           NEW t, t \in Destroying(o), Destroying(o)' = Destroying(o) \ {t},
           destroyed'[o] = destroyed[o] + 1
    PROVE  Balanced(o)'
<1>1. /\ Cardinality(Destroying(o)) \in Nat
      /\ Cardinality(Destroying(o))' = Cardinality(Destroying(o)) - 1
  BY Finite, CountOne
<1>2. destroyed[o]' + Cardinality(Destroying(o))'
        = destroyed[o] + Cardinality(Destroying(o))
  BY <1>1 DEF Types
<1> QED
  BY <1>2 DEF Balanced

\* The thread's reference becomes that of the pointer.
LEMMA HandedOver ==
    ASSUME NEW o \in Objects, Balanced(o), UNCHANGED <<rc, destroyed, made>>,
           Destroying(o)' = Destroying(o),
           NEW p, p \notin Owners(o), Owners(o)' = Owners(o) \cup {p},
           NEW t, t \in Holders(o), Holders(o)' = Holders(o) \ {t}
    PROVE  Balanced(o)'
<1>1. /\ Cardinality(Owners(o)) \in Nat /\ Cardinality(Holders(o)) \in Nat
      /\ Cardinality(Owners(o))' = Cardinality(Owners(o)) + 1
      /\ Cardinality(Holders(o))' = Cardinality(Holders(o)) - 1
  BY Finite, CountOne
<1>2. Owners(o) \cup Holders(o) # {} /\ Owners(o)' \cup Holders(o)' # {}
  OBVIOUS
<1> QED
  BY <1>1, <1>2 DEF Balanced

-----------------------------------------------------------------------------
\* How Counted() changes a count.
LEMMA CountedAt ==
    ASSUME Types, NEW o, NEW n \in Int, Counted(o, n), NEW q \in Objects
    PROVE  rc'[q] = IF q = o THEN rc[q] + n ELSE rc[q]
  BY DEF Counted, Types

\* An operation begins.
LEMMA BeginBalance ==
    ASSUME IInv, NEW t \in Threads, NEW p \in Pointers, NEW q \in Objects,
           \/ Reset(t, p)
           \/ \E o \in Objects : ResetToNew(t, p, o)
           \/ \E s \in Sources[p] : \/ ResetToWeak(t, p, s)
                                    \/ Assign(t, p, s)
                                    \/ AssignRequested(t, p, s)
    PROVE  Balanced(q)'
<1> USE DEF IInv, Shape
<1>0. Types /\ Balanced(q)
  OBVIOUS
<1>1. ASSUME NEW o, Begin(t, o), ~o.held, UNCHANGED <<rc, made>>
      PROVE  Balanced(q)'
  <2>1. destroyed' = destroyed
    BY <1>1 DEF Begin
  <2> QED
    BY <1>0, <1>1, <2>1, BeginSets, Unaffected
<1>2. CASE Reset(t, p)
  BY <1>1, <1>2 DEF Reset
<1>3. ASSUME NEW s \in Sources[p], ResetToWeak(t, p, s) \/ Assign(t, p, s)
      PROVE  Balanced(q)'
  BY <1>1, <1>3 DEF ResetToWeak, Assign
<1>4. ASSUME NEW o \in Objects, ResetToNew(t, p, o) PROVE Balanced(q)'
  <2> DEFINE r == [dst |-> p, src |-> {}, val |-> o, own |-> TRUE,
                   held |-> TRUE, inc |-> FALSE]
  <2>1. /\ Begin(t, r) /\ Counted(o, 1) /\ o \notin made /\ made' = made \cup {o}
        /\ destroyed' = destroyed
    BY <1>4 DEF ResetToNew, Begin
  <2>2. r.val = o /\ r.held
    OBVIOUS
  <2> HIDE DEF r
  <2>3. CASE q # o
    <3>1. rc'[q] = rc[q]
      BY <1>0, <2>1, <2>3, CountedAt
    <3>2. /\ Owners(q)' = Owners(q) /\ Destroying(q)' = Destroying(q)
          /\ Holders(q)' = Holders(q)
      BY <1>0, <2>1, <2>2, <2>3, BeginSets
    <3> QED
      BY <1>0, <2>1, <2>3, <3>1, <3>2, Unaffected
  <2>4. CASE q = o
    <3>1. Owners(o) = {} /\ Holders(o) = {} /\ Destroying(o) = {} /\ destroyed[o] = 0
      BY <2>1, PointersAssumption DEF Known, Owners, Holders, Destroying, Types, Operations
    <3>2. /\ Owners(o)' = {} /\ Destroying(o)' = {} /\ Holders(o)' = {t}
      BY <1>0, <2>1, <2>2, <3>1, BeginSets
    <3>3. Cardinality({}) = 0 /\ Cardinality({t}) = 1
      BY FS_EmptySet, FS_Singleton
    <3>4. rc'[o] = 1
      BY <1>0, <2>1, <2>4, <3>1, <3>3, CountedAt DEF Balanced
    <3> QED
      BY <2>1, <2>4, <3>1, <3>2, <3>3, <3>4 DEF Balanced
  <2> QED
    BY <2>3, <2>4
<1>5. ASSUME NEW s \in Sources[p], AssignRequested(t, p, s) PROVE Balanced(q)'
  <2> DEFINE o == intf[s]
             r == [dst |-> p, src |-> {}, val |-> o, own |-> TRUE,
                   held |-> TRUE, inc |-> TRUE]
  <2>1. /\ Begin(t, r) /\ Counted(o, 1) /\ made' = made /\ destroyed' = destroyed
        /\ cs[s] = NoThread /\ own[s]
    BY <1>5 DEF AssignRequested, Begin
  <2>2. r.val = o /\ r.held
    OBVIOUS
  <2> HIDE DEF r
  <2>3. CASE q # o
    <3>1. rc'[q] = rc[q]
      BY <1>0, <2>1, <2>3, CountedAt
    <3>2. /\ Owners(q)' = Owners(q) /\ Destroying(q)' = Destroying(q)
          /\ Holders(q)' = Holders(q)
      BY <1>0, <2>1, <2>2, <2>3, BeginSets
    <3> QED
      BY <1>0, <2>1, <2>3, <3>1, <3>2, Unaffected
  <2>4. CASE q = o
    <3>1. s \in Owners(q)
      BY <2>1, <2>4, PointersAssumption DEF Owners, Locks
    <3>2. rc'[q] = rc[q] + 1
      BY <1>0, <2>1, <2>4, CountedAt
    <3>3. /\ Owners(q)' = Owners(q) /\ Destroying(q)' = Destroying(q)
          /\ Holders(q)' = Holders(q) \cup {t} /\ t \notin Holders(q)
      BY <1>0, <2>1, <2>2, <2>4, BeginSets
    <3> QED
      BY <1>0, <2>1, <3>1, <3>2, <3>3, Taken
  <2> QED
    BY <2>3, <2>4
<1> QED
  BY <1>2, <1>3, <1>4, <1>5

\* A thread gets or waits for nothing but the lock.
LEMMA LockBalance ==
    ASSUME IInv, NEW t \in Threads, NEW q \in Objects, Lock(t)
    PROVE  Balanced(q)'
<1>1. /\ Types /\ Locks /\ Balanced(q) /\ pc[t] = "lock"
      /\ Goes(t, "clean")
      /\ intf' = intf /\ own' = own /\ rc' = rc /\ made' = made /\ destroyed' = destroyed
  BY DEF IInv, Shape, Lock, Goes
<1>2. Owners(q)' = Owners(q)
  BY <1>1, OwnersStep
<1>3. Holders(q)' = Holders(q)
  BY <1>1, ThreadStep
<1>4. Destroying(q)' = Destroying(q)
  BY <1>1, DestroyingStep
<1> QED
  BY <1>1, <1>2, <1>3, <1>4, Unaffected

\* The pointer gives up what it owns.
LEMMA CleanBalance ==
    ASSUME IInv, NEW t \in Threads, NEW q \in Objects, Clean(t)
    PROVE  Balanced(q)'
<1> DEFINE o == intf[op[t].dst]
<1>1. /\ Types /\ Locks /\ Balanced(q) /\ pc[t] = "clean"
      /\ intf' = intf /\ own' = own /\ made' = made /\ destroyed' = destroyed
  BY DEF IInv, Shape, Clean, Goes
<1>2. CASE own[op[t].dst] /\ o # NoObject
  <2> DEFINE l == IF rc[o] - 1 < 1 /\ destroyed[o] = 0 THEN "destroy" ELSE "set"
  <2>1. Counted(o, -1) /\ Goes(t, l)
    BY <1>2 DEF Clean, DecRef, Goes
  <2>2. l \in {"destroy", "set"} /\ (l = "destroy" <=> rc[o] - 1 < 1 /\ destroyed[o] = 0)
    OBVIOUS
  <2> HIDE DEF l
  <2>3. /\ Owners(q)' = Owners(q) \ {op[t].dst}
        /\ op[t].dst \in Owners(q) <=> o = q
    <3>1. op[t].dst \in Owners(q) <=> o = q /\ own[op[t].dst]
      BY <1>1 DEF Owners, Locks, Types, Operations
    <3>2. Owners(q)' = Owners(q) \ {op[t].dst}
      BY <1>1, <2>1, <2>2, OwnersStep
    <3> QED
      BY <1>2, <3>1, <3>2
  <2>4. Holders(q)' = Holders(q)
    BY <1>1, <2>1, <2>2, ThreadStep
  <2>5. /\ t \notin Destroying(q)
        /\ l = "destroy" => Destroying(q)' = Destroying(q) \cup (IF o = q THEN {t} ELSE {})
        /\ l = "set" => Destroying(q)' = Destroying(q)
    BY <1>1, <2>1 DEF Destroying, Goes, Types
  <2>6. rc'[q] = IF q = o THEN rc[q] + (-1) ELSE rc[q]
    BY <1>1, <2>1, CountedAt
  <2> HIDE DEF o
  <2>7. CASE o = q
    <3>1. rc'[q] = rc[q] - 1
      BY <1>1, <2>6, <2>7 DEF Types
    <3>2. Destroying(q)' = Destroying(q) \cup
             (IF rc[q] - 1 < 1 /\ destroyed[q] = 0 THEN {t} ELSE {})
      BY <2>2, <2>5, <2>7
    <3> QED
      BY <1>1, <2>3, <2>4, <2>5, <2>7, <3>1, <3>2, GivenUp
  <2>8. CASE o # q
    <3>1. Owners(q)' = Owners(q)
      BY <2>3, <2>8
    <3>2. Destroying(q)' = Destroying(q)
      BY <2>2, <2>5, <2>8
    <3> QED
      BY <1>1, <2>4, <2>6, <2>8, <3>1, <3>2, Unaffected
  <2> QED
    BY <2>7, <2>8
<1>3. CASE ~(own[op[t].dst] /\ o # NoObject)
  <2>1. Goes(t, "set") /\ rc' = rc
    BY <1>3 DEF Clean, Goes
  <2>2. Owners(q)' = Owners(q)
    <3>1. ~(o = q /\ own[op[t].dst])
      BY <1>3, PointersAssumption
    <3>2. Owners(q)' = Owners(q) \ {op[t].dst}
      BY <1>1, <2>1, OwnersStep
    <3>3. op[t].dst \in Owners(q) => o = q /\ own[op[t].dst]
      BY DEF Owners
    <3> QED
      BY <3>1, <3>2, <3>3
  <2>3. Holders(q)' = Holders(q)
    BY <1>1, <2>1, ThreadStep
  <2>4. Destroying(q)' = Destroying(q)
    BY <1>1, <2>1, DestroyingStep
  <2> QED
    BY <1>1, <2>1, <2>2, <2>3, <2>4, Unaffected
<1> QED
  BY <1>2, <1>3

\* The object that the pointer gave up last is destroyed.
LEMMA DestroyBalance ==
    ASSUME IInv, NEW t \in Threads, NEW q \in Objects, Destroy(t)
    PROVE  Balanced(q)'
<1> DEFINE o == intf[op[t].dst]
<1>1. /\ Types /\ Locks /\ Balanced(q) /\ pc[t] = "destroy"
      /\ Goes(t, "set")
      /\ intf' = intf /\ own' = own /\ rc' = rc /\ made' = made
  BY DEF IInv, Shape, Destroy, Goes
<1>2. destroyed'[q] = IF q = o THEN destroyed[q] + 1 ELSE destroyed[q]
  BY <1>1 DEF Destroy, Types
<1>3. Owners(q)' = Owners(q)
  BY <1>1, OwnersStep
<1>4. Holders(q)' = Holders(q)
  BY <1>1, ThreadStep
<1>5. /\ t \in Destroying(q) <=> o = q
      /\ Destroying(q)' = Destroying(q) \ {t}
  BY <1>1, DestroyingStep
<1> HIDE DEF o
<1>6. CASE o = q
  BY <1>1, <1>2, <1>3, <1>4, <1>5, <1>6, Gone
<1>7. CASE o # q
  <2>1. Destroying(q)' = Destroying(q)
    BY <1>5, <1>7
  <2> QED
    BY <1>1, <1>2, <1>3, <1>4, <1>7, <2>1, Unaffected
<1> QED
  BY <1>6, <1>7

\* The pointer gets its object: with a reference of the thread, or it is
\* counted next, or it does not own it.
LEMMA SetBalance ==
    ASSUME IInv, NEW t \in Threads, NEW q \in Objects, Set(t)
    PROVE  Balanced(q)'
<1> DEFINE p == op[t].dst
           l == IF op[t].inc THEN "inc" ELSE "idle"
<1>1. /\ Types /\ Locks /\ Forms /\ Balanced(q) /\ pc[t] = "set"
      /\ Goes(t, l)
      /\ rc' = rc /\ made' = made /\ destroyed' = destroyed
  BY DEF IInv, Shape, Set, Goes
<1>2. /\ p \in Pointers /\ op[t].own \in BOOLEAN /\ op[t].held \in BOOLEAN
      /\ op[t].inc \in BOOLEAN
  BY <1>1 DEF Types, Operations
<1>3. /\ pc'[t] = l /\ \A u \in Threads \ {t} : pc'[u] = pc[u]
      /\ intf'[p] = op[t].val /\ own'[p] = op[t].own
      /\ op' = op
      /\ \A x \in Pointers \ {p} : intf'[x] = intf[x] /\ own'[x] = own[x]
  BY <1>1, <1>2 DEF Set, Types, Goes
<1>4. \A u \in Threads \ {t} :
         pc[u] \in {"destroy", "set", "inc"} => op[u].dst # p
  BY <1>1 DEF Locks
<1>5. /\ p \notin Owners(q)
      /\ l = "idle" /\ op[t].val = q /\ op[t].own => Owners(q)' = Owners(q) \cup {p}
      /\ ~(l = "idle" /\ op[t].val = q /\ op[t].own) => Owners(q)' = Owners(q)
  <2>1. p \notin Owners(q)
    BY <1>1 DEF Owners
  <2>2. p \in Owners(q)' <=> l = "idle" /\ op[t].val = q /\ op[t].own
    BY <1>1, <1>2, <1>3, <1>4 DEF Owners
  <2>3. ASSUME NEW x \in Pointers \ {p} PROVE x \in Owners(q)' <=> x \in Owners(q)
    BY <1>1, <1>3 DEF Owners
  <2>4. Owners(q) \subseteq Pointers /\ Owners(q)' \subseteq Pointers
    BY DEF Owners
  <2> HIDE DEF p, l
  <2> QED
    BY <1>2, <2>1, <2>2, <2>3, <2>4
<1>6. Destroying(q)' = Destroying(q)
  <2>1. ASSUME NEW u \in Threads PROVE u \in Destroying(q)' <=> u \in Destroying(q)
    <3>1. CASE u = t
      BY <1>1, <1>3, <3>1 DEF Destroying
    <3>2. CASE u # t
      <4>1. pc[u] = "destroy" => intf'[op[u].dst] = intf[op[u].dst]
        BY <1>1, <1>3, <1>4, <3>2 DEF Types, Operations
      <4> QED
        BY <1>1, <1>3, <3>2, <4>1 DEF Destroying
    <3> QED
      BY <3>1, <3>2
  <2> QED
    BY <2>1 DEF Destroying
<1>7. /\ l = "idle" /\ op[t].val = q /\ op[t].held =>
            t \in Holders(q) /\ Holders(q)' = Holders(q) \ {t}
      /\ ~(l = "idle" /\ op[t].val = q /\ op[t].held) => Holders(q)' = Holders(q)
  BY <1>1, ThreadStep
<1>8. q # NoObject /\ (l = "idle" <=> ~op[t].inc)
      /\ (op[t].inc \/ op[t].held <=> op[t].own /\ op[t].val # NoObject)
  BY <1>1, <1>2, PointersAssumption DEF Forms
<1> HIDE DEF l, p
<1>9. CASE l = "idle" /\ op[t].val = q /\ op[t].own
  <2>1. op[t].held
    BY <1>8, <1>9
  <2> QED
    BY <1>1, <1>5, <1>6, <1>7, <1>9, <2>1, HandedOver
<1>10. CASE ~(l = "idle" /\ op[t].val = q /\ op[t].own)
  <2>1. ~(l = "idle" /\ op[t].val = q /\ op[t].held)
    BY <1>2, <1>8, <1>10
  <2> QED
    BY <1>1, <1>5, <1>6, <1>7, <1>10, <2>1, Unaffected
<1> QED
  BY <1>9, <1>10

\* What the pointer owns is counted: somebody else owned it until now.
LEMMA IncRefBalance ==
    ASSUME IInv, NEW t \in Threads, NEW q \in Objects, IncRef(t)
    PROVE  Balanced(q)'
<1> DEFINE o == op[t].val
           l == IF op[t].held THEN "drop" ELSE "idle"
<1>1. /\ Types /\ Locks /\ Forms /\ Balanced(q) /\ pc[t] = "inc"
      /\ Counted(o, 1) /\ Goes(t, l)
      /\ intf' = intf /\ own' = own /\ made' = made /\ destroyed' = destroyed
  BY DEF IInv, Shape, IncRef, Goes
<1>2. intf[op[t].dst] = o /\ own[op[t].dst] /\ op[t].inc
  BY <1>1 DEF Forms
<1>2a. l \notin {"destroy", "set", "inc"}
  OBVIOUS
<1>3. /\ op[t].dst \notin Owners(q)
      /\ o = q => Owners(q)' = Owners(q) \cup {op[t].dst}
      /\ o # q => Owners(q)' = Owners(q)
  <2>1. /\ pc'[t] = l /\ \A u \in Threads \ {t} : pc'[u] = pc[u]
        /\ op' = op /\ op[t].dst \in Pointers
    BY <1>1 DEF Goes, Types, Operations
  <2> HIDE DEF l, o
  <2> QED
    BY <1>1, <1>2, <1>2a, <2>1 DEF Owners, Locks
<1>4. Holders(q)' = Holders(q)
  <2>1. CASE op[t].held
    BY <1>1, <2>1, ThreadStep
  <2>2. CASE ~op[t].held
    BY <1>1, <2>2, ThreadStep
  <2> QED
    BY <2>1, <2>2
<1>5. Destroying(q)' = Destroying(q)
  BY <1>1, DestroyingStep
<1>6. rc'[q] = IF q = o THEN rc[q] + 1 ELSE rc[q]
  BY <1>1, CountedAt
<1>7. o = q => Owners(q) \cup Holders(q) # {}
  <2>1. CASE op[t].held
    BY <1>1, <2>1 DEF Holders
  <2>2. CASE ~op[t].held
    <3>1. PICK s \in op[t].src : intf[s] = o /\ own[s]
      BY <1>1, <1>2, <2>2 DEF Forms
    <3>2. s \in Pointers /\ s # op[t].dst /\ cs[s] = t
      BY <1>1 DEF Types, Operations, Locks
    <3>3. \A u \in Threads : op[u].dst = s => pc[u] \notin {"destroy", "set", "inc"}
      BY <1>1, <3>2 DEF Locks
    <3> QED
      BY <3>1, <3>2, <3>3 DEF Owners
  <2> QED
    BY <2>1, <2>2
<1> HIDE DEF o, l
<1>8. CASE q = o
  BY <1>1, <1>3, <1>4, <1>5, <1>6, <1>7, <1>8, Taken
<1>9. CASE q # o
  BY <1>1, <1>3, <1>4, <1>5, <1>6, <1>9, Unaffected
<1> QED
  BY <1>8, <1>9

\* The temporary pointer gives up its reference.
LEMMA DropBalance ==
    ASSUME IInv, NEW t \in Threads, NEW q \in Objects, Drop(t)
    PROVE  Balanced(q)'
<1> DEFINE o == op[t].val
           l == IF rc[o] - 1 < 1 /\ destroyed[o] = 0 THEN "dropDestroy" ELSE "idle"
<1>1. /\ Types /\ Locks /\ Forms /\ Balanced(q) /\ pc[t] = "drop"
      /\ Counted(o, -1) /\ Goes(t, l)
      /\ intf' = intf /\ own' = own /\ made' = made /\ destroyed' = destroyed
  BY DEF IInv, Shape, Drop, DecRef, Goes
<1>2. /\ l \in {"dropDestroy", "idle"}
      /\ l = "dropDestroy" <=> rc[o] - 1 < 1 /\ destroyed[o] = 0
  OBVIOUS
<1>3. op[t].held
  BY <1>1 DEF Forms
<1> HIDE DEF l
<1>4. Owners(q)' = Owners(q)
  BY <1>1, <1>2, OwnersStep
<1>5. /\ o = q => t \in Holders(q) /\ Holders(q)' = Holders(q) \ {t}
      /\ o # q => Holders(q)' = Holders(q)
  BY <1>1, <1>2, <1>3, ThreadStep
<1>6. /\ t \notin Destroying(q)
      /\ l = "dropDestroy" => Destroying(q)' = Destroying(q) \cup (IF o = q THEN {t} ELSE {})
      /\ l = "idle" => Destroying(q)' = Destroying(q)
  BY <1>1, DestroyingStep
<1>7. rc'[q] = IF q = o THEN rc[q] + (-1) ELSE rc[q]
  BY <1>1, CountedAt
<1> HIDE DEF o
<1>8. CASE o = q
  <2>1. rc'[q] = rc[q] - 1
    BY <1>1, <1>7, <1>8 DEF Types
  <2>2. Destroying(q)' = Destroying(q) \cup
           (IF rc[q] - 1 < 1 /\ destroyed[q] = 0 THEN {t} ELSE {})
    BY <1>2, <1>6, <1>8
  <2> QED
    BY <1>1, <1>4, <1>5, <1>6, <1>8, <2>1, <2>2, GivenUp
<1>9. CASE o # q
  <2>1. Destroying(q)' = Destroying(q)
    BY <1>2, <1>6, <1>9
  <2> QED
    BY <1>1, <1>4, <1>5, <1>7, <1>9, <2>1, Unaffected
<1> QED
  BY <1>8, <1>9

\* The object that the temporary pointer gave up last is destroyed.
LEMMA DropDestroyBalance ==
    ASSUME IInv, NEW t \in Threads, NEW q \in Objects, DropDestroy(t)
    PROVE  Balanced(q)'
<1> DEFINE o == op[t].val
<1>1. /\ Types /\ Locks /\ Balanced(q) /\ pc[t] = "dropDestroy"
      /\ Goes(t, "idle")
      /\ intf' = intf /\ own' = own /\ rc' = rc /\ made' = made
  BY DEF IInv, Shape, DropDestroy, Goes
<1>2. destroyed'[q] = IF q = o THEN destroyed[q] + 1 ELSE destroyed[q]
  BY <1>1 DEF DropDestroy, Types
<1>3. Owners(q)' = Owners(q)
  BY <1>1, OwnersStep
<1>4. Holders(q)' = Holders(q)
  BY <1>1, ThreadStep
<1>5. /\ t \in Destroying(q) <=> o = q
      /\ Destroying(q)' = Destroying(q) \ {t}
  BY <1>1, DestroyingStep
<1> HIDE DEF o
<1>6. CASE o = q
  BY <1>1, <1>2, <1>3, <1>4, <1>5, <1>6, Gone
<1>7. CASE o # q
  <2>1. Destroying(q)' = Destroying(q)
    BY <1>5, <1>7
  <2> QED
    BY <1>1, <1>2, <1>3, <1>4, <1>7, <2>1, Unaffected
<1> QED
  BY <1>6, <1>7

-----------------------------------------------------------------------------
\* At first nothing is owned, and every step keeps the balance of every object.
LEMMA Invariance == Spec => []IInv
<1>1. Init => IInv
  <2> SUFFICES ASSUME Init PROVE IInv
    OBVIOUS
  <2>1. /\ \A t \in Threads : pc[t] = "idle"
        /\ op \in [Threads -> Operations]
        /\ \A t \in Threads : /\ op[t].val = NoObject
                              /\ op[t].src = {} /\ op[t].own = TRUE
                              /\ op[t].held = FALSE /\ op[t].inc = FALSE
    <3> DEFINE r == [dst |-> CHOOSE p \in Pointers : TRUE, src |-> {},
                     val |-> NoObject, own |-> TRUE, held |-> FALSE, inc |-> FALSE]
    <3>1. (CHOOSE p \in Pointers : TRUE) \in Pointers
      BY PointersAssumption
    <3>2. r \in Operations
      BY <3>1 DEF Operations
    <3>3. /\ r.val = NoObject /\ r.src = {} /\ r.own = TRUE
          /\ r.held = FALSE /\ r.inc = FALSE
      OBVIOUS
    <3>4. op \in [Threads -> {r}] /\ \A t \in Threads : pc[t] = "idle"
      BY DEF Init
    <3> HIDE DEF r
    <3> QED
      BY <3>2, <3>3, <3>4
  <2>2. Shape
    BY <2>1 DEF Init, Shape, Types, Pcs, Locks, Forms, Known
  <2>3. ASSUME NEW o \in Objects PROVE Balanced(o)
    <3>1. Owners(o) = {} /\ Holders(o) = {} /\ o \notin made /\ rc[o] = 0
      BY <2>1, PointersAssumption DEF Init, Owners, Holders
    <3> QED
      BY <3>1, FS_EmptySet DEF Balanced
  <2> QED
    BY <2>2, <2>3 DEF IInv
<1>2. IInv /\ [Next]_vars => IInv'
  <2> SUFFICES ASSUME IInv, [Next]_vars PROVE IInv'
    OBVIOUS
  <2>1. ASSUME NEW t \in Threads,
               \/ \E p \in Pointers :
                     \/ Reset(t, p)
                     \/ \E o \in Objects : ResetToNew(t, p, o)
                     \/ \E s \in Sources[p] : \/ ResetToWeak(t, p, s)
                                              \/ Assign(t, p, s)
                                              \/ AssignRequested(t, p, s)
               \/ Lock(t) \/ Clean(t) \/ Destroy(t) \/ Set(t) \/ IncRef(t)
               \/ Drop(t) \/ DropDestroy(t)
        PROVE  IInv'
    <3>1. Shape'
      BY <2>1, ShapeStep DEF IInv
    <3>2. ASSUME NEW q \in Objects PROVE Balanced(q)'
      BY <2>1, BeginBalance, LockBalance, CleanBalance, DestroyBalance,
         SetBalance, IncRefBalance, DropBalance, DropDestroyBalance
    <3> QED
      BY <3>1, <3>2 DEF IInv
  <2>2. CASE UNCHANGED vars
    <3>1. Shape'
      BY <2>2 DEF vars, IInv, Shape, Types, Locks, Forms, Known
    <3>2. ASSUME NEW q \in Objects PROVE Balanced(q)'
      <4>1. /\ Owners(q)' = Owners(q) /\ Holders(q)' = Holders(q)
            /\ Destroying(q)' = Destroying(q)
            /\ rc' = rc /\ made' = made /\ destroyed' = destroyed
        BY <2>2 DEF vars, Owners, Holders, Destroying
      <4> QED
        BY <4>1, Unaffected DEF IInv
    <3> QED
      BY <3>1, <3>2 DEF IInv
  <2> QED
    BY <2>1, <2>2 DEF Next
<1> QED
  BY <1>1, <1>2, PTL DEF Spec

\* TypeOK: a reference is never given up that was not counted (decRef(),
\* EsBaseIntfImpl.hxx): no count becomes negative.
THEOREM TypeCorrect == Spec => []TypeOK
<1>1. IInv => TypeOK
  <2> SUFFICES ASSUME IInv PROVE TypeOK
    OBVIOUS
  <2>1. ASSUME NEW o \in Objects PROVE rc[o] \in Nat
    <3>1. Cardinality(Owners(o)) \in Nat /\ Cardinality(Holders(o)) \in Nat
      BY Finite, CountOne
    <3> QED
      BY <3>1 DEF IInv, Balanced
  <2> QED
    BY <2>1 DEF IInv, Shape, Types, TypeOK
<1> QED
  BY <1>1, Invariance, PTL

\* RefsCounted: m_rc is the number of pointers and operations that hold a
\* reference, whatever threads assign the same pointers (EsIntfPtr).
THEOREM RefsAreCounted == Spec => []RefsCounted
<1>1. IInv => RefsCounted
  BY DEF IInv, Balanced, RefsCounted
<1> QED
  BY <1>1, Invariance, PTL

\* DestroyedByLastOwner: an object is destroyed once, by the thread that gives
\* up the last reference, and by nobody while somebody owns it.
THEOREM DestroyedOnce == Spec => []DestroyedByLastOwner
<1>1. IInv => DestroyedByLastOwner
  BY DEF IInv, Shape, Types, Balanced, Destroying, DestroyedByLastOwner
<1> QED
  BY <1>1, Invariance, PTL
=============================================================================
