------------------------------ MODULE EsIntfPtr ------------------------------
(* EsIntfPtr (escore/EsBaseIntf.h) and the reference count of interface     *)
(* objects (EsBaseIntfImpl.hxx): pointers shared by threads, each with a    *)
(* lock, and objects that destroy themselves when the count comes to zero.  *)
(* An assignment gives up the old object, stores the new one and counts it, *)
(* one access to a count per step.  All pointers may be shared; moving from *)
(* a pointer takes no lock and is left to pointers of one thread.           *)
EXTENDS Integers, FiniteSets

CONSTANTS Threads, Pointers, Objects,
          NoObject,  \* nullptr
          NoThread,  \* nobody holds a lock
          Sources    \* Sources[p]: the pointers that are assigned to p

ASSUME PointersAssumption ==
    /\ IsFiniteSet(Pointers) /\ IsFiniteSet(Threads)
    /\ Pointers # {}
    /\ NoObject \notin Objects
    /\ NoThread \notin Threads
    /\ Sources \in [Pointers -> SUBSET Pointers]
    /\ \A p \in Pointers : p \notin Sources[p]

VARIABLES
    intf, own,  \* m_intf and m_own of each pointer
    cs,         \* m_cs: the thread that holds it
    rc,         \* m_rc of each object, 0 before it is made
    made,       \* the objects made
    destroyed,  \* how often each object was destroyed: m_destroying
    pc, op      \* where each thread is in the operation it performs, and on
                \* what

vars == <<intf, own, cs, rc, made, destroyed, pc, op>>

Pcs == {"idle", "lock", "clean", "destroy", "set", "inc", "drop", "dropDestroy"}

\* dst receives val, with ownership or not; the locks of src are kept until
\* the end; the thread holds a reference of its own to val, or does not;
\* incRef() follows, or does not.
Operations == [dst : Pointers, src : SUBSET Pointers,
               val : Objects \cup {NoObject}, own : BOOLEAN,
               held : BOOLEAN, inc : BOOLEAN]

TypeOK ==
    /\ intf \in [Pointers -> Objects \cup {NoObject}]
    /\ own \in [Pointers -> BOOLEAN]
    /\ cs \in [Pointers -> Threads \cup {NoThread}]
    /\ rc \in [Objects -> Nat]
    /\ made \subseteq Objects
    /\ destroyed \in [Objects -> Nat]
    /\ pc \in [Threads -> Pcs]
    /\ op \in [Threads -> Operations]

Init ==
    /\ intf = [p \in Pointers |-> NoObject]
    /\ own = [p \in Pointers |-> TRUE]
    /\ cs = [p \in Pointers |-> NoThread]
    /\ rc = [o \in Objects |-> 0]
    /\ made = {}
    /\ destroyed = [o \in Objects |-> 0]
    /\ pc = [t \in Threads |-> "idle"]
    /\ op \in [Threads -> {[dst |-> CHOOSE p \in Pointers : TRUE, src |-> {},
                            val |-> NoObject, own |-> TRUE,
                            held |-> FALSE, inc |-> FALSE]}]

Begin(t, o) ==
    /\ pc[t] = "idle"
    /\ pc' = [pc EXCEPT ![t] = "lock"]
    /\ op' = [op EXCEPT ![t] = o]
    /\ UNCHANGED <<intf, own, destroyed>>

Counted(o, n) == rc' = [rc EXCEPT ![o] = @ + n]

-----------------------------------------------------------------------------
\* reset(): the pointer gives up its object.
Reset(t, p) ==
    /\ Begin(t, [dst |-> p, src |-> {}, val |-> NoObject, own |-> TRUE,
                 held |-> FALSE, inc |-> FALSE])
    /\ UNCHANGED <<cs, rc, made>>

\* reset(new object): the count starts at 1, for the pointer.
ResetToNew(t, p, o) ==
    /\ o \notin made
    /\ made' = made \cup {o}
    /\ Counted(o, 1)
    /\ Begin(t, [dst |-> p, src |-> {}, val |-> o, own |-> TRUE,
                 held |-> TRUE, inc |-> FALSE])
    /\ UNCHANGED cs

\* reset(src.get(), false): a pointer that does not own.
ResetToWeak(t, p, s) ==
    /\ cs[s] = NoThread
    /\ Begin(t, [dst |-> p, src |-> {}, val |-> intf[s], own |-> FALSE,
                 held |-> FALSE, inc |-> FALSE])
    /\ UNCHANGED <<cs, rc, made>>

\* Faulty variant: the source is not locked.
AssignUnlocked(t, p, s) ==
    /\ cs[s] = NoThread
    /\ Begin(t, [dst |-> p, src |-> {}, val |-> intf[s], own |-> own[s],
                 held |-> FALSE, inc |-> own[s] /\ intf[s] # NoObject])
    /\ UNCHANGED <<cs, rc, made>>

\* operator=, same interface: the source stays locked.
Assign(t, p, s) ==
    /\ cs[s] = NoThread
    /\ cs' = [cs EXCEPT ![s] = t]
    /\ Begin(t, [dst |-> p, src |-> {s}, val |-> intf[s], own |-> own[s],
                 held |-> FALSE, inc |-> own[s] /\ intf[s] # NoObject])
    /\ UNCHANGED <<rc, made>>

\* operator=, other interface: request() makes a temporary pointer that owns
\* the object too.  The source owns it; a weak one may not be asked while
\* others let go.
AssignRequested(t, p, s) ==
    /\ cs[s] = NoThread
    /\ own[s] /\ intf[s] # NoObject
    /\ Counted(intf[s], 1)
    /\ Begin(t, [dst |-> p, src |-> {}, val |-> intf[s], own |-> TRUE,
                 held |-> TRUE, inc |-> TRUE])
    /\ UNCHANGED <<cs, made>>

-----------------------------------------------------------------------------
Lock(t) ==
    /\ pc[t] = "lock"
    /\ cs[op[t].dst] = NoThread
    /\ cs' = [cs EXCEPT ![op[t].dst] = t]
    /\ pc' = [pc EXCEPT ![t] = "clean"]
    /\ UNCHANGED <<intf, own, rc, made, destroyed, op>>

\* decRef(): the thread that counts to zero goes on to destroy the object,
\* unless it is being destroyed.
DecRef(t, o, destroy, done) ==
    /\ Counted(o, -1)
    /\ pc' = [pc EXCEPT ![t] = IF rc[o] - 1 < 1 /\ destroyed[o] = 0
                               THEN destroy ELSE done]

\* Faulty variant: a pointer that does not own gives up a reference.
CleanWeak(t) ==
    LET o == intf[op[t].dst] IN
    /\ pc[t] = "clean"
    /\ IF o # NoObject
       THEN DecRef(t, o, "destroy", "set")
       ELSE pc' = [pc EXCEPT ![t] = "set"] /\ UNCHANGED rc
    /\ UNCHANGED <<intf, own, cs, made, destroyed, op>>

Clean(t) ==
    LET p == op[t].dst IN
    /\ pc[t] = "clean"
    /\ IF own[p] /\ intf[p] # NoObject
       THEN DecRef(t, intf[p], "destroy", "set")
       ELSE pc' = [pc EXCEPT ![t] = "set"] /\ UNCHANGED rc
    /\ UNCHANGED <<intf, own, cs, made, destroyed, op>>

Destroy(t) ==
    LET o == intf[op[t].dst] IN
    /\ pc[t] = "destroy"
    /\ destroyed' = [destroyed EXCEPT ![o] = @ + 1]
    /\ pc' = [pc EXCEPT ![t] = "set"]
    /\ UNCHANGED <<intf, own, cs, rc, made, op>>

Unlock(t) ==
    cs' = [p \in Pointers |-> IF p \in op[t].src \cup {op[t].dst}
                              THEN NoThread ELSE cs[p]]

\* m_intf and m_own are set; without an incRef() this is the end.
Set(t) ==
    LET p == op[t].dst IN
    /\ pc[t] = "set"
    /\ intf' = [intf EXCEPT ![p] = op[t].val]
    /\ own' = [own EXCEPT ![p] = op[t].own]
    /\ IF op[t].inc THEN pc' = [pc EXCEPT ![t] = "inc"] /\ UNCHANGED cs
                    ELSE pc' = [pc EXCEPT ![t] = "idle"] /\ Unlock(t)
    /\ UNCHANGED <<rc, made, destroyed, op>>

IncRef(t) ==
    /\ pc[t] = "inc"
    /\ Counted(op[t].val, 1)
    /\ pc' = [pc EXCEPT ![t] = IF op[t].held THEN "drop" ELSE "idle"]
    /\ Unlock(t)
    /\ UNCHANGED <<intf, own, made, destroyed, op>>

\* The destructor of the temporary pointer.
Drop(t) ==
    /\ pc[t] = "drop"
    /\ DecRef(t, op[t].val, "dropDestroy", "idle")
    /\ UNCHANGED <<intf, own, cs, made, destroyed, op>>

DropDestroy(t) ==
    /\ pc[t] = "dropDestroy"
    /\ destroyed' = [destroyed EXCEPT ![op[t].val] = @ + 1]
    /\ pc' = [pc EXCEPT ![t] = "idle"]
    /\ UNCHANGED <<intf, own, cs, rc, made, op>>

Next ==
    \E t \in Threads :
        \/ \E p \in Pointers :
              \/ Reset(t, p)
              \/ \E o \in Objects : ResetToNew(t, p, o)
              \/ \E s \in Sources[p] : \/ ResetToWeak(t, p, s)
                                       \/ Assign(t, p, s)
                                       \/ AssignRequested(t, p, s)
        \/ Lock(t) \/ Clean(t) \/ Destroy(t) \/ Set(t) \/ IncRef(t)
        \/ Drop(t) \/ DropDestroy(t)

Spec == Init /\ [][Next]_vars

-----------------------------------------------------------------------------
\* The pointers that own an object, and are counted: not those that have
\* given up their reference and not those that have yet to count theirs.
Owners(o) == {p \in Pointers : /\ intf[p] = o /\ own[p]
                               /\ \A t \in Threads : op[t].dst = p
                                     => pc[t] \notin {"destroy", "set", "inc"}}

\* The threads that hold a reference of their own in an operation.
Holders(o) == {t \in Threads : /\ op[t].val = o /\ op[t].held
                               /\ pc[t] \notin {"idle", "dropDestroy"}}

\* m_rc is the number of owning pointers and of threads in the middle of an
\* operation that hold a reference, however the operations interleave.
RefsCounted ==
    \A o \in Objects : rc[o] = Cardinality(Owners(o)) + Cardinality(Holders(o))

\* An object lives as long as somebody owns it, and is destroyed once, by
\* whoever gives up the last reference.
DestroyedByLastOwner ==
    \A o \in made :
        LET destroying == {t \in Threads :
                \/ pc[t] = "destroy" /\ intf[op[t].dst] = o
                \/ pc[t] = "dropDestroy" /\ op[t].val = o}
        IN  destroyed[o] + Cardinality(destroying)
            = IF Owners(o) \cup Holders(o) = {} THEN 1 ELSE 0
=============================================================================
