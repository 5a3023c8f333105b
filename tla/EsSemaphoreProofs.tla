------------------------- MODULE EsSemaphoreProofs -------------------------
(* Proofs about EsSemaphore, for any finite set of threads and any limits. *)
EXTENDS EsSemaphore, FiniteSetTheorems, TLAPS

\* maxCnt and initCnt are what the constructor makes of its arguments.
LEMMA Limits ==
    /\ maxCnt \in Nat \ {0}
    /\ initCnt \in 0..maxCnt
    /\ maxCnt <= SemValueMax
    /\ SemValueMax \in Nat
    /\ MaxInterrupts \in Nat
  BY CountAssumption DEF maxCnt, initCnt

Bit(place, S) == IF place \in S THEN 1 ELSE 0

\* Moving one thread to another place changes the number of threads at a set
\* of places by one at most, and it says in which direction.
LEMMA Move ==
    ASSUME NEW f \in [Threads -> Pcs], NEW t \in Threads, NEW p \in Pcs,
           NEW S
    PROVE  LET A == {u \in Threads : f[u] \in S}
               B == {u \in Threads : [f EXCEPT ![t] = p][u] \in S}
           IN  /\ Cardinality(A) \in Nat
               /\ Cardinality(B) \in Nat
               /\ Cardinality(B) = Cardinality(A) + Bit(p, S) - Bit(f[t], S)
<1> DEFINE A == {u \in Threads : f[u] \in S}
           B == {u \in Threads : [f EXCEPT ![t] = p][u] \in S}
           C == {u \in Threads : f[u] \in S /\ u # t}
<1>1. IsFiniteSet(A) /\ IsFiniteSet(B) /\ IsFiniteSet(C)
  BY ThreadsAssumption, FS_Subset
<1>2. /\ Cardinality(A) \in Nat
      /\ Cardinality(B) \in Nat
      /\ Cardinality(C) \in Nat
  BY <1>1, FS_CardinalityType
<1>3. t \notin C
  OBVIOUS
<1>4. Cardinality(C \cup {t}) = Cardinality(C) + 1
  BY <1>1, <1>3, FS_AddElement
<1>5. A = IF f[t] \in S THEN C \cup {t} ELSE C
  OBVIOUS
<1>6. B = IF p \in S THEN C \cup {t} ELSE C
  OBVIOUS
<1> HIDE DEF A, B, C
<1>7. Cardinality(A) = Cardinality(C) + Bit(f[t], S)
  BY <1>2, <1>4, <1>5 DEF Bit
<1>8. Cardinality(B) = Cardinality(C) + Bit(p, S)
  BY <1>2, <1>4, <1>6 DEF Bit
<1>9. Bit(p, S) \in Int /\ Bit(f[t], S) \in Int
  BY DEF Bit
<1>10. Cardinality(B) = Cardinality(A) + Bit(p, S) - Bit(f[t], S)
  BY <1>2, <1>7, <1>8, <1>9
<1> QED
  BY <1>2, <1>10 DEF A, B

TakenPcs == {"dec", "decSlot", "decCount"}
LockedPcs == {"postFree", "postCount", "decSlot", "decCount"}

\* The same for the four sets of threads the balances count.
LEMMA Counts ==
    ASSUME TypeOK, NEW t \in Threads, NEW p \in Pcs,
           pc' = [pc EXCEPT ![t] = p]
    PROVE  /\ Cardinality(Taken) \in Nat /\ Cardinality(Taken)' \in Nat
           /\ Cardinality(Counting) \in Nat /\ Cardinality(Counting)' \in Nat
           /\ Cardinality(Filling) \in Nat /\ Cardinality(Filling)' \in Nat
           /\ Cardinality(Freed) \in Nat /\ Cardinality(Freed)' \in Nat
           /\ Cardinality(Taken)' = Cardinality(Taken)
                + Bit(p, TakenPcs) - Bit(pc[t], TakenPcs)
           /\ Cardinality(Counting)' = Cardinality(Counting)
                + Bit(p, {"postCount"}) - Bit(pc[t], {"postCount"})
           /\ Cardinality(Filling)' = Cardinality(Filling)
                + Bit(p, {"postSlot"}) - Bit(pc[t], {"postSlot"})
           /\ Cardinality(Freed)' = Cardinality(Freed)
                + Bit(p, {"decCount"}) - Bit(pc[t], {"decCount"})
<1> DEFINE A(S) == {u \in Threads : pc[u] \in S}
           B(S) == {u \in Threads : [pc EXCEPT ![t] = p][u] \in S}
<1>1. pc \in [Threads -> Pcs]
  BY DEF TypeOK
<1>2. \A S : /\ Cardinality(A(S)) \in Nat
             /\ Cardinality(B(S)) \in Nat
             /\ Cardinality(B(S)) =
                  Cardinality(A(S)) + Bit(p, S) - Bit(pc[t], S)
  BY <1>1, Move
<1>3. Taken = A(TakenPcs) /\ Taken' = B(TakenPcs)
  BY DEF Taken, TakenPcs, At
<1>4. Counting = A({"postCount"}) /\ Counting' = B({"postCount"})
  BY DEF Counting, At
<1>5. Filling = A({"postSlot"}) /\ Filling' = B({"postSlot"})
  BY DEF Filling, At
<1>6. Freed = A({"decCount"}) /\ Freed' = B({"decCount"})
  BY DEF Freed, At
<1> HIDE DEF A, B
<1>8. /\ Cardinality(Taken) \in Nat /\ Cardinality(Taken)' \in Nat
      /\ Cardinality(Taken)' = Cardinality(Taken)
           + Bit(p, TakenPcs) - Bit(pc[t], TakenPcs)
  BY <1>2, <1>3
<1>9. /\ Cardinality(Counting) \in Nat /\ Cardinality(Counting)' \in Nat
      /\ Cardinality(Counting)' = Cardinality(Counting)
           + Bit(p, {"postCount"}) - Bit(pc[t], {"postCount"})
  BY <1>2, <1>4
<1>10. /\ Cardinality(Filling) \in Nat /\ Cardinality(Filling)' \in Nat
       /\ Cardinality(Filling)' = Cardinality(Filling)
            + Bit(p, {"postSlot"}) - Bit(pc[t], {"postSlot"})
  BY <1>2, <1>5
<1>11. /\ Cardinality(Freed) \in Nat /\ Cardinality(Freed)' \in Nat
       /\ Cardinality(Freed)' = Cardinality(Freed)
            + Bit(p, {"decCount"}) - Bit(pc[t], {"decCount"})
  BY <1>2, <1>6
<1> QED
  BY <1>8, <1>9, <1>10, <1>11

-----------------------------------------------------------------------------
(* The inductive invariant.  The balances need the exclusion of MutexHeld: *)
(* without it a second poster could increment m_cnt after this one's test. *)

IInv == TypeOK /\ MutexHeld /\ TokenBalance /\ SlotBalance

\* The constructor establishes the invariant.
LEMMA InitInv == Init => IInv
<1> SUFFICES ASSUME Init PROVE IInv
  OBVIOUS
<1> USE Limits DEF Init
<1>1. TypeOK
  BY DEF TypeOK, Pcs, WaitPcs, Calls, Results
<1>2. MutexHeld
  BY DEF MutexHeld
<1>3. Taken = {} /\ Counting = {} /\ Filling = {} /\ Freed = {}
  BY DEF Taken, Counting, Filling, Freed, At
<1>4. Cardinality({}) = 0
  BY FS_EmptySet
<1>5. TokenBalance
  BY <1>3, <1>4 DEF TokenBalance
<1>6. SlotBalance
  BY <1>3, <1>4 DEF SlotBalance
<1> QED
  BY <1>1, <1>2, <1>5, <1>6 DEF IInv

\* What a thread at a place contributes to each balance, and the change of the
\* variables that makes up for its move from one place to another.
TokenWeight(place) == Bit(place, TakenPcs) - Bit(place, {"postCount"})
SlotWeight(place) == Bit(place, {"postSlot"}) + Bit(place, {"decCount"})

Moved(t, p) ==
    /\ pc' = [pc EXCEPT ![t] = p]
    /\ semFree' + spilled' - cnt' + TokenWeight(p)
         = semFree + spilled - cnt + TokenWeight(pc[t])
    /\ semLock' + cnt' - interrupted' - SlotWeight(p)
         = semLock + cnt - interrupted - SlotWeight(pc[t])

\* A step that moves one thread, and changes the counters as its weights say,
\* keeps both balances.
LEMMA BalanceStep ==
    ASSUME IInv, TypeOK', NEW t \in Threads, NEW p \in Pcs, Moved(t, p)
    PROVE  TokenBalance' /\ SlotBalance'
<1>1. TypeOK /\ TokenBalance /\ SlotBalance
  BY DEF IInv
<1>3. /\ Bit(p, TakenPcs) \in Int /\ Bit(pc[t], TakenPcs) \in Int
      /\ Bit(p, {"postCount"}) \in Int /\ Bit(pc[t], {"postCount"}) \in Int
      /\ Bit(p, {"postSlot"}) \in Int /\ Bit(pc[t], {"postSlot"}) \in Int
      /\ Bit(p, {"decCount"}) \in Int /\ Bit(pc[t], {"decCount"}) \in Int
  BY DEF Bit
<1>4. /\ semFree \in Int /\ semLock \in Int /\ cnt \in Int
      /\ interrupted \in Int /\ spilled \in Int /\ maxCnt \in Int
      /\ semFree' \in Int /\ semLock' \in Int /\ cnt' \in Int
      /\ interrupted' \in Int /\ spilled' \in Int
  BY <1>1, Limits DEF TypeOK
<1> DEFINE nTaken == Cardinality(Taken)
           nCounting == Cardinality(Counting)
           nFilling == Cardinality(Filling)
           nFreed == Cardinality(Freed)
<1>5. /\ nTaken \in Nat /\ nTaken' \in Nat /\ nCounting \in Nat /\ nCounting' \in Nat
      /\ nFilling \in Nat /\ nFilling' \in Nat /\ nFreed \in Nat /\ nFreed' \in Nat
      /\ nTaken' = nTaken + Bit(p, TakenPcs) - Bit(pc[t], TakenPcs)
      /\ nCounting' = nCounting + Bit(p, {"postCount"}) - Bit(pc[t], {"postCount"})
      /\ nFilling' = nFilling + Bit(p, {"postSlot"}) - Bit(pc[t], {"postSlot"})
      /\ nFreed' = nFreed + Bit(p, {"decCount"}) - Bit(pc[t], {"decCount"})
  BY <1>1, Counts DEF Moved
<1>6. semFree = cnt + nCounting - nTaken - spilled
  BY <1>1 DEF TokenBalance
<1>7. semLock = maxCnt - cnt + nFilling + nFreed + interrupted
  BY <1>1 DEF SlotBalance
<1> HIDE DEF nTaken, nCounting, nFilling, nFreed
<1>8. semFree' = cnt' + nCounting' - nTaken' - spilled'
  BY <1>3, <1>4, <1>5, <1>6 DEF Moved, TokenWeight
<1>9. semLock' = maxCnt - cnt' + nFilling' + nFreed' + interrupted'
  BY <1>3, <1>4, <1>5, <1>7 DEF Moved, SlotWeight
<1> QED
  BY <1>8, <1>9 DEF TokenBalance, SlotBalance, nTaken, nCounting, nFilling, nFreed

\* A thread in lockDec() holds the mutex and a token that m_cnt still counts.
LEMMA LockDecCounted ==
    ASSUME TypeOK, MutexHeld, TokenBalance,
           NEW t \in Threads, pc[t] = "decSlot"
    PROVE  cnt > 0
<1>1. Counting = {}
  BY DEF MutexHeld, Counting, At
<1>2. Cardinality(Counting) = 0
  BY <1>1, FS_EmptySet
<1>3. IsFiniteSet(Taken) /\ t \in Taken
  BY ThreadsAssumption, FS_Subset DEF Taken, At
<1>4. Cardinality(Taken) \in Nat /\ Cardinality(Taken) # 0
  BY <1>3, FS_CardinalityType, FS_EmptySet
<1> QED
  BY <1>2, <1>4, Limits DEF TokenBalance, TypeOK

\* Where the moving thread stands tells how the four cardinalities change; the
\* rest of each case is arithmetic.
LEMMA StepInv == IInv /\ [Next]_vars => IInv'
<1> SUFFICES ASSUME IInv, [Next]_vars PROVE IInv'
  OBVIOUS
<1> USE Limits
<1>0. TypeOK /\ MutexHeld /\ TokenBalance /\ SlotBalance
  BY DEF IInv
<1>1. CASE UNCHANGED vars
  <2>1. TypeOK' /\ MutexHeld'
    BY <1>0, <1>1 DEF vars, TypeOK, MutexHeld
  <2>2. TokenBalance' /\ SlotBalance'
    BY <1>0, <1>1 DEF vars, TokenBalance, SlotBalance, Taken, Counting,
                      Filling, Freed, At
  <2> QED
    BY <2>1, <2>2 DEF IInv
<1>2. ASSUME NEW t \in Threads, Enter(t) \/ Post(t) \/ Wait(t)
      PROVE  IInv'
  <2> DEFINE Bal == TokenBalance' /\ SlotBalance'
             Shape == TypeOK' /\ MutexHeld'
  <2>a. ASSUME Bal, Shape PROVE IInv'
    BY <2>a DEF IInv
  <2>1. CASE Enter(t)
    <3>1. PICK c \in Calls : pc' = [pc EXCEPT ![t] = c]
      BY <2>1 DEF Enter
    <3>2. Shape
      BY <1>0, <2>1 DEF Enter, TypeOK, MutexHeld, Calls, Pcs, WaitPcs, Results
    <3>3. pc' = [pc EXCEPT ![t] = c] /\ pc[t] = "idle" /\ c \in Pcs
      BY <2>1, <3>1 DEF Enter, Pcs, WaitPcs, Calls
    <3>4. Moved(t, c)
      BY <1>0, <2>1, <3>1, <3>3
         DEF Moved, TokenWeight, SlotWeight, Bit, TakenPcs, WaitPcs, Enter, TypeOK, Calls
    <3>5. Bal
      BY <3>2, <3>3, <3>4, BalanceStep
    <3> QED
      BY <3>2, <3>5, <2>a
  <2>2. CASE PostLock(t)
    <3>1. Shape
      BY <1>0, <2>2 DEF PostLock, Goto, Lock, TypeOK, MutexHeld, Pcs
    <3>2. pc' = [pc EXCEPT ![t] = "postFree"] /\ pc[t] = "post" /\ "postFree" \in Pcs
      BY <2>2 DEF PostLock, Goto, Pcs, WaitPcs
    <3>3. Moved(t, "postFree")
      BY <1>0, <2>2, <3>2
         DEF Moved, TokenWeight, SlotWeight, Bit, TakenPcs, WaitPcs, PostLock, TypeOK
    <3>4. Bal
      BY <3>1, <3>2, <3>3, BalanceStep
    <3> QED
      BY <3>1, <3>4, <2>a
  <2>3. CASE PostFull(t)
    <3>1. Shape
      BY <1>0, <2>3
         DEF PostFull, Return, Unlock, TypeOK, MutexHeld, Pcs, Results
    <3>2. pc' = [pc EXCEPT ![t] = "idle"] /\ pc[t] = "postFree" /\ "idle" \in Pcs
      BY <2>3 DEF PostFull, Return, Pcs, WaitPcs
    <3>3. Moved(t, "idle")
      BY <1>0, <2>3, <3>2
         DEF Moved, TokenWeight, SlotWeight, Bit, TakenPcs, WaitPcs, PostFull, TypeOK
    <3>4. Bal
      BY <3>1, <3>2, <3>3, BalanceStep
    <3> QED
      BY <3>1, <3>4, <2>a
  <2>4. CASE PostFree(t)
    <3>1. pc' = [pc EXCEPT ![t] = "postCount"] /\ semFree' = semFree + 1
          /\ mx' = mx
      <4>1. Counting = {}
        BY <1>0, <2>4 DEF PostFree, MutexHeld, Counting, At
      <4>2. Cardinality(Counting) = 0
        BY <4>1, FS_EmptySet
      <4>3. Cardinality(Taken) \in Nat
        BY FS_CardinalityType, FS_Subset, ThreadsAssumption DEF Taken, At
      <4>4. semFree < SemValueMax
        BY <1>0, <2>4, <4>2, <4>3 DEF PostFree, TokenBalance, TypeOK
      <4> QED
        BY <2>4, <4>4 DEF PostFree, Goto
    <3>2. Shape
      BY <1>0, <2>4, <3>1 DEF PostFree, Goto, TypeOK, MutexHeld, Pcs
    <3>3. pc' = [pc EXCEPT ![t] = "postCount"] /\ pc[t] = "postFree" /\ "postCount" \in Pcs
      BY <2>4, <3>1 DEF PostFree, Goto, Pcs, WaitPcs
    <3>4. Moved(t, "postCount")
      BY <1>0, <2>4, <3>1, <3>3
         DEF Moved, TokenWeight, SlotWeight, Bit, TakenPcs, WaitPcs, PostFree, TypeOK
    <3>5. Bal
      BY <3>2, <3>3, <3>4, BalanceStep
    <3> QED
      BY <3>2, <3>5, <2>a
  <2>5. CASE PostCount(t)
    <3>1. Shape
      BY <1>0, <2>5 DEF PostCount, Goto, Unlock, TypeOK, MutexHeld, Pcs
    <3>2. pc' = [pc EXCEPT ![t] = "postSlot"] /\ pc[t] = "postCount" /\ "postSlot" \in Pcs
      BY <2>5 DEF PostCount, Goto, Pcs, WaitPcs
    <3>3. Moved(t, "postSlot")
      BY <1>0, <2>5, <3>2
         DEF Moved, TokenWeight, SlotWeight, Bit, TakenPcs, WaitPcs, PostCount, TypeOK
    <3>4. Bal
      BY <3>1, <3>2, <3>3, BalanceStep
    <3> QED
      BY <3>1, <3>4, <2>a
  <2>6. CASE PostSlot(t)
    <3>1. Shape
      BY <1>0, <2>6 DEF PostSlot, Return, TypeOK, MutexHeld, Pcs, Results
    <3>2. pc' = [pc EXCEPT ![t] = "idle"] /\ pc[t] = "postSlot" /\ "idle" \in Pcs
      BY <2>6 DEF PostSlot, Return, Pcs, WaitPcs
    <3>3. Moved(t, "idle")
      BY <1>0, <2>6, <3>2
         DEF Moved, TokenWeight, SlotWeight, Bit, TakenPcs, WaitPcs, PostSlot, TypeOK
    <3>4. Bal
      BY <3>1, <3>2, <3>3, BalanceStep
    <3> QED
      BY <3>1, <3>4, <2>a
  <2>7. CASE PostInterrupted(t)
    <3>1. Shape
      BY <1>0, <2>7
         DEF PostInterrupted, Return, TypeOK, MutexHeld, Pcs, Results
    <3>2. pc' = [pc EXCEPT ![t] = "idle"] /\ pc[t] = "postSlot" /\ "idle" \in Pcs
      BY <2>7 DEF PostInterrupted, Return, Pcs, WaitPcs
    <3>3. Moved(t, "idle")
      BY <1>0, <2>7, <3>2
         DEF Moved, TokenWeight, SlotWeight, Bit, TakenPcs, WaitPcs, PostInterrupted, TypeOK
    <3>4. Bal
      BY <3>1, <3>2, <3>3, BalanceStep
    <3> QED
      BY <3>1, <3>4, <2>a
  <2>8. CASE Take(t)
    <3>1. Shape
      BY <1>0, <2>8 DEF Take, Goto, TypeOK, MutexHeld, Pcs, WaitPcs
    <3>2. pc' = [pc EXCEPT ![t] = "dec"] /\ pc[t] \in WaitPcs /\ "dec" \in Pcs
      BY <2>8 DEF Take, Goto, Pcs, WaitPcs
    <3>3. Moved(t, "dec")
      BY <1>0, <2>8, <3>2
         DEF Moved, TokenWeight, SlotWeight, Bit, TakenPcs, WaitPcs, Take, TypeOK
    <3>4. Bal
      BY <3>1, <3>2, <3>3, BalanceStep
    <3> QED
      BY <3>1, <3>4, <2>a
  <2>9. CASE Refuse(t)
    <3>1. Shape
      BY <1>0, <2>9 DEF Refuse, Return, TypeOK, MutexHeld, Pcs, Results
    <3>2. pc' = [pc EXCEPT ![t] = "idle"] /\ pc[t] \in WaitPcs /\ "idle" \in Pcs
      BY <2>9 DEF Refuse, Return, Pcs, WaitPcs
    <3>3. Moved(t, "idle")
      BY <1>0, <2>9, <3>2
         DEF Moved, TokenWeight, SlotWeight, Bit, TakenPcs, WaitPcs, Refuse, TypeOK
    <3>4. Bal
      BY <3>1, <3>2, <3>3, BalanceStep
    <3> QED
      BY <3>1, <3>4, <2>a
  <2>10. CASE LockDecLock(t)
    <3>1. Shape
      BY <1>0, <2>10 DEF LockDecLock, Goto, Lock, TypeOK, MutexHeld, Pcs
    <3>2. pc' = [pc EXCEPT ![t] = "decSlot"] /\ pc[t] = "dec" /\ "decSlot" \in Pcs
      BY <2>10 DEF LockDecLock, Goto, Pcs, WaitPcs
    <3>3. Moved(t, "decSlot")
      BY <1>0, <2>10, <3>2
         DEF Moved, TokenWeight, SlotWeight, Bit, TakenPcs, WaitPcs, LockDecLock, TypeOK
    <3>4. Bal
      BY <3>1, <3>2, <3>3, BalanceStep
    <3> QED
      BY <3>1, <3>4, <2>a
  <2>11. CASE LockDecSlot(t)
    <3>1. Shape
      BY <1>0, <2>11 DEF LockDecSlot, Goto, TypeOK, MutexHeld, Pcs
    <3>2. pc' = [pc EXCEPT ![t] = "decCount"] /\ pc[t] = "decSlot" /\ "decCount" \in Pcs
      BY <2>11 DEF LockDecSlot, Goto, Pcs, WaitPcs
    <3>3. Moved(t, "decCount")
      BY <1>0, <2>11, <3>2
         DEF Moved, TokenWeight, SlotWeight, Bit, TakenPcs, WaitPcs, LockDecSlot, TypeOK
    <3>4. Bal
      BY <3>1, <3>2, <3>3, BalanceStep
    <3> QED
      BY <3>1, <3>4, <2>a
  <2>12. CASE LockDecSkip(t)
    <3>1. cnt > 0
      BY <1>0, <2>12, LockDecCounted DEF LockDecSkip
    <3>2. Shape
      BY <1>0, <2>12, <3>1
         DEF LockDecSkip, Return, Unlock, TypeOK, MutexHeld, Pcs, Results
    <3>3. pc' = [pc EXCEPT ![t] = "idle"] /\ pc[t] = "decSlot" /\ "idle" \in Pcs
      BY <2>12, <3>1 DEF LockDecSkip, Return, Pcs, WaitPcs
    <3>4. Moved(t, "idle")
      BY <1>0, <2>12, <3>1, <3>3
         DEF Moved, TokenWeight, SlotWeight, Bit, TakenPcs, WaitPcs, LockDecSkip, TypeOK
    <3>5. Bal
      BY <3>2, <3>3, <3>4, BalanceStep
    <3> QED
      BY <3>2, <3>5, <2>a
  <2>13. CASE LockDecCount(t)
    <3>1. Shape
      BY <1>0, <2>13
         DEF LockDecCount, Return, Unlock, TypeOK, MutexHeld, Pcs, Results
    <3>2. pc' = [pc EXCEPT ![t] = "idle"] /\ pc[t] = "decCount" /\ "idle" \in Pcs
      BY <2>13 DEF LockDecCount, Return, Pcs, WaitPcs
    <3>3. Moved(t, "idle")
      BY <1>0, <2>13, <3>2
         DEF Moved, TokenWeight, SlotWeight, Bit, TakenPcs, WaitPcs, LockDecCount, TypeOK
    <3>4. Bal
      BY <3>1, <3>2, <3>3, BalanceStep
    <3> QED
      BY <3>1, <3>4, <2>a
  <2> HIDE DEF Bal, Shape
  <2> QED
    BY <1>2, <2>1, <2>2, <2>3, <2>4, <2>5, <2>6, <2>7, <2>8, <2>9, <2>10,
       <2>11, <2>12, <2>13
       DEF Post, Wait, LockDec
<1> QED
  BY <1>1, <1>2 DEF Next

\* IInv holds in every reachable state, whatever the constants.
THEOREM Invariance == Spec => []IInv
<1>1. Init => IInv
  BY InitInv
<1>2. IInv /\ [Next]_vars => IInv'
  BY StepInv
<1> QED
  BY <1>1, <1>2, PTL DEF Spec

\* m_semFree, m_semLock and m_cnt stay within the limits of the constructor.
THEOREM TypeCorrect == Spec => []TypeOK
<1>1. IInv => TypeOK
  BY DEF IInv
<1> QED
  BY <1>1, Invariance, PTL

\* No token appears or disappears between m_semFree and m_cnt, but for those
\* that a failed lockDec() loses.
THEOREM TokensConserved == Spec => []TokenBalance
<1>1. IInv => TokenBalance
  BY DEF IInv
<1> QED
  BY <1>1, Invariance, PTL

\* The slots of m_semLock follow m_cnt, interrupted posts included.
THEOREM SlotsConserved == Spec => []SlotBalance
<1>1. IInv => SlotBalance
  BY DEF IInv
<1> QED
  BY <1>1, Invariance, PTL

\* A poster that has unlocked m_mx finds a slot in m_semLock: post() does not
\* block in sem_wait, however the waits around it interleave.
THEOREM PostSafe == Spec => []PostNeverBlocks
<1>1. ASSUME IInv PROVE PostNeverBlocks
  <2>1. /\ IsFiniteSet(Filling) /\ IsFiniteSet(Freed)
        /\ Cardinality(Filling) \in Nat /\ Cardinality(Freed) \in Nat
    BY ThreadsAssumption, FS_Subset, FS_CardinalityType DEF Filling, Freed, At
  <2>2. Filling # {} => Cardinality(Filling) # 0
    BY <2>1, FS_EmptySet
  <2> QED
    BY <1>1, <2>1, <2>2, Limits
       DEF IInv, SlotBalance, TypeOK, PostNeverBlocks
<1> QED
  BY <1>1, Invariance, PTL

\* lockDec() never finds m_cnt at 0 and sem_post(m_semFree) never overflows:
\* the two branches of the code that would let the counters diverge are dead.
THEOREM DeadBranches == Spec => []CountCovers
<1>1. ASSUME IInv PROVE CountCovers
  <2>1. ASSUME NEW t \in Threads, pc[t] = "decSlot" PROVE cnt > 0
    BY <1>1, <2>1, LockDecCounted DEF IInv
  <2>2. ASSUME NEW t \in Threads, pc[t] = "postFree", cnt < maxCnt
        PROVE  semFree < SemValueMax
    <3>1. Counting = {}
      BY <1>1, <2>2 DEF IInv, MutexHeld, Counting, At
    <3>2. Cardinality(Counting) = 0
      BY <3>1, FS_EmptySet
    <3>3. Cardinality(Taken) \in Nat
      BY FS_CardinalityType, FS_Subset, ThreadsAssumption DEF Taken, At
    <3> QED
      BY <1>1, <2>2, <3>2, <3>3, Limits DEF IInv, TokenBalance, TypeOK
  <2> QED
    BY <2>1, <2>2 DEF CountCovers
<1> QED
  BY <1>1, Invariance, PTL

-----------------------------------------------------------------------------
(* While there is head room no wait loses its token: a thread in lockDec()  *)
(* holds the mutex, so nobody else has freed a slot, the count is at least  *)
(* one, and the posts that owe a slot are fewer than the threads.           *)

\* lockDec() finds room for the slot it frees.
LEMMA SlotFits ==
    ASSUME IInv, HeadRoom, NEW t \in Threads, pc[t] = "decSlot"
    PROVE  semLock < SemValueMax
<1>1. Freed = {}
  BY DEF IInv, MutexHeld, Freed, At
<1>2. Cardinality(Freed) = 0
  BY <1>1, FS_EmptySet
<1>3. Filling \subseteq Threads \ {t}
  BY DEF Filling, At
<1>4. /\ IsFiniteSet(Threads \ {t})
      /\ Cardinality(Threads \ {t}) = Cardinality(Threads) - 1
  BY ThreadsAssumption, FS_RemoveElement
<1>5. Cardinality(Filling) <= Cardinality(Threads) - 1
  BY <1>3, <1>4, FS_Subset
<1>6. Cardinality(Threads) \in Nat /\ Cardinality(Filling) \in Nat
  BY <1>3, <1>4, ThreadsAssumption, FS_CardinalityType, FS_Subset
<1>7. cnt > 0
  BY LockDecCounted DEF IInv
<1>8. /\ semLock = maxCnt - cnt + Cardinality(Filling) + interrupted
      /\ interrupted \in Int
  BY <1>2, <1>6, Limits DEF IInv, SlotBalance, TypeOK
<1> QED
  BY <1>5, <1>6, <1>7, <1>8, Limits DEF HeadRoom, IInv, TypeOK

\* So no step of lockDec() fails.
LEMMA StepNoTokenLost == IInv /\ NoTokenLost /\ [Next]_vars => NoTokenLost'
<1> SUFFICES ASSUME IInv, NoTokenLost, [Next]_vars, HeadRoom'
             PROVE  spilled' = 0
  BY DEF NoTokenLost
<1>s. interrupted' \in {interrupted, interrupted + 1}
  BY DEF Next, vars, Enter, Post, PostLock, PostFull, PostFree, PostCount,
         PostSlot, PostInterrupted, Wait, Take, Refuse, LockDec, LockDecLock,
         LockDecSlot, LockDecSkip, LockDecCount
<1>h. HeadRoom
  <2>1. /\ maxCnt \in Int /\ interrupted \in Int /\ SemValueMax \in Int
        /\ Cardinality(Threads) \in Int
    BY Limits, ThreadsAssumption, FS_CardinalityType DEF IInv, TypeOK
  <2>2. maxCnt + interrupted' + Cardinality(Threads) - 2 < SemValueMax
    BY DEF HeadRoom
  <2> QED
    BY <1>s, <2>1, <2>2 DEF HeadRoom
<1>0. spilled = 0
  BY <1>h DEF NoTokenLost
<1>1. CASE UNCHANGED vars
  BY <1>0, <1>1 DEF vars
<1>2. ASSUME NEW t \in Threads, LockDecSkip(t) PROVE FALSE
  BY <1>2, <1>h, SlotFits, LockDecCounted DEF LockDecSkip, IInv
<1>3. ASSUME NEW t \in Threads, Enter(t) \/ Post(t) \/ Wait(t)
      PROVE  spilled' = 0
  BY <1>0, <1>2, <1>3
     DEF Enter, Post, PostLock, PostFull, PostFree, PostCount, PostSlot,
         PostInterrupted, Wait, Take, Refuse, LockDec, LockDecLock,
         LockDecSlot, LockDecCount
<1> QED
  BY <1>1, <1>3 DEF Next

\* A semaphore fails no wait that took a token as long as its limit, the
\* interrupted posts and its threads leave room under SEM_VALUE_MAX.
THEOREM TokensKept == Spec => []NoTokenLost
<1>1. Init => NoTokenLost
  BY DEF Init, NoTokenLost
<1>2. IInv /\ NoTokenLost /\ [Next]_vars => NoTokenLost'
  BY StepNoTokenLost
<1> QED
  BY <1>1, <1>2, Invariance, PTL DEF Spec

-----------------------------------------------------------------------------
(* The refinement.  The counting semaphore is told which threads have been *)
(* granted a token or have posted one; both follow from pc once pc and     *)
(* call agree.                                                             *)

PostPcs == {"post", "postFree", "postCount", "postSlot"}

CallsAgree ==
    \A t \in Threads :
        /\ pc[t] \in PostPcs => call[t] = "post"
        /\ pc[t] \in TakenPcs => call[t] \in WaitPcs
        /\ pc[t] \in WaitPcs => call[t] = pc[t]
        /\ pc[t] # "idle" => result[t] = "none"

\* No step separates a thread's place from the call it makes.
LEMMA StepCallsAgree == TypeOK /\ CallsAgree /\ [Next]_vars => CallsAgree'
<1> SUFFICES ASSUME TypeOK, CallsAgree, [Next]_vars PROVE CallsAgree'
  OBVIOUS
<1> USE DEF PostPcs, TakenPcs, WaitPcs
<1>1. CASE UNCHANGED vars
  BY <1>1 DEF vars, CallsAgree
<1>2. ASSUME NEW t \in Threads, Enter(t) PROVE CallsAgree'
  BY <1>2 DEF Enter, CallsAgree, TypeOK, Calls
<1>3. ASSUME NEW t \in Threads, Post(t) PROVE CallsAgree'
  <2>1. CASE PostLock(t) \/ PostFree(t) \/ PostCount(t)
    BY <2>1 DEF PostLock, PostFree, PostCount, Goto, CallsAgree, TypeOK
  <2>2. CASE PostFull(t) \/ PostSlot(t) \/ PostInterrupted(t)
    BY <2>2 DEF PostFull, PostSlot, PostInterrupted, Return, CallsAgree, TypeOK
  <2> QED
    BY <1>3, <2>1, <2>2 DEF Post
<1>4. ASSUME NEW t \in Threads, Wait(t) PROVE CallsAgree'
  <2>1. CASE Take(t) \/ LockDecLock(t) \/ LockDecSlot(t)
    BY <2>1 DEF Take, LockDecLock, LockDecSlot, Goto, CallsAgree, TypeOK
  <2>2. CASE Refuse(t) \/ LockDecSkip(t) \/ LockDecCount(t)
    BY <2>2 DEF Refuse, LockDecSkip, LockDecCount, Return, CallsAgree, TypeOK
  <2> QED
    BY <1>4, <2>1, <2>2 DEF Wait, LockDec
<1> QED
  BY <1>1, <1>2, <1>3, <1>4 DEF Next

\* The calls that have had their effect, by where their threads are.
effected == Taken \cup Counting \cup Filling
count == cnt + Cardinality(Counting)
EffectedPcs == TakenPcs \cup {"postCount", "postSlot"}

\* The same set by places, as Moved changes them.
LEMMA EffectedAt == effected = {u \in Threads : pc[u] \in EffectedPcs}
  BY DEF effected, Taken, Counting, Filling, At, EffectedPcs, TakenPcs

\* How a thread's move changes what the counting semaphore sees.
LEMMA EffectedStep ==
    ASSUME TypeOK, NEW t \in Threads, NEW p \in Pcs,
           pc' = [pc EXCEPT ![t] = p]
    PROVE  effected' = IF p \in EffectedPcs THEN effected \cup {t}
                                            ELSE effected \ {t}
<1>1. effected' = {u \in Threads : pc'[u] \in EffectedPcs}
  BY DEF effected, Taken, Counting, Filling, At, EffectedPcs, TakenPcs
<1> QED
  BY <1>1, EffectedAt DEF TypeOK

\* The abstract count moves with m_cnt and with the token not yet counted.
LEMMA CountStep ==
    ASSUME TypeOK, NEW t \in Threads, NEW p \in Pcs,
           pc' = [pc EXCEPT ![t] = p], cnt' \in Int
    PROVE  count' = count + (cnt' - cnt)
                    + Bit(p, {"postCount"}) - Bit(pc[t], {"postCount"})
<1>1. /\ Cardinality(Counting) \in Nat /\ Cardinality(Counting)' \in Nat
      /\ Cardinality(Counting)' = Cardinality(Counting)
           + Bit(p, {"postCount"}) - Bit(pc[t], {"postCount"})
  BY Counts
<1>2. cnt \in Int
  BY Limits DEF TypeOK
<1>3. Bit(p, {"postCount"}) \in Int /\ Bit(pc[t], {"postCount"}) \in Int
  BY DEF Bit
<1> QED
  BY <1>1, <1>2, <1>3 DEF count

\* Most steps leave the count alone.
LEMMA CountSame ==
    ASSUME TypeOK, NEW t \in Threads, NEW p \in Pcs,
           pc' = [pc EXCEPT ![t] = p], cnt' = cnt,
           p # "postCount", pc[t] # "postCount"
    PROVE  count' = count
<1>1. Counting' = Counting
  BY DEF Counting, At, TypeOK
<1> QED
  BY <1>1 DEF count

\* CountingSemaphore reaches FiniteSets through its own EXTENDS.
LEMMA SameCardinality == \A S : Contract!Cardinality(S) = Cardinality(S)
  BY DEF Contract!Cardinality, Cardinality

\* The contract's granted users are the waits that hold a token, and they are
\* as many as the count covers, less what is left in m_semFree.
LEMMA GrantedTaken ==
    ASSUME IInv, CallsAgree
    PROVE  /\ Contract!granted = Taken
           /\ spilled = 0 => semFree = count - Cardinality(Taken)
           /\ Cardinality(Taken) \in Nat
           /\ count \in Int
<1>1. Contract!granted = Taken
  BY DEF CallsAgree, effected, Taken, Counting, Filling, At,
         Contract!granted, Contract!WaitCalls, TakenPcs, PostPcs, WaitPcs
<1>2. Cardinality(Counting) \in Nat /\ Cardinality(Taken) \in Nat
  BY FS_CardinalityType, FS_Subset, ThreadsAssumption DEF Counting, Taken, At
<1>4. cnt \in Int /\ semFree \in Int
  BY Limits DEF IInv, TypeOK
<1> QED
  BY <1>1, <1>2, <1>4 DEF IInv, TokenBalance, count

\* While a thread holds m_mx at sem_post(m_semFree) or at the test before it,
\* nobody else is between sem_post(m_semFree) and ++m_cnt.
LEMMA CountAtTest ==
    ASSUME IInv, NEW t \in Threads, pc[t] = "postFree"
    PROVE  count = cnt
<1>1. Counting = {}
  BY DEF IInv, MutexHeld, Counting, At
<1>2. Cardinality(Counting) = 0
  BY <1>1, FS_EmptySet
<1> QED
  BY <1>2, Limits DEF count, IInv, TypeOK

\* The constructor's state is an initial state of CountingSemaphore.
LEMMA InitRefines == Init => Contract!Init
<1> SUFFICES ASSUME Init PROVE Contract!Init
  OBVIOUS
<1>1. Counting = {} /\ effected = {}
  BY DEF Init, Taken, Counting, Filling, At, effected
<1>2. Cardinality({}) = 0
  BY FS_EmptySet
<1>3. cnt + Cardinality(Counting) = initCnt
  BY <1>1, <1>2, Limits DEF Init
<1> QED
  BY <1>1, <1>3 DEF Init, Contract!Init, effected

\* Only a failed lockDec() changes what was lost, and nothing undoes it.
LEMMA SpilledStep ==
    ASSUME NEW t \in Threads, Enter(t) \/ Post(t) \/ Wait(t)
    PROVE  spilled' = IF LockDecSkip(t) /\ cnt > 0 THEN spilled + 1 ELSE spilled
  BY DEF Enter, Post, PostLock, PostFull, PostFree, PostCount,
         PostSlot, PostInterrupted, Wait, Take, Refuse, LockDec, LockDecLock,
         LockDecSlot, LockDecSkip, LockDecCount, Goto

\* Every step is a step of CountingSemaphore or a stutter: the loss of a
\* token is its WaitFails, and after that it promises nothing.
LEMMA StepRefines ==
    IInv /\ IInv' /\ CallsAgree /\ [Next]_vars
    => [Contract!Next]_(Contract!vars)
<1> SUFFICES ASSUME IInv, IInv', CallsAgree, [Next]_vars
             PROVE  [Contract!Next]_(Contract!vars)
  OBVIOUS
<1>0. TypeOK /\ TypeOK' /\ cnt \in Int /\ cnt' \in Int /\ maxCnt \in Int
  BY Limits DEF IInv, TypeOK
<1>s. spilled \in Nat /\ spilled' \in {spilled, spilled + 1}
  BY <1>0, SpilledStep DEF TypeOK, Next, vars
<1>a. CASE spilled # 0
  <2>1. spilled > 0 /\ spilled' > 0
    BY <1>a, <1>s
  <2> QED
    BY <2>1 DEF Contract!Next
<1>b. CASE spilled = 0
  <2> USE <1>b
  <2>g. /\ Contract!granted = Taken
        /\ semFree = count - Cardinality(Taken)
        /\ Cardinality(Taken) \in Nat
        /\ count \in Int
    BY GrantedTaken
  <2> DEFINE view == <<count, effected, call, result, spilled > 0>>
  <2>v. view = Contract!vars
    BY DEF Contract!vars, count, effected
  <2>1. CASE UNCHANGED vars
    BY <2>1 DEF vars, Contract!vars, Taken, Counting, Filling, At
  <2>2. ASSUME NEW t \in Threads, Enter(t) PROVE Contract!Ask(t)
    <3>1. PICK c \in Calls : /\ pc' = [pc EXCEPT ![t] = c]
                             /\ call' = [call EXCEPT ![t] = c]
      BY <2>2 DEF Enter
    <3>2. c \in Pcs /\ pc[t] = "idle" /\ c \notin EffectedPcs /\ c # "postCount"
      BY <2>2, <3>1 DEF Enter, Calls, Pcs, WaitPcs, EffectedPcs, TakenPcs
    <3>3. t \notin effected /\ effected' = effected
      BY <1>0, <3>1, <3>2, EffectedAt, EffectedStep
         DEF EffectedPcs, TakenPcs
    <3>4. count' = count
      BY <1>0, <2>2, <3>1, <3>2, CountSame DEF Enter
    <3>5. c \in Contract!WaitCalls \cup {"post"}
      BY DEF Calls, Contract!WaitCalls
    <3> QED
      BY <2>2, <3>1, <3>3, <3>4, <3>5
         DEF Enter, Contract!Ask, Contract!Answer, count, effected
  <2>3. ASSUME NEW t \in Threads, PostFree(t) PROVE Contract!Post(t)
    <3>1. pc[t] = "postFree" /\ cnt < maxCnt
      BY <2>3 DEF PostFree
    <3>2. semFree < SemValueMax
      <4>1. count = cnt /\ cnt < maxCnt
        BY <3>1, CountAtTest
      <4> QED
        BY <1>0, <2>g, <4>1, Limits DEF TypeOK
    <3>3. pc' = [pc EXCEPT ![t] = "postCount"] /\ "postCount" \in Pcs
      BY <2>3, <3>2 DEF PostFree, Goto, Pcs
    <3>4. effected' = effected \cup {t} /\ t \notin effected
      BY <1>0, <3>1, <3>3, EffectedAt, EffectedStep DEF EffectedPcs, TakenPcs
    <3>5. count' = count + 1 /\ count < maxCnt
      <4>1. count = cnt /\ cnt' = cnt
        BY <2>3, <3>1, CountAtTest DEF PostFree
      <4>2. count' = count + (cnt' - cnt)
                     + Bit("postCount", {"postCount"}) - Bit(pc[t], {"postCount"})
        BY <1>0, <3>3, CountStep
      <4>3. Bit("postCount", {"postCount"}) = 1 /\ Bit(pc[t], {"postCount"}) = 0
        BY <3>1 DEF Bit
      <4> QED
        BY <1>0, <3>1, <4>1, <4>2, <4>3
    <3>6. call[t] = "post" /\ result[t] = "none"
      BY <3>1 DEF CallsAgree, PostPcs
    <3> QED
      BY <2>3, <3>4, <3>5, <3>6
         DEF PostFree, Goto, Contract!Post, Contract!Unanswered, count, effected
  <2>4. ASSUME NEW t \in Threads, PostSlot(t) \/ PostInterrupted(t)
        PROVE  Contract!PostReturn(t)
    <3>1. /\ pc[t] = "postSlot" /\ pc' = [pc EXCEPT ![t] = "idle"]
          /\ "idle" \in Pcs /\ cnt' = cnt /\ call' = call
          /\ result' = [result EXCEPT ![t] = "Ok"]
      BY <2>4 DEF PostSlot, PostInterrupted, Return, Pcs
    <3>2. effected' = effected \ {t} /\ t \in effected
      BY <1>0, <3>1, EffectedAt, EffectedStep DEF EffectedPcs, TakenPcs
    <3>3. count' = count
      BY <1>0, <3>1, CountSame
    <3>4. t \notin Contract!granted
      BY <2>g, <3>1 DEF Taken, At
    <3> QED
      BY <3>1, <3>2, <3>3, <3>4
         DEF Contract!PostReturn, Contract!Answer, count, effected
  <2>5. ASSUME NEW t \in Threads, PostFull(t) PROVE Contract!PostIgnored(t)
    <3>1. /\ pc[t] = "postFree" /\ pc' = [pc EXCEPT ![t] = "idle"]
          /\ "idle" \in Pcs /\ cnt' = cnt /\ call' = call
          /\ result' = [result EXCEPT ![t] = "Ok"] /\ cnt >= maxCnt
      BY <2>5 DEF PostFull, Return, Pcs
    <3>2. effected' = effected /\ t \notin effected
      BY <1>0, <3>1, EffectedAt, EffectedStep DEF EffectedPcs, TakenPcs
    <3>3. count' = count
      BY <1>0, <3>1, CountSame
    <3>4. count = maxCnt
      BY <1>0, <3>1, CountAtTest DEF TypeOK
    <3>5. call[t] = "post" /\ result[t] = "none"
      BY <3>1 DEF CallsAgree, PostPcs
    <3> QED
      BY <3>1, <3>2, <3>3, <3>4, <3>5
         DEF Contract!PostIgnored, Contract!Unanswered, Contract!Answer, count,
             effected
  <2>6. ASSUME NEW t \in Threads, Take(t) PROVE Contract!Grant(t)
    <3>1. /\ pc[t] \in WaitPcs /\ pc' = [pc EXCEPT ![t] = "dec"]
          /\ "dec" \in Pcs /\ cnt' = cnt /\ call' = call /\ result' = result
          /\ semFree > 0
      BY <2>6 DEF Take, Goto, Pcs
    <3>2. effected' = effected \cup {t} /\ t \notin effected
      BY <1>0, <3>1, EffectedAt, EffectedStep DEF EffectedPcs, TakenPcs, WaitPcs
    <3>3. count' = count
      BY <1>0, <3>1, CountSame DEF WaitPcs
    <3>4. Cardinality(Contract!granted) < count
      BY <1>0, <2>g, <3>1 DEF TypeOK
    <3>5. call[t] \in Contract!WaitCalls /\ result[t] = "none"
      BY <3>1 DEF CallsAgree, WaitPcs, Contract!WaitCalls
    <3> QED
      BY <3>1, <3>2, <3>3, <3>4, <3>5, SameCardinality
         DEF Contract!Grant, Contract!Unanswered, count, effected
  <2>7. ASSUME NEW t \in Threads, Refuse(t) PROVE Contract!Refuse(t)
    <3>1. /\ pc[t] \in WaitPcs /\ pc' = [pc EXCEPT ![t] = "idle"]
          /\ "idle" \in Pcs /\ cnt' = cnt /\ call' = call
          /\ result' = [result EXCEPT ![t] = "Error"]
          /\ pc[t] = "tryWait" => semFree = 0
      BY <2>7 DEF Refuse, Return, Pcs, WaitPcs
    <3>2. effected' = effected /\ t \notin effected
      BY <1>0, <3>1, EffectedAt, EffectedStep DEF EffectedPcs, TakenPcs, WaitPcs
    <3>3. count' = count
      BY <1>0, <3>1, CountSame DEF WaitPcs
    <3>4. call[t] = pc[t] /\ result[t] = "none"
      BY <3>1 DEF CallsAgree, WaitPcs
    <3>5. call[t] \in Contract!WaitCalls
      BY <3>1, <3>4 DEF WaitPcs, Contract!WaitCalls
    <3>6. call[t] = "tryWait" =>
            count = Cardinality(Contract!granted)
      BY <2>g, <3>1, <3>4 DEF TypeOK
    <3>7. CodedRefusal[call[t]] = "Error"
      BY <3>1, <3>4 DEF CodedRefusal
    <3> QED
      BY <3>1, <3>2, <3>3, <3>4, <3>5, <3>6, <3>7, SameCardinality
         DEF Contract!Refuse, Contract!Unanswered, Contract!Answer, count,
             effected
  <2>8. ASSUME NEW t \in Threads, LockDecCount(t) PROVE Contract!WaitReturn(t)
    <3>1. /\ pc[t] = "decCount" /\ pc' = [pc EXCEPT ![t] = "idle"]
          /\ "idle" \in Pcs /\ cnt' = cnt - 1 /\ call' = call
          /\ result' = [result EXCEPT ![t] = "Ok"]
      BY <2>8 DEF LockDecCount, Return, Pcs
    <3>2. effected' = effected \ {t}
      BY <1>0, <3>1, EffectedStep DEF EffectedPcs, TakenPcs
    <3>3. count' = count - 1
      <4>1. count' = count + (cnt' - cnt)
                     + Bit("idle", {"postCount"}) - Bit(pc[t], {"postCount"})
        BY <1>0, <3>1, CountStep
      <4>2. Bit("idle", {"postCount"}) = 0 /\ Bit(pc[t], {"postCount"}) = 0
        BY <3>1 DEF Bit
      <4> QED
        BY <1>0, <2>g, <3>1, <4>1, <4>2
    <3>4. t \in Contract!granted
      BY <2>g, <3>1 DEF Taken, At
    <3> QED
      BY <3>1, <3>2, <3>3, <3>4
         DEF Contract!WaitReturn, Contract!Answer, count, effected
  \* Taking and leaving the mutex, and the two internal steps, are not seen.
  <2>9. ASSUME NEW t \in Threads,
               \/ PostLock(t) \/ PostCount(t) \/ LockDecLock(t)
               \/ LockDecSlot(t)
        PROVE  view' = view
    <3> DEFINE same(p) == /\ pc' = [pc EXCEPT ![t] = p]
                          /\ p \in Pcs
                          /\ call' = call /\ result' = result
                          /\ (p \in EffectedPcs) = (pc[t] \in EffectedPcs)
                          /\ cnt' - cnt + Bit(p, {"postCount"})
                               = Bit(pc[t], {"postCount"})
    <3>1. \E p : same(p)
      <4>1. CASE PostLock(t)
        <5>1. same("postFree")
          BY <1>0, <4>1 DEF PostLock, Goto, EffectedPcs, TakenPcs, Bit, Pcs
        <5> QED
          BY <5>1
      <4>2. CASE PostCount(t)
        <5>1. same("postSlot")
          BY <1>0, <4>2 DEF PostCount, Goto, EffectedPcs, TakenPcs, Bit, Pcs
        <5> QED
          BY <5>1
      <4>3. CASE LockDecLock(t)
        <5>1. same("decSlot")
          BY <1>0, <4>3 DEF LockDecLock, Goto, EffectedPcs, TakenPcs, Bit, Pcs
        <5> QED
          BY <5>1
      <4>4. CASE LockDecSlot(t)
        <5>1. same("decCount")
          BY <1>0, <4>4 DEF LockDecSlot, Goto, EffectedPcs, TakenPcs, Bit, Pcs
        <5> QED
          BY <5>1
      <4> QED
        BY <2>9, <4>1, <4>2, <4>3, <4>4
    <3>2. PICK p : same(p)
      BY <3>1
    <3>3. effected' = effected
      BY <1>0, <3>2, EffectedStep, EffectedAt
    <3>4. Bit(p, {"postCount"}) \in Int /\ Bit(pc[t], {"postCount"}) \in Int
      BY DEF Bit
    <3>5. count' = count
      <4>1. count' = count + (cnt' - cnt)
                     + Bit(p, {"postCount"}) - Bit(pc[t], {"postCount"})
        BY <1>0, <3>2, CountStep
      <4> QED
        BY <1>0, <2>g, <3>2, <3>4, <4>1
    <3>6. (spilled > 0)' = (spilled > 0)
      BY <2>9 DEF PostLock, PostCount, LockDecLock, LockDecSlot
    <3> QED
      BY <3>2, <3>3, <3>5, <3>6
  <2>10. ASSUME NEW t \in Threads, LockDecSkip(t) PROVE Contract!WaitFails(t)
    <3>1. cnt > 0
      BY <2>10, LockDecCounted DEF LockDecSkip, IInv
    <3>2. /\ pc[t] = "decSlot" /\ pc' = [pc EXCEPT ![t] = "idle"]
          /\ "idle" \in Pcs /\ cnt' = cnt /\ call' = call /\ spilled' = 1
          /\ result' = [result EXCEPT ![t] = "Error"]
      BY <2>10, <3>1 DEF LockDecSkip, Return, Pcs
    <3>3. effected' = effected \ {t}
      BY <1>0, <3>2, EffectedStep DEF EffectedPcs, TakenPcs
    <3>4. count' = count
      BY <1>0, <3>2, CountSame
    <3>5. t \in Contract!granted
      BY <2>g, <3>2 DEF Taken, At
    <3>6. (spilled > 0)' = TRUE
      BY <3>2
    <3> QED
      BY <3>2, <3>3, <3>4, <3>5, <3>6
         DEF Contract!WaitFails, Contract!Answer, count, effected
  <2>11. CASE Next
    <3>1. PICK t \in Threads : Enter(t) \/ Post(t) \/ Wait(t)
      BY <2>11 DEF Next
    <3>2. CASE PostLock(t) \/ PostCount(t) \/ LockDecLock(t) \/ LockDecSlot(t)
      <4>1. view' = view
        BY <3>2, <2>9
      <4> QED
        BY <4>1 DEF Contract!vars, count, effected
    <3>3. CASE LockDecSkip(t)
      <4>1. Contract!WaitFails(t)
        BY <3>3, <2>10
      <4> QED
        BY <4>1 DEF Contract!Next
    <3>4. CASE ~(\/ PostLock(t) \/ PostCount(t) \/ LockDecLock(t)
                 \/ LockDecSlot(t) \/ LockDecSkip(t))
      <4>1. \/ Contract!Ask(t) \/ Contract!Post(t) \/ Contract!PostReturn(t)
            \/ Contract!PostIgnored(t) \/ Contract!Grant(t)
            \/ Contract!WaitReturn(t) \/ Contract!Refuse(t)
        BY <3>1, <3>4, <2>2, <2>3, <2>4, <2>5, <2>6, <2>7, <2>8
           DEF Post, Wait, LockDec
      <4>2. (spilled > 0)' = (spilled > 0)
        BY <3>1, <3>4, SpilledStep
      <4> QED
        BY <4>1, <4>2 DEF Contract!Next
    <3> QED
      BY <3>2, <3>3, <3>4
  <2> QED
    BY <2>1, <2>11
<1> QED
  BY <1>s, <1>a, <1>b

\* EsSemaphore implements CountingSemaphore, whatever its limit: until a wait
\* fails with its token its users may reason with an atomic count.
THEOREM Implementation == Spec => ImplementsCountingSemaphore
<1>1. Init => CallsAgree
  BY DEF Init, CallsAgree, PostPcs, TakenPcs, WaitPcs
<1>2. TypeOK /\ CallsAgree /\ [Next]_vars => CallsAgree'
  BY StepCallsAgree
<1>3. Spec => []CallsAgree
  BY <1>1, <1>2, TypeCorrect, PTL DEF Spec
<1>4. Init => Contract!Init
  BY InitRefines
<1>5. IInv /\ IInv' /\ CallsAgree /\ [Next]_vars
      => [Contract!Next]_(Contract!vars)
  BY StepRefines
<1> QED
  BY <1>3, <1>4, <1>5, Invariance, PTL
     DEF Spec, ImplementsCountingSemaphore, Contract!Spec
=============================================================================
