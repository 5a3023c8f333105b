---------------------- MODULE EsEventDispatcherProofs ----------------------
(* What holds of EsEventDispatcher for any subscribers, lengths of the     *)
(* queues and number of events.                                            *)
EXTENDS EsEventDispatcher, FiniteSetTheorems, SequenceTheorems, TLAPS

\* TypeOK but for m_subs having no duplicates, and the histories.
Types ==
    /\ queue \in Seq(Events) /\ Len(queue) <= QueueMax
    /\ subs \in Seq(Subs)
    /\ subscribed \in [Subs -> BOOLEAN]
    /\ active \in [Subs -> BOOLEAN]
    /\ csSubs \in BOOLEAN
    /\ dpc \in DispatchPcs
    /\ evt \in 0..MaxEvents
    /\ left \in Seq(Subs)
    /\ consumed \in BOOLEAN
    /\ inbox \in [Async -> Seq(Events)]
    /\ \A s \in Async : Len(inbox[s]) <= SubQueueMax
    /\ sem \in [Async -> 0..SubQueueMax]
    /\ rpc \in [Async -> ReceivePcs]
    /\ life \in [Subs -> Lives]
    /\ posted \in 0..MaxEvents
    /\ urgent \subseteq Events
    /\ dropped \subseteq Events
    /\ done \in Seq(Events)
    /\ received \in [Async -> Seq(Events)]

\* Who is in m_subs lives and knows it; while process() is in its loop it
\* holds m_csSubs, and has to visit subscribers of m_subs, each once.
Registry ==
    /\ IsInjective(subs)
    /\ \A i \in DOMAIN subs : subscribed[subs[i]] /\ life[subs[i]] # "gone"
    /\ csSubs <=> dpc \in {"next", "notify"}
    /\ csSubs => /\ IsInjective(left)
                 /\ \A i \in DOMAIN left : left[i] \in ToSet(subs)
    /\ dpc = "notify" => left # <<>>

\* A token that was granted is there until it is counted.
Tokens ==
    /\ TokenPerEvent
    /\ \A s \in Async : rpc[s] = "granted" => sem[s] > 0

\* An event is at one place at most, and there once.
Accounts ==
    /\ EventAccounted
    /\ IsInjective(queue) /\ IsInjective(done)
    /\ ToSet(queue) \cap ToSet(done) = {}
    /\ dropped \cap (ToSet(queue) \cup ToSet(done)) = {}

Before(U, x, y) == x < y \/ x \in U \/ y \in U

\* Events that are not urgent were posted in the order in which they were
\* taken and wait to be.
Ordered ==
    /\ \A i, j \in DOMAIN queue : i < j => Before(urgent, queue[i], queue[j])
    /\ \A i, j \in DOMAIN done : i < j => Before(urgent, done[i], done[j])
    /\ \A i \in DOMAIN done, j \in DOMAIN queue : Before(urgent, done[i], queue[j])

\* g is a part of d, in the order of d.
Follows(g, d) ==
    /\ \A i \in DOMAIN g : \E p \in DOMAIN d : g[i] = d[p]
    /\ \A i, j \in DOMAIN g : i < j =>
          \E p, q \in DOMAIN d : p < q /\ g[i] = d[p] /\ g[j] = d[q]

\* What thread s got or will get.
Got(s) == received[s] \o inbox[s]

\* The event in hand is the last that was taken, and those who are still to
\* be visited have not got it.
InHand ==
    /\ dpc # "idle" => done # <<>> /\ evt = done[Len(done)]
    /\ \A s \in Async : dpc = "lock" \/ (dpc # "idle" /\ s \in ToSet(left))
                        => evt \notin ToSet(Got(s))

Deliveries == InHand /\ \A s \in Async : Follows(Got(s), done)

\* The inductive invariant.
IInv == Types /\ Registry /\ Tokens /\ Accounts /\ Ordered /\ Deliveries

-----------------------------------------------------------------------------
(* Sequences                                                               *)

\* What is left when the head goes.
LEMMA TailElements ==
    ASSUME NEW S, NEW s \in Seq(S), s # <<>>
    PROVE  /\ Len(s) \in Nat \ {0} /\ Head(s) = s[1] /\ Head(s) \in S
           /\ Tail(s) \in Seq(S) /\ Len(Tail(s)) = Len(s) - 1
           /\ \A i \in 1..(Len(s) - 1) : Tail(s)[i] = s[i + 1]
  BY HeadTailProperties, EmptySeq

\* The two halves of a sequence.
LEMMA Halves ==
    ASSUME NEW S, NEW s \in Seq(S), NEW n \in 0..Len(s)
    PROVE  LET a == SubSeq(s, 1, n)
               b == SubSeq(s, n + 1, Len(s))
           IN  /\ a \in Seq(S) /\ Len(a) = n /\ \A i \in 1..n : a[i] = s[i]
               /\ b \in Seq(S) /\ Len(b) = Len(s) - n
               /\ \A i \in 1..(Len(s) - n) : b[i] = s[n + i]
<1> DEFINE a == SubSeq(s, 1, n)
           b == SubSeq(s, n + 1, Len(s))
<1>1. /\ n \in Int /\ 0 <= n /\ n <= Len(s)
      /\ Len(s) \in Nat /\ \A i \in 1..Len(s) : s[i] \in S
  BY LenProperties, ElementOfSeq
<1>2. /\ a \in Seq(S) /\ Len(a) = n /\ \A i \in 1..n : a[i] = s[i]
  <2>1. /\ a \in Seq(S)
        /\ Len(a) = IF 1 <= n THEN n - 1 + 1 ELSE 0
        /\ \A i \in 1..(n - 1 + 1) : a[i] = s[1 + i - 1]
    BY <1>1, SubSeqProperties
  <2> HIDE DEF a
  <2>2. n - 1 + 1 = n /\ \A i \in Int : 1 + i - 1 = i
    BY <1>1
  <2> QED
    BY <1>1, <2>1, <2>2
<1>3. /\ b \in Seq(S) /\ Len(b) = Len(s) - n
      /\ \A i \in 1..(Len(s) - n) : b[i] = s[n + i]
  <2>1. /\ b \in Seq(S)
        /\ Len(b) = IF n + 1 <= Len(s) THEN Len(s) - (n + 1) + 1 ELSE 0
        /\ \A i \in 1..(Len(s) - (n + 1) + 1) : b[i] = s[(n + 1) + i - 1]
    BY <1>1, SubSeqProperties
  <2> HIDE DEF b
  <2>2. Len(s) - (n + 1) + 1 = Len(s) - n
    BY <1>1
  <2>3. ASSUME NEW i \in 1..(Len(s) - n) PROVE b[i] = s[n + i]
    <3>1. b[i] = s[(n + 1) + i - 1]
      BY <2>1, <2>2
    <3>2. (n + 1) + i - 1 = n + i
      BY <1>1
    <3> QED
      BY <3>1, <3>2
  <2>4. b \in Seq(S) /\ Len(b) = Len(s) - n
    BY <1>1, <2>1
  <2> QED
    BY <2>3, <2>4
<1> QED
  BY <1>2, <1>3

\* A sequence without its head has no other elements, and still once.
LEMMA TailInjective ==
    ASSUME NEW S, NEW s \in Seq(S), s # <<>>, IsInjective(s)
    PROVE  /\ Tail(s) \in Seq(S) /\ IsInjective(Tail(s))
           /\ \A i \in DOMAIN Tail(s) :
                 Tail(s)[i] # Head(s) /\ \E j \in DOMAIN s : Tail(s)[i] = s[j]
<1> DEFINE t == Tail(s)
<1>1. /\ Len(s) \in Nat \ {0} /\ Head(s) = s[1] /\ t \in Seq(S)
      /\ Len(t) = Len(s) - 1 /\ \A i \in 1..(Len(s) - 1) : t[i] = s[i + 1]
  BY TailElements
<1> HIDE DEF t
<1>2. DOMAIN t = 1..(Len(s) - 1) /\ DOMAIN s = 1..Len(s)
  BY <1>1, LenProperties
<1>3. \A i, j \in 1..Len(s) : s[i] = s[j] => i = j
  BY <1>2 DEF IsInjective
<1>4. IsInjective(t)
  BY <1>1, <1>2, <1>3 DEF IsInjective
<1>5. \A i \in 1..(Len(s) - 1) : t[i] # s[1] /\ t[i] = s[i + 1] /\ i + 1 \in 1..Len(s)
  BY <1>1, <1>3
<1> QED
  BY <1>1, <1>2, <1>4, <1>5 DEF t

\* A sequence without one element has no other elements than before, and no
\* more often.
LEMMA RemovedElements ==
    ASSUME NEW S, NEW s \in Seq(S), IsInjective(s), NEW idx \in DOMAIN s
    PROVE  LET r == RemoveAt(s, idx) IN
           /\ r \in Seq(S) /\ IsInjective(r)
           /\ \A i \in DOMAIN r : r[i] # s[idx] /\ \E j \in DOMAIN s : r[i] = s[j]
<1> DEFINE r == RemoveAt(s, idx)
<1>1. idx \in 1..Len(s) /\ Len(s) \in Nat /\ DOMAIN s = 1..Len(s)
  BY LenProperties
<1>2. /\ r \in Seq(S) /\ Len(r) = Len(s) - 1
      /\ \A i \in 1..(Len(s) - 1) : r[i] = IF i < idx THEN s[i] ELSE s[i + 1]
  <2> DEFINE a == SubSeq(s, 1, idx - 1)
             b == SubSeq(s, idx + 1, Len(s))
  <2>1. /\ a \in Seq(S) /\ Len(a) = idx - 1 /\ \A i \in 1..(idx - 1) : a[i] = s[i]
    BY <1>1, Halves
  <2>2. /\ b \in Seq(S) /\ Len(b) = Len(s) - idx
        /\ \A i \in 1..(Len(s) - idx) : b[i] = s[idx + i]
    <3>1. idx \in 0..Len(s)
      BY <1>1
    <3> QED
      BY <3>1, Halves
  <2>3. r = a \o b
    BY DEF RemoveAt
  <2> HIDE DEF a, b, r
  <2>4. /\ a \o b \in Seq(S) /\ Len(a \o b) = Len(a) + Len(b)
        /\ \A i \in 1..(Len(a) + Len(b)) : (a \o b)[i] =
              IF i <= Len(a) THEN a[i] ELSE b[i - Len(a)]
    BY <2>1, <2>2, ConcatProperties
  <2>5. Len(r) = Len(s) - 1 /\ r \in Seq(S)
    BY <1>1, <2>1, <2>2, <2>3, <2>4
  <2>6. ASSUME NEW i \in 1..(Len(s) - 1)
        PROVE  r[i] = IF i < idx THEN s[i] ELSE s[i + 1]
    <3>1. r[i] = IF i <= idx - 1 THEN a[i] ELSE b[i - (idx - 1)]
      <4>1. Len(a) = idx - 1 /\ Len(a) + Len(b) = Len(s) - 1
        BY <1>1, <2>1, <2>2
      <4>2. r[i] = IF i <= Len(a) THEN a[i] ELSE b[i - Len(a)]
        BY <2>3, <2>4, <4>1
      <4> QED
        BY <4>1, <4>2
    <3>2. CASE i < idx
      BY <1>1, <2>1, <3>1, <3>2
    <3>3. CASE i >= idx
      <4>1. /\ i - (idx - 1) \in 1..(Len(s) - idx)
            /\ idx + (i - (idx - 1)) = i + 1
        BY <1>1, <3>3
      <4> QED
        BY <1>1, <2>2, <3>1, <3>3, <4>1
    <3> QED
      BY <1>1, <3>2, <3>3
  <2> QED
    BY <2>5, <2>6
<1>3. DOMAIN r = 1..(Len(s) - 1)
  BY <1>2, LenProperties
<1> HIDE DEF r
<1>4. \A i \in 1..(Len(s) - 1) :
         \E j \in 1..Len(s) : r[i] = s[j] /\ j = (IF i < idx THEN i ELSE i + 1)
  BY <1>1, <1>2
<1>5. \A i, j \in 1..Len(s) : s[i] = s[j] => i = j
  BY <1>1 DEF IsInjective
<1>6. \A i \in 1..(Len(s) - 1) : r[i] # s[idx] /\ \E j \in 1..Len(s) : r[i] = s[j]
  BY <1>1, <1>4, <1>5
<1>7. \A i, j \in 1..(Len(s) - 1) : r[i] = r[j] => i = j
  BY <1>1, <1>2, <1>5
<1> QED
  BY <1>1, <1>2, <1>3, <1>6, <1>7 DEF r, IsInjective

\* A sequence with one element more.
LEMMA InsertedElements ==
    ASSUME NEW S, NEW s \in Seq(S), IsInjective(s), NEW idx \in 1..(Len(s) + 1),
           NEW e \in S, \A i \in DOMAIN s : s[i] # e
    PROVE  LET r == InsertAt(s, idx, e) IN
           /\ r \in Seq(S) /\ IsInjective(r)
           /\ \A i \in DOMAIN r : r[i] = e \/ \E j \in DOMAIN s : r[i] = s[j]
<1> DEFINE r == InsertAt(s, idx, e)
           a == SubSeq(s, 1, idx - 1)
           b == SubSeq(s, idx, Len(s))
<1>1. /\ idx \in Int /\ 1 <= idx /\ idx <= Len(s) + 1
      /\ Len(s) \in Nat /\ DOMAIN s = 1..Len(s) /\ \A i \in 1..Len(s) : s[i] \in S
  BY LenProperties, ElementOfSeq
<1>2. /\ a \in Seq(S) /\ Len(a) = idx - 1 /\ \A i \in 1..(idx - 1) : a[i] = s[i]
  BY <1>1, Halves
<1>3. /\ b \in Seq(S) /\ Len(b) = Len(s) + 1 - idx
      /\ \A i \in 1..(Len(s) + 1 - idx) : b[i] = s[idx - 1 + i]
  <2>1. /\ idx - 1 \in 0..Len(s) /\ (idx - 1) + 1 = idx
        /\ Len(s) - (idx - 1) = Len(s) + 1 - idx
    BY <1>1
  <2> QED
    BY <2>1, Halves
<1>4. <<e>> \in Seq(S) /\ Len(<<e>>) = 1 /\ <<e>>[1] = e
  OBVIOUS
<1>5. r = (a \o <<e>>) \o b
  BY DEF InsertAt
<1> HIDE DEF a, b, r
<1>6. /\ a \o <<e>> \in Seq(S) /\ Len(a \o <<e>>) = idx
      /\ \A i \in 1..idx : (a \o <<e>>)[i] = IF i < idx THEN s[i] ELSE e
  <2>1. /\ a \o <<e>> \in Seq(S) /\ Len(a \o <<e>>) = Len(a) + Len(<<e>>)
        /\ \A i \in 1..(Len(a) + Len(<<e>>)) : (a \o <<e>>)[i] =
              IF i <= Len(a) THEN a[i] ELSE <<e>>[i - Len(a)]
    BY <1>2, <1>4, ConcatProperties
  <2> QED
    BY <1>1, <1>2, <1>4, <2>1
<1>7. /\ r \in Seq(S) /\ Len(r) = Len(s) + 1
      /\ \A i \in 1..(Len(s) + 1) : r[i] =
            IF i < idx THEN s[i] ELSE IF i = idx THEN e ELSE s[i - 1]
  <2> DEFINE ae == a \o <<e>>
  <2>1. ae \in Seq(S) /\ Len(ae) = idx
        /\ \A i \in 1..idx : ae[i] = IF i < idx THEN s[i] ELSE e
    BY <1>6
  <2> HIDE DEF ae
  <2>2. /\ ae \o b \in Seq(S) /\ Len(ae \o b) = Len(ae) + Len(b)
        /\ \A i \in 1..(Len(ae) + Len(b)) : (ae \o b)[i] =
              IF i <= Len(ae) THEN ae[i] ELSE b[i - Len(ae)]
    BY <1>3, <2>1, ConcatProperties
  <2>3. r = ae \o b
    BY <1>5 DEF ae
  <2>4. Len(r) = Len(s) + 1
    BY <1>1, <1>3, <2>1, <2>2, <2>3
  <2>5. ASSUME NEW i \in 1..(Len(s) + 1)
        PROVE  r[i] = IF i < idx THEN s[i] ELSE IF i = idx THEN e ELSE s[i - 1]
    <3>1. r[i] = IF i <= idx THEN ae[i] ELSE b[i - idx]
      BY <1>1, <1>3, <2>1, <2>2, <2>3
    <3>2. CASE i <= idx
      BY <1>1, <2>1, <3>1, <3>2
    <3>3. CASE i > idx
      <4>1. i - idx \in 1..(Len(s) + 1 - idx) /\ idx - 1 + (i - idx) = i - 1
        BY <1>1, <3>3
      <4> QED
        BY <1>1, <1>3, <3>1, <3>3, <4>1
    <3> QED
      BY <1>1, <3>2, <3>3
  <2> QED
    BY <2>2, <2>3, <2>4, <2>5
<1>8. DOMAIN r = 1..(Len(s) + 1)
  BY <1>7, LenProperties
<1>9. \A i, j \in 1..Len(s) : s[i] = s[j] => i = j
  BY <1>1 DEF IsInjective
<1>10. \A i \in 1..Len(s) : s[i] # e
  BY <1>1
<1> DEFINE from(i) == IF i < idx THEN i ELSE i - 1
<1>11. ASSUME NEW i \in 1..(Len(s) + 1)
       PROVE  \/ i = idx /\ r[i] = e
              \/ i # idx /\ from(i) \in 1..Len(s) /\ r[i] = s[from(i)]
  <2>1. r[i] = IF i < idx THEN s[i] ELSE IF i = idx THEN e ELSE s[i - 1]
    BY <1>7
  <2>2. CASE i < idx
    BY <1>1, <2>1, <2>2
  <2>3. CASE i = idx
    BY <1>1, <2>1, <2>3
  <2>4. CASE i > idx
    BY <1>1, <2>1, <2>4
  <2> QED
    BY <1>1, <2>2, <2>3, <2>4
<1>12. ASSUME NEW i \in 1..(Len(s) + 1), NEW j \in 1..(Len(s) + 1),
              i # idx, j # idx, from(i) = from(j)
       PROVE  i = j
  BY <1>1, <1>12
<1> HIDE DEF from
<1>13. \A i, j \in 1..(Len(s) + 1) : r[i] = r[j] => i = j
  BY <1>9, <1>10, <1>11, <1>12
<1>14. \A i \in 1..(Len(s) + 1) : r[i] = e \/ \E j \in 1..Len(s) : r[i] = s[j]
  BY <1>11
<1> QED
  BY <1>1, <1>7, <1>8, <1>13, <1>14 DEF r, IsInjective

-----------------------------------------------------------------------------
(* Types                                                                   *)

\* What EventPost does to the queue.
LEMMA PostedQueue ==
    ASSUME Types, EventPost
    PROVE  /\ Restricted \in Seq(Events) /\ Len(Restricted) < QueueMax
           /\ posted' \in Events
           /\ \/ queue' = Append(Restricted, posted') /\ urgent' = urgent
              \/ /\ queue' = <<posted'>> \o Restricted
                 /\ urgent' = urgent \cup {posted'}
<1>1. /\ QueueMax \in Nat \ {0} /\ queue \in Seq(Events) /\ Len(queue) <= QueueMax
      /\ Len(queue) \in Nat
  BY DispatcherAssumption DEF Types
<1>2. Restricted \in Seq(Events) /\ Len(Restricted) < QueueMax
  <2>1. CASE Len(queue) >= QueueMax
    <3>1. queue # <<>>
      BY <1>1, <2>1, EmptySeq
    <3>2. Tail(queue) \in Seq(Events) /\ Len(Tail(queue)) = Len(queue) - 1
      BY <1>1, <3>1, TailElements
    <3>3. Restricted = Tail(queue)
      BY <2>1 DEF Restricted
    <3> QED
      BY <1>1, <3>2, <3>3
  <2>2. CASE ~(Len(queue) >= QueueMax)
    <3>1. Restricted = queue
      BY <2>2 DEF Restricted
    <3> QED
      BY <1>1, <2>2, <3>1
  <2> QED
    BY <2>1, <2>2
<1>3. posted' \in Events
  BY DispatcherAssumption DEF EventPost, Types, Events
<1> QED
  BY <1>2, <1>3 DEF EventPost

\* Making room and queueing for an asynchronous subscriber.
LEMMA InboxAppended ==
    ASSUME NEW b \in Seq(Events), Len(b) <= SubQueueMax, NEW e \in Events
    PROVE  LET r == Append(IF Len(b) >= SubQueueMax THEN Tail(b) ELSE b, e) IN
           /\ r \in Seq(Events) /\ Len(r) <= SubQueueMax
           /\ Len(r) = IF Len(b) >= SubQueueMax THEN SubQueueMax ELSE Len(b) + 1
<1>1. SubQueueMax \in Nat \ {0} /\ Len(b) \in Nat
  BY DispatcherAssumption
<1>2. CASE Len(b) >= SubQueueMax
  <2>1. b # <<>>
    BY <1>1, <1>2, EmptySeq
  <2>2. Tail(b) \in Seq(Events) /\ Len(Tail(b)) = Len(b) - 1
    BY <2>1, TailElements
  <2>3. Append(Tail(b), e) \in Seq(Events) /\ Len(Append(Tail(b), e)) = Len(Tail(b)) + 1
    BY <2>2, AppendProperties
  <2>4. Len(b) = SubQueueMax
    BY <1>1, <1>2
  <2>5. Len(Append(Tail(b), e)) = SubQueueMax
    BY <1>1, <2>2, <2>3, <2>4
  <2> QED
    BY <1>1, <1>2, <2>3, <2>5
<1>3. CASE ~(Len(b) >= SubQueueMax)
  <2>1. Append(b, e) \in Seq(Events) /\ Len(Append(b, e)) = Len(b) + 1
    BY AppendProperties
  <2> QED
    BY <1>1, <1>3, <2>1
<1> QED
  BY <1>2, <1>3

\* m_subs after a search and an erasure.
LEMMA ErasedElements ==
    ASSUME subs \in Seq(Subs), IsInjective(subs), NEW s \in Subs, Erased(s)
    PROVE  /\ subs' \in Seq(Subs) /\ IsInjective(subs')
           /\ \A i \in DOMAIN subs' :
                 subs'[i] # s /\ \E j \in DOMAIN subs : subs'[i] = subs[j]
<1>1. CASE s \in ToSet(subs)
  <2>1. PICK i \in DOMAIN subs : subs[i] = s /\ subs' = RemoveAt(subs, i)
    BY <1>1 DEF Erased
  <2> QED
    BY <2>1, RemovedElements
<1>2. CASE s \notin ToSet(subs)
  BY <1>2 DEF Erased, ToSet
<1> QED
  BY <1>1, <1>2

LEMMA TypesStep ==
    ASSUME Types, Registry, Tokens, InHand, [Next]_vars
    PROVE  Types'
<1>1. CASE UNCHANGED vars
  BY <1>1 DEF vars, registry, pump, async, history, Types
<1>2. CASE EventPost
  <2>1. queue' \in Seq(Events) /\ Len(queue') <= QueueMax
    <3>1. /\ QueueMax \in Nat /\ Restricted \in Seq(Events)
          /\ Len(Restricted) < QueueMax /\ posted' \in Events
      BY <1>2, PostedQueue, DispatcherAssumption
    <3>2. /\ Append(Restricted, posted') \in Seq(Events)
          /\ Len(Append(Restricted, posted')) = Len(Restricted) + 1
      BY <3>1, AppendProperties
    <3>3. <<posted'>> \in Seq(Events) /\ Len(<<posted'>>) = 1
      BY <3>1
    <3>4. /\ <<posted'>> \o Restricted \in Seq(Events)
          /\ Len(<<posted'>> \o Restricted) = Len(<<posted'>>) + Len(Restricted)
      BY <3>1, <3>3, ConcatProperties
    <3>5. CASE queue' = Append(Restricted, posted')
      BY <3>1, <3>2, <3>5
    <3>6. CASE queue' = <<posted'>> \o Restricted
      BY <3>1, <3>3, <3>4, <3>6
    <3> QED
      BY <1>2, <3>5, <3>6, PostedQueue
  <2>2. urgent' \subseteq Events
    BY <1>2, PostedQueue DEF Types
  <2>3. dropped' \subseteq Events
    <3>1. ToSet(queue) \subseteq Events
      BY ElementOfSeq DEF ToSet, Types
    <3> QED
      BY <1>2, <3>1 DEF EventPost, Types
  <2>4. posted' \in 0..MaxEvents
    BY <1>2, PostedQueue, DispatcherAssumption DEF Events
  <2> QED
    BY <1>2, <2>1, <2>2, <2>3, <2>4 DEF EventPost, registry, pump, async, Types
<1>3. CASE ProcessPop
  <2>1. /\ Head(queue) \in Events /\ Tail(queue) \in Seq(Events)
        /\ Len(Tail(queue)) <= QueueMax
    BY <1>3, TailElements, DispatcherAssumption DEF ProcessPop, Types
  <2>2. Append(done, Head(queue)) \in Seq(Events)
    BY <2>1, AppendProperties DEF Types
  <2>3. Head(queue) \in 0..MaxEvents
    BY <2>1, DispatcherAssumption DEF Events
  <2> QED
    BY <1>3, <2>1, <2>2, <2>3 DEF ProcessPop, registry, async, Types, DispatchPcs
<1>4. CASE ProcessLock
  BY <1>4 DEF ProcessLock, registry, async, history, Types, DispatchPcs
<1>5. CASE ProcessNext
  <2>1. Tail(left) \in Seq(Subs)
    BY <1>5, TailElements DEF ProcessNext, Types
  <2> QED
    BY <1>5, <2>1 DEF ProcessNext, registry, async, history, Types, DispatchPcs
<1>6. CASE NotifyAsync
  <2> DEFINE s == Head(left)
             r == Append(IF Len(inbox[s]) >= SubQueueMax THEN Tail(inbox[s])
                         ELSE inbox[s], evt)
  <2>1. s \in Async /\ left # <<>>
    BY <1>6 DEF NotifyAsync, Registry
  <2>2. evt \in Events
    <3>1. done # <<>> /\ evt = done[Len(done)] /\ done \in Seq(Events)
      BY <1>6 DEF NotifyAsync, InHand, Types
    <3>2. Len(done) \in 1..Len(done)
      BY <3>1, EmptySeq
    <3> QED
      BY <3>1, <3>2, ElementOfSeq
  <2>3. r \in Seq(Events) /\ Len(r) <= SubQueueMax
    BY <2>1, <2>2, InboxAppended DEF Types
  <2>4. inbox' = [inbox EXCEPT ![s] = r]
    BY <1>6 DEF NotifyAsync
  <2>5. Tail(left) \in Seq(Subs)
    BY <2>1, TailElements DEF Types
  <2>6. sem' \in [Async -> 0..SubQueueMax]
    BY <1>6, <2>1, DispatcherAssumption DEF NotifyAsync, Types
  <2> HIDE DEF r
  <2>7. inbox' \in [Async -> Seq(Events)] /\ \A x \in Async : Len(inbox'[x]) <= SubQueueMax
    BY <2>1, <2>3, <2>4 DEF Types
  <2> QED
    BY <1>6, <2>5, <2>6, <2>7 DEF NotifyAsync, registry, history, Types, DispatchPcs
<1>7. CASE NotifySync
  <2>1. Tail(left) \in Seq(Subs)
    BY <1>7, TailElements DEF NotifySync, Registry, Types
  <2> QED
    BY <1>7, <2>1 DEF NotifySync, registry, async, history, Types, DispatchPcs
<1>8. CASE ProcessEnd
  <2>1. <<>> \in Seq(Subs) /\ 0 \in 0..MaxEvents
    BY EmptySeq, DispatcherAssumption
  <2> QED
    BY <1>8, <2>1 DEF ProcessEnd, registry, async, history, Types, DispatchPcs
<1>9. CASE Clear
  BY <1>9, EmptySeq DEF Clear, pump, async, history, Types
<1>10. ASSUME NEW s \in Subs, Control(s) PROVE Types'
  <2>1. CASE Subscribe(s)
    <3>1. PICK i \in 1..(Len(subs) + 1) : subs' = InsertAt(subs, i, s)
      BY <2>1 DEF Subscribe
    <3>2. \A j \in DOMAIN subs : subs[j] # s
      BY <2>1 DEF Subscribe, Registry
    <3>3. subs' \in Seq(Subs)
      BY <3>1, <3>2, InsertedElements DEF Types, Registry
    <3> QED
      BY <2>1, <3>3 DEF Subscribe, Member, pump, async, history, Types
  <2>2. CASE Unsubscribe(s)
    <3>1. subs' \in Seq(Subs)
      BY <2>2, ErasedElements DEF Unsubscribe, Types, Registry
    <3> QED
      BY <2>2, <3>1 DEF Unsubscribe, Member, pump, async, history, Types
  <2>3. ASSUME ResetInbox(s) PROVE /\ inbox' \in [Async -> Seq(Events)]
                                   /\ \A x \in Async : Len(inbox'[x]) <= SubQueueMax
    BY <2>3, EmptySeq, DispatcherAssumption DEF ResetInbox, Types
  <2>4. CASE ActiveSet(s)
    <3>1. active' \in [Subs -> BOOLEAN]
      BY <2>4 DEF ActiveSet, Types
    <3> QED
      BY <2>3, <2>4, <3>1 DEF ActiveSet, registry, pump, history, Types
  <2>5. CASE Reset(s)
    BY <2>3, <2>5 DEF Reset, registry, pump, history, Types
  <2>6. CASE DtorDeactivate(s)
    BY <2>6 DEF DtorDeactivate, Die, Lives, registry, pump, async, history, Types
  <2>7. CASE DtorReset(s)
    BY <2>3, <2>7 DEF DtorReset, Die, Lives, registry, pump, history, Types
  <2>8. CASE DtorUnsubscribe(s)
    <3>1. subs' \in Seq(Subs)
      BY <2>8, ErasedElements DEF DtorUnsubscribe, registry, Types, Registry
    <3> QED
      BY <2>8, <3>1 DEF DtorUnsubscribe, Die, Lives, Member, registry, pump, async, history, Types
  <2> QED
    BY <1>10, <2>1, <2>2, <2>4, <2>5, <2>6, <2>7, <2>8 DEF Control
<1>11. ASSUME NEW s \in Async, Receive(s) \/ Consume(s) PROVE Types'
  <2>1. CASE ReceiveGranted(s)
    BY <2>1 DEF ReceiveGranted, registry, pump, history, Types, ReceivePcs
  <2>2. CASE ReceiveCounted(s)
    <3>1. sem[s] - 1 \in 0..SubQueueMax
      BY <2>2, DispatcherAssumption DEF ReceiveCounted, Tokens, Types
    <3> QED
      BY <2>2, <3>1 DEF ReceiveCounted, registry, pump, history, Types, ReceivePcs
  <2>3. CASE ReceivePop(s)
    <3>1. CASE inbox[s] = <<>>
      BY <2>3, <3>1 DEF ReceivePop, registry, pump, Types, ReceivePcs
    <3>2. CASE inbox[s] # <<>>
      <4>1. /\ Head(inbox[s]) \in Events /\ Tail(inbox[s]) \in Seq(Events)
            /\ Len(Tail(inbox[s])) <= SubQueueMax
        BY <3>2, TailElements, DispatcherAssumption DEF Types
      <4>2. Append(received[s], Head(inbox[s])) \in Seq(Events)
        BY <4>1, AppendProperties DEF Types
      <4> QED
        BY <2>3, <3>2, <4>1, <4>2 DEF ReceivePop, registry, pump, Types, ReceivePcs
    <3> QED
      BY <3>1, <3>2
  <2>4. CASE Consume(s)
    BY <2>4 DEF Consume, registry, async, history, Types
  <2> QED
    BY <1>11, <2>1, <2>2, <2>3, <2>4 DEF Receive
<1> QED
  BY <1>1, <1>2, <1>3, <1>4, <1>5, <1>6, <1>7, <1>8, <1>9, <1>10, <1>11 DEF Next, Process

-----------------------------------------------------------------------------
(* The registry                                                            *)

LEMMA RegistryStep ==
    ASSUME Types, Registry, [Next]_vars
    PROVE  Registry'
<1>1. CASE UNCHANGED <<subs, subscribed, life, csSubs, dpc, left>>
  BY <1>1 DEF Registry
<1>2. CASE ProcessPop
  BY <1>2 DEF ProcessPop, registry, Registry
<1>3. CASE ProcessLock
  BY <1>3 DEF ProcessLock, registry, Registry, ToSet
<1>4. ASSUME left' = Tail(left), left # <<>>, csSubs,
             UNCHANGED <<subs, subscribed, life, csSubs>>, dpc' = "next"
      PROVE  Registry'
  <2>1. /\ IsInjective(Tail(left))
        /\ \A i \in DOMAIN Tail(left) : \E j \in DOMAIN left : Tail(left)[i] = left[j]
    BY <1>4, TailInjective DEF Registry, Types
  <2> QED
    BY <1>4, <2>1 DEF Registry
<1>5. CASE ProcessNext
  <2>1. CASE left' = Tail(left) /\ UNCHANGED dpc
    BY <1>4, <1>5, <2>1 DEF ProcessNext, registry, Registry
  <2>2. CASE dpc' = "notify" /\ UNCHANGED left
    BY <1>5, <2>2 DEF ProcessNext, registry, Registry
  <2> QED
    BY <1>5, <2>1, <2>2 DEF ProcessNext
<1>6. CASE NotifyAsync
  BY <1>4, <1>6 DEF NotifyAsync, registry, Registry
<1>7. CASE NotifySync
  BY <1>4, <1>7 DEF NotifySync, registry, Registry
<1>8. CASE ProcessEnd
  BY <1>8 DEF ProcessEnd, registry, Registry
<1>9. CASE Clear
  <2>1. subs' = <<>> /\ ~csSubs /\ UNCHANGED <<csSubs, dpc, left>>
    BY <1>9 DEF Clear, pump
  <2>2. IsInjective(subs') /\ DOMAIN subs' = {}
    BY <2>1 DEF IsInjective
  <2> QED
    BY <2>1, <2>2 DEF Registry
<1>10. ASSUME NEW s \in Subs, Control(s) PROVE Registry'
  <2>1. CASE Subscribe(s)
    <3>1. PICK i \in 1..(Len(subs) + 1) : subs' = InsertAt(subs, i, s)
      BY <2>1 DEF Subscribe
    <3>2. \A j \in DOMAIN subs : subs[j] # s
      BY <2>1 DEF Subscribe, Registry
    <3>3. /\ IsInjective(subs')
          /\ \A j \in DOMAIN subs' : subs'[j] = s \/ \E k \in DOMAIN subs : subs'[j] = subs[k]
      BY <3>1, <3>2, InsertedElements DEF Types, Registry
    <3>4. /\ ~csSubs /\ UNCHANGED <<csSubs, dpc, left, life>> /\ life[s] = "alive"
          /\ subscribed' = [subscribed EXCEPT ![s] = TRUE]
      BY <2>1 DEF Subscribe, Member, pump
    <3>5. \A x \in Subs : subscribed[x] \/ x = s => subscribed'[x]
      BY <3>4 DEF Types
    <3>6. \A j \in DOMAIN subs : subs[j] \in Subs
      BY ElementOfSeq, LenProperties DEF Types
    <3>7. \A j \in DOMAIN subs' : subscribed'[subs'[j]] /\ life'[subs'[j]] # "gone"
      BY <3>3, <3>4, <3>5, <3>6 DEF Registry
    <3> QED
      BY <3>3, <3>4, <3>7 DEF Registry
  <2>2. ASSUME Erased(s), ~csSubs, UNCHANGED <<csSubs, dpc, left>>,
               \A x \in Subs \ {s} : subscribed'[x] = subscribed[x] /\ life'[x] = life[x]
        PROVE  Registry'
    <3>1. /\ IsInjective(subs')
          /\ \A j \in DOMAIN subs' : subs'[j] # s /\ \E k \in DOMAIN subs : subs'[j] = subs[k]
      BY <2>2, ErasedElements DEF Types, Registry
    <3>2. \A j \in DOMAIN subs : subs[j] \in Subs
      BY ElementOfSeq, LenProperties DEF Types
    <3>3. \A j \in DOMAIN subs' : subscribed'[subs'[j]] /\ life'[subs'[j]] # "gone"
      BY <2>2, <3>1, <3>2 DEF Registry
    <3> QED
      BY <2>2, <3>1, <3>3 DEF Registry
  <2>3. CASE Unsubscribe(s)
    BY <2>2, <2>3 DEF Unsubscribe, Member, pump, Types
  <2>4. ASSUME NEW from, NEW to, Die(s, from, to), from # "gone",
               UNCHANGED <<subs, subscribed, csSubs, dpc, left>>,
               to # "gone" \/ ~subscribed[s]
        PROVE  Registry'
    <3>1. \A x \in Subs : x # s => life'[x] = life[x]
      BY <2>4 DEF Die, Types
    <3>2. life'[s] = to
      BY <2>4 DEF Die, Types
    <3>3. \A j \in DOMAIN subs : subs[j] \in Subs
      BY ElementOfSeq, LenProperties DEF Types
    <3>4. \A j \in DOMAIN subs : subscribed[subs[j]] /\ life'[subs[j]] # "gone"
      BY <2>4, <3>1, <3>2, <3>3 DEF Registry
    <3> QED
      BY <2>4, <3>4 DEF Registry
  <2>5. CASE ActiveSet(s) \/ Reset(s)
    BY <1>1, <2>5 DEF ActiveSet, Reset, registry, pump
  <2>6. CASE DtorDeactivate(s)
    BY <2>4, <2>6 DEF DtorDeactivate, registry, pump
  <2>7. CASE DtorReset(s)
    BY <2>4, <2>7 DEF DtorReset, registry, pump
  <2>8. CASE DtorUnsubscribe(s)
    <3>1. CASE ~subscribed[s] /\ UNCHANGED registry
      BY <2>4, <2>8, <3>1 DEF DtorUnsubscribe, registry, pump
    <3>2. CASE subscribed[s] /\ ~csSubs /\ Erased(s) /\ Member(s, FALSE)
      BY <2>2, <2>8, <3>2 DEF DtorUnsubscribe, Die, Member, pump, Types
    <3> QED
      BY <2>8, <3>1, <3>2 DEF DtorUnsubscribe
  <2> QED
    BY <1>10, <2>1, <2>3, <2>5, <2>6, <2>7, <2>8 DEF Control
<1>11. ASSUME NEW s \in Async, Receive(s) \/ Consume(s) PROVE Registry'
  BY <1>1, <1>11 DEF Receive, ReceiveGranted, ReceiveCounted, ReceivePop, Consume,
     registry, pump
<1>12. CASE EventPost
  BY <1>1, <1>12 DEF EventPost, registry, pump
<1>13. CASE UNCHANGED vars
  BY <1>1, <1>13 DEF vars, registry, pump
<1> QED
  BY <1>2, <1>3, <1>5, <1>6, <1>7, <1>8, <1>9, <1>10, <1>11, <1>12, <1>13
     DEF Next, Process

-----------------------------------------------------------------------------
(* Tokens                                                                  *)

\* TokenPerEvent and the token in hand, of one subscriber.
Covered(s) ==
    /\ Len(inbox[s]) <= sem[s] + (IF rpc[s] = "pop" THEN 1 ELSE 0)
    /\ rpc[s] = "granted" => sem[s] > 0

LEMMA TokensStep ==
    ASSUME Types, Registry, Tokens, InHand, [Next]_vars
    PROVE  Tokens'
<1>1. SUFFICES ASSUME NEW x \in Async PROVE Covered(x)'
  BY DEF Tokens, TokenPerEvent, Covered
<1>2. /\ Covered(x) /\ inbox[x] \in Seq(Events) /\ Len(inbox[x]) \in Nat
      /\ sem[x] \in 0..SubQueueMax /\ SubQueueMax \in Nat \ {0}
  BY <1>1, DispatcherAssumption DEF Tokens, TokenPerEvent, Covered, Types
<1>3. ASSUME inbox'[x] = inbox[x], sem'[x] = sem[x], rpc'[x] = rpc[x] PROVE Covered(x)'
  BY <1>2, <1>3 DEF Covered
<1>4. CASE UNCHANGED async
  BY <1>3, <1>4 DEF async
<1>5. CASE NotifyAsync
  <2> DEFINE s == Head(left)
             r == Append(IF Len(inbox[s]) >= SubQueueMax THEN Tail(inbox[s])
                         ELSE inbox[s], evt)
  <2>1. /\ s \in Async /\ inbox' = [inbox EXCEPT ![s] = r] /\ UNCHANGED rpc
        /\ sem' = [sem EXCEPT ![s] = IF @ < SubQueueMax THEN @ + 1 ELSE @]
    BY <1>5 DEF NotifyAsync
  <2>2. CASE x = s
    <3>1. evt \in Events
      <4>1. done # <<>> /\ evt = done[Len(done)] /\ done \in Seq(Events)
        BY <1>5 DEF NotifyAsync, InHand, Types
      <4>2. Len(done) \in 1..Len(done)
        BY <4>1, EmptySeq
      <4> QED
        BY <4>1, <4>2, ElementOfSeq
    <3>2. Len(r) = IF Len(inbox[x]) >= SubQueueMax THEN SubQueueMax ELSE Len(inbox[x]) + 1
      BY <1>1, <2>2, <3>1, InboxAppended DEF Types
    <3>3. inbox'[x] = r
      BY <1>1, <2>1, <2>2 DEF Types
    <3> HIDE DEF r
    <3>4. sem'[x] = (IF sem[x] < SubQueueMax THEN sem[x] + 1 ELSE sem[x])
      BY <1>1, <2>1, <2>2 DEF Types
    <3>5. Len(inbox[x]) <= SubQueueMax
      BY <1>1 DEF Types
    <3> DEFINE l == Len(inbox[x])
               m == Len(inbox'[x])
               q == IF rpc[x] = "pop" THEN 1 ELSE 0
    <3>6. /\ l \in Nat /\ l <= SubQueueMax /\ l <= sem[x] + q /\ q \in {0, 1}
          /\ m = IF l >= SubQueueMax THEN SubQueueMax ELSE l + 1
      BY <1>2, <3>2, <3>3, <3>5 DEF Covered
    <3> HIDE DEF l, m, q
    <3>7. sem'[x] > 0 /\ m <= sem'[x] + q
      <4>1. CASE sem[x] < SubQueueMax
        BY <1>2, <3>4, <3>6, <4>1
      <4>2. CASE ~(sem[x] < SubQueueMax)
        BY <1>2, <3>4, <3>6, <4>2
      <4> QED
        BY <4>1, <4>2
    <3> QED
      BY <2>1, <3>7 DEF Covered, m, q
  <2>3. CASE x # s
    BY <1>1, <1>3, <2>1, <2>3 DEF Types
  <2> QED
    BY <2>2, <2>3
<1>6. ASSUME NEW s \in Subs, ResetInbox(s), UNCHANGED <<sem, rpc>> PROVE Covered(x)'
  <2>1. inbox'[x] = inbox[x] \/ inbox'[x] = <<>>
    BY <1>1, <1>6 DEF ResetInbox, Types
  <2>2. CASE inbox'[x] = <<>>
    <3>1. Len(inbox'[x]) = 0
      BY <2>2
    <3> QED
      BY <1>2, <1>6, <3>1 DEF Covered
  <2> QED
    BY <1>3, <1>6, <2>1, <2>2
<1>7. ASSUME NEW s \in Subs, Control(s) PROVE Covered(x)'
  BY <1>4, <1>6, <1>7 DEF Control, Subscribe, Unsubscribe, ActiveSet, Reset,
     DtorDeactivate, DtorReset, DtorUnsubscribe, async
<1>8. ASSUME NEW s \in Async, ReceiveGranted(s) PROVE Covered(x)'
  BY <1>1, <1>2, <1>8 DEF ReceiveGranted, Covered, Types
<1>9. ASSUME NEW s \in Async, ReceiveCounted(s) PROVE Covered(x)'
  <2>1. CASE x = s
    <3>1. /\ rpc[x] = "granted" /\ rpc'[x] = "pop" /\ sem'[x] = sem[x] - 1
          /\ inbox' = inbox
      BY <1>1, <1>9, <2>1 DEF ReceiveCounted, Types
    <3> QED
      BY <1>2, <3>1 DEF Covered
  <2>2. CASE x # s
    BY <1>1, <1>3, <1>9, <2>2 DEF ReceiveCounted, Types
  <2> QED
    BY <2>1, <2>2
<1>10. ASSUME NEW s \in Async, ReceivePop(s) PROVE Covered(x)'
  <2>1. CASE x = s
    <3>1. /\ rpc[x] = "pop" /\ rpc'[x] = "idle" /\ sem' = sem
          /\ IF inbox[x] = <<>> THEN inbox' = inbox ELSE inbox'[x] = Tail(inbox[x])
      BY <1>1, <1>10, <2>1 DEF ReceivePop, Types
    <3>2. Len(inbox'[x]) = IF inbox[x] = <<>> THEN 0 ELSE Len(inbox[x]) - 1
      <4>1. CASE inbox[x] = <<>>
        BY <3>1, <4>1
      <4>2. CASE inbox[x] # <<>>
        <5>1. Len(Tail(inbox[x])) = Len(inbox[x]) - 1
          BY <1>2, <4>2, TailElements
        <5> QED
          BY <3>1, <4>2, <5>1
      <4> QED
        BY <4>1, <4>2
    <3> QED
      BY <1>2, <3>1, <3>2 DEF Covered
  <2>2. CASE x # s
    BY <1>1, <1>3, <1>10, <2>2 DEF ReceivePop, Types
  <2> QED
    BY <2>1, <2>2
<1>11. CASE EventPost \/ Clear \/ ProcessPop \/ ProcessLock \/ ProcessNext
            \/ NotifySync \/ ProcessEnd \/ UNCHANGED vars
  BY <1>4, <1>11 DEF EventPost, Clear, ProcessPop, ProcessLock, ProcessNext,
     NotifySync, ProcessEnd, vars
<1>12. ASSUME NEW s \in Async, Consume(s) PROVE Covered(x)'
  BY <1>4, <1>12 DEF Consume
<1> QED
  BY <1>5, <1>7, <1>8, <1>9, <1>10, <1>11, <1>12 DEF Next, Process, Receive

-----------------------------------------------------------------------------
(* Accounts and order                                                      *)

\* What EventPost does, element by element: the first k of the queue go, and
\* the new event is last, or first when it is urgent.
LEMMA PostedElements ==
    ASSUME Types, EventPost
    PROVE  \E k \in {0, 1} :
             /\ Len(queue) - k \in Nat /\ Len(queue') = Len(queue) - k + 1
             /\ queue' \in Seq(Events)
             /\ Restricted \in Seq(Events) /\ Len(Restricted) = Len(queue) - k
             /\ \A i \in 1..(Len(queue) - k) : Restricted[i] = queue[i + k]
             /\ \/ /\ \A i \in 1..(Len(queue) - k) : queue'[i] = queue[i + k]
                   /\ queue'[Len(queue) - k + 1] = posted'
                   /\ urgent' = urgent
                \/ /\ \A i \in 1..(Len(queue) - k) : queue'[i + 1] = queue[i + k]
                   /\ queue'[1] = posted'
                   /\ urgent' = urgent \cup {posted'}
<1>1. /\ Restricted \in Seq(Events) /\ posted' \in Events
      /\ QueueMax \in Nat \ {0} /\ queue \in Seq(Events) /\ Len(queue) \in Nat
  BY PostedQueue, DispatcherAssumption DEF Types
<1>2. PICK k \in {0, 1} :
         /\ Len(queue) - k \in Nat /\ Len(Restricted) = Len(queue) - k
         /\ \A i \in 1..(Len(queue) - k) : Restricted[i] = queue[i + k]
  <2>1. CASE Len(queue) >= QueueMax
    <3>1. queue # <<>>
      BY <1>1, <2>1, EmptySeq
    <3>2. Restricted = Tail(queue)
      BY <2>1 DEF Restricted
    <3> QED
      BY <1>1, <3>1, <3>2, TailElements
  <2>2. CASE ~(Len(queue) >= QueueMax)
    <3>1. Restricted = queue
      BY <2>2 DEF Restricted
    <3>2. Len(queue) - 0 = Len(queue) /\ \A i \in 1..Len(queue) : i + 0 = i
      BY <1>1
    <3> QED
      BY <1>1, <3>1, <3>2
  <2> QED
    BY <2>1, <2>2
<1> DEFINE n == Len(queue) - k
<1>3. n \in Nat /\ Len(Restricted) = n
  BY <1>2
<1>4. CASE queue' = Append(Restricted, posted') /\ urgent' = urgent
  <2>1. /\ queue' \in Seq(Events) /\ Len(queue') = n + 1
        /\ \A i \in 1..n : queue'[i] = Restricted[i]
        /\ queue'[n + 1] = posted'
    BY <1>1, <1>3, <1>4, AppendProperties
  <2> QED
    BY <1>1, <1>2, <1>4, <2>1
<1>5. CASE queue' = <<posted'>> \o Restricted /\ urgent' = urgent \cup {posted'}
  <2>1. /\ <<posted'>> \in Seq(Events) /\ Len(<<posted'>>) = 1
        /\ <<posted'>>[1] = posted'
    BY <1>1
  <2>2. /\ queue' \in Seq(Events) /\ Len(queue') = 1 + n
        /\ \A i \in 1..(1 + n) :
              queue'[i] = IF i <= 1 THEN <<posted'>>[i] ELSE Restricted[i - 1]
    BY <1>1, <1>3, <1>5, <2>1, ConcatProperties
  <2>3. queue'[1] = posted'
    BY <1>3, <2>1, <2>2
  <2>4. ASSUME NEW i \in 1..n PROVE queue'[i + 1] = queue[i + k]
    <3>1. i + 1 \in 1..(1 + n) /\ ~(i + 1 <= 1) /\ (i + 1) - 1 = i
      BY <1>3
    <3> QED
      BY <1>2, <2>2, <3>1
  <2>5. Len(queue') = n + 1
    BY <1>3, <2>2
  <2> QED
    BY <1>1, <1>2, <1>5, <2>2, <2>3, <2>4, <2>5
<1> QED
  BY <1>4, <1>5, PostedQueue

\* What ProcessPop does, element by element.
LEMMA PoppedElements ==
    ASSUME Types, ProcessPop
    PROVE  /\ Len(queue) \in Nat \ {0} /\ Len(done) \in Nat
           /\ queue' \in Seq(Events) /\ Len(queue') = Len(queue) - 1
           /\ \A i \in 1..(Len(queue) - 1) : queue'[i] = queue[i + 1]
           /\ done' \in Seq(Events) /\ Len(done') = Len(done) + 1
           /\ \A i \in 1..Len(done) : done'[i] = done[i]
           /\ done'[Len(done) + 1] = queue[1] /\ evt' = queue[1]
           /\ queue[1] \in Events
<1>1. /\ queue # <<>> /\ queue \in Seq(Events) /\ queue' = Tail(queue)
      /\ done \in Seq(Events) /\ done' = Append(done, evt') /\ evt' = Head(queue)
  BY DEF ProcessPop, Types
<1>2. /\ Len(queue) \in Nat \ {0} /\ Head(queue) = queue[1] /\ Head(queue) \in Events
      /\ Tail(queue) \in Seq(Events) /\ Len(Tail(queue)) = Len(queue) - 1
      /\ \A i \in 1..(Len(queue) - 1) : Tail(queue)[i] = queue[i + 1]
  BY <1>1, TailElements
<1>3. /\ Append(done, Head(queue)) \in Seq(Events)
      /\ Len(Append(done, Head(queue))) = Len(done) + 1
      /\ \A i \in 1..Len(done) : Append(done, Head(queue))[i] = done[i]
      /\ Append(done, Head(queue))[Len(done) + 1] = Head(queue)
  BY <1>1, <1>2, AppendProperties
<1> QED
  BY <1>1, <1>2, <1>3

LEMMA AccountsStep ==
    ASSUME Types, Types', Accounts, [Next]_vars
    PROVE  Accounts'
<1>1. CASE UNCHANGED <<queue, done, dropped, posted>>
  BY <1>1 DEF Accounts, EventAccounted
<1>2. /\ queue \in Seq(Events) /\ done \in Seq(Events) /\ posted \in Nat
      /\ Len(queue) \in Nat /\ Len(done) \in Nat
      /\ DOMAIN queue = 1..Len(queue) /\ DOMAIN done = 1..Len(done)
      /\ IsFiniteSet(dropped) /\ Cardinality(dropped) \in Nat
  <2>1. IsFiniteSet(Events)
    BY FS_Interval, DispatcherAssumption DEF Events
  <2> QED
    BY <2>1, FS_Subset, FS_CardinalityType, LenProperties, DispatcherAssumption DEF Types
<1>3. /\ \A i, j \in 1..Len(queue) : queue[i] = queue[j] => i = j
      /\ \A i, j \in 1..Len(done) : done[i] = done[j] => i = j
      /\ \A i \in 1..Len(queue), j \in 1..Len(done) : queue[i] # done[j]
      /\ \A i \in 1..Len(queue) : queue[i] \notin dropped /\ queue[i] \in 1..posted
      /\ \A i \in 1..Len(done) : done[i] \notin dropped /\ done[i] \in 1..posted
      /\ \A e \in dropped : e \in 1..posted
      /\ \A e \in 1..posted : \/ e \in dropped
                              \/ \E i \in 1..Len(queue) : queue[i] = e
                              \/ \E i \in 1..Len(done) : done[i] = e
      /\ Len(queue) + Cardinality(dropped) + Len(done) = posted
  <2>1. /\ \A e : e \in ToSet(queue) <=> \E i \in 1..Len(queue) : queue[i] = e
        /\ \A e : e \in ToSet(done) <=> \E i \in 1..Len(done) : done[i] = e
    BY <1>2 DEF ToSet
  <2>2. /\ \A i \in 1..Len(queue) : queue[i] \in ToSet(queue)
        /\ \A i \in 1..Len(done) : done[i] \in ToSet(done)
    BY <2>1
  <2>3. /\ \A i, j \in 1..Len(queue) : queue[i] = queue[j] => i = j
        /\ \A i, j \in 1..Len(done) : done[i] = done[j] => i = j
    BY <1>2 DEF Accounts, IsInjective
  <2>4. /\ \A i \in 1..Len(queue), j \in 1..Len(done) : queue[i] # done[j]
        /\ \A i \in 1..Len(queue) : queue[i] \notin dropped
        /\ \A i \in 1..Len(done) : done[i] \notin dropped
    BY <2>2 DEF Accounts
  <2>5. \A e : e \in ToSet(queue) \/ e \in dropped \/ e \in ToSet(done) <=> e \in 1..posted
    BY DEF Accounts, EventAccounted
  <2>6. Len(queue) + Cardinality(dropped) + Len(done) = posted
    BY DEF Accounts, EventAccounted
  <2> QED
    BY <2>1, <2>2, <2>3, <2>4, <2>5, <2>6
<1>4. SUFFICES ASSUME EventPost \/ ProcessPop
               PROVE  /\ \A i, j \in 1..Len(queue') : queue'[i] = queue'[j] => i = j
                      /\ \A i, j \in 1..Len(done') : done'[i] = done'[j] => i = j
                      /\ \A i \in 1..Len(queue'), j \in 1..Len(done') : queue'[i] # done'[j]
                      /\ \A i \in 1..Len(queue') : queue'[i] \notin dropped'
                                                   /\ queue'[i] \in 1..posted'
                      /\ \A i \in 1..Len(done') : done'[i] \notin dropped'
                                                  /\ done'[i] \in 1..posted'
                      /\ \A e \in dropped' : e \in 1..posted'
                      /\ \A e \in 1..posted' : \/ e \in dropped'
                                               \/ \E i \in 1..Len(queue') : queue'[i] = e
                                               \/ \E i \in 1..Len(done') : done'[i] = e
                      /\ Len(queue') + Cardinality(dropped') + Len(done') = posted'
  <2>1. CASE EventPost \/ ProcessPop
    <3>1. DOMAIN queue' = 1..Len(queue') /\ DOMAIN done' = 1..Len(done')
      BY LenProperties DEF Types
    <3> QED
      BY <1>4, <2>1, <3>1 DEF Accounts, EventAccounted, ToSet, IsInjective
  <2>2. CASE ~(EventPost \/ ProcessPop)
    <3>1. ASSUME NEW s \in Subs, Control(s) PROVE UNCHANGED <<queue, done, dropped, posted>>
      BY <3>1 DEF Control, Subscribe, Unsubscribe, ActiveSet, Reset, DtorDeactivate,
         DtorReset, DtorUnsubscribe, history
    <3>2. ASSUME NEW s \in Async, Receive(s) \/ Consume(s)
          PROVE  UNCHANGED <<queue, done, dropped, posted>>
      BY <3>2 DEF Receive, ReceiveGranted, ReceiveCounted, ReceivePop, Consume, history
    <3>3. CASE Clear \/ ProcessLock \/ ProcessNext \/ NotifyAsync \/ NotifySync
               \/ ProcessEnd \/ UNCHANGED vars
      BY <1>1, <3>3 DEF Clear, ProcessLock, ProcessNext, NotifyAsync, NotifySync,
         ProcessEnd, history, vars
    <3> QED
      BY <1>1, <2>2, <3>1, <3>2, <3>3 DEF Next, Process
  <2> QED
    BY <2>1, <2>2
<1>5. CASE EventPost
  <2>1. /\ posted' = posted + 1 /\ UNCHANGED done
        /\ dropped' = dropped \cup (ToSet(queue) \ ToSet(Restricted))
    BY <1>5 DEF EventPost
  <2>2. PICK k \in {0, 1} :
          /\ Len(queue) - k \in Nat /\ Len(queue') = Len(queue) - k + 1
          /\ Restricted \in Seq(Events) /\ Len(Restricted) = Len(queue) - k
          /\ \A i \in 1..(Len(queue) - k) : Restricted[i] = queue[i + k]
          /\ \/ /\ \A i \in 1..(Len(queue) - k) : queue'[i] = queue[i + k]
                /\ queue'[Len(queue) - k + 1] = posted'
             \/ /\ \A i \in 1..(Len(queue) - k) : queue'[i + 1] = queue[i + k]
                /\ queue'[1] = posted'
    BY <1>5, PostedElements
  <2> DEFINE n == Len(queue) - k
  <2>3. n \in Nat /\ n <= Len(queue) /\ Len(queue') = n + 1
    BY <1>2, <2>2
  <2>4. PICK f \in [1..(n + 1) -> 0..Len(queue)] :
           /\ \A i \in 1..(n + 1) : queue'[i] = IF f[i] = 0 THEN posted' ELSE queue[f[i]]
           /\ \A i \in 1..(n + 1) : f[i] # 0 => f[i] > k
           /\ \A j \in 1..Len(queue) : j > k => \E i \in 1..(n + 1) : f[i] = j
           /\ \E i \in 1..(n + 1) : f[i] = 0
           /\ \A i, j \in 1..(n + 1) : f[i] = f[j] => i = j
    <3>1. CASE /\ \A i \in 1..n : queue'[i] = queue[i + k]
               /\ queue'[n + 1] = posted'
      <4> DEFINE f == [i \in 1..(n + 1) |-> IF i = n + 1 THEN 0 ELSE i + k]
      <4>1. f \in [1..(n + 1) -> 0..Len(queue)]
        BY <1>2, <2>3
      <4>2. \A i \in 1..(n + 1) : queue'[i] = IF f[i] = 0 THEN posted' ELSE queue[f[i]]
        BY <1>2, <2>3, <3>1
      <4>3. \A i \in 1..(n + 1) : f[i] # 0 => f[i] > k
        BY <1>2, <2>3
      <4>4. ASSUME NEW j \in 1..Len(queue), j > k PROVE \E i \in 1..(n + 1) : f[i] = j
        <5>1. j - k \in 1..n /\ (j - k) + k = j /\ j - k \in 1..(n + 1) /\ j - k # n + 1
          BY <1>2, <2>3, <4>4
        <5>2. f[j - k] = j
          BY <5>1
        <5> QED
          BY <5>1, <5>2
      <4>5. \E i \in 1..(n + 1) : f[i] = 0
        <5>1. n + 1 \in 1..(n + 1)
          BY <2>3
        <5> QED
          BY <5>1
      <4>6. \A i, j \in 1..(n + 1) : f[i] = f[j] => i = j
        BY <2>3
      <4> HIDE DEF f
      <4> QED
        BY <4>1, <4>2, <4>3, <4>4, <4>5, <4>6
    <3>2. CASE /\ \A i \in 1..n : queue'[i + 1] = queue[i + k]
               /\ queue'[1] = posted'
      <4> DEFINE f == [i \in 1..(n + 1) |-> IF i = 1 THEN 0 ELSE i - 1 + k]
      <4>1. f \in [1..(n + 1) -> 0..Len(queue)]
        BY <1>2, <2>3
      <4>2. ASSUME NEW i \in 1..(n + 1)
            PROVE  queue'[i] = IF f[i] = 0 THEN posted' ELSE queue[f[i]]
        <5>1. CASE i = 1
          BY <2>3, <3>2, <5>1
        <5>2. CASE i # 1
          <6>1. i - 1 \in 1..n /\ (i - 1) + 1 = i /\ i - 1 + k # 0
            BY <2>3, <5>2
          <6>2. queue'[i] = queue[(i - 1) + k]
            BY <3>2, <6>1
          <6> QED
            BY <5>2, <6>1, <6>2
        <5> QED
          BY <5>1, <5>2
      <4>3. \A i \in 1..(n + 1) : f[i] # 0 => f[i] > k
        BY <1>2, <2>3
      <4>4. ASSUME NEW j \in 1..Len(queue), j > k PROVE \E i \in 1..(n + 1) : f[i] = j
        <5>1. /\ j - k + 1 \in 1..(n + 1) /\ j - k + 1 # 1 /\ (j - k + 1) - 1 + k = j
          BY <1>2, <2>3, <4>4
        <5>2. f[j - k + 1] = j
          BY <5>1
        <5> QED
          BY <5>1, <5>2
      <4>5. \E i \in 1..(n + 1) : f[i] = 0
        <5>1. 1 \in 1..(n + 1)
          BY <2>3
        <5> QED
          BY <5>1
      <4>6. \A i, j \in 1..(n + 1) : f[i] = f[j] => i = j
        BY <2>3
      <4> HIDE DEF f
      <4> QED
        BY <4>1, <4>2, <4>3, <4>4, <4>5, <4>6
    <3> QED
      BY <2>2, <3>1, <3>2
  <2>5. dropped' = dropped \cup (IF k = 1 THEN {queue[1]} ELSE {})
    <3>1. DOMAIN Restricted = 1..n
      BY <2>2, LenProperties
    <3>2. \A e : e \in ToSet(queue) <=> \E i \in 1..Len(queue) : e = queue[i]
      BY <1>2 DEF ToSet
    <3>3. \A e : e \in ToSet(Restricted) <=> \E i \in 1..n : e = queue[i + k]
      <4>1. \A e : e \in ToSet(Restricted) <=> \E i \in 1..n : e = Restricted[i]
        BY <3>1 DEF ToSet
      <4>2. \A i \in 1..n : Restricted[i] = queue[i + k]
        BY <2>2
      <4> HIDE DEF n
      <4> QED
        BY <4>1, <4>2
    <3> HIDE DEF n
    <3>4. CASE k = 0
      <4>1. n = Len(queue) /\ \A i \in 1..n : i + k = i
        BY <1>2, <3>4 DEF n
      <4>2. \A e \in ToSet(queue) : e \in ToSet(Restricted)
        BY <3>2, <3>3, <4>1
      <4>3. dropped' = dropped
        BY <2>1, <4>2
      <4> QED
        BY <3>4, <4>3
    <3>5. CASE k = 1
      <4>1. Len(queue) >= 1 /\ n = Len(queue) - 1
        BY <1>2, <2>2, <3>5 DEF n
      <4>2. \A i \in 1..Len(queue) : i = 1 \/ (i - 1 \in 1..n /\ (i - 1) + k = i)
        BY <1>2, <3>5, <4>1
      <4>3. \A i \in 1..n : i + k \in 1..Len(queue) /\ i + k # 1
        BY <1>2, <3>5, <4>1
      <4>4. 1 \in 1..Len(queue)
        BY <1>2, <4>1
      <4>5. \A i \in 1..n : queue[i + k] # queue[1]
        BY <1>3, <4>3, <4>4
      <4>6. queue[1] \in ToSet(queue) \ ToSet(Restricted)
        BY <3>2, <3>3, <4>4, <4>5
      <4>7. \A e \in ToSet(queue) \ ToSet(Restricted) : e = queue[1]
        BY <3>2, <3>3, <4>2
      <4>8. ToSet(queue) \ ToSet(Restricted) = {queue[1]}
        BY <4>6, <4>7
      <4> QED
        BY <2>1, <3>5, <4>8
    <3> QED
      BY <3>4, <3>5
  <2>6. Cardinality(dropped') = Cardinality(dropped) + k
    <3>1. CASE k = 0
      BY <1>2, <2>5, <3>1
    <3>2. CASE k = 1
      <4>1. 1 \in 1..Len(queue)
        BY <1>2, <2>2, <3>2
      <4>2. dropped' = dropped \cup {queue[1]} /\ queue[1] \notin dropped
        BY <1>3, <2>5, <3>2, <4>1
      <4> QED
        BY <1>2, <3>2, <4>2, FS_AddElement
    <3> QED
      BY <3>1, <3>2
  <2>7. Len(queue') + Cardinality(dropped') + Len(done') = posted'
    <3>1. /\ Len(queue) + Cardinality(dropped) + Len(done) = posted
          /\ Len(queue') = Len(queue) - k + 1 /\ posted' = posted + 1
          /\ Cardinality(dropped') = Cardinality(dropped) + k /\ Len(done') = Len(done)
      BY <1>3, <2>1, <2>2, <2>6
    <3> QED
      BY <1>2, <3>1
  <2> HIDE DEF n
  <2>8. /\ posted' \notin 1..posted /\ posted' \in 1..posted'
        /\ \A e \in 1..posted' : e = posted' \/ e \in 1..posted
        /\ \A e \in 1..posted : e \in 1..posted'
    BY <1>2, <2>1
  <2>9. ASSUME NEW i \in 1..(n + 1)
        PROVE  \/ f[i] = 0 /\ queue'[i] = posted'
               \/ f[i] \in 1..Len(queue) /\ f[i] > k /\ queue'[i] = queue[f[i]]
    BY <1>2, <2>3, <2>4
  <2>10. \A i, j \in 1..Len(queue') : queue'[i] = queue'[j] => i = j
    <3>1. ASSUME NEW i \in 1..(n + 1), NEW j \in 1..(n + 1), queue'[i] = queue'[j]
          PROVE  f[i] = f[j]
      <4>1. \A l \in 1..Len(queue) : queue[l] # posted'
        BY <1>3, <2>8
      <4> QED
        BY <1>3, <2>9, <3>1, <4>1
    <3> QED
      BY <2>3, <2>4, <3>1
  <2>11. \A i \in 1..Len(queue'), j \in 1..Len(done') : queue'[i] # done'[j]
    <3>1. \A j \in 1..Len(done') : done'[j] = done[j] /\ done[j] # posted' /\ j \in 1..Len(done)
      BY <1>3, <2>1, <2>8
    <3>2. \A i \in 1..(n + 1) : \/ queue'[i] = posted'
                                \/ \E l \in 1..Len(queue) : queue'[i] = queue[l]
      BY <2>9
    <3>3. ASSUME NEW i \in 1..(n + 1), NEW j \in 1..Len(done') PROVE queue'[i] # done'[j]
      <4>1. CASE queue'[i] = posted'
        BY <3>1, <4>1
      <4>2. ASSUME NEW l \in 1..Len(queue), queue'[i] = queue[l] PROVE queue'[i] # done'[j]
        BY <1>3, <3>1, <4>2
      <4> QED
        BY <3>2, <4>1, <4>2
    <3> QED
      BY <2>3, <3>3
  <2>12. \A i \in 1..Len(queue') : queue'[i] \notin dropped' /\ queue'[i] \in 1..posted'
    <3>1. ASSUME NEW i \in 1..(n + 1) PROVE queue'[i] \notin dropped' /\ queue'[i] \in 1..posted'
      <4>1. CASE queue'[i] = posted'
        <5>1. posted' \notin dropped
          BY <1>3, <2>8
        <5>2. k = 1 => queue[1] \in 1..posted
          BY <1>2, <1>3, <2>2
        <5> QED
          BY <2>5, <2>8, <4>1, <5>1, <5>2
      <4>2. CASE f[i] \in 1..Len(queue) /\ f[i] > k /\ queue'[i] = queue[f[i]]
        <5>1. k = 1 => queue[f[i]] # queue[1]
          BY <1>2, <1>3, <4>2
        <5> QED
          BY <1>3, <2>5, <2>8, <4>2, <5>1
      <4> QED
        BY <2>9, <4>1, <4>2
    <3> QED
      BY <2>3, <3>1
  <2>13. \A i \in 1..Len(done') : done'[i] \notin dropped' /\ done'[i] \in 1..posted'
    <3>1. k = 1 => 1 \in 1..Len(queue)
      BY <1>2, <2>2
    <3> QED
      BY <1>3, <2>1, <2>5, <2>8, <3>1
  <2>14. \A e \in dropped' : e \in 1..posted'
    <3>1. k = 1 => 1 \in 1..Len(queue)
      BY <1>2, <2>2
    <3> QED
      BY <1>3, <2>5, <2>8, <3>1
  <2>15. ASSUME NEW e \in 1..posted'
         PROVE  \/ e \in dropped'
                \/ \E i \in 1..Len(queue') : queue'[i] = e
                \/ \E i \in 1..Len(done') : done'[i] = e
    <3>1. CASE e = posted'
      BY <2>3, <2>4, <3>1
    <3>2. CASE e \in 1..posted
      <4>1. CASE e \in dropped \/ \E i \in 1..Len(done) : done[i] = e
        BY <2>1, <2>5, <4>1
      <4>2. ASSUME NEW j \in 1..Len(queue), queue[j] = e PROVE <2>15!2
        <5>1. CASE j > k
          <6>1. PICK i \in 1..(n + 1) : f[i] = j
            BY <2>4, <5>1
          <6>2. queue'[i] = e
            BY <2>9, <4>2, <6>1
          <6> QED
            BY <2>3, <6>2
        <5>2. CASE ~(j > k)
          <6>1. k = 1 /\ j = 1
            BY <1>2, <2>2, <5>2
          <6> QED
            BY <2>5, <4>2, <6>1
        <5> QED
          BY <5>1, <5>2
      <4> QED
        BY <1>3, <3>2, <4>1, <4>2
    <3> QED
      BY <2>8, <3>1, <3>2
  <2> QED
    BY <1>3, <2>1, <2>7, <2>10, <2>11, <2>12, <2>13, <2>14, <2>15
<1>6. CASE ProcessPop
  <2>1. /\ Len(queue) \in Nat \ {0} /\ Len(done) \in Nat
        /\ Len(queue') = Len(queue) - 1 /\ Len(done') = Len(done) + 1
        /\ \A i \in 1..(Len(queue) - 1) : queue'[i] = queue[i + 1]
        /\ \A i \in 1..Len(done) : done'[i] = done[i]
        /\ done'[Len(done) + 1] = queue[1]
        /\ dropped' = dropped /\ posted' = posted
    BY <1>6, PoppedElements DEF ProcessPop
  <2>2. /\ \A i \in 1..Len(queue') : i + 1 \in 1..Len(queue) /\ i + 1 # 1
                                     /\ queue'[i] = queue[i + 1]
        /\ \A i \in 1..Len(done') : \/ i \in 1..Len(done) /\ done'[i] = done[i]
                                    \/ i = Len(done) + 1 /\ done'[i] = queue[1]
        /\ 1 \in 1..Len(queue)
    BY <2>1
  <2>3. \A i, j \in 1..Len(queue') : queue'[i] = queue'[j] => i = j
    BY <1>3, <2>1, <2>2
  <2>4. \A i, j \in 1..Len(done') : done'[i] = done'[j] => i = j
    BY <1>3, <2>2
  <2>5. \A i \in 1..Len(queue'), j \in 1..Len(done') : queue'[i] # done'[j]
    BY <1>3, <2>2
  <2>6. \A i \in 1..Len(queue') : queue'[i] \notin dropped' /\ queue'[i] \in 1..posted'
    BY <1>3, <2>1, <2>2
  <2>7. \A i \in 1..Len(done') : done'[i] \notin dropped' /\ done'[i] \in 1..posted'
    BY <1>3, <2>1, <2>2
  <2>8. ASSUME NEW e \in 1..posted'
        PROVE  \/ e \in dropped'
               \/ \E i \in 1..Len(queue') : queue'[i] = e
               \/ \E i \in 1..Len(done') : done'[i] = e
    <3>1. CASE e \in dropped
      BY <2>1, <3>1
    <3>2. ASSUME NEW i \in 1..Len(done), done[i] = e PROVE \E j \in 1..Len(done') : done'[j] = e
      <4>1. i \in 1..Len(done') /\ done'[i] = e
        BY <2>1, <3>2
      <4> QED
        BY <4>1
    <3>3. ASSUME NEW i \in 1..Len(queue), queue[i] = e
          PROVE  \/ \E j \in 1..Len(queue') : queue'[j] = e
                 \/ \E j \in 1..Len(done') : done'[j] = e
      <4>1. CASE i = 1
        <5>1. Len(done) + 1 \in 1..Len(done') /\ done'[Len(done) + 1] = e
          BY <2>1, <3>3, <4>1
        <5> QED
          BY <5>1
      <4>2. CASE i # 1
        <5>1. i - 1 \in 1..(Len(queue) - 1) /\ (i - 1) + 1 = i
          BY <2>1, <4>2
        <5>2. i - 1 \in 1..Len(queue') /\ queue'[i - 1] = e
          BY <2>1, <3>3, <5>1
        <5> QED
          BY <5>2
      <4> QED
        BY <4>1, <4>2
    <3> QED
      BY <1>3, <2>1, <3>1, <3>2, <3>3
  <2>9. Len(queue') + Cardinality(dropped') + Len(done') = posted'
    BY <1>2, <1>3, <2>1
  <2> QED
    BY <1>3, <2>1, <2>3, <2>4, <2>5, <2>6, <2>7, <2>8, <2>9
<1> QED
  BY <1>4, <1>5, <1>6

LEMMA OrderedStep ==
    ASSUME Types, Types', Accounts, Ordered, [Next]_vars
    PROVE  Ordered'
<1>1. CASE UNCHANGED <<queue, done, urgent>>
  BY <1>1 DEF Ordered, Before
<1>2. /\ Len(queue) \in Nat /\ Len(done) \in Nat /\ posted \in Nat
      /\ DOMAIN queue = 1..Len(queue) /\ DOMAIN done = 1..Len(done)
      /\ DOMAIN queue' = 1..Len(queue') /\ DOMAIN done' = 1..Len(done')
  BY LenProperties, DispatcherAssumption DEF Types
<1>3. /\ \A i, j \in 1..Len(queue) : i < j => Before(urgent, queue[i], queue[j])
      /\ \A i, j \in 1..Len(done) : i < j => Before(urgent, done[i], done[j])
      /\ \A i \in 1..Len(done), j \in 1..Len(queue) : Before(urgent, done[i], queue[j])
  BY <1>2 DEF Ordered
<1>4. /\ \A i \in 1..Len(queue) : queue[i] \in 1..posted
      /\ \A i \in 1..Len(done) : done[i] \in 1..posted
  <2>1. /\ \A i \in 1..Len(queue) : queue[i] \in ToSet(queue)
        /\ \A i \in 1..Len(done) : done[i] \in ToSet(done)
    BY <1>2 DEF ToSet
  <2> QED
    BY <2>1 DEF Accounts, EventAccounted
<1>5. CASE EventPost
  <2>1. PICK k \in {0, 1} :
          /\ Len(queue) - k \in Nat /\ Len(queue') = Len(queue) - k + 1
          /\ \/ /\ \A i \in 1..(Len(queue) - k) : queue'[i] = queue[i + k]
                /\ queue'[Len(queue) - k + 1] = posted'
                /\ urgent' = urgent
             \/ /\ \A i \in 1..(Len(queue) - k) : queue'[i + 1] = queue[i + k]
                /\ queue'[1] = posted'
                /\ urgent' = urgent \cup {posted'}
    BY <1>5, PostedElements
  <2> DEFINE n == Len(queue) - k
  <2>2. n \in Nat /\ Len(queue') = n + 1 /\ k \in Nat /\ posted' = posted + 1 /\ done' = done
    BY <1>5, <2>1 DEF EventPost
  <2>3. \A i \in 1..n : i + k \in 1..Len(queue)
    BY <1>2, <2>1
  <2>4. \A x, y : Before(urgent, x, y) => Before(urgent', x, y)
    BY <2>1 DEF Before
  <2>5. /\ \A i \in 1..Len(queue) : queue[i] < posted'
        /\ \A i \in 1..Len(done) : done[i] < posted'
    BY <1>2, <1>4, <2>2
  <2>6. \A i, j \in 1..Len(done') : i < j => Before(urgent', done'[i], done'[j])
    BY <1>3, <2>2, <2>4
  <2>7. CASE /\ \A i \in 1..n : queue'[i] = queue[i + k]
             /\ queue'[n + 1] = posted'
    <3> HIDE DEF n
    <3>1. ASSUME NEW i \in 1..(n + 1), NEW j \in 1..(n + 1), i < j
          PROVE  Before(urgent', queue'[i], queue'[j])
      <4>1. CASE j = n + 1
        <5>1. i \in 1..n /\ i + k \in 1..Len(queue) /\ queue'[i] = queue[i + k]
          BY <2>2, <2>3, <2>7, <3>1, <4>1
        <5>2. queue'[i] < queue'[j]
          BY <2>5, <2>7, <4>1, <5>1
        <5> QED
          BY <5>2 DEF Before
      <4>2. CASE j \in 1..n
        <5>1. i \in 1..n /\ i + k < j + k
          BY <2>2, <3>1, <4>2
        <5>2. Before(urgent, queue[i + k], queue[j + k])
          BY <1>3, <2>3, <4>2, <5>1
        <5> QED
          BY <2>4, <2>7, <4>2, <5>1, <5>2
      <4> QED
        BY <2>2, <4>1, <4>2
    <3>2. ASSUME NEW i \in 1..Len(done), NEW j \in 1..(n + 1)
          PROVE  Before(urgent', done[i], queue'[j])
      <4>1. CASE j = n + 1
        BY <2>5, <2>7, <4>1 DEF Before
      <4>2. CASE j \in 1..n
        BY <1>3, <2>3, <2>4, <2>7, <4>2
      <4> QED
        BY <2>2, <4>1, <4>2
    <3> QED
      BY <1>2, <2>2, <2>6, <3>1, <3>2 DEF Ordered, Before
  <2>8. CASE /\ \A i \in 1..n : queue'[i + 1] = queue[i + k]
             /\ queue'[1] = posted'
             /\ posted' \in urgent'
    <3> HIDE DEF n
    <3>1. ASSUME NEW i \in 1..(n + 1), NEW j \in 1..(n + 1), i < j
          PROVE  Before(urgent', queue'[i], queue'[j])
      <4>1. CASE i = 1
        BY <2>8, <4>1 DEF Before
      <4>2. CASE i # 1
        <5>1. /\ i - 1 \in 1..n /\ (i - 1) + 1 = i /\ j - 1 \in 1..n /\ (j - 1) + 1 = j
              /\ (i - 1) + k < (j - 1) + k
          BY <2>2, <3>1, <4>2
        <5>2. Before(urgent, queue[(i - 1) + k], queue[(j - 1) + k])
          BY <1>3, <2>3, <5>1
        <5>3. queue'[i] = queue[(i - 1) + k] /\ queue'[j] = queue[(j - 1) + k]
          BY <2>8, <5>1
        <5> QED
          BY <2>4, <5>2, <5>3
      <4> QED
        BY <4>1, <4>2
    <3>2. ASSUME NEW i \in 1..Len(done), NEW j \in 1..(n + 1)
          PROVE  Before(urgent', done[i], queue'[j])
      <4>1. CASE j = 1
        BY <2>8, <4>1 DEF Before
      <4>2. CASE j # 1
        <5>1. j - 1 \in 1..n /\ (j - 1) + 1 = j
          BY <2>2, <4>2
        <5>2. queue'[j] = queue[(j - 1) + k] /\ (j - 1) + k \in 1..Len(queue)
          BY <2>3, <2>8, <5>1
        <5> QED
          BY <1>3, <2>4, <5>2
      <4> QED
        BY <4>1, <4>2
    <3> QED
      BY <1>2, <2>2, <2>6, <3>1, <3>2 DEF Ordered, Before
  <2> QED
    BY <2>1, <2>7, <2>8
<1>6. CASE ProcessPop
  <2>1. /\ Len(queue) \in Nat \ {0} /\ Len(done) \in Nat
        /\ Len(queue') = Len(queue) - 1 /\ Len(done') = Len(done) + 1
        /\ \A i \in 1..(Len(queue) - 1) : queue'[i] = queue[i + 1]
        /\ \A i \in 1..Len(done) : done'[i] = done[i]
        /\ done'[Len(done) + 1] = queue[1] /\ urgent' = urgent
    BY <1>6, PoppedElements DEF ProcessPop
  <2>2. /\ \A i \in 1..Len(queue') : i + 1 \in 1..Len(queue) /\ i + 1 > 1
                                     /\ queue'[i] = queue[i + 1]
        /\ \A i \in 1..Len(done') : \/ i \in 1..Len(done) /\ done'[i] = done[i]
                                    \/ i = Len(done) + 1 /\ done'[i] = queue[1]
        /\ 1 \in 1..Len(queue)
    BY <2>1
  <2>3. \A x, y : Before(urgent, x, y) => Before(urgent', x, y)
    BY <2>1 DEF Before
  <2>4. ASSUME NEW i \in 1..Len(queue'), NEW j \in 1..Len(queue'), i < j
        PROVE  Before(urgent', queue'[i], queue'[j])
    <3>1. i + 1 < j + 1
      BY <2>4, <2>1
    <3>2. Before(urgent, queue[i + 1], queue[j + 1])
      BY <1>3, <2>2, <3>1
    <3> QED
      BY <2>2, <2>3, <3>2
  <2>5. ASSUME NEW i \in 1..Len(done'), NEW j \in 1..Len(done'), i < j
        PROVE  Before(urgent', done'[i], done'[j])
    <3>1. CASE j = Len(done) + 1
      <4>1. i \in 1..Len(done) /\ done'[i] = done[i] /\ done'[j] = queue[1]
        BY <2>1, <2>5, <3>1
      <4> QED
        BY <1>3, <2>2, <2>3, <4>1
    <3>2. CASE j \in 1..Len(done)
      <4>1. i \in 1..Len(done) /\ done'[i] = done[i] /\ done'[j] = done[j]
        BY <2>1, <2>5, <3>2
      <4>2. Before(urgent, done[i], done[j])
        BY <1>3, <2>5, <3>2, <4>1
      <4> QED
        BY <2>3, <4>1, <4>2
    <3> QED
      BY <2>2, <3>1, <3>2
  <2>6. ASSUME NEW i \in 1..Len(done'), NEW j \in 1..Len(queue')
        PROVE  Before(urgent', done'[i], queue'[j])
    <3>1. CASE i \in 1..Len(done) /\ done'[i] = done[i]
      BY <1>3, <2>2, <2>3, <3>1
    <3>2. CASE done'[i] = queue[1]
      <4>1. 1 \in 1..Len(queue) /\ j + 1 \in 1..Len(queue) /\ 1 < j + 1
            /\ queue'[j] = queue[j + 1]
        BY <2>1, <2>2
      <4>2. Before(urgent, queue[1], queue[j + 1])
        BY <1>3, <4>1
      <4> QED
        BY <2>3, <3>2, <4>1, <4>2
    <3> QED
      BY <2>2, <3>1, <3>2
  <2> QED
    BY <1>2, <2>4, <2>5, <2>6 DEF Ordered, Before
<1>7. ASSUME NEW s \in Subs, Control(s) PROVE Ordered'
  BY <1>1, <1>7 DEF Control, Subscribe, Unsubscribe, ActiveSet, Reset, DtorDeactivate,
     DtorReset, DtorUnsubscribe, history
<1>8. ASSUME NEW s \in Async, Receive(s) \/ Consume(s) PROVE Ordered'
  BY <1>1, <1>8 DEF Receive, ReceiveGranted, ReceiveCounted, ReceivePop, Consume, history
<1>9. CASE Clear \/ ProcessLock \/ ProcessNext \/ NotifyAsync \/ NotifySync
           \/ ProcessEnd \/ UNCHANGED vars
  BY <1>1, <1>9 DEF Clear, ProcessLock, ProcessNext, NotifyAsync, NotifySync,
     ProcessEnd, history, vars
<1> QED
  BY <1>5, <1>6, <1>7, <1>8, <1>9 DEF Next, Process

-----------------------------------------------------------------------------
(* Deliveries                                                              *)

\* A part of d remains one when d grows.
LEMMA FollowsMore ==
    ASSUME NEW S, NEW g \in Seq(S), NEW d \in Seq(S), Follows(g, d), NEW e \in Seq(S),
           Len(e) >= Len(d), \A i \in 1..Len(d) : e[i] = d[i]
    PROVE  Follows(g, e)
<1>1. /\ Len(d) \in Nat /\ Len(e) \in Nat /\ DOMAIN d = 1..Len(d) /\ DOMAIN e = 1..Len(e)
  BY LenProperties
<1>2. \A p \in DOMAIN d : p \in DOMAIN e /\ d[p] = e[p]
  BY <1>1
<1> QED
  BY <1>2 DEF Follows

\* Part of a part: h is what g has at the places f.
LEMMA FollowsPart ==
    ASSUME NEW g, NEW d, Follows(g, d), NEW h, NEW f \in [DOMAIN h -> DOMAIN g],
           \A i \in DOMAIN h : h[i] = g[f[i]],
           \A i, j \in DOMAIN h : i < j => f[i] < f[j]
    PROVE  Follows(h, d)
<1>1. \A i \in DOMAIN h : \E p \in DOMAIN d : h[i] = d[p]
  BY DEF Follows
<1>2. ASSUME NEW i \in DOMAIN h, NEW j \in DOMAIN h, i < j
      PROVE  \E p, q \in DOMAIN d : p < q /\ h[i] = d[p] /\ h[j] = d[q]
  <2>1. f[i] \in DOMAIN g /\ f[j] \in DOMAIN g /\ f[i] < f[j]
    BY <1>2
  <2>2. PICK p \in DOMAIN d, q \in DOMAIN d : p < q /\ g[f[i]] = d[p] /\ g[f[j]] = d[q]
    BY <2>1 DEF Follows
  <2> QED
    BY <2>2
<1> QED
  BY <1>1, <1>2 DEF Follows

\* A part of d that lacks the last of d remains one with it.
LEMMA FollowsNext ==
    ASSUME NEW S, NEW g \in Seq(S), NEW d \in Seq(S), Follows(g, d), d # <<>>,
           d[Len(d)] \notin ToSet(g)
    PROVE  Follows(Append(g, d[Len(d)]), d)
<1> DEFINE x == d[Len(d)]
           h == Append(g, x)
<1>1. /\ Len(d) \in Nat \ {0} /\ DOMAIN d = 1..Len(d) /\ Len(d) \in DOMAIN d
      /\ Len(g) \in Nat /\ DOMAIN g = 1..Len(g)
  BY LenProperties, EmptySeq
<1>2. x \in S
  BY <1>1, ElementOfSeq
<1>3. /\ h \in Seq(S) /\ Len(h) = Len(g) + 1 /\ h[Len(g) + 1] = x
      /\ \A i \in 1..Len(g) : h[i] = g[i]
  BY <1>2, AppendProperties
<1>4. DOMAIN h = 1..(Len(g) + 1)
  BY <1>3, LenProperties
<1>5. \A i \in 1..Len(g) : g[i] # x
  BY <1>1 DEF ToSet
<1> HIDE DEF h
<1>6. ASSUME NEW i \in 1..(Len(g) + 1) PROVE \E p \in DOMAIN d : h[i] = d[p]
  <2>1. CASE i = Len(g) + 1
    BY <1>1, <1>3, <2>1
  <2>2. CASE i \in 1..Len(g)
    BY <1>1, <1>3, <2>2 DEF Follows
  <2> QED
    BY <1>1, <2>1, <2>2
<1>7. ASSUME NEW i \in 1..(Len(g) + 1), NEW j \in 1..(Len(g) + 1), i < j
      PROVE  \E p, q \in DOMAIN d : p < q /\ h[i] = d[p] /\ h[j] = d[q]
  <2>1. i \in 1..Len(g) /\ h[i] = g[i]
    BY <1>1, <1>3, <1>7
  <2>2. CASE j = Len(g) + 1
    <3>1. PICK p \in DOMAIN d : g[i] = d[p]
      BY <1>1, <2>1 DEF Follows
    <3>2. p < Len(d)
      BY <1>1, <1>5, <2>1, <3>1
    <3> QED
      BY <1>1, <1>3, <2>1, <2>2, <3>1, <3>2
  <2>3. CASE j \in 1..Len(g)
    <3>1. i \in DOMAIN g /\ j \in DOMAIN g /\ h[j] = g[j]
      BY <1>1, <1>3, <2>1, <2>3
    <3>2. \E p, q \in DOMAIN d : p < q /\ g[i] = d[p] /\ g[j] = d[q]
      BY <1>7, <3>1 DEF Follows
    <3> QED
      BY <2>1, <3>1, <3>2
  <2> QED
    BY <1>1, <2>2, <2>3
<1>8. Follows(h, d)
  BY <1>4, <1>6, <1>7 DEF Follows
<1> QED
  BY <1>8 DEF h

\* Without an element a part of d is a part of d, and has none more.
LEMMA FollowsDropped ==
    ASSUME NEW S, NEW r \in Seq(S), NEW b \in Seq(S), b # <<>>,
           NEW d, Follows(r \o b, d)
    PROVE  /\ Follows(r \o Tail(b), d)
           /\ ToSet(r \o Tail(b)) \subseteq ToSet(r \o b)
<1> DEFINE t == Tail(b)
           g == r \o b
           h == r \o t
<1>1. /\ Len(b) \in Nat \ {0} /\ t \in Seq(S) /\ Len(t) = Len(b) - 1
      /\ \A i \in 1..(Len(b) - 1) : t[i] = b[i + 1]
      /\ Len(r) \in Nat
  BY TailElements
<1> HIDE DEF t
<1>2. /\ g \in Seq(S) /\ Len(g) = Len(r) + Len(b)
      /\ \A i \in 1..(Len(r) + Len(b)) : g[i] = IF i <= Len(r) THEN r[i] ELSE b[i - Len(r)]
  BY ConcatProperties
<1>3. /\ h \in Seq(S) /\ Len(h) = Len(r) + Len(t)
      /\ \A i \in 1..(Len(r) + Len(t)) : h[i] = IF i <= Len(r) THEN r[i] ELSE t[i - Len(r)]
  BY <1>1, ConcatProperties
<1> HIDE DEF g, h
<1>4. DOMAIN g = 1..(Len(r) + Len(b)) /\ DOMAIN h = 1..(Len(r) + Len(b) - 1)
  BY <1>1, <1>2, <1>3, LenProperties
<1> DEFINE f == [i \in DOMAIN h |-> IF i <= Len(r) THEN i ELSE i + 1]
<1>5. f \in [DOMAIN h -> DOMAIN g]
  BY <1>1, <1>4
<1>6. ASSUME NEW i \in DOMAIN h PROVE h[i] = g[f[i]]
  <2>1. CASE i <= Len(r)
    <3>1. i \in 1..(Len(r) + Len(t)) /\ i \in 1..(Len(r) + Len(b)) /\ f[i] = i
      BY <1>1, <1>4, <2>1
    <3> QED
      BY <1>2, <1>3, <2>1, <3>1
  <2>2. CASE ~(i <= Len(r))
    <3>1. /\ i \in 1..(Len(r) + Len(t)) /\ i - Len(r) \in 1..(Len(b) - 1)
          /\ i + 1 \in 1..(Len(r) + Len(b)) /\ ~(i + 1 <= Len(r))
          /\ (i + 1) - Len(r) = (i - Len(r)) + 1
      BY <1>1, <1>4, <2>2
    <3>2. h[i] = t[i - Len(r)] /\ g[i + 1] = b[(i + 1) - Len(r)]
      BY <1>2, <1>3, <2>2, <3>1
    <3> QED
      BY <1>1, <2>2, <3>1, <3>2
  <2> QED
    BY <2>1, <2>2
<1>7. \A i, j \in DOMAIN h : i < j => f[i] < f[j]
  BY <1>1, <1>4
<1> HIDE DEF f
<1>8. Follows(g, d)
  BY DEF g
<1>9. Follows(h, d)
  BY <1>5, <1>6, <1>7, <1>8, FollowsPart
<1>10. ToSet(h) \subseteq ToSet(g)
  BY <1>5, <1>6 DEF ToSet
<1> QED
  BY <1>9, <1>10 DEF g, h, t

\* What is received is a part of what is received or waits to be.
LEMMA FollowsReceived ==
    ASSUME NEW S, NEW r \in Seq(S), NEW b \in Seq(S), NEW d, Follows(r \o b, d)
    PROVE  Follows(r \o <<>>, d) /\ ToSet(r \o <<>>) \subseteq ToSet(r \o b)
<1> DEFINE g == r \o b
           f == [i \in DOMAIN r |-> i]
<1>1. /\ g \in Seq(S) /\ Len(g) = Len(r) + Len(b)
      /\ \A i \in 1..(Len(r) + Len(b)) : g[i] = IF i <= Len(r) THEN r[i] ELSE b[i - Len(r)]
      /\ Len(r) \in Nat /\ Len(b) \in Nat
  BY ConcatProperties, LenProperties
<1>2. r \o <<>> = r
  BY ConcatEmptySeq
<1> HIDE DEF g
<1>3. DOMAIN g = 1..(Len(r) + Len(b)) /\ DOMAIN r = 1..Len(r)
  BY <1>1, LenProperties
<1>4. f \in [DOMAIN r -> DOMAIN g] /\ \A i \in DOMAIN r : r[i] = g[f[i]]
  BY <1>1, <1>3
<1>5. \A i, j \in DOMAIN r : i < j => f[i] < f[j]
  OBVIOUS
<1> HIDE DEF f
<1>6. Follows(g, d)
  BY DEF g
<1>7. Follows(r, d)
  BY <1>4, <1>5, <1>6, FollowsPart
<1>8. ToSet(r) \subseteq ToSet(g)
  BY <1>4 DEF ToSet
<1> QED
  BY <1>2, <1>7, <1>8 DEF g

\* The first that waits is received.
LEMMA PoppedConcat ==
    ASSUME NEW S, NEW r \in Seq(S), NEW b \in Seq(S), b # <<>>
    PROVE  Append(r, Head(b)) \o Tail(b) = r \o b
<1> DEFINE t == Tail(b)
           h == Head(b)
           l == <<h>>
<1>1. /\ Len(b) \in Nat \ {0} /\ h = b[1] /\ h \in S /\ t \in Seq(S)
      /\ Len(t) = Len(b) - 1 /\ \A i \in 1..(Len(b) - 1) : t[i] = b[i + 1]
  BY TailElements
<1>2. l \in Seq(S) /\ Len(l) = 1 /\ l[1] = h
  BY <1>1
<1> HIDE DEF t, h
<1>3. Append(r, h) = r \o l
  BY <1>1, AppendIsConcat
<1> HIDE DEF l
<1>4. l \o t = b
  <2>1. /\ l \o t \in Seq(S) /\ Len(l \o t) = Len(l) + Len(t)
        /\ \A i \in 1..(Len(l) + Len(t)) : (l \o t)[i] =
              IF i <= Len(l) THEN l[i] ELSE t[i - Len(l)]
    BY <1>1, <1>2, ConcatProperties
  <2>2. Len(l \o t) = Len(b)
    BY <1>1, <1>2, <2>1
  <2>3. ASSUME NEW i \in 1..Len(b) PROVE (l \o t)[i] = b[i]
    <3>1. (l \o t)[i] = IF i <= 1 THEN l[i] ELSE t[i - 1]
      BY <1>1, <1>2, <2>1
    <3>2. CASE i = 1
      BY <1>1, <1>2, <3>1, <3>2
    <3>3. CASE i # 1
      <4>1. i - 1 \in 1..(Len(b) - 1) /\ (i - 1) + 1 = i /\ ~(i <= 1)
        BY <1>1, <3>3
      <4> QED
        BY <1>1, <3>1, <4>1
    <3> QED
      BY <3>2, <3>3
  <2> QED
    BY <2>1, <2>2, <2>3, SeqEqual
<1>5. (r \o l) \o t = r \o (l \o t)
  <2>1. l \in Seq(S) /\ t \in Seq(S)
    BY <1>1, <1>2
  <2> QED
    BY <2>1, ConcatAssociative
<1> QED
  BY <1>3, <1>4, <1>5 DEF h, t

\* Queueing one more comes last of all.
LEMMA AppendedConcat ==
    ASSUME NEW S, NEW r \in Seq(S), NEW b \in Seq(S), NEW x \in S
    PROVE  r \o Append(b, x) = Append(r \o b, x)
<1> DEFINE l == <<x>>
           g == r \o b
<1>1. l \in Seq(S) /\ g \in Seq(S)
  BY ConcatProperties
<1>2. Append(b, x) = b \o l /\ Append(g, x) = g \o l
  BY <1>1, AppendIsConcat
<1> HIDE DEF l
<1> HIDE DEF g
<1>3. (r \o b) \o l = r \o (b \o l)
  <2>1. l \in Seq(S)
    BY <1>1
  <2> QED
    BY <2>1, ConcatAssociative
<1> QED
  BY <1>2, <1>3 DEF g

\* Where the event in hand is, for whoever is still to be visited.
Pending(s) == dpc = "lock" \/ (dpc # "idle" /\ s \in ToSet(left))

LEMMA DeliveriesStep ==
    ASSUME Types, Types', Registry, Accounts, Deliveries, [Next]_vars
    PROVE  Deliveries'
<1>1. /\ done \in Seq(Events) /\ queue \in Seq(Events) /\ left \in Seq(Subs)
      /\ \A s \in Async : /\ received[s] \in Seq(Events) /\ inbox[s] \in Seq(Events)
                          /\ Got(s) \in Seq(Events) /\ Follows(Got(s), done)
                          /\ Pending(s) => evt \notin ToSet(Got(s))
  BY ConcatProperties DEF Types, Deliveries, InHand, Got, Pending
<1>2. dpc # "idle" => done # <<>> /\ evt = done[Len(done)]
  BY DEF Deliveries, InHand
\* Nothing is taken, and nobody gets more than he had, or has more to get.
<1>3. ASSUME done' = done, dpc' # "idle" => dpc # "idle" /\ evt' = evt,
             \A s \in Async : Pending(s)' => Pending(s),
             \A s \in Async : /\ Follows(Got(s)', done)
                              /\ ToSet(Got(s)') \subseteq ToSet(Got(s))
      PROVE  Deliveries'
  <2>1. ASSUME NEW s \in Async, Pending(s)' PROVE evt' \notin ToSet(Got(s)')
    BY <1>1, <1>3, <2>1 DEF Pending
  <2>2. dpc' # "idle" => done' # <<>> /\ evt' = done'[Len(done')]
    BY <1>2, <1>3
  <2>3. \A s \in Async : Follows(Got(s)', done')
    BY <1>3
  <2> QED
    BY <2>1, <2>2, <2>3 DEF Deliveries, InHand, Pending
<1>4. ASSUME UNCHANGED <<done, dpc, evt, left, received>>,
             NEW s \in Subs, ResetInbox(s)
      PROVE  Deliveries'
  <2>1. ASSUME NEW x \in Async
        PROVE  /\ Follows(Got(x)', done) /\ ToSet(Got(x)') \subseteq ToSet(Got(x))
               /\ Pending(x)' => Pending(x)
    <3>1. Pending(x)' => Pending(x)
      BY <1>4 DEF Pending
    <3>2. inbox'[x] = inbox[x] \/ inbox'[x] = <<>>
      BY <1>4, <2>1 DEF ResetInbox, Types
    <3>3. CASE inbox'[x] = inbox[x]
      <4>1. Got(x)' = Got(x)
        BY <1>4, <3>3 DEF Got
      <4> QED
        BY <1>1, <3>1, <4>1
    <3>4. CASE inbox'[x] = <<>>
      <4>1. Got(x)' = received[x] \o <<>>
        BY <1>4, <3>4 DEF Got
      <4>2. /\ Follows(received[x] \o <<>>, done)
            /\ ToSet(received[x] \o <<>>) \subseteq ToSet(received[x] \o inbox[x])
        BY <1>1, FollowsReceived DEF Got
      <4> QED
        BY <3>1, <4>1, <4>2 DEF Got
    <3> QED
      BY <3>2, <3>3, <3>4
  <2> QED
    BY <1>3, <1>4, <2>1
<1>5. ASSUME UNCHANGED <<done, inbox, received>>,
             dpc' # "idle" => dpc # "idle" /\ evt' = evt,
             \A s \in Async : Pending(s)' => Pending(s)
      PROVE  Deliveries'
  <2>1. \A s \in Async : Got(s)' = Got(s)
    BY <1>5 DEF Got
  <2> QED
    BY <1>1, <1>3, <1>5, <2>1
<1>6. CASE ProcessPop
  <2>1. /\ Len(queue) \in Nat \ {0} /\ Len(done) \in Nat
        /\ done' \in Seq(Events) /\ Len(done') = Len(done) + 1
        /\ \A i \in 1..Len(done) : done'[i] = done[i]
        /\ done'[Len(done) + 1] = queue[1] /\ evt' = queue[1]
        /\ inbox' = inbox /\ received' = received
    BY <1>6, PoppedElements DEF ProcessPop, async
  <2>2. DOMAIN queue = 1..Len(queue)
    BY <1>1, LenProperties
  <2>3. evt' \notin ToSet(done)
    <3>1. queue[1] \in ToSet(queue)
      BY <2>1, <2>2 DEF ToSet
    <3> QED
      BY <2>1, <3>1 DEF Accounts
  <2>4. ASSUME NEW s \in Async
        PROVE  Follows(Got(s)', done') /\ evt' \notin ToSet(Got(s)')
    <3>1. Got(s)' = Got(s)
      BY <2>1 DEF Got
    <3>2. Follows(Got(s), done')
      <4>1. /\ Got(s) \in Seq(Events) /\ done \in Seq(Events) /\ Follows(Got(s), done)
            /\ Len(done') >= Len(done)
        BY <1>1, <2>1
      <4> QED
        BY <2>1, <4>1, FollowsMore
    <3>3. ToSet(Got(s)) \subseteq ToSet(done)
      BY <1>1 DEF ToSet, Follows
    <3> QED
      BY <2>3, <3>1, <3>2, <3>3
  <2>5. done' # <<>> /\ evt' = done'[Len(done')]
    BY <2>1
  <2> QED
    BY <2>4, <2>5 DEF Deliveries, InHand
<1>7. CASE ProcessLock
  BY <1>5, <1>7 DEF ProcessLock, async, history, Pending
\* The loop of process() goes on to the next.
<1>8. ASSUME left # <<>>, dpc \in {"next", "notify"}
      PROVE  /\ \A s : s \in ToSet(Tail(left)) => s \in ToSet(left) /\ s # Head(left)
             /\ Head(left) \in ToSet(left)
  <2>1. /\ \A i \in DOMAIN Tail(left) : /\ Tail(left)[i] # Head(left)
                                        /\ \E j \in DOMAIN left : Tail(left)[i] = left[j]
    BY <1>1, <1>8, TailInjective DEF Registry
  <2>2. 1 \in DOMAIN left /\ Head(left) = left[1]
    BY <1>1, <1>8, TailElements, LenProperties
  <2> QED
    BY <2>1, <2>2 DEF ToSet
<1>9. CASE ProcessNext
  BY <1>5, <1>8, <1>9 DEF ProcessNext, async, history, Pending
<1>10. CASE NotifySync
  <2>1. left # <<>>
    BY <1>10 DEF NotifySync, Registry
  <2> QED
    BY <1>5, <1>8, <1>10, <2>1 DEF NotifySync, async, history, Pending
<1>11. CASE ProcessEnd
  BY <1>5, <1>11 DEF ProcessEnd, async, history, Pending
<1>12. CASE NotifyAsync
  <2> DEFINE s == Head(left)
             b == IF Len(inbox[s]) >= SubQueueMax THEN Tail(inbox[s]) ELSE inbox[s]
             r == Append(b, evt)
  <2>1. /\ s \in Async /\ inbox' = [inbox EXCEPT ![s] = r] /\ left' = Tail(left)
        /\ dpc = "notify" /\ dpc' = "next" /\ evt' = evt
        /\ done' = done /\ received' = received /\ left # <<>>
    BY <1>12 DEF NotifyAsync, Registry, history
  <2>2. /\ done # <<>> /\ evt = done[Len(done)] /\ evt \notin ToSet(Got(s))
        /\ evt \in Events
    <3>1. done # <<>> /\ evt = done[Len(done)]
      BY <1>2, <2>1
    <3>2. Pending(s)
      BY <1>8, <2>1 DEF Pending
    <3>3. Len(done) \in 1..Len(done)
      BY <1>1, <3>1, EmptySeq
    <3>4. evt \in Events
      BY <1>1, <3>1, <3>3, ElementOfSeq
    <3> QED
      BY <1>1, <2>1, <3>1, <3>2, <3>4
  <2>3. /\ b \in Seq(Events) /\ Follows(received[s] \o b, done)
        /\ evt \notin ToSet(received[s] \o b)
    <3>1. CASE Len(inbox[s]) >= SubQueueMax
      <4>1. inbox[s] # <<>>
        BY <1>1, <2>1, <3>1, EmptySeq, DispatcherAssumption
      <4>2. /\ Follows(received[s] \o Tail(inbox[s]), done)
            /\ ToSet(received[s] \o Tail(inbox[s])) \subseteq ToSet(received[s] \o inbox[s])
            /\ Tail(inbox[s]) \in Seq(Events)
        BY <1>1, <2>1, <4>1, FollowsDropped, TailElements DEF Got
      <4> QED
        BY <2>2, <3>1, <4>2 DEF Got
    <3>2. CASE ~(Len(inbox[s]) >= SubQueueMax)
      BY <1>1, <2>1, <2>2, <3>2 DEF Got
    <3> QED
      BY <3>1, <3>2
  <2> HIDE DEF b
  <2>4. Follows(received[s] \o r, done)
    <3>1. received[s] \o b \in Seq(Events)
      BY <1>1, <2>1, <2>3, ConcatProperties
    <3>2. Follows(Append(received[s] \o b, evt), done)
      BY <1>1, <2>2, <2>3, <3>1, FollowsNext
    <3>3. received[s] \o Append(b, evt) = Append(received[s] \o b, evt)
      <4>1. received[s] \in Seq(Events) /\ b \in Seq(Events) /\ evt \in Events
        BY <1>1, <2>1, <2>2, <2>3
      <4> DEFINE rs == received[s]
      <4>2. rs \in Seq(Events)
        BY <4>1
      <4> HIDE DEF rs
      <4>3. rs \o Append(b, evt) = Append(rs \o b, evt)
        BY <4>1, <4>2, AppendedConcat
      <4> QED
        BY <4>3 DEF rs
    <3> QED
      BY <3>2, <3>3
  <2> HIDE DEF r
  <2>5. ASSUME NEW x \in Async
        PROVE  /\ Follows(Got(x)', done')
               /\ Pending(x)' => evt' \notin ToSet(Got(x)')
    <3>1. CASE x = s
      <4>1. Got(x)' = received[s] \o r
        BY <2>1, <3>1 DEF Got, Types
      <4>2. ~Pending(x)'
        BY <1>8, <2>1, <3>1 DEF Pending
      <4> QED
        BY <2>1, <2>4, <4>1, <4>2
    <3>2. CASE x # s
      <4>1. Got(x)' = Got(x)
        BY <2>1, <3>2 DEF Got, Types
      <4>2. Pending(x)' => Pending(x)
        BY <1>8, <2>1 DEF Pending
      <4> QED
        BY <1>1, <2>1, <4>1, <4>2
    <3> QED
      BY <3>1, <3>2
  <2> QED
    BY <2>1, <2>2, <2>5 DEF Deliveries, InHand, Pending
<1>13. ASSUME NEW s \in Async, ReceivePop(s) PROVE Deliveries'
  <2>1. ASSUME NEW x \in Async PROVE Got(x)' = Got(x)
    <3>1. CASE x = s /\ inbox[s] # <<>>
      <4>1. Got(x)' = Append(received[x], Head(inbox[x])) \o Tail(inbox[x])
        BY <1>13, <3>1 DEF ReceivePop, Got, Types
      <4>2. /\ received[x] \in Seq(Events) /\ inbox[x] \in Seq(Events)
            /\ inbox[x] # <<>>
        BY <1>1, <2>1, <3>1
      <4>3. Append(received[x], Head(inbox[x])) \o Tail(inbox[x]) = received[x] \o inbox[x]
        BY <4>2, PoppedConcat
      <4> QED
        BY <4>1, <4>3 DEF Got
    <3>2. CASE ~(x = s /\ inbox[s] # <<>>)
      BY <1>13, <3>2 DEF ReceivePop, Got, Types
    <3> QED
      BY <3>1, <3>2
  <2>2. UNCHANGED <<done, dpc, evt, left>>
    BY <1>13 DEF ReceivePop, pump
  <2>3. \A x \in Async : Pending(x)' => Pending(x)
    BY <2>2 DEF Pending
  <2> QED
    BY <1>1, <1>3, <2>1, <2>2, <2>3
<1>14. CASE UNCHANGED <<done, inbox, received, dpc, evt, left>>
  BY <1>5, <1>14 DEF Pending
<1>15. ASSUME NEW s \in Subs, Control(s) PROVE Deliveries'
  BY <1>4, <1>14, <1>15 DEF Control, Subscribe, Unsubscribe, ActiveSet, Reset,
     DtorDeactivate, DtorReset, DtorUnsubscribe, pump, async, history
<1>16. CASE EventPost \/ Clear \/ UNCHANGED vars
  BY <1>14, <1>16 DEF EventPost, Clear, pump, async, history, vars
<1>17. ASSUME NEW s \in Async, ReceiveGranted(s) \/ ReceiveCounted(s) \/ Consume(s)
       PROVE  Deliveries'
  BY <1>14, <1>17 DEF ReceiveGranted, ReceiveCounted, Consume, pump, async, history
<1> QED
  BY <1>6, <1>7, <1>9, <1>10, <1>11, <1>12, <1>13, <1>15, <1>16, <1>17
     DEF Next, Process, Receive

-----------------------------------------------------------------------------
(* The invariant and what follows from it                                  *)

LEMMA InitHolds ==
    ASSUME Init
    PROVE  IInv
<1>1. /\ QueueMax \in Nat /\ SubQueueMax \in Nat /\ MaxEvents \in Nat
      /\ IsFiniteSet(Subs) /\ Cardinality(Subs) \in Nat
  BY FS_CardinalityType, DispatcherAssumption
<1>2. subs \in Seq(Subs) /\ IsInjective(subs)
  <2>1. /\ subs \in [1..Cardinality(Subs) -> Subs]
        /\ \A i, j \in 1..Cardinality(Subs) : i # j => subs[i] # subs[j]
    BY DEF Init, SetToSeqs
  <2>2. IsInjective(subs)
    BY <2>1 DEF IsInjective
  <2>3. subs \in Seq(Subs)
    BY <1>1, <2>1
  <2> QED
    BY <2>2, <2>3
<1>3. <<>> \in Seq(Events) /\ <<>> \in Seq(Subs) /\ Len(<<>>) = 0
  OBVIOUS
<1>4. Types
  <2>1. /\ queue \in Seq(Events) /\ Len(queue) <= QueueMax /\ left \in Seq(Subs)
        /\ done \in Seq(Events)
        /\ inbox \in [Async -> Seq(Events)] /\ received \in [Async -> Seq(Events)]
        /\ \A s \in Async : Len(inbox[s]) <= SubQueueMax
    BY <1>1, <1>3 DEF Init
  <2>2. /\ sem \in [Async -> 0..SubQueueMax] /\ rpc \in [Async -> ReceivePcs]
        /\ evt \in 0..MaxEvents /\ posted \in 0..MaxEvents
    BY <1>1 DEF Init, ReceivePcs
  <2>3. /\ subscribed \in [Subs -> BOOLEAN] /\ active \in [Subs -> BOOLEAN]
        /\ life \in [Subs -> Lives] /\ dpc \in DispatchPcs
        /\ csSubs \in BOOLEAN /\ consumed \in BOOLEAN
        /\ urgent \subseteq Events /\ dropped \subseteq Events
    BY DEF Init, Lives, DispatchPcs
  <2> QED
    BY <1>2, <2>1, <2>2, <2>3 DEF Types
<1>5. Registry
  <2>1. \A i \in DOMAIN subs : subs[i] \in Subs
    BY <1>2, ElementOfSeq, LenProperties
  <2> QED
    BY <1>2, <2>1 DEF Init, Registry
<1>6. Tokens
  BY <1>3 DEF Init, Tokens, TokenPerEvent
<1>7. DOMAIN <<>> = {}
  OBVIOUS
<1>8. Accounts
  <2>1. ToSet(<<>>) = {} /\ IsInjective(<<>>) /\ Cardinality({}) = 0
    BY <1>7, FS_EmptySet DEF ToSet, IsInjective
  <2>2. 1..0 = {}
    OBVIOUS
  <2> QED
    BY <1>3, <2>1, <2>2 DEF Init, Accounts, EventAccounted
<1>9. Ordered
  BY <1>7 DEF Init, Ordered
<1>10. Deliveries
  <2>1. ASSUME NEW s \in Async PROVE Got(s) = <<>>
    BY <2>1 DEF Init, Got
  <2>2. Follows(<<>>, <<>>)
    BY <1>7 DEF Follows
  <2> QED
    BY <2>1, <2>2 DEF Init, Deliveries, InHand
<1> QED
  BY <1>4, <1>5, <1>6, <1>8, <1>9, <1>10 DEF IInv

LEMMA Invariance == Spec => []IInv
<1>1. Init => IInv
  BY InitHolds
<1>2. IInv /\ [Next]_vars => IInv'
  <2> SUFFICES ASSUME IInv, [Next]_vars PROVE IInv'
    OBVIOUS
  <2>1. Types /\ Registry /\ Tokens /\ Accounts /\ Ordered /\ Deliveries /\ InHand
    BY DEF IInv, Deliveries
  <2>2. Types'
    BY <2>1, TypesStep
  <2>3. Registry' /\ Tokens'
    BY <2>1, RegistryStep, TokensStep
  <2>4. Accounts' /\ Ordered'
    BY <2>1, <2>2, AccountsStep, OrderedStep
  <2>5. Deliveries'
    BY <2>1, <2>2, DeliveriesStep
  <2> QED
    BY <2>2, <2>3, <2>4, <2>5 DEF IInv
<1> QED
  BY <1>1, <1>2, PTL DEF Spec

\* Every variable has its type: m_queue and the queues of the subscribers never
\* grow beyond their limits, and nobody is in m_subs twice.
THEOREM TypesHold == Spec => []TypeOK
<1>1. IInv => TypeOK
  BY DEF IInv, Types, Registry, TypeOK
<1> QED
  BY <1>1, Invariance, PTL

\* Whatever was posted is in m_queue, dropped by queueLengthRestrict() or taken
\* by process(), and is so once.
THEOREM EventsAccounted == Spec => []EventAccounted
<1>1. IInv => EventAccounted
  BY DEF IInv, Accounts
<1> QED
  BY <1>1, Invariance, PTL

\* eventReceive() finds a token for whatever is queued, though reset(), the
\* limit of m_sem and other receivers' tokens lie between.
THEOREM TokensSuffice == Spec => []TokenPerEvent
<1>1. IInv => TokenPerEvent
  BY DEF IInv, Tokens
<1> QED
  BY <1>1, Invariance, PTL

\* notify() is called of subscribers that are in m_subs and not destroyed:
\* m_csSubs keeps unsubscribe() out while the loop runs.
THEOREM SubscribersNotified == Spec => []NotifiedSubscribed
<1>1. IInv => NotifiedSubscribed
  <2> SUFFICES ASSUME IInv, dpc = "notify"
               PROVE  Head(left) \in ToSet(subs) /\ life[Head(left)] # "gone"
    BY DEF NotifiedSubscribed
  <2>1. left \in Seq(Subs) /\ left # <<>> /\ Registry /\ csSubs
    BY DEF IInv, Types, Registry
  <2>2. 1 \in DOMAIN left /\ Head(left) = left[1]
    BY <2>1, TailElements, LenProperties
  <2>3. Head(left) \in ToSet(subs)
    BY <2>1, <2>2 DEF Registry
  <2>4. PICK i \in DOMAIN subs : subs[i] = Head(left)
    BY <2>3 DEF ToSet
  <2> QED
    BY <2>1, <2>3, <2>4 DEF Registry
<1> QED
  BY <1>1, Invariance, PTL

\* A thread receives what process() took once, in that order, and what is not
\* urgent in the order of the posts, whatever was dropped on the way.
THEOREM OrderKept == Spec => []ReceivedInOrder
<1>1. IInv => ReceivedInOrder
  <2> SUFFICES ASSUME IInv, NEW s \in Async
               PROVE  LET got == received[s] \o inbox[s]
                          Turn(n) == CHOOSE i \in DOMAIN done : done[i] = n
                      IN  /\ ToSet(got) \subseteq ToSet(done)
                          /\ \A i, j \in DOMAIN got :
                                i < j => /\ Turn(got[i]) < Turn(got[j])
                                         /\ \/ got[i] < got[j]
                                            \/ {got[i], got[j]} \cap urgent # {}
    BY DEF ReceivedInOrder
  <2> DEFINE got == received[s] \o inbox[s]
             Turn(n) == CHOOSE i \in DOMAIN done : done[i] = n
  <2>1. Follows(got, done) /\ IsInjective(done) /\ Ordered
    BY DEF IInv, Deliveries, Got, Accounts
  <2> HIDE DEF got
  <2>2. ToSet(got) \subseteq ToSet(done)
    BY <2>1 DEF Follows, ToSet
  <2>3. ASSUME NEW p \in DOMAIN done PROVE Turn(done[p]) = p
    BY <2>1 DEF IsInjective
  <2> HIDE DEF Turn
  <2>4. ASSUME NEW i \in DOMAIN got, NEW j \in DOMAIN got, i < j
        PROVE  /\ Turn(got[i]) < Turn(got[j])
               /\ \/ got[i] < got[j]
                  \/ {got[i], got[j]} \cap urgent # {}
    <3>1. PICK p \in DOMAIN done, q \in DOMAIN done :
             p < q /\ got[i] = done[p] /\ got[j] = done[q]
      BY <2>1, <2>4 DEF Follows
    <3>2. Turn(got[i]) = p /\ Turn(got[j]) = q
      BY <2>3, <3>1
    <3>3. Before(urgent, got[i], got[j])
      BY <2>1, <3>1 DEF Ordered
    <3> QED
      BY <3>1, <3>2, <3>3 DEF Before
  <2> QED
    BY <2>2, <2>4 DEF got, Turn
<1> QED
  BY <1>1, Invariance, PTL
=============================================================================
