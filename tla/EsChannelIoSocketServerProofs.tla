-------------------- MODULE EsChannelIoSocketServerProofs --------------------
(* What holds of EsChannelIoSocketServer for any lengths and any bounds.    *)
EXTENDS EsChannelIoSocketServer, SequenceTheorems, TLAPS

Ordered(s) == \A i, j \in DOMAIN s : i < j => s[i] < s[j]

Below(A, B) == \A a \in A, b \in B : a < b

\* r was read and s is still in m_in: of m bytes that came all but the
\* dropped ones d, in order.
StreamOf(r, s, d, m) ==
    /\ r \in Seq(Nat) /\ s \in Seq(Nat)
    /\ Len(r) + Len(s) <= m
    /\ Ordered(r) /\ Ordered(s) /\ Below(Range(r), Range(s))
    /\ Range(r) \cup Range(s) \cup d = 1..m

Stream == came \in 0..MaxBytes /\ StreamOf(read, in, dropped, came)

\* The rest of TypeOK, and m_in of a closed channel.
Control ==
    /\ expectedLen \in {0, NoLength} \cup Lens
    /\ sin \in 0..1
    /\ session \in {"closed", "listening", "client", "left"}
    /\ hpc \in {"idle", "compare", "post"}
    /\ session # "client" => hpc = "idle"
    /\ inlen \in 0..MaxBytes
    /\ pc \in {"idle", "wait", "read", "close"}
    /\ len \in {0} \cup Lens
    /\ opens \in 0..MaxOpens
    /\ session = "closed" => in = <<>>

\* A waiting reader: the handler compares with the length it asked for, and
\* the token for that length is there or about to be posted; of a read that
\* found nothing left over, no other token is.
Waiting ==
    pc = "wait" =>
    /\ expectedLen = len
    /\ had < len /\ Len(in) = len =>
          sin = 1 \/ hpc = "post" \/ (hpc = "compare" /\ inlen = len)
    /\ clean /\ (sin = 1 \/ hpc = "post") => Len(in) >= len
    /\ clean /\ hpc = "compare" => inlen <= Len(in)

\* The inductive invariant.
IInv == Stream /\ Control /\ had \in Nat /\ Waiting /\ FreshReadIsWhole

-----------------------------------------------------------------------------
\* What is left are bytes that came.
LEMMA StreamType ==
    ASSUME NEW r, NEW s, NEW d, NEW m \in Nat, StreamOf(r, s, d, m)
    PROVE  s \in Seq(1..m)
<1>1. s \in Seq(Nat) /\ Len(s) \in Nat
  BY DEF StreamOf
<1>2. ASSUME NEW i \in 1..Len(s) PROVE s[i] \in 1..m
  <2>1. s[i] \in Range(s)
    BY <1>1 DEF Range
  <2> QED
    BY <2>1 DEF StreamOf
<1> QED
  BY <1>1, <1>2

\* A concatenation is ordered if its parts are, one below the other.
LEMMA ConcatOrdered ==
    ASSUME NEW r \in Seq(Nat), NEW s \in Seq(Nat)
    PROVE  Ordered(r \o s) <=>
              Ordered(r) /\ Ordered(s) /\ Below(Range(r), Range(s))
<1> DEFINE all == r \o s
<1>1. /\ DOMAIN r = 1..Len(r) /\ Len(r) \in Nat
      /\ DOMAIN s = 1..Len(s) /\ Len(s) \in Nat
  OBVIOUS
<1>2. /\ DOMAIN all = 1..(Len(r) + Len(s))
      /\ \A i \in 1..(Len(r) + Len(s)) :
            all[i] = IF i <= Len(r) THEN r[i] ELSE s[i - Len(r)]
  <2>1. all \in Seq(Nat) /\ Len(all) = Len(r) + Len(s)
    BY ConcatProperties
  <2> QED
    BY <1>1, <2>1, ConcatProperties
<1> HIDE DEF all
<1>3. /\ \A i \in 1..Len(r) : i \in DOMAIN all /\ all[i] = r[i]
      /\ \A i \in 1..Len(s) : Len(r) + i \in DOMAIN all /\ all[Len(r) + i] = s[i]
  <2>1. ASSUME NEW i \in 1..Len(r) PROVE i \in DOMAIN all /\ all[i] = r[i]
    <3>1. i \in 1..(Len(r) + Len(s)) /\ i <= Len(r)
      BY <1>1
    <3> QED
      BY <1>2, <3>1
  <2>2. ASSUME NEW i \in 1..Len(s)
        PROVE  Len(r) + i \in DOMAIN all /\ all[Len(r) + i] = s[i]
    <3>1. /\ Len(r) + i \in 1..(Len(r) + Len(s))
          /\ ~(Len(r) + i <= Len(r)) /\ Len(r) + i - Len(r) = i
      BY <1>1
    <3> QED
      BY <1>2, <3>1
  <2> QED
    BY <2>1, <2>2
<1>4. ASSUME Ordered(all), NEW i \in DOMAIN r, NEW j \in DOMAIN r, i < j
      PROVE  r[i] < r[j]
  BY <1>1, <1>3, <1>4 DEF Ordered
<1>5. ASSUME Ordered(all), NEW i \in DOMAIN s, NEW j \in DOMAIN s, i < j
      PROVE  s[i] < s[j]
  <2>1. Len(r) + i < Len(r) + j
    BY <1>1, <1>5
  <2>2. /\ Len(r) + i \in DOMAIN all /\ Len(r) + j \in DOMAIN all
        /\ all[Len(r) + i] = s[i] /\ all[Len(r) + j] = s[j]
    BY <1>1, <1>3
  <2> QED
    BY <1>5, <2>1, <2>2 DEF Ordered
<1>6. ASSUME Ordered(all), NEW i \in DOMAIN r, NEW j \in DOMAIN s
      PROVE  r[i] < s[j]
  <2>1. i < Len(r) + j
    BY <1>1
  <2>2. /\ i \in DOMAIN all /\ Len(r) + j \in DOMAIN all
        /\ all[i] = r[i] /\ all[Len(r) + j] = s[j]
    BY <1>1, <1>3
  <2> QED
    BY <1>6, <2>1, <2>2 DEF Ordered
<1>7. Ordered(all) => Ordered(r) /\ Ordered(s) /\ Below(Range(r), Range(s))
  BY <1>4, <1>5, <1>6 DEF Ordered, Below, Range
<1>8. ASSUME Ordered(r), Ordered(s), Below(Range(r), Range(s)),
             NEW i \in DOMAIN all, NEW j \in DOMAIN all, i < j
      PROVE  all[i] < all[j]
  <2>1. i \in 1..(Len(r) + Len(s)) /\ j \in 1..(Len(r) + Len(s))
    BY <1>2
  <2>2. CASE j <= Len(r)
    <3>1. i \in DOMAIN r /\ j \in DOMAIN r /\ all[i] = r[i] /\ all[j] = r[j]
      BY <1>1, <1>2, <1>8, <2>1, <2>2
    <3> QED
      BY <1>8, <3>1 DEF Ordered
  <2>3. CASE j > Len(r)
    <3>1. j - Len(r) \in DOMAIN s /\ all[j] = s[j - Len(r)]
      BY <1>1, <1>2, <2>1, <2>3
    <3>2. CASE i <= Len(r)
      <4>1. i \in DOMAIN r /\ all[i] = r[i]
        BY <1>1, <1>2, <2>1, <3>2
      <4>2. r[i] \in Range(r) /\ s[j - Len(r)] \in Range(s)
        BY <3>1, <4>1 DEF Range
      <4> QED
        BY <1>8, <3>1, <4>1, <4>2 DEF Below
    <3>3. CASE i > Len(r)
      <4>1. i - Len(r) \in DOMAIN s /\ all[i] = s[i - Len(r)]
        BY <1>1, <1>2, <2>1, <3>3
      <4>2. i - Len(r) < j - Len(r)
        BY <1>1, <1>8, <2>1
      <4> QED
        BY <1>8, <3>1, <4>1, <4>2 DEF Ordered
    <3> QED
      BY <1>1, <2>1, <3>2, <3>3
  <2> QED
    BY <1>1, <2>1, <2>2, <2>3
<1>9. Ordered(r) /\ Ordered(s) /\ Below(Range(r), Range(s)) => Ordered(all)
  BY <1>8 DEF Ordered
<1> QED
  BY <1>7, <1>9 DEF all

\* The bytes onClientDataReceived() appends.
Chunk(m, n) == [i \in 1..n |-> m + i]

LEMMA ChunkProperties ==
    ASSUME NEW m \in Nat, NEW n \in Nat
    PROVE  /\ Chunk(m, n) \in Seq(Nat) /\ Len(Chunk(m, n)) = n
           /\ Ordered(Chunk(m, n)) /\ Range(Chunk(m, n)) = (m + 1)..(m + n)
<1>1. /\ Chunk(m, n) \in Seq(Nat) /\ Len(Chunk(m, n)) = n
      /\ DOMAIN Chunk(m, n) = 1..n
      /\ \A i \in 1..n : Chunk(m, n)[i] = m + i
  BY DEF Chunk
<1>2. ASSUME NEW b \in (m + 1)..(m + n) PROVE b \in Range(Chunk(m, n))
  <2>1. b - m \in 1..n /\ Chunk(m, n)[b - m] = b
    BY <1>1
  <2> QED
    BY <1>1, <2>1 DEF Range
<1>3. ASSUME NEW b \in Range(Chunk(m, n)) PROVE b \in (m + 1)..(m + n)
  BY <1>1, <1>3 DEF Range
<1>4. Ordered(Chunk(m, n))
  BY <1>1 DEF Ordered
<1> QED
  BY <1>1, <1>2, <1>3, <1>4

\* Appending to m_in appends to the stream.
LEMMA Received ==
    ASSUME NEW r, NEW s, NEW d, NEW m \in Nat, StreamOf(r, s, d, m),
           NEW n \in Nat
    PROVE  /\ StreamOf(r, s \o Chunk(m, n), d, m + n)
           /\ Len(s \o Chunk(m, n)) = Len(s) + n
<1>1. PICK c \in Seq(Nat) :
         /\ c = Chunk(m, n) /\ Len(c) = n
         /\ Ordered(c) /\ Range(c) = (m + 1)..(m + n)
  BY ChunkProperties
<1>2. r \in Seq(Nat) /\ s \in Seq(Nat) /\ Len(r) \in Nat /\ Len(s) \in Nat
  BY DEF StreamOf
<1>3. s \o c \in Seq(Nat) /\ Len(s \o c) = Len(s) + Len(c)
  BY <1>2, ConcatProperties
<1>4. Range(s \o c) = Range(s) \cup Range(c)
  BY <1>2, RangeConcatenation
<1>5. /\ Ordered(r) /\ Ordered(s) /\ Below(Range(r), Range(s))
      /\ Range(r) \cup Range(s) \cup d = 1..m
  BY DEF StreamOf
<1>6. Below(Range(r), Range(c)) /\ Below(Range(s), Range(c))
  BY <1>1, <1>5 DEF Below
<1>7. Ordered(s \o c)
  BY <1>1, <1>2, <1>5, <1>6, ConcatOrdered
<1>8. Below(Range(r), Range(s \o c))
  BY <1>4, <1>5, <1>6 DEF Below
<1>9. Range(r) \cup Range(s \o c) \cup d = 1..(m + n)
  <2>1. 1..(m + n) = 1..m \cup (m + 1)..(m + n)
    OBVIOUS
  <2> QED
    BY <1>1, <1>4, <1>5, <2>1
<1>10. Len(r) + Len(s \o c) <= m + n
  BY <1>1, <1>2, <1>3 DEF StreamOf
<1>11. StreamOf(r, s \o c, d, m + n)
  BY <1>2, <1>3, <1>5, <1>7, <1>8, <1>9, <1>10 DEF StreamOf
<1> QED
  BY <1>1, <1>3, <1>11

\* Clearing m_in drops the end of the stream.
LEMMA Cleared ==
    ASSUME NEW r, NEW s, NEW d, NEW m \in Nat, StreamOf(r, s, d, m)
    PROVE  StreamOf(r, <<>>, d \cup Range(s), m)
<1>1. /\ <<>> \in Seq(Nat) /\ Len(<<>>) = 0 /\ DOMAIN <<>> = {}
      /\ Range(<<>>) = {}
  BY DEF Range
<1>2. Ordered(<<>>) /\ Below(Range(r), {})
  BY <1>1 DEF Ordered, Below
<1>3. Len(r) + 0 <= m
  BY DEF StreamOf
<1> QED
  BY <1>1, <1>2, <1>3 DEF StreamOf

\* bytesGet() moves the border within the stream.
LEMMA Taken ==
    ASSUME NEW r, NEW s, NEW d, NEW m \in Nat, StreamOf(r, s, d, m),
           NEW n \in 0..Len(s)
    PROVE  StreamOf(r \o SubSeq(s, 1, n), SubSeq(s, n + 1, Len(s)), d, m)
<1>1. r \in Seq(Nat) /\ s \in Seq(Nat) /\ Len(r) \in Nat /\ Len(s) \in Nat
  BY DEF StreamOf
<1>x. PICK x : x = SubSeq(s, 1, n)
  OBVIOUS
<1>y. PICK y : y = SubSeq(s, n + 1, Len(s))
  OBVIOUS
<1>2. /\ x \in Seq(Nat) /\ y \in Seq(Nat)
      /\ Len(x) = n /\ Len(y) = Len(s) - n /\ x \o y = s
  <2>0. n \in Nat /\ n <= Len(s) /\ \A i \in 1..Len(s) : s[i] \in Nat
    BY <1>1
  <2>1. x \in Seq(Nat) /\ Len(x) = IF 1 <= n THEN n - 1 + 1 ELSE 0
    <3>1. \A i \in 1..n : s[i] \in Nat
      BY <1>1, <2>0
    <3> QED
      BY <1>x, <2>0, <3>1, SubSeqProperties
  <2>2. /\ y \in Seq(Nat)
        /\ Len(y) = IF n + 1 <= Len(s) THEN Len(s) - (n + 1) + 1 ELSE 0
    <3>1. \A i \in (n + 1)..Len(s) : s[i] \in Nat
      BY <1>1, <2>0
    <3> QED
      BY <1>1, <1>y, <2>0, <3>1, SubSeqProperties
  <2>3. x \o y = s
    <3>1. 1 \in 1..Len(s) + 1 /\ n \in (1 - 1)..Len(s) /\ Len(s) \in n..Len(s)
      BY <1>1, <2>0
    <3>2. x \o y = SubSeq(s, 1, Len(s))
      BY <1>1, <1>x, <1>y, <3>1, ConcatAdjacentSubSeq
    <3>3. SubSeq(s, 1, Len(s)) = s
      BY <1>1
    <3> QED
      BY <3>2, <3>3
  <2>4. Len(x) = n /\ Len(y) = Len(s) - n
    BY <1>1, <2>0, <2>1, <2>2
  <2> QED
    BY <2>1, <2>2, <2>3, <2>4
<1>3. /\ Ordered(r) /\ Ordered(s) /\ Below(Range(r), Range(s))
      /\ Range(r) \cup Range(s) \cup d = 1..m
  BY DEF StreamOf
<1>4. Range(s) = Range(x) \cup Range(y)
  <2>1. Range(x \o y) = Range(x) \cup Range(y)
    BY <1>2, RangeConcatenation
  <2> QED
    BY <1>2, <2>1
<1>5. Ordered(x) /\ Ordered(y) /\ Below(Range(x), Range(y))
  <2>1. Ordered(x \o y)
    BY <1>2, <1>3
  <2> QED
    BY <1>2, <2>1, ConcatOrdered
<1>6. r \o x \in Seq(Nat) /\ Len(r \o x) = Len(r) + Len(x)
  BY <1>1, <1>2, ConcatProperties
<1>7. Range(r \o x) = Range(r) \cup Range(x)
  BY <1>1, <1>2, RangeConcatenation
<1>8. Below(Range(r), Range(x)) /\ Below(Range(r), Range(y))
  BY <1>3, <1>4 DEF Below
<1>9. Ordered(r \o x)
  BY <1>1, <1>2, <1>3, <1>5, <1>8, ConcatOrdered
<1>10. Below(Range(r \o x), Range(y))
  BY <1>5, <1>7, <1>8 DEF Below
<1>11. Range(r \o x) \cup Range(y) \cup d = 1..m
  BY <1>3, <1>4, <1>7
<1>12. Len(r \o x) + Len(y) <= m
  <2>1. Len(r) + Len(s) <= m
    BY DEF StreamOf
  <2> QED
    BY <1>1, <1>2, <1>6, <2>1
<1>13. StreamOf(r \o x, y, d, m)
  BY <1>2, <1>5, <1>6, <1>9, <1>10, <1>11, <1>12 DEF StreamOf
<1> QED
  BY <1>x, <1>y, <1>13

-----------------------------------------------------------------------------
\* Every step of the caller and of the server's threads keeps the invariant.
LEMMA Invariance == Spec => []IInv
<1> USE ChannelAssumption
<1>1. Init => IInv
  <2>1. \A S : <<>> \in Seq(S) /\ Len(<<>>) = 0
    OBVIOUS
  <2>2. Ordered(<<>>) /\ Range(<<>>) = {} /\ Below({}, {})
    BY DEF Range, Ordered, Below
  <2>3. Init => Stream
    <3>1. SUFFICES ASSUME Init PROVE Stream
      OBVIOUS
    <3>2. in = <<>> /\ read = <<>> /\ dropped = {} /\ came = 0
      BY <3>1 DEF Init
    <3>3. 1..0 = {} /\ 0 \in 0..MaxBytes
      OBVIOUS
    <3>4. StreamOf(<<>>, <<>>, {}, 0)
      <4>1. <<>> \in Seq(Nat) /\ Len(<<>>) + Len(<<>>) <= 0
        BY <2>1
      <4>2. Range(<<>>) \cup Range(<<>>) \cup {} = 1..0
        BY <2>2, <3>3
      <4>3. Ordered(<<>>) /\ Below(Range(<<>>), Range(<<>>))
        BY <2>2
      <4> QED
        BY <4>1, <4>2, <4>3 DEF StreamOf
    <3> QED
      BY <3>2, <3>3, <3>4 DEF Stream
  <2> QED
    BY <2>3 DEF Init, IInv, Control, Waiting, FreshReadIsWhole
<1>2. ASSUME IInv, [Next]_vars PROVE IInv'
  <2> USE DEF IInv
  <2>t. /\ Len(in) \in Nat /\ came \in Nat /\ Len(in) <= came
        /\ Len(in) \in 0..MaxBytes /\ len \in Nat /\ had \in Nat
    BY <1>2 DEF Stream, StreamOf, Control
  <2>s. ASSUME UNCHANGED <<in, came, read, dropped>> PROVE Stream'
    BY <1>2, <2>s DEF Stream
  <2>0. CASE UNCHANGED vars
    BY <1>2, <2>0, <2>s DEF vars, handler, caller, history, Control, Waiting,
       FreshReadIsWhole
  <2>1. CASE ClientAccepted \/ ClientLeft
    BY <1>2, <2>1, <2>s DEF ClientAccepted, ClientLeft, handler, caller,
       history, Control, Waiting, FreshReadIsWhole
  <2>2. CASE DataReceived
    <3>1. PICK n \in 1..(MaxBytes - came) :
             in' = in \o Chunk(came, n) /\ came' = came + n
      BY <2>2 DEF DataReceived, Chunk
    <3>2. Stream' /\ Len(in') = Len(in) + n /\ n \in Nat \ {0}
      <4>1. Stream /\ read' = read /\ dropped' = dropped
        BY <1>2, <2>2 DEF DataReceived
      <4>2. Stream' /\ Len(in') = Len(in) + n
        <5>1. n \in Nat /\ came + n \in 0..MaxBytes
          BY <2>t
        <5>2. /\ StreamOf(read, in \o Chunk(came, n), dropped, came + n)
              /\ Len(in \o Chunk(came, n)) = Len(in) + n
          BY <2>t, <4>1, <5>1, Received DEF Stream
        <5> QED
          BY <3>1, <4>1, <5>1, <5>2 DEF Stream
      <4> QED
        BY <2>t, <4>2
    <3>3. /\ session = "client" /\ hpc' = "compare" /\ inlen' = Len(in')
          /\ UNCHANGED <<expectedLen, sin, session, pc, len, had, clean, opens>>
      BY <2>2 DEF DataReceived, caller
    <3>4. Len(in') \in 0..MaxBytes
      BY <3>2, <2>t DEF Stream, StreamOf
    <3>5. Control'
      BY <1>2, <3>3, <3>4 DEF Control
    <3>6. Waiting' /\ FreshReadIsWhole'
      BY <1>2, <2>t, <3>2, <3>3 DEF Waiting, FreshReadIsWhole, Control
    <3> QED
      BY <1>2, <3>2, <3>3, <3>5, <3>6
  <2>3. CASE Compare
    <3>1. Stream' /\ Control' /\ had' \in Nat
      BY <1>2, <2>3, <2>s DEF Compare, caller, history, Control
    <3>2. Waiting' /\ FreshReadIsWhole'
      BY <1>2, <2>3, <2>t DEF Compare, caller, history, Waiting,
         FreshReadIsWhole, Control
    <3> QED
      BY <3>1, <3>2
  <2>4. CASE Post
    <3>1. Stream' /\ Control' /\ had' \in Nat
      BY <1>2, <2>4, <2>s DEF Post, caller, history, Control
    <3>2. Waiting' /\ FreshReadIsWhole'
      BY <1>2, <2>4, <2>t DEF Post, caller, history, Waiting, FreshReadIsWhole
    <3> QED
      BY <3>1, <3>2
  <2>5. CASE Open
    BY <1>2, <2>5, <2>s DEF Open, handler, caller, history, Control, Waiting,
       FreshReadIsWhole
  <2>6. CASE Close \/ BytesPut
    BY <1>2, <2>6, <2>s DEF Close, BytesPut, Call, handler, caller, history,
       Control, Waiting, FreshReadIsWhole
  <2>7. CASE CloseReturn \/ Reset
    <3>1. Stream'
      BY <1>2, <2>t, <2>7, Cleared DEF CloseReturn, Reset, Stream
    <3>2. Control' /\ had' \in Nat /\ Waiting' /\ FreshReadIsWhole'
      BY <1>2, <2>7 DEF CloseReturn, Reset, handler, caller, Control, Waiting,
         FreshReadIsWhole
    <3> QED
      BY <3>1, <3>2
  <2>8. ASSUME NEW n \in Lens, BytesGet(n) PROVE IInv'
    <3>1. Stream' /\ Control' /\ had' \in Nat
      BY <1>2, <2>8, <2>s, <2>t DEF BytesGet, Call, handler, history, Control
    <3>2. Waiting' /\ FreshReadIsWhole'
      BY <1>2, <2>8, <2>t DEF BytesGet, Call, handler, history, Waiting,
         FreshReadIsWhole, Control
    <3> QED
      BY <3>1, <3>2
  <2>9. CASE WaitOk \/ WaitTimeout
    BY <1>2, <2>9, <2>s DEF WaitOk, WaitTimeout, handler, history, Control,
       Waiting, FreshReadIsWhole
  <2>10. CASE ReadBytes
    <3> DEFINE n == IF Len(in) < len THEN Len(in) ELSE len
    <3>1. n \in 0..Len(in)
      BY <2>t
    <3>2. /\ read' = read \o SubSeq(in, 1, n)
          /\ in' = SubSeq(in, n + 1, Len(in))
          /\ pc' = "idle" /\ came' = came
          /\ UNCHANGED <<expectedLen, sin, session, hpc, inlen, len, had, clean,
                         opens, dropped>>
      BY <2>10 DEF ReadBytes, handler
    <3> HIDE DEF n
    <3>3. Stream'
      BY <1>2, <2>t, <3>1, <3>2, Taken DEF Stream
    <3>4. session = "closed" => in' = <<>>
      <4>1. SUFFICES ASSUME in = <<>> PROVE in' = <<>>
        BY <1>2 DEF Control
      <4>2. Len(in) = 0 /\ n + 1 \in Int /\ Len(in) < n + 1
        BY <3>1, <4>1
      <4> QED
        BY <2>t, <3>2, <4>2, SubSeqEmpty
    <3> QED
      BY <1>2, <3>2, <3>3, <3>4 DEF Control, Waiting, FreshReadIsWhole
  <2> QED
    BY <1>2, <2>0, <2>1, <2>2, <2>3, <2>4, <2>5, <2>6, <2>7, <2>8, <2>9,
       <2>10 DEF Next
<1> QED
  BY <1>1, <1>2, PTL DEF Spec

\* Every variable keeps its type, and the handler is in a callback only while
\* there is a client.
THEOREM TypeCorrect == Spec => []TypeOK
<1>1. IInv => TypeOK
  BY StreamType DEF IInv, Stream, Control, TypeOK
<1> QED
  BY <1>1, Invariance, PTL

\* Each byte that came is read at most once, in order, and is lost to close()
\* or reset() only, although bytesGet() takes prefixes of a buffer the handler
\* appends to; none stays for the next client.
THEOREM BytesReadOnce == Spec => []ReadOnce
<1>1. IInv => ReadOnce
  <2>1. SUFFICES ASSUME IInv PROVE ReadOnce
    OBVIOUS
  <2>2. /\ read \in Seq(Nat) /\ in \in Seq(Nat)
        /\ Ordered(read) /\ Ordered(in) /\ Below(Range(read), Range(in))
        /\ Range(read) \cup Range(in) \cup dropped = 1..came
    BY <2>1 DEF IInv, Stream, StreamOf
  <2>3. Ordered(read \o in) /\ Range(read \o in) \cup dropped = 1..came
    BY <2>2, ConcatOrdered, RangeConcatenation
  <2> QED
    BY <2>1, <2>3 DEF IInv, Control, Ordered, ReadOnce
<1> QED
  BY <1>1, Invariance, PTL

\* bytesGet() is not left waiting for a length that has come exactly, although
\* onClientDataReceived() compares the length after it left m_csin.
THEOREM NoLostWakeup == Spec => []WakesAtLength
<1>1. IInv => WakesAtLength
  BY DEF IInv, Control, Waiting, WakesAtLength
<1> QED
  BY <1>1, Invariance, PTL

\* A read that began with no token and no outdated length about returns all it
\* asked for once it is woken.
THEOREM FreshReads == Spec => []FreshReadIsWhole
<1>1. IInv => FreshReadIsWhole
  BY DEF IInv
<1> QED
  BY <1>1, Invariance, PTL
=============================================================================
