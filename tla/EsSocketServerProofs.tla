----------------------- MODULE EsSocketServerProofs -----------------------
(* What holds of EsSocketServer for any clients, limits and numbers of     *)
(* units queued.                                                           *)
EXTENDS EsSocketServer, FiniteSetTheorems, SequenceTheorems, TLAPS

Handlers == [place : Places, ttl : 0..Ttl, alive : BOOLEAN,
             disconnected : BOOLEAN, connected : BOOLEAN, broken : BOOLEAN,
             stop : BOOLEAN, aux : 0..1, in : BOOLEAN, handled : BOOLEAN,
             out : Seq(Units), copy : Seq(Units), wcnt : 0..MaxSends]

\* A handler is alive until m_alive is reset, and did not age beyond its time
\* to live while it is in a turn of its loop.
Aged(h) ==
    /\ h.alive <=> h.place \notin {"final", "ended"}
    /\ h.place \in {"handle", "clear", "aux", "send", "erase", "idle"} => h.ttl > 0

\* Of the q units queued the socket took the first; the others are in m_out,
\* where those of the last send, h.wcnt, are still to be erased.  What is sent
\* is the head of m_out.
Flow(h, s, q) ==
    /\ \A i \in 1..Len(s) : s[i] = i
    /\ \A i \in 1..Len(h.out) : h.out[i] = Len(s) - h.wcnt + i
    /\ Len(s) + Len(h.out) - h.wcnt <= q
    /\ h.wcnt <= Len(h.out) /\ h.wcnt <= Len(s)
    /\ h.place # "erase" => h.wcnt = 0
    /\ Len(h.copy) <= MaxSends
    /\ h.place = "send" => /\ Len(h.copy) <= Len(h.out)
                           /\ \A i \in 1..Len(h.copy) : h.copy[i] = h.out[i]

Sound(h, s, q) ==
    /\ h \in Handlers /\ s \in Seq(Units) /\ q \in 0..MaxSends
    /\ Aged(h) /\ Flow(h, s, q)

\* The handler objects.
Objects ==
    /\ handler \in [Clients -> Handlers]
    /\ sent \in [Clients -> Seq(Units)]
    /\ queued \in [Clients -> 0..MaxSends]
    /\ \A a \in Clients : Sound(handler[a], sent[a], queued[a])
    /\ \A a \in Clients \ clients : handler[a] = Absent
    /\ \A a \in clients :
          Len(sent[a]) + Len(handler[a].out) - handler[a].wcnt = queued[a]

\* The listener's variables.
Server ==
    /\ connOriented \in BOOLEAN
    /\ clients \subseteq Clients /\ Cardinality(clients) <= MaxConn
    /\ lpc \in ListenerPcs
    /\ cur \subseteq clients
    /\ todo \subseteq Clients
    /\ lstop \in BOOLEAN
    /\ app \in {"idle", "closing"}
    /\ opens \in 0..MaxOpens
    /\ arrived \subseteq Clients

\* The listener deals with one client at a time, which is not started before.
Current ==
    /\ \A a, b \in cur : a = b
    /\ cur # {} => lpc \in {"start", "deliver", "post", "join"}
    /\ \A a \in Clients : handler[a].place = "created" <=> lpc = "start" /\ a \in cur

\* The clients that onExitWorker() is done with are not alive.
Stopped ==
    /\ lpc \in {"exit", "join"} =>
          \A a \in clients : handler[a].alive => a \in todo \/ a \in cur
    /\ lpc = "none" => \A a \in clients : ~handler[a].alive

\* A datagram handler with work has a token, or gets one.
Woken ==
    /\ \A a \in Clients : handler[a].connected => connOriented
    /\ ~connOriented => \A a \in clients :
          handler[a].in \/ handler[a].out # <<>>
          => handler[a].aux = 1 \/ (lpc = "post" /\ a \in cur)

\* The inductive invariant.
IInv == Server /\ Objects /\ Current /\ Stopped /\ Woken

-----------------------------------------------------------------------------
(* A handler's steps                                                       *)

LEMMA FreshFields ==
    ASSUME connOriented \in BOOLEAN
    PROVE  /\ Fresh \in Handlers /\ Fresh.place = "created" /\ Fresh.alive
           /\ Fresh.connected = connOriented /\ ~Fresh.in
           /\ Fresh.out = <<>> /\ Fresh.copy = <<>> /\ Fresh.wcnt = 0
  BY ServerAssumption DEF Fresh, Handlers, Places

LEMMA AbsentFields ==
    ASSUME connOriented \in BOOLEAN
    PROVE  /\ Absent \in Handlers /\ Absent.place = "ended" /\ ~Absent.alive
           /\ ~Absent.connected /\ ~Absent.in
           /\ Absent.out = <<>> /\ Absent.copy = <<>> /\ Absent.wcnt = 0
<1>1. "ended" \in Places
  BY DEF Places
<1> QED
  BY <1>1, FreshFields DEF Absent, Handlers

\* The units behind those that are erased from the head of m_out.
LEMMA Shifted ==
    ASSUME NEW x \in Nat, NEW y \in Nat, NEW w \in Nat, w <= y, NEW i \in 1..(y - w)
    PROVE  /\ i \in 1..(y - w) /\ w + i \in 1..y
           /\ x - w + (w + i) = x - 0 + i
  OBVIOUS

\* What no step of a handler does: start, or start anew, be connected again,
\* get input or output, or a token.
Goes(h, g) ==
    /\ h.place \notin {"created", "ended"} /\ g.place # "created"
    /\ g.alive => h.alive
    /\ g.connected => h.connected
    /\ g.in => h.in
    /\ g.aux = h.aux
    /\ g.out # <<>> => h.out # <<>>

\* A step that leaves m_out alone, but for scheduling it.
LEMMA FlowKept ==
    ASSUME NEW h \in Handlers, NEW g \in Handlers, NEW s, NEW q, Flow(h, s, q),
           h.place # "erase", g.out = h.out, g.wcnt = 0, g.place # "send",
           g.copy = h.copy \/ g.copy = <<>>
    PROVE  Flow(g, s, q)
<1>1. h.wcnt = 0 /\ Len(<<>>) = 0 /\ MaxSends \in Nat
  BY ServerAssumption DEF Flow
<1> QED
  BY <1>1 DEF Flow

LEMMA HandlerGoes ==
    ASSUME IInv, NEW a \in Clients, NEW from, NEW to, Step(a, from, to),
           sent' \in [Clients -> Seq(Units)],
           \A b \in Clients \ {a} : sent'[b] = sent[b],
           Sound(to, sent'[a], queued[a]), Goes(handler[a], to),
           Len(sent'[a]) + Len(to.out) - to.wcnt
           = Len(sent[a]) + Len(handler[a].out) - handler[a].wcnt
    PROVE  IInv'
<1>1. /\ handler' = [handler EXCEPT ![a] = to]
      /\ UNCHANGED <<net, clients, listener, control, queued>>
      /\ to \in Handlers
  BY DEF Step, Sound
<1>2. /\ handler' \in [Clients -> Handlers] /\ handler'[a] = to
      /\ \A b \in Clients \ {a} : handler'[b] = handler[b]
  BY <1>1 DEF IInv, Objects
<1>3. a \in clients
  BY AbsentFields DEF IInv, Server, Objects, Goes
<1>4. Server'
  BY <1>1 DEF IInv, Server, net, listener, control
<1>5. Objects'
  <2>1. \A b \in Clients : Sound(handler'[b], sent'[b], queued'[b])
    BY <1>1, <1>2 DEF IInv, Objects
  <2>2. \A b \in Clients \ clients' : handler'[b] = Absent'
    BY <1>1, <1>2, <1>3 DEF IInv, Objects, Absent, Fresh, net
  <2>3. \A b \in clients' :
          Len(sent'[b]) + Len(handler'[b].out) - handler'[b].wcnt = queued'[b]
    BY <1>1, <1>2, <1>3 DEF IInv, Objects, Server
  <2> QED
    BY <1>1, <1>2, <2>1, <2>2, <2>3 DEF IInv, Objects
<1>6. Current'
  BY <1>1, <1>2 DEF IInv, Current, Goes, listener
<1>7. Stopped'
  BY <1>1, <1>2 DEF IInv, Stopped, Server, Goes, listener
<1>8. Woken'
  BY <1>1, <1>2 DEF IInv, Woken, Server, Goes, listener, net
<1> QED
  BY <1>4, <1>5, <1>6, <1>7, <1>8 DEF IInv

\* A step that leaves m_out and the socket alone.
LEMMA HandlerQuiet ==
    ASSUME IInv, NEW a \in Clients, NEW from, NEW to, Step(a, from, to),
           UNCHANGED sent, to \in Handlers, Aged(to), Goes(handler[a], to),
           from # "erase", to.out = handler[a].out, to.wcnt = 0, to.place # "send",
           to.copy = handler[a].copy \/ to.copy = <<>>
    PROVE  IInv'
<1>1. /\ handler[a] \in Handlers /\ handler[a].place # "erase"
      /\ Sound(handler[a], sent[a], queued[a])
  BY DEF IInv, Objects, Step
<1>2. Sound(to, sent[a], queued[a])
  BY <1>1, FlowKept DEF Sound
<1>3. handler[a].wcnt = 0
  BY <1>1 DEF Sound, Flow
<1>4. sent' \in [Clients -> Seq(Units)] /\ \A b \in Clients : sent'[b] = sent[b]
  BY DEF IInv, Objects
<1> QED
  BY <1>2, <1>3, <1>4, HandlerGoes

\* Closing m_io changes nothing else, but that the input of a stream is gone.
LEMMA IoClosedFields ==
    ASSUME NEW h \in Handlers, connOriented \in BOOLEAN
    PROVE  LET g == IoClosed(h) IN
           /\ g \in Handlers /\ g.place = h.place /\ g.ttl = h.ttl
           /\ g.alive = h.alive /\ g.aux = h.aux /\ g.out = h.out
           /\ g.copy = h.copy /\ g.wcnt = h.wcnt
           /\ g.handled = h.handled /\ g.stop = h.stop
           /\ ~g.connected /\ (g.in => h.in)
  BY DEF IoClosed, Handlers

\* disconnectionDetect() does that, or nothing.
LEMMA DetectedFields ==
    ASSUME NEW h \in Handlers, connOriented \in BOOLEAN, NEW g \in Detected(h)
    PROVE  /\ g \in Handlers /\ g.place = h.place /\ g.ttl = h.ttl
           /\ g.alive = h.alive /\ g.aux = h.aux /\ g.out = h.out
           /\ g.copy = h.copy /\ g.wcnt = h.wcnt
           /\ (g.connected => h.connected) /\ (g.in => h.in)
<1>1. g = h \/ g = IoClosed(h)
  BY DEF Detected
<1> QED
  BY <1>1, IoClosedFields

\* The place changes.
LEMMA AtFields ==
    ASSUME NEW a \in Clients, handler[a] \in Handlers, NEW p \in Places
    PROVE  LET g == At(a, p)
               h == handler[a]
           IN  /\ g \in Handlers /\ g.place = p /\ g.ttl = h.ttl
               /\ g.alive = h.alive /\ g.aux = h.aux /\ g.out = h.out
               /\ g.copy = h.copy /\ g.wcnt = h.wcnt /\ g.connected = h.connected
               /\ g.in = h.in /\ g.handled = h.handled /\ g.broken = h.broken
               /\ g.stop = h.stop
  BY DEF At, Handlers

LEMMA UnsentFields ==
    ASSUME NEW a \in Clients, handler[a] \in Handlers
    PROVE  LET g == Unsent(a)
               h == handler[a]
           IN  /\ g \in Handlers /\ g.place \in {"loop", "idle"} /\ g.ttl = h.ttl
               /\ g.alive = h.alive /\ g.aux = h.aux /\ g.out = h.out
               /\ g.copy = <<>> /\ g.wcnt = 0 /\ g.connected = h.connected
               /\ g.in = h.in
<1> DEFINE p == IF handler[a].handled THEN "loop" ELSE "idle"
           h == At(a, p)
<1>1. p \in {"loop", "idle"} /\ p \in Places
  BY DEF Places
<1>2. Unsent(a) = [h EXCEPT !.handled = FALSE, !.copy = <<>>, !.wcnt = 0]
  BY DEF Unsent
<1> HIDE DEF p
<1>3. /\ h \in Handlers /\ h.place = p /\ h.ttl = handler[a].ttl
      /\ h.alive = handler[a].alive /\ h.aux = handler[a].aux /\ h.out = handler[a].out
      /\ h.connected = handler[a].connected /\ h.in = handler[a].in
  BY <1>1, AtFields
<1> HIDE DEF h
<1>4. 0 \in 0..MaxSends /\ <<>> \in Seq(Units)
  BY ServerAssumption
<1> DEFINE g == [h EXCEPT !.handled = FALSE, !.copy = <<>>, !.wcnt = 0]
<1>5. g \in Handlers
  BY <1>3, <1>4 DEF Handlers
<1>6. /\ g.place = h.place /\ g.ttl = h.ttl /\ g.alive = h.alive /\ g.aux = h.aux
      /\ g.out = h.out /\ g.copy = <<>> /\ g.wcnt = 0
      /\ g.connected = h.connected /\ g.in = h.in
  BY <1>3 DEF Handlers
<1> HIDE DEF g
<1>7. Unsent(a) = g
  BY <1>2 DEF g
<1> QED
  BY <1>1, <1>3, <1>5, <1>6, <1>7

\* Data was handled: the time to live is renewed.
LEMMA RespondedFields ==
    ASSUME NEW h \in Handlers, connOriented \in BOOLEAN, NEW g \in Responded(h)
    PROVE  /\ g \in Handlers /\ g.place = h.place /\ g.ttl = Ttl
           /\ g.alive = h.alive /\ g.aux = h.aux /\ g.out = h.out
           /\ g.copy = h.copy /\ g.wcnt = h.wcnt
           /\ (g.connected => h.connected) /\ ~g.in
<1> DEFINE r == [h EXCEPT !.ttl = Ttl, !.handled = TRUE, !.in = FALSE]
<1>1. /\ r \in Handlers /\ r.place = h.place /\ r.ttl = Ttl
      /\ r.alive = h.alive /\ r.aux = h.aux /\ r.out = h.out
      /\ r.copy = h.copy /\ r.wcnt = h.wcnt /\ r.connected = h.connected /\ ~r.in
  <2>1. Ttl \in 0..Ttl
    BY ServerAssumption
  <2>2. r \in Handlers
    BY <2>1 DEF Handlers
  <2> QED
    BY <2>2 DEF Handlers
<1>2. g \in Detected(r)
  BY DEF Responded
<1> HIDE DEF r
<1> QED
  BY <1>1, <1>2, DetectedFields

LEMMA HandlerStep ==
    ASSUME IInv, NEW a \in Clients, Handler(a)
    PROVE  IInv'
<1> DEFINE h == handler[a]
<1>1. /\ h \in Handlers /\ connOriented \in BOOLEAN /\ Sound(h, sent[a], queued[a])
      /\ Ttl \in Nat \ {0} /\ MaxSends \in Nat
      /\ sent[a] \in Seq(Units) /\ queued[a] \in 0..MaxSends
      /\ sent \in [Clients -> Seq(Units)]
  BY ServerAssumption DEF IInv, Objects, Server
<1>2. /\ Aged(h) /\ Flow(h, sent[a], queued[a]) /\ h.out \in Seq(Units)
      /\ h.copy \in Seq(Units) /\ h.ttl \in 0..Ttl /\ h.wcnt \in 0..MaxSends
      /\ Len(h.out) \in Nat /\ Len(h.copy) \in Nat /\ Len(sent[a]) \in Nat
  BY <1>1 DEF Sound, Handlers
<1>3. h.place # "erase" => h.wcnt = 0
  BY <1>2 DEF Flow
<1>4. CASE Loop(a)
  <2> DEFINE goesOn == /\ h.ttl > 0 /\ ~h.disconnected /\ ~h.stop
                       /\ connOriented => h.connected
             p == IF goesOn THEN "handle" ELSE "exit"
             g == At(a, p)
  <2>1. Step(a, "loop", g) /\ UNCHANGED sent
    BY <1>4 DEF Loop
  <2>2. p \in {"handle", "exit"} /\ (p = "handle" => h.ttl > 0)
    OBVIOUS
  <2> HIDE DEF p
  <2>3. p \in Places
    BY <2>2 DEF Places
  <2>4. /\ g \in Handlers /\ g.place = p /\ g.ttl = h.ttl /\ g.alive = h.alive
        /\ g.aux = h.aux /\ g.out = h.out /\ g.copy = h.copy /\ g.wcnt = h.wcnt
        /\ g.connected = h.connected /\ g.in = h.in
    BY <1>1, <2>3, AtFields
  <2> HIDE DEF g
  <2>5. h.place = "loop"
    BY <2>1 DEF Step
  <2>6. Aged(g) /\ Goes(h, g)
    BY <1>2, <2>2, <2>4, <2>5 DEF Aged, Goes
  <2> HIDE DEF h
  <2> QED
    BY <1>3, <2>1, <2>2, <2>4, <2>5, <2>6, HandlerQuiet DEF h
<1>5. ASSUME NEW p \in {"handle", "clear"}, NEW g \in Responded(At(a, "aux")),
             Step(a, p, g), UNCHANGED sent
      PROVE  IInv'
  <2> DEFINE f == At(a, "aux")
  <2>1. /\ f \in Handlers /\ f.place = "aux" /\ f.alive = h.alive
        /\ f.aux = h.aux /\ f.out = h.out /\ f.copy = h.copy /\ f.wcnt = h.wcnt
        /\ f.connected = h.connected /\ f.in = h.in
    <3>1. "aux" \in Places
      BY DEF Places
    <3> QED
      BY <1>1, <3>1, AtFields
  <2>2. g \in Responded(f)
    BY <1>5
  <2> HIDE DEF f
  <2>3. /\ g \in Handlers /\ g.place = f.place /\ g.ttl = Ttl
        /\ g.alive = f.alive /\ g.aux = f.aux /\ g.out = f.out
        /\ g.copy = f.copy /\ g.wcnt = f.wcnt
        /\ (g.connected => f.connected) /\ ~g.in
    BY <1>1, <2>1, <2>2, RespondedFields
  <2>4. h.place = p
    BY <1>5 DEF Step
  <2>5. Aged(g) /\ Goes(h, g)
    BY <1>1, <1>2, <1>5, <2>1, <2>3, <2>4 DEF Aged, Goes
  <2>6. g.out = h.out /\ g.wcnt = 0 /\ g.copy = h.copy /\ g.place # "send" /\ p # "erase"
    BY <1>3, <1>5, <2>1, <2>3, <2>4
  <2> HIDE DEF h
  <2> QED
    BY <1>5, <2>3, <2>5, <2>6, HandlerQuiet DEF h
<1>6. ASSUME NEW from, NEW p \in {"aux", "clear", "ended"}, Step(a, from, At(a, p)),
             from \in {"handle", "final"}, p = "ended" <=> from = "final",
             UNCHANGED sent
      PROVE  IInv'
  <2> DEFINE g == At(a, p)
  <2>1. p \in Places
    BY DEF Places
  <2>2. /\ g \in Handlers /\ g.place = p /\ g.ttl = h.ttl /\ g.alive = h.alive
        /\ g.aux = h.aux /\ g.out = h.out /\ g.copy = h.copy /\ g.wcnt = h.wcnt
        /\ g.connected = h.connected /\ g.in = h.in
    BY <1>1, <2>1, AtFields
  <2>3. Step(a, from, g)
    BY <1>6
  <2> HIDE DEF g
  <2>4. h.place = from
    BY <1>6 DEF Step
  <2>5. Aged(g) /\ Goes(h, g)
    BY <1>2, <1>6, <2>2, <2>4 DEF Aged, Goes
  <2>6. from # "erase" /\ g.wcnt = 0 /\ g.place # "send"
    BY <1>3, <1>6, <2>2, <2>4
  <2> HIDE DEF h
  <2> QED
    BY <1>6, <2>2, <2>3, <2>5, <2>6, HandlerQuiet DEF h
<1>7. CASE Handle(a)
  BY <1>5, <1>6, <1>7 DEF Handle
<1>8. CASE Clear(a)
  BY <1>5, <1>8 DEF Clear
\* Nothing to send, or nothing was: the turn is over.
<1>9. ASSUME NEW from \in {"aux", "send"}, NEW g \in Detected(Unsent(a)),
             Step(a, from, g), UNCHANGED sent
      PROVE  IInv'
  <2> DEFINE f == Unsent(a)
  <2>1. /\ f \in Handlers /\ f.place \in {"loop", "idle"} /\ f.ttl = h.ttl
        /\ f.alive = h.alive /\ f.aux = h.aux /\ f.out = h.out
        /\ f.copy = <<>> /\ f.wcnt = 0 /\ f.connected = h.connected
        /\ f.in = h.in
    BY <1>1, UnsentFields
  <2>2. g \in Detected(f)
    BY <1>9
  <2> HIDE DEF f
  <2>3. /\ g \in Handlers /\ g.place = f.place /\ g.ttl = f.ttl
        /\ g.alive = f.alive /\ g.aux = f.aux /\ g.out = f.out
        /\ g.copy = f.copy /\ g.wcnt = f.wcnt
        /\ (g.connected => f.connected) /\ (g.in => f.in)
    BY <1>1, <2>1, <2>2, DetectedFields
  <2>4. h.place = from
    BY <1>9 DEF Step
  <2>5. Aged(g) /\ Goes(h, g)
    BY <1>2, <1>9, <2>1, <2>3, <2>4 DEF Aged, Goes
  <2>6. g.out = h.out /\ g.wcnt = 0 /\ g.copy = <<>> /\ g.place # "send" /\ from # "erase"
    BY <1>9, <2>1, <2>3
  <2> HIDE DEF h
  <2> QED
    BY <1>9, <2>3, <2>5, <2>6, HandlerQuiet DEF h
<1>10. CASE Aux(a)
  <2>1. CASE h.out = <<>>
    <3>1. Step(a, "aux", Unsent(a)) /\ UNCHANGED sent
      BY <1>10, <2>1 DEF Aux
    <3>2. Unsent(a) \in Detected(Unsent(a))
      BY DEF Detected
    <3> QED
      BY <1>9, <3>1, <3>2
  <2>2. CASE h.out # <<>>
    <3> DEFINE f == At(a, "send")
               g == [f EXCEPT !.copy = h.out]
    <3>1. Step(a, "aux", g) /\ UNCHANGED sent
      BY <1>10, <2>2 DEF Aux
    <3>2. /\ f \in Handlers /\ f.place = "send" /\ f.ttl = h.ttl /\ f.alive = h.alive
          /\ f.aux = h.aux /\ f.out = h.out /\ f.wcnt = h.wcnt
          /\ f.connected = h.connected /\ f.in = h.in
      <4>1. "send" \in Places
        BY DEF Places
      <4> QED
        BY <1>1, <4>1, AtFields
    <3> HIDE DEF f
    <3>3. /\ g \in Handlers /\ g.place = "send" /\ g.ttl = h.ttl /\ g.alive = h.alive
          /\ g.aux = h.aux /\ g.out = h.out /\ g.wcnt = h.wcnt
          /\ g.connected = h.connected /\ g.in = h.in /\ g.copy = h.out
      BY <1>2, <3>2 DEF Handlers
    <3> HIDE DEF g
    <3>4. h.place = "aux" /\ h.wcnt = 0
      BY <1>3, <3>1 DEF Step
    <3>5. Aged(g) /\ Goes(h, g)
      BY <1>2, <3>3, <3>4 DEF Aged, Goes
    <3>6. Flow(g, sent[a], queued[a])
      BY <1>1, <1>2, <3>3, <3>4 DEF Flow
    <3>7. Sound(g, sent[a], queued[a])
      BY <1>1, <3>3, <3>5, <3>6 DEF Sound
    <3>8. /\ Len(sent'[a]) + Len(g.out) - g.wcnt = Len(sent[a]) + Len(h.out) - h.wcnt
          /\ sent' \in [Clients -> Seq(Units)] /\ \A b \in Clients \ {a} : sent'[b] = sent[b]
          /\ Sound(g, sent'[a], queued[a])
      BY <1>1, <3>1, <3>3, <3>7
    <3> HIDE DEF h
    <3> QED
      BY <3>1, <3>5, <3>8, HandlerGoes DEF h
  <2> QED
    BY <2>1, <2>2
<1>11. CASE SendSome(a)
  <2> DEFINE f == At(a, "erase")
  <2>1. PICK n \in 1..Len(h.copy) :
           /\ \E t \in Taken(a, n) : Step(a, "send", t)
           /\ sent' = [sent EXCEPT ![a] = @ \o SubSeq(h.copy, 1, n)]
    BY <1>11 DEF SendSome
  <2> DEFINE e == [f EXCEPT !.ttl = Ttl, !.wcnt = n]
             c == SubSeq(h.copy, 1, n)
             r == sent[a] \o c
  <2> PICK g \in {e, IoClosed(e)} : Step(a, "send", g)
    BY <2>1 DEF Taken
  <2>2. h.place = "send" /\ Step(a, "send", g)
    BY <2>1 DEF Step
  <2>3. /\ Len(h.copy) <= Len(h.out) /\ \A i \in 1..Len(h.copy) : h.copy[i] = h.out[i]
        /\ h.wcnt = 0 /\ Len(sent[a]) + Len(h.out) <= queued[a]
        /\ \A i \in 1..Len(sent[a]) : sent[a][i] = i
        /\ \A i \in 1..Len(h.out) : h.out[i] = Len(sent[a]) + i
    <3>1. h.wcnt = 0
      BY <1>3, <2>2
    <3>2. Len(sent[a]) + Len(h.out) - h.wcnt <= queued[a]
      BY <1>2 DEF Flow
    <3>3. \A i \in 1..Len(h.out) : h.out[i] = Len(sent[a]) - h.wcnt + i
      BY <1>2 DEF Flow
    <3>4. \A i \in 1..Len(h.out) : Len(sent[a]) - 0 + i = Len(sent[a]) + i
      BY <1>2
    <3>5. /\ Len(h.copy) <= Len(h.out) /\ \A i \in 1..Len(h.copy) : h.copy[i] = h.out[i]
          /\ \A i \in 1..Len(sent[a]) : sent[a][i] = i
      BY <1>2, <2>2 DEF Flow
    <3>6. Len(sent[a]) + Len(h.out) <= queued[a]
      <4> DEFINE x == Len(sent[a])
                 y == Len(h.out)
                 z == queued[a]
      <4>1. x \in Nat /\ y \in Nat /\ z \in Nat /\ x + y - 0 <= z
        BY <1>1, <1>2, <3>1, <3>2
      <4> HIDE DEF x, y, z
      <4>2. x + y <= z
        BY <4>1
      <4> QED
        BY <4>2 DEF x, y, z
    <3> QED
      BY <3>1, <3>3, <3>4, <3>5, <3>6
  <2>4. /\ n \in Nat /\ 1 <= n /\ n <= Len(h.copy) /\ n <= Len(h.out) /\ n \in 0..MaxSends
    <3>1. Len(h.copy) <= MaxSends /\ Len(h.copy) <= Len(h.out)
      BY <1>2, <2>3 DEF Flow
    <3>2. Len(h.copy) \in Nat /\ Len(h.out) \in Nat /\ MaxSends \in Nat
      BY <1>1, <1>2
    <3> QED
      BY <3>1, <3>2
  <2>5. /\ f \in Handlers /\ f.place = "erase" /\ f.alive = h.alive
        /\ f.aux = h.aux /\ f.out = h.out /\ f.copy = h.copy
        /\ f.connected = h.connected /\ f.in = h.in
    <3>1. "erase" \in Places
      BY DEF Places
    <3> QED
      BY <1>1, <3>1, AtFields
  <2> HIDE DEF f
  <2>6. /\ g \in Handlers /\ g.place = "erase" /\ g.ttl = Ttl /\ g.alive = h.alive
        /\ g.aux = h.aux /\ g.out = h.out /\ g.wcnt = n
        /\ (g.connected => h.connected) /\ (g.in => h.in) /\ g.copy = h.copy
    <3>1. Ttl \in 0..Ttl
      BY <1>1
    <3>2. e \in Handlers
      BY <2>4, <2>5, <3>1 DEF Handlers
    <3>3. /\ e.place = "erase" /\ e.ttl = Ttl /\ e.alive = h.alive
          /\ e.aux = h.aux /\ e.out = h.out /\ e.wcnt = n
          /\ e.connected = h.connected /\ e.in = h.in /\ e.copy = h.copy
      BY <2>5, <3>2 DEF Handlers
    <3> HIDE DEF e
    <3> QED
      BY <1>1, <3>2, <3>3, IoClosedFields
  <2> HIDE DEF e
  <2>7. c \in Seq(Units) /\ Len(c) = n /\ \A i \in 1..n : c[i] = h.copy[i]
    <3>1. \A i \in 1..n : h.copy[i] \in Units
      BY <1>2, <2>4, ElementOfSeq
    <3>2. /\ c \in Seq(Units) /\ Len(c) = (IF 1 <= n THEN n - 1 + 1 ELSE 0)
          /\ \A i \in 1..(n - 1 + 1) : c[i] = h.copy[1 + i - 1]
      BY <2>4, <3>1, SubSeqProperties
    <3> HIDE DEF c
    <3>3. n - 1 + 1 = n /\ \A i \in Int : 1 + i - 1 = i
      BY <2>4
    <3> QED
      BY <2>4, <3>2, <3>3
  <2> HIDE DEF c
  <2>8. /\ r \in Seq(Units) /\ Len(r) = Len(sent[a]) + n
        /\ \A i \in 1..(Len(sent[a]) + n) :
              r[i] = IF i <= Len(sent[a]) THEN sent[a][i] ELSE c[i - Len(sent[a])]
    <3>1. sent[a] \in Seq(Units) /\ c \in Seq(Units) /\ Len(c) = n
      BY <1>1, <2>7
    <3>2. /\ r \in Seq(Units) /\ Len(r) = Len(sent[a]) + Len(c)
          /\ \A i \in 1..(Len(sent[a]) + Len(c)) :
                r[i] = IF i <= Len(sent[a]) THEN sent[a][i] ELSE c[i - Len(sent[a])]
      BY <3>1, ConcatProperties
    <3> QED
      BY <3>1, <3>2
  <2> HIDE DEF r
  <2>9. ASSUME NEW i \in 1..(Len(sent[a]) + n) PROVE r[i] = i
    <3>1. CASE i <= Len(sent[a])
      <4>1. i \in 1..Len(sent[a])
        <5>1. Len(sent[a]) \in Nat /\ n \in Nat
          BY <1>2, <2>4
        <5> QED
          BY <3>1, <5>1
      <4>2. r[i] = sent[a][i]
        BY <2>8, <3>1
      <4> QED
        BY <2>3, <4>1, <4>2
    <3>2. CASE ~(i <= Len(sent[a]))
      <4>1. i - Len(sent[a]) \in 1..n /\ Len(sent[a]) + (i - Len(sent[a])) = i
        BY <1>2, <2>4, <3>2
      <4>2. i - Len(sent[a]) \in 1..Len(h.copy) /\ i - Len(sent[a]) \in 1..Len(h.out)
        BY <1>2, <2>4, <4>1
      <4>3. r[i] = h.out[i - Len(sent[a])]
        BY <2>3, <2>7, <2>8, <3>2, <4>1, <4>2
      <4> QED
        BY <2>3, <4>1, <4>2, <4>3
    <3> QED
      BY <3>1, <3>2
  <2>10. Aged(g) /\ Goes(h, g)
    BY <1>1, <1>2, <2>2, <2>6 DEF Aged, Goes
  <2>11. Len(r) + Len(g.out) - g.wcnt = Len(sent[a]) + Len(h.out) - h.wcnt
    <3>1. /\ Len(r) = Len(sent[a]) + n /\ Len(g.out) = Len(h.out) /\ g.wcnt = n
          /\ h.wcnt = 0 /\ n \in Nat /\ Len(sent[a]) \in Nat /\ Len(h.out) \in Nat
      BY <1>2, <2>3, <2>4, <2>6, <2>8
    <3> DEFINE x == Len(sent[a])
               y == Len(h.out)
    <3>2. Len(r) + Len(g.out) - g.wcnt = x + n + y - n
      BY <3>1
    <3>3. x \in Nat /\ y \in Nat /\ n \in Nat
      BY <3>1
    <3> HIDE DEF x, y
    <3>4. x + n + y - n = x + y - 0
      BY <3>3
    <3>5. x + y - 0 = Len(sent[a]) + Len(h.out) - h.wcnt
      BY <3>1 DEF x, y
    <3> QED
      BY <3>2, <3>4, <3>5
  <2>12. Flow(g, r, queued[a])
    <3>1. Len(r) - g.wcnt = Len(sent[a]) /\ g.wcnt <= Len(g.out) /\ g.wcnt <= Len(r)
      BY <1>2, <2>4, <2>6, <2>8
    <3>2. Len(r) + Len(g.out) - g.wcnt <= queued[a] /\ Len(g.copy) <= MaxSends
      BY <1>2, <2>3, <2>6, <2>11 DEF Flow
    <3>3. \A i \in 1..Len(g.out) : g.out[i] = Len(r) - g.wcnt + i
      BY <2>3, <2>6, <3>1
    <3>4. \A i \in 1..Len(r) : r[i] = i
      BY <2>8, <2>9
    <3> QED
      BY <2>6, <3>1, <3>2, <3>3, <3>4 DEF Flow
  <2>13. Sound(g, r, queued[a])
    BY <1>1, <2>6, <2>8, <2>10, <2>12 DEF Sound
  <2>14. /\ sent'[a] = r /\ sent' \in [Clients -> Seq(Units)]
         /\ \A b \in Clients \ {a} : sent'[b] = sent[b]
    BY <1>1, <2>1, <2>8 DEF r, c
  <2>15. /\ Sound(g, sent'[a], queued[a])
         /\ Len(sent'[a]) + Len(g.out) - g.wcnt = Len(sent[a]) + Len(h.out) - h.wcnt
    BY <2>11, <2>13, <2>14
  <2> HIDE DEF h
  <2> QED
    BY <2>2, <2>10, <2>14, <2>15, HandlerGoes DEF h
<1>12. CASE SendNone(a)
  BY <1>9, <1>12 DEF SendNone
<1>13. CASE Erase(a)
  <2> DEFINE f == At(a, "loop")
             o == SubSeq(h.out, h.wcnt + 1, Len(h.out))
             g == [f EXCEPT !.out = o, !.handled = FALSE, !.copy = <<>>, !.wcnt = 0]
  <2>1. Step(a, "erase", g) /\ UNCHANGED sent
    BY <1>13 DEF Erase
  <2>2. h.place = "erase"
    BY <2>1 DEF Step
  <2>3. /\ f \in Handlers /\ f.place = "loop" /\ f.alive = h.alive /\ f.ttl = h.ttl
        /\ f.aux = h.aux /\ f.connected = h.connected /\ f.in = h.in
    <3>1. "loop" \in Places
      BY DEF Places
    <3> QED
      BY <1>1, <3>1, AtFields
  <2> HIDE DEF f
  <2>4. /\ h.wcnt <= Len(h.out) /\ h.wcnt <= Len(sent[a]) /\ h.wcnt \in Nat
        /\ \A i \in 1..Len(h.out) : h.out[i] = Len(sent[a]) - h.wcnt + i
    BY <1>1, <1>2 DEF Flow
  <2>5. /\ o \in Seq(Units) /\ Len(o) = Len(h.out) - h.wcnt
        /\ \A i \in 1..(Len(h.out) - h.wcnt) : o[i] = h.out[h.wcnt + i]
    <3>1. \A i \in (h.wcnt + 1)..Len(h.out) : h.out[i] \in Units
      BY <1>2, <2>4, ElementOfSeq
    <3>2. h.wcnt + 1 \in Int /\ Len(h.out) \in Int
      BY <1>2, <2>4
    <3>3. /\ o \in Seq(Units)
          /\ Len(o) = (IF h.wcnt + 1 <= Len(h.out) THEN Len(h.out) - (h.wcnt + 1) + 1 ELSE 0)
          /\ \A i \in 1..(Len(h.out) - (h.wcnt + 1) + 1) : o[i] = h.out[(h.wcnt + 1) + i - 1]
      BY <3>1, <3>2, SubSeqProperties
    <3> HIDE DEF o
    <3>4. Len(h.out) - (h.wcnt + 1) + 1 = Len(h.out) - h.wcnt
      <4>1. Len(h.out) \in Nat /\ h.wcnt \in Nat
        BY <1>2, <2>4
      <4> QED
        BY <4>1
    <3>5. ASSUME NEW i \in 1..(Len(h.out) - h.wcnt) PROVE o[i] = h.out[h.wcnt + i]
      <4>1. (h.wcnt + 1) + i - 1 = h.wcnt + i
        BY <1>2, <2>4
      <4> QED
        BY <3>3, <3>4, <4>1
    <3>6. Len(o) = Len(h.out) - h.wcnt
      BY <1>2, <2>4, <3>3
    <3> QED
      BY <3>3, <3>5, <3>6
  <2> HIDE DEF o
  <2>6. /\ g \in Handlers /\ g.place = "loop" /\ g.ttl = h.ttl /\ g.alive = h.alive
        /\ g.aux = h.aux /\ g.out = o /\ g.wcnt = 0
        /\ g.connected = h.connected /\ g.in = h.in /\ g.copy = <<>>
    <3>1. <<>> \in Seq(Units) /\ 0 \in 0..MaxSends
      BY <1>1
    <3> QED
      BY <2>3, <2>5, <3>1 DEF Handlers
  <2> HIDE DEF g
  <2>7. g.out # <<>> => h.out # <<>>
    <3>1. h.out = <<>> => Len(o) = 0
      BY <1>2, <2>4, <2>5, EmptySeq
    <3> QED
      BY <2>5, <2>6, <3>1, EmptySeq
  <2>8. Aged(g) /\ Goes(h, g)
    BY <1>2, <2>2, <2>6, <2>7 DEF Aged, Goes
  <2>9. Len(sent[a]) + Len(g.out) - g.wcnt = Len(sent[a]) + Len(h.out) - h.wcnt
    <3>1. /\ Len(g.out) = Len(h.out) - h.wcnt /\ g.wcnt = 0
          /\ Len(h.out) \in Nat /\ h.wcnt \in Nat /\ Len(sent[a]) \in Nat
      BY <1>2, <2>4, <2>5, <2>6
    <3> QED
      BY <3>1
  <2>10. Flow(g, sent[a], queued[a])
    <3>1. ASSUME NEW i \in 1..Len(g.out) PROVE g.out[i] = Len(sent[a]) - g.wcnt + i
      <4>1. /\ i \in 1..(Len(h.out) - h.wcnt) /\ h.wcnt + i \in 1..Len(h.out)
            /\ Len(sent[a]) - h.wcnt + (h.wcnt + i) = Len(sent[a]) - 0 + i
        <5>1. /\ Len(g.out) = Len(h.out) - h.wcnt /\ h.wcnt <= Len(h.out)
              /\ Len(h.out) \in Nat /\ h.wcnt \in Nat /\ Len(sent[a]) \in Nat
          BY <1>2, <2>4, <2>5, <2>6
        <5>2. i \in 1..(Len(h.out) - h.wcnt)
          BY <5>1
        <5> QED
          BY <5>1, <5>2, Shifted
      <4>2. g.out[i] = h.out[h.wcnt + i]
        BY <2>5, <2>6, <4>1
      <4> QED
        BY <2>4, <2>6, <4>1, <4>2
    <3>2. /\ Len(sent[a]) + Len(g.out) - g.wcnt <= queued[a]
          /\ \A i \in 1..Len(sent[a]) : sent[a][i] = i
      BY <1>2, <2>9 DEF Flow
    <3>3. g.wcnt <= Len(g.out) /\ g.wcnt <= Len(sent[a]) /\ Len(g.copy) <= MaxSends
      <4>1. Len(g.out) \in Nat /\ Len(<<>>) = 0
        BY <2>5, <2>6
      <4> QED
        BY <1>1, <1>2, <2>6, <4>1
    <3> QED
      BY <2>6, <3>1, <3>2, <3>3 DEF Flow
  <2>11. Sound(g, sent[a], queued[a])
    BY <1>1, <2>6, <2>8, <2>10 DEF Sound
  <2>12. /\ Sound(g, sent'[a], queued[a])
         /\ Len(sent'[a]) + Len(g.out) - g.wcnt = Len(sent[a]) + Len(h.out) - h.wcnt
         /\ sent' \in [Clients -> Seq(Units)] /\ \A b \in Clients \ {a} : sent'[b] = sent[b]
    BY <1>1, <2>1, <2>9, <2>11
  <2> HIDE DEF h
  <2> QED
    BY <2>1, <2>8, <2>12, HandlerGoes DEF h
<1>14. CASE Idle(a)
  <2> DEFINE f == At(a, "loop")
             t == IF ~connOriented /\ h.aux = 1 THEN h.ttl ELSE h.ttl - 1
             g == [f EXCEPT !.ttl = t]
  <2>1. /\ f \in Handlers /\ f.place = "loop" /\ f.alive = h.alive /\ f.ttl = h.ttl
        /\ f.aux = h.aux /\ f.connected = h.connected /\ f.in = h.in
        /\ f.out = h.out /\ f.copy = h.copy /\ f.wcnt = h.wcnt
    <3>1. "loop" \in Places
      BY DEF Places
    <3> QED
      BY <1>1, <3>1, AtFields
  <2>2. Step(a, "idle", g) /\ UNCHANGED sent
    BY <1>14, <2>1 DEF Idle
  <2>3. h.place = "idle"
    BY <2>2 DEF Step
  <2>4. t \in 0..Ttl
    BY <1>1, <1>2, <2>3 DEF Aged
  <2> HIDE DEF f, t
  <2>5. /\ g \in Handlers /\ g.place = "loop" /\ g.alive = h.alive
        /\ g.aux = h.aux /\ g.out = h.out /\ g.wcnt = h.wcnt
        /\ g.connected = h.connected /\ g.in = h.in /\ g.copy = h.copy
    BY <2>1, <2>4 DEF Handlers
  <2> HIDE DEF g
  <2>6. Aged(g) /\ Goes(h, g)
    BY <1>2, <2>3, <2>5 DEF Aged, Goes
  <2>7. g.wcnt = 0 /\ g.place # "send"
    BY <1>3, <2>3, <2>5
  <2> HIDE DEF h
  <2> QED
    BY <2>2, <2>5, <2>6, <2>7, HandlerQuiet DEF h
<1>15. CASE ExitWorker(a)
  <2> DEFINE f == At(a, "closed")
             e == IoClosed(f)
             g == [e EXCEPT !.disconnected = TRUE]
  <2>1. Step(a, "exit", g) /\ UNCHANGED sent
    BY <1>15 DEF ExitWorker
  <2>2. h.place = "exit"
    BY <2>1 DEF Step
  <2>3. /\ f \in Handlers /\ f.place = "closed" /\ f.alive = h.alive
        /\ f.aux = h.aux /\ f.connected = h.connected /\ f.in = h.in
        /\ f.out = h.out /\ f.copy = h.copy /\ f.wcnt = h.wcnt
    <3>1. "closed" \in Places
      BY DEF Places
    <3> QED
      BY <1>1, <3>1, AtFields
  <2> HIDE DEF f
  <2>4. /\ e \in Handlers /\ e.place = f.place /\ e.alive = f.alive /\ e.aux = f.aux
        /\ e.out = f.out /\ e.copy = f.copy /\ e.wcnt = f.wcnt
        /\ ~e.connected /\ (e.in => f.in)
    BY <1>1, <2>3, IoClosedFields
  <2> HIDE DEF e
  <2>5. /\ g \in Handlers /\ g.place = e.place /\ g.alive = e.alive /\ g.aux = e.aux
        /\ g.out = e.out /\ g.copy = e.copy /\ g.wcnt = e.wcnt
        /\ g.connected = e.connected /\ g.in = e.in
    BY <2>4 DEF Handlers
  <2> HIDE DEF g
  <2>6. Aged(g) /\ Goes(h, g)
    BY <1>2, <2>2, <2>3, <2>4, <2>5 DEF Aged, Goes
  <2>7. g.wcnt = 0 /\ g.place # "send" /\ g.out = h.out /\ g.copy = h.copy
    BY <1>3, <2>2, <2>3, <2>4, <2>5
  <2> HIDE DEF h
  <2> QED
    BY <2>1, <2>5, <2>6, <2>7, HandlerQuiet DEF h
<1>16. CASE ClientClosed(a)
  <2> DEFINE f == At(a, "final")
             g == [f EXCEPT !.alive = FALSE]
  <2>1. Step(a, "closed", g) /\ UNCHANGED sent
    BY <1>16 DEF ClientClosed
  <2>2. h.place = "closed"
    BY <2>1 DEF Step
  <2>3. /\ f \in Handlers /\ f.place = "final"
        /\ f.aux = h.aux /\ f.connected = h.connected /\ f.in = h.in
        /\ f.out = h.out /\ f.copy = h.copy /\ f.wcnt = h.wcnt
    <3>1. "final" \in Places
      BY DEF Places
    <3> QED
      BY <1>1, <3>1, AtFields
  <2> HIDE DEF f
  <2>4. /\ g \in Handlers /\ g.place = f.place /\ ~g.alive /\ g.aux = f.aux
        /\ g.out = f.out /\ g.copy = f.copy /\ g.wcnt = f.wcnt
        /\ g.connected = f.connected /\ g.in = f.in
    BY <2>3 DEF Handlers
  <2> HIDE DEF g
  <2>5. Aged(g) /\ Goes(h, g)
    BY <1>2, <2>2, <2>3, <2>4 DEF Aged, Goes
  <2>6. g.wcnt = 0 /\ g.place # "send" /\ g.out = h.out /\ g.copy = h.copy
    BY <1>3, <2>2, <2>3, <2>4
  <2> HIDE DEF h
  <2> QED
    BY <2>1, <2>4, <2>5, <2>6, HandlerQuiet DEF h
<1>17. CASE ThreadEnd(a)
  BY <1>6, <1>17 DEF ThreadEnd
<1> QED
  BY <1>4, <1>7, <1>8, <1>10, <1>11, <1>12, <1>13, <1>14, <1>15, <1>16, <1>17
     DEF Handler

-----------------------------------------------------------------------------
(* The listener, the application and the peers                             *)

\* A change of m_out, the flags, the token or the input from outside, of the
\* handlers in S: none is started by it, or made alive.
Touched(h, g) ==
    /\ g.place = h.place /\ g.alive = h.alive /\ g.ttl = h.ttl
    /\ g.connected = h.connected /\ g.copy = h.copy /\ g.wcnt = h.wcnt

\* disconnectedCleanup() removes nobody: clientRemove() returns early for
\* each that is dead.
LEMMA NothingRemoved ==
    ASSUME NEW S, NEW dead, dead = {a \in S : ~handler[a].alive}
    PROVE  Removable(dead) = {}
  BY DEF Removable

\* The record of one registered handler is replaced, and its output is not.
LEMMA HandlerReplaced ==
    ASSUME Objects, NEW a \in clients, clients \subseteq Clients, NEW g,
           Sound(g, sent[a], queued[a]),
           g.out = handler[a].out, g.wcnt = handler[a].wcnt,
           handler' = [handler EXCEPT ![a] = g],
           UNCHANGED <<connOriented, clients, history>>
    PROVE  /\ Objects' /\ handler'[a] = g
           /\ \A b \in Clients \ {a} : handler'[b] = handler[b]
<1>1. a \in Clients /\ g \in Handlers
  BY DEF Sound
<1>2. /\ handler' \in [Clients -> Handlers] /\ handler'[a] = g
      /\ \A b \in Clients \ {a} : handler'[b] = handler[b]
  BY <1>1 DEF Objects
<1>3. /\ \A b \in Clients : Sound(handler'[b], sent'[b], queued'[b])
      /\ \A b \in Clients \ clients' : handler'[b] = Absent'
      /\ \A b \in clients' :
            Len(sent'[b]) + Len(handler'[b].out) - handler'[b].wcnt = queued'[b]
  BY <1>2 DEF Objects, Absent, Fresh, history
<1> QED
  BY <1>2, <1>3 DEF Objects, history

\* An outsider changes it.
LEMMA HandlerTouched ==
    ASSUME Objects, NEW a \in clients, clients \subseteq Clients, NEW g \in Handlers,
           Touched(handler[a], g), g.out = handler[a].out,
           handler' = [handler EXCEPT ![a] = g],
           UNCHANGED <<connOriented, clients, history>>
    PROVE  /\ Objects' /\ handler'[a] = g
           /\ \A b \in Clients \ {a} : handler'[b] = handler[b]
<1>1. Sound(handler[a], sent[a], queued[a])
  BY DEF Objects
<1>2. Sound(g, sent[a], queued[a]) /\ g.wcnt = handler[a].wcnt
  BY <1>1 DEF Sound, Touched, Aged, Flow
<1> QED
  BY <1>2, HandlerReplaced

\* The handlers, and who is registered, stay as they are.
LEMMA ObjectsKept ==
    ASSUME Objects, UNCHANGED <<connOriented, clients, handler, history>>
    PROVE  Objects'
  BY DEF Objects, history, Absent, Fresh

\* What outDataSet() makes of a handler.
LEMMA OutDataSetFields ==
    ASSUME NEW a \in Clients, handler[a] \in Handlers, NEW u \in Units
    PROVE  LET h == handler[a]
               g == OutDataSet(a, <<u>>)
           IN  /\ g \in Handlers /\ Touched(h, g) /\ g.in = h.in /\ g.aux = Posted
               /\ g.out \in Seq(Units) /\ Len(g.out) = Len(h.out) + 1
               /\ \A i \in 1..Len(h.out) : g.out[i] = h.out[i]
               /\ g.out[Len(h.out) + 1] = u
<1> DEFINE h == handler[a]
           o == h.out \o <<u>>
           g == [h EXCEPT !.out = o, !.aux = Posted]
<1>1. h \in Handlers /\ h.out \in Seq(Units) /\ Len(h.out) \in Nat
  BY DEF Handlers
<1>2. Posted \in 0..1
  BY DEF Posted
<1>3. o = Append(h.out, u)
  BY <1>1, AppendIsConcat
<1>4. OutDataSet(a, <<u>>) = g
  BY DEF OutDataSet
<1> HIDE DEF o
<1>5. /\ o \in Seq(Units) /\ Len(o) = Len(h.out) + 1
      /\ \A i \in 1..Len(h.out) : o[i] = h.out[i]
      /\ o[Len(h.out) + 1] = u
  BY <1>1, <1>3, AppendProperties
<1> HIDE DEF h
<1>6. g \in Handlers /\ g.out = o /\ g.aux = Posted
  BY <1>1, <1>2, <1>5 DEF Handlers
<1>7. g.in = h.in /\ Touched(h, g)
  BY <1>1 DEF Handlers, Touched
<1> HIDE DEF g
<1> QED
  BY <1>4, <1>5, <1>6, <1>7 DEF h

LEMMA OutputQueued ==
    ASSUME NEW h, NEW g \in Handlers, NEW s, NEW q, Sound(h, s, q), q < MaxSends,
           Len(s) + Len(h.out) - h.wcnt = q, Touched(h, g),
           Len(g.out) = Len(h.out) + 1,
           \A i \in 1..Len(h.out) : g.out[i] = h.out[i],
           g.out[Len(h.out) + 1] = q + 1
    PROVE  Sound(g, s, q + 1) /\ Len(s) + Len(g.out) - g.wcnt = q + 1
<1> DEFINE x == Len(s)
           y == Len(h.out)
           w == h.wcnt
<1>1. /\ x \in Nat /\ y \in Nat /\ w \in Nat /\ q \in Nat /\ x + y - w = q
      /\ MaxSends \in Nat /\ h \in Handlers
  <2>1. h \in Handlers /\ s \in Seq(Units) /\ q \in 0..MaxSends /\ MaxSends \in Nat
    BY ServerAssumption DEF Sound
  <2>2. x \in Nat /\ y \in Nat /\ w \in Nat /\ q \in Nat
    <3>1. h.out \in Seq(Units) /\ w \in 0..MaxSends
      BY <2>1 DEF Handlers
    <3>2. x \in Nat /\ y \in Nat
      BY <2>1, <3>1
    <3> QED
      BY <2>1, <3>1, <3>2
  <2>3. x + y - w = q
    OBVIOUS
  <2> QED
    BY <2>1, <2>2, <2>3
<1>2. Len(g.out) = y + 1 /\ g.wcnt = w /\ g.place = h.place /\ g.copy = h.copy
  BY DEF Touched
<1>3. /\ \A i \in 1..x : s[i] = i
      /\ \A i \in 1..y : h.out[i] = x - w + i
      /\ w <= y /\ w <= x /\ (h.place # "erase" => w = 0)
      /\ Len(h.copy) <= MaxSends
      /\ h.place = "send" => /\ Len(h.copy) <= y
                             /\ \A i \in 1..Len(h.copy) : h.copy[i] = h.out[i]
  BY DEF Sound, Flow
<1>4. /\ \A i \in 1..y : g.out[i] = h.out[i]
      /\ g.out[y + 1] = q + 1
  OBVIOUS
<1>5. Len(h.copy) \in Nat
  BY <1>1 DEF Handlers
<1>6. x = Len(s)
  OBVIOUS
<1> HIDE DEF x, y, w
<1>7. x + (y + 1) - w = q + 1
  BY <1>1
<1>8. ASSUME NEW i \in 1..(y + 1) PROVE g.out[i] = x - w + i
  <2>1. CASE i = y + 1
    BY <1>1, <1>4, <2>1
  <2>2. CASE i \in 1..y
    BY <1>3, <1>4, <2>2
  <2> QED
    BY <1>1, <2>1, <2>2
<1>9. w <= y + 1 /\ (g.place = "send" => Len(g.copy) <= y + 1)
  BY <1>1, <1>2, <1>3, <1>5
<1>10. g.place = "send" => \A i \in 1..Len(g.copy) : g.copy[i] = g.out[i]
  <2> SUFFICES ASSUME g.place = "send", NEW i \in 1..Len(h.copy)
               PROVE  h.copy[i] = g.out[i]
    BY <1>2
  <2>1. i \in 1..y
    BY <1>1, <1>2, <1>3, <1>5
  <2> QED
    BY <1>2, <1>3, <1>4, <2>1
<1>11. /\ Len(s) + Len(g.out) - g.wcnt = q + 1
  BY <1>2, <1>6, <1>7
<1>12. Flow(g, s, q + 1)
  <2>1. \A i \in 1..Len(g.out) : g.out[i] = Len(s) - g.wcnt + i
    BY <1>2, <1>6, <1>8
  <2>2. Len(s) + Len(g.out) - g.wcnt <= q + 1
    BY <1>1, <1>11
  <2> QED
    BY <1>2, <1>3, <1>6, <1>9, <1>10, <2>1, <2>2 DEF Flow
<1>13. Aged(g)
  BY DEF Sound, Aged, Touched
<1>14. q + 1 \in 0..MaxSends /\ s \in Seq(Units)
  BY <1>1 DEF Sound
<1> QED
  BY <1>11, <1>12, <1>13, <1>14 DEF Sound

\* Output is queued for the clients of S.
LEMMA OutputStep ==
    ASSUME IInv, NEW S \in SUBSET clients, \A a \in S : queued[a] < MaxSends,
           handler' = [a \in Clients |->
               IF a \in S THEN OutDataSet(a, <<queued[a] + 1>>) ELSE handler[a]],
           queued' = [a \in Clients |-> IF a \in S THEN queued[a] + 1 ELSE queued[a]],
           UNCHANGED <<net, clients, listener, control, sent>>
    PROVE  IInv'
<1>1. /\ connOriented \in BOOLEAN /\ clients \subseteq Clients /\ MaxSends \in Nat
      /\ handler \in [Clients -> Handlers] /\ sent \in [Clients -> Seq(Units)]
      /\ queued \in [Clients -> 0..MaxSends]
  BY ServerAssumption DEF IInv, Server, Objects
<1>2. ASSUME NEW a \in S
      PROVE  /\ handler'[a] \in Handlers /\ queued'[a] = queued[a] + 1
             /\ Touched(handler[a], handler'[a]) /\ handler'[a].in = handler[a].in
             /\ handler'[a].aux = Posted
             /\ Sound(handler'[a], sent[a], queued'[a])
             /\ Len(sent[a]) + Len(handler'[a].out) - handler'[a].wcnt = queued'[a]
  <2> DEFINE h == handler[a]
             q == queued[a]
             g == OutDataSet(a, <<q + 1>>)
  <2>1. a \in Clients /\ a \in clients
    BY <1>1
  <2>2. /\ Sound(h, sent[a], q) /\ Len(sent[a]) + Len(h.out) - h.wcnt = q
        /\ q < MaxSends /\ q \in 0..MaxSends /\ h \in Handlers
    BY <1>1, <2>1 DEF IInv, Objects
  <2>3. q + 1 \in Units
    BY <1>1, <2>2 DEF Units
  <2>4. /\ g \in Handlers /\ Touched(h, g) /\ g.in = h.in /\ g.aux = Posted
        /\ Len(g.out) = Len(h.out) + 1
        /\ \A i \in 1..Len(h.out) : g.out[i] = h.out[i]
        /\ g.out[Len(h.out) + 1] = q + 1
    BY <2>1, <2>2, <2>3, OutDataSetFields
  <2>5. handler'[a] = g /\ queued'[a] = q + 1
    BY <2>1
  <2> HIDE DEF g, h, q
  <2>6. Sound(g, sent[a], q + 1) /\ Len(sent[a]) + Len(g.out) - g.wcnt = q + 1
    <3> DEFINE s == sent[a]
    <3>1. /\ Sound(h, s, q) /\ q < MaxSends /\ Len(s) + Len(h.out) - h.wcnt = q
          /\ g \in Handlers /\ Touched(h, g) /\ Len(g.out) = Len(h.out) + 1
          /\ \A i \in 1..Len(h.out) : g.out[i] = h.out[i]
          /\ g.out[Len(h.out) + 1] = q + 1
      BY <2>2, <2>4
    <3> HIDE DEF s
    <3>2. Sound(g, s, q + 1) /\ Len(s) + Len(g.out) - g.wcnt = q + 1
      BY ONLY <3>1, OutputQueued
    <3> QED
      BY <3>2 DEF s
  <2> QED
    BY <2>4, <2>5, <2>6 DEF h, q
<1>3. \A a \in Clients \ S : handler'[a] = handler[a] /\ queued'[a] = queued[a]
  OBVIOUS
<1>4. \A a \in Clients : handler'[a].place = handler[a].place
                         /\ handler'[a].alive = handler[a].alive
                         /\ handler'[a].connected = handler[a].connected
  BY <1>2, <1>3 DEF Touched
<1>5. Server'
  BY DEF IInv, Server, net, listener, control
<1>6. Objects'
  <2>1. \A a \in Clients : Sound(handler'[a], sent'[a], queued'[a])
    BY <1>2, <1>3 DEF IInv, Objects
  <2>2. handler' \in [Clients -> Handlers] /\ queued' \in [Clients -> 0..MaxSends]
    BY <2>1 DEF Sound
  <2>3. \A a \in Clients \ clients' : handler'[a] = Absent'
    BY <1>3 DEF IInv, Objects, Absent, Fresh, net
  <2>4. \A a \in clients' :
           Len(sent'[a]) + Len(handler'[a].out) - handler'[a].wcnt = queued'[a]
    BY <1>1, <1>2, <1>3 DEF IInv, Objects
  <2> QED
    BY <1>1, <2>1, <2>2, <2>3, <2>4 DEF Objects
<1>7. Current'
  BY <1>4 DEF IInv, Current, listener
<1>8. Stopped'
  BY <1>1, <1>4 DEF IInv, Stopped, listener
<1>9. Woken'
  <2>1. ~connOriented => Posted = 1
    BY DEF Posted
  <2> QED
    BY <1>1, <1>2, <1>3, <1>4, <2>1 DEF IInv, Woken, listener, net
<1> QED
  BY <1>5, <1>6, <1>7, <1>8, <1>9 DEF IInv

LEMMA ApplicationStep ==
    ASSUME IInv, Application
    PROVE  IInv'
<1>1. clients \subseteq Clients /\ handler \in [Clients -> Handlers]
      /\ queued \in [Clients -> 0..MaxSends] /\ opens \in 0..MaxOpens /\ MaxOpens \in Nat
  BY ServerAssumption DEF IInv, Server, Objects
<1>2. CASE Open \/ Close \/ CloseReturn
  <2>1. UNCHANGED <<connOriented, clients, handler, cur, todo, history, net>>
    BY <1>2 DEF Open, Close, CloseReturn, net, listener
  <2>2. Objects'
    BY <2>1, ObjectsKept DEF IInv
  <2>3. Server'
    <3>1. lpc' \in ListenerPcs
      BY <1>2 DEF IInv, Server, ListenerPcs, Open, Close, CloseReturn, listener
    <3>2. lstop' \in BOOLEAN /\ app' \in {"idle", "closing"}
      BY <1>2 DEF IInv, Server, Open, Close, CloseReturn, listener
    <3>3. opens' \in 0..MaxOpens
      BY <1>1, <1>2 DEF Open, Close, CloseReturn
    <3> QED
      BY <2>1, <3>1, <3>2, <3>3 DEF IInv, Server, net
  <2>4. lpc' = lpc \/ (lpc' = "loop" /\ lpc = "none")
    BY <1>2 DEF Open, Close, CloseReturn, listener
  <2>5. Current' /\ Stopped' /\ Woken'
    BY <2>1, <2>4 DEF IInv, Current, Stopped, Woken
  <2> QED
    BY <2>2, <2>3, <2>5 DEF IInv
<1>3. CASE Send
  BY <1>3, OutputStep DEF Send
<1>4. ASSUME NEW a \in Clients, SendTo(a) PROVE IInv'
  <2>1. {a} \in SUBSET clients
    BY <1>4 DEF SendTo
  <2>2. handler' = [b \in Clients |->
           IF b \in {a} THEN OutDataSet(b, <<queued[b] + 1>>) ELSE handler[b]]
    BY <1>1, <1>4 DEF SendTo
  <2>3. queued' = [b \in Clients |-> IF b \in {a} THEN queued[b] + 1 ELSE queued[b]]
    BY <1>1, <1>4 DEF SendTo
  <2> QED
    BY <1>4, <2>1, <2>2, <2>3, OutputStep DEF SendTo
<1>5. ASSUME NEW a \in Clients, DisconnectedSet(a) PROVE IInv'
  <2> DEFINE h == handler[a]
             g == [h EXCEPT !.disconnected = TRUE]
  <2>1. /\ a \in clients /\ handler' = [handler EXCEPT ![a] = g]
        /\ UNCHANGED <<net, clients, listener, control, history>>
    BY <1>5 DEF DisconnectedSet
  <2>2. h \in Handlers
    BY <1>1
  <2>3. /\ g \in Handlers /\ Touched(h, g) /\ g.out = h.out /\ g.in = h.in
        /\ g.aux = h.aux
    BY <2>2 DEF Handlers, Touched
  <2> HIDE DEF g
  <2>4. /\ Objects' /\ handler'[a] = g
        /\ \A b \in Clients \ {a} : handler'[b] = handler[b]
    BY <1>1, <2>1, <2>3, HandlerTouched DEF IInv, net
  <2>5. Server'
    BY <2>1 DEF IInv, Server, net, listener, control
  <2>6. Current' /\ Stopped' /\ Woken'
    BY <1>1, <2>1, <2>3, <2>4 DEF IInv, Current, Stopped, Woken, Touched, net, listener
  <2> QED
    BY <2>4, <2>5, <2>6 DEF IInv
<1> QED
  BY <1>2, <1>3, <1>4, <1>5 DEF Application, Open

LEMMA PeerStep ==
    ASSUME IInv, NEW a \in Clients, Peer(a)
    PROVE  IInv'
<1>1. /\ clients \subseteq Clients /\ handler \in [Clients -> Handlers]
      /\ connOriented \in BOOLEAN
  BY DEF IInv, Server, Objects
<1>2. CASE PeerArrives(a)
  <2>1. Objects'
    BY <1>2, ObjectsKept DEF PeerArrives, IInv
  <2>2. Server'
    BY <1>2 DEF PeerArrives, IInv, Server, listener, control
  <2>3. Current' /\ Stopped' /\ Woken'
    BY <1>2 DEF PeerArrives, IInv, Current, Stopped, Woken, listener
  <2> QED
    BY <2>1, <2>2, <2>3 DEF IInv
<1>3. ASSUME NEW g \in Handlers, handler' = [handler EXCEPT ![a] = g],
             handler[a].connected, Touched(handler[a], g), g.out = handler[a].out,
             UNCHANGED <<net, clients, listener, control, history>>
      PROVE  IInv'
  <2>1. a \in clients /\ connOriented
    BY <1>1, <1>3, AbsentFields DEF IInv, Objects, Woken
  <2>2. /\ Objects' /\ handler'[a] = g
        /\ \A b \in Clients \ {a} : handler'[b] = handler[b]
    BY <1>1, <1>3, <2>1, HandlerTouched DEF IInv, net
  <2>3. Server'
    BY <1>3 DEF IInv, Server, net, listener, control
  <2>4. Current' /\ Stopped'
    BY <1>1, <1>3, <2>2 DEF IInv, Current, Stopped, Touched, listener
  <2>5. Woken'
    BY <1>3, <2>1 DEF Woken, net
  <2> QED
    BY <2>2, <2>3, <2>4, <2>5 DEF IInv
<1>4. CASE PeerData(a)
  <2> DEFINE h == handler[a]
             g == [h EXCEPT !.in = TRUE]
  <2>1. /\ h.connected /\ handler' = [handler EXCEPT ![a] = g]
        /\ UNCHANGED <<net, clients, listener, control, history>>
    BY <1>4 DEF PeerData
  <2>2. h \in Handlers
    BY <1>1
  <2>3. g \in Handlers /\ Touched(h, g) /\ g.out = h.out
    BY <2>2 DEF Handlers, Touched
  <2> QED
    BY <1>3, <2>1, <2>3
<1>5. CASE PeerBreaks(a)
  <2> DEFINE h == handler[a]
             g == [h EXCEPT !.broken = TRUE]
  <2>1. /\ h.connected /\ handler' = [handler EXCEPT ![a] = g]
        /\ UNCHANGED <<net, clients, listener, control, history>>
    BY <1>5 DEF PeerBreaks
  <2>2. h \in Handlers
    BY <1>1
  <2>3. g \in Handlers /\ Touched(h, g) /\ g.out = h.out
    BY <2>2 DEF Handlers, Touched
  <2> QED
    BY <1>3, <2>1, <2>3
<1> QED
  BY <1>2, <1>4, <1>5 DEF Peer

LEMMA ListenerStep ==
    ASSUME IInv, Listener
    PROVE  IInv'
<1>1. /\ clients \subseteq Clients /\ handler \in [Clients -> Handlers]
      /\ connOriented \in BOOLEAN /\ cur \subseteq clients /\ todo \subseteq Clients
      /\ IsFiniteSet(clients) /\ Cardinality(clients) \in Nat
      /\ MaxConn \in Nat \ {0} /\ MaxSends \in Nat
  BY ServerAssumption, FS_Subset, FS_CardinalityType DEF IInv, Server, Objects
\* Steps that touch neither the handlers nor m_clients.
<1>2. ASSUME UNCHANGED <<connOriented, clients, handler, lstop, control, history>>,
             lpc' \in {"none", "loop", "listen", "exit", "deliver"},
             cur' \subseteq clients, \A a, b \in cur' : a = b,
             cur' # {} => lpc' = "deliver", todo' \subseteq Clients,
             arrived' \subseteq Clients, lpc \notin {"start", "post"},
             Stopped'
      PROVE  IInv'
  <2>1. Objects'
    BY <1>2, ObjectsKept DEF IInv
  <2>2. Server'
    BY <1>2 DEF IInv, Server, ListenerPcs, control
  <2>3. Current'
    BY <1>2 DEF IInv, Current
  <2>4. Woken'
    BY <1>2 DEF IInv, Woken
  <2> QED
    BY <1>2, <2>1, <2>2, <2>3, <2>4 DEF IInv
<1>3. CASE ListenerLoop
  <2> DEFINE dead == {a \in clients : ~handler[a].alive}
  <2>1. Removable(dead) = {}
    BY NothingRemoved
  <2>2. clients' = clients
    BY <1>3, <2>1 DEF ListenerLoop
  <2>3. /\ lpc = "loop" /\ lpc' \in {"listen", "exit"} /\ cur' = {}
        /\ todo' \subseteq Clients /\ (lpc' = "exit" => todo' = clients)
        /\ arrived' \subseteq Clients
        /\ UNCHANGED <<connOriented, handler, lstop, control, history>>
    BY <1>1, <1>3 DEF ListenerLoop, IInv, Current, Server, net
  <2>4. Stopped'
    BY <2>2, <2>3 DEF Stopped
  <2> QED
    BY <1>2, <2>2, <2>3, <2>4
<1>4. CASE ListenTimeout
  <2>1. /\ lpc = "listen" /\ lpc' = "loop" /\ cur' = {} /\ todo' = todo
        /\ arrived' \subseteq Clients
        /\ UNCHANGED <<connOriented, clients, handler, lstop, control, history>>
    BY <1>4 DEF ListenTimeout, IInv, Current, Server, net
  <2>2. Stopped'
    BY <2>1 DEF Stopped
  <2> QED
    BY <1>1, <1>2, <2>1, <2>2
<1>5. CASE ListenerEnd
  <2>1. /\ lpc = "exit" /\ todo = {} /\ lpc' = "none" /\ cur' = cur /\ cur = {}
        /\ todo' = todo /\ arrived' = {}
        /\ UNCHANGED <<connOriented, clients, handler, lstop, control, history>>
    BY <1>5 DEF ListenerEnd, IInv, Current
  <2>2. Stopped'
    BY <2>1 DEF Stopped, IInv
  <2> QED
    BY <1>2, <2>1, <2>2
<1>6. ASSUME NEW a \in Clients, ClientAdd(a) PROVE IInv'
  <2>1. /\ lpc = "listen" /\ lpc' = "start" /\ cur' = {a} /\ cur = {}
        /\ a \notin clients /\ Cardinality(clients) < MaxConn
        /\ clients' = clients \cup {a} /\ arrived' = arrived \ {a}
        /\ handler' = [handler EXCEPT ![a] = Fresh]
        /\ queued' = [queued EXCEPT ![a] = 0] /\ sent' = [sent EXCEPT ![a] = <<>>]
        /\ UNCHANGED <<connOriented, todo, lstop, control>>
    BY <1>6 DEF ClientAdd, CanAddClient, IInv, Current
  <2>2. Cardinality(clients') <= MaxConn
    <3>1. Cardinality(clients \cup {a}) = Cardinality(clients) + 1
      BY <1>1, <2>1, FS_AddElement
    <3> QED
      BY <1>1, <2>1, <3>1
  <2>3. Server'
    BY <1>1, <1>6, <2>1, <2>2 DEF IInv, Server, ListenerPcs, control
  <2>4. /\ Fresh \in Handlers /\ Fresh.place = "created" /\ Fresh.alive
        /\ Fresh.connected = connOriented /\ ~Fresh.in
        /\ Fresh.out = <<>> /\ Fresh.copy = <<>> /\ Fresh.wcnt = 0
    BY <1>1, FreshFields
  <2> DEFINE f == Fresh
  <2>5. f = Fresh
    OBVIOUS
  <2> HIDE DEF f
  <2>6. /\ handler' \in [Clients -> Handlers] /\ handler'[a] = f
        /\ sent' \in [Clients -> Seq(Units)] /\ sent'[a] = <<>>
        /\ queued' \in [Clients -> 0..MaxSends] /\ queued'[a] = 0
        /\ \A b \in Clients \ {a} : /\ handler'[b] = handler[b]
                                    /\ sent'[b] = sent[b] /\ queued'[b] = queued[b]
    BY <1>1, <2>1, <2>4, <2>5 DEF IInv, Objects
  <2>7. Sound(f, <<>>, 0) /\ Len(<<>>) + Len(f.out) - f.wcnt = 0
    <3>1. Len(<<>>) = 0 /\ <<>> \in Seq(Units) /\ 0 \in 0..MaxSends
      BY <1>1
    <3>2. Aged(f)
      BY <2>4, <2>5 DEF Aged
    <3>3. Flow(f, <<>>, 0)
      BY <1>1, <2>4, <2>5, <3>1 DEF Flow
    <3> QED
      BY <2>4, <2>5, <3>1, <3>2, <3>3 DEF Sound
  <2>8. Absent' = Absent
    BY <2>1 DEF Absent, Fresh
  <2>9. Objects'
    <3>1. \A b \in Clients : Sound(handler'[b], sent'[b], queued'[b])
      BY <2>6, <2>7 DEF IInv, Objects
    <3>2. \A b \in Clients \ clients' : handler'[b] = Absent
      BY <2>1, <2>6 DEF IInv, Objects
    <3>3. \A b \in clients' :
            Len(sent'[b]) + Len(handler'[b].out) - handler'[b].wcnt = queued'[b]
      BY <1>1, <2>1, <2>6, <2>7 DEF IInv, Objects
    <3> QED
      BY <2>6, <2>8, <3>1, <3>2, <3>3 DEF Objects
  <2>10. Current'
    BY <2>1, <2>4, <2>5, <2>6 DEF IInv, Current
  <2>11. Stopped'
    BY <2>1 DEF Stopped
  <2>12. Woken'
    BY <1>1, <2>1, <2>4, <2>5, <2>6 DEF IInv, Woken
  <2> QED
    BY <2>3, <2>9, <2>10, <2>11, <2>12 DEF IInv
<1>7. ASSUME NEW a \in Clients, ClientKnown(a) PROVE IInv'
  <2>1. /\ lpc = "listen" /\ cur = {} /\ todo' = todo /\ arrived' \subseteq Clients
        /\ \/ lpc' = "deliver" /\ cur' = {a} /\ a \in clients
           \/ lpc' = "loop" /\ cur' = {}
        /\ UNCHANGED <<connOriented, clients, handler, lstop, control, history>>
    BY <1>7 DEF ClientKnown, IInv, Current, Server
  <2>2. Stopped'
    BY <2>1 DEF Stopped
  <2> QED
    BY <1>1, <1>2, <2>1, <2>2
<1>8. ASSUME NEW a \in Clients, HandlerStart(a) PROVE IInv'
  <2> DEFINE h == handler[a]
             g == [h EXCEPT !.place = "loop"]
  <2>1. /\ lpc = "start" /\ a \in cur /\ a \in clients
        /\ handler' = [handler EXCEPT ![a] = g]
        /\ \/ ~connOriented /\ lpc' = "deliver" /\ cur' = cur
           \/ connOriented /\ lpc' = "loop" /\ cur' = {}
        /\ UNCHANGED <<net, clients, todo, lstop, control, history>>
    BY <1>1, <1>8 DEF HandlerStart
  <2>2. h \in Handlers /\ h.place = "created" /\ Sound(h, sent[a], queued[a])
    BY <1>1, <2>1 DEF IInv, Current, Objects
  <2>3. /\ g \in Handlers /\ g.place = "loop" /\ g.alive = h.alive
        /\ g.connected = h.connected /\ g.in = h.in /\ g.out = h.out
        /\ g.aux = h.aux /\ g.copy = h.copy /\ g.wcnt = h.wcnt
    BY <2>2 DEF Handlers, Places
  <2> HIDE DEF g
  <2>4. Sound(g, sent[a], queued[a])
    <3>1. h.wcnt = 0
      BY <2>2 DEF Sound, Flow
    <3>2. Flow(g, sent[a], queued[a])
      BY <2>2, <2>3, <3>1, FlowKept DEF Sound
    <3>3. Aged(g)
      BY <2>2, <2>3 DEF Sound, Aged
    <3> QED
      BY <2>2, <2>3, <3>2, <3>3 DEF Sound
  <2>5. /\ Objects' /\ handler'[a] = g
        /\ \A b \in Clients \ {a} : handler'[b] = handler[b]
    BY <1>1, <2>1, <2>3, <2>4, HandlerReplaced DEF IInv, net
  <2>6. Server'
    BY <2>1 DEF IInv, Server, ListenerPcs, net, control
  <2>7. Current'
    BY <1>1, <2>1, <2>3, <2>5 DEF IInv, Current
  <2>8. Stopped'
    BY <2>1 DEF Stopped
  <2>9. Woken'
    BY <1>1, <2>1, <2>3, <2>5 DEF IInv, Woken, net
  <2> QED
    BY <2>5, <2>6, <2>7, <2>8, <2>9 DEF IInv
<1>9. ASSUME NEW a \in Clients, DataReceived(a) PROVE IInv'
  <2>1. /\ a \in cur /\ a \in clients /\ \A b \in cur : b = a
        /\ UNCHANGED <<net, clients, todo, lstop, control, history>>
    BY <1>1, <1>9 DEF DataReceived, IInv, Current
  <2>2. handler[a] \in Handlers
    BY <1>1
  <2>3. CASE lpc = "deliver" /\ lpc' = "post" /\ UNCHANGED cur
             /\ handler' = [handler EXCEPT ![a].in = TRUE]
    <3> DEFINE h == handler[a]
               g == [h EXCEPT !.in = TRUE]
    <3>1. /\ g \in Handlers /\ Touched(h, g) /\ g.out = h.out /\ g.aux = h.aux
      BY <2>2 DEF Handlers, Touched
    <3>2. handler' = [handler EXCEPT ![a] = g]
      BY <2>3
    <3> HIDE DEF g
    <3>3. /\ Objects' /\ handler'[a] = g
          /\ \A b \in Clients \ {a} : handler'[b] = handler[b]
      BY <1>1, <2>1, <3>1, <3>2, HandlerTouched DEF IInv, net
    <3>4. Server'
      BY <2>1, <2>3 DEF IInv, Server, ListenerPcs, net, control
    <3>5. Current'
      BY <1>1, <2>1, <2>3, <3>1, <3>3 DEF IInv, Current, Touched
    <3>6. Stopped'
      BY <2>3 DEF Stopped
    <3>7. Woken'
      BY <1>1, <2>1, <2>3, <3>1, <3>3 DEF IInv, Woken, Touched, net
    <3> QED
      BY <3>3, <3>4, <3>5, <3>6, <3>7 DEF IInv
  <2>4. CASE lpc = "post" /\ lpc' = "loop" /\ cur' = {}
             /\ handler' = [handler EXCEPT ![a].aux = Posted]
    <3> DEFINE h == handler[a]
               g == [h EXCEPT !.aux = Posted]
    <3>1. Posted \in 0..1 /\ (~connOriented => Posted = 1)
      BY DEF Posted
    <3>2. /\ g \in Handlers /\ Touched(h, g) /\ g.out = h.out /\ g.aux = Posted
          /\ g.in = h.in
      BY <2>2, <3>1 DEF Handlers, Touched
    <3>3. handler' = [handler EXCEPT ![a] = g]
      BY <2>4
    <3> HIDE DEF g
    <3>4. /\ Objects' /\ handler'[a] = g
          /\ \A b \in Clients \ {a} : handler'[b] = handler[b]
      BY <1>1, <2>1, <3>2, <3>3, HandlerTouched DEF IInv, net
    <3>5. Server'
      BY <2>1, <2>4 DEF IInv, Server, ListenerPcs, net, control
    <3>6. Current'
      BY <1>1, <2>1, <2>4, <3>2, <3>4 DEF IInv, Current, Touched
    <3>7. Stopped'
      BY <2>4 DEF Stopped
    <3>8. Woken'
      BY <1>1, <2>1, <2>4, <3>1, <3>2, <3>4 DEF IInv, Woken, Touched, net
    <3> QED
      BY <3>4, <3>5, <3>6, <3>7, <3>8 DEF IInv
  <2> QED
    BY <1>9, <2>3, <2>4 DEF DataReceived
<1>10. ASSUME NEW a \in Clients, ClientStop(a) PROVE IInv'
  <2>1. /\ lpc = "exit" /\ cur = {} /\ todo' = todo \ {a}
        /\ UNCHANGED <<net, clients, lstop, control, history>>
    BY <1>10 DEF ClientStop, IInv, Current
  <2>2. CASE a \in Removable(clients)
    <3> DEFINE h == handler[a]
               g == [h EXCEPT !.stop = TRUE, !.aux = Posted]
    <3>1. /\ lpc' = "join" /\ cur' = {a} /\ a \in clients
          /\ handler' = [handler EXCEPT ![a] = g]
      <4>1. handler' = [handler EXCEPT ![a].stop = TRUE, ![a].aux = Posted]
        BY <1>10, <2>2 DEF ClientStop
      <4>2. handler' = [handler EXCEPT ![a] = g]
        BY <1>1, <4>1
      <4> QED
        BY <1>10, <2>2, <4>2 DEF ClientStop, Removable
    <3>2. Posted \in 0..1 /\ (~connOriented => Posted = 1)
      BY DEF Posted
    <3>3. h \in Handlers
      BY <1>1
    <3>4. /\ g \in Handlers /\ Touched(h, g) /\ g.out = h.out /\ g.aux = Posted
          /\ g.in = h.in
      BY <3>2, <3>3 DEF Handlers, Touched
    <3> HIDE DEF g
    <3>5. /\ Objects' /\ handler'[a] = g
          /\ \A b \in Clients \ {a} : handler'[b] = handler[b]
      BY <1>1, <2>1, <3>1, <3>4, HandlerTouched DEF IInv, net
    <3>6. Server'
      BY <2>1, <3>1 DEF IInv, Server, ListenerPcs, net, control
    <3>7. Current'
      BY <1>1, <2>1, <3>1, <3>4, <3>5 DEF IInv, Current, Touched
    <3>8. Stopped'
      BY <1>1, <2>1, <3>1, <3>4, <3>5 DEF IInv, Stopped, Touched
    <3>9. Woken'
      BY <1>1, <2>1, <3>1, <3>2, <3>4, <3>5 DEF IInv, Woken, Touched, net
    <3> QED
      BY <3>5, <3>6, <3>7, <3>8, <3>9 DEF IInv
  <2>3. CASE a \notin Removable(clients)
    <3>1. UNCHANGED <<handler, lpc, cur>>
      BY <1>10, <2>3 DEF ClientStop
    <3>2. Stopped'
      BY <2>1, <2>3, <3>1 DEF IInv, Stopped, Removable
    <3>3. arrived' \subseteq Clients /\ todo' \subseteq Clients /\ cur' = {}
      BY <1>1, <2>1, <3>1 DEF IInv, Server, net
    <3> QED
      BY <1>2, <2>1, <3>1, <3>2, <3>3 DEF net
  <2> QED
    BY <2>2, <2>3
<1>11. ASSUME NEW a \in Clients, ClientErase(a) PROVE IInv'
  <2>1. /\ lpc = "join" /\ a \in cur /\ a \in clients /\ clients' = clients \ {a}
        /\ handler' = [handler EXCEPT ![a] = Absent]
        /\ lpc' = "exit" /\ cur' = {} /\ \A b \in cur : b = a
        /\ queued' = [queued EXCEPT ![a] = 0] /\ sent' = [sent EXCEPT ![a] = <<>>]
        /\ UNCHANGED <<net, todo, lstop, control>>
    BY <1>1, <1>11 DEF ClientErase, IInv, Current
  <2>2. Cardinality(clients') <= MaxConn
    <3>1. Cardinality(clients \ {a}) = Cardinality(clients) - 1
      BY <1>1, <2>1, FS_RemoveElement
    <3>2. Cardinality(clients) <= MaxConn
      BY DEF IInv, Server
    <3> QED
      BY <1>1, <2>1, <3>1, <3>2
  <2>3. Server'
    BY <1>1, <2>1, <2>2 DEF IInv, Server, ListenerPcs, net, control
  <2>4. /\ Absent \in Handlers /\ Absent.place = "ended" /\ ~Absent.alive
        /\ ~Absent.connected /\ ~Absent.in
        /\ Absent.out = <<>> /\ Absent.copy = <<>> /\ Absent.wcnt = 0
    BY <1>1, AbsentFields
  <2> DEFINE f == Absent
  <2>5. f = Absent /\ Absent' = Absent
    BY <2>1 DEF net, Absent, Fresh
  <2> HIDE DEF f
  <2>6. /\ handler' \in [Clients -> Handlers] /\ handler'[a] = f
        /\ \A b \in Clients \ {a} : handler'[b] = handler[b]
    BY <1>1, <2>1, <2>4, <2>5
  <2>7. Sound(f, <<>>, 0)
    <3>1. Aged(f)
      BY <2>4, <2>5 DEF Aged
    <3>2. Len(<<>>) = 0 /\ <<>> \in Seq(Units) /\ 0 \in 0..MaxSends /\ MaxSends \in Nat
      BY ServerAssumption
    <3>3. Flow(f, <<>>, 0)
      BY <2>4, <2>5, <3>2 DEF Flow
    <3> QED
      BY <2>4, <2>5, <3>1, <3>2, <3>3 DEF Sound
  <2>8. Objects'
    <3>1. /\ sent' \in [Clients -> Seq(Units)] /\ sent'[a] = <<>>
          /\ queued' \in [Clients -> 0..MaxSends] /\ queued'[a] = 0
          /\ \A b \in Clients \ {a} : sent'[b] = sent[b] /\ queued'[b] = queued[b]
      BY <1>1, <2>1, <2>7, ServerAssumption DEF IInv, Objects, Sound
    <3>2. \A b \in Clients : Sound(handler'[b], sent'[b], queued'[b])
      BY <2>6, <2>7, <3>1 DEF IInv, Objects
    <3>3. \A b \in Clients \ clients' : handler'[b] = Absent
      BY <2>1, <2>5, <2>6 DEF IInv, Objects
    <3>4. \A b \in clients' :
            Len(sent'[b]) + Len(handler'[b].out) - handler'[b].wcnt = queued'[b]
      BY <1>1, <2>1, <2>6, <3>1 DEF IInv, Objects
    <3> QED
      BY <2>1, <2>5, <2>6, <3>1, <3>2, <3>3, <3>4 DEF IInv, Objects
  <2>9. Current'
    BY <2>1, <2>4, <2>5, <2>6 DEF IInv, Current
  <2>10. Stopped'
    BY <1>1, <2>1, <2>6 DEF IInv, Stopped
  <2>11. Woken'
    BY <1>1, <2>1, <2>4, <2>5, <2>6 DEF IInv, Woken, net
  <2> QED
    BY <2>3, <2>8, <2>9, <2>10, <2>11 DEF IInv
<1> QED
  BY <1>3, <1>4, <1>5, <1>6, <1>7, <1>8, <1>9, <1>10, <1>11 DEF Listener

-----------------------------------------------------------------------------
(* The invariant and what follows from it                                  *)

LEMMA InitHolds ==
    ASSUME Init
    PROVE  IInv
<1>1. /\ MaxConn \in Nat \ {0} /\ MaxSends \in Nat /\ MaxOpens \in Nat
      /\ connOriented \in BOOLEAN
  BY ServerAssumption DEF Init
<1>2. /\ Absent \in Handlers /\ Absent.place = "ended" /\ ~Absent.alive
      /\ ~Absent.connected /\ ~Absent.in
      /\ Absent.out = <<>> /\ Absent.copy = <<>> /\ Absent.wcnt = 0
  BY <1>1, AbsentFields
<1>3. Cardinality({}) = 0
  BY FS_EmptySet
<1>4. Server
  <2>1. clients = {} /\ Cardinality(clients) <= MaxConn
    BY <1>1, <1>3 DEF Init
  <2>2. /\ lpc \in ListenerPcs /\ cur = {} /\ todo = {} /\ lstop \in BOOLEAN
        /\ app \in {"idle", "closing"} /\ arrived = {}
    BY DEF Init, ListenerPcs
  <2>3. opens \in 0..MaxOpens
    BY <1>1 DEF Init
  <2> QED
    BY <1>1, <2>1, <2>2, <2>3 DEF Server
<1> DEFINE f == Absent
<1>5. f = Absent
  OBVIOUS
<1> HIDE DEF f
<1>6. /\ \A a \in Clients : handler[a] = f /\ sent[a] = <<>> /\ queued[a] = 0
      /\ handler \in [Clients -> Handlers] /\ sent \in [Clients -> Seq(Units)]
      /\ queued \in [Clients -> 0..MaxSends] /\ clients = {} /\ cur = {}
  BY <1>1, <1>2, <1>5 DEF Init
<1>7. Sound(f, <<>>, 0)
  <2>1. Len(<<>>) = 0 /\ <<>> \in Seq(Units) /\ 0 \in 0..MaxSends
    BY <1>1
  <2>2. Aged(f)
    BY <1>2, <1>5 DEF Aged
  <2>3. Flow(f, <<>>, 0)
    BY <1>1, <1>2, <1>5, <2>1 DEF Flow
  <2> QED
    BY <1>2, <1>5, <2>1, <2>2, <2>3 DEF Sound
<1>8. Objects
  BY <1>5, <1>6, <1>7 DEF Objects
<1>9. Current /\ Stopped /\ Woken
  BY <1>2, <1>5, <1>6 DEF Current, Stopped, Woken
<1> QED
  BY <1>4, <1>8, <1>9 DEF IInv

LEMMA Invariance == Spec => []IInv
<1>1. Init => IInv
  BY InitHolds
<1>2. IInv /\ [Next]_vars => IInv'
  <2> SUFFICES ASSUME IInv, [Next]_vars PROVE IInv'
    OBVIOUS
  <2>1. CASE UNCHANGED vars
    <3>1. Objects'
      BY <2>1, ObjectsKept DEF IInv, vars, net
    <3>2. Server' /\ Current' /\ Stopped' /\ Woken'
      BY <2>1 DEF IInv, Server, Current, Stopped, Woken, vars, net, listener, control
    <3> QED
      BY <3>1, <3>2 DEF IInv
  <2> QED
    BY <2>1, ListenerStep, ApplicationStep, HandlerStep, PeerStep DEF Next
<1> QED
  BY <1>1, <1>2, PTL DEF Spec

\* Every variable keeps its type: no time to live becomes negative, no buffer
\* holds more than was queued.
THEOREM TypeCorrect == Spec => []TypeOK
<1>1. IInv => TypeOK
  <2> SUFFICES ASSUME IInv PROVE TypeOK
    OBVIOUS
  <2>1. ASSUME NEW a \in Clients
        PROVE  /\ handler[a].place \in Places /\ handler[a].ttl \in 0..Ttl
               /\ handler[a].aux \in 0..1 /\ handler[a].wcnt \in 0..MaxSends
               /\ {handler[a].out, handler[a].copy, sent[a]} \subseteq Prefixes
    <3> DEFINE h == handler[a]
               x == Len(sent[a])
               y == Len(h.out)
               w == h.wcnt
               q == queued[a]
    <3>1. h \in Handlers /\ Sound(h, sent[a], q)
      BY DEF IInv, Objects
    <3>2. /\ h.place \in Places /\ h.ttl \in 0..Ttl /\ h.aux \in 0..1
          /\ h.wcnt \in 0..MaxSends
          /\ h.out \in Seq(Units) /\ h.copy \in Seq(Units) /\ sent[a] \in Seq(Units)
      BY <3>1 DEF Handlers, Sound
    <3>3. x + y - w <= q /\ w <= y /\ w <= x /\ Len(h.copy) <= MaxSends
      BY <3>1 DEF Sound, Flow
    <3>4. x \in Nat /\ y \in Nat /\ w \in Nat /\ q \in 0..MaxSends /\ MaxSends \in Nat
      BY <3>1, <3>2, ServerAssumption DEF Sound
    <3>5. x <= MaxSends /\ y <= MaxSends
      <4> HIDE DEF x, y, w, q
      <4> QED
        BY <3>3, <3>4
    <3>6. ASSUME NEW u \in Seq(Units), Len(u) <= MaxSends PROVE u \in Prefixes
      <4>1. u \in [1..Len(u) -> Units] /\ Len(u) \in 0..MaxSends
        BY <3>4, <3>6, LenProperties
      <4> QED
        BY <4>1 DEF Prefixes
    <3> QED
      BY <3>2, <3>3, <3>5, <3>6
  <2>2. clients \subseteq Clients /\ cur \subseteq Clients /\ queued \in [Clients -> 0..MaxSends]
    BY DEF IInv, Server, Objects
  <2> QED
    BY <2>1, <2>2 DEF IInv, Server, TypeOK
<1> QED
  BY <1>1, Invariance, PTL

\* No more handler threads run than m_listenerMaxIncomingConn, and each is in
\* m_clients, whatever ends, is accepted or closed meanwhile.
THEOREM BoundedHandlers == Spec => []HandlersBounded
<1>1. IInv => HandlersBounded
  <2> SUFFICES ASSUME IInv PROVE HandlersBounded
    OBVIOUS
  <2> DEFINE running == {a \in Clients : handler[a].place # "ended"}
  <2>1. running \subseteq clients
    BY AbsentFields DEF IInv, Server, Objects
  <2>2. /\ IsFiniteSet(clients) /\ Cardinality(clients) <= MaxConn
        /\ Cardinality(clients) \in Nat
    BY ServerAssumption, FS_Subset, FS_CardinalityType DEF IInv, Server
  <2> HIDE DEF running
  <2>3. Cardinality(running) <= Cardinality(clients) /\ Cardinality(running) \in Nat
    BY <2>1, <2>2, FS_Subset, FS_CardinalityType
  <2>4. Cardinality(running) <= MaxConn
    BY <2>2, <2>3, ServerAssumption
  <2> QED
    BY <2>1, <2>4 DEF HandlersBounded, running
<1> QED
  BY <1>1, Invariance, PTL

\* After close() no handler calls the application back, though clientRemove()
\* does not wait for those whose m_alive is reset.
THEOREM Quiet == Spec => []QuietAfterClose
<1>1. IInv => QuietAfterClose
  <2> SUFFICES ASSUME IInv, lpc = "none", NEW a \in Clients
               PROVE  handler[a].place \in {"final", "ended"}
    BY DEF QuietAfterClose
  <2>1. ~handler[a].alive
    BY AbsentFields DEF IInv, Server, Objects, Stopped
  <2> QED
    BY <2>1 DEF IInv, Objects, Sound, Aged
<1> QED
  BY <1>1, Invariance, PTL

\* Whatever is queued while response() sends a copy of m_out reaches the
\* client's socket once and in order.
THEOREM OutputOrdered == Spec => []OutputInOrder
<1>1. IInv => OutputInOrder
  <2> SUFFICES ASSUME IInv, NEW a \in clients
               PROVE  LET h == handler[a] IN
                      sent[a] \o SubSeq(h.out, h.wcnt + 1, Len(h.out))
                      = [n \in 1..queued[a] |-> n]
    BY DEF OutputInOrder
  <2> DEFINE h == handler[a]
             s == sent[a]
             x == Len(s)
             y == Len(h.out)
             w == h.wcnt
             q == queued[a]
             o == SubSeq(h.out, w + 1, y)
             all == [n \in 1..q |-> n]
  <2>1. /\ Sound(h, s, q) /\ x + y - w = q
    BY DEF IInv, Server, Objects
  <2>2. /\ s \in Seq(Units) /\ h.out \in Seq(Units) /\ q \in 0..MaxSends
        /\ x \in Nat /\ y \in Nat /\ w \in Nat /\ q \in Nat /\ MaxSends \in Nat
    <3>1. h \in Handlers /\ s \in Seq(Units) /\ q \in 0..MaxSends
      BY <2>1 DEF Sound
    <3>2. h.out \in Seq(Units) /\ w \in 0..MaxSends
      BY <3>1 DEF Handlers
    <3>3. MaxSends \in Nat
      BY ServerAssumption
    <3> HIDE DEF h, s, q, w
    <3>4. x \in Nat /\ y \in Nat
      BY <3>1, <3>2
    <3>5. w \in Nat /\ q \in Nat
      BY <3>1, <3>2, <3>3
    <3> QED
      BY <3>1, <3>2, <3>3, <3>4, <3>5
  <2>3. /\ w <= y /\ w <= x
        /\ \A i \in 1..x : s[i] = i
        /\ \A i \in 1..y : h.out[i] = x - w + i
    BY <2>1 DEF Sound, Flow
  <2> HIDE DEF h, q, w
  <2>4. /\ o \in Seq(Units) /\ Len(o) = y - w
        /\ \A i \in 1..(y - w) : o[i] = h.out[w + i]
    <3>1. \A i \in (w + 1)..y : h.out[i] \in Units
      BY <2>2, ElementOfSeq
    <3>2. w + 1 \in Int /\ y \in Int
      BY <2>2
    <3>3. /\ o \in Seq(Units)
          /\ Len(o) = (IF w + 1 <= y THEN y - (w + 1) + 1 ELSE 0)
          /\ \A i \in 1..(y - (w + 1) + 1) : o[i] = h.out[(w + 1) + i - 1]
      BY <3>1, <3>2, SubSeqProperties
    <3> HIDE DEF o, y
    <3>4. y - (w + 1) + 1 = y - w
      BY <2>2
    <3>5. ASSUME NEW i \in 1..(y - w) PROVE o[i] = h.out[w + i]
      <4>1. (w + 1) + i - 1 = w + i
        BY <2>2
      <4> QED
        BY <3>3, <3>4, <4>1
    <3>6. Len(o) = y - w
      BY <2>2, <2>3, <3>3
    <3> QED
      BY <3>3, <3>5, <3>6
  <2> HIDE DEF o
  <2>5. /\ s \o o \in Seq(Units) /\ Len(s \o o) = x + Len(o)
        /\ \A i \in 1..(x + Len(o)) : (s \o o)[i] = IF i <= x THEN s[i] ELSE o[i - x]
    BY <2>2, <2>4, ConcatProperties
  <2>6. all \in Seq(Units) /\ Len(all) = q /\ \A i \in 1..q : all[i] = i
    BY <2>2 DEF Units
  <2> HIDE DEF all, x, y
  <2>7. x + Len(o) = q
    BY <2>1, <2>2, <2>4
  <2>8. ASSUME NEW i \in 1..q PROVE (s \o o)[i] = all[i]
    <3>1. CASE i <= x
      BY <2>2, <2>3, <2>5, <2>6, <2>7, <3>1
    <3>2. CASE ~(i <= x)
      <4>1. /\ i - x \in 1..(y - w) /\ w + (i - x) \in 1..y
            /\ x - w + (w + (i - x)) = i
        BY <2>2, <2>3, <2>4, <2>7, <3>2
      <4>2. (s \o o)[i] = h.out[w + (i - x)]
        BY <2>4, <2>5, <2>7, <3>2, <4>1
      <4> QED
        BY <2>3, <2>6, <4>1, <4>2
    <3> QED
      BY <3>1, <3>2
  <2>9. s \o o = all
    <3>1. Len(s \o o) = Len(all) /\ \A i \in 1..Len(s \o o) : (s \o o)[i] = all[i]
      BY <2>5, <2>6, <2>7, <2>8
    <3> QED
      BY <2>5, <2>6, <3>1, SeqEqual
  <2> QED
    BY <2>9 DEF h, o, w, y, q, all
<1> QED
  BY <1>1, Invariance, PTL

\* A datagram handler that waits for m_aux with input or output at hand has a
\* token, or dataReceived() is about to post it.
THEOREM Wakes == Spec => []AuxWakes
<1>1. IInv => AuxWakes
  BY DEF IInv, Woken, AuxWakes
<1> QED
  BY <1>1, Invariance, PTL
=============================================================================
