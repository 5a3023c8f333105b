--------------------------- MODULE EsSocketServer ---------------------------
(* EsSocketServer (escomm/EsSocketServer.cpp): a listener thread that      *)
(* accepts clients and registers one handler thread for each, up to a      *)
(* limit; an application that opens and closes the server and queues       *)
(* output; and the peers.  Listener and handlers are EsThreads: start()    *)
(* returns with the worker running, stopAndWait() waits for its end.       *)
(* Data are numbered: the n-th unit queued for a client is n.              *)
EXTENDS Naturals, Sequences, FiniteSets

CONSTANTS Clients,   \* peers' addresses
          Modes,     \* values of m_connOriented: stream or datagram servers
          MaxConn,   \* m_listenerMaxIncomingConn
          Ttl,       \* m_handlerTtl, in idle periods of a handler
          MaxSends,  \* bound: units queued for a client
          MaxOpens   \* bound: open() calls that start the listener

ASSUME ServerAssumption ==
    /\ IsFiniteSet(Clients)
    /\ Modes \subseteq BOOLEAN
    /\ {MaxConn, Ttl} \subseteq Nat \ {0}
    /\ {MaxSends, MaxOpens} \subseteq Nat

VARIABLES
    connOriented, \* m_connOriented
    clients,      \* keys of m_clients
    handler,      \* the Handler object of each address, Absent if none
    lpc, cur,     \* where the listener thread is, and with which client: {}
                  \* or one
    todo,         \* clients onExitWorker() has still to remove
    lstop,        \* the listener was asked to stop
    app,          \* "idle", or "closing" while close() waits
    opens,        \* how often the listener was started
    arrived,      \* peers with a connection in the backlog or a datagram at
                  \* the listening socket
    queued,       \* history: units queued for the present handler
    sent          \* history: units its socket took

net      == <<connOriented, arrived>>
history  == <<queued, sent>>
listener == <<lpc, cur, todo, lstop>>
control  == <<app, opens>>
vars == <<net, clients, handler, listener, control, history>>

Places == {"created", "loop", "handle", "clear", "aux", "send", "erase",
           "idle", "exit", "closed", "final", "ended"}
ListenerPcs == {"none", "loop", "listen", "start", "deliver", "post", "exit",
                "join"}

\* m_ttl, m_alive, m_disconnected, m_io's connection, m_stop, m_aux, whether
\* input waits, m_out, response()'s copy of it and what was sent of the copy.
Fresh == [place |-> "created", ttl |-> Ttl, alive |-> TRUE,
          disconnected |-> FALSE, connected |-> connOriented,
          broken |-> FALSE, stop |-> FALSE, aux |-> 0, in |-> FALSE,
          handled |-> FALSE, out |-> <<>>, copy |-> <<>>, wcnt |-> 0]
Absent == [Fresh EXCEPT !.place = "ended", !.alive = FALSE, !.connected = FALSE]

Units == 1..MaxSends
Prefixes == UNION {[1..n -> Units] : n \in 0..MaxSends}

TypeOK ==
    /\ connOriented \in BOOLEAN
    /\ clients \subseteq Clients
    /\ lpc \in ListenerPcs
    /\ cur \subseteq Clients
    /\ todo \subseteq Clients
    /\ lstop \in BOOLEAN
    /\ app \in {"idle", "closing"}
    /\ opens \in 0..MaxOpens
    /\ arrived \subseteq Clients
    /\ queued \in [Clients -> 0..MaxSends]
    /\ \A a \in Clients :
          /\ handler[a].place \in Places
          /\ handler[a].ttl \in 0..Ttl
          /\ handler[a].aux \in 0..1
          /\ handler[a].wcnt \in 0..MaxSends
          /\ {handler[a].out, handler[a].copy, sent[a]} \subseteq Prefixes

Init ==
    /\ connOriented \in Modes
    /\ clients = {}
    /\ handler = [a \in Clients |-> Absent]
    /\ lpc = "none"
    /\ cur = {}
    /\ todo = {}
    /\ lstop = FALSE
    /\ app = "idle"
    /\ opens = 0
    /\ arrived = {}
    /\ queued = [a \in Clients |-> 0]
    /\ sent = [a \in Clients |-> <<>>]

-----------------------------------------------------------------------------
(* The application                                                         *)

\* doOpen() with the listener stopped.  With it running, or when bind() or
\* listen() fails, it returns and leaves the server as it is: a stuttering step.
Open ==
    /\ app = "idle" /\ lpc = "none" /\ opens < MaxOpens
    /\ opens' = opens + 1
    /\ lpc' = "loop"
    /\ lstop' = FALSE
    /\ UNCHANGED <<net, clients, handler, cur, todo, app, history>>

\* close(): m_listener.stopAndWait(), and m_impl is deleted.
Close ==
    /\ app = "idle" /\ lpc # "none"
    /\ app' = "closing"
    /\ lstop' = TRUE
    /\ UNCHANGED <<net, clients, handler, lpc, cur, todo, opens, history>>

CloseReturn ==
    /\ app = "closing" /\ lpc = "none"
    /\ app' = "idle"
    /\ UNCHANGED <<net, clients, handler, listener, opens, history>>

\* m_aux after a post(); a stream handler never waits for it.
Posted == IF connOriented THEN 0 ELSE 1

\* Faulty variant: m_aux is not posted.
OutDataSetSilent(a, units) == [handler[a] EXCEPT !.out = @ \o units]

\* outDataSet(): append to m_out under m_csout and post m_aux.
OutDataSet(a, units) ==
    [handler[a] EXCEPT !.out = @ \o units, !.aux = Posted]

\* send() queues on every registered handler, dead ones included.
Send ==
    /\ clients # {}
    /\ \A a \in clients : queued[a] < MaxSends
    /\ handler' = [a \in Clients |->
          IF a \in clients THEN OutDataSet(a, <<queued[a] + 1>>)
                           ELSE handler[a]]
    /\ queued' = [a \in Clients |->
          IF a \in clients THEN queued[a] + 1 ELSE queued[a]]
    /\ UNCHANGED <<net, clients, listener, control, sent>>

\* sendTo(): if the handler was erased after clientGet() found it, what it
\* queues is never seen again; that is no step of this model.
SendTo(a) ==
    /\ a \in clients
    /\ queued[a] < MaxSends
    /\ handler' = [handler EXCEPT ![a] = OutDataSet(a, <<queued[a] + 1>>)]
    /\ queued' = [queued EXCEPT ![a] = @ + 1]
    /\ UNCHANGED <<net, clients, listener, control, sent>>

DisconnectedSet(a) ==
    /\ a \in clients
    /\ handler' = [handler EXCEPT ![a].disconnected = TRUE]
    /\ UNCHANGED <<net, clients, listener, control, history>>

-----------------------------------------------------------------------------
(* The peers: external                                                     *)

\* A connection request or a datagram reaches the listening socket.
PeerArrives(a) ==
    /\ lpc # "none"
    /\ ~handler[a].connected \/ handler[a].broken
    /\ arrived' = arrived \cup {a}
    /\ UNCHANGED <<connOriented, clients, handler, listener, control, history>>

PeerData(a) ==
    /\ handler[a].connected /\ ~handler[a].broken
    /\ handler' = [handler EXCEPT ![a].in = TRUE]
    /\ UNCHANGED <<net, clients, listener, control, history>>

\* The connection is gone; the socket tells with the next send only.
PeerBreaks(a) ==
    /\ handler[a].connected
    /\ handler' = [handler EXCEPT ![a].broken = TRUE]
    /\ UNCHANGED <<net, clients, listener, control, history>>

-----------------------------------------------------------------------------
(* The listener thread                                                     *)

\* clientRemove() returns early for a handler that is not alive.
Removable(S) == {a \in S : handler[a].alive}

\* The worker's loop: checkForStopping(), then disconnectedCleanup().
ListenerLoop ==
    LET dead == {a \in clients : ~handler[a].alive} IN
    /\ lpc = "loop"
    /\ IF lstop
       THEN /\ lpc' = "exit"
            /\ todo' = clients
            /\ UNCHANGED clients
       ELSE /\ lpc' = "listen"
            /\ clients' = clients \ Removable(dead)
            /\ UNCHANGED todo
    /\ UNCHANGED <<net, handler, cur, lstop, control, history>>

\* Nothing came for m_packetTmo.
ListenTimeout ==
    /\ lpc = "listen" /\ arrived = {}
    /\ lpc' = "loop"
    /\ UNCHANGED <<net, clients, handler, cur, todo, lstop, control, history>>

CanAddClient(a) == a \notin clients /\ Cardinality(clients) < MaxConn

\* connectionListen() and connectionlessListen(): handlerCreate() and
\* clientAdd() for a new client.
ClientAdd(a) ==
    /\ lpc = "listen"
    /\ a \in arrived /\ CanAddClient(a)
    /\ arrived' = arrived \ {a}
    /\ clients' = clients \cup {a}
    /\ handler' = [handler EXCEPT ![a] = Fresh]
    /\ queued' = [queued EXCEPT ![a] = 0]
    /\ sent' = [sent EXCEPT ![a] = <<>>]
    /\ lpc' = "start" /\ cur' = {a}
    /\ UNCHANGED <<connOriented, todo, lstop, control>>

\* A client that cannot be added is refused.  The connection of one that has
\* a handler is dropped with its EsSocket::Impl, its datagram delivered.
ClientKnown(a) ==
    /\ lpc = "listen"
    /\ a \in arrived /\ ~CanAddClient(a)
    /\ arrived' = arrived \ {a}
    /\ IF a \in clients /\ ~connOriented
       THEN lpc' = "deliver" /\ cur' = {a}
       ELSE lpc' = "loop" /\ UNCHANGED cur
    /\ UNCHANGED <<connOriented, clients, handler, todo, lstop, control, history>>

HandlerStart(a) ==
    /\ lpc = "start" /\ a \in cur
    /\ handler' = [handler EXCEPT ![a].place = "loop"]
    /\ IF connOriented THEN lpc' = "loop" /\ cur' = {}
                       ELSE lpc' = "deliver" /\ UNCHANGED cur
    /\ UNCHANGED <<net, clients, todo, lstop, control, history>>

\* dataReceived(): m_in is assigned without a lock, then m_aux posted.
DataReceived(a) ==
    /\ a \in cur
    /\ \/ /\ lpc = "deliver" /\ lpc' = "post" /\ UNCHANGED cur
          /\ handler' = [handler EXCEPT ![a].in = TRUE]
       \/ /\ lpc = "post" /\ lpc' = "loop" /\ cur' = {}
          /\ handler' = [handler EXCEPT ![a].aux = Posted]
    /\ UNCHANGED <<net, clients, todo, lstop, control, history>>

\* onExitWorker(): clientRemove() for every client.  stop(), m_aux.post() and
\* stopAndWait() for one that is alive, nothing for the others.
ClientStop(a) ==
    /\ lpc = "exit" /\ a \in todo
    /\ todo' = todo \ {a}
    /\ IF a \in Removable(clients)
       THEN /\ handler' = [handler EXCEPT ![a].stop = TRUE, ![a].aux = Posted]
            /\ lpc' = "join" /\ cur' = {a}
       ELSE UNCHANGED <<handler, lpc, cur>>
    /\ UNCHANGED <<net, clients, lstop, control, history>>

\* Faulty variant: the end of the handler's thread is not waited for.
ClientEraseUnjoined(a) ==
    /\ lpc = "join" /\ a \in cur
    /\ clients' = clients \ {a}
    /\ lpc' = "exit" /\ cur' = {}
    /\ UNCHANGED <<net, handler, todo, lstop, control, history>>

ClientErase(a) ==
    /\ lpc = "join" /\ a \in cur
    /\ handler[a].place = "ended"
    /\ clients' = clients \ {a}
    /\ handler' = [handler EXCEPT ![a] = Absent]
    /\ queued' = [queued EXCEPT ![a] = 0]
    /\ sent' = [sent EXCEPT ![a] = <<>>]
    /\ lpc' = "exit" /\ cur' = {}
    /\ UNCHANGED <<net, todo, lstop, control>>

\* The listening socket is closed, the listener's thread ends.
ListenerEnd ==
    /\ lpc = "exit" /\ todo = {}
    /\ lpc' = "none"
    /\ arrived' = {}
    /\ UNCHANGED <<connOriented, clients, handler, cur, todo, lstop, control,
                   history>>

-----------------------------------------------------------------------------
(* A handler thread                                                        *)

Step(a, from, to) ==
    /\ handler[a].place = from
    /\ handler' = [handler EXCEPT ![a] = to]
    /\ UNCHANGED <<net, clients, listener, control, queued>>

At(a, place) == [handler[a] EXCEPT !.place = place]

\* Faulty variant: m_stop is not looked at.
LoopUnstoppable(a) ==
    LET h == handler[a]
        goesOn == /\ h.ttl > 0 /\ ~h.disconnected
                  /\ connOriented => h.connected
    IN  /\ Step(a, "loop", At(a, IF goesOn THEN "handle" ELSE "exit"))
        /\ UNCHANGED sent

\* The condition of worker()'s loop, and the test of the connection.
Loop(a) ==
    LET h == handler[a]
        goesOn == /\ h.ttl > 0 /\ ~h.disconnected /\ ~h.stop
                  /\ connOriented => h.connected
    IN  /\ Step(a, "loop", At(a, IF goesOn THEN "handle" ELSE "exit"))
        /\ UNCHANGED sent

\* m_io is closed: nothing can be received from a stream any more.
IoClosed(h) == [h EXCEPT !.connected = FALSE, !.broken = FALSE,
                         !.in = @ /\ ~connOriented]

\* disconnectionDetect(): the error of a broken connection may be one that
\* closes m_io.
Detected(h) == {h} \cup IF h.broken THEN {IoClosed(h)} ELSE {}

\* Data was handled and the immediate response sent.
Responded(h) ==
    Detected([h EXCEPT !.ttl = Ttl, !.handled = TRUE, !.in = FALSE])

\* onClientDataReceived() with what the socket or m_in holds.
Handle(a) ==
    LET h == handler[a] IN
    /\ \/ ~h.in /\ Step(a, "handle", At(a, "aux"))
       \/ /\ h.in /\ connOriented
          /\ \E r \in Responded(At(a, "aux")) : Step(a, "handle", r)
       \/ h.in /\ ~connOriented /\ Step(a, "handle", At(a, "clear"))
    /\ UNCHANGED sent

\* m_in.clear() takes along what dataReceived() put there meanwhile.
Clear(a) ==
    /\ \E r \in Responded(At(a, "aux")) : Step(a, "clear", r)
    /\ UNCHANGED sent

\* Back to the loop; the locals of this turn are gone.
Unsent(a) == [At(a, IF handler[a].handled THEN "loop" ELSE "idle") EXCEPT
                 !.handled = FALSE, !.copy = <<>>, !.wcnt = 0]

\* Faulty variant: no scheduled output in a turn that handled input.
AuxUnlessHandled(a) ==
    LET out == handler[a].out IN
    /\ Step(a, "aux", IF out = <<>> \/ handler[a].handled THEN Unsent(a)
                      ELSE [At(a, "send") EXCEPT !.copy = out])
    /\ UNCHANGED sent

\* response() for the scheduled output: m_out is copied under m_csout.
Aux(a) ==
    LET out == handler[a].out IN
    /\ Step(a, "aux", IF out = <<>> THEN Unsent(a)
                      ELSE [At(a, "send") EXCEPT !.copy = out])
    /\ UNCHANGED sent

\* The first n units of the copy are sent.  A stream may break before the
\* rest: then disconnectionDetect() closes m_io all the same.
Taken(a, n) ==
    LET h == [At(a, "erase") EXCEPT !.ttl = Ttl, !.wcnt = n]
    IN  {h} \cup IF connOriented /\ n < Len(h.copy) THEN {IoClosed(h)} ELSE {}

\* The socket takes the first units of the copy.
SendSome(a) ==
    LET h == handler[a] IN
    /\ connOriented => h.connected /\ ~h.broken
    /\ \E n \in 1..Len(h.copy) :
          /\ \E r \in Taken(a, n) : Step(a, "send", r)
          /\ sent' = [sent EXCEPT ![a] = @ \o SubSeq(h.copy, 1, n)]

SendNone(a) ==
    /\ \E h \in Detected(Unsent(a)) : Step(a, "send", h)
    /\ UNCHANGED sent

\* Faulty variant: m_out is cleared.
EraseAll(a) ==
    /\ Step(a, "erase", [At(a, "loop") EXCEPT
           !.out = <<>>, !.handled = FALSE, !.copy = <<>>, !.wcnt = 0])
    /\ UNCHANGED sent

\* What was sent is erased from m_out, to which more was appended meanwhile.
Erase(a) ==
    LET h == handler[a] IN
    /\ Step(a, "erase", [At(a, "loop") EXCEPT
           !.out = SubSeq(h.out, h.wcnt + 1, Len(h.out)),
           !.handled = FALSE, !.copy = <<>>, !.wcnt = 0])
    /\ UNCHANGED sent

\* Faulty variants: m_ttl is not clamped at 0, or not decremented.
IdleUnclamped(a) ==
    /\ Step(a, "idle", [At(a, "loop") EXCEPT !.ttl = @ - 2])
    /\ UNCHANGED sent

IdleAgeless(a) == Step(a, "idle", At(a, "loop")) /\ UNCHANGED sent

\* Nothing was handled or sent: a stream handler sleeps and ages.  A datagram
\* handler waits for m_aux; a token is taken and posted again, and the handler
\* does not age.
Idle(a) ==
    LET woken == ~connOriented /\ handler[a].aux = 1 IN
    /\ Step(a, "idle", [At(a, "loop") EXCEPT !.ttl = IF woken THEN @ ELSE @ - 1])
    /\ UNCHANGED sent

\* Faulty variant: m_alive is reset with m_disconnected.
ExitWorkerDead(a) ==
    /\ Step(a, "exit", [IoClosed(At(a, "closed")) EXCEPT !.disconnected = TRUE,
                                                         !.alive = FALSE])
    /\ UNCHANGED sent

\* onExitWorker(): onClientClosing(), m_io is closed, m_disconnected set;
\* onClientClosed(), then m_alive reset.
ExitWorker(a) ==
    /\ Step(a, "exit", [IoClosed(At(a, "closed")) EXCEPT !.disconnected = TRUE])
    /\ UNCHANGED sent

ClientClosed(a) ==
    /\ Step(a, "closed", [At(a, "final") EXCEPT !.alive = FALSE])
    /\ UNCHANGED sent

ThreadEnd(a) == Step(a, "final", At(a, "ended")) /\ UNCHANGED sent

-----------------------------------------------------------------------------
Handler(a) ==
    \/ Loop(a) \/ Handle(a) \/ Clear(a) \/ Aux(a) \/ SendSome(a) \/ SendNone(a)
    \/ Erase(a) \/ Idle(a) \/ ExitWorker(a) \/ ClientClosed(a) \/ ThreadEnd(a)

Listener ==
    \/ ListenerLoop \/ ListenTimeout \/ ListenerEnd
    \/ \E a \in Clients : \/ ClientAdd(a) \/ ClientKnown(a) \/ HandlerStart(a)
                         \/ DataReceived(a) \/ ClientStop(a) \/ ClientErase(a)

Application ==
    \/ Open \/ Close \/ CloseReturn \/ Send
    \/ \E a \in Clients : SendTo(a) \/ DisconnectedSet(a)

Peer(a) == PeerArrives(a) \/ PeerData(a) \/ PeerBreaks(a)

Next == \/ Listener
        \/ Application
        \/ \E a \in Clients : Handler(a) \/ Peer(a)

Spec == Init /\ [][Next]_vars

\* The threads run on, and a socket that is offered data again and again takes
\* some.  Nothing is assumed of the application and the peers.
FairSpec ==
    /\ Spec
    /\ WF_vars(Listener \/ CloseReturn)
    /\ \A a \in Clients : WF_vars(Handler(a)) /\ SF_vars(SendSome(a))

-----------------------------------------------------------------------------
\* The server never runs more handler threads than its limit, though close()
\* gives the places of live clients to those that come after the next open(),
\* and leaves the entries of dead ones behind, unjoined; and each runs under
\* its address in m_clients, where close() will find it.
HandlersBounded ==
    LET running == {a \in Clients : handler[a].place # "ended"}
    IN  Cardinality(running) <= MaxConn /\ running \subseteq clients

\* Once close() has returned no handler calls the server back any more, not
\* even one that was on its way out and that close() did not wait for.
QuietAfterClose ==
    app = "idle" /\ lpc = "none"
    => \A a \in Clients : handler[a].place \in {"final", "ended"}

\* What is queued for a client reaches its socket once and in order, though
\* response() sends a copy and erases from a buffer that may have grown.
OutputInOrder ==
    \A a \in clients :
        LET h == handler[a] IN
        sent[a] \o SubSeq(h.out, h.wcnt + 1, Len(h.out)) = [n \in 1..queued[a] |-> n]

\* A datagram handler does not fall asleep on work: the post that announces
\* it is there, or about to come.
AuxWakes ==
    \A a \in clients :
        LET h == handler[a] IN
        ~connOriented /\ h.place = "idle" /\ (h.in \/ h.out # <<>>)
        => h.aux = 1 \/ (lpc = "post" /\ a \in cur)

\* close() returns, whatever the handlers are doing.
CloseReturns == app = "closing" ~> app = "idle"

\* Output queued for a live client leaves, or the handler dies.
QueuedSent ==
    \A a \in Clients :
        handler[a].out # <<>> ~> handler[a].out = <<>> \/ ~handler[a].alive

\* A registered stream client has something to do time and again, or its
\* handler dies: the session's time to live runs out.
IdleConnectionExpires ==
    \A a \in Clients :
        connOriented /\ a \in clients ~> \/ ~handler[a].alive
                                         \/ handler[a].in
                                         \/ handler[a].out # <<>>

-----------------------------------------------------------------------------
(* What a test says                                                        *)

\* testEsSocketServer.cc, after the clients were closed and before the server
\* is: "Check all clients have disconnected", clientsCountGet() is 0.
DisconnectedRemoved ==
    \A a \in Clients :
        a \in clients /\ ~handler[a].alive ~> a \notin clients \/ lstop
=============================================================================
