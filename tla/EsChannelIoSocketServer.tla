---------------------- MODULE EsChannelIoSocketServer ----------------------
(* EsChannelIoSocketServer (escomm/EsChannelIoSocketServer.cpp): a byte     *)
(* channel over an EsSocketServer with room for one client.  The client's   *)
(* handler thread appends what arrives to m_in; bytesGet() waits for a      *)
(* token the handler posts when m_in is exactly as long as the read asked   *)
(* for.  The server is used as EsSocketServer shows it: one handler, chunks *)
(* in order, no callback once close() has returned, and no second client    *)
(* after the first one left.  The channel has one caller at a time, who     *)
(* holds the channel's lock (cLock()); then only that caller takes tokens,  *)
(* and the semaphore of limit 1 is atomic.  Bytes are numbered as they come.*)
EXTENDS Naturals, Sequences, SequencesExt

CONSTANTS Lens,      \* lengths asked for
          MaxBytes,  \* bound: bytes that arrive
          MaxOpens   \* bound: open() calls that start the server

ASSUME ChannelAssumption ==
    /\ Lens \subseteq Nat \ {0}
    /\ {MaxBytes, MaxOpens} \subseteq Nat

VARIABLES
    in,           \* m_in
    expectedLen,  \* m_expectedLen
    sin,          \* m_sin
    session,      \* the server: "closed", "listening", "client", "left"
    hpc, inlen,   \* where the handler is in onClientDataReceived(), and the
                  \* length of m_in it remembers
    pc, len,      \* where the caller is, and the length it asked for
    opens,        \* how often the server was opened
    came,         \* history: the bytes that arrived
    read,         \* history: the bytes bytesGet() returned
    dropped,      \* history: the bytes close() and reset() cleared
    had, clean    \* history of the present read: the bytes m_in had at its
                  \* start, and whether nothing was left over then: no token
                  \* there or on its way, nor a length that is outdated

handler == <<hpc, inlen>>
caller  == <<pc, len, had, clean>>
history == <<came, read, dropped>>
vars == <<in, expectedLen, sin, session, handler, caller, opens, history>>

\* 0xFFFFFFFF: more than m_in ever holds.
NoLength == MaxBytes + 1

Init ==
    /\ in = <<>> /\ expectedLen = 0 /\ sin = 0
    /\ session = "closed"
    /\ hpc = "idle" /\ inlen = 0
    /\ pc = "idle" /\ len = 0
    /\ opens = 0
    /\ came = 0 /\ read = <<>> /\ dropped = {}
    /\ had = 0 /\ clean = FALSE

-----------------------------------------------------------------------------
(* The server's threads                                                    *)

ClientAccepted ==
    /\ session = "listening"
    /\ session' = "client"
    /\ UNCHANGED <<in, expectedLen, sin, handler, caller, opens, history>>

\* The session ends, whoever ends it; the handler is in no callback.
ClientLeft ==
    /\ session = "client" /\ hpc = "idle"
    /\ session' = "left"
    /\ UNCHANGED <<in, expectedLen, sin, handler, caller, opens, history>>

\* onClientDataReceived(), under m_csin.  TCP cuts the stream as it likes.
DataReceived ==
    /\ session = "client" /\ hpc = "idle"
    /\ \E n \in 1..(MaxBytes - came) :
          /\ in' = in \o [i \in 1..n |-> came + i]
          /\ came' = came + n
    /\ hpc' = "compare" /\ inlen' = Len(in')
    /\ UNCHANGED <<expectedLen, sin, session, caller, opens, read, dropped>>

\* Faulty variants: a token for each chunk that is not the expected length,
\* or only for one that ends before it.
CompareDiffers ==
    /\ hpc = "compare"
    /\ hpc' = IF inlen # expectedLen THEN "post" ELSE "idle"
    /\ UNCHANGED <<in, expectedLen, sin, session, inlen, caller, opens, history>>

CompareLess ==
    /\ hpc = "compare"
    /\ hpc' = IF inlen + 1 = expectedLen THEN "post" ELSE "idle"
    /\ UNCHANGED <<in, expectedLen, sin, session, inlen, caller, opens, history>>

\* After m_csin was left: m_expectedLen is read without a lock.
Compare ==
    /\ hpc = "compare"
    /\ hpc' = IF inlen = expectedLen THEN "post" ELSE "idle"
    /\ UNCHANGED <<in, expectedLen, sin, session, inlen, caller, opens, history>>

Post ==
    /\ hpc = "post"
    /\ hpc' = "idle"
    /\ sin' = 1
    /\ UNCHANGED <<in, expectedLen, session, inlen, caller, opens, history>>

-----------------------------------------------------------------------------
(* The caller                                                              *)

Call(to) == pc = "idle" /\ pc' = to

\* open() of a channel that is open already returns at once.
Open ==
    /\ pc = "idle" /\ session = "closed" /\ opens < MaxOpens
    /\ session' = "listening"
    /\ sin' = 0
    /\ opens' = opens + 1
    /\ UNCHANGED <<in, expectedLen, handler, caller, history>>

\* close() with m_srv.close(), which waits for the handler.
Close ==
    /\ session # "closed"
    /\ Call("close")
    /\ UNCHANGED <<in, expectedLen, sin, session, handler, len, had, clean,
                   opens, history>>

\* Faulty variant: the handler is not waited for.
CloseReturnEarly ==
    /\ pc = "close"
    /\ pc' = "idle"
    /\ session' = "closed"
    /\ in' = <<>> /\ sin' = 0
    /\ dropped' = dropped \cup Range(in)
    /\ UNCHANGED <<expectedLen, handler, len, had, clean, opens, came, read>>

CloseReturn ==
    /\ pc = "close" /\ hpc = "idle"
    /\ pc' = "idle"
    /\ session' = "closed"
    /\ in' = <<>> /\ sin' = 0
    /\ dropped' = dropped \cup Range(in)
    /\ UNCHANGED <<expectedLen, handler, len, had, clean, opens, came, read>>

Reset ==
    /\ pc = "idle"
    /\ in' = <<>> /\ sin' = 0
    /\ dropped' = dropped \cup Range(in)
    /\ UNCHANGED <<expectedLen, session, handler, caller, opens, came, read>>

\* bytesPut(): the data is queued by the server.
BytesPut ==
    /\ pc = "idle"
    /\ expectedLen' = NoLength
    /\ UNCHANGED <<in, sin, session, handler, caller, opens, history>>

BytesGet(n) ==
    /\ Call("wait")
    /\ len' = n /\ expectedLen' = n
    /\ had' = Len(in)
    /\ clean' = (/\ sin = 0
                 /\ hpc # "idle" => hpc = "compare" /\ inlen = Len(in))
    /\ UNCHANGED <<in, sin, session, handler, opens, history>>

\* m_sin.wait(tmo)
WaitOk ==
    /\ pc = "wait" /\ sin = 1
    /\ sin' = 0 /\ pc' = "read"
    /\ UNCHANGED <<in, expectedLen, session, handler, len, had, clean, opens,
                   history>>

WaitTimeout ==
    /\ pc = "wait" /\ sin = 0
    /\ pc' = "idle"
    /\ UNCHANGED <<in, expectedLen, sin, session, handler, len, had, clean,
                   opens, history>>

\* Faulty variant: what was not asked for is erased too.
ReadBytesAll ==
    LET n == IF Len(in) < len THEN Len(in) ELSE len IN
    /\ pc = "read"
    /\ pc' = "idle"
    /\ read' = read \o SubSeq(in, 1, n)
    /\ in' = <<>>
    /\ UNCHANGED <<expectedLen, sin, session, handler, len, had, clean, opens,
                   came, dropped>>

\* Under m_csin again: at most len bytes are copied and erased.
ReadBytes ==
    LET n == IF Len(in) < len THEN Len(in) ELSE len IN
    /\ pc = "read"
    /\ pc' = "idle"
    /\ read' = read \o SubSeq(in, 1, n)
    /\ in' = SubSeq(in, n + 1, Len(in))
    /\ UNCHANGED <<expectedLen, sin, session, handler, len, had, clean, opens,
                   came, dropped>>

Next ==
    \/ ClientAccepted \/ ClientLeft
    \/ DataReceived \/ Compare \/ Post
    \/ Open \/ Close \/ CloseReturn \/ Reset \/ BytesPut
    \/ \E n \in Lens : BytesGet(n)
    \/ WaitOk \/ WaitTimeout \/ ReadBytes

Spec == Init /\ [][Next]_vars

-----------------------------------------------------------------------------
\* Also: the handler is in a callback only while there is a client.
TypeOK ==
    /\ in \in Seq(1..came)
    /\ expectedLen \in {0, NoLength} \cup Lens
    /\ sin \in 0..1
    /\ session \in {"closed", "listening", "client", "left"}
    /\ hpc \in {"idle", "compare", "post"}
    /\ session # "client" => hpc = "idle"
    /\ inlen \in 0..MaxBytes
    /\ pc \in {"idle", "wait", "read", "close"}
    /\ len \in {0} \cup Lens
    /\ opens \in 0..MaxOpens
    /\ came \in 0..MaxBytes

\* Each byte that came is read at most once and in order, and is not lost
\* unless close() or reset() cleared it; none stays for the next client,
\* although bytesGet() takes prefixes of a buffer the handler appends to.
ReadOnce ==
    /\ \A i, j \in DOMAIN (read \o in) :
          i < j => (read \o in)[i] < (read \o in)[j]
    /\ Range(read \o in) \cup dropped = 1..came
    /\ session = "closed" => in = <<>>

\* No wakeup is lost if the bytes that were missing when bytesGet() began
\* have come, and no more: the token is there although the handler compares
\* the length outside m_csin.  Of bytes that were there before, or a chunk
\* that goes past the length, the code does not tell a reader.
WakesAtLength ==
    pc = "wait" /\ hpc = "idle" /\ had < len /\ Len(in) = len => sin = 1

\* A read that found nothing left over returns all it asked for once it is
\* woken.  A token of a read that timed out, or of a chunk that reset() cleared
\* before its length was compared, makes a read short.
FreshReadIsWhole ==
    pc = "read" /\ clean => Len(in) >= len

=============================================================================
