--------------------------- MODULE WebConnections ---------------------------
(***************************************************************************)
(* The connections of web/server.py: _BoundedServer, which starts at most   *)
(* MAX_CONNECTIONS handler threads, and the keep-alive loop in which the    *)
(* Handler answers the requests of one connection.                          *)
(*                                                                          *)
(* One acceptor thread runs serve_forever; socketserver and http.server,    *)
(* which call process_request, do_GET, do_POST and shutdown_request, are    *)
(* the standard library and are modelled from how the code uses them.       *)
(***************************************************************************)
EXTENDS Naturals, FiniteSets

CONSTANTS Connections,     \* the connections clients open
          MaxConnections   \* MAX_CONNECTIONS

ASSUME WebConnectionsAssumption ==
    /\ IsFiniteSet(Connections)
    /\ MaxConnections \in Nat \ {0}

VARIABLES
    place,   \* where each connection is
    slots,   \* the value of the BoundedSemaphore _slots
    keep,    \* ~close_connection of its handler
    unread   \* whose body bytes are still unread in its stream, or "none"

vars == <<place, slots, keep, unread>>

Places == {"backlog",    \* not accepted yet
           "accepted",   \* the acceptor is in process_request
           "starting",   \* the acceptor has a slot and starts the thread
           "reading",    \* the handler waits for a request line
           "answered",   \* a request was answered, flush and look at keep
           "shutdown",   \* shutdown_request was called
           "unbooked",   \* socket closed, slot not released yet
           "closed"}

\* Whose body: of a POST /api/scan, one that announced its length or one sent in chunks.
Leftovers == {"none", "scan", "scan_chunked", "elsewhere", "get"}

Init ==
    /\ place = [c \in Connections |-> "backlog"]
    /\ slots = MaxConnections
    /\ keep = [c \in Connections |-> FALSE]
    /\ unread = [c \in Connections |-> "none"]

Goes(c, from, to) ==
    /\ place[c] = from
    /\ place' = [place EXCEPT ![c] = to]

-----------------------------------------------------------------------------
(* The acceptor, one connection at a time.                                  *)

AcceptorFree == \A c \in Connections : place[c] \notin {"accepted", "starting"}

Accept(c) ==
    /\ AcceptorFree
    /\ Goes(c, "backlog", "accepted")
    /\ UNCHANGED <<slots, keep, unread>>

\* Mutant: the result of acquire(blocking=False) is ignored.
Admit_Anyway(c) ==
    /\ Goes(c, "accepted", "starting")
    /\ slots' = IF slots = 0 THEN 0 ELSE slots - 1
    /\ UNCHANGED <<keep, unread>>

\* acquire(blocking=False) got a slot.
Admit(c) ==
    /\ slots > 0
    /\ Goes(c, "accepted", "starting")
    /\ slots' = slots - 1
    /\ UNCHANGED <<keep, unread>>

\* Mutant: the connection is turned away with shutdown_request, which releases
\* a slot it never took.
TurnAway_Releases(c) ==
    /\ slots = 0
    /\ Goes(c, "accepted", "closed")
    /\ slots' = slots + 1
    /\ UNCHANGED <<keep, unread>>

\* Mutant: acquire() blocks until there is a slot.
TurnAway_Waits(c) ==
    /\ slots > 0
    /\ Goes(c, "accepted", "accepted")
    /\ UNCHANGED <<slots, keep, unread>>

\* Over capacity: close_request, which releases nothing.
TurnAway(c) ==
    /\ slots = 0
    /\ Goes(c, "accepted", "closed")
    /\ UNCHANGED <<slots, keep, unread>>

StartThread(c) ==
    /\ Goes(c, "starting", "reading")
    /\ UNCHANGED <<slots, keep, unread>>

\* Mutant: process_request gives the slot back too.
StartFails_Releases(c) ==
    /\ Goes(c, "starting", "shutdown")
    /\ slots' = slots + 1
    /\ UNCHANGED <<keep, unread>>

\* Thread.start() raised: socketserver calls shutdown_request in the acceptor.
StartFails(c) ==
    /\ Goes(c, "starting", "shutdown")
    /\ UNCHANGED <<slots, keep, unread>>

AcceptorStep(c) ==
    Accept(c) \/ Admit(c) \/ TurnAway(c) \/ StartThread(c) \/ StartFails(c)

-----------------------------------------------------------------------------
(* The handler.  A request is routed and answered in one step: what the     *)
(* other connections can see of it is modelled in WebJobs.                  *)

\* What a request may carry after its headers.
Bodies == {"none", "sized", "oversized", "badlength", "chunked"}

Replies(c, alive, left) ==
    /\ Goes(c, "reading", "answered")
    /\ keep' = [keep EXCEPT ![c] = alive]
    /\ unread' = [unread EXCEPT ![c] = IF @ = "none" THEN left ELSE @]
    /\ UNCHANGED slots

\* do_GET answers every path without looking for a body.
Get(c, body, persistent) ==
    Replies(c, persistent, IF body = "none" THEN "none" ELSE "get")

\* do_POST to a path that is not /api/scan: 404 before anything else.
PostElsewhere(c, body, persistent) ==
    Replies(c, persistent, IF body = "none" THEN "none" ELSE "elsewhere")

\* What an answer that does not read the body of a POST /api/scan leaves.
Unread(body) ==
    CASE body = "none"    -> "none"
      [] body = "chunked" -> "scan_chunked"
      [] OTHER            -> "scan"

\* Mutant: close_connection is not set before the 401.
PostUnauthorised_KeepsAlive(c, body) ==
    Replies(c, TRUE, Unread(body))

\* 401: the body was not read, so the connection is closed.
PostUnauthorised(c, body) ==
    Replies(c, FALSE, Unread(body))

\* 400 and 413 for a length that is malformed or over MAX_BODY_BYTES.
PostRefusedLength(c, body) ==
    /\ body \in {"oversized", "badlength"}
    /\ Replies(c, FALSE, Unread(body))

\* The body is read: 202, 400 or 503.
PostScan(c, body, persistent) ==
    /\ body \in {"none", "sized"}
    /\ Replies(c, persistent, "none")

\* A body sent in chunks has no Content-Length and is read as empty: 400, with the
\* body still in the stream.
PostChunked(c, body, persistent) ==
    /\ body = "chunked"
    /\ Replies(c, persistent, Unread(body))

\* A method without do_ handler, a malformed request: send_error closes.
Unsupported(c, body) ==
    Replies(c, FALSE, IF body = "none" THEN "none" ELSE "elsewhere")

\* End of stream, a 30-second timeout, or an exception out of the handler.
HangUp(c) ==
    /\ Goes(c, "reading", "shutdown")
    /\ keep' = [keep EXCEPT ![c] = FALSE]
    /\ UNCHANGED <<slots, unread>>

Loop(c) ==
    /\ Goes(c, "answered", IF keep[c] THEN "reading" ELSE "shutdown")
    /\ UNCHANGED <<slots, keep, unread>>

\* shutdown_request: the socket is closed first, the slot released after,
\* whether or not closing raised.
CloseSocket(c) ==
    /\ Goes(c, "shutdown", "unbooked")
    /\ UNCHANGED <<slots, keep, unread>>

ReleaseSlot(c) ==
    /\ Goes(c, "unbooked", "closed")
    /\ slots' = slots + 1
    /\ UNCHANGED <<keep, unread>>

Answer(c) ==
    \E body \in Bodies, persistent \in BOOLEAN :
        \/ Get(c, body, persistent)
        \/ PostElsewhere(c, body, persistent)
        \/ PostUnauthorised(c, body)
        \/ PostRefusedLength(c, body)
        \/ PostScan(c, body, persistent)
        \/ PostChunked(c, body, persistent)
        \/ Unsupported(c, body)

HandlerStep(c) ==
    Answer(c) \/ HangUp(c) \/ Loop(c) \/ CloseSocket(c) \/ ReleaseSlot(c)

Next == \E c \in Connections : AcceptorStep(c) \/ HandlerStep(c)

Spec == Init /\ [][Next]_vars

\* The acceptor thread runs.  Nothing is assumed of the handlers: a client may
\* keep its connection, and its slot, for ever.
FairSpec == Spec /\ WF_vars(\E c \in Connections : AcceptorStep(c))

-----------------------------------------------------------------------------
TypeOK ==
    /\ place \in [Connections -> Places]
    /\ slots \in 0..MaxConnections
    /\ keep \in [Connections -> BOOLEAN]
    /\ unread \in [Connections -> Leftovers]

Booked == {c \in Connections :
             place[c] \in {"starting", "reading", "answered", "shutdown", "unbooked"}}

HasSocket == {c \in Connections :
                place[c] \in {"accepted", "starting", "reading", "answered", "shutdown"}}

\* Releases balance acquires: a connection turned away releases nothing, one
\* whose thread failed to start releases once, so the semaphore is never
\* released beyond its bound and never loses a slot (server.py:666-678).
SlotsBalance == slots + Cardinality(Booked) = MaxConnections

\* A slot is given back only after its socket is closed, so at most
\* MAX_CONNECTIONS descriptors are open besides the acceptor's
\* (server.py:649-678).
SocketsBounded == Cardinality(HasSocket) <= MaxConnections + 1

\* When the handler reads the next request line, no body of a POST /api/scan that
\* announced its length is left in front of it, whether the request was let in or
\* refused (server.py:614-633).  One sent in chunks announces none and is left there:
\* that is part of what PostBodyNeverParsed is about.
RefusedBodyNeverParsed ==
    \A c \in Connections : place[c] = "reading" => unread[c] # "scan"

\* Excess connections are closed at once and never queued: every client that
\* connects is served or turned away, even when every slot is taken by a handler
\* that never finishes (server.py:649-670).
NobodyQueues ==
    \A c \in Connections :
        place[c] = "backlog" ~> place[c] \notin {"backlog", "accepted", "starting"}

-----------------------------------------------------------------------------
\* server.py:615-616: a body that was not read would be parsed as the next request, so
\* the connection is closed instead.  Neither the 404 for another path nor the 400
\* for a scan request sent in chunks closes it.
PostBodyNeverParsed ==
    \A c \in Connections :
        place[c] = "reading" => unread[c] \notin {"elsewhere", "scan_chunked"}
=============================================================================
