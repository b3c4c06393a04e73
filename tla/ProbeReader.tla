----------------------------- MODULE ProbeReader ----------------------------
(***************************************************************************)
(* One probe of tls/probe.py: a ClientHello goes out on a connection of its *)
(* own, and records are read until a ServerHello or an alert is in hand.    *)
(* The bytes of a record are abstracted to what the reader does with it.    *)
(***************************************************************************)
EXTENDS Naturals, Sequences, FiniteSets

CONSTANT MaxRecords \* Bound of the model: records in one reply.

ASSUME ProbeReaderAssumption == MaxRecords \in Nat \ {0}

\* "warning": an alert of level warning other than close_notify.  "final": any
\* other alert.  "part": a handshake record.  "bad": a malformed alert, or a
\* record of another type.
Records == {"warning", "final", "part", "bad"}

\* What the peer sends before it stops (it closes, times out or cuts a record):
\* its records, how many parts its handshake message spans, and whether that
\* message parses as a ServerHello.
Replies == [records : UNION {[1..n -> Records] : n \in 0..MaxRecords},
            parts   : 1..MaxRecords,
            message : {"hello", "other"}]

\* The parts of the handshake message among the first i records.
Parts(reply, i) == {k \in 1..i : reply.records[k] = "part"}

\* Mutant: any alert ends the probe.
Decisive_AnyAlert(reply) ==
    {i \in DOMAIN reply.records :
        \/ reply.records[i] \in {"warning", "final", "bad"}
        \/ /\ reply.records[i] = "part"
           /\ Cardinality(Parts(reply, i)) >= reply.parts}

\* The records at which the loop returns: not a warning, and not a part that
\* leaves the handshake message incomplete (read_handshake raises TlsError).
Decisive(reply) ==
    {i \in DOMAIN reply.records :
        \/ reply.records[i] \in {"final", "bad"}
        \/ /\ reply.records[i] = "part"
           /\ Cardinality(Parts(reply, i)) >= reply.parts}

\* _read_response: the first of them makes the ProbeResult a ServerHello, an
\* alert, or an error; without any, the peer stopped and that is an error too.
ReadResponse(reply) ==
    LET First == {i \in Decisive(reply) : \A k \in Decisive(reply) : i <= k}
        At(kinds) == \E i \in First : reply.records[i] \in kinds
    IN  CASE At({"part"}) /\ reply.message = "hello" -> "hello"
          [] At(Records \ {"part", "bad"}) -> "alert"
          [] OTHER -> "error"

-----------------------------------------------------------------------------
\* What a server sends that answers with a ServerHello: all parts of it, and
\* warnings in between (an unrecognized_name, say).
HelloReplies ==
    {reply \in Replies :
        LET n == Len(reply.records) IN
        /\ n > 0 /\ reply.records[n] = "part"
        /\ \A i \in 1..n : reply.records[i] \in {"warning", "part"}
        /\ Cardinality(Parts(reply, n)) = reply.parts
        /\ reply.message = "hello"}

\* What a server sends that refuses: a final alert, after any warnings.
RefusalReplies ==
    {reply \in Replies :
        LET n == Len(reply.records) IN
        /\ n > 0 /\ reply.records[n] = "final"
        /\ \A i \in 1..(n - 1) : reply.records[i] = "warning"}

\* What arrives when an answer is cut short or garbled, or is no ServerHello.
BrokenReplies ==
    {reply \in Replies :
        LET n == Len(reply.records) IN
        /\ \A i \in 1..n : reply.records[i] # "final"
        /\ \/ Cardinality(Parts(reply, n)) < reply.parts
           \/ reply.message = "other"}

\* send_client_hello: what the probe concludes from each.  A connection that
\* fails, or an OSError on the way, is an error as well.
HelloResults   == {ReadResponse(reply) : reply \in HelloReplies}
RefusalResults == {ReadResponse(reply) : reply \in RefusalReplies}
FailureResults == {"error"} \cup {ReadResponse(reply) : reply \in BrokenReplies}
=============================================================================
