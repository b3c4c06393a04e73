----------------------------- MODULE QuicProbe ------------------------------
(***************************************************************************)
(* What a scan learns over QUIC (quic/): whether HTTP/3 answers, what it    *)
(* negotiates and which versions there are.  Datagrams may be lost, come    *)
(* twice or out of order, and the client never asks for one again.  The     *)
(* server's Initial holds its ServerHello; its handshake stream is cut into *)
(* CRYPTO frames over three datagrams at most, and what it sends again it   *)
(* may cut elsewhere.                                                       *)
(***************************************************************************)
EXTENDS ProbeRun, Functions, SequencesExt

CONSTANT MaxTwice \* Bound of the model: datagrams that arrive beside those of the flight.

ASSUME QuicProbeAssumption == MaxTwice \in Nat

VARIABLES
    dial,  \* the version the client dialled; 0 is the reserved one
    got,   \* the datagrams read on this dial, in order of arrival
    noted  \* what happened to the datagrams of the dials so far; the program does not see it

quic == <<dial, got, noted>>

\* The handshake stream in units: EncryptedExtensions is two, so that a cut may fall
\* into it.
Stream == <<"ee_head", "ee_tail", "certificate", "finished">>

\* A server: the versions it speaks, what its UDP port does without them, whether its
\* suite and key share are usable, and after which units its datagrams end.
QuicServers ==
    {s \in [speaks : SUBSET {1, 2}, port : {"open", "closed", "other"}, usable : BOOLEAN,
            cut : (0..Len(Stream)) \X (0..Len(Stream))] :
        /\ s.cut[1] <= s.cut[2]
        /\ s.speaks # {} => s.port = "open"}

Crypto(i, k) == [at |-> i, units |-> SubSeq(Stream, i, k)]

\* What the server answers to an Initial of a version: its flight, or else a Version
\* Negotiation.
Datagrams(s, version) ==
    CASE s.port = "open" /\ version \in s.speaks ->
           <<[type |-> "initial", crypto |-> Crypto(1, s.cut[1])],
             [type |-> "handshake", crypto |-> Crypto(s.cut[1] + 1, s.cut[2])],
             [type |-> "handshake", crypto |-> Crypto(s.cut[2] + 1, Len(Stream))]>>
      [] s.port = "open" /\ version \notin s.speaks /\ s.speaks # {} ->
           <<[type |-> "versions", crypto |-> Crypto(1, 0)]>>
      [] s.port = "other" -> <<[type |-> "other", crypto |-> Crypto(1, 0)]>>
      [] OTHER -> <<>>

\* What it sends again when no acknowledgement came: its Initial alone, or any stretch of
\* its stream, whose frames may end elsewhere and overlap those of the flight.
SentAgain(s, version) ==
    IF s.port = "open" /\ version \in s.speaks
      THEN {[type |-> "initial", crypto |-> Crypto(1, 0)]} \cup
           {[type |-> "handshake", crypto |-> Crypto(p[1], p[2])] :
                p \in {p \in (1..Len(Stream)) \X (1..Len(Stream)) : p[1] <= p[2]}}
      ELSE {}

-----------------------------------------------------------------------------
(* Reading a flight.                                                        *)

\* Mutant: the CRYPTO frames are joined as they came.
Joined_AsTheyCame(seen) ==
    FlattenSeq([i \in 1..Len(seen) |-> seen[i].crypto.units])

\* _collect_crypto over every packet that opens, then the join: one chunk at each
\* offset, in the order of the offsets.  Nothing asks whether they touch.
Joined(seen) ==
    LET At(offset) == {i \in 1..Len(seen) : /\ seen[i].crypto.at = offset
                                             /\ seen[i].crypto.units # <<>>}
        Chunk(offset) == IF At(offset) = {} THEN <<>>
                         ELSE seen[CHOOSE i \in At(offset) : \A k \in At(offset) : k <= i].crypto.units
    IN  FlattenSeq([offset \in 1..Len(Stream) |-> Chunk(offset)])

\* read_transport_parameters, _encrypted_extensions_body: the first message of the
\* joined bytes that calls itself EncryptedExtensions.  Bytes that start within a
\* message may call themselves anything.
Parameters(seen) ==
    LET bytes == Joined(seen) IN
    CASE bytes = <<>> -> {"none"}
      [] bytes # <<>> /\ bytes[1] = "ee_head" ->
           IF Len(bytes) = 1 THEN {"none"}
           ELSE IF bytes[2] = "ee_tail" THEN {"true"} ELSE {"wrong", "none"}
      [] bytes # <<>> /\ bytes[1] = "ee_tail" -> {"wrong", "none"}
      [] OTHER -> {"none"}

\* read_negotiation: the first datagram to arrive must start with the Initial.
ReadsHello(seen) == seen # <<>> /\ seen[1].type = "initial"

\* What the network and the server did to a dial, noted for the properties alone: another
\* datagram of the flight came before the Initial, or a repetition was cut within
\* EncryptedExtensions although the flight was not.
Notes(seen) ==
    {n \in {"overtaken", "recut"} :
        \/ n = "overtaken" /\ seen # <<>> /\ seen[1].type = "handshake"
        \/ /\ n = "recut"
           /\ 1 \notin {peer.cut[1], peer.cut[2]}
           /\ \E k \in 1..Len(seen) : \/ seen[k].crypto.at = 2
                                      \/ seen[k].crypto.at = 1 /\ Len(seen[k].crypto.units) = 1}

-----------------------------------------------------------------------------
(* The dials of one scan.                                                   *)

QuicInit ==
    \E s \in QuicServers :
        Begin("quic", s, "reach") /\ dial = 1 /\ got = <<>> /\ noted = {}

QuicIdle == dial = 1 /\ got = <<>> /\ noted = {}

Facts(reachable, hello, parameters, versions) ==
    [is |-> "quic", reachable |-> reachable, hello |-> hello,
     parameters |-> parameters, versions |-> versions]

\* probe_http3: any long header of version 1 or 2 will do, silence and a refusal are
\* "no", and an error before that is "unknown".
Reach ==
    /\ pc = "reach"
    /\ LET answer == Datagrams(peer, 1)
           heard == answer # <<>> /\ answer[1].type \in {"initial", "handshake"}
       IN  \/ NoFault /\ verdict' = Facts(IF heard THEN "yes" ELSE "no", 0, "none", {})
           \/ Fault   /\ \E r \in {"no", "unknown"} : verdict' = Facts(r, 0, "none", {})
    /\ pc' = IF verdict'.reachable = "yes" THEN "flight" ELSE "done"
    /\ UNCHANGED <<probe, peer, quic>>

\* _negotiate_version, one datagram: of the flight, twice if the network doubles it, or
\* of what the server sends again.
Arrives ==
    /\ pc = "flight"
    /\ LET flight == Datagrams(peer, dial)
           here   == {i \in 1..Len(flight) : \E k \in 1..Len(got) : got[k] = flight[i]}
       IN  \/ \E i \in (1..Len(flight)) \ here : got' = Append(got, flight[i])
           \/ /\ Len(got) < Cardinality(here) + MaxTwice
              /\ \/ \E i \in here : got' = Append(got, flight[i])
                 \/ \E again \in SentAgain(peer, dial) : got' = Append(got, again)
    /\ NoFault /\ UNCHANGED <<probe, peer, pc, dial, noted, verdict>>

\* The dial is over: nothing more came for half a second, or the socket failed.  No
\* ServerHello under version 1 means a dial of version 2.
Settles ==
    LET missing == \E i \in 1..Len(Datagrams(peer, dial)) :
                      \A k \in 1..Len(got) : got[k] # Datagrams(peer, dial)[i]
    IN  /\ pc = "flight"
        /\ IF missing THEN Fault ELSE NoFault
        /\ IF ReadsHello(got)
             THEN /\ \E p \in (IF peer.usable THEN Parameters(got) ELSE {"none"}) :
                        verdict' = Facts("yes", dial, p, {})
                  /\ pc' = "versions" /\ dial' = 0
             ELSE /\ verdict' = verdict
                  /\ IF dial = 1 THEN pc' = pc /\ dial' = 2 ELSE pc' = "versions" /\ dial' = 0
        /\ got' = <<>> /\ noted' = noted \cup Notes(got)
        /\ UNCHANGED <<probe, peer>>

\* probe_quic_versions: an Initial of a reserved version draws the list.
ReadVersions ==
    /\ pc = "versions"
    /\ \/ NoFault /\ Conclude([verdict EXCEPT !.versions = peer.speaks])
       \/ Fault   /\ Conclude(verdict)
    /\ UNCHANGED <<probe, peer, quic>>

QuicStep == probe = "quic" /\ (Reach \/ Arrives \/ Settles \/ ReadVersions)

-----------------------------------------------------------------------------
(* Properties.                                                              *)

QuicTypeOK ==
    /\ dial \in 0..2 /\ noted \subseteq {"overtaken", "recut"}
    /\ got \in Seq([type : {"initial", "handshake", "versions", "other"},
                    crypto : [at : Nat, units : Seq({Stream[i] : i \in 1..Len(Stream)})]])

\* What is said of HTTP/3, and what it takes to make it less than the truth.  The frames
\* are joined by their offsets, so within the flight the order is nothing: with no loss
\* the parameters are the server's, but for two things a network may do without losing
\* a datagram.  Another one before the Initial loses them and the ServerHello, because the
\* first datagram alone is searched for it (read_negotiation), and then a dial of version
\* 2 may be reported instead of 1; and a repetition cut within EncryptedExtensions
\* replaces the longer chunk at its offset, because the last one read is kept
\* (_collect_crypto).  Wrong parameters need one of these or a loss within that message.
\* Only version 1 is asked whether HTTP/3 answers: a server of version 2 alone is told to
\* have none, though negotiated_http3 (reachability.py 93-98) would have dialled it.
QuicVerdictsTrue ==
    pc = "done" /\ probe = "quic" =>
        /\ verdict.reachable = "yes" => 1 \in peer.speaks
        /\ verdict.reachable = "no" => 1 \notin peer.speaks \/ faults > 0
        /\ verdict.hello # 0 => verdict.hello \in peer.speaks
        /\ verdict.reachable = "yes" /\ verdict.hello # 1 => faults > 0 \/ "overtaken" \in noted
        /\ verdict.parameters = "none" =>
              verdict.hello = 0 \/ ~peer.usable \/ faults > 0 \/ "recut" \in noted
        /\ verdict.parameters = "wrong" =>
              \/ faults > 0 /\ 1 \in {peer.cut[1], peer.cut[2]}
              \/ "recut" \in noted
        /\ verdict.versions \in {{}, peer.speaks}
=============================================================================
