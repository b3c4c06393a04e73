----------------------------- MODULE Handshakes -----------------------------
(***************************************************************************)
(* The probes that complete a handshake with a server, or the first flight  *)
(* of one: tls/tls12.py and tls/tls13.py.  Cryptography is symbolic: a      *)
(* record sealed under a key opens with that key and that sequence number,  *)
(* and a Finished stands for the transcript it covers.  A message is one    *)
(* unit of a flight; a Certificate is two, so that it may span records.     *)
(***************************************************************************)
EXTENDS ProbeRun

CONSTANTS
    MaxTickets,    \* Bound of the model: session tickets a server sends.
    ResponseParts  \* Bound of the model: records of a response.

ASSUME HandshakesAssumption ==
    MaxTickets \in Nat /\ ResponseParts \in Nat \ {0}

VARIABLES
    script,    \* what the server is still to send, unit by unit
    sealed,    \* the key the server seals with, and its next sequence number
    expected,  \* the sequence number the client opens the next record with
    flight     \* the handshake bytes of the server the client holds

handshake == <<script, sealed, expected, flight>>

Probes12 == {"fetch12", "auth12", "staple12", "dh12", "renew12"}
Probes13 == {"fetch13", "auth13", "cert13", "early13"}
HandshakeProbes == Probes12 \cup Probes13

\* A server: its version, the key exchange it does under 1.2 and whether its
\* share is usable, and how it treats clients once they are connected.
TlsServers ==
    {s \in [version : {12, 13}, exchange : {"ecdhe", "dhe"}, usable : BOOLEAN,
            asks : BOOLEAN, needs : BOOLEAN, staples : BOOLEAN,
            tickets : 0..MaxTickets, early : BOOLEAN,
            renews : BOOLEAN, secure : BOOLEAN] :
        /\ s.needs => s.asks
        /\ s.version = 12 => ~s.early /\ s.tickets <= 1
        /\ s.version = 13 => s.exchange = "ecdhe" /\ ~s.renews /\ ~s.secure}

-----------------------------------------------------------------------------
(* Records.                                                                 *)

Plain     == <<>>
Master    == <<"master">>
HsTraffic == <<"hs">>

\* One unit to send: the type on the outside, the type once opened, the key.
Unit(outer, inner, key, what) ==
    [outer |-> outer, inner |-> inner, key |-> key, what |-> what]

Units(outer, key, whats) ==
    [i \in 1..Len(whats) |-> Unit(outer, "handshake", key, whats[i])]

Times(n, u) == [i \in 1..n |-> u]

\* The server may put the next k units into one record: handshake messages of
\* one kind of record share it, anything else travels alone.
Joins(k) ==
    \A i \in 1..k : /\ script[i].outer = script[1].outer
                    /\ script[i].key = script[1].key
                    /\ k > 1 => script[i].inner = "handshake"

\* _seal and _encrypt_record on the server's side, _read_record on ours.
RecordOf(k) ==
    [outer |-> script[1].outer, inner |-> script[1].inner, key |-> script[1].key,
     seq |-> IF script[1].key = sealed.key THEN sealed.seq ELSE 0,
     units |-> [i \in 1..k |-> script[i].what]]

Sends(k) ==
    /\ script' = SubSeq(script, k + 1, Len(script))
    /\ sealed' = IF script[1].key = Plain THEN sealed
                 ELSE [key |-> script[1].key, seq |-> RecordOf(k).seq + 1]

\* _derive_keys; _server_handshake_keys, then the application traffic secret over
\* the transcript up to the server's Finished.
ClientKey ==
    IF probe \in Probes12 THEN Master
    ELSE IF pc = "flight" THEN HsTraffic
    ELSE <<"ap">> \o flight

\* _open and _decrypt_record.
Opens(r) == r.key = ClientKey /\ r.seq = expected

Holds(f, what) == \E i \in 1..Len(f) : f[i] = what

-----------------------------------------------------------------------------
(* The server.                                                              *)

Flight12(s, p) ==
    <<"server_hello", "certificate", "certificate_end">>
      \o (IF s.staples /\ p = "staple12" THEN <<"status">> ELSE <<>>)
      \o <<"key_exchange">>
      \o (IF s.asks THEN <<"request">> ELSE <<>>)
      \o <<"done">>

Flight13(s, p) ==
    <<"extensions">>
      \o (IF s.asks THEN <<"request">> ELSE <<>>)
      \o (IF s.staples /\ p = "cert13" THEN <<"certificate", "stapled">>
                                       ELSE <<"certificate", "certificate_end">>)
      \o <<"verify", "finished">>

FullFlight(s, p) == IF p \in Probes12 THEN Flight12(s, p) ELSE Flight13(s, p)

Alert(key) == Unit(IF key = Plain \/ key = Master THEN "alert" ELSE "application",
                   "alert", key, "alert")

\* The server speaks the version of the hello and finds a suite in it.
Agrees(s, p) ==
    IF p \in Probes12 THEN s.version = 12 /\ s.exchange = (IF p = "dh12" THEN "dhe" ELSE "ecdhe")
    ELSE s.version = 13

\* build_client_hello has been sent; the server refuses, answers with another
\* version or without a usable share, or sends its flight.
FirstFlight(s, p) ==
    CASE ~Agrees(s, p) -> <<Alert(Plain)>>
      [] Agrees(s, p) /\ p \in Probes12 -> Units("handshake", Plain, Flight12(s, p))
      [] Agrees(s, p) /\ p \in Probes13 ->
           <<Unit("handshake", "handshake", Plain, IF s.usable THEN "server_hello" ELSE "retry"),
             Unit("ccs", "ccs", Plain, "ccs")>>
           \o Units("application", HsTraffic, Flight13(s, p))

\* The server accepts the client's flight: it expects a Certificate exactly if it
\* asked for one, one that is not empty if it needs it, and a Finished over all.
Accepts(said, covered) ==
    /\ said = (IF peer.asks THEN <<"certificate">> ELSE <<>>)
                \o (IF probe \in Probes12 THEN <<"client_key_exchange">> ELSE <<>>)
    /\ ~peer.needs
    /\ covered = FullFlight(peer, probe) \o said

\* What the server sends once it has the client's flight, and the request with it.
SecondFlight(said, covered) ==
    LET ap == <<"ap">> \o FullFlight(peer, probe)
        Response(key) == IF probe \in {"fetch12", "fetch13"}
            THEN Times(ResponseParts, Unit("application", "application", key, "part"))
            ELSE <<>>
    IN  CASE Accepts(said, covered) /\ probe \in Probes12 ->
               Times(peer.tickets, Unit("handshake", "handshake", Plain, "ticket"))
                 \o <<Unit("ccs", "ccs", Plain, "ccs"),
                      Unit("handshake", "handshake", Master, "finished")>>
                 \o Response(Master)
          [] Accepts(said, covered) /\ probe \in Probes13 ->
               Times(peer.tickets, Unit("application", "handshake", ap,
                                        IF peer.early THEN "early_ticket" ELSE "ticket"))
                 \o Response(ap)
          [] OTHER -> <<Alert(IF probe \in Probes12 THEN Plain ELSE ap)>>

-----------------------------------------------------------------------------
(* The client: sending.                                                     *)

HandshakeInit ==
    \E p \in HandshakeProbes, s \in TlsServers :
        /\ Begin(p, s, IF p \in Probes12 THEN "flight" ELSE "hello")
        /\ script = FirstFlight(s, p)
        /\ sealed = [key |-> Plain, seq |-> 0]
        /\ expected = 0
        /\ flight = <<>>

HandshakeIdle ==
    script = <<>> /\ sealed = [key |-> Plain, seq |-> 0] /\ expected = 0 /\ flight = <<>>

\* _client_finished and _finished_message: the transcript so far.
Covered(said) == flight \o said

\* What the client says before its Finished: an empty Certificate if the probe is about
\* that, and under 1.2 the key exchange (_finish, _classify_client_auth;
\* _complete_handshake, _empty_certificate_message).
EmptyCertificate == IF probe \in {"auth12", "auth13"} THEN <<"certificate">> ELSE <<>>
Said12 == EmptyCertificate \o <<"client_key_exchange">>
Said13 == EmptyCertificate

\* The client's flight, and the request at once (fetch_over_tls13 and its like).  A
\* sequence of the server's starts with the keys it uses from here on.
Send ==
    LET said == IF probe \in Probes12 THEN Said12 ELSE Said13
    IN  /\ pc = "send"
        /\ pc' = CASE probe \in {"fetch12", "fetch13"} -> "reply"
                   [] probe \in {"auth12", "auth13"} -> "auth"
                   [] probe = "renew12" -> "drain"
                   [] probe = "early13" -> "tickets"
        /\ script' = SecondFlight(said, Covered(said))
        /\ expected' = 0
        /\ verdict' = verdict
        /\ NoFault /\ UNCHANGED <<probe, peer, sealed, flight>>

\* probe_client_renegotiation, second part: a new ClientHello under the keys, with
\* the verify_data of the first one exactly if the server does RFC 5746.
SendAgain ==
    /\ pc = "again"
    /\ pc' = "renewal"
    /\ script' = <<IF peer.renews
                     THEN Unit("handshake", "handshake", Master, "server_hello")
                     ELSE Alert(Master)>>
    /\ verdict' = verdict
    /\ NoFault /\ UNCHANGED <<probe, peer, sealed, expected, flight>>

-----------------------------------------------------------------------------
(* The client: a record arrives.                                            *)

\* What each probe returns.
Fetched(parts)              == [is |-> "fetch", parts |-> parts]
Auth(requested, required)   == [is |-> "auth", requested |-> requested, required |-> required]
Renewal(accepted)           == [is |-> "renewal", accepted |-> accepted, secure |-> peer.secure]

\* _extract_certificate: the whole Certificate message is among the units.
Whole(f) == Holds(f, "certificate") /\ (Holds(f, "certificate_end") \/ Holds(f, "stapled"))

\* What three probes read out of a flight: _flight_certificate_status,
\* _dhe_prime_bits_from_flight, and _extract_certificate with _stapled_ocsp.
Stapled(f)      == [is |-> "staple", stapled |-> Holds(f, "status")]
Prime(f)        == [is |-> "prime", prime |-> Holds(f, "key_exchange")]
Certificates(f) == [is |-> "certificates", whole |-> Whole(f), stapled |-> Holds(f, "stapled")]

\* _parse_flight, _server_ecdhe_point: the server's share is there and on the curve.
Usable(f) == peer.usable /\ (probe \in Probes12 => Holds(f, "key_exchange"))

\* The flight is whole.  _run_handshake and _server_flight: some probes have what they
\* came for, without a usable share the others stop, and an authentication probe stops
\* where no certificate is requested.
AfterFlight(f) ==
    CASE probe = "staple12" -> Conclude(Stapled(f))
      [] probe = "dh12"     -> Conclude(Prime(f))
      [] probe = "cert13"   -> Conclude(Certificates(f))
      [] probe \notin {"staple12", "dh12", "cert13"} /\ ~Usable(f) -> Conclude(Failed)
      [] probe \in {"auth12", "auth13"} /\ Usable(f) /\ ~Holds(f, "request") ->
           Conclude(Auth(FALSE, "unknown"))
      [] OTHER -> pc' = "send" /\ verdict' = verdict

\* _read_flight of 1.2: handshake records up to a whole ServerHelloDone.
ReadFlight12(r) ==
    /\ pc = "flight" /\ probe \in Probes12
    /\ UNCHANGED expected
    /\ IF r.outer # "handshake" THEN Conclude(Failed) /\ UNCHANGED flight
       ELSE /\ flight' = flight \o r.units
            /\ IF Holds(flight', "done") THEN AfterFlight(flight')
               ELSE UNCHANGED <<pc, verdict>>

\* _negotiate of 1.3: one record, a ServerHello whose share can be used.
ReadHello13(r) ==
    /\ pc = "hello"
    /\ UNCHANGED <<expected, flight>>
    /\ IF r.outer = "handshake" /\ r.units = <<"server_hello">>
         THEN pc' = "flight" /\ verdict' = verdict
         ELSE Conclude(Failed)

\* _read_server_flight of 1.3: records that open, up to a whole Finished.
ReadFlight13(r) ==
    /\ pc = "flight" /\ probe \in Probes13
    /\ CASE r.outer = "ccs" -> UNCHANGED <<pc, verdict, expected, flight>>
         [] r.outer \notin {"ccs", "application"} ->
              Conclude(Failed) /\ UNCHANGED <<expected, flight>>
         [] r.outer = "application" /\ ~Opens(r) ->
              Conclude(Failed) /\ expected' = expected + 1 /\ UNCHANGED flight
         [] r.outer = "application" /\ Opens(r) ->
              /\ expected' = expected + 1
              /\ flight' = flight \o r.units
              /\ IF Holds(flight', "finished") THEN AfterFlight(flight')
                 ELSE UNCHANGED <<pc, verdict>>

\* Mutant: the sequence goes on after the ChangeCipherSpec of the server.
Counted_NoReset(r) == expected + 1

\* The number of the next record, after record r: a ChangeCipherSpec of 1.2 starts
\* the count, anything else takes a number whether or not it could be opened.
Counted(r) == IF r.outer = "ccs" THEN 0 ELSE expected + 1

\* Parts of the response the client has, as counted in the verdict so far.
Parts(v) == IF v.is = "fetch" THEN v.parts ELSE 0

\* Application data that opens is kept, until the response is complete.
Keep(r) ==
    /\ verdict' = Fetched(Parts(verdict) + (IF r.inner = "application" /\ Opens(r) THEN 1 ELSE 0))
    /\ pc' = IF verdict'.parts = ResponseParts THEN "done" ELSE pc
    /\ UNCHANGED flight

\* _read_response of 1.2 and _exchange of 1.3, one record.
ReadReply12(r) == pc = "reply" /\ probe \in Probes12 /\ expected' = Counted(r) /\ Keep(r)
ReadReply13(r) == pc = "reply" /\ probe \in Probes13 /\ expected' = expected + 1 /\ Keep(r)

\* _read_auth_verdict of 1.2: the first record tells, an alert is a refusal.
ReadAuth12(r) ==
    /\ pc = "auth" /\ probe = "auth12"
    /\ expected' = expected + 1
    /\ UNCHANGED flight
    /\ Conclude(Auth(TRUE, IF r.outer = "alert" THEN "yes" ELSE "no"))

\* _read_client_auth_verdict of 1.3: up to four records, the first that opens tells.
ReadAuth13(r) ==
    /\ pc = "auth" /\ probe = "auth13"
    /\ expected' = expected + 1
    /\ UNCHANGED flight
    /\ IF r.outer = "alert" \/ Opens(r)
         THEN Conclude(Auth(TRUE, IF r.inner = "alert" THEN "yes" ELSE "no"))
         ELSE IF expected' = 4 THEN Conclude(Auth(TRUE, "unknown"))
              ELSE UNCHANGED <<pc, verdict>>

\* _drain_server_finished: tickets in the clear are skipped, and the Finished must
\* open under a sequence that starts at the ChangeCipherSpec.
ReadFinished(r) ==
    /\ pc = "drain"
    /\ UNCHANGED flight
    /\ CASE r.outer = "ccs" -> expected' = 0 /\ UNCHANGED <<pc, verdict>>
         [] r.outer = "handshake" /\ r.key = Plain -> UNCHANGED <<expected, pc, verdict>>
         [] r.outer = "handshake" /\ r.key # Plain /\ Opens(r) ->
              expected' = expected + 1 /\ pc' = "again" /\ verdict' = verdict
         [] OTHER -> Conclude(Failed) /\ UNCHANGED expected

\* _classify_renegotiation: a ServerHello under the keys accepts.
ReadRenewal(r) ==
    /\ pc = "renewal"
    /\ UNCHANGED <<expected, flight>>
    /\ Conclude(Renewal(r.outer = "handshake" /\ Opens(r) /\ r.units[1] = "server_hello"))

\* _ticket_has_early_data: what a NewSessionTicket offers.
EarlyData(ticket) ==
    [is |-> "early", offered |-> CASE ticket = "early_ticket" -> "yes"
                                   [] ticket = "ticket" -> "no"
                                   [] ticket = "none" -> "unknown"]

\* _read_early_data_offer: up to four records, the first ticket tells.
ReadTickets(r) ==
    /\ pc = "tickets"
    /\ expected' = expected + 1
    /\ UNCHANGED flight
    /\ IF Opens(r) /\ r.inner = "handshake"
         THEN Conclude(EarlyData(r.units[1]))
         ELSE IF expected' = 4 THEN Conclude(EarlyData("none"))
              ELSE UNCHANGED <<pc, verdict>>

Receive ==
    \E k \in 1..Len(script) :
        /\ pc # "done" /\ Joins(k)
        /\ Sends(k)
        /\ LET r == RecordOf(k) IN
              \/ ReadFlight12(r) \/ ReadHello13(r) \/ ReadFlight13(r)
              \/ ReadReply12(r) \/ ReadReply13(r) \/ ReadAuth12(r) \/ ReadAuth13(r)
              \/ ReadFinished(r) \/ ReadRenewal(r) \/ ReadTickets(r)
        /\ NoFault /\ UNCHANGED <<probe, peer>>

-----------------------------------------------------------------------------
(* The client: no record arrives.                                           *)

\* A read that ends without a record: the server waits or has closed, or the
\* connection was cut.  _recv_exact makes None of a timeout and of a close.
ReadNothing ==
    /\ pc \notin {"done", "send", "again"}
    /\ IF script = <<>> THEN NoFault ELSE Fault
    /\ CASE pc \in {"hello", "flight", "drain"} -> Conclude(Failed)
         [] pc = "reply"   -> Conclude(Fetched(Parts(verdict)))
         [] pc = "auth"    -> Conclude(Auth(TRUE, IF probe = "auth12" THEN "yes" ELSE "unknown"))
         [] pc = "renewal" -> Conclude(Renewal(FALSE))
         [] pc = "tickets" -> Conclude(EarlyData("none"))
    /\ UNCHANGED <<probe, peer, handshake>>

\* The connection could not be opened, or was reset while the client read or wrote:
\* an error of the probe, except where 1.2 takes it for a refusal.
LinkBreaks ==
    /\ pc # "done" /\ Fault
    /\ IF probe = "auth12" /\ pc \in {"send", "auth"}
         THEN Conclude(Auth(TRUE, "yes")) ELSE Conclude(Failed)
    /\ UNCHANGED <<probe, peer, handshake>>

HandshakeStep ==
    /\ probe \in HandshakeProbes
    /\ Receive \/ Send \/ SendAgain \/ ReadNothing \/ LinkBreaks

-----------------------------------------------------------------------------
(* Properties.                                                              *)

Messages ==
    {"server_hello", "retry", "extensions", "certificate", "certificate_end", "stapled", "status",
     "key_exchange", "request", "done", "verify", "finished", "ticket", "early_ticket", "ccs",
     "alert", "part"}
Keys == Seq(Messages \cup {"master", "hs", "ap"})

HandshakeTypeOK ==
    /\ script \in Seq([outer : {"handshake", "alert", "ccs", "application"},
                       inner : {"handshake", "alert", "ccs", "application"},
                       key : Keys, what : Messages])
    /\ sealed \in [key : Keys, seq : Nat]
    /\ expected \in Nat
    /\ flight \in Seq(Messages)

\* The two ends never drift apart: whenever the server's next record is sealed while
\* the client reads, it is sealed under the key the client holds and with the number
\* the client expects, however the messages were cut into records and whichever
\* tickets and ChangeCipherSpecs came in between (_read_response,
\* _drain_server_finished, _read_server_flight, _read_early_data_offer).
EndsInStep ==
    pc \in {"flight", "reply", "auth", "drain", "renewal", "tickets"} /\ script # <<>>
    /\ script[1].key # Plain
      => /\ script[1].key = ClientKey
         /\ RecordOf(1).seq = expected

\* A server that refuses the client's flight does it over the certificate: it needs
\* one, or asked and was sent no Certificate at all (_finish and _complete_handshake
\* send none), never because a Finished covered something else than was said.
RefusedOverCertificateOnly ==
    pc \in {"reply", "auth", "drain", "tickets"} /\ script # <<>> /\ script[1].inner = "alert"
      => peer.needs \/ (peer.asks /\ probe \notin {"auth12", "auth13"})

\* What each probe says, exactly, of every server and with whatever failure of the network,
\* of which the first one ends a probe.  What is read out of a whole flight is the server's;
\* with no failure everything said is.  A failure makes an error of a probe, and "unknown" of
\* its question, but for three that it turns into a statement: over 1.2 a server is said to
\* require a certificate (_read_auth_verdict) whether it does or not, one that renegotiates
\* is said to refuse (_classify_renegotiation), and of a response less is returned than was
\* sent, without an error (_exchange), as it is by a server that asks for a certificate.
HandshakeVerdictsTrue ==
    pc = "done" /\ probe \in HandshakeProbes =>
      CASE verdict.is = "staple" -> verdict.stapled = peer.staples
        [] verdict.is = "prime" -> verdict.prime /\ peer.exchange = "dhe"
        [] verdict.is = "certificates" -> verdict.whole /\ verdict.stapled = peer.staples
        [] verdict.is = "auth" ->
             /\ verdict.requested = peer.asks
             /\ verdict.required =
                  IF ~peer.asks THEN "unknown"
                  ELSE IF faults > 0 THEN IF probe = "auth12" THEN "yes" ELSE "unknown"
                  ELSE IF peer.needs THEN "yes"
                  ELSE IF probe = "auth12" \/ peer.tickets > 0 THEN "no" ELSE "unknown"
        [] verdict.is = "renewal" -> verdict.accepted = (peer.renews /\ faults = 0)
        [] verdict.is = "early" ->
             verdict.offered = IF peer.tickets = 0 \/ peer.asks \/ faults > 0 THEN "unknown"
                               ELSE IF peer.early THEN "yes" ELSE "no"
        [] verdict.is = "fetch" -> verdict.parts = ResponseParts <=> ~peer.asks /\ faults = 0
        [] OTHER ->
             /\ verdict = Failed
             /\ \/ faults > 0 \/ ~Agrees(peer, probe) \/ ~peer.usable
                \/ probe = "renew12" /\ peer.asks
=============================================================================
