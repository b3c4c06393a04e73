------------------------- MODULE Handshakes_proofs --------------------------
(***************************************************************************)
(* Proofs about the handshakes of Handshakes, as steps of Probes: for every *)
(* server, every number of tickets and parts of a response, every way to    *)
(* cut messages into records and any number of failures.                    *)
(***************************************************************************)
EXTENDS Probes, SequenceTheorems, TLAPS

Types   == {"handshake", "alert", "ccs", "application"}
UnitSet == [outer : Types, inner : Types, key : Keys, what : Messages]

-----------------------------------------------------------------------------
(* Sequences.                                                               *)

\* What is left of a sequence once its first elements are taken.
LEMMA RestProperties ==
  ASSUME NEW S, NEW s \in Seq(S), NEW n \in Nat, n = Len(s), NEW k \in 1..n
  PROVE LET t == SubSeq(s, k + 1, n)
        IN  /\ t \in Seq(S) /\ Len(t) = n - k
            /\ \A i \in 1..(n - k) : t[i] = s[i + k]
<1> DEFINE t == SubSeq(s, k + 1, n)
<1>1. \A i \in (k + 1)..n : s[i] \in S
  <2>1. \A i \in 1..n : s[i] \in S
    BY ElementOfSeq
  <2> QED BY <2>1
<1>2. /\ t \in Seq(S)
      /\ Len(t) = IF k + 1 <= n THEN n - (k + 1) + 1 ELSE 0
      /\ \A i \in 1..(n - (k + 1) + 1) : t[i] = s[(k + 1) + i - 1]
  BY <1>1, SubSeqProperties
<1> HIDE DEF t
<1>3. Len(t) = n - k
  BY <1>2
<1>4. ASSUME NEW i \in 1..(n - k) PROVE t[i] = s[i + k]
  <2>1. i \in 1..(n - (k + 1) + 1) /\ (k + 1) + i - 1 = i + k
    OBVIOUS
  <2> QED BY <1>2, <2>1
<1> QED
  BY <1>2, <1>3, <1>4 DEF t

\* A message is in a flight if it is in one of its parts.
LEMMA HoldsConcat ==
  ASSUME NEW a \in Seq(Messages), NEW b \in Seq(Messages), NEW x
  PROVE a \o b \in Seq(Messages) /\ (Holds(a \o b, x) <=> Holds(a, x) \/ Holds(b, x))
<1>1. PICK n \in Nat, m \in Nat : n = Len(a) /\ m = Len(b)
  BY LenProperties
<1> DEFINE c == a \o b
<1>2. /\ c \in Seq(Messages) /\ Len(c) = n + m
      /\ \A i \in 1..(n + m) : c[i] = IF i <= n THEN a[i] ELSE b[i - n]
  BY <1>1, ConcatProperties
<1> HIDE DEF c
<1>3. ASSUME NEW i \in 1..n, a[i] = x PROVE Holds(c, x)
  <2>1. i \in 1..(n + m) /\ c[i] = x
    BY <1>2, <1>3
  <2> QED BY <1>2, <2>1 DEF Holds
<1>4. ASSUME NEW i \in 1..m, b[i] = x PROVE Holds(c, x)
  <2>1. i + n \in 1..(n + m) /\ ~(i + n <= n) /\ (i + n) - n = i
    OBVIOUS
  <2>2. c[i + n] = x
    BY <1>2, <1>4, <2>1
  <2> QED BY <1>2, <2>1, <2>2 DEF Holds
<1>5. ASSUME NEW i \in 1..(n + m), c[i] = x PROVE Holds(a, x) \/ Holds(b, x)
  <2>1. CASE i <= n
    BY <1>1, <1>2, <1>5, <2>1 DEF Holds
  <2>2. CASE ~(i <= n)
    <3>1. i - n \in 1..m /\ b[i - n] = x
      BY <1>2, <1>5, <2>2
    <3> QED BY <1>1, <3>1 DEF Holds
  <2> QED BY <2>1, <2>2
<1> QED
  BY <1>1, <1>2, <1>3, <1>4, <1>5 DEF Holds, c

\* A flight that ends with a message it does not hold before.
LEMMA EndsWith ==
  ASSUME NEW g \in Seq(Messages), NEW x \in Messages, ~Holds(g, x)
  PROVE LET f == g \o <<x>>
        IN  /\ f \in Seq(Messages) /\ Len(f) = Len(g) + 1
            /\ \A i \in 1..Len(f) : f[i] = x <=> i = Len(f)
<1>1. PICK n \in Nat : n = Len(g)
  BY LenProperties
<1> DEFINE f == g \o <<x>>
<1>2. <<x>> \in Seq(Messages) /\ Len(<<x>>) = 1 /\ <<x>>[1] = x
  OBVIOUS
<1>3. /\ f \in Seq(Messages) /\ Len(f) = n + 1
      /\ \A i \in 1..(n + 1) : f[i] = IF i <= n THEN g[i] ELSE <<x>>[i - n]
  BY <1>1, <1>2, ConcatProperties
<1> HIDE DEF f
<1>4. ASSUME NEW i \in 1..(n + 1) PROVE f[i] = x <=> i = n + 1
  <2>1. CASE i <= n
    BY <1>1, <1>3, <2>1 DEF Holds
  <2>2. CASE i = n + 1
    <3>1. ~(i <= n) /\ i - n = 1
      BY <2>2
    <3> QED BY <1>2, <1>3, <2>2, <3>1
  <2> QED BY <2>1, <2>2
<1> QED
  BY <1>1, <1>3, <1>4 DEF f

-----------------------------------------------------------------------------
(* What the server's flight says.                                           *)

\* An empty flight holds no message.
LEMMA HoldsNothing == <<>> \in Seq(Messages) /\ \A x : ~Holds(<<>>, x)
  BY DEF Holds

\* What a flight of one message holds.
LEMMA HoldsOne ==
  ASSUME NEW a \in Messages
  PROVE <<a>> \in Seq(Messages) /\ \A x : Holds(<<a>>, x) <=> x = a
  BY DEF Holds

\* Of two messages.
LEMMA HoldsTwo ==
  ASSUME NEW a \in Messages, NEW b \in Messages
  PROVE <<a, b>> \in Seq(Messages) /\ \A x : Holds(<<a, b>>, x) <=> x = a \/ x = b
<1>1. <<a, b>> \in Seq(Messages)
  OBVIOUS
<1>2. \A i \in 1..2 : i = 1 \/ i = 2
  OBVIOUS
<1>3. \A x : Holds(<<a, b>>, x) <=> x = a \/ x = b
  BY <1>2 DEF Holds
<1> QED
  BY <1>1, <1>3

\* Of three messages.
LEMMA HoldsThree ==
  ASSUME NEW a \in Messages, NEW b \in Messages, NEW c \in Messages
  PROVE <<a, b, c>> \in Seq(Messages) /\ \A x : Holds(<<a, b, c>>, x) <=> x = a \/ x = b \/ x = c
<1>1. <<a, b, c>> \in Seq(Messages)
  OBVIOUS
<1>2. \A i \in 1..3 : i = 1 \/ i = 2 \/ i = 3
  OBVIOUS
<1>3. \A x : Holds(<<a, b, c>>, x) <=> x = a \/ x = b \/ x = c
  BY <1>2 DEF Holds
<1> QED
  BY <1>1, <1>3

\* Two messages in a row.
LEMMA JoinOne ==
  ASSUME NEW a \in Messages, NEW b \in Messages
  PROVE <<a>> \o <<b>> = <<a, b>>
<1> DEFINE c == <<a>> \o <<b>>
<1>1. /\ c \in Seq(Messages) /\ Len(c) = 2
      /\ \A i \in 1..2 : c[i] = IF i <= 1 THEN <<a>>[i] ELSE <<b>>[i - 1]
  <2>1. <<a>> \in Seq(Messages) /\ <<b>> \in Seq(Messages) /\ Len(<<a>>) = 1 /\ Len(<<b>>) = 1
    OBVIOUS
  <2> QED BY <2>1, ConcatProperties
<1> HIDE DEF c
<1>2. c[1] = a /\ c[2] = b
  BY <1>1
<1>3. \A i \in 1..2 : c[i] = <<a, b>>[i]
  <2>1. \A i \in 1..2 : i = 1 \/ i = 2
    OBVIOUS
  <2> QED BY <1>2, <2>1
<1>4. <<a, b>> \in Seq(Messages) /\ Len(<<a, b>>) = 2
  OBVIOUS
<1>5. c = <<a, b>>
  BY <1>1, <1>3, <1>4, SeqEqual
<1> QED
  BY <1>5 DEF c

\* The message that ends the server's flight.
Terminator(p) == IF p \in Probes12 THEN "done" ELSE "finished"

\* A flight ends with the message its reader waits for and holds it nowhere else; what
\* else it holds tells how the server is.
LEMMA FlightSays ==
  ASSUME NEW s \in TlsServers, NEW p \in HandshakeProbes
  PROVE LET f == FullFlight(s, p)
        IN  /\ f \in Seq(Messages) /\ Len(f) >= 1
            /\ \A i \in 1..Len(f) : f[i] = Terminator(p) <=> i = Len(f)
            /\ Holds(f, "request") <=> s.asks
            /\ p \in Probes12 => Holds(f, "key_exchange")
            /\ p = "staple12" => (Holds(f, "status") <=> s.staples)
            /\ p = "cert13" => Whole(f) /\ (Holds(f, "stapled") <=> s.staples)
<1>1. s.asks \in BOOLEAN /\ s.staples \in BOOLEAN
  BY DEF TlsServers
<1>0. {"server_hello", "extensions", "certificate", "certificate_end", "stapled", "status",
       "key_exchange", "request", "done", "verify", "finished"} \subseteq Messages
  BY DEF Messages
<1> DEFINE B == IF s.asks THEN <<"request">> ELSE <<>>
<1>2. B \in Seq(Messages) /\ \A x : Holds(B, x) <=> s.asks /\ x = "request"
  BY <1>0, <1>1, HoldsOne, HoldsNothing
<1>3. CASE p \in Probes12
  <2> DEFINE A == IF s.staples /\ p = "staple12" THEN <<"status">> ELSE <<>>
             H == <<"server_hello", "certificate", "certificate_end">>
             K == <<"key_exchange">>
             g == H \o A \o K \o B
             f == g \o <<"done">>
  <2>1. A \in Seq(Messages) /\ \A x : Holds(A, x) <=> s.staples /\ p = "staple12" /\ x = "status"
    BY <1>0, <1>1, HoldsOne, HoldsNothing
  <2>2. H \in Seq(Messages) /\ \A x : Holds(H, x) <=> x = "server_hello" \/ x = "certificate" \/ x = "certificate_end"
    BY <1>0, HoldsThree
  <2>3. K \in Seq(Messages) /\ \A x : Holds(K, x) <=> x = "key_exchange"
    BY <1>0, HoldsOne
  <2>4. FullFlight(s, p) = f
    BY <1>3 DEF FullFlight, Flight12
  <2> HIDE DEF A, H, K, B
  <2>5. H \o A \in Seq(Messages) /\ \A x : Holds(H \o A, x) <=> Holds(H, x) \/ Holds(A, x)
    BY <2>1, <2>2, HoldsConcat
  <2>6. H \o A \o K \in Seq(Messages) /\ \A x : Holds(H \o A \o K, x) <=> Holds(H \o A, x) \/ Holds(K, x)
    BY <2>3, <2>5, HoldsConcat
  <2>7. g \in Seq(Messages) /\ \A x : Holds(g, x) <=> Holds(H \o A \o K, x) \/ Holds(B, x)
    BY <1>2, <2>6, HoldsConcat
  <2>8. \A x : Holds(g, x) <=> \/ x \in {"server_hello", "certificate", "certificate_end", "key_exchange"}
                               \/ s.staples /\ p = "staple12" /\ x = "status"
                               \/ s.asks /\ x = "request"
    BY <1>2, <2>1, <2>2, <2>3, <2>5, <2>6, <2>7
  <2> HIDE DEF g
  <2>9. <<"done">> \in Seq(Messages) /\ \A x : Holds(<<"done">>, x) <=> x = "done"
    BY <1>0, HoldsOne
  <2>10. f \in Seq(Messages) /\ \A x : Holds(f, x) <=> Holds(g, x) \/ x = "done"
    BY <2>7, <2>9, HoldsConcat
  <2>11. Len(f) = Len(g) + 1 /\ \A i \in 1..Len(f) : f[i] = "done" <=> i = Len(f)
    <3>1. ~Holds(g, "done") /\ "done" \in Messages
      BY <2>8 DEF Messages
    <3> QED BY <2>7, <3>1, EndsWith
  <2>12. Len(f) >= 1
    <3>1. Len(g) \in Nat
      BY <2>7, LenProperties
    <3> QED BY <2>11, <3>1
  <2> HIDE DEF f
  <2>13. p # "cert13" /\ Terminator(p) = "done"
    BY <1>3 DEF Terminator, Probes12
  <2>14. /\ Holds(f, "request") <=> s.asks
         /\ Holds(f, "key_exchange")
         /\ p = "staple12" => (Holds(f, "status") <=> s.staples)
    BY <2>8, <2>10
  <2> QED BY <2>4, <2>10, <2>11, <2>12, <2>13, <2>14
<1>4. CASE p \in Probes13
  <2> DEFINE E == <<"extensions">>
             C == IF s.staples /\ p = "cert13" THEN <<"certificate", "stapled">>
                                               ELSE <<"certificate", "certificate_end">>
             V == <<"verify">>
             Z == <<"finished">>
             e == E \o B \o C
             g == e \o V
             f == g \o Z
  <2>1. C \in Seq(Messages) /\ \A x : Holds(C, x) <=>
             x = "certificate" \/ x = IF s.staples /\ p = "cert13" THEN "stapled" ELSE "certificate_end"
    <3>1. CASE s.staples /\ p = "cert13"
      BY <1>0, <3>1, HoldsTwo
    <3>2. CASE ~(s.staples /\ p = "cert13")
      BY <1>0, <3>2, HoldsTwo
    <3> QED BY <3>1, <3>2
  <2>2. /\ E \in Seq(Messages) /\ \A x : Holds(E, x) <=> x = "extensions"
        /\ V \in Seq(Messages) /\ \A x : Holds(V, x) <=> x = "verify"
        /\ Z \in Seq(Messages) /\ \A x : Holds(Z, x) <=> x = "finished"
    BY <1>0, HoldsOne
  <2>3. V \o Z = <<"verify", "finished">>
    BY <1>0, JoinOne
  <2>4. p \notin Probes12 /\ p # "staple12" /\ Terminator(p) = "finished"
    BY <1>4 DEF Probes12, Probes13, Terminator
  <2>5. FullFlight(s, p) = e \o <<"verify", "finished">>
    BY <2>4 DEF FullFlight, Flight13
  <2> HIDE DEF E, B, C, V, Z
  <2>6. E \o B \in Seq(Messages) /\ \A x : Holds(E \o B, x) <=> Holds(E, x) \/ Holds(B, x)
    BY <1>2, <2>2, HoldsConcat
  <2>7. e \in Seq(Messages) /\ \A x : Holds(e, x) <=> Holds(E \o B, x) \/ Holds(C, x)
    BY <2>1, <2>6, HoldsConcat
  <2>8. FullFlight(s, p) = f
    <3>1. e \in Seq(Messages) /\ V \in Seq(Messages) /\ Z \in Seq(Messages)
      BY <2>2, <2>7
    <3> HIDE DEF e
    <3>2. (e \o V) \o Z = e \o (V \o Z)
      BY <3>1, ConcatAssociative
    <3> QED BY <2>3, <2>5, <3>2
  <2>9. g \in Seq(Messages) /\ \A x : Holds(g, x) <=> Holds(e, x) \/ Holds(V, x)
    BY <2>2, <2>7, HoldsConcat
  <2>10. f \in Seq(Messages) /\ \A x : Holds(f, x) <=> Holds(g, x) \/ Holds(Z, x)
    BY <2>2, <2>9, HoldsConcat
  <2> HIDE DEF e
  <2>11. \A x : Holds(g, x) <=> \/ x \in {"extensions", "certificate", "verify"}
                                \/ s.asks /\ x = "request"
                                \/ x = IF s.staples /\ p = "cert13" THEN "stapled" ELSE "certificate_end"
    BY <1>2, <2>1, <2>2, <2>6, <2>7, <2>9
  <2> HIDE DEF g
  <2>12. Len(f) = Len(g) + 1 /\ \A i \in 1..Len(f) : f[i] = "finished" <=> i = Len(f)
    <3>1. ~Holds(g, "finished") /\ "finished" \in Messages
      BY <2>11 DEF Messages
    <3> QED BY <2>9, <3>1, EndsWith DEF Z
  <2>13. Len(f) >= 1
    <3>1. Len(g) \in Nat
      BY <2>9, LenProperties
    <3> QED BY <2>12, <3>1
  <2> HIDE DEF f
  <2>14. /\ Holds(f, "request") <=> s.asks
         /\ p = "cert13" => Whole(f) /\ (Holds(f, "stapled") <=> s.staples)
    BY <1>1, <2>2, <2>10, <2>11 DEF Whole
  <2> QED BY <2>4, <2>8, <2>10, <2>12, <2>13, <2>14
<1> QED
  BY <1>3, <1>4 DEF HandshakeProbes

-----------------------------------------------------------------------------
(* The inductive invariant: where the two ends of a handshake may stand.     *)

Auths   == {"auth12", "auth13"}
Fetches == {"fetch12", "fetch13"}
Goers   == Fetches \cup Auths \cup {"renew12", "early13"}

CcsUnit    == Unit("ccs", "ccs", Plain, "ccs")
Ticket12   == Unit("handshake", "handshake", Plain, "ticket")
Finished12 == Unit("handshake", "handshake", Master, "finished")
Part(key)  == Unit("application", "application", key, "part")
Ap         == <<"ap">> \o FullFlight(peer, probe)
Ticket13   == Unit("application", "handshake", Ap, IF peer.early THEN "early_ticket" ELSE "ticket")

Fresh  == sealed = [key |-> Plain, seq |-> 0] /\ expected = 0
Untold == Parts(verdict) = 0

\* The client holds the first messages of a flight, the others are still to come.
Progress(f, had, left, outer, key) ==
    \E m \in 0..Len(f) :
        /\ Len(had) = m /\ \A i \in 1..m : had[i] = f[i]
        /\ Len(left) = Len(f) - m
        /\ \A i \in 1..(Len(f) - m) : left[i] = Unit(outer, "handshake", key, f[m + i])

\* The ServerHello of 1.3 is awaited.
InHello ==
    /\ pc = "hello" /\ probe \in Probes13 /\ Untold /\ Fresh /\ flight = <<>>
    /\ script = FirstFlight(peer, probe)

\* The flight of 1.2 is read: an alert, or what is left of it in plain records.
InFlight12 ==
    /\ pc = "flight" /\ probe \in Probes12 /\ Untold /\ Fresh
    /\ \/ ~Agrees(peer, probe) /\ script = <<Alert(Plain)>>
       \/ /\ Agrees(peer, probe) /\ script # <<>>
          /\ Progress(FullFlight(peer, probe), flight, script, "handshake", Plain)

\* Before the server's ChangeCipherSpec and after it.
Spared13 ==
    /\ Fresh /\ flight = <<>>
    /\ Len(script) = Len(FullFlight(peer, probe)) + 1 /\ script[1] = CcsUnit
    /\ \A i \in 1..Len(FullFlight(peer, probe)) :
          script[i + 1] = Unit("application", "handshake", HsTraffic, FullFlight(peer, probe)[i])

\* The rest of the flight of 1.3 comes sealed.
Flows13 ==
    /\ Fresh \/ (sealed.key = HsTraffic /\ sealed.seq = expected)
    /\ script # <<>>
    /\ Progress(FullFlight(peer, probe), flight, script, "application", HsTraffic)

\* The flight of 1.3 is read, unless there is none.
InFlight13 ==
    /\ pc = "flight" /\ probe \in Probes13 /\ Untold /\ peer.usable
    /\ Spared13 \/ Flows13

\* The client holds the whole flight and has not yet learnt what it came for.
Met ==
    /\ flight = FullFlight(peer, probe) /\ peer.usable
    /\ probe \in Goers /\ (probe \in Auths => peer.asks)

\* The flight was read and the client answers.
ToSend ==
    /\ pc = "send" /\ Untold /\ Met
    /\ sealed.key = Plain \/ (probe \in Probes13 /\ sealed.key = HsTraffic)

\* Where each probe reads on after its answer.
Replying ==
    /\ probe \in Fetches   => pc = "reply"
    /\ probe \in Auths     => pc = "auth"
    /\ probe = "renew12"   => pc = "drain"
    /\ probe = "early13"   => pc = "tickets"

\* n parts of the response are still to come; with the last one a probe is done.
Awaited(n) == IF probe \in Fetches THEN n > 0 /\ Parts(verdict) \in Nat /\ n + Parts(verdict) = ResponseParts
              ELSE n = 0

\* A server that wants a certificate has broken off, or is about to.
Refusal(key) ==
    /\ peer.needs \/ (peer.asks /\ probe \notin Auths)
    /\ Untold
    /\ script = <<Alert(key)>> \/ (script = <<>> /\ probe \notin Auths)

\* A server that had no objection to the client's flight.
Welcome == ~peer.needs /\ (peer.asks => probe \in Auths)

\* What the server still sends after the client's flight was accepted, under 1.2: tickets
\* and all that follows; the Finished and what follows; parts of the response.
Tickets(t, n) ==
    /\ Len(script) = t + 2 + n /\ script[t + 1] = CcsUnit /\ script[t + 2] = Finished12
    /\ \A i \in 1..t : script[i] = Ticket12
    /\ \A i \in 1..n : script[t + 2 + i] = Part(Master)

\* The Finished of the server comes after its ChangeCipherSpec, then n parts.
Changed(n) ==
    /\ Len(script) = 1 + n /\ script[1] = Finished12
    /\ \A i \in 1..n : script[1 + i] = Part(Master)

\* n parts are left of the answer.
Answering(n) ==
    /\ Len(script) = n
    /\ \A i \in 1..n : script[i] = Part(Master)

\* Tickets first, then the ChangeCipherSpec, then what was asked for.
Granted12(n) ==
    \/ sealed.key = Plain /\ \E t \in Nat : Tickets(t, n)
    \/ sealed.key = Plain /\ expected = 0 /\ Changed(n) /\ probe # "auth12"
    \/ sealed.key = Master /\ sealed.seq = expected /\ Answering(n) /\ probe = "fetch12"

\* The answer is read under 1.2.
Reading12 ==
    /\ probe \in Probes12 /\ Met /\ Replying
    /\ \/ sealed.key = Plain /\ Refusal(Plain)
       \/ Welcome /\ \E n \in Nat : Awaited(n) /\ Granted12(n)

\* Under 1.3: tickets, then parts of the response.
Granted13(t, n) ==
    /\ Len(script) = t + n /\ (t > 0 => peer.tickets > 0)
    /\ \A i \in 1..t : script[i] = Ticket13
    /\ \A i \in 1..n : script[t + i] = Part(Ap)

\* The answer is read under 1.3.
Reading13 ==
    /\ probe \in Probes13 /\ Met /\ Replying
    /\ \/ sealed.key = Ap /\ sealed.seq = expected
       \/ sealed.key \in {Plain, HsTraffic} /\ expected = 0
    /\ \/ Refusal(Ap)
       \/ /\ Welcome
          /\ \E t, n \in Nat :
                /\ Awaited(n) /\ Granted13(t, n)
                /\ probe # "fetch13" => t = peer.tickets

\* What a server says to a second ClientHello.
Renewed ==
    IF peer.renews THEN Unit("handshake", "handshake", Master, "server_hello") ELSE Alert(Master)

\* The second ClientHello, and its answer.
Renewing ==
    /\ probe = "renew12" /\ Met
    /\ sealed.key = Master /\ sealed.seq = expected
    /\ pc = "again" \/ (pc = "renewal" /\ script = <<Renewed>>)

\* The probe has told what it found.
Concluded == pc = "done" /\ HandshakeVerdictsTrue

\* The places a handshake can be at.
Places == InHello \/ InFlight12 \/ InFlight13 \/ ToSend \/ Reading12 \/ Reading13 \/ Renewing \/ Concluded

\* The first failure ends a probe.
Unfailed == probe \in HandshakeProbes /\ pc # "done" => faults = 0

\* Where a handshake is, for each probe of one.
HandshakeInv ==
    probe \in HandshakeProbes =>
        /\ peer \in TlsServers /\ faults \in Nat /\ HandshakeTypeOK
        /\ Places

-----------------------------------------------------------------------------
(* Units and records.                                                       *)

\* The fields of a unit.
LEMMA Fields ==
  ASSUME NEW outer, NEW inner, NEW key, NEW what
  PROVE LET u == Unit(outer, inner, key, what)
        IN  u.outer = outer /\ u.inner = inner /\ u.key = key /\ u.what = what
  BY DEF Unit

\* Units are of their type.
LEMMA UnitTyped ==
  ASSUME NEW outer \in Types, NEW inner \in Types, NEW key \in Keys, NEW what \in Messages
  PROVE Unit(outer, inner, key, what) \in UnitSet
  BY DEF Unit, UnitSet

\* The named keys.
LEMMA KeysTyped == Plain \in Keys /\ Master \in Keys /\ HsTraffic \in Keys
  BY DEF Plain, Master, HsTraffic, Keys

\* The traffic secret of the application is none of the keys before it.
LEMMA ApKey ==
  ASSUME NEW f \in Seq(Messages), Len(f) >= 1
  PROVE LET ap == <<"ap">> \o f IN ap \in Keys /\ ap # Plain /\ ap # HsTraffic /\ ap # Master
<1> DEFINE S == Messages \cup {"master", "hs", "ap"}
           ap == <<"ap">> \o f
<1>1. PICK n \in Nat : n = Len(f) /\ n >= 1
  BY LenProperties
<1>2. f \in Seq(S)
  <2>1. \A i \in 1..n : f[i] \in S
    BY <1>1, ElementOfSeq
  <2>2. f = [i \in 1..n |-> f[i]]
    BY <1>1, LenProperties
  <2> QED BY <2>1, <2>2, IsASeq
<1>3. <<"ap">> \in Seq(S) /\ Len(<<"ap">>) = 1
  OBVIOUS
<1>4. ap \in Seq(S) /\ Len(ap) = 1 + n
  BY <1>1, <1>2, <1>3, ConcatProperties
<1> HIDE DEF ap
<1>5. Len(Plain) = 0 /\ Len(HsTraffic) = 1 /\ Len(Master) = 1
  BY DEF Plain, HsTraffic, Master
<1>6. ap # Plain /\ ap # HsTraffic /\ ap # Master
  BY <1>1, <1>4, <1>5
<1> QED
  BY <1>4, <1>6 DEF ap, Keys

\* A record takes the first units of the script, as many as travel together.
LEMMA Taken ==
  ASSUME HandshakeTypeOK, NEW n \in Nat, n = Len(script), NEW k \in 1..n, Joins(k), Sends(k)
  PROVE LET r == RecordOf(k)
        IN  /\ n >= 1 /\ script[1] \in UnitSet
            /\ script' \in Seq(UnitSet) /\ Len(script') = n - k
            /\ \A i \in 1..(n - k) : script'[i] = script[i + k]
            /\ r.units \in Seq(Messages) /\ Len(r.units) = k
            /\ \A i \in 1..k : r.units[i] = script[i].what
            /\ r.outer = script[1].outer /\ r.inner = script[1].inner /\ r.key = script[1].key
            /\ script[1].inner # "handshake" => k = 1
            /\ sealed' \in [key : Keys, seq : Nat]
            /\ script[1].key = Plain => sealed' = sealed
            /\ script[1].key # Plain => sealed'.key = script[1].key /\ sealed'.seq = r.seq + 1
            /\ r.seq = (IF script[1].key = sealed.key THEN sealed.seq ELSE 0) /\ r.seq \in Nat
<1> DEFINE r == RecordOf(k)
<1>1. script \in Seq(UnitSet) /\ \A i \in 1..n : script[i] \in UnitSet
  <2>1. script \in Seq(UnitSet)
    BY DEF HandshakeTypeOK, UnitSet, Types
  <2> QED BY <2>1, ElementOfSeq
<1>2. 1 \in 1..n /\ script[1] \in UnitSet
  BY <1>1
<1>3. script' = SubSeq(script, k + 1, n)
  BY DEF Sends
<1>4. /\ script' \in Seq(UnitSet) /\ Len(script') = n - k
      /\ \A i \in 1..(n - k) : script'[i] = script[i + k]
  BY <1>1, <1>3, RestProperties
<1>5. /\ r.outer = script[1].outer /\ r.inner = script[1].inner /\ r.key = script[1].key
      /\ r.units = [i \in 1..k |-> script[i].what]
      /\ r.seq = (IF script[1].key = sealed.key THEN sealed.seq ELSE 0)
  BY DEF RecordOf
<1>6. r.units \in Seq(Messages) /\ Len(r.units) = k /\ \A i \in 1..k : r.units[i] = script[i].what
  <2>1. \A i \in 1..k : script[i].what \in Messages
    <3>1. \A i \in 1..k : i \in 1..n
      OBVIOUS
    <3> QED BY <1>1, <3>1 DEF UnitSet
  <2> DEFINE q == [i \in 1..k |-> script[i].what]
  <2>2. k \in Nat
    OBVIOUS
  <2>3. q \in Seq(Messages) /\ Len(q) = k /\ \A i \in 1..k : q[i] = script[i].what
    <3>1. q \in Seq(Messages)
      BY <2>1, <2>2, IsASeq
    <3> QED BY <2>2, <3>1, LenProperties
  <2> QED BY <1>5, <2>3
<1>7. script[1].inner # "handshake" => k = 1
  <2>1. 1 \in 1..k
    OBVIOUS
  <2> QED BY <2>1 DEF Joins
<1>8. sealed \in [key : Keys, seq : Nat]
  BY DEF HandshakeTypeOK
<1>9. r.seq \in Nat
  BY <1>5, <1>8
<1>10. script[1].key \in Keys
  BY <1>2 DEF UnitSet
<1>11. sealed' = IF script[1].key = Plain THEN sealed ELSE [key |-> script[1].key, seq |-> r.seq + 1]
  BY DEF Sends
<1> HIDE DEF r
<1>12. /\ sealed' \in [key : Keys, seq : Nat]
       /\ script[1].key = Plain => sealed' = sealed
       /\ script[1].key # Plain => sealed'.key = script[1].key /\ sealed'.seq = r.seq + 1
  BY <1>8, <1>9, <1>10, <1>11
<1> QED
  BY <1>2, <1>4, <1>5, <1>6, <1>7, <1>9, <1>12 DEF r

\* The first k units of left say more, the others are the rest.
Cut(left, k, more, rest) ==
    /\ k \in 1..Len(left)
    /\ more \in Seq(Messages) /\ Len(more) = k /\ \A i \in 1..k : more[i] = left[i].what
    /\ Len(rest) = Len(left) - k /\ \A i \in 1..(Len(left) - k) : rest[i] = left[i + k]

\* A record of a flight brings the client further, and whoever waits for the message that
\* ends it holds all of it once that one is there.
LEMMA ProgressStep ==
  ASSUME NEW f \in Seq(Messages), NEW had \in Seq(Messages), NEW left, NEW outer, NEW key,
         Progress(f, had, left, outer, key), NEW k, NEW more, NEW rest, Cut(left, k, more, rest)
  PROVE /\ Progress(f, had \o more, rest, outer, key)
        /\ had \o more \in Seq(Messages)
        /\ \A x : (\A i \in 1..Len(f) : f[i] = x <=> i = Len(f)) /\ Holds(had \o more, x) => had \o more = f
<1>1. PICK l \in Nat : l = Len(f)
  BY LenProperties
<1>2. PICK m \in 0..l : /\ Len(had) = m /\ \A i \in 1..m : had[i] = f[i]
                        /\ Len(left) = l - m
                        /\ \A i \in 1..(l - m) : left[i] = Unit(outer, "handshake", key, f[m + i])
  BY <1>1 DEF Progress
<1>0. /\ k \in 1..(l - m)
      /\ more \in Seq(Messages) /\ Len(more) = k /\ \A i \in 1..k : more[i] = left[i].what
      /\ Len(rest) = (l - m) - k /\ \A i \in 1..((l - m) - k) : rest[i] = left[i + k]
  BY <1>2 DEF Cut
<1>3. k \in 1..(l - m)
  BY <1>0
<1> DEFINE g == had \o more
<1>4. g \in Seq(Messages) /\ Len(g) = m + k /\ \A i \in 1..(m + k) : g[i] = IF i <= m THEN had[i] ELSE more[i - m]
  BY <1>0, <1>2, ConcatProperties
<1> HIDE DEF g
<1>5. ASSUME NEW i \in 1..(m + k) PROVE g[i] = f[i]
  <2>1. CASE i <= m
    BY <1>2, <1>4, <2>1
  <2>2. CASE ~(i <= m)
    <3>1. i - m \in 1..k /\ m + (i - m) = i /\ i - m \in 1..(l - m)
      BY <1>3, <2>2
    <3>2. g[i] = more[i - m] /\ more[i - m] = left[i - m].what
      BY <1>0, <1>4, <2>2, <3>1
    <3>3. left[i - m] = Unit(outer, "handshake", key, f[i])
      BY <1>2, <3>1
    <3> QED BY <3>2, <3>3, Fields
  <2> QED BY <2>1, <2>2
<1>6. Len(rest) = l - (m + k)
  BY <1>0
<1>7. ASSUME NEW i \in 1..(l - (m + k)) PROVE rest[i] = Unit(outer, "handshake", key, f[(m + k) + i])
  <2>1. i + k \in 1..(l - m) /\ m + (i + k) = (m + k) + i
    BY <1>3
  <2>0. i \in 1..((l - m) - k)
    BY <1>3
  <2>2. rest[i] = left[i + k]
    BY <1>0, <2>0
  <2>3. left[i + k] = Unit(outer, "handshake", key, f[m + (i + k)])
    BY <1>2, <2>1
  <2> QED BY <2>1, <2>2, <2>3
<1>8. Progress(f, g, rest, outer, key)
  <2>1. m + k \in 0..l
    BY <1>3
  <2> QED BY <1>1, <1>4, <1>5, <1>6, <1>7, <2>1 DEF Progress
<1>9. ASSUME NEW x, \A i \in 1..Len(f) : f[i] = x <=> i = Len(f), Holds(g, x) PROVE g = f
  <2>1. PICK i \in 1..(m + k) : g[i] = x
    BY <1>4, <1>9 DEF Holds
  <2>2. i \in 1..l /\ f[i] = x
    BY <1>3, <1>5, <2>1
  <2>3. i = l
    BY <1>1, <1>9, <2>2
  <2>4. m + k = l
    BY <1>3, <2>1, <2>3
  <2> QED BY <1>1, <1>4, <1>5, <2>4, SeqEqual
<1> QED
  BY <1>4, <1>8, <1>9 DEF g

\* The last record of a flight brings the message that ends it.
LEMMA ProgressEnds ==
  ASSUME NEW f \in Seq(Messages), Len(f) >= 1, NEW had \in Seq(Messages), NEW left, left = <<>>,
         NEW outer, NEW key, Progress(f, had, left, outer, key),
         NEW x, \A i \in 1..Len(f) : f[i] = x <=> i = Len(f)
  PROVE Holds(had, x)
<1>1. PICK l \in Nat : l = Len(f)
  BY LenProperties
<1>2. PICK m \in 0..l : Len(had) = m /\ (\A i \in 1..m : had[i] = f[i]) /\ Len(left) = l - m
  BY <1>1 DEF Progress
<1>3. m = l
  BY <1>2
<1>4. l \in 1..l /\ had[l] = x
  BY <1>1, <1>2, <1>3
<1> QED
  BY <1>2, <1>3, <1>4 DEF Holds

\* An alert alone.
LEMMA AlertFields ==
  ASSUME NEW key \in Keys
  PROVE LET u == Alert(key)
        IN  /\ u \in UnitSet /\ <<u>> \in Seq(UnitSet) /\ Len(<<u>>) = 1 /\ <<u>>[1] = u
            /\ u.outer = (IF key = Plain \/ key = Master THEN "alert" ELSE "application")
            /\ u.inner = "alert" /\ u.key = key /\ u.what = "alert"
<1> DEFINE outer == IF key = Plain \/ key = Master THEN "alert" ELSE "application"
           u == Unit(outer, "alert", key, "alert")
<1>1. outer \in Types /\ "alert" \in Types /\ "alert" \in Messages
  BY DEF Types, Messages
<1>2. u \in UnitSet
  BY <1>1, UnitTyped
<1>3. u.outer = outer /\ u.inner = "alert" /\ u.key = key /\ u.what = "alert"
  BY Fields
<1>4. Alert(key) = u
  BY DEF Alert
<1> HIDE DEF u
<1>5. <<u>> \in Seq(UnitSet) /\ Len(<<u>>) = 1 /\ <<u>>[1] = u
  BY <1>2
<1> QED
  BY <1>2, <1>3, <1>4, <1>5

\* A flight in units.
LEMMA UnitsTyped ==
  ASSUME NEW outer \in Types, NEW key \in Keys, NEW whats \in Seq(Messages)
  PROVE LET us == Units(outer, key, whats)
        IN  /\ us \in Seq(UnitSet) /\ Len(us) = Len(whats)
            /\ \A i \in 1..Len(whats) : us[i] = Unit(outer, "handshake", key, whats[i])
<1>1. PICK n \in Nat : n = Len(whats)
  BY LenProperties
<1>2. \A i \in 1..n : Unit(outer, "handshake", key, whats[i]) \in UnitSet
  <2>1. "handshake" \in Types /\ \A i \in 1..n : whats[i] \in Messages
    BY <1>1, ElementOfSeq DEF Types
  <2> QED BY <2>1, UnitTyped
<1> DEFINE us == [i \in 1..n |-> Unit(outer, "handshake", key, whats[i])]
<1>3. us \in Seq(UnitSet)
  BY <1>2, IsASeq
<1>4. Len(us) = n /\ \A i \in 1..n : us[i] = Unit(outer, "handshake", key, whats[i])
  BY <1>3, LenProperties
<1>5. Units(outer, key, whats) = us
  BY <1>1 DEF Units
<1> QED
  BY <1>1, <1>3, <1>4, <1>5

\* The units that have a name.
LEMMA NamedUnits ==
    /\ CcsUnit \in UnitSet /\ CcsUnit.outer = "ccs" /\ CcsUnit.inner = "ccs" /\ CcsUnit.key = Plain
    /\ Ticket12 \in UnitSet /\ Ticket12.outer = "handshake" /\ Ticket12.inner = "handshake" /\ Ticket12.key = Plain
    /\ Finished12 \in UnitSet /\ Finished12.outer = "handshake" /\ Finished12.inner = "handshake" /\ Finished12.key = Master
    /\ \A key \in Keys : /\ Part(key) \in UnitSet /\ Part(key).outer = "application"
                         /\ Part(key).inner = "application" /\ Part(key).key = key
<1>1. /\ "ccs" \in Types /\ "handshake" \in Types /\ "application" \in Types
      /\ "ccs" \in Messages /\ "ticket" \in Messages /\ "finished" \in Messages /\ "part" \in Messages
  BY DEF Types, Messages
<1>2. CcsUnit \in UnitSet /\ Ticket12 \in UnitSet /\ Finished12 \in UnitSet /\ \A key \in Keys : Part(key) \in UnitSet
  BY <1>1, UnitTyped, KeysTyped DEF CcsUnit, Ticket12, Finished12, Part
<1>3. CcsUnit.outer = "ccs" /\ CcsUnit.inner = "ccs" /\ CcsUnit.key = Plain
  BY Fields DEF CcsUnit
<1>4. Ticket12.outer = "handshake" /\ Ticket12.inner = "handshake" /\ Ticket12.key = Plain
  BY Fields DEF Ticket12
<1>5. Finished12.outer = "handshake" /\ Finished12.inner = "handshake" /\ Finished12.key = Master
  BY Fields DEF Finished12
<1>6. \A key \in Keys : Part(key).outer = "application" /\ Part(key).inner = "application" /\ Part(key).key = key
  BY Fields DEF Part
<1> QED
  BY <1>2, <1>3, <1>4, <1>5, <1>6

\* What a server sends first under 1.3 if it can go on.
LEMMA FirstFlight13 ==
  ASSUME NEW s \in TlsServers, NEW p \in Probes13, Agrees(s, p)
  PROVE LET us == FirstFlight(s, p)
            f  == FullFlight(s, p)
        IN  /\ us \in Seq(UnitSet) /\ Len(us) = Len(f) + 2
            /\ us[1] = Unit("handshake", "handshake", Plain, IF s.usable THEN "server_hello" ELSE "retry")
            /\ us[2] = CcsUnit
            /\ \A i \in 1..Len(f) : us[i + 2] = Unit("application", "handshake", HsTraffic, f[i])
<1>1. p \in HandshakeProbes /\ p \notin Probes12
  BY DEF HandshakeProbes, Probes12, Probes13
<1> DEFINE f == FullFlight(s, p)
           u == Unit("handshake", "handshake", Plain, IF s.usable THEN "server_hello" ELSE "retry")
           head == <<u, CcsUnit>>
           tail == Units("application", HsTraffic, f)
<1>2. f = Flight13(s, p)
  BY <1>1 DEF FullFlight
<1>3. FirstFlight(s, p) = head \o tail
  BY <1>1, <1>2 DEF FirstFlight, CcsUnit
<1>4. f \in Seq(Messages)
  BY <1>1, FlightSays
<1>5. PICK n \in Nat : n = Len(f)
  BY <1>4, LenProperties
<1>6. u \in UnitSet
  <2>1. (IF s.usable THEN "server_hello" ELSE "retry") \in Messages /\ "handshake" \in Types
    BY DEF Messages, Types
  <2> QED BY <2>1, UnitTyped, KeysTyped
<1> HIDE DEF f, u
<1>7. head \in Seq(UnitSet) /\ Len(head) = 2 /\ head[1] = u /\ head[2] = CcsUnit
  BY <1>6, NamedUnits
<1>8. /\ tail \in Seq(UnitSet) /\ Len(tail) = n
      /\ \A i \in 1..n : tail[i] = Unit("application", "handshake", HsTraffic, f[i])
  <2>1. "application" \in Types
    BY DEF Types
  <2> QED BY <1>4, <1>5, <2>1, UnitsTyped, KeysTyped
<1> HIDE DEF head, tail
<1> DEFINE us == head \o tail
<1>9. /\ us \in Seq(UnitSet) /\ Len(us) = 2 + n
      /\ \A i \in 1..(2 + n) : us[i] = IF i <= 2 THEN head[i] ELSE tail[i - 2]
  <2>1. PICK h \in Nat : h = 2 /\ Len(head) = h
    BY <1>7
  <2>2. head \in Seq(UnitSet) /\ tail \in Seq(UnitSet) /\ Len(head) = h /\ Len(tail) = n
    BY <1>7, <1>8, <2>1
  <2>3. /\ us \in Seq(UnitSet) /\ Len(us) = h + n
        /\ \A i \in 1..(h + n) : us[i] = IF i <= h THEN head[i] ELSE tail[i - h]
    BY <2>2, ConcatProperties
  <2> QED BY <2>1, <2>3
<1> HIDE DEF us
<1>10. us[1] = u /\ us[2] = CcsUnit
  <2>1. 1 \in 1..(2 + n) /\ 2 \in 1..(2 + n) /\ 1 <= 2 /\ 2 <= 2
    OBVIOUS
  <2>2. us[1] = head[1] /\ us[2] = head[2]
    BY <1>9, <2>1
  <2> QED BY <1>7, <2>2
<1>11. ASSUME NEW i \in 1..n PROVE us[i + 2] = Unit("application", "handshake", HsTraffic, f[i])
  <2>1. i + 2 \in 1..(2 + n) /\ ~(i + 2 <= 2) /\ (i + 2) - 2 = i
    OBVIOUS
  <2>2. us[i + 2] = tail[i]
    BY <1>9, <2>1
  <2> QED BY <1>8, <2>2
<1>12. Len(us) = n + 2
  BY <1>9
<1> QED
  BY <1>3, <1>5, <1>9, <1>10, <1>11, <1>12 DEF us, f, u

-----------------------------------------------------------------------------
(* Init, and steps of the other families.                                   *)

\* No step changes the probe or its peer, and only its own steps move a handshake.
LEMMA HandshakeFamily ==
  ASSUME [Next]_vars
  PROVE /\ probe' = probe /\ peer' = peer
        /\ probe \in HandshakeProbes => HandshakeStep \/ UNCHANGED <<run, handshake>>
<1> USE DEF HandshakeProbes, Probes12, Probes13
<1>1. CASE HandshakeStep
  BY <1>1 DEF HandshakeStep, Receive, Send, SendAgain, ReadNothing, LinkBreaks
<1>2. CASE FeatureStep
  BY <1>2 DEF FeatureStep, FeatureKinds, EchoProbes, Ask, Tell
<1>3. CASE QuicStep
  BY <1>3 DEF QuicStep, Reach, Arrives, Settles, ReadVersions
<1>4. CASE AppStep
  BY <1>4 DEF AppStep, AppKinds, Write, Piece, Ends, Fails
<1>5. CASE NameStep
  BY <1>5 DEF NameStep, PolicyChecks, Resolve, AskSystem, FetchSigned, Climb, RootKeys, Descend
<1>6. CASE DenialStep
  BY <1>6 DEF DenialStep, Prove
<1>7. CASE UNCHANGED vars
  BY <1>7 DEF vars, run
<1> QED
  BY <1>1, <1>2, <1>3, <1>4, <1>5, <1>6, <1>7 DEF Next

\* The probes of the other families.
LEMMA OtherProbes ==
  ASSUME Init, probe \in HandshakeProbes
  PROVE HandshakeInit
<1> USE DEF HandshakeProbes, Probes12, Probes13
<1>1. ~FeatureInit
  BY DEF FeatureInit, FeatureKinds, EchoProbes, Begin
<1>2. ~QuicInit
  BY DEF QuicInit, Begin
<1>3. ~AppInit
  BY DEF AppInit, AppKinds, Begin
<1>4. ~NameInit
  BY DEF NameInit, PolicyChecks, Begin
<1>5. ~DenialInit
  BY DEF DenialInit, Begin
<1> QED
  BY <1>1, <1>2, <1>3, <1>4, <1>5 DEF Init

\* A handshake starts with the answer to its ClientHello.
LEMMA HandshakeBegins == Init => HandshakeInv
<1> SUFFICES ASSUME Init, probe \in HandshakeProbes
             PROVE /\ peer \in TlsServers /\ faults \in Nat /\ HandshakeTypeOK
                   /\ InHello \/ InFlight12
  BY DEF HandshakeInv, Places
<1>1. HandshakeInit
  BY OtherProbes
<1>2. /\ peer \in TlsServers /\ faults = 0 /\ verdict = [is |-> "none"]
      /\ pc = (IF probe \in Probes12 THEN "flight" ELSE "hello")
      /\ script = FirstFlight(peer, probe) /\ Fresh /\ flight = <<>>
  BY <1>1 DEF HandshakeInit, Begin, Fresh
<1>3. Untold
  BY <1>2 DEF Untold, Parts
<1>4. sealed \in [key : Keys, seq : Nat] /\ expected \in Nat /\ flight \in Seq(Messages)
  BY <1>2, KeysTyped, HoldsNothing DEF Fresh
<1>5. ASSUME script \in Seq(UnitSet) PROVE HandshakeTypeOK
  BY <1>4, <1>5 DEF HandshakeTypeOK, UnitSet, Types
<1> DEFINE f == FullFlight(peer, probe)
<1>6. f \in Seq(Messages)
  BY <1>2, FlightSays
<1>7. PICK n \in Nat : n = Len(f)
  BY <1>6, LenProperties
<1>8. CASE ~Agrees(peer, probe)
  <2>1. script = <<Alert(Plain)>>
    BY <1>2, <1>8 DEF FirstFlight
  <2>2. script \in Seq(UnitSet)
    BY <2>1, AlertFields, KeysTyped
  <2> QED BY <1>2, <1>3, <1>5, <1>8, <2>1, <2>2 DEF InHello, InFlight12, HandshakeProbes
<1>9. CASE Agrees(peer, probe) /\ probe \in Probes12
  <2>1. script = Units("handshake", Plain, f)
    <3>1. f = Flight12(peer, probe)
      BY <1>9 DEF FullFlight
    <3>2. FirstFlight(peer, probe) = Units("handshake", Plain, Flight12(peer, probe))
      BY <1>9 DEF FirstFlight, Probes12, Probes13
    <3> QED BY <1>2, <3>1, <3>2
  <2>2. /\ script \in Seq(UnitSet) /\ Len(script) = n
        /\ \A i \in 1..n : script[i] = Unit("handshake", "handshake", Plain, f[i])
    <3>1. "handshake" \in Types
      BY DEF Types
    <3> QED BY <1>6, <1>7, <2>1, <3>1, UnitsTyped, KeysTyped
  <2> HIDE DEF f
  <2>3. Progress(f, flight, script, "handshake", Plain)
    <3>1. 0 \in 0..n /\ Len(flight) = 0 /\ Len(script) = n - 0
      BY <1>2, <2>2
    <3>2. \A i \in 1..(n - 0) : script[i] = Unit("handshake", "handshake", Plain, f[0 + i])
      BY <2>2
    <3>3. \A i \in 1..0 : flight[i] = f[i]
      OBVIOUS
    <3> QED BY <1>7, <3>1, <3>2, <3>3 DEF Progress
  <2>4. script # <<>>
    <3>1. Len(f) >= 1
      BY <1>2, FlightSays DEF f
    <3> QED BY <1>7, <2>2, <3>1
  <2> QED BY <1>2, <1>3, <1>5, <1>9, <2>2, <2>3, <2>4 DEF InFlight12, f
<1>10. CASE Agrees(peer, probe) /\ probe \in Probes13
  <2>1. script \in Seq(UnitSet) /\ probe \notin Probes12
    BY <1>2, <1>10, FirstFlight13 DEF Probes12, Probes13
  <2> QED BY <1>2, <1>3, <1>5, <1>10, <2>1 DEF InHello
<1> QED
  BY <1>8, <1>9, <1>10 DEF HandshakeProbes

-----------------------------------------------------------------------------
(* The steps, one place after the other.                                    *)

\* The type invariant, from its parts.
LEMMA TypedAgain ==
  ASSUME script' \in Seq(UnitSet), sealed' \in [key : Keys, seq : Nat], expected' \in Nat,
         flight' \in Seq(Messages)
  PROVE HandshakeTypeOK'
  BY DEF HandshakeTypeOK, UnitSet, Types

\* An error has a cause.
LEMMA FailsTruly ==
  ASSUME Conclude(Failed), peer' = peer, probe' = probe,
         \/ faults' > 0 \/ ~Agrees(peer, probe) \/ ~peer.usable
         \/ probe = "renew12" /\ peer.asks
  PROVE Concluded'
<1>1. pc' = "done" /\ verdict' = Failed /\ verdict'.is = "error"
  BY DEF Conclude, Failed
<1>2. Agrees(peer, probe)' = Agrees(peer, probe)
  BY DEF Agrees
<1> QED
  BY <1>1, <1>2 DEF Concluded, HandshakeVerdictsTrue

\* A connection that breaks tells nothing, but over 1.2 it reads as a refusal.
LEMMA LinkBreaksTruly ==
  ASSUME LinkBreaks, faults = 0, probe = "auth12" /\ pc \in {"send", "auth"} => peer.asks = TRUE
  PROVE Concluded'
<1>1. CASE probe = "auth12" /\ pc \in {"send", "auth"}
  <2>1. faults' > 0 /\ probe' = "auth12" /\ peer' = peer /\ peer.asks = TRUE
    BY <1>1 DEF LinkBreaks, Fault
  <2>2. pc' = "done" /\ verdict' = Auth(TRUE, "yes")
    BY <1>1 DEF LinkBreaks, Conclude
  <2>3. verdict'.is = "auth" /\ verdict'.requested = TRUE /\ verdict'.required = "yes"
    BY <2>2 DEF Auth
  <2> QED BY <2>1, <2>2, <2>3 DEF Concluded, HandshakeVerdictsTrue
<1>2. CASE ~(probe = "auth12" /\ pc \in {"send", "auth"})
  <2>1. Conclude(Failed) /\ peer' = peer /\ probe' = probe
    BY <1>2 DEF LinkBreaks
  <2>2. faults' > 0
    BY DEF LinkBreaks, Fault
  <2> QED BY <2>1, <2>2, FailsTruly
<1> QED
  BY <1>1, <1>2

\* What is said of a server that asked for a certificate.
LEMMA AuthTruly ==
  ASSUME NEW said, Conclude(Auth(TRUE, said)), peer' = peer, probe' = probe, peer.asks = TRUE,
         said = IF faults' > 0 THEN IF probe = "auth12" THEN "yes" ELSE "unknown"
                ELSE IF peer.needs THEN "yes"
                ELSE IF probe = "auth12" \/ peer.tickets > 0 THEN "no" ELSE "unknown"
  PROVE Concluded'
<1>1. pc' = "done" /\ verdict'.is = "auth" /\ verdict'.requested = TRUE /\ verdict'.required = said
  BY DEF Conclude, Auth
<1>2. said = (IF ~peer'.asks THEN "unknown"
              ELSE IF faults' > 0 THEN IF probe' = "auth12" THEN "yes" ELSE "unknown"
              ELSE IF peer'.needs THEN "yes"
              ELSE IF probe' = "auth12" \/ peer'.tickets > 0 THEN "no" ELSE "unknown")
  OBVIOUS
<1> QED
  BY <1>1, <1>2 DEF Concluded, HandshakeVerdictsTrue

\* The whole flight is there: the probe concludes, truly, or goes on.
LEMMA FlightEnds ==
  ASSUME peer \in TlsServers, probe \in HandshakeProbes, probe \in Probes12 => Agrees(peer, probe),
         AfterFlight(FullFlight(peer, probe)), peer' = peer, probe' = probe, faults' = 0
  PROVE \/ Concluded'
        \/ /\ pc' = "send" /\ verdict' = verdict /\ peer.usable
           /\ probe \in Goers /\ (probe \in Auths => peer.asks)
<1> DEFINE f == FullFlight(peer, probe)
<1>1. /\ Holds(f, "request") <=> peer.asks
      /\ probe \in Probes12 => Holds(f, "key_exchange")
      /\ probe = "staple12" => (Holds(f, "status") <=> peer.staples)
      /\ probe = "cert13" => Whole(f) /\ (Holds(f, "stapled") <=> peer.staples)
  BY FlightSays
<1>2. peer.asks \in BOOLEAN /\ peer.staples \in BOOLEAN /\ peer.usable \in BOOLEAN
  BY DEF TlsServers
<1>3. AfterFlight(f)
  OBVIOUS
<1> HIDE DEF f
<1>4. CASE probe = "staple12"
  <2>1. pc' = "done" /\ verdict' = Stapled(f)
    BY <1>3, <1>4 DEF AfterFlight, Conclude
  <2>2. verdict'.is = "staple" /\ verdict'.stapled = Holds(f, "status")
    BY <2>1 DEF Stapled
  <2>3. Holds(f, "status") \in BOOLEAN
    BY DEF Holds
  <2>4. verdict'.stapled = peer.staples
    BY <1>1, <1>2, <1>4, <2>2, <2>3
  <2> QED BY <2>1, <2>2, <2>4 DEF Concluded, HandshakeVerdictsTrue
<1>5. CASE probe = "dh12"
  <2>1. pc' = "done" /\ verdict' = Prime(f)
    BY <1>3, <1>5 DEF AfterFlight, Conclude
  <2>2. verdict'.is = "prime" /\ verdict'.prime = Holds(f, "key_exchange")
    BY <2>1 DEF Prime
  <2>3. Holds(f, "key_exchange") /\ peer.exchange = "dhe"
    BY <1>1, <1>5 DEF Agrees, Probes12
  <2> QED BY <2>1, <2>2, <2>3 DEF Concluded, HandshakeVerdictsTrue
<1>6. CASE probe = "cert13"
  <2>1. pc' = "done" /\ verdict' = Certificates(f)
    BY <1>3, <1>6 DEF AfterFlight, Conclude
  <2>2. verdict'.is = "certificates" /\ verdict'.whole = Whole(f) /\ verdict'.stapled = Holds(f, "stapled")
    BY <2>1 DEF Certificates
  <2>3. Holds(f, "stapled") \in BOOLEAN
    BY DEF Holds
  <2>4. verdict'.stapled = peer.staples /\ Whole(f)
    BY <1>1, <1>2, <1>6, <2>2, <2>3
  <2> QED BY <2>1, <2>2, <2>4 DEF Concluded, HandshakeVerdictsTrue
<1>7. CASE probe \notin {"staple12", "dh12", "cert13"} /\ ~Usable(f)
  <2>1. Conclude(Failed)
    BY <1>3, <1>7 DEF AfterFlight
  <2>2. ~peer.usable
    BY <1>1, <1>7 DEF Usable
  <2> QED BY <2>1, <2>2, FailsTruly
<1>8. CASE probe \in Auths /\ Usable(f) /\ ~Holds(f, "request")
  <2>1. pc' = "done" /\ verdict' = Auth(FALSE, "unknown")
    BY <1>3, <1>8 DEF AfterFlight, Conclude, Auths
  <2>2. verdict'.is = "auth" /\ verdict'.requested = FALSE /\ verdict'.required = "unknown"
    BY <2>1 DEF Auth
  <2>3. peer.asks = FALSE
    BY <1>1, <1>2, <1>8
  <2> QED BY <2>1, <2>2, <2>3 DEF Concluded, HandshakeVerdictsTrue
<1>9. CASE /\ probe \notin {"staple12", "dh12", "cert13"} /\ Usable(f)
           /\ probe \in Auths => Holds(f, "request")
  <2>1. pc' = "send" /\ verdict' = verdict
    BY <1>3, <1>9 DEF AfterFlight, Auths
  <2>2. peer.usable /\ (probe \in Auths => peer.asks)
    BY <1>1, <1>9 DEF Usable
  <2>3. probe \in Goers
    BY <1>9 DEF HandshakeProbes, Probes12, Probes13, Goers, Fetches, Auths
  <2> QED BY <2>1, <2>2, <2>3
<1> QED
  BY <1>4, <1>5, <1>6, <1>7, <1>8, <1>9 DEF Auths

\* While the ServerHello is awaited.
LEMMA FromHello ==
  ASSUME peer \in TlsServers, HandshakeTypeOK, faults = 0, InHello, HandshakeStep,
         peer' = peer, probe' = probe
  PROVE HandshakeTypeOK' /\ Places'
<1>1. probe \in Probes13 /\ probe \notin Probes12 /\ probe \in HandshakeProbes /\ pc = "hello"
  BY DEF InHello, Probes12, Probes13, HandshakeProbes
<1>2. CASE Receive
  <2>1. PICK k \in 1..Len(script) :
          Joins(k) /\ Sends(k) /\ ReadHello13(RecordOf(k))
    BY <1>1, <1>2 DEF Receive, ReadFlight12, ReadFlight13, ReadReply12, ReadReply13, ReadAuth12,
                      ReadAuth13, ReadFinished, ReadRenewal, ReadTickets
  <2> DEFINE r == RecordOf(k)
  <2>2. PICK n \in Nat : n = Len(script)
    BY LenProperties DEF HandshakeTypeOK
  <2>3. k \in 1..n
    BY <2>1, <2>2
  <2>4. /\ n >= 1
        /\ script' \in Seq(UnitSet) /\ Len(script') = n - k
        /\ \A i \in 1..(n - k) : script'[i] = script[i + k]
        /\ r.units \in Seq(Messages) /\ Len(r.units) = k
        /\ \A i \in 1..k : r.units[i] = script[i].what
        /\ r.outer = script[1].outer
        /\ sealed' \in [key : Keys, seq : Nat]
        /\ script[1].key = Plain => sealed' = sealed
    BY <2>1, <2>2, <2>3, Taken
  <2>5. HandshakeTypeOK'
    BY <2>1, <2>4, TypedAgain DEF ReadHello13, HandshakeTypeOK
  <2>6. CASE ~(r.outer = "handshake" /\ r.units = <<"server_hello">>)
    <3>1. Conclude(Failed)
      BY <2>1, <2>6 DEF ReadHello13
    <3>2. ~Agrees(peer, probe) \/ ~peer.usable
      <4> SUFFICES ASSUME Agrees(peer, probe), peer.usable PROVE FALSE
        OBVIOUS
      <4>1. /\ script[1] = Unit("handshake", "handshake", Plain, "server_hello")
            /\ Len(script) = Len(FullFlight(peer, probe)) + 2 /\ script[2] = CcsUnit
        BY <1>1, FirstFlight13 DEF InHello
      <4>2. script[1].outer = "handshake" /\ script[1].what = "server_hello"
        BY <4>1, Fields
      <4>3. k = 1
        <5>1. k >= 2 => script[2].outer = script[1].outer
          BY <2>1, <2>3 DEF Joins
        <5>2. script[2].outer = "ccs"
          BY <4>1, NamedUnits
        <5> QED BY <2>3, <4>2, <5>1, <5>2
      <4>4. r.units[1] = "server_hello" /\ Len(r.units) = 1
        BY <2>4, <4>2, <4>3
      <4>5. <<"server_hello">> \in Seq(Messages) /\ Len(<<"server_hello">>) = 1 /\ <<"server_hello">>[1] = "server_hello"
        BY DEF Messages
      <4> HIDE DEF r
      <4>6. r.units = <<"server_hello">>
        BY <2>4, <4>4, <4>5, SeqEqual
      <4> QED BY <2>4, <2>6, <4>2, <4>6
    <3> QED BY <2>5, <3>1, <3>2, FailsTruly DEF Places
  <2>7. CASE r.outer = "handshake" /\ r.units = <<"server_hello">>
    <3>1. Agrees(peer, probe)
      <4>1. SUFFICES ASSUME ~Agrees(peer, probe) PROVE script[1].outer = "alert"
        BY <2>4, <2>7
      <4>2. script = <<Alert(Plain)>>
        BY <4>1 DEF InHello, FirstFlight
      <4> QED BY <4>2, AlertFields, KeysTyped
    <3> DEFINE f == FullFlight(peer, probe)
    <3>2. PICK l \in Nat : l = Len(f)
      BY <1>1, FlightSays, LenProperties
    <3>3. /\ n = l + 2
          /\ script[1] = Unit("handshake", "handshake", Plain, IF peer.usable THEN "server_hello" ELSE "retry")
          /\ script[2] = CcsUnit
          /\ \A i \in 1..l : script[i + 2] = Unit("application", "handshake", HsTraffic, f[i])
      BY <1>1, <2>2, <3>1, <3>2, FirstFlight13 DEF InHello
    <3> HIDE DEF f
    <3>4. script[1].outer = "handshake" /\ script[1].key = Plain
          /\ script[1].what = (IF peer.usable THEN "server_hello" ELSE "retry")
      BY <3>3, Fields
    <3>5. k = 1
      <4>1. k >= 2 => script[2].outer = script[1].outer
        BY <2>1, <2>3 DEF Joins
      <4>2. script[2].outer = "ccs"
        BY <3>3, NamedUnits
      <4> QED BY <2>3, <3>4, <4>1, <4>2
    <3>6. peer.usable
      <4>1. r.units[1] = script[1].what /\ r.units[1] = "server_hello"
        BY <2>4, <2>7, <3>5
      <4> QED BY <3>4, <4>1
    <3>7. pc' = "flight" /\ verdict' = verdict /\ expected' = expected /\ flight' = flight /\ sealed' = sealed
      BY <2>1, <2>4, <2>7, <3>4 DEF ReadHello13
    <3>8. Len(script') = l + 1 /\ \A i \in 1..(l + 1) : script'[i] = script[i + 1]
      BY <2>4, <3>3, <3>5
    <3>9. script'[1] = CcsUnit
      <4>1. 1 \in 1..(l + 1) /\ 1 + 1 = 2
        OBVIOUS
      <4> QED BY <3>3, <3>8, <4>1
    <3>10. ASSUME NEW i \in 1..l
           PROVE script'[i + 1] = Unit("application", "handshake", HsTraffic, f[i])
      <4>1. i + 1 \in 1..(l + 1) /\ (i + 1) + 1 = i + 2
        OBVIOUS
      <4> QED BY <3>3, <3>8, <4>1
    <3>11. Spared13'
      BY <3>2, <3>7, <3>8, <3>9, <3>10 DEF Spared13, Fresh, InHello, f
    <3>12. InFlight13'
      BY <1>1, <3>6, <3>7, <3>11 DEF InFlight13, InHello, Untold
    <3> QED BY <2>5, <3>12 DEF Places
  <2> QED BY <2>6, <2>7
<1>3. CASE ReadNothing
  <2>1. Conclude(Failed) /\ UNCHANGED handshake /\ (script # <<>> => faults' > 0)
    BY <1>1, <1>3 DEF ReadNothing, Fault
  <2>2. ~Agrees(peer, probe) \/ script # <<>>
    <3> SUFFICES ASSUME Agrees(peer, probe) PROVE script # <<>>
      OBVIOUS
    <3>1. PICK l \in Nat : l = Len(FullFlight(peer, probe))
      BY <1>1, FlightSays, LenProperties
    <3>2. Len(script) = l + 2
      BY <1>1, <3>1, FirstFlight13 DEF InHello
    <3> QED BY <3>2
  <2>3. Concluded'
    BY <2>1, <2>2, FailsTruly
  <2> QED BY <2>1, <2>3 DEF Places, HandshakeTypeOK, handshake
<1>4. CASE LinkBreaks
  <2>1. Concluded'
    BY <1>1, <1>4, LinkBreaksTruly
  <2> QED BY <1>4, <2>1 DEF LinkBreaks, Places, HandshakeTypeOK, handshake
<1> QED
  BY <1>1, <1>2, <1>3, <1>4 DEF HandshakeStep, Send, SendAgain

\* While the flight of 1.2 comes in.
LEMMA FromFlight12 ==
  ASSUME peer \in TlsServers, HandshakeTypeOK, faults = 0, InFlight12, HandshakeStep,
         peer' = peer, probe' = probe
  PROVE HandshakeTypeOK' /\ Places'
<1>1. probe \in Probes12 /\ probe \notin Probes13 /\ probe \in HandshakeProbes /\ pc = "flight"
  BY DEF InFlight12, Probes12, Probes13, HandshakeProbes
<1>2. CASE Receive
  <2>1. PICK k \in 1..Len(script) :
          Joins(k) /\ Sends(k) /\ ReadFlight12(RecordOf(k))
    BY <1>1, <1>2 DEF Receive, ReadHello13, ReadFlight13, ReadReply12, ReadReply13, ReadAuth12,
                      ReadAuth13, ReadFinished, ReadRenewal, ReadTickets
  <2> DEFINE r == RecordOf(k)
             f == FullFlight(peer, probe)
  <2>2. PICK n \in Nat : n = Len(script)
    BY LenProperties DEF HandshakeTypeOK
  <2>3. k \in 1..n
    BY <2>1, <2>2
  <2>4. /\ script' \in Seq(UnitSet) /\ Len(script') = n - k
        /\ \A i \in 1..(n - k) : script'[i] = script[i + k]
        /\ r.units \in Seq(Messages) /\ Len(r.units) = k
        /\ \A i \in 1..k : r.units[i] = script[i].what
        /\ r.outer = script[1].outer
        /\ sealed' \in [key : Keys, seq : Nat]
        /\ script[1].key = Plain => sealed' = sealed
    BY <2>1, <2>2, <2>3, Taken
  <2>5. flight \in Seq(Messages) /\ expected \in Nat /\ f \in Seq(Messages) /\ Len(f) >= 1
    BY <1>1, FlightSays DEF HandshakeTypeOK
  <2>6. CASE r.outer # "handshake"
    <3>1. Conclude(Failed) /\ expected' = expected /\ flight' = flight
      BY <2>1, <2>6 DEF ReadFlight12
    <3>2. ~Agrees(peer, probe)
      <4> SUFFICES ASSUME Agrees(peer, probe) PROVE FALSE
        OBVIOUS
      <4>1. PICK l \in Nat : l = Len(f)
        BY <2>5, LenProperties
      <4>2. PICK m \in 0..l : /\ n = l - m
                              /\ \A i \in 1..(l - m) : script[i] = Unit("handshake", "handshake", Plain, f[m + i])
        BY <2>2, <4>1 DEF Progress, InFlight12
      <4>3. script[1] = Unit("handshake", "handshake", Plain, f[m + 1])
        BY <2>3, <4>2
      <4> QED BY <2>4, <2>6, <4>3, Fields
    <3>3. Concluded'
      BY <3>1, <3>2, FailsTruly
    <3> QED BY <2>4, <2>5, <3>1, <3>3, TypedAgain DEF Places
  <2>7. CASE r.outer = "handshake"
    <3>1. Agrees(peer, probe) /\ Progress(f, flight, script, "handshake", Plain)
      <4>1. ASSUME script = <<Alert(Plain)>> PROVE FALSE
        <5>1. script[1] = Alert(Plain)
          BY <4>1
        <5>2. script[1].outer = "alert"
          BY <5>1, AlertFields, KeysTyped
        <5> QED BY <2>4, <2>7, <5>2
      <4> QED BY <4>1 DEF InFlight12
    <3>2. flight' = flight \o r.units /\ expected' = expected
      BY <2>1, <2>7 DEF ReadFlight12
    <3>3. script[1].key = Plain
      <4>1. PICK l \in Nat : l = Len(f)
        BY <2>5, LenProperties
      <4>2. PICK m \in 0..l : /\ n = l - m
                              /\ \A i \in 1..(l - m) : script[i] = Unit("handshake", "handshake", Plain, f[m + i])
        BY <2>2, <3>1, <4>1 DEF Progress
      <4>3. script[1] = Unit("handshake", "handshake", Plain, f[m + 1])
        BY <2>3, <4>2
      <4> QED BY <4>3, Fields
    <3>4. /\ Progress(f, flight', script', "handshake", Plain)
          /\ flight' \in Seq(Messages)
          /\ \A x : (\A i \in 1..Len(f) : f[i] = x <=> i = Len(f)) /\ Holds(flight', x) => flight' = f
      <4>1. Cut(script, k, r.units, script')
        BY <2>1, <2>2, <2>4 DEF Cut
      <4> HIDE DEF f, r
      <4> QED BY <2>5, <3>1, <3>2, <4>1, ProgressStep
    <3>5. HandshakeTypeOK'
      BY <2>4, <2>5, <3>2, <3>4, TypedAgain
    <3>6. sealed' = sealed
      BY <2>4, <3>3
    <3>7. CASE Holds(flight', "done")
      <4>1. \A i \in 1..Len(f) : f[i] = "done" <=> i = Len(f)
        BY <1>1, FlightSays DEF Terminator
      <4>2. flight' = f
        BY <3>4, <3>7, <4>1
      <4>3. AfterFlight(flight')
        BY <2>1, <2>7, <3>7 DEF ReadFlight12
      <4>4. AfterFlight(f)
        BY <4>2, <4>3
      <4>5. \/ Concluded'
            \/ /\ pc' = "send" /\ verdict' = verdict /\ peer.usable
               /\ probe \in Goers /\ (probe \in Auths => peer.asks)
        BY <1>1, <1>2, <3>1, <4>4, FlightEnds DEF Receive, NoFault
      <4>6. sealed'.key = Plain /\ Untold
        BY <3>6 DEF InFlight12, Fresh
      <4>7. Concluded' \/ ToSend'
        BY <4>2, <4>5, <4>6 DEF ToSend, Met, Untold
      <4> QED BY <3>5, <4>7 DEF Places
    <3>8. CASE ~Holds(flight', "done")
      <4>1. pc' = pc /\ verdict' = verdict
        BY <2>1, <2>7, <3>8 DEF ReadFlight12
      <4>2. script' # <<>>
        <5>1. \A i \in 1..Len(f) : f[i] = "done" <=> i = Len(f)
          BY <1>1, FlightSays DEF Terminator
        <5> HIDE DEF f, r
        <5> QED BY <2>5, <3>4, <3>8, <5>1, ProgressEnds
      <4>3. InFlight12'
        BY <1>1, <3>1, <3>2, <3>4, <3>6, <4>1, <4>2 DEF InFlight12, Fresh, Untold, Agrees
      <4> QED BY <3>5, <4>3 DEF Places
    <3> QED BY <3>7, <3>8
  <2> QED BY <2>6, <2>7
<1>3. CASE ReadNothing
  <2>1. Conclude(Failed) /\ UNCHANGED handshake /\ (script # <<>> => faults' > 0)
    BY <1>1, <1>3 DEF ReadNothing, Fault
  <2>2. ~Agrees(peer, probe) \/ script # <<>>
    BY DEF InFlight12
  <2>3. Concluded'
    BY <2>1, <2>2, FailsTruly
  <2> QED BY <2>1, <2>3 DEF Places, HandshakeTypeOK, handshake
<1>4. CASE LinkBreaks
  <2>1. Concluded'
    BY <1>1, <1>4, LinkBreaksTruly
  <2> QED BY <1>4, <2>1 DEF LinkBreaks, Places, HandshakeTypeOK, handshake
<1> QED
  BY <1>1, <1>2, <1>3, <1>4 DEF HandshakeStep, Send, SendAgain

\* While the sealed flight of 1.3 comes in, after a ChangeCipherSpec.
LEMMA FromFlight13 ==
  ASSUME peer \in TlsServers, HandshakeTypeOK, faults = 0, InFlight13, HandshakeStep,
         peer' = peer, probe' = probe
  PROVE HandshakeTypeOK' /\ Places'
<1>1. /\ probe \in Probes13 /\ probe \notin Probes12 /\ probe \in HandshakeProbes /\ pc = "flight"
      /\ peer.usable /\ Untold
  BY DEF InFlight13, Probes12, Probes13, HandshakeProbes
<1>2. CASE Receive
  <2>1. PICK k \in 1..Len(script) :
          Joins(k) /\ Sends(k) /\ ReadFlight13(RecordOf(k))
    BY <1>1, <1>2 DEF Receive, ReadHello13, ReadFlight12, ReadReply12, ReadReply13, ReadAuth12,
                      ReadAuth13, ReadFinished, ReadRenewal, ReadTickets
  <2> DEFINE r == RecordOf(k)
             f == FullFlight(peer, probe)
  <2>2. PICK n \in Nat : n = Len(script)
    BY LenProperties DEF HandshakeTypeOK
  <2>3. k \in 1..n
    BY <2>1, <2>2
  <2>4. /\ script' \in Seq(UnitSet) /\ Len(script') = n - k
        /\ \A i \in 1..(n - k) : script'[i] = script[i + k]
        /\ r.units \in Seq(Messages) /\ Len(r.units) = k
        /\ \A i \in 1..k : r.units[i] = script[i].what
        /\ r.outer = script[1].outer /\ r.key = script[1].key
        /\ script[1].inner # "handshake" => k = 1
        /\ sealed' \in [key : Keys, seq : Nat]
        /\ script[1].key = Plain => sealed' = sealed
        /\ script[1].key # Plain => sealed'.key = script[1].key /\ sealed'.seq = r.seq + 1
        /\ r.seq = (IF script[1].key = sealed.key THEN sealed.seq ELSE 0)
    BY <2>1, <2>2, <2>3, Taken
  <2>5. flight \in Seq(Messages) /\ expected \in Nat /\ f \in Seq(Messages) /\ Len(f) >= 1
    BY <1>1, FlightSays DEF HandshakeTypeOK
  <2>6. PICK l \in Nat : l = Len(f)
    BY <2>5, LenProperties
  <2>7. CASE Spared13
    <3>1. /\ Fresh /\ flight = <<>> /\ n = l + 1 /\ script[1] = CcsUnit
          /\ \A i \in 1..l : script[i + 1] = Unit("application", "handshake", HsTraffic, f[i])
      BY <2>2, <2>6, <2>7 DEF Spared13
    <3>2. r.outer = "ccs" /\ sealed' = sealed /\ k = 1
      BY <2>4, <3>1, NamedUnits
    <3>3. UNCHANGED <<pc, verdict, expected, flight>>
      BY <2>1, <3>2 DEF ReadFlight13
    <3> HIDE DEF f
    <3>4. Progress(f, flight', script', "application", HsTraffic)
      <4>1. 0 \in 0..l /\ Len(flight') = 0 /\ Len(script') = l - 0
        BY <2>4, <3>1, <3>2, <3>3
      <4>2. ASSUME NEW i \in 1..(l - 0)
            PROVE script'[i] = Unit("application", "handshake", HsTraffic, f[0 + i])
        <5>1. i \in 1..l /\ i \in 1..(n - k) /\ 0 + i = i
          BY <3>1, <3>2
        <5> QED BY <2>4, <3>1, <3>2, <5>1
      <4>3. \A i \in 1..0 : flight'[i] = f[i]
        OBVIOUS
      <4> QED BY <2>6, <4>1, <4>2, <4>3 DEF Progress
    <3>7. script' # <<>>
      <4>1. l >= 1 /\ Len(script') = l
        BY <2>4, <2>5, <2>6, <3>1, <3>2 DEF f
      <4> QED BY <4>1
    <3>5. InFlight13'
      BY <1>1, <3>1, <3>2, <3>3, <3>4, <3>7 DEF InFlight13, Flows13, Fresh, Untold, f
    <3>6. HandshakeTypeOK'
      BY <2>4, <2>5, <3>3, TypedAgain
    <3> QED BY <3>5, <3>6 DEF Places
  <2>8. CASE Flows13
    <3>1. Progress(f, flight, script, "application", HsTraffic)
      BY <2>8 DEF Flows13
    <3>2. script[1].outer = "application" /\ script[1].key = HsTraffic
      <4>1. PICK m \in 0..l : /\ n = l - m
                              /\ \A i \in 1..(l - m) : script[i] = Unit("application", "handshake", HsTraffic, f[m + i])
        BY <2>2, <2>6, <3>1 DEF Progress
      <4>2. script[1] = Unit("application", "handshake", HsTraffic, f[m + 1])
        BY <2>3, <4>1
      <4> QED BY <4>2, Fields
    <3>3. HsTraffic # Plain
      BY DEF HsTraffic, Plain
    <3>4. r.seq = expected
      BY <2>4, <2>8, <3>2, <3>3 DEF Flows13, Fresh
    <3>5. Opens(r)
      BY <1>1, <2>4, <3>2, <3>4 DEF Opens, ClientKey
    <3>6. r.outer = "application"
      BY <2>4, <3>2
    <3>7. flight' = flight \o r.units /\ expected' = expected + 1
      BY <2>1, <3>5, <3>6 DEF ReadFlight13
    <3>8. /\ Progress(f, flight', script', "application", HsTraffic)
          /\ flight' \in Seq(Messages)
          /\ \A x : (\A i \in 1..Len(f) : f[i] = x <=> i = Len(f)) /\ Holds(flight', x) => flight' = f
      <4>1. Cut(script, k, r.units, script')
        BY <2>1, <2>2, <2>4 DEF Cut
      <4> HIDE DEF f, r
      <4> QED BY <2>5, <3>1, <3>7, <4>1, ProgressStep
    <3>9. sealed'.key = HsTraffic /\ sealed'.seq = expected'
      BY <2>4, <3>2, <3>3, <3>4, <3>7
    <3>10. expected' \in Nat
      BY <2>5, <3>7
    <3>11. HandshakeTypeOK'
      BY <2>4, <3>8, <3>10, TypedAgain
    <3>12. CASE Holds(flight', "finished")
      <4>1. \A i \in 1..Len(f) : f[i] = "finished" <=> i = Len(f)
        BY <1>1, FlightSays DEF Terminator
      <4>2. flight' = f
        BY <3>8, <3>12, <4>1
      <4>3. AfterFlight(flight')
        BY <2>1, <3>5, <3>6, <3>12 DEF ReadFlight13
      <4>4. AfterFlight(f)
        BY <4>2, <4>3
      <4>5. \/ Concluded'
            \/ /\ pc' = "send" /\ verdict' = verdict /\ peer.usable
               /\ probe \in Goers /\ (probe \in Auths => peer.asks)
        BY <1>1, <1>2, <4>4, FlightEnds DEF Receive, NoFault
      <4>6. Concluded' \/ ToSend'
        BY <1>1, <3>9, <4>2, <4>5 DEF ToSend, Met, Untold
      <4> QED BY <3>11, <4>6 DEF Places
    <3>13. CASE ~Holds(flight', "finished")
      <4>1. pc' = pc /\ verdict' = verdict
        BY <2>1, <3>5, <3>6, <3>13 DEF ReadFlight13
      <4>4. script' # <<>>
        <5>1. \A i \in 1..Len(f) : f[i] = "finished" <=> i = Len(f)
          BY <1>1, FlightSays DEF Terminator
        <5> HIDE DEF f, r
        <5> QED BY <2>5, <3>8, <3>13, <5>1, ProgressEnds
      <4>2. Flows13'
        BY <3>8, <3>9, <4>4 DEF Flows13
      <4>3. InFlight13'
        BY <1>1, <4>1, <4>2 DEF InFlight13, Untold
      <4> QED BY <3>11, <4>3 DEF Places
    <3> QED BY <3>12, <3>13
  <2> QED BY <2>7, <2>8 DEF InFlight13
<1>3. CASE ReadNothing
  <2>1. Conclude(Failed) /\ UNCHANGED handshake /\ (script # <<>> => faults' > 0)
    BY <1>1, <1>3 DEF ReadNothing, Fault
  <2>2. script # <<>>
    <3>1. CASE Spared13
      <4>1. PICK l \in Nat : l = Len(FullFlight(peer, probe))
        BY <1>1, FlightSays, LenProperties
      <4>2. Len(script) = l + 1
        BY <3>1, <4>1 DEF Spared13
      <4> QED BY <4>2
    <3> QED BY <3>1 DEF InFlight13, Flows13
  <2>3. Concluded'
    BY <2>1, <2>2, FailsTruly
  <2> QED BY <2>1, <2>3 DEF Places, HandshakeTypeOK, handshake
<1>4. CASE LinkBreaks
  <2>1. Concluded'
    BY <1>1, <1>4, LinkBreaksTruly
  <2> QED BY <1>4, <2>1 DEF LinkBreaks, Places, HandshakeTypeOK, handshake
<1> QED
  BY <1>1, <1>2, <1>3, <1>4 DEF HandshakeStep, Send, SendAgain

\* The server accepts what the client sends unless it is about the certificate.
LEMMA RefusedOver ==
  ASSUME Met, NEW said, said = IF probe \in Probes12 THEN Said12 ELSE Said13,
         ~Accepts(said, Covered(said))
  PROVE peer.needs \/ (peer.asks /\ probe \notin Auths)
<1> SUFFICES ASSUME ~peer.needs, ~(peer.asks /\ probe \notin Auths) PROVE FALSE
  OBVIOUS
<1> DEFINE C == IF peer.asks THEN <<"certificate">> ELSE <<>>
<1>1. EmptyCertificate = C
  BY DEF EmptyCertificate, Met, Auths
<1>2. C \in Seq(Messages)
  <2>1. "certificate" \in Messages
    BY DEF Messages
  <2> QED BY <2>1, HoldsOne, HoldsNothing
<1>3. said = C \o (IF probe \in Probes12 THEN <<"client_key_exchange">> ELSE <<>>)
  <2> HIDE DEF C
  <2>1. CASE probe \in Probes12
    BY <1>1, <2>1 DEF Said12
  <2>2. CASE probe \notin Probes12
    <3>1. C \o <<>> = C
      BY <1>2, ConcatEmptySeq
    <3> QED BY <1>1, <2>2, <3>1 DEF Said13
  <2> QED BY <2>1, <2>2
<1>4. Covered(said) = FullFlight(peer, probe) \o said
  BY DEF Covered, Met
<1> QED
  BY <1>3, <1>4 DEF Accepts

\* And what it accepts gives it no reason to refuse.
LEMMA AcceptedOver ==
  ASSUME NEW said, said = IF probe \in Probes12 THEN Said12 ELSE Said13, NEW covered, Accepts(said, covered)
  PROVE Welcome
<1>1. ~peer.needs
  BY DEF Accepts
<1>2. SUFFICES ASSUME peer.asks, probe \notin Auths PROVE FALSE
  BY <1>1 DEF Welcome
<1> DEFINE A == {"certificate", "client_key_exchange"}
           K == IF probe \in Probes12 THEN <<"client_key_exchange">> ELSE <<>>
<1>3. said = <<"certificate">> \o K
  BY <1>2 DEF Accepts
<1>4. PICK k \in Nat : k = Len(K) /\ K \in Seq(A)
  <2>1. <<"client_key_exchange">> \in Seq(A) /\ Len(<<"client_key_exchange">>) = 1
    OBVIOUS
  <2>2. <<>> \in Seq(A) /\ Len(<<>>) = 0
    OBVIOUS
  <2>3. CASE probe \in Probes12
    BY <2>1, <2>3
  <2>4. CASE probe \notin Probes12
    BY <2>2, <2>4
  <2> QED BY <2>3, <2>4
<1>5. said = K
  <2>1. EmptyCertificate = <<>>
    BY <1>2 DEF EmptyCertificate, Auths
  <2>2. CASE probe \in Probes12
    <3>1. said = <<>> \o K
      BY <2>1, <2>2 DEF Said12
    <3> HIDE DEF K
    <3> QED BY <1>4, <3>1, ConcatEmptySeq
  <2>3. CASE probe \notin Probes12
    BY <2>1, <2>3 DEF Said13
  <2> QED BY <2>2, <2>3
<1> HIDE DEF K
<1>6. <<"certificate">> \in Seq(A) /\ Len(<<"certificate">>) = 1
  OBVIOUS
<1>7. PICK h \in Nat : h = 1 /\ Len(<<"certificate">>) = h
  BY <1>6
<1>8. Len(<<"certificate">> \o K) = h + k
  BY <1>4, <1>6, <1>7, ConcatProperties
<1> QED
  BY <1>3, <1>4, <1>5, <1>7, <1>8

\* A unit n times.
LEMMA TimesTyped ==
  ASSUME NEW n \in Nat, NEW u \in UnitSet
  PROVE LET us == Times(n, u)
        IN  us \in Seq(UnitSet) /\ Len(us) = n /\ \A i \in 1..n : us[i] = u
<1> DEFINE us == [i \in 1..n |-> u]
<1>1. us \in Seq(UnitSet)
  <2>1. \A i \in 1..n : u \in UnitSet
    OBVIOUS
  <2> QED BY <2>1, IsASeq
<1>2. Len(us) = n /\ \A i \in 1..n : us[i] = u
  BY <1>1, LenProperties
<1> QED
  BY <1>1, <1>2 DEF Times

\* n units of one kind, or none.
LEMMA ResponseTyped ==
  ASSUME NEW u \in UnitSet
  PROVE \E n \in Nat :
          LET us == IF probe \in Fetches THEN Times(ResponseParts, u) ELSE <<>>
          IN  /\ n = IF probe \in Fetches THEN ResponseParts ELSE 0
              /\ us \in Seq(UnitSet) /\ Len(us) = n /\ \A i \in 1..n : us[i] = u
<1>1. CASE probe \in Fetches
  <2>1. ResponseParts \in Nat
    BY HandshakesAssumption
  <2> QED BY <1>1, <2>1, TimesTyped
<1>2. CASE probe \notin Fetches
  <2>1. <<>> \in Seq(UnitSet) /\ Len(<<>>) = 0 /\ \A i \in 1..0 : <<>>[i] = u
    OBVIOUS
  <2> QED BY <1>2, <2>1
<1> QED
  BY <1>1, <1>2

\* What the server sends under 1.2 when it accepts: tickets, its ChangeCipherSpec and
\* Finished, and the response.
LEMMA Grants12 ==
  ASSUME peer \in TlsServers, probe \in Probes12, NEW said, NEW covered, Accepts(said, covered),
         script' = SecondFlight(said, covered)
  PROVE \E t, n \in Nat :
          /\ n = IF probe \in Fetches THEN ResponseParts ELSE 0
          /\ script' \in Seq(UnitSet) /\ Tickets(t, n)'
<1> DEFINE R == IF probe \in Fetches THEN Times(ResponseParts, Part(Master)) ELSE <<>>
           T == Times(peer.tickets, Ticket12)
           M == <<CcsUnit, Finished12>>
<1>0. probe \notin Probes13
  BY DEF Probes12, Probes13
<1>1. script' = (T \o M) \o R
  BY <1>0 DEF SecondFlight, Fetches, Part, Ticket12, CcsUnit, Finished12
<1>2. PICK n \in Nat : /\ n = IF probe \in Fetches THEN ResponseParts ELSE 0
                       /\ R \in Seq(UnitSet) /\ Len(R) = n /\ \A i \in 1..n : R[i] = Part(Master)
  <2>1. Part(Master) \in UnitSet
    BY NamedUnits, KeysTyped
  <2> QED BY <2>1, ResponseTyped
<1>3. PICK t \in Nat : t = peer.tickets
  BY HandshakesAssumption DEF TlsServers
<1>4. T \in Seq(UnitSet) /\ Len(T) = t /\ \A i \in 1..t : T[i] = Ticket12
  BY <1>3, NamedUnits, TimesTyped
<1>5. M \in Seq(UnitSet) /\ Len(M) = 2 /\ M[1] = CcsUnit /\ M[2] = Finished12
  BY NamedUnits
<1>6. PICK h \in Nat : h = 2 /\ Len(M) = h
  BY <1>5
<1> HIDE DEF R, T, M
<1> DEFINE H == T \o M
           us == H \o R
<1>7. H \in Seq(UnitSet) /\ Len(H) = t + h /\ \A i \in 1..(t + h) : H[i] = IF i <= t THEN T[i] ELSE M[i - t]
  <2>1. T \in Seq(UnitSet) /\ Len(T) = t /\ M \in Seq(UnitSet) /\ Len(M) = h
    BY <1>4, <1>5, <1>6
  <2> QED BY <2>1, ConcatProperties
<1> HIDE DEF H
<1>8. PICK g \in Nat : g = t + h
  OBVIOUS
<1>9. us \in Seq(UnitSet) /\ Len(us) = g + n /\ \A i \in 1..(g + n) : us[i] = IF i <= g THEN H[i] ELSE R[i - g]
  <2>1. H \in Seq(UnitSet) /\ Len(H) = g /\ R \in Seq(UnitSet) /\ Len(R) = n
    BY <1>2, <1>7, <1>8
  <2> QED BY <2>1, ConcatProperties
<1> HIDE DEF us
<1>10. ASSUME NEW i \in 1..t PROVE us[i] = Ticket12
  <2>1. i \in 1..(t + h) /\ i <= t /\ i \in 1..(g + n) /\ i <= g
    BY <1>8
  <2>2. us[i] = H[i] /\ H[i] = T[i]
    BY <1>7, <1>9, <2>1
  <2> QED BY <1>4, <2>2
<1>11. us[t + 1] = CcsUnit
  <2>1. t + 1 \in 1..(t + h) /\ ~(t + 1 <= t) /\ (t + 1) - t = 1 /\ t + 1 \in 1..(g + n) /\ t + 1 <= g
    BY <1>6, <1>8
  <2>2. us[t + 1] = H[t + 1] /\ H[t + 1] = M[1]
    BY <1>7, <1>9, <2>1
  <2> QED BY <1>5, <2>2
<1>12. us[t + 2] = Finished12
  <2>1. t + 2 \in 1..(t + h) /\ ~(t + 2 <= t) /\ (t + 2) - t = 2 /\ t + 2 \in 1..(g + n) /\ t + 2 <= g
    BY <1>6, <1>8
  <2>2. us[t + 2] = H[t + 2] /\ H[t + 2] = M[2]
    BY <1>7, <1>9, <2>1
  <2> QED BY <1>5, <2>2
<1>13. ASSUME NEW i \in 1..n PROVE us[t + 2 + i] = Part(Master)
  <2>1. t + 2 + i \in 1..(g + n) /\ ~(t + 2 + i <= g) /\ (t + 2 + i) - g = i
    BY <1>6, <1>8
  <2>2. us[t + 2 + i] = R[i]
    BY <1>9, <2>1
  <2> QED BY <1>2, <2>2
<1>14. Len(us) = t + 2 + n
  BY <1>6, <1>8, <1>9
<1>15. script' = us
  BY <1>1 DEF us, H
<1>16. Tickets(t, n)'
  BY <1>10, <1>11, <1>12, <1>13, <1>14, <1>15 DEF Tickets
<1> QED
  BY <1>2, <1>9, <1>15, <1>16

\* Under 1.3: tickets and the response, under the traffic secret of the application.
LEMMA Grants13 ==
  ASSUME peer \in TlsServers, probe \in Probes13, NEW said, NEW covered, Accepts(said, covered),
         script' = SecondFlight(said, covered), peer' = peer, probe' = probe
  PROVE \E t, n \in Nat :
          /\ t = peer.tickets /\ n = IF probe \in Fetches THEN ResponseParts ELSE 0
          /\ script' \in Seq(UnitSet) /\ Granted13(t, n)'
<1>1. probe \notin Probes12 /\ probe \in HandshakeProbes
  BY DEF Probes12, Probes13, HandshakeProbes
<1>2. Ap \in Keys /\ Ap' = Ap /\ Ticket13' = Ticket13
  <2>1. Ap \in Keys
    BY <1>1, FlightSays, ApKey DEF Ap
  <2> QED BY <2>1 DEF Ap, Ticket13
<1>3. Ticket13 \in UnitSet
  <2>1. "application" \in Types /\ "handshake" \in Types
        /\ (IF peer.early THEN "early_ticket" ELSE "ticket") \in Messages
    BY DEF Types, Messages
  <2> QED BY <1>2, <2>1, UnitTyped DEF Ticket13
<1> DEFINE R == IF probe \in Fetches THEN Times(ResponseParts, Part(Ap)) ELSE <<>>
           T == Times(peer.tickets, Ticket13)
<1>4. script' = T \o R
  BY <1>1 DEF SecondFlight, Fetches, Part, Ticket13, Ap
<1>5. PICK n \in Nat : /\ n = IF probe \in Fetches THEN ResponseParts ELSE 0
                       /\ R \in Seq(UnitSet) /\ Len(R) = n /\ \A i \in 1..n : R[i] = Part(Ap)
  <2>1. Part(Ap) \in UnitSet
    BY <1>2, NamedUnits
  <2> QED BY <2>1, ResponseTyped
<1>6. PICK t \in Nat : t = peer.tickets
  BY HandshakesAssumption DEF TlsServers
<1>7. T \in Seq(UnitSet) /\ Len(T) = t /\ \A i \in 1..t : T[i] = Ticket13
  BY <1>3, <1>6, TimesTyped
<1> HIDE DEF R, T
<1> DEFINE us == T \o R
<1>8. us \in Seq(UnitSet) /\ Len(us) = t + n /\ \A i \in 1..(t + n) : us[i] = IF i <= t THEN T[i] ELSE R[i - t]
  <2>1. T \in Seq(UnitSet) /\ Len(T) = t /\ R \in Seq(UnitSet) /\ Len(R) = n
    BY <1>5, <1>7
  <2> QED BY <2>1, ConcatProperties
<1> HIDE DEF us
<1>9. ASSUME NEW i \in 1..t PROVE us[i] = Ticket13
  BY <1>7, <1>8
<1>10. ASSUME NEW i \in 1..n PROVE us[t + i] = Part(Ap)
  <2>1. t + i \in 1..(t + n) /\ ~(t + i <= t) /\ (t + i) - t = i
    OBVIOUS
  <2>2. us[t + i] = R[i]
    BY <1>8, <2>1
  <2> QED BY <1>5, <2>2
<1>11. script' = us
  BY <1>4 DEF us
<1>12. Len(script') = t + n /\ (t > 0 => peer.tickets > 0)
  BY <1>6, <1>8, <1>11
<1>13. \A i \in 1..t : script'[i] = Ticket13'
  BY <1>2, <1>9, <1>11
<1>14. \A i \in 1..n : script'[t + i] = Part(Ap)'
  BY <1>2, <1>10, <1>11 DEF Part
<1>15. Granted13(t, n)'
  BY <1>12, <1>13, <1>14 DEF Granted13
<1> QED
  BY <1>5, <1>6, <1>8, <1>11, <1>15

\* The client's flight is answered.
LEMMA FromSend ==
  ASSUME peer \in TlsServers, HandshakeTypeOK, faults = 0, ToSend, HandshakeStep,
         peer' = peer, probe' = probe
  PROVE HandshakeTypeOK' /\ Places'
<1>1. pc = "send" /\ Untold /\ Met /\ probe \in Goers
  BY DEF ToSend, Met
<1>2. probe \in HandshakeProbes /\ peer.asks \in BOOLEAN
  BY DEF HandshakeStep, TlsServers
<1>3. CASE Send
  <2>1. PICK said : /\ said = IF probe \in Probes12 THEN Said12 ELSE Said13
                    /\ script' = SecondFlight(said, Covered(said))
    BY <1>3 DEF Send
  <2>2. /\ expected' = 0 /\ verdict' = verdict /\ sealed' = sealed /\ flight' = flight
        /\ pc' = CASE probe \in {"fetch12", "fetch13"} -> "reply"
                   [] probe \in {"auth12", "auth13"} -> "auth"
                   [] probe = "renew12" -> "drain"
                   [] probe = "early13" -> "tickets"
    BY <1>3 DEF Send
  <2>3. Replying'
    BY <2>2 DEF Replying, Fetches, Auths
  <2>4. Met'
    BY <1>1, <2>2 DEF Met
  <2>5. ASSUME script' \in Seq(UnitSet) PROVE HandshakeTypeOK'
    <3>1. flight' \in Seq(Messages) /\ sealed' \in [key : Keys, seq : Nat] /\ expected' \in Nat
      BY <2>2 DEF HandshakeTypeOK
    <3> QED BY <2>5, <3>1, TypedAgain
  <2>6. CASE ~Accepts(said, Covered(said)) /\ probe \in Probes12
    <3>1. script' = <<Alert(Plain)>>
      BY <2>1, <2>6 DEF SecondFlight
    <3>2. script' \in Seq(UnitSet)
      BY <3>1, AlertFields, KeysTyped
    <3>3. peer.needs \/ (peer.asks /\ probe \notin Auths)
      BY <1>1, <2>1, <2>6, RefusedOver
    <3>4. Refusal(Plain)'
      BY <1>1, <2>2, <3>1, <3>3 DEF Refusal, Alert, Plain, Unit, Untold
    <3>5. sealed'.key = Plain
      BY <2>2, <2>6 DEF ToSend, Probes12, Probes13
    <3>6. Reading12'
      BY <2>3, <2>4, <2>6, <3>4, <3>5 DEF Reading12, Plain
    <3> QED BY <2>5, <3>2, <3>6 DEF Places
  <2>7. CASE Accepts(said, Covered(said)) /\ probe \in Probes12
    <3>1. PICK t \in Nat, n \in Nat : /\ n = IF probe \in Fetches THEN ResponseParts ELSE 0
                                      /\ script' \in Seq(UnitSet) /\ Tickets(t, n)'
      BY <2>1, <2>7, Grants12
    <3>2. sealed'.key = Plain /\ Welcome'
      <4>1. Welcome
        BY <2>1, <2>7, AcceptedOver
      <4> QED BY <2>2, <2>7, <4>1 DEF ToSend, Probes12, Probes13, Welcome
    <3>3. Awaited(n)'
      <4>1. Parts(verdict)' = 0
        BY <1>1, <2>2 DEF Untold
      <4> QED BY <3>1, <4>1, HandshakesAssumption DEF Awaited
    <3>4. Granted12(n)'
      BY <3>1, <3>2 DEF Granted12, Plain
    <3>5. Reading12'
      BY <2>3, <2>4, <2>7, <3>2, <3>3, <3>4 DEF Reading12
    <3> QED BY <2>5, <3>1, <3>5 DEF Places
  <2>8. CASE ~Accepts(said, Covered(said)) /\ probe \in Probes13
    <3>1. probe \notin Probes12
      BY <2>8 DEF Probes12, Probes13
    <3>2. script' = <<Alert(Ap)>>
      BY <2>1, <2>8, <3>1 DEF SecondFlight, Ap
    <3>3. Ap \in Keys
      BY <1>2, FlightSays, ApKey DEF Ap
    <3>4. script' \in Seq(UnitSet)
      BY <3>2, <3>3, AlertFields
    <3>5. peer.needs \/ (peer.asks /\ probe \notin Auths)
      BY <1>1, <2>1, <2>8, RefusedOver
    <3>6. Refusal(Ap)'
      BY <1>1, <2>2, <3>2, <3>5 DEF Refusal, Alert, Ap, Plain, Master, Unit, Untold
    <3>7. sealed'.key \in {Plain, HsTraffic} /\ expected' = 0
      BY <2>2 DEF ToSend
    <3>8. Reading13'
      BY <2>3, <2>4, <2>8, <3>6, <3>7 DEF Reading13, Plain, HsTraffic
    <3> QED BY <2>5, <3>4, <3>8 DEF Places
  <2>9. CASE Accepts(said, Covered(said)) /\ probe \in Probes13
    <3>1. PICK t \in Nat, n \in Nat : /\ t = peer.tickets /\ n = IF probe \in Fetches THEN ResponseParts ELSE 0
                                      /\ script' \in Seq(UnitSet) /\ Granted13(t, n)'
      BY <2>1, <2>9, Grants13
    <3>2. sealed'.key \in {Plain, HsTraffic} /\ expected' = 0 /\ Welcome'
      <4>1. Welcome
        BY <2>1, <2>9, AcceptedOver
      <4> QED BY <2>2, <4>1 DEF ToSend, Welcome
    <3>3. Awaited(n)'
      <4>1. Parts(verdict)' = 0
        BY <1>1, <2>2 DEF Untold
      <4> QED BY <3>1, <4>1, HandshakesAssumption DEF Awaited
    <3>4. Reading13'
      BY <2>3, <2>4, <2>9, <3>1, <3>2, <3>3 DEF Reading13, Plain, HsTraffic
    <3> QED BY <2>5, <3>1, <3>4 DEF Places
  <2> QED BY <1>2, <2>6, <2>7, <2>8, <2>9 DEF HandshakeProbes
<1>4. CASE LinkBreaks
  <2>1. Concluded'
    BY <1>1, <1>2, <1>4, LinkBreaksTruly DEF Met, Auths
  <2> QED BY <1>4, <2>1 DEF LinkBreaks, Places, HandshakeTypeOK, handshake
<1>5. ~Receive /\ ~ReadNothing /\ ~SendAgain
  BY <1>1 DEF Receive, ReadNothing, SendAgain, ReadFlight12, ReadHello13, ReadFlight13, ReadReply12, ReadReply13,
              ReadAuth12, ReadAuth13, ReadFinished, ReadRenewal, ReadTickets
<1> QED
  BY <1>3, <1>4, <1>5 DEF HandshakeStep

\* What is left of the script of 1.2 once the next record is out of it.
LEMMA CutTickets ==
  ASSUME NEW t \in Nat, NEW n \in Nat, Tickets(t, n), NEW k, NEW more, Cut(script, k, more, script'), Joins(k)
  PROVE \/ script[1] = Ticket12 /\ \E u \in Nat : Tickets(u, n)'
        \/ script[1] = CcsUnit /\ Changed(n)'
<1>1. /\ k \in 1..(t + 2 + n) /\ Len(script') = t + 2 + n - k
      /\ \A i \in 1..(t + 2 + n - k) : script'[i] = script[i + k]
  BY DEF Tickets, Cut
<1>2. /\ script[t + 1] = CcsUnit /\ script[t + 2] = Finished12
      /\ \A i \in 1..t : script[i] = Ticket12
      /\ \A i \in 1..n : script[t + 2 + i] = Part(Master)
  BY DEF Tickets
<1>3. CASE t = 0
  <2>1. script[1] = CcsUnit /\ script[2] = Finished12 /\ \A i \in 1..n : script[2 + i] = Part(Master)
    BY <1>2, <1>3
  <2>2. k = 1
    <3>1. k > 1 => script[1].inner = "handshake"
      BY <1>1 DEF Joins
    <3> QED BY <1>1, <2>1, <3>1, NamedUnits
  <2>3. Len(script') = 1 + n /\ \A i \in 1..(1 + n) : script'[i] = script[i + 1]
    BY <1>1, <1>3, <2>2
  <2>4. script'[1] = Finished12
    <3>1. 1 \in 1..(1 + n) /\ 1 + 1 = 2
      OBVIOUS
    <3> QED BY <2>1, <2>3, <3>1
  <2>5. ASSUME NEW i \in 1..n PROVE script'[1 + i] = Part(Master)
    <3>1. 1 + i \in 1..(1 + n) /\ (1 + i) + 1 = 2 + i
      OBVIOUS
    <3> QED BY <2>1, <2>3, <3>1
  <2>6. Changed(n)'
    BY <2>3, <2>4, <2>5 DEF Changed, Finished12, Part
  <2> QED BY <2>1, <2>6
<1>4. CASE t > 0
  <2>1. script[1] = Ticket12
    BY <1>2, <1>4
  <2>2. k <= t
    <3>1. SUFFICES ASSUME t + 1 \in 1..k PROVE FALSE
      BY <1>1
    <3>2. script[t + 1].outer = script[1].outer
      BY <3>1 DEF Joins
    <3> QED BY <1>2, <2>1, <3>2, NamedUnits
  <2>3. PICK u \in Nat : u + k = t
    <3>1. t - k \in Nat /\ (t - k) + k = t
      BY <1>1, <2>2
    <3> QED BY <3>1
  <2>4. Len(script') = u + 2 + n /\ \A i \in 1..(u + 2 + n) : script'[i] = script[i + k]
    BY <1>1, <2>3
  <2>5. script'[u + 1] = CcsUnit /\ script'[u + 2] = Finished12
    <3>1. u + 1 \in 1..(u + 2 + n) /\ (u + 1) + k = t + 1 /\ u + 2 \in 1..(u + 2 + n) /\ (u + 2) + k = t + 2
      BY <1>1, <2>3
    <3> QED BY <1>2, <2>4, <3>1
  <2>6. ASSUME NEW i \in 1..u PROVE script'[i] = Ticket12
    <3>1. i \in 1..(u + 2 + n) /\ i + k \in 1..t
      BY <1>1, <2>3
    <3> QED BY <1>2, <2>4, <3>1
  <2>7. ASSUME NEW i \in 1..n PROVE script'[u + 2 + i] = Part(Master)
    <3>1. u + 2 + i \in 1..(u + 2 + n) /\ (u + 2 + i) + k = t + 2 + i
      BY <1>1, <2>3
    <3> QED BY <1>2, <2>4, <3>1
  <2>8. Tickets(u, n)'
    BY <2>4, <2>5, <2>6, <2>7 DEF Tickets, CcsUnit, Finished12, Ticket12, Part
  <2> QED BY <2>1, <2>8
<1> QED
  BY <1>3, <1>4

\* After the Finished, the parts are left.
LEMMA CutChanged ==
  ASSUME NEW n \in Nat, Changed(n), NEW k, NEW more, Cut(script, k, more, script'), Joins(k)
  PROVE script[1] = Finished12 /\ Answering(n)'
<1>1. /\ k \in 1..(1 + n) /\ Len(script') = 1 + n - k
      /\ \A i \in 1..(1 + n - k) : script'[i] = script[i + k]
  BY DEF Changed, Cut
<1>2. script[1] = Finished12 /\ \A i \in 1..n : script[1 + i] = Part(Master)
  BY DEF Changed
<1>3. k = 1
  <2>1. SUFFICES ASSUME 1 + 1 \in 1..k, 1 \in 1..n PROVE FALSE
    BY <1>1
  <2>2. script[1 + 1].outer = script[1].outer
    BY <2>1 DEF Joins
  <2>3. script[1 + 1] = Part(Master)
    BY <1>2, <2>1
  <2> QED BY <1>2, <2>2, <2>3, NamedUnits, KeysTyped
<1>4. Len(script') = n /\ \A i \in 1..n : script'[i] = script[i + 1]
  BY <1>1, <1>3
<1>5. ASSUME NEW i \in 1..n PROVE script'[i] = Part(Master)
  <2>1. i + 1 = 1 + i
    OBVIOUS
  <2> QED BY <1>2, <1>4, <2>1
<1> QED
  BY <1>2, <1>4, <1>5 DEF Answering, Part

\* A record of the answer takes one part.
LEMMA CutAnswering ==
  ASSUME NEW n \in Nat, Answering(n), NEW k, NEW more, Cut(script, k, more, script'), Joins(k)
  PROVE script[1] = Part(Master) /\ \E m \in Nat : n = m + 1 /\ Answering(m)'
<1>1. /\ k \in 1..n /\ Len(script') = n - k
      /\ \A i \in 1..(n - k) : script'[i] = script[i + k]
  BY DEF Answering, Cut
<1>2. \A i \in 1..n : script[i] = Part(Master)
  BY DEF Answering
<1>3. script[1] = Part(Master)
  BY <1>1, <1>2
<1>4. k = 1
  <2>1. k > 1 => script[1].inner = "handshake"
    BY <1>1 DEF Joins
  <2> QED BY <1>1, <1>3, <2>1, NamedUnits, KeysTyped
<1>5. PICK m \in Nat : n = m + 1
  <2>1. n - 1 \in Nat /\ n = (n - 1) + 1
    BY <1>1
  <2> QED BY <2>1
<1>6. Len(script') = m /\ \A i \in 1..m : script'[i] = script[i + 1]
  BY <1>1, <1>4, <1>5
<1>7. ASSUME NEW i \in 1..m PROVE script'[i] = Part(Master)
  <2>1. i + 1 \in 1..n
    BY <1>5
  <2> QED BY <1>2, <1>6, <2>1
<1> QED
  BY <1>3, <1>5, <1>6, <1>7 DEF Answering, Part

\* A refusal is one record.
LEMMA CutRefusal ==
  ASSUME NEW key \in Keys, Refusal(key), NEW k, NEW more, Cut(script, k, more, script')
  PROVE script[1] = Alert(key) /\ script' = <<>>
<1>1. script # <<>>
  BY DEF Cut
<1>2. script = <<Alert(key)>>
  BY <1>1 DEF Refusal
<1>3. Len(script) = 1 /\ script[1] = Alert(key)
  BY <1>2, AlertFields
<1>4. k = 1 /\ Len(script') = 0
  BY <1>3 DEF Cut
<1> QED
  BY <1>3, <1>4

\* One record of a response, from a server that sends one.
LEMMA KeepTruly ==
  ASSUME NEW r, Keep(r), pc = "reply", ~peer.asks, peer' = peer, faults' = 0
  PROVE \/ Concluded'
        \/ /\ pc' = pc
           /\ Parts(verdict)' = Parts(verdict) + (IF r.inner = "application" /\ Opens(r) THEN 1 ELSE 0)
           /\ Parts(verdict)' # ResponseParts
<1> DEFINE p == Parts(verdict) + (IF r.inner = "application" /\ Opens(r) THEN 1 ELSE 0)
<1>1. verdict' = Fetched(p) /\ pc' = IF verdict'.parts = ResponseParts THEN "done" ELSE pc
  BY DEF Keep
<1> HIDE DEF p
<1>2. verdict'.is = "fetch" /\ verdict'.parts = p /\ Parts(verdict)' = p
  BY <1>1 DEF Fetched, Parts
<1>3. CASE verdict'.parts = ResponseParts
  BY <1>1, <1>2, <1>3 DEF Concluded, HandshakeVerdictsTrue
<1>4. CASE verdict'.parts # ResponseParts
  BY <1>1, <1>2, <1>4 DEF p
<1> QED
  BY <1>3, <1>4

\* The alert of one that refuses is no part of a response.
LEMMA KeepRefused ==
  ASSUME NEW r, Keep(r), r.inner = "alert", Untold
  PROVE pc' = pc /\ Untold'
<1>1. verdict' = Fetched(0)
  BY DEF Keep, Untold
<1>2. verdict'.is = "fetch" /\ verdict'.parts = 0
  BY <1>1 DEF Fetched
<1> QED
  BY <1>2, HandshakesAssumption DEF Keep, Untold, Parts

\* The answer to the client's flight under 1.2, record by record.
LEMMA Reads12 ==
  ASSUME peer \in TlsServers, HandshakeTypeOK, faults = 0, Reading12, Receive, peer' = peer, probe' = probe
  PROVE HandshakeTypeOK' /\ Places'
<1>1. /\ probe \in Probes12 /\ probe \notin Probes13 /\ Met /\ Replying
      /\ probe \in {"fetch12", "auth12", "renew12"}
  BY DEF Reading12, Met, Probes12, Probes13, Goers, Fetches, Auths
<1>2. /\ probe = "fetch12" => pc = "reply"
      /\ probe = "auth12" => pc = "auth"
      /\ probe = "renew12" => pc = "drain"
  BY <1>1 DEF Replying, Fetches, Auths
<1>3. PICK k \in 1..Len(script) :
        /\ Joins(k) /\ Sends(k)
        /\ \/ probe = "fetch12" /\ ReadReply12(RecordOf(k))
           \/ probe = "auth12" /\ ReadAuth12(RecordOf(k))
           \/ probe = "renew12" /\ ReadFinished(RecordOf(k))
  BY <1>1, <1>2 DEF Receive, ReadHello13, ReadFlight12, ReadFlight13, ReadReply12, ReadReply13, ReadAuth12,
                    ReadAuth13, ReadFinished, ReadRenewal, ReadTickets
<1> DEFINE r == RecordOf(k)
<1>4. PICK l \in Nat : l = Len(script)
  BY LenProperties DEF HandshakeTypeOK
<1>5. k \in 1..l
  BY <1>3, <1>4
<1>6. /\ script' \in Seq(UnitSet) /\ Len(script') = l - k
      /\ \A i \in 1..(l - k) : script'[i] = script[i + k]
      /\ r.units \in Seq(Messages) /\ Len(r.units) = k
      /\ \A i \in 1..k : r.units[i] = script[i].what
      /\ r.outer = script[1].outer /\ r.inner = script[1].inner /\ r.key = script[1].key
      /\ sealed' \in [key : Keys, seq : Nat]
      /\ script[1].key = Plain => sealed' = sealed
      /\ script[1].key # Plain => sealed'.key = script[1].key /\ sealed'.seq = r.seq + 1
      /\ r.seq = (IF script[1].key = sealed.key THEN sealed.seq ELSE 0)
  BY <1>3, <1>4, <1>5, Taken
<1>7. Cut(script, k, r.units, script')
  BY <1>3, <1>4, <1>6 DEF Cut
<1>8. expected \in Nat /\ flight \in Seq(Messages)
  BY DEF HandshakeTypeOK
<1>9. /\ probe = "fetch12" => expected' = Counted(r) /\ Keep(r)
      /\ probe = "auth12" => expected' = expected + 1 /\ flight' = flight
      /\ probe = "renew12" => expected' \in {0, expected, expected + 1} /\ flight' = flight
  BY <1>3 DEF ReadReply12, ReadAuth12, ReadFinished
<1> HIDE DEF r
<1>10. flight' = flight
  BY <1>1, <1>9 DEF Keep
<1>11. expected' \in Nat
  BY <1>1, <1>8, <1>9 DEF Counted
<1>12. HandshakeTypeOK'
  BY <1>6, <1>8, <1>10, <1>11, TypedAgain
<1>13. Met'
  BY <1>1, <1>10 DEF Met
<1>14. pc' = pc => Replying'
  BY <1>1 DEF Replying
<1>15. Plain # Master /\ Plain \in Keys /\ Master \in Keys
  BY KeysTyped DEF Plain, Master
<1>19. faults' = 0
  BY DEF Receive, NoFault
<1>16. CASE sealed.key = Plain /\ Refusal(Plain)
  <2>1. script[1] = Alert(Plain) /\ script' = <<>>
    BY <1>7, <1>16, KeysTyped, CutRefusal
  <2>2. r.outer = "alert" /\ r.inner = "alert" /\ sealed' = sealed
    BY <1>6, <2>1, AlertFields, KeysTyped
  <2>3. CASE probe = "fetch12"
    <3>1. pc' = pc /\ Untold'
      BY <1>9, <1>16, <2>2, <2>3, KeepRefused DEF Refusal
    <3>2. Refusal(Plain)'
      BY <1>16, <2>1, <2>3, <3>1 DEF Refusal, Auths
    <3>3. Reading12'
      BY <1>1, <1>13, <1>14, <1>16, <2>2, <3>1, <3>2 DEF Reading12, Plain
    <3> QED BY <1>12, <3>3 DEF Places
  <2>4. CASE probe = "auth12"
    <3>1. Conclude(Auth(TRUE, "yes"))
      BY <1>3, <2>2, <2>4 DEF ReadAuth12, r
    <3>3. peer.asks = TRUE /\ peer.needs
      BY <1>1, <1>16, <2>4 DEF Refusal, Met, Auths, TlsServers
    <3>4. Concluded'
      <4>1. "yes" = IF faults' > 0 THEN IF probe = "auth12" THEN "yes" ELSE "unknown"
                  ELSE IF peer.needs THEN "yes"
                  ELSE IF probe = "auth12" \/ peer.tickets > 0 THEN "no" ELSE "unknown"
        BY <1>19, <2>4, <3>1, <3>3
      <4> QED BY <1>19, <2>4, <3>1, <3>3, <4>1, AuthTruly
    <3> QED BY <1>12, <3>4 DEF Places
  <2>5. CASE probe = "renew12"
    <3>1. Conclude(Failed)
      BY <1>3, <2>2, <2>5 DEF ReadFinished, r
    <3>2. peer.asks
      BY <1>16 DEF Refusal, TlsServers
    <3> QED BY <1>12, <2>5, <3>1, <3>2, FailsTruly DEF Places
  <2> QED BY <1>1, <2>3, <2>4, <2>5
<1>17. ASSUME Welcome, NEW n \in Nat, Awaited(n), Granted12(n) PROVE Places'
  <2>0. ~peer.needs /\ (probe = "fetch12" => ~peer.asks) /\ Welcome'
    BY <1>17 DEF Welcome, Auths
  <2>1. CASE sealed.key = Plain /\ \E t \in Nat : Tickets(t, n)
    <3>1. \/ script[1] = Ticket12 /\ \E u \in Nat : Tickets(u, n)'
          \/ script[1] = CcsUnit /\ Changed(n)'
      BY <1>3, <1>7, <2>1, CutTickets
    <3>2. /\ sealed' = sealed /\ r.inner # "application" /\ r.outer \in {"handshake", "ccs"}
          /\ r.key = Plain
          /\ script[1] = CcsUnit => r.outer = "ccs"
          /\ script[1] = Ticket12 => r.outer = "handshake"
      BY <1>6, <3>1, NamedUnits
    <3>3. CASE probe = "auth12"
      <4>1. Conclude(Auth(TRUE, "no"))
        BY <1>3, <3>2, <3>3 DEF ReadAuth12, r
      <4>3. peer.asks = TRUE
        BY <1>1, <3>3 DEF Met, Auths, TlsServers
      <4>4. Concluded'
        <5>1. "no" = IF faults' > 0 THEN IF probe = "auth12" THEN "yes" ELSE "unknown"
                   ELSE IF peer.needs THEN "yes"
                   ELSE IF probe = "auth12" \/ peer.tickets > 0 THEN "no" ELSE "unknown"
          BY <1>19, <2>0, <3>3, <4>1, <4>3
        <5> QED BY <1>19, <2>0, <3>3, <4>1, <4>3, <5>1, AuthTruly
      <4> QED BY <4>4 DEF Places
    <3>4. CASE probe = "fetch12"
      <4>1. Concluded' \/ (pc' = pc /\ Parts(verdict)' = Parts(verdict) + 0 /\ Parts(verdict)' # ResponseParts)
        BY <1>2, <1>9, <3>2, <3>4, <2>0, KeepTruly, <1>19
      <4>2. pc' = pc => Awaited(n)'
        <5>1. SUFFICES ASSUME pc' = pc PROVE Awaited(n)'
          OBVIOUS
        <5>2. n > 0 /\ Parts(verdict) \in Nat /\ n + Parts(verdict) = ResponseParts
          BY <1>17, <3>4 DEF Awaited, Fetches
        <5>3. ~Concluded'
          BY <1>2, <3>4, <5>1 DEF Concluded
        <5>4. Parts(verdict)' = Parts(verdict)
          BY <4>1, <5>2, <5>3
        <5>5. Parts(verdict)' \in Nat /\ n + Parts(verdict)' = ResponseParts
          BY <5>2, <5>4
        <5> QED BY <3>4, <5>2, <5>5 DEF Awaited, Fetches
      <4>3. expected' = IF r.outer = "ccs" THEN 0 ELSE expected + 1
        BY <1>9, <3>4 DEF Counted
      <4>4. Granted12(n)'
        BY <2>1, <3>1, <3>2, <3>4, <4>3 DEF Granted12, Plain
      <4>5. pc' = pc => Reading12'
        BY <1>1, <1>13, <1>14, <1>17, <2>0, <4>2, <4>4 DEF Reading12
      <4> QED BY <4>1, <4>5 DEF Places
    <3>5. CASE probe = "renew12"
      <4>1. pc' = pc /\ verdict' = verdict /\ expected' = IF r.outer = "ccs" THEN 0 ELSE expected
        BY <1>3, <3>2, <3>5 DEF ReadFinished, r
      <4>2. Awaited(n)'
        BY <1>17, <4>1 DEF Awaited
      <4>3. Granted12(n)'
        BY <2>1, <3>1, <3>2, <3>5, <4>1 DEF Granted12, Plain
      <4>4. Reading12'
        BY <1>1, <1>13, <1>14, <1>17, <2>0, <4>1, <4>2, <4>3 DEF Reading12
      <4> QED BY <4>4 DEF Places
    <3> QED BY <1>1, <3>3, <3>4, <3>5
  <2>2. CASE sealed.key = Plain /\ expected = 0 /\ Changed(n) /\ probe # "auth12"
    <3>1. script[1] = Finished12 /\ Answering(n)'
      BY <1>3, <1>7, <2>2, CutChanged
    <3>2. r.outer = "handshake" /\ r.inner = "handshake" /\ r.key = Master /\ r.seq = 0
          /\ sealed'.key = Master /\ sealed'.seq = 1
      BY <1>6, <1>15, <2>2, <3>1, NamedUnits
    <3>3. CASE probe = "fetch12"
      <4>1. Concluded' \/ (pc' = pc /\ Parts(verdict)' = Parts(verdict) + 0 /\ Parts(verdict)' # ResponseParts)
        BY <1>2, <1>9, <3>2, <3>3, <2>0, KeepTruly, <1>19
      <4>2. pc' = pc => Awaited(n)'
        <5>1. SUFFICES ASSUME pc' = pc PROVE Awaited(n)'
          OBVIOUS
        <5>2. n > 0 /\ Parts(verdict) \in Nat /\ n + Parts(verdict) = ResponseParts
          BY <1>17, <3>3 DEF Awaited, Fetches
        <5>3. ~Concluded'
          BY <1>2, <3>3, <5>1 DEF Concluded
        <5>4. Parts(verdict)' = Parts(verdict)
          BY <4>1, <5>2, <5>3
        <5>5. Parts(verdict)' \in Nat /\ n + Parts(verdict)' = ResponseParts
          BY <5>2, <5>4
        <5> QED BY <3>3, <5>2, <5>5 DEF Awaited, Fetches
      <4>3. expected' = 1
        BY <1>9, <2>2, <3>2, <3>3 DEF Counted
      <4>4. Granted12(n)'
        BY <3>1, <3>2, <3>3, <4>3 DEF Granted12, Master
      <4>5. pc' = pc => Reading12'
        BY <1>1, <1>13, <1>14, <1>17, <2>0, <4>2, <4>4 DEF Reading12
      <4> QED BY <4>1, <4>5 DEF Places
    <3>4. CASE probe = "renew12"
      <4>1. Opens(r)
        BY <2>2, <3>2, <3>4 DEF Opens, ClientKey, Probes12
      <4>2. pc' = "again" /\ expected' = expected + 1
        BY <1>3, <1>15, <3>2, <3>4, <4>1 DEF ReadFinished, r
      <4>3. expected' = 1
        BY <2>2, <4>2
      <4>4. Renewing'
        BY <1>13, <3>2, <3>4, <4>2, <4>3 DEF Renewing, Master
      <4> QED BY <4>4 DEF Places
    <3> QED BY <1>1, <2>2, <3>3, <3>4
  <2>3. CASE sealed.key = Master /\ sealed.seq = expected /\ Answering(n) /\ probe = "fetch12"
    <3>1. script[1] = Part(Master) /\ \E m \in Nat : n = m + 1 /\ Answering(m)'
      BY <1>3, <1>7, <2>3, CutAnswering
    <3>2. PICK m \in Nat : n = m + 1 /\ Answering(m)'
      BY <3>1
    <3>3. r.outer = "application" /\ r.inner = "application" /\ r.key = Master /\ r.seq = expected
          /\ sealed'.key = Master /\ sealed'.seq = expected + 1
      BY <1>6, <1>15, <2>3, <3>1, NamedUnits
    <3>4. Opens(r)
      BY <1>1, <3>3 DEF Opens, ClientKey
    <3>5. Concluded' \/ (pc' = pc /\ Parts(verdict)' = Parts(verdict) + 1 /\ Parts(verdict)' # ResponseParts)
      BY <1>2, <1>9, <2>3, <3>3, <3>4, <2>0, KeepTruly, <1>19
    <3>6. pc' = pc => Awaited(m)'
      <4>1. SUFFICES ASSUME pc' = pc PROVE Awaited(m)'
        OBVIOUS
      <4>2. n > 0 /\ Parts(verdict) \in Nat /\ n + Parts(verdict) = ResponseParts
        BY <1>17, <2>3 DEF Awaited, Fetches
      <4>3. ~Concluded'
        BY <1>2, <2>3, <4>1 DEF Concluded
      <4>4. Parts(verdict)' = Parts(verdict) + 1 /\ Parts(verdict)' # ResponseParts
        BY <3>5, <4>3
      <4>5. m > 0 /\ Parts(verdict)' \in Nat /\ m + Parts(verdict)' = ResponseParts
        BY <3>2, <4>2, <4>4
      <4> QED BY <2>3, <4>5 DEF Awaited, Fetches
    <3>7. expected' = expected + 1
      BY <1>9, <2>3, <3>3 DEF Counted
    <3>8. Granted12(m)'
      BY <2>3, <3>2, <3>3, <3>7 DEF Granted12, Master
    <3>9. pc' = pc => Reading12'
      BY <1>1, <1>13, <1>14, <1>17, <2>0, <3>6, <3>8 DEF Reading12
    <3> QED BY <3>5, <3>9 DEF Places
  <2> QED BY <1>17, <2>1, <2>2, <2>3 DEF Granted12
<1> QED
  BY <1>12, <1>16, <1>17 DEF Reading12

\* No answer, or a late one.
LEMMA FromReading12 ==
  ASSUME peer \in TlsServers, HandshakeTypeOK, faults = 0, Reading12, HandshakeStep,
         peer' = peer, probe' = probe
  PROVE HandshakeTypeOK' /\ Places'
<1>1. /\ Met /\ Replying /\ probe \in Probes12
      /\ probe \in {"fetch12", "auth12", "renew12"}
  BY DEF Reading12, Met, Probes12, Goers, Fetches, Auths
<1>2. /\ probe = "fetch12" => pc = "reply"
      /\ probe = "auth12" => pc = "auth"
      /\ probe = "renew12" => pc = "drain"
  BY <1>1 DEF Replying, Fetches, Auths
<1>3. CASE LinkBreaks
  <2>1. Concluded'
    BY <1>1, <1>3, LinkBreaksTruly DEF Met, Auths, TlsServers
  <2> QED BY <1>3, <2>1 DEF LinkBreaks, Places, HandshakeTypeOK, handshake
<1>4. CASE ReadNothing
  <2>1. HandshakeTypeOK'
    BY <1>4 DEF ReadNothing, HandshakeTypeOK, handshake
  <2>2. script # <<>> => faults' > 0
    BY <1>4 DEF ReadNothing, Fault
  <2>3. CASE probe = "fetch12"
    <3>1. pc' = "done" /\ verdict' = Fetched(Parts(verdict))
      BY <1>2, <1>4, <2>3 DEF ReadNothing, Conclude
    <3>2. verdict'.is = "fetch" /\ verdict'.parts = Parts(verdict)
      BY <3>1 DEF Fetched
    <3>3. Parts(verdict) # ResponseParts /\ (peer.asks \/ script # <<>>)
      <4>1. CASE Refusal(Plain)
        <5>1. Parts(verdict) = 0 /\ peer.asks
          BY <4>1 DEF Refusal, Untold, TlsServers
        <5> QED BY <5>1, HandshakesAssumption
      <4>3. ASSUME NEW n \in Nat, Awaited(n) PROVE n > 0 /\ Parts(verdict) # ResponseParts
        <5>1. n > 0 /\ Parts(verdict) \in Nat /\ n + Parts(verdict) = ResponseParts
          BY <2>3, <4>3 DEF Awaited, Fetches
        <5> QED BY <5>1
      <4>2. ASSUME NEW n \in Nat, Awaited(n), Granted12(n), script = <<>> PROVE FALSE
        <5>1. ~\E t \in Nat : Tickets(t, n)
          <6> SUFFICES ASSUME NEW t \in Nat, Len(script) = t + 2 + n PROVE FALSE
            BY DEF Tickets
          <6> QED BY <4>2
        <5>2. ~Changed(n)
          BY <4>2 DEF Changed
        <5>3. n = 0
          BY <4>2, <5>1, <5>2 DEF Granted12, Answering
        <5> QED BY <4>2, <4>3, <5>3
      <4> QED BY <4>1, <4>2, <4>3 DEF Reading12
    <3>4. Concluded'
      BY <2>2, <3>1, <3>2, <3>3 DEF Concluded, HandshakeVerdictsTrue
    <3> QED BY <2>1, <3>4 DEF Places
  <2>4. CASE probe = "auth12"
    <3>1. pc' = "done" /\ verdict' = Auth(TRUE, "yes")
      BY <1>2, <1>4, <2>4 DEF ReadNothing, Conclude
    <3>2. verdict'.is = "auth" /\ verdict'.requested = TRUE /\ verdict'.required = "yes"
      BY <3>1 DEF Auth
    <3>3. peer.asks = TRUE
      BY <1>1, <2>4 DEF Met, Auths, TlsServers
    <3>4. script # <<>>
      <4>1. CASE Refusal(Plain)
        BY <2>4, <4>1 DEF Refusal, Auths
      <4>2. ASSUME NEW n \in Nat, Granted12(n), script = <<>> PROVE FALSE
        <5>1. PICK t \in Nat : Len(script) = t + 2 + n
          BY <2>4, <4>2 DEF Granted12, Tickets
        <5> QED BY <4>2, <5>1
      <4> QED BY <4>1, <4>2 DEF Reading12
    <3>5. Concluded'
      BY <2>2, <2>4, <3>1, <3>2, <3>3, <3>4 DEF Concluded, HandshakeVerdictsTrue
    <3> QED BY <2>1, <3>5 DEF Places
  <2>5. CASE probe = "renew12"
    <3>1. Conclude(Failed)
      BY <1>2, <1>4, <2>5 DEF ReadNothing
    <3>2. script # <<>> \/ peer.asks
      <4>1. CASE Refusal(Plain)
        BY <4>1 DEF Refusal, TlsServers
      <4>2. ASSUME NEW n \in Nat, Granted12(n) PROVE script # <<>>
        <5>1. CASE \E t \in Nat : Tickets(t, n)
          <6>1. PICK t \in Nat : Len(script) = t + 2 + n
            BY <5>1 DEF Tickets
          <6> QED BY <6>1
        <5>2. CASE Changed(n)
          <6>1. Len(script) = 1 + n
            BY <5>2 DEF Changed
          <6> QED BY <6>1
        <5> QED BY <2>5, <4>2, <5>1, <5>2 DEF Granted12
      <4> QED BY <4>1, <4>2 DEF Reading12
    <3> QED BY <2>1, <2>2, <2>5, <3>1, <3>2, FailsTruly DEF Places
  <2> QED BY <1>1, <2>3, <2>4, <2>5
<1>5. ~Send /\ ~SendAgain
  BY <1>1, <1>2 DEF Send, SendAgain
<1> QED
  BY <1>3, <1>4, <1>5, Reads12 DEF HandshakeStep

\* A server sends a number of tickets.
LEMMA TicketsCounted == \A s \in TlsServers : s.tickets \in Nat
  BY HandshakesAssumption DEF TlsServers

\* The answer of 1.3: a refusal, or tickets and parts.
LEMMA Answers13 ==
  ASSUME Reading13, ~Refusal(Ap)
  PROVE /\ Welcome
        /\ \E t \in Nat, n \in Nat : /\ Awaited(n) /\ Granted13(t, n)
                                     /\ probe # "fetch13" => t = peer.tickets
  BY DEF Reading13

\* What is left of the script of 1.3 once the next record is out of it.
LEMMA CutGranted ==
  ASSUME Ap \in Keys, Ap' = Ap, Ticket13' = Ticket13, peer' = peer,
         NEW t \in Nat, NEW n \in Nat, Granted13(t, n), NEW k, NEW more, Cut(script, k, more, script'), Joins(k)
  PROVE \/ script[1] = Ticket13 /\ peer.tickets > 0 /\ \E u \in Nat : Granted13(u, n)'
        \/ script[1] = Part(Ap) /\ \E m \in Nat : n = m + 1 /\ Granted13(0, m)'
<1>1. /\ k \in 1..(t + n) /\ Len(script') = t + n - k
      /\ \A i \in 1..(t + n - k) : script'[i] = script[i + k]
  BY DEF Granted13, Cut
<1>0. k \in 1..(t + n)
  BY <1>1
<1>2. /\ \A i \in 1..t : script[i] = Ticket13
      /\ \A i \in 1..n : script[t + i] = Part(Ap)
      /\ t > 0 => peer.tickets > 0
  BY DEF Granted13
<1>3. \A i \in 1..k : k > 1 => script[i].inner = "handshake"
  BY DEF Joins
<1>4. CASE t = 0
  <2>1. \A i \in 1..n : script[i] = Part(Ap)
    BY <1>2, <1>4
  <2>2. script[1] = Part(Ap)
    BY <1>1, <1>4, <2>1
  <2>3. k = 1
    <3>1. 1 \in 1..k
      BY <1>1
    <3> QED BY <1>1, <1>3, <2>2, <3>1, NamedUnits
  <2>4. PICK m \in Nat : n = m + 1
    <3>1. n - 1 \in Nat /\ n = (n - 1) + 1
      BY <1>1, <1>4
    <3> QED BY <3>1
  <2>5. Len(script') = 0 + m /\ \A i \in 1..m : script'[i] = script[i + 1]
    BY <1>1, <1>4, <2>3, <2>4
  <2>6. ASSUME NEW i \in 1..m PROVE script'[0 + i] = Part(Ap)'
    <3>1. i + 1 \in 1..n /\ 0 + i = i
      BY <2>4
    <3> QED BY <2>1, <2>5, <3>1 DEF Part
  <2>7. Granted13(0, m)'
    BY <2>5, <2>6 DEF Granted13
  <2> QED BY <2>2, <2>4, <2>7
<1>5. CASE t > 0
  <2>1. script[1] = Ticket13 /\ peer.tickets > 0
    BY <1>2, <1>5
  <2>2. k <= t
    <3>1. SUFFICES ASSUME t + 1 \in 1..k, 1 \in 1..n PROVE FALSE
      BY <1>1
    <3>2. script[t + 1].inner = "handshake"
      <4>1. k > 1
        BY <1>0, <1>5, <3>1
      <4> QED BY <1>3, <3>1, <4>1
    <3>3. script[t + 1] = Part(Ap)
      BY <1>2, <3>1
    <3> QED BY <3>2, <3>3, NamedUnits
  <2>3. PICK u \in Nat : u + k = t
    <3>1. t - k \in Nat /\ (t - k) + k = t
      BY <1>1, <2>2
    <3> QED BY <3>1
  <2>4. Len(script') = u + n /\ \A i \in 1..(u + n) : script'[i] = script[i + k]
    BY <1>1, <2>3
  <2>5. ASSUME NEW i \in 1..u PROVE script'[i] = Ticket13'
    <3>1. i \in 1..(u + n) /\ i + k \in 1..t
      BY <1>1, <2>3
    <3> QED BY <1>2, <2>4, <3>1
  <2>6. ASSUME NEW i \in 1..n PROVE script'[u + i] = Part(Ap)'
    <3>1. u + i \in 1..(u + n) /\ (u + i) + k = t + i
      BY <1>0, <2>3
    <3> QED BY <1>2, <2>4, <3>1 DEF Part
  <2>7. Granted13(u, n)'
    BY <2>1, <2>4, <2>5, <2>6 DEF Granted13
  <2> QED BY <2>1, <2>7
<1> QED
  BY <1>4, <1>5

\* The answer to the client's flight under 1.3, record by record.
LEMMA Reads13 ==
  ASSUME peer \in TlsServers, HandshakeTypeOK, faults = 0, Reading13, Receive, peer' = peer, probe' = probe
  PROVE HandshakeTypeOK' /\ Places'
<1>1. /\ probe \in Probes13 /\ probe \notin Probes12 /\ Met /\ Replying
      /\ probe \in {"fetch13", "auth13", "early13"} /\ probe \in HandshakeProbes
  BY DEF Reading13, Met, Probes12, Probes13, Goers, Fetches, Auths, HandshakeProbes
<1>2. /\ probe = "fetch13" => pc = "reply"
      /\ probe = "auth13" => pc = "auth"
      /\ probe = "early13" => pc = "tickets"
  BY <1>1 DEF Replying, Fetches, Auths
<1>3. PICK k \in 1..Len(script) :
        /\ Joins(k) /\ Sends(k)
        /\ \/ probe = "fetch13" /\ ReadReply13(RecordOf(k))
           \/ probe = "auth13" /\ ReadAuth13(RecordOf(k))
           \/ probe = "early13" /\ ReadTickets(RecordOf(k))
  BY <1>1, <1>2 DEF Receive, ReadHello13, ReadFlight12, ReadFlight13, ReadReply12, ReadReply13, ReadAuth12,
                    ReadAuth13, ReadFinished, ReadRenewal, ReadTickets
<1> DEFINE r == RecordOf(k)
<1>4. PICK l \in Nat : l = Len(script)
  BY LenProperties DEF HandshakeTypeOK
<1>5. k \in 1..l
  BY <1>3, <1>4
<1>6. /\ script' \in Seq(UnitSet) /\ Len(script') = l - k
      /\ \A i \in 1..(l - k) : script'[i] = script[i + k]
      /\ r.units \in Seq(Messages) /\ Len(r.units) = k
      /\ \A i \in 1..k : r.units[i] = script[i].what
      /\ r.outer = script[1].outer /\ r.inner = script[1].inner /\ r.key = script[1].key
      /\ sealed' \in [key : Keys, seq : Nat]
      /\ script[1].key # Plain => sealed'.key = script[1].key /\ sealed'.seq = r.seq + 1
      /\ r.seq = (IF script[1].key = sealed.key THEN sealed.seq ELSE 0)
  BY <1>3, <1>4, <1>5, Taken
<1>7. Cut(script, k, r.units, script')
  BY <1>3, <1>4, <1>6 DEF Cut
<1>8. expected \in Nat /\ flight \in Seq(Messages)
  BY DEF HandshakeTypeOK
<1>9. /\ expected' = expected + 1 /\ flight' = flight
      /\ probe = "fetch13" => Keep(r)
  BY <1>1, <1>3 DEF ReadReply13, ReadAuth13, ReadTickets, Keep
<1>10. r.units[1] = script[1].what
  BY <1>5, <1>6
<1> HIDE DEF r
<1>11. HandshakeTypeOK'
  BY <1>6, <1>8, <1>9, TypedAgain
<1>12. Met'
  BY <1>1, <1>9 DEF Met
<1>13. pc' = pc => Replying'
  BY <1>1 DEF Replying
<1>14. /\ Ap \in Keys /\ Ap # Plain /\ Ap # HsTraffic /\ Ap # Master
       /\ Ap' = Ap /\ Ticket13' = Ticket13
  <2>1. Ap \in Keys /\ Ap # Plain /\ Ap # HsTraffic /\ Ap # Master
    BY <1>1, FlightSays, ApKey DEF Ap
  <2> QED BY <2>1 DEF Ap, Ticket13
<1>15. ASSUME script[1].key = Ap
       PROVE Opens(r) /\ sealed'.key = Ap /\ sealed'.seq = expected'
  <2>1. r.seq = expected
    BY <1>6, <1>14, <1>15 DEF Reading13
  <2>2. ClientKey = Ap
    BY <1>1, <1>2 DEF ClientKey, Met, Ap
  <2> QED BY <1>6, <1>9, <1>14, <1>15, <2>1, <2>2 DEF Opens
<1>19. faults' = 0
  BY DEF Receive, NoFault
<1>16. CASE Refusal(Ap)
  <2>1. script[1] = Alert(Ap) /\ script' = <<>>
    BY <1>7, <1>14, <1>16, CutRefusal
  <2>2. r.outer = "application" /\ r.inner = "alert" /\ script[1].key = Ap
    BY <1>6, <1>14, <2>1, AlertFields
  <2>3. ASSUME pc' = pc, Untold', probe # "auth13" PROVE Places'
    <3>1. Refusal(Ap)'
      BY <1>1, <1>16, <2>1, <2>3 DEF Refusal, Auths
    <3>2. Reading13'
      BY <1>1, <1>12, <1>13, <1>14, <1>15, <2>2, <2>3, <3>1 DEF Reading13
    <3> QED BY <3>2 DEF Places
  <2>5. CASE probe = "fetch13"
    <3>1. pc' = pc /\ Untold'
      BY <1>9, <1>16, <2>2, <2>5, KeepRefused DEF Refusal
    <3> QED BY <1>11, <2>3, <2>5, <3>1
  <2>6. CASE probe = "auth13"
    <3>1. Conclude(Auth(TRUE, "yes"))
      BY <1>3, <1>15, <2>2, <2>6 DEF ReadAuth13, r
    <3>3. peer.asks = TRUE /\ peer.needs
      BY <1>1, <1>16, <2>6 DEF Refusal, Met, Auths, TlsServers
    <3>4. Concluded'
      <4>1. "yes" = IF faults' > 0 THEN IF probe = "auth12" THEN "yes" ELSE "unknown"
                  ELSE IF peer.needs THEN "yes"
                  ELSE IF probe = "auth12" \/ peer.tickets > 0 THEN "no" ELSE "unknown"
        BY <1>19, <2>6, <3>1, <3>3
      <4> QED BY <1>19, <2>6, <3>1, <3>3, <4>1, AuthTruly
    <3> QED BY <1>11, <3>4 DEF Places
  <2>7. CASE probe = "early13"
    <3>1. Conclude(EarlyData("none")) \/ (pc' = pc /\ verdict' = verdict)
      BY <1>3, <2>2, <2>7 DEF ReadTickets, r
    <3>2. CASE Conclude(EarlyData("none"))
      <4>1. verdict'.is = "early" /\ verdict'.offered = "unknown" /\ pc' = "done"
        BY <3>2 DEF EarlyData, Conclude
      <4>2. peer.asks
        BY <1>16 DEF Refusal, TlsServers
      <4> QED BY <1>11, <4>1, <4>2 DEF Concluded, HandshakeVerdictsTrue, Places
    <3>3. CASE pc' = pc /\ verdict' = verdict
      <4>1. Untold'
        BY <1>16, <3>3 DEF Refusal, Untold
      <4> QED BY <1>11, <2>3, <2>7, <3>3, <4>1
    <3> QED BY <3>1, <3>2, <3>3
  <2> QED BY <1>1, <2>5, <2>6, <2>7
<1>17. ASSUME Welcome, NEW t \in Nat, NEW n \in Nat, Awaited(n), Granted13(t, n) PROVE Places'
  <2>0. ~peer.needs /\ (probe \in {"fetch13", "early13"} => ~peer.asks) /\ Welcome'
    BY <1>17 DEF Welcome, Auths
  <2>1. CASE script[1] = Ticket13 /\ peer.tickets > 0 /\ \E u \in Nat : Granted13(u, n)'
    <3>1. /\ r.outer = "application" /\ r.inner = "handshake" /\ script[1].key = Ap
          /\ script[1].what = IF peer.early THEN "early_ticket" ELSE "ticket"
      BY <1>6, <2>1, Fields DEF Ticket13
    <3>2. Opens(r) /\ sealed'.key = Ap /\ sealed'.seq = expected'
      BY <1>15, <3>1
    <3>3. CASE probe = "fetch13"
      <4>1. Concluded' \/ (pc' = pc /\ Parts(verdict)' = Parts(verdict) + 0 /\ Parts(verdict)' # ResponseParts)
        BY <1>2, <1>9, <3>1, <3>3, <2>0, KeepTruly, <1>19
      <4>2. pc' = pc => Awaited(n)'
        <5>1. SUFFICES ASSUME pc' = pc PROVE Awaited(n)'
          OBVIOUS
        <5>2. n > 0 /\ Parts(verdict) \in Nat /\ n + Parts(verdict) = ResponseParts
          BY <1>17, <3>3 DEF Awaited, Fetches
        <5>3. ~Concluded'
          BY <1>2, <3>3, <5>1 DEF Concluded
        <5>4. Parts(verdict)' = Parts(verdict)
          BY <4>1, <5>2, <5>3
        <5>5. Parts(verdict)' \in Nat /\ n + Parts(verdict)' = ResponseParts
          BY <5>2, <5>4
        <5> QED BY <3>3, <5>2, <5>5 DEF Awaited, Fetches
      <4>3. pc' = pc => Reading13'
        BY <1>1, <1>12, <1>13, <1>14, <1>17, <2>0, <2>1, <3>2, <3>3, <4>2 DEF Reading13
      <4> QED BY <4>1, <4>3 DEF Places
    <3>4. CASE probe = "auth13"
      <4>1. Conclude(Auth(TRUE, "no"))
        BY <1>3, <3>1, <3>2, <3>4 DEF ReadAuth13, r
      <4>3. peer.asks = TRUE
        BY <1>1, <3>4 DEF Met, Auths, TlsServers
      <4>4. Concluded'
        <5>1. "no" = IF faults' > 0 THEN IF probe = "auth12" THEN "yes" ELSE "unknown"
                   ELSE IF peer.needs THEN "yes"
                   ELSE IF probe = "auth12" \/ peer.tickets > 0 THEN "no" ELSE "unknown"
          BY <1>19, <2>0, <2>1, <3>4, <4>1, <4>3, TicketsCounted
        <5> QED BY <1>19, <2>0, <2>1, <3>4, <4>1, <4>3, TicketsCounted, <5>1, AuthTruly
      <4> QED BY <4>4 DEF Places
    <3>5. CASE probe = "early13"
      <4>1. pc' = "done" /\ verdict' = EarlyData(script[1].what)
        BY <1>3, <1>10, <3>1, <3>2, <3>5 DEF ReadTickets, Conclude, r
      <4>2. peer.early \in BOOLEAN
        BY DEF TlsServers
      <4>3. verdict'.is = "early" /\ verdict'.offered = IF peer.early THEN "yes" ELSE "no"
        BY <3>1, <4>1 DEF EarlyData
      <4>4. peer.early = (verdict'.offered = "yes")
        BY <4>2, <4>3
      <4>5. Concluded'
        BY <1>19, <2>0, <2>1, <3>5, <4>1, <4>2, <4>3, <4>4, TicketsCounted DEF Concluded, HandshakeVerdictsTrue
      <4> QED BY <4>5 DEF Places
    <3> QED BY <1>1, <3>3, <3>4, <3>5
  <2>2. CASE script[1] = Part(Ap) /\ \E m \in Nat : n = m + 1 /\ Granted13(0, m)'
    <3>1. PICK m \in Nat : n = m + 1 /\ Granted13(0, m)'
      BY <2>2
    <3>2. probe = "fetch13"
      BY <1>1, <1>17, <3>1 DEF Awaited, Fetches
    <3>3. r.inner = "application" /\ script[1].key = Ap
      BY <1>6, <1>14, <2>2, NamedUnits
    <3>4. Opens(r) /\ sealed'.key = Ap /\ sealed'.seq = expected'
      BY <1>15, <3>3
    <3>5. Concluded' \/ (pc' = pc /\ Parts(verdict)' = Parts(verdict) + 1 /\ Parts(verdict)' # ResponseParts)
      BY <1>2, <1>9, <3>2, <3>3, <3>4, <2>0, KeepTruly, <1>19
    <3>6. pc' = pc => Awaited(m)'
      <4>1. SUFFICES ASSUME pc' = pc PROVE Awaited(m)'
        OBVIOUS
      <4>2. n > 0 /\ Parts(verdict) \in Nat /\ n + Parts(verdict) = ResponseParts
        BY <1>17, <3>2 DEF Awaited, Fetches
      <4>3. ~Concluded'
        BY <1>2, <3>2, <4>1 DEF Concluded
      <4>4. Parts(verdict)' = Parts(verdict) + 1 /\ Parts(verdict)' # ResponseParts
        BY <3>5, <4>3
      <4>5. m > 0 /\ Parts(verdict)' \in Nat /\ m + Parts(verdict)' = ResponseParts
        BY <3>1, <4>2, <4>4
      <4> QED BY <3>2, <4>5 DEF Awaited, Fetches
    <3>7. pc' = pc => Reading13'
      BY <1>1, <1>12, <1>13, <1>14, <1>17, <2>0, <3>1, <3>2, <3>4, <3>6 DEF Reading13
    <3> QED BY <3>5, <3>7 DEF Places
  <2> QED BY <1>3, <1>7, <1>14, <1>17, <2>1, <2>2, CutGranted
<1> QED
  BY <1>11, <1>16, <1>17, Answers13 DEF Places

\* While the answer of 1.3 comes in.
LEMMA FromReading13 ==
  ASSUME peer \in TlsServers, HandshakeTypeOK, faults = 0, Reading13, HandshakeStep,
         peer' = peer, probe' = probe
  PROVE HandshakeTypeOK' /\ Places'
<1>1. /\ Met /\ Replying /\ probe \in Probes13
      /\ probe \in {"fetch13", "auth13", "early13"}
  BY DEF Reading13, Met, Probes13, Goers, Fetches, Auths
<1>2. /\ probe = "fetch13" => pc = "reply"
      /\ probe = "auth13" => pc = "auth"
      /\ probe = "early13" => pc = "tickets"
  BY <1>1 DEF Replying, Fetches, Auths
<1>3. CASE LinkBreaks
  <2>1. Concluded'
    BY <1>1, <1>3, LinkBreaksTruly
  <2> QED BY <1>3, <2>1 DEF LinkBreaks, Places, HandshakeTypeOK, handshake
<1>4. CASE ReadNothing
  <2>1. HandshakeTypeOK'
    BY <1>4 DEF ReadNothing, HandshakeTypeOK, handshake
  <2>2. script # <<>> => faults' > 0
    BY <1>4 DEF ReadNothing, Fault
  <2>6. ASSUME NEW n \in Nat, Granted13(peer.tickets, n), script = <<>> PROVE peer.tickets = 0
    <3>1. PICK t \in Nat : t = peer.tickets
      BY TicketsCounted
    <3>2. Len(script) = t + n
      BY <2>6, <3>1 DEF Granted13
    <3> QED BY <2>6, <3>1, <3>2
  <2>3. CASE probe = "fetch13"
    <3>1. pc' = "done" /\ verdict' = Fetched(Parts(verdict))
      BY <1>2, <1>4, <2>3 DEF ReadNothing, Conclude
    <3>2. verdict'.is = "fetch" /\ verdict'.parts = Parts(verdict)
      BY <3>1 DEF Fetched
    <3>3. Parts(verdict) # ResponseParts /\ (peer.asks \/ script # <<>>)
      <4>1. CASE Refusal(Ap)
        <5>1. Parts(verdict) = 0 /\ peer.asks
          BY <4>1 DEF Refusal, Untold, TlsServers
        <5> QED BY <5>1, HandshakesAssumption
      <4>2. ASSUME NEW t \in Nat, NEW n \in Nat, Awaited(n), Granted13(t, n)
            PROVE Parts(verdict) # ResponseParts /\ script # <<>>
        <5>1. n > 0 /\ Parts(verdict) \in Nat /\ n + Parts(verdict) = ResponseParts
          BY <2>3, <4>2 DEF Awaited, Fetches
        <5>2. Len(script) = t + n
          BY <4>2 DEF Granted13
        <5>3. script # <<>>
          BY <5>1, <5>2
        <5> QED BY <5>1, <5>3
      <4> QED BY <4>1, <4>2, Answers13
    <3>4. Concluded'
      BY <2>2, <3>1, <3>2, <3>3 DEF Concluded, HandshakeVerdictsTrue
    <3> QED BY <2>1, <3>4 DEF Places
  <2>4. CASE probe = "auth13"
    <3>1. pc' = "done" /\ verdict' = Auth(TRUE, "unknown")
      BY <1>2, <1>4, <2>4 DEF ReadNothing, Conclude
    <3>2. verdict'.is = "auth" /\ verdict'.requested = TRUE /\ verdict'.required = "unknown"
      BY <3>1 DEF Auth
    <3>3. peer.asks = TRUE
      BY <1>1, <2>4 DEF Met, Auths, TlsServers
    <3>4. faults' > 0 \/ (~peer.needs /\ peer.tickets = 0 /\ faults' = 0)
      <4>1. CASE Refusal(Ap)
        BY <2>2, <2>4, <4>1 DEF Refusal, Auths
      <4>2. CASE ~Refusal(Ap)
        <5>1. PICK n \in Nat : Granted13(peer.tickets, n)
          BY <2>4, <4>2, Answers13
        <5>2. ~peer.needs
          BY <4>2, Answers13 DEF Welcome
        <5>3. script = <<>> => faults' = 0
          BY <1>4 DEF ReadNothing, NoFault
        <5> QED BY <2>2, <2>6, <5>1, <5>2, <5>3
      <4> QED BY <4>1, <4>2
    <3>5. Concluded'
      BY <2>4, <3>1, <3>2, <3>3, <3>4 DEF Concluded, HandshakeVerdictsTrue
    <3> QED BY <2>1, <3>5 DEF Places
  <2>5. CASE probe = "early13"
    <3>1. pc' = "done" /\ verdict' = EarlyData("none")
      BY <1>2, <1>4, <2>5 DEF ReadNothing, Conclude
    <3>2. verdict'.is = "early" /\ verdict'.offered = "unknown"
      BY <3>1 DEF EarlyData
    <3>3. faults' > 0 \/ peer.asks \/ peer.tickets = 0
      <4>1. CASE Refusal(Ap)
        BY <4>1 DEF Refusal, TlsServers
      <4>2. CASE ~Refusal(Ap)
        <5>1. PICK n \in Nat : Granted13(peer.tickets, n)
          BY <2>5, <4>2, Answers13
        <5> QED BY <2>2, <2>6, <5>1
      <4> QED BY <4>1, <4>2
    <3>4. Concluded'
      BY <3>1, <3>2, <3>3 DEF Concluded, HandshakeVerdictsTrue
    <3> QED BY <2>1, <3>4 DEF Places
  <2> QED BY <1>1, <2>3, <2>4, <2>5
<1>5. ~Send /\ ~SendAgain
  BY <1>1, <1>2 DEF Send, SendAgain
<1> QED
  BY <1>3, <1>4, <1>5, Reads13 DEF HandshakeStep

\* The second handshake over one connection of 1.2.
LEMMA FromRenewing ==
  ASSUME peer \in TlsServers, HandshakeTypeOK, faults = 0, Renewing, HandshakeStep,
         peer' = peer, probe' = probe
  PROVE HandshakeTypeOK' /\ Places'
<1>1. /\ probe = "renew12" /\ Met /\ pc \in {"again", "renewal"} /\ peer.renews \in BOOLEAN
      /\ sealed.key = Master /\ sealed.seq = expected
  BY DEF Renewing, TlsServers
<1>2. /\ Renewed \in UnitSet /\ <<Renewed>> \in Seq(UnitSet) /\ Len(<<Renewed>>) = 1 /\ <<Renewed>>[1] = Renewed
      /\ Renewed.key = Master
      /\ Renewed.outer = (IF peer.renews THEN "handshake" ELSE "alert")
      /\ Renewed.what = (IF peer.renews THEN "server_hello" ELSE "alert")
  <2>1. CASE peer.renews
    <3>1. "handshake" \in Types /\ "server_hello" \in Messages
      BY DEF Types, Messages
    <3>2. Renewed = Unit("handshake", "handshake", Master, "server_hello")
      BY <2>1 DEF Renewed
    <3>3. Renewed \in UnitSet
      BY <3>1, <3>2, KeysTyped, UnitTyped
    <3>4. Renewed.key = Master /\ Renewed.outer = "handshake" /\ Renewed.what = "server_hello"
      BY <3>2, Fields
    <3> HIDE DEF Renewed
    <3> QED BY <2>1, <3>3, <3>4
  <2>2. CASE ~peer.renews
    <3>1. Renewed = Alert(Master)
      BY <2>2 DEF Renewed
    <3> QED BY <2>2, <3>1, AlertFields, KeysTyped
  <2> QED BY <2>1, <2>2
<1>3. CASE SendAgain
  <2>1. pc' = "renewal" /\ script' = <<Renewed>> /\ UNCHANGED <<verdict, sealed, expected, flight>>
    BY <1>3 DEF SendAgain, Renewed
  <2>2. Renewing'
    BY <1>1, <2>1 DEF Renewing, Met, Renewed
  <2>3. HandshakeTypeOK'
    <3>1. script' \in Seq(UnitSet)
      BY <1>2, <2>1
    <3> QED BY <2>1, <3>1, TypedAgain DEF HandshakeTypeOK
  <2> QED BY <2>2, <2>3 DEF Places
<1>4. CASE Receive
  <2>1. PICK k \in 1..Len(script) : Joins(k) /\ Sends(k) /\ ReadRenewal(RecordOf(k))
    BY <1>1, <1>4 DEF Receive, ReadHello13, ReadFlight12, ReadFlight13, ReadReply12, ReadReply13, ReadAuth12,
                      ReadAuth13, ReadFinished, ReadRenewal, ReadTickets
  <2> DEFINE r == RecordOf(k)
  <2>2. pc = "renewal" /\ script = <<Renewed>>
    BY <1>1, <2>1 DEF ReadRenewal, Renewing
  <2>3. PICK l \in Nat : l = Len(script)
    BY LenProperties DEF HandshakeTypeOK
  <2>4. k \in 1..l
    BY <2>1, <2>3
  <2>5. /\ script' \in Seq(UnitSet)
        /\ Len(r.units) = k
        /\ \A i \in 1..k : r.units[i] = script[i].what
        /\ r.outer = script[1].outer /\ r.key = script[1].key
        /\ sealed' \in [key : Keys, seq : Nat]
        /\ r.seq = (IF script[1].key = sealed.key THEN sealed.seq ELSE 0)
    BY <2>1, <2>3, <2>4, Taken
  <2>6. r.units[1] = script[1].what
    BY <2>4, <2>5
  <2>7. script[1] = Renewed
    BY <1>2, <2>2
  <2>8. Opens(r)
    BY <1>1, <1>2, <2>5, <2>7 DEF Opens, ClientKey, Probes12
  <2>9. /\ pc' = "done" /\ UNCHANGED <<expected, flight>>
        /\ verdict' = Renewal(r.outer = "handshake" /\ Opens(r) /\ r.units[1] = "server_hello")
    BY <2>1 DEF ReadRenewal, Conclude
  <2> HIDE DEF r
  <2>10. (r.outer = "handshake" /\ Opens(r) /\ r.units[1] = "server_hello") = peer.renews
    BY <1>1, <1>2, <2>5, <2>6, <2>7, <2>8
  <2>11. verdict'.is = "renewal" /\ verdict'.accepted = peer.renews
    BY <2>9, <2>10 DEF Renewal
  <2>12. Concluded'
    BY <1>1, <1>4, <2>9, <2>11 DEF Concluded, HandshakeVerdictsTrue, Receive, NoFault
  <2>13. HandshakeTypeOK'
    BY <2>5, <2>9, TypedAgain DEF HandshakeTypeOK
  <2> QED BY <2>12, <2>13 DEF Places
<1>5. CASE ReadNothing
  <2>1. pc = "renewal" /\ script = <<Renewed>>
    BY <1>1, <1>5 DEF ReadNothing, Renewing
  <2>2. script # <<>>
    BY <1>2, <2>1
  <2>3. faults' > 0 /\ pc' = "done" /\ verdict' = Renewal(FALSE)
    BY <1>5, <2>1, <2>2 DEF ReadNothing, Fault, Conclude
  <2>4. verdict'.is = "renewal" /\ verdict'.accepted = FALSE
    BY <2>3 DEF Renewal
  <2>5. verdict'.accepted = (peer'.renews /\ faults' = 0)
    <3>1. faults' # 0
      BY <2>3
    <3> QED BY <2>4, <3>1
  <2>6. Concluded'
    BY <2>3, <2>4, <2>5 DEF Concluded, HandshakeVerdictsTrue
  <2> QED BY <1>5, <2>6 DEF ReadNothing, Places, HandshakeTypeOK, handshake
<1>6. CASE LinkBreaks
  <2>1. Concluded'
    BY <1>1, <1>6, LinkBreaksTruly
  <2> QED BY <1>6, <2>1 DEF LinkBreaks, Places, HandshakeTypeOK, handshake
<1>7. ~Send
  BY <1>1 DEF Send
<1> QED
  BY <1>3, <1>4, <1>5, <1>6, <1>7 DEF HandshakeStep

\* A handshake that is over stays so.
LEMMA FromConcluded ==
  ASSUME Concluded
  PROVE ~HandshakeStep
  BY DEF Concluded, HandshakeStep, Receive, Send, SendAgain, ReadNothing, LinkBreaks

\* Every failure ends the probe that meets it.
LEMMA UnfailedGoesOn == Unfailed /\ HandshakeInv /\ [Next]_vars => Unfailed'
<1> SUFFICES ASSUME Unfailed, HandshakeInv, [Next]_vars, probe' \in HandshakeProbes, pc' # "done" PROVE faults' = 0
  BY DEF Unfailed
<1>1. probe' = probe /\ (HandshakeStep \/ UNCHANGED <<run, handshake>>)
  BY HandshakeFamily
<1>2. CASE HandshakeStep
  <2>0. Places
    BY <1>1 DEF HandshakeInv
  <2>3. pc \in {"hello", "flight", "drain", "reply", "auth", "renewal", "tickets", "send", "again", "done"}
    BY <2>0 DEF Places, InHello, InFlight12, InFlight13, ToSend, Reading12, Reading13, Replying, Met, Goers,
                Renewing, Concluded
  <2>1. Receive \/ Send \/ SendAgain
    BY <1>2, <2>3 DEF HandshakeStep, ReadNothing, LinkBreaks, Conclude
  <2>2. pc # "done" /\ NoFault
    BY <2>1 DEF Receive, Send, SendAgain
  <2> QED BY <1>1, <2>2 DEF Unfailed, NoFault
<1>3. CASE UNCHANGED <<run, handshake>>
  BY <1>1, <1>3 DEF Unfailed, run
<1> QED
  BY <1>1, <1>2, <1>3

\* No probe starts with a failure.
LEMMA UnfailedBegins == Init => Unfailed
  BY OtherProbes DEF Unfailed, HandshakeInit, Begin

\* Every step leads from one place to another.
LEMMA HandshakeGoesOn == Unfailed /\ HandshakeInv /\ [Next]_vars => HandshakeInv'
<1> SUFFICES ASSUME Unfailed, HandshakeInv, [Next]_vars, probe' \in HandshakeProbes
             PROVE peer' \in TlsServers /\ faults' \in Nat /\ HandshakeTypeOK' /\ Places'
  BY DEF HandshakeInv, HandshakeProbes, Probes12, Probes13
<1>1. probe' = probe /\ peer' = peer /\ probe \in HandshakeProbes
  BY HandshakeFamily DEF HandshakeProbes, Probes12, Probes13
<1>2. peer \in TlsServers /\ faults \in Nat /\ HandshakeTypeOK /\ Places
  BY <1>1 DEF HandshakeInv
<1>3. HandshakeStep \/ UNCHANGED <<run, handshake>>
  BY <1>1, HandshakeFamily
<1>4. CASE HandshakeStep
  <2>1. faults' \in Nat
    <3>1. Fault \/ NoFault
      BY <1>4 DEF HandshakeStep, Receive, Send, SendAgain, ReadNothing, LinkBreaks
    <3> QED BY <1>2, <3>1 DEF Fault, NoFault
  <2>2. HandshakeTypeOK' /\ Places'
    <3>1. CASE faults = 0
      BY <1>1, <1>2, <1>4, <3>1, FromHello, FromFlight12, FromFlight13, FromSend, FromReading12, FromReading13,
         FromRenewing, FromConcluded DEF Places
    <3>2. CASE faults # 0
      <4>1. pc = "done"
        BY <1>1, <3>2 DEF Unfailed
      <4> QED BY <1>4, <4>1 DEF HandshakeStep, Receive, Send, SendAgain, ReadNothing, LinkBreaks
    <3> QED BY <3>1, <3>2
  <2> QED BY <1>1, <1>2, <2>1, <2>2
<1>5. CASE UNCHANGED <<run, handshake>>
  <2>1. UNCHANGED <<probe, peer, pc, faults, verdict, script, sealed, expected, flight>>
    BY <1>5 DEF run, handshake
  <2>2. HandshakeTypeOK'
    BY <1>2, <2>1 DEF HandshakeTypeOK
  <2>3. Places'
    BY <1>2, <2>1 DEF Places, InHello, InFlight12, InFlight13, Spared13, Flows13, ToSend, Reading12, Reading13,
       Renewing, Renewed, Concluded, HandshakeVerdictsTrue, Fresh, Untold, Progress, Met, Replying, Awaited,
       Refusal, Welcome, Granted12, Tickets, Changed, Answering, Granted13, Ap, Ticket13, Agrees
  <2> QED BY <1>2, <2>1, <2>2, <2>3
<1> QED
  BY <1>3, <1>4, <1>5

-----------------------------------------------------------------------------
(* The theorems.                                                            *)

\* The first record that is to come: which key it is sealed under, with which number.
LEMMA FirstOfProgress ==
  ASSUME HandshakeTypeOK, script # <<>>, NEW f \in Seq(Messages), NEW had, NEW outer, NEW key,
         Progress(f, had, script, outer, key)
  PROVE script[1].key = key
<1>1. PICK n \in Nat, l \in Nat : n = Len(script) /\ l = Len(f)
  BY LenProperties DEF HandshakeTypeOK
<1>2. n >= 1
  BY <1>1, EmptySeq DEF HandshakeTypeOK
<1>3. PICK m \in 0..l : n = l - m /\ \A i \in 1..(l - m) : script[i] = Unit(outer, "handshake", key, f[m + i])
  BY <1>1 DEF Progress
<1>4. script[1] = Unit(outer, "handshake", key, f[m + 1])
  BY <1>2, <1>3
<1> QED
  BY <1>4, Fields

\* The next record of a granted answer of 1.2.
LEMMA FirstOfGranted12 ==
  ASSUME HandshakeTypeOK, script # <<>>, NEW n \in Nat, Granted12(n)
  PROVE /\ script[1].inner # "alert"
        /\ script[1].key # Plain => script[1].key = Master /\ RecordOf(1).seq = expected
<1>1. RecordOf(1).seq = IF script[1].key = sealed.key THEN sealed.seq ELSE 0
  BY DEF RecordOf
<1>2. CASE \E t \in Nat : Tickets(t, n)
  <2>1. PICK t \in Nat : Tickets(t, n)
    BY <1>2
  <2>2. script[1] = Ticket12 \/ script[1] = CcsUnit
    <3>1. CASE t = 0
      <4>1. t + 1 = 1
        BY <3>1
      <4> QED BY <2>1, <4>1 DEF Tickets
    <3>2. CASE t > 0
      <4>1. 1 \in 1..t
        BY <3>2
      <4> QED BY <2>1, <4>1 DEF Tickets
    <3> QED BY <3>1, <3>2
  <2> QED BY <2>2, NamedUnits
<1>3. CASE sealed.key = Plain /\ expected = 0 /\ Changed(n)
  <2>1. script[1] = Finished12
    BY <1>3 DEF Changed
  <2>2. script[1].key = Master /\ script[1].inner = "handshake" /\ Master # Plain
    BY <2>1, NamedUnits DEF Master, Plain
  <2> QED BY <1>1, <1>3, <2>2
<1>4. CASE sealed.key = Master /\ sealed.seq = expected /\ Answering(n)
  <2>1. PICK l \in Nat : l = Len(script) /\ l >= 1
    BY EmptySeq, LenProperties DEF HandshakeTypeOK
  <2>2. 1 \in 1..n
    BY <1>4, <2>1 DEF Answering
  <2>3. script[1] = Part(Master)
    BY <1>4, <2>2 DEF Answering
  <2>4. script[1].key = Master /\ script[1].inner = "application"
    BY <2>3, NamedUnits, KeysTyped
  <2> QED BY <1>1, <1>4, <2>4
<1> QED
  BY <1>2, <1>3, <1>4 DEF Granted12

\* The next record of a granted answer of 1.3.
LEMMA FirstOfGranted13 ==
  ASSUME HandshakeTypeOK, script # <<>>, Ap \in Keys, NEW t \in Nat, NEW n \in Nat, Granted13(t, n)
  PROVE script[1].inner # "alert" /\ script[1].key = Ap
<1>1. PICK l \in Nat : l = Len(script) /\ l >= 1
  BY EmptySeq, LenProperties DEF HandshakeTypeOK
<1>2. CASE t = 0
  <2>1. 1 \in 1..n /\ t + 1 = 1
    BY <1>1, <1>2 DEF Granted13
  <2>2. script[1] = Part(Ap)
    BY <2>1 DEF Granted13
  <2> QED BY <2>2, NamedUnits
<1>3. CASE t > 0
  <2>1. 1 \in 1..t
    BY <1>3
  <2>2. script[1] = Ticket13
    BY <2>1 DEF Granted13
  <2> QED BY <2>2, Fields DEF Ticket13
<1> QED
  BY <1>2, <1>3

\* The other probes have no handshake.
HandshakeRest == probe \notin HandshakeProbes => HandshakeIdle

\* They start without one.
LEMMA RestBegins == Init => HandshakeRest
  BY DEF Init, HandshakeRest, HandshakeInit, Begin

\* They never get one.
LEMMA RestGoesOn == HandshakeRest /\ [Next]_vars => HandshakeRest'
<1> SUFFICES ASSUME HandshakeRest, [Next]_vars, probe' \notin HandshakeProbes PROVE HandshakeIdle'
  BY DEF HandshakeRest, HandshakeProbes, Probes12, Probes13
<1>1. probe \notin HandshakeProbes
  BY HandshakeFamily
<1>2. ~HandshakeStep
  BY <1>1 DEF HandshakeStep
<1>3. UNCHANGED handshake
  BY <1>2 DEF Next, vars
<1> QED
  BY <1>1, <1>3 DEF HandshakeRest, HandshakeIdle, handshake

\* At every place the two ends agree on the next record.
LEMMA PlacesInStep ==
  ASSUME HandshakeInv, HandshakeRest, script # <<>>
  PROVE HandshakesInStep
<1>1. probe \in HandshakeProbes
  BY DEF HandshakeRest, HandshakeIdle
<1>2. peer \in TlsServers /\ HandshakeTypeOK /\ Places
  BY <1>1 DEF HandshakeInv
<1>3. RecordOf(1).seq = IF script[1].key = sealed.key THEN sealed.seq ELSE 0
  BY DEF RecordOf
<1>4. Master # Plain /\ HsTraffic # Plain /\ Plain \in Keys /\ Master \in Keys
  BY KeysTyped DEF Master, HsTraffic, Plain
<1>5. FullFlight(peer, probe) \in Seq(Messages) /\ Ap \in Keys /\ Ap # Plain /\ Ap # HsTraffic
  BY <1>1, <1>2, FlightSays, ApKey DEF Ap
<1> USE DEF HandshakesInStep, EndsInStep, RefusedOverCertificateOnly
<1>6. CASE InFlight12
  <2>1. script[1].key = Plain
    <3>1. CASE script = <<Alert(Plain)>>
      <4>1. script[1] = Alert(Plain)
        BY <3>1
      <4> QED BY <1>4, <4>1, AlertFields
    <3>2. CASE Progress(FullFlight(peer, probe), flight, script, "handshake", Plain)
      BY <1>2, <1>5, <3>2, FirstOfProgress
    <3> QED BY <1>6, <3>1, <3>2 DEF InFlight12
  <2>2. pc = "flight"
    BY <1>6 DEF InFlight12
  <2> QED BY <2>1, <2>2
<1>7. CASE InFlight13
  <2>1. pc = "flight" /\ ClientKey = HsTraffic
    BY <1>7 DEF InFlight13, ClientKey, Probes12, Probes13
  <2>2. CASE Spared13
    <3>1. script[1].key = Plain
      BY <2>2, NamedUnits DEF Spared13
    <3> QED BY <2>1, <3>1
  <2>3. CASE Flows13
    <3>1. script[1].key = HsTraffic
      BY <1>2, <1>5, <2>3, FirstOfProgress DEF Flows13
    <3>2. RecordOf(1).seq = expected
      BY <1>3, <1>4, <2>3, <3>1 DEF Flows13, Fresh
    <3> QED BY <2>1, <3>1, <3>2
  <2> QED BY <1>7, <2>2, <2>3 DEF InFlight13
<1>8. CASE Reading12
  <2>1. ClientKey = Master /\ pc \in {"reply", "auth", "drain", "tickets"}
    BY <1>8 DEF Reading12, ClientKey, Replying, Met, Goers, Fetches, Auths
  <2>2. CASE Refusal(Plain)
    <3>1. script[1] = Alert(Plain)
      BY <2>2 DEF Refusal
    <3>2. script[1].key = Plain
      BY <1>4, <3>1, AlertFields
    <3> QED BY <2>2, <3>2 DEF Refusal, Auths
  <2>3. ASSUME NEW n \in Nat, Granted12(n) PROVE HandshakesInStep
    <3>1. /\ script[1].inner # "alert"
          /\ script[1].key # Plain => script[1].key = Master /\ RecordOf(1).seq = expected
      BY <1>2, <2>3, FirstOfGranted12
    <3> QED BY <2>1, <3>1
  <2> QED BY <1>8, <2>2, <2>3 DEF Reading12
<1>9. CASE Reading13
  <2>1. ClientKey = Ap
    BY <1>9 DEF Reading13, ClientKey, Replying, Met, Goers, Fetches, Auths, Ap, Probes12, Probes13
  <2>2. ASSUME script[1].key = Ap PROVE RecordOf(1).seq = expected
    BY <1>3, <1>5, <1>9, <2>2 DEF Reading13
  <2>3. CASE Refusal(Ap)
    <3>1. script[1] = Alert(Ap)
      BY <2>3 DEF Refusal
    <3>2. script[1].key = Ap
      BY <1>5, <3>1, AlertFields
    <3> QED BY <2>1, <2>2, <2>3, <3>2 DEF Refusal, Auths
  <2>4. ASSUME NEW t \in Nat, NEW n \in Nat, Granted13(t, n) PROVE HandshakesInStep
    <3>1. script[1].inner # "alert" /\ script[1].key = Ap
      BY <1>2, <1>5, <2>4, FirstOfGranted13
    <3> QED BY <2>1, <2>2, <3>1
  <2> QED BY <1>9, <2>3, <2>4, Answers13
<1>10. CASE Renewing
  <2>1. CASE pc = "again"
    BY <2>1
  <2>2. CASE pc = "renewal" /\ script = <<Renewed>>
    <3>1. script[1] = Renewed
      BY <2>2
    <3>2. script[1].key = Master
      <4>1. CASE peer.renews
        BY <3>1, <4>1, Fields DEF Renewed
      <4>2. CASE ~peer.renews
        BY <1>4, <3>1, <4>2, AlertFields DEF Renewed
      <4> QED BY <4>1, <4>2
    <3>3. ClientKey = Master /\ RecordOf(1).seq = expected
      BY <1>3, <1>10, <3>2 DEF Renewing, ClientKey, Probes12
    <3> QED BY <2>2, <3>2, <3>3
  <2> QED BY <1>10, <2>1, <2>2 DEF Renewing
<1>11. CASE InHello \/ ToSend \/ Concluded
  <2>1. pc \in {"hello", "send", "done"}
    BY <1>11 DEF InHello, ToSend, Concluded
  <2> QED BY <2>1
<1> QED
  BY <1>2, <1>6, <1>7, <1>8, <1>9, <1>10, <1>11 DEF Places

\* A record is sealed under the key and with the number its reader opens it with, and a server
\* breaks off over a certificate only, however the messages were cut into records and whatever
\* came between them (_read_response, _drain_server_finished, _read_server_flight, _exchange).
THEOREM EndsStayInStep == Spec => []HandshakesInStep
<1>1. HandshakeInv /\ HandshakeRest => HandshakesInStep
  BY PlacesInStep DEF HandshakesInStep, EndsInStep, RefusedOverCertificateOnly
<1> QED
  BY <1>1, HandshakeBegins, HandshakeGoesOn, UnfailedBegins, UnfailedGoesOn, RestBegins, RestGoesOn, PTL DEF Spec

\* What every probe that completes a handshake concludes, exactly, of every server: with no
\* failure of the network what the server is, after one an error or "unknown", but for the
\* three statements that tls12.py and tls13.py then make of the want of an answer.
THEOREM HandshakesTellTheTruth == Spec => []HandshakeVerdictsTrue
<1>1. HandshakeInv => HandshakeVerdictsTrue
  BY DEF HandshakeInv, Places, Concluded, HandshakeVerdictsTrue, InHello, InFlight12, InFlight13, ToSend,
         Reading12, Reading13, Replying, Met, Goers, Renewing
<1> QED
  BY <1>1, HandshakeBegins, HandshakeGoesOn, UnfailedBegins, UnfailedGoesOn, PTL DEF Spec

\* The script of the server, the keys and numbers of both ends and the flight keep their types.
THEOREM HandshakesTyped == Spec => []HandshakeTypeOK
<1>1. HandshakeInv /\ HandshakeRest => HandshakeTypeOK
  <2>1. HandshakeIdle => HandshakeTypeOK
    BY KeysTyped, HoldsNothing DEF HandshakeIdle, HandshakeTypeOK
  <2> QED BY <2>1 DEF HandshakeInv, HandshakeRest
<1> QED
  BY <1>1, HandshakeBegins, HandshakeGoesOn, UnfailedBegins, UnfailedGoesOn, RestBegins, RestGoesOn, PTL DEF Spec
=============================================================================
