---------------------------- MODULE Probes_proofs ----------------------------
(***************************************************************************)
(* Proofs about the probes of Probes together: what they conclude is true,  *)
(* for every server they may meet and any number of failures.               *)
(***************************************************************************)
EXTENDS Handshakes_proofs, NameChecks_proofs

-----------------------------------------------------------------------------
(* The probes of a trait of the server: what they have heard.               *)

\* An answer, and what there is instead of one.
FeatureReply == [is : {"hello", "alert", "error", "late"}, says : Signs \cup Suites]
Failure(r)   == r.is \in {"error", "late"}

\* The i-th answer is the server's, or was lost.
Drawn(i, answered) == replies[i] = answered \/ Failure(replies[i])

\* An offer without the suite that was chosen before.
Without(c) == RemoveFirst(Legacy, c)

\* One question.
HeardOne ==
    /\ Len(replies) <= 1
    /\ Len(replies) = 1 => /\ Drawn(1, Answer(probe, peer, <<>>))
                           /\ replies[1].is = "late" => probe = "ccs"

\* Three questions in turn, each asked only after an answer.
HeardPreference ==
    /\ Len(replies) <= 3
    /\ Len(replies) >= 1 => Drawn(1, First(peer, Legacy))
    /\ Len(replies) >= 2 => /\ replies[1].is = "hello"
                            /\ Drawn(2, First(peer, Without(replies[1].says)))
    /\ Len(replies) = 3  => /\ replies[2].is = "hello"
                            /\ Drawn(3, First(peer, <<replies[2].says, replies[1].says>>))

\* The greased hello, and the plain one after a failure.
HeardGrease ==
    /\ Len(replies) <= 2
    /\ Len(replies) >= 1 => Drawn(1, GreaseAnswer(peer, <<>>))
    /\ Len(replies) = 2  => /\ replies[1].is # "hello"
                            /\ replies[2].is = "hello" => peer.tls12

\* The answer of a server to a vector, by the place of the answer.
Padding(i) == Hello(IF peer.oracle /\ (i - 2) % 5 >= 2 THEN "decrypt_error" ELSE "bad_record_mac")

\* Up to two rounds of five vectors, after a handshake that shows RSA key exchange.
HeardRobot ==
    /\ Len(replies) <= 11
    /\ Len(replies) >= 1 => Drawn(1, Hello("negotiated"))
    /\ \A i \in 2..11 : i <= Len(replies) => Drawn(i, Padding(i))
    /\ Len(replies) > 1 => Negotiated(peer, replies)
    /\ Len(replies) > 6 => ~Alike(Round(replies, 1))

\* What is heard at any time, of one failure for each answer that was lost.
FeatureInv ==
    probe \in FeatureKinds =>
        /\ peer \in FeatureServers(probe)
        /\ pc \in {"ask", "done"}
        /\ faults \in Nat
        /\ replies \in Seq(FeatureReply)
        /\ \A i \in 1..Len(replies) : Failure(replies[i]) => faults >= 1
        /\ \A i, k \in 1..Len(replies) :
              Failure(replies[i]) /\ Failure(replies[k]) /\ i # k => faults >= 2
        /\ probe \notin {"preference", "grease", "robot"} => HeardOne
        /\ probe = "preference" => HeardPreference
        /\ probe = "grease" => HeardGrease
        /\ probe = "robot" => HeardRobot
        /\ pc = "done" => /\ Enough(probe, peer, replies)
                          /\ verdict = FeatureVerdict(probe, peer, replies)

-----------------------------------------------------------------------------
(* Choices among numbers and suites.                                        *)

\* The least of a set of numbers.
LEMMA MinProperties ==
  ASSUME NEW T \in SUBSET Nat, T # {}
  PROVE Min(T) \in T /\ \A y \in T : Min(T) <= y
BY NatMin DEF Min

\* The newest of a set of versions is one of them, and none is newer.
LEMMA NewestProperties ==
  ASSUME NEW T \in SUBSET Versions, T # {}
  PROVE Newest(T) \in T /\ \A w \in T : w <= Newest(T)
<1>1. PICK top \in Nat : \A w \in Versions : w <= top
  BY FeatureProbesAssumption
<1> DEFINE above == {n \in Nat : \A w \in T : w <= n}
<1>2. Versions \subseteq Nat /\ top \in above
  BY <1>1, FeatureProbesAssumption
<1>3. PICK n \in above : \A m \in above : n <= m
  BY <1>2, NatMin
<1>4. n \in T
  <2>1. PICK w \in T : TRUE
    OBVIOUS
  <2>2. CASE n \notin T
    <3>1. \A v \in T : v <= n - 1
      BY <1>2, <1>3, <2>2
    <3>2. n - 1 \in above
      BY <1>2, <1>3, <2>1, <3>1
    <3> QED BY <1>3, <3>2
  <2> QED BY <2>2
<1>5. \E v \in T : \A w \in T : w <= v
  BY <1>3, <1>4
<1> QED
  BY <1>5 DEF Newest

\* The list of suites, and what it is without one of them.
LEMMA Listed ==
  /\ Legacy \in Seq(Suites) /\ Len(Legacy) \in Nat /\ DOMAIN Legacy = 1..Len(Legacy)
  /\ \A c \in Suites : \E i \in DOMAIN Legacy : Legacy[i] = c
  /\ \A i \in DOMAIN Legacy : Legacy[i] \in Suites
<1>1. Legacy \in Seq({Legacy[i] : i \in DOMAIN Legacy})
  BY FeatureProbesAssumption
<1>2. DOMAIN Legacy = 1..Len(Legacy) /\ Len(Legacy) \in Nat
  BY <1>1, LenProperties
<1>3. Suites = {Legacy[i] : i \in DOMAIN Legacy}
  BY <1>2 DEF Suites
<1> QED BY <1>1, <1>2, <1>3

\* The second offer holds the other suites only.
LEMMA WithoutProperties ==
  ASSUME NEW c \in Suites
  PROVE /\ Without(c) \in Seq(Suites)
        /\ \A k \in DOMAIN Without(c) : Without(c)[k] \in Suites \ {c}
<1> DEFINE here == {i \in 1..Len(Legacy) : Legacy[i] = c}
<1>1. PICK n \in Nat : n = Len(Legacy)
  BY Listed
<1>2. here # {} /\ here \in SUBSET Nat
  BY <1>1, Listed
<1>3. PICK m \in 1..n : m = Min(here) /\ Legacy[m] = c
  BY <1>1, <1>2, MinProperties
<1> DEFINE front == SubSeq(Legacy, 1, m - 1)
           back  == SubSeq(Legacy, m + 1, n)
<1>4. Without(c) = front \o back
  <2>1. \E i \in 1..Len(Legacy) : Legacy[i] = c
    BY <1>2
  <2>2. SelectInSeq(Legacy, LAMBDA v : v = c) = m
    BY <1>2, <1>3 DEF SelectInSeq
  <2> QED BY <1>1, <2>1, <2>2 DEF Without, RemoveFirst, RemoveAt
<1>5. \A i \in 1..n : Legacy[i] \in Suites /\ (Legacy[i] = c => i = m)
  BY <1>1, <1>3, Listed, FeatureProbesAssumption
<1>6. /\ front \in Seq(Suites) /\ Len(front) = m - 1
      /\ \A i \in 1..(m - 1) : front[i] = Legacy[i]
  <2>1. /\ front \in Seq(Suites)
        /\ Len(front) = IF 1 <= m - 1 THEN m - 1 - 1 + 1 ELSE 0
        /\ \A i \in 1..(m - 1 - 1 + 1) : front[i] = Legacy[1 + i - 1]
    <3>1. \A i \in 1..(m - 1) : Legacy[i] \in Suites
      BY <1>5
    <3> QED BY <3>1, SubSeqProperties
  <2> HIDE DEF front
  <2>2. Len(front) = m - 1
    BY <2>1
  <2>3. ASSUME NEW i \in 1..(m - 1) PROVE front[i] = Legacy[i]
    <3>1. i \in 1..(m - 1 - 1 + 1) /\ 1 + i - 1 = i
      OBVIOUS
    <3> QED BY <2>1, <3>1
  <2> QED BY <2>1, <2>2, <2>3
<1>7. /\ back \in Seq(Suites) /\ Len(back) = n - m
      /\ \A i \in 1..(n - m) : back[i] = Legacy[i + m]
  BY <1>1, Listed, RestProperties
<1> HIDE DEF front, back, here
<1>8. /\ \A i \in 1..(m - 1) : front[i] \in Suites \ {c}
      /\ \A i \in 1..(n - m) : back[i] \in Suites \ {c}
  <2>1. ASSUME NEW i \in 1..(n - m) PROVE back[i] \in Suites \ {c}
    <3>1. i + m \in 1..n /\ i + m # m
      OBVIOUS
    <3> QED BY <1>5, <1>7, <3>1
  <2>2. ASSUME NEW i \in 1..(m - 1) PROVE front[i] \in Suites \ {c}
    <3>1. i \in 1..n /\ i # m
      OBVIOUS
    <3> QED BY <1>5, <1>6, <3>1
  <2> QED BY <2>1, <2>2
<1>9. PICK h \in Nat, r \in Nat : h = m - 1 /\ r = n - m
  <2>1. m - 1 \in Nat /\ n - m \in Nat
    OBVIOUS
  <2> QED BY <2>1
<1> DEFINE both == front \o back
<1>10. /\ both \in Seq(Suites) /\ Len(both) = h + r
       /\ \A i \in 1..(h + r) : both[i] = IF i <= h THEN front[i] ELSE back[i - h]
  <2>1. front \in Seq(Suites) /\ back \in Seq(Suites) /\ Len(front) = h /\ Len(back) = r
    BY <1>6, <1>7, <1>9
  <2> QED BY <2>1, ConcatProperties
<1> HIDE DEF both
<1>11. DOMAIN both = 1..(h + r)
  BY <1>10, LenProperties
<1>12. ASSUME NEW k \in DOMAIN both PROVE both[k] \in Suites \ {c}
  <2>1. CASE k <= h
    BY <1>8, <1>9, <1>10, <1>11, <2>1
  <2>2. CASE ~(k <= h)
    <3>1. k - h \in 1..r /\ both[k] = back[k - h]
      BY <1>10, <1>11, <2>2
    <3> QED BY <1>8, <1>9, <3>1
  <2> QED BY <2>1, <2>2
<1> QED
  BY <1>4, <1>10, <1>12, SMTT(30) DEF both

\* The suite c is the first of one list that the other one has too.
In(c, list) == \E k \in DOMAIN list : list[k] = c

\* The first of a list that the other list has too.
FirstShared(c, list, other) ==
    \E k \in DOMAIN list :
        /\ list[k] = c /\ In(c, other)
        /\ \A j \in DOMAIN list : j < k => ~In(list[j], other)

\* The suite a server takes is the first of its order that was offered, if it imposes
\* one, and else the first of the offer that it knows.
LEMMA FirstProperties ==
  ASSUME NEW s \in FeatureServers("preference"), NEW offer \in Seq(Suites)
  PROVE \/ First(s, offer) = AlertReply
        \/ \E c \in Suites :
              /\ First(s, offer) = Hello(c)
              /\ s.imposes => FirstShared(c, s.order, offer)
              /\ ~s.imposes => FirstShared(c, offer, s.order)
<1> DEFINE ranked == IF s.imposes THEN s.order ELSE offer
           shared == {i \in DOMAIN ranked : In(ranked[i], offer) /\ In(ranked[i], s.order)}
<1>1. s.order \in Orders
  BY DEF FeatureServers, EchoProbes
<1>2. PICK n \in Nat : s.order \in [1..n -> Suites]
  <2>1. PICK n \in 1..Len(Legacy) : s.order \in [1..n -> Suites]
    BY <1>1 DEF Orders
  <2>2. n \in Nat
    BY Listed
  <2> QED BY <2>1, <2>2
<1>3. DOMAIN offer = 1..Len(offer) /\ Len(offer) \in Nat /\ \A i \in 1..Len(offer) : offer[i] \in Suites
  BY LenProperties, ElementOfSeq
<1>4. DOMAIN ranked \in SUBSET Nat /\ \A i \in DOMAIN ranked : ranked[i] \in Suites
  BY <1>2, <1>3
<1>5. First(s, offer) = IF shared = {} THEN AlertReply ELSE Hello(ranked[Min(shared)])
  BY DEF First, In
<1>0. /\ s.imposes => ranked = s.order
      /\ ~s.imposes => ranked = offer
  OBVIOUS
<1> HIDE DEF ranked
<1>6. ASSUME shared # {}
      PROVE \E c \in Suites :
              /\ First(s, offer) = Hello(c)
              /\ s.imposes => FirstShared(c, s.order, offer)
              /\ ~s.imposes => FirstShared(c, offer, s.order)
  <2>1. shared \in SUBSET Nat
    BY <1>4
  <2>2. PICK m \in shared : m = Min(shared) /\ \A y \in shared : m <= y
    BY <1>6, <2>1, MinProperties
  <2>3. First(s, offer) = Hello(ranked[m])
    BY <1>5, <1>6, <2>2
  <2>4. ranked[m] \in Suites /\ In(ranked[m], offer) /\ In(ranked[m], s.order)
    BY <1>4, <2>2
  <2>5. ASSUME NEW j \in DOMAIN ranked, j < m
        PROVE  ~In(ranked[j], offer) \/ ~In(ranked[j], s.order)
    <3>1. m \in Nat /\ j \in Nat
      BY <1>4
    <3>2. j \notin shared
      <4> HIDE DEF shared
      <4> QED BY <2>2, <2>5, <3>1
    <3> QED BY <3>2
  <2>6. \A j \in DOMAIN ranked : In(ranked[j], ranked)
    BY DEF In
  <2>7. s.imposes => FirstShared(ranked[m], s.order, offer)
    BY <1>0, <2>2, <2>4, <2>5, <2>6 DEF FirstShared
  <2>8. ~s.imposes => FirstShared(ranked[m], offer, s.order)
    BY <1>0, <2>2, <2>4, <2>5, <2>6 DEF FirstShared
  <2> QED BY <2>3, <2>4, <2>7, <2>8
<1> QED
  <2>1. shared = {} => First(s, offer) = AlertReply
    BY <1>5
  <2>2. CASE shared = {}
    BY <2>1, <2>2
  <2>3. CASE shared # {}
    <3> HIDE DEF shared
    <3>1. shared # {}
      BY <2>3
    <3> QED BY <1>6, <3>1
  <2> QED BY <2>2, <2>3

-----------------------------------------------------------------------------
(* What the probes of a trait conclude from what they have heard.           *)

\* The version a fallback hello names is one the server could exceed.
LEMMA FallbackBelow ==
  ASSUME NEW s \in FeatureServers("fallback"), Asks(s)
  PROVE Fallback(s) < Newest(s.speaks)
<1>1. /\ s.speaks \in SUBSET Versions /\ s.speaks # {}
      /\ s.found \subseteq s.speaks
  BY DEF FeatureServers, EchoProbes
<1>2. PICK v \in Versions : s.found # {} /\ v < Newest(s.found)
  BY DEF Asks, Below
<1>3. Below(s) \in SUBSET Versions /\ Below(s) # {}
  BY DEF Asks, Below
<1>4. Fallback(s) \in Versions /\ Fallback(s) < Newest(s.found)
  <2>1. Newest(Below(s)) \in Below(s)
    BY <1>3, NewestProperties
  <2> QED BY <2>1 DEF Fallback, Below
<1>5. Newest(s.found) \in s.speaks
  BY <1>1, <1>2, NewestProperties
<1>6. Newest(s.speaks) \in Versions /\ Newest(s.found) <= Newest(s.speaks)
  BY <1>1, <1>5, NewestProperties
<1>7. /\ Newest(s.found) \in Nat /\ Fallback(s) \in Nat
      /\ Newest(s.speaks) \in Nat
  BY <1>1, <1>4, <1>5, <1>6, FeatureProbesAssumption
<1> QED
  BY <1>4, <1>6, <1>7

\* The probes of one answer.
LEMMA OneAnswerTells ==
  ASSUME FeatureInv, pc = "done", probe \in FeatureKinds,
         probe \notin {"preference", "grease", "robot"}
  PROVE FeatureVerdictsTrue
<1>1. /\ peer \in FeatureServers(probe) /\ HeardOne
      /\ Enough(probe, peer, replies) /\ verdict = FeatureVerdict(probe, peer, replies)
  BY DEF FeatureInv
<1>2. /\ replies \in Seq(FeatureReply) /\ Len(replies) \in Nat
      /\ \A i \in 1..Len(replies) : replies[i] \in FeatureReply /\ (Failure(replies[i]) => faults >= 1)
      /\ faults \in Nat
  BY LenProperties, ElementOfSeq DEF FeatureInv
<1>3. CASE probe = "fallback" /\ ~Asks(peer)
  BY <1>1, <1>3 DEF FeatureVerdict, FeatureVerdictsTrue, EchoProbes
<1>4. CASE ~(probe = "fallback" /\ ~Asks(peer))
  <2>1. Len(replies) = 1
    BY <1>1, <1>4 DEF Enough, FeatureKinds, EchoProbes
  <2>2. PICK r \in FeatureReply : r = replies[1]
    BY <1>2, <2>1
  <2>3. /\ r = Answer(probe, peer, <<>>) \/ (Failure(r) /\ faults >= 1)
        /\ r.is = "late" => probe = "ccs"
    BY <1>1, <1>2, <2>1, <2>2 DEF HeardOne, Drawn
  <2>4. CASE probe \in EchoProbes
    <3>1. verdict = EchoVerdict(r)
      BY <1>1, <2>2, <2>4 DEF FeatureVerdict, EchoProbes, ResumptionVerdict, DowngradeVerdict
    <3>2. r = EchoAnswer(peer) \/ Failure(r)
      BY <2>3, <2>4 DEF Answer, EchoProbes
    <3>3. peer \in [tls12 : BOOLEAN, trait : BOOLEAN]
      BY <1>1, <2>4 DEF FeatureServers, EchoProbes
    <3>4. verdict.value # "unknown" => (peer.tls12 /\ peer.trait) = (verdict.value = "yes")
      <4>1. CASE Failure(r)
        BY <3>1, <4>1 DEF EchoVerdict, Failure
      <4>2. CASE r = EchoAnswer(peer)
        <5>1. CASE ~peer.tls12
          BY <3>1, <4>2, <5>1 DEF EchoVerdict, EchoAnswer, Hello
        <5>2. CASE peer.tls12 /\ peer.trait
          BY <3>1, <4>2, <5>2 DEF EchoVerdict, EchoAnswer, Hello
        <5>3. CASE peer.tls12 /\ ~peer.trait
          BY <3>1, <4>2, <5>3 DEF EchoVerdict, EchoAnswer, Hello
        <5> QED BY <5>1, <5>2, <5>3
      <4> QED BY <3>2, <4>1, <4>2
    <3> QED BY <2>4, <3>4 DEF FeatureVerdictsTrue, EchoProbes
  <2>5. CASE probe = "compression"
    <3>1. verdict = CompressionVerdict(r)
      BY <1>1, <2>2, <2>5 DEF FeatureVerdict, EchoProbes
    <3>2. r = CompressionAnswer(peer) \/ Failure(r)
      BY <2>3, <2>5 DEF Answer, EchoProbes
    <3>3. peer \in [tls12 : BOOLEAN, trait : BOOLEAN]
      BY <1>1, <2>5 DEF FeatureServers, EchoProbes
    <3>4. verdict.value # "unknown" => peer.trait = (verdict.value = "yes")
      BY <3>1, <3>2, <3>3 DEF CompressionVerdict, CompressionAnswer, Hello, AlertReply, Failure
    <3> QED BY <2>5, <3>4 DEF FeatureVerdictsTrue, EchoProbes
  <2>6. CASE probe = "fallback"
    <3>1. verdict = FallbackVerdict(r)
      BY <1>1, <1>4, <2>2, <2>6 DEF FeatureVerdict, EchoProbes
    <3>2. r = FallbackAnswer(peer) \/ Failure(r)
      BY <2>3, <2>6 DEF Answer, EchoProbes
    <3>3. peer \in FeatureServers("fallback") /\ peer.scsv \in BOOLEAN
      BY <1>1, <2>6 DEF FeatureServers, EchoProbes
    <3>4. Fallback(peer) < Newest(peer.speaks)
      BY <1>4, <2>6, <3>3, FallbackBelow
    <3>5. Newest(peer.speaks) > Fallback(peer)
      <4>1. Fallback(peer) \in Nat /\ Newest(peer.speaks) \in Nat
        <5>1. Below(peer) \in SUBSET Versions /\ Below(peer) # {}
          BY <1>4, <2>6 DEF Asks, Below
        <5>2. peer.speaks \in SUBSET Versions /\ peer.speaks # {}
          BY <3>3 DEF FeatureServers, EchoProbes
        <5>3. Fallback(peer) \in Versions /\ Newest(peer.speaks) \in Versions
          <6>1. Newest(Below(peer)) \in Below(peer) /\ Newest(peer.speaks) \in peer.speaks
            BY <5>1, <5>2, NewestProperties
          <6> QED BY <5>1, <5>2, <6>1 DEF Fallback
        <5> QED BY <5>3, FeatureProbesAssumption
      <4> QED BY <3>4, <4>1
    <3>6. verdict.value # "unknown" => peer.scsv = (verdict.value = "yes")
      BY <3>1, <3>2, <3>3, <3>5 DEF FallbackVerdict, FallbackAnswer, Hello, AlertReply, Failure
    <3> QED BY <2>6, <3>6 DEF FeatureVerdictsTrue, EchoProbes
  <2>7. CASE probe = "heartbleed"
    <3>1. verdict = HeartbleedVerdict(peer, r)
      BY <1>1, <2>2, <2>7 DEF FeatureVerdict, EchoProbes
    <3> QED BY <2>7, <3>1 DEF HeartbleedVerdict, FeatureVerdictsTrue, EchoProbes
  <2>8. CASE probe = "ccs"
    <3>1. verdict = CcsVerdict(peer, r)
      BY <1>1, <2>2, <2>8 DEF FeatureVerdict, EchoProbes
    <3>2. r.is = "late" => faults > 0
      BY <1>2, <2>1, <2>2 DEF Failure
    <3> QED BY <2>8, <3>1, <3>2 DEF CcsVerdict, FeatureVerdictsTrue, EchoProbes
  <2>9. CASE probe = "sslv2"
    <3>1. verdict = Sslv2Verdict(peer, r)
      BY <1>1, <2>2, <2>9 DEF FeatureVerdict, EchoProbes
    <3> QED BY <2>9, <3>1 DEF Sslv2Verdict, FeatureVerdictsTrue, EchoProbes
  <2> QED
    BY <2>4, <2>5, <2>6, <2>7, <2>8, <2>9 DEF FeatureKinds
<1> QED
  BY <1>3, <1>4

\* A hello of the server is the answer it owed.
LEMMA HelloIsDrawn ==
  ASSUME NEW i, NEW a, Drawn(i, a), replies[i].is = "hello"
  PROVE replies[i] = a
BY DEF Drawn, Failure

\* Three hellos tell who decides over the suite.
LEMMA PreferenceTells ==
  ASSUME FeatureInv, pc = "done", probe = "preference"
  PROVE FeatureVerdictsTrue
<1>1. /\ peer \in FeatureServers("preference") /\ HeardPreference
      /\ Enough("preference", peer, replies) /\ verdict = FeatureVerdict("preference", peer, replies)
  BY DEF FeatureInv, FeatureKinds
<1>2. PICK n \in Nat : n = Len(replies)
  BY LenProperties DEF FeatureInv, FeatureKinds
<1>3. verdict = PreferenceVerdict(replies)
  BY <1>1 DEF FeatureVerdict, EchoProbes
<1>4. CASE n < 3 \/ replies[n].is # "hello"
  <2>1. verdict.value = "unknown"
    BY <1>2, <1>3, <1>4 DEF PreferenceVerdict
  <2> QED BY <2>1 DEF FeatureVerdictsTrue, EchoProbes
<1>5. CASE ~(n < 3 \/ replies[n].is # "hello")
  <2>1. n = 3 /\ replies[3].is = "hello"
    BY <1>1, <1>2, <1>5 DEF HeardPreference
  <2>2. /\ replies[1].is = "hello" /\ replies[2].is = "hello"
        /\ Drawn(1, First(peer, Legacy))
        /\ Drawn(2, First(peer, Without(replies[1].says)))
        /\ Drawn(3, First(peer, <<replies[2].says, replies[1].says>>))
    BY <1>1, <1>2, <2>1 DEF HeardPreference
  <2>3. PICK a \in Suites : /\ replies[1] = Hello(a)
                            /\ peer.imposes => FirstShared(a, peer.order, Legacy)
                            /\ ~peer.imposes => FirstShared(a, Legacy, peer.order)
    <3>1. replies[1] = First(peer, Legacy) /\ replies[1] # AlertReply
      BY <2>2, HelloIsDrawn DEF AlertReply
    <3> QED BY <1>1, <3>1, FirstProperties, Listed
  <2>4. PICK b \in Suites \ {a} : /\ replies[2] = Hello(b) /\ In(b, peer.order)
    <3>1. replies[1].says = a
      BY <2>3 DEF Hello
    <3>2. replies[2] = First(peer, Without(a)) /\ replies[2] # AlertReply
      BY <2>2, <3>1, HelloIsDrawn DEF AlertReply
    <3>3. PICK b \in Suites : /\ replies[2] = Hello(b)
                              /\ peer.imposes => FirstShared(b, peer.order, Without(a))
                              /\ ~peer.imposes => FirstShared(b, Without(a), peer.order)
      BY <1>1, <3>2, FirstProperties, WithoutProperties
    <3>4. In(b, peer.order) /\ In(b, Without(a))
      BY <3>3 DEF FirstShared, In
    <3>5. b # a
      BY <3>4, WithoutProperties DEF In
    <3> QED BY <3>3, <3>4, <3>5
  <2> DEFINE two == <<b, a>>
  <2>5. two \in Seq(Suites) /\ DOMAIN two = 1..2 /\ two[1] = b /\ two[2] = a
    OBVIOUS
  <2> HIDE DEF two
  <2>6. PICK c \in Suites : /\ replies[3] = Hello(c)
                            /\ peer.imposes => FirstShared(c, peer.order, two)
                            /\ ~peer.imposes => FirstShared(c, two, peer.order)
    <3>1. replies[1].says = a /\ replies[2].says = b
      BY <2>3, <2>4 DEF Hello
    <3>2. replies[3] = First(peer, two) /\ replies[3] # AlertReply
      BY <2>1, <2>2, <3>1, HelloIsDrawn DEF AlertReply, two
    <3> QED BY <1>1, <2>5, <3>2, FirstProperties
  <2>7. verdict.value = IF c = a THEN "yes" ELSE "no"
    <3>1. replies[1].says = a /\ replies[3].says = c
      BY <2>3, <2>6 DEF Hello
    <3> QED BY <1>2, <1>3, <2>1, <3>1 DEF PreferenceVerdict
  <2>8. peer.imposes \in BOOLEAN /\ \E k \in Nat : peer.order \in [1..k -> Suites]
    <3>1. peer.imposes \in BOOLEAN /\ peer.order \in Orders
      BY <1>1 DEF FeatureServers, EchoProbes
    <3>2. PICK k \in 1..Len(Legacy) : peer.order \in [1..k -> Suites]
      BY <3>1 DEF Orders
    <3> QED BY <3>1, <3>2, Listed
  <2>9. CASE peer.imposes
    <3>1. PICK k \in DOMAIN peer.order : /\ peer.order[k] = a
             /\ \A j \in DOMAIN peer.order : j < k => ~In(peer.order[j], Legacy)
      BY <2>3, <2>9 DEF FirstShared
    <3>2. PICK h \in DOMAIN peer.order : /\ peer.order[h] = c
             /\ \A j \in DOMAIN peer.order : j < h => ~In(peer.order[j], two)
      BY <2>6, <2>9 DEF FirstShared
    <3>3. \A j \in DOMAIN peer.order : In(peer.order[j], Legacy)
      BY <2>8, Listed DEF In
    <3>4. In(a, two)
      BY <2>5 DEF In
    <3>5. ~(h < k) /\ ~(k < h)
      BY <3>1, <3>2, <3>3, <3>4
    <3>6. h = k
      BY <2>8, <3>5
    <3>7. verdict.value = "yes"
      BY <2>7, <3>1, <3>2, <3>6
    <3> QED BY <2>9, <3>7 DEF FeatureVerdictsTrue, EchoProbes
  <2>10. CASE ~peer.imposes
    <3>1. PICK h \in DOMAIN two : /\ two[h] = c
             /\ \A j \in DOMAIN two : j < h => ~In(two[j], peer.order)
      BY <2>6, <2>10 DEF FirstShared
    <3>2. ~(1 < h)
      BY <2>4, <2>5, <3>1
    <3>3. c = b
      BY <2>5, <3>1, <3>2
    <3>4. verdict.value = "no"
      BY <2>4, <2>7, <3>3
    <3> QED BY <2>8, <2>10, <3>4 DEF FeatureVerdictsTrue, EchoProbes
  <2> QED BY <2>9, <2>10
<1> QED
  BY <1>4, <1>5

\* A hello with GREASE, and perhaps one without it.
LEMMA GreaseTells ==
  ASSUME FeatureInv, pc = "done", probe = "grease"
  PROVE FeatureVerdictsTrue
<1>1. /\ peer \in [tls12 : BOOLEAN, trait : BOOLEAN] /\ HeardGrease
      /\ Enough("grease", peer, replies) /\ verdict = FeatureVerdict("grease", peer, replies)
      /\ faults \in Nat
  BY DEF FeatureInv, FeatureKinds, FeatureServers, EchoProbes
<1>2. PICK n \in Nat : n = Len(replies) /\ n \in {1, 2}
  BY <1>1, LenProperties DEF FeatureInv, FeatureKinds, Enough, EchoProbes, HeardGrease
<1>3. verdict = GreaseVerdict(replies)
  BY <1>1 DEF FeatureVerdict, EchoProbes
<1>4. Failure(replies[1]) => faults >= 1
  BY <1>2 DEF FeatureInv, FeatureKinds
<1>5. replies[1] = GreaseAnswer(peer, <<>>) \/ faults > 0
  BY <1>1, <1>2, <1>4 DEF HeardGrease, Drawn
<1>6. GreaseAnswer(peer, <<>>) = IF peer.tls12 /\ peer.trait THEN Hello("none") ELSE AlertReply
  BY DEF GreaseAnswer
<1>7. CASE n = 1
  <2>1. verdict.value = IF replies[1].is # "hello" THEN "unknown" ELSE "yes"
    BY <1>2, <1>3, <1>7 DEF GreaseVerdict
  <2>2. replies[1].is = "hello" => replies[1] = GreaseAnswer(peer, <<>>)
    BY <1>1, <1>2, <1>7, HelloIsDrawn DEF HeardGrease
  <2>3. verdict.value # "unknown" => peer.trait /\ verdict.value = "yes"
    BY <1>1, <1>6, <2>1, <2>2 DEF AlertReply
  <2> QED BY <1>1, <2>3 DEF FeatureVerdictsTrue, EchoProbes
<1>8. CASE n = 2
  <2>1. verdict.value = IF replies[2].is # "hello" THEN "unknown" ELSE "no"
    BY <1>2, <1>3, <1>8 DEF GreaseVerdict
  <2>2. replies[1].is # "hello"
    BY <1>1, <1>2, <1>8 DEF HeardGrease
  <2>3. replies[2].is = "hello" => peer.tls12
    BY <1>1, <1>2, <1>8 DEF HeardGrease
  <2>4. verdict.value # "unknown" => ~peer.trait \/ faults > 0
    BY <1>1, <1>5, <1>6, <2>1, <2>2, <2>3 DEF Hello
  <2> QED BY <1>1, <2>1, <2>4 DEF FeatureVerdictsTrue, EchoProbes
<1> QED
  BY <1>2, <1>7, <1>8

\* check_robot: an oracle shows in both rounds but for failures, and a server without one
\* seems to have one only if a vector failed in both.
LEMMA RobotTells ==
  ASSUME FeatureInv, pc = "done", probe = "robot"
  PROVE OneFailureAccusesNobody
<1>1. /\ HeardRobot /\ Enough("robot", peer, replies)
      /\ verdict = FeatureVerdict("robot", peer, replies)
      /\ faults \in Nat /\ peer.oracle \in BOOLEAN
  BY DEF FeatureInv, FeatureKinds, FeatureServers, EchoProbes
<1>2. PICK n \in Nat : n = Len(replies)
  BY LenProperties DEF FeatureInv, FeatureKinds
<1>3. n = 1 \/ n = 6 \/ n = 11
  BY <1>1, <1>2 DEF Enough, EchoProbes
<1>4. /\ \A i \in 1..n : Failure(replies[i]) => faults >= 1
      /\ \A i, k \in 1..n : Failure(replies[i]) /\ Failure(replies[k]) /\ i # k => faults >= 2
  BY <1>2 DEF FeatureInv, FeatureKinds
<1>5. CASE n = 1
  <2>1. ~Negotiated(peer, replies)
    BY <1>1, <1>2, <1>5 DEF Enough, EchoProbes
  <2>2. verdict = [is |-> "robot", tested |-> FALSE, vulnerable |-> FALSE]
    BY <1>1, <2>1 DEF FeatureVerdict, EchoProbes
  <2> QED BY <2>2 DEF OneFailureAccusesNobody
<1>6. ASSUME n # 1 PROVE verdict = RobotVerdict(peer, replies)
  <2>1. Negotiated(peer, replies)
    BY <1>1, <1>2, <1>3, <1>6 DEF HeardRobot
  <2> QED BY <1>1, <2>1 DEF FeatureVerdict, EchoProbes
<1>7. \A i \in 2..n : replies[i] = Padding(i) \/ Failure(replies[i])
  <2>1. n <= 11
    BY <1>3
  <2> QED BY <1>1, <1>2, <2>1 DEF HeardRobot, Drawn
<1>8. CASE n = 6
  <2>1. Alike(Round(replies, 1))
    BY <1>1, <1>2, <1>8 DEF Enough, EchoProbes
  <2>2. replies[2] = replies[5]
    <3>1. Round(replies, 1)[1] = Round(replies, 1)[4]
      BY <2>1 DEF Alike, Vectors
    <3> QED BY <3>1 DEF Round, Vectors
  <2>3. ~verdict.vulnerable
    <3>1. ~(Len(replies) = 11 /\ Round(replies, 1) = Round(replies, 2))
      BY <1>2, <1>8
    <3>2. verdict = RobotVerdict(peer, replies)
      BY <1>6, <1>8
    <3> QED BY <3>1, <3>2 DEF RobotVerdict
  <2>4. peer.oracle => Padding(2) # Padding(5)
    BY DEF Padding, Hello
  <2>5. peer.oracle => Failure(replies[2]) \/ Failure(replies[5])
    BY <1>7, <1>8, <2>2, <2>4
  <2>6. peer.oracle => faults > 0
    BY <1>1, <1>4, <1>8, <2>5
  <2> QED BY <2>3, <2>6 DEF OneFailureAccusesNobody
<1>9. CASE n = 11
  <2>1. verdict.vulnerable = (Round(replies, 1) = Round(replies, 2))
    BY <1>2, <1>6, <1>9 DEF RobotVerdict
  <2>2. \A v \in Vectors : Round(replies, 1)[v] = replies[1 + v] /\ Round(replies, 2)[v] = replies[6 + v]
    BY DEF Round, Vectors
  <2>3. ASSUME verdict.vulnerable, ~peer.oracle PROVE faults >= 2
    <3>1. ~Alike(Round(replies, 1))
      BY <1>1, <1>2, <1>9 DEF HeardRobot
    <3>2. PICK v \in Vectors, w \in Vectors : replies[1 + v] # replies[1 + w]
      BY <2>2, <3>1 DEF Alike
    <3>3. \A i \in 2..11 : Padding(i) = Hello("bad_record_mac")
      BY <2>3 DEF Padding
    <3>4. PICK u \in Vectors : Failure(replies[1 + u])
      <4>1. 1 + v \in 2..11 /\ 1 + w \in 2..11
        BY DEF Vectors
      <4> QED BY <1>7, <1>9, <3>2, <3>3, <4>1
    <3>5. replies[6 + u] = replies[1 + u]
      BY <2>1, <2>2, <2>3
    <3>6. 1 + u \in 1..11 /\ 6 + u \in 1..11 /\ 1 + u # 6 + u
      BY DEF Vectors
    <3> QED BY <1>4, <1>9, <3>4, <3>5, <3>6
  <2>4. ASSUME ~verdict.vulnerable, peer.oracle PROVE faults > 0
    <3>1. PICK v \in Vectors : replies[1 + v] # replies[6 + v]
      <4>1. Round(replies, 1) # Round(replies, 2)
        BY <2>1, <2>4
      <4> QED BY <4>1 DEF Round, Vectors
    <3>2. Padding(1 + v) = Padding(6 + v)
      BY DEF Vectors, Padding
    <3>3. 1 + v \in 2..11 /\ 6 + v \in 2..11
      BY DEF Vectors
    <3>4. Failure(replies[1 + v]) \/ Failure(replies[6 + v])
      BY <1>7, <1>9, <3>1, <3>2, <3>3
    <3>5. 1 + v \in 1..11 /\ 6 + v \in 1..11
      BY <3>3
    <3> QED BY <1>1, <1>4, <1>9, <3>4, <3>5
  <2> QED BY <1>1, <2>3, <2>4 DEF OneFailureAccusesNobody
<1> QED
  BY <1>3, <1>5, <1>8, <1>9

-----------------------------------------------------------------------------
(* What is heard is kept by every step.                                     *)

\* While one of these probes runs, only its own steps are taken.
LEMMA FeatureFamily ==
  ASSUME [Next]_vars, probe \in FeatureKinds
  PROVE FeatureStep \/ UNCHANGED <<run, replies>>
<1> USE DEF FeatureKinds, EchoProbes
<1>1. CASE HandshakeStep
  BY <1>1 DEF HandshakeStep, HandshakeProbes, Probes12, Probes13, Receive, Send, SendAgain,
              ReadNothing, LinkBreaks
<1>2. CASE QuicStep
  BY <1>2 DEF QuicStep
<1>3. CASE AppStep
  BY <1>3 DEF AppStep, AppKinds, Write, Piece, Ends, Fails
<1>4. CASE NameStep
  BY <1>4 DEF NameStep, PolicyChecks, Resolve, AskSystem, FetchSigned, Climb, RootKeys, Descend
<1>5. CASE DenialStep
  BY <1>5 DEF DenialStep, Prove
<1>6. CASE UNCHANGED vars
  BY <1>6 DEF vars
<1> QED
  BY <1>1, <1>2, <1>3, <1>4, <1>5, <1>6 DEF Next

\* Nothing is heard yet.
LEMMA FeatureBegins == Init => FeatureInv
<1> SUFFICES ASSUME Init, probe \in FeatureKinds PROVE FeatureInv
  BY DEF FeatureInv
<1>1. FeatureInit
  <2> USE DEF FeatureKinds, EchoProbes, Begin
  <2>1. ~HandshakeInit
    BY DEF HandshakeInit, HandshakeProbes, Probes12, Probes13
  <2>2. ~QuicInit
    BY DEF QuicInit
  <2>3. ~AppInit
    BY DEF AppInit, AppKinds
  <2>4. ~NameInit
    BY DEF NameInit, PolicyChecks
  <2>5. ~DenialInit
    BY DEF DenialInit
  <2> QED BY <2>1, <2>2, <2>3, <2>4, <2>5 DEF Init
<1>2. /\ peer \in FeatureServers(probe) /\ pc = "ask" /\ faults = 0 /\ replies = <<>>
  BY <1>1 DEF FeatureInit, Begin
<1>3. replies \in Seq(FeatureReply) /\ Len(replies) = 0
  BY <1>2
<1>4. HeardOne /\ HeardPreference /\ HeardGrease /\ HeardRobot
  BY <1>3 DEF HeardOne, HeardPreference, HeardGrease, HeardRobot
<1> QED
  BY <1>2, <1>3, <1>4 DEF FeatureInv

\* One more answer: those before it stay, and it is the server's or a failure's.
LEMMA OneMore ==
  ASSUME FeatureInv, probe \in FeatureKinds, NEW r \in FeatureReply, replies' = Append(replies, r)
  PROVE \E n \in Nat : /\ n = Len(replies) /\ Len(replies') = n + 1
                       /\ replies' \in Seq(FeatureReply) /\ replies'[n + 1] = r
                       /\ \A i \in 1..n : replies'[i] = replies[i]
<1>1. replies \in Seq(FeatureReply)
  BY DEF FeatureInv
<1>2. PICK n \in Nat : n = Len(replies)
  BY <1>1, LenProperties
<1>3. /\ replies' \in Seq(FeatureReply) /\ Len(replies') = n + 1
      /\ \A i \in 1..n : replies'[i] = replies[i]
      /\ replies'[n + 1] = r
  BY <1>1, <1>2, AppendProperties
<1> QED
  BY <1>2, <1>3

\* The answers a server gives are answers.
LEMMA AnswersTyped ==
  ASSUME FeatureInv, probe \in FeatureKinds, pc = "ask", ~Enough(probe, peer, replies)
  PROVE Answer(probe, peer, replies) \in FeatureReply /\ ~Failure(Answer(probe, peer, replies))
<1>1. \A s \in Signs \cup Suites : Hello(s) \in FeatureReply /\ ~Failure(Hello(s))
  BY DEF Hello, FeatureReply, Failure
<1>2. AlertReply \in FeatureReply /\ ~Failure(AlertReply)
  BY DEF AlertReply, FeatureReply, Failure, Signs
<1>3. peer \in FeatureServers(probe)
  BY DEF FeatureInv
<1>4. CASE probe \in EchoProbes
  <2>1. Answer(probe, peer, replies) = EchoAnswer(peer)
    BY <1>4 DEF Answer, EchoProbes
  <2> QED BY <1>1, <2>1 DEF EchoAnswer, Signs
<1>5. CASE probe = "compression"
  <2>1. Answer(probe, peer, replies) = CompressionAnswer(peer)
    BY <1>5 DEF Answer, EchoProbes
  <2> QED BY <1>1, <1>2, <2>1 DEF CompressionAnswer, Signs
<1>6. CASE probe = "fallback"
  <2>1. Answer(probe, peer, replies) = FallbackAnswer(peer)
    BY <1>6 DEF Answer, EchoProbes
  <2> QED BY <1>1, <1>2, <2>1 DEF FallbackAnswer, Signs
<1>7. CASE probe = "grease"
  <2>1. Answer(probe, peer, replies) = GreaseAnswer(peer, replies)
    BY <1>7 DEF Answer, EchoProbes
  <2> QED BY <1>1, <1>2, <2>1 DEF GreaseAnswer, Signs
<1>8. CASE probe = "robot"
  <2>1. Answer(probe, peer, replies) = RobotAnswer(peer, replies)
    BY <1>8 DEF Answer, EchoProbes
  <2> QED BY <1>1, <2>1 DEF RobotAnswer, Signs
<1>9. CASE probe \in {"heartbleed", "ccs", "sslv2"}
  <2>1. Answer(probe, peer, replies) = Hello("answer")
    BY <1>9 DEF Answer, EchoProbes
  <2> QED BY <1>1, <2>1 DEF Signs
<1>10. CASE probe = "preference"
  <2>1. Answer(probe, peer, replies) = First(peer, PreferenceOffer(replies))
    BY <1>10 DEF Answer, EchoProbes
  <2>2. PreferenceOffer(replies) \in Seq(Suites)
    <3>1. PICK n \in Nat : n = Len(replies)
      BY <1>10, LenProperties DEF FeatureInv
    <3>2. HeardPreference /\ n \in {0, 1, 2} /\ (n > 0 => replies[n].is = "hello")
      BY <1>10, <3>1 DEF FeatureInv, HeardPreference, Enough, EchoProbes
    <3>3. CASE n = 0
      BY <3>1, <3>3, Listed DEF PreferenceOffer
    <3>4. ASSUME n # 0 PROVE replies[1].says \in Suites
      <4>1. replies[1] = First(peer, Legacy) /\ replies[1] # AlertReply
        BY <3>1, <3>2, <3>4, HelloIsDrawn DEF HeardPreference, AlertReply
      <4>2. PICK c \in Suites : replies[1] = Hello(c)
        BY <1>3, <1>10, <4>1, FirstProperties, Listed
      <4> QED BY <4>2 DEF Hello
    <3>5. CASE n = 1
      <4>1. PreferenceOffer(replies) = Without(replies[1].says)
        BY <3>1, <3>5 DEF PreferenceOffer, Without
      <4> QED BY <3>4, <3>5, <4>1, WithoutProperties
    <3>6. CASE n = 2
      <4>1. replies[2] = First(peer, Without(replies[1].says)) /\ replies[2] # AlertReply
        BY <3>1, <3>2, <3>6, HelloIsDrawn DEF HeardPreference, AlertReply
      <4>2. Without(replies[1].says) \in Seq(Suites)
        BY <3>4, <3>6, WithoutProperties
      <4>3. PICK c \in Suites : replies[2] = Hello(c)
        BY <1>3, <1>10, <4>1, <4>2, FirstProperties
      <4>4. PreferenceOffer(replies) = <<replies[2].says, replies[1].says>>
        BY <3>1, <3>6 DEF PreferenceOffer
      <4>5. replies[2].says \in Suites
        BY <4>3 DEF Hello
      <4> QED BY <3>4, <3>6, <4>4, <4>5
    <3> QED BY <3>2, <3>3, <3>5, <3>6
  <2>3. First(peer, PreferenceOffer(replies)) = AlertReply
          \/ \E c \in Suites : First(peer, PreferenceOffer(replies)) = Hello(c)
    BY <1>3, <1>10, <2>2, FirstProperties
  <2> QED BY <1>1, <1>2, <2>1, <2>3
<1> QED
  BY <1>4, <1>5, <1>6, <1>7, <1>8, <1>9, <1>10 DEF FeatureKinds

\* One more answer is heard, or lost.
LEMMA AskKeeps ==
  ASSUME FeatureInv, probe \in FeatureKinds, Ask, probe' = probe
  PROVE FeatureInv'
<1>1. /\ peer \in FeatureServers(probe) /\ faults \in Nat /\ pc = "ask"
      /\ ~Enough(probe, peer, replies)
      /\ peer' = peer /\ pc' = pc /\ verdict' = verdict
  BY DEF Ask, FeatureInv
<1>2. PICK r \in FeatureReply :
        /\ replies' = Append(replies, r)
        /\ r = Answer(probe, peer, replies) \/ Failure(r)
        /\ r.is = "late" => probe = "ccs"
        /\ faults' \in Nat /\ faults' >= faults
        /\ Failure(r) => faults' = faults + 1
  <2>1. NoReply \in FeatureReply /\ Failure(NoReply) /\ NoReply.is # "late"
    BY DEF NoReply, FeatureReply, Failure, Signs
  <2>2. [NoReply EXCEPT !.is = "late"] \in FeatureReply /\ Failure([NoReply EXCEPT !.is = "late"])
    BY DEF NoReply, FeatureReply, Failure, Signs
  <2>3. CASE replies' = Append(replies, Answer(probe, peer, replies)) /\ NoFault
    <3>1. Answer(probe, peer, replies) \in FeatureReply /\ ~Failure(Answer(probe, peer, replies))
      BY <1>1, AnswersTyped
    <3>2. Answer(probe, peer, replies).is # "late"
      BY <3>1 DEF Failure
    <3> QED BY <1>1, <2>3, <3>1, <3>2 DEF NoFault
  <2>4. CASE replies' = Append(replies, NoReply) /\ Fault
    BY <1>1, <2>1, <2>4 DEF Fault
  <2>5. CASE probe = "ccs" /\ replies' = Append(replies, [NoReply EXCEPT !.is = "late"]) /\ Fault
    BY <1>1, <2>2, <2>5 DEF Fault
  <2> QED BY <2>3, <2>4, <2>5 DEF Ask
<1>3. PICK n \in Nat : /\ n = Len(replies) /\ Len(replies') = n + 1
                       /\ replies' \in Seq(FeatureReply) /\ replies'[n + 1] = r
                       /\ \A i \in 1..n : replies'[i] = replies[i]
  BY <1>2, OneMore
<1>5. /\ \A i \in 1..n : Failure(replies[i]) => faults >= 1
      /\ \A i, k \in 1..n : Failure(replies[i]) /\ Failure(replies[k]) /\ i # k => faults >= 2
  BY <1>3 DEF FeatureInv
<1>6. \A i \in 1..(n + 1) : Failure(replies'[i]) => faults' >= 1
  BY <1>1, <1>2, <1>3, <1>5
<1>7. ASSUME NEW i \in 1..(n + 1), NEW k \in 1..(n + 1), i # k,
             Failure(replies'[i]), Failure(replies'[k])
      PROVE faults' >= 2
  BY <1>1, <1>2, <1>3, <1>5, <1>7
<1>8. probe \notin {"preference", "grease", "robot"} => HeardOne'
  <2> SUFFICES ASSUME probe \notin {"preference", "grease", "robot"} PROVE HeardOne'
    OBVIOUS
  <2>1. n = 0
    BY <1>1, <1>3 DEF FeatureInv, HeardOne, Enough, FeatureKinds, EchoProbes
  <2>2. Answer(probe, peer, replies) = Answer(probe, peer, <<>>)
    BY DEF Answer, FeatureKinds, EchoProbes
  <2>3. replies'[1] = r /\ (r = Answer(probe, peer, <<>>) \/ Failure(r))
    BY <1>2, <1>3, <2>1, <2>2
  <2>4. Answer(probe, peer, <<>>)' = Answer(probe, peer, <<>>)
    BY <1>1 DEF Answer, EchoAnswer, CompressionAnswer, FallbackAnswer, First, GreaseAnswer, RobotAnswer
  <2> QED BY <1>2, <1>3, <2>1, <2>3, <2>4 DEF HeardOne, Drawn
<1>9. probe = "preference" => HeardPreference'
  <2> SUFFICES ASSUME probe = "preference" PROVE HeardPreference'
    OBVIOUS
  <2>1. HeardPreference /\ (n > 0 => n # 3 /\ replies[n].is = "hello")
    BY <1>1, <1>3 DEF FeatureInv, Enough, EchoProbes
  <2>2. n \in {0, 1, 2}
    BY <1>3, <2>1 DEF HeardPreference
  <2>3. r = First(peer, PreferenceOffer(replies)) \/ Failure(r)
    BY <1>2 DEF Answer, EchoProbes
  <2>4. CASE n = 0
    <3>1. PreferenceOffer(replies) = Legacy
      BY <1>3, <2>4 DEF PreferenceOffer
    <3> QED BY <1>1, <1>3, <2>3, <2>4, <3>1 DEF HeardPreference, Drawn
  <2>5. CASE n = 1
    <3>1. PreferenceOffer(replies) = Without(replies[1].says)
      BY <1>3, <2>5 DEF PreferenceOffer, Without
    <3>2. replies'[1] = replies[1] /\ replies'[2] = r
      BY <1>3, <2>5
    <3>3. Drawn(1, First(peer, Legacy)) /\ replies[1].is = "hello"
      BY <1>3, <2>1, <2>5 DEF HeardPreference
    <3> QED BY <1>1, <1>3, <2>3, <2>5, <3>1, <3>2, <3>3 DEF HeardPreference, Drawn
  <2>6. CASE n = 2
    <3>1. PreferenceOffer(replies) = <<replies[2].says, replies[1].says>>
      BY <1>3, <2>6 DEF PreferenceOffer
    <3>2. replies'[1] = replies[1] /\ replies'[2] = replies[2] /\ replies'[3] = r
      BY <1>3, <2>6
    <3>3. /\ Drawn(1, First(peer, Legacy)) /\ replies[1].is = "hello" /\ replies[2].is = "hello"
          /\ Drawn(2, First(peer, Without(replies[1].says)))
      BY <1>3, <2>1, <2>6 DEF HeardPreference
    <3> QED BY <1>1, <1>3, <2>3, <2>6, <3>1, <3>2, <3>3 DEF HeardPreference, Drawn
  <2> QED BY <2>2, <2>4, <2>5, <2>6
<1>10. probe = "grease" => HeardGrease'
  <2> SUFFICES ASSUME probe = "grease" PROVE HeardGrease'
    OBVIOUS
  <2>1. HeardGrease /\ (n > 0 => n # 2 /\ replies[n].is # "hello")
    BY <1>1, <1>3 DEF FeatureInv, Enough, EchoProbes
  <2>2. n = 0 \/ n = 1
    BY <1>3, <2>1 DEF HeardGrease
  <2>3. r = GreaseAnswer(peer, replies) \/ Failure(r)
    BY <1>2 DEF Answer, EchoProbes
  <2>4. CASE n = 0
    <3>1. GreaseAnswer(peer, replies) = GreaseAnswer(peer, <<>>)
      BY <1>3, <2>4 DEF GreaseAnswer
    <3> QED BY <1>1, <1>3, <2>3, <2>4, <3>1 DEF HeardGrease, Drawn
  <2>5. CASE n = 1
    <3>1. r.is = "hello" => peer.tls12
      BY <2>3 DEF GreaseAnswer, AlertReply, Failure
    <3>2. replies'[1] = replies[1] /\ replies'[2] = r
      BY <1>3, <2>5
    <3>3. Drawn(1, GreaseAnswer(peer, <<>>)) /\ replies[1].is # "hello"
      BY <1>3, <2>1, <2>5 DEF HeardGrease
    <3> QED BY <1>1, <1>3, <2>5, <3>1, <3>2, <3>3 DEF HeardGrease, Drawn
  <2> QED BY <2>2, <2>4, <2>5
<1>11. probe = "robot" => HeardRobot'
  <2> SUFFICES ASSUME probe = "robot" PROVE HeardRobot'
    OBVIOUS
  <2>1. /\ HeardRobot /\ n # 11
        /\ n = 1 => Negotiated(peer, replies)
        /\ n = 6 => ~Alike(Round(replies, 1))
    BY <1>1, <1>3 DEF FeatureInv, Enough, EchoProbes
  <2>2. n <= 10
    BY <1>3, <2>1 DEF HeardRobot
  <2>3. r = RobotAnswer(peer, replies) \/ Failure(r)
    BY <1>2 DEF Answer, EchoProbes
  <2>4. /\ n = 0 => r = Hello("negotiated") \/ Failure(r)
        /\ n >= 1 => r = Padding(n + 1)' \/ Failure(r)
    <3>1. n = 0 => RobotAnswer(peer, replies) = Hello("negotiated")
      BY <1>3 DEF RobotAnswer
    <3>2. ASSUME n >= 1 PROVE RobotAnswer(peer, replies) = Padding(n + 1)'
      <4>1. (n + 1) - 2 = n - 1
        OBVIOUS
      <4> QED BY <1>1, <1>3, <3>2, <4>1 DEF RobotAnswer, Padding
    <3> QED BY <2>3, <3>1, <3>2
  <2>5. Len(replies)' <= 11
    BY <1>3, <2>2
  <2>6. Drawn(1, Hello("negotiated"))'
    <3>1. CASE n = 0
      BY <1>3, <2>4, <3>1 DEF Drawn
    <3>2. CASE n >= 1
      BY <1>3, <2>1, <3>2 DEF HeardRobot, Drawn
    <3> QED BY <3>1, <3>2
  <2>7. ASSUME NEW i \in 2..11, i <= n + 1 PROVE Drawn(i, Padding(i))'
    <3>1. CASE i = n + 1
      BY <1>3, <2>4, <3>1 DEF Drawn
    <3>2. CASE i <= n
      <4>1. Drawn(i, Padding(i)) /\ replies'[i] = replies[i]
        BY <1>3, <2>1, <3>2 DEF HeardRobot
      <4> QED BY <1>1, <4>1 DEF Drawn, Padding
    <3> QED BY <2>7, <3>1, <3>2
  <2>8. n >= 1 => Negotiated(peer, replies)'
    <3> SUFFICES ASSUME n >= 1 PROVE Negotiated(peer, replies)'
      OBVIOUS
    <3>1. Negotiated(peer, replies)
      BY <1>3, <2>1 DEF HeardRobot
    <3> QED BY <1>1, <1>3, <3>1 DEF Negotiated
  <2>9. n >= 6 => ~Alike(Round(replies, 1))'
    <3> SUFFICES ASSUME n >= 6 PROVE ~Alike(Round(replies, 1))'
      OBVIOUS
    <3>1. ~Alike(Round(replies, 1))
      BY <1>3, <2>1 DEF HeardRobot
    <3>2. \A v \in Vectors : replies'[1 + 5 * (1 - 1) + v] = replies[1 + 5 * (1 - 1) + v]
      BY <1>3 DEF Vectors
    <3>3. Round(replies, 1)' = Round(replies, 1)
      BY <3>2 DEF Round
    <3> QED BY <3>1, <3>3 DEF Alike
  <2> QED BY <1>3, <2>5, <2>6, <2>7, <2>8, <2>9 DEF HeardRobot
<1> QED
  BY <1>1, <1>2, <1>3, <1>6, <1>7, <1>8, <1>9, <1>10, <1>11 DEF FeatureInv

\* What is heard is about the probe, its peer and the answers.
LEMMA HeardSame ==
  ASSUME FeatureInv, probe \in FeatureKinds, UNCHANGED <<probe, peer, replies, faults>>, pc' \in {"ask", "done"},
         pc' = "done" => /\ Enough(probe, peer, replies)
                         /\ verdict' = FeatureVerdict(probe, peer, replies)
  PROVE FeatureInv'
<1>1. HeardOne => HeardOne'
  BY DEF HeardOne, Drawn
<1>2. HeardPreference => HeardPreference'
  BY DEF HeardPreference, Drawn
<1>3. HeardGrease => HeardGrease'
  BY DEF HeardGrease, Drawn
<1>4. HeardRobot => HeardRobot'
  BY DEF HeardRobot, Drawn, Padding
<1> QED
  BY <1>1, <1>2, <1>3, <1>4 DEF FeatureInv

\* Every step keeps it: a question adds one answer, the end concludes from what was heard.
LEMMA FeatureGoesOn == FeatureInv /\ [Next]_vars => FeatureInv'
<1> SUFFICES ASSUME FeatureInv, [Next]_vars, probe \in FeatureKinds PROVE FeatureInv'
  BY HandshakeFamily DEF FeatureInv
<1>1. probe' = probe /\ peer' = peer
  BY HandshakeFamily
<1>2. CASE Ask
  BY <1>1, <1>2, AskKeeps
<1>3. CASE Tell
  <2>1. /\ replies' = replies /\ faults' = faults /\ peer' = peer /\ pc' = "done"
        /\ verdict' = FeatureVerdict(probe, peer, replies)
        /\ Enough(probe, peer, replies)
    BY <1>3 DEF Tell, Conclude, NoFault
  <2> QED
    BY <1>1, <2>1, HeardSame
<1>4. CASE UNCHANGED <<run, replies>>
  BY <1>4, HeardSame DEF run, FeatureInv
<1> QED
  BY <1>2, <1>3, <1>4, FeatureFamily DEF FeatureStep

\* What a probe of a trait says of the server is true of it after any failure (features.py,
\* active.py, sslv2.py), but that a failed greased hello may read as intolerance and silence
\* after an early ChangeCipherSpec as acceptance.
THEOREM FeaturesTellTheTruth == Spec => []FeatureVerdictsTrue
<1>1. FeatureInv => FeatureVerdictsTrue
  <2>1. ASSUME ~(pc = "done" /\ probe \in FeatureKinds \ {"robot"}) PROVE FeatureVerdictsTrue
    BY <2>1 DEF FeatureVerdictsTrue
  <2> QED BY <2>1, OneAnswerTells, PreferenceTells, GreaseTells
<1> QED
  BY <1>1, FeatureBegins, FeatureGoesOn, PTL DEF Spec

\* check_robot accuses no server without an oracle unless the network failed twice, and
\* clears none that has one unless it failed.
THEOREM RobotIsFair == Spec => []OneFailureAccusesNobody
<1>1. FeatureInv => OneFailureAccusesNobody
  BY RobotTells DEF OneFailureAccusesNobody
<1> QED
  BY <1>1, FeatureBegins, FeatureGoesOn, PTL DEF Spec


-----------------------------------------------------------------------------
(* Recursion over the places of a sequence.                                 *)

\* Induction up to n, with a set for the property.
LEMMA UpTo ==
  ASSUME NEW n \in Nat, NEW T, 0 \in T, \A i \in 1..n : i - 1 \in T => i \in T
  PROVE 0..n \subseteq T
<1> DEFINE Out == {i \in 0..n : i \notin T}
<1>1. ASSUME Out # {} PROVE FALSE
  <2>1. Out \in SUBSET Nat
    OBVIOUS
  <2>2. PICK k \in Out : \A j \in Out : k <= j
    <3> HIDE DEF Out
    <3> QED BY <1>1, <2>1, NatMin
  <2>3. k \in 1..n /\ k - 1 \in 0..n /\ k - 1 \notin Out
    BY <2>2
  <2> QED BY <2>2, <2>3
<1> QED
  BY <1>1

\* What k steps make of the first one.
Repeats(f, k, S, first, step) ==
    /\ f \in [0..k -> S]
    /\ f[0] = first
    /\ \A i \in 1..k : f[i] = step[<<i, f[i - 1]>>]

\* A step that stays within S can be repeated.
LEMMA Repeated ==
  ASSUME NEW n \in Nat, NEW S, NEW first \in S, NEW step \in [(1..n) \X S -> S]
  PROVE \E f : Repeats(f, n, S, first, step)
<1> DEFINE T == {k \in 0..n : \E f : Repeats(f, k, S, first, step)}
<1>1. 0 \in T
  <2> DEFINE g == [i \in 0..0 |-> first]
  <2>1. g \in [0..0 -> S] /\ g[0] = first /\ \A i \in 1..0 : FALSE
    OBVIOUS
  <2> HIDE DEF g
  <2>2. Repeats(g, 0, S, first, step)
    BY <2>1 DEF Repeats
  <2>3. 0 \in 0..n
    OBVIOUS
  <2> QED BY <2>2, <2>3
<1>2. ASSUME NEW k \in 1..n, k - 1 \in T PROVE k \in T
  <2>1. PICK f : Repeats(f, k - 1, S, first, step)
    BY <1>2
  <2>2. /\ k \in Nat /\ k - 1 \in Nat /\ f \in [0..(k - 1) -> S] /\ f[0] = first
        /\ \A i \in 1..(k - 1) : f[i] = step[<<i, f[i - 1]>>]
    BY <2>1 DEF Repeats
  <2> DEFINE x == step[<<k, f[k - 1]>>]
             g == [i \in 0..k |-> IF i = k THEN x ELSE f[i]]
  <2>3. x \in S
    <3>1. f[k - 1] \in S
      BY <2>2
    <3>2. <<k, f[k - 1]>> \in (1..n) \X S
      BY <3>1
    <3> HIDE DEF x
    <3> QED BY <3>2 DEF x
  <2> HIDE DEF x
  <2>4. g \in [0..k -> S]
    <3>1. \A i \in 0..k : i = k \/ i \in 0..(k - 1)
      BY <2>2
    <3> QED BY <2>2, <2>3, <3>1
  <2>5. g[k] = x /\ \A i \in 0..(k - 1) : g[i] = f[i]
    BY <2>2
  <2> HIDE DEF g
  <2>6. g[0] = first
    BY <2>2, <2>5
  <2>7. ASSUME NEW i \in 1..k PROVE g[i] = step[<<i, g[i - 1]>>]
    <3>1. i - 1 \in 0..(k - 1) /\ g[i - 1] = f[i - 1]
      BY <2>2, <2>5
    <3>2. CASE i = k
      BY <2>5, <3>1, <3>2 DEF x
    <3>3. CASE i # k
      <4>1. i \in 1..(k - 1) /\ i \in 0..(k - 1)
        BY <2>2, <3>3
      <4> QED BY <2>2, <2>5, <3>1, <4>1
    <3> QED BY <3>2, <3>3
  <2>8. Repeats(g, k, S, first, step)
    BY <2>4, <2>6, <2>7 DEF Repeats
  <2>9. k \in 0..n
    OBVIOUS
  <2> QED BY <2>8, <2>9
<1> HIDE DEF T
<1>3. n \in T
  <2>1. 0..n \subseteq T
    BY <1>1, <1>2, UpTo
  <2> QED BY <2>1
<1> QED
  BY <1>3 DEF T

\* Two that start alike and go on alike are alike.
GoAlike(f, g, n) == f[0] = g[0] /\ \A i \in 1..n : f[i - 1] = g[i - 1] => f[i] = g[i]

\* Two functions that start alike and go on alike are the same.
LEMMA SameSteps ==
  ASSUME NEW n \in Nat, NEW f, NEW g, GoAlike(f, g, n)
  PROVE \A i \in 0..n : f[i] = g[i]
<1> DEFINE T == {i \in 0..n : f[i] = g[i]}
<1>1. 0 \in T /\ \A i \in 1..n : i - 1 \in T => i \in T
  BY DEF GoAlike
<1> HIDE DEF T
<1>2. 0..n \subseteq T
  BY <1>1, UpTo
<1> QED
  BY <1>2 DEF T

\* The last number of a property that 0 has.
LEMMA LastOne ==
  ASSUME NEW n \in Nat, NEW T, 0 \in T
  PROVE \E k \in 0..n : k \in T /\ \A j \in (k + 1)..n : j \notin T
<1> DEFINE U == {i \in 0..n : \E k \in 0..i : k \in T /\ \A j \in (k + 1)..i : j \notin T}
<1>1. 0 \in U
  OBVIOUS
<1>2. ASSUME NEW i \in 1..n, i - 1 \in U PROVE i \in U
  <2>1. PICK k \in 0..(i - 1) : k \in T /\ \A j \in (k + 1)..(i - 1) : j \notin T
    BY <1>2
  <2>2. CASE i \in T
    <3>1. \A j \in (i + 1)..i : j \notin T
      OBVIOUS
    <3> QED BY <2>2, <3>1
  <2>3. CASE i \notin T
    <3>1. \A j \in (k + 1)..i : j = i \/ j \in (k + 1)..(i - 1)
      OBVIOUS
    <3>2. k \in 0..i /\ \A j \in (k + 1)..i : j \notin T
      BY <2>1, <2>3, <3>1
    <3> QED BY <2>1, <3>2
  <2> QED BY <2>2, <2>3
<1> HIDE DEF U
<1>3. n \in U
  <2>1. 0..n \subseteq U
    BY <1>1, <1>2, UpTo
  <2> QED BY <2>1
<1> QED
  BY <1>3 DEF U

-----------------------------------------------------------------------------
(* Header tables: hpack.py.                                                 *)

\* The sizes of the first headers of a table, added up.
SizeSums(t, s) ==
    /\ s \in [0..Len(t) -> Nat]
    /\ s[0] = 0
    /\ \A n \in 1..Len(t) : s[n] = s[n - 1] + Size(t[n])

\* The table keeps its first n headers under a limit.
FitsIn(t, s, limit, n) ==
    /\ n \in 0..Len(t)
    /\ s[n] <= limit
    /\ \A k \in (n + 1)..Len(t) : s[k] > limit

\* A header takes room.
LEMMA SizeTyped == \A h : Size(h) \in Nat
BY DEF Size

\* There is one way to add up the sizes of a table, and Total ends it.
LEMMA SumsExist ==
  ASSUME NEW t \in Seq(Headers)
  PROVE \E s : SizeSums(t, s) /\ Total(t) = s[Len(t)]
<1>1. PICK n \in Nat : n = Len(t)
  BY LenProperties
<1> DEFINE step == [x \in (1..n) \X Nat |-> x[2] + Size(t[x[1]])]
<1>2. step \in [(1..n) \X Nat -> Nat]
  BY SizeTyped
<1>3. \A i \in 1..n, y \in Nat : step[<<i, y>>] = y + Size(t[i])
  OBVIOUS
<1> HIDE DEF step
<1>4. PICK s : Repeats(s, n, Nat, 0, step)
  BY <1>2, Repeated
<1>5. /\ s \in [0..n -> Nat] /\ s[0] = 0
      /\ \A i \in 1..n : s[i] = step[<<i, s[i - 1]>>]
  BY <1>4 DEF Repeats
<1>6. \A i \in 1..n : i - 1 \in 0..n /\ s[i - 1] \in Nat
  BY <1>5
<1>7. \A i \in 1..n : s[i] = s[i - 1] + Size(t[i])
  BY <1>3, <1>5, <1>6
<1> DEFINE Rule(f) == [k \in 0..n |-> IF k = 0 THEN 0 ELSE f[k - 1] + Size(t[k])]
           sum == CHOOSE f : f = Rule(f)
<1>8. s = Rule(s)
  BY <1>5, <1>7
<1>9. sum = Rule(sum)
  BY <1>8
<1>10. Total(t) = sum[n]
  BY <1>1 DEF Total
<1> HIDE DEF sum
<1>11. sum[0] = 0 /\ \A i \in 1..n : sum[i] = sum[i - 1] + Size(t[i])
  <2>1. \A k \in 0..n : sum[k] = IF k = 0 THEN 0 ELSE sum[k - 1] + Size(t[k])
    BY <1>9
  <2> HIDE <1>9
  <2>2. \A i \in 1..n : i \in 0..n /\ i # 0
    OBVIOUS
  <2> QED BY <2>1, <2>2
<1> HIDE DEF Rule
<1>12. \A i \in 0..n : sum[i] = s[i]
  <2>1. sum[0] = s[0]
    BY <1>5, <1>11
  <2>2. \A i \in 1..n : sum[i - 1] = s[i - 1] => sum[i] = s[i]
    BY <1>7, <1>11
  <2>3. GoAlike(sum, s, n)
    BY <2>1, <2>2 DEF GoAlike
  <2> QED BY <2>3, SameSteps
<1>13. Total(t) = s[n]
  BY <1>10, <1>12
<1>14. SizeSums(t, s)
  BY <1>1, <1>5, <1>7 DEF SizeSums
<1> QED
  BY <1>1, <1>13, <1>14

\* The total of a table is the last of its partial sums, by whatever function they are given.
LEMMA SumsUnique ==
  ASSUME NEW t \in Seq(Headers), NEW s, SizeSums(t, s)
  PROVE Total(t) = s[Len(t)]
<1>1. PICK n \in Nat : n = Len(t)
  BY LenProperties
<1>2. PICK r : SizeSums(t, r) /\ Total(t) = r[Len(t)]
  BY SumsExist
<1>3. s[0] = r[0]
  BY <1>2 DEF SizeSums
<1>4. ASSUME NEW i \in 1..n, s[i - 1] = r[i - 1] PROVE s[i] = r[i]
  BY <1>1, <1>2, <1>4 DEF SizeSums
<1>5. \A i \in 0..n : s[i] = r[i]
  <2>1. GoAlike(s, r, n)
    BY <1>3, <1>4 DEF GoAlike
  <2> QED BY <2>1, SameSteps
<1> QED
  BY <1>1, <1>2, <1>5

\* The first k headers weigh the k-th sum.
LEMMA SumsOfFront ==
  ASSUME NEW t \in Seq(Headers), NEW s, SizeSums(t, s), NEW k \in 0..Len(t)
  PROVE /\ SubSeq(t, 1, k) \in Seq(Headers) /\ Len(SubSeq(t, 1, k)) = k
        /\ \A i \in 1..k : SubSeq(t, 1, k)[i] = t[i]
        /\ Total(SubSeq(t, 1, k)) = s[k]
<1>1. PICK n \in Nat : n = Len(t)
  BY LenProperties
<1>2. k \in Nat /\ k <= n
  BY <1>1
<1>3. \A i \in 1..k : t[i] \in Headers
  <2>1. \A i \in 1..k : i \in 1..Len(t)
    BY <1>1, <1>2
  <2> QED BY <2>1, ElementOfSeq
<1> DEFINE u == SubSeq(t, 1, k)
<1>4. u \in Seq(Headers) /\ Len(u) = k /\ \A i \in 1..k : u[i] = t[i]
  <2>1. /\ u \in Seq(Headers)
        /\ Len(u) = IF 1 <= k THEN k - 1 + 1 ELSE 0
        /\ \A i \in 1..(k - 1 + 1) : u[i] = t[1 + i - 1]
    BY <1>2, <1>3, SubSeqProperties
  <2> HIDE DEF u
  <2>2. Len(u) = k
    BY <1>2, <2>1
  <2>3. \A i \in 1..k : i \in 1..(k - 1 + 1) /\ 1 + i - 1 = i
    BY <1>2
  <2> QED BY <2>1, <2>2, <2>3
<1> HIDE DEF u
<1> DEFINE r == [i \in 0..k |-> s[i]]
<1>5. SizeSums(u, r)
  <2>1. \A i \in 0..k : i \in 0..n /\ s[i] \in Nat
    BY <1>1, <1>2 DEF SizeSums
  <2>2. r \in [0..k -> Nat] /\ r[0] = 0
    BY <1>2, <2>1 DEF SizeSums
  <2>3. ASSUME NEW i \in 1..k PROVE r[i] = r[i - 1] + Size(u[i])
    <3>1. i \in 1..n /\ i \in 0..k /\ i - 1 \in 0..k
      BY <1>2
    <3>2. s[i] = s[i - 1] + Size(t[i])
      BY <1>1, <3>1 DEF SizeSums
    <3> QED BY <1>4, <3>1, <3>2
  <2> HIDE DEF r
  <2> QED BY <1>4, <2>2, <2>3 DEF SizeSums
<1>6. Total(u) = s[k]
  <2>1. Total(u) = r[k]
    BY <1>4, <1>5, SumsUnique
  <2> QED BY <1>2, <2>1
<1> QED
  BY <1>4, <1>6 DEF u

\* A header put before the others adds its size.
LEMMA SumsOfPushed ==
  ASSUME NEW t \in Seq(Headers), NEW h \in Headers
  PROVE <<h>> \o t \in Seq(Headers) /\ Total(<<h>> \o t) = Total(t) + Size(h)
<1>1. PICK n \in Nat : n = Len(t)
  BY LenProperties
<1>2. PICK s : SizeSums(t, s) /\ Total(t) = s[Len(t)]
  BY SumsExist
<1>3. s \in [0..n -> Nat] /\ s[0] = 0 /\ \A i \in 1..n : s[i] = s[i - 1] + Size(t[i])
  BY <1>1, <1>2 DEF SizeSums
<1> DEFINE u == <<h>> \o t
<1>4. /\ u \in Seq(Headers) /\ Len(u) = n + 1 /\ u[1] = h
      /\ \A i \in 1..n : u[i + 1] = t[i]
  <2> DEFINE one == <<h>>
  <2>1. one \in Seq(Headers) /\ Len(one) = 1 /\ one[1] = h
    OBVIOUS
  <2> HIDE DEF one
  <2>2. /\ one \o t \in Seq(Headers) /\ Len(one \o t) = 1 + n
        /\ \A i \in 1..(1 + n) : (one \o t)[i] = IF i <= 1 THEN one[i] ELSE t[i - 1]
    <3>1. /\ one \o t \in Seq(Headers) /\ Len(one \o t) = Len(one) + Len(t)
          /\ \A i \in 1..(Len(one) + Len(t)) :
                (one \o t)[i] = IF i <= Len(one) THEN one[i] ELSE t[i - Len(one)]
      BY <2>1, ConcatProperties
    <3> QED BY <1>1, <2>1, <3>1
  <2>3. u = one \o t
    BY DEF one
  <2> HIDE DEF u
  <2>4. u[1] = h
    BY <2>1, <2>2, <2>3
  <2>5. ASSUME NEW i \in 1..n PROVE u[i + 1] = t[i]
    <3>1. i + 1 \in 1..(1 + n) /\ ~(i + 1 <= 1) /\ i + 1 - 1 = i
      BY <1>1
    <3> QED BY <2>2, <2>3, <3>1
  <2> QED BY <2>2, <2>3, <2>4, <2>5
<1> HIDE DEF u
<1> DEFINE r == [i \in 0..(n + 1) |-> IF i = 0 THEN 0 ELSE s[i - 1] + Size(h)]
<1>5. r \in [0..(n + 1) -> Nat]
  <2>1. \A i \in 1..(n + 1) : i - 1 \in 0..n
    BY <1>1
  <2>2. \A i \in 0..(n + 1) : i = 0 \/ i \in 1..(n + 1)
    OBVIOUS
  <2>3. \A i \in 1..(n + 1) : s[i - 1] + Size(h) \in Nat
    BY <1>3, <2>1, SizeTyped
  <2> QED BY <2>2, <2>3
<1>6. r[0] = 0 /\ \A i \in 1..(n + 1) : r[i] = s[i - 1] + Size(h)
  BY <1>1
<1> HIDE DEF r
<1>7. ASSUME NEW i \in 1..(n + 1) PROVE r[i] = r[i - 1] + Size(u[i])
  <2>1. CASE i = 1
    BY <1>1, <1>3, <1>4, <1>6, <2>1, SizeTyped
  <2>2. CASE i # 1
    <3>1. PICK j \in 1..n : i = j + 1
      <4>1. i - 1 \in 1..n /\ i = (i - 1) + 1
        BY <1>1, <2>2
      <4> QED BY <4>1
    <3>2. i - 1 = j /\ j \in 1..(n + 1) /\ j - 1 \in 0..n /\ j \in 0..n
      BY <3>1
    <3>3. r[i] = s[j] + Size(h) /\ r[j] = s[j - 1] + Size(h)
      BY <1>6, <3>1, <3>2
    <3>4. u[i] = t[j] /\ s[j] = s[j - 1] + Size(t[j])
      BY <1>3, <1>4, <3>1
    <3>5. s[j] \in Nat /\ s[j - 1] \in Nat /\ Size(h) \in Nat /\ Size(t[j]) \in Nat
      BY <1>3, <3>2, SizeTyped
    <3> QED BY <3>2, <3>3, <3>4, <3>5
  <2> QED BY <2>1, <2>2
<1>8. SizeSums(u, r)
  BY <1>4, <1>5, <1>6, <1>7 DEF SizeSums
<1>9. Total(u) = r[n + 1]
  BY <1>4, <1>8, SumsUnique
<1>10. n + 1 \in 1..(n + 1) /\ n + 1 - 1 = n
  BY <1>1
<1> QED
  BY <1>1, <1>2, <1>4, <1>6, <1>9, <1>10 DEF u

\* What RFC 7541 keeps fits.
LEMMA KeptFits ==
  ASSUME NEW t \in Seq(Headers), NEW s, SizeSums(t, s), NEW limit \in Nat
  PROVE \E n \in 0..Len(t) : FitsIn(t, s, limit, n) /\ Kept(t, limit) = SubSeq(t, 1, n)
<1>1. PICK m \in Nat : m = Len(t)
  BY LenProperties
<1>2. s \in [0..m -> Nat] /\ s[0] = 0
  BY <1>1 DEF SizeSums
<1>3. \A k \in 0..m : Total(SubSeq(t, 1, k)) = s[k]
  BY <1>1, SumsOfFront
<1> DEFINE Right(n) == /\ Total(SubSeq(t, 1, n)) <= limit
                       /\ \A k \in (n + 1)..m : Total(SubSeq(t, 1, k)) > limit
           T == {i \in 0..m : s[i] <= limit}
<1>4. PICK n \in 0..m : n \in T /\ \A j \in (n + 1)..m : j \notin T
  <2>1. 0 \in T
    BY <1>1, <1>2
  <2> HIDE DEF T
  <2> QED BY <1>1, <2>1, LastOne
<1>5. \A j \in (n + 1)..m : j \in 0..m /\ s[j] > limit
  <2>1. \A j \in (n + 1)..m : j \in 0..m /\ s[j] \in Nat
    BY <1>2, <1>4
  <2> QED BY <1>4, <2>1
<1>6. Right(n)
  BY <1>3, <1>4, <1>5
<1> DEFINE c == CHOOSE k \in 0..m : Right(k)
<1>7. c \in 0..m /\ Right(c)
  BY <1>6
<1>8. Kept(t, limit) = SubSeq(t, 1, c)
  BY <1>1 DEF Kept
<1> HIDE DEF c
<1>9. FitsIn(t, s, limit, c)
  <2>1. s[c] <= limit
    BY <1>3, <1>7
  <2>2. \A k \in (c + 1)..m : s[k] > limit
    <3>1. \A k \in (c + 1)..m : k \in 0..m
      BY <1>1, <1>7
    <3> QED BY <1>3, <1>7, <3>1
  <2> QED BY <1>1, <1>7, <2>1, <2>2 DEF FitsIn
<1> QED
  BY <1>1, <1>7, <1>8, <1>9

\* A decoder that has read some fields.
Decoders == [dynamic : Seq(Headers), size : Nat, limit : Nat, out : Seq(Headers \cup {"bad"}), bad : BOOLEAN]

\* A decoder whose table was cut to the first n headers.
CutTo(d, s, n) ==
    [dynamic |-> SubSeq(d.dynamic, 1, n), size |-> s[n], limit |-> d.limit, out |-> d.out, bad |-> d.bad]

\* Two decoders with the same fields are one.
LEMMA SameDecoder ==
  ASSUME NEW d \in Decoders, NEW e \in Decoders, d.dynamic = e.dynamic, d.size = e.size,
         d.limit = e.limit, d.out = e.out, d.bad = e.bad
  PROVE d = e
BY DEF Decoders

\* A decoder with a shorter table is a decoder.
LEMMA CutTyped ==
  ASSUME NEW d \in Decoders, NEW s, SizeSums(d.dynamic, s), NEW n \in 0..Len(d.dynamic)
  PROVE CutTo(d, s, n) \in Decoders
<1>1. d.dynamic \in Seq(Headers)
  BY DEF Decoders
<1>2. SubSeq(d.dynamic, 1, n) \in Seq(Headers) /\ s[n] \in Nat
  BY <1>1, SumsOfFront DEF SizeSums
<1> QED
  BY <1>2 DEF Decoders, CutTo

\* The oldest header goes.
LEMMA DropsOne ==
  ASSUME NEW d \in Decoders, NEW s, SizeSums(d.dynamic, s), NEW n \in 1..Len(d.dynamic), s[n] > d.limit
  PROVE Drop(CutTo(d, s, n)) = CutTo(d, s, n - 1)
<1> DEFINE t == d.dynamic
           u == SubSeq(t, 1, n)
           v == SubSeq(t, 1, n - 1)
<1>1. t \in Seq(Headers) /\ d.limit \in Nat
  BY DEF Decoders
<1>2. PICK m \in Nat : m = Len(t)
  BY <1>1, LenProperties
<1>3. n \in 0..m /\ n - 1 \in 0..m /\ n \in Nat /\ n >= 1
  BY <1>2
<1>4. u \in Seq(Headers) /\ Len(u) = n /\ \A i \in 1..n : u[i] = t[i]
  BY <1>1, <1>2, <1>3, SumsOfFront
<1>5. v \in Seq(Headers) /\ Len(v) = n - 1 /\ \A i \in 1..(n - 1) : v[i] = t[i]
  BY <1>1, <1>2, <1>3, SumsOfFront
<1>6. s[n - 1] \in Nat /\ s[n] = s[n - 1] + Size(t[n])
  BY <1>2, <1>3 DEF SizeSums
<1> HIDE DEF t, u, v
<1>7. u # <<>>
  BY <1>3, <1>4
<1>8. Last(u) = t[n]
  <2>1. n \in 1..n
    BY <1>3
  <2> QED BY <1>4, <1>7, <2>1, LastAndFront
<1>9. Front(u) = v
  <2>1. Front(u) \in Seq(Headers) /\ Len(Front(u)) = n - 1 /\ \A i \in 1..(n - 1) : Front(u)[i] = u[i]
    BY <1>4, <1>7, LastAndFront
  <2>2. \A i \in 1..(n - 1) : Front(u)[i] = v[i]
    <3>1. \A i \in 1..(n - 1) : i \in 1..n
      BY <1>3
    <3> QED BY <1>4, <1>5, <2>1, <3>1
  <2> QED BY <1>5, <2>1, <2>2, SeqEqual
<1> DEFINE e == CutTo(d, s, n)
<1>10. e \in Decoders /\ e.dynamic = u /\ e.size = s[n] /\ e.limit = d.limit /\ e.out = d.out /\ e.bad = d.bad
  BY <1>2, <1>3, CutTyped DEF CutTo, t, u
<1> HIDE DEF e
<1>11. Drop(e) = [e EXCEPT !.dynamic = v, !.size = s[n - 1]]
  <2>1. ~(s[n] <= d.limit) /\ s[n] - Size(t[n]) = s[n - 1]
    BY <1>1, <1>6, SizeTyped
  <2> QED BY <1>8, <1>9, <1>10, <2>1 DEF Drop
<1> DEFINE f == CutTo(d, s, n - 1)
<1>12. f \in Decoders /\ f.dynamic = v /\ f.size = s[n - 1] /\ f.limit = d.limit /\ f.out = d.out /\ f.bad = d.bad
  BY <1>2, <1>3, CutTyped DEF CutTo, t, v
<1> HIDE DEF f
<1>13. Drop(e) = f
  <2> DEFINE g == [e EXCEPT !.dynamic = v, !.size = s[n - 1]]
  <2>1. g \in Decoders
    BY <1>5, <1>6, <1>10 DEF Decoders
  <2>2. /\ g.dynamic = v /\ g.size = s[n - 1] /\ g.limit = e.limit /\ g.out = e.out /\ g.bad = e.bad
    BY <1>10 DEF Decoders
  <2> HIDE DEF g
  <2>3. g = f
    BY <1>10, <1>12, <2>1, <2>2, SameDecoder
  <2> QED BY <1>11, <2>3 DEF g
<1> QED
  BY <1>13 DEF e, f

\* Decoder._evict leaves what RFC 7541 keeps, and the size that this has.
LEMMA Evicted ==
  ASSUME NEW d \in Decoders, d.size = Total(d.dynamic)
  PROVE /\ Evict(d) \in Decoders
        /\ Evict(d).dynamic = Kept(d.dynamic, d.limit)
        /\ Evict(d).size = Total(Evict(d).dynamic)
        /\ Evict(d).limit = d.limit /\ Evict(d).out = d.out /\ Evict(d).bad = d.bad
<1> DEFINE t == d.dynamic
<1>1. t \in Seq(Headers) /\ d.limit \in Nat
  BY DEF Decoders
<1>2. PICK m \in Nat : m = Len(t)
  BY <1>1, LenProperties
<1>3. PICK s : SizeSums(t, s)
  BY <1>1, SumsExist
<1>4. PICK n \in 0..m : FitsIn(t, s, d.limit, n) /\ Kept(t, d.limit) = SubSeq(t, 1, n)
  BY <1>1, <1>2, <1>3, KeptFits
<1> DEFINE left(i) == IF m - i >= n THEN m - i ELSE n
           f == [i \in 0..m |-> CutTo(d, s, left(i))]
<1>5. n \in Nat /\ n <= m /\ s[n] <= d.limit /\ \A k \in (n + 1)..m : s[k] > d.limit
  BY <1>2, <1>4 DEF FitsIn
<1>6. \A i \in 0..m : left(i) \in 0..m
  BY <1>5
<1>7. CutTo(d, s, m) = d
  <2> DEFINE e == CutTo(d, s, m)
             u == SubSeq(t, 1, m)
  <2>1. m \in 0..m
    OBVIOUS
  <2>2. e \in Decoders
    BY <1>2, <1>3, <2>1, CutTyped
  <2>3. u \in Seq(Headers) /\ Len(u) = m /\ \A i \in 1..m : u[i] = t[i]
    BY <1>1, <1>2, <1>3, <2>1, SumsOfFront
  <2> HIDE DEF u
  <2>4. u = t
    BY <1>1, <1>2, <2>3, SeqEqual
  <2>5. s[m] = Total(t)
    BY <1>1, <1>2, <1>3, SumsUnique
  <2>6. e.dynamic = u /\ e.size = s[m] /\ e.limit = d.limit /\ e.out = d.out /\ e.bad = d.bad
    BY DEF CutTo, u
  <2> HIDE DEF e
  <2>7. e = d
    BY <2>2, <2>4, <2>5, <2>6, SameDecoder
  <2> QED BY <2>7 DEF e
<1>8. f[0] = d
  <2>1. left(0) = m
    BY <1>5
  <2> HIDE DEF left
  <2> QED BY <1>7, <2>1
<1>9. ASSUME NEW i \in 1..m PROVE f[i] = Drop(f[i - 1])
  <2> DEFINE k == left(i - 1)
  <2>1. i \in 0..m /\ i - 1 \in 0..m
    OBVIOUS
  <2>2. k \in 0..m
    BY <1>6, <2>1
  <2>3. f[i - 1] = CutTo(d, s, k) /\ f[i] = CutTo(d, s, left(i))
    BY <2>1
  <2>4. CASE s[k] <= d.limit
    <3>1. k = n
      <4>1. k \notin (n + 1)..m
        <5>1. \A j \in (n + 1)..m : s[j] \in Nat
          <6>1. \A j \in (n + 1)..m : j \in 0..m
            BY <1>5
          <6> QED BY <1>2, <1>3, <6>1 DEF SizeSums
        <5> HIDE DEF k
        <5> QED BY <1>1, <1>5, <2>4, <5>1
      <4>2. k >= n
        BY <1>5
      <4> HIDE DEF k
      <4> QED BY <1>5, <2>2, <4>1, <4>2
    <3>2. left(i) = n
      BY <1>5, <3>1
    <3>3. Drop(CutTo(d, s, k)) = CutTo(d, s, k)
      <4> HIDE DEF k
      <4> QED BY <2>4 DEF Drop, CutTo
    <3> HIDE DEF k, left, f
    <3> QED BY <2>3, <3>1, <3>2, <3>3
  <2>5. CASE ~(s[k] <= d.limit)
    <3>1. k # n
      <4> HIDE DEF k
      <4> QED BY <1>5, <2>5
    <3>2. k = m - (i - 1) /\ k > n
      BY <1>5, <3>1
    <3>3. left(i) = k - 1 /\ k \in 1..m
      BY <1>5, <3>2
    <3>4. s[k] > d.limit
      <4>1. s[k] \in Nat
        <5> HIDE DEF k
        <5> QED BY <1>2, <1>3, <2>2 DEF SizeSums
      <4> HIDE DEF k
      <4> QED BY <1>1, <2>5, <4>1
    <3> HIDE DEF k, left, f
    <3>5. Drop(CutTo(d, s, k)) = CutTo(d, s, k - 1)
      BY <1>2, <1>3, <3>3, <3>4, DropsOne
    <3> QED BY <2>3, <3>3, <3>5
  <2> QED BY <2>4, <2>5
<1> DEFINE Rule(g) == [i \in 0..m |-> IF i = 0 THEN d ELSE Drop(g[i - 1])]
           after == CHOOSE g : g = Rule(g)
<1>10. f = Rule(f)
  <2> HIDE DEF left
  <2>1. \A i \in 0..m : f[i] = IF i = 0 THEN d ELSE Drop(f[i - 1])
    <3>1. \A i \in 0..m : i = 0 \/ i \in 1..m
      OBVIOUS
    <3> HIDE DEF f
    <3> QED BY <1>8, <1>9, <3>1
  <2>2. f = [i \in 0..m |-> f[i]]
    OBVIOUS
  <2> HIDE DEF f
  <2> QED BY <2>1, <2>2
<1> HIDE DEF left, f
<1>11. after = Rule(after)
  BY <1>10
<1>12. Evict(d) = after[m]
  BY <1>2 DEF Evict
<1> HIDE DEF after
<1>13. after[0] = d /\ \A i \in 1..m : after[i] = Drop(after[i - 1])
  <2>1. \A i \in 0..m : after[i] = IF i = 0 THEN d ELSE Drop(after[i - 1])
    BY <1>11
  <2> HIDE <1>11
  <2>2. \A i \in 1..m : i \in 0..m /\ i # 0
    OBVIOUS
  <2> QED BY <2>1, <2>2
<1>14. \A i \in 0..m : after[i] = f[i]
  <2>1. after[0] = f[0]
    BY <1>8, <1>13
  <2>2. ASSUME NEW i \in 1..m, after[i - 1] = f[i - 1] PROVE after[i] = f[i]
    BY <1>9, <1>13, <2>2
  <2>3. GoAlike(after, f, m)
    BY <2>1, <2>2 DEF GoAlike
  <2> QED BY <2>3, SameSteps
<1>15. Evict(d) = CutTo(d, s, n)
  <2>1. m \in 0..m /\ left(m) = n
    BY <1>5 DEF left
  <2>2. f[m] = CutTo(d, s, left(m))
    BY <2>1 DEF f
  <2> QED BY <1>12, <1>14, <2>1, <2>2
<1>16. Total(SubSeq(t, 1, n)) = s[n]
  BY <1>1, <1>2, <1>3, SumsOfFront
<1>17. CutTo(d, s, n) \in Decoders
  BY <1>2, <1>3, CutTyped
<1> QED
  BY <1>4, <1>15, <1>16, <1>17 DEF CutTo

\* The fields a server may write.
BlockFields ==
    {f \in [kind : {"indexed", "insert", "literal", "resize"}, number : Nat, header : Headers] :
        f.kind = "indexed" => f.number >= 1}

Sound   == {d \in Decoders : d.size = Total(d.dynamic)}
Writers == [table : Seq(Headers), limit : Nat]

\* A decoder that has the table of the server.
InStep(d, w) == d.dynamic = w.table /\ d.limit = w.limit

\* One field keeps a decoder sound; what it adds to the headers read.
LEMMA DecodedSound ==
  ASSUME NEW d \in Sound, NEW f \in BlockFields
  PROVE /\ Decoded(d, f) \in Sound
        /\ f.kind = "indexed" =>
             /\ Decoded(d, f).dynamic = d.dynamic /\ Decoded(d, f).limit = d.limit
             /\ Decoded(d, f).out = Append(d.out, Entry(d, f.number))
             /\ Entry(d, f.number) # "bad" => Decoded(d, f).bad = d.bad
        /\ f.kind = "insert" =>
             /\ Decoded(d, f).dynamic = Kept(<<f.header>> \o d.dynamic, d.limit)
             /\ Decoded(d, f).limit = d.limit
             /\ Decoded(d, f).out = Append(d.out, f.header) /\ Decoded(d, f).bad = d.bad
        /\ f.kind = "literal" =>
             /\ Decoded(d, f).dynamic = d.dynamic /\ Decoded(d, f).limit = d.limit
             /\ Decoded(d, f).out = Append(d.out, f.header) /\ Decoded(d, f).bad = d.bad
        /\ f.kind = "resize" =>
             /\ Decoded(d, f).dynamic = Kept(d.dynamic, f.number)
             /\ Decoded(d, f).limit = f.number
             /\ Decoded(d, f).out = d.out /\ Decoded(d, f).bad = d.bad
<1>1. /\ d \in Decoders /\ d.size = Total(d.dynamic) /\ d.dynamic \in Seq(Headers) /\ d.size \in Nat
      /\ d.limit \in Nat /\ d.out \in Seq(Headers \cup {"bad"}) /\ d.bad \in BOOLEAN
  BY DEF Sound, Decoders
<1>2. f.kind \in {"indexed", "insert", "literal", "resize"} /\ f.number \in Nat /\ f.header \in Headers
  BY DEF BlockFields
<1>3. Append(d.out, f.header) \in Seq(Headers \cup {"bad"})
  BY <1>1, <1>2
<1>4. CASE f.kind = "indexed"
  <2> DEFINE x == Entry(d, f.number)
             e == [d EXCEPT !.out = Append(d.out, x), !.bad = d.bad \/ x = "bad"]
  <2>1. f.number \in Nat /\ f.number >= 1
    BY <1>4 DEF BlockFields
  <2>2. x \in Headers \cup {"bad"}
    <3>1. PICK m \in Nat : m = Len(d.dynamic)
      BY <1>1, LenProperties
    <3>2. Len(Static) = 1 /\ Static[1] \in Headers
      BY DEF Static, Headers
    <3>3. CASE f.number <= 1
      <4>1. f.number = 1
        BY <2>1, <3>3
      <4> QED BY <3>2, <3>3, <4>1 DEF Entry
    <3>4. CASE f.number > 1 /\ f.number - 1 <= m
      <4>1. f.number - 1 \in 1..Len(d.dynamic)
        BY <2>1, <3>1, <3>4
      <4>2. d.dynamic[f.number - 1] \in Headers
        BY <1>1, <4>1, ElementOfSeq
      <4> QED BY <2>1, <3>1, <3>2, <3>4, <4>2 DEF Entry
    <3>5. CASE f.number > 1 /\ ~(f.number - 1 <= m)
      BY <2>1, <3>1, <3>2, <3>5 DEF Entry
    <3> QED BY <2>1, <3>3, <3>4, <3>5
  <2> HIDE DEF x
  <2>3. Append(d.out, x) \in Seq(Headers \cup {"bad"})
    BY <1>1, <2>2
  <2>4. e \in Decoders
    BY <1>1, <2>3 DEF Decoders
  <2>5. /\ e.dynamic = d.dynamic /\ e.size = d.size /\ e.limit = d.limit
        /\ e.out = Append(d.out, x) /\ e.bad = (d.bad \/ x = "bad")
    BY <1>1 DEF Decoders
  <2> HIDE DEF e
  <2>6. Decoded(d, f) = e
    BY <1>4 DEF Decoded, e, x
  <2>7. x # "bad" => e.bad = d.bad
    BY <1>1, <2>5
  <2> QED BY <1>1, <1>4, <2>4, <2>5, <2>6, <2>7 DEF Sound, x
<1>5. CASE f.kind = "literal"
  <2> DEFINE e == [d EXCEPT !.out = Append(d.out, f.header)]
  <2>1. e \in Decoders
    BY <1>1, <1>3 DEF Decoders
  <2>2. /\ e.dynamic = d.dynamic /\ e.size = d.size /\ e.limit = d.limit
        /\ e.out = Append(d.out, f.header) /\ e.bad = d.bad
    BY <1>1 DEF Decoders
  <2> HIDE DEF e
  <2>3. Decoded(d, f) = e
    BY <1>5 DEF Decoded, e
  <2> QED BY <1>1, <1>5, <2>1, <2>2, <2>3 DEF Sound
<1>6. CASE f.kind = "insert"
  <2> DEFINE t == <<f.header>> \o d.dynamic
             c == [d EXCEPT !.dynamic = t, !.size = d.size + Size(f.header)]
             g == Evict(c)
             e == [g EXCEPT !.out = Append(d.out, f.header)]
  <2>1. t \in Seq(Headers) /\ Total(t) = d.size + Size(f.header)
    BY <1>1, <1>2, SumsOfPushed
  <2> HIDE DEF t
  <2>2. c \in Decoders
    <3>1. d.size + Size(f.header) \in Nat
      BY <1>1, SizeTyped
    <3> QED BY <1>1, <2>1, <3>1 DEF Decoders
  <2>3. /\ c.dynamic = t /\ c.size = Total(t) /\ c.limit = d.limit
        /\ c.out = d.out /\ c.bad = d.bad
    BY <1>1, <2>1 DEF Decoders
  <2> HIDE DEF c
  <2>4. /\ g \in Decoders /\ g.dynamic = Kept(t, d.limit) /\ g.size = Total(g.dynamic)
        /\ g.limit = d.limit /\ g.out = d.out /\ g.bad = d.bad
    BY <2>2, <2>3, Evicted
  <2> HIDE DEF g
  <2>5. e \in Decoders
    BY <1>3, <2>4 DEF Decoders
  <2>6. /\ e.dynamic = g.dynamic /\ e.size = g.size /\ e.limit = g.limit
        /\ e.out = Append(d.out, f.header) /\ e.bad = g.bad
    BY <2>4 DEF Decoders
  <2> HIDE DEF e
  <2>7. Decoded(d, f) = e
    BY <1>6 DEF Decoded, Inserted, e, g, c, t
  <2> QED BY <1>6, <2>4, <2>5, <2>6, <2>7 DEF Sound, t
<1>7. CASE f.kind = "resize"
  <2> DEFINE c == [d EXCEPT !.limit = f.number]
             e == Evict(c)
  <2>1. c \in Decoders
    BY <1>1, <1>2 DEF Decoders
  <2>2. /\ c.dynamic = d.dynamic /\ c.size = d.size /\ c.limit = f.number
        /\ c.out = d.out /\ c.bad = d.bad
    BY <1>1 DEF Decoders
  <2> HIDE DEF c
  <2>3. /\ e \in Decoders /\ e.dynamic = Kept(d.dynamic, f.number) /\ e.size = Total(e.dynamic)
        /\ e.limit = f.number /\ e.out = d.out /\ e.bad = d.bad
    BY <1>1, <2>1, <2>2, Evicted
  <2> HIDE DEF e
  <2>4. Decoded(d, f) = e
    BY <1>7 DEF Decoded, e, c
  <2> QED BY <1>7, <2>3, <2>4 DEF Sound
<1> QED
  BY <1>2, <1>4, <1>5, <1>6, <1>7

\* One field keeps the server's table a table, and the two ends in step.
LEMMA WrittenTyped ==
  ASSUME NEW w \in Writers, NEW f \in BlockFields
  PROVE Written(w, f) \in Writers
<1>1. w.table \in Seq(Headers) /\ w.limit \in Nat /\ f.number \in Nat /\ f.header \in Headers
  BY DEF Writers, BlockFields
<1>2. ASSUME NEW t \in Seq(Headers), NEW limit \in Nat PROVE Kept(t, limit) \in Seq(Headers)
  <2>1. PICK s : SizeSums(t, s)
    BY SumsExist
  <2>2. PICK n \in 0..Len(t) : Kept(t, limit) = SubSeq(t, 1, n)
    BY <2>1, KeptFits
  <2> QED BY <2>1, <2>2, SumsOfFront
<1>3. <<f.header>> \o w.table \in Seq(Headers)
  BY <1>1, SumsOfPushed
<1>4. Kept(<<f.header>> \o w.table, w.limit) \in Seq(Headers) /\ Kept(w.table, f.number) \in Seq(Headers)
  BY <1>1, <1>2, <1>3
<1> QED
  BY <1>1, <1>4 DEF Writers, Written

\* After one more field, decoder and writer have the same table and the same limit again.
LEMMA StaysInStep ==
  ASSUME NEW d \in Sound, NEW w \in Writers, NEW f \in BlockFields, InStep(d, w)
  PROVE InStep(Decoded(d, f), Written(w, f))
<1>1. f.kind \in {"indexed", "insert", "literal", "resize"}
  BY DEF BlockFields
<1>2. CASE f.kind \in {"indexed", "literal"}
  <2>1. Written(w, f) = w
    BY <1>2 DEF Written
  <2> QED BY <1>2, <2>1, DecodedSound DEF InStep
<1>3. CASE f.kind = "insert"
  <2> DEFINE t == Kept(<<f.header>> \o w.table, w.limit)
  <2>1. Written(w, f) = [w EXCEPT !.table = t]
    BY <1>3 DEF Written
  <2> HIDE DEF t
  <2>2. Written(w, f).table = t /\ Written(w, f).limit = w.limit
    BY <2>1 DEF Writers
  <2> QED BY <1>3, <2>2, DecodedSound DEF InStep, t
<1>4. CASE f.kind = "resize"
  <2> DEFINE t == Kept(w.table, f.number)
  <2>1. Written(w, f) = [table |-> t, limit |-> f.number]
    BY <1>4 DEF Written
  <2> HIDE DEF t
  <2>2. Written(w, f).table = t /\ Written(w, f).limit = f.number
    BY <2>1
  <2>3. Decoded(d, f).dynamic = Kept(d.dynamic, f.number) /\ Decoded(d, f).limit = f.number
    BY <1>4, DecodedSound
  <2> QED BY <2>2, <2>3 DEF InStep, t
<1> QED
  BY <1>1, <1>2, <1>3, <1>4

\* What is read of a block, field by field.
Reading(a, fs) ==
    /\ a \in [0..Len(fs) -> Sound]
    /\ a[0] = NewDecoder
    /\ \A i \in 1..Len(fs) : a[i] = Decoded(a[i - 1], fs[i])

\* The tables of the server that wrote a block.
Writing(a, fs) ==
    /\ a \in [0..Len(fs) -> Writers]
    /\ a[0] = [table |-> <<>>, limit |-> 4]
    /\ \A i \in 1..Len(fs) : a[i] = Written(a[i - 1], fs[i])

\* The decoder starts with an empty table.
LEMMA NewSound == NewDecoder \in Sound
<1>1. Total(<<>>) = 0
  <2> DEFINE s == [n \in 0..0 |-> 0]
  <2>1. <<>> \in Seq(Headers) /\ Len(<<>>) = 0
    OBVIOUS
  <2>2. s \in [0..0 -> Nat] /\ s[0] = 0
    OBVIOUS
  <2> HIDE DEF s
  <2>3. SizeSums(<<>>, s)
    BY <2>1, <2>2 DEF SizeSums
  <2> QED BY <2>1, <2>2, <2>3, SumsUnique
<1>2. NewDecoder \in Decoders
  BY DEF NewDecoder, Decoders
<1>3. NewDecoder.size = 0 /\ NewDecoder.dynamic = <<>>
  BY DEF NewDecoder
<1> QED
  BY <1>1, <1>2, <1>3 DEF Sound

\* Decode folds Decoded over the fields.
LEMMA DecodeReads ==
  ASSUME NEW fs \in Seq(BlockFields)
  PROVE \E a : Reading(a, fs) /\ Decode(fs) = a[Len(fs)]
<1>1. PICK n \in Nat : n = Len(fs)
  BY LenProperties
<1>2. \A i \in 1..n : fs[i] \in BlockFields
  BY <1>1, ElementOfSeq
<1> DEFINE step == [x \in (1..n) \X Sound |-> Decoded(x[2], fs[x[1]])]
<1>3. step \in [(1..n) \X Sound -> Sound]
  BY <1>2, DecodedSound
<1>4. \A i \in 1..n, y \in Sound : step[<<i, y>>] = Decoded(y, fs[i])
  OBVIOUS
<1> HIDE DEF step
<1>5. PICK a : Repeats(a, n, Sound, NewDecoder, step)
  BY <1>3, NewSound, Repeated
<1>6. /\ a \in [0..n -> Sound] /\ a[0] = NewDecoder
      /\ \A i \in 1..n : a[i] = step[<<i, a[i - 1]>>]
  BY <1>5 DEF Repeats
<1>7. ASSUME NEW i \in 1..n PROVE a[i] = Decoded(a[i - 1], fs[i])
  <2>1. i - 1 \in 0..n
    OBVIOUS
  <2>2. a[i - 1] \in Sound
    BY <1>6, <2>1
  <2> QED BY <1>4, <1>6, <2>2
<1> DEFINE Rule(g) == [k \in 0..n |-> IF k = 0 THEN NewDecoder ELSE Decoded(g[k - 1], fs[k])]
           after == CHOOSE g : g = Rule(g)
<1>8. a = Rule(a)
  <2>1. \A i \in 0..n : a[i] = IF i = 0 THEN NewDecoder ELSE Decoded(a[i - 1], fs[i])
    <3>1. \A i \in 0..n : i = 0 \/ i \in 1..n
      OBVIOUS
    <3> QED BY <1>6, <1>7, <3>1
  <2>2. a = [k \in 0..n |-> a[k]]
    BY <1>6
  <2>3. [k \in 0..n |-> a[k]] = [k \in 0..n |-> IF k = 0 THEN NewDecoder ELSE Decoded(a[k - 1], fs[k])]
    BY <2>1
  <2> QED BY <2>2, <2>3
<1>9. after = Rule(after)
  BY <1>8
<1>10. Decode(fs) = after[n]
  BY <1>1 DEF Decode
<1> HIDE DEF after
<1>11. after[0] = NewDecoder /\ \A i \in 1..n : after[i] = Decoded(after[i - 1], fs[i])
  <2>1. \A i \in 0..n : after[i] = IF i = 0 THEN NewDecoder ELSE Decoded(after[i - 1], fs[i])
    BY <1>9
  <2> HIDE <1>9
  <2>2. \A i \in 1..n : i \in 0..n /\ i # 0
    OBVIOUS
  <2> QED BY <2>1, <2>2
<1>12. \A i \in 0..n : after[i] = a[i]
  <2>1. after[0] = a[0]
    BY <1>6, <1>11
  <2>2. ASSUME NEW i \in 1..n, after[i - 1] = a[i - 1] PROVE after[i] = a[i]
    BY <1>7, <1>11, <2>2
  <2>3. GoAlike(after, a, n)
    BY <2>1, <2>2 DEF GoAlike
  <2> QED BY <2>3, SameSteps
<1>13. Decode(fs) = a[n]
  BY <1>10, <1>12
<1>14. Reading(a, fs)
  BY <1>1, <1>6, <1>7 DEF Reading
<1> QED
  BY <1>1, <1>13, <1>14

\* Writer folds Written over the fields.
LEMMA WriterWrites ==
  ASSUME NEW fs \in Seq(BlockFields)
  PROVE \E a : Writing(a, fs) /\ Writer(fs) = a[Len(fs)]
<1> DEFINE first == [table |-> <<>>, limit |-> 4]
<1>1. PICK n \in Nat : n = Len(fs)
  BY LenProperties
<1>2. \A i \in 1..n : fs[i] \in BlockFields
  BY <1>1, ElementOfSeq
<1> DEFINE step == [x \in (1..n) \X Writers |-> Written(x[2], fs[x[1]])]
<1>3. step \in [(1..n) \X Writers -> Writers]
  BY <1>2, WrittenTyped
<1>4. \A i \in 1..n, y \in Writers : step[<<i, y>>] = Written(y, fs[i])
  OBVIOUS
<1> HIDE DEF step
<1>5. first \in Writers
  BY DEF Writers
<1> HIDE DEF first
<1>6. PICK a : Repeats(a, n, Writers, first, step)
  BY <1>3, <1>5, Repeated
<1>7. /\ a \in [0..n -> Writers] /\ a[0] = first
      /\ \A i \in 1..n : a[i] = step[<<i, a[i - 1]>>]
  BY <1>6 DEF Repeats
<1>8. ASSUME NEW i \in 1..n PROVE a[i] = Written(a[i - 1], fs[i])
  <2>1. i - 1 \in 0..n
    OBVIOUS
  <2>2. a[i - 1] \in Writers
    BY <1>7, <2>1
  <2> QED BY <1>4, <1>7, <2>2
<1> DEFINE Rule(g) == [k \in 0..n |-> IF k = 0 THEN first ELSE Written(g[k - 1], fs[k])]
           after == CHOOSE g : g = Rule(g)
<1>9. a = Rule(a)
  <2>1. \A i \in 0..n : a[i] = IF i = 0 THEN first ELSE Written(a[i - 1], fs[i])
    <3>1. \A i \in 0..n : i = 0 \/ i \in 1..n
      OBVIOUS
    <3> QED BY <1>7, <1>8, <3>1
  <2>2. a = [k \in 0..n |-> a[k]]
    BY <1>7
  <2>3. [k \in 0..n |-> a[k]] = [k \in 0..n |-> IF k = 0 THEN first ELSE Written(a[k - 1], fs[k])]
    BY <2>1
  <2> QED BY <2>2, <2>3
<1>10. after = Rule(after)
  BY <1>9
<1>11. Writer(fs) = after[n]
  BY <1>1 DEF Writer, first
<1> HIDE DEF after
<1>12. after[0] = first /\ \A i \in 1..n : after[i] = Written(after[i - 1], fs[i])
  <2>1. \A i \in 0..n : after[i] = IF i = 0 THEN first ELSE Written(after[i - 1], fs[i])
    BY <1>10
  <2> HIDE <1>10
  <2>2. \A i \in 1..n : i \in 0..n /\ i # 0
    OBVIOUS
  <2> QED BY <2>1, <2>2
<1>13. \A i \in 0..n : after[i] = a[i]
  <2>1. after[0] = a[0]
    BY <1>7, <1>12
  <2>2. ASSUME NEW i \in 1..n, after[i - 1] = a[i - 1] PROVE after[i] = a[i]
    BY <1>8, <1>12, <2>2
  <2>3. GoAlike(after, a, n)
    BY <2>1, <2>2 DEF GoAlike
  <2> QED BY <2>3, SameSteps
<1>14. Writer(fs) = a[n]
  BY <1>11, <1>13
<1>15. Writing(a, fs)
  BY <1>1, <1>7, <1>8 DEF Writing, first
<1> QED
  BY <1>1, <1>14, <1>15

\* One field more.
LEMMA FieldMore ==
  ASSUME NEW fs \in Seq(BlockFields), NEW f \in BlockFields
  PROVE /\ Decode(fs) \in Sound /\ Writer(fs) \in Writers
        /\ Decode(Append(fs, f)) = Decoded(Decode(fs), f)
        /\ Writer(Append(fs, f)) = Written(Writer(fs), f)
<1> DEFINE gs == Append(fs, f)
<1>1. PICK n \in Nat : n = Len(fs)
  BY LenProperties
<1>2. gs \in Seq(BlockFields) /\ Len(gs) = n + 1 /\ gs[n + 1] = f /\ \A i \in 1..n : gs[i] = fs[i]
  BY <1>1, AppendProperties
<1> HIDE DEF gs
<1>3. n \in 0..n /\ n + 1 \in 1..(n + 1) /\ n + 1 - 1 = n /\ \A i \in 1..n : i \in 1..(n + 1)
  BY <1>1
<1>4. Decode(fs) \in Sound /\ Decode(gs) = Decoded(Decode(fs), f)
  <2>1. PICK a : Reading(a, fs) /\ Decode(fs) = a[n]
    BY <1>1, DecodeReads
  <2>2. PICK b : Reading(b, gs) /\ Decode(gs) = b[n + 1]
    BY <1>2, DecodeReads
  <2>3. a[n] \in Sound
    BY <1>1, <1>3, <2>1 DEF Reading
  <2>4. \A i \in 0..n : a[i] = b[i]
    <3>1. a[0] = b[0]
      BY <2>1, <2>2 DEF Reading
    <3>2. ASSUME NEW i \in 1..n, a[i - 1] = b[i - 1] PROVE a[i] = b[i]
      <4>1. a[i] = Decoded(a[i - 1], fs[i])
        BY <1>1, <2>1 DEF Reading
      <4>2. b[i] = Decoded(b[i - 1], gs[i])
        BY <1>2, <1>3, <2>2 DEF Reading
      <4> QED BY <1>2, <3>2, <4>1, <4>2
    <3>3. GoAlike(a, b, n)
      BY <3>1, <3>2 DEF GoAlike
    <3> QED BY <3>3, SameSteps
  <2>5. b[n + 1] = Decoded(b[n], f)
    <3>1. b[n + 1] = Decoded(b[n + 1 - 1], gs[n + 1])
      BY <1>2, <1>3, <2>2 DEF Reading
    <3> QED BY <1>2, <1>3, <3>1
  <2> QED BY <1>3, <2>1, <2>2, <2>3, <2>4, <2>5
<1>5. Writer(fs) \in Writers /\ Writer(gs) = Written(Writer(fs), f)
  <2>1. PICK a : Writing(a, fs) /\ Writer(fs) = a[n]
    BY <1>1, WriterWrites
  <2>2. PICK b : Writing(b, gs) /\ Writer(gs) = b[n + 1]
    BY <1>2, WriterWrites
  <2>3. a[n] \in Writers
    BY <1>1, <1>3, <2>1 DEF Writing
  <2>4. \A i \in 0..n : a[i] = b[i]
    <3>1. a[0] = b[0]
      BY <2>1, <2>2 DEF Writing
    <3>2. ASSUME NEW i \in 1..n, a[i - 1] = b[i - 1] PROVE a[i] = b[i]
      <4>1. a[i] = Written(a[i - 1], fs[i])
        BY <1>1, <2>1 DEF Writing
      <4>2. b[i] = Written(b[i - 1], gs[i])
        BY <1>2, <1>3, <2>2 DEF Writing
      <4> QED BY <1>2, <3>2, <4>1, <4>2
    <3>3. GoAlike(a, b, n)
      BY <3>1, <3>2 DEF GoAlike
    <3> QED BY <3>3, SameSteps
  <2>5. b[n + 1] = Written(b[n], f)
    <3>1. b[n + 1] = Written(b[n + 1 - 1], gs[n + 1])
      BY <1>2, <1>3, <2>2 DEF Writing
    <3> QED BY <1>2, <1>3, <3>1
  <2> QED BY <1>3, <2>1, <2>2, <2>3, <2>4, <2>5
<1> QED
  BY <1>4, <1>5 DEF gs

\* Before the first field.
LEMMA NoFieldYet == /\ Decode(<<>>) = NewDecoder
                    /\ Writer(<<>>) = [table |-> <<>>, limit |-> 4]
<1>1. <<>> \in Seq(BlockFields) /\ Len(<<>>) = 0
  OBVIOUS
<1> QED
  BY <1>1, DecodeReads, WriterWrites DEF Reading, Writing
-----------------------------------------------------------------------------
(* The probes of what is offered over TLS: what was read and what it shows. *)

\* The pieces of all answers.
PieceSet == {"settings", "settings_ack", "window", "http/", "headers", "rst_stream", "goaway",
             "101", "200", "301", "400", "rest", "banner", "blank", "location", "hsts",
             "mixed", "page"}

\* The pieces read are the first ones the server sends.
Begins(pieces, sent) ==
    /\ pieces \in Seq(PieceSet) /\ sent \in Seq(PieceSet)
    /\ Len(pieces) <= Len(sent)
    /\ \A i \in 1..Len(pieces) : pieces[i] = sent[i]

\* What a page showed, for as many failures as there were.
HttpClaims(d, lost) ==
    /\ d \subseteq {"no_hsts", "short_hsts", "mixed"}
    /\ "no_hsts" \in d => peer.hsts = "none" \/ lost > 0 \/ peer.asks
    /\ "short_hsts" \in d => peer.hsts = "short"
    /\ "mixed" \in d => peer.mixed
    /\ lost = 0 /\ ~peer.asks => /\ peer.hsts = "none" => "no_hsts" \in d
                                 /\ peer.hsts = "short" => "short_hsts" \in d
                                 /\ peer.mixed => "mixed" \in d

\* What the first answer showed, while the second one is read.
FirstTold ==
    /\ probe \in {"http", "websocket", "sse"}
    /\ probe = "http" => \E d : verdict = Found("http", TRUE, d) /\ HttpClaims(d, faults)
    /\ probe = "websocket" => /\ verdict = Found("websocket", TRUE, "none")
                              /\ peer.upgrades /\ peer.token /\ ~peer.asks
    /\ probe = "sse" => verdict = Found("sse", TRUE, "none") /\ peer.streams /\ ~peer.asks

\* What has been read, and what was told of it, at each place of the program.
AppInv ==
    probe \in AppKinds =>
        /\ peer \in AppServers(probe)
        /\ pc \in {"write", "read", "second", "done"}
        /\ faults \in Nat
        /\ pc = "write" => probe = "grpc" /\ answer = <<>>
        /\ pc \in {"read", "second"} => Begins(answer, Pieces(probe, peer, pc = "second"))
        /\ pc = "second" => FirstTold
        /\ pc = "done" => answer = <<>> /\ AppVerdictsTrue

\* Short lists put together.
LEMMA JoinOneOne ==
  ASSUME NEW a, NEW b
  PROVE <<a>> \o <<b>> = <<a, b>>
<1> DEFINE S == {a, b}
           x == <<a>>
           y == <<b>>
           z == x \o y
<1>1. x \in Seq(S) /\ y \in Seq(S) /\ Len(x) = 1 /\ Len(y) = 1
  OBVIOUS
<1>2. /\ z \in Seq(S) /\ Len(z) = 2
      /\ \A i \in 1..2 : z[i] = IF i <= 1 THEN x[i] ELSE y[i - 1]
  BY <1>1, ConcatProperties
<1> HIDE DEF z
<1>3. z[1] = a /\ z[2] = b
  BY <1>2
<1>4. \A i \in 1..2 : z[i] = <<a, b>>[i]
  <2>1. \A i \in 1..2 : i = 1 \/ i = 2
    OBVIOUS
  <2> QED BY <1>3, <2>1
<1>5. <<a, b>> \in Seq(S) /\ Len(<<a, b>>) = 2
  OBVIOUS
<1>6. z = <<a, b>>
  BY <1>2, <1>4, <1>5, SeqEqual
<1> QED
  BY <1>6 DEF z

\* Joins of short sequences.
LEMMA JoinOneTwo ==
  ASSUME NEW a, NEW b, NEW c
  PROVE <<a>> \o <<b, c>> = <<a, b, c>>
<1> DEFINE S == {a, b, c}
           x == <<a>>
           y == <<b, c>>
           z == x \o y
<1>1. x \in Seq(S) /\ y \in Seq(S) /\ Len(x) = 1 /\ Len(y) = 2
  OBVIOUS
<1>2. /\ z \in Seq(S) /\ Len(z) = 3
      /\ \A i \in 1..3 : z[i] = IF i <= 1 THEN x[i] ELSE y[i - 1]
  BY <1>1, ConcatProperties
<1> HIDE DEF z
<1>3. z[1] = a /\ z[2] = b /\ z[3] = c
  BY <1>2
<1>4. \A i \in 1..3 : z[i] = <<a, b, c>>[i]
  <2>1. \A i \in 1..3 : i = 1 \/ i = 2 \/ i = 3
    OBVIOUS
  <2> QED BY <1>3, <2>1
<1>5. <<a, b, c>> \in Seq(S) /\ Len(<<a, b, c>>) = 3
  OBVIOUS
<1>6. z = <<a, b, c>>
  BY <1>2, <1>4, <1>5, SeqEqual
<1> QED
  BY <1>6 DEF z

\* Two and one.
LEMMA JoinTwoOne ==
  ASSUME NEW a, NEW b, NEW c
  PROVE <<a, b>> \o <<c>> = <<a, b, c>>
<1> DEFINE S == {a, b, c}
           x == <<a, b>>
           y == <<c>>
           z == x \o y
<1>1. x \in Seq(S) /\ y \in Seq(S) /\ Len(x) = 2 /\ Len(y) = 1
  OBVIOUS
<1>2. /\ z \in Seq(S) /\ Len(z) = 3
      /\ \A i \in 1..3 : z[i] = IF i <= 2 THEN x[i] ELSE y[i - 2]
  BY <1>1, ConcatProperties
<1> HIDE DEF z
<1>3. z[1] = a /\ z[2] = b /\ z[3] = c
  BY <1>2
<1>4. \A i \in 1..3 : z[i] = <<a, b, c>>[i]
  <2>1. \A i \in 1..3 : i = 1 \/ i = 2 \/ i = 3
    OBVIOUS
  <2> QED BY <1>3, <2>1
<1>5. <<a, b, c>> \in Seq(S) /\ Len(<<a, b, c>>) = 3
  OBVIOUS
<1>6. z = <<a, b, c>>
  BY <1>2, <1>4, <1>5, SeqEqual
<1> QED
  BY <1>6 DEF z

\* Two and two.
LEMMA JoinTwoTwo ==
  ASSUME NEW a, NEW b, NEW c, NEW d
  PROVE <<a, b>> \o <<c, d>> = <<a, b, c, d>>
<1> DEFINE S == {a, b, c, d}
           x == <<a, b>>
           y == <<c, d>>
           z == x \o y
<1>1. x \in Seq(S) /\ y \in Seq(S) /\ Len(x) = 2 /\ Len(y) = 2
  OBVIOUS
<1>2. /\ z \in Seq(S) /\ Len(z) = 4
      /\ \A i \in 1..4 : z[i] = IF i <= 2 THEN x[i] ELSE y[i - 2]
  BY <1>1, ConcatProperties
<1> HIDE DEF z
<1>3. z[1] = a /\ z[2] = b /\ z[3] = c /\ z[4] = d
  BY <1>2
<1>4. \A i \in 1..4 : z[i] = <<a, b, c, d>>[i]
  <2>1. \A i \in 1..4 : i = 1 \/ i = 2 \/ i = 3 \/ i = 4
    OBVIOUS
  <2> QED BY <1>3, <2>1
<1>5. <<a, b, c, d>> \in Seq(S) /\ Len(<<a, b, c, d>>) = 4
  OBVIOUS
<1>6. z = <<a, b, c, d>>
  BY <1>2, <1>4, <1>5, SeqEqual
<1> QED
  BY <1>6 DEF z

\* What the servers send, probe by probe.
LEMMA PagePieces ==
  ASSUME NEW s \in AppServers("http")
  PROVE /\ s.asks => Pieces("http", s, FALSE) = <<>>
        /\ ~s.asks /\ s.hsts = "none" =>
             Pieces("http", s, FALSE) = <<"200", "blank", IF s.mixed THEN "mixed" ELSE "page">>
        /\ ~s.asks /\ s.hsts # "none" =>
             Pieces("http", s, FALSE) = <<"200", "hsts", "blank", IF s.mixed THEN "mixed" ELSE "page">>
        /\ Pieces("http", s, TRUE) = CASE s.port80 = "redirects" -> <<"301", "location", "blank">>
                                       [] s.port80 = "serves" -> <<"200", "blank">>
                                       [] s.port80 = "closed" -> <<>>
<1>1. s.asks \in BOOLEAN
  BY DEF AppServers
<1>2. s.asks => Pieces("http", s, FALSE) = <<>>
  BY DEF Pieces
<1>3. ~s.asks => Pieces("http", s, FALSE) =
        <<"200">> \o (IF s.hsts = "none" THEN <<>> ELSE <<"hsts">>)
                 \o <<"blank", IF s.mixed THEN "mixed" ELSE "page">>
  BY DEF Pieces
<1>4. ASSUME NEW x PROVE <<"200">> \o <<>> \o <<"blank", x>> = <<"200", "blank", x>>
  <2>1. <<"200">> \in Seq({"200"})
    OBVIOUS
  <2>2. <<"200">> \o <<>> = <<"200">>
    BY <2>1, ConcatEmptySeq
  <2> QED BY <2>2, JoinOneTwo
<1>5. ASSUME NEW x PROVE <<"200">> \o <<"hsts">> \o <<"blank", x>> = <<"200", "hsts", "blank", x>>
  <2>1. <<"200">> \o <<"hsts">> = <<"200", "hsts">>
    BY JoinOneOne
  <2>2. <<"200", "hsts">> \o <<"blank", x>> = <<"200", "hsts", "blank", x>>
    BY JoinTwoTwo
  <2> QED BY <2>1, <2>2
<1>6. Pieces("http", s, TRUE) = CASE s.port80 = "redirects" -> <<"301", "location", "blank">>
                                  [] s.port80 = "serves" -> <<"200", "blank">>
                                  [] s.port80 = "closed" -> <<>>
  BY DEF Pieces
<1> QED
  BY <1>2, <1>3, <1>4, <1>5, <1>6

\* What the server of each other probe sends.
LEMMA OtherPieces ==
  ASSUME NEW p \in {"http2", "grpc", "websocket", "sse"}, NEW s \in AppServers(p), NEW second \in BOOLEAN
  PROVE /\ s.asks \in BOOLEAN
        /\ s.asks => Pieces(p, s, second) = <<>>
        /\ ~s.asks /\ p = "http2" =>
             Pieces(p, s, second) = IF s.alpn = "h2" THEN s.frames ELSE <<"http/">>
        /\ ~s.asks /\ p = "grpc" =>
             Pieces(p, s, second) = IF s.alpn = "h2" THEN <<"settings", "settings_ack", s.says>> ELSE <<>>
        /\ ~s.asks /\ p = "websocket" =>
             Pieces(p, s, second) = IF s.upgrades /\ ~(second /\ s.checks) THEN <<"101", "rest">>
                                    ELSE <<"400", "rest">>
        /\ ~s.asks /\ p = "sse" => Pieces(p, s, second) = <<"200", "rest">>
<1>1. s.asks \in BOOLEAN
  BY DEF AppServers
<1>2. p = "grpc" => s.frames = <<"settings", "settings_ack">>
  BY DEF AppServers, Settings, Ack
<1>3. \A x : <<"settings", "settings_ack">> \o <<x>> = <<"settings", "settings_ack", x>>
  BY JoinTwoOne
<1>4. s.asks => Pieces(p, s, second) = <<>>
  BY DEF Pieces
<1>5. ~s.asks /\ p = "http2" =>
        Pieces(p, s, second) = IF s.alpn = "h2" THEN s.frames ELSE <<"http/">>
  BY DEF Pieces
<1>6. ~s.asks /\ p = "grpc" =>
        Pieces(p, s, second) = IF s.alpn = "h2" THEN s.frames \o <<s.says>> ELSE <<>>
  BY DEF Pieces
<1>7. ~s.asks /\ p = "websocket" =>
        Pieces(p, s, second) = IF s.upgrades /\ ~(second /\ s.checks) THEN <<"101", "rest">>
                               ELSE <<"400", "rest">>
  BY DEF Pieces
<1>8. ~s.asks /\ p = "sse" => Pieces(p, s, second) = <<"200", "rest">>
  BY DEF Pieces
<1> QED
  BY <1>1, <1>2, <1>3, <1>4, <1>5, <1>6, <1>7, <1>8

\* What the server of plain port 80 sends.
LEMMA ClearPieces ==
  ASSUME NEW s \in AppServers("cleartext"), NEW second \in BOOLEAN
  PROVE Pieces("cleartext", s, second) = CASE s.speaks = "http" -> <<"200", "blank">>
                                           [] s.speaks = "other" -> <<"banner">>
                                           [] s.speaks = "nothing" -> <<>>
BY DEF Pieces

\* They are pieces, whatever the server.
LEMMA PiecesTyped ==
  ASSUME NEW p \in AppKinds, NEW s \in AppServers(p), NEW second \in BOOLEAN
  PROVE Pieces(p, s, second) \in Seq(PieceSet)
<1>1. CASE p = "http"
  <2>1. /\ s.mixed \in BOOLEAN /\ s.asks \in BOOLEAN
        /\ s.port80 \in {"redirects", "serves", "closed"}
    BY <1>1 DEF AppServers
  <2>2. (IF s.mixed THEN "mixed" ELSE "page") \in PieceSet
    BY DEF PieceSet
  <2>3. Pieces("http", s, FALSE) \in Seq(PieceSet)
    <3>1. \A x \in PieceSet : <<"200", "blank", x>> \in Seq(PieceSet) /\ <<"200", "hsts", "blank", x>> \in Seq(PieceSet)
      BY DEF PieceSet
    <3>2. <<>> \in Seq(PieceSet)
      OBVIOUS
    <3> QED BY <1>1, <2>1, <2>2, <3>1, <3>2, PagePieces
  <2>4. Pieces("http", s, TRUE) \in Seq(PieceSet)
    <3>1. <<"301", "location", "blank">> \in Seq(PieceSet) /\ <<"200", "blank">> \in Seq(PieceSet)
      BY DEF PieceSet
    <3>2. <<>> \in Seq(PieceSet)
      OBVIOUS
    <3> QED BY <1>1, <2>1, <3>1, <3>2, PagePieces
  <2> QED BY <1>1, <2>3, <2>4
<1>2. CASE p = "cleartext"
  <2>1. s.speaks \in {"http", "other", "nothing"}
    BY <1>2 DEF AppServers
  <2>2. <<"200", "blank">> \in Seq(PieceSet) /\ <<"banner">> \in Seq(PieceSet)
    BY DEF PieceSet
  <2>3. <<>> \in Seq(PieceSet)
    OBVIOUS
  <2> QED BY <1>2, <2>1, <2>2, <2>3, ClearPieces
<1>3. CASE p \in {"http2", "grpc", "websocket", "sse"}
  <2>1. /\ p = "http2" => s.frames \in Preambles
        /\ p = "grpc" => s.says \in PieceSet
    BY <1>3 DEF AppServers, PieceSet
  <2>2. Preambles \subseteq Seq(PieceSet)
    BY DEF Preambles, PieceSet, Settings, Ack
  <2>3. /\ <<"http/">> \in Seq(PieceSet) /\ <<"101", "rest">> \in Seq(PieceSet)
        /\ <<"400", "rest">> \in Seq(PieceSet) /\ <<"200", "rest">> \in Seq(PieceSet)
    BY DEF PieceSet
  <2>4. <<>> \in Seq(PieceSet)
    OBVIOUS
  <2>5. \A x \in PieceSet : <<"settings", "settings_ack", x>> \in Seq(PieceSet)
    BY DEF PieceSet
  <2> QED BY <1>3, <2>1, <2>2, <2>3, <2>4, <2>5, OtherPieces
<1> QED
  BY <1>1, <1>2, <1>3 DEF AppKinds

\* A cut falls between two pieces.
LEMMA CutOfNothing ==
  ASSUME NEW pieces, Begins(pieces, <<>>)
  PROVE pieces = <<>>
<1>1. Len(<<>>) = 0
  OBVIOUS
<1> QED
  BY <1>1, LenProperties, EmptySeq DEF Begins

\* An answer of one piece is cut before it or not at all.
LEMMA CutOfOne ==
  ASSUME NEW pieces, NEW a, Begins(pieces, <<a>>)
  PROVE pieces \in {<<>>, <<a>>}
<1>1. PICK k \in Nat : k = Len(pieces) /\ k <= 1 /\ pieces \in Seq(PieceSet)
  <2>1. Len(<<a>>) = 1
    OBVIOUS
  <2> QED BY <2>1, LenProperties DEF Begins
<1>2. \A i \in 1..k : pieces[i] \in PieceSet
  BY <1>1, ElementOfSeq
<1>3. (k >= 1 => pieces[1] = a)
  BY <1>1 DEF Begins
<1>4. CASE k = 0
  BY <1>1, <1>4, EmptySeq
<1>5. CASE k = 1
  <2>1. <<a>> \in Seq(PieceSet) /\ Len(<<a>>) = 1
    <3>1. a \in PieceSet
      BY <1>2, <1>3, <1>5
    <3> QED BY <3>1
  <2>2. \A i \in 1..1 : pieces[i] = <<a>>[i]
    <3>1. \A i \in 1..1 : i = 1
      OBVIOUS
    <3> QED BY <1>3, <1>5, <3>1
  <2>3. pieces = <<a>>
    BY <1>1, <1>5, <2>1, <2>2, SeqEqual
  <2> QED BY <2>3
<1> QED
  BY <1>1, <1>4, <1>5

\* An answer of two pieces.
LEMMA CutOfTwo ==
  ASSUME NEW pieces, NEW a, NEW b, Begins(pieces, <<a, b>>)
  PROVE pieces \in {<<>>, <<a>>, <<a, b>>}
<1>1. PICK k \in Nat : k = Len(pieces) /\ k <= 2 /\ pieces \in Seq(PieceSet)
  <2>1. Len(<<a, b>>) = 2
    OBVIOUS
  <2> QED BY <2>1, LenProperties DEF Begins
<1>2. \A i \in 1..k : pieces[i] \in PieceSet
  BY <1>1, ElementOfSeq
<1>3. (k >= 1 => pieces[1] = a) /\ (k >= 2 => pieces[2] = b)
  BY <1>1 DEF Begins
<1>4. CASE k = 0
  BY <1>1, <1>4, EmptySeq
<1>5. CASE k = 1
  <2>1. <<a>> \in Seq(PieceSet) /\ Len(<<a>>) = 1
    <3>1. a \in PieceSet
      BY <1>2, <1>3, <1>5
    <3> QED BY <3>1
  <2>2. \A i \in 1..1 : pieces[i] = <<a>>[i]
    <3>1. \A i \in 1..1 : i = 1
      OBVIOUS
    <3> QED BY <1>3, <1>5, <3>1
  <2>3. pieces = <<a>>
    BY <1>1, <1>5, <2>1, <2>2, SeqEqual
  <2> QED BY <2>3
<1>6. CASE k = 2
  <2>1. <<a, b>> \in Seq(PieceSet) /\ Len(<<a, b>>) = 2
    <3>1. a \in PieceSet /\ b \in PieceSet
      BY <1>2, <1>3, <1>6
    <3> QED BY <3>1
  <2>2. \A i \in 1..2 : pieces[i] = <<a, b>>[i]
    <3>1. \A i \in 1..2 : i = 1 \/ i = 2
      OBVIOUS
    <3> QED BY <1>3, <1>6, <3>1
  <2>3. pieces = <<a, b>>
    BY <1>1, <1>6, <2>1, <2>2, SeqEqual
  <2> QED BY <2>3
<1> QED
  BY <1>1, <1>4, <1>5, <1>6

\* An answer of three pieces.
LEMMA CutOfThree ==
  ASSUME NEW pieces, NEW a, NEW b, NEW c, Begins(pieces, <<a, b, c>>)
  PROVE pieces \in {<<>>, <<a>>, <<a, b>>, <<a, b, c>>}
<1>1. PICK k \in Nat : k = Len(pieces) /\ k <= 3 /\ pieces \in Seq(PieceSet)
  <2>1. Len(<<a, b, c>>) = 3
    OBVIOUS
  <2> QED BY <2>1, LenProperties DEF Begins
<1>2. \A i \in 1..k : pieces[i] \in PieceSet
  BY <1>1, ElementOfSeq
<1>3. (k >= 1 => pieces[1] = a) /\ (k >= 2 => pieces[2] = b) /\ (k >= 3 => pieces[3] = c)
  BY <1>1 DEF Begins
<1>4. CASE k = 0
  BY <1>1, <1>4, EmptySeq
<1>5. CASE k = 1
  <2>1. <<a>> \in Seq(PieceSet) /\ Len(<<a>>) = 1
    <3>1. a \in PieceSet
      BY <1>2, <1>3, <1>5
    <3> QED BY <3>1
  <2>2. \A i \in 1..1 : pieces[i] = <<a>>[i]
    <3>1. \A i \in 1..1 : i = 1
      OBVIOUS
    <3> QED BY <1>3, <1>5, <3>1
  <2>3. pieces = <<a>>
    BY <1>1, <1>5, <2>1, <2>2, SeqEqual
  <2> QED BY <2>3
<1>6. CASE k = 2
  <2>1. <<a, b>> \in Seq(PieceSet) /\ Len(<<a, b>>) = 2
    <3>1. a \in PieceSet /\ b \in PieceSet
      BY <1>2, <1>3, <1>6
    <3> QED BY <3>1
  <2>2. \A i \in 1..2 : pieces[i] = <<a, b>>[i]
    <3>1. \A i \in 1..2 : i = 1 \/ i = 2
      OBVIOUS
    <3> QED BY <1>3, <1>6, <3>1
  <2>3. pieces = <<a, b>>
    BY <1>1, <1>6, <2>1, <2>2, SeqEqual
  <2> QED BY <2>3
<1>7. CASE k = 3
  <2>1. <<a, b, c>> \in Seq(PieceSet) /\ Len(<<a, b, c>>) = 3
    <3>1. a \in PieceSet /\ b \in PieceSet /\ c \in PieceSet
      BY <1>2, <1>3, <1>7
    <3> QED BY <3>1
  <2>2. \A i \in 1..3 : pieces[i] = <<a, b, c>>[i]
    <3>1. \A i \in 1..3 : i = 1 \/ i = 2 \/ i = 3
      OBVIOUS
    <3> QED BY <1>3, <1>7, <3>1
  <2>3. pieces = <<a, b, c>>
    BY <1>1, <1>7, <2>1, <2>2, SeqEqual
  <2> QED BY <2>3
<1> QED
  BY <1>1, <1>4, <1>5, <1>6, <1>7

\* An answer of four pieces.
LEMMA CutOfFour ==
  ASSUME NEW pieces, NEW a, NEW b, NEW c, NEW d, Begins(pieces, <<a, b, c, d>>)
  PROVE pieces \in {<<>>, <<a>>, <<a, b>>, <<a, b, c>>, <<a, b, c, d>>}
<1>1. PICK k \in Nat : k = Len(pieces) /\ k <= 4 /\ pieces \in Seq(PieceSet)
  <2>1. Len(<<a, b, c, d>>) = 4
    OBVIOUS
  <2> QED BY <2>1, LenProperties DEF Begins
<1>2. \A i \in 1..k : pieces[i] \in PieceSet
  BY <1>1, ElementOfSeq
<1>3. (k >= 1 => pieces[1] = a) /\ (k >= 2 => pieces[2] = b) /\ (k >= 3 => pieces[3] = c) /\ (k >= 4 => pieces[4] = d)
  BY <1>1 DEF Begins
<1>4. CASE k = 0
  BY <1>1, <1>4, EmptySeq
<1>5. CASE k = 1
  <2>1. <<a>> \in Seq(PieceSet) /\ Len(<<a>>) = 1
    <3>1. a \in PieceSet
      BY <1>2, <1>3, <1>5
    <3> QED BY <3>1
  <2>2. \A i \in 1..1 : pieces[i] = <<a>>[i]
    <3>1. \A i \in 1..1 : i = 1
      OBVIOUS
    <3> QED BY <1>3, <1>5, <3>1
  <2>3. pieces = <<a>>
    BY <1>1, <1>5, <2>1, <2>2, SeqEqual
  <2> QED BY <2>3
<1>6. CASE k = 2
  <2>1. <<a, b>> \in Seq(PieceSet) /\ Len(<<a, b>>) = 2
    <3>1. a \in PieceSet /\ b \in PieceSet
      BY <1>2, <1>3, <1>6
    <3> QED BY <3>1
  <2>2. \A i \in 1..2 : pieces[i] = <<a, b>>[i]
    <3>1. \A i \in 1..2 : i = 1 \/ i = 2
      OBVIOUS
    <3> QED BY <1>3, <1>6, <3>1
  <2>3. pieces = <<a, b>>
    BY <1>1, <1>6, <2>1, <2>2, SeqEqual
  <2> QED BY <2>3
<1>7. CASE k = 3
  <2>1. <<a, b, c>> \in Seq(PieceSet) /\ Len(<<a, b, c>>) = 3
    <3>1. a \in PieceSet /\ b \in PieceSet /\ c \in PieceSet
      BY <1>2, <1>3, <1>7
    <3> QED BY <3>1
  <2>2. \A i \in 1..3 : pieces[i] = <<a, b, c>>[i]
    <3>1. \A i \in 1..3 : i = 1 \/ i = 2 \/ i = 3
      OBVIOUS
    <3> QED BY <1>3, <1>7, <3>1
  <2>3. pieces = <<a, b, c>>
    BY <1>1, <1>7, <2>1, <2>2, SeqEqual
  <2> QED BY <2>3
<1>8. CASE k = 4
  <2>1. <<a, b, c, d>> \in Seq(PieceSet) /\ Len(<<a, b, c, d>>) = 4
    <3>1. a \in PieceSet /\ b \in PieceSet /\ c \in PieceSet /\ d \in PieceSet
      BY <1>2, <1>3, <1>8
    <3> QED BY <3>1
  <2>2. \A i \in 1..4 : pieces[i] = <<a, b, c, d>>[i]
    <3>1. \A i \in 1..4 : i = 1 \/ i = 2 \/ i = 3 \/ i = 4
      OBVIOUS
    <3> QED BY <1>3, <1>8, <3>1
  <2>3. pieces = <<a, b, c, d>>
    BY <1>1, <1>8, <2>1, <2>2, SeqEqual
  <2> QED BY <2>3
<1> QED
  BY <1>1, <1>4, <1>5, <1>6, <1>7, <1>8

\* What a short answer holds.
LEMMA ReadsNothing ==
  ASSUME NEW some
  PROVE ~Holding(<<>>, some)
BY DEF Holding

\* What is looked for in one piece.
LEMMA ReadsOne ==
  ASSUME NEW a, NEW some
  PROVE Holding(<<a>>, some) <=> a \in some
<1> DEFINE s == <<a>>
<1>1. Len(s) = 1 /\ s[1] = a
  OBVIOUS
<1> HIDE DEF s
<1>2. Holding(s, some) <=> a \in some
  BY <1>1 DEF Holding
<1> QED
  BY <1>2 DEF s

\* In two pieces.
LEMMA ReadsTwo ==
  ASSUME NEW a, NEW b, NEW some
  PROVE Holding(<<a, b>>, some) <=> a \in some \/ b \in some
<1> DEFINE s == <<a, b>>
<1>1. Len(s) = 2 /\ s[1] = a /\ s[2] = b
  OBVIOUS
<1> HIDE DEF s
<1>2. Holding(s, some) <=> a \in some \/ b \in some
  BY <1>1 DEF Holding
<1> QED
  BY <1>2 DEF s

\* In three pieces.
LEMMA ReadsThree ==
  ASSUME NEW a, NEW b, NEW c, NEW some
  PROVE Holding(<<a, b, c>>, some) <=> a \in some \/ b \in some \/ c \in some
<1> DEFINE s == <<a, b, c>>
<1>1. Len(s) = 3 /\ s[1] = a /\ s[2] = b /\ s[3] = c
  OBVIOUS
<1> HIDE DEF s
<1>2. Holding(s, some) <=> a \in some \/ b \in some \/ c \in some
  BY <1>1 DEF Holding
<1> QED
  BY <1>2 DEF s

\* In four pieces.
LEMMA ReadsFour ==
  ASSUME NEW a, NEW b, NEW c, NEW d, NEW some
  PROVE Holding(<<a, b, c, d>>, some) <=> a \in some \/ b \in some \/ c \in some \/ d \in some
<1> DEFINE s == <<a, b, c, d>>
<1>1. Len(s) = 4 /\ s[1] = a /\ s[2] = b /\ s[3] = c /\ s[4] = d
  OBVIOUS
<1> HIDE DEF s
<1>2. Holding(s, some) <=> a \in some \/ b \in some \/ c \in some \/ d \in some
  BY <1>1 DEF Holding
<1> QED
  BY <1>2 DEF s

\* What a page shows of its headers, from all of it or from what came of it.
LEMMA PageTells ==
  ASSUME probe = "http", peer \in AppServers("http"), NEW pieces, NEW lost \in Nat,
         Begins(pieces, Pieces("http", peer, FALSE)),
         PageComplete(pieces) \/ pieces = Pieces("http", peer, FALSE) \/ lost > 0
  PROVE \E d : HttpVerdict(pieces) = Found("http", TRUE, d) /\ HttpClaims(d, lost)
<1> DEFINE h == Holding(pieces, {"hsts"})
           m == Holding(pieces, {"mixed"})
           d == (IF ~h THEN {"no_hsts"} ELSE IF peer.hsts = "short" THEN {"short_hsts"} ELSE {})
                \cup (IF m THEN {"mixed"} ELSE {})
           body == IF peer.mixed THEN "mixed" ELSE "page"
<1>0. lost = 0 => ~(lost > 0)
  OBVIOUS
<1>1. HttpVerdict(pieces) = Found("http", TRUE, d)
  BY DEF HttpVerdict
<1>2. /\ peer.asks \in BOOLEAN /\ peer.mixed \in BOOLEAN
      /\ peer.hsts \in {"none", "short", "good"}
      /\ body = "mixed" <=> peer.mixed
      /\ body \in {"mixed", "page"}
  BY DEF AppServers
<1> HIDE DEF h, m, body
<1>3. /\ d \subseteq {"no_hsts", "short_hsts", "mixed"}
      /\ "no_hsts" \in d <=> ~h
      /\ "short_hsts" \in d <=> h /\ peer.hsts = "short"
      /\ "mixed" \in d <=> m
      /\ peer.hsts = "short" => peer.hsts # "none"
  OBVIOUS
<1>4. ASSUME h => peer.hsts # "none" /\ ~peer.asks, m => peer.mixed,
             lost = 0 /\ ~peer.asks => (peer.hsts # "none" => h) /\ (peer.mixed => m)
      PROVE HttpClaims(d, lost)
  <2> HIDE DEF d
  <2> QED BY <1>2, <1>3, <1>4 DEF HttpClaims
<1>5. CASE peer.asks
  <2>1. pieces = <<>>
    <3>1. Begins(pieces, <<>>)
      BY <1>5, PagePieces
    <3> QED BY <3>1, CutOfNothing
  <2>2. ~h /\ ~m
    BY <2>1, ReadsNothing DEF h, m
  <2> QED BY <1>1, <1>4, <1>5, <2>2
<1>6. CASE ~peer.asks /\ peer.hsts = "none"
  <2>1. Pieces("http", peer, FALSE) = <<"200", "blank", body>>
    BY <1>6, PagePieces DEF body
  <2>2. pieces \in {<<>>, <<"200">>, <<"200", "blank">>, <<"200", "blank", body>>}
    BY <2>1, CutOfThree
  <2>3. ~h
    BY <1>2, <2>2, ReadsNothing, ReadsOne, ReadsTwo, ReadsThree DEF h
  <2>4. m <=> pieces = <<"200", "blank", body>> /\ peer.mixed
    <3>1. CASE pieces = <<"200", "blank", body>>
      BY <1>2, <3>1, ReadsThree DEF m
    <3>2. CASE pieces \in {<<>>, <<"200">>, <<"200", "blank">>}
      <4>1. ~m
        BY <3>2, ReadsNothing, ReadsOne, ReadsTwo DEF m
      <4>2. pieces # <<"200", "blank", body>>
        BY <3>2
      <4> QED BY <4>1, <4>2
    <3> QED BY <2>2, <3>1, <3>2
  <2>5. PageComplete(pieces) => pieces = <<"200", "blank", body>>
    BY <2>2, ReadsNothing, ReadsOne, ReadsTwo DEF PageComplete
  <2>6. lost = 0 => pieces = <<"200", "blank", body>>
    BY <1>0, <2>1, <2>5
  <2> QED BY <1>1, <1>4, <1>6, <2>3, <2>4, <2>6
<1>7. CASE ~peer.asks /\ peer.hsts # "none"
  <2>1. Pieces("http", peer, FALSE) = <<"200", "hsts", "blank", body>>
    BY <1>7, PagePieces DEF body
  <2>2. pieces \in {<<>>, <<"200">>, <<"200", "hsts">>, <<"200", "hsts", "blank">>,
                    <<"200", "hsts", "blank", body>>}
    BY <2>1, CutOfFour
  <2>3. pieces = <<"200", "hsts", "blank", body>> => h
    BY ReadsFour DEF h
  <2>4. /\ pieces = <<"200", "hsts", "blank", body>> /\ peer.mixed => m
        /\ m => peer.mixed
    <3>1. CASE pieces = <<"200", "hsts", "blank", body>>
      BY <1>2, <3>1, ReadsFour DEF m
    <3>2. CASE pieces \in {<<>>, <<"200">>, <<"200", "hsts">>, <<"200", "hsts", "blank">>}
      <4>1. ~m
        BY <3>2, ReadsNothing, ReadsOne, ReadsTwo, ReadsThree DEF m
      <4>2. pieces # <<"200", "hsts", "blank", body>>
        BY <3>2
      <4> QED BY <4>1, <4>2
    <3> QED BY <2>2, <3>1, <3>2
  <2>5. PageComplete(pieces) => pieces = <<"200", "hsts", "blank", body>>
    BY <2>2, ReadsNothing, ReadsOne, ReadsTwo, ReadsThree DEF PageComplete
  <2>6. lost = 0 => pieces = <<"200", "hsts", "blank", body>>
    BY <1>0, <2>1, <2>5
  <2> QED BY <1>1, <1>4, <1>7, <2>3, <2>4, <2>6
<1> QED
  BY <1>2, <1>5, <1>6, <1>7

\* What port 80 shows.
LEMMA RedirectTells ==
  ASSUME peer \in AppServers("http"), NEW pieces, NEW lost \in Nat,
         Begins(pieces, Pieces("http", peer, TRUE)),
         Holding(pieces, {"blank"}) \/ pieces = Pieces("http", peer, TRUE) \/ lost > 0
  PROVE /\ Cleartext(pieces) \subseteq {"no_redirect"}
        /\ "no_redirect" \in Cleartext(pieces) => peer.port80 = "serves" \/ lost > 0
        /\ peer.port80 = "serves" /\ lost = 0 => "no_redirect" \in Cleartext(pieces)
<1>0. lost = 0 => ~(lost > 0)
  OBVIOUS
<1>1. peer.port80 \in {"redirects", "serves", "closed"}
  BY DEF AppServers
<1> DEFINE l == Holding(pieces, {"location"})
<1>2. Cleartext(pieces) = IF pieces # <<>> /\ ~l THEN {"no_redirect"} ELSE {}
  BY DEF Cleartext
<1> HIDE DEF l
<1>3. CASE peer.port80 = "closed"
  <2>1. pieces = <<>>
    <3>1. Begins(pieces, <<>>)
      BY <1>3, PagePieces
    <3> QED BY <3>1, CutOfNothing
  <2> QED BY <1>2, <1>3, <2>1
<1>4. CASE peer.port80 = "serves"
  <2>1. Pieces("http", peer, TRUE) = <<"200", "blank">>
    BY <1>4, PagePieces
  <2>2. pieces \in {<<>>, <<"200">>, <<"200", "blank">>}
    BY <2>1, CutOfTwo
  <2>3. ~l
    BY <2>2, ReadsNothing, ReadsOne, ReadsTwo DEF l
  <2>4. lost = 0 => pieces # <<>>
    <3>1. ~Holding(<<>>, {"blank"}) /\ <<"200", "blank">> # <<>>
      BY ReadsNothing
    <3> QED BY <1>0, <2>1, <3>1
  <2> QED BY <1>2, <1>4, <2>3, <2>4
<1>5. CASE peer.port80 = "redirects"
  <2>1. Pieces("http", peer, TRUE) = <<"301", "location", "blank">>
    BY <1>5, PagePieces
  <2>2. pieces \in {<<>>, <<"301">>, <<"301", "location">>, <<"301", "location", "blank">>}
    BY <2>1, CutOfThree
  <2>3. pieces = <<"301", "location", "blank">> => l
    BY ReadsThree DEF l
  <2>4. Holding(pieces, {"blank"}) => pieces = <<"301", "location", "blank">>
    BY <2>2, ReadsNothing, ReadsOne, ReadsTwo
  <2> QED BY <1>2, <1>5, <2>1, <2>3, <2>4
<1> QED
  BY <1>1, <1>3, <1>4, <1>5

\* What the plain port shows where no TLS was found.
LEMMA ClearTells ==
  ASSUME peer \in AppServers("cleartext"), NEW pieces, NEW lost \in Nat,
         Begins(pieces, Pieces("cleartext", peer, FALSE)),
         Holding(pieces, {"blank"}) \/ pieces = Pieces("cleartext", peer, FALSE) \/ lost > 0
  PROVE /\ Holding(pieces, {"200"}) => peer.speaks = "http"
        /\ ~Holding(pieces, {"200"}) => peer.speaks # "http" \/ lost > 0
<1>0. lost = 0 => ~(lost > 0)
  OBVIOUS
<1>1. peer.speaks \in {"http", "other", "nothing"}
  BY DEF AppServers
<1>2. CASE peer.speaks = "nothing"
  <2>1. Begins(pieces, <<>>)
    BY <1>2, ClearPieces
  <2>2. ~Holding(pieces, {"200"})
    BY <2>1, CutOfNothing, ReadsNothing
  <2> QED BY <1>2, <2>2
<1>3. CASE peer.speaks = "other"
  <2>1. Pieces("cleartext", peer, FALSE) = <<"banner">>
    BY <1>3, ClearPieces
  <2>2. pieces \in {<<>>, <<"banner">>}
    BY <2>1, CutOfOne
  <2>3. ~Holding(pieces, {"200"})
    BY <2>2, ReadsNothing, ReadsOne
  <2> QED BY <1>3, <2>3
<1>4. CASE peer.speaks = "http"
  <2>1. Pieces("cleartext", peer, FALSE) = <<"200", "blank">>
    BY <1>4, ClearPieces
  <2>2. pieces \in {<<>>, <<"200">>, <<"200", "blank">>}
    BY <2>1, CutOfTwo
  <2>3. pieces # <<>> => Holding(pieces, {"200"})
    BY <2>2, ReadsOne, ReadsTwo
  <2>4. lost = 0 => pieces # <<>>
    <3>1. ~Holding(<<>>, {"blank"}) /\ <<"200", "blank">> # <<>>
      BY ReadsNothing
    <3> QED BY <1>0, <2>1, <3>1
  <2> QED BY <1>4, <2>3, <2>4
<1> QED
  BY <1>1, <1>2, <1>3, <1>4

\* The preamble of HTTP/2 holds the SETTINGS of the server.
LEMMA Http2Tells ==
  ASSUME peer \in AppServers("http2"), NEW pieces, NEW lost \in Nat,
         Begins(pieces, Pieces("http2", peer, FALSE)), peer.alpn = "h2",
         Ready("http2", pieces) \/ pieces = Pieces("http2", peer, FALSE) \/ lost > 0
  PROVE SettingsPresent(pieces) \/ lost > 0 \/ peer.asks
<1> SUFFICES ASSUME ~peer.asks, ~(lost > 0) PROVE SettingsPresent(pieces)
  OBVIOUS
<1>1. Pieces("http2", peer, FALSE) = peer.frames /\ peer.frames \in Preambles
  BY OtherPieces DEF AppServers
<1>2. SettingsPresent(pieces) <=> Holding(pieces, {Settings})
  BY DEF SettingsPresent, Holding
<1>3. Holding(peer.frames, {Settings})
  <2>1. \A x : Holding(<<Settings, x>>, {Settings}) /\ Holding(<<x, Settings>>, {Settings})
    BY ReadsTwo
  <2>2. Holding(<<Settings>>, {Settings})
    BY ReadsOne
  <2> QED BY <1>1, <2>1, <2>2 DEF Preambles
<1>4. CASE Ready("http2", pieces)
  <2>1. SettingsPresent(pieces) \/ (pieces # <<>> /\ pieces[1] = "http/")
    BY <1>4 DEF Ready
  <2>2. pieces # <<>> => pieces[1] # "http/"
    <3>1. CASE peer.frames = <<Settings>>
      <4>1. pieces \in {<<>>, <<Settings>>}
        BY <1>1, <3>1, CutOfOne
      <4>2. <<Settings>>[1] # "http/"
        BY DEF Settings
      <4> QED BY <4>1, <4>2
    <3>2. ASSUME NEW a \in {Settings, Ack, "window"}, NEW b \in {Settings, Ack, "window"},
                 peer.frames = <<a, b>>
          PROVE pieces # <<>> => pieces[1] # "http/"
      <4>1. pieces \in {<<>>, <<a>>, <<a, b>>}
        <5>1. Begins(pieces, <<a, b>>)
          BY <1>1, <3>2
        <5> QED BY <5>1, CutOfTwo
      <4>2. a # "http/"
        BY DEF Settings, Ack
      <4>3. CASE pieces = <<a>>
        BY <4>2, <4>3
      <4>4. CASE pieces = <<a, b>>
        BY <4>2, <4>4
      <4> QED BY <4>1, <4>3, <4>4
    <3>3. \/ peer.frames = <<Settings>>
          \/ \E a, b \in {Settings, Ack, "window"} : peer.frames = <<a, b>>
      BY <1>1 DEF Preambles
    <3> QED BY <3>1, <3>2, <3>3
  <2> QED BY <2>1, <2>2
<1> QED
  BY <1>1, <1>2, <1>3, <1>4

\* The first answer of a WebSocket or of a stream of events shows what the server does,
\* and then it asked for no certificate.
LEMMA SupportTells ==
  ASSUME probe \in {"websocket", "sse"}, peer \in AppServers(probe), NEW pieces,
         Begins(pieces, Pieces(probe, peer, FALSE)), Supported(pieces)
  PROVE /\ ~peer.asks
        /\ probe = "websocket" => peer.upgrades /\ peer.token
        /\ probe = "sse" => peer.streams
<1>1. ~peer.asks
  <2> SUFFICES ASSUME peer.asks PROVE FALSE
    OBVIOUS
  <2>1. Begins(pieces, <<>>)
    BY OtherPieces
  <2>2. pieces = <<>>
    BY <2>1, CutOfNothing
  <2>3. Len(pieces) # 2 /\ pieces # <<"101", "rest">>
    BY <2>2
  <2> QED BY <2>3 DEF Supported, Upgraded, Streams
<1>2. CASE probe = "websocket"
  <2>1. pieces = <<"101", "rest">> /\ peer.token
    BY <1>2 DEF Supported, Upgraded
  <2>2. peer.upgrades
    <3> SUFFICES ASSUME ~peer.upgrades PROVE FALSE
      OBVIOUS
    <3>1. Pieces(probe, peer, FALSE) = <<"400", "rest">>
      BY <1>1, <1>2, OtherPieces
    <3>2. pieces \in {<<>>, <<"400">>, <<"400", "rest">>}
      BY <3>1, CutOfTwo
    <3> QED BY <2>1, <3>2
  <2> QED BY <1>1, <1>2, <2>1, <2>2
<1>3. CASE probe = "sse"
  <2>1. peer.streams
    BY <1>3 DEF Supported, Streams
  <2> QED BY <1>1, <1>3, <2>1
<1> QED
  BY <1>2, <1>3

\* The first answer of a server that does it, all of it, shows that it does.
LEMMA SupportShows ==
  ASSUME probe \in {"websocket", "sse"}, peer \in AppServers(probe), NEW pieces,
         Begins(pieces, Pieces(probe, peer, FALSE)),
         Len(pieces) = 2 \/ pieces = Pieces(probe, peer, FALSE),
         ~peer.asks, IF probe = "websocket" THEN peer.upgrades /\ peer.token ELSE peer.streams
  PROVE Supported(pieces)
<1>1. CASE probe = "websocket"
  <2>1. Pieces(probe, peer, FALSE) = <<"101", "rest">>
    BY <1>1, OtherPieces
  <2>2. pieces \in {<<>>, <<"101">>, <<"101", "rest">>}
    BY <2>1, CutOfTwo
  <2>3. Len(<<>>) # 2 /\ Len(<<"101">>) # 2
    OBVIOUS
  <2>4. pieces = <<"101", "rest">>
    BY <2>1, <2>2, <2>3
  <2> QED BY <1>1, <2>4 DEF Supported, Upgraded
<1>2. CASE probe = "sse"
  <2>1. Pieces(probe, peer, FALSE) = <<"200", "rest">>
    BY <1>2, OtherPieces
  <2>2. Len(<<"200", "rest">>) = 2
    OBVIOUS
  <2>3. Len(pieces) = 2
    BY <2>1, <2>2
  <2> QED BY <1>2, <2>3 DEF Supported, Streams
<1> QED
  BY <1>1, <1>2

\* An answer of gRPC that is not cut holds the headers it is made of.
LEMMA GrpcHears ==
  ASSUME peer \in AppServers("grpc"), NEW pieces,
         Begins(pieces, Pieces("grpc", peer, FALSE)),
         ~peer.asks, peer.alpn = "h2", peer.says = "headers",
         Ready("grpc", pieces) \/ pieces = Pieces("grpc", peer, FALSE)
  PROVE \E i \in 1..Len(pieces) : pieces[i] = "headers"
<1>1. Pieces("grpc", peer, FALSE) = <<"settings", "settings_ack", "headers">>
  BY OtherPieces
<1>2. pieces \in {<<>>, <<"settings">>, <<"settings", "settings_ack">>,
                  <<"settings", "settings_ack", "headers">>}
  BY <1>1, CutOfThree
<1>3. Ready("grpc", pieces) => Holding(pieces, {"headers", "rst_stream", "goaway"})
  BY DEF Ready
<1>4. pieces = <<"settings", "settings_ack", "headers">>
  <2> DEFINE some == {"headers", "rst_stream", "goaway"}
  <2>1. "settings" \notin some /\ "settings_ack" \notin some
    OBVIOUS
  <2> HIDE DEF some
  <2>2. ~Holding(<<>>, some) /\ ~Holding(<<"settings">>, some) /\ ~Holding(<<"settings", "settings_ack">>, some)
    BY <2>1, ReadsNothing, ReadsOne, ReadsTwo
  <2>3. Holding(pieces, some) \/ pieces = <<"settings", "settings_ack", "headers">>
    BY <1>1, <1>3 DEF some
  <2> QED BY <1>2, <2>2, <2>3
<1>5. Holding(pieces, {"headers"})
  BY <1>4, ReadsThree
<1> QED
  BY <1>5 DEF Holding

\* What the answer to a foreign origin shows.
LEMMA ForeignTells ==
  ASSUME probe \in {"websocket", "sse"}, peer \in AppServers(probe), NEW pieces, NEW lost \in Nat,
         Begins(pieces, Pieces(probe, peer, TRUE)), ~peer.asks,
         probe = "websocket" => peer.upgrades,
         Len(pieces) = 2 \/ pieces = Pieces(probe, peer, TRUE) \/ lost > 0
  PROVE /\ Foreign(pieces) \in {"open", "enforced"}
        /\ probe = "websocket" => /\ Foreign(pieces) = "open" => ~peer.checks
                                  /\ Foreign(pieces) = "enforced" => peer.checks \/ lost > 0
        /\ probe = "sse" => /\ Foreign(pieces) = "open" => peer.allow = "reflects"
                            /\ Foreign(pieces) = "enforced" => peer.allow # "reflects" \/ lost > 0
<1>1. Foreign(pieces) \in {"open", "enforced"}
  BY DEF Foreign
<1>2. CASE probe = "websocket"
  <2>1. Foreign(pieces) = IF pieces # <<>> /\ pieces[1] = "101" THEN "open" ELSE "enforced"
    BY <1>2 DEF Foreign
  <2>2. CASE peer.checks
    <3>1. Pieces(probe, peer, TRUE) = <<"400", "rest">>
      BY <1>2, <2>2, OtherPieces
    <3>2. pieces \in {<<>>, <<"400">>, <<"400", "rest">>}
      BY <3>1, CutOfTwo
    <3>3. Foreign(pieces) = "enforced"
      BY <2>1, <3>2
    <3> QED BY <1>2, <2>2, <3>3
  <2>3. CASE ~peer.checks
    <3>1. Pieces(probe, peer, TRUE) = <<"101", "rest">>
      BY <1>2, <2>3, OtherPieces
    <3>2. pieces \in {<<>>, <<"101">>, <<"101", "rest">>}
      BY <3>1, CutOfTwo
    <3>3. pieces = <<>> => lost > 0
      <4>1. Len(<<>>) # 2 /\ <<"101", "rest">> # <<>>
        OBVIOUS
      <4> QED BY <3>1, <4>1
    <3>4. pieces # <<>> => Foreign(pieces) = "open"
      BY <2>1, <3>2
    <3> QED BY <1>1, <1>2, <2>3, <3>3, <3>4
  <2> QED BY <2>2, <2>3
<1>3. CASE probe = "sse"
  <2>1. Foreign(pieces) = IF Len(pieces) = 2 /\ peer.allow = "reflects" THEN "open" ELSE "enforced"
    BY <1>3 DEF Foreign
  <2>2. Pieces(probe, peer, TRUE) = <<"200", "rest">>
    BY <1>3, OtherPieces
  <2>3. Len(pieces) = 2 \/ lost > 0
    <3>1. Len(<<"200", "rest">>) = 2
      OBVIOUS
    <3> QED BY <2>2, <3>1
  <2> QED BY <1>1, <1>3, <2>1, <2>3
<1> QED
  BY <1>2, <1>3

-----------------------------------------------------------------------------
(* What the probes of what is offered over TLS hold at any time.            *)

\* While one of these probes runs, only its own steps are taken.
LEMMA AppFamily ==
  ASSUME [Next]_vars, probe \in AppKinds
  PROVE AppStep \/ UNCHANGED <<run, app>>
<1> USE DEF AppKinds
<1>1. CASE HandshakeStep
  BY <1>1 DEF HandshakeStep, HandshakeProbes, Probes12, Probes13, Receive, Send, SendAgain,
              ReadNothing, LinkBreaks
<1>2. CASE QuicStep
  BY <1>2 DEF QuicStep
<1>3. CASE FeatureStep
  BY <1>3 DEF FeatureStep, FeatureKinds, EchoProbes, Ask, Tell
<1>4. CASE NameStep
  BY <1>4 DEF NameStep, PolicyChecks, Resolve, AskSystem, FetchSigned, Climb, RootKeys, Descend
<1>5. CASE DenialStep
  BY <1>5 DEF DenialStep, Prove
<1>6. CASE UNCHANGED vars
  BY <1>6 DEF vars
<1> QED
  BY <1>1, <1>2, <1>3, <1>4, <1>5, <1>6 DEF Next

\* Nothing read is a beginning of everything.
LEMMA BeginsEmpty ==
  ASSUME NEW sent \in Seq(PieceSet)
  PROVE Begins(<<>>, sent)
<1>1. <<>> \in Seq(PieceSet) /\ Len(<<>>) = 0 /\ Len(sent) \in Nat
  BY LenProperties
<1> QED
  BY <1>1 DEF Begins

\* Nothing has been read yet.
LEMMA AppBegins == Init => AppInv
<1> SUFFICES ASSUME Init, probe \in AppKinds PROVE AppInv
  BY DEF AppInv
<1>1. AppInit
  <2> USE DEF AppKinds, Begin
  <2>1. ~HandshakeInit
    BY DEF HandshakeInit, HandshakeProbes, Probes12, Probes13
  <2>2. ~QuicInit
    BY DEF QuicInit
  <2>3. ~FeatureInit
    BY DEF FeatureInit, FeatureKinds, EchoProbes
  <2>4. ~NameInit
    BY DEF NameInit, PolicyChecks
  <2>5. ~DenialInit
    BY DEF DenialInit
  <2> QED BY <2>1, <2>2, <2>3, <2>4, <2>5 DEF Init
<1>2. /\ peer \in AppServers(probe) /\ pc \in {"write", "read"} /\ faults = 0 /\ answer = <<>>
      /\ pc = "write" => probe = "grpc"
  BY <1>1 DEF AppInit, Begin
<1>3. Begins(<<>>, Pieces(probe, peer, FALSE))
  BY <1>2, PiecesTyped, BeginsEmpty
<1> QED
  BY <1>2, <1>3 DEF AppInv

\* What was read tells the truth, or leads to a second question.
LEMMA ResultTells ==
  ASSUME AppInv, probe \in AppKinds, pc \in {"read", "second"}, DecodedAsWritten, NEW pieces,
         Begins(pieces, Pieces(probe, peer, pc = "second")),
         Ready(probe, pieces) \/ pieces = Pieces(probe, peer, pc = "second") \/ faults' > 0,
         faults' \in Nat, faults' >= faults,
         Result(pieces), answer' = <<>>, UNCHANGED <<probe, peer, block, fields>>
  PROVE AppInv'
<1>1. peer \in AppServers(probe) /\ (pc = "second" => FirstTold)
  BY DEF AppInv
<1>2. pc = "second" => probe \in {"http", "websocket", "sse"}
  BY <1>1 DEF FirstTold
<1>3. SUFFICES \/ pc' = "done" /\ AppVerdictsTrue'
               \/ pc' = "second" /\ FirstTold'
  <2>1. pc' = "second" => Begins(answer, Pieces(probe, peer, pc = "second"))'
    <3>1. Pieces(probe, peer, TRUE) \in Seq(PieceSet)
      BY <1>1, PiecesTyped
    <3> QED BY <3>1, BeginsEmpty
  <2> QED BY <1>1, <2>1 DEF AppInv
<1>4. CASE probe = "http2"
  <2>1. pc = "read" /\ pc' = "done" /\ verdict' = Http2Verdict(pieces)
    BY <1>2, <1>4 DEF Result, Again, Conclude
  <2>2. ~(pc = "second")
    BY <2>1
  <2>3. peer.alpn = "h2" => SettingsPresent(pieces) \/ faults' > 0 \/ peer.asks
    BY <1>1, <1>4, <2>2, Http2Tells
  <2>4. /\ verdict'.supported = IF peer.alpn = "h2" THEN "yes" ELSE "no"
        /\ verdict'.detail = IF peer.alpn = "h2" /\ SettingsPresent(pieces) THEN peer.streams ELSE "none"
    BY <2>1 DEF Http2Verdict, Found
  <2>5. faults' = 0 => ~(faults' > 0)
    OBVIOUS
  <2>6. /\ verdict'.supported = "yes" <=> peer.alpn = "h2"
        /\ verdict'.detail \in {"none", peer.streams}
        /\ peer.alpn = "h2" /\ faults' = 0 /\ ~peer.asks => verdict'.detail = peer.streams
    BY <2>3, <2>4, <2>5
  <2> QED BY <1>4, <2>1, <2>6 DEF AppVerdictsTrue
<1>5. CASE probe = "grpc"
  <2>1. pc' = "done" /\ verdict' = GrpcVerdict(pieces)
    BY <1>2, <1>5 DEF Result, Again, Conclude
  <2>2. Decode(block).out = fields /\ ~Decode(block).bad
    BY <1>5 DEF DecodedAsWritten
  <2> DEFINE heard == \E i \in 1..Len(pieces) : pieces[i] = "headers"
             said == \E i \in 1..Len(fields) : fields[i] = "grpc"
  <2>3. verdict'.supported = IF peer.alpn = "h2" /\ heard /\ said THEN "yes" ELSE "no"
    BY <2>1, <2>2 DEF GrpcVerdict, Found
  <2>4. faults' = 0 /\ ~peer.asks /\ peer.alpn = "h2" /\ peer.says = "headers" => heard
    <3> SUFFICES ASSUME faults' = 0, ~peer.asks, peer.alpn = "h2", peer.says = "headers" PROVE heard
      OBVIOUS
    <3>1. ~(faults' > 0) /\ ~(pc = "second")
      BY <1>2, <1>5
    <3> QED BY <1>1, <1>5, <3>1, GrpcHears
  <2> HIDE DEF heard
  <2>5. /\ verdict'.supported = "yes" => said
        /\ faults' = 0 /\ ~peer.asks /\ peer.alpn = "h2" /\ peer.says = "headers" =>
             (verdict'.supported = "yes" <=> said)
    BY <2>3, <2>4
  <2> QED BY <1>5, <2>1, <2>5 DEF AppVerdictsTrue
<1>6. CASE probe = "cleartext"
  <2>1. pc = "read" /\ pc' = "done" /\ verdict' = CleartextVerdict(pieces)
    BY <1>2, <1>6 DEF Result, Again, Conclude
  <2>2. ~(pc = "second") /\ (Ready(probe, pieces) => Holding(pieces, {"blank"}))
    BY <1>6, <2>1 DEF Ready
  <2>3. /\ Holding(pieces, {"200"}) => peer.speaks = "http"
        /\ ~Holding(pieces, {"200"}) => peer.speaks # "http" \/ faults' > 0
    BY <1>1, <1>6, <2>2, ClearTells
  <2>4. verdict'.supported = IF Holding(pieces, {"200"}) THEN "yes" ELSE "no"
    BY <2>1 DEF CleartextVerdict, Found
  <2> QED BY <1>6, <2>1, <2>3, <2>4 DEF AppVerdictsTrue
<1>7. CASE probe = "http" /\ pc = "read"
  <2>1. pc' = "second" /\ verdict' = HttpVerdict(pieces)
    BY <1>7 DEF Result, Again
  <2>2. ~(pc = "second") /\ (Ready(probe, pieces) => PageComplete(pieces))
    BY <1>7 DEF Ready
  <2>3. \E d : HttpVerdict(pieces) = Found("http", TRUE, d) /\ HttpClaims(d, faults')
    BY <1>1, <1>7, <2>2, PageTells
  <2>4. FirstTold'
    BY <1>7, <2>1, <2>3 DEF FirstTold, HttpClaims
  <2> QED BY <2>1, <2>4
<1>8. CASE probe = "http" /\ pc = "second"
  <2>1. PICK d : verdict = Found("http", TRUE, d) /\ HttpClaims(d, faults)
    BY <1>1, <1>8 DEF FirstTold
  <2>2. pc' = "done" /\ verdict' = [verdict EXCEPT !.detail = @ \cup Cleartext(pieces)]
    BY <1>8 DEF Result, Again, Conclude
  <2>3. verdict'.supported = "yes" /\ verdict'.detail = d \cup Cleartext(pieces)
    BY <2>1, <2>2 DEF Found
  <2>4. Ready(probe, pieces) => Holding(pieces, {"blank"})
    BY <1>8 DEF Ready
  <2>5. /\ Cleartext(pieces) \subseteq {"no_redirect"}
        /\ "no_redirect" \in Cleartext(pieces) => peer.port80 = "serves" \/ faults' > 0
        /\ peer.port80 = "serves" /\ faults' = 0 => "no_redirect" \in Cleartext(pieces)
    BY <1>1, <1>8, <2>4, RedirectTells
  <2>6. HttpClaims(d, faults')
    BY <1>1, <1>8, <2>1 DEF HttpClaims, AppInv
  <2> DEFINE e == d \cup Cleartext(pieces)
  <2>7. /\ "no_hsts" \in e <=> "no_hsts" \in d
        /\ "short_hsts" \in e <=> "short_hsts" \in d
        /\ "mixed" \in e <=> "mixed" \in d
        /\ "no_redirect" \in e <=> "no_redirect" \in Cleartext(pieces)
    BY <2>5, <2>6 DEF HttpClaims
  <2> HIDE DEF e
  <2>8. verdict'.detail = e
    BY <2>3 DEF e
  <2> QED BY <1>8, <2>2, <2>5, <2>6, <2>7, <2>8 DEF AppVerdictsTrue, HttpClaims
<1>9. CASE probe \in {"websocket", "sse"} /\ pc = "read"
  <2>1. CASE Supported(pieces)
    <3>1. pc' = "second" /\ verdict' = Found(probe, TRUE, "none")
      BY <1>9, <2>1 DEF Result, Again
    <3>2. ~(pc = "second")
      BY <1>9
    <3>3. /\ ~peer.asks
          /\ probe = "websocket" => peer.upgrades /\ peer.token
          /\ probe = "sse" => peer.streams
      BY <1>1, <1>9, <2>1, <3>2, SupportTells
    <3>4. FirstTold'
      BY <1>9, <3>1, <3>3 DEF FirstTold
    <3> QED BY <3>1, <3>4
  <2>2. CASE ~Supported(pieces)
    <3>1. pc' = "done" /\ verdict' = Found(probe, FALSE, "none")
      BY <1>9, <2>2 DEF Result, Again, Conclude
    <3>2. verdict'.supported = "no" /\ verdict'.detail = "none"
      BY <3>1 DEF Found
    <3>3. faults' = 0 /\ ~peer.asks =>
            ~(IF probe = "websocket" THEN peer.upgrades /\ peer.token ELSE peer.streams)
      <4> SUFFICES ASSUME faults' = 0, ~peer.asks,
                          IF probe = "websocket" THEN peer.upgrades /\ peer.token ELSE peer.streams
                   PROVE FALSE
        OBVIOUS
      <4>1. ~(faults' > 0) /\ ~(pc = "second")
        BY <1>9
      <4>2. Ready(probe, pieces) => Len(pieces) = 2
        BY <1>9 DEF Ready
      <4> QED BY <1>1, <1>9, <2>2, <4>1, <4>2, SupportShows
    <3>4. CASE probe = "websocket"
      BY <3>1, <3>2, <3>3, <3>4 DEF AppVerdictsTrue
    <3>5. CASE probe = "sse"
      BY <3>1, <3>2, <3>3, <3>5 DEF AppVerdictsTrue
    <3> QED BY <1>9, <3>4, <3>5
  <2> QED BY <2>1, <2>2
<1>10. CASE probe \in {"websocket", "sse"} /\ pc = "second"
  <2>1. /\ verdict = Found(probe, TRUE, "none") /\ ~peer.asks
        /\ probe = "websocket" => peer.upgrades /\ peer.token
        /\ probe = "sse" => peer.streams
    BY <1>1, <1>10 DEF FirstTold
  <2>2. pc' = "done" /\ verdict' = [verdict EXCEPT !.detail = Foreign(pieces)]
    BY <1>10 DEF Result, Again, Conclude
  <2>3. verdict'.supported = "yes" /\ verdict'.detail = Foreign(pieces)
    BY <2>1, <2>2 DEF Found
  <2>4. Ready(probe, pieces) => Len(pieces) = 2
    BY <1>10 DEF Ready
  <2>5. /\ probe = "websocket" => /\ Foreign(pieces) = "open" => ~peer.checks
                                  /\ Foreign(pieces) = "enforced" => peer.checks \/ faults' > 0
        /\ probe = "sse" => /\ Foreign(pieces) = "open" => peer.allow = "reflects"
                            /\ Foreign(pieces) = "enforced" => peer.allow # "reflects" \/ faults' > 0
    BY <1>1, <1>10, <2>1, <2>4, ForeignTells
  <2>6. Foreign(pieces) \in {"open", "enforced"}
    BY DEF Foreign
  <2>7. faults' = 0 => ~(faults' > 0)
    OBVIOUS
  <2>8. faults' = 0 =>
          /\ probe = "websocket" => Foreign(pieces) = IF peer.checks THEN "enforced" ELSE "open"
          /\ probe = "sse" => Foreign(pieces) = IF peer.allow = "reflects" THEN "open" ELSE "enforced"
    BY <2>5, <2>6, <2>7
  <2>9. CASE probe = "websocket"
    BY <2>1, <2>2, <2>3, <2>5, <2>8, <2>9 DEF AppVerdictsTrue
  <2>10. CASE probe = "sse"
    BY <2>1, <2>2, <2>3, <2>5, <2>8, <2>10 DEF AppVerdictsTrue
  <2> QED BY <1>10, <2>9, <2>10
<1> QED
  BY <1>2, <1>4, <1>5, <1>6, <1>7, <1>8, <1>9, <1>10 DEF AppKinds


\* What was told of the first answer stays told.
LEMMA FirstStaysTold ==
  ASSUME FirstTold, peer \in AppServers(probe), UNCHANGED <<probe, peer, verdict>>,
         faults \in Nat, faults' \in Nat, faults' >= faults
  PROVE FirstTold'
<1>1. ASSUME NEW d, HttpClaims(d, faults)
      PROVE HttpClaims(d, faults)'
  <2>1. faults > 0 => faults' > 0
    OBVIOUS
  <2>2. faults' = 0 => faults = 0
    OBVIOUS
  <2>3. peer' = peer
    OBVIOUS
  <2> QED BY <1>1, <2>1, <2>2, <2>3 DEF HttpClaims
<1>2. probe = "http" => \E d : verdict' = Found("http", TRUE, d) /\ HttpClaims(d, faults)'
  BY <1>1 DEF FirstTold
<1> QED
  BY <1>2 DEF FirstTold

\* A verdict that stands without the second answer is true.
LEMMA ToldIsTrue ==
  ASSUME FirstTold', faults' > 0
  PROVE AppVerdictsTrue'
<1>1. CASE probe' = "http"
  <2>1. PICK d : verdict' = Found("http", TRUE, d) /\ HttpClaims(d, faults)'
    BY <1>1 DEF FirstTold
  <2>2. verdict'.detail = d /\ "no_redirect" \notin d
    BY <2>1 DEF Found, HttpClaims
  <2>3. faults' # 0
    OBVIOUS
  <2> QED BY <1>1, <2>1, <2>2, <2>3 DEF AppVerdictsTrue, HttpClaims
<1>2. CASE probe' \in {"websocket", "sse"}
  <2>1. verdict' = Found(probe', TRUE, "none")
    BY <1>2 DEF FirstTold
  <2>2. verdict'.supported = "yes" /\ verdict'.detail = "none"
    BY <2>1 DEF Found
  <2>3. faults' # 0
    OBVIOUS
  <2> QED BY <1>2, <2>2, <2>3 DEF AppVerdictsTrue, FirstTold
<1> QED
  BY <1>1, <1>2 DEF FirstTold

\* One more piece of what the server sends.
LEMMA BeginsLonger ==
  ASSUME NEW pieces, NEW sent, Begins(pieces, sent), Len(pieces) < Len(sent)
  PROVE Begins(Append(pieces, sent[Len(pieces) + 1]), sent)
<1>1. PICK k \in Nat : k = Len(pieces) /\ pieces \in Seq(PieceSet)
  BY LenProperties DEF Begins
<1>2. PICK n \in Nat : n = Len(sent) /\ sent \in Seq(PieceSet)
  BY LenProperties DEF Begins
<1>3. k < n /\ \A i \in 1..k : pieces[i] = sent[i]
  BY <1>1, <1>2 DEF Begins
<1> DEFINE x == sent[k + 1]
           longer == Append(pieces, x)
<1>4. x \in PieceSet
  BY <1>2, <1>3, ElementOfSeq
<1> HIDE DEF x
<1>5. /\ longer \in Seq(PieceSet) /\ Len(longer) = k + 1
      /\ \A i \in 1..k : longer[i] = pieces[i]
      /\ longer[k + 1] = x
  BY <1>1, <1>4, AppendProperties
<1> HIDE DEF longer
<1>6. \A i \in 1..(k + 1) : longer[i] = sent[i]
  <2>1. \A i \in 1..(k + 1) : i \in 1..k \/ i = k + 1
    BY <1>1
  <2> QED BY <1>3, <1>5, <2>1 DEF x
<1>7. Begins(longer, sent)
  BY <1>2, <1>3, <1>5, <1>6 DEF Begins
<1> QED
  BY <1>1, <1>7 DEF longer, x

\* A failure counts once.
LEMMA FaultsGrow ==
  ASSUME faults \in Nat, Fault \/ NoFault
  PROVE faults' \in Nat /\ faults' >= faults /\ (Fault => faults' > 0)
BY DEF Fault, NoFault

\* Every step keeps it: a piece more, the end of an answer, a failure.
LEMMA AppGoesOn == AppInv /\ DecodedAsWritten /\ [Next]_vars => AppInv'
<1> SUFFICES ASSUME AppInv, DecodedAsWritten, [Next]_vars, probe' \in AppKinds
             PROVE AppInv'
  BY DEF AppInv
<1>1. probe' = probe
  BY HandshakeFamily
<1>2. probe \in AppKinds
  BY <1>1
<1>3. /\ peer \in AppServers(probe) /\ faults \in Nat
      /\ pc \in {"read", "second"} => Begins(answer, Pieces(probe, peer, pc = "second"))
      /\ pc = "second" => FirstTold
  BY <1>2 DEF AppInv
<1>4. CASE Write
  <2>1. /\ pc = "write" /\ probe = "grpc" /\ pc' \in {"write", "read"}
        /\ UNCHANGED <<probe, peer, verdict, answer, faults>>
    BY <1>4 DEF Write, NoFault
  <2>2. answer' = <<>>
    BY <1>2, <2>1 DEF AppInv
  <2>3. Begins(answer', Pieces(probe, peer, FALSE))
    BY <1>2, <1>3, <2>2, PiecesTyped, BeginsEmpty
  <2> QED BY <1>2, <1>3, <2>1, <2>2, <2>3 DEF AppInv
<1>5. CASE Piece
  <2> DEFINE sent == Pieces(probe, peer, pc = "second")
             read == Append(answer, sent[Len(answer) + 1])
  <2>1. /\ pc \in {"read", "second"} /\ Len(answer) < Len(sent)
        /\ UNCHANGED <<probe, peer, block, fields, faults>>
    BY <1>5 DEF Piece, NoFault
  <2>2. Begins(read, sent)
    BY <1>3, <2>1, BeginsLonger
  <2>3. CASE Ready(probe, read)
    <3>1. Result(read) /\ answer' = <<>>
      BY <1>5, <2>3 DEF Piece
    <3>2. faults' \in Nat /\ faults' >= faults
      BY <1>3, <2>1
    <3> HIDE DEF read
    <3> QED BY <1>2, <2>1, <2>2, <2>3, <3>1, <3>2, ResultTells
  <2>4. CASE ~Ready(probe, read)
    <3>1. answer' = read /\ UNCHANGED <<pc, verdict>>
      BY <1>5, <2>4 DEF Piece
    <3>2. pc = "second" => FirstTold'
      BY <1>3, <2>1, <3>1, FirstStaysTold
    <3> HIDE DEF read
    <3>3. Begins(answer, Pieces(probe, peer, pc = "second"))'
      BY <2>1, <2>2, <3>1
    <3> QED BY <1>3, <2>1, <3>1, <3>2, <3>3 DEF AppInv
  <2> QED BY <2>3, <2>4
<1>6. CASE Ends
  <2>1. /\ pc \in {"read", "second"} /\ Result(answer) /\ answer' = <<>>
        /\ UNCHANGED <<probe, peer, block, fields>>
    BY <1>6 DEF Ends
  <2>2. /\ Fault \/ NoFault
        /\ answer = Pieces(probe, peer, pc = "second") \/ Fault
    BY <1>6 DEF Ends
  <2>3. faults' \in Nat /\ faults' >= faults /\ (Fault => faults' > 0)
    BY <1>3, <2>2, FaultsGrow
  <2>4. answer = Pieces(probe, peer, pc = "second") \/ faults' > 0
    BY <2>2, <2>3
  <2> QED BY <1>2, <1>3, <2>1, <2>3, <2>4, ResultTells
<1>7. CASE Fails
  <2>1. /\ pc \in {"read", "second"} /\ Fault /\ pc' = "done" /\ answer' = <<>>
        /\ UNCHANGED <<probe, peer, block, fields>>
    BY <1>7 DEF Fails, Conclude
  <2>2. faults' \in Nat /\ faults' >= faults /\ faults' > 0
    BY <1>3, <2>1, FaultsGrow
  <2>3. AppVerdictsTrue'
    <3>1. CASE pc = "second"
      <4>1. verdict' = verdict
        <5>1. probe # "cleartext"
          BY <1>3, <3>1 DEF FirstTold
        <5> QED BY <1>7, <3>1, <5>1 DEF Fails, Conclude
      <4>2. FirstTold'
        BY <1>3, <2>1, <2>2, <3>1, <4>1, FirstStaysTold
      <4> QED BY <2>1, <2>2, <4>2, ToldIsTrue
    <3>2. CASE pc # "second" /\ probe = "cleartext"
      <4>1. verdict' = CleartextVerdict(<<>>)
        BY <1>7, <3>2 DEF Fails, Conclude
      <4>2. ~Holding(<<>>, {"200"})
        BY ReadsNothing
      <4>3. verdict'.supported = "no"
        BY <4>1, <4>2 DEF CleartextVerdict, Found
      <4> QED BY <2>1, <2>2, <3>2, <4>3 DEF AppVerdictsTrue
    <3>3. CASE pc # "second" /\ probe # "cleartext"
      <4>1. verdict' = AppFailed(probe)
        BY <1>7, <3>3 DEF Fails, Conclude
      <4>2. verdict'.supported = "unknown"
        BY <4>1 DEF AppFailed
      <4> QED BY <4>2 DEF AppVerdictsTrue
    <3> QED BY <3>1, <3>2, <3>3
  <2> QED BY <1>2, <1>3, <2>1, <2>2, <2>3 DEF AppInv
<1>8. CASE UNCHANGED <<run, app>>
  <2>1. UNCHANGED <<probe, peer, pc, faults, verdict, answer, block, fields>>
    BY <1>8 DEF run, app
  <2>2. pc = "second" => FirstTold'
    BY <1>3, <2>1, FirstStaysTold
  <2>3. pc = "done" => AppVerdictsTrue'
    BY <1>2, <2>1 DEF AppInv, AppVerdictsTrue
  <2>4. pc \in {"read", "second"} => Begins(answer, Pieces(probe, peer, pc = "second"))'
    BY <1>3, <2>1
  <2> QED BY <1>2, <2>1, <2>2, <2>3, <2>4 DEF AppInv
<1> QED
  BY <1>2, <1>4, <1>5, <1>6, <1>7, <1>8, AppFamily DEF AppStep

-----------------------------------------------------------------------------
(* The decoder of a block and the server that wrote it agree.               *)

\* The table the decoder has built is the writer's, and it has read what was written.
BlockInv ==
    probe = "grpc" =>
        /\ block \in Seq(BlockFields) /\ fields \in Seq(Headers)
        /\ InStep(Decode(block), Writer(block))
        /\ Decode(block).out = fields /\ ~Decode(block).bad

\* Which fields a server may write.
LEMMA FieldsWritten ==
  /\ \A h \in Headers : Insert(h) \in BlockFields /\ Literal(h) \in BlockFields
  /\ \A i \in Nat : i >= 1 => Indexed(i) \in BlockFields
  /\ \A n \in Nat : Resize(n) \in BlockFields
BY DEF BlockFields, Insert, Literal, Indexed, Resize, Headers

\* An index means the same header to both.
LEMMA IndexAgrees ==
  ASSUME NEW d \in Sound, NEW table \in Seq(Headers), d.dynamic = table,
         NEW i \in 1..(Len(Static) + Len(table))
  PROVE Entry(d, i) = (Static \o table)[i] /\ (Static \o table)[i] \in Headers
<1>1. PICK m \in Nat : m = Len(table)
  BY LenProperties
<1>2. Static \in Seq(Headers) /\ Len(Static) = 1
  BY DEF Static, Headers
<1>3. /\ Static \o table \in Seq(Headers) /\ Len(Static \o table) = Len(Static) + Len(table)
      /\ \A k \in 1..(Len(Static) + Len(table)) :
            (Static \o table)[k] = IF k <= Len(Static) THEN Static[k] ELSE table[k - Len(Static)]
  BY <1>2, ConcatProperties
<1>4. (Static \o table)[i] = IF i <= 1 THEN Static[i] ELSE table[i - 1]
  BY <1>2, <1>3
<1>5. (Static \o table)[i] \in Headers
  <2>1. i \in 1..Len(Static \o table)
    BY <1>3
  <2> HIDE <1>3
  <2>2. Static \o table \in Seq(Headers)
    BY <1>3
  <2> QED BY <2>1, <2>2, ElementOfSeq
<1>6. i \in Nat /\ i <= 1 + m
  BY <1>1, <1>2
<1>7. Entry(d, i) = IF i <= 1 THEN Static[i] ELSE table[i - 1]
  <2>1. ~(i <= 1) => i - 1 <= m
    BY <1>6
  <2> QED BY <1>1, <1>2, <2>1 DEF Entry
<1> QED
  BY <1>4, <1>5, <1>7

\* Both tables start empty.
LEMMA BlockBegins == Init => BlockInv
<1> SUFFICES ASSUME Init, probe = "grpc" PROVE BlockInv
  BY DEF BlockInv
<1>1. block = <<>> /\ fields = <<>>
  BY DEF Init, AppIdle, AppInit
<1>2. <<>> \in Seq(BlockFields) /\ <<>> \in Seq(Headers)
  OBVIOUS
<1>3. /\ NewDecoder.dynamic = <<>> /\ NewDecoder.limit = 4
      /\ NewDecoder.out = <<>> /\ NewDecoder.bad = FALSE
  BY DEF NewDecoder
<1>4. Writer(<<>>).table = <<>> /\ Writer(<<>>).limit = 4
  BY NoFieldYet
<1> QED
  BY <1>1, <1>2, <1>3, <1>4, NoFieldYet DEF BlockInv, InStep

\* A field that adds the same header to what was written and to what was read, or none to
\* either, keeps them the same.
LEMMA BlockGrows ==
  ASSUME BlockInv, probe = "grpc", NEW f \in BlockFields, block' = Append(block, f),
         \/ f.kind \in {"insert", "literal"} /\ fields' = Append(fields, f.header)
         \/ /\ f.kind = "indexed" /\ fields' = Append(fields, Entry(Decode(block), f.number))
            /\ Entry(Decode(block), f.number) \in Headers
         \/ f.kind = "resize" /\ fields' = fields
  PROVE BlockInv'
<1> DEFINE d == Decode(block)
           w == Writer(block)
<1>1. /\ block \in Seq(BlockFields) /\ fields \in Seq(Headers)
      /\ InStep(d, w) /\ d.out = fields /\ ~d.bad
  BY DEF BlockInv
<1>2. d \in Sound /\ w \in Writers
  BY <1>1, FieldMore
<1>3. Decode(block') = Decoded(d, f) /\ Writer(block') = Written(w, f)
  BY <1>1, FieldMore
<1> HIDE DEF d, w
<1>4. block' \in Seq(BlockFields)
  BY <1>1
<1>5. InStep(Decode(block'), Writer(block'))
  BY <1>1, <1>2, <1>3, StaysInStep
<1>6. f.header \in Headers
  BY DEF BlockFields
<1>7. fields' \in Seq(Headers)
  <2>1. \A x \in Headers : Append(fields, x) \in Seq(Headers)
    BY <1>1, AppendProperties
  <2> QED BY <1>1, <1>6, <2>1
<1>8. Decoded(d, f).out = fields' /\ ~Decoded(d, f).bad
  <2>1. CASE f.kind \in {"insert", "literal"}
    BY <1>1, <1>2, <2>1, DecodedSound
  <2>2. CASE f.kind = "indexed"
    <3>1. Entry(d, f.number) # "bad" /\ fields' = Append(fields, Entry(d, f.number))
      BY <2>2 DEF d, Headers
    <3> QED BY <1>1, <1>2, <2>2, <3>1, DecodedSound
  <2>3. CASE f.kind = "resize"
    BY <1>1, <1>2, <2>3, DecodedSound
  <2> QED BY <2>1, <2>2, <2>3
<1> QED
  BY <1>3, <1>4, <1>5, <1>7, <1>8 DEF BlockInv

\* Every field that is written keeps them alike.
LEMMA BlockGoesOn == BlockInv /\ [Next]_vars => BlockInv'
<1> SUFFICES ASSUME BlockInv, [Next]_vars, probe' = "grpc" PROVE BlockInv'
  BY DEF BlockInv
<1>1. probe = "grpc" /\ probe \in AppKinds
  BY HandshakeFamily DEF AppKinds
<1>2. ASSUME UNCHANGED <<block, fields>> PROVE BlockInv'
  BY <1>1, <1>2 DEF BlockInv
<1>3. CASE Write
  <2> DEFINE d == Decode(block)
             table == Writer(block).table
  <2>1. /\ block \in Seq(BlockFields) /\ d \in Sound /\ d.dynamic = table /\ table \in Seq(Headers)
    <3>1. block \in Seq(BlockFields) /\ InStep(Decode(block), Writer(block))
      BY <1>1 DEF BlockInv
    <3>2. \E f : f \in BlockFields
      BY FieldsWritten DEF Headers
    <3>3. Decode(block) \in Sound /\ Writer(block) \in Writers
      BY <3>1, <3>2, FieldMore
    <3> QED BY <3>1, <3>3 DEF InStep, Writers
  <2>2. CASE UNCHANGED <<block, fields>>
    BY <1>2, <2>2
  <2>3. ASSUME NEW h \in Headers, NEW f \in {Insert(h), Literal(h)},
               block' = Append(block, f), fields' = Append(fields, h)
        PROVE BlockInv'
    <3>1. f \in BlockFields /\ f.kind \in {"insert", "literal"} /\ f.header = h
      <4>1. CASE f = Insert(h)
        BY <4>1, FieldsWritten DEF Insert
      <4>2. CASE f = Literal(h)
        BY <4>2, FieldsWritten DEF Literal
      <4> QED BY <2>3, <4>1, <4>2
    <3> QED BY <1>1, <2>3, <3>1, BlockGrows
  <2>4. ASSUME NEW i \in 1..(Len(Static) + Len(table)),
               block' = Append(block, Indexed(i)), fields' = Append(fields, (Static \o table)[i])
        PROVE BlockInv'
    <3>1. Entry(d, i) = (Static \o table)[i] /\ Entry(d, i) \in Headers
      BY <2>1, IndexAgrees
    <3>2. Indexed(i) \in BlockFields /\ Indexed(i).kind = "indexed" /\ Indexed(i).number = i
      <4>1. i \in Nat /\ i >= 1
        <5>1. Len(table) \in Nat /\ Len(Static) \in Nat
          BY <2>1, LenProperties DEF Static
        <5> QED BY <5>1
      <4> QED BY <4>1, FieldsWritten DEF Indexed
    <3> QED BY <1>1, <2>4, <3>1, <3>2, BlockGrows
  <2>5. ASSUME NEW n \in TableSizes, block' = Append(block, Resize(n)), fields' = fields
        PROVE BlockInv'
    <3>1. Resize(n) \in BlockFields /\ Resize(n).kind = "resize"
      BY AppProbesAssumption, FieldsWritten DEF Resize
    <3> QED BY <1>1, <2>5, <3>1, BlockGrows
  <2> QED BY <1>3, <2>2, <2>3, <2>4, <2>5 DEF Write
<1>4. CASE Piece \/ Ends \/ Fails
  BY <1>2, <1>4 DEF Piece, Ends, Fails
<1>5. CASE UNCHANGED <<run, app>>
  BY <1>2, <1>5 DEF app
<1> QED
  BY <1>1, <1>3, <1>4, <1>5, AppFamily DEF AppStep

\* The decoder reads every header block as its server wrote it, for blocks of any length and
\* tables of any size: their tables are the same after every field (hpack.Decoder).
THEOREM BlocksReadAsWritten == Spec => []DecodedAsWritten
<1>1. BlockInv => DecodedAsWritten
  BY DEF BlockInv, DecodedAsWritten
<1> QED
  BY <1>1, BlockBegins, BlockGoesOn, PTL DEF Spec

\* What is said of what a server offers over TLS, or on its plain port, is all of it and
\* true where nothing failed and no certificate was asked for; after an answer that ended
\* early what is said to be there still is, and what is said to be missing, or a check of
\* the origin to be enforced, may be false (http_layer.py and application/).
THEOREM OffersTellTheTruth == Spec => []AppVerdictsTrue
<1>1. AppInv => AppVerdictsTrue
  BY DEF AppInv, AppVerdictsTrue
<1>2. BlockInv => DecodedAsWritten
  BY DEF BlockInv, DecodedAsWritten
<1> QED
  BY <1>1, <1>2, AppBegins, AppGoesOn, BlockBegins, BlockGoesOn, PTL DEF Spec

\* What a probe of any family concludes, as a function of the server and of what got lost
\* on the way: the four theorems before this one together.
THEOREM ProbesTellTheTruth == Spec => []VerdictsTrue
<1>1. HandshakeVerdictsTrue /\ FeatureVerdictsTrue /\ OneFailureAccusesNobody /\ AppVerdictsTrue
        => VerdictsTrue
  BY DEF VerdictsTrue
<1> QED
  BY <1>1, HandshakesTellTheTruth, FeaturesTellTheTruth, RobotIsFair, OffersTellTheTruth, PTL

-----------------------------------------------------------------------------
(* QUIC: what is read of a flight.                                          *)

\* What the handshake stream is made of.
StreamUnits == {"ee_head", "ee_tail", "certificate", "finished"}

\* Four sequences one after the other.
LEMMA FlattenFour ==
  ASSUME NEW S, NEW c, Len(c) = 4, \A i \in 1..4 : c[i] \in Seq(S)
  PROVE FlattenSeq(c) = ((c[1] \o c[2]) \o c[3]) \o c[4]
<1> DEFINE Rule(g) == [i \in 1..4 |-> IF i = 1 THEN c[i] ELSE g[i - 1] \o c[i]]
           flat == CHOOSE g : g = Rule(g)
           x2 == c[1] \o c[2]
           x3 == x2 \o c[3]
           x4 == x3 \o c[4]
           f == [i \in 1..4 |-> IF i = 1 THEN c[1] ELSE IF i = 2 THEN x2 ELSE IF i = 3 THEN x3 ELSE x4]
<1>1. \A i \in 1..4 : i = 1 \/ i = 2 \/ i = 3 \/ i = 4
  OBVIOUS
<1>2. f[1] = c[1] /\ f[2] = x2 /\ f[3] = x3 /\ f[4] = x4
  <2> HIDE DEF x2, x3, x4
  <2> QED OBVIOUS
<1>3. f = [i \in 1..4 |-> f[i]]
  OBVIOUS
<1> HIDE DEF f
<1>4. f[1] = c[1] /\ f[2] = f[1] \o c[2] /\ f[3] = f[2] \o c[3] /\ f[4] = f[3] \o c[4]
  BY <1>2 DEF x2, x3, x4
<1>5. ASSUME NEW i \in 1..4 PROVE f[i] = IF i = 1 THEN c[i] ELSE f[i - 1] \o c[i]
  <2>1. 2 - 1 = 1 /\ 3 - 1 = 2 /\ 4 - 1 = 3
    OBVIOUS
  <2> QED BY <1>1, <1>4, <2>1
<1>6. f = Rule(f)
  <2>1. [i \in 1..4 |-> f[i]] = [i \in 1..4 |-> IF i = 1 THEN c[i] ELSE f[i - 1] \o c[i]]
    BY <1>5
  <2> QED BY <1>3, <2>1
<1>7. flat = Rule(flat)
  BY <1>6
<1>8. FlattenSeq(c) = flat[4]
  BY DEF FlattenSeq
<1> HIDE DEF flat
<1>9. \A i \in 1..4 : flat[i] = IF i = 1 THEN c[i] ELSE flat[i - 1] \o c[i]
  BY <1>7
<1> HIDE DEF Rule
<1>10. flat[1] = c[1] /\ flat[2] = flat[1] \o c[2] /\ flat[3] = flat[2] \o c[3] /\ flat[4] = flat[3] \o c[4]
  <2>1. 1 \in 1..4 /\ 2 \in 1..4 /\ 3 \in 1..4 /\ 4 \in 1..4
    OBVIOUS
  <2>2. 2 - 1 = 1 /\ 3 - 1 = 2 /\ 4 - 1 = 3 /\ 2 # 1 /\ 3 # 1 /\ 4 # 1
    OBVIOUS
  <2> QED BY <1>9, <2>1, <2>2
<1> QED
  BY <1>8, <1>10

\* The first two elements of two sequences joined.
Starts(S, x, y, xy) ==
    /\ xy \in Seq(S) /\ Len(xy) = Len(x) + Len(y)
    /\ x = <<>> => xy = y
    /\ Len(x) >= 1 => xy[1] = x[1]
    /\ Len(x) >= 2 => xy[2] = x[2]
    /\ Len(x) = 1 /\ Len(y) >= 1 => xy[2] = y[1]

\* A join starts with its first part that is not empty.
LEMMA JoinStarts ==
  ASSUME NEW S, NEW x \in Seq(S), NEW y \in Seq(S)
  PROVE Starts(S, x, y, x \o y)
<1>1. PICK n \in Nat : n = Len(x)
  BY LenProperties
<1>2. PICK m \in Nat : m = Len(y)
  BY LenProperties
<1>3. /\ x \o y \in Seq(S) /\ Len(x \o y) = Len(x) + Len(y)
      /\ \A i \in 1..(Len(x) + Len(y)) : (x \o y)[i] = IF i <= Len(x) THEN x[i] ELSE y[i - Len(x)]
  BY ConcatProperties
<1>4. \A i \in 1..(n + m) : (x \o y)[i] = IF i <= n THEN x[i] ELSE y[i - n]
  BY <1>1, <1>2, <1>3
<1>5. x = <<>> => x \o y = y
  BY ConcatEmptySeq
<1>6. ASSUME n >= 1 PROVE (x \o y)[1] = x[1]
  <2>1. 1 \in 1..(n + m) /\ 1 <= n
    BY <1>6
  <2> QED BY <1>4, <2>1
<1>7. ASSUME n >= 2 PROVE (x \o y)[2] = x[2]
  <2>1. 2 \in 1..(n + m) /\ 2 <= n
    BY <1>7
  <2> QED BY <1>4, <2>1
<1>8. n = 1 /\ m >= 1 => (x \o y)[2] = y[1]
  <2> SUFFICES ASSUME n = 1, m >= 1 PROVE (x \o y)[2] = y[1]
    OBVIOUS
  <2>1. 2 \in 1..(n + m) /\ ~(2 <= n) /\ 2 - n = 1
    OBVIOUS
  <2> QED BY <1>4, <2>1
<1> DEFINE xy == x \o y
<1> HIDE DEF xy
<1>9. Starts(S, x, y, xy)
  BY <1>1, <1>2, <1>3, <1>5, <1>6, <1>7, <1>8 DEF Starts, xy
<1> QED
  BY <1>9 DEF xy

\* The first two elements of a flight joined from four chunks.
LEMMA FourStart ==
  ASSUME NEW S, NEW c, Len(c) = 4, \A i \in 1..4 : c[i] \in Seq(S)
  PROVE LET b == FlattenSeq(c) IN
        /\ b \in Seq(S)
        /\ c[1] # <<>> => Len(b) >= 1 /\ b[1] = c[1][1]
        /\ c[1] = <<>> /\ c[2] # <<>> => b[1] = c[2][1]
        /\ c[1] = <<>> /\ c[2] = <<>> /\ c[3] # <<>> => b[1] = c[3][1]
        /\ c[1] = <<>> /\ c[2] = <<>> /\ c[3] = <<>> /\ c[4] # <<>> => b[1] = c[4][1]
        /\ c[1] = <<>> /\ c[2] = <<>> /\ c[3] = <<>> /\ c[4] = <<>> => b = <<>>
        /\ Len(c[1]) >= 2 => Len(b) >= 2 /\ b[2] = c[1][2]
        /\ Len(c[1]) = 1 /\ c[2] # <<>> => Len(b) >= 2 /\ b[2] = c[2][1]
<1> DEFINE x == c[1]
           y == c[2]
           z == c[3]
           w == c[4]
           xy == x \o y
           xyz == xy \o z
           b == xyz \o w
<1>1. x \in Seq(S) /\ y \in Seq(S) /\ z \in Seq(S) /\ w \in Seq(S)
  <2>1. 1 \in 1..4 /\ 2 \in 1..4 /\ 3 \in 1..4 /\ 4 \in 1..4
    OBVIOUS
  <2> QED BY <2>1
<1>2. FlattenSeq(c) = b
  BY FlattenFour
<1> HIDE DEF x, y, z, w
<1>3. /\ xy \in Seq(S) /\ Len(xy) = Len(x) + Len(y)
      /\ x = <<>> => xy = y
      /\ Len(x) >= 1 => xy[1] = x[1]
      /\ Len(x) >= 2 => xy[2] = x[2]
      /\ Len(x) = 1 /\ Len(y) >= 1 => xy[2] = y[1]
  <2>1. Starts(S, x, y, xy)
    BY <1>1, JoinStarts
  <2> HIDE DEF xy
  <2> QED BY <2>1 DEF Starts
<1> HIDE DEF xy
<1>4. /\ xyz \in Seq(S) /\ Len(xyz) = Len(xy) + Len(z)
      /\ xy = <<>> => xyz = z
      /\ Len(xy) >= 1 => xyz[1] = xy[1]
      /\ Len(xy) >= 2 => xyz[2] = xy[2]
  <2>1. Starts(S, xy, z, xyz)
    BY <1>1, <1>3, JoinStarts
  <2> HIDE DEF xyz
  <2> QED BY <2>1 DEF Starts
<1> HIDE DEF xyz
<1>5. /\ b \in Seq(S) /\ Len(b) = Len(xyz) + Len(w)
      /\ xyz = <<>> => b = w
      /\ Len(xyz) >= 1 => b[1] = xyz[1]
      /\ Len(xyz) >= 2 => b[2] = xyz[2]
  <2>1. Starts(S, xyz, w, b)
    BY <1>1, <1>4, JoinStarts
  <2> HIDE DEF b
  <2> QED BY <2>1 DEF Starts
<1> HIDE DEF b
<1>6. \A s \in Seq(S) : Len(s) \in Nat /\ (s # <<>> <=> Len(s) >= 1)
  <2> TAKE s \in Seq(S)
  <2>1. Len(s) \in Nat /\ (s = <<>> <=> Len(s) = 0)
    BY LenProperties, EmptySeq
  <2> QED BY <2>1
<1>7. /\ Len(x) \in Nat /\ Len(y) \in Nat /\ Len(z) \in Nat /\ Len(w) \in Nat
      /\ Len(xy) \in Nat /\ Len(xyz) \in Nat /\ Len(b) \in Nat
  BY <1>1, <1>3, <1>4, <1>5, <1>6
<1>8. x # <<>> => Len(b) >= 1 /\ b[1] = x[1]
  <2> SUFFICES ASSUME x # <<>> PROVE Len(b) >= 1 /\ b[1] = x[1]
    OBVIOUS
  <2>1. Len(x) >= 1
    BY <1>1, <1>6
  <2>2. Len(xy) >= 1 /\ Len(xyz) >= 1 /\ Len(b) >= 1
    BY <1>3, <1>4, <1>5, <1>7, <2>1, SMTT(30)
  <2> QED BY <1>3, <1>4, <1>5, <2>1, <2>2
<1>9. x = <<>> /\ y # <<>> => b[1] = y[1]
  <2> SUFFICES ASSUME x = <<>>, y # <<>> PROVE b[1] = y[1]
    OBVIOUS
  <2>1. xy = y /\ Len(y) >= 1
    BY <1>1, <1>3, <1>6
  <2>2. Len(xyz) >= 1
    BY <1>4, <1>7, <2>1
  <2> QED BY <1>4, <1>5, <2>1, <2>2
<1>10. x = <<>> /\ y = <<>> /\ z # <<>> => b[1] = z[1]
  <2> SUFFICES ASSUME x = <<>>, y = <<>>, z # <<>> PROVE b[1] = z[1]
    OBVIOUS
  <2>1. xyz = z /\ Len(z) >= 1
    BY <1>1, <1>3, <1>4, <1>6
  <2> QED BY <1>5, <2>1
<1>11. x = <<>> /\ y = <<>> /\ z = <<>> => b = w
  BY <1>3, <1>4, <1>5
<1>12. Len(x) >= 2 => Len(b) >= 2 /\ b[2] = x[2]
  <2> SUFFICES ASSUME Len(x) >= 2 PROVE Len(b) >= 2 /\ b[2] = x[2]
    OBVIOUS
  <2>1. Len(xy) >= 2 /\ Len(xyz) >= 2 /\ Len(b) >= 2
    BY <1>3, <1>4, <1>5, <1>7, SMTT(30)
  <2> QED BY <1>3, <1>4, <1>5, <2>1
<1>13. Len(x) = 1 /\ y # <<>> => Len(b) >= 2 /\ b[2] = y[1]
  <2> SUFFICES ASSUME Len(x) = 1, y # <<>> PROVE Len(b) >= 2 /\ b[2] = y[1]
    OBVIOUS
  <2>1. Len(y) >= 1
    BY <1>1, <1>6
  <2>2. Len(xy) >= 2 /\ Len(xyz) >= 2 /\ Len(b) >= 2
    BY <1>3, <1>4, <1>5, <1>7, <2>1, SMTT(30)
  <2> QED BY <1>3, <1>4, <1>5, <2>1, <2>2
<1> QED
  BY <1>2, <1>5, <1>8, <1>9, <1>10, <1>11, <1>12, <1>13 DEF x, y, z, w

\* What a CRYPTO frame may hold: the units from one place to another.
Stretched(o, e) == o \in 1..4 /\ e \in o..4

PieceIn(g) ==
    \E o \in 1..4, e \in 1..4 : Stretched(o, e) /\ g.crypto.at = o /\ g.crypto.units = SubSeq(Stream, o, e)

\* Those that start at one place, and the chunk read there: what Joined puts in a row.
StartsAt(seen, o) == {i \in 1..Len(seen) : seen[i].crypto.at = o /\ seen[i].crypto.units # <<>>}
ChunkAt(seen, o) ==
    IF StartsAt(seen, o) = {} THEN <<>>
    ELSE seen[CHOOSE i \in StartsAt(seen, o) : \A k \in StartsAt(seen, o) : k <= i].crypto.units

\* The stream of a server.
LEMMA StreamTyped ==
  /\ Stream \in Seq(StreamUnits) /\ Len(Stream) = 4
  /\ Stream[1] = "ee_head" /\ Stream[2] = "ee_tail" /\ Stream[3] = "certificate" /\ Stream[4] = "finished"
BY DEF Stream, StreamUnits

\* A stretch of the stream.
LEMMA Stretch ==
  ASSUME NEW o \in 1..5, NEW e \in 0..4
  PROVE LET u == SubSeq(Stream, o, e) IN
        /\ u \in Seq(StreamUnits)
        /\ Len(u) = IF o <= e THEN e - o + 1 ELSE 0
        /\ u # <<>> <=> o <= e
        /\ o <= e => u[1] = Stream[o]
        /\ o + 1 <= e => u[2] = Stream[o + 1]
<1> DEFINE u == SubSeq(Stream, o, e)
<1>1. \A i \in o..e : Stream[i] \in StreamUnits
  <2>1. \A i \in o..e : i \in 1..4
    OBVIOUS
  <2> QED BY <2>1, StreamTyped, ElementOfSeq
<1>2. /\ u \in Seq(StreamUnits)
      /\ Len(u) = IF o <= e THEN e - o + 1 ELSE 0
      /\ \A i \in 1..(e - o + 1) : u[i] = Stream[o + i - 1]
  BY <1>1, SubSeqProperties
<1> HIDE DEF u
<1>3. u # <<>> <=> o <= e
  <2>1. u = <<>> <=> Len(u) = 0
    BY <1>2, EmptySeq
  <2>2. o <= e => e - o + 1 # 0
    OBVIOUS
  <2> QED BY <1>2, <2>1, <2>2
<1>4. ASSUME o <= e PROVE u[1] = Stream[o]
  <2>1. 1 \in 1..(e - o + 1) /\ o + 1 - 1 = o
    BY <1>4
  <2> QED BY <1>2, <2>1
<1>5. ASSUME o + 1 <= e PROVE u[2] = Stream[o + 1]
  <2>1. 2 \in 1..(e - o + 1) /\ o + 2 - 1 = o + 1
    BY <1>5
  <2> QED BY <1>2, <2>1
<1> QED
  BY <1>2, <1>3, <1>4, <1>5 DEF u

\* The flight of a server that speaks the version dialled.
LEMMA FlightOf ==
  ASSUME NEW s \in QuicServers, NEW version \in s.speaks
  PROVE /\ s.cut[1] \in 0..4 /\ s.cut[2] \in 0..4 /\ s.cut[1] <= s.cut[2]
        /\ Datagrams(s, version) =
             <<[type |-> "initial", crypto |-> Crypto(1, s.cut[1])],
               [type |-> "handshake", crypto |-> Crypto(s.cut[1] + 1, s.cut[2])],
               [type |-> "handshake", crypto |-> Crypto(s.cut[2] + 1, 4)]>>
<1>1. s.port = "open"
  BY DEF QuicServers
<1>2. s.cut[1] \in 0..4 /\ s.cut[2] \in 0..4 /\ s.cut[1] <= s.cut[2]
  BY StreamTyped DEF QuicServers
<1>3. Len(Stream) = 4
  BY StreamTyped
<1> QED
  BY <1>1, <1>2, <1>3 DEF Datagrams

\* What one of its datagrams holds, if it holds anything.
LEMMA PacketHolds ==
  ASSUME NEW s \in QuicServers, NEW version \in s.speaks,
         NEW i \in 1..3, NEW g, g = Datagrams(s, version)[i], g.crypto.units # <<>>
  PROVE PieceIn(g)
<1> DEFINE a == s.cut[1]
           b == s.cut[2]
<1>1. a \in 0..4 /\ b \in 0..4 /\ a <= b
  BY FlightOf
<1>2. /\ i = 1 => g = [type |-> "initial", crypto |-> Crypto(1, a)]
      /\ i = 2 => g = [type |-> "handshake", crypto |-> Crypto(a + 1, b)]
      /\ i = 3 => g = [type |-> "handshake", crypto |-> Crypto(b + 1, 4)]
  BY FlightOf
<1>3. i = 1 \/ i = 2 \/ i = 3
  OBVIOUS
<1> HIDE DEF a, b
<1>4. CASE i = 1
  <2>1. g.crypto.at = 1 /\ g.crypto.units = SubSeq(Stream, 1, a)
    BY <1>2, <1>4 DEF Crypto
  <2>2. 1 <= a
    BY <1>1, <2>1, Stretch
  <2>3. 1 \in 1..4 /\ a \in 1..4 /\ a \in 1..4
    BY <1>1, <2>2
  <2>4. Stretched(1, a)
    BY <2>3 DEF Stretched
  <2> QED BY <2>1, <2>3, <2>4 DEF PieceIn
<1>5. CASE i = 2
  <2>1. g.crypto.at = a + 1 /\ g.crypto.units = SubSeq(Stream, a + 1, b)
    BY <1>2, <1>5 DEF Crypto
  <2>2. a + 1 \in 1..5
    BY <1>1
  <2>3. a + 1 <= b
    BY <1>1, <2>1, <2>2, Stretch
  <2>4. a + 1 \in 1..4 /\ b \in 1..4 /\ b \in (a + 1)..4
    BY <1>1, <2>3
  <2>5. Stretched(a + 1, b)
    BY <2>4 DEF Stretched
  <2>7. PICK o \in 1..4, e \in 1..4 : o = a + 1 /\ e = b
    BY <2>4
  <2> QED BY <2>1, <2>5, <2>7 DEF PieceIn
<1>6. CASE i = 3
  <2>1. g.crypto.at = b + 1 /\ g.crypto.units = SubSeq(Stream, b + 1, 4)
    BY <1>2, <1>6 DEF Crypto
  <2>2. b + 1 \in 1..5
    BY <1>1
  <2>3. b + 1 <= 4
    BY <1>1, <2>1, <2>2, Stretch
  <2>4. b + 1 \in 1..4 /\ 4 \in 1..4 /\ 4 \in (b + 1)..4
    BY <1>1, <2>3
  <2>5. Stretched(b + 1, 4)
    BY <2>4 DEF Stretched
  <2>7. PICK o \in 1..4, e \in 1..4 : o = b + 1 /\ e = 4
    BY <2>4
  <2> QED BY <2>1, <2>5, <2>7 DEF PieceIn
<1> QED
  BY <1>3, <1>4, <1>5, <1>6

\* Nor does what it sends again hold anything else.
LEMMA RepeatHolds ==
  ASSUME NEW s, NEW version, NEW g \in SentAgain(s, version), g.crypto.units # <<>>
  PROVE PieceIn(g)
<1>1. CASE g = [type |-> "initial", crypto |-> Crypto(1, 0)]
  <2>1. g.crypto.units = SubSeq(Stream, 1, 0)
    BY <1>1 DEF Crypto
  <2>2. 1 \in 1..5 /\ 0 \in 0..4 /\ ~(1 <= 0)
    OBVIOUS
  <2> QED BY <2>1, <2>2, Stretch
<1>2. ASSUME NEW p \in (1..4) \X (1..4), p[1] <= p[2],
             g = [type |-> "handshake", crypto |-> Crypto(p[1], p[2])]
      PROVE PieceIn(g)
  <2>1. p[1] \in 1..4 /\ p[2] \in 1..4 /\ p[2] \in p[1]..4
    BY <1>2
  <2>2. g.crypto.at = p[1] /\ g.crypto.units = SubSeq(Stream, p[1], p[2])
    BY <1>2 DEF Crypto
  <2> QED BY <2>1, <2>2 DEF PieceIn, Stretched
<1>3. Len(Stream) = 4
  BY StreamTyped
<1> QED
  BY <1>1, <1>2, <1>3 DEF SentAgain

\* What a client has read are datagrams the server sent.
Datagram == [type : {"initial", "handshake", "versions", "other"}, crypto : [at : Nat, units : Seq(StreamUnits)]]
Sent(seen, s, version) ==
    /\ seen \in Seq(Datagram)
    /\ \A k \in 1..Len(seen) :
         \/ \E i \in 1..Len(Datagrams(s, version)) : seen[k] = Datagrams(s, version)[i]
         \/ seen[k] \in SentAgain(s, version)

\* The chunk at a place is what one of the packets read holds.
LEMMA ChunkRead ==
  ASSUME NEW seen, seen \in Seq(Datagram), NEW o, StartsAt(seen, o) # {}
  PROVE \E k \in 1..Len(seen) : /\ seen[k].crypto.at = o /\ seen[k].crypto.units # <<>>
                                /\ ChunkAt(seen, o) = seen[k].crypto.units
<1>1. PICK n \in Nat : n = Len(seen)
  BY LenProperties
<1> DEFINE T == StartsAt(seen, o) \cup {0}
<1>2. StartsAt(seen, o) \subseteq 1..n
  BY <1>1 DEF StartsAt
<1>3. PICK k \in 0..n : k \in T /\ \A j \in (k + 1)..n : j \notin T
  <2> HIDE DEF T
  <2>1. 0 \in T
    BY DEF T
  <2> QED BY <2>1, LastOne
<1>4. \A x \in StartsAt(seen, o) : x <= k
  <2> SUFFICES ASSUME NEW x \in StartsAt(seen, o), ~(x <= k) PROVE FALSE
    OBVIOUS
  <2>1. x \in 1..n /\ x \in T
    BY <1>2
  <2>2. x \in (k + 1)..n
    BY <2>1
  <2> QED BY <1>3, <2>1, <2>2
<1>5. k \in StartsAt(seen, o)
  <2>1. PICK x \in StartsAt(seen, o) : TRUE
    OBVIOUS
  <2>2. x \in 1..n /\ x <= k
    BY <1>2, <1>4, <2>1
  <2>3. k # 0
    BY <2>2
  <2> QED BY <1>3, <2>3
<1> DEFINE last == CHOOSE i \in StartsAt(seen, o) : \A j \in StartsAt(seen, o) : j <= i
<1>6. last \in StartsAt(seen, o)
  BY <1>4, <1>5
<1>7. ChunkAt(seen, o) = seen[last].crypto.units
  BY DEF ChunkAt
<1> HIDE DEF last
<1>8. last \in 1..Len(seen) /\ seen[last].crypto.at = o /\ seen[last].crypto.units # <<>>
  BY <1>6 DEF StartsAt
<1> QED
  BY <1>7, <1>8

\* It is a stretch of the stream, or empty if no packet read starts there.
LEMMA ChunkHolds ==
  ASSUME NEW s \in QuicServers, NEW version \in s.speaks, NEW seen, Sent(seen, s, version),
         NEW o \in 1..4
  PROVE /\ StartsAt(seen, o) = {} => ChunkAt(seen, o) = <<>>
        /\ StartsAt(seen, o) # {} => \E e \in 1..4 : Stretched(o, e) /\ ChunkAt(seen, o) = SubSeq(Stream, o, e)
<1>1. StartsAt(seen, o) = {} => ChunkAt(seen, o) = <<>>
  BY DEF ChunkAt
<1>2. ASSUME StartsAt(seen, o) # {}
      PROVE \E e \in 1..4 : Stretched(o, e) /\ ChunkAt(seen, o) = SubSeq(Stream, o, e)
  <2>8. PICK last \in 1..Len(seen) :
           /\ seen[last].crypto.at = o /\ seen[last].crypto.units # <<>>
           /\ ChunkAt(seen, o) = seen[last].crypto.units
    BY <1>2, ChunkRead DEF Sent
  <2>9. \/ \E i \in 1..Len(Datagrams(s, version)) : seen[last] = Datagrams(s, version)[i]
        \/ seen[last] \in SentAgain(s, version)
    BY <2>8 DEF Sent
  <2>10. Len(Datagrams(s, version)) = 3
    BY FlightOf
  <2>11. PICK p \in 1..4, e \in 1..4 :
           Stretched(p, e) /\ seen[last].crypto.at = p /\ seen[last].crypto.units = SubSeq(Stream, p, e)
    <3> DEFINE g == seen[last]
    <3>1. g.crypto.units # <<>>
      BY <2>8
    <3>2. (\E i \in 1..3 : g = Datagrams(s, version)[i]) \/ g \in SentAgain(s, version)
      BY <2>9, <2>10
    <3> HIDE DEF g
    <3>4. PieceIn(g)
      <4>1. CASE g \in SentAgain(s, version)
        BY <3>1, <4>1, RepeatHolds
      <4>2. ASSUME NEW i \in 1..3, g = Datagrams(s, version)[i] PROVE PieceIn(g)
        BY <3>1, <4>2, PacketHolds
      <4> QED BY <3>2, <4>1, <4>2
    <3>3. PICK p \in 1..4, e \in 1..4 :
            Stretched(p, e) /\ g.crypto.at = p /\ g.crypto.units = SubSeq(Stream, p, e)
      BY <3>4 DEF PieceIn
    <3> QED BY <3>3 DEF g
  <2> QED BY <2>8, <2>11
<1> QED
  BY <1>1, <1>2

\* How a chunk starts that holds the units from o to e.
Begun(o, c) ==
    \E e \in 1..4 :
        /\ Stretched(o, e) /\ Len(c) = e - o + 1 /\ c[1] = Stream[o]
        /\ o < e => c[2] = Stream[o + 1]

\* What a chunk starts with.
LEMMA ChunkStarts ==
  ASSUME NEW s \in QuicServers, NEW version \in s.speaks, NEW seen, Sent(seen, s, version),
         NEW o \in 1..4
  PROVE LET c == ChunkAt(seen, o) IN
        /\ c \in Seq(StreamUnits)
        /\ c = <<>> <=> StartsAt(seen, o) = {}
        /\ c # <<>> => Begun(o, c) /\ c[1] = Stream[o]
<1> DEFINE c == ChunkAt(seen, o)
<1>1. CASE StartsAt(seen, o) = {}
  <2>1. c = <<>>
    BY <1>1, ChunkHolds
  <2> QED BY <1>1, <2>1
<1>2. CASE StartsAt(seen, o) # {}
  <2>1. PICK e \in 1..4 : Stretched(o, e) /\ c = SubSeq(Stream, o, e)
    BY <1>2, ChunkHolds
  <2>2. o <= e /\ o \in 1..5 /\ e \in 0..4
    BY <2>1 DEF Stretched
  <2>3. o < e => o + 1 <= e
    BY <2>2
  <2> HIDE DEF c
  <2>4. /\ c \in Seq(StreamUnits) /\ Len(c) = e - o + 1 /\ c # <<>> /\ c[1] = Stream[o]
        /\ o < e => c[2] = Stream[o + 1]
    BY <2>1, <2>2, <2>3, Stretch
  <2>5. Begun(o, c)
    BY <2>1, <2>4 DEF Begun
  <2> QED BY <1>2, <2>4, <2>5 DEF c
<1> QED
  BY <1>1, <1>2

\* The joined bytes start with the first chunk that is there.
LEMMA JoinedStarts ==
  ASSUME NEW s \in QuicServers, NEW version \in s.speaks, NEW seen, Sent(seen, s, version)
  PROVE LET b  == Joined(seen)
            c1 == ChunkAt(seen, 1)
            c2 == ChunkAt(seen, 2)
        IN  /\ b \in Seq(StreamUnits)
            /\ c1 # <<>> => Len(b) >= 1 /\ b[1] = "ee_head"
            /\ c1 = <<>> /\ c2 # <<>> => b[1] = "ee_tail"
            /\ c1 = <<>> /\ c2 = <<>> => b = <<>> \/ b[1] \in {"certificate", "finished"}
            /\ Len(c1) >= 2 => Len(b) >= 2 /\ b[2] = c1[2]
            /\ Len(c1) = 1 /\ c2 # <<>> => Len(b) >= 2 /\ b[2] = c2[1]
<1> DEFINE c == [o \in 1..Len(Stream) |-> ChunkAt(seen, o)]
<1>1. Len(Stream) = 4
  BY StreamTyped
<1>2. Joined(seen) = FlattenSeq(c)
  BY DEF Joined, ChunkAt, StartsAt
<1>3. c = [o \in 1..4 |-> ChunkAt(seen, o)]
  BY <1>1
<1> HIDE DEF c
<1>4. Len(c) = 4 /\ \A o \in 1..4 : c[o] = ChunkAt(seen, o)
  BY <1>3
<1>5. \A o \in 1..4 : c[o] \in Seq(StreamUnits) /\ (c[o] # <<>> => c[o][1] = Stream[o])
  <2>1. ASSUME NEW o \in 1..4 PROVE c[o] \in Seq(StreamUnits) /\ (c[o] # <<>> => c[o][1] = Stream[o])
    BY <1>4, ChunkStarts
  <2> QED BY <2>1
<1>6. 1 \in 1..4 /\ 2 \in 1..4 /\ 3 \in 1..4 /\ 4 \in 1..4
  OBVIOUS
<1> DEFINE b == FlattenSeq(c)
<1>7. /\ b \in Seq(StreamUnits)
      /\ c[1] # <<>> => Len(b) >= 1 /\ b[1] = c[1][1]
      /\ c[1] = <<>> /\ c[2] # <<>> => b[1] = c[2][1]
      /\ c[1] = <<>> /\ c[2] = <<>> /\ c[3] # <<>> => b[1] = c[3][1]
      /\ c[1] = <<>> /\ c[2] = <<>> /\ c[3] = <<>> /\ c[4] # <<>> => b[1] = c[4][1]
      /\ c[1] = <<>> /\ c[2] = <<>> /\ c[3] = <<>> /\ c[4] = <<>> => b = <<>>
      /\ Len(c[1]) >= 2 => Len(b) >= 2 /\ b[2] = c[1][2]
      /\ Len(c[1]) = 1 /\ c[2] # <<>> => Len(b) >= 2 /\ b[2] = c[2][1]
  BY <1>4, <1>5, FourStart
<1> HIDE DEF b
<1>8. c[1] = ChunkAt(seen, 1) /\ c[2] = ChunkAt(seen, 2)
  BY <1>4, <1>6
<1>9. /\ c[1] # <<>> => c[1][1] = "ee_head"
      /\ c[2] # <<>> => c[2][1] = "ee_tail"
      /\ c[3] # <<>> => c[3][1] = "certificate"
      /\ c[4] # <<>> => c[4][1] = "finished"
  BY <1>5, <1>6, StreamTyped
<1>10. c[1] = <<>> /\ c[2] = <<>> => b = <<>> \/ b[1] \in {"certificate", "finished"}
  BY <1>7, <1>9
<1>11. Joined(seen) = b
  BY <1>2 DEF b
<1> QED
  BY <1>7, <1>8, <1>9, <1>10, <1>11

\* A datagram that begins or ends within EncryptedExtensions.
CutWithin(seen) ==
    \E k \in 1..Len(seen) :
        \/ seen[k].crypto.at = 2
        \/ seen[k].crypto.at = 1 /\ Len(seen[k].crypto.units) = 1

\* A chunk that starts at the second unit, or is the first alone, is that of such a datagram.
LEMMA ChunkCuts ==
  ASSUME NEW s \in QuicServers, NEW version \in s.speaks, NEW seen, Sent(seen, s, version)
  PROVE /\ StartsAt(seen, 2) # {} => CutWithin(seen)
        /\ StartsAt(seen, 1) # {} /\ Len(ChunkAt(seen, 1)) = 1 => CutWithin(seen)
<1>1. ASSUME StartsAt(seen, 2) # {} PROVE CutWithin(seen)
  <2>1. PICK k \in StartsAt(seen, 2) : TRUE
    BY <1>1
  <2>2. k \in 1..Len(seen) /\ seen[k].crypto.at = 2
    BY <2>1 DEF StartsAt
  <2> QED BY <2>2 DEF CutWithin
<1>2. ASSUME StartsAt(seen, 1) # {}, Len(ChunkAt(seen, 1)) = 1 PROVE CutWithin(seen)
  <2>1. 1 \in 1..4
    OBVIOUS
  <2>2. PICK k \in 1..Len(seen) : seen[k].crypto.at = 1 /\ ChunkAt(seen, 1) = seen[k].crypto.units
    BY <1>2, <2>1, ChunkRead DEF Sent
  <2> QED BY <1>2, <2>2 DEF CutWithin
<1> QED
  BY <1>1, <1>2

\* Wrong parameters are read only where a datagram ends within EncryptedExtensions.
LEMMA WrongOverCut ==
  ASSUME NEW s \in QuicServers, NEW version \in s.speaks, NEW seen, Sent(seen, s, version),
         "wrong" \in Parameters(seen)
  PROVE CutWithin(seen)
<1> DEFINE b  == Joined(seen)
           c1 == ChunkAt(seen, 1)
           c2 == ChunkAt(seen, 2)
<1>1. /\ b # <<>>
      /\ \/ b[1] = "ee_head" /\ Len(b) # 1 /\ b[2] # "ee_tail"
         \/ b[1] = "ee_tail"
  BY DEF Parameters
<1>2. /\ c1 # <<>> => b[1] = "ee_head"
      /\ c1 = <<>> /\ c2 # <<>> => b[1] = "ee_tail"
      /\ c1 = <<>> /\ c2 = <<>> => b = <<>> \/ b[1] \in {"certificate", "finished"}
      /\ Len(c1) >= 2 => b[2] = c1[2]
  BY JoinedStarts
<1>4. CASE c1 # <<>>
  <2>1. PICK e \in 1..4 : Stretched(1, e) /\ Len(c1) = e - 1 + 1 /\ (1 < e => c1[2] = Stream[1 + 1])
    <3>1. Begun(1, c1)
      BY <1>4, ChunkStarts
    <3> QED BY <3>1 DEF Begun
  <2>2. Len(c1) = e /\ (1 < e => c1[2] = "ee_tail")
    BY <2>1, StreamTyped
  <2>3. b[2] # "ee_tail"
    BY <1>1, <1>2, <1>4
  <2>4. ~(1 < e)
    <3> SUFFICES ASSUME 1 < e PROVE FALSE
      OBVIOUS
    <3>1. Len(c1) >= 2
      BY <2>2
    <3> QED BY <1>2, <2>2, <2>3, <3>1
  <2>5. Len(c1) = 1 /\ StartsAt(seen, 1) # {}
    <3>1. e = 1
      BY <2>4
    <3> QED BY <1>4, <2>2, <3>1, ChunkStarts
  <2> QED BY <2>5, ChunkCuts
<1>5. CASE c1 = <<>> /\ c2 # <<>>
  <2>1. StartsAt(seen, 2) # {}
    BY <1>5, ChunkStarts
  <2> QED BY <2>1, ChunkCuts
<1>6. CASE c1 = <<>> /\ c2 = <<>>
  BY <1>1, <1>2, <1>6
<1> QED
  BY <1>4, <1>5, <1>6

\* A flight of which nothing is missing.
Complete(seen, s, version) ==
    \A i \in 1..3 : \E k \in 1..Len(seen) : seen[k] = Datagrams(s, version)[i]

\* In a complete flight a packet starts wherever one was to start.
LEMMA ArrivedAt ==
  ASSUME NEW s \in QuicServers, NEW version \in s.speaks, NEW seen, Complete(seen, s, version)
  PROVE /\ s.cut[1] >= 1 => StartsAt(seen, 1) # {}
        /\ s.cut[1] + 1 <= s.cut[2] => StartsAt(seen, s.cut[1] + 1) # {}
        /\ s.cut[2] <= 3 => StartsAt(seen, s.cut[2] + 1) # {}
<1> DEFINE a == s.cut[1]
           b == s.cut[2]
<1>1. a \in 0..4 /\ b \in 0..4 /\ a <= b
  BY FlightOf
<1>2. /\ Datagrams(s, version)[1].crypto = Crypto(1, a)
      /\ Datagrams(s, version)[2].crypto = Crypto(a + 1, b)
      /\ Datagrams(s, version)[3].crypto = Crypto(b + 1, 4)
  BY FlightOf
<1> HIDE DEF a, b
<1>3. 1 \in 1..3 /\ 2 \in 1..3 /\ 3 \in 1..3
  OBVIOUS
<1>4. ASSUME NEW o \in 1..5, NEW e \in 0..4, o <= e,
             NEW i \in 1..3, Datagrams(s, version)[i].crypto = Crypto(o, e)
      PROVE StartsAt(seen, o) # {}
  <2>1. PICK k \in 1..Len(seen) : seen[k] = Datagrams(s, version)[i]
    BY DEF Complete
  <2>2. seen[k].crypto.at = o /\ seen[k].crypto.units = SubSeq(Stream, o, e)
    BY <1>4, <2>1 DEF Crypto
  <2>3. SubSeq(Stream, o, e) # <<>>
    BY <1>4, Stretch
  <2>4. k \in StartsAt(seen, o)
    BY <2>1, <2>2, <2>3 DEF StartsAt
  <2> QED BY <2>4
<1>5. ASSUME a >= 1 PROVE StartsAt(seen, 1) # {}
  <2>1. 1 \in 1..5 /\ a \in 0..4 /\ 1 <= a
    BY <1>1, <1>5
  <2> QED BY <1>2, <1>3, <1>4, <2>1
<1>6. ASSUME a + 1 <= b PROVE StartsAt(seen, a + 1) # {}
  <2>1. a + 1 \in 1..5 /\ b \in 0..4
    BY <1>1
  <2> QED BY <1>2, <1>3, <1>4, <1>6, <2>1
<1>7. ASSUME b <= 3 PROVE StartsAt(seen, b + 1) # {}
  <2>1. b + 1 \in 1..5 /\ 4 \in 0..4 /\ b + 1 <= 4
    BY <1>1, <1>7
  <2> QED BY <1>2, <1>3, <1>4, <2>1
<1> QED
  BY <1>5, <1>6, <1>7 DEF a, b

\* What is read of a complete flight are the transport parameters, whatever its order and
\* whatever came again, unless a repetition was cut within EncryptedExtensions and the
\* flight was not.
LEMMA CompleteIsTrue ==
  ASSUME NEW s \in QuicServers, NEW version \in s.speaks, NEW seen, Sent(seen, s, version),
         Complete(seen, s, version), 1 \in {s.cut[1], s.cut[2]} \/ ~CutWithin(seen)
  PROVE Parameters(seen) = {"true"}
<1> DEFINE a  == s.cut[1]
           b  == s.cut[2]
           j  == Joined(seen)
           c1 == ChunkAt(seen, 1)
           c2 == ChunkAt(seen, 2)
<1>1. a \in 0..4 /\ b \in 0..4 /\ a <= b
  BY FlightOf
<1>2. /\ a >= 1 => StartsAt(seen, 1) # {}
      /\ a + 1 <= b => StartsAt(seen, a + 1) # {}
      /\ b <= 3 => StartsAt(seen, b + 1) # {}
  BY ArrivedAt
<1>3. /\ j \in Seq(StreamUnits)
      /\ c1 # <<>> => Len(j) >= 1 /\ j[1] = "ee_head"
      /\ Len(c1) >= 2 => Len(j) >= 2 /\ j[2] = c1[2]
      /\ Len(c1) = 1 /\ c2 # <<>> => Len(j) >= 2 /\ j[2] = c2[1]
  BY JoinedStarts
<1>4. StartsAt(seen, 1) # {}
  <2>1. CASE a >= 1
    BY <1>2, <2>1
  <2>2. CASE a = 0 /\ b >= 1
    <3>1. a + 1 = 1 /\ a + 1 <= b
      BY <1>1, <2>2
    <3> QED BY <1>2, <3>1
  <2>3. CASE a = 0 /\ b = 0
    <3>1. b + 1 = 1 /\ b <= 3
      BY <2>3
    <3> QED BY <1>2, <3>1
  <2> HIDE DEF a, b
  <2> QED BY <1>1, <2>1, <2>2, <2>3
<1>5. c1 # <<>>
  BY <1>4, ChunkStarts
<1>6. PICK e \in 1..4 : Stretched(1, e) /\ Len(c1) = e - 1 + 1 /\ (1 < e => c1[2] = Stream[1 + 1])
  <2>1. Begun(1, c1)
    BY <1>5, ChunkStarts
  <2> QED BY <2>1 DEF Begun
<1>7. Len(c1) = e /\ (1 < e => c1[2] = "ee_tail")
  BY <1>6, StreamTyped
<1>8. Len(j) >= 2 /\ j[2] = "ee_tail"
  <2>1. CASE 1 < e
    <3>1. Len(c1) >= 2
      BY <1>7, <2>1
    <3> QED BY <1>3, <1>7, <2>1, <3>1
  <2>2. CASE e = 1
    <3>1. a = 1 \/ b = 1
      <4>1. Len(c1) = 1
        BY <1>7, <2>2
      <4>2. CutWithin(seen)
        BY <1>4, <4>1, ChunkCuts
      <4> QED BY <4>2
    <3>2. StartsAt(seen, 2) # {}
      <4> HIDE DEF a, b
      <4>1. CASE a = 1 /\ a + 1 <= b
        <5>1. a + 1 = 2
          BY <4>1
        <5> QED BY <1>2, <4>1, <5>1
      <4>2. CASE b = 1
        <5>1. b <= 3 /\ b + 1 = 2
          BY <4>2
        <5> QED BY <1>2, <5>1
      <4>3. a = 1 => a + 1 <= b \/ b = 1
        BY <1>1
      <4> QED BY <3>1, <4>1, <4>2, <4>3
    <3>3. c2 # <<>>
      BY <3>2, ChunkStarts
    <3>4. c2[1] = "ee_tail"
      <4>1. c2[1] = Stream[2]
        BY <3>3, ChunkStarts
      <4> QED BY <4>1, StreamTyped
    <3>5. Len(c1) = 1
      BY <1>7, <2>2
    <3> QED BY <1>3, <3>3, <3>4, <3>5
  <2> QED BY <2>1, <2>2
<1>9. j[1] = "ee_head"
  BY <1>3, <1>5
<1>10. j # <<>> /\ Len(j) # 1
  <2>1. Len(<<>>) = 0
    OBVIOUS
  <2> HIDE DEF j
  <2>2. PICK n \in Nat : n = Len(j)
    BY <1>3, LenProperties
  <2> QED BY <1>8, <2>1, <2>2
<1> QED
  BY <1>8, <1>9, <1>10 DEF Parameters

-----------------------------------------------------------------------------
(* QUIC: what is told of HTTP/3.                                            *)

\* What is said of the negotiation, for as many failures as there were.
Claimed(h, p, lost, notes) ==
    /\ h \in 0..2 /\ (h # 0 => h \in peer.speaks)
    /\ h # 1 => lost > 0 \/ "overtaken" \in notes
    /\ p = "wrong" => (lost > 0 /\ 1 \in {peer.cut[1], peer.cut[2]}) \/ "recut" \in notes
    /\ p = "none" => h = 0 \/ ~peer.usable \/ lost > 0 \/ "recut" \in notes

\* The reachability is settled first, and only version 1 leads further.
QuicInv ==
    probe = "quic" =>
        /\ peer \in QuicServers /\ faults \in Nat
        /\ pc \in {"reach", "flight", "versions", "done"} /\ dial \in 0..2
        /\ noted \subseteq {"overtaken", "recut"}
        /\ pc = "reach" => dial = 1
        /\ pc = "flight" => /\ dial \in 1..2 /\ 1 \in peer.speaks
                            /\ Sent(got, peer, dial) /\ verdict = Facts("yes", 0, "none", {})
                            /\ dial = 2 => faults > 0 \/ "overtaken" \in noted
        /\ pc # "flight" => got = <<>>
        /\ pc = "versions" => /\ 1 \in peer.speaks
                              /\ \E h, p : verdict = Facts("yes", h, p, {}) /\ Claimed(h, p, faults, noted)
        /\ pc = "done" => QuicVerdictsTrue

\* Only its own steps move a QUIC dial.
LEMMA QuicFamily ==
  ASSUME [Next]_vars, probe = "quic"
  PROVE QuicStep \/ UNCHANGED <<run, quic>>
<1>1. CASE HandshakeStep
  BY <1>1 DEF HandshakeStep, HandshakeProbes, Probes12, Probes13, Receive, Send, SendAgain,
              ReadNothing, LinkBreaks
<1>2. CASE FeatureStep
  BY <1>2 DEF FeatureStep, FeatureKinds, EchoProbes, Ask, Tell
<1>3. CASE AppStep
  BY <1>3 DEF AppStep, AppKinds, Write, Piece, Ends, Fails
<1>4. CASE NameStep
  BY <1>4 DEF NameStep, PolicyChecks, Resolve, AskSystem, FetchSigned, Climb, RootKeys, Descend
<1>5. CASE DenialStep
  BY <1>5 DEF DenialStep, Prove
<1>6. CASE UNCHANGED vars
  BY <1>6 DEF vars
<1> QED
  BY <1>1, <1>2, <1>3, <1>4, <1>5, <1>6 DEF Next

\* Nothing read yet.
LEMMA SentNothing == \A s, version : Sent(<<>>, s, version)
BY DEF Sent

\* Nothing is dialled yet.
LEMMA QuicBegins == Init => QuicInv
<1> SUFFICES ASSUME Init, probe = "quic" PROVE QuicInv
  BY DEF QuicInv
<1>1. QuicInit
  <2> USE DEF Begin
  <2>1. ~HandshakeInit
    BY DEF HandshakeInit, HandshakeProbes, Probes12, Probes13
  <2>2. ~FeatureInit
    BY DEF FeatureInit, FeatureKinds, EchoProbes
  <2>3. ~AppInit
    BY DEF AppInit, AppKinds
  <2>4. ~NameInit
    BY DEF NameInit, PolicyChecks
  <2>5. ~DenialInit
    BY DEF DenialInit
  <2> QED BY <2>1, <2>2, <2>3, <2>4, <2>5 DEF Init
<1> QED
  BY <1>1 DEF QuicInit, QuicInv, Begin

\* The datagrams of any server.
LEMMA DatagramsTyped ==
  ASSUME NEW s \in QuicServers, NEW version
  PROVE \A i \in 1..Len(Datagrams(s, version)) : Datagrams(s, version)[i] \in Datagram
<1>1. s.cut[1] \in 0..4 /\ s.cut[2] \in 0..4 /\ Len(Stream) = 4
  BY StreamTyped DEF QuicServers
<1>2. ASSUME NEW o \in 1..5, NEW e \in 0..4
      PROVE Crypto(o, e) \in [at : Nat, units : Seq(StreamUnits)]
  <2>1. SubSeq(Stream, o, e) \in Seq(StreamUnits)
    BY Stretch
  <2> QED BY <2>1 DEF Crypto
<1>3. ASSUME NEW o \in 1..5, NEW e \in 0..4, NEW t \in {"initial", "handshake", "versions", "other"}
      PROVE [type |-> t, crypto |-> Crypto(o, e)] \in Datagram
  BY <1>2 DEF Datagram
<1>4. CASE s.port = "open" /\ version \in s.speaks
  <2>1. /\ 1 \in 1..5 /\ s.cut[1] + 1 \in 1..5 /\ s.cut[2] + 1 \in 1..5 /\ 4 \in 0..4
    BY <1>1
  <2>2. /\ [type |-> "initial", crypto |-> Crypto(1, s.cut[1])] \in Datagram
        /\ [type |-> "handshake", crypto |-> Crypto(s.cut[1] + 1, s.cut[2])] \in Datagram
        /\ [type |-> "handshake", crypto |-> Crypto(s.cut[2] + 1, 4)] \in Datagram
    BY <1>1, <1>3, <2>1
  <2> HIDE DEF Datagram
  <2>3. ASSUME NEW x \in Datagram, NEW y \in Datagram, NEW z \in Datagram
        PROVE \A i \in 1..Len(<<x, y, z>>) : <<x, y, z>>[i] \in Datagram
    <3>1. Len(<<x, y, z>>) = 3
      OBVIOUS
    <3>2. \A i \in 1..3 : i = 1 \/ i = 2 \/ i = 3
      OBVIOUS
    <3> QED BY <3>1, <3>2
  <2>4. Datagrams(s, version) =
             <<[type |-> "initial", crypto |-> Crypto(1, s.cut[1])],
               [type |-> "handshake", crypto |-> Crypto(s.cut[1] + 1, s.cut[2])],
               [type |-> "handshake", crypto |-> Crypto(s.cut[2] + 1, 4)]>>
    BY <1>4, FlightOf
  <2> QED BY <2>2, <2>3, <2>4
<1>5. CASE ~(s.port = "open" /\ version \in s.speaks)
  <2>1. [type |-> "versions", crypto |-> Crypto(1, 0)] \in Datagram
        /\ [type |-> "other", crypto |-> Crypto(1, 0)] \in Datagram
    BY <1>3
  <2>2. \/ Datagrams(s, version) = <<[type |-> "versions", crypto |-> Crypto(1, 0)]>>
        \/ Datagrams(s, version) = <<[type |-> "other", crypto |-> Crypto(1, 0)]>>
        \/ Datagrams(s, version) = <<>>
    BY <1>5 DEF Datagrams
  <2>3. ASSUME NEW x \in Datagram PROVE \A i \in 1..Len(<<x>>) : <<x>>[i] \in Datagram
    OBVIOUS
  <2>4. Len(<<>>) = 0
    OBVIOUS
  <2> QED BY <2>1, <2>2, <2>3, <2>4
<1> QED
  BY <1>4, <1>5

\* And what any server sends again.
LEMMA RepeatsTyped ==
  ASSUME NEW s, NEW version, NEW g \in SentAgain(s, version)
  PROVE g \in Datagram
<1>1. ASSUME NEW o \in 1..5, NEW e \in 0..4, NEW t \in {"initial", "handshake"}
      PROVE [type |-> t, crypto |-> Crypto(o, e)] \in Datagram
  <2>1. SubSeq(Stream, o, e) \in Seq(StreamUnits)
    BY Stretch
  <2> QED BY <2>1 DEF Crypto, Datagram
<1>2. CASE g = [type |-> "initial", crypto |-> Crypto(1, 0)]
  BY <1>1, <1>2
<1>3. ASSUME NEW p \in (1..4) \X (1..4), g = [type |-> "handshake", crypto |-> Crypto(p[1], p[2])]
      PROVE g \in Datagram
  BY <1>1, <1>3
<1>4. Len(Stream) = 4
  BY StreamTyped
<1> QED
  BY <1>2, <1>3, <1>4 DEF SentAgain

\* Only a server that speaks a version sends the datagrams of a handshake in it.
LEMMA HeardSpeaks ==
  ASSUME NEW s \in QuicServers, NEW version
  PROVE LET sent == Datagrams(s, version) IN
        /\ \A i \in 1..Len(sent) : sent[i].type \in {"initial", "handshake"} => version \in s.speaks
        /\ version \in s.speaks => sent # <<>> /\ sent[1].type = "initial"
<1>1. CASE version \in s.speaks
  <2>1. Datagrams(s, version) # <<>> /\ Datagrams(s, version)[1].type = "initial"
    BY <1>1, FlightOf
  <2> QED BY <1>1, <2>1
<1>2. CASE version \notin s.speaks
  <2>1. \/ Datagrams(s, version) = <<[type |-> "versions", crypto |-> Crypto(1, 0)]>>
        \/ Datagrams(s, version) = <<[type |-> "other", crypto |-> Crypto(1, 0)]>>
        \/ Datagrams(s, version) = <<>>
    BY <1>2 DEF Datagrams
  <2>2. ASSUME NEW x, x.type \notin {"initial", "handshake"}
        PROVE \A i \in 1..Len(<<x>>) : <<x>>[i].type \notin {"initial", "handshake"}
    BY <2>2
  <2>3. Len(<<>>) = 0
    OBVIOUS
  <2> QED BY <1>2, <2>1, <2>2, <2>3
<1> QED
  BY <1>1, <1>2

\* An answer has a first datagram.
LEMMA SomeSent ==
  ASSUME NEW s \in QuicServers, NEW version, Datagrams(s, version) # <<>>
  PROVE 1 \in 1..Len(Datagrams(s, version))
<1>1. ASSUME NEW x, NEW y, NEW z PROVE Len(<<x, y, z>>) = 3 /\ Len(<<x>>) = 1
  OBVIOUS
<1>2. \/ Len(Datagrams(s, version)) = 3
      \/ Len(Datagrams(s, version)) = 1
  BY <1>1 DEF Datagrams
<1> QED
  BY <1>2

\* One datagram more.
LEMMA SentMore ==
  ASSUME NEW s \in QuicServers, NEW version, NEW seen, Sent(seen, s, version),
         NEW g, (\E i \in 1..Len(Datagrams(s, version)) : g = Datagrams(s, version)[i])
                \/ g \in SentAgain(s, version)
  PROVE Sent(Append(seen, g), s, version)
<1> DEFINE more == Append(seen, g)
<1>1. g \in Datagram
  BY DatagramsTyped, RepeatsTyped
<1>2. PICK n \in Nat : n = Len(seen) /\ seen \in Seq(Datagram)
  BY LenProperties DEF Sent
<1>3. more \in Seq(Datagram) /\ Len(more) = n + 1 /\ more[n + 1] = g /\ \A k \in 1..n : more[k] = seen[k]
  BY <1>1, <1>2, AppendProperties
<1> HIDE DEF more
<1>4. ASSUME NEW k \in 1..Len(more)
      PROVE \/ \E e \in 1..Len(Datagrams(s, version)) : more[k] = Datagrams(s, version)[e]
            \/ more[k] \in SentAgain(s, version)
  <2>1. k \in 1..n \/ k = n + 1
    BY <1>3
  <2>2. CASE k \in 1..n
    BY <1>2, <1>3, <2>2 DEF Sent
  <2>3. CASE k = n + 1
    BY <1>3, <2>3
  <2> QED BY <2>1, <2>2, <2>3
<1>5. Sent(more, s, version)
  BY <1>3, <1>4 DEF Sent
<1> QED
  BY <1>5 DEF more

\* A ServerHello read is the server's, of the version dialled.
LEMMA HelloSpeaks ==
  ASSUME NEW s \in QuicServers, NEW version, NEW seen, Sent(seen, s, version), ReadsHello(seen)
  PROVE version \in s.speaks
<1>1. seen \in Seq(Datagram) /\ seen # <<>> /\ seen[1].type = "initial"
  BY DEF Sent, ReadsHello
<1>2. 1 \in 1..Len(seen)
  <2>1. Len(seen) \in Nat /\ Len(seen) # 0
    BY <1>1, LenProperties, EmptySeq
  <2> QED BY <2>1
<1>3. CASE \E i \in 1..Len(Datagrams(s, version)) : seen[1] = Datagrams(s, version)[i]
  BY <1>1, <1>3, HeardSpeaks
<1>4. CASE seen[1] \in SentAgain(s, version)
  BY <1>4 DEF SentAgain
<1> QED
  BY <1>2, <1>3, <1>4 DEF Sent

\* A dial of a server that speaks its version ends without the Initial only if that was
\* lost, or came after another datagram.
LEMMA NoHello ==
  ASSUME NEW s \in QuicServers, NEW version \in s.speaks, NEW seen, Sent(seen, s, version),
         Complete(seen, s, version), ~ReadsHello(seen)
  PROVE "overtaken" \in Notes(seen)
<1>1. seen \in Seq(Datagram)
  BY DEF Sent
<1>2. 1 \in 1..Len(seen) /\ seen # <<>>
  <2>1. PICK k \in 1..Len(seen) : TRUE
    BY DEF Complete
  <2>2. Len(seen) \in Nat /\ Len(seen) # 0
    BY <1>1, <2>1, LenProperties
  <2> QED BY <1>1, <2>2, EmptySeq
<1>3. seen[1].type \in {"initial", "handshake"}
  <2>1. CASE seen[1] \in SentAgain(s, version)
    BY <2>1 DEF SentAgain
  <2>2. ASSUME NEW i \in 1..3, seen[1] = Datagrams(s, version)[i]
        PROVE seen[1].type \in {"initial", "handshake"}
    BY <2>2, FlightOf
  <2>3. Len(Datagrams(s, version)) = 3
    BY FlightOf
  <2> QED BY <1>2, <2>1, <2>2, <2>3 DEF Sent
<1> QED
  BY <1>2, <1>3 DEF ReadsHello, Notes

\* A dial goes on, or ends with what was read of the flight.
LEMMA QuicSettles ==
  ASSUME QuicInv, probe = "quic", Settles
  PROVE QuicInv'
<1> DEFINE missing == \E i \in 1..Len(Datagrams(peer, dial)) :
                         \A k \in 1..Len(got) : got[k] # Datagrams(peer, dial)[i]
<1>1. /\ pc = "flight" /\ got' = <<>> /\ UNCHANGED <<probe, peer>>
      /\ noted' = noted \cup Notes(got)
      /\ IF missing THEN Fault ELSE NoFault
  BY DEF Settles
<1>2. /\ peer \in QuicServers /\ faults \in Nat /\ dial \in 1..2 /\ 1 \in peer.speaks
      /\ Sent(got, peer, dial) /\ verdict = Facts("yes", 0, "none", {})
      /\ noted \subseteq {"overtaken", "recut"}
      /\ dial = 2 => faults > 0 \/ "overtaken" \in noted
  BY <1>1 DEF QuicInv
<1>3. /\ faults' \in Nat /\ (missing => faults' > 0) /\ (faults > 0 => faults' > 0)
      /\ noted' \subseteq {"overtaken", "recut"}
      /\ "overtaken" \in noted => "overtaken" \in noted'
  <2>1. faults' \in Nat /\ faults' >= faults /\ (missing => faults' > 0)
    BY <1>1, <1>2, FaultsGrow
  <2>2. Notes(got) \subseteq {"overtaken", "recut"}
    BY DEF Notes
  <2>3. noted' \subseteq {"overtaken", "recut"} /\ ("overtaken" \in noted => "overtaken" \in noted')
    BY <1>1, <1>2, <2>2
  <2>4. faults > 0 => faults' > 0
    BY <1>2, <2>1
  <2> QED BY <2>1, <2>3, <2>4
<1>6. dial \in peer.speaks /\ ~missing => Complete(got, peer, dial)
  <2>1. dial \in peer.speaks => Len(Datagrams(peer, dial)) = 3
    BY <1>2, FlightOf
  <2> QED BY <2>1 DEF Complete
<1>4. CASE ReadsHello(got)
  <2>1. PICK p \in (IF peer.usable THEN Parameters(got) ELSE {"none"}) : verdict' = Facts("yes", dial, p, {})
    BY <1>4 DEF Settles
  <2>2. pc' = "versions" /\ dial' = 0
    BY <1>4 DEF Settles
  <2>3. dial \in peer.speaks
    BY <1>2, <1>4, HelloSpeaks
  <2>4. CutWithin(got) => 1 \in {peer.cut[1], peer.cut[2]} \/ "recut" \in noted'
    BY <1>1 DEF CutWithin, Notes
  <2>5. p = "wrong" => CutWithin(got)
    <3>1. p = "wrong" => "wrong" \in Parameters(got)
      BY <2>1
    <3> QED BY <1>2, <2>3, <3>1, WrongOverCut
  <2>6. peer.usable /\ p # "true" => missing \/ "recut" \in noted'
    <3> SUFFICES ASSUME peer.usable, p # "true", ~missing, "recut" \notin noted' PROVE FALSE
      OBVIOUS
    <3>1. Complete(got, peer, dial)
      BY <1>6, <2>3
    <3>2. Parameters(got) = {"true"}
      BY <1>2, <2>3, <2>4, <3>1, CompleteIsTrue
    <3> QED BY <2>1, <3>2
  <2>9. p = "wrong" => peer.usable
    BY <2>1
  <2> HIDE DEF missing
  <2>7. /\ dial \in 0..2 /\ (dial # 0 => dial \in peer'.speaks)
        /\ dial # 1 => faults' > 0 \/ "overtaken" \in noted'
        /\ p = "wrong" => (faults' > 0 /\ 1 \in {peer'.cut[1], peer'.cut[2]}) \/ "recut" \in noted'
        /\ p = "none" => dial = 0 \/ ~peer'.usable \/ faults' > 0 \/ "recut" \in noted'
    BY <1>1, <1>2, <1>3, <2>3, <2>4, <2>5, <2>6, <2>9
  <2>8. \E h, q : verdict' = Facts("yes", h, q, {}) /\ Claimed(h, q, faults, noted)'
    BY <2>1, <2>7 DEF Claimed
  <2> QED BY <1>1, <1>2, <1>3, <2>1, <2>2, <2>8 DEF QuicInv
<1>5. CASE ~ReadsHello(got)
  <2>1. verdict' = verdict
    BY <1>5 DEF Settles
  <2>4. faults' > 0 \/ "overtaken" \in noted'
    <3>1. CASE dial = 2
      BY <1>2, <1>3, <3>1
    <3>2. CASE dial = 1 /\ ~missing
      <4>1. Complete(got, peer, dial)
        BY <1>2, <1>6, <3>2
      <4>2. "overtaken" \in Notes(got)
        BY <1>2, <1>5, <3>2, <4>1, NoHello
      <4> QED BY <1>1, <4>2
    <3> QED BY <1>2, <1>3, <3>1, <3>2
  <2> HIDE DEF missing
  <2>2. CASE dial = 1
    <3>1. pc' = pc /\ dial' = 2
      BY <1>5, <2>2 DEF Settles
    <3>2. Sent(<<>>, peer, 2)
      BY SentNothing
    <3> QED BY <1>1, <1>2, <1>3, <2>1, <2>4, <3>1, <3>2 DEF QuicInv
  <2>3. CASE dial = 2
    <3>1. pc' = "versions" /\ dial' = 0
      BY <1>5, <2>3 DEF Settles
    <3>2. Claimed(0, "none", faults, noted)'
      BY <2>4 DEF Claimed
    <3> QED BY <1>1, <1>2, <1>3, <2>1, <3>1, <3>2 DEF QuicInv
  <2> QED BY <1>2, <2>2, <2>3
<1> QED
  BY <1>4, <1>5

\* What the probe concludes of the claims it holds.
LEMMA ClaimsAreTrue ==
  ASSUME NEW h, NEW p, NEW v, Claimed(h, p, faults, noted)', 1 \in peer'.speaks,
         v \in {{}, peer'.speaks}, verdict' = Facts("yes", h, p, v)
  PROVE QuicVerdictsTrue'
<1>1. /\ verdict'.reachable = "yes" /\ verdict'.hello = h
      /\ verdict'.parameters = p /\ verdict'.versions = v
  BY DEF Facts
<1> QED
  BY <1>1 DEF Claimed, QuicVerdictsTrue

\* Every step keeps it.
LEMMA QuicGoesOn == QuicInv /\ [Next]_vars => QuicInv'
<1> SUFFICES ASSUME QuicInv, [Next]_vars, probe' = "quic" PROVE QuicInv'
  BY DEF QuicInv
<1>1. probe = "quic" /\ probe' = probe /\ peer' = peer
  BY HandshakeFamily
<1>2. peer \in QuicServers /\ faults \in Nat /\ dial \in 0..2 /\ noted \subseteq {"overtaken", "recut"}
  BY <1>1 DEF QuicInv
<1>3. CASE Reach
  <2> DEFINE sent == Datagrams(peer, 1)
             heard == sent # <<>> /\ sent[1].type \in {"initial", "handshake"}
  <2>1. /\ pc = "reach" /\ dial = 1 /\ got = <<>> /\ dial' = 1 /\ got' = <<>> /\ noted' = noted
        /\ pc' = IF verdict'.reachable = "yes" THEN "flight" ELSE "done"
    BY <1>1, <1>3 DEF Reach, quic, QuicInv
  <2>2. heard <=> 1 \in peer.speaks
    <3>1. \A i \in 1..Len(sent) : sent[i].type \in {"initial", "handshake"} => 1 \in peer.speaks
      BY <1>2, HeardSpeaks
    <3>2. 1 \in peer.speaks => sent # <<>> /\ sent[1].type = "initial"
      BY <1>2, HeardSpeaks
    <3>3. sent # <<>> => 1 \in 1..Len(sent)
      BY <1>2, SomeSent
    <3> QED BY <3>1, <3>2, <3>3
  <2> HIDE DEF heard
  <2>3. \/ NoFault /\ verdict' = Facts(IF heard THEN "yes" ELSE "no", 0, "none", {})
        \/ Fault   /\ \E r \in {"no", "unknown"} : verdict' = Facts(r, 0, "none", {})
    BY <1>3 DEF Reach, heard
  <2>4. faults' \in Nat /\ (Fault => faults' > 0)
    BY <1>2, <2>3, FaultsGrow
  <2>5. CASE verdict' = Facts("yes", 0, "none", {}) /\ heard
    <3>1. pc' = "flight"
      BY <2>1, <2>5 DEF Facts
    <3>2. Sent(<<>>, peer, 1)
      BY SentNothing
    <3> QED BY <1>1, <1>2, <2>1, <2>2, <2>4, <2>5, <3>1, <3>2 DEF QuicInv
  <2>6. ASSUME NEW r \in {"no", "unknown"}, verdict' = Facts(r, 0, "none", {}),
               r = "no" => 1 \notin peer.speaks \/ faults' > 0
        PROVE QuicInv'
    <3>1. /\ verdict'.reachable = r /\ verdict'.hello = 0 /\ verdict'.parameters = "none"
          /\ verdict'.versions = {}
      BY <2>6 DEF Facts
    <3>2. pc' = "done"
      BY <2>1, <3>1
    <3>3. QuicVerdictsTrue'
      BY <1>1, <2>6, <3>1 DEF QuicVerdictsTrue
    <3> QED BY <1>1, <1>2, <2>1, <2>4, <3>2, <3>3 DEF QuicInv
  <2>7. CASE verdict' = Facts("no", 0, "none", {}) /\ ~heard
    BY <2>2, <2>6, <2>7
  <2>8. CASE Fault /\ \E r \in {"no", "unknown"} : verdict' = Facts(r, 0, "none", {})
    BY <2>4, <2>6, <2>8
  <2> QED BY <2>3, <2>5, <2>7, <2>8
<1>4. CASE Arrives
  <2>1. PICK g : /\ (\E i \in 1..Len(Datagrams(peer, dial)) : g = Datagrams(peer, dial)[i])
                    \/ g \in SentAgain(peer, dial)
                 /\ got' = Append(got, g)
    BY <1>4 DEF Arrives
  <2>2. pc = "flight" /\ UNCHANGED <<probe, peer, pc, dial, noted, verdict, faults>>
    BY <1>4 DEF Arrives, NoFault
  <2>3. /\ dial \in 1..2 /\ 1 \in peer.speaks /\ Sent(got, peer, dial)
        /\ verdict = Facts("yes", 0, "none", {})
        /\ dial = 2 => faults > 0 \/ "overtaken" \in noted
    BY <1>1, <2>2 DEF QuicInv
  <2>4. Sent(got', peer, dial)
    BY <1>2, <2>1, <2>3, SentMore
  <2> QED BY <1>1, <1>2, <2>2, <2>3, <2>4 DEF QuicInv
<1>5. CASE Settles
  BY <1>1, <1>5, QuicSettles
<1>6. CASE ReadVersions
  <2>1. /\ pc = "versions" /\ pc' = "done" /\ UNCHANGED <<dial, got, noted>>
        /\ \/ NoFault /\ verdict' = [verdict EXCEPT !.versions = peer.speaks]
           \/ Fault /\ verdict' = verdict
    BY <1>6 DEF ReadVersions, Conclude, quic
  <2>2. PICK h, p : verdict = Facts("yes", h, p, {}) /\ Claimed(h, p, faults, noted)
    BY <1>1, <2>1 DEF QuicInv
  <2>3. 1 \in peer.speaks /\ got = <<>>
    BY <1>1, <2>1 DEF QuicInv
  <2>4. faults' \in Nat /\ faults' >= faults
    BY <1>2, <2>1, FaultsGrow
  <2>5. Claimed(h, p, faults, noted)'
    <3>1. faults > 0 => faults' > 0
      BY <1>2, <2>4
    <3> QED BY <1>1, <2>1, <2>2, <3>1 DEF Claimed
  <2>6. PICK v \in {{}, peer.speaks} : verdict' = Facts("yes", h, p, v)
    <3>1. [verdict EXCEPT !.versions = peer.speaks] = Facts("yes", h, p, peer.speaks)
      BY <2>2 DEF Facts
    <3> QED BY <2>1, <2>2, <3>1
  <2>7. QuicVerdictsTrue'
    BY <1>1, <2>3, <2>5, <2>6, ClaimsAreTrue
  <2> QED BY <1>1, <1>2, <2>1, <2>3, <2>4, <2>7 DEF QuicInv
<1>7. CASE UNCHANGED <<run, quic>>
  <2>1. UNCHANGED <<probe, peer, pc, faults, verdict, dial, got, noted>>
    BY <1>7 DEF run, quic
  <2> QED BY <1>1, <2>1 DEF QuicInv, QuicVerdictsTrue, Claimed
<1> QED
  BY <1>1, <1>3, <1>4, <1>5, <1>6, <1>7, QuicFamily DEF QuicStep

\* Whatever becomes of its datagrams, what is said of HTTP/3 departs from the server only as
\* QuicVerdictsTrue tells: by a loss, by a datagram that came before the Initial, or by a
\* repetition that was cut within EncryptedExtensions (handshake.py, reachability.py).
THEOREM QuicTellsTheTruth == Spec => []QuicVerdictsTrue
<1>1. QuicInv => QuicVerdictsTrue
  BY DEF QuicInv, QuicVerdictsTrue
<1> QED
  BY <1>1, QuicBegins, QuicGoesOn, PTL DEF Spec

-----------------------------------------------------------------------------
(* Types.                                                                   *)

\* No step fails more often than the run still may.
LEMMA FaultsBounded ==
  ASSUME faults \in 0..MaxFaults, [Next]_vars
  PROVE faults' \in 0..MaxFaults
<1>1. MaxFaults \in Nat
  BY ProbeRunAssumption
<1> DEFINE OneOrNone == Fault \/ NoFault
<1>2. OneOrNone => faults' \in 0..MaxFaults
  BY <1>1 DEF Fault, NoFault
<1>3. ASSUME HandshakeStep PROVE OneOrNone
  BY <1>3 DEF HandshakeStep, Receive, Send, SendAgain, ReadNothing, LinkBreaks
<1>4. ASSUME FeatureStep PROVE OneOrNone
  BY <1>4 DEF FeatureStep, Ask, Tell
<1>5. ASSUME QuicStep PROVE OneOrNone
  BY <1>5 DEF QuicStep, Reach, Arrives, Settles, ReadVersions
<1>6. ASSUME AppStep PROVE OneOrNone
  BY <1>6 DEF AppStep, Write, Piece, Ends, Fails
<1>7. ASSUME NameStep PROVE faults' \in 0..MaxFaults
  <2>1. FetchFails \/ FetchWorks => faults' \in 0..MaxFaults
    BY <1>1 DEF FetchFails, FetchWorks
  <2>2. OneOrNone \/ FetchFails \/ FetchWorks
    BY <1>7 DEF NameStep, Resolve, AskSystem, FetchSigned, Climb, RootKeys, Descend
  <2> QED BY <1>2, <2>1, <2>2
<1>8. ASSUME DenialStep PROVE OneOrNone
  BY <1>8 DEF DenialStep, Prove
<1>9. ASSUME UNCHANGED vars PROVE OneOrNone
  BY <1>9 DEF vars, run, NoFault
<1> HIDE DEF OneOrNone
<1> QED
  BY <1>2, <1>3, <1>4, <1>5, <1>6, <1>7, <1>8, <1>9 DEF Next

\* What a family keeps is as it was in the beginning while a probe of another family runs.
IdleRest ==
    /\ probe \notin FeatureKinds => FeatureIdle
    /\ probe # "quic" => QuicIdle
    /\ probe \notin AppKinds => answer = <<>>
    /\ probe # "grpc" => block = <<>> /\ fields = <<>>
    /\ probe # "denial" => DenialIdle

\* All families but one are idle at first.
LEMMA IdleBegins == Init => IdleRest
<1> SUFFICES ASSUME Init PROVE IdleRest
  OBVIOUS
<1>1. /\ FeatureIdle \/ FeatureInit
      /\ QuicIdle \/ QuicInit
      /\ AppIdle \/ AppInit
      /\ DenialIdle \/ DenialInit
  BY DEF Init
<1>2. FeatureInit => probe \in FeatureKinds
  BY DEF FeatureInit, Begin
<1>3. QuicInit => probe = "quic"
  BY DEF QuicInit, Begin
<1>4. AppInit => probe \in AppKinds /\ answer = <<>> /\ block = <<>> /\ fields = <<>>
  BY DEF AppInit, AppIdle, Begin
<1>5. DenialInit => probe = "denial"
  BY DEF DenialInit, Begin
<1> QED
  BY <1>1, <1>2, <1>3, <1>4, <1>5 DEF IdleRest, AppIdle

\* They stay idle: no step of another family touches them.
LEMMA IdleGoesOn == IdleRest /\ [Next]_vars => IdleRest'
<1> SUFFICES ASSUME IdleRest, [Next]_vars PROVE IdleRest'
  OBVIOUS
<1>1. probe' = probe
  BY HandshakeFamily
<1>2. ASSUME probe \notin FeatureKinds PROVE FeatureIdle'
  <2>1. ~FeatureStep
    BY <1>2 DEF FeatureStep, Ask, Tell
  <2>2. UNCHANGED replies
    BY <2>1 DEF Next, vars
  <2> QED BY <1>2, <2>2 DEF IdleRest, FeatureIdle
<1>3. ASSUME probe # "quic" PROVE QuicIdle'
  <2>1. ~QuicStep
    BY <1>3 DEF QuicStep
  <2>2. UNCHANGED quic
    BY <2>1 DEF Next, vars
  <2> QED BY <1>3, <2>2 DEF IdleRest, QuicIdle, quic
<1>4. ASSUME probe \notin AppKinds PROVE answer' = <<>>
  <2>1. ~AppStep
    BY <1>4 DEF AppStep, AppKinds, Write, Piece, Ends, Fails
  <2>2. UNCHANGED app
    BY <2>1 DEF Next, vars
  <2> QED BY <1>4, <2>2 DEF IdleRest, app
<1>5. ASSUME probe # "grpc" PROVE block' = <<>> /\ fields' = <<>>
  <2>1. block = <<>> /\ fields = <<>>
    BY <1>5 DEF IdleRest
  <2>2. CASE AppStep
    <3>1. UNCHANGED <<block, fields>>
      BY <1>5, <2>2 DEF AppStep, Write, Piece, Ends, Fails
    <3> QED BY <2>1, <3>1
  <2>3. CASE ~AppStep
    <3>1. UNCHANGED app
      BY <2>3 DEF Next, vars
    <3> QED BY <2>1, <3>1 DEF app
  <2> QED BY <2>2, <2>3
<1>6. ASSUME probe # "denial" PROVE DenialIdle'
  <2>1. ~DenialStep
    BY <1>6 DEF DenialStep, Prove
  <2>2. UNCHANGED proof
    BY <2>1 DEF Next, vars
  <2> QED BY <1>6, <2>2 DEF IdleRest, DenialIdle
<1> QED
  BY <1>1, <1>2, <1>3, <1>4, <1>5, <1>6 DEF IdleRest

\* Every variable of every family keeps its type, and no run fails more often than it may.
THEOREM ProbesTyped == Spec => []ProbesTypeOK
<1> DEFINE InBounds == faults \in 0..MaxFaults
           IInv == /\ FeatureInv /\ QuicInv /\ AppInv /\ BlockInv /\ DenialInv
                   /\ IdleRest /\ InBounds
<1>1. Init => InBounds
  <2>1. Init => faults = 0
    BY DEF Init, HandshakeInit, FeatureInit, QuicInit, AppInit, NameInit, DenialInit, Begin
  <2>2. MaxFaults \in Nat
    BY ProbeRunAssumption
  <2> QED BY <2>1, <2>2
<1>2. InBounds /\ [Next]_vars => InBounds'
  BY FaultsBounded
<1>3. IInv => FeatureTypeOK
  <2>1. FeatureReply = [is : {"hello", "alert", "error", "late"}, says : Signs \cup Suites]
    BY DEF FeatureReply
  <2>2. CASE probe \in FeatureKinds
    BY <2>1, <2>2 DEF FeatureInv, FeatureTypeOK
  <2>3. CASE probe \notin FeatureKinds
    BY <2>3 DEF IdleRest, FeatureIdle, FeatureTypeOK
  <2> QED BY <2>2, <2>3
<1>4. IInv => QuicTypeOK
  <2> SUFFICES ASSUME IInv PROVE QuicTypeOK
    OBVIOUS
  <2>1. {Stream[i] : i \in 1..Len(Stream)} = StreamUnits
    <3>1. Len(Stream) = 4 /\ \A i \in 1..4 : i = 1 \/ i = 2 \/ i = 3 \/ i = 4
      BY StreamTyped
    <3>2. 1 \in 1..4 /\ 2 \in 1..4 /\ 3 \in 1..4 /\ 4 \in 1..4
      OBVIOUS
    <3> QED BY <3>1, <3>2, StreamTyped DEF StreamUnits
  <2>2. QuicTypeOK <=> dial \in 0..2 /\ noted \subseteq {"overtaken", "recut"} /\ got \in Seq(Datagram)
    BY <2>1 DEF QuicTypeOK, Datagram
  <2>3. <<>> \in Seq(Datagram)
    OBVIOUS
  <2>4. CASE probe = "quic"
    <3>1. dial \in 0..2 /\ noted \subseteq {"overtaken", "recut"} /\ (pc = "flight" => Sent(got, peer, dial)) /\ (pc # "flight" => got = <<>>)
      BY <2>4 DEF QuicInv
    <3> QED BY <2>2, <2>3, <3>1 DEF Sent
  <2>5. CASE probe # "quic"
    BY <2>2, <2>3, <2>5 DEF IdleRest, QuicIdle
  <2> QED BY <2>4, <2>5
<1>5. IInv => AppTypeOK
  <2> SUFFICES ASSUME IInv PROVE AppTypeOK
    OBVIOUS
  <2>1. answer \in Seq(PieceSet)
    <3>1. CASE probe \in AppKinds
      <4>1. /\ pc \in {"write", "read", "second", "done"}
            /\ pc \in {"write", "done"} => answer = <<>>
            /\ pc \in {"read", "second"} => Begins(answer, Pieces(probe, peer, pc = "second"))
        BY <3>1 DEF AppInv
      <4>2. <<>> \in Seq(PieceSet)
        OBVIOUS
      <4> QED BY <4>1, <4>2 DEF Begins
    <3>2. CASE probe \notin AppKinds
      <4>1. answer = <<>> /\ <<>> \in Seq(PieceSet)
        BY <3>2 DEF IdleRest
      <4> QED BY <4>1
    <3> QED BY <3>1, <3>2
  <2>2. block \in Seq(BlockFields) /\ fields \in Seq(Headers)
    <3>1. <<>> \in Seq(BlockFields) /\ <<>> \in Seq(Headers)
      OBVIOUS
    <3>2. CASE probe = "grpc"
      BY <3>2 DEF BlockInv
    <3>3. CASE probe # "grpc"
      BY <3>1, <3>3 DEF IdleRest
    <3> QED BY <3>2, <3>3
  <2>3. block \in Seq([kind : {"indexed", "insert", "literal", "resize"}, number : Nat, header : Headers])
    <3> DEFINE F == [kind : {"indexed", "insert", "literal", "resize"}, number : Nat, header : Headers]
    <3>1. BlockFields \subseteq F
      BY DEF BlockFields
    <3> HIDE DEF F
    <3>2. Seq(BlockFields) \subseteq Seq(F)
      BY <3>1
    <3> QED BY <2>2, <3>2 DEF F
  <2> QED BY <2>1, <2>2, <2>3 DEF AppTypeOK, PieceSet
<1>6. IInv => DenialTypeOK
  <2> SUFFICES ASSUME IInv PROVE DenialTypeOK
    OBVIOUS
  <2>1. CASE probe = "denial"
    <3>1. PICK z \in Zones : peer.zone = z
      BY <2>1 DEF DenialInv
    <3>2. proof \subseteq DenialOwners(z)
      BY <2>1, <3>1 DEF DenialInv
    <3> QED BY <3>2, OwnersAre DEF DenialTypeOK
  <2>2. CASE probe # "denial"
    BY <2>2 DEF IdleRest, DenialIdle, DenialTypeOK
  <2> QED BY <2>1, <2>2
<1>7. Init => IInv
  BY <1>1, FeatureBegins, QuicBegins, AppBegins, BlockBegins, DenialBegins, IdleBegins
<1>8. BlockInv => DecodedAsWritten
  BY DEF BlockInv, DecodedAsWritten
<1>9. IInv /\ [Next]_vars => IInv'
  <2> HIDE DEF InBounds
  <2> QED BY <1>2, <1>8, FeatureGoesOn, QuicGoesOn, AppGoesOn, BlockGoesOn, DenialGoesOn, IdleGoesOn
<1>10. IInv /\ HandshakeTypeOK /\ NameTypeOK => ProbesTypeOK
  BY <1>3, <1>4, <1>5, <1>6 DEF ProbesTypeOK
<1> HIDE DEF IInv
<1> QED
  BY <1>7, <1>9, <1>10, HandshakesTyped, NamesTyped, PTL DEF Spec
=============================================================================
