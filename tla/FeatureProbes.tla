--------------------------- MODULE FeatureProbes ----------------------------
(***************************************************************************)
(* The probes that ask one or more questions and read a trait of the server *)
(* out of the answers: tls/features.py, tls/active.py, tls/robot.py and     *)
(* tls/sslv2.py.  Each question has a connection of its own, and each may   *)
(* fail alone.  What a single ClientHello draws is ProbeReader's; here it   *)
(* is a ServerHello, an alert or an error.                                  *)
(***************************************************************************)
EXTENDS ProbeRun, SequencesExt

CONSTANTS
    Legacy,    \* LEGACY_CIPHER_SUITES, in the order a hello lists them
    Versions   \* the codes of PROTOCOL_VERSIONS but SSL 3.0

ASSUME FeatureProbesAssumption ==
    /\ Legacy \in Seq({Legacy[i] : i \in DOMAIN Legacy}) /\ Len(Legacy) >= 2
    /\ \A i, k \in 1..Len(Legacy) : Legacy[i] = Legacy[k] => i = k
    /\ Versions \subseteq Nat
    /\ \E newest \in Versions : \A v \in Versions : v <= newest

VARIABLE replies \* the answers drawn so far, in order

Hello(says) == [is |-> "hello", says |-> says]
AlertReply  == [is |-> "alert", says |-> "alert"]
NoReply     == [is |-> "error", says |-> "error"]

Suites == {Legacy[i] : i \in 1..Len(Legacy)}
Newest(versions) == CHOOSE v \in versions : \A w \in versions : w <= v

\* The subsequences of the legacy suites in any order: what a server may prefer.
Orders == {o \in UNION {[1..n -> Suites] : n \in 1..Len(Legacy)} :
             \A i, k \in DOMAIN o : o[i] = o[k] => i = k}

EchoProbes == {"secure_renegotiation", "extended_master_secret", "encrypt_then_mac",
               "session_resumption", "downgrade_sentinel"}
FeatureKinds == EchoProbes \cup
    {"compression", "fallback", "preference", "grease", "heartbleed", "ccs", "sslv2", "robot"}

\* The servers each probe may meet, described by what that probe is about.
FeatureServers(p) ==
    CASE p \in EchoProbes -> [tls12 : BOOLEAN, trait : BOOLEAN]
      [] p = "compression" -> [tls12 : BOOLEAN, trait : BOOLEAN]
      [] p = "fallback" ->
           {s \in [speaks : (SUBSET Versions) \ {{}}, found : SUBSET Versions, scsv : BOOLEAN] :
               s.found \subseteq s.speaks}
      [] p = "preference" -> [order : Orders, imposes : BOOLEAN]
      [] p = "grease" -> [tls12 : BOOLEAN, trait : BOOLEAN]
      [] p = "heartbleed" -> [before : 0..17, beat : {"leak", "echo", "alert", "silence"}]
      [] p = "ccs" -> [flight : BOOLEAN, early : {"alert", "close", "holds", "data"}]
      [] p = "sslv2" -> [speaks : {"export", "sslv2", "tls", "cleartext", "nothing"}]
      [] p = "robot" -> [rsa : BOOLEAN, leaf : BOOLEAN, oracle : BOOLEAN]

-----------------------------------------------------------------------------
(* One hello, one answer.                                                   *)

\* detect_secure_renegotiation, detect_extended_master_secret, detect_encrypt_then_mac
\* and their like: without a ServerHello of 1.2 nothing is known.
EchoVerdict(r) ==
    [is |-> "feature", value |-> IF r.is # "hello" \/ r.says = "other_version" THEN "unknown"
                                 ELSE IF r.says = "echo" THEN "yes" ELSE "no"]

EchoAnswer(s) == Hello(IF ~s.tls12 THEN "other_version" ELSE IF s.trait THEN "echo" ELSE "none")

\* detect_session_resumption reads two traits of one hello, each like an echo.
ResumptionVerdict(r) == EchoVerdict(r)

\* detect_downgrade_protection: asked only of a server found to speak 1.2 and 1.3.
DowngradeVerdict(r) == EchoVerdict(r)

\* detect_tls_compression: a ServerHello of any version tells.
CompressionVerdict(r) ==
    [is |-> "feature", value |-> IF r.is # "hello" THEN "unknown"
                                 ELSE IF r.says = "echo" THEN "yes" ELSE "no"]

CompressionAnswer(s) == IF s.tls12 THEN Hello(IF s.trait THEN "echo" ELSE "none") ELSE AlertReply

\* detect_fallback_scsv: the newest version below the newest one found, marked as a
\* fallback.  Nothing to ask when none is below.
Below(s) == {v \in Versions : s.found # {} /\ v < Newest(s.found)}
Asks(s)  == Below(s) # {}

Fallback(s) == Newest(Below(s))

FallbackAnswer(s) ==
    IF s.scsv /\ Newest(s.speaks) > Fallback(s) THEN Hello("inappropriate")
    ELSE IF \E v \in s.speaks : v <= Fallback(s) THEN Hello("none") ELSE AlertReply

FallbackVerdict(r) ==
    [is |-> "feature", value |-> IF r.is # "hello" THEN "unknown"
                                 ELSE IF r.says = "inappropriate" THEN "yes" ELSE "no"]

\* check_heartbleed: an opening record, then up to sixteen more; only a heartbeat
\* longer than the request is a leak, and an alert or the end of the stream is none.
HeartbleedVerdict(s, r) ==
    [is |-> "active", found |-> r.is = "hello" /\ s.before < 16 /\ s.beat = "leak"]

\* check_ccs_injection: after the flight an early ChangeCipherSpec goes out.  An
\* alert or a close is a rejection; silence and anything else is an acceptance.
CcsVerdict(s, r) ==
    [is |-> "active",
     found |-> s.flight /\ (r.is = "late" \/ (r.is = "hello" /\ s.early \in {"holds", "data"}))]

\* probe_sslv2: only a SERVER-HELLO in SSLv2 framing counts, and "reached" needs an
\* answer in the framing of SSL or TLS.
Sslv2Verdict(s, r) ==
    [is |-> "sslv2",
     supported |-> r.is = "hello" /\ s.speaks \in {"sslv2", "export"},
     export    |-> r.is = "hello" /\ s.speaks = "export",
     reached   |-> r.is = "hello" /\ s.speaks \in {"sslv2", "export", "tls"}]

-----------------------------------------------------------------------------
(* detect_cipher_preference: three hellos.                                   *)

\* The server takes the first suite both list: in its own order if it imposes one.
First(s, offer) ==
    LET ranked == IF s.imposes THEN s.order ELSE offer
        shared == {i \in DOMAIN ranked : /\ \E k \in DOMAIN offer : offer[k] = ranked[i]
                                         /\ \E k \in DOMAIN s.order : s.order[k] = ranked[i]}
    IN  IF shared = {} THEN AlertReply ELSE Hello(ranked[Min(shared)])

\* All suites; all but the one chosen; then the two, the second choice first.
PreferenceOffer(drawn) ==
    CASE Len(drawn) = 0 -> Legacy
      [] Len(drawn) = 1 -> RemoveFirst(Legacy, drawn[1].says)
      [] Len(drawn) = 2 -> <<drawn[2].says, drawn[1].says>>

PreferenceVerdict(drawn) ==
    [is |-> "feature",
     value |-> IF Len(drawn) < 3 \/ drawn[Len(drawn)].is # "hello" THEN "unknown"
               ELSE IF drawn[3].says = drawn[1].says THEN "yes" ELSE "no"]

\* _greased_handshake, twice: a hello with GREASE, and a plain one only if that fails.
GreaseAnswer(s, drawn) ==
    IF s.tls12 /\ (s.trait \/ Len(drawn) = 1) THEN Hello("none") ELSE AlertReply

GreaseVerdict(drawn) ==
    [is |-> "feature", value |-> IF drawn[Len(drawn)].is # "hello" THEN "unknown"
                                 ELSE IF Len(drawn) = 1 THEN "yes" ELSE "no"]

-----------------------------------------------------------------------------
(* check_robot: one handshake, then five vectors, then the five again.       *)

\* _padded_blocks: the first two are well formed.
Vectors == 1..5

\* _negotiate: a server chose an RSA suite and showed a certificate with an RSA key.
Negotiated(s, drawn) == drawn[1].is = "hello" /\ s.rsa /\ s.leaf

RobotAnswer(s, drawn) ==
    IF Len(drawn) = 0 THEN Hello("negotiated")
    ELSE IF s.oracle /\ (Len(drawn) - 1) % 5 >= 2 THEN Hello("decrypt_error")
    ELSE Hello("bad_record_mac")

Round(drawn, n) == [v \in Vectors |-> drawn[1 + 5 * (n - 1) + v]]
Alike(labels)   == \A v, w \in Vectors : labels[v] = labels[w]

\* Mutant: one round decides.
RobotVerdict_OneRound(s, drawn) ==
    [is |-> "robot", tested |-> Len(drawn) > 1,
     vulnerable |-> Len(drawn) > 1 /\ ~Alike(Round(drawn, 1))]

\* A difference counts only if a second round repeats it label by label.
RobotVerdict(s, drawn) ==
    [is |-> "robot", tested |-> Len(drawn) > 1,
     vulnerable |-> Len(drawn) = 11 /\ Round(drawn, 1) = Round(drawn, 2)]

-----------------------------------------------------------------------------
(* The probe as it runs.                                                    *)

\* Whether the probe stops after these answers.
Enough(p, s, drawn) ==
    LET n == Len(drawn) IN
    CASE p = "preference" -> n > 0 /\ (n = 3 \/ drawn[n].is # "hello")
      [] p = "grease" -> n > 0 /\ (n = 2 \/ drawn[n].is = "hello")
      [] p = "robot" ->
           \/ n = 1 /\ ~Negotiated(s, drawn)
           \/ n = 6 /\ Alike(Round(drawn, 1))
           \/ n = 11
      [] p = "fallback" -> n = 1 \/ ~Asks(s)
      [] OTHER -> n = 1

Answer(p, s, drawn) ==
    CASE p \in EchoProbes -> EchoAnswer(s)
      [] p = "compression" -> CompressionAnswer(s)
      [] p = "fallback" -> FallbackAnswer(s)
      [] p = "preference" -> First(s, PreferenceOffer(drawn))
      [] p = "grease" -> GreaseAnswer(s, drawn)
      [] p = "robot" -> RobotAnswer(s, drawn)
      [] OTHER -> Hello("answer")

FeatureVerdict(p, s, drawn) ==
    CASE p \in EchoProbes \ {"session_resumption", "downgrade_sentinel"} -> EchoVerdict(drawn[1])
      [] p = "session_resumption" -> ResumptionVerdict(drawn[1])
      [] p = "downgrade_sentinel" -> DowngradeVerdict(drawn[1])
      [] p = "compression" -> CompressionVerdict(drawn[1])
      [] p = "fallback" -> IF Asks(s) THEN FallbackVerdict(drawn[1])
                           ELSE [is |-> "feature", value |-> "unknown"]
      [] p = "preference" -> PreferenceVerdict(drawn)
      [] p = "grease" -> GreaseVerdict(drawn)
      [] p = "heartbleed" -> HeartbleedVerdict(s, drawn[1])
      [] p = "ccs" -> CcsVerdict(s, drawn[1])
      [] p = "sslv2" -> Sslv2Verdict(s, drawn[1])
      [] p = "robot" -> IF Negotiated(s, drawn) THEN RobotVerdict(s, drawn)
                        ELSE [is |-> "robot", tested |-> FALSE, vulnerable |-> FALSE]

FeatureInit ==
    \E p \in FeatureKinds : \E s \in FeatureServers(p) :
        Begin(p, s, "ask") /\ replies = <<>>

FeatureIdle == replies = <<>>

Ask ==
    /\ pc = "ask" /\ probe \in FeatureKinds
    /\ ~Enough(probe, peer, replies)
    /\ \/ replies' = Append(replies, Answer(probe, peer, replies)) /\ NoFault
       \/ replies' = Append(replies, NoReply) /\ Fault
       \* The answer to the early ChangeCipherSpec is late: socket.timeout.
       \/ probe = "ccs" /\ replies' = Append(replies, [NoReply EXCEPT !.is = "late"]) /\ Fault
    /\ UNCHANGED <<probe, peer, pc, verdict>>

Tell ==
    /\ pc = "ask" /\ probe \in FeatureKinds
    /\ Enough(probe, peer, replies)
    /\ Conclude(FeatureVerdict(probe, peer, replies))
    /\ NoFault /\ UNCHANGED <<probe, peer, replies>>

FeatureStep == Ask \/ Tell

-----------------------------------------------------------------------------
(* Properties.                                                              *)

\* What an answer says: a sign of the trait, what a failed decryption draws, or a suite.
Signs == {"echo", "none", "other_version", "inappropriate", "alert", "error", "answer",
          "negotiated", "decrypt_error", "bad_record_mac"}

FeatureTypeOK ==
    replies \in Seq([is : {"hello", "alert", "error", "late"}, says : Signs \cup Suites])

\* No failure of the network reads as a trait of the server: a lost answer leaves a
\* feature unknown and an attack unproven, whichever of several questions it hit, and
\* the fallback probe holds up when the enumeration before it missed versions.  Two
\* probes are weaker, as documented in features.py and active.py: a greased hello
\* that fails for another reason reads as intolerance, and silence after an early
\* ChangeCipherSpec as acceptance.
FeatureVerdictsTrue ==
    pc = "done" /\ probe \in FeatureKinds \ {"robot"} =>
      LET Says(truth) == verdict.value # "unknown" => truth = (verdict.value = "yes") IN
      CASE probe \in EchoProbes -> Says(peer.tls12 /\ peer.trait)
        [] probe = "compression" -> Says(peer.trait)
        [] probe = "fallback"    -> Says(peer.scsv)
        [] probe = "preference"  -> Says(peer.imposes)
        [] probe = "grease"      -> Says(peer.trait) \/ (verdict.value = "no" /\ faults > 0)
        [] probe = "heartbleed"  -> verdict.found => peer.beat = "leak"
        [] probe = "ccs"         -> verdict.found => peer.early \in {"holds", "data"} \/ faults > 0
        [] probe = "sslv2"       ->
             /\ verdict.export => peer.speaks = "export"
             /\ verdict.supported => verdict.reached /\ peer.speaks \in {"sslv2", "export"}
             /\ verdict.reached => peer.speaks # "cleartext"

\* check_robot accuses a server only of what it does: a server that treats every
\* padding alike is called vulnerable only if the network failed the same vector of
\* both rounds, and an oracle is cleared only if the network failed at least once.
OneFailureAccusesNobody ==
    pc = "done" /\ probe = "robot" =>
        /\ verdict.vulnerable => peer.oracle \/ faults >= 2
        /\ verdict.tested /\ ~verdict.vulnerable => ~peer.oracle \/ faults > 0
=============================================================================
