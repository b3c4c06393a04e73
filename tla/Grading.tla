------------------------------ MODULE Grading -------------------------------
(***************************************************************************)
(* What a scan makes of its observations of one address: score, grade and   *)
(* verdict (assessment.py and policy.py with data/algorithms.json), security*)
(* strength (strength.py), known vulnerabilities (vulnerabilities.py) and   *)
(* conformance to profiles (compliance.py).  Suites stand for the kinds the *)
(* policy tells apart by their tags; what each finding says is left out.    *)
(***************************************************************************)
EXTENDS ProbeRun, SequencesExt

CONSTANT MaxOffered \* Bound of the model: protocol versions, and suites, of one server.

ASSUME GradingAssumption == MaxOffered \in Nat \ {0}

VARIABLE report

-----------------------------------------------------------------------------
(* The policy: data/algorithms.json.                                        *)

CategoryOrder == <<"recommended", "acceptable", "weak", "insecure">>
Scored        == Range(CategoryOrder)
Rank(c)       == CHOOSE n \in DOMAIN CategoryOrder : CategoryOrder[n] = c
Score         == [recommended |-> 100, acceptable |-> 80, weak |-> 40, insecure |-> 0]

\* worst_category: informational and unknown do not count.
Worst(categories) ==
    LET scored == categories \cap Scored IN
    IF scored = {} THEN "unknown" ELSE CategoryOrder[Max({Rank(c) : c \in scored})]

Protocol == [tls1_3 |-> "recommended", tls1_2 |-> "acceptable", tls1_0 |-> "weak", ssl3 |-> "insecure"]

SuiteTags == [gcm |-> {"aead"}, cbc |-> {"cbc"}, triple_des |-> {"cbc", "3des"}, rc4 |-> {"rc4"}, odd |-> {}]
TagCategory == [aead |-> "recommended", cbc |-> "acceptable", 3des |-> "weak", rc4 |-> "insecure"]

\* classify_cipher.
Suite(c) == Worst({TagCategory[t] : t \in SuiteTags[c]})

\* Grades by their position in the scale: 1 is A+, 7 is F.
Floor(g) == <<95, 90, 80, 70, 60, 50, 0>>[g]
GradeFor(score) == Min({g \in 1..7 : score >= Floor(g)})

GradeCap == [any_insecure_offered |-> 7, sslv3_supported |-> 7, no_tls12_or_higher |-> 7,
             weak_protocol_supported |-> 4, certificate_invalid |-> 7, self_signed |-> 4]

-----------------------------------------------------------------------------
(* Observations.                                                            *)

NoCertificate == [read |-> FALSE, key |-> "unknown", signature |-> "unknown",
                  invalid |-> FALSE, self_signed |-> FALSE]

Certificates ==
    {NoCertificate} \cup
    [read : {TRUE}, key : {"recommended", "weak", "insecure", "unknown"},
     signature : {"recommended", "insecure", "unknown"}, invalid : BOOLEAN, self_signed : BOOLEAN]

Some(S) == UNION {kSubset(n, S) : n \in 0..MaxOffered}

Observations ==
    {o \in [protocols : Some(DOMAIN Protocol), ciphers : Some(DOMAIN SuiteTags),
            certificate : Certificates, alternate : {"none", "clean", "weak", "invalid"},
            cleartext : BOOLEAN] :
        /\ ~o.certificate.read => o.alternate = "none"
        /\ o.cleartext => o.protocols = {} /\ o.ciphers = {} /\ ~o.certificate.read}

-----------------------------------------------------------------------------
(* assess.                                                                  *)

ProtocolClass(o) == Worst({Protocol[p] : p \in o.protocols})
CipherClass(o)   == Worst({Suite(c) : c \in o.ciphers})

\* _assess_certificate: a certificate that browsers reject is insecure whatever its key.
CertificateClass(o) ==
    IF o.certificate.invalid THEN "insecure" ELSE Worst({o.certificate.key, o.certificate.signature})

\* The classes assessed, each once, and those of them that are scored.
Classes(o) == <<ProtocolClass(o), CipherClass(o), CertificateClass(o)>>
Weighed(o) == {n \in 1..3 : Classes(o)[n] \in Scored}

\* _alternate_certificate_findings: of a second certificate only an invalid one caps.
Caps(o) ==
    {c \in DOMAIN GradeCap :
        CASE c = "any_insecure_offered"    -> "insecure" \in Range(Classes(o))
          [] c = "sslv3_supported"         -> "ssl3" \in o.protocols
          [] c = "no_tls12_or_higher"      -> {"tls1_2", "tls1_3"} \cap o.protocols = {}
          [] c = "weak_protocol_supported" -> "tls1_0" \in o.protocols
          [] c = "certificate_invalid"     -> o.certificate.invalid \/ o.alternate = "invalid"
          [] c = "self_signed"             -> o.certificate.self_signed}

\* Mutant: the last cap in the list decides, whether it is lower or not.
Capped_LastCapWins(o, grade) == IF Caps(o) = {} THEN grade ELSE Min({GradeCap[c] : c \in Caps(o)})

\* _apply_caps: a cap lowers a grade and never lifts one.
Capped(o, grade) == Max({grade} \cup {GradeCap[c] : c \in Caps(o)})

\* What a class adds to the score, and all of them together.
Points(o, n) == IF n \in Weighed(o) THEN Score[Classes(o)[n]] ELSE 0
Total(o)     == Points(o, 1) + Points(o, 2) + Points(o, 3)

\* Mutant: the sum of the classes.
Base_Sum(o) == Total(o)

\* _score: the mean of the classes, which weigh the same (class_weights), rounded.
Base(o) == LET n == Cardinality(Weighed(o)) IN (2 * Total(o) + n) \div (2 * n)

VerdictFor == [recommended |-> "secure", acceptable |-> "acceptable", weak |-> "weak", insecure |-> "insecure"]

\* compute_security_strength: the weakest part whose bits are known.
SuiteBits == [gcm |-> 128, cbc |-> 128, triple_des |-> 112, rc4 |-> 38, odd |-> 999]
KeyBits   == [recommended |-> 128, weak |-> 80, insecure |-> 0, unknown |-> 999]
Strength(o) ==
    Min({SuiteBits[c] : c \in o.ciphers} \cup (IF o.certificate.read THEN {KeyBits[o.certificate.key]} ELSE {})
        \cup {999})

\* vulnerabilities._match of one condition, given which of the conditions in it matched.
Match(o, d, matched) ==
    \/ d.is = "protocol"   /\ d.of \in o.protocols
    \/ d.is = "cipher_tag" /\ \E c \in o.ciphers : d.of \in SuiteTags[c]
    \/ d.is = "all"        /\ \A sub \in d.of : sub \in matched
    \/ d.is = "any"        /\ \E sub \in d.of : sub \in matched
    \/ d.is = "not"        /\ d.of \notin matched

\* The conditions of the policy nest two deep.
Within(d)       == IF d.is \in {"all", "any"} THEN d.of ELSE IF d.is = "not" THEN {d.of} ELSE {}
Innermost(o, d) == Match(o, d, {})
Nested(o, d)    == Match(o, d, {sub \in Within(d) : Innermost(o, sub)})
Matches(o, d)   == Match(o, d, {sub \in Within(d) : Nested(o, sub)})

Is(kind, of) == [is |-> kind, of |-> of]
Detection ==
    [POODLE |-> Is("protocol", "ssl3"), SWEET32 |-> Is("cipher_tag", "3des"), RC4 |-> Is("cipher_tag", "rc4"),
     BEAST |-> Is("all", {Is("any", {Is("protocol", "tls1_0")}), Is("cipher_tag", "cbc")})]

Vulnerabilities(o) == {v \in DOMAIN Detection : Matches(o, Detection[v])}

NoReport == [score |-> 0, grade |-> 0, verdict |-> "unknown", strength |-> 999, vulnerabilities |-> {}]

\* assess and evaluate.  Grade 0 is none.
Report(o) ==
    LET worst == Worst(Range(Classes(o)))
        scored == IF Weighed(o) = {} THEN NoReport
                  ELSE [NoReport EXCEPT !.score = Base(o), !.grade = Capped(o, GradeFor(Base(o))),
                                        !.verdict = VerdictFor[worst]]
        judged == IF o.cleartext THEN [NoReport EXCEPT !.score = 0, !.grade = GradeFor(0), !.verdict = "insecure"]
                  ELSE IF o.alternate = "invalid" THEN [scored EXCEPT !.verdict = "insecure"] ELSE scored
    IN  [judged EXCEPT !.strength = Strength(o), !.vulnerabilities = Vulnerabilities(o)]

-----------------------------------------------------------------------------
(* Profiles.                                                                *)

\* What a profile may rule on, and how: it names what may be offered or must be there
\* (require), or only what may not (forbid).
RuleForms ==
    {"protocol", "cipher", "group", "signature"} \X {"require", "forbid"} \cup
    {<<"certificate", "forbid">>, <<"strength", "require">>, <<"hsts", "require">>, <<"stapling", "require">>}
RuleKinds == {r[1] : r \in RuleForms}

\* Against what was observed of each: as ruled, against the rule, or nothing.
Facts ==
    {f \in [RuleKinds -> {"good", "bad", "nothing"}] :
        f["strength"] = "nothing" <=>
            \A r \in {"cipher", "group", "signature", "certificate"} : f[r] = "nothing"}

\* What is not ruled on is left out of account: it is as ruled, or all unseen.
Ruled(rules, f) ==
    LET rest == {f[k] : k \in RuleKinds \ {r[1] : r \in rules}} IN rest = {"good"} \/ rest = {"nothing"}

Profiles == {p \in UNION {kSubset(n, RuleForms) : n \in 1..2} : \A q, r \in p : q[1] = r[1] => q = r}

\* Mutant: a requirement nothing was observed of is met.
Unverified_Met(rules, f) == {}

\* The requirements that could not be tested.
Unverified(rules, f) == {r \in rules : r[2] = "require" /\ r[1] # "protocol" /\ f[r[1]] = "nothing"}

\* evaluate_profile, for a list of rules.
Conformance(rules, f) ==
    IF f["protocol"] = "nothing" THEN "not_assessed"
    ELSE IF \E r \in rules : f[r[1]] = "bad" THEN "fail"
    ELSE IF Unverified(rules, f) # {} THEN "not_assessed" ELSE "pass"

\* evaluate_profile, for a profile that forbids the weak and insecure categories of the
\* policy itself: it looks at the algorithms offered, one by one.
LocalConformance(o) ==
    LET offered == {Protocol[p] : p \in o.protocols} \cup {Suite(c) : c \in o.ciphers}
                   \cup {Worst({o.certificate.key, o.certificate.signature})}
    IN  IF o.protocols = {} THEN "not_assessed"
        ELSE IF offered \cap {"weak", "insecure"} # {} THEN "fail" ELSE "pass"

-----------------------------------------------------------------------------
(* The steps.                                                               *)

GradingInit ==
    /\ \/ \E o \in Observations : Begin("grade", o, "assess")
       \/ \E f \in Facts : \E p \in Profiles :
            Ruled(p, f) /\ Begin("profile", [facts |-> f, rules |-> p], "conform")
    /\ report = NoReport

GradingIdle == report = NoReport

Assess ==
    /\ probe = "grade" /\ pc = "assess"
    /\ report' = Report(peer) /\ pc' = "conform"
    /\ NoFault /\ UNCHANGED <<probe, peer, verdict>>

Conform ==
    /\ pc = "conform"
    /\ \/ probe = "grade"   /\ Conclude([is |-> LocalConformance(peer)])
       \/ probe = "profile" /\ Conclude([is |-> Conformance(peer.rules, peer.facts)])
    /\ NoFault /\ UNCHANGED <<probe, peer, report>>

GradingStep == Assess \/ Conform

-----------------------------------------------------------------------------
(* Properties.                                                              *)

GradingTypeOK ==
    /\ report.score \in 0..100 /\ report.grade \in 0..7 /\ report.strength \in 0..999
    /\ report.verdict \in {"unknown", "secure", "acceptable", "weak", "insecure"}
    /\ report.vulnerabilities \subseteq DOMAIN Detection

\* The observations that differ from one by more of what is no better than the worst of
\* its class, or by a worse certificate.
Worsened(o) ==
    {[o EXCEPT !.protocols = @ \cup {p}] :
        p \in {q \in DOMAIN Protocol : o.protocols # {} /\ Rank(Protocol[q]) >= Rank(ProtocolClass(o))}} \cup
    {[o EXCEPT !.ciphers = @ \cup {c}] :
        c \in {d \in DOMAIN SuiteTags : /\ CipherClass(o) \in Scored /\ Suite(d) \in Scored
                                        /\ Rank(Suite(d)) >= Rank(CipherClass(o))}} \cup
    (IF o.certificate.read THEN {[o EXCEPT !.certificate.invalid = TRUE],
                                 [o EXCEPT !.certificate.self_signed = TRUE],
                                 [o EXCEPT !.certificate.signature = "insecure"],
                                 [o EXCEPT !.alternate = "invalid"]} ELSE {})

Badness(v) == CHOOSE n \in 1..4 : VerdictFor[CategoryOrder[n]] = v

\* Offering more of what is no better, or a worse certificate, never pays: not in score,
\* grade, verdict, strength or known vulnerabilities.  The letter and the word agree in
\* that an insecure verdict has an F where there is a grade, a weak one a B at best, and a
\* secure one an A+ - but in two cases, in which they say opposite things, though
\* assessment.py 8-9 holds that they never can: caps lower the letter alone, so that a
\* server of which no version of TLS was seen, and a good certificate, is called secure
\* and graded F, and one whose good certificate signed itself is called secure and graded
\* C.  Nothing invalid and no cleartext is ever called secure.
GradesConsistent ==
    pc = "done" /\ probe = "grade" =>
        /\ \A o \in Worsened(peer) :
              LET other == Report(o) IN
              /\ other.strength <= report.strength
              /\ report.vulnerabilities \subseteq other.vulnerabilities
              /\ report.grade # 0 =>
                    /\ other.score <= report.score /\ other.grade >= report.grade
                    /\ Badness(other.verdict) >= Badness(report.verdict)
        /\ report.verdict = "insecure" => report.grade \in {0, 7}
        /\ report.verdict = "weak" => report.grade >= 3
        /\ report.verdict = "secure" =>
              /\ report.grade = IF peer.protocols = {} THEN 7
                                ELSE IF peer.certificate.self_signed THEN 4 ELSE 1
              /\ ~peer.certificate.invalid /\ peer.alternate # "invalid" /\ ~peer.cleartext

\* A profile is met where all it rules on was observed to be as ruled - and also where
\* nothing was observed of what it only forbids (the lists of disallowed suites, groups and
\* signatures, the key sizes and SHA-1 of a certificate that was not read), although
\* compliance.py 10-13, docs/en/README.md 499-500 and docs/en/politica-normativas.md 28
\* have what was not seen not assessed, never passed.  So evidence that is lost turns a
\* server that does not conform into one that does if it was against such a rule, and
\* never otherwise.  What the tool's own policy passes has no weak verdict, and an insecure
\* one only over a certificate that is rejected, which this profile, looking at algorithms
\* alone, does not see.
ProfilesHonest ==
    /\ pc = "done" /\ probe = "profile" =>
          /\ verdict.is = "pass" <=>
                /\ peer.facts["protocol"] # "nothing"
                /\ \A r \in peer.rules : \/ peer.facts[r[1]] = "good"
                                         \/ peer.facts[r[1]] = "nothing" /\ r[2] = "forbid"
          /\ \A r \in peer.rules : LET lost == [peer.facts EXCEPT ![r[1]] = "nothing"] IN
                verdict.is # "pass" /\ Conformance(peer.rules, lost) = "pass" =>
                    r[2] = "forbid" /\ peer.facts[r[1]] = "bad"
    /\ pc = "done" /\ probe = "grade" /\ verdict.is = "pass" =>
          /\ report.verdict # "weak"
          /\ report.verdict = "insecure" => peer.certificate.invalid \/ peer.alternate = "invalid"
=============================================================================
