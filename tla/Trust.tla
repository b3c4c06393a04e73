------------------------------- MODULE Trust --------------------------------
(***************************************************************************)
(* What is concluded of the certificates a server presents: the chain is    *)
(* retrieved (scanner._retrieve_certificate), judged against the trust      *)
(* store and perhaps completed from the URL its last certificate names      *)
(* (pki/certificates.py), asked about revocation (pki/ocsp.py, pki/crl.py), *)
(* and retrieved once more for the other type of key.                       *)
(*                                                                          *)
(* The certificates there are: leaf and alt, issued by I (or by the root);  *)
(* I, issued by J, and Ic, the same name and key certified by the root; J,  *)
(* issued by the root R; and X, of somebody else, whose key is of another   *)
(* kind.  A server presents any of them in any order, its own first.        *)
(***************************************************************************)
EXTENDS ProbeRun, SequencesExt

CONSTANTS
    MaxPresented,  \* Bound of the model: certificates a server presents.
    MaxDefects     \* Bound of the model: things wrong with what an ordinary server presents.

ASSUME TrustAssumption == MaxPresented \in Nat \ {0} /\ MaxDefects \in Nat

VARIABLES
    turn,    \* which chain is dealt with: the one served by default, or the other
    chains   \* each of the two: its certificates, leaf first, and what was concluded

trust == <<turn, chains>>

Others == {"I", "Ic", "J", "R", "X"}
Turns  == {"primary", "alternate"}

Defects ==
    ({"leaf"} \X {"expired", "bad_signature", "odd_algorithm", "self_signed"}) \cup
    ({"I", "J"} \X {"not_ca", "no_cert_sign", "pathlen0", "excludes", "expired", "future",
                    "bad_signature"}) \cup
    {<<"Ic", "not_ca">>, <<"R", "excludes">>}

Unparsable == {<<"leaf", "garbled">>, <<"X", "garbled">>, <<"I", "odd_names">>, <<"X", "odd_names">>}

Presentable == {<<"leaf">> \o p : p \in
                   UNION {{q \in [1..n -> Others] : IsInjective(q)} : n \in 0..(MaxPresented - 1)}}

\* One thing at most is wrong with what any kind of server presents, several with what an
\* ordinary one does.
Servers ==
    {s \in [presented : Presentable, defects : {{}} \cup {{d} : d \in Defects \cup Unparsable},
            direct : BOOLEAN,                                \* the root itself issued the leaf
            store : {"root", "other", "empty", "none"},
            tls : {"both", "only13", "missed13"},            \* missed13: the enumeration missed it
            asks : {"nothing", "ocsp", "crl", "both", "staple"}, revoked : BOOLEAN,
            key : {"RSA", "Ed25519"}, dual : BOOLEAN] :
        /\ s.store # "root" \/ s.tls # "both" \/ s.dual \/ s.key # "RSA" => s.asks = "nothing"
        /\ s.store # "root" \/ s.tls # "both" \/ s.key # "RSA" => ~s.dual /\ s.defects = {}
        /\ s.asks = "nothing" => ~s.revoked}
    \cup
    [presented : Presentable, defects : {Range(f) : f \in [1..MaxDefects -> Defects]},
     direct : {FALSE}, store : {"root"}, tls : {"both"}, asks : {"nothing"}, revoked : {FALSE},
     key : {"RSA"}, dual : {FALSE}]

-----------------------------------------------------------------------------
(* Signatures.                                                              *)

Has(s, c, defect) == <<c, defect>> \in s.defects

\* parse_certificate makes nothing of a garbled one, and _signed_cert, besides, nothing of
\* one whose names (or key) are not in the form it expects.
Garbled(s, c) == Has(s, c, "garbled")
Parses(s, c)  == ~Has(s, c, "garbled") /\ ~Has(s, c, "odd_names")

Subject(c) == IF c = "Ic" THEN "I" ELSE c

\* Whose key made the certificate's signature, and whom it names as its issuer.
Issuer(s, c) ==
    CASE c \in {"leaf", "alt"} ->
           IF Has(s, c, "self_signed") THEN c ELSE IF s.direct THEN "R" ELSE "I"
      [] c = "I" -> "J"
      [] c = "X" -> "somebody"
      [] OTHER -> "R"

SelfSigned(s, c) == Issuer(s, c) = Subject(c)

\* verify_signature, _verify_link: "none" when the algorithm is not one it knows, or the
\* key is not of the algorithm's kind.
Verify(s, c, by) ==
    IF Has(s, c, "odd_algorithm") \/ (by = "X" /\ c # "X") THEN "none"
    ELSE IF Subject(by) = Issuer(s, c) /\ ~Has(s, c, "bad_signature") THEN "yes" ELSE "no"

\* verify_chain_signatures: each by the next; the last by itself, if it signed itself.
Links(s, ds) ==
    {Verify(s, ds[n], ds[n + 1]) : n \in 1..(Len(ds) - 1)} \cup
    (IF SelfSigned(s, Last(ds)) THEN {Verify(s, Last(ds), Last(ds))} ELSE {})

Signatures(s, ds) ==
    LET links == Links(s, ds) IN
    IF \E c \in Range(ds) : ~Parses(s, c) THEN "none"
    ELSE IF "no" \in links THEN "no" ELSE IF links = {"yes"} THEN "yes" ELSE "none"

-----------------------------------------------------------------------------
(* evaluate_trust.                                                          *)

InStore(s, name) == s.store = "root" /\ name = "R"

\* _path_length_ok: the certificates below, the leaf apart, that another one signed.
LengthOk(s, path) ==
    \A n \in 2..Len(path) : Has(s, path[n], "pathlen0") =>
        \A k \in 2..(n - 1) : SelfSigned(s, path[k])

\* _name_constraints_ok, over the certificates above the leaf and the root of the store.
NamesOk(s, path) == \A c \in Range(Tail(path)) \cup {"R"} : ~Has(s, c, "excludes")

\* _path_validity: the first certificate outside its dates tells.
Current(s, path) ==
    LET late == {n \in DOMAIN path : Has(s, path[n], "expired") \/ Has(s, path[n], "future")} IN
    IF late = {} THEN "trusted"
    ELSE IF Has(s, path[Min(late)], "expired") THEN "expired" ELSE "not_yet_valid"

\* Mutant: a certificate that is no CA may have signed the next.
MaySign_AnyCertificate(s, issuer, c) ==
    /\ ~Has(s, issuer, "no_cert_sign")
    /\ Verify(s, c, issuer) = "yes"

\* A certificate above another: a CA, whose key usage allows it, and that did sign it.
MaySign(s, issuer, c) ==
    /\ ~Has(s, issuer, "not_ca")
    /\ ~Has(s, issuer, "no_cert_sign")
    /\ Verify(s, c, issuer) = "yes"

\* The certificates are walked in the order presented up to the first that a root of the
\* store signed: all before it have to be signed by the one that follows.
PathTrust(s, ds) ==
    LET reached == {n \in DOMAIN ds : /\ InStore(s, Issuer(s, ds[n]))
                                      /\ Verify(s, ds[n], Issuer(s, ds[n])) = "yes"}
        path == SubSeq(ds, 1, Min(reached))
    IN  CASE s.store = "none" -> IF SelfSigned(s, ds[1]) THEN "self_signed" ELSE "not_checked"
          [] s.store = "empty" -> "not_checked"
          [] s.store \in {"root", "other"} /\ SelfSigned(s, ds[1]) -> "self_signed"
          [] OTHER ->
               IF \/ reached = {}
                  \/ \E n \in 1..(Len(path) - 1) : ~MaySign(s, path[n + 1], path[n])
                  \/ ~LengthOk(s, path) \/ ~NamesOk(s, path)
               THEN "untrusted" ELSE Current(s, path)

\* build_certificate_chain gives up, with an error, over any certificate it cannot parse;
\* evaluate_trust, if there are roots to judge by, over any _signed_cert cannot.
TrustOf(s, ds) ==
    IF \E c \in Range(ds) : Garbled(s, c) THEN "unreadable"
    ELSE IF s.store \in {"root", "other"} /\ \E c \in Range(ds) : ~Parses(s, c) THEN "unknown"
    ELSE PathTrust(s, ds)

\* _assess_certificate: what makes browsers reject a certificate, as far as it takes the
\* chain; a wrong name or purpose, or a ROCA key, is a matter of the leaf alone.
Rejected(s, chain) ==
    /\ chain.trust # "unreadable"     \* it has no leaf then, and is not looked at
    /\ \/ Has(s, chain.certs[1], "expired")
       \/ chain.trust \in {"expired", "not_yet_valid", "untrusted"}
       \/ "revoked" \in {chain.ocsp, chain.crl, chain.stapled}
       \/ chain.signatures = "no"

NoChain == [certs |-> <<>>, trust |-> "none", signatures |-> "none", aia |-> FALSE,
            ocsp |-> "unsaid", crl |-> "unsaid", stapled |-> "unsaid"]

\* build_certificate_chain.
Build(s, ds) == [NoChain EXCEPT !.certs = ds, !.trust = TrustOf(s, ds), !.signatures = Signatures(s, ds)]

-----------------------------------------------------------------------------
(* The steps.                                                               *)

TrustInit ==
    \E s \in Servers : Begin("trust", s, "retrieve")
                       /\ turn = "primary" /\ chains = [t \in Turns |-> NoChain]

TrustIdle == turn = "primary" /\ chains = [t \in Turns |-> NoChain]

\* What follows the chain of this turn: the second one, then the stapled answer.
Following ==
    IF turn = "primary" /\ chains'["primary"].trust \notin {"none", "unreadable"} /\ peer.key = "RSA"
      THEN "retrieve"
    ELSE IF peer.asks = "staple" /\ Len(chains'["primary"].certs) >= 2 THEN "staple" ELSE "done"

GoOn ==
    /\ pc' = Following
    /\ turn' = IF turn = "primary" /\ pc' = "retrieve" THEN "alternate" ELSE turn
    /\ verdict' = IF pc' = "done" THEN [is |-> "trust"] ELSE verdict

Stay == UNCHANGED <<turn, verdict>>

\* What the server presents to one who accepts only the other type of key.
Offered == IF turn = "alternate" /\ peer.dual THEN <<"alt">> \o Tail(peer.presented) ELSE peer.presented

Presented == chains' = [chains EXCEPT ![turn].certs = Offered] /\ pc' = "build" /\ Stay
Nothing   == UNCHANGED chains /\ GoOn

\* retrieve_certificate_chain, over TLS 1.2.
Retrieve12 ==
    /\ pc = "retrieve"
    /\ \/ peer.tls # "only13" /\ NoFault /\ Presented
       \/ /\ (peer.tls = "only13" /\ NoFault) \/ Fault
          /\ IF peer.tls # "missed13" THEN pc' = "retrieve13" /\ UNCHANGED chains /\ Stay ELSE Nothing

Retrieve13 ==
    /\ pc = "retrieve13"
    /\ (NoFault /\ Presented) \/ (Fault /\ Nothing)

\* After _build_and_complete_chain: revocation for the first chain; a second one is kept
\* only if its leaf is another.
Settled(chain) ==
    IF turn = "primary"
    THEN /\ chains' = [chains EXCEPT !["primary"] = chain]
         /\ IF /\ peer.asks \in {"ocsp", "crl", "both"} /\ Len(chain.certs) >= 2
               /\ chain.trust # "unreadable"
              THEN pc' = (IF peer.asks = "crl" THEN "crl" ELSE "ocsp") /\ Stay
              ELSE GoOn
    ELSE /\ chains' = [chains EXCEPT !["alternate"] =
                          IF \/ chain.certs[1] = chains["primary"].certs[1]
                             \/ chain.trust = "unreadable" THEN NoChain ELSE chain]
         /\ GoOn

MakeChain ==
    /\ pc = "build"
    /\ LET chain == Build(peer, chains[turn].certs) IN
       IF peer.store # "none" /\ chain.trust = "untrusted"
         THEN pc' = "aia" /\ chains' = [chains EXCEPT ![turn] = chain] /\ Stay
         ELSE Settled(chain)
    /\ NoFault

\* complete_chain_via_aia: asked only when nobody in the chain signed its last certificate.
Asked(s, ds) ==
    /\ ~SelfSigned(s, Last(ds))
    /\ \A c \in Range(Front(ds)) : Verify(s, Last(ds), c) # "yes"

\* What is fetched joins the chain only if it is the issuer of the last certificate.
Joins(s, ds, c) ==
    Parses(s, c) /\ Subject(c) = Issuer(s, Last(ds)) /\ Verify(s, Last(ds), c) = "yes"

CompleteChain ==
    /\ pc = "aia"
    /\ LET ds == chains[turn].certs IN
       \/ Settled(chains[turn]) /\ (NoFault \/ (Asked(peer, ds) /\ Fault))
       \/ \E c \in Others :
             /\ Asked(peer, ds)
             /\ Settled(IF Joins(peer, ds, c)
                        THEN [Build(peer, Append(ds, c)) EXCEPT !.aia = TRUE] ELSE chains[turn])
             /\ NoFault

-----------------------------------------------------------------------------
(* Revocation.  The authority asked about is the second certificate, whoever *)
(* that is; if it issued the leaf, what it says while it is fresh is true.   *)

Genuine(s, ds) == Subject(ds[2]) = Issuer(s, ds[1])

Answers(s, ds) ==
    {a \in [signer : {"issuer", "delegate", "outsider"}, about : {"leaf", "another"},
            fresh : BOOLEAN, says : {"good", "revoked"}] :
        /\ a.signer = "issuer" \/ (a.about = "leaf" /\ a.fresh)
        /\ a.about = "leaf" \/ a.fresh
        /\ Genuine(s, ds) /\ a.signer # "outsider" /\ a.about = "leaf" /\ a.fresh =>
              a.says = IF s.revoked THEN "revoked" ELSE "good"}

\* Nobody is asked, nor believed, about a certificate that does not parse or by one.
Askable(s, ds) == ~Garbled(s, ds[1]) /\ Parses(s, ds[2])

\* authenticated_status: signed by the authority or a responder it certified, about the
\* leaf, and within its dates.
OcspStatus(s, ds, a) ==
    IF Askable(s, ds) /\ a.signer # "outsider" /\ a.about = "leaf" /\ a.fresh THEN a.says ELSE "unsaid"

\* check_crl: signed by the authority itself, whose name it bears, and within its dates.
CrlStatus(s, ds, a) ==
    IF Askable(s, ds) /\ a.signer = "issuer" /\ a.about = "leaf" /\ a.fresh THEN a.says ELSE "unsaid"

Ocsp ==
    /\ pc = "ocsp"
    /\ LET ds == chains["primary"].certs IN
       \/ Fault /\ UNCHANGED chains
       \/ \E a \in Answers(peer, ds) :
             NoFault /\ chains' = [chains EXCEPT !["primary"].ocsp = OcspStatus(peer, ds, a)]
    /\ IF peer.asks = "both" THEN pc' = "crl" /\ Stay ELSE GoOn

Crl ==
    /\ pc = "crl"
    /\ LET ds == chains["primary"].certs IN
       \/ Fault /\ UNCHANGED chains
       \/ \E a \in Answers(peer, ds) :
             NoFault /\ chains' = [chains EXCEPT !["primary"].crl = CrlStatus(peer, ds, a)]
    /\ GoOn

\* A stapled answer, from a connection of its own, is held to the same.
Staple ==
    /\ pc = "staple"
    /\ LET ds == chains["primary"].certs IN
       \/ Fault /\ UNCHANGED chains
       \/ \E a \in Answers(peer, ds), status \in {"unsaid", "good", "revoked"} :
             /\ NoFault /\ status = OcspStatus(peer, ds, a)
             /\ chains' = [chains EXCEPT !["primary"].stapled =
                              IF status = "unsaid" THEN "invalid" ELSE status]
    /\ pc' = "done" /\ verdict' = [is |-> "trust"] /\ UNCHANGED turn

TrustStep ==
    /\ probe = "trust"
    /\ Retrieve12 \/ Retrieve13 \/ MakeChain \/ CompleteChain \/ Ocsp \/ Crl \/ Staple
    /\ UNCHANGED <<probe, peer>>

-----------------------------------------------------------------------------
(* Properties.                                                              *)

TrustTypeOK ==
    /\ turn \in Turns
    /\ \A t \in Turns :
          /\ chains[t].certs \in Seq(Others \cup {"leaf", "alt"}) /\ Len(chains[t].certs) <= MaxPresented + 1
          /\ chains[t].trust \in {"none", "trusted", "expired", "not_yet_valid", "untrusted",
                                  "self_signed", "not_checked", "unknown", "unreadable"}
          /\ chains[t].signatures \in {"none", "yes", "no"}
          /\ {chains[t].ocsp, chains[t].crl} \subseteq {"unsaid", "good", "revoked"}
          /\ chains[t].stapled \in {"unsaid", "good", "revoked", "invalid"}

\* A path to the root that RFC 5280 accepts but for its dates: some of the certificates,
\* in whatever order they came, each issued by the next and the last by the root.
SoundPath(s, p) ==
    /\ Issuer(s, Last(p)) = "R" /\ s.store = "root"
    /\ \A n \in DOMAIN p : ~Has(s, p[n], "bad_signature") /\ ~Has(s, p[n], "odd_algorithm")
    /\ \A n \in 2..Len(p) :
          /\ Subject(p[n]) = Issuer(s, p[n - 1])
          /\ {<<p[n], d>> : d \in {"not_ca", "no_cert_sign", "excludes"}} \cap s.defects = {}
          /\ ~(n > 2 /\ Has(s, p[n], "pathlen0"))
    /\ ~Has(s, "R", "excludes")

Paths(ds) ==
    {<<ds[1]>> \o p : p \in {q \in UNION {[1..n -> Range(Tail(ds))] : n \in 0..(Len(ds) - 1)} :
                                IsInjective(q)}}

InDate(s, p) == \A n \in DOMAIN p : ~Has(s, p[n], "expired") /\ ~Has(s, p[n], "future")

\* What is said of a chain, the one served by default and the other alike, holds of the
\* certificates in hand: "trusted" has a sound path to the root within its dates, from
\* the leaf on in the order presented, and a date is blamed only where a sound path lies
\* outside its dates; a chain in its proper order with nothing wrong is trusted;
\* completion adds nothing but the issuer that was missing.  Browsers are said to reject
\* no chain that is a sound path from end to end, unless it is revoked: a trusted one is
\* rejected otherwise only over what was sent behind its path, which
\* verify_chain_signatures looks at and evaluate_trust does not.  Nor are they said to
\* accept one without a path, but where a certificate does not parse, in whatever place:
\* then nothing is concluded.
\* A revocation status, asked for or stapled, is false only where the second certificate
\* is not the leaf's issuer, and the chain's own signatures then do not hold.  There it
\* may well be: scanner.py 452-454 and 262 take the second for the issuer whoever it is, so
\* that the owner of any certificate sent there answers for a leaf the root itself issued,
\* though pki/crl.py 6-9 and 96-97 and pki/ocsp.py 6-10 say that the issuer alone does.
TrustSound ==
    pc = "done" /\ probe = "trust" => \A t \in Turns :
      LET c == chains[t] IN c.trust # "none" =>
        LET sound == {p \in Paths(c.certs) : SoundPath(peer, p)}
            false == {c.ocsp, c.crl, c.stapled} \cap (IF peer.revoked THEN {"good"} ELSE {"revoked"})
        IN
        /\ c.trust = "trusted" => \E p \in sound : InDate(peer, p) /\ IsPrefix(p, c.certs)
        /\ c.trust \in {"expired", "not_yet_valid"} => \E p \in sound : ~InDate(peer, p)
        /\ peer.store = "root" /\ peer.defects = {} /\
           (\E p \in sound : IsPrefix(p, c.certs)) => c.trust = "trusted"
        /\ c.aia => Subject(Last(c.certs)) = Issuer(peer, Last(Front(c.certs)))
        /\ Rejected(peer, c) => c.certs \notin sound \/ ~InDate(peer, c.certs) \/ peer.revoked
        /\ ~Rejected(peer, c) /\ peer.store = "root" /\ c.trust # "self_signed" =>
              \/ \E p \in sound : InDate(peer, p)
              \/ c.trust \in {"unknown", "unreadable"} /\ \E d \in Range(c.certs) : ~Parses(peer, d)
        /\ false # {} => ~Genuine(peer, c.certs) /\ c.signatures # "yes"
=============================================================================
