----------------------------- MODULE NameChecks -----------------------------
(***************************************************************************)
(* What the DNS says of a target: resolver.py, which follows delegations    *)
(* from the root, and dnssec.py with dns.py, which prove records to the     *)
(* root key and judge CAA, HTTPS and TLSA policies by that.  Signatures are *)
(* symbolic: a zone is sound or broken in one of the ways a zone breaks.    *)
(***************************************************************************)
EXTENDS ProbeRun, SequencesExt

CONSTANTS
    MaxReferrals,  \* _MAX_REFERRALS
    MaxGlueless,   \* _MAX_GLUELESS_DEPTH
    MaxServers,    \* Bound of the model: name servers of a zone.
    MaxZones       \* _MAX_ZONES

ASSUME NameChecksAssumption ==
    /\ MaxReferrals \in Nat \ {0} /\ MaxServers \in Nat \ {0} /\ MaxZones \in Nat \ {0}
    /\ MaxGlueless \in Nat

VARIABLES
    stack,    \* the calls of resolve that run, innermost last
    queries,  \* how many queries were sent
    level     \* how many labels of the delegation chain were climbed or descended

names == <<stack, queries, level>>

-----------------------------------------------------------------------------
(* resolver.resolve.                                                        *)

\* A call: its depth, the referrals it followed, the servers left to ask.
Call(depth, servers) == [depth |-> depth, referrals |-> 0, servers |-> servers]

Top == Last(stack)

\* The queries a call at each depth may cost, and its whole tree of calls.
Budget[depth \in 0..MaxGlueless] ==
    MaxReferrals * (MaxServers + IF depth < MaxGlueless THEN Budget[depth + 1] ELSE 0)

\* Mutant: one referral more than the bound.
Follow_OneMore(calls, servers) ==
    LET top == Last(calls) IN
    IF top.referrals = MaxReferrals THEN <<>>
    ELSE Append(Front(calls), [top EXCEPT !.referrals = @ + 1, !.servers = servers])

\* A referral was followed: to these servers; no call is left if there were too many.
Follow(calls, servers) ==
    LET top == Last(calls) IN
    IF top.referrals + 1 = MaxReferrals THEN <<>>
    ELSE Append(Front(calls), [top EXCEPT !.referrals = @ + 1, !.servers = servers])

\* A call returns.  An address found for a name server goes on in the caller; anything
\* else makes the caller give up with the referral it had, and its caller, too.
Return(what) ==
    LET callers == Front(stack) IN
    IF what = "answer" /\ callers # <<>> /\ Follow(callers, 1) # <<>>
      THEN stack' = Follow(callers, 1) /\ UNCHANGED <<pc, verdict>>
      ELSE /\ stack' = <<>>
           /\ Conclude([is |-> "resolved",
                        what |-> IF callers = <<>> THEN what
                                 ELSE IF what = "answer" /\ Len(callers) = 1 THEN "none"
                                 ELSE "referral"])

\* _first_response: a server that does not answer, or truncates, is followed by the next.
Silent ==
    /\ queries' = queries + 1
    /\ IF Top.servers > 1
         THEN /\ stack' = Append(Front(stack), [Top EXCEPT !.servers = @ - 1])
              /\ UNCHANGED <<pc, verdict>>
         ELSE Return("none")

\* An answer, a negative one, or one that does not parse.
Final ==
    /\ queries' = queries + 1
    /\ \E what \in {"answer", "negative", "none"} : Return(what)

\* A referral with the addresses of its servers.
Glue ==
    /\ queries' = queries + 1
    /\ \E n \in 1..MaxServers :
         IF Follow(stack, n) = <<>> THEN Return("none")
         ELSE stack' = Follow(stack, n) /\ UNCHANGED <<pc, verdict>>

\* Mutant: the call for a name server's address keeps the depth of its caller.
Glueless_SameDepth ==
    /\ queries' = queries + 1
    /\ stack' = Append(stack, Call(Top.depth, MaxServers))
    /\ UNCHANGED <<pc, verdict>>

\* A referral with names only: _resolve_nameserver starts over at the root, unless
\* that went too deep.
Glueless ==
    /\ queries' = queries + 1
    /\ IF Top.depth < MaxGlueless
         THEN stack' = Append(stack, Call(Top.depth + 1, MaxServers)) /\ UNCHANGED <<pc, verdict>>
         ELSE Return("referral")

Resolve ==
    /\ probe = "resolve" /\ pc = "resolve"
    /\ Silent \/ Final \/ Glue \/ Glueless
    /\ NoFault /\ UNCHANGED <<probe, peer, level>>

-----------------------------------------------------------------------------
(* dnssec.validate_records.                                                 *)

\* How a level of the delegation stands: its DS record set and its DNSKEY record set.
Levels == {"sound",
           "no_ds",         \* no zone cut at this label, or an unsigned zone
           "other_ds",      \* the DS is of another name, or expired, or not the parent's
           "other_signer",  \* the keys include the one of the DS, another one signed them
           "expired"}       \* the keys are the right ones, their signature is out of date

\* The record set itself.
RecordSets == {"sound", "unsigned", "expired", "foreign", "absent"}

\* A TLSA record: what it binds, and whether the chain has it.
Tlsa == {"ee_match", "ee_other", "pkix_match", "unknown"}

Domains ==
    {d \in [chain : UNION {[1..n -> Levels] : n \in 0..MaxZones}, root : {"sound", "other_signer"},
            records : RecordSets, denied : BOOLEAN, tlsa : SUBSET Tlsa, pkix : BOOLEAN] :
        /\ \A i, k \in DOMAIN d.chain :
              d.chain[i] # "sound" /\ d.chain[k] # "sound" => i = k
        /\ d.denied => d.records = "absent"
        /\ d.tlsa = {} <=> d.records = "absent"}

\* Mutant: it is enough that the set has the anchored key and that some key signed it.
Anchored_AnyKey(state) == state \in {"sound", "other_signer"}

\* _authenticated_keys: a signature by the very key the anchor vouches for.
Anchored(state) == state = "sound"

\* _fetch_records over fetch_with_fallback.  What comes is the answer; or the iterative
\* resolver gave up with a referral, which keeps the fallback from being asked; or both
\* found nothing.
FetchFails == \E n \in 1..2 : faults + n <= MaxFaults /\ faults' = faults + n
FetchWorks == \E n \in 0..1 : faults + n <= MaxFaults /\ faults' = faults + n

Policy(checked, records, validated, matches) ==
    [is |-> checked, records |-> records, validated |-> validated, matches |-> matches]

\* _record_matches and _matches_tlsa: any record that matches, else any that does not.
MatchesTlsa(records, pkix) ==
    LET Result(r) == CASE r = "ee_match" -> "yes"
                       [] r = "ee_other" -> "no"
                       [] r = "pkix_match" -> IF pkix THEN "yes" ELSE "unknown"
                       [] r = "unknown" -> "unknown"
    IN  IF \E r \in records : Result(r) = "yes" THEN "yes"
        ELSE IF \E r \in records : Result(r) = "no" THEN "no" ELSE "unknown"

\* check_caa, check_https and check_dane: what is reported, given the proof.
Reported(proven) ==
    IF probe = "dane"
      THEN Policy(probe, peer.records # "absent",
                  IF proven THEN "yes" ELSE IF peer.records = "absent" THEN "unknown" ELSE "no",
                  MatchesTlsa(peer.tlsa, peer.pkix))
      ELSE Policy(probe, TRUE, IF proven THEN "yes" ELSE "no", "unknown")

NameInit ==
    \/ /\ Begin("resolve", "network", "resolve")
       /\ stack = <<Call(0, MaxServers)>> /\ queries = 0 /\ level = 0
    \/ \E p \in {"caa", "https", "dane"}, d \in Domains :
          /\ p # "dane" => d.tlsa \in {{}, {"unknown"}} /\ ~d.denied /\ ~d.pkix
          /\ Begin(p, d, "ask")
          /\ stack = <<>> /\ queries = 0 /\ level = 0

NameIdle == stack = <<>> /\ queries = 0 /\ level = 0

\* query_caa, query_https, query_tlsa to the system resolver.  CAA and HTTPS records
\* that are absent need no proof.
AskSystem ==
    /\ pc = "ask"
    /\ \/ Fault /\ Conclude(Failed)
       \/ /\ NoFault
          /\ IF peer.records = "absent" /\ probe # "dane"
               THEN Conclude(Policy(probe, FALSE, "unknown", "unknown"))
               ELSE pc' = "records" /\ verdict' = verdict
    /\ UNCHANGED <<probe, peer, names>>

\* _validate_rrset: the records again, this time with their signature, and bound to
\* the name and to a zone above it.  _validate_denial: a denial in their place.
FetchSigned ==
    /\ pc = "records"
    /\ LET fits == peer.records \in {"sound", "expired"} \/ (peer.records = "absent" /\ peer.denied)
       IN  \/ FetchWorks /\ IF fits THEN pc' = "climb" /\ verdict' = verdict
                            ELSE Conclude(Reported(FALSE))
           \/ FetchFails /\ Conclude(Reported(FALSE))
    /\ UNCHANGED <<probe, peer, names>>

\* _authenticated_zone_keys, upwards: a DS for each label, as far as the loop goes.
Climb ==
    /\ pc = "climb"
    /\ UNCHANGED <<probe, peer, stack, queries>>
    /\ IF level = MaxZones THEN Conclude(Reported(FALSE)) /\ NoFault /\ UNCHANGED level
       ELSE IF level = Len(peer.chain)
         THEN pc' = "root" /\ level' = 0 /\ verdict' = verdict /\ NoFault
         ELSE \/ /\ FetchWorks
                 /\ IF peer.chain[level + 1] = "no_ds"
                      THEN Conclude(Reported(FALSE)) /\ UNCHANGED level
                      ELSE level' = level + 1 /\ UNCHANGED <<pc, verdict>>
              \/ FetchFails /\ Conclude(Reported(FALSE)) /\ UNCHANGED level

\* The keys of the root against the anchors.
RootKeys ==
    /\ pc = "root"
    /\ \/ FetchWorks /\ IF Anchored(peer.root) THEN pc' = "descend" /\ verdict' = verdict
                        ELSE Conclude(Reported(FALSE))
       \/ FetchFails /\ Conclude(Reported(FALSE))
    /\ UNCHANGED <<probe, peer, names>>

\* Downwards: the DS under the keys of the parent, the keys under the DS.  At last the
\* records under the keys of their zone (_verify_rrset).
Descend ==
    /\ pc = "descend"
    /\ UNCHANGED <<probe, peer, stack, queries>>
    /\ IF level = Len(peer.chain)
         THEN Conclude(Reported(peer.records # "expired")) /\ NoFault /\ UNCHANGED level
         ELSE \/ /\ FetchWorks
                 /\ IF peer.chain[level + 1] # "other_ds" /\ Anchored(peer.chain[level + 1])
                      THEN level' = level + 1 /\ UNCHANGED <<pc, verdict>>
                      ELSE Conclude(Reported(FALSE)) /\ UNCHANGED level
              \/ FetchFails /\ Conclude(Reported(FALSE)) /\ UNCHANGED level

PolicyChecks == {"caa", "https", "dane"}

NameStep ==
    \/ Resolve
    \/ probe \in PolicyChecks /\ (AskSystem \/ FetchSigned \/ Climb \/ RootKeys \/ Descend)

-----------------------------------------------------------------------------
(* Properties.                                                              *)

NameTypeOK ==
    /\ stack \in Seq([depth : 0..MaxGlueless, referrals : 0..MaxReferrals - 1, servers : 1..MaxServers])
    /\ queries \in Nat
    /\ level \in 0..MaxZones

\* A resolution ends: whatever the servers answer, it sends no more queries than the
\* bounds on referrals and on glueless names allow, multiplied as they are
\* (resolver._MAX_REFERRALS, _MAX_GLUELESS_DEPTH).
QueriesBounded == probe = "resolve" => queries <= Budget[0]

\* "Validated" means that every signature from the root to the records holds, each by
\* the key its parent names, or that the absence was denied under such a chain.  The
\* other way round a sound chain is only missed over a failed lookup or one that is as
\* long as _MAX_ZONES, which the climb already takes for too long.
ValidatedMeansSigned ==
    pc = "done" /\ probe \in PolicyChecks /\ verdict # Failed =>
      LET sound == /\ peer.root = "sound"
                   /\ \A i \in DOMAIN peer.chain : peer.chain[i] = "sound"
                   /\ peer.records = "sound" \/ (peer.records = "absent" /\ peer.denied)
      IN  /\ verdict.validated = "yes" => sound
          /\ sound /\ faults = 0 /\ Len(peer.chain) < MaxZones => verdict.validated = "yes"
          /\ verdict.validated = "no" => verdict.records
          /\ verdict.matches = "yes" => "ee_match" \in peer.tlsa \/ (peer.pkix /\ "pkix_match" \in peer.tlsa)
          /\ verdict.matches = "no" => "ee_other" \in peer.tlsa
=============================================================================
