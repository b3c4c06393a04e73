----------------------------- MODULE Enumeration ----------------------------
(***************************************************************************)
(* What the scan of one address learns by asking again and again: which     *)
(* suites a server accepts under each protocol version                      *)
(* (tls/enumerate.py), which key-exchange groups (tls/groups.py) and which  *)
(* signature schemes (tls/signatures.py), in the order in which             *)
(* scanner._scan_address asks.  A round offers everything, notes the choice,*)
(* drops it and asks again.  The other probes of an address share no state  *)
(* with these and are left out.                                             *)
(***************************************************************************)
EXTENDS ProbeReader

CONSTANTS
    NumVersions,    \* PROTOCOL_VERSIONS, best first: version 1 is TLS 1.3
    Tls13Suites,    \* TLS13_CIPHER_SUITES
    LegacySuites,   \* LEGACY_CIPHER_SUITES
    Groups,         \* NAMED_GROUPS
    PostQuantum,    \* those of them that are post-quantum hybrids
    NumSchemes,     \* SIGNATURE_SCHEMES, numbered in the order they are tried
    Servers,        \* the servers that may be met
    Stray           \* any choice that was not offered

Versions   == 1..NumVersions
GroupRound == NumVersions + 1
Rounds     == 1..GroupRound
Schemes    == 1..NumSchemes

\* _cipher_ids_for, and the groups.
Offered(r) == IF r = 1 THEN Tls13Suites
              ELSE IF r \in Versions THEN LegacySuites ELSE Groups

\* A server prefers some of what a round can offer, in a fixed order, and signs
\* with some schemes.
IsServer(s) ==
    /\ s.likes \in [Rounds -> Seq(Tls13Suites \cup LegacySuites \cup Groups)]
    /\ \A r \in Rounds :
          /\ \A i \in 1..Len(s.likes[r]) : s.likes[r][i] \in Offered(r)
          /\ \A i, k \in 1..Len(s.likes[r]) :
                s.likes[r][i] = s.likes[r][k] => i = k
    /\ s.signs \subseteq Schemes

ASSUME EnumerationAssumption ==
    /\ NumVersions \in Nat \ {0}
    /\ NumSchemes \in Nat
    /\ Tls13Suites # {} /\ LegacySuites # {} /\ Groups # {}
    /\ PostQuantum \subseteq Groups
    /\ Stray \notin Tls13Suites \cup LegacySuites \cup Groups
    /\ \A s \in Servers : IsServer(s)

VARIABLES
    server,        \* the server at this address
    phase,         \* "versions", "assess", "groups", "schemes", "done"
    round,         \* the version, or the round of the groups
    remaining,     \* what this round still offers
    chosen,        \* chosen[r]: what the server chose in round r, in order
    reached,       \* reached[v]: version v drew an answer
    failed,        \* failed[r]: a probe of round r ended in an error
    status,        \* "none", "ok", "cleartext" (graded insecure), "error"
    scheme,        \* the next signature scheme to try
    signed,        \* the schemes the server signed with
    signReached,   \* a scheme drew an answer
    unanswered     \* what the network did, noted nowhere: the schemes whose probe failed

asking  == <<phase, round, remaining, chosen, reached, failed>>
signing == <<scheme, signed, signReached, unanswered>>
vars == <<server, asking, status, signing>>

Init ==
    /\ server \in Servers
    /\ phase = "versions" /\ round = 1 /\ remaining = Offered(1)
    /\ chosen = [r \in Rounds |-> <<>>]
    /\ reached = [v \in Versions |-> FALSE]
    /\ failed = [r \in Rounds |-> FALSE]
    /\ status = "none"
    /\ scheme = 1 /\ signed = {} /\ signReached = FALSE /\ unanswered = {}

-----------------------------------------------------------------------------
\* The loop of a round is over: the next version, or what follows the versions,
\* or what follows the groups.
LeaveRound ==
    IF round < NumVersions
      THEN /\ round' = round + 1
           /\ remaining' = Offered(round + 1)
           /\ phase' = phase
      ELSE /\ phase' = IF round = NumVersions THEN "assess" ELSE "schemes"
           /\ UNCHANGED <<round, remaining>>

\* Mutant: the choice is put in front of the earlier ones.
Take_Prepends(choice) ==
    /\ chosen' = [chosen EXCEPT ![round] = <<choice>> \o @]
    /\ remaining' = remaining \ {choice}
    /\ UNCHANGED <<phase, round>>

\* The server chose something it was offered: note it, and do not offer it again.
Take(choice) ==
    /\ chosen' = [chosen EXCEPT ![round] = Append(@, choice)]
    /\ remaining' = remaining \ {choice}
    /\ UNCHANGED <<phase, round>>

\* Mutant: a choice that was not offered is noted like any other.
Handle_TrustsHello(result, choice) ==
    /\ reached' = IF round \in Versions
                    THEN [reached EXCEPT ![round] = @ \/ result # "error"]
                    ELSE reached
    /\ failed' = [failed EXCEPT ![round] = @ \/ result = "error"]
    /\ IF result = "hello" THEN Take(choice)
       ELSE LeaveRound /\ UNCHANGED chosen
    /\ UNCHANGED <<server, status, signing>>

\* Mutant: anything but a choice continues the loop where it should break.
Handle_Continues(result, choice) ==
    /\ reached' = IF round \in Versions
                    THEN [reached EXCEPT ![round] = @ \/ result # "error"]
                    ELSE reached
    /\ failed' = [failed EXCEPT ![round] = @ \/ result = "error"]
    /\ IF result = "hello" /\ choice \in remaining THEN Take(choice)
       ELSE UNCHANGED <<phase, round, remaining, chosen>>
    /\ UNCHANGED <<server, status, signing>>

\* The body of the loop.  A refusal, an error, another version, a plain
\* ServerHello among the groups and a choice that was not offered all break; the
\* groups do not record that they were reached.
Handle(result, choice) ==
    /\ reached' = IF round \in Versions
                    THEN [reached EXCEPT ![round] = @ \/ result # "error"]
                    ELSE reached
    /\ failed' = [failed EXCEPT ![round] = @ \/ result = "error"]
    /\ IF result = "hello" /\ choice \in remaining THEN Take(choice)
       ELSE LeaveRound /\ UNCHANGED chosen
    /\ UNCHANGED <<server, status, signing>>

InRound == phase \in {"versions", "groups"}

\* What the server likes among what is still offered, as places in its order.
Liked == {i \in 1..Len(server.likes[round]) : server.likes[round][i] \in remaining}

\* The server answers with what it likes best.
Chooses ==
    /\ InRound /\ remaining # {} /\ Liked # {}
    /\ \E result \in HelloResults, i \in Liked :
          /\ \A k \in Liked : i <= k
          /\ Handle(result, server.likes[round][i])

\* It likes nothing that is left and refuses.
Refuses ==
    /\ InRound /\ remaining # {} /\ Liked = {}
    /\ \E result \in RefusalResults : Handle(result, Stray)

\* It likes nothing that is left and answers with something else: another
\* version, a suite or group it was not offered, no HelloRetryRequest.
Strays ==
    /\ InRound /\ remaining # {} /\ Liked = {}
    /\ \E result \in HelloResults : Handle(result, Stray)

\* The probe fails, whatever the server would have said.
Fails ==
    /\ InRound /\ remaining # {}
    /\ \E result \in FailureResults : Handle(result, Stray)

\* Everything was chosen: the loop ends without another probe.
Exhausts ==
    /\ InRound /\ remaining = {}
    /\ LeaveRound
    /\ UNCHANGED <<server, chosen, reached, failed, status, signing>>

-----------------------------------------------------------------------------
\* Mutant: reachable is what the last version says.
Assess_LastVersion ==
    /\ phase = "assess"
    /\ \E sslv2, cleartext \in BOOLEAN :
          status' = IF reached[NumVersions] \/ sslv2 THEN "ok"
                    ELSE IF cleartext THEN "cleartext" ELSE "error"
    /\ IF status' = "ok" /\ chosen[1] # <<>>
         THEN phase' = "groups" /\ round' = GroupRound /\ remaining' = Groups
         ELSE phase' = "done" /\ UNCHANGED <<round, remaining>>
    /\ UNCHANGED <<server, chosen, reached, failed, signing>>

\* Mutant: the groups start with what the last version left over.
Assess_KeepsRemaining ==
    /\ phase = "assess"
    /\ \E sslv2, cleartext \in BOOLEAN :
          status' = IF (\E v \in Versions : reached[v]) \/ sslv2 THEN "ok"
                    ELSE IF cleartext THEN "cleartext" ELSE "error"
    /\ IF status' = "ok" /\ chosen[1] # <<>>
         THEN phase' = "groups" /\ round' = GroupRound /\ UNCHANGED remaining
         ELSE phase' = "done" /\ UNCHANGED <<round, remaining>>
    /\ UNCHANGED <<server, chosen, reached, failed, signing>>

\* The address is written off, as an error or as plain HTTP, when no version and
\* no SSL 2.0 probe was answered.  Groups and schemes are asked of TLS 1.3 only.
Assess ==
    /\ phase = "assess"
    /\ \E sslv2, cleartext \in BOOLEAN :
          status' = IF (\E v \in Versions : reached[v]) \/ sslv2 THEN "ok"
                    ELSE IF cleartext THEN "cleartext" ELSE "error"
    /\ IF status' = "ok" /\ chosen[1] # <<>>
         THEN phase' = "groups" /\ round' = GroupRound /\ remaining' = Groups
         ELSE phase' = "done" /\ UNCHANGED <<round, remaining>>
    /\ UNCHANGED <<server, chosen, reached, failed, signing>>

-----------------------------------------------------------------------------
\* One scheme is offered alone; only a TLS 1.3 ServerHello that asks for no retry
\* accepts it, and nothing ends the loop early.
HandleScheme(result, accepts) ==
    /\ phase = "schemes" /\ scheme \in Schemes
    /\ signReached' = (signReached \/ result # "error")
    /\ unanswered' = IF result = "error" THEN unanswered \cup {scheme} ELSE unanswered
    /\ signed' = IF result = "hello" /\ accepts THEN signed \cup {scheme} ELSE signed
    /\ scheme' = scheme + 1
    /\ UNCHANGED <<server, asking, status>>

Signs == /\ scheme \in server.signs
         /\ \E result \in HelloResults : HandleScheme(result, TRUE)

SignsNot == /\ scheme \notin server.signs
            /\ \/ \E result \in RefusalResults : HandleScheme(result, FALSE)
               \/ \E result \in HelloResults : HandleScheme(result, FALSE)

SignFails == \E result \in FailureResults : HandleScheme(result, FALSE)

\* The schemes are returned, or none when no probe was answered: only then is there an
\* error too, and scanner.py drops it.
Finish ==
    /\ phase = "schemes" /\ scheme \notin Schemes
    /\ phase' = "done"
    /\ signed' = IF signReached THEN signed ELSE {}
    /\ UNCHANGED <<server, round, remaining, chosen, reached, failed, status,
                   scheme, signReached, unanswered>>

Next ==
    \/ Chooses \/ Refuses \/ Strays \/ Fails \/ Exhausts \/ Assess
    \/ Signs \/ SignsNot \/ SignFails \/ Finish

Spec == Init /\ [][Next]_vars

\* One thread does all of this; the loops go on as long as they can.
FairSpec == Spec /\ WF_vars(Next)

-----------------------------------------------------------------------------
\* _post_quantum_status, of a number of groups and the hybrids among them.
PostQuantumStatus(total, postQuantum) ==
    CASE total = 0 -> "unknown"
      [] total > 0 /\ postQuantum = 0 -> "not-ready"
      [] total > 0 /\ postQuantum = total -> "enforced"
      [] OTHER -> "ready"

\* The status of a list of groups.
StatusOf(groups) ==
    PostQuantumStatus(Len(groups),
                      Cardinality({i \in DOMAIN groups : groups[i] \in PostQuantum}))

\* Every variable has its type, and a round offers nothing of another round
\* (enumerate.py 80, groups.py 69: each round starts from its own list).
TypeOK ==
    /\ server \in Servers
    /\ phase \in {"versions", "assess", "groups", "schemes", "done"}
    /\ round \in Rounds
    /\ remaining \subseteq Offered(round)
    /\ chosen \in [Rounds -> Seq(Tls13Suites \cup LegacySuites \cup Groups)]
    /\ reached \in [Versions -> BOOLEAN]
    /\ failed \in [Rounds -> BOOLEAN]
    /\ status \in {"none", "ok", "cleartext", "error"}
    /\ scheme \in 1..(NumSchemes + 1)
    /\ signed \subseteq Schemes
    /\ signReached \in BOOLEAN /\ unanswered \subseteq Schemes

\* What a round reports is a beginning of the server's own order, also when a
\* probe fails or the server strays ("the order the choices come back in is the
\* server's own preference", enumerate.py 6-7).
ServerOrder ==
    \A r \in Rounds :
        /\ Len(chosen[r]) <= Len(server.likes[r])
        /\ \A i \in 1..Len(chosen[r]) : chosen[r][i] = server.likes[r][i]

\* The loop of round r has ended.
Over(r) ==
    IF r \in Versions THEN phase # "versions" \/ r < round
    ELSE phase = "schemes" \/ (phase = "done" /\ round = GroupRound)

\* A round whose loop returns no error has all the server accepts, whatever warnings or
\* fragments the answers came with (the report shows that error for a version,
\* enumerate.py 134; of the groups it is dropped, scanner.py 274).  The schemes carry no
\* such sign: once any was answered the others may be missing and no error is
\* returned (signatures.py 53-54, 74-76).  What holds of them is that a lost probe
\* costs its own scheme and no other, and adds none the server does not sign with.
CompleteUnlessFailed ==
    /\ \A r \in Rounds : Over(r) /\ ~failed[r] => chosen[r] = server.likes[r]
    /\ phase = "done" /\ round = GroupRound => signed = server.signs \ unanswered

\* An address is written off only when every version ended in an error: one
\* answer to any probe of any version keeps it (scanner.py 155-165).
NobodyWrittenOff ==
    status \in {"error", "cleartext"} =>
        \A v \in Versions : failed[v] /\ ~reached[v] /\ chosen[v] = <<>>

\* Each turn of a loop offers less than the turn before, or is the last
\* ("never spins", enumerate.py 85-87 and groups.py 74-76).
NeverSpins ==
    [][InRound => \/ remaining' # remaining /\ remaining' \subseteq remaining
                  \/ round' # round
                  \/ phase' # phase]_asking

\* The scan of an address ends, against any of these servers.
EnumerationEnds == <>(phase = "done")

\* models.PostQuantumStatus: "enforced" says that every group the server offers
\* is a hybrid, "not-ready" that none is.
StatusIsTheServers ==
    Over(GroupRound) =>
        \/ StatusOf(chosen[GroupRound]) \in {"unknown", "ready"}
        \/ StatusOf(chosen[GroupRound]) = StatusOf(server.likes[GroupRound])
=============================================================================
