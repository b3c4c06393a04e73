------------------------- MODULE Enumeration_proofs -------------------------
(***************************************************************************)
(* Proofs about ProbeReader and Enumeration, for every number of versions   *)
(* and schemes, every set of suites and groups, every server that prefers   *)
(* some of them in a fixed order, and replies of any length.                *)
(***************************************************************************)
EXTENDS Enumeration, FiniteSetTheorems, TLAPS

\* Records are numbered from 1 to the length of the reply.
LEMMA RecordsNumbered ==
  ASSUME NEW reply \in Replies
  PROVE  /\ Len(reply.records) \in Nat
         /\ DOMAIN reply.records = 1..Len(reply.records)
         /\ \A i \in 1..Len(reply.records) : reply.records[i] \in Records
         /\ reply.parts \in Nat \ {0}
<1>1. PICK m \in 0..MaxRecords : reply.records \in [1..m -> Records]
  BY DEF Replies
<1>2. reply.parts \in 1..MaxRecords
  BY DEF Replies
<1> QED
  BY <1>1, <1>2, ProbeReaderAssumption

\* The number of parts never falls from one record to a later one, and grows
\* when that one is a part.
LEMMA PartsGrow ==
  ASSUME NEW reply \in Replies, NEW n \in Nat, NEW i \in 0..n
  PROVE  /\ Cardinality(Parts(reply, n)) \in Nat
         /\ Cardinality(Parts(reply, i)) \in Nat
         /\ Cardinality(Parts(reply, i)) <= Cardinality(Parts(reply, n))
         /\ i < n /\ reply.records[n] = "part" =>
               Cardinality(Parts(reply, i)) < Cardinality(Parts(reply, n))
<1>1. IsFiniteSet(1..n)
  BY FS_Interval
<1>2. Parts(reply, n) \subseteq 1..n /\ Parts(reply, i) \subseteq Parts(reply, n)
  BY DEF Parts
<1>3. IsFiniteSet(Parts(reply, n))
  BY <1>1, <1>2, FS_Subset
<1>4. IsFiniteSet(Parts(reply, i))
  BY <1>2, <1>3, FS_Subset
<1>5. Cardinality(Parts(reply, n)) \in Nat /\ Cardinality(Parts(reply, i)) \in Nat
  BY <1>3, <1>4, FS_CardinalityType
<1>6. Cardinality(Parts(reply, i)) <= Cardinality(Parts(reply, n))
  BY <1>2, <1>3, FS_Subset
<1>7. ASSUME i < n, reply.records[n] = "part"
      PROVE Cardinality(Parts(reply, i)) # Cardinality(Parts(reply, n))
  <2>1. n \in Parts(reply, n) /\ n \notin Parts(reply, i)
    BY <1>7 DEF Parts
  <2>2. Parts(reply, i) # Parts(reply, n)
    BY <2>1
  <2> QED
    BY <2>2, <1>2, <1>3, FS_Subset
<1> QED
  BY <1>5, <1>6, <1>7

\* A ServerHello is read as one, however many warnings come before and between
\* its parts (probe.py 87-105).
THEOREM HelloIsRead == \A reply \in HelloReplies : ReadResponse(reply) = "hello"
<1> SUFFICES ASSUME NEW reply \in HelloReplies PROVE ReadResponse(reply) = "hello"
  OBVIOUS
<1> DEFINE n == Len(reply.records)
<1>1. reply \in Replies
  BY DEF HelloReplies
<1>2. n \in Nat /\ DOMAIN reply.records = 1..n /\ reply.parts \in Nat
  BY <1>1, RecordsNumbered
<1>3. /\ n > 0 /\ reply.records[n] = "part"
      /\ \A i \in 1..n : reply.records[i] \in {"warning", "part"}
      /\ Cardinality(Parts(reply, n)) = reply.parts
      /\ reply.message = "hello"
  BY DEF HelloReplies
<1>4. n \in Decisive(reply)
  BY <1>2, <1>3 DEF Decisive
<1>5. ASSUME NEW i \in Decisive(reply) PROVE i = n
  <2>1. i \in 1..n /\ Cardinality(Parts(reply, i)) >= reply.parts
    BY <1>2, <1>3, <1>5 DEF Decisive
  <2>2. i < n => Cardinality(Parts(reply, i)) < Cardinality(Parts(reply, n))
    BY <2>1, <1>1, <1>2, <1>3, PartsGrow
  <2>3. Cardinality(Parts(reply, i)) \in Nat
    BY <2>1, <1>1, <1>2, PartsGrow
  <2> QED
    BY <2>1, <2>2, <2>3, <1>2, <1>3
<1>6. Decisive(reply) = {n}
  BY <1>4, <1>5
<1> QED
  BY <1>2, <1>3, <1>6 DEF ReadResponse

\* A refusal is read as one, after any warnings.
THEOREM RefusalIsRead == \A reply \in RefusalReplies : ReadResponse(reply) = "alert"
<1> SUFFICES ASSUME NEW reply \in RefusalReplies PROVE ReadResponse(reply) = "alert"
  OBVIOUS
<1> DEFINE n == Len(reply.records)
<1>1. reply \in Replies
  BY DEF RefusalReplies
<1>2. n \in Nat /\ DOMAIN reply.records = 1..n
  BY <1>1, RecordsNumbered
<1>3. /\ n > 0 /\ reply.records[n] = "final"
      /\ \A i \in 1..(n - 1) : reply.records[i] = "warning"
  BY DEF RefusalReplies
<1>4. \A i \in 1..n : i # n => reply.records[i] = "warning"
  BY <1>2, <1>3
<1>5. Decisive(reply) = {n}
  BY <1>2, <1>3, <1>4 DEF Decisive
<1> QED
  BY <1>2, <1>3, <1>5 DEF ReadResponse, Records

\* A reply that is cut, garbled or no ServerHello is never taken for an answer.
THEOREM BrokenIsError == \A reply \in BrokenReplies : ReadResponse(reply) = "error"
<1> SUFFICES ASSUME NEW reply \in BrokenReplies PROVE ReadResponse(reply) = "error"
  OBVIOUS
<1> DEFINE n == Len(reply.records)
<1>1. reply \in Replies
  BY DEF BrokenReplies
<1>2. /\ n \in Nat /\ DOMAIN reply.records = 1..n /\ reply.parts \in Nat
      /\ \A i \in 1..n : reply.records[i] \in Records
  BY <1>1, RecordsNumbered
<1>3. /\ \A i \in 1..n : reply.records[i] # "final"
      /\ Cardinality(Parts(reply, n)) < reply.parts \/ reply.message = "other"
  BY DEF BrokenReplies
<1>4. ASSUME NEW i \in Decisive(reply) PROVE reply.records[i] \in {"part", "bad"}
  BY <1>2, <1>3, <1>4 DEF Decisive
<1>5. ASSUME NEW i \in Decisive(reply), reply.records[i] = "part",
             reply.message = "hello"
      PROVE  FALSE
  <2>1. i \in 1..n /\ Cardinality(Parts(reply, i)) >= reply.parts
    BY <1>2, <1>5 DEF Decisive
  <2>2. /\ Cardinality(Parts(reply, i)) \in Nat /\ Cardinality(Parts(reply, n)) \in Nat
        /\ Cardinality(Parts(reply, i)) <= Cardinality(Parts(reply, n))
    BY <2>1, <1>1, <1>2, PartsGrow
  <2>3. Cardinality(Parts(reply, n)) < reply.parts
    BY <1>3, <1>5
  <2> QED
    BY <2>1, <2>2, <2>3, <1>2
<1> QED
  BY <1>4, <1>5 DEF ReadResponse

-----------------------------------------------------------------------------
AllChoices == Tls13Suites \cup LegacySuites \cup Groups

\* What a round can offer.
LEMMA Offers ==
    /\ GroupRound \in Rounds \ Versions /\ Offered(GroupRound) = Groups
    /\ 1 \in Versions /\ NumVersions \in Versions /\ Versions \subseteq Rounds
    /\ \A r \in Rounds : /\ Offered(r) \subseteq AllChoices
                         /\ Offered(r) # {} /\ Stray \notin Offered(r)
                         /\ r \in Versions \/ r = GroupRound
BY EnumerationAssumption DEF Offered, Rounds, Versions, GroupRound, AllChoices

\* What a probe concludes is what the server did, or that the probe failed.
LEMMA Results ==
    /\ HelloResults \subseteq {"hello"}
    /\ RefusalResults \subseteq {"alert"}
    /\ FailureResults \subseteq {"error"}
BY HelloIsRead, RefusalIsRead, BrokenIsError
   DEF HelloResults, RefusalResults, FailureResults

\* A round that is left goes on with all that the next one offers.
LEMMA LeavingTyped ==
  ASSUME TypeOK, LeaveRound
  PROVE  /\ round' \in Rounds /\ remaining' \subseteq Offered(round')
         /\ phase' \in {"versions", "assess", "groups", "schemes", "done"}
<1>1. CASE round < NumVersions
  <2>1. round' = round + 1 /\ remaining' = Offered(round + 1) /\ phase' = phase
    BY <1>1 DEF LeaveRound
  <2>2. round + 1 \in Rounds
    BY <1>1, EnumerationAssumption DEF TypeOK, Rounds, GroupRound
  <2> QED
    BY <2>1, <2>2 DEF TypeOK
<1>2. CASE ~(round < NumVersions)
  BY <1>2 DEF LeaveRound, TypeOK
<1> QED
  BY <1>1, <1>2

\* The body of a loop either takes a choice that was offered, or leaves.
LEMMA HandleTyped ==
  ASSUME TypeOK, NEW result, NEW choice, Handle(result, choice)
  PROVE  TypeOK'
<1>1. /\ reached' \in [Versions -> BOOLEAN] /\ failed' \in [Rounds -> BOOLEAN]
  <2>1. reached' = IF round \in Versions
                     THEN [reached EXCEPT ![round] = @ \/ result # "error"]
                     ELSE reached
    BY DEF Handle
  <2>2. failed' = [failed EXCEPT ![round] = @ \/ result = "error"]
    BY DEF Handle
  <2> QED
    BY <2>1, <2>2 DEF TypeOK
<1>2. CASE result = "hello" /\ choice \in remaining
  <2>1. Take(choice)
    BY <1>2 DEF Handle
  <2>2. choice \in AllChoices
    BY <1>2, Offers DEF TypeOK
  <2>3. chosen' \in [Rounds -> Seq(AllChoices)]
    BY <2>1, <2>2 DEF Take, TypeOK, AllChoices
  <2> QED
    BY <1>1, <2>1, <2>3 DEF Take, TypeOK, AllChoices, Handle, signing
<1>3. CASE ~(result = "hello" /\ choice \in remaining)
  <2>1. LeaveRound /\ chosen' = chosen
    BY <1>3 DEF Handle
  <2> QED
    BY <1>1, <2>1, LeavingTyped DEF TypeOK, Handle, signing
<1> QED
  BY <1>2, <1>3

\* The initial states have their types.
LEMMA EnumerationTypedAtStart == Init => TypeOK
<1> SUFFICES ASSUME Init PROVE TypeOK
  OBVIOUS
<1>1. 1 \in Rounds /\ scheme \in 1..(NumSchemes + 1)
  BY EnumerationAssumption, Offers DEF Init
<1>2. chosen \in [Rounds -> Seq(Tls13Suites \cup LegacySuites \cup Groups)]
  BY DEF Init
<1> QED
  BY <1>1, <1>2 DEF Init, TypeOK

\* Every variable keeps its type, and no round offers what is not its own.
THEOREM EnumerationTyped == Spec => []TypeOK
<1>1. Init => TypeOK
  BY EnumerationTypedAtStart
<1>2. TypeOK /\ [Next]_vars => TypeOK'
  <2> SUFFICES ASSUME TypeOK, [Next]_vars PROVE TypeOK'
    OBVIOUS
  <2>1. CASE Chooses
    BY <2>1, HandleTyped DEF Chooses
  <2>2. CASE Refuses \/ Strays \/ Fails
    BY <2>2, HandleTyped DEF Refuses, Strays, Fails
  <2>3. CASE Exhausts
    BY <2>3, LeavingTyped DEF Exhausts, TypeOK, signing
  <2>4. CASE Assess
    BY <2>4, Offers DEF Assess, TypeOK, signing
  <2>5. ASSUME NEW result, NEW accepts, HandleScheme(result, accepts) PROVE TypeOK'
    BY <2>5, EnumerationAssumption DEF HandleScheme, TypeOK, Schemes, asking
  <2>6. CASE Signs \/ SignsNot \/ SignFails
    BY <2>5, <2>6 DEF Signs, SignsNot, SignFails
  <2>7. CASE Finish
    BY <2>7 DEF Finish, TypeOK
  <2>8. CASE UNCHANGED vars
    BY <2>8 DEF vars, asking, signing, TypeOK
  <2> QED
    BY <2>1, <2>2, <2>3, <2>4, <2>6, <2>7, <2>8 DEF Next
<1> QED
  BY <1>1, <1>2, PTL DEF Spec

-----------------------------------------------------------------------------
\* Where the loops are, and what is left to offer: a round offers what it has not
\* seen chosen, and what lies ahead has nothing chosen yet.
Progress ==
    /\ phase = "versions" => round \in Versions
    /\ phase = "assess" => round = NumVersions
    /\ phase \in {"groups", "schemes"} => round = GroupRound
    /\ phase = "done" => round \in {NumVersions, GroupRound}
    /\ InRound => remaining =
          Offered(round) \ {chosen[round][i] : i \in 1..Len(chosen[round])}
    /\ \A r \in Rounds : r > round => chosen[r] = <<>>

\* A version drew an answer, or failed; what it chose was an answer.
Answered ==
    /\ \A v \in Versions : Over(v) => reached[v] \/ failed[v]
    /\ \A v \in Versions : chosen[v] # <<>> => reached[v]
    /\ status \in {"error", "cleartext"} =>
          phase = "done" /\ \A v \in Versions : ~reached[v]

\* The schemes signed so far are those tried that the server signs with, but for those
\* whose own probe failed.
Signed ==
    /\ signed = {s \in server.signs : s < scheme} \ unanswered
    /\ \A s \in unanswered : s < scheme
    /\ signed # {} => signReached
    /\ phase = "done" /\ round = GroupRound => scheme = NumSchemes + 1

Complete == \A r \in Rounds : Over(r) /\ ~failed[r] => chosen[r] = server.likes[r]

IInv == TypeOK /\ Progress /\ ServerOrder /\ Complete /\ Answered /\ Signed

-----------------------------------------------------------------------------
\* What TypeOK and the assumptions say of the server in the current round.
LEMMA ServerTyped ==
  ASSUME TypeOK, NEW r \in Rounds
  PROVE  /\ server.likes[r] \in Seq(AllChoices) /\ chosen[r] \in Seq(AllChoices)
         /\ Len(server.likes[r]) \in Nat /\ Len(chosen[r]) \in Nat
         /\ \A i \in 1..Len(server.likes[r]) : server.likes[r][i] \in Offered(r)
         /\ \A i, k \in 1..Len(server.likes[r]) :
               server.likes[r][i] = server.likes[r][k] => i = k
         /\ server.signs \subseteq Schemes
<1>1. IsServer(server)
  BY EnumerationAssumption DEF TypeOK
<1>2. server.likes[r] \in Seq(AllChoices) /\ chosen[r] \in Seq(AllChoices)
  BY <1>1 DEF IsServer, TypeOK, AllChoices
<1> QED
  BY <1>1, <1>2 DEF IsServer

\* The server likes exactly what it has not chosen yet.
LEMMA LikedIsTheRest ==
  ASSUME TypeOK, Progress, ServerOrder, InRound
  PROVE  Liked = (Len(chosen[round]) + 1)..Len(server.likes[round])
<1> DEFINE c == chosen[round]
           l == server.likes[round]
<1>1. round \in Rounds /\ remaining = Offered(round) \ {c[i] : i \in 1..Len(c)}
  BY DEF TypeOK, Progress
<1>2. /\ Len(c) <= Len(l) /\ Len(c) \in Nat /\ Len(l) \in Nat
      /\ \A i \in 1..Len(c) : c[i] = l[i]
      /\ \A i \in 1..Len(l) : l[i] \in Offered(round)
      /\ \A i, k \in 1..Len(l) : l[i] = l[k] => i = k
  BY <1>1, ServerTyped DEF ServerOrder
<1>3. ASSUME NEW i \in 1..Len(l) PROVE l[i] \in remaining <=> i > Len(c)
  <2>1. CASE i > Len(c)
    <3>1. \A k \in 1..Len(c) : c[k] # l[i]
      BY <2>1, <1>2
    <3> QED
      BY <2>1, <3>1, <1>1, <1>2
  <2>2. CASE ~(i > Len(c))
    <3>1. i \in 1..Len(c) /\ c[i] = l[i]
      BY <2>2, <1>2
    <3> QED
      BY <2>2, <3>1, <1>1
  <2> QED
    BY <2>1, <2>2
<1> HIDE DEF c, l
<1>4. {i \in 1..Len(l) : l[i] \in remaining} = (Len(c) + 1)..Len(l)
  BY <1>2, <1>3
<1> QED
  BY <1>4 DEF Liked, c, l

\* A server that likes nothing any more has had all of its choices noted.
LEMMA AllNoted ==
  ASSUME TypeOK, Progress, ServerOrder, InRound, Liked = {}
  PROVE  chosen[round] = server.likes[round]
<1>1. round \in Rounds
  BY DEF TypeOK
<1>2. /\ Len(chosen[round]) \in Nat /\ Len(server.likes[round]) \in Nat
      /\ chosen[round] \in Seq(AllChoices) /\ server.likes[round] \in Seq(AllChoices)
  BY <1>1, ServerTyped
<1>3. (Len(chosen[round]) + 1)..Len(server.likes[round]) = {}
  BY LikedIsTheRest
<1>4. Len(chosen[round]) = Len(server.likes[round])
  <2>1. Len(chosen[round]) <= Len(server.likes[round])
    BY <1>1 DEF ServerOrder
  <2>2. ~(Len(chosen[round]) + 1 <= Len(server.likes[round]))
    BY <1>2, <1>3
  <2> QED
    BY <1>2, <2>1, <2>2
<1> QED
  BY <1>1, <1>2, <1>4 DEF ServerOrder

\* A choice of the server is the next in its order, and is taken.
LEMMA ChoosingTakes ==
  ASSUME TypeOK, Progress, ServerOrder, Chooses
  PROVE  /\ InRound /\ round \in Rounds
         /\ Len(chosen[round]) + 1 \in 1..Len(server.likes[round])
         /\ server.likes[round][Len(chosen[round]) + 1] \in remaining
         /\ Take(server.likes[round][Len(chosen[round]) + 1])
         /\ failed' = failed
         /\ reached' = IF round \in Versions THEN [reached EXCEPT ![round] = TRUE]
                       ELSE reached
         /\ UNCHANGED <<server, status, signing>>
<1>0. InRound /\ round \in Rounds
  BY DEF Chooses, TypeOK
<1>1. PICK result \in HelloResults, i \in Liked :
          /\ \A k \in Liked : i <= k
          /\ Handle(result, server.likes[round][i])
  BY DEF Chooses
<1>2. result = "hello"
  BY Results
<1>3. Len(chosen[round]) \in Nat /\ Len(server.likes[round]) \in Nat
  BY <1>0, ServerTyped
<1>4. i = Len(chosen[round]) + 1 /\ i \in 1..Len(server.likes[round])
  <2>1. i \in (Len(chosen[round]) + 1)..Len(server.likes[round])
    BY <1>0, LikedIsTheRest
  <2>2. Len(chosen[round]) + 1 \in (Len(chosen[round]) + 1)..Len(server.likes[round])
    BY <1>3, <2>1
  <2>3. Len(chosen[round]) + 1 \in Liked
    BY <1>0, <2>2, LikedIsTheRest
  <2>4. i <= Len(chosen[round]) + 1
    BY <1>1, <2>3
  <2> QED
    BY <1>3, <2>1, <2>4
<1>5. server.likes[round][i] \in remaining
  BY <1>1 DEF Liked
<1>6. failed' = [failed EXCEPT ![round] = @ \/ FALSE]
  BY <1>1, <1>2 DEF Handle
<1>7. failed' = failed
  BY <1>0, <1>6 DEF TypeOK
<1>8. reached' = IF round \in Versions THEN [reached EXCEPT ![round] = TRUE]
                 ELSE reached
  <2>1. reached' = IF round \in Versions
                     THEN [reached EXCEPT ![round] = @ \/ result # "error"]
                     ELSE reached
    BY <1>1 DEF Handle
  <2>2. result # "error"
    BY <1>2
  <2> QED
    BY <2>1, <2>2
<1> QED
  BY <1>0, <1>1, <1>2, <1>4, <1>5, <1>7, <1>8 DEF Handle

\* Any other answer leaves the loop, with an error or with all there was.
LEMMA OthersLeave ==
  ASSUME TypeOK, Progress, ServerOrder,
         Refuses \/ Strays \/ Fails \/ Exhausts, Answered
  PROVE  /\ InRound /\ round \in Rounds /\ LeaveRound
         /\ UNCHANGED <<server, chosen, status, signing>>
         /\ failed'[round] \/ chosen[round] = server.likes[round]
         /\ round \in Versions => reached'[round] \/ failed'[round]
         /\ \A r \in Rounds : r # round => failed'[r] = failed[r]
         /\ \A v \in Versions : reached[v] => reached'[v]
         /\ \A v \in Versions : v # round => reached'[v] = reached[v]
<1>0. /\ InRound /\ round \in Rounds
      /\ failed \in [Rounds -> BOOLEAN] /\ reached \in [Versions -> BOOLEAN]
      /\ Stray \notin remaining
  BY Offers DEF Refuses, Strays, Fails, Exhausts, TypeOK
<1>1. ASSUME NEW result \in {"hello", "alert", "error"}, Handle(result, Stray),
             result = "error" \/ Liked = {}
      PROVE  /\ LeaveRound
             /\ UNCHANGED <<server, chosen, status, signing>>
             /\ failed'[round] \/ chosen[round] = server.likes[round]
             /\ round \in Versions => reached'[round] \/ failed'[round]
             /\ \A r \in Rounds : r # round => failed'[r] = failed[r]
             /\ \A v \in Versions : reached[v] => reached'[v]
             /\ \A v \in Versions : v # round => reached'[v] = reached[v]
  <2>1. LeaveRound /\ UNCHANGED <<server, chosen, status, signing>>
    BY <1>0, <1>1 DEF Handle
  <2>2. failed' = [failed EXCEPT ![round] = @ \/ result = "error"]
    BY <1>1 DEF Handle
  <2>3. reached' = IF round \in Versions
                     THEN [reached EXCEPT ![round] = @ \/ result # "error"]
                     ELSE reached
    BY <1>1 DEF Handle
  <2>4. result = "error" => failed'[round]
    BY <1>0, <2>2
  <2>5. round \in Versions /\ result # "error" => reached'[round]
    BY <1>0, <2>3
  <2>6. Liked = {} => chosen[round] = server.likes[round]
    BY <1>0, AllNoted
  <2>7. \A r \in Rounds : r # round => failed'[r] = failed[r]
    BY <1>0, <2>2
  <2>8. \A v \in Versions : /\ reached[v] => reached'[v]
                            /\ v # round => reached'[v] = reached[v]
    BY <1>0, <2>3
  <2> QED
    BY <1>1, <2>1, <2>4, <2>5, <2>6, <2>7, <2>8
<1>2. CASE Refuses \/ Strays \/ Fails
  <2>1. PICK result \in {"hello", "alert", "error"} :
            Handle(result, Stray) /\ (result = "error" \/ Liked = {})
    BY <1>2, Results DEF Refuses, Strays, Fails
  <2> QED
    BY <1>0, <1>1, <2>1
<1>3. CASE Exhausts
  <2>1. /\ remaining = {} /\ LeaveRound
        /\ UNCHANGED <<server, chosen, reached, failed, status, signing>>
    BY <1>3 DEF Exhausts
  <2>2. chosen[round] = server.likes[round]
    <3>1. Liked = {}
      BY <2>1 DEF Liked
    <3> QED
      BY <1>0, <3>1, AllNoted
  <2>3. chosen[round] # <<>>
    <3>1. Offered(round) # {}
      BY <1>0, Offers
    <3>2. {chosen[round][i] : i \in 1..Len(chosen[round])} # {}
      BY <1>0, <2>1, <3>1 DEF Progress
    <3>3. chosen[round] = <<>> => 1..Len(chosen[round]) = {}
      OBVIOUS
    <3> QED
      BY <3>2, <3>3
  <2>4. round \in Versions => reached[round]
    BY <2>3 DEF Answered
  <2> QED
    BY <1>0, <2>1, <2>2, <2>4
<1> QED
  BY <1>2, <1>3, <1>0

-----------------------------------------------------------------------------
\* Noting a choice keeps everything.
LEMMA ChoosingKeeps ==
  ASSUME IInv, Chooses
  PROVE  Progress' /\ ServerOrder' /\ Complete' /\ Answered' /\ Signed'
<1> DEFINE n == Len(chosen[round])
           x == server.likes[round][n + 1]
<1>0. TypeOK /\ Progress /\ ServerOrder /\ Complete /\ Answered /\ Signed
  BY DEF IInv
<1>1. /\ InRound /\ round \in Rounds
      /\ n + 1 \in 1..Len(server.likes[round]) /\ x \in remaining
      /\ chosen' = [chosen EXCEPT ![round] = Append(@, x)]
      /\ remaining' = remaining \ {x}
      /\ phase' = phase /\ round' = round
      /\ failed' = failed
      /\ reached' = IF round \in Versions THEN [reached EXCEPT ![round] = TRUE]
                    ELSE reached
      /\ server' = server /\ status' = status /\ UNCHANGED signing
  BY <1>0, ChoosingTakes DEF Take
<1>2. chosen \in [Rounds -> Seq(AllChoices)] /\ x \in AllChoices
  BY <1>0, <1>1, Offers DEF TypeOK, AllChoices
<1>3. n \in Nat /\ chosen[round] \in Seq(AllChoices)
  BY <1>1, <1>2
<1> HIDE DEF n, x
<1>4. chosen'[round] = Append(chosen[round], x)
  BY <1>1, <1>2
<1>5. /\ Len(chosen'[round]) = n + 1
      /\ \A i \in 1..n : chosen'[round][i] = chosen[round][i]
      /\ chosen'[round][n + 1] = x
  BY <1>3, <1>4 DEF n
<1>6. \A r \in Rounds : r # round => chosen'[r] = chosen[r]
  BY <1>1, <1>2
<1>7. Progress'
  <2>1. {chosen'[round][i] : i \in 1..(n + 1)} = {chosen[round][i] : i \in 1..n} \cup {x}
    BY <1>3, <1>5
  <2>2. remaining = Offered(round) \ {chosen[round][i] : i \in 1..n}
    BY <1>0, <1>1 DEF Progress, n
  <2>3. remaining' = Offered(round) \ {chosen'[round][i] : i \in 1..Len(chosen'[round])}
    BY <1>1, <1>5, <2>1, <2>2
  <2>4. \A r \in Rounds : r > round => chosen'[r] = <<>>
    BY <1>0, <1>1, <1>6, Offers DEF Progress, TypeOK, Rounds, GroupRound, Versions
  <2> QED
    BY <1>0, <1>1, <2>3, <2>4 DEF Progress, InRound, Offered
<1>8. ServerOrder'
  <2>1. \A i \in 1..Len(chosen'[round]) : chosen'[round][i] = server.likes[round][i]
    <3>1. \A i \in 1..n : chosen[round][i] = server.likes[round][i]
      BY <1>0, <1>1 DEF ServerOrder, n
    <3>2. chosen'[round][n + 1] = server.likes[round][n + 1]
      BY <1>5 DEF x
    <3> QED
      BY <1>3, <1>5, <3>1, <3>2
  <2>2. Len(chosen'[round]) <= Len(server.likes[round])
    BY <1>1, <1>3, <1>5
  <2> QED
    BY <1>0, <1>1, <1>6, <2>1, <2>2 DEF ServerOrder
<1>9. \A r \in Rounds : Over(r)' <=> Over(r)
  BY <1>1 DEF Over
<1>10. ~Over(round)
  <2>1. \/ phase = "versions" /\ round \in Versions
        \/ phase = "groups" /\ round = GroupRound
    BY <1>0, <1>1 DEF InRound, Progress
  <2>2. ~(round < round)
    BY <1>1, EnumerationAssumption DEF Rounds, GroupRound
  <2> QED
    BY <2>1, <2>2, Offers DEF Over
<1>11. Complete'
  BY <1>0, <1>1, <1>6, <1>9, <1>10 DEF Complete
<1>12. Answered'
  <2>1. \A v \in Versions : (reached[v] => reached'[v]) /\ (v = round => reached'[v])
    BY <1>0, <1>1 DEF TypeOK
  <2>2. \A v \in Versions : v # round => chosen'[v] = chosen[v]
    BY <1>6, Offers
  <2>3. \A v \in Versions : Over(v)' => reached'[v] \/ failed'[v]
    BY <1>0, <1>1, <1>9, <2>1, Offers DEF Answered
  <2>4. \A v \in Versions : chosen'[v] # <<>> => reached'[v]
    BY <1>0, <2>1, <2>2 DEF Answered
  <2>5. status \notin {"error", "cleartext"}
    BY <1>0, <1>1 DEF Answered, InRound
  <2> QED
    BY <1>1, <2>3, <2>4, <2>5 DEF Answered
<1>13. Signed'
  BY <1>0, <1>1 DEF Signed, signing, InRound
<1> QED
  BY <1>7, <1>8, <1>11, <1>12, <1>13

\* So does leaving a round.
LEMMA LeavingKeeps ==
  ASSUME IInv, Refuses \/ Strays \/ Fails \/ Exhausts
  PROVE  Progress' /\ ServerOrder' /\ Complete' /\ Answered' /\ Signed'
<1>0. TypeOK /\ Progress /\ ServerOrder /\ Complete /\ Answered /\ Signed
  BY DEF IInv
<1>1. /\ InRound /\ round \in Rounds /\ LeaveRound
      /\ server' = server /\ chosen' = chosen /\ status' = status /\ UNCHANGED signing
      /\ failed'[round] \/ chosen[round] = server.likes[round]
      /\ round \in Versions => reached'[round] \/ failed'[round]
      /\ \A r \in Rounds : r # round => failed'[r] = failed[r]
      /\ \A v \in Versions : reached[v] => reached'[v]
      /\ \A v \in Versions : v # round => reached'[v] = reached[v]
  BY <1>0, OthersLeave
<1>2. NumVersions \in Nat \ {0} /\ round \in Nat
  BY <1>1, EnumerationAssumption DEF Rounds, GroupRound
<1>3. \/ /\ phase = "versions" /\ round \in Versions /\ round < NumVersions
         /\ phase' = "versions" /\ round' = round + 1
         /\ remaining' = Offered(round + 1)
      \/ /\ phase = "versions" /\ round = NumVersions
         /\ phase' = "assess" /\ round' = round /\ remaining' = remaining
      \/ /\ phase = "groups" /\ round = GroupRound
         /\ phase' = "schemes" /\ round' = round /\ remaining' = remaining
  <2>1. \/ phase = "versions" /\ round \in Versions
        \/ phase = "groups" /\ round = GroupRound
    BY <1>0, <1>1 DEF InRound, Progress
  <2> QED
    BY <1>1, <1>2, <2>1 DEF LeaveRound, Versions, GroupRound
<1>4. Progress'
  <2>1. \A r \in Rounds : r > round' => chosen'[r] = <<>>
    BY <1>0, <1>1, <1>2, <1>3 DEF Progress, Rounds, GroupRound
  <2>2. CASE phase' = "versions"
    <3>1. round' = round + 1 /\ remaining' = Offered(round') /\ round' \in Versions
      BY <1>2, <1>3, <2>2 DEF Versions
    <3>2. chosen'[round'] = <<>>
      BY <1>0, <1>1, <1>2, <3>1, Offers DEF Progress
    <3>3. {chosen'[round'][i] : i \in 1..Len(chosen'[round'])} = {}
      BY <3>2
    <3> QED
      BY <2>1, <2>2, <3>1, <3>3 DEF Progress, Offered
  <2>3. CASE phase' = "assess"
    BY <1>3, <2>1, <2>3 DEF Progress, InRound
  <2>4. CASE phase' = "schemes"
    BY <1>3, <2>1, <2>4 DEF Progress, InRound
  <2> QED
    BY <1>3, <2>2, <2>3, <2>4
<1>5. ServerOrder'
  BY <1>0, <1>1 DEF ServerOrder
<1>6. \A r \in Rounds : r # round => (Over(r)' => Over(r))
  BY <1>2, <1>3, Offers DEF Over, Versions, Rounds, GroupRound
<1>7. Complete'
  BY <1>0, <1>1, <1>6 DEF Complete
<1>8. Answered'
  <2>1. \A v \in Versions : Over(v)' => reached'[v] \/ failed'[v]
    BY <1>0, <1>1, <1>6, Offers DEF Answered
  <2>2. \A v \in Versions : chosen'[v] # <<>> => reached'[v]
    BY <1>0, <1>1 DEF Answered
  <2>3. status \notin {"error", "cleartext"}
    BY <1>0, <1>1 DEF Answered, InRound
  <2> QED
    BY <1>1, <2>1, <2>2, <2>3 DEF Answered
<1>9. Signed'
  BY <1>0, <1>1, <1>3 DEF Signed, signing
<1> QED
  BY <1>4, <1>5, <1>7, <1>8, <1>9

\* The decision whether the address answered.
LEMMA AssessKeeps ==
  ASSUME IInv, Assess
  PROVE  Progress' /\ ServerOrder' /\ Complete' /\ Answered' /\ Signed'
<1>0. TypeOK /\ Progress /\ ServerOrder /\ Complete /\ Answered /\ Signed
  BY DEF IInv
<1>1. /\ phase = "assess" /\ round = NumVersions
      /\ status' \in {"error", "cleartext"} => \A v \in Versions : ~reached[v]
      /\ UNCHANGED <<server, chosen, reached, failed, signing>>
  BY <1>0 DEF Assess, Progress
<1>2. \/ /\ phase' = "groups" /\ round' = GroupRound /\ remaining' = Groups
         /\ status' = "ok"
      \/ phase' = "done" /\ round' = round
  BY DEF Assess
<1>3. NumVersions < GroupRound /\ NumVersions # GroupRound /\ GroupRound \in Rounds
  BY EnumerationAssumption, Offers DEF GroupRound
<1>4. Progress'
  <2>1. chosen[GroupRound] = <<>>
    BY <1>0, <1>1, <1>3 DEF Progress
  <2>2. \A r \in Rounds : ~(r > GroupRound)
    BY EnumerationAssumption DEF Rounds, GroupRound
  <2>3. CASE phase' = "groups"
    <3>1. {chosen'[GroupRound][i] : i \in 1..Len(chosen'[GroupRound])} = {}
      BY <1>1, <2>1
    <3>2. remaining' = Offered(GroupRound)
                         \ {chosen'[GroupRound][i] : i \in 1..Len(chosen'[GroupRound])}
      BY <1>2, <2>3, <3>1, Offers
    <3> QED
      BY <1>2, <2>2, <2>3, <3>2 DEF Progress, InRound, Offered
  <2>4. CASE phase' = "done"
    BY <1>0, <1>1, <1>2, <2>4 DEF Progress, InRound
  <2> QED
    BY <1>2, <2>3, <2>4
<1>5. \A r \in Rounds : Over(r)' => Over(r)
  BY <1>1, <1>2, <1>3, Offers DEF Over
<1>6. Answered'
  BY <1>0, <1>1, <1>2, <1>5, Offers DEF Answered
<1> QED
  BY <1>0, <1>1, <1>2, <1>3, <1>4, <1>5, <1>6
     DEF ServerOrder, Complete, Signed, signing

\* A signature scheme more.
LEMMA SchemeKeeps ==
  ASSUME IInv, Signs \/ SignsNot \/ SignFails
  PROVE  Progress' /\ ServerOrder' /\ Complete' /\ Answered' /\ Signed'
<1>0. TypeOK /\ Progress /\ ServerOrder /\ Complete /\ Answered /\ Signed
  BY DEF IInv
<1>1. PICK result \in {"hello", "alert", "error"}, accepts \in BOOLEAN :
         /\ HandleScheme(result, accepts)
         /\ accepts => result = "hello" /\ scheme \in server.signs
         /\ result # "error" /\ ~accepts => scheme \notin server.signs
  BY Results DEF Signs, SignsNot, SignFails
<1>2. /\ phase = "schemes" /\ scheme \in Schemes /\ scheme' = scheme + 1
      /\ signReached' = (signReached \/ result # "error")
      /\ unanswered' = IF result = "error" THEN unanswered \cup {scheme} ELSE unanswered
      /\ signed' = IF accepts THEN signed \cup {scheme} ELSE signed
      /\ UNCHANGED <<server, asking, status>>
  BY <1>1 DEF HandleScheme
<1>3. server.signs \subseteq Schemes /\ NumSchemes \in Nat
  BY <1>0, Offers, ServerTyped, EnumerationAssumption
<1>4. {s \in server.signs : s < scheme + 1} =
         {s \in server.signs : s < scheme} \cup (server.signs \cap {scheme})
  BY <1>2, <1>3 DEF Schemes
<1>5. /\ \A s \in unanswered' : s < scheme'
      /\ scheme \notin unanswered /\ scheme \notin {s \in server.signs : s < scheme}
  BY <1>0, <1>2, <1>3 DEF Signed, Schemes, TypeOK
<1>6. signed' = {s \in server.signs : s < scheme'} \ unanswered'
  <2>1. signed = {s \in server.signs : s < scheme} \ unanswered
    BY <1>0 DEF Signed
  <2>2. CASE accepts
    BY <2>1, <2>2, <1>1, <1>2, <1>4, <1>5
  <2>3. CASE ~accepts /\ result = "error"
    BY <2>1, <2>3, <1>2, <1>4, <1>5
  <2>4. CASE ~accepts /\ result # "error"
    BY <2>1, <2>4, <1>1, <1>2, <1>4, <1>5
  <2> QED
    BY <2>2, <2>3, <2>4
<1>7. signed' # {} => signReached'
  BY <1>0, <1>1, <1>2 DEF Signed
<1>8. Signed'
  BY <1>2, <1>5, <1>6, <1>7 DEF Signed, asking
<1> QED
  BY <1>0, <1>2, <1>8
     DEF asking, Progress, ServerOrder, Complete, Answered, Over, InRound, Offered

\* The end of the schemes.
LEMMA FinishKeeps ==
  ASSUME IInv, Finish
  PROVE  Progress' /\ ServerOrder' /\ Complete' /\ Answered' /\ Signed'
<1>0. TypeOK /\ Progress /\ ServerOrder /\ Complete /\ Answered /\ Signed
  BY DEF IInv
<1>1. /\ phase = "schemes" /\ phase' = "done" /\ scheme \notin Schemes
      /\ signed' = IF signReached THEN signed ELSE {}
      /\ UNCHANGED <<server, round, remaining, chosen, reached, failed, status,
                     scheme, signReached, unanswered>>
  BY DEF Finish
<1>2. round = GroupRound /\ scheme = NumSchemes + 1
  BY <1>0, <1>1, EnumerationAssumption DEF Progress, TypeOK, Schemes
<1>3. signed' = signed
  BY <1>0, <1>1 DEF Signed
<1>4. Signed'
  BY <1>0, <1>1, <1>2, <1>3 DEF Signed
<1>5. \A r \in Rounds : Over(r)' <=> Over(r)
  BY <1>1, <1>2 DEF Over
<1>6. Answered'
  BY <1>0, <1>1, <1>5, Offers DEF Answered
<1> QED
  BY <1>0, <1>1, <1>2, <1>4, <1>5, <1>6
     DEF Progress, ServerOrder, Complete, InRound

-----------------------------------------------------------------------------
\* The invariant holds at the start and is kept by every step.
LEMMA Invariance == Spec => []IInv
<1>1. Init => IInv
  <2> SUFFICES ASSUME Init, TypeOK PROVE IInv
    BY EnumerationTypedAtStart
  <2>1. Progress
    <3>1. {chosen[1][i] : i \in 1..Len(chosen[1])} = {}
      BY Offers DEF Init
    <3> QED
      BY <3>1, Offers DEF Init, Progress, InRound
  <2>2. \A r \in Rounds : ~Over(r)
    BY Offers, EnumerationAssumption DEF Init, Over, Versions
  <2>3. ServerOrder
    BY ServerTyped DEF Init, ServerOrder
  <2>4. Signed
    BY ServerTyped, Offers DEF Init, Signed, Schemes
  <2> QED
    BY <2>1, <2>2, <2>3, <2>4, Offers DEF Init, IInv, Complete, Answered
<1>2. IInv /\ TypeOK' /\ [Next]_vars => IInv'
  <2> SUFFICES ASSUME IInv, TypeOK', [Next]_vars PROVE IInv'
    OBVIOUS
  <2>1. CASE Chooses
    BY <2>1, ChoosingKeeps DEF IInv
  <2>2. CASE Refuses \/ Strays \/ Fails \/ Exhausts
    BY <2>2, LeavingKeeps DEF IInv
  <2>3. CASE Assess
    BY <2>3, AssessKeeps DEF IInv
  <2>4. CASE Signs \/ SignsNot \/ SignFails
    BY <2>4, SchemeKeeps DEF IInv
  <2>5. CASE Finish
    BY <2>5, FinishKeeps DEF IInv
  <2>6. CASE UNCHANGED vars
    <3>1. Progress' /\ ServerOrder' /\ Complete' /\ Answered'
      BY <2>6 DEF vars, asking, signing, IInv, Progress, ServerOrder, Complete,
                  Answered, Over, InRound, Offered
    <3>2. Signed'
      BY <2>6 DEF vars, asking, signing, IInv, Signed
    <3> QED
      BY <3>1, <3>2 DEF IInv
  <2> QED
    BY <2>1, <2>2, <2>3, <2>4, <2>5, <2>6 DEF Next
<1> QED
  BY <1>1, <1>2, EnumerationTyped, PTL DEF Spec

\* What a round reports is a beginning of the server's own order.
THEOREM OrderKept == Spec => []ServerOrder
<1>1. IInv => ServerOrder
  BY DEF IInv
<1> QED
  BY <1>1, Invariance, PTL

\* A round that ended without an error missed nothing, and of the schemes a lost probe
\* costs its own and no other, although no error of theirs is returned.
THEOREM NothingMissed == Spec => []CompleteUnlessFailed
<1>1. IInv => CompleteUnlessFailed
  <2> SUFFICES ASSUME IInv PROVE CompleteUnlessFailed
    OBVIOUS
  <2>1. \A r \in Rounds : Over(r) /\ ~failed[r] => chosen[r] = server.likes[r]
    BY DEF IInv, Complete
  <2>2. ASSUME phase = "done", round = GroupRound
        PROVE  signed = server.signs \ unanswered
    <3>1. signed = {s \in server.signs : s < NumSchemes + 1} \ unanswered
      BY <2>2 DEF IInv, Signed
    <3>2. server.signs \subseteq 1..NumSchemes
      BY ServerTyped, Offers DEF IInv, Schemes
    <3>3. {s \in server.signs : s < NumSchemes + 1} = server.signs
      BY <3>2, EnumerationAssumption
    <3> QED
      BY <3>1, <3>3
  <2> QED
    BY <2>1, <2>2 DEF CompleteUnlessFailed
<1> QED
  BY <1>1, Invariance, PTL

\* An address is written off only when every version ended in an error.
THEOREM NotWrittenOff == Spec => []NobodyWrittenOff
<1>1. IInv => NobodyWrittenOff
  <2> SUFFICES ASSUME IInv, status \in {"error", "cleartext"}, NEW v \in Versions
               PROVE  failed[v] /\ ~reached[v] /\ chosen[v] = <<>>
    BY DEF NobodyWrittenOff
  <2>1. phase = "done" /\ ~reached[v]
    BY DEF IInv, Answered
  <2>2. Over(v)
    BY <2>1 DEF Over
  <2> QED
    BY <2>1, <2>2 DEF IInv, Answered
<1> QED
  BY <1>1, Invariance, PTL

\* Each turn of a loop offers less, or is the last.
THEOREM TurnsShrink == Spec => NeverSpins
<1> DEFINE Shrinks == InRound => \/ remaining' # remaining /\ remaining' \subseteq remaining
                                 \/ round' # round
                                 \/ phase' # phase
<1>1. IInv /\ [Next]_vars => [Shrinks]_asking
  <2> SUFFICES ASSUME IInv, [Next]_vars, InRound, asking' # asking PROVE Shrinks
    OBVIOUS
  <2>0. TypeOK /\ Progress /\ ServerOrder /\ Answered
    BY DEF IInv
  <2>1. CASE Chooses
    BY <2>0, <2>1, ChoosingTakes DEF Take
  <2>2. CASE Refuses \/ Strays \/ Fails \/ Exhausts
    <3>1. LeaveRound /\ round \in Rounds
      BY <2>0, <2>2, OthersLeave
    <3>2. round + 1 # round
      BY <3>1, EnumerationAssumption DEF Rounds, GroupRound
    <3> QED
      BY <3>1, <3>2 DEF LeaveRound, InRound
  <2>3. CASE Assess \/ Signs \/ SignsNot \/ SignFails \/ Finish
    BY <2>3 DEF Assess, Signs, SignsNot, SignFails, HandleScheme, Finish, InRound
  <2>4. CASE UNCHANGED vars
    BY <2>4 DEF vars
  <2> QED
    BY <2>1, <2>2, <2>3, <2>4 DEF Next
<1> QED
  BY <1>1, Invariance, PTL DEF Spec, NeverSpins
=============================================================================
