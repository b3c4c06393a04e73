--------------------------- MODULE ScanPool_proofs --------------------------
(***************************************************************************)
(* Proofs about ScanPool, for every number of targets, workers, retries and *)
(* addresses.                                                               *)
(***************************************************************************)
EXTENDS ScanPool, FiniteSetTheorems, TLAPS

\* Every variable keeps its type.
THEOREM PoolTyped == Spec => []TypeOK
<1>1. Init => TypeOK
  BY ScanPoolAssumption DEF Init, TypeOK, Places, Statuses
<1>2. TypeOK /\ [Next]_vars => TypeOK'
  <2> SUFFICES ASSUME TypeOK, [Next]_vars PROVE TypeOK'
    OBVIOUS
  <2> USE DEF TypeOK, Places, Statuses
  <2>1. ASSUME NEW i \in Targets, WorkerStep(i) PROVE TypeOK'
    <3>1. CASE Begin(i)
      BY <3>1, ScanPoolAssumption DEF Begin, Goes
    <3>2. CASE ResolveFails(i)
      BY <3>2, ScanPoolAssumption DEF ResolveFails, Goes
    <3>3. CASE Resolve(i)
      BY <3>3, ScanPoolAssumption DEF Resolve, Goes
    <3>4. CASE ReadRecords(i)
      BY <3>4, ScanPoolAssumption DEF ReadRecords, Goes
    <3>5. CASE Escapes(i)
      BY <3>5, ScanPoolAssumption DEF Escapes, Goes
    <3>6. CASE Probe(i)
      <4>1. PICK s \in Statuses : group' = [group EXCEPT ![i] = Append(@, s)]
        BY <3>6 DEF Probe
      <4>2. group' \in [Targets -> Seq(Statuses)]
        BY <4>1
      <4> QED
        BY <3>6, <4>2, ScanPoolAssumption DEF Probe
    <3>7. CASE Probed(i)
      BY <3>7, ScanPoolAssumption DEF Probed, Goes
    <3>8. CASE Retry(i)
      BY <3>8, ScanPoolAssumption DEF Retry, Goes
    <3>9. CASE Finish(i)
      BY <3>9, ScanPoolAssumption DEF Finish, Goes
    <3> QED
      BY <2>1, <3>1, <3>2, <3>3, <3>4, <3>5, <3>6, <3>7, <3>8, <3>9 DEF WorkerStep
  <2>2. CASE Collect
    BY <2>2 DEF Collect, work
  <2>3. CASE Reraise
    BY <2>3 DEF Reraise
  <2>4. CASE Unwound \/ Report \/ UNCHANGED vars
    BY <2>4 DEF Unwound, Report, vars, work
  <2> QED
    BY <2>1, <2>2, <2>3, <2>4 DEF Next, CollectorStep
<1> QED
  BY <1>1, <1>2, PTL DEF Spec

-----------------------------------------------------------------------------
\* The results of an attempt, as far as it has come: with the addresses still to
\* probe they never exceed what the host resolved to, and never come to none.
Attempted ==
    \A i \in Targets :
        /\ task[i] = "records" => left[i] >= 1 /\ group[i] = <<>>
        /\ task[i] = "probing" =>
              /\ Len(group[i]) + left[i] >= 1
              /\ Len(group[i]) + left[i] <= MaxAddresses
        /\ task[i] \in {"attempted", "finished"} => Len(group[i]) \in 1..MaxAddresses

\* What was collected is final, and a scan that is over has no worker left and
\* none to come.
Collected ==
    /\ progress = Len(results)
    /\ Len(results) <= Count
    /\ \A i \in 1..Len(results) : task[i] = "finished" /\ results[i] = group[i]
    /\ outcome = "report" => Len(results) = Count
    /\ outcome \in {"unwinding", "raised"} =>
          Len(results) < Count /\ \A i \in Targets : task[i] # "queued"
    /\ outcome \in {"report", "raised"} => Busy = {}

\* A worker touches neither what was collected nor a scan that is over.
LEMMA WorkerKeeps ==
  ASSUME TypeOK, Attempted, Collected, NEW i \in Targets, WorkerStep(i)
  PROVE  Attempted' /\ Collected'
<1>0. ASSUME NEW n \in Nat, n <= Count, NEW k \in 1..n PROVE k \in Targets
  BY <1>0, ScanPoolAssumption DEF Targets
<1> USE DEF TypeOK, Statuses
<1>1. UNCHANGED <<results, progress, outcome>>
  BY DEF WorkerStep, Begin, ResolveFails, Resolve, ReadRecords, Escapes, Probe, Probed,
     Retry, Finish
<1>2. \A k \in Targets : k # i => task'[k] = task[k] /\ group'[k] = group[k] /\ left'[k] = left[k]
  BY DEF WorkerStep, Begin, ResolveFails, Resolve, ReadRecords, Escapes, Probe, Probed,
     Retry, Finish, Goes
<1>3. task[i] \in {"queued", "resolving", "records", "probing", "attempted"}
  BY DEF WorkerStep, Begin, ResolveFails, Resolve, ReadRecords, Escapes, Probe, Probed,
     Retry, Finish, Goes
<1>4. outcome \notin {"report", "raised"}
  <2> SUFFICES ASSUME outcome \in {"report", "raised"} PROVE FALSE
    OBVIOUS
  <2>1. Busy = {}
    BY DEF Collected
  <2>2. task[i] = "queued"
    BY <1>3, <2>1 DEF Busy
  <2>3. outcome = "report" /\ i \in 1..Len(results)
    BY <2>2 DEF Collected, Targets
  <2> QED
    BY <2>2, <2>3 DEF Collected
<1>5. Collected'
  <2>1. \A k \in 1..Len(results) : k # i /\ k \in Targets
    <3> SUFFICES ASSUME NEW k \in 1..Len(results) PROVE k # i /\ k \in Targets
      OBVIOUS
    <3>1. task[k] = "finished"
      BY DEF Collected
    <3>2. Len(results) \in Nat /\ Len(results) <= Count
      BY DEF Collected
    <3>3. k # i
      BY <1>3, <3>1, Zenon
    <3>4. k \in Targets
      BY <1>0, <3>2 DEF Targets
    <3> QED
      BY <3>3, <3>4
  <2>2. outcome = "unwinding" => task'[i] # "queued"
    BY DEF Collected, WorkerStep, Begin, ResolveFails, Resolve, ReadRecords, Escapes, Probe,
       Probed, Retry, Finish, Goes
  <2> QED
    BY <1>1, <1>2, <1>4, <2>1, <2>2 DEF Collected
<1>6. Attempted'
  <2> SUFFICES /\ task'[i] = "records" => left'[i] >= 1 /\ group'[i] = <<>>
               /\ task'[i] = "probing" =>
                     /\ Len(group'[i]) + left'[i] >= 1
                     /\ Len(group'[i]) + left'[i] <= MaxAddresses
               /\ task'[i] \in {"attempted", "finished"} => Len(group'[i]) \in 1..MaxAddresses
    BY <1>2 DEF Attempted
  <2>1. CASE Begin(i)
    BY <2>1, ScanPoolAssumption DEF Begin, Goes, Attempted
  <2>2. CASE ResolveFails(i)
    BY <2>2, ScanPoolAssumption DEF ResolveFails, Goes, Attempted
  <2>3. CASE Resolve(i)
    BY <2>3, ScanPoolAssumption DEF Resolve, Goes, Attempted
  <2>4. CASE ReadRecords(i)
    BY <2>4, ScanPoolAssumption DEF ReadRecords, Goes, Attempted
  <2>5. CASE Escapes(i)
    BY <2>5, ScanPoolAssumption DEF Escapes, Goes, Attempted
  <2>6. CASE Probe(i)
    <3>1. PICK s \in Statuses : group' = [group EXCEPT ![i] = Append(@, s)]
      BY <2>6 DEF Probe
    <3>2. Len(group'[i]) = Len(group[i]) + 1
      BY <3>1
    <3>3. left'[i] = left[i] - 1 /\ task'[i] = "probing" /\ task[i] = "probing"
      BY <2>6 DEF Probe
    <3>4. Len(group[i]) \in Nat /\ left[i] \in Nat
      BY ScanPoolAssumption
    <3> QED
      BY <3>2, <3>3, <3>4, ScanPoolAssumption DEF Attempted
  <2>7. CASE Probed(i)
    BY <2>7, ScanPoolAssumption DEF Probed, Goes, Attempted
  <2>8. CASE Retry(i)
    BY <2>8, ScanPoolAssumption DEF Retry, Goes, Attempted
  <2>9. CASE Finish(i)
    BY <2>9, ScanPoolAssumption DEF Finish, Goes, Attempted
  <2> QED
    BY <2>1, <2>2, <2>3, <2>4, <2>5, <2>6, <2>7, <2>8, <2>9 DEF WorkerStep
<1> QED
  BY <1>5, <1>6

\* The collector appends the next group, final, or ends the scan.
LEMMA CollectorKeeps ==
  ASSUME TypeOK, Attempted, Collected, CollectorStep
  PROVE  Attempted' /\ Collected'
<1> USE DEF TypeOK
<1>1. CASE Collect
  <2>1. PICK i \in Targets : /\ i = Len(results) + 1 /\ task[i] = "finished"
                             /\ results' = Append(results, group[i])
    BY <1>1 DEF Collect, Collectable, Following
  <2>2. Attempted'
    BY <1>1 DEF Collect, Attempted, work
  <2>3. Len(results') = Len(results) + 1 /\ Len(results) \in Nat
    BY <2>1
  <2>4. \A k \in 1..Len(results') : task[k] = "finished" /\ results'[k] = group[k]
    <3> SUFFICES ASSUME NEW k \in 1..Len(results')
                 PROVE  task[k] = "finished" /\ results'[k] = group[k]
      OBVIOUS
    <3>1. CASE k = i
      BY <2>1, <2>3, <3>1
    <3>2. CASE k # i
      <4>1. k \in 1..Len(results)
        BY <2>1, <2>3, <3>2
      <4>2. results'[k] = results[k]
        BY <2>1, <4>1
      <4> QED
        BY <4>1, <4>2 DEF Collected
    <3> QED
      BY <3>1, <3>2
  <2>5. Len(results') <= Count
    BY <2>1, <2>3, ScanPoolAssumption DEF Targets
  <2> QED
    BY <1>1, <2>2, <2>3, <2>4, <2>5 DEF Collect, Collected, work
<1>2. CASE Reraise
  <2>1. PICK i \in Targets : i = Len(results) + 1 /\ task[i] = "raised"
    BY <1>2 DEF Reraise, Following
  <2>2. Len(results) < Count
    BY <2>1, ScanPoolAssumption DEF Targets
  <2>3. \A k \in Targets : task'[k] = IF task[k] = "queued" THEN "cancelled" ELSE task[k]
    BY <1>2 DEF Reraise
  <2>4. \A k \in 1..Len(results) : k \in Targets
    BY <2>2, ScanPoolAssumption DEF Targets
  <2> QED
    BY <1>2, <2>2, <2>3, <2>4 DEF Reraise, Attempted, Collected
<1>3. CASE Unwound \/ Report
  BY <1>3 DEF Unwound, Report, Attempted, Collected, Busy, work
<1> QED
  BY <1>1, <1>2, <1>3 DEF CollectorStep

\* The two invariants hold of every reachable state.
LEMMA PoolInvHolds == Spec => [](Attempted /\ Collected)
<1>1. Init => Attempted /\ Collected
  BY ScanPoolAssumption DEF Init, Attempted, Collected, Busy
<1>2. TypeOK /\ Attempted /\ Collected /\ [Next]_vars => (Attempted /\ Collected)'
  <2> SUFFICES ASSUME TypeOK, Attempted, Collected, [Next]_vars
               PROVE  Attempted' /\ Collected'
    OBVIOUS
  <2>1. CASE UNCHANGED vars
    BY <2>1 DEF vars, work, Attempted, Collected, Busy
  <2> QED
    BY <2>1, WorkerKeeps, CollectorKeeps DEF Next
<1> QED
  BY <1>1, <1>2, PoolTyped, PTL DEF Spec

\* The report is in the order of the targets and complete (scanner.py:607-618).
THEOREM InOrder == Spec => []ReportInOrder
<1>1. Collected => ReportInOrder
  BY DEF Collected, ReportInOrder
<1> QED
  BY <1>1, PoolInvHolds, PTL

\* A job counts every target, once, by the time its report exists
\* (scanner.py:580-583, 610-612).
THEOREM CountsExact == Spec => []ProgressCounts
<1>1. Collected => ProgressCounts
  BY DEF Collected, ProgressCounts
<1> QED
  BY <1>1, PoolInvHolds, PTL

\* No worker outlives scan() (scanner.py:609).
THEOREM NoStragglers == Spec => []NothingLeftRunning
<1>1. Collected => NothingLeftRunning
  BY DEF Collected, NothingLeftRunning
<1> QED
  BY <1>1, PoolInvHolds, PTL

\* An attempt some address of which answered is the one reported
\* (scanner.py:598-605).
THEOREM PartialKept == Spec => PartialSuccessKept
<1>1. TypeOK /\ [Next]_vars =>
        [\A i \in Targets :
           task[i] = "attempted" /\ AnyOk(group[i])
             => group'[i] = group[i] /\ task'[i] # "resolving"]_vars
  <2> SUFFICES ASSUME TypeOK, Next, NEW i \in Targets, task[i] = "attempted", AnyOk(group[i])
               PROVE  group'[i] = group[i] /\ task'[i] # "resolving"
    OBVIOUS
  <2> USE DEF TypeOK, Goes
  <2>1. CASE CollectorStep
    BY <2>1 DEF CollectorStep, Collect, Reraise, Unwound, Report, work
  <2>2. ASSUME NEW k \in Targets, WorkerStep(k)
        PROVE  group'[i] = group[i] /\ task'[i] # "resolving"
    <3>1. CASE k = i
      BY <2>2, <3>1 DEF WorkerStep, Begin, ResolveFails, Resolve, ReadRecords, Escapes,
         Probe, Probed, Retry, Finish, ToRetry
    <3>2. CASE k # i
      BY <2>2, <3>2 DEF WorkerStep, Begin, ResolveFails, Resolve, ReadRecords, Escapes,
         Probe, Probed, Retry, Finish
    <3> QED
      BY <3>1, <3>2
  <2> QED
    BY <2>1, <2>2 DEF Next
<1> QED
  BY <1>1, PoolTyped, PTL DEF Spec, PartialSuccessKept

-----------------------------------------------------------------------------
(* The refinement of SerialScan.                                            *)

\* Collecting is the serial loop's body, the end of unwinding its exception.
LEMMA PoolStepRefines ==
  ASSUME TypeOK, Attempted, Collected, [Next]_vars
  PROVE  Serial!Next \/ UNCHANGED Serial!vars
<1> USE DEF TypeOK, Serial!vars
<1>1. CASE Collect
  <2>1. PICK i \in Targets : /\ i = Len(results) + 1 /\ task[i] = "finished"
                             /\ results' = Append(results, group[i])
    BY <1>1 DEF Collect, Collectable, Following
  <2>2. group[i] \in ResultGroups
    <3>1. Len(group[i]) \in 1..MaxAddresses /\ group[i] \in Seq(Statuses)
      BY <2>1 DEF Attempted
    <3>2. group[i] \in [1..Len(group[i]) -> Statuses]
      BY <3>1
    <3> QED
      BY <3>1, <3>2 DEF ResultGroups
  <2>3. Len(results) < Count
    BY <2>1, ScanPoolAssumption DEF Targets
  <2>4. Serial!Collect
    BY <1>1, <2>1, <2>2, <2>3 DEF Collect, Serial!Collect
  <2> QED
    BY <2>4 DEF Serial!Next
<1>2. CASE Reraise
  BY <1>2 DEF Reraise
<1>3. CASE Unwound
  <2>1. Serial!Raise
    BY <1>3 DEF Unwound, Serial!Raise, Collected
  <2> QED
    BY <2>1 DEF Serial!Next
<1>4. CASE Report
  <2>1. Serial!Report
    BY <1>4 DEF Report, Serial!Report
  <2> QED
    BY <2>1 DEF Serial!Next
<1>5. ASSUME NEW i \in Targets, WorkerStep(i) PROVE UNCHANGED Serial!vars
  BY <1>5 DEF WorkerStep, Begin, ResolveFails, Resolve, ReadRecords, Escapes, Probe, Probed,
     Retry, Finish
<1>6. CASE UNCHANGED vars
  BY <1>6 DEF vars
<1> QED
  BY <1>1, <1>2, <1>3, <1>4, <1>5, <1>6 DEF Next, CollectorStep

\* The concurrent path of scan() implements the serial one (scanner.py:608-618).
THEOREM PoolImplementsSerial == Spec => ImplementsSerial
<1>1. Init => Serial!Init
  BY DEF Init, Serial!Init
<1>2. TypeOK /\ Attempted /\ Collected /\ [Next]_vars => [Serial!Next]_(Serial!vars)
  BY PoolStepRefines
<1> QED
  BY <1>1, <1>2, PoolTyped, PoolInvHolds, PTL DEF Spec, ImplementsSerial, Serial!Spec

-----------------------------------------------------------------------------
(* The end of a scan.  Fairness and ENABLED stay with TLC (ScanEnds); what    *)
(* follows is what fairness is applied to: no step can be taken for ever, and *)
(* until the scan is over there is always one to take.                        *)

\* No target is attempted more often than the loop of _scan_once allows, one
\* that waits was not attempted, and none is cancelled while the scan goes on.
Counted ==
    /\ \A i \in Targets :
          /\ attempts[i] <= Retries + 1
          /\ task[i] \in {"queued", "cancelled"} => attempts[i] = 0
    /\ outcome = "scanning" => \A i \in Targets : task[i] # "cancelled"

\* A worker counts an attempt only after it has compared the attempts made.
LEMMA WorkerCounts ==
  ASSUME TypeOK, Counted, NEW i \in Targets, WorkerStep(i)
  PROVE  Counted'
<1> USE DEF TypeOK
<1>1. /\ outcome' = outcome
      /\ \A k \in Targets : k # i => task'[k] = task[k] /\ attempts'[k] = attempts[k]
  BY DEF WorkerStep, Begin, ResolveFails, Resolve, ReadRecords, Escapes, Probe, Probed,
     Retry, Finish, Goes
<1>2. /\ attempts'[i] <= Retries + 1
      /\ task'[i] \notin {"queued", "cancelled"}
  BY ScanPoolAssumption DEF WorkerStep, Begin, ResolveFails, Resolve, ReadRecords, Escapes,
     Probe, Probed, Retry, Finish, Goes, ToRetry, Counted
<1> QED
  BY <1>1, <1>2 DEF Counted

LEMMA CountedHolds == Spec => []Counted
<1>1. Init => Counted
  BY ScanPoolAssumption DEF Init, Counted
<1>2. TypeOK /\ Counted /\ [Next]_vars => Counted'
  <2> SUFFICES ASSUME TypeOK, Counted, [Next]_vars PROVE Counted'
    OBVIOUS
  <2>1. CASE Reraise
    BY <2>1 DEF Reraise, Counted, TypeOK
  <2>2. CASE Collect \/ Unwound \/ Report \/ UNCHANGED vars
    BY <2>2 DEF Collect, Unwound, Report, vars, work, Counted
  <2> QED
    BY <2>1, <2>2, WorkerCounts DEF Next, CollectorStep
<1> QED
  BY <1>1, <1>2, PoolTyped, PTL DEF Spec

\* What a worker may still do in the attempt it is in.
RestOf(i) ==
    CASE task[i] = "resolving" -> MaxAddresses + 4
      [] task[i] = "records"   -> MaxAddresses + 3
      [] task[i] = "probing"   -> left[i] + 2
      [] task[i] = "attempted" -> 1
      [] OTHER                 -> 0

\* More than the steps of n attempts.
Whole(n) == n * (MaxAddresses + 5)

\* An upper bound of the steps of the target, of those of the collector.
StepsLeft(i) == Whole(Retries + 1 - attempts[i]) + RestOf(i)

CollectorLeft ==
    (Count - Len(results))
      + (CASE outcome = "scanning" -> 2 [] outcome = "unwinding" -> 1 [] OTHER -> 0)

\* An attempt less is worth one whole attempt.
LEMMA OneLess ==
  ASSUME NEW n \in Nat
  PROVE  Whole(n) \in Nat /\ Whole(n + 1) = Whole(n) + MaxAddresses + 5
<1>1. \A w \in Nat : n * w \in Nat /\ (n + 1) * w = n * w + w
  OBVIOUS
<1>2. MaxAddresses + 5 \in Nat
  BY ScanPoolAssumption
<1> QED
  BY <1>1, <1>2, ScanPoolAssumption DEF Whole

\* The bounds are natural numbers: none can fall for ever.
LeftNat ==
    /\ CollectorLeft \in Nat
    /\ \A i \in Targets : RestOf(i) \in Nat /\ StepsLeft(i) \in Nat

LEMMA LeftIs ==
  ASSUME TypeOK, Collected, Counted
  PROVE  LeftNat
<1> USE DEF TypeOK
<1>1. CollectorLeft \in Nat
  <2>1. Count - Len(results) \in Nat
    BY ScanPoolAssumption DEF Collected
  <2> QED
    BY <2>1 DEF CollectorLeft
<1>2. ASSUME NEW i \in Targets PROVE RestOf(i) \in Nat /\ StepsLeft(i) \in Nat
  <2>1. RestOf(i) \in Nat
    BY ScanPoolAssumption DEF RestOf
  <2>2. attempts[i] \in Nat /\ attempts[i] <= Retries + 1
    BY DEF Counted
  <2>3. Retries + 1 - attempts[i] \in Nat
    BY <2>2, ScanPoolAssumption
  <2> QED
    <3> DEFINE n == Retries + 1 - attempts[i]
    <3>1. n \in Nat
      BY <2>3
    <3>2. StepsLeft(i) = Whole(n) + RestOf(i)
      BY DEF StepsLeft
    <3> HIDE DEF n
    <3>3. Whole(n) \in Nat
      BY <3>1, OneLess
    <3> QED
      BY <2>1, <3>2, <3>3
<1> QED
  BY <1>1, <1>2 DEF LeftNat

\* A step of a worker lowers the bound of its target and no other.
LEMMA WorkerShrinks ==
  ASSUME TypeOK, Attempted, Counted, LeftNat, LeftNat',
         NEW i \in Targets, WorkerStep(i)
  PROVE  /\ StepsLeft(i)' < StepsLeft(i)
         /\ \A k \in Targets : k # i => StepsLeft(k)' = StepsLeft(k)
         /\ CollectorLeft' = CollectorLeft
<1> USE DEF TypeOK
<1>1. \A k \in Targets : k # i => StepsLeft(k)' = StepsLeft(k)
  <2>1. \A k \in Targets : k # i => /\ task'[k] = task[k] /\ left'[k] = left[k]
                                    /\ attempts'[k] = attempts[k]
    BY DEF WorkerStep, Begin, ResolveFails, Resolve, ReadRecords, Escapes, Probe, Probed,
       Retry, Finish, Goes
  <2> QED
    BY <2>1 DEF StepsLeft, RestOf
<1>2. CollectorLeft' = CollectorLeft
  BY DEF CollectorLeft, WorkerStep, Begin, ResolveFails, Resolve, ReadRecords, Escapes, Probe,
     Probed, Retry, Finish
<1>3. attempts[i] \in Nat /\ Retries \in Nat /\ MaxAddresses \in Nat
  BY ScanPoolAssumption
<1>4. \/ attempts'[i] = attempts[i] /\ RestOf(i)' < RestOf(i)
      \/ /\ attempts[i] < Retries + 1 /\ attempts'[i] = attempts[i] + 1
         /\ RestOf(i)' = MaxAddresses + 4
  <2>1. CASE Begin(i)
    BY <2>1, ScanPoolAssumption DEF Begin, Goes, Counted, RestOf
  <2>2. CASE ResolveFails(i)
    BY <2>2, ScanPoolAssumption DEF ResolveFails, Goes, RestOf
  <2>3. CASE Resolve(i)
    BY <2>3, ScanPoolAssumption DEF Resolve, Goes, RestOf
  <2>4. CASE ReadRecords(i)
    BY <2>4, ScanPoolAssumption DEF ReadRecords, Goes, RestOf
  <2>5. CASE Escapes(i)
    BY <2>5, ScanPoolAssumption DEF Escapes, RestOf
  <2>6. CASE Probe(i)
    BY <2>6, ScanPoolAssumption DEF Probe, RestOf
  <2>7. CASE Probed(i)
    BY <2>7, ScanPoolAssumption DEF Probed, Goes, RestOf
  <2>8. CASE Retry(i)
    BY <2>8, ScanPoolAssumption DEF Retry, Goes, ToRetry, RestOf
  <2>9. CASE Finish(i)
    BY <2>9, ScanPoolAssumption DEF Finish, Goes, RestOf
  <2> QED
    BY <2>1, <2>2, <2>3, <2>4, <2>5, <2>6, <2>7, <2>8, <2>9 DEF WorkerStep
<1>5. RestOf(i) \in Nat /\ RestOf(i)' \in Nat
  BY DEF LeftNat
<1>6. StepsLeft(i)' < StepsLeft(i)
  <2> DEFINE n  == Retries + 1 - attempts[i]
             m  == Retries + 1 - attempts'[i]
             r  == RestOf(i)
             s  == RestOf(i)'
  <2>1. StepsLeft(i) = Whole(n) + r
    BY DEF StepsLeft
  <2>2. StepsLeft(i)' = Whole(m) + s
    BY DEF StepsLeft
  <2>3. n \in Nat
    BY <1>3 DEF Counted
  <2>4. \/ m = n /\ s < r
        \/ m \in Nat /\ n = m + 1 /\ s = MaxAddresses + 4
    <3>1. attempts'[i] = attempts[i] => m = n
      OBVIOUS
    <3>2. attempts[i] < Retries + 1 /\ attempts'[i] = attempts[i] + 1
            => m \in Nat /\ n = m + 1
      BY <1>3, SMTT(30)
    <3> HIDE DEF n, m
    <3> QED
      BY <1>4, <3>1, <3>2, Zenon
  <2>5. r \in Nat /\ s \in Nat
    BY <1>5
  <2> HIDE DEF n, m, r, s
  <2>6. Whole(n) \in Nat /\ (m \in Nat => Whole(m + 1) = Whole(m) + MaxAddresses + 5)
    BY <2>3, OneLess
  <2>7. m \in Nat /\ Whole(m) \in Nat
    BY <2>3, <2>4, OneLess
  <2>8. Whole(m) + s < Whole(n) + r
    BY <1>3, <2>4, <2>5, <2>6, <2>7, SMTT(30)
  <2> QED
    BY <2>1, <2>2, <2>8
<1> QED
  BY <1>1, <1>2, <1>6

\* A step of the collector lowers its bound and raises none.
LEMMA CollectorShrinks ==
  ASSUME TypeOK, Collected, Counted, CollectorStep
  PROVE  CollectorLeft' < CollectorLeft /\ \A k \in Targets : StepsLeft(k)' = StepsLeft(k)
<1> USE DEF TypeOK
<1>1. Len(results) \in Nat
  OBVIOUS
<1>2. CASE Collect
  <2>1. Len(results') = Len(results) + 1
    BY <1>2 DEF Collect
  <2>2. outcome' = outcome
    BY <1>2 DEF Collect
  <2>3. CollectorLeft' < CollectorLeft
    BY <1>1, <2>1, <2>2, ScanPoolAssumption DEF CollectorLeft
  <2> QED
    BY <1>2, <2>3 DEF Collect, work, StepsLeft, RestOf
<1>3. CASE Reraise
  <2>1. CollectorLeft' < CollectorLeft
    BY <1>1, <1>3, ScanPoolAssumption DEF Reraise, CollectorLeft
  <2>2. ASSUME NEW k \in Targets PROVE RestOf(k)' = RestOf(k)
    BY <1>3 DEF Reraise, RestOf
  <2> QED
    BY <1>3, <2>1, <2>2 DEF Reraise, StepsLeft
<1>4. CASE Unwound \/ Report
  <2>1. Count - Len(results) \in Nat /\ results' = results
    BY <1>1, <1>4, ScanPoolAssumption DEF Unwound, Report, Collected
  <2>2. ASSUME Unwound PROVE CollectorLeft' < CollectorLeft
    BY <2>1, <2>2 DEF Unwound, CollectorLeft
  <2>3. ASSUME Report PROVE CollectorLeft' < CollectorLeft
    BY <2>1, <2>3 DEF Report, CollectorLeft
  <2>4. CollectorLeft' < CollectorLeft
    BY <1>4, <2>2, <2>3
  <2> QED
    BY <1>4, <2>4 DEF Unwound, Report, work, StepsLeft, RestOf
<1> QED
  BY <1>2, <1>3, <1>4 DEF CollectorStep

\* Every step of a scan lowers a natural number, its target's or the
\* collector's, and raises none: no retry, no cancellation and no order in which
\* the workers finish can make a scan start over (scanner.py:564-641).
ScanShrinks ==
    [][/\ CollectorLeft' <= CollectorLeft
       /\ \A i \in Targets : StepsLeft(i)' <= StepsLeft(i)
       /\ \/ CollectorLeft' < CollectorLeft
          \/ \E i \in Targets : StepsLeft(i)' < StepsLeft(i)]_vars

\* The numbers that fall are natural numbers, in every state of a scan.
THEOREM StepsLeftNat == Spec => []LeftNat
<1>1. TypeOK /\ Collected /\ Counted => LeftNat
  BY LeftIs
<1> QED
  BY <1>1, PoolTyped, PoolInvHolds, CountedHolds, PTL

\* No scan takes more than the steps it had left when it began.
THEOREM ScanCannotCycle == Spec => ScanShrinks
<1>1. TypeOK /\ Attempted /\ Collected /\ Counted /\ LeftNat /\ LeftNat' /\ [Next]_vars =>
        [/\ CollectorLeft' <= CollectorLeft
         /\ \A i \in Targets : StepsLeft(i)' <= StepsLeft(i)
         /\ \/ CollectorLeft' < CollectorLeft
            \/ \E i \in Targets : StepsLeft(i)' < StepsLeft(i)]_vars
  <2> SUFFICES ASSUME TypeOK, Attempted, Collected, Counted, LeftNat, LeftNat', Next
               PROVE  /\ CollectorLeft' <= CollectorLeft
                      /\ \A i \in Targets : StepsLeft(i)' <= StepsLeft(i)
                      /\ \/ CollectorLeft' < CollectorLeft
                         \/ \E i \in Targets : StepsLeft(i)' < StepsLeft(i)
    OBVIOUS
  <2>1. CollectorLeft \in Nat /\ \A i \in Targets : StepsLeft(i) \in Nat
    BY DEF LeftNat
  <2>3. CollectorLeft' \in Nat /\ \A i \in Targets : StepsLeft(i)' \in Nat
    BY DEF LeftNat
  <2>4. CASE CollectorStep
    <3>1. CollectorLeft' < CollectorLeft /\ \A k \in Targets : StepsLeft(k)' = StepsLeft(k)
      BY <2>4, CollectorShrinks
    <3> QED
      BY <2>1, <2>3, <3>1
  <2>5. ASSUME NEW i \in Targets, WorkerStep(i)
        PROVE  /\ CollectorLeft' <= CollectorLeft
               /\ \A k \in Targets : StepsLeft(k)' <= StepsLeft(k)
               /\ \E k \in Targets : StepsLeft(k)' < StepsLeft(k)
    <3>1. /\ StepsLeft(i)' < StepsLeft(i)
          /\ \A k \in Targets : k # i => StepsLeft(k)' = StepsLeft(k)
          /\ CollectorLeft' = CollectorLeft
      BY <2>5, WorkerShrinks
    <3> QED
      BY <2>1, <2>3, <3>1
  <2> QED
    BY <2>4, <2>5 DEF Next
<1> QED
  BY <1>1, PoolTyped, PoolInvHolds, CountedHolds, StepsLeftNat, PTL DEF Spec, ScanShrinks

\* There is a step to take: of a worker with a target in hand, of the collector
\* (the next group is there, or all are and the workers are done, or they are
\* and an exception waits for them), or of a free worker, for the oldest future.
SomethingToDo ==
    \/ Busy # {}
    \/ outcome = "unwinding" /\ Busy = {}
    \/ outcome = "scanning" /\ Len(results) = Count /\ Busy = {}
    \/ /\ outcome = "scanning"
       /\ \E i \in Targets : i = Following /\ task[i] \in {"finished", "raised"}
    \/ \E i \in Targets :
          /\ Cardinality(Busy) < Concurrency
          /\ task[i] = "queued"
          /\ \A k \in Targets : k < i => task[k] # "queued"

\* The collector and the workers never all wait for one another: until scan()
\* has returned or raised, one of them can go on, with any number of workers,
\* the target whose turn it is still queued, and after any exception
\* (scanner.py:607-618).
THEOREM ScanGoesOn == Spec => [](outcome \in {"report", "raised"} \/ SomethingToDo)
<1>1. TypeOK /\ Collected /\ Counted => outcome \in {"report", "raised"} \/ SomethingToDo
  <2> SUFFICES ASSUME TypeOK, Collected, Counted, outcome = "scanning", Busy = {},
                      Len(results) # Count
               PROVE  SomethingToDo
    BY DEF SomethingToDo, TypeOK
  <2>1. Following \in Targets /\ Len(results) \in Nat
    <3>1. Len(results) \in Nat /\ Len(results) <= Count
      BY DEF TypeOK, Collected
    <3> QED
      BY <3>1, ScanPoolAssumption DEF Following, Targets
  <2>2. task[Following] \in {"queued", "finished", "raised"}
    BY <2>1 DEF TypeOK, Places, Busy, Counted
  <2>3. \A k \in Targets : k < Following => task[k] # "queued"
    <3>1. \A k \in Targets : k < Following => k \in 1..Len(results)
      BY <2>1, ScanPoolAssumption DEF Following, Targets
    <3> QED
      BY <3>1 DEF Collected
  <2>4. Cardinality(Busy) < Concurrency
    BY FS_EmptySet, ScanPoolAssumption
  <2> QED
    BY <2>1, <2>2, <2>3, <2>4 DEF SomethingToDo
<1> QED
  BY <1>1, PoolTyped, PoolInvHolds, CountedHolds, PTL
=============================================================================
