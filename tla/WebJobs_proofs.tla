--------------------------- MODULE WebJobs_proofs ---------------------------
(***************************************************************************)
(* Proofs about WebJobs, for every number of requests, pages and targets    *)
(* and every pair of ceilings.                                              *)
(***************************************************************************)
EXTENDS WebJobs, FiniteSetTheorems, TLAPS

\* The initial values have their types.
LEMMA InitTyped == Init => TypeOK
BY WebJobsAssumption DEF Init, TypeOK, PostPlaces, ScanPlaces, PagePlaces, Replies, NoReply

\* Every variable keeps its type: the sanity theorem the others rest on.
THEOREM TypeCorrect == Spec => []TypeOK
<1>1. Init => TypeOK
  BY InitTyped
<1>2. TypeOK /\ [Next]_vars => TypeOK'
  <2> SUFFICES ASSUME TypeOK, [Next]_vars PROVE TypeOK'
    OBVIOUS
  <2> USE DEF TypeOK
  <2>1. ASSUME NEW j \in Jobs, PostStep(j) PROVE TypeOK'
    <3>1. CASE Reject(j)
      BY <3>1 DEF Reject, PostGoes, PostPlaces, state, job, page
    <3>2. CASE Reserve(j)
      BY <3>2 DEF Reserve, PostGoes, PostPlaces, state, job, page
    <3>3. CASE TooBusy(j)
      BY <3>3 DEF TooBusy, PostGoes, PostPlaces, state, job, page
    <3>4. CASE Add(j)
      BY <3>4 DEF Add, PostGoes, PostPlaces, Newest, state, job, page
    <3>5. CASE Start(j)
      BY <3>5 DEF Start, PostGoes, PostPlaces, ScanGoes, ScanPlaces, state, job, page
    <3>6. CASE StartFails(j)
      BY <3>6 DEF StartFails, PostGoes, PostPlaces, state, job, page
    <3>7. CASE Unwind(j)
      BY <3>7 DEF Unwind, PostGoes, PostPlaces, Released, state, job, page
    <3>8. CASE Drop(j)
      BY <3>8 DEF Drop, PostGoes, PostPlaces, state, job, page
    <3>9. CASE Answer(j)
      BY <3>9 DEF Answer, PostGoes, PostPlaces, state, job, page
    <3> QED
      BY <2>1, <3>1, <3>2, <3>3, <3>4, <3>5, <3>6, <3>7, <3>8, <3>9 DEF PostStep
  <2>2. ASSUME NEW j \in Jobs, ScanStep(j) PROVE TypeOK'
    <3>1. CASE Tick(j)
      BY <3>1, WebJobsAssumption DEF Tick, ScanGoes, ScanPlaces, state, job, page
    <3>2. CASE ScanReturns(j)
      BY <3>2 DEF ScanReturns, ScanGoes, ScanPlaces, state, job, page
    <3>3. CASE MarkDone(j)
      BY <3>3 DEF MarkDone, ScanGoes, ScanPlaces, state, job, page
    <3>4. CASE ScanRaises(j)
      BY <3>4 DEF ScanRaises, ScanGoes, ScanPlaces, state, job, page
    <3>5. CASE MarkError(j)
      BY <3>5 DEF MarkError, ScanGoes, ScanPlaces, state, job, page
    <3>6. CASE NoteError(j)
      BY <3>6 DEF NoteError, ScanGoes, ScanPlaces, state, job, page
    <3>7. CASE Release(j)
      BY <3>7 DEF Release, ScanGoes, ScanPlaces, Released, state, job, page
    <3> QED
      BY <2>2, <3>1, <3>2, <3>3, <3>4, <3>5, <3>6, <3>7 DEF ScanStep
  <2>3. ASSUME NEW p \in Pages, Open(p) \/ HandlerStep(p) \/ Download(p)
        PROVE  TypeOK'
    <3>1. CASE Open(p)
      BY <3>1 DEF Open, PageGoes, PagePlaces, state, job, page
    <3>2. CASE Download(p)
      BY <3>2 DEF Download, PagePlaces, state, job, page
    <3>3. CASE Poll(p)
      BY <3>3 DEF Poll, PageGoes, PagePlaces, state, job, page
    <3>4. CASE ReadStatus(p)
      BY <3>4 DEF ReadStatus, PageGoes, Replies, PagePlaces, state, job, page
    <3>5. CASE ReadDone(p)
      BY <3>5 DEF ReadDone, PageGoes, Replies, PagePlaces, state, job, page
    <3>6. CASE ReadError(p)
      <4> DEFINE e == status[asked[p]] = "error" /\ error[asked[p]]
      <4>1. e \in BOOLEAN
        OBVIOUS
      <4>2. reply' = [reply EXCEPT ![p].error = e] /\ at' = [at EXCEPT ![p] = "summary"]
        BY <3>6 DEF ReadError, PageGoes
      <4> HIDE DEF e
      <4>3. reply' \in [Pages -> Replies] /\ reply'[p].status = reply[p].status
        BY <4>1, <4>2 DEF Replies
      <4>4. \A q \in Pages : q # p => reply'[q] = reply[q]
        BY <4>2
      <4> QED
        BY <3>6, <4>2, <4>3, <4>4 DEF ReadError, PageGoes, PagePlaces, state, job
    <3>7. CASE ReadSummary(p)
      <4>1. Polled(reply[p].status) \in PagePlaces
        BY <3>7 DEF ReadSummary, PageGoes, Polled, PagePlaces, Replies
      <4>2. Polled(reply[p].status) \in {"asking", "failed", "ready"}
        BY <3>7 DEF ReadSummary, PageGoes, Polled, Replies
      <4>3. reply' \in [Pages -> Replies]
        <5>1. NoReply \in Replies
          BY WebJobsAssumption DEF NoReply, Replies
        <5>2. [reply EXCEPT ![p].summary = report[asked[p]]] \in [Pages -> Replies]
          <6>1. report[asked[p]] \in BOOLEAN
            BY <3>7 DEF ReadSummary, PageGoes
          <6>2. \A e \in BOOLEAN : [reply[p] EXCEPT !.summary = e] \in Replies
            BY DEF Replies
          <6>3. \A q \in Replies : [reply EXCEPT ![p] = q] \in [Pages -> Replies]
            OBVIOUS
          <6> QED
            BY <6>1, <6>2, <6>3
        <5> QED
          BY <3>7, <5>1, <5>2 DEF ReadSummary
      <4>4. \A q \in Pages : q # p => reply'[q] = reply[q] /\ at'[q] = at[q]
        BY <3>7 DEF ReadSummary, PageGoes
      <4> QED
        BY <3>7, <4>1, <4>2, <4>3, <4>4 DEF ReadSummary, PageGoes, state, job
    <3>8. CASE FetchReport(p)
      BY <3>8 DEF FetchReport, PageGoes, PagePlaces, state, job, page
    <3>9. CASE ReadCache(p)
      BY <3>9 DEF ReadCache, PageGoes, PagePlaces, state, job, page
    <3>10. CASE StoreRendered(p)
      BY <3>10 DEF StoreRendered, PageGoes, PagePlaces, state, job, page
    <3> QED
      BY <2>3, <3>1, <3>2, <3>3, <3>4, <3>5, <3>6, <3>7, <3>8, <3>9, <3>10
      DEF HandlerStep
  <2>4. CASE UNCHANGED vars
    BY <2>4 DEF vars, state, job, page
  <2> QED
    BY <2>1, <2>2, <2>3, <2>4 DEF Next
<1> QED
  BY <1>1, <1>2, PTL DEF Spec

-----------------------------------------------------------------------------
(* The slots.                                                               *)

\* The strengthening the counter needs: a scan thread exists exactly when its
\* handler started it, so that no request holds a slot in two places.
Coupled ==
    \A j \in Jobs : scan[j] # "none" <=> post[j] \in {"started", "accepted"}

SlotInv == TypeOK /\ Coupled /\ SlotAccounting /\ ScansBounded

\* What one step does to the set of holders: one joins below the ceiling, one
\* leaves, or the set stays.
Joins == /\ running < MaxRunning
         /\ running' = running + 1
         /\ \E j \in Jobs : j \notin Holders /\ Holders' = Holders \cup {j}
Leaves == /\ running' = Released
          /\ \E j \in Jobs : j \in Holders /\ Holders' = Holders \ {j}
Stays == running' = running /\ Holders' = Holders

\* Every step does one of the three, and keeps threads and handlers coupled.
LEMMA HoldersStep ==
  ASSUME TypeOK, Coupled, Next
  PROVE  Coupled' /\ (Joins \/ Leaves \/ Stays)
<1> USE DEF TypeOK, Coupled, Holders, HoldsSlot
<1>1. ASSUME NEW j \in Jobs, PostStep(j) PROVE Coupled' /\ (Joins \/ Leaves \/ Stays)
  <2>1. CASE Reject(j)
    BY <2>1 DEF Reject, PostGoes, Stays, state
  <2>2. CASE Reserve(j)
    <3>1. Coupled' /\ running < MaxRunning /\ running' = running + 1
      BY <2>2 DEF Reserve, PostGoes
    <3>2. j \notin Holders /\ Holders' = Holders \cup {j}
      BY <2>2 DEF Reserve, PostGoes
    <3> QED
      BY <3>1, <3>2 DEF Joins
  <2>3. CASE TooBusy(j)
    BY <2>3 DEF TooBusy, PostGoes, Stays, state
  <2>4. CASE Add(j)
    BY <2>4 DEF Add, PostGoes, Stays, state
  <2>5. CASE Start(j)
    BY <2>5 DEF Start, PostGoes, ScanGoes, Stays, state
  <2>6. CASE StartFails(j)
    BY <2>6 DEF StartFails, PostGoes, Stays, state
  <2>7. CASE Unwind(j)
    <3>1. Coupled' /\ running' = Released
      BY <2>7 DEF Unwind, PostGoes
    <3>2. j \in Holders /\ Holders' = Holders \ {j}
      BY <2>7 DEF Unwind, PostGoes
    <3> QED
      BY <3>1, <3>2 DEF Leaves
  <2>8. CASE Drop(j)
    BY <2>8 DEF Drop, PostGoes, Stays, state
  <2>9. CASE Answer(j)
    BY <2>9 DEF Answer, PostGoes, Stays, state
  <2> QED
    BY <1>1, <2>1, <2>2, <2>3, <2>4, <2>5, <2>6, <2>7, <2>8, <2>9 DEF PostStep
<1>2. ASSUME NEW j \in Jobs, ScanStep(j) PROVE Coupled' /\ (Joins \/ Leaves \/ Stays)
  <2>1. CASE Tick(j)
    BY <2>1 DEF Tick, ScanGoes, Stays, state
  <2>2. CASE ScanReturns(j)
    BY <2>2 DEF ScanReturns, ScanGoes, Stays, state
  <2>3. CASE MarkDone(j)
    BY <2>3 DEF MarkDone, ScanGoes, Stays, state
  <2>4. CASE ScanRaises(j)
    BY <2>4 DEF ScanRaises, ScanGoes, Stays, state
  <2>5. CASE MarkError(j)
    BY <2>5 DEF MarkError, ScanGoes, Stays, state
  <2>6. CASE NoteError(j)
    BY <2>6 DEF NoteError, ScanGoes, Stays, state
  <2>7. CASE Release(j)
    <3>1. Coupled' /\ running' = Released
      BY <2>7 DEF Release, ScanGoes
    <3>2. j \in Holders /\ Holders' = Holders \ {j}
      BY <2>7 DEF Release, ScanGoes
    <3> QED
      BY <3>1, <3>2 DEF Leaves
  <2> QED
    BY <1>2, <2>1, <2>2, <2>3, <2>4, <2>5, <2>6, <2>7 DEF ScanStep
<1>3. ASSUME NEW p \in Pages, Open(p) \/ HandlerStep(p) \/ Download(p)
      PROVE  Coupled' /\ Stays
  BY <1>3 DEF Open, HandlerStep, Download, Poll, ReadStatus, ReadDone, ReadError,
     ReadSummary, FetchReport, ReadCache, StoreRendered, state, Stays
<1> QED
  BY <1>1, <1>2, <1>3 DEF Next

\* The counter and the set of holders move together.
LEMMA SlotInvHolds == Spec => []SlotInv
<1> USE DEF SlotInv
<1>1. Init => SlotInv
  <2> SUFFICES ASSUME Init PROVE Coupled /\ SlotAccounting /\ ScansBounded /\ TypeOK
    OBVIOUS
  <2>1. Holders = {}
    BY DEF Init, Holders, HoldsSlot
  <2>2. TypeOK
    BY InitTyped
  <2> QED
    BY <2>1, <2>2, FS_EmptySet, WebJobsAssumption
    DEF Init, Coupled, SlotAccounting, ScansBounded
<1>2. SlotInv /\ TypeOK' /\ [Next]_vars => SlotInv'
  <2> SUFFICES ASSUME SlotInv, TypeOK', [Next]_vars PROVE SlotInv'
    OBVIOUS
  <2>1. CASE UNCHANGED vars
    BY <2>1 DEF vars, state, job, page, TypeOK, Coupled, SlotAccounting, ScansBounded,
       Holders, HoldsSlot
  <2>2. CASE Next
    <3>1. IsFiniteSet(Holders) /\ running = Cardinality(Holders)
      BY FS_Subset, WebJobsAssumption DEF Holders, SlotAccounting
    <3>2. Coupled' /\ (Joins \/ Leaves \/ Stays)
      BY <2>2, HoldersStep
    <3>3. CASE Joins
      <4>1. PICK j \in Jobs : j \notin Holders /\ Holders' = Holders \cup {j}
        BY <3>3 DEF Joins
      <4>2. Cardinality(Holders') = running + 1
        BY <3>1, <4>1, FS_AddElement
      <4> QED
        BY <3>1, <3>2, <3>3, <4>2, WebJobsAssumption
        DEF Joins, SlotAccounting, ScansBounded, TypeOK
    <3>4. CASE Leaves
      <4>1. PICK j \in Jobs : j \in Holders /\ Holders' = Holders \ {j}
        BY <3>4 DEF Leaves
      <4>2. Cardinality(Holders') = running - 1 /\ running # 0
        BY <3>1, <4>1, FS_RemoveElement, FS_EmptySet
      <4> QED
        BY <3>1, <3>2, <3>4, <4>2, WebJobsAssumption
        DEF Leaves, Released, SlotAccounting, ScansBounded, TypeOK
    <3>5. CASE Stays
      BY <3>1, <3>2, <3>5 DEF Stays, SlotAccounting, ScansBounded
    <3> QED
      BY <3>2, <3>3, <3>4, <3>5
  <2> QED
    BY <2>1, <2>2
<1> QED
  BY <1>1, <1>2, TypeCorrect, PTL DEF Spec

\* The counter of running scans is exact in every reachable state: no slot is
\* leaked, none is given back twice (server.py:231-240, 427-459).
THEOREM SlotsExact == Spec => []SlotAccounting
BY SlotInvHolds, PTL DEF SlotInv

\* No more than MAX_RUNNING_JOBS requests ever hold a slot (server.py:121-123).
THEOREM CeilingHolds == Spec => []ScansBounded
BY SlotInvHolds, PTL DEF SlotInv

-----------------------------------------------------------------------------
(* The list of jobs.                                                        *)

Younger(j) == {k \in Jobs : stamp[k] > stamp[j]}

\* Stamps grow, and tell which requests were added.
Stamped ==
    \A j \in Jobs :
        /\ stamp[j] <= clock
        /\ post[j] \in {"idle", "rejected", "reserved"} => stamp[j] = 0
        /\ post[j] \in {"added", "unwinding", "dropping", "started", "accepted"}
              => stamp[j] # 0
        /\ j \in listed =>
              post[j] \in {"added", "unwinding", "dropping", "started", "accepted"}

\* KeepsNewest from the moment a job is added, before its thread starts.
KeptNewest ==
    \A j \in Jobs :
        post[j] \in {"added", "unwinding", "started", "accepted"} /\ j \notin listed =>
            Cardinality(Younger(j)) >= MaxJobs

\* A longer look back never makes fewer jobs younger than j.
LEMMA YoungerGrows ==
  ASSUME TypeOK, NEW j \in Jobs, Younger(j) \subseteq Younger(j)'
  PROVE  Cardinality(Younger(j)') >= Cardinality(Younger(j))
<1>1. IsFiniteSet(Younger(j)')
  BY FS_Subset, WebJobsAssumption DEF Younger
<1>2. IsFiniteSet(Younger(j))
  BY FS_Subset, WebJobsAssumption DEF Younger
<1>3. Cardinality(Younger(j)) <= Cardinality(Younger(j)')
  BY <1>1, FS_Subset
<1> QED
  BY <1>1, <1>2, <1>3, FS_CardinalityType

\* Adding a job evicts only jobs that MAX_JOBS younger ones push out.
LEMMA AddKeeps ==
  ASSUME TypeOK, Stamped, KeptNewest, NEW j \in Jobs, Add(j)
  PROVE  Stamped' /\ KeptNewest'
<1> USE DEF TypeOK
<1>1. /\ stamp[j] = 0 /\ stamp' = [stamp EXCEPT ![j] = clock + 1]
      /\ post[j] = "reserved" /\ post' = [post EXCEPT ![j] = "added"]
      /\ clock' = clock + 1
      /\ listed' = Newest(listed \cup {j}, stamp')
  BY DEF Add, PostGoes, Stamped
<1>2. listed' \subseteq listed \cup {j}
  BY <1>1 DEF Newest
<1>3. Stamped'
  <2> SUFFICES ASSUME NEW x \in Jobs
               PROVE  /\ stamp'[x] <= clock'
                      /\ post'[x] \in {"idle", "rejected", "reserved"} => stamp'[x] = 0
                      /\ post'[x] \in {"added", "unwinding", "dropping", "started", "accepted"}
                            => stamp'[x] # 0
                      /\ x \in listed' =>
                            post'[x] \in {"added", "unwinding", "dropping", "started", "accepted"}
    BY DEF Stamped
  <2>1. CASE x = j
    BY <1>1, <2>1
  <2>2. CASE x # j
    <3>1. stamp'[x] = stamp[x] /\ post'[x] = post[x] /\ (x \in listed' => x \in listed)
      BY <1>1, <1>2, <2>2
    <3>2. stamp[x] <= clock /\ clock' = clock + 1
      BY <1>1 DEF Stamped
    <3> QED
      BY <3>1, <3>2 DEF Stamped
  <2> QED
    BY <2>1, <2>2
<1>4. ASSUME NEW x \in Jobs, x \notin listed', x \in listed \cup {j}
      PROVE  Cardinality(Younger(x)') >= MaxJobs
  <2> DEFINE pushers == {k \in listed \cup {j} : stamp'[k] > stamp'[x]}
  <2>1. pushers \subseteq Younger(x)'
    BY DEF Younger
  <2>2. IsFiniteSet(Younger(x)') /\ IsFiniteSet(pushers)
    <3>1. Younger(x)' \in SUBSET Jobs
      BY DEF Younger
    <3> HIDE DEF pushers
    <3>2. pushers \in SUBSET Younger(x)'
      BY <2>1
    <3> QED
      BY <3>1, <3>2, FS_Subset, WebJobsAssumption
  <2>3. ~(Cardinality(pushers) < MaxJobs)
    BY <1>1, <1>4 DEF Newest
  <2> HIDE DEF pushers
  <2>4. Cardinality(pushers) <= Cardinality(Younger(x)')
    BY <2>1, <2>2, FS_Subset
  <2> QED
    BY <2>2, <2>3, <2>4, FS_CardinalityType, WebJobsAssumption
<1>5. ASSUME NEW x \in Jobs, x # j, x \notin listed,
             post[x] \in {"added", "unwinding", "started", "accepted"}
      PROVE  Cardinality(Younger(x)') >= MaxJobs
  <2>1. Younger(x) \subseteq Younger(x)'
    BY <1>1, <1>5 DEF Younger, Stamped
  <2>2. Cardinality(Younger(x)') >= Cardinality(Younger(x))
    BY <2>1, YoungerGrows
  <2>3. Cardinality(Younger(x)) >= MaxJobs
    BY <1>5 DEF KeptNewest
  <2>4. Cardinality(Younger(x)) \in Nat /\ Cardinality(Younger(x)') \in Nat
    BY FS_Subset, FS_CardinalityType, WebJobsAssumption DEF Younger
  <2> QED
    BY <2>2, <2>3, <2>4, WebJobsAssumption
<1>6. KeptNewest'
  BY <1>1, <1>4, <1>5 DEF KeptNewest
<1> QED
  BY <1>3, <1>6

\* The list keeps the youngest jobs and only jobs that were added.
LEMMA ListInvHolds == Spec => [](Stamped /\ KeptNewest)
<1>1. Init => Stamped /\ KeptNewest
  BY DEF Init, Stamped, KeptNewest
<1>2. TypeOK /\ Stamped /\ KeptNewest /\ [Next]_vars => (Stamped /\ KeptNewest)'
  <2> SUFFICES ASSUME TypeOK, Stamped, KeptNewest, [Next]_vars
               PROVE  Stamped' /\ KeptNewest'
    OBVIOUS
  <2>1. ASSUME NEW j \in Jobs, PostStep(j) PROVE Stamped' /\ KeptNewest'
    <3> USE DEF TypeOK, Stamped, KeptNewest, Younger
    <3>1. CASE Add(j)
      BY <3>1, AddKeeps
    <3>2. CASE Reject(j)
      BY <3>2 DEF Reject, PostGoes, state
    <3>3. CASE Reserve(j)
      BY <3>3 DEF Reserve, PostGoes, state
    <3>4. CASE TooBusy(j)
      BY <3>4 DEF TooBusy, PostGoes, state
    <3>5. CASE Start(j)
      BY <3>5 DEF Start, PostGoes, ScanGoes, state
    <3>6. CASE StartFails(j)
      BY <3>6 DEF StartFails, PostGoes, state
    <3>7. CASE Unwind(j)
      BY <3>7 DEF Unwind, PostGoes, state
    <3>8. CASE Drop(j)
      BY <3>8 DEF Drop, PostGoes, state
    <3>9. CASE Answer(j)
      BY <3>9 DEF Answer, PostGoes, state
    <3> QED
      BY <2>1, <3>1, <3>2, <3>3, <3>4, <3>5, <3>6, <3>7, <3>8, <3>9 DEF PostStep
  <2>2. ASSUME NEW j \in Jobs, ScanStep(j) PROVE Stamped' /\ KeptNewest'
    <3>1. UNCHANGED <<listed, stamp, clock, post>>
      BY <2>2 DEF ScanStep, Tick, ScanReturns, MarkDone, ScanRaises, MarkError, NoteError,
         Release, state
    <3> QED
      BY <3>1 DEF Stamped, KeptNewest, Younger
  <2>3. ASSUME NEW p \in Pages, Open(p) \/ HandlerStep(p) \/ Download(p)
        PROVE  Stamped' /\ KeptNewest'
    <3>1. UNCHANGED <<listed, stamp, clock, post>>
      BY <2>3 DEF Open, HandlerStep, Download, Poll, ReadStatus, ReadDone, ReadError,
         ReadSummary, FetchReport, ReadCache, StoreRendered, state
    <3> QED
      BY <3>1 DEF Stamped, KeptNewest, Younger
  <2>4. CASE UNCHANGED vars
    BY <2>4 DEF vars, state, Stamped, KeptNewest, Younger
  <2> QED
    BY <2>1, <2>2, <2>3, <2>4 DEF Next
<1> QED
  BY <1>1, <1>2, TypeCorrect, PTL DEF Spec

\* A client's job is found until MAX_JOBS younger ones were added
\* (server.py:242-254).
THEOREM NewestKept == Spec => []KeepsNewest
<1>1. KeptNewest => KeepsNewest
  BY DEF KeptNewest, KeepsNewest, Younger
<1> QED
  BY <1>1, ListInvHolds, PTL

\* A POST answered 503 leaves no job, no thread and no slot (server.py:453-459).
THEOREM RefusalIsClean == Spec => []RefusedLeavesNothing
<1>1. TypeOK /\ Coupled /\ Stamped => RefusedLeavesNothing
  BY DEF TypeOK, Coupled, Stamped, RefusedLeavesNothing, HoldsSlot
<1> QED
  BY <1>1, SlotInvHolds, ListInvHolds, PTL DEF SlotInv

-----------------------------------------------------------------------------
(* What the pages read.                                                     *)

\* The order in which a scan thread writes the Job.
Written ==
    \A j \in Jobs :
        /\ report[j] => done[j] = Total /\ scan[j] \in {"reported", "leaving", "ended"}
        /\ scan[j] = "reported" => report[j]
        /\ status[j] = "running" => scan[j] \in {"none", "scanning", "reported", "raised"}
        /\ status[j] = "done" => report[j] /\ scan[j] \in {"leaving", "ended"}
        /\ status[j] = "error" => ~report[j] /\ scan[j] \in {"noted", "leaving", "ended"}

\* What a half-built reply of page p already commits to.
SaidBy(p) ==
    /\ at[p] = "closed" => reply[p].status = "none"
    /\ reply[p].status \in {"done", "error"} =>
          asked[p] \in Jobs /\ status[asked[p]] = reply[p].status
    /\ at[p] \in {"error", "summary"} /\ reply[p].status = "done" => reply[p].done = Total
    /\ at[p] \in {"ready", "fetching", "cache", "rendering", "gone"} =>
          reply[p].status = "done" /\ reply[p].done = Total /\ reply[p].summary
    /\ at[p] = "failed" => ~reply[p].summary
    /\ at[p] # "conflict"

Said == \A p \in Pages : SaidBy(p)

\* A scan thread writes in order, and never takes back an outcome.
LEMMA WritesInOrder ==
  ASSUME TypeOK, Written, NEW j \in Jobs, ScanStep(j)
  PROVE  /\ Written'
         /\ \A k \in Jobs : status[k] # "running" => status'[k] = status[k]
         /\ UNCHANGED page
<1> USE DEF TypeOK, Written, ScanGoes, job, page
<1>1. CASE Tick(j)
  BY <1>1 DEF Tick
<1>2. CASE ScanReturns(j)
  BY <1>2 DEF ScanReturns
<1>3. CASE MarkDone(j)
  BY <1>3 DEF MarkDone
<1>4. CASE ScanRaises(j)
  BY <1>4 DEF ScanRaises
<1>5. CASE MarkError(j)
  BY <1>5 DEF MarkError
<1>6. CASE NoteError(j)
  BY <1>6 DEF NoteError
<1>7. CASE Release(j)
  BY <1>7 DEF Release
<1> QED
  BY <1>1, <1>2, <1>3, <1>4, <1>5, <1>6, <1>7 DEF ScanStep

\* Each field a handler reads agrees with what it read before.
LEMMA ReadsAgree ==
  ASSUME TypeOK, Written, Said, NEW p \in Pages, Open(p) \/ HandlerStep(p) \/ Download(p)
  PROVE  Said'
<1>1. UNCHANGED job
  BY DEF Open, HandlerStep, Download, Poll, ReadStatus, ReadDone, ReadError, ReadSummary,
     FetchReport, ReadCache, StoreRendered
<1>2. ASSUME NEW q \in Pages, q # p PROVE SaidBy(q)'
  <2>1. at'[q] = at[q] /\ asked'[q] = asked[q] /\ reply'[q] = reply[q]
    BY <1>2 DEF TypeOK, Open, HandlerStep, Download, Poll, ReadStatus, ReadDone, ReadError,
       ReadSummary, FetchReport, ReadCache, StoreRendered, PageGoes
  <2> QED
    BY <1>1, <2>1 DEF job, Said, SaidBy
<1>3. SaidBy(p)'
  <2> USE DEF TypeOK, Said, SaidBy, PageGoes, job
  <2>1. CASE Open(p)
    BY <1>1, <2>1 DEF Open
  <2>2. CASE Download(p)
    BY <1>1, <2>2 DEF Download
  <2>3. CASE Poll(p)
    BY <1>1, <2>3 DEF Poll
  <2>4. CASE ReadStatus(p)
    BY <1>1, <2>4 DEF ReadStatus, Replies
  <2>5. CASE ReadDone(p)
    BY <1>1, <2>5 DEF ReadDone, Replies, Written
  <2>6. CASE ReadError(p)
    BY <1>1, <2>6 DEF ReadError, Replies
  <2>7. CASE ReadSummary(p)
    BY <1>1, <2>7 DEF ReadSummary, Polled, NoReply, Written, Replies
  <2>8. CASE FetchReport(p)
    BY <1>1, <2>8 DEF FetchReport, Written
  <2>9. CASE ReadCache(p)
    BY <1>1, <2>9 DEF ReadCache
  <2>10. CASE StoreRendered(p)
    BY <1>1, <2>10 DEF StoreRendered
  <2> QED
    BY <2>1, <2>2, <2>3, <2>4, <2>5, <2>6, <2>7, <2>8, <2>9, <2>10 DEF HandlerStep
<1> QED
  BY <1>2, <1>3 DEF Said

\* The Job is written in order and every reply agrees with it.
LEMMA ReplyInvHolds == Spec => [](Written /\ Said)
<1>1. Init => Written /\ Said
  BY WebJobsAssumption DEF Init, Written, Said, SaidBy, NoReply
<1>2. TypeOK /\ Coupled /\ Written /\ Said /\ [Next]_vars => (Written /\ Said)'
  <2> SUFFICES ASSUME TypeOK, Coupled, Written, Said, [Next]_vars
               PROVE  Written' /\ Said'
    OBVIOUS
  <2>1. ASSUME NEW j \in Jobs, PostStep(j) PROVE Written' /\ Said'
    <3>1. UNCHANGED <<job, page>>
      BY <2>1 DEF PostStep, Reject, Reserve, TooBusy, Add, Start, StartFails, Unwind, Drop,
         Answer
    <3>2. Said'
      BY <3>1 DEF Said, SaidBy, job, page
    <3>3. CASE Start(j)
      BY <3>1, <3>2, <3>3 DEF Start, ScanGoes, Written, TypeOK, job
    <3>4. CASE ~Start(j)
      <4>1. UNCHANGED scan
        BY <2>1, <3>4 DEF PostStep, Reject, Reserve, TooBusy, Add, StartFails, Unwind, Drop,
           Answer
      <4> QED
        BY <3>1, <3>2, <4>1 DEF Written, job
    <3> QED
      BY <3>3, <3>4
  <2>2. ASSUME NEW j \in Jobs, ScanStep(j) PROVE Written' /\ Said'
    <3>1. /\ Written'
          /\ \A k \in Jobs : status[k] # "running" => status'[k] = status[k]
          /\ UNCHANGED page
      BY <2>2, WritesInOrder
    <3>2. ASSUME NEW p \in Pages PROVE SaidBy(p)'
      BY <3>1 DEF Said, SaidBy, page
    <3> QED
      BY <3>1, <3>2 DEF Said
  <2>3. ASSUME NEW p \in Pages, Open(p) \/ HandlerStep(p) \/ Download(p)
        PROVE  Written' /\ Said'
    <3>1. Said'
      BY <2>3, ReadsAgree
    <3>2. UNCHANGED <<job, scan>>
      BY <2>3 DEF Open, HandlerStep, Download, Poll, ReadStatus, ReadDone, ReadError,
         ReadSummary, FetchReport, ReadCache, StoreRendered
    <3> QED
      BY <3>1, <3>2 DEF Written, job
  <2>4. CASE UNCHANGED vars
    BY <2>4 DEF vars, job, page, Written, Said, SaidBy
  <2> QED
    BY <2>1, <2>2, <2>3, <2>4 DEF Next
<1> QED
  BY <1>1, <1>2, TypeCorrect, SlotInvHolds, PTL DEF Spec, SlotInv

\* A status reply, built field by field without a lock, is true as a whole
\* (server.py:175-186, 432-447).
THEOREM WholeReplies == Spec => []RepliesAreWhole
<1>1. Said => RepliesAreWhole
  BY DEF Said, SaidBy, RepliesAreWhole
<1> QED
  BY <1>1, ReplyInvHolds, PTL

-----------------------------------------------------------------------------
(* The refinement of JobService.                                            *)

\* Each step of the threads is a step of the promise, or none.
LEMMA StepRefines ==
  ASSUME TypeOK, TypeOK', Coupled, Coupled', SlotAccounting, Stamped, Written, [Next]_vars
  PROVE  Service!Next \/ UNCHANGED Service!vars
<1> SUFFICES \/ \E j \in Jobs : Service!Admit(j) \/ Service!Settle(j) \/ Service!Leave(j)
             \/ Phase' = Phase /\ Outcome' = Outcome
  BY DEF Service!Next, Service!vars
<1> DEFINE Untouched(k) == HoldsSlot(k)' = HoldsSlot(k) /\ (~HoldsSlot(k) => stamp'[k] = stamp[k])
<1>1. ASSUME NEW k \in Jobs, Untouched(k) PROVE Phase'[k] = Phase[k]
  BY <1>1 DEF Phase
<1>2. ASSUME NEW j \in Jobs, \A k \in Jobs : k # j => Untouched(k)
      PROVE  Phase' = [Phase EXCEPT ![j] = Phase'[j]]
  <2>1. \A k \in Jobs : k # j => Phase'[k] = Phase[k]
    BY <1>1, <1>2
  <2> QED
    BY <2>1 DEF Phase
<1>3. ASSUME \A k \in Jobs : Untouched(k) PROVE Phase' = Phase
  <2>1. \A k \in Jobs : Phase'[k] = Phase[k]
    BY <1>1, <1>3
  <2> QED
    BY <2>1 DEF Phase
<1>4. ASSUME UNCHANGED status PROVE Outcome' = Outcome
  BY <1>4 DEF Outcome
<1>5. ASSUME NEW j \in Jobs, Phase[j] = "new", Cardinality(Service!Holding) < MaxRunning,
             Phase' = [Phase EXCEPT ![j] = "holding"], Outcome' = Outcome
      PROVE  Service!Admit(j)
  BY <1>5 DEF Service!Admit, Service!Cardinality, Cardinality, Service!IsFiniteSet, IsFiniteSet
<1>6. ASSUME NEW j \in Jobs, Phase[j] = "holding", Outcome[j] = "none", Phase' = Phase,
             NEW o \in {"done", "error"}, Outcome' = [Outcome EXCEPT ![j] = o]
      PROVE  Service!Settle(j)
  <2>1. \E x \in {"done", "error"} : Outcome' = [Outcome EXCEPT ![j] = x]
    BY <1>6
  <2> QED
    BY <1>6, <2>1 DEF Service!Settle
<1>7. ASSUME NEW j \in Jobs, PostStep(j)
      PROVE  Service!Admit(j) \/ Service!Leave(j) \/ (Phase' = Phase /\ Outcome' = Outcome)
  <2> USE DEF TypeOK, Coupled, Stamped, HoldsSlot, PostGoes
  <2>1. UNCHANGED status
    BY <1>7 DEF PostStep, Reject, Reserve, TooBusy, Add, Start, StartFails, Unwind, Drop,
       Answer, job
  <2>2. CASE Reserve(j)
    <3>1. \A k \in Jobs : k # j => Untouched(k)
      BY <2>2 DEF Reserve
    <3>2. Phase[j] = "new" /\ Phase'[j] = "holding"
      BY <2>2 DEF Reserve, Phase
    <3>3. Service!Holding = Holders
      BY DEF Service!Holding, Phase, Holders
    <3>4. Cardinality(Service!Holding) < MaxRunning
      BY <2>2, <3>3 DEF Reserve, SlotAccounting
    <3>5. Phase' = [Phase EXCEPT ![j] = "holding"]
      BY <1>2, <3>1, <3>2
    <3> QED
      BY <1>4, <1>5, <2>1, <3>2, <3>4, <3>5
  <2>3. CASE Unwind(j)
    <3>1. \A k \in Jobs : k # j => Untouched(k)
      BY <2>3 DEF Unwind
    <3>2. Phase[j] = "holding" /\ Phase'[j] = "left"
      BY <2>3 DEF Unwind, Phase
    <3>3. Phase' = [Phase EXCEPT ![j] = "left"]
      BY <1>2, <3>1, <3>2
    <3> QED
      BY <1>4, <2>1, <3>2, <3>3 DEF Service!Leave
  <2>4. CASE ~Reserve(j) /\ ~Unwind(j)
    <3>1. \A k \in Jobs : Untouched(k)
      <4>1. CASE Add(j)
        BY <4>1 DEF Add
      <4>2. CASE Start(j)
        BY <4>2 DEF Start, ScanGoes, state
      <4>3. CASE Reject(j) \/ TooBusy(j)
        BY <4>3 DEF Reject, TooBusy, state
      <4>4. CASE StartFails(j) \/ Drop(j) \/ Answer(j)
        BY <4>4 DEF StartFails, Drop, Answer, state
      <4> QED
        BY <1>7, <2>4, <4>1, <4>2, <4>3, <4>4 DEF PostStep
    <3> QED
      BY <1>3, <1>4, <2>1, <3>1
  <2> QED
    BY <2>2, <2>3, <2>4
<1>8. ASSUME NEW j \in Jobs, ScanStep(j)
      PROVE  Service!Settle(j) \/ Service!Leave(j) \/ (Phase' = Phase /\ Outcome' = Outcome)
  <2> USE DEF TypeOK, Coupled, Stamped, Written, HoldsSlot, ScanGoes
  <2>1. CASE Release(j)
    <3>1. \A k \in Jobs : k # j => Untouched(k)
      BY <2>1 DEF Release
    <3>2. Phase[j] = "holding" /\ Phase'[j] = "left"
      BY <2>1 DEF Release, Phase
    <3>3. Phase' = [Phase EXCEPT ![j] = "left"]
      BY <1>2, <3>1, <3>2
    <3>4. UNCHANGED status
      BY <2>1 DEF Release, job
    <3> QED
      BY <1>4, <3>2, <3>3, <3>4 DEF Service!Leave
  <2>2. CASE MarkDone(j) \/ MarkError(j)
    <3>1. \A k \in Jobs : Untouched(k)
      BY <2>2 DEF MarkDone, MarkError, state
    <3>2. PICK o \in {"done", "error"} : status' = [status EXCEPT ![j] = o]
      BY <2>2 DEF MarkDone, MarkError
    <3>3. Phase[j] = "holding" /\ status[j] = "running"
      BY <2>2 DEF MarkDone, MarkError, Phase
    <3>4. Outcome[j] = "none" /\ Outcome' = [Outcome EXCEPT ![j] = o]
      <4>1. \A k \in Jobs : status'[k] = IF k = j THEN o ELSE status[k]
        BY <3>2
      <4>2. [Outcome EXCEPT ![j] = o] = [k \in Jobs |-> IF k = j THEN o ELSE Outcome[k]]
        BY DEF Outcome
      <4>3. Outcome' = [k \in Jobs |-> IF k = j THEN o ELSE Outcome[k]]
        BY <4>1 DEF Outcome
      <4> QED
        BY <3>3, <4>2, <4>3 DEF Outcome
    <3>5. Phase' = Phase
      BY <1>3, <3>1
    <3>6. Service!Settle(j)
      BY <1>6, <3>2, <3>3, <3>4, <3>5
    <3> QED
      BY <3>6
  <2>3. CASE Tick(j) \/ ScanReturns(j) \/ ScanRaises(j) \/ NoteError(j)
    <3>1. \A k \in Jobs : Untouched(k)
      BY <2>3 DEF Tick, ScanReturns, ScanRaises, NoteError, state
    <3>2. UNCHANGED status
      BY <2>3 DEF Tick, ScanReturns, ScanRaises, NoteError, job
    <3> QED
      BY <1>3, <1>4, <3>1, <3>2
  <2> QED
    BY <1>8, <2>1, <2>2, <2>3 DEF ScanStep
<1>9. ASSUME \/ \E p \in Pages : Open(p) \/ HandlerStep(p) \/ Download(p)
             \/ UNCHANGED vars
      PROVE  Phase' = Phase /\ Outcome' = Outcome
  <2>1. UNCHANGED <<stamp, post, scan, status>>
    BY <1>9 DEF Open, HandlerStep, Download, Poll, ReadStatus, ReadDone, ReadError,
       ReadSummary, FetchReport, ReadCache, StoreRendered, state, job, vars
  <2> QED
    BY <2>1 DEF Phase, Outcome, HoldsSlot
<1> QED
  BY <1>7, <1>8, <1>9 DEF Next

\* The threads, the counter and the unlocked Job implement the abstract job
\* service (server.py:153-254, 427-459).
THEOREM JobsImplementService == Spec => ImplementsService
<1>1. Init => Service!Init
  BY DEF Init, Service!Init, Phase, Outcome, HoldsSlot
<1>2. /\ TypeOK /\ TypeOK' /\ Coupled /\ Coupled' /\ SlotAccounting /\ Stamped /\ Written
      /\ [Next]_vars
      => [Service!Next]_(Service!vars)
  BY StepRefines
<1> QED
  BY <1>1, <1>2, TypeCorrect, SlotInvHolds, ListInvHolds, ReplyInvHolds, PTL
  DEF Spec, SlotInv, ImplementsService, Service!Spec

-----------------------------------------------------------------------------
(* The way of a request.  SlotsComeBack itself stays with TLC; what fairness  *)
(* is applied to is proved: a request only goes forward, and one that holds a *)
(* slot never waits for another.                                              *)

\* An upper bound of the steps of the handler, of those of the scan thread.
PostLeft(j) ==
    CASE post[j] = "idle"      -> Total + 8
      [] post[j] = "reserved"  -> Total + 7
      [] post[j] = "added"     -> Total + 6
      [] post[j] = "unwinding" -> 2
      [] post[j] = "dropping"  -> 1
      [] post[j] = "started"   -> 1
      [] OTHER                 -> 0

ScanLeft(j) ==
    CASE scan[j] = "scanning" -> (Total - done[j]) + 4
      [] scan[j] = "raised"   -> 3
      [] scan[j] = "reported" -> 2
      [] scan[j] = "noted"    -> 2
      [] scan[j] = "leaving"  -> 1
      [] OTHER                -> 0

JobLeft(j) == PostLeft(j) + ScanLeft(j)

\* The guard of a step of the handler or of the thread of j, other than the
\* request itself.
CanGoOn(j) ==
    \/ post[j] \in {"reserved", "unwinding", "dropping", "started"}
    \/ post[j] = "added" /\ scan[j] = "none"
    \/ scan[j] = "scanning" /\ (done[j] < Total \/ done[j] = Total)
    \/ scan[j] \in {"raised", "reported", "noted", "leaving"}

\* What a step that is not of j leaves of it.
LEMMA LeftAlone ==
  ASSUME NEW j \in Jobs, post'[j] = post[j], scan'[j] = scan[j], done'[j] = done[j]
  PROVE  JobLeft(j)' = JobLeft(j)
BY DEF JobLeft, PostLeft, ScanLeft

\* The bounds are natural numbers.
LeftNat == \A j \in Jobs : PostLeft(j) \in Nat /\ ScanLeft(j) \in Nat

LEMMA LeftTyped == ASSUME TypeOK PROVE LeftNat
<1> SUFFICES ASSUME NEW j \in Jobs PROVE PostLeft(j) \in Nat /\ ScanLeft(j) \in Nat
  BY DEF LeftNat
<1>1. done[j] \in 0..Total /\ Total \in Nat
  BY WebJobsAssumption DEF TypeOK
<1>2. Total - done[j] \in Nat
  BY <1>1
<1>3. PostLeft(j) \in Nat
  BY <1>1 DEF PostLeft
<1>4. ScanLeft(j) \in Nat
  BY <1>2 DEF ScanLeft
<1> QED
  BY <1>3, <1>4

\* A step of the handler leaves less to do, the thread it starts included.
LEMMA PostAdvances ==
  ASSUME TypeOK, Coupled, LeftNat, NEW j \in Jobs, PostStep(j)
  PROVE  JobLeft(j)' < JobLeft(j)
<1> USE DEF TypeOK, PostGoes, ScanGoes
<1>1. Total \in Nat \ {0} /\ done[j] \in 0..Total /\ ScanLeft(j) \in Nat
  BY WebJobsAssumption DEF LeftNat
<1>2. CASE Start(j)
  <2>1. /\ post[j] = "added" /\ post'[j] = "started" /\ done'[j] = done[j]
        /\ scan[j] = "none" /\ scan'[j] = "scanning"
    BY <1>2 DEF Start, job
  <2>2. PostLeft(j) = Total + 6 /\ PostLeft(j)' = 1 /\ ScanLeft(j) = 0
    BY <2>1 DEF PostLeft, ScanLeft
  <2>3. ScanLeft(j)' = (Total - done[j]) + 4
    BY <2>1 DEF ScanLeft
  <2> QED
    BY <1>1, <2>2, <2>3 DEF JobLeft
<1>3. CASE ~Start(j)
  <2>1. UNCHANGED <<scan, done>>
    BY <1>3 DEF PostStep, Reject, Reserve, TooBusy, Add, StartFails, Unwind, Drop, Answer, job
  <2>2. ScanLeft(j)' = ScanLeft(j)
    BY <2>1 DEF ScanLeft
  <2>3. \/ post[j] = "idle" /\ post'[j] \in {"rejected", "reserved", "busy"}
        \/ post[j] = "reserved" /\ post'[j] = "added"
        \/ post[j] = "added" /\ post'[j] = "unwinding"
        \/ post[j] = "unwinding" /\ post'[j] = "dropping"
        \/ post[j] = "dropping" /\ post'[j] = "busy"
        \/ post[j] = "started" /\ post'[j] = "accepted"
    BY <1>3 DEF PostStep, Reject, Reserve, TooBusy, Add, StartFails, Unwind, Drop, Answer
  <2>4. PostLeft(j)' < PostLeft(j) /\ PostLeft(j) \in Nat /\ PostLeft(j)' \in Nat
    BY <1>1, <2>3 DEF PostLeft
  <2> QED
    BY <1>1, <2>2, <2>4 DEF JobLeft
<1> QED
  BY <1>2, <1>3

\* So does a step of the thread.
LEMMA ScanAdvances ==
  ASSUME TypeOK, LeftNat, NEW j \in Jobs, ScanStep(j)
  PROVE  JobLeft(j)' < JobLeft(j)
<1> USE DEF TypeOK, ScanGoes
<1>1. Total \in Nat \ {0} /\ done[j] \in 0..Total /\ PostLeft(j) \in Nat
  BY WebJobsAssumption DEF LeftNat
<1>2. UNCHANGED post
  BY DEF ScanStep, Tick, ScanReturns, MarkDone, ScanRaises, MarkError, NoteError, Release
<1>3. PostLeft(j)' = PostLeft(j)
  BY <1>2 DEF PostLeft
<1>4. \/ /\ scan[j] = "scanning" /\ scan'[j] = "scanning"
         /\ done[j] < Total /\ done'[j] = done[j] + 1
      \/ scan[j] = "scanning" /\ scan'[j] \in {"reported", "raised"}
      \/ scan[j] = "reported" /\ scan'[j] = "leaving"
      \/ scan[j] = "raised" /\ scan'[j] = "noted"
      \/ scan[j] = "noted" /\ scan'[j] = "leaving"
      \/ scan[j] = "leaving" /\ scan'[j] = "ended"
  <2>1. CASE Tick(j)
    BY <2>1 DEF Tick
  <2>2. CASE ~Tick(j)
    BY <2>2 DEF ScanStep, ScanReturns, MarkDone, ScanRaises, MarkError, NoteError, Release
  <2> QED
    BY <2>1, <2>2
<1>5. ScanLeft(j)' < ScanLeft(j) /\ ScanLeft(j) \in Nat /\ ScanLeft(j)' \in Nat
  BY <1>1, <1>4 DEF ScanLeft
<1> QED
  BY <1>1, <1>3, <1>5 DEF JobLeft

\* A request never goes back, and every step of its handler or of its scan thread
\* brings it nearer to its end.
OnlyForward ==
    [][\A j \in Jobs :
          /\ JobLeft(j)' <= JobLeft(j)
          /\ PostStep(j) \/ ScanStep(j) => JobLeft(j)' < JobLeft(j)]_vars

\* A request that holds a slot has a step of its own to take, whoever else waits
\* or is refused, and a finite number of them (server.py:427-459).
THEOREM HoldersGoOn ==
    Spec => [](\A j \in Jobs : JobLeft(j) \in Nat /\ (HoldsSlot(j) => CanGoOn(j)))
<1>1. TypeOK /\ Coupled => \A j \in Jobs : JobLeft(j) \in Nat /\ (HoldsSlot(j) => CanGoOn(j))
  <2> SUFFICES ASSUME TypeOK, Coupled, NEW j \in Jobs
               PROVE  JobLeft(j) \in Nat /\ (HoldsSlot(j) => CanGoOn(j))
    OBVIOUS
  <2>1. JobLeft(j) \in Nat
    BY LeftTyped DEF LeftNat, JobLeft
  <2>2. done[j] < Total \/ done[j] = Total
    BY WebJobsAssumption DEF TypeOK
  <2>3. HoldsSlot(j) => CanGoOn(j)
    BY <2>2 DEF Coupled, HoldsSlot, CanGoOn
  <2> QED
    BY <2>1, <2>3
<1> QED
  BY <1>1, TypeCorrect, SlotInvHolds, PTL DEF SlotInv

\* With HoldersGoOn: every slot is on its way back (server.py:427-459).
THEOREM RequestsOnlyForward == Spec => OnlyForward
<1>1. TypeOK /\ Coupled /\ LeftNat /\ LeftNat' /\ [Next]_vars =>
        [\A j \in Jobs :
           /\ JobLeft(j)' <= JobLeft(j)
           /\ PostStep(j) \/ ScanStep(j) => JobLeft(j)' < JobLeft(j)]_vars
  <2> SUFFICES ASSUME TypeOK, Coupled, LeftNat, LeftNat', Next, NEW j \in Jobs
               PROVE  /\ JobLeft(j)' <= JobLeft(j)
                      /\ PostStep(j) \/ ScanStep(j) => JobLeft(j)' < JobLeft(j)
    OBVIOUS
  <2>2. PostStep(j) \/ ScanStep(j) => JobLeft(j)' < JobLeft(j)
    BY PostAdvances, ScanAdvances
  <2>3. ASSUME NEW k \in Jobs, k # j, PostStep(k) \/ ScanStep(k)
        PROVE  JobLeft(j)' = JobLeft(j)
    <3>1. post'[j] = post[j] /\ scan'[j] = scan[j] /\ done'[j] = done[j]
      BY <2>3 DEF TypeOK, PostStep, Reject, Reserve, TooBusy, Add, Start, StartFails, Unwind,
         Drop, Answer, ScanStep, Tick, ScanReturns, MarkDone, ScanRaises, MarkError,
         NoteError, Release, PostGoes, ScanGoes, job
    <3> QED
      BY <3>1, LeftAlone
  <2>4. ASSUME NEW p \in Pages, Open(p) \/ HandlerStep(p) \/ Download(p)
        PROVE  JobLeft(j)' = JobLeft(j)
    <3>1. UNCHANGED <<post, scan, done>>
      BY <2>4 DEF Open, HandlerStep, Download, Poll, ReadStatus, ReadDone, ReadError,
         ReadSummary, FetchReport, ReadCache, StoreRendered, job
    <3> QED
      BY <3>1, LeftAlone
  <2>5. JobLeft(j)' < JobLeft(j) \/ JobLeft(j)' = JobLeft(j)
    BY <2>2, <2>3, <2>4 DEF Next
  <2>6. JobLeft(j) \in Nat /\ JobLeft(j)' \in Nat
    BY DEF LeftNat, JobLeft
  <2> QED
    BY <2>2, <2>5, <2>6
<1>2. TypeOK => LeftNat
  BY LeftTyped
<1> QED
  BY <1>1, <1>2, TypeCorrect, SlotInvHolds, PTL DEF Spec, SlotInv, OnlyForward
=============================================================================
