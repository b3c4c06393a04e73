------------------------------ MODULE ScanPool ------------------------------
(***************************************************************************)
(* The concurrent path of scan() in scanner.py: a ThreadPoolExecutor runs   *)
(* _scan_once for every target, each attempt of which is scan_target, and   *)
(* the calling thread collects the groups through pool.map, in the order of *)
(* the targets.                                                             *)
(***************************************************************************)
EXTENDS Naturals, Sequences, FiniteSets

CONSTANTS Count,         \* len(targets)
          Concurrency,   \* max_workers of the pool
          Retries,       \* the retries argument
          MaxAddresses   \* bound: the addresses a host resolves to

ASSUME ScanPoolAssumption ==
    /\ Count \in Nat
    /\ Concurrency \in Nat \ {0}
    /\ Retries \in Nat
    /\ MaxAddresses \in Nat \ {0}

VARIABLES
    task,      \* where the future of each target is
    attempts,  \* _scan_once's attempts
    left,      \* addresses scan_target has still to probe
    group,     \* the results of the current attempt: "ok" or "error" each
    results,   \* the groups collected, in order
    progress,  \* calls of progress()
    outcome    \* "scanning", "unwinding" an exception, "report" or "raised"

work == <<task, attempts, left, group>>
vars == <<work, results, progress, outcome>>

Targets == 1..Count
Statuses == {"ok", "error"}

Places == {"queued", "resolving", "records", "probing", "attempted",
           "finished", "raised", "cancelled"}

Busy == {i \in Targets : task[i] \in {"resolving", "records", "probing", "attempted"}}

Init ==
    /\ task = [i \in Targets |-> "queued"]
    /\ attempts = [i \in Targets |-> 0]
    /\ left = [i \in Targets |-> 0]
    /\ group = [i \in Targets |-> <<>>]
    /\ results = <<>>
    /\ progress = 0
    /\ outcome = "scanning"

AnyOk(g) == \E k \in 1..Len(g) : g[k] = "ok"

Goes(i, from, to) ==
    /\ task[i] = from
    /\ task' = [task EXCEPT ![i] = to]

-----------------------------------------------------------------------------
(* A worker: _scan_once and, in it, scan_target.                            *)

\* A free worker takes the oldest future of the queue.
Begin(i) ==
    /\ Cardinality(Busy) < Concurrency
    /\ \A k \in Targets : k < i => task[k] # "queued"
    /\ Goes(i, "queued", "resolving")
    /\ attempts' = [attempts EXCEPT ![i] = 1]
    /\ UNCHANGED <<left, group, results, progress, outcome>>

\* ScanError is caught: one error result stands for the target.
ResolveFails(i) ==
    /\ Goes(i, "resolving", "attempted")
    /\ group' = [group EXCEPT ![i] = <<"error">>]
    /\ UNCHANGED <<attempts, left, results, progress, outcome>>

Resolve(i) ==
    /\ Goes(i, "resolving", "records")
    /\ \E n \in 1..MaxAddresses : left' = [left EXCEPT ![i] = n]
    /\ group' = [group EXCEPT ![i] = <<>>]
    /\ UNCHANGED <<attempts, results, progress, outcome>>

\* check_caa and check_https return, with whatever they found.
ReadRecords(i) ==
    /\ Goes(i, "records", "probing")
    /\ UNCHANGED <<attempts, left, group, results, progress, outcome>>

\* Anything but gaierror out of the resolver, any exception out of check_caa or
\* check_https: nothing in scan_target or _scan_once catches it.
Escapes(i) ==
    /\ task[i] \in {"resolving", "records"}
    /\ task' = [task EXCEPT ![i] = "raised"]
    /\ UNCHANGED <<attempts, left, group, results, progress, outcome>>

\* Mutant: one probe too many.
Probe_Overrun(i) ==
    /\ task[i] = "probing"
    /\ left[i] >= 0
    /\ left' = [left EXCEPT ![i] = @ - 1]
    /\ \E s \in Statuses : group' = [group EXCEPT ![i] = Append(@, s)]
    /\ UNCHANGED <<task, attempts, results, progress, outcome>>

\* _scan_address returns a result, or raises and becomes an error result.
Probe(i) ==
    /\ task[i] = "probing"
    /\ left[i] > 0
    /\ left' = [left EXCEPT ![i] = @ - 1]
    /\ \E s \in Statuses : group' = [group EXCEPT ![i] = Append(@, s)]
    /\ UNCHANGED <<task, attempts, results, progress, outcome>>

Probed(i) ==
    /\ left[i] = 0
    /\ Goes(i, "probing", "attempted")
    /\ UNCHANGED <<attempts, left, group, results, progress, outcome>>

\* Mutant: one failed address is enough to retry the target.
ToRetry_AnyFailed(i) ==
    attempts[i] < Retries /\ \E k \in 1..Len(group[i]) : group[i][k] = "error"

\* The condition of _scan_once's loop.
ToRetry(i) == attempts[i] < Retries /\ ~AnyOk(group[i])

\* Mutant: an attempt that is retried is counted as a target done.
Retry_Ticks(i) ==
    /\ ToRetry(i)
    /\ Goes(i, "attempted", "resolving")
    /\ attempts' = [attempts EXCEPT ![i] = @ + 1]
    /\ progress' = progress + 1
    /\ UNCHANGED <<left, group, results, outcome>>

Retry(i) ==
    /\ ToRetry(i)
    /\ Goes(i, "attempted", "resolving")
    /\ attempts' = [attempts EXCEPT ![i] = @ + 1]
    /\ UNCHANGED <<left, group, results, progress, outcome>>

Finish(i) ==
    /\ ~ToRetry(i)
    /\ Goes(i, "attempted", "finished")
    /\ UNCHANGED <<attempts, left, group, results, progress, outcome>>

WorkerStep(i) ==
    \/ Begin(i) \/ ResolveFails(i) \/ Resolve(i) \/ ReadRecords(i) \/ Escapes(i)
    \/ Probe(i) \/ Probed(i) \/ Retry(i) \/ Finish(i)

-----------------------------------------------------------------------------
(* The collector: `for group in pool.map(...)` inside `with pool`.          *)

Following == Len(results) + 1

\* Mutant: as_completed instead of map.
Collectable_AsCompleted(i) == i \in Targets

\* pool.map yields the groups in the order of the targets.
Collectable(i) == i = Following

Collect ==
    /\ outcome = "scanning"
    /\ \E i \in Targets :
          /\ Collectable(i)
          /\ task[i] = "finished"
          /\ results' = Append(results, group[i])
    /\ progress' = progress + 1
    /\ UNCHANGED <<work, outcome>>

\* Mutant: the exception is swallowed and what was collected is the report.
Reraise_Partial ==
    /\ outcome = "scanning"
    /\ \E i \in Targets : i = Following /\ task[i] = "raised"
    /\ Busy = {}
    /\ outcome' = "report"
    /\ UNCHANGED <<work, results, progress>>

\* The exception of a future comes out of pool.map when its turn comes; the
\* futures still queued are cancelled.
Reraise ==
    /\ outcome = "scanning"
    /\ \E i \in Targets : i = Following /\ task[i] = "raised"
    /\ task' = [i \in Targets |-> IF task[i] = "queued" THEN "cancelled" ELSE task[i]]
    /\ outcome' = "unwinding"
    /\ UNCHANGED <<attempts, left, group, results, progress>>

\* Mutant: shutdown(wait=False).
Unwound_NoWait ==
    /\ outcome = "unwinding"
    /\ outcome' = "raised"
    /\ UNCHANGED <<work, results, progress>>

\* Mutant: the cancelled futures are waited for.
Unwound_WaitsForAll ==
    /\ outcome = "unwinding"
    /\ \A i \in Targets : task[i] \in {"finished", "raised"}
    /\ outcome' = "raised"
    /\ UNCHANGED <<work, results, progress>>

\* Leaving the `with` waits for the workers.
Unwound ==
    /\ outcome = "unwinding"
    /\ Busy = {}
    /\ outcome' = "raised"
    /\ UNCHANGED <<work, results, progress>>

Report ==
    /\ outcome = "scanning"
    /\ Len(results) = Count
    /\ Busy = {}
    /\ outcome' = "report"
    /\ UNCHANGED <<work, results, progress>>

CollectorStep == Collect \/ Reraise \/ Unwound \/ Report

Next == CollectorStep \/ \E i \in Targets : WorkerStep(i)

Spec == Init /\ [][Next]_vars

\* Threads that can run do run.  A probe that waits is ended by its timeout; the
\* timeout is of each recv, so this also takes every server to stop sending.
FairSpec ==
    /\ Spec
    /\ WF_vars(CollectorStep)
    /\ \A i \in Targets : WF_vars(WorkerStep(i))

-----------------------------------------------------------------------------
TypeOK ==
    /\ task \in [Targets -> Places]
    /\ attempts \in [Targets -> Nat]
    /\ left \in [Targets -> 0..MaxAddresses]
    /\ group \in [Targets -> Seq(Statuses)]
    /\ results \in Seq(Seq(Statuses))
    /\ progress \in Nat
    /\ outcome \in {"scanning", "unwinding", "report", "raised"}

\* The report holds the groups in the order the targets were given, whichever
\* finished first and however often each was retried, and none is left out or
\* replaced after it was collected (scanner.py:607-618).
ReportInOrder ==
    /\ \A i \in 1..Len(results) : results[i] = group[i]
    /\ outcome = "report" => Len(results) = Count

\* progress() was called once for each group collected, so a job counts every
\* target exactly when its report exists (scanner.py:580-583, 610-612).
ProgressCounts ==
    /\ progress = Len(results)
    /\ outcome = "report" => progress = Count

\* When scan() has returned or raised, no worker still probes a server
\* (scanner.py:609).
NothingLeftRunning == outcome \in {"report", "raised"} => Busy = {}

\* A partial success is a finding, never retried away: an attempt in which some
\* address answered is the one reported (scanner.py:598-605).
PartialSuccessKept ==
    [][\A i \in Targets :
         task[i] = "attempted" /\ AnyOk(group[i]) => group'[i] = group[i] /\ task'[i] # "resolving"]_vars

\* Every scan ends (scanner.py:564-641).
ScanEnds == <>(outcome \in {"report", "raised"})

\* What scan_target returns: a result per address, or one for a host that does
\* not resolve.
ResultGroups == UNION {[1..n -> Statuses] : n \in 1..MaxAddresses}

\* The concurrent path implements the serial one: same order, same counts, and
\* an exception at the same target (scanner.py:608-618).
Serial == INSTANCE SerialScan
            WITH Groups <- ResultGroups,
                 outcome <- IF outcome = "unwinding" THEN "scanning" ELSE outcome

ImplementsSerial == Serial!Spec

-----------------------------------------------------------------------------
\* scanner.py:312-314: a hostile or broken endpoint must not abort the whole
\* scan.
OneTargetNeverAborts == outcome # "raised"

\* docs/en/README.md:661: --retries N is the number of retries when a scan
\* fails, so a target reported as failed was scanned N + 1 times.
FailuresWereRetried ==
    \A i \in Targets :
        task[i] = "finished" /\ ~AnyOk(group[i]) => attempts[i] = Retries + 1
=============================================================================
