------------------------------ MODULE WebJobs -------------------------------
(***************************************************************************)
(* The scan jobs of web/server.py.                                          *)
(*                                                                          *)
(* One handler thread runs each POST /api/scan (_start_scan), one daemon    *)
(* thread runs each accepted scan (_run), and the handler threads of the    *)
(* polling pages read the Job object they share with it.  _State's methods  *)
(* hold its lock, so each is one step; the Job's attributes are read and    *)
(* written with no lock, so every read and every write is a step.           *)
(***************************************************************************)
EXTENDS Naturals, FiniteSets

CONSTANTS Jobs,        \* the scan requests: one POST, one Job, one thread each
          Pages,       \* the browser pages that poll a job and download reports
          Formats,     \* the report formats (reporting.FORMATS)
          NoJob,       \* what a page that was never opened polls
          MaxRunning,  \* MAX_RUNNING_JOBS
          MaxJobs,     \* MAX_JOBS
          Total        \* the targets of a scan, len(targets)

\* The constants of the code are 8 and 64: more jobs are kept than may run.
ASSUME WebJobsAssumption ==
    /\ IsFiniteSet(Jobs)
    /\ NoJob \notin Jobs
    /\ "none" \notin Formats
    /\ MaxRunning \in Nat \ {0}
    /\ MaxJobs \in Nat \ {0}
    /\ MaxRunning <= MaxJobs
    /\ Total \in Nat \ {0}

VARIABLES
    listed,    \* the keys of _State.jobs
    stamp,     \* the order the OrderedDict keeps: 0 when never added
    clock,     \* jobs added so far
    running,   \* _State.running
    post,      \* where the handler of each POST is
    scan,      \* where each _run thread is
    status,    \* Job.status
    error,     \* Job.error is set
    report,    \* Job.report is set
    done,      \* Job.done
    rendered,  \* Job.rendered: the formats cached
    at,        \* where each page is
    asked,     \* the job each page polls
    reply,     \* what the status reply it is reading, or read last, says
    format     \* the format it downloads

state == <<listed, stamp, clock, running>>
job == <<status, error, report, done>>
page == <<at, asked, reply, format>>
vars == <<state, post, scan, job, rendered, page>>

-----------------------------------------------------------------------------
\* The places of a POST handler, of a scan thread and of a page.
PostPlaces == {"idle", "reserved", "added", "unwinding", "dropping",
               "started", "accepted", "rejected", "busy"}
ScanPlaces == {"none", "scanning", "reported", "raised", "noted", "leaving",
               "ended"}
PagePlaces == {"closed", "asking", "status", "done", "error", "summary",
               "failed", "ready", "broken",
               "fetching", "cache", "rendering", "conflict", "gone"}

\* A status reply as far as it was read; as_status builds it field by field.
NoReply == [status |-> "none", done |-> 0, error |-> FALSE, summary |-> FALSE]
Replies == [status : {"none", "running", "done", "error"}, done : 0..Total,
            error : BOOLEAN, summary : BOOLEAN]

Init ==
    /\ listed = {}
    /\ stamp = [j \in Jobs |-> 0]
    /\ clock = 0
    /\ running = 0
    /\ post = [j \in Jobs |-> "idle"]
    /\ scan = [j \in Jobs |-> "none"]
    /\ status = [j \in Jobs |-> "running"]
    /\ error = [j \in Jobs |-> FALSE]
    /\ report = [j \in Jobs |-> FALSE]
    /\ done = [j \in Jobs |-> 0]
    /\ rendered = [j \in Jobs |-> {}]
    /\ at = [p \in Pages |-> "closed"]
    /\ asked = [p \in Pages |-> NoJob]
    /\ reply = [p \in Pages |-> NoReply]
    /\ format = [p \in Pages |-> "none"]

PostGoes(j, from, to) ==
    /\ post[j] = from
    /\ post' = [post EXCEPT ![j] = to]

ScanGoes(j, from, to) ==
    /\ scan[j] = from
    /\ scan' = [scan EXCEPT ![j] = to]

-----------------------------------------------------------------------------
(* POST /api/scan.                                                          *)

\* The request does not validate, or names no target: 400, nothing claimed.
Reject(j) ==
    /\ PostGoes(j, "idle", "rejected")
    /\ UNCHANGED <<state, scan, job, rendered, page>>

\* Mutant: the ceiling is compared with <=.
Reserve_OneMore(j) ==
    /\ running <= MaxRunning
    /\ PostGoes(j, "idle", "reserved")
    /\ running' = running + 1
    /\ UNCHANGED <<listed, stamp, clock, scan, job, rendered, page>>

\* _State.reserve, and the TooBusyError it raises at the ceiling.
Reserve(j) ==
    /\ running < MaxRunning
    /\ PostGoes(j, "idle", "reserved")
    /\ running' = running + 1
    /\ UNCHANGED <<listed, stamp, clock, scan, job, rendered, page>>

TooBusy(j) ==
    /\ running >= MaxRunning
    /\ PostGoes(j, "idle", "busy")
    /\ UNCHANGED <<state, scan, job, rendered, page>>

\* Mutant: add() makes room for one job more than it has to.
Newest_RoomForOne(keys, order) ==
    {j \in keys : Cardinality({k \in keys : order[k] > order[j]}) + 1 < MaxJobs}

\* popitem(last=False) until MaxJobs are left: those with fewer than MaxJobs
\* jobs younger than them stay.
Newest(keys, order) ==
    {j \in keys : Cardinality({k \in keys : order[k] > order[j]}) < MaxJobs}

\* _State.add: insertion and eviction under one lock.
Add(j) ==
    /\ PostGoes(j, "reserved", "added")
    /\ clock' = clock + 1
    /\ stamp' = [stamp EXCEPT ![j] = clock + 1]
    /\ listed' = Newest(listed \cup {j}, stamp')
    /\ UNCHANGED <<running, scan, job, rendered, page>>

Start(j) ==
    /\ PostGoes(j, "added", "started")
    /\ ScanGoes(j, "none", "scanning")
    /\ UNCHANGED <<state, job, rendered, page>>

\* Thread.start() raised: give the slot back, then drop the job, then 503.
StartFails(j) ==
    /\ PostGoes(j, "added", "unwinding")
    /\ UNCHANGED <<state, scan, job, rendered, page>>

\* _State.release, with its clamp at zero.
Released == IF running = 0 THEN 0 ELSE running - 1

\* Mutant: the release waits for a free slot.
Unwind_Blocks(j) ==
    /\ running < MaxRunning
    /\ PostGoes(j, "unwinding", "dropping")
    /\ running' = Released
    /\ UNCHANGED <<listed, stamp, clock, scan, job, rendered, page>>

Unwind(j) ==
    /\ PostGoes(j, "unwinding", "dropping")
    /\ running' = Released
    /\ UNCHANGED <<listed, stamp, clock, scan, job, rendered, page>>

\* Mutant: the job whose thread never started stays in the list.
Drop_KeepsJob(j) ==
    /\ PostGoes(j, "dropping", "busy")
    /\ UNCHANGED <<state, scan, job, rendered, page>>

Drop(j) ==
    /\ PostGoes(j, "dropping", "busy")
    /\ listed' = listed \ {j}
    /\ UNCHANGED <<stamp, clock, running, scan, job, rendered, page>>

\* The 202 carries the id: only now can a page ask for the job.
Answer(j) ==
    /\ PostGoes(j, "started", "accepted")
    /\ UNCHANGED <<state, scan, job, rendered, page>>

PostStep(j) ==
    \/ Reject(j) \/ Reserve(j) \/ TooBusy(j) \/ Add(j) \/ Start(j)
    \/ StartFails(j) \/ Unwind(j) \/ Drop(j) \/ Answer(j)

-----------------------------------------------------------------------------
(* The scan thread, _run.                                                   *)

\* Mutant: progress() is also called for what is not a target.
Tick_Uncounted(j) ==
    /\ scan[j] = "scanning"
    /\ done[j] <= Total
    /\ done' = [done EXCEPT ![j] = @ + 1]
    /\ UNCHANGED <<state, post, scan, status, error, report, rendered, page>>

\* Mutant: the job is done with its last target, before the report exists.
Tick_Finishes(j) ==
    /\ scan[j] = "scanning"
    /\ done[j] < Total
    /\ done' = [done EXCEPT ![j] = @ + 1]
    /\ status' = [status EXCEPT ![j] = IF done'[j] = Total THEN "done" ELSE @]
    /\ UNCHANGED <<state, post, scan, error, report, rendered, page>>

\* scan() calls progress once for each target that finishes.
Tick(j) ==
    /\ scan[j] = "scanning"
    /\ done[j] < Total
    /\ done' = [done EXCEPT ![j] = @ + 1]
    /\ UNCHANGED <<state, post, scan, status, error, report, rendered, page>>

ScanReturns(j) ==
    /\ done[j] = Total
    /\ ScanGoes(j, "scanning", "reported")
    /\ report' = [report EXCEPT ![j] = TRUE]
    /\ UNCHANGED <<state, post, status, error, done, rendered, page>>

MarkDone(j) ==
    /\ ScanGoes(j, "reported", "leaving")
    /\ status' = [status EXCEPT ![j] = "done"]
    /\ UNCHANGED <<state, post, error, report, done, rendered, page>>

\* scan() raises, whatever was ticked before.
ScanRaises(j) ==
    /\ ScanGoes(j, "scanning", "raised")
    /\ UNCHANGED <<state, post, job, rendered, page>>

\* Mutant: only the text of the error is stored, not the status.
MarkError_TextOnly(j) ==
    /\ ScanGoes(j, "raised", "noted")
    /\ UNCHANGED <<state, post, job, rendered, page>>

MarkError(j) ==
    /\ ScanGoes(j, "raised", "noted")
    /\ status' = [status EXCEPT ![j] = "error"]
    /\ UNCHANGED <<state, post, error, report, done, rendered, page>>

\* Mutant: the release is in the success path and not in the finally clause.
NoteError_NoFinally(j) ==
    /\ ScanGoes(j, "noted", "ended")
    /\ error' = [error EXCEPT ![j] = TRUE]
    /\ UNCHANGED <<state, post, status, report, done, rendered, page>>

\* Mutant: the except clause falls through to the code that marks the job done.
NoteError_FallsThrough(j) ==
    /\ ScanGoes(j, "noted", "reported")
    /\ error' = [error EXCEPT ![j] = TRUE]
    /\ UNCHANGED <<state, post, status, report, done, rendered, page>>

NoteError(j) ==
    /\ ScanGoes(j, "noted", "leaving")
    /\ error' = [error EXCEPT ![j] = TRUE]
    /\ UNCHANGED <<state, post, status, report, done, rendered, page>>

\* The finally clause.
Release(j) ==
    /\ ScanGoes(j, "leaving", "ended")
    /\ running' = Released
    /\ UNCHANGED <<listed, stamp, clock, post, job, rendered, page>>

ScanStep(j) ==
    \/ Tick(j) \/ ScanReturns(j) \/ MarkDone(j)
    \/ ScanRaises(j) \/ MarkError(j) \/ NoteError(j) \/ Release(j)

-----------------------------------------------------------------------------
(* The page: poll() until the status is no longer "running", then one GET   *)
(* for each download.  Each read of the Job by its handler is a step.       *)

PageGoes(p, from, to) ==
    /\ at[p] = from
    /\ at' = [at EXCEPT ![p] = to]

Open(p) ==
    /\ PageGoes(p, "closed", "asking")
    /\ \E j \in Jobs :
          /\ post[j] = "accepted"
          /\ asked' = [asked EXCEPT ![p] = j]
    /\ UNCHANGED <<state, post, scan, job, rendered, reply, format>>

\* GET /api/scan/<id>.  A 404 has no "status": poll() goes on as if finished.
Poll(p) ==
    /\ PageGoes(p, "asking", IF asked[p] \in listed THEN "status" ELSE "broken")
    /\ UNCHANGED <<state, post, scan, job, rendered, asked, reply, format>>

ReadStatus(p) ==
    /\ PageGoes(p, "status", "done")
    /\ reply' = [reply EXCEPT ![p].status = status[asked[p]]]
    /\ UNCHANGED <<state, post, scan, job, rendered, asked, format>>

ReadDone(p) ==
    /\ PageGoes(p, "done", "error")
    /\ reply' = [reply EXCEPT ![p].done = done[asked[p]]]
    /\ UNCHANGED <<state, post, scan, job, rendered, asked, format>>

\* as_status reads the status a second time to decide whether to add the error.
ReadError(p) ==
    /\ PageGoes(p, "error", "summary")
    /\ reply' = [reply EXCEPT ![p].error =
                    status[asked[p]] = "error" /\ error[asked[p]]]
    /\ UNCHANGED <<state, post, scan, job, rendered, asked, format>>

\* The last field of the reply, and what the page does with the whole: poll
\* again, or stop.
Polled(s) ==
    CASE s = "running" -> "asking"
      [] s = "error"   -> "failed"
      [] s = "done"    -> "ready"

ReadSummary(p) ==
    /\ PageGoes(p, "summary", Polled(reply[p].status))
    /\ reply' = IF reply[p].status = "running"
                THEN [reply EXCEPT ![p] = NoReply]
                ELSE [reply EXCEPT ![p].summary = report[asked[p]]]
    /\ UNCHANGED <<state, post, scan, job, rendered, asked, format>>

Download(p) ==
    /\ at[p] \in {"ready", "gone", "conflict"}
    /\ at' = [at EXCEPT ![p] = "fetching"]
    /\ \E f \in Formats : format' = [format EXCEPT ![p] = f]
    /\ UNCHANGED <<state, post, scan, job, rendered, asked, reply>>

\* GET /api/scan/<id>/report: 404, 409, or on to _render_job.
FetchReport(p) ==
    /\ PageGoes(p, "fetching",
                CASE asked[p] \notin listed                      -> "gone"
                  [] asked[p] \in listed /\ ~report[asked[p]] -> "conflict"
                  [] asked[p] \in listed /\ report[asked[p]]  -> "cache")
    /\ UNCHANGED <<state, post, scan, job, rendered, asked, reply, format>>

ReadCache(p) ==
    /\ PageGoes(p, "cache",
                IF format[p] \in rendered[asked[p]] THEN "ready" ELSE "rendering")
    /\ UNCHANGED <<state, post, scan, job, rendered, asked, reply, format>>

StoreRendered(p) ==
    /\ PageGoes(p, "rendering", "ready")
    /\ rendered' = [rendered EXCEPT ![asked[p]] = @ \cup {format[p]}]
    /\ UNCHANGED <<state, post, scan, job, asked, reply, format>>

HandlerStep(p) ==
    \/ Poll(p) \/ ReadStatus(p) \/ ReadDone(p) \/ ReadError(p) \/ ReadSummary(p)
    \/ FetchReport(p) \/ ReadCache(p) \/ StoreRendered(p)

-----------------------------------------------------------------------------
Next ==
    \/ \E j \in Jobs : PostStep(j) \/ ScanStep(j)
    \/ \E p \in Pages : Open(p) \/ HandlerStep(p) \/ Download(p)

Spec == Init /\ [][Next]_vars

\* A thread that can run does run, and scan() ends (ScanPool's ScanEnds).  Nothing
\* obliges a client to send a request, to open a page or to click on a download.
Fairness ==
    /\ \A j \in Jobs : WF_vars(post[j] # "idle" /\ PostStep(j))
    /\ \A j \in Jobs : WF_vars(ScanStep(j))
    /\ \A p \in Pages : WF_vars(HandlerStep(p))

FairSpec == Spec /\ Fairness

-----------------------------------------------------------------------------
TypeOK ==
    /\ listed \in SUBSET Jobs
    /\ stamp \in [Jobs -> Nat]
    /\ clock \in Nat
    /\ running \in Nat
    /\ post \in [Jobs -> PostPlaces]
    /\ scan \in [Jobs -> ScanPlaces]
    /\ status \in [Jobs -> {"running", "done", "error"}]
    /\ error \in [Jobs -> BOOLEAN]
    /\ report \in [Jobs -> BOOLEAN]
    /\ done \in [Jobs -> 0..Total]
    /\ rendered \in [Jobs -> SUBSET Formats]
    /\ at \in [Pages -> PagePlaces]
    /\ asked \in [Pages -> Jobs \cup {NoJob}]
    /\ reply \in [Pages -> Replies]
    /\ format \in [Pages -> Formats \cup {"none"}]
    /\ \A p \in Pages :
          /\ at[p] # "closed" => asked[p] \in Jobs
          /\ at[p] \in {"done", "error", "summary"} => reply[p].status # "none"
          /\ at[p] \in {"fetching", "cache", "rendering"} => format[p] \in Formats

\* A request holds capacity from reserve() to the release() that answers it,
\* in the handler until the thread starts and in the thread from then on.
HoldsSlot(j) ==
    \/ post[j] \in {"reserved", "added", "unwinding"}
    \/ scan[j] \in {"scanning", "reported", "raised", "noted", "leaving"}

Holders == {j \in Jobs : HoldsSlot(j)}

\* The counter is exact: it counts the requests that hold a slot, whichever of
\* two threads gives it back and whatever failed, so no slot leaks and the
\* clamp at zero in release() never hides a second release (server.py:231-240,
\* 427-459).
SlotAccounting == running = Cardinality(Holders)

\* At most MAX_RUNNING_JOBS requests hold a slot (server.py:121-123).
ScansBounded == Cardinality(Holders) <= MaxRunning

\* A POST answered 503 leaves nothing behind: no job listed, no thread and no
\* slot (server.py:453-459).
RefusedLeavesNothing ==
    \A j \in Jobs : post[j] = "busy" =>
        j \notin listed /\ scan[j] = "none" /\ ~HoldsSlot(j)

\* What a page was told is true of the whole reply, although as_status reads
\* field by field while the scan thread writes: "done" comes with every target
\* counted and with the summary, an error never with a summary, and a page told
\* "done" is never answered 409 (server.py:175-186, 432-447, 584-592).
RepliesAreWhole ==
    \A p \in Pages :
        /\ at[p] = "ready" =>
              reply[p].done = Total /\ reply[p].summary
        /\ at[p] = "failed" => ~reply[p].summary
        /\ at[p] # "conflict"

\* A job the client was given is found until MAX_JOBS younger ones were added,
\* however adds, evictions and failed starts interleave (server.py:242-254).
KeepsNewest ==
    \A j \in Jobs :
        post[j] \in {"started", "accepted"} /\ j \notin listed =>
            Cardinality({k \in Jobs : stamp[k] > stamp[j]}) >= MaxJobs

-----------------------------------------------------------------------------
\* Every slot claimed is given back: the service is never wedged by scans that
\* raised or threads that never started (server.py:448-459).
SlotsComeBack == \A j \in Jobs : HoldsSlot(j) ~> ~HoldsSlot(j)

\* A page that polls stops polling (page.html:122-150).
PollingEnds ==
    \A p \in Pages : at[p] = "asking" ~>
        at[p] \in {"ready", "failed", "broken"}

-----------------------------------------------------------------------------
(* What the threads implement: JobService, with no counter and no threads.  *)

Phase == [j \in Jobs |-> CASE HoldsSlot(j) -> "holding"
                           [] ~HoldsSlot(j) /\ stamp[j] = 0 -> "new"
                           [] ~HoldsSlot(j) /\ stamp[j] # 0 -> "left"]
Outcome == [j \in Jobs |-> IF status[j] = "running" THEN "none" ELSE status[j]]

Service == INSTANCE JobService WITH phase <- Phase, outcome <- Outcome

\* The counter, the job list and the unlocked Job implement the promise: capacity is granted only below the ceiling and returned once, and an
\* outcome is written once, while its job still holds capacity.
ImplementsService == Service!Spec

-----------------------------------------------------------------------------
(* What the page relies on and an interleaving refutes.                     *)

\* page.html:132-135 shows the error text of a failed scan and stops polling.
ErrorHasText ==
    \A p \in Pages : at[p] = "failed" => reply[p].error
=============================================================================
