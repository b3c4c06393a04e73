----------------------------- MODULE Invocation -----------------------------
(***************************************************************************)
(* What surrounds a scan: plugins and fleet checks on its results           *)
(* (scanner.scan, plugins/runner.py), and the command line's work with the  *)
(* report (cli.main with history.py and compare.py), which the MCP server   *)
(* (mcp/server.py) runs for each call of its tool.  A command line and a    *)
(* server may keep one history file.                                        *)
(***************************************************************************)
EXTENDS ProbeRun, SequencesExt

CONSTANT MaxLines \* Bound of the model: lines the MCP server is sent.

ASSUME InvocationAssumption == MaxLines \in Nat

VARIABLES
    at,        \* where each process stands
    code,      \* how its last run of the command line ended
    findings,  \* what plugins and fleet checks left on each address, in order
    file,      \* the history: the pieces written, each with its writer
    served,    \* how many lines the server has read
    replies    \* what it answered, with the number of the line

invocation == <<at, code, findings, file, served, replies>>

Procs     == {"cli", "tool"}
Addresses == <<"a1", "a2", "b1">> \* the results, in order: two of one target, one of another
Results   == Range(Addresses)
TargetOf(a) == IF a = "b1" THEN "b" ELSE "a"

Outcomes == {"nothing", "found", "vulnerability", "undetermined", "raises", "odd_severity"}
Lines    == {"scan", "usage", "ping", "unknown", "notify", "unparsable", "too_deep"}

Unchecked == [a \in Results |-> <<>>]

OneOutcome == {o \in [Results -> Outcomes] : Cardinality({a \in Results : o[a] # "nothing"}) <= 1}

\* What may be so of a scan when its plugins run: the addresses reached, what each presents,
\* those the assessment found something on, what the plugin makes of each and the fleet
\* check of all, those that miss the profile; and what the command line was asked.
\* Bounds of the model: one address at a time has findings of its own, one misses the profile.
Estates ==
    {e \in [up : SUBSET Results, certificate : {c \in [Results -> {"c1", "c2"}] : c["a1"] = "c1"},
            assessed : {{}, {"a1"}}, outcome : OneOutcome, fleet : {"checks", "raises"},
            failing : {{}, {"a1"}, {"b1"}}, baseline : {"none", "unreadable", "empty", "clean", "shared"},
            fail_on : {"never", "high", "medium", "info"}, require : BOOLEAN] :
        /\ Cardinality({a \in Results : e.outcome[a] # "nothing"} \cup e.assessed) <= 1
        /\ e.failing \cup e.assessed \subseteq e.up}

Neighbours == [lines : UNION {[1..n -> Lines] : n \in 0..MaxLines}, writes : [Procs -> 1..2]]

-----------------------------------------------------------------------------
(* Plugins: scanner.scan after the grades.                                  *)

\* assess: the findings it leaves on a result.
Assessed(e) == [a \in Results |-> IF a \in e.assessed THEN <<"assessed">> ELSE <<>>]

\* _run_one and _record: what one outcome leaves on a result.
Recorded(e, a) ==
    CASE e.outcome[a] \in {"nothing", "odd_severity"} -> <<>>
      [] e.outcome[a] = "raises" -> <<"error">>
      [] OTHER -> <<e.outcome[a]>>

\* shared_certificate.check: the addresses that present what another target presents.
Sharing(e) ==
    {a \in e.up : \E b \in e.up : TargetOf(b) # TargetOf(a) /\ e.certificate[b] = e.certificate[a]}

\* run_fleet: the findings of each target, one for each of its addresses that shares.
FleetFindings(e, target) ==
    IF e.fleet = "raises" THEN IF target = TargetOf(Addresses[1]) THEN <<"error">> ELSE <<>>
    ELSE [n \in 1..Cardinality({a \in Sharing(e) : TargetOf(a) = target}) |-> "shared"]

\* run_plugins: a severity that is none is noticed outside of what catches errors.
Plugins ==
    /\ at["cli"] = "plugins"
    /\ IF \E a \in peer.up : peer.outcome[a] = "odd_severity"
         THEN /\ code' = [code EXCEPT !["cli"] = "raised"] /\ at' = [at EXCEPT !["cli"] = "done"]
              /\ UNCHANGED findings
         ELSE /\ findings' = [a \in Results |-> findings[a] \o IF a \in peer.up THEN Recorded(peer, a) ELSE <<>>]
              /\ at' = [at EXCEPT !["cli"] = "fleet"] /\ UNCHANGED code
    /\ UNCHANGED <<file, served, replies>>

\* _run_fleet_checks: to every result of the target, in front of what is there.
Fleet ==
    /\ at["cli"] = "fleet"
    /\ findings' = [a \in Results |-> FleetFindings(peer, TargetOf(a)) \o findings[a]]
    /\ at' = [at EXCEPT !["cli"] = "compare"]
    /\ UNCHANGED <<code, file, served, replies>>

-----------------------------------------------------------------------------
(* cli.main with a report in hand.                                          *)

\* _baseline_endpoints: the endpoints known from before, with their findings.
Before(e) ==
    CASE e.baseline = "clean"  -> [a \in Results |-> {}]
      [] e.baseline = "shared" -> [a \in Results |-> {"shared"}]
      [] OTHER -> [a \in {} |-> {}]

\* compare: an endpoint known from before that has lost its grade, as one has that is not
\* reached, or has a finding or vulnerability it had not; the grades of those that are
\* reached are taken to be what they were.
Regressed(e) == \E a \in DOMAIN Before(e) : a \notin e.up \/ Range(findings[a]) \ Before(e)[a] # {}

\* The findings at or above each limit: those of the plugin here are high, those of the
\* assessment medium, and what is undetermined, failed or shared is for information.  A
\* vulnerability is no finding.
AtOrAbove == [never |-> {}, high |-> {"found"}, medium |-> {"found", "assessed"},
              info |-> {"found", "assessed", "undetermined", "error", "shared"}]

\* _threshold_exceeded, over all the findings of every result, reached or not.
ThresholdExceeded(e) == \E a \in Results : Range(findings[a]) \cap AtOrAbove[e.fail_on] # {}

\* _profile_not_met: an address that was assessed and does not conform; one that was not
\* reached has no compliance.
ProfileNotMet(e) == e.require /\ e.failing # {}

ExitCode(e) ==
    IF e.baseline = "unreadable" THEN "2"
    ELSE IF e.up = {} \/ Regressed(e) \/ ProfileNotMet(e) \/ ThresholdExceeded(e) THEN "1" ELSE "0"

Compare ==
    /\ at["cli"] = "compare"
    /\ code' = [code EXCEPT !["cli"] = ExitCode(peer)] /\ at' = [at EXCEPT !["cli"] = "done"]
    /\ UNCHANGED <<findings, file, served, replies>>

-----------------------------------------------------------------------------
(* The history file.                                                        *)

\* A report's lines leave a buffer: all at once, or where the buffer was full.
Piece(p, n) ==
    IF peer.writes[p] = 1 THEN <<<<p, "whole">>>>
    ELSE IF n = 1 THEN <<<<p, "whole">>, <<p, "head">>>> ELSE <<<<p, "tail">>>>

\* Mutant: the file is opened for writing, not for appending.
Written_Anew(what) == what

\* history.append opens the file for appending.
Written(what) == file \o what

\* history._load: each line is a record.
Readable ==
    \A n \in DOMAIN file :
        /\ file[n][2] = "head" => n < Len(file) /\ file[n + 1] = <<file[n][1], "tail">>
        /\ file[n][2] = "tail" => n > 1 /\ file[n - 1] = <<file[n][1], "head">>

AppendHistory(p) ==
    /\ at[p] = "append"
    /\ file' = Written(Piece(p, 1))
    /\ at' = [at EXCEPT ![p] = IF peer.writes[p] = 1 THEN "trend" ELSE "flush"]
    /\ UNCHANGED <<code, findings, served, replies>>

Flush(p) ==
    /\ at[p] = "flush"
    /\ file' = Written(Piece(p, 2))
    /\ at' = [at EXCEPT ![p] = "trend"]
    /\ UNCHANGED <<code, findings, served, replies>>

\* The process is killed before its buffer is written out, or part of it.
Killed(p) ==
    /\ at[p] \in {"append", "flush"} /\ Fault
    /\ at' = [at EXCEPT ![p] = "dead"] /\ code' = [code EXCEPT ![p] = "killed"]
    /\ UNCHANGED <<findings, file, served, replies>>

\* history.trend; nothing catches what a line that is no record raises.
Trend(p) ==
    /\ at[p] = "trend"
    /\ code' = [code EXCEPT ![p] = IF Readable THEN "0" ELSE "raised"]
    /\ at' = [at EXCEPT ![p] = "done"]
    /\ UNCHANGED <<findings, file, served, replies>>

-----------------------------------------------------------------------------
(* The MCP server.                                                          *)

Answer(what) == replies' = Append(replies, [line |-> served', what |-> what])

\* serve, _handle_line and handle, for what does not run the command line; argparse
\* ends that with SystemExit, which is an exit code like any other.  A line that nests
\* too deep raises what nothing catches.
Immediate(line) ==
    CASE line = "usage"      -> Answer("exit_2")
      [] line = "ping"       -> Answer("result")
      [] line \in {"unknown", "unparsable"} -> Answer("error")
      [] line \in {"notify", "too_deep"}    -> UNCHANGED replies

ReadLine ==
    /\ at["tool"] = "idle" /\ served < Len(peer.lines)
    /\ served' = served + 1
    /\ LET line == peer.lines[served + 1] IN
       IF line = "scan"
         THEN at' = [at EXCEPT !["tool"] = "append"] /\ UNCHANGED replies
         ELSE /\ at' = [at EXCEPT !["tool"] = IF line = "too_deep" THEN "dead" ELSE "idle"]
              /\ Immediate(line)
    /\ UNCHANGED <<code, findings, file>>

\* _call_tool: a run that raised is a result, too.
Reply ==
    /\ at["tool"] = "done"
    /\ served' = served
    /\ Answer(IF code["tool"] = "raised" THEN "tool_error" ELSE "exit_0")
    /\ at' = [at EXCEPT !["tool"] = "idle"]
    /\ UNCHANGED <<code, findings, file>>

-----------------------------------------------------------------------------
InvocationIdle ==
    /\ at = [p \in Procs |-> "idle"] /\ code = [p \in Procs |-> "none"]
    /\ findings = Unchecked /\ file = <<>> /\ served = 0 /\ replies = <<>>

InvocationInit ==
    /\ \/ \E e \in Estates : Begin("estate", e, "run") /\ at = [cli |-> "plugins", tool |-> "dead"]
       \/ \E n \in Neighbours : Begin("history", n, "run") /\ at = [cli |-> "append", tool |-> "idle"]
    /\ findings = IF probe = "estate" THEN Assessed(peer) ELSE Unchecked
    /\ code = [p \in Procs |-> "none"] /\ file = <<>> /\ served = 0 /\ replies = <<>>

InvocationStep ==
    /\ probe \in {"estate", "history"}
    /\ \/ (Plugins \/ Fleet \/ Compare \/ ReadLine \/ Reply) /\ NoFault
       \/ \E p \in Procs : (AppendHistory(p) \/ Flush(p) \/ Trend(p)) /\ NoFault
       \/ \E p \in Procs : Killed(p)
    /\ UNCHANGED <<probe, peer, pc, verdict>>

-----------------------------------------------------------------------------
(* Properties.                                                              *)

InvocationTypeOK ==
    /\ at \in [Procs -> {"idle", "plugins", "fleet", "compare", "append", "flush", "trend", "done", "dead"}]
    /\ code \in [Procs -> {"none", "0", "1", "2", "raised", "killed"}]
    /\ findings \in [Results -> Seq({"assessed", "found", "vulnerability", "undetermined", "error", "shared"})]
    /\ file \in Seq(Procs \X {"whole", "head", "tail"})
    /\ served \in 0..MaxLines /\ Len(replies) <= served

Count(s, x) == Cardinality({n \in DOMAIN s : s[n] = x})

\* A plugin that raises is a finding with its result and stops nothing; but a severity that
\* is none, which it returns, ends the whole run, whatever else was found: the manual says
\* that a plugin "cannot bring the scan down" (docs/en/README.md:551-552, plugins.md:17), and
\* this one always does.  A shared certificate is told of the targets that share it and of
\* no other, once for each of their addresses that presents it, to all their addresses alike,
\* reached or not.
FindingsBelong ==
    probe = "estate" /\ code["cli"] # "none" =>
        /\ code["cli"] = "raised" <=> \E a \in peer.up : peer.outcome[a] = "odd_severity"
        /\ code["cli"] # "raised" => \A a \in Results :
              LET twins == {b \in Results : TargetOf(b) = TargetOf(a)} IN
              /\ peer.fleet = "checks" => Count(findings[a], "shared") = Cardinality(Sharing(peer) \cap twins)
              /\ a \in peer.up /\ peer.outcome[a] = "raises" => "error" \in Range(findings[a])

\* A run that was not ended early exits with zero exactly when some address was reached, no
\* address it assessed misses the required profile, no finding of the assessment, of a plugin
\* or of the fleet is at the limit, and the endpoints of the baseline are all reached, with
\* nothing new.  Without a baseline, an address that was not reached counts for nothing: the
\* manual has zero for "every target was scanned successfully" (docs/en/README.md:621-622) and
\* one "unless every endpoint conforms" (690, cli.py:479-481), and a single address does.
ExitMeansGood ==
    LET found(a) == IF a \in peer.up THEN peer.outcome[a] ELSE "nothing" IN
    probe = "estate" /\ code["cli"] \notin {"none", "raised"} =>
        /\ code["cli"] = "2" <=> peer.baseline = "unreadable"
        /\ code["cli"] = "0" <=>
              /\ peer.baseline # "unreadable" /\ peer.up # {}
              /\ peer.require => peer.failing = {}
              /\ peer.fail_on # "never" => \A a \in Results : found(a) # "found"
              /\ peer.fail_on \in {"medium", "info"} => peer.assessed = {}
              /\ peer.fail_on = "info" =>
                    /\ \A a \in Results : found(a) \notin {"undetermined", "raises"}
                    /\ peer.fleet = "checks" /\ Sharing(peer) = {}
              /\ peer.baseline \in {"clean", "shared"} =>
                    /\ peer.up = Results /\ peer.assessed = {} /\ peer.fleet = "checks"
                    /\ \A a \in Results : found(a) = "nothing"
              /\ peer.baseline = "clean" => Sharing(peer) = {}

\* A run that got through has its records in the file, in one piece, for good; the file
\* goes bad, and a run fails over it, only by a report too large for one write that a
\* crash cut short or the other process wrote into.
HistoryKept ==
    probe = "history" =>
        /\ \A p \in Procs : code[p] = "0" =>
              \E n \in DOMAIN file : IsPrefix(Piece(p, 1) \o (IF peer.writes[p] = 2 THEN Piece(p, 2) ELSE <<>>),
                                              SubSeq(file, n, Len(file)))
        /\ \A p \in Procs : code[p] = "raised" => \E q \in Procs : peer.writes[q] = 2
        /\ (\A p \in Procs : at[p] # "flush" /\ code[p] # "killed") /\ ~Readable =>
              /\ {file[n][1] : n \in DOMAIN file} = Procs
              /\ \E q \in Procs : peer.writes[q] = 2

\* Every line read is answered once, in its turn, unless it is a notification, the one
\* that is being worked on or the one that ended the server.
RepliesInOrder ==
    /\ \A i, k \in DOMAIN replies : i < k => replies[i].line < replies[k].line
    /\ probe = "history" => \A n \in 1..served :
          \/ \E i \in DOMAIN replies : replies[i].line = n
          \/ peer.lines[n] = "notify"
          \/ n = served /\ at["tool"] # "idle"

InvocationsTrue == FindingsBelong /\ ExitMeansGood /\ HistoryKept /\ RepliesInOrder
=============================================================================
