---------------------------- MODULE Audits_proofs ----------------------------
(***************************************************************************)
(* Proofs about the later stages of a scan, of Audits: what the command     *)
(* line, its plugins and the MCP server record and answer; what a grade     *)
(* and a profile's verdict rest on; and what is said of the certificates a  *)
(* server presents, whatever their order and whatever is wrong with them.   *)
(***************************************************************************)
EXTENDS Audits, TLAPS, FiniteSetTheorems, WellFoundedInduction

-----------------------------------------------------------------------------
(* Plugins, the command line and the MCP server: what they have done so far. *)

\* What the plugins, and the fleet checks after them, leave on the results.
Noted(e) == [a \in Results |-> Assessed(e)[a] \o IF a \in e.up THEN Recorded(e, a) ELSE <<>>]
Told(e)  == [a \in Results |-> FleetFindings(e, TargetOf(a)) \o Noted(e)[a]]

\* The stages of a run of the command line with a report in hand.
Gated ==
    /\ at["cli"] = "plugins" => findings = Assessed(peer) /\ code["cli"] = "none"
    /\ at["cli"] = "fleet"   => findings = Noted(peer) /\ code["cli"] = "none"
    /\ at["cli"] = "compare" => findings = Told(peer)  /\ code["cli"] = "none"
    /\ at["cli"] = "done" =>
          \/ /\ code["cli"] = "raised" /\ findings = Assessed(peer)
             /\ \E a \in peer.up : peer.outcome[a] = "odd_severity"
          \/ /\ code["cli"] = ExitCode(peer) /\ findings = Told(peer)
             /\ \A a \in peer.up : peer.outcome[a] # "odd_severity"
    /\ at["cli"] \in {"fleet", "compare"} => \A a \in peer.up : peer.outcome[a] # "odd_severity"

\* An estate that is scanned: the command line is at one of its places, and nobody serves.
EstateInv ==
    probe = "estate" =>
        /\ peer \in Estates
        /\ at["cli"] \in {"plugins", "fleet", "compare", "done"} /\ at["tool"] = "dead"
        /\ Gated
        /\ file = <<>> /\ served = 0 /\ replies = <<>>

\* A piece in the file, with its writer.
Entry(p, kind) == <<p, kind>>

\* The first piece of a report is in the file, at this place; and all of it.
Headed(p, n) ==
    /\ n \in DOMAIN file /\ file[n] = Entry(p, "whole")
    /\ peer.writes[p] = 2 => n + 1 \in DOMAIN file /\ file[n + 1] = Entry(p, "head")
Entire(p, n) ==
    /\ Headed(p, n)
    /\ peer.writes[p] = 2 => n + 2 \in DOMAIN file /\ file[n + 2] = Entry(p, "tail")

\* A file that one process alone wrote is in order but for the piece it is at.
Orderly(p) ==
    (\A n \in DOMAIN file : file[n][1] = p) /\ code[p] # "killed" =>
        /\ at[p] = "flush" => Len(file) > 0 /\ file[Len(file)] = Entry(p, "head")
        /\ \A n \in DOMAIN file :
              /\ file[n][2] = "head" => \/ n < Len(file) /\ file[n + 1] = Entry(p, "tail")
                                        \/ n = Len(file) /\ at[p] = "flush"
              /\ file[n][2] = "tail" => n > 1 /\ file[n - 1] = Entry(p, "head")

\* What is in the file, and what the processes know of it.
Recording ==
    /\ \A p \in Procs : /\ at[p] = "flush" => peer.writes[p] = 2
                        /\ at[p] \in {"flush", "trend"} => \E n \in Nat : Headed(p, n)
                        /\ code[p] = "0" => \E n \in Nat : Entire(p, n)
                        /\ code[p] = "raised" => \E q \in Procs : peer.writes[q] = 2
                        /\ code[p] = "killed" => at[p] = "dead"
                        /\ Orderly(p)
    /\ (\A p \in Procs : peer.writes[p] = 1) => \A n \in DOMAIN file : file[n][2] = "whole"

\* The places of a process that has a report to append, and of one that waits for more.
Working == {"append", "flush", "trend", "done"}

\* The answers there are.
Replies == [line : Nat, what : {"exit_0", "exit_2", "tool_error", "result", "error"}]

Unanswered(n) == \A i \in DOMAIN replies : replies[i].line # n

\* What is answered: nothing of a line that is still being worked on.
Serving ==
    /\ served <= Len(peer.lines)
    /\ \A i \in DOMAIN replies : replies[i].line \in 1..served
    /\ \A i, k \in DOMAIN replies : i < k => replies[i].line < replies[k].line
    /\ Len(replies) <= served
    /\ at["tool"] \in Working => /\ served > 0 /\ Len(replies) < served
                                 /\ Unanswered(served)
    /\ \A n \in 1..served :
          \/ ~Unanswered(n)
          \/ peer.lines[n] = "notify"
          \/ n = served /\ at["tool"] # "idle"

\* A command line and a server on one history file.
HistoryInv ==
    probe = "history" =>
        /\ peer \in Neighbours
        /\ at["cli"] \in Working \cup {"dead"} /\ at["tool"] \in Working \cup {"dead", "idle"}
        /\ findings = Unchecked
        /\ Recording /\ Serving

\* The other stages have none of it.
Elsewhere ==
    probe \notin {"estate", "history"} => InvocationIdle

\* The places and the exit codes there are.
Places == {"idle", "plugins", "fleet", "compare", "append", "flush", "trend", "done", "dead"}
Codes  == {"none", "0", "1", "2", "raised", "killed"}

\* What plugins, gates, the history file and the server know, step by step.
InvocationInv ==
    /\ at \in [Procs -> Places] /\ code \in [Procs -> Codes]
    /\ file \in Seq(Procs \X {"whole", "head", "tail"})
    /\ served \in Nat /\ replies \in Seq(Replies)
    /\ EstateInv /\ HistoryInv /\ Elsewhere

-----------------------------------------------------------------------------
(* Starting, and standing still.                                            *)

\* The lines a server is sent are few, and a report is written in one piece or two.
LEMMA NeighboursTyped ==
  ASSUME NEW n \in Neighbours
  PROVE /\ n.lines \in Seq(Lines) /\ Len(n.lines) \in Nat /\ Len(n.lines) <= MaxLines
        /\ \A p \in Procs : n.writes[p] \in {1, 2}
<1>1. n.lines \in UNION {[1..k -> Lines] : k \in 0..MaxLines} /\ n.writes \in [Procs -> 1..2]
  BY DEF Neighbours
<1>2. PICK k \in 0..MaxLines : n.lines \in [1..k -> Lines]
  BY <1>1
<1>3. k \in Nat /\ k <= MaxLines
  BY InvocationAssumption
<1>4. n.lines \in Seq(Lines) /\ Len(n.lines) = k
  BY <1>2, <1>3
<1> QED
  BY <1>1, <1>3, <1>4

\* The invariant holds as any stage begins.
LEMMA InvocationBegins ==
  Init => InvocationInv
<1> SUFFICES ASSUME Init PROVE InvocationInv
  OBVIOUS
<1>1. CASE InvocationIdle /\ probe \notin {"estate", "history"}
  <2>1. /\ at \in [Procs -> Places] /\ code \in [Procs -> Codes]
        /\ file = <<>> /\ served = 0 /\ replies = <<>>
    BY <1>1 DEF InvocationIdle, Procs, Places, Codes
  <2> QED
    BY <1>1, <2>1 DEF InvocationInv, EstateInv, HistoryInv, Elsewhere
<1>2. CASE InvocationInit
  <2>1. /\ code = [p \in Procs |-> "none"] /\ findings = IF probe = "estate" THEN Assessed(peer) ELSE Unchecked
        /\ file = <<>> /\ served = 0 /\ replies = <<>>
    BY <1>2 DEF InvocationInit
  <2>2. CASE probe = "estate" /\ peer \in Estates /\ at = [cli |-> "plugins", tool |-> "dead"]
    <3>1. at \in [Procs -> Places] /\ code \in [Procs -> Codes]
      BY <2>1, <2>2 DEF Procs, Places, Codes
    <3>2. code["cli"] = "none"
      BY <2>1 DEF Procs
    <3>3. EstateInv
      BY <2>1, <2>2, <3>2 DEF EstateInv, Gated
    <3> QED
      BY <2>1, <2>2, <3>1, <3>3 DEF InvocationInv, HistoryInv, Elsewhere
  <2>3. CASE probe = "history" /\ peer \in Neighbours /\ at = [cli |-> "append", tool |-> "idle"]
    <3>1. at \in [Procs -> Places] /\ code \in [Procs -> Codes]
      BY <2>1, <2>3 DEF Procs, Places, Codes
    <3>2. \A p \in Procs : at[p] \in {"append", "idle"} /\ code[p] = "none"
      BY <2>1, <2>3 DEF Procs
    <3>3. Recording
      BY <2>1, <3>2 DEF Recording, Orderly
    <3>4. Serving
      BY <2>1, <2>3, NeighboursTyped DEF Serving, Working, Unanswered
    <3>5. HistoryInv
      BY <2>1, <2>3, <3>3, <3>4 DEF HistoryInv, Working
    <3> QED
      BY <2>1, <2>3, <3>1, <3>5 DEF InvocationInv, EstateInv, Elsewhere
  <2> QED
    BY <1>2, <2>2, <2>3 DEF InvocationInit, Begin
<1> QED
  BY <1>1, <1>2 DEF Init, TrustInit, GradingInit, Begin

\* The other stages leave it alone.
LEMMA InvocationStays ==
  InvocationInv /\ UNCHANGED <<probe, peer, invocation>> => InvocationInv'
<1> SUFFICES ASSUME InvocationInv, UNCHANGED <<probe, peer, at, code, findings, file, served, replies>>
             PROVE InvocationInv'
  BY DEF invocation
<1>1. /\ Told(peer)' = Told(peer) /\ Noted(peer)' = Noted(peer) /\ ExitCode(peer)' = ExitCode(peer)
      /\ Assessed(peer)' = Assessed(peer)
  BY DEF Told, Noted, Assessed, ExitCode, Regressed, ThresholdExceeded
<1>2. EstateInv' <=> EstateInv
  BY <1>1 DEF EstateInv, Gated
<1>3. Recording' <=> Recording
  BY DEF Recording, Headed, Entire, Orderly
<1>4. Serving' <=> Serving
  BY DEF Serving, Unanswered
<1>5. HistoryInv' <=> HistoryInv
  BY <1>3, <1>4 DEF HistoryInv
<1>6. Elsewhere' <=> Elsewhere
  BY DEF Elsewhere, InvocationIdle
<1> QED
  BY <1>2, <1>5, <1>6 DEF InvocationInv

-----------------------------------------------------------------------------
(* Plugins and gates.                                                       *)

\* The plugins note what they find with the results that are up.
LEMMA PluginsKeep ==
  ASSUME InvocationInv, Plugins, UNCHANGED <<probe, peer>>
  PROVE InvocationInv'
<1>1. probe = "estate"
  BY DEF Plugins, InvocationInv, EstateInv, HistoryInv, Elsewhere, InvocationIdle, Working, Procs
<1>2. /\ peer \in Estates /\ at["tool"] = "dead" /\ at["cli"] = "plugins"
      /\ file = <<>> /\ served = 0 /\ replies = <<>>
      /\ findings = Assessed(peer) /\ code["cli"] = "none"
      /\ at \in [Procs -> Places] /\ code \in [Procs -> Codes]
  BY <1>1 DEF Plugins, InvocationInv, EstateInv, Gated
<1>3. UNCHANGED <<file, served, replies>>
  BY DEF Plugins
<1>4. /\ at' \in [Procs -> Places] /\ code' \in [Procs -> Codes] /\ at'["tool"] = "dead"
      /\ Gated' /\ at'["cli"] \in {"fleet", "done"}
  <2>1. CASE \E a \in peer.up : peer.outcome[a] = "odd_severity"
    BY <1>2, <2>1 DEF Plugins, Gated, Procs, Places, Codes
  <2>2. CASE ~\E a \in peer.up : peer.outcome[a] = "odd_severity"
    BY <1>2, <2>2 DEF Plugins, Gated, Procs, Places, Codes, Noted
  <2> QED
    BY <2>1, <2>2
<1>5. EstateInv'
  BY <1>1, <1>2, <1>3, <1>4 DEF EstateInv
<1> QED
  BY <1>1, <1>2, <1>3, <1>4, <1>5 DEF InvocationInv, HistoryInv, Elsewhere

\* The fleet checks add what results share, or raise and end the run.
LEMMA FleetKeeps ==
  ASSUME InvocationInv, Fleet, UNCHANGED <<probe, peer>>
  PROVE InvocationInv'
<1>1. probe = "estate"
  BY DEF Fleet, InvocationInv, EstateInv, HistoryInv, Elsewhere, InvocationIdle, Working, Procs
<1>2. /\ peer \in Estates /\ at["tool"] = "dead" /\ at["cli"] = "fleet"
      /\ file = <<>> /\ served = 0 /\ replies = <<>>
      /\ findings = Noted(peer) /\ code["cli"] = "none"
      /\ \A a \in peer.up : peer.outcome[a] # "odd_severity"
      /\ at \in [Procs -> Places] /\ code \in [Procs -> Codes]
  BY <1>1 DEF Fleet, InvocationInv, EstateInv, Gated
<1>3. UNCHANGED <<code, file, served, replies>> /\ at' = [at EXCEPT !["cli"] = "compare"]
  BY DEF Fleet
<1>4. findings' = Told(peer)
  BY <1>2 DEF Fleet, Told
<1>5. at' \in [Procs -> Places] /\ at'["tool"] = "dead" /\ at'["cli"] = "compare"
  BY <1>2, <1>3 DEF Procs, Places
<1>6. Told(peer)' = Told(peer)
  BY DEF Told, Noted
<1>7. Gated'
  BY <1>2, <1>3, <1>4, <1>5, <1>6 DEF Gated
<1>8. EstateInv'
  BY <1>1, <1>2, <1>3, <1>5, <1>7 DEF EstateInv
<1> QED
  BY <1>1, <1>2, <1>3, <1>5, <1>8 DEF InvocationInv, HistoryInv, Elsewhere

\* The codes the gates end a run with.
LEMMA ExitCodes ==
  ExitCode(peer) \in {"0", "1", "2"}
BY DEF ExitCode

\* The run is compared with the baseline and ends.
LEMMA CompareKeeps ==
  ASSUME InvocationInv, Compare, UNCHANGED <<probe, peer>>
  PROVE InvocationInv'
<1>1. probe = "estate"
  BY DEF Compare, InvocationInv, EstateInv, HistoryInv, Elsewhere, InvocationIdle, Working, Procs
<1>2. /\ peer \in Estates /\ at["tool"] = "dead" /\ at["cli"] = "compare"
      /\ file = <<>> /\ served = 0 /\ replies = <<>>
      /\ findings = Told(peer) /\ code["cli"] = "none"
      /\ \A a \in peer.up : peer.outcome[a] # "odd_severity"
      /\ at \in [Procs -> Places] /\ code \in [Procs -> Codes]
  BY <1>1 DEF Compare, InvocationInv, EstateInv, Gated
<1>3. /\ UNCHANGED <<findings, file, served, replies>>
      /\ at' = [at EXCEPT !["cli"] = "done"] /\ code' = [code EXCEPT !["cli"] = ExitCode(peer)]
  BY DEF Compare
<1>4. /\ at' \in [Procs -> Places] /\ at'["tool"] = "dead" /\ at'["cli"] = "done"
      /\ code' \in [Procs -> Codes] /\ code'["cli"] = ExitCode(peer)
  BY <1>2, <1>3, ExitCodes DEF Procs, Places, Codes
<1>5. ExitCode(peer)' = ExitCode(peer) /\ Told(peer)' = Told(peer)
  BY <1>3 DEF ExitCode, Regressed, ThresholdExceeded, Told, Noted
<1>7. Gated'
  BY <1>2, <1>3, <1>4, <1>5 DEF Gated
<1>8. EstateInv'
  BY <1>1, <1>2, <1>3, <1>4, <1>7 DEF EstateInv
<1> QED
  BY <1>1, <1>2, <1>3, <1>4, <1>8 DEF InvocationInv, HistoryInv, Elsewhere

-----------------------------------------------------------------------------
(* The history file.                                                        *)

\* What the file is written with.
Entries == Procs \X {"whole", "head", "tail"}

\* A piece of a report, with who wrote it.
LEMMA EntryIs ==
  ASSUME NEW p \in Procs, NEW kind \in {"whole", "head", "tail"}
  PROVE /\ Entry(p, kind) \in Entries
        /\ Entry(p, kind)[1] = p /\ Entry(p, kind)[2] = kind
BY DEF Entry, Entries

\* What the file is written with.
LEMMA PieceIs ==
  ASSUME NEW p \in Procs
  PROVE /\ peer.writes[p] = 1 => Piece(p, 1) = <<Entry(p, "whole")>>
        /\ peer.writes[p] = 2 => /\ Piece(p, 1) = <<Entry(p, "whole"), Entry(p, "head")>>
                                 /\ Piece(p, 2) = <<Entry(p, "tail")>>
BY DEF Piece, Entry

\* The file grows by k entries: what was in it stays where it was.
Grew(k) ==
    /\ Len(file) \in Nat /\ DOMAIN file = 1..Len(file)
    /\ file' \in Seq(Entries) /\ Len(file') = Len(file) + k /\ DOMAIN file' = 1..(Len(file) + k)
    /\ \A n \in 1..Len(file) : file'[n] = file[n]

\* The file with one piece more.
LEMMA GrowsByOne ==
  ASSUME file \in Seq(Entries), NEW e \in Entries, file' = Written(<<e>>)
  PROVE Grew(1) /\ file'[Len(file) + 1] = e
BY DEF Grew, Written

\* The file with two pieces more.
LEMMA GrowsByTwo ==
  ASSUME file \in Seq(Entries), NEW e \in Entries, NEW f \in Entries, file' = Written(<<e, f>>)
  PROVE Grew(2) /\ file'[Len(file) + 1] = e /\ file'[Len(file) + 2] = f
BY DEF Grew, Written

\* What is in the file already stays in it, and stays in order.
LEMMA HeadedStays ==
  ASSUME NEW k \in Nat, Grew(k), UNCHANGED peer, NEW p \in Procs, NEW n \in Nat
  PROVE (Headed(p, n) => Headed(p, n)') /\ (Entire(p, n) => Entire(p, n)')
BY DEF Grew, Headed, Entire

\* A process that has a history file at hand.
Historic ==
    /\ probe = "history" /\ peer \in Neighbours /\ findings = Unchecked
    /\ at \in [Procs -> Places] /\ code \in [Procs -> Codes]
    /\ file \in Seq(Entries)
    /\ served \in Nat /\ replies \in Seq(Replies)
    /\ Recording /\ Serving
    /\ at["cli"] \in Working \cup {"dead"} /\ at["tool"] \in Working \cup {"dead", "idle"}
    /\ \A p \in Procs : peer.writes[p] \in {1, 2}

\* The invariant, of a history file that is shared.
LEMMA HistoricIs ==
  /\ InvocationInv /\ probe = "history" => Historic
  /\ Historic => InvocationInv
  /\ Historic' => InvocationInv'
BY NeighboursTyped DEF InvocationInv, Historic, EstateInv, HistoryInv, Elsewhere, Entries

\* Whoever writes, reads or serves does it in a shared history.
LEMMA InHistory ==
  ASSUME InvocationInv, probe \in {"estate", "history"},
         NEW p \in Procs, at[p] \in {"append", "flush", "trend", "idle"} \/ (p = "tool" /\ at[p] = "done")
  PROVE Historic
<1>1. probe # "estate"
  BY DEF InvocationInv, EstateInv, Procs
<1> QED
  BY <1>1, HistoricIs

\* Where a process goes that is not the server leaving a line, what is answered is not
\* touched.
LEMMA ServingKept ==
  ASSUME Serving, UNCHANGED <<peer, served, replies>>, at["tool"] \in Working \/ at'["tool"] = at["tool"],
         at'["tool"] # "idle" \/ at["tool"] = "idle", at'["tool"] \in Working => at["tool"] \in Working
  PROVE Serving'
BY DEF Serving, Unanswered, Working

\* What a process of which a piece is written leaves alone.
LEMMA RecordingKept ==
  ASSUME Historic, UNCHANGED <<peer, code>>, NEW p \in Procs, NEW k \in Nat, Grew(k), k > 0,
         file'[Len(file) + 1][1] = p, at[p] \in {"append", "flush"},
         \A q \in Procs \ {p} : at'[q] = at[q],
         at'[p] = "flush" => peer.writes[p] = 2,
         at'[p] \in {"flush", "trend"}, \E n \in Nat : Headed(p, n)',
         Orderly(p)',
         (\A q \in Procs : peer.writes[q] = 1) => \A n \in DOMAIN file' : file'[n][2] = "whole"
  PROVE Recording'
<1>1. Recording
  BY DEF Historic
<1>2. ASSUME NEW q \in Procs
      PROVE /\ at'[q] = "flush" => peer.writes[q] = 2
            /\ code[q] = "raised" => \E r \in Procs : peer.writes[r] = 2
            /\ code[q] = "killed" => at'[q] = "dead"
  BY <1>1 DEF Recording
<1>3. ASSUME NEW q \in Procs, at'[q] \in {"flush", "trend"} PROVE \E n \in Nat : Headed(q, n)'
  <2>1. CASE q = p
    BY <2>1
  <2>2. CASE q # p
    <3>1. PICK n \in Nat : Headed(q, n)
      BY <1>1, <1>3, <2>2 DEF Recording
    <3> QED
      BY <3>1, HeadedStays
  <2> QED
    BY <2>1, <2>2
<1>4. ASSUME NEW q \in Procs, code[q] = "0" PROVE \E n \in Nat : Entire(q, n)'
  <2>1. PICK n \in Nat : Entire(q, n)
    BY <1>1, <1>4 DEF Recording
  <2> QED
    BY <2>1, HeadedStays
<1>5. ASSUME NEW q \in Procs PROVE Orderly(q)'
  <2>1. CASE q = p
    BY <2>1
  <2>2. CASE q # p
    <3>1. Len(file) + 1 \in DOMAIN file'
      BY DEF Grew
    <3> QED
      BY <2>2, <3>1 DEF Orderly
  <2> QED
    BY <2>1, <2>2
<1> QED
  BY <1>2, <1>3, <1>4, <1>5 DEF Recording

\* A report begins to be written.
LEMMA AppendKeeps ==
  ASSUME InvocationInv, probe \in {"estate", "history"}, UNCHANGED <<probe, peer>>,
         NEW p \in Procs, AppendHistory(p)
  PROVE InvocationInv'
<1>1. Historic /\ at[p] = "append" /\ peer.writes[p] \in {1, 2} /\ file \in Seq(Entries)
  BY InHistory DEF AppendHistory, Historic
<1>2. /\ file' = Written(Piece(p, 1)) /\ UNCHANGED <<code, findings, served, replies>>
      /\ at' = [at EXCEPT ![p] = IF peer.writes[p] = 1 THEN "trend" ELSE "flush"]
  BY DEF AppendHistory
<1>3. /\ at' \in [Procs -> Places] /\ at'[p] = IF peer.writes[p] = 1 THEN "trend" ELSE "flush"
      /\ \A q \in Procs \ {p} : at'[q] = at[q]
  BY <1>1, <1>2 DEF Historic, Places
<1>4. PICK m \in Nat : m = Len(file) /\ DOMAIN file = 1..m
  BY <1>1
<1>5. ASSUME \A n \in DOMAIN file : file[n][1] = p, code[p] # "killed"
      PROVE \A n \in DOMAIN file :
               /\ file[n][2] = "head" => n < Len(file) /\ file[n + 1] = Entry(p, "tail")
               /\ file[n][2] = "tail" => n > 1 /\ file[n - 1] = Entry(p, "head")
  BY <1>1, <1>5 DEF Historic, Recording, Orderly
<1>6. ASSUME peer.writes[p] = 1 PROVE file' \in Seq(Entries) /\ Recording'
  <2>1. Grew(1) /\ file'[m + 1] = Entry(p, "whole")
    BY <1>1, <1>2, <1>4, <1>6, PieceIs, EntryIs, GrowsByOne
  <2>2. /\ DOMAIN file' = 1..(m + 1) /\ Len(file') = m + 1
        /\ \A n \in DOMAIN file : file'[n] = file[n] /\ n \in DOMAIN file'
        /\ \A n \in DOMAIN file' : n \in DOMAIN file \/ n = m + 1
    BY <1>4, <2>1 DEF Grew
  <2>3. file'[m + 1][1] = p /\ file'[m + 1][2] = "whole"
    BY <2>1, EntryIs
  <2>4. Headed(p, m + 1)'
    BY <1>4, <1>6, <2>1, <2>2 DEF Headed
  <2>5. at'[p] = "trend"
    BY <1>3, <1>6
  <2>6. Orderly(p)'
    <3>1. SUFFICES ASSUME \A n \in DOMAIN file' : file'[n][1] = p, code[p] # "killed", NEW n \in DOMAIN file'
          PROVE /\ file'[n][2] = "head" => n < Len(file') /\ file'[n + 1] = Entry(p, "tail")
                /\ file'[n][2] = "tail" => n > 1 /\ file'[n - 1] = Entry(p, "head")
      BY <1>2, <2>5 DEF Orderly
    <3>2. CASE n = m + 1
      BY <2>3, <3>2
    <3>3. CASE n \in DOMAIN file
      <4>1. \A k \in DOMAIN file : file[k][1] = p
        BY <2>2, <3>1
      <4>2. /\ file[n][2] = "head" => n < m /\ file[n + 1] = Entry(p, "tail")
            /\ file[n][2] = "tail" => n > 1 /\ file[n - 1] = Entry(p, "head")
        BY <1>4, <1>5, <3>1, <3>3, <4>1
      <4>3. /\ file'[n] = file[n] /\ (n < m => file'[n + 1] = file[n + 1])
            /\ (n > 1 => file'[n - 1] = file[n - 1])
        BY <1>4, <2>2, <3>3
      <4>4. n < m => n < Len(file')
        BY <1>4, <2>2, <3>3
      <4> QED
        BY <4>2, <4>3, <4>4
    <3> QED
      BY <2>2, <3>2, <3>3
  <2>7. (\A q \in Procs : peer.writes[q] = 1) => \A n \in DOMAIN file' : file'[n][2] = "whole"
    BY <1>1, <2>2, <2>3 DEF Historic, Recording
  <2>8. Recording'
    BY <1>1, <1>2, <1>3, <1>4, <2>1, <2>3, <2>4, <2>5, <2>6, <2>7, RecordingKept
  <2> QED
    BY <2>1, <2>8 DEF Grew
<1>7. ASSUME peer.writes[p] = 2 PROVE file' \in Seq(Entries) /\ Recording'
  <2>1. Grew(2) /\ file'[m + 1] = Entry(p, "whole") /\ file'[m + 2] = Entry(p, "head")
    BY <1>1, <1>2, <1>4, <1>7, PieceIs, EntryIs, GrowsByTwo
  <2>2. /\ DOMAIN file' = 1..(m + 2) /\ Len(file') = m + 2
        /\ \A n \in DOMAIN file : file'[n] = file[n] /\ n \in DOMAIN file'
        /\ \A n \in DOMAIN file' : n \in DOMAIN file \/ n = m + 1 \/ n = m + 2
    BY <1>4, <2>1 DEF Grew
  <2>3. file'[m + 1][1] = p /\ file'[m + 1][2] = "whole" /\ file'[m + 2][2] = "head"
    BY <2>1, EntryIs
  <2>4. Headed(p, m + 1)'
    BY <1>4, <1>7, <2>1, <2>2 DEF Headed
  <2>5. at'[p] = "flush"
    BY <1>3, <1>7
  <2>6. Orderly(p)'
    <3>1. SUFFICES ASSUME \A n \in DOMAIN file' : file'[n][1] = p, code[p] # "killed", NEW n \in DOMAIN file'
          PROVE /\ file'[n][2] = "head" => \/ n < Len(file') /\ file'[n + 1] = Entry(p, "tail")
                                           \/ n = Len(file')
                /\ file'[n][2] = "tail" => n > 1 /\ file'[n - 1] = Entry(p, "head")
      <4>1. Len(file') > 0 /\ file'[Len(file')] = Entry(p, "head")
        BY <2>1, <2>2
      <4> QED
        BY <1>2, <2>5, <4>1 DEF Orderly
    <3>2. CASE n \in {m + 1, m + 2}
      BY <2>2, <2>3, <3>2
    <3>3. CASE n \in DOMAIN file
      <4>1. \A k \in DOMAIN file : file[k][1] = p
        BY <2>2, <3>1
      <4>2. /\ file[n][2] = "head" => n < m /\ file[n + 1] = Entry(p, "tail")
            /\ file[n][2] = "tail" => n > 1 /\ file[n - 1] = Entry(p, "head")
        BY <1>4, <1>5, <3>1, <3>3, <4>1
      <4>3. /\ file'[n] = file[n] /\ (n < m => file'[n + 1] = file[n + 1])
            /\ (n > 1 => file'[n - 1] = file[n - 1])
        BY <1>4, <2>2, <3>3
      <4>4. n < m => n < Len(file')
        BY <1>4, <2>2, <3>3
      <4> QED
        BY <4>2, <4>3, <4>4
    <3> QED
      BY <2>2, <3>2, <3>3
  <2>8. Recording'
    BY <1>1, <1>2, <1>3, <1>4, <1>7, <2>1, <2>3, <2>4, <2>5, <2>6, RecordingKept
  <2> QED
    BY <2>1, <2>8 DEF Grew
<1>8. file' \in Seq(Entries) /\ Recording'
  BY <1>1, <1>6, <1>7
<1>9. Serving'
  BY <1>1, <1>2, <1>3, ServingKept DEF Historic, Working, Procs
<1>10. Historic'
  BY <1>1, <1>2, <1>3, <1>8, <1>9 DEF Historic, Working, Procs
<1> QED
  BY <1>10, HistoricIs

\* The rest of a report is written.
LEMMA FlushKeeps ==
  ASSUME InvocationInv, probe \in {"estate", "history"}, UNCHANGED <<probe, peer>>,
         NEW p \in Procs, Flush(p)
  PROVE InvocationInv'
<1>1. Historic /\ at[p] = "flush" /\ peer.writes[p] = 2 /\ file \in Seq(Entries)
  BY InHistory DEF Flush, Historic, Recording
<1>2. /\ file' = Written(Piece(p, 2)) /\ UNCHANGED <<code, findings, served, replies>>
      /\ at' = [at EXCEPT ![p] = "trend"]
  BY DEF Flush
<1>3. /\ at' \in [Procs -> Places] /\ at'[p] = "trend"
      /\ \A q \in Procs \ {p} : at'[q] = at[q]
  BY <1>1, <1>2 DEF Historic, Places
<1>4. PICK m \in Nat : m = Len(file) /\ DOMAIN file = 1..m
  BY <1>1
<1>5. Grew(1) /\ file'[m + 1] = Entry(p, "tail")
  BY <1>1, <1>2, <1>4, PieceIs, EntryIs, GrowsByOne
<1>6. /\ DOMAIN file' = 1..(m + 1) /\ Len(file') = m + 1
      /\ \A n \in DOMAIN file : file'[n] = file[n] /\ n \in DOMAIN file'
      /\ \A n \in DOMAIN file' : n \in DOMAIN file \/ n = m + 1
  BY <1>4, <1>5 DEF Grew
<1>7. file'[m + 1][1] = p /\ file'[m + 1][2] = "tail"
  BY <1>5, EntryIs
<1>8. Orderly(p)'
  <2>1. SUFFICES ASSUME \A n \in DOMAIN file' : file'[n][1] = p, code[p] # "killed", NEW n \in DOMAIN file'
        PROVE /\ file'[n][2] = "head" => n < Len(file') /\ file'[n + 1] = Entry(p, "tail")
              /\ file'[n][2] = "tail" => n > 1 /\ file'[n - 1] = Entry(p, "head")
    BY <1>2, <1>3 DEF Orderly
  <2>2. \A k \in DOMAIN file : file[k][1] = p
    BY <1>6, <2>1
  <2>3. /\ m > 0 /\ file[m] = Entry(p, "head")
        /\ \A k \in DOMAIN file :
              /\ file[k][2] = "head" => (k < m /\ file[k + 1] = Entry(p, "tail")) \/ k = m
              /\ file[k][2] = "tail" => k > 1 /\ file[k - 1] = Entry(p, "head")
    BY <1>1, <1>4, <2>1, <2>2 DEF Historic, Recording, Orderly
  <2>4. CASE n = m + 1
    <3>1. m \in DOMAIN file /\ n - 1 = m /\ n > 1
      BY <1>4, <2>3, <2>4
    <3>2. file'[n - 1] = Entry(p, "head")
      BY <1>6, <2>3, <3>1
    <3> QED
      BY <1>7, <2>4, <3>1, <3>2
  <2>5. CASE n = m /\ n \in DOMAIN file /\ file[n][2] = "head"
    <3>1. n < Len(file') /\ file'[n + 1] = Entry(p, "tail")
      BY <1>5, <1>6, <2>5
    <3> QED
      BY <1>6, <2>5, <3>1
  <2>6. CASE n \in DOMAIN file /\ ~(n = m /\ file[n][2] = "head")
    <3>1. /\ file[n][2] = "head" => n < m /\ file[n + 1] = Entry(p, "tail")
          /\ file[n][2] = "tail" => n > 1 /\ file[n - 1] = Entry(p, "head")
      BY <2>3, <2>6
    <3>2. /\ file'[n] = file[n] /\ (n < m => file'[n + 1] = file[n + 1])
          /\ (n > 1 => file'[n - 1] = file[n - 1])
      BY <1>4, <1>6, <2>6
    <3>3. n < m => n < Len(file')
      BY <1>4, <1>6, <2>6
    <3> QED
      BY <3>1, <3>2, <3>3
  <2> QED
    BY <1>6, <2>4, <2>5, <2>6
<1>9. \E n \in Nat : Headed(p, n)'
  <2>1. PICK n \in Nat : Headed(p, n)
    BY <1>1 DEF Historic, Recording
  <2> QED
    BY <1>5, <2>1, HeadedStays
<1>10. Recording'
  BY <1>1, <1>2, <1>3, <1>4, <1>5, <1>7, <1>8, <1>9, RecordingKept
<1>11. Serving'
  BY <1>1, <1>2, <1>3, ServingKept DEF Historic, Working, Procs
<1>12. Historic'
  BY <1>1, <1>2, <1>3, <1>5, <1>10, <1>11 DEF Historic, Working, Procs, Grew
<1> QED
  BY <1>12, HistoricIs

\* A process is killed while it writes.
LEMMA KilledKeeps ==
  ASSUME InvocationInv, probe \in {"estate", "history"}, UNCHANGED <<probe, peer>>,
         NEW p \in Procs, Killed(p)
  PROVE InvocationInv'
<1>1. Historic /\ at[p] \in {"append", "flush"}
  BY InHistory DEF Killed
<1>2. /\ UNCHANGED <<findings, file, served, replies>>
      /\ at' = [at EXCEPT ![p] = "dead"] /\ code' = [code EXCEPT ![p] = "killed"]
  BY DEF Killed
<1>3. /\ at' \in [Procs -> Places] /\ at'[p] = "dead" /\ code' \in [Procs -> Codes] /\ code'[p] = "killed"
      /\ \A q \in Procs \ {p} : at'[q] = at[q] /\ code'[q] = code[q]
  BY <1>1, <1>2 DEF Historic, Places, Codes
<1>4. \A q \in Procs, n \in Nat : (Headed(q, n)' <=> Headed(q, n)) /\ (Entire(q, n)' <=> Entire(q, n))
  BY <1>2 DEF Headed, Entire
<1>5. Recording
  BY <1>1 DEF Historic
<1>6. ASSUME NEW q \in Procs PROVE Orderly(q)'
  <2>1. CASE q = p
    BY <1>3, <2>1 DEF Orderly
  <2>2. CASE q # p
    BY <1>2, <1>3, <1>5, <2>2 DEF Orderly, Recording
  <2> QED
    BY <2>1, <2>2
<1>7. ASSUME NEW q \in Procs
      PROVE /\ at'[q] = "flush" => peer.writes[q] = 2
            /\ at'[q] \in {"flush", "trend"} => \E n \in Nat : Headed(q, n)'
            /\ code'[q] = "0" => \E n \in Nat : Entire(q, n)'
            /\ code'[q] = "raised" => \E r \in Procs : peer.writes[r] = 2
            /\ code'[q] = "killed" => at'[q] = "dead"
  BY <1>3, <1>4, <1>5 DEF Recording
<1>8. Recording'
  BY <1>2, <1>5, <1>6, <1>7 DEF Recording
<1>9. Serving'
  BY <1>1, <1>2, <1>3, ServingKept DEF Historic, Working, Procs
<1>10. Historic'
  BY <1>1, <1>2, <1>3, <1>8, <1>9 DEF Historic, Working, Procs
<1> QED
  BY <1>10, HistoricIs

\* What makes a file unreadable: a report in two pieces.
LEMMA Unreadable ==
  ASSUME Historic, \A p \in Procs : peer.writes[p] = 1
  PROVE Readable
BY DEF Historic, Recording, Readable

\* The history is read back after a report was written.
LEMMA TrendKeeps ==
  ASSUME InvocationInv, probe \in {"estate", "history"}, UNCHANGED <<probe, peer>>,
         NEW p \in Procs, Trend(p)
  PROVE InvocationInv'
<1>1. Historic /\ at[p] = "trend"
  BY InHistory DEF Trend
<1>2. /\ UNCHANGED <<findings, file, served, replies>>
      /\ at' = [at EXCEPT ![p] = "done"] /\ code' = [code EXCEPT ![p] = IF Readable THEN "0" ELSE "raised"]
  BY DEF Trend
<1>3. /\ at' \in [Procs -> Places] /\ at'[p] = "done"
      /\ code' \in [Procs -> Codes] /\ code'[p] = IF Readable THEN "0" ELSE "raised"
      /\ \A q \in Procs \ {p} : at'[q] = at[q] /\ code'[q] = code[q]
  BY <1>1, <1>2 DEF Historic, Places, Codes
<1>4. \A q \in Procs, n \in Nat : (Headed(q, n)' <=> Headed(q, n)) /\ (Entire(q, n)' <=> Entire(q, n))
  BY <1>2 DEF Headed, Entire
<1>5. Recording /\ file \in Seq(Entries) /\ \A q \in Procs : peer.writes[q] \in {1, 2}
  BY <1>1 DEF Historic
<1>6. ASSUME NEW q \in Procs PROVE Orderly(q)'
  <2>1. CASE q = p
    <3>1. code[p] # "killed"
      BY <1>1, <1>5 DEF Recording
    <3> QED
      BY <1>1, <1>2, <1>3, <1>5, <2>1, <3>1 DEF Orderly, Recording
  <2>2. CASE q # p
    BY <1>2, <1>3, <1>5, <2>2 DEF Orderly, Recording
  <2> QED
    BY <2>1, <2>2
<1>7. ASSUME Readable PROVE \E n \in Nat : Entire(p, n)'
  <2>1. PICK n \in Nat : Headed(p, n)
    BY <1>1, <1>5 DEF Recording
  <2>2. CASE peer.writes[p] # 2
    BY <1>4, <2>1, <2>2 DEF Entire
  <2>3. CASE peer.writes[p] = 2
    <3>1. n + 1 \in DOMAIN file /\ file[n + 1] = Entry(p, "head")
      BY <2>1, <2>3 DEF Headed
    <3>2. file[n + 1][1] = p /\ file[n + 1][2] = "head"
      BY <3>1, EntryIs
    <3>3. n + 1 < Len(file) /\ file[n + 1 + 1] = Entry(p, "tail")
      BY <1>7, <3>1, <3>2 DEF Readable, Entry
    <3>4. n + 2 \in DOMAIN file /\ file[n + 2] = Entry(p, "tail")
      BY <1>5, <3>1, <3>3
    <3> QED
      BY <1>4, <2>1, <3>4 DEF Entire
  <2> QED
    BY <2>2, <2>3
<1>8. ASSUME ~Readable PROVE \E r \in Procs : peer.writes[r] = 2
  BY <1>1, <1>5, <1>8, Unreadable
<1>9. ASSUME NEW q \in Procs
      PROVE /\ at'[q] = "flush" => peer.writes[q] = 2
            /\ at'[q] \in {"flush", "trend"} => \E n \in Nat : Headed(q, n)'
            /\ code'[q] = "0" => \E n \in Nat : Entire(q, n)'
            /\ code'[q] = "raised" => \E r \in Procs : peer.writes[r] = 2
            /\ code'[q] = "killed" => at'[q] = "dead"
  <2>1. CASE q = p
    BY <1>3, <1>7, <1>8, <2>1
  <2>2. CASE q # p
    BY <1>3, <1>4, <1>5, <2>2 DEF Recording
  <2> QED
    BY <2>1, <2>2
<1>10. Recording'
  BY <1>2, <1>5, <1>6, <1>9 DEF Recording
<1>11. Serving'
  BY <1>1, <1>2, <1>3, ServingKept DEF Historic, Working, Procs
<1>12. Historic'
  BY <1>1, <1>2, <1>3, <1>10, <1>11 DEF Historic, Working, Procs
<1> QED
  BY <1>12, HistoricIs

-----------------------------------------------------------------------------
(* The MCP server.                                                          *)

\* A process that neither writes nor reads the file leaves what is known of it alone.
LEMMA RecordingAside ==
  ASSUME Historic, UNCHANGED <<peer, code, file>>, NEW p \in Procs, at[p] \in {"idle", "done"},
         at'[p] \in {"append", "idle", "dead"}, \A q \in Procs \ {p} : at'[q] = at[q]
  PROVE Recording'
<1>1. Recording
  BY DEF Historic
<1>2. \A q \in Procs, n \in Nat : (Headed(q, n)' <=> Headed(q, n)) /\ (Entire(q, n)' <=> Entire(q, n))
  BY DEF Headed, Entire
<1>3. ASSUME NEW q \in Procs PROVE Orderly(q)'
  <2>1. CASE q = p
    BY <1>1, <2>1 DEF Orderly, Recording
  <2>2. CASE q # p
    BY <1>1, <2>2 DEF Orderly, Recording
  <2> QED
    BY <2>1, <2>2
<1>4. ASSUME NEW q \in Procs
      PROVE /\ at'[q] = "flush" => peer.writes[q] = 2
            /\ at'[q] \in {"flush", "trend"} => \E n \in Nat : Headed(q, n)'
            /\ code[q] = "0" => \E n \in Nat : Entire(q, n)'
            /\ code[q] = "raised" => \E r \in Procs : peer.writes[r] = 2
            /\ code[q] = "killed" => at'[q] = "dead"
  BY <1>1, <1>2 DEF Recording
<1> QED
  BY <1>1, <1>3, <1>4 DEF Recording

\* One answer more, to the line that was read last.
Answers1 == \E r \in Replies : r.line = served' /\ replies' = Append(replies, r)

\* Whatever is answered, it is one answer more.
LEMMA AnswersIs ==
  ASSUME served' \in Nat
  PROVE /\ Answer("exit_0") => Answers1
        /\ Answer("exit_2") => Answers1
        /\ Answer("tool_error") => Answers1
        /\ Answer("result") => Answers1
        /\ Answer("error") => Answers1
<1>1. Answer("exit_0") => Answers1
  <2>1. [line |-> served', what |-> "exit_0"] \in Replies
    BY DEF Replies
  <2>2. [line |-> served', what |-> "exit_0"].line = served'
    OBVIOUS
  <2> QED
    BY <2>1, <2>2 DEF Answer, Answers1
<1>2. Answer("exit_2") => Answers1
  <2>1. [line |-> served', what |-> "exit_2"] \in Replies
    BY DEF Replies
  <2>2. [line |-> served', what |-> "exit_2"].line = served'
    OBVIOUS
  <2> QED
    BY <2>1, <2>2 DEF Answer, Answers1
<1>3. Answer("tool_error") => Answers1
  <2>1. [line |-> served', what |-> "tool_error"] \in Replies
    BY DEF Replies
  <2>2. [line |-> served', what |-> "tool_error"].line = served'
    OBVIOUS
  <2> QED
    BY <2>1, <2>2 DEF Answer, Answers1
<1>4. Answer("result") => Answers1
  <2>1. [line |-> served', what |-> "result"] \in Replies
    BY DEF Replies
  <2>2. [line |-> served', what |-> "result"].line = served'
    OBVIOUS
  <2> QED
    BY <2>1, <2>2 DEF Answer, Answers1
<1>5. Answer("error") => Answers1
  <2>1. [line |-> served', what |-> "error"] \in Replies
    BY DEF Replies
  <2>2. [line |-> served', what |-> "error"].line = served'
    OBVIOUS
  <2> QED
    BY <2>1, <2>2 DEF Answer, Answers1
<1> QED
  BY <1>1, <1>2, <1>3, <1>4, <1>5

\* It comes last, and is to the line that was read last.
LEMMA Answered ==
  ASSUME replies \in Seq(Replies), served' \in Nat, Answers1
  PROVE /\ replies' \in Seq(Replies) /\ Len(replies') = Len(replies) + 1
        /\ \A i \in DOMAIN replies : i \in DOMAIN replies' /\ replies'[i] = replies[i]
        /\ Len(replies') \in DOMAIN replies' /\ replies'[Len(replies')].line = served'
        /\ \A i \in DOMAIN replies' : i \in DOMAIN replies \/ i = Len(replies')
<1>1. PICK r \in Replies : r.line = served' /\ replies' = Append(replies, r)
  BY DEF Answers1
<1>3. /\ replies' \in Seq(Replies) /\ Len(replies') = Len(replies) + 1
      /\ \A i \in DOMAIN replies : i \in DOMAIN replies' /\ replies'[i] = replies[i]
      /\ replies'[Len(replies) + 1] = r
      /\ DOMAIN replies = 1..Len(replies) /\ DOMAIN replies' = 1..(Len(replies) + 1) /\ Len(replies) \in Nat
  BY <1>1
<1>4. Len(replies') \in DOMAIN replies' /\ replies'[Len(replies')] = r
  BY <1>3
<1>5. \A i \in DOMAIN replies' : i \in DOMAIN replies \/ i = Len(replies')
  BY <1>3
<1> QED
  BY <1>1, <1>3, <1>4, <1>5

\* The server answers the line it worked on.
LEMMA ReplyKeeps ==
  ASSUME InvocationInv, probe \in {"estate", "history"}, UNCHANGED <<probe, peer>>, Reply
  PROVE InvocationInv'
<1>1. Historic /\ at["tool"] = "done" /\ "tool" \in Procs
  BY InHistory DEF Reply, Procs
<1>2. /\ UNCHANGED <<code, findings, file>> /\ served' = served /\ at' = [at EXCEPT !["tool"] = "idle"]
  BY DEF Reply
<1>3. /\ at' \in [Procs -> Places] /\ at'["tool"] = "idle" /\ \A q \in Procs \ {"tool"} : at'[q] = at[q]
  BY <1>1, <1>2 DEF Historic, Places
<1>4. Recording'
  BY <1>1, <1>2, <1>3, RecordingAside
<1>5. served \in Nat /\ replies \in Seq(Replies) /\ Serving
  BY <1>1 DEF Historic
<1>6. /\ replies' \in Seq(Replies) /\ Len(replies') = Len(replies) + 1
      /\ \A i \in DOMAIN replies : i \in DOMAIN replies' /\ replies'[i] = replies[i]
      /\ Len(replies') \in DOMAIN replies' /\ replies'[Len(replies')].line = served
      /\ \A i \in DOMAIN replies' : i \in DOMAIN replies \/ i = Len(replies')
  <2>1. CASE code["tool"] = "raised"
    <3>1. Answer("tool_error")
      BY <2>1 DEF Reply
    <3> QED
      BY <1>2, <1>5, <3>1, AnswersIs, Answered
  <2>2. CASE code["tool"] # "raised"
    <3>1. Answer("exit_0")
      BY <2>2 DEF Reply
    <3> QED
      BY <1>2, <1>5, <3>1, AnswersIs, Answered
  <2> QED
    BY <2>1, <2>2
<1>7. /\ served > 0 /\ Len(replies) < served /\ Unanswered(served) /\ Len(replies) \in Nat
      /\ \A i \in DOMAIN replies : replies[i].line \in 1..served
      /\ \A i, k \in DOMAIN replies : i < k => replies[i].line < replies[k].line
      /\ \A n \in 1..served : ~Unanswered(n) \/ peer.lines[n] = "notify" \/ n = served
      /\ DOMAIN replies = 1..Len(replies) /\ DOMAIN replies' = 1..Len(replies')
  BY <1>1, <1>5, <1>6 DEF Serving, Working
<1>8. \A i \in DOMAIN replies : replies[i].line < served
  BY <1>5, <1>7 DEF Unanswered
<1>9. /\ \A i \in DOMAIN replies' : replies'[i].line \in 1..served
      /\ \A i, k \in DOMAIN replies' : i < k => replies'[i].line < replies'[k].line
  BY <1>5, <1>6, <1>7, <1>8
<1>10. \A n \in 1..served : ~Unanswered(n)' \/ peer.lines[n] = "notify"
  BY <1>6, <1>7 DEF Unanswered
<1>11. Serving'
  BY <1>2, <1>3, <1>5, <1>6, <1>7, <1>9, <1>10 DEF Serving, Working
<1>12. Historic'
  BY <1>1, <1>2, <1>3, <1>4, <1>6, <1>11 DEF Historic, Working, Procs
<1> QED
  BY <1>12, HistoricIs

\* The server reads a line, and answers it at once unless it has to scan.
LEMMA ReadLineKeeps ==
  ASSUME InvocationInv, probe \in {"estate", "history"}, UNCHANGED <<probe, peer>>, ReadLine
  PROVE InvocationInv'
<1> DEFINE line == peer.lines[served + 1]
<1>1. Historic /\ at["tool"] = "idle" /\ "tool" \in Procs
  BY InHistory DEF ReadLine, Procs
<1>2. UNCHANGED <<code, findings, file>> /\ served' = served + 1 /\ served < Len(peer.lines)
  BY DEF ReadLine
<1>3. /\ served \in Nat /\ replies \in Seq(Replies) /\ Serving
      /\ peer.lines \in Seq(Lines) /\ at \in [Procs -> Places]
  BY <1>1, NeighboursTyped DEF Historic
<1>4. line \in Lines
  BY <1>2, <1>3
<1>5. /\ Len(replies) \in Nat /\ Len(replies) <= served /\ DOMAIN replies = 1..Len(replies)
      /\ \A i \in DOMAIN replies : replies[i].line \in 1..served
      /\ \A i, k \in DOMAIN replies : i < k => replies[i].line < replies[k].line
      /\ \A n \in 1..served : ~Unanswered(n) \/ peer.lines[n] = "notify"
  BY <1>1, <1>3 DEF Serving
<1>6. CASE line = "scan"
  <2>1. at' = [at EXCEPT !["tool"] = "append"] /\ UNCHANGED replies
    BY <1>6 DEF ReadLine
  <2>2. at' \in [Procs -> Places] /\ at'["tool"] = "append" /\ \A q \in Procs \ {"tool"} : at'[q] = at[q]
    BY <1>1, <1>3, <2>1 DEF Places
  <2>3. Recording'
    BY <1>1, <1>2, <2>2, RecordingAside
  <2>4. Unanswered(served + 1)
    BY <1>3, <1>5 DEF Unanswered
  <2>5. Serving'
    <3>1. /\ served' <= Len(peer.lines) /\ \A i \in DOMAIN replies : replies[i].line \in 1..served'
          /\ Len(replies) < served' /\ served' > 0
      BY <1>2, <1>3, <1>5
    <3>2. \A n \in 1..served' : ~Unanswered(n) \/ peer.lines[n] = "notify" \/ n = served'
      BY <1>2, <1>3, <1>5
    <3>3. \A n : Unanswered(n)' <=> Unanswered(n)
      BY <2>1 DEF Unanswered
    <3>4. Unanswered(served)'
      BY <1>2, <2>1, <2>4 DEF Unanswered
    <3> QED
      BY <1>2, <1>3, <1>5, <2>1, <2>2, <3>1, <3>2, <3>3, <3>4 DEF Serving, Working
  <2>6. Historic'
    BY <1>1, <1>2, <2>1, <2>2, <2>3, <2>5 DEF Historic, Working, Procs
  <2> QED
    BY <2>6, HistoricIs
<1>7. CASE line # "scan"
  <2>1. /\ at' = [at EXCEPT !["tool"] = IF line = "too_deep" THEN "dead" ELSE "idle"] /\ Immediate(line)
    BY <1>7 DEF ReadLine
  <2>2. /\ at' \in [Procs -> Places] /\ at'["tool"] = (IF line = "too_deep" THEN "dead" ELSE "idle")
        /\ \A q \in Procs \ {"tool"} : at'[q] = at[q]
    BY <1>1, <1>3, <2>1 DEF Places
  <2>3. Recording'
    BY <1>1, <1>2, <2>2, RecordingAside
  <2>4. CASE UNCHANGED replies /\ line \in {"notify", "too_deep"}
    <3>1. /\ served' <= Len(peer.lines) /\ \A i \in DOMAIN replies : replies[i].line \in 1..served'
          /\ Len(replies) <= served'
      BY <1>2, <1>3, <1>5
    <3>2. \A n \in 1..served' : ~Unanswered(n) \/ peer.lines[n] = "notify" \/ (n = served' /\ at'["tool"] # "idle")
      BY <1>2, <1>3, <1>5, <2>2, <2>4
    <3>3. \A n : Unanswered(n)' <=> Unanswered(n)
      BY <2>4 DEF Unanswered
    <3>4. Serving'
      BY <1>5, <2>2, <2>4, <3>1, <3>2, <3>3 DEF Serving, Working
    <3>5. Historic'
      BY <1>1, <1>2, <2>2, <2>3, <2>4, <3>4 DEF Historic, Working, Procs
    <3> QED
      BY <3>5, HistoricIs
  <2>5. CASE Answers1
    <3>1. /\ replies' \in Seq(Replies) /\ Len(replies') = Len(replies) + 1
          /\ \A i \in DOMAIN replies : i \in DOMAIN replies' /\ replies'[i] = replies[i]
          /\ Len(replies') \in DOMAIN replies' /\ replies'[Len(replies')].line = served + 1
          /\ \A i \in DOMAIN replies' : i \in DOMAIN replies \/ i = Len(replies')
      BY <1>2, <1>3, <2>5, Answered
    <3>2. DOMAIN replies' = 1..Len(replies')
      BY <3>1
    <3>3. /\ \A i \in DOMAIN replies' : replies'[i].line \in 1..(served + 1)
          /\ \A i, k \in DOMAIN replies' : i < k => replies'[i].line < replies'[k].line
      <4>1. \A i \in DOMAIN replies : replies[i].line < served + 1 /\ replies[i].line \in 1..(served + 1)
        BY <1>3, <1>5
      <4> QED
        BY <1>3, <1>5, <3>1, <3>2, <4>1
    <3>4. \A n \in 1..(served + 1) : ~Unanswered(n)' \/ peer.lines[n] = "notify"
      <4>1. ASSUME NEW n \in 1..served PROVE ~Unanswered(n)' \/ peer.lines[n] = "notify"
        BY <1>5, <3>1 DEF Unanswered
      <4>2. \A n : n = served + 1 => ~Unanswered(n)'
        BY <3>1 DEF Unanswered
      <4> QED
        BY <1>3, <4>1, <4>2
    <3>5. Len(replies') <= served + 1 /\ served + 1 <= Len(peer.lines)
      BY <1>2, <1>3, <1>5, <3>1
    <3>6. Serving'
      BY <1>2, <2>2, <3>3, <3>4, <3>5 DEF Serving, Working
    <3>7. Historic'
      BY <1>1, <1>2, <1>3, <2>2, <2>3, <3>1, <3>6 DEF Historic, Working, Procs
    <3> QED
      BY <3>7, HistoricIs
  <2>6. line \in {"usage", "ping", "unknown", "notify", "unparsable", "too_deep"}
    BY <1>4, <1>7 DEF Lines
  <2>7. CASE line \in {"usage", "ping", "unknown", "unparsable"}
    <3>1. Answer("exit_2") \/ Answer("result") \/ Answer("error")
      BY <2>1, <2>7 DEF Immediate
    <3>2. served' \in Nat
      BY <1>2, <1>3
    <3> QED
      BY <2>5, <3>1, <3>2, AnswersIs
  <2>8. CASE line \in {"notify", "too_deep"}
    <3>1. UNCHANGED replies
      BY <2>1, <2>8 DEF Immediate
    <3> QED
      BY <2>4, <2>8, <3>1
  <2> QED
    BY <2>6, <2>7, <2>8
<1> QED
  BY <1>6, <1>7

-----------------------------------------------------------------------------
\* Every step of the command line, its plugins and the server keeps the invariant.
LEMMA InvocationKept ==
  ASSUME InvocationInv, InvocationStep
  PROVE InvocationInv'
<1>1. probe \in {"estate", "history"} /\ UNCHANGED <<probe, peer>>
  BY DEF InvocationStep
<1> QED
  BY <1>1, PluginsKeep, FleetKeeps, CompareKeeps, ReadLineKeeps, ReplyKeeps, AppendKeeps, FlushKeeps, TrendKeeps,
     KilledKeeps DEF InvocationStep

-----------------------------------------------------------------------------
(* What follows: findings and exit codes.                                   *)

\* What findings say.
Remarks == {"assessed", "found", "vulnerability", "undetermined", "error", "shared"}

\* The results of an estate.
LEMMA ResultsAre ==
  /\ Results = {"a1", "a2", "b1"} /\ IsFiniteSet(Results)
  /\ TargetOf(Addresses[1]) = "a"
<1>1. Results = {"a1", "a2", "b1"}
  BY DEF Results, Addresses, Range
<1>2. IsFiniteSet(({"a1"} \cup {"a2"}) \cup {"b1"})
  <2>1. IsFiniteSet({"a1"})
    BY FS_Singleton
  <2>2. IsFiniteSet({"a1"} \cup {"a2"})
    BY <2>1, FS_AddElement
  <2> QED
    BY <2>2, FS_AddElement
<1>3. IsFiniteSet(Results)
  <2>1. Results = ({"a1"} \cup {"a2"}) \cup {"b1"}
    BY <1>1
  <2> QED
    BY <1>2, <2>1
<1>4. Addresses[1] = "a1"
  BY DEF Addresses
<1> QED
  BY <1>1, <1>3, <1>4 DEF TargetOf

\* The estates that are scanned.
LEMMA EstateTyped ==
  ASSUME NEW e \in Estates
  PROVE /\ e.up \subseteq Results /\ e.outcome \in [Results -> Outcomes] /\ e.assessed \subseteq Results
        /\ e.fleet \in {"checks", "raises"} /\ e.require \in BOOLEAN
        /\ e.fail_on \in {"never", "high", "medium", "info"}
        /\ e.baseline \in {"none", "unreadable", "empty", "clean", "shared"}
        /\ e.failing \in {{}, {"a1"}, {"b1"}} /\ e.failing \subseteq e.up
<1>1. "a1" \in Results
  BY ResultsAre
<1> QED
  BY <1>1 DEF Estates, OneOutcome

\* The addresses of a target that share their certificate with another, by number.
SharingOf(e, target) == Cardinality({a \in Sharing(e) : TargetOf(a) = target})

\* Whoever shares a certificate is counted.
LEMMA SharingCounted ==
  ASSUME NEW e \in Estates, NEW target
  PROVE /\ SharingOf(e, target) \in Nat
        /\ SharingOf(e, target) > 0 <=> \E a \in Sharing(e) : TargetOf(a) = target
<1> DEFINE S == {a \in Sharing(e) : TargetOf(a) = target}
<1>1. S \in SUBSET Results
  BY EstateTyped DEF Sharing
<1>2. IsFiniteSet(S)
  BY <1>1, ResultsAre, FS_Subset
<1>3. Cardinality(S) \in Nat /\ (Cardinality(S) = 0 <=> S = {})
  BY <1>2, FS_CardinalityType, FS_EmptySet
<1> QED
  BY <1>3 DEF SharingOf

\* Fleet checks say only that something is shared, once for each result that shares it.
LEMMA FleetTyped ==
  ASSUME NEW e \in Estates, NEW target
  PROVE /\ FleetFindings(e, target) \in Seq(Remarks)
        /\ e.fleet = "checks" =>
              /\ Len(FleetFindings(e, target)) = SharingOf(e, target)
              /\ \A n \in DOMAIN FleetFindings(e, target) : FleetFindings(e, target)[n] = "shared"
        /\ e.fleet = "raises" => Range(FleetFindings(e, target)) = IF target = "a" THEN {"error"} ELSE {}
<1>1. SharingOf(e, target) \in Nat
  BY SharingCounted
<1>2. CASE e.fleet = "raises"
  <2>1. FleetFindings(e, target) = IF target = "a" THEN <<"error">> ELSE <<>>
    BY <1>2, ResultsAre DEF FleetFindings
  <2>2. <<"error">> \in Seq(Remarks) /\ <<>> \in Seq(Remarks)
    BY DEF Remarks
  <2>3. Range(<<"error">>) = {"error"} /\ Range(<<>>) = {}
    BY DEF Range
  <2> QED
    BY <1>2, <2>1, <2>2, <2>3
<1>3. CASE e.fleet # "raises"
  <2>1. FleetFindings(e, target) = [n \in 1..SharingOf(e, target) |-> "shared"]
    BY <1>3 DEF FleetFindings, SharingOf
  <2>2. "shared" \in Remarks
    BY DEF Remarks
  <2> QED
    BY <1>1, <1>3, <2>1, <2>2
<1> QED
  BY <1>2, <1>3

\* What a plugin leaves on a result, apart from its place.
Left(e, a) == CASE e.outcome[a] \in {"nothing", "odd_severity"} -> {}
                [] e.outcome[a] = "raises" -> {"error"}
                [] OTHER -> {e.outcome[a]}

\* It is what it found, or that it raised, and never of sharing.
LEMMA RecordedIs ==
  ASSUME NEW e \in Estates, NEW a \in Results
  PROVE Recorded(e, a) \in Seq(Remarks) /\ Range(Recorded(e, a)) = Left(e, a)
<1>1. e.outcome[a] \in Outcomes
  BY EstateTyped
<1>2. CASE e.outcome[a] \in {"nothing", "odd_severity"}
  <2>1. Recorded(e, a) = <<>> /\ Left(e, a) = {}
    BY <1>2 DEF Recorded, Left
  <2> QED
    BY <2>1 DEF Range
<1>3. CASE e.outcome[a] = "raises"
  <2>1. Recorded(e, a) = <<"error">> /\ Left(e, a) = {"error"}
    BY <1>3 DEF Recorded, Left
  <2> QED
    BY <2>1 DEF Remarks, Range
<1>4. CASE e.outcome[a] \in {"found", "vulnerability", "undetermined"}
  <2> DEFINE x == e.outcome[a]
  <2>1. Recorded(e, a) = <<x>> /\ Left(e, a) = {x} /\ x \in Remarks
    BY <1>4 DEF Recorded, Left, Remarks
  <2> HIDE DEF x
  <2> QED
    BY <2>1 DEF Range
<1> QED
  BY <1>1, <1>2, <1>3, <1>4 DEF Outcomes

\* Two sequences, one behind the other.
LEMMA Joined2 ==
  ASSUME NEW S, NEW s \in Seq(S), NEW t \in Seq(S)
  PROVE /\ s \o t \in Seq(S) /\ Len(s \o t) = Len(s) + Len(t)
        /\ \A n \in 1..Len(s) : (s \o t)[n] = s[n]
        /\ \A n \in 1..Len(t) : (s \o t)[Len(s) + n] = t[n]
        /\ Range(s \o t) = Range(s) \cup Range(t)
<1>1. /\ s \o t \in Seq(S) /\ Len(s \o t) = Len(s) + Len(t) /\ DOMAIN (s \o t) = 1..(Len(s) + Len(t))
      /\ DOMAIN s = 1..Len(s) /\ DOMAIN t = 1..Len(t) /\ Len(s) \in Nat /\ Len(t) \in Nat
      /\ \A n \in 1..Len(s) : (s \o t)[n] = s[n]
      /\ \A n \in 1..Len(t) : (s \o t)[Len(s) + n] = t[n]
  OBVIOUS
<1>2. ASSUME NEW n \in 1..(Len(s) + Len(t)) PROVE (s \o t)[n] \in Range(s) \cup Range(t)
  <2>1. CASE n <= Len(s)
    BY <1>1, <2>1 DEF Range
  <2>2. CASE n > Len(s)
    <3>1. PICK k \in 1..Len(t) : n = Len(s) + k
      <4>1. n - Len(s) \in 1..Len(t) /\ n = Len(s) + (n - Len(s))
        BY <1>1, <2>2
      <4> QED
        BY <4>1
    <3> QED
      BY <1>1, <3>1 DEF Range
  <2> QED
    BY <1>1, <2>1, <2>2
<1>3. \A n \in 1..Len(s) : s[n] \in Range(s \o t)
  BY <1>1 DEF Range
<1>4. \A n \in 1..Len(t) : t[n] \in Range(s \o t)
  <2> TAKE n \in 1..Len(t)
  <2>1. Len(s) + n \in DOMAIN (s \o t) /\ (s \o t)[Len(s) + n] = t[n]
    BY <1>1
  <2> QED
    BY <2>1 DEF Range
<1>5. Range(s \o t) \subseteq Range(s) \cup Range(t)
  BY <1>1, <1>2 DEF Range
<1>6. Range(s) \subseteq Range(s \o t) /\ Range(t) \subseteq Range(s \o t)
  BY <1>1, <1>3, <1>4 DEF Range
<1> QED
  BY <1>1, <1>5, <1>6

\* What is on a result before the fleet checks.
LEMMA NotedIs ==
  ASSUME NEW e \in Estates, NEW a \in Results
  PROVE /\ Noted(e)[a] \in Seq(Remarks)
        /\ Range(Noted(e)[a]) = (IF a \in e.assessed THEN {"assessed"} ELSE {})
                                   \cup (IF a \in e.up THEN Left(e, a) ELSE {})
<1> DEFINE s == Assessed(e)[a]
           t == IF a \in e.up THEN Recorded(e, a) ELSE <<>>
<1>1. s \in Seq(Remarks) /\ Range(s) = IF a \in e.assessed THEN {"assessed"} ELSE {}
  <2>1. CASE a \in e.assessed
    <3>1. s = <<"assessed">>
      BY <2>1 DEF Assessed
    <3> QED
      BY <2>1, <3>1 DEF Remarks, Range
  <2>2. CASE a \notin e.assessed
    <3>1. s = <<>>
      BY <2>2 DEF Assessed
    <3> QED
      BY <2>2, <3>1 DEF Range
  <2> QED
    BY <2>1, <2>2
<1>2. t \in Seq(Remarks) /\ Range(t) = IF a \in e.up THEN Left(e, a) ELSE {}
  <2>1. Range(<<>>) = {} /\ <<>> \in Seq(Remarks)
    BY DEF Range
  <2> QED
    BY <2>1, RecordedIs
<1>3. Noted(e)[a] = s \o t
  BY DEF Noted
<1> HIDE DEF s, t
<1> QED
  BY <1>1, <1>2, <1>3, Joined2

\* All that is said of a result.
LEMMA ToldIs ==
  ASSUME NEW e \in Estates, NEW a \in Results
  PROVE /\ Noted(e)[a] \in Seq(Remarks) /\ Told(e)[a] \in Seq(Remarks)
        /\ e.fleet = "checks" => Count(Told(e)[a], "shared") = SharingOf(e, TargetOf(a))
        /\ Range(Told(e)[a]) = (IF e.fleet = "checks"
                                   THEN IF SharingOf(e, TargetOf(a)) > 0 THEN {"shared"} ELSE {}
                                   ELSE IF TargetOf(a) = "a" THEN {"error"} ELSE {})
                                \cup Range(Noted(e)[a])
<1> DEFINE f == FleetFindings(e, TargetOf(a))
           r == Noted(e)[a]
           k == SharingOf(e, TargetOf(a))
<1>1. /\ f \in Seq(Remarks) /\ k \in Nat
      /\ e.fleet = "checks" => Len(f) = k /\ \A n \in DOMAIN f : f[n] = "shared"
      /\ e.fleet = "raises" => Range(f) = IF TargetOf(a) = "a" THEN {"error"} ELSE {}
  BY FleetTyped, SharingCounted
<1>2. r \in Seq(Remarks) /\ \A n \in DOMAIN r : r[n] # "shared"
  <2>1. r \in Seq(Remarks) /\ "shared" \notin Range(r)
    BY NotedIs, EstateTyped DEF Left, Outcomes
  <2> QED
    BY <2>1 DEF Range
<1>3. Told(e)[a] = f \o r
  BY DEF Told
<1> HIDE DEF f, r, k
<1>4. /\ f \o r \in Seq(Remarks) /\ Len(f \o r) = Len(f) + Len(r)
      /\ \A n \in 1..Len(f) : (f \o r)[n] = f[n]
      /\ \A n \in 1..Len(r) : (f \o r)[Len(f) + n] = r[n]
      /\ Range(f \o r) = Range(f) \cup Range(r)
  BY <1>1, <1>2, Joined2
<1>5. /\ DOMAIN f = 1..Len(f) /\ DOMAIN r = 1..Len(r) /\ DOMAIN (f \o r) = 1..(Len(f) + Len(r))
      /\ Len(f) \in Nat /\ Len(r) \in Nat
  BY <1>1, <1>2, <1>4
<1>6. ASSUME e.fleet = "checks"
      PROVE Count(f \o r, "shared") = k /\ Range(f) = IF k > 0 THEN {"shared"} ELSE {}
  <2>1. ASSUME NEW n \in 1..(Len(f) + Len(r)), n > Len(f) PROVE (f \o r)[n] # "shared"
    <3>1. n - Len(f) \in 1..Len(r) /\ n = Len(f) + (n - Len(f))
      BY <1>5, <2>1
    <3>2. (f \o r)[n] = r[n - Len(f)]
      BY <1>4, <3>1
    <3> QED
      BY <1>2, <1>5, <3>1, <3>2
  <2>2. \A n \in 1..Len(f) : (f \o r)[n] = "shared"
    BY <1>1, <1>4, <1>5, <1>6
  <2>3. {n \in DOMAIN (f \o r) : (f \o r)[n] = "shared"} = 1..k
    BY <1>1, <1>5, <1>6, <2>1, <2>2
  <2>4. Cardinality(1..k) = k
    BY <1>1, FS_Interval
  <2>5. k > 0 => 1 \in DOMAIN f
    BY <1>1, <1>5, <1>6
  <2>6. k = 0 => DOMAIN f = {}
    BY <1>1, <1>5, <1>6
  <2>7. Range(f) = IF k > 0 THEN {"shared"} ELSE {}
    BY <1>1, <1>6, <2>5, <2>6 DEF Range
  <2> QED
    BY <2>3, <2>4, <2>7 DEF Count
<1>7. e.fleet \in {"checks", "raises"}
  BY EstateTyped
<1> QED
  BY <1>1, <1>2, <1>3, <1>4, <1>6, <1>7 DEF k, r

\* What is said of some result, and what of none.
LEMMA SaidIs ==
  ASSUME NEW e \in Estates
  PROVE LET said(x) == \E a \in Results : x \in Range(Told(e)[a]) IN
        /\ \A a \in Results : Range(Told(e)[a]) \subseteq Remarks
        /\ said("shared") <=> e.fleet = "checks" /\ Sharing(e) # {}
        /\ said("error") <=> (e.fleet = "raises" \/ \E a \in e.up : e.outcome[a] = "raises")
        /\ said("assessed") <=> e.assessed # {}
        /\ \A x \in {"found", "vulnerability", "undetermined"} : said(x) <=> \E a \in e.up : e.outcome[a] = x
<1> DEFINE fleet(a) == IF e.fleet = "checks" THEN IF SharingOf(e, TargetOf(a)) > 0 THEN {"shared"} ELSE {}
                       ELSE IF TargetOf(a) = "a" THEN {"error"} ELSE {}
           own(a)   == (IF a \in e.assessed THEN {"assessed"} ELSE {}) \cup (IF a \in e.up THEN Left(e, a) ELSE {})
<1>1. \A a \in Results : Range(Told(e)[a]) = fleet(a) \cup own(a)
  <2> TAKE a \in Results
  <2>1. Range(Noted(e)[a]) = own(a)
    BY NotedIs
  <2> QED
    BY <2>1, ToldIs
<1>2. /\ e.up \subseteq Results /\ e.assessed \subseteq Results /\ e.fleet \in {"checks", "raises"}
      /\ \A a \in Results : e.outcome[a] \in Outcomes
  BY EstateTyped
<1>3. \A a \in Results : \A x \in Left(e, a) :
         \/ x \in {"found", "vulnerability", "undetermined"} /\ e.outcome[a] = x
         \/ x = "error" /\ e.outcome[a] = "raises"
  BY <1>2 DEF Left, Outcomes
<1>4. /\ \A a \in Results : e.outcome[a] = "raises" => "error" \in Left(e, a)
      /\ \A a \in Results : \A x \in {"found", "vulnerability", "undetermined"} :
            e.outcome[a] = x => x \in Left(e, a)
  BY DEF Left
<1>5. (\E a \in Results : "shared" \in fleet(a)) <=> e.fleet = "checks" /\ Sharing(e) # {}
  <2>1. Sharing(e) \subseteq Results
    BY EstateTyped DEF Sharing
  <2> QED
    BY <2>1, SharingCounted
<1>6. (\E a \in Results : "error" \in fleet(a)) <=> e.fleet = "raises"
  <2>1. "a1" \in Results /\ TargetOf("a1") = "a"
    BY ResultsAre DEF TargetOf
  <2> QED
    BY <1>2, <2>1
<1>7. \A a \in Results : fleet(a) \subseteq {"shared", "error"}
  OBVIOUS
<1> HIDE DEF fleet
<1>8. \A a \in Results : \A x \in own(a) :
         \/ x = "assessed" /\ a \in e.assessed
         \/ /\ a \in e.up
            /\ \/ x \in {"found", "vulnerability", "undetermined"} /\ e.outcome[a] = x
               \/ x = "error" /\ e.outcome[a] = "raises"
  BY <1>2, <1>3
<1>9. /\ \A a \in e.assessed : "assessed" \in own(a)
      /\ \A a \in e.up : e.outcome[a] = "raises" => "error" \in own(a)
      /\ \A a \in e.up : \A x \in {"found", "vulnerability", "undetermined"} : e.outcome[a] = x => x \in own(a)
  BY <1>2, <1>4
<1> HIDE DEF own
<1>10. \A a \in Results : Range(Told(e)[a]) \subseteq Remarks
  BY <1>1, <1>7, <1>8 DEF Remarks
<1>11. (\E a \in Results : "shared" \in Range(Told(e)[a])) <=> e.fleet = "checks" /\ Sharing(e) # {}
  BY <1>1, <1>5, <1>8
<1>12. (\E a \in Results : "error" \in Range(Told(e)[a]))
          <=> (e.fleet = "raises" \/ \E a \in e.up : e.outcome[a] = "raises")
  BY <1>1, <1>2, <1>6, <1>8, <1>9
<1>13. (\E a \in Results : "assessed" \in Range(Told(e)[a])) <=> e.assessed # {}
  BY <1>1, <1>2, <1>7, <1>8, <1>9
<1>14. ASSUME NEW x \in {"found", "vulnerability", "undetermined"}
       PROVE (\E a \in Results : x \in Range(Told(e)[a])) <=> \E a \in e.up : e.outcome[a] = x
  BY <1>1, <1>2, <1>7, <1>8, <1>9
<1> QED
  BY <1>10, <1>11, <1>12, <1>13, <1>14

\* The findings in hand are such remarks.
LEMMA FindingsAre ==
  ASSUME InvocationInv
  PROVE findings \in [Results -> Seq(Remarks)]
<1>1. Unchecked \in [Results -> Seq(Remarks)]
  BY DEF Unchecked
<1>2. CASE probe = "estate"
  <2>1. peer \in Estates /\ (findings = Unchecked \/ findings = Assessed(peer) \/ findings = Noted(peer) \/ findings = Told(peer))
    BY <1>2 DEF InvocationInv, EstateInv, Gated
  <2>2. Noted(peer) \in [Results -> Seq(Remarks)]
    BY <2>1, ToldIs DEF Noted
  <2>3. Told(peer) \in [Results -> Seq(Remarks)]
    BY <2>1, ToldIs DEF Told
  <2>4. Assessed(peer) \in [Results -> Seq(Remarks)]
    <3>1. <<"assessed">> \in Seq(Remarks) /\ <<>> \in Seq(Remarks)
      BY DEF Remarks
    <3> QED
      BY <3>1 DEF Assessed
  <2> QED
    BY <1>1, <2>1, <2>2, <2>3, <2>4
<1>3. CASE probe # "estate"
  BY <1>1, <1>3 DEF InvocationInv, HistoryInv, Elsewhere, InvocationIdle
<1> QED
  BY <1>2, <1>3

\* The types of what is kept follow from the invariant.
LEMMA InvocationTyped ==
  InvocationInv => InvocationTypeOK
<1> SUFFICES ASSUME InvocationInv PROVE InvocationTypeOK
  OBVIOUS
<1>1. served \in 0..MaxLines /\ Len(replies) <= served
  <2>1. CASE probe = "estate"
    BY <2>1, InvocationAssumption DEF InvocationInv, EstateInv
  <2>2. CASE probe = "history"
    <3>1. peer \in Neighbours /\ Serving /\ served \in Nat
      BY <2>2 DEF InvocationInv, HistoryInv
    <3> QED
      BY <3>1, NeighboursTyped, InvocationAssumption DEF Serving
  <2>3. CASE probe \notin {"estate", "history"}
    BY <2>3, InvocationAssumption DEF InvocationInv, Elsewhere, InvocationIdle
  <2> QED
    BY <2>1, <2>2, <2>3
<1> QED
  BY <1>1, FindingsAre DEF InvocationInv, InvocationTypeOK, Remarks, Places, Codes

\* So does that what plugins and fleet checks find is noted with the results it is about.
LEMMA FindingsBelongHolds ==
  InvocationInv => FindingsBelong
<1> SUFFICES ASSUME InvocationInv, probe = "estate", code["cli"] # "none" PROVE
        /\ code["cli"] = "raised" <=> \E a \in peer.up : peer.outcome[a] = "odd_severity"
        /\ code["cli"] # "raised" => \A a \in Results :
              LET twins == {b \in Results : TargetOf(b) = TargetOf(a)} IN
              /\ peer.fleet = "checks" => Count(findings[a], "shared") = Cardinality(Sharing(peer) \cap twins)
              /\ a \in peer.up /\ peer.outcome[a] = "raises" => "error" \in Range(findings[a])
  BY DEF FindingsBelong
<1>1. /\ peer \in Estates
      /\ \/ code["cli"] = "raised" /\ \E a \in peer.up : peer.outcome[a] = "odd_severity"
         \/ /\ code["cli"] = ExitCode(peer) /\ findings = Told(peer)
            /\ \A a \in peer.up : peer.outcome[a] # "odd_severity"
  BY DEF InvocationInv, EstateInv, Gated
<1>2. CASE code["cli"] = "raised"
  BY <1>1, <1>2, ExitCodes
<1>3. CASE code["cli"] # "raised"
  <2>1. findings = Told(peer) /\ \A a \in peer.up : peer.outcome[a] # "odd_severity"
    BY <1>1, <1>3
  <2>2. ASSUME NEW a \in Results
        PROVE LET twins == {b \in Results : TargetOf(b) = TargetOf(a)} IN
              /\ peer.fleet = "checks" => Count(findings[a], "shared") = Cardinality(Sharing(peer) \cap twins)
              /\ a \in peer.up /\ peer.outcome[a] = "raises" => "error" \in Range(findings[a])
    <3> DEFINE twins == {b \in Results : TargetOf(b) = TargetOf(a)}
    <3>1. Sharing(peer) \cap twins = {b \in Sharing(peer) : TargetOf(b) = TargetOf(a)}
      BY <1>1, EstateTyped DEF Sharing
    <3>2. Cardinality(Sharing(peer) \cap twins) = SharingOf(peer, TargetOf(a))
      BY <3>1 DEF SharingOf
    <3>3. peer.fleet = "checks" => Count(findings[a], "shared") = SharingOf(peer, TargetOf(a))
      BY <1>1, <2>1, ToldIs
    <3>4. ASSUME a \in peer.up, peer.outcome[a] = "raises" PROVE "error" \in Range(findings[a])
      <4>1. "error" \in Left(peer, a)
        BY <3>4 DEF Left
      <4>2. "error" \in Range(Noted(peer)[a])
        BY <1>1, <3>4, <4>1, NotedIs
      <4> QED
        BY <1>1, <2>1, <4>2, ToldIs
    <3> QED
      BY <3>2, <3>3, <3>4
  <2> QED
    BY <1>3, <2>1, <2>2
<1> QED
  BY <1>2, <1>3

\* What a baseline knows is compared with what is said now.
LEMMA RegressedIs ==
  ASSUME peer \in Estates, findings = Told(peer)
  PROVE Regressed(peer) <=>
          \/ peer.baseline \in {"clean", "shared"}
             /\ (\/ peer.up # Results \/ peer.assessed # {} \/ peer.fleet = "raises"
                 \/ \E a \in peer.up : peer.outcome[a] \in {"found", "vulnerability", "undetermined", "raises"})
          \/ peer.baseline = "clean" /\ peer.fleet = "checks" /\ Sharing(peer) # {}
<1> DEFINE said(x) == \E a \in Results : x \in Range(findings[a])
<1>1. /\ \A a \in Results : Range(findings[a]) \subseteq Remarks
      /\ said("shared") <=> peer.fleet = "checks" /\ Sharing(peer) # {}
      /\ said("error") <=> (peer.fleet = "raises" \/ \E a \in peer.up : peer.outcome[a] = "raises")
      /\ said("assessed") <=> peer.assessed # {}
      /\ \A x \in {"found", "vulnerability", "undetermined"} : said(x) <=> \E a \in peer.up : peer.outcome[a] = x
  BY SaidIs
<1>2. peer.up \subseteq Results
  BY EstateTyped
<1>3. CASE peer.baseline = "clean"
  <2>1. Before(peer) = [a \in Results |-> {}]
    BY <1>3 DEF Before
  <2>2. Regressed(peer) <=> \E a \in Results : a \notin peer.up \/ Range(findings[a]) # {}
    BY <2>1 DEF Regressed
  <2>3. (\E a \in Results : Range(findings[a]) # {}) <=> \E x \in Remarks : said(x)
    BY <1>1
  <2> HIDE DEF said
  <2> QED
    BY <1>1, <1>2, <1>3, <2>2, <2>3 DEF Remarks
<1>4. CASE peer.baseline = "shared"
  <2>1. Before(peer) = [a \in Results |-> {"shared"}]
    BY <1>4 DEF Before
  <2>2. Regressed(peer) <=> \E a \in Results : a \notin peer.up \/ Range(findings[a]) \ {"shared"} # {}
    BY <2>1 DEF Regressed
  <2>3. (\E a \in Results : Range(findings[a]) \ {"shared"} # {}) <=> \E x \in Remarks \ {"shared"} : said(x)
    BY <1>1
  <2> HIDE DEF said
  <2> QED
    BY <1>1, <1>2, <1>4, <2>2, <2>3 DEF Remarks
<1>5. CASE peer.baseline \notin {"clean", "shared"}
  <2>1. DOMAIN Before(peer) = {}
    BY <1>5 DEF Before
  <2> QED
    BY <1>5, <2>1 DEF Regressed
<1> QED
  BY <1>3, <1>4, <1>5

\* What is at the limit or above it.
LEMMA ThresholdIs ==
  ASSUME peer \in Estates, findings = Told(peer)
  PROVE ThresholdExceeded(peer) <=>
          \/ peer.fail_on # "never" /\ \E a \in peer.up : peer.outcome[a] = "found"
          \/ peer.fail_on \in {"medium", "info"} /\ peer.assessed # {}
          \/ /\ peer.fail_on = "info"
             /\ \/ \E a \in peer.up : peer.outcome[a] \in {"undetermined", "raises"}
                \/ peer.fleet = "raises" \/ Sharing(peer) # {}
<1> DEFINE said(x) == \E a \in Results : x \in Range(findings[a])
<1>1. /\ said("shared") <=> peer.fleet = "checks" /\ Sharing(peer) # {}
      /\ said("error") <=> (peer.fleet = "raises" \/ \E a \in peer.up : peer.outcome[a] = "raises")
      /\ said("assessed") <=> peer.assessed # {}
      /\ \A x \in {"found", "vulnerability", "undetermined"} : said(x) <=> \E a \in peer.up : peer.outcome[a] = x
  BY SaidIs
<1>2. peer.fail_on \in {"never", "high", "medium", "info"} /\ peer.fleet \in {"checks", "raises"}
  BY EstateTyped
<1>3. ThresholdExceeded(peer) <=> \E x \in AtOrAbove[peer.fail_on] : said(x)
  BY DEF ThresholdExceeded
<1>4. /\ AtOrAbove["never"] = {} /\ AtOrAbove["high"] = {"found"} /\ AtOrAbove["medium"] = {"found", "assessed"}
      /\ AtOrAbove["info"] = {"found", "assessed", "undetermined", "error", "shared"}
  BY DEF AtOrAbove
<1> HIDE DEF said
<1>5. CASE peer.fail_on = "never"
  BY <1>3, <1>4, <1>5
<1>6. CASE peer.fail_on = "high"
  BY <1>1, <1>3, <1>4, <1>6
<1>7. CASE peer.fail_on = "medium"
  BY <1>1, <1>3, <1>4, <1>7
<1>8. CASE peer.fail_on = "info"
  BY <1>1, <1>2, <1>3, <1>4, <1>8
<1> QED
  BY <1>2, <1>5, <1>6, <1>7, <1>8

\* So does that exit code 0 means what it does: no gate objected to what was reached.
LEMMA ExitMeansGoodHolds ==
  InvocationInv => ExitMeansGood
<1> DEFINE found(a) == IF a \in peer.up THEN peer.outcome[a] ELSE "nothing"
<1> SUFFICES ASSUME InvocationInv, probe = "estate", code["cli"] \notin {"none", "raised"} PROVE
        /\ code["cli"] = "2" <=> peer.baseline = "unreadable"
        /\ code["cli"] = "0" <=>
              /\ peer.baseline # "unreadable" /\ peer.up # {}
              /\ peer.require => peer.failing = {}
              /\ peer.fail_on # "never" => \A a \in Results : found(a) # "found"
              /\ peer.fail_on \in {"medium", "info"} => peer.assessed = {}
              /\ peer.fail_on = "info" =>
                    /\ \A a \in Results : found(a) \notin {"undetermined", "raises"}
                    /\ peer.fleet = "checks" /\ Sharing(peer) = {}
              /\ peer.baseline \in {"clean", "shared"} =>
                    /\ peer.up = Results /\ peer.assessed = {} /\ peer.fleet = "checks"
                    /\ \A a \in Results : found(a) = "nothing"
              /\ peer.baseline = "clean" => Sharing(peer) = {}
  BY DEF ExitMeansGood
<1>1. /\ peer \in Estates /\ code["cli"] = ExitCode(peer) /\ findings = Told(peer)
      /\ \A a \in peer.up : peer.outcome[a] # "odd_severity"
  BY DEF InvocationInv, EstateInv, Gated
<1>2. code["cli"] = "2" <=> peer.baseline = "unreadable"
  BY <1>1 DEF ExitCode
<1>3. code["cli"] = "0" <=> /\ peer.baseline # "unreadable" /\ peer.up # {}
                           /\ ~Regressed(peer) /\ ~ProfileNotMet(peer) /\ ~ThresholdExceeded(peer)
  BY <1>1 DEF ExitCode
<1>4. /\ peer.up \subseteq Results /\ peer.fleet \in {"checks", "raises"}
      /\ \A a \in Results : peer.outcome[a] \in Outcomes
  BY <1>1, EstateTyped
<1>5. \A x \in Outcomes \ {"nothing"} :
         (\E a \in peer.up : peer.outcome[a] = x) <=> \E a \in Results : found(a) = x
  BY <1>4
<1>6. (\E a \in peer.up : peer.outcome[a] \in {"found", "vulnerability", "undetermined", "raises"})
         <=> \E a \in Results : found(a) # "nothing"
  BY <1>1, <1>4 DEF Outcomes
<1>7. ~ProfileNotMet(peer) <=> (peer.require => peer.failing = {})
  BY <1>1, EstateTyped DEF ProfileNotMet
<1>8. ~ThresholdExceeded(peer) <=>
        /\ peer.fail_on # "never" => \A a \in Results : found(a) # "found"
        /\ peer.fail_on \in {"medium", "info"} => peer.assessed = {}
        /\ peer.fail_on = "info" =>
              /\ \A a \in Results : found(a) \notin {"undetermined", "raises"}
              /\ peer.fleet = "checks" /\ Sharing(peer) = {}
  <2>1. (\E a \in peer.up : peer.outcome[a] = "found") <=> \E a \in Results : found(a) = "found"
    BY <1>5 DEF Outcomes
  <2>2. (\E a \in peer.up : peer.outcome[a] \in {"undetermined", "raises"})
          <=> \E a \in Results : found(a) \in {"undetermined", "raises"}
    BY <1>4
  <2> HIDE DEF found
  <2> QED
    BY <1>1, <1>4, <2>1, <2>2, ThresholdIs
<1>9. ~Regressed(peer) <=>
        /\ peer.baseline \in {"clean", "shared"} =>
              /\ peer.up = Results /\ peer.assessed = {} /\ peer.fleet = "checks"
              /\ \A a \in Results : found(a) = "nothing"
        /\ peer.baseline = "clean" => Sharing(peer) = {}
  <2> HIDE DEF found
  <2> QED
    BY <1>1, <1>4, <1>6, RegressedIs
<1> HIDE DEF found
<1> QED
  BY <1>2, <1>3, <1>7, <1>8, <1>9

-----------------------------------------------------------------------------
(* What follows: the history and the replies.                               *)

\* The beginning of a sequence.
LEMMA FirstOf ==
  ASSUME NEW S, NEW s \in Seq(S), NEW m \in Nat, m <= Len(s)
  PROVE /\ SubSeq(s, 1, m) \in Seq(S) /\ Len(SubSeq(s, 1, m)) = m
        /\ \A k \in 1..m : SubSeq(s, 1, m)[k] = s[k]
OBVIOUS

\* A sequence of two.
LEMMA PairIs ==
  ASSUME NEW S, NEW a \in S, NEW b \in S
  PROVE /\ <<a, b>> \in Seq(S) /\ Len(<<a, b>>) = 2
        /\ \A k \in 1..2 : <<a, b>>[k] = IF k = 1 THEN a ELSE b
<1>1. <<a, b>> \in Seq(S)
  OBVIOUS
<1>2. Len(<<a, b>>) = 2
  OBVIOUS
<1>3. \A k \in 1..2 : <<a, b>>[k] = IF k = 1 THEN a ELSE b
  OBVIOUS
<1> QED
  BY <1>1, <1>2, <1>3

\* A report that is in the file entire is found in it by its pieces.
LEMMA EntireIs ==
  ASSUME file \in Seq(Entries), NEW p \in Procs, peer.writes[p] \in {1, 2}, NEW n \in Nat, Entire(p, n)
  PROVE IsPrefix(Piece(p, 1) \o (IF peer.writes[p] = 2 THEN Piece(p, 2) ELSE <<>>),
                 SubSeq(file, n, Len(file)))
<1> DEFINE s == Piece(p, 1) \o (IF peer.writes[p] = 2 THEN Piece(p, 2) ELSE <<>>)
           t == SubSeq(file, n, Len(file))
           one   == Entry(p, "whole")
           two   == Entry(p, "head")
           three == Entry(p, "tail")
<1>1. one \in Entries /\ two \in Entries /\ three \in Entries
  BY EntryIs
<1>2. /\ n \in DOMAIN file /\ file[n] = one
      /\ peer.writes[p] = 2 => /\ n + 1 \in DOMAIN file /\ file[n + 1] = two
                               /\ n + 2 \in DOMAIN file /\ file[n + 2] = three
  BY DEF Entire, Headed
<1> HIDE DEF one, two, three
<1>3. t \in Seq(Entries) /\ Len(t) = Len(file) - n + 1 /\ \A k \in 1..Len(t) : t[k] = file[n + k - 1]
  BY <1>2
<1> HIDE DEF t
<1>4. CASE peer.writes[p] = 1
  <2>1. s = <<one>>
    <3>1. Piece(p, 1) = <<one>>
      BY <1>4, PieceIs DEF one
    <3> QED
      BY <1>1, <1>4, <3>1
  <2>2. Len(t) >= 1 /\ t[1] = one
    BY <1>2, <1>3
  <2> HIDE DEF s
  <2>3. Len(s) = 1 /\ SubSeq(s, 1, 1) = SubSeq(t, 1, 1)
    BY <1>1, <1>3, <2>1, <2>2
  <2>4. IsPrefix(s, t)
    BY <2>2, <2>3 DEF IsPrefix
  <2> QED
    BY <2>4 DEF s, t
<1>5. CASE peer.writes[p] = 2
  <2> DEFINE u == Piece(p, 1)
             v == Piece(p, 2)
             x == [k \in 1..3 |-> IF k = 1 THEN one ELSE IF k = 2 THEN two ELSE three]
  <2>1. u = <<one, two>> /\ v = <<three>>
    BY <1>5, PieceIs DEF one, two, three
  <2>2. u \in Seq(Entries) /\ Len(u) = 2 /\ \A k \in 1..2 : u[k] = x[k]
    <3> HIDE DEF u
    <3>1. u \in Seq(Entries) /\ Len(u) = 2 /\ \A k \in 1..2 : u[k] = IF k = 1 THEN one ELSE two
      BY <1>1, <2>1, PairIs
    <3> QED
      BY <3>1
  <2>3. v \in Seq(Entries) /\ Len(v) = 1 /\ \A k \in 1..1 : v[k] = x[2 + k]
    <3> HIDE DEF v
    <3>1. v \in Seq(Entries) /\ Len(v) = 1
      BY <1>1, <2>1
    <3>2. \A k \in 1..1 : v[k] = three
      BY <2>1
    <3>3. \A k \in 1..1 : x[2 + k] = three
      OBVIOUS
    <3> QED
      BY <3>1, <3>2, <3>3
  <2>4. Len(t) >= 3 /\ \A k \in 1..3 : t[k] = x[k]
    <3>1. /\ Len(t) >= 3 /\ file[n] = one /\ file[n + 1] = two /\ file[n + 2] = three
          /\ Len(t) \in Nat
      BY <1>2, <1>3, <1>5
    <3>2. \A k \in 1..3 : t[k] = file[n + k - 1]
      BY <1>3, <3>1
    <3>3. \A k \in 1..3 : (k = 1 /\ n + k - 1 = n) \/ (k = 2 /\ n + k - 1 = n + 1) \/ (k = 3 /\ n + k - 1 = n + 2)
      OBVIOUS
    <3> QED
      BY <3>1, <3>2, <3>3
  <2>5. s = u \o v
    BY <1>5
  <2> HIDE DEF u, v, x, s
  <2>6. s \in Seq(Entries) /\ Len(s) = 3 /\ \A k \in 1..3 : s[k] = x[k]
    <3>0. u \in Seq(Entries) /\ v \in Seq(Entries)
      BY <2>2, <2>3
    <3>1. /\ u \o v \in Seq(Entries) /\ Len(u \o v) = Len(u) + Len(v)
          /\ \A k \in 1..Len(u) : (u \o v)[k] = u[k]
          /\ \A k \in 1..Len(v) : (u \o v)[Len(u) + k] = v[k]
      BY <3>0, Joined2
    <3>2. \A k \in 1..2 : s[k] = x[k]
      BY <2>2, <2>5, <3>1
    <3>3. \A k \in 1..1 : s[2 + k] = x[2 + k]
      BY <2>2, <2>3, <2>5, <3>1
    <3>4. \A k \in 1..3 : k \in 1..2 \/ k = 2 + 1
      OBVIOUS
    <3> QED
      BY <2>2, <2>3, <2>5, <3>1, <3>2, <3>3, <3>4
  <2>7. SubSeq(s, 1, 3) = SubSeq(t, 1, 3)
    <3>1. /\ SubSeq(s, 1, 3) \in Seq(Entries) /\ Len(SubSeq(s, 1, 3)) = 3
          /\ \A k \in 1..3 : SubSeq(s, 1, 3)[k] = s[k]
      BY <2>6, FirstOf
    <3>2. /\ SubSeq(t, 1, 3) \in Seq(Entries) /\ Len(SubSeq(t, 1, 3)) = 3
          /\ \A k \in 1..3 : SubSeq(t, 1, 3)[k] = t[k]
      BY <1>3, <2>4, FirstOf
    <3>3. \A k \in 1..3 : s[k] = t[k]
      BY <2>4, <2>6
    <3> QED
      BY <3>1, <3>2, <3>3
  <2>8. IsPrefix(s, t)
    BY <2>4, <2>6, <2>7 DEF IsPrefix
  <2> QED
    BY <2>8 DEF s, t
<1> QED
  BY <1>4, <1>5

\* The records of a run that got through are in the file, in one piece.
LEMMA HistoryKeptHolds ==
  InvocationInv => HistoryKept
<1> SUFFICES ASSUME InvocationInv, probe = "history" PROVE
        /\ \A p \in Procs : code[p] = "0" =>
              \E n \in DOMAIN file : IsPrefix(Piece(p, 1) \o (IF peer.writes[p] = 2 THEN Piece(p, 2) ELSE <<>>),
                                              SubSeq(file, n, Len(file)))
        /\ \A p \in Procs : code[p] = "raised" => \E q \in Procs : peer.writes[q] = 2
        /\ (\A p \in Procs : at[p] # "flush" /\ code[p] # "killed") /\ ~Readable =>
              /\ {file[n][1] : n \in DOMAIN file} = Procs
              /\ \E q \in Procs : peer.writes[q] = 2
  BY DEF HistoryKept
<1>1. Historic /\ Recording /\ file \in Seq(Entries) /\ \A q \in Procs : peer.writes[q] \in {1, 2}
  BY HistoricIs DEF Historic
<1>2. ASSUME NEW p \in Procs, code[p] = "0"
      PROVE \E n \in DOMAIN file : IsPrefix(Piece(p, 1) \o (IF peer.writes[p] = 2 THEN Piece(p, 2) ELSE <<>>),
                                            SubSeq(file, n, Len(file)))
  <2>1. PICK n \in Nat : Entire(p, n)
    BY <1>1, <1>2 DEF Recording
  <2>2. n \in DOMAIN file
    BY <2>1 DEF Entire, Headed
  <2> QED
    BY <1>1, <2>1, <2>2, EntireIs
<1>3. \A p \in Procs : code[p] = "raised" => \E q \in Procs : peer.writes[q] = 2
  BY <1>1 DEF Recording
<1>4. ASSUME \A p \in Procs : at[p] # "flush" /\ code[p] # "killed", ~Readable
      PROVE {file[n][1] : n \in DOMAIN file} = Procs
  <2>1. \A n \in DOMAIN file : file[n] \in Entries /\ file[n][1] \in Procs
    BY <1>1 DEF Entries
  <2>2. ASSUME NEW p \in Procs PROVE \E n \in DOMAIN file : file[n][1] = p
    <3>1. SUFFICES ASSUME \A n \in DOMAIN file : file[n][1] # p PROVE FALSE
      OBVIOUS
    <3>2. PICK q \in Procs : \A r \in Procs : r # p => r = q
      BY DEF Procs
    <3>3. \A n \in DOMAIN file : file[n][1] = q
      BY <2>1, <3>1, <3>2
    <3>4. Orderly(q) /\ at[q] # "flush" /\ code[q] # "killed"
      BY <1>1, <1>4 DEF Recording
    <3> QED
      BY <1>4, <3>3, <3>4 DEF Orderly, Readable, Entry
  <2> QED
    BY <2>1, <2>2
<1>5. ~Readable => \E q \in Procs : peer.writes[q] = 2
  BY <1>1, Unreadable
<1> QED
  BY <1>2, <1>3, <1>4, <1>5

\* And the server's answers in the order of the lines.
LEMMA RepliesInOrderHolds ==
  InvocationInv => RepliesInOrder
<1>1. CASE InvocationInv /\ probe = "history"
  <2>1. Serving
    BY <1>1 DEF InvocationInv, HistoryInv
  <2> QED
    BY <1>1, <2>1 DEF Serving, Unanswered, RepliesInOrder
<1>2. CASE InvocationInv /\ probe # "history"
  <2>1. replies = <<>>
    BY <1>2 DEF InvocationInv, EstateInv, Elsewhere, InvocationIdle
  <2> QED
    BY <1>2, <2>1 DEF RepliesInOrder
<1> QED
  BY <1>1, <1>2

-----------------------------------------------------------------------------
(* Grades: the policy.                                                      *)

\* The greatest of a set, where there is one.
LEMMA MaxIs ==
  ASSUME NEW S \in SUBSET Int, NEW m \in S, \A y \in S : m >= y
  PROVE Max(S) = m
<1>1. \E x \in S : \A y \in S : x >= y
  OBVIOUS
<1> DEFINE x == CHOOSE c \in S : \A y \in S : c >= y
<1>2. x \in S /\ \A y \in S : x >= y
  <2> DEFINE P(c) == \A y \in S : c >= y
  <2>1. \E c \in S : P(c)
    BY <1>1
  <2> HIDE DEF P
  <2>2. (CHOOSE c \in S : P(c)) \in S /\ P(CHOOSE c \in S : P(c))
    BY <2>1
  <2> QED
    BY <2>2 DEF P
<1>3. Max(S) = x
  BY DEF Max
<1> HIDE DEF x
<1>4. x \in Int /\ m \in Int /\ x >= m /\ m >= x
  BY <1>2
<1> QED
  BY <1>3, <1>4

\* The least of a set, where there is one.
LEMMA MinIs ==
  ASSUME NEW S \in SUBSET Int, NEW m \in S, \A y \in S : m <= y
  PROVE Min(S) = m
<1>1. \E x \in S : \A y \in S : x =< y
  OBVIOUS
<1> DEFINE x == CHOOSE c \in S : \A y \in S : c =< y
<1>2. x \in S /\ \A y \in S : x =< y
  <2> DEFINE P(c) == \A y \in S : c =< y
  <2>1. \E c \in S : P(c)
    BY <1>1
  <2> HIDE DEF P
  <2>2. (CHOOSE c \in S : P(c)) \in S /\ P(CHOOSE c \in S : P(c))
    BY <2>1
  <2> QED
    BY <2>2 DEF P
<1>3. Min(S) = x
  BY DEF Min
<1> HIDE DEF x
<1>4. x \in Int /\ m \in Int /\ x =< m /\ m =< x
  BY <1>2
<1> QED
  BY <1>3, <1>4

\* The categories that have a score, from the best to the worst.
LEMMA ScoredIs ==
  /\ Scored = {"recommended", "acceptable", "weak", "insecure"}
  /\ Rank("recommended") = 1 /\ Rank("acceptable") = 2 /\ Rank("weak") = 3 /\ Rank("insecure") = 4
<1>1. Scored = {"recommended", "acceptable", "weak", "insecure"}
  BY DEF Scored, CategoryOrder, Range
<1>2. Rank("recommended") = 1 /\ Rank("acceptable") = 2 /\ Rank("weak") = 3 /\ Rank("insecure") = 4
  BY DEF Rank, CategoryOrder
<1> QED
  BY <1>1, <1>2

\* The worst category of a set, told by what is in it.
WorstOf(S) ==
    IF "insecure" \in S THEN "insecure" ELSE IF "weak" \in S THEN "weak"
    ELSE IF "acceptable" \in S THEN "acceptable" ELSE IF "recommended" \in S THEN "recommended" ELSE "unknown"

\* worst_category, told by what is in the set.
LEMMA WorstIs ==
  ASSUME NEW S
  PROVE Worst(S) = WorstOf(S)
<1> DEFINE scored == S \cap Scored
           ranks  == {Rank(c) : c \in scored}
<1>1. CASE scored = {}
  BY <1>1, ScoredIs DEF Worst, WorstOf
<1>2. CASE scored # {}
  <2>1. Worst(S) = CategoryOrder[Max(ranks)]
    BY <1>2 DEF Worst
  <2>2. \A m \in ranks : (\A y \in ranks : m >= y) => Max(ranks) = m
    <3>1. ranks \subseteq 1..4
      BY ScoredIs
    <3> HIDE DEF ranks
    <3> QED
      BY <3>1, MaxIs
  <2>3. CASE "insecure" \in S
    <3>1. 4 \in ranks /\ \A y \in ranks : 4 >= y
      BY <2>3, ScoredIs
    <3> QED
      BY <2>1, <2>2, <2>3, <3>1 DEF WorstOf, CategoryOrder
  <2>4. CASE "insecure" \notin S /\ "weak" \in S
    <3>1. 3 \in ranks /\ \A y \in ranks : 3 >= y
      BY <2>4, ScoredIs
    <3> QED
      BY <2>1, <2>2, <2>4, <3>1 DEF WorstOf, CategoryOrder
  <2>5. CASE "insecure" \notin S /\ "weak" \notin S /\ "acceptable" \in S
    <3>1. 2 \in ranks /\ \A y \in ranks : 2 >= y
      BY <2>5, ScoredIs
    <3> QED
      BY <2>1, <2>2, <2>5, <3>1 DEF WorstOf, CategoryOrder
  <2>6. CASE "insecure" \notin S /\ "weak" \notin S /\ "acceptable" \notin S /\ "recommended" \in S
    <3>1. 1 \in ranks /\ \A y \in ranks : 1 >= y
      BY <2>6, ScoredIs
    <3> QED
      BY <2>1, <2>2, <2>6, <3>1 DEF WorstOf, CategoryOrder
  <2> QED
    BY <1>2, <2>3, <2>4, <2>5, <2>6, ScoredIs
<1> QED
  BY <1>1, <1>2

\* The categories, with the one of which nothing is known.
Categories == {"recommended", "acceptable", "weak", "insecure", "unknown"}

\* What the policy says of the suites there are.
LEMMA SuiteIs ==
  /\ DOMAIN SuiteTags = {"gcm", "cbc", "triple_des", "rc4", "odd"}
  /\ Suite("gcm") = "recommended" /\ Suite("cbc") = "acceptable" /\ Suite("triple_des") = "weak"
  /\ Suite("rc4") = "insecure" /\ Suite("odd") = "unknown"
<1>1. DOMAIN SuiteTags = {"gcm", "cbc", "triple_des", "rc4", "odd"}
  BY DEF SuiteTags
<1>2. Suite("gcm") = "recommended"
  BY WorstIs DEF Suite, SuiteTags, TagCategory, WorstOf
<1>3. Suite("cbc") = "acceptable"
  BY WorstIs DEF Suite, SuiteTags, TagCategory, WorstOf
<1>4. Suite("triple_des") = "weak"
  BY WorstIs DEF Suite, SuiteTags, TagCategory, WorstOf
<1>5. Suite("rc4") = "insecure"
  BY WorstIs DEF Suite, SuiteTags, TagCategory, WorstOf
<1>6. Suite("odd") = "unknown"
  BY WorstIs DEF Suite, SuiteTags, TagCategory, WorstOf
<1> QED
  BY <1>1, <1>2, <1>3, <1>4, <1>5, <1>6

\* What it says of the versions.
LEMMA ProtocolIs ==
  /\ DOMAIN Protocol = {"tls1_3", "tls1_2", "tls1_0", "ssl3"}
  /\ Protocol["tls1_3"] = "recommended" /\ Protocol["tls1_2"] = "acceptable"
  /\ Protocol["tls1_0"] = "weak" /\ Protocol["ssl3"] = "insecure"
BY DEF Protocol

\* Whatever may be observed, within the bound of the model or beyond it.
Observable ==
    {o \in [protocols : SUBSET DOMAIN Protocol, ciphers : SUBSET DOMAIN SuiteTags,
            certificate : Certificates, alternate : {"none", "clean", "weak", "invalid"},
            cleartext : BOOLEAN] :
        /\ ~o.certificate.read => o.alternate = "none"
        /\ o.cleartext => o.protocols = {} /\ o.ciphers = {} /\ ~o.certificate.read}

\* What the runs observe can be observed.
LEMMA ObservationsAre ==
  Observations \subseteq Observable
<1>1. \A S : Some(S) \subseteq SUBSET S
  BY DEF Some, kSubset
<1> QED
  BY <1>1 DEF Observations, Observable

\* The classes of an observation, by what is in it.
LEMMA ClassesAre ==
  ASSUME NEW o \in Observable
  PROVE /\ ProtocolClass(o) = IF "ssl3" \in o.protocols THEN "insecure"
                              ELSE IF "tls1_0" \in o.protocols THEN "weak"
                              ELSE IF "tls1_2" \in o.protocols THEN "acceptable"
                              ELSE IF "tls1_3" \in o.protocols THEN "recommended" ELSE "unknown"
        /\ CipherClass(o) = IF "rc4" \in o.ciphers THEN "insecure"
                            ELSE IF "triple_des" \in o.ciphers THEN "weak"
                            ELSE IF "cbc" \in o.ciphers THEN "acceptable"
                            ELSE IF "gcm" \in o.ciphers THEN "recommended" ELSE "unknown"
        /\ CertificateClass(o) = IF o.certificate.invalid THEN "insecure"
                                 ELSE WorstOf({o.certificate.key, o.certificate.signature})
        /\ {ProtocolClass(o), CipherClass(o), CertificateClass(o)} \subseteq Categories
<1>1. o.protocols \subseteq DOMAIN Protocol /\ o.ciphers \subseteq DOMAIN SuiteTags
  BY DEF Observable
<1>2. ProtocolClass(o) = WorstOf({Protocol[p] : p \in o.protocols})
  BY WorstIs DEF ProtocolClass
<1>3. CipherClass(o) = WorstOf({Suite(c) : c \in o.ciphers})
  BY WorstIs DEF CipherClass
<1>4. CertificateClass(o) = IF o.certificate.invalid THEN "insecure"
                            ELSE WorstOf({o.certificate.key, o.certificate.signature})
  BY WorstIs DEF CertificateClass
<1>5. \A S : WorstOf(S) \in Categories
  BY DEF WorstOf, Categories
<1>6. /\ "insecure" \in {Protocol[p] : p \in o.protocols} <=> "ssl3" \in o.protocols
      /\ "weak" \in {Protocol[p] : p \in o.protocols} <=> "tls1_0" \in o.protocols
      /\ "acceptable" \in {Protocol[p] : p \in o.protocols} <=> "tls1_2" \in o.protocols
      /\ "recommended" \in {Protocol[p] : p \in o.protocols} <=> "tls1_3" \in o.protocols
  BY <1>1, ProtocolIs
<1>7. /\ "insecure" \in {Suite(c) : c \in o.ciphers} <=> "rc4" \in o.ciphers
      /\ "weak" \in {Suite(c) : c \in o.ciphers} <=> "triple_des" \in o.ciphers
      /\ "acceptable" \in {Suite(c) : c \in o.ciphers} <=> "cbc" \in o.ciphers
      /\ "recommended" \in {Suite(c) : c \in o.ciphers} <=> "gcm" \in o.ciphers
  BY <1>1, SuiteIs
<1>8. CertificateClass(o) \in Categories
  BY <1>4, <1>5 DEF Categories
<1>9. ProtocolClass(o) \in Categories /\ CipherClass(o) \in Categories
  BY <1>2, <1>3, <1>5
<1>10. ProtocolClass(o) = IF "ssl3" \in o.protocols THEN "insecure"
                              ELSE IF "tls1_0" \in o.protocols THEN "weak"
                              ELSE IF "tls1_2" \in o.protocols THEN "acceptable"
                              ELSE IF "tls1_3" \in o.protocols THEN "recommended" ELSE "unknown"
  BY <1>2, <1>6 DEF WorstOf
<1>11. CipherClass(o) = IF "rc4" \in o.ciphers THEN "insecure"
                            ELSE IF "triple_des" \in o.ciphers THEN "weak"
                            ELSE IF "cbc" \in o.ciphers THEN "acceptable"
                            ELSE IF "gcm" \in o.ciphers THEN "recommended" ELSE "unknown"
  BY <1>3, <1>7 DEF WorstOf
<1> QED
  BY <1>4, <1>8, <1>9, <1>10, <1>11

-----------------------------------------------------------------------------
(* Grades: from classes to a score and a grade.                             *)

\* One class less, or more.
One(c) == IF c \in Scored THEN 1 ELSE 0
\* What a class adds to the sum.
Worth(c) == IF c \in Scored THEN Score[c] ELSE 0

\* The scores of the classes.
LEMMA ScoreIs ==
  ASSUME NEW c \in Categories
  PROVE /\ One(c) = IF c = "unknown" THEN 0 ELSE 1
        /\ Worth(c) = CASE c = "recommended" -> 100 [] c = "acceptable" -> 80 [] c = "weak" -> 40 [] OTHER -> 0
BY ScoredIs DEF One, Worth, Score, Categories

\* How many classes count, and what they add up to.
LEMMA WeighedIs ==
  ASSUME NEW o \in Observable
  PROVE /\ Cardinality(Weighed(o)) = One(ProtocolClass(o)) + One(CipherClass(o)) + One(CertificateClass(o))
        /\ Total(o) = Worth(ProtocolClass(o)) + Worth(CipherClass(o)) + Worth(CertificateClass(o))
        /\ Weighed(o) = {} <=> /\ ProtocolClass(o) = "unknown" /\ CipherClass(o) = "unknown"
                               /\ CertificateClass(o) = "unknown"
<1> DEFINE p == ProtocolClass(o)
           c == CipherClass(o)
           t == CertificateClass(o)
<1>1. p \in Categories /\ c \in Categories /\ t \in Categories
  BY ClassesAre
<1>2. Classes(o)[1] = p /\ Classes(o)[2] = c /\ Classes(o)[3] = t
  BY DEF Classes
<1> HIDE DEF p, c, t
<1>3. Weighed(o) = {n \in 1..3 : (n = 1 /\ p \in Scored) \/ (n = 2 /\ c \in Scored) \/ (n = 3 /\ t \in Scored)}
  BY <1>2 DEF Weighed
<1>4. Total(o) = Worth(p) + Worth(c) + Worth(t)
  BY <1>2, <1>3 DEF Total, Points, Worth
<1> DEFINE A == IF p \in Scored THEN {1} ELSE {}
           B == IF c \in Scored THEN A \cup {2} ELSE A
           C == IF t \in Scored THEN B \cup {3} ELSE B
<1>5. Weighed(o) = C
  BY <1>3
<1>6. IsFiniteSet(A) /\ Cardinality(A) = One(p)
  BY FS_EmptySet, FS_Singleton DEF One
<1>7. 2 \notin A /\ 3 \notin B
  OBVIOUS
<1> HIDE DEF A
<1>8. IsFiniteSet(B) /\ Cardinality(B) = One(p) + One(c)
  <2>1. CASE c \in Scored
    <3>1. B = A \cup {2} /\ One(c) = 1
      BY <2>1 DEF One
    <3> HIDE DEF B
    <3> QED
      BY <1>6, <1>7, <3>1, FS_AddElement
  <2>2. CASE c \notin Scored
    BY <1>6, <2>2 DEF One
  <2> QED
    BY <2>1, <2>2
<1> HIDE DEF B
<1>9. IsFiniteSet(C) /\ Cardinality(C) = One(p) + One(c) + One(t)
  <2>1. CASE t \in Scored
    <3>1. C = B \cup {3} /\ One(t) = 1
      BY <2>1 DEF One
    <3> HIDE DEF C
    <3> QED
      BY <1>7, <1>8, <3>1, FS_AddElement
  <2>2. CASE t \notin Scored
    BY <1>8, <2>2 DEF One
  <2> QED
    BY <2>1, <2>2
<1>10. Weighed(o) = {} <=> p = "unknown" /\ c = "unknown" /\ t = "unknown"
  BY <1>1, <1>3, ScoredIs DEF Categories
<1> QED
  BY <1>4, <1>5, <1>9, <1>10 DEF p, c, t

\* A mean, rounded.
Mean(total, n) == (2 * total + n) \div (2 * n)

\* A sum that is no greater, over no fewer, has no greater mean.
LEMMA MeanFalls ==
  ASSUME NEW t \in Nat, NEW n \in 1..3, NEW s \in Nat, NEW m \in 1..3, s <= t, n <= m
  PROVE Mean(s, m) \in Nat /\ Mean(s, m) <= Mean(t, n)
<1>1. (n = 1 \/ n = 2 \/ n = 3) /\ (m = 1 \/ m = 2 \/ m = 3)
  OBVIOUS
<1>2. CASE n = 1 /\ m = 1
  BY <1>2 DEF Mean
<1>3. CASE n = 1 /\ m = 2
  BY <1>3 DEF Mean
<1>4. CASE n = 1 /\ m = 3
  BY <1>4 DEF Mean
<1>5. CASE n = 2 /\ m = 2
  BY <1>5 DEF Mean
<1>6. CASE n = 2 /\ m = 3
  BY <1>6 DEF Mean
<1>7. CASE n = 3 /\ m = 3
  BY <1>7 DEF Mean
<1> QED
  BY <1>1, <1>2, <1>3, <1>4, <1>5, <1>6, <1>7

\* A mean of scores is a score.
LEMMA MeanBounded ==
  ASSUME NEW n \in 1..3, NEW t \in 0..(100 * n)
  PROVE Mean(t, n) \in 0..100 /\ Mean(100 * n, n) = 100
<1>1. n = 1 \/ n = 2 \/ n = 3
  OBVIOUS
<1>2. CASE n = 1
  BY <1>2 DEF Mean
<1>3. CASE n = 2
  BY <1>3 DEF Mean
<1>4. CASE n = 3
  BY <1>4 DEF Mean
<1> QED
  BY <1>1, <1>2, <1>3, <1>4

\* The grade of a score, by its thresholds, 1 the best.
GradeOf(score) ==
    IF score >= 95 THEN 1 ELSE IF score >= 90 THEN 2 ELSE IF score >= 80 THEN 3 ELSE IF score >= 70 THEN 4
    ELSE IF score >= 60 THEN 5 ELSE IF score >= 50 THEN 6 ELSE 7

\* _grade_for walks the thresholds to the same.
LEMMA GradeIs ==
  ASSUME NEW score \in Nat
  PROVE GradeFor(score) = GradeOf(score)
<1> DEFINE S == {g \in 1..7 : score >= Floor(g)}
<1>1. /\ Floor(1) = 95 /\ Floor(2) = 90 /\ Floor(3) = 80 /\ Floor(4) = 70
      /\ Floor(5) = 60 /\ Floor(6) = 50 /\ Floor(7) = 0
  BY DEF Floor
<1>2. \A g \in 1..7 : g = 1 \/ g = 2 \/ g = 3 \/ g = 4 \/ g = 5 \/ g = 6 \/ g = 7
  OBVIOUS
<1>3. GradeOf(score) \in S /\ \A g \in S : GradeOf(score) <= g
  BY <1>1, <1>2 DEF GradeOf
<1>4. S \in SUBSET Int /\ GradeFor(score) = Min(S)
  BY DEF GradeFor
<1> HIDE DEF S
<1> QED
  BY <1>3, <1>4, MinIs

\* A cap only ever lowers a grade, to one of the caps' grades.
LEMMA CapIs ==
  ASSUME NEW o, NEW grade \in 1..7
  PROVE /\ Capped(o, grade) \in 1..7 /\ Capped(o, grade) >= grade
        /\ Capped(o, grade) \in {grade} \cup {GradeCap[c] : c \in Caps(o)}
        /\ \A c \in Caps(o) : GradeCap[c] \in {4, 7} /\ Capped(o, grade) >= GradeCap[c]
<1> DEFINE S == {grade} \cup {GradeCap[c] : c \in Caps(o)}
<1>1. \A c \in Caps(o) : GradeCap[c] \in {4, 7}
  BY DEF Caps, GradeCap
<1>2. \E m \in S : m \in 1..7 /\ \A y \in S : m >= y
  <2>1. CASE \E c \in Caps(o) : GradeCap[c] = 7
    BY <1>1, <2>1
  <2>2. CASE ~(\E c \in Caps(o) : GradeCap[c] = 7) /\ grade < 4 /\ Caps(o) # {}
    BY <1>1, <2>2
  <2>3. CASE ~(\E c \in Caps(o) : GradeCap[c] = 7) /\ (grade >= 4 \/ Caps(o) = {})
    BY <1>1, <2>3
  <2> QED
    BY <2>1, <2>2, <2>3
<1>3. S \in SUBSET Int /\ Capped(o, grade) = Max(S)
  BY <1>1 DEF Capped
<1> HIDE DEF S
<1>4. PICK m \in S : m \in 1..7 /\ \A y \in S : m >= y
  BY <1>2
<1>5. Capped(o, grade) = m
  BY <1>3, <1>4, MaxIs
<1>6. grade \in S /\ \A c \in Caps(o) : GradeCap[c] \in S
  BY DEF S
<1> QED
  BY <1>1, <1>4, <1>5, <1>6 DEF S

-----------------------------------------------------------------------------
(* Grades: the invariant.                                                   *)

\* A report is made once, of what was observed, and a profile is judged after it.
GradingInv ==
    /\ probe = "grade" =>
          /\ peer \in Observations /\ pc \in {"assess", "conform", "done"}
          /\ report = IF pc = "assess" THEN NoReport ELSE Report(peer)
          /\ pc = "done" => verdict.is = LocalConformance(peer)
    /\ probe = "profile" =>
          /\ peer.facts \in Facts /\ peer.rules \in Profiles /\ pc \in {"conform", "done"}
          /\ report = NoReport
          /\ pc = "done" => verdict.is = Conformance(peer.rules, peer.facts)
    /\ probe \notin {"grade", "profile"} => report = NoReport

\* It holds of every stage as it begins.
LEMMA GradingBegins ==
  Init => GradingInv
<1> SUFFICES ASSUME Init PROVE GradingInv
  OBVIOUS
<1>1. CASE GradingIdle /\ probe \notin {"grade", "profile"}
  BY <1>1 DEF GradingIdle, GradingInv
<1>2. CASE GradingInit
  <2>1. report = NoReport
    BY <1>2 DEF GradingInit
  <2>2. CASE \E o \in Observations : Begin("grade", o, "assess")
    BY <2>1, <2>2 DEF GradingInv, Begin
  <2>3. CASE \E f \in Facts : \E p \in Profiles : Begin("profile", [facts |-> f, rules |-> p], "conform")
    BY <2>1, <2>3 DEF GradingInv, Begin
  <2> QED
    BY <1>2, <2>2, <2>3 DEF GradingInit
<1> QED
  BY <1>1, <1>2 DEF Init, TrustInit, InvocationInit, Begin

\* The other stages do not touch it.
LEMMA GradingStays ==
  ASSUME GradingInv, UNCHANGED <<probe, peer, report>>,
         probe \in {"grade", "profile"} => UNCHANGED <<pc, verdict>>
  PROVE GradingInv'
BY DEF GradingInv

\* Its own steps keep it.
LEMMA GradingKept ==
  ASSUME GradingInv, GradingStep
  PROVE GradingInv'
<1>1. CASE Assess
  <2>1. /\ probe = "grade" /\ pc = "assess" /\ report' = Report(peer) /\ pc' = "conform"
        /\ UNCHANGED <<probe, peer>>
    BY <1>1 DEF Assess
  <2>2. Report(peer)' = Report(peer)
    BY <2>1
  <2> QED
    BY <2>1, <2>2 DEF GradingInv
<1>2. CASE Conform
  <2>1. pc = "conform" /\ pc' = "done" /\ UNCHANGED <<probe, peer, report>>
    BY <1>2 DEF Conform, Conclude
  <2>2. CASE probe = "grade" /\ Conclude([is |-> LocalConformance(peer)])
    <3>1. verdict' = [is |-> LocalConformance(peer)]
      BY <2>2 DEF Conclude
    <3>2. verdict'.is = LocalConformance(peer) /\ LocalConformance(peer)' = LocalConformance(peer)
      BY <2>1, <3>1
    <3>3. Report(peer)' = Report(peer)
      BY <2>1
    <3> QED
      BY <2>1, <2>2, <3>2, <3>3 DEF GradingInv
  <2>3. CASE probe = "profile" /\ Conclude([is |-> Conformance(peer.rules, peer.facts)])
    <3>1. verdict' = [is |-> Conformance(peer.rules, peer.facts)]
      BY <2>3 DEF Conclude
    <3>2. /\ verdict'.is = Conformance(peer.rules, peer.facts)
          /\ Conformance(peer.rules, peer.facts)' = Conformance(peer.rules, peer.facts)
      BY <2>1, <3>1
    <3> QED
      BY <2>1, <2>3, <3>2 DEF GradingInv
  <2> QED
    BY <1>2, <2>2, <2>3 DEF Conform
<1> QED
  BY <1>1, <1>2 DEF GradingStep

-----------------------------------------------------------------------------
(* Grades: what a report says.                                              *)

\* A certificate's key and signature are of the categories.
LEMMA CertificateIs ==
  ASSUME NEW o \in Observable
  PROVE /\ o.certificate \in Certificates
        /\ o.certificate.key \in {"recommended", "weak", "insecure", "unknown"}
        /\ o.certificate.signature \in {"recommended", "insecure", "unknown"}
        /\ o.certificate.invalid \in BOOLEAN /\ o.certificate.self_signed \in BOOLEAN
        /\ o.certificate.read \in BOOLEAN
        /\ ~o.certificate.read => o.certificate = NoCertificate
<1>1. o.certificate \in Certificates
  BY DEF Observable
<1>2. CASE o.certificate = NoCertificate
  BY <1>1, <1>2 DEF NoCertificate
<1>3. CASE o.certificate \in
             [read : {TRUE}, key : {"recommended", "weak", "insecure", "unknown"},
              signature : {"recommended", "insecure", "unknown"}, invalid : BOOLEAN, self_signed : BOOLEAN]
  BY <1>1, <1>3
<1> QED
  BY <1>1, <1>2, <1>3 DEF Certificates

\* Its fields, one by one.
Judged(o) ==
    LET worst == Worst({ProtocolClass(o), CipherClass(o), CertificateClass(o)})
    IN  [score |-> IF o.cleartext \/ Weighed(o) = {} THEN 0 ELSE Base(o),
         grade |-> IF o.cleartext THEN GradeFor(0)
                   ELSE IF Weighed(o) = {} THEN 0 ELSE Capped(o, GradeFor(Base(o))),
         verdict |-> IF o.cleartext \/ o.alternate = "invalid" THEN "insecure"
                     ELSE IF Weighed(o) = {} THEN "unknown" ELSE VerdictFor[worst]]

\* A report is what the functions make of the observation, each on its own.
LEMMA ReportIs ==
  ASSUME NEW o \in Observable
  PROVE /\ Report(o).score = Judged(o).score /\ Report(o).grade = Judged(o).grade
        /\ Report(o).verdict = Judged(o).verdict
        /\ Report(o).strength = Strength(o) /\ Report(o).vulnerabilities = Vulnerabilities(o)
<1>1. Range(Classes(o)) = {ProtocolClass(o), CipherClass(o), CertificateClass(o)}
  BY DEF Range, Classes
<1>2. CASE o.cleartext
  <2>1. o.alternate = "none"
    BY <1>2 DEF Observable
  <2> QED
    BY <1>2, <2>1 DEF Report, NoReport, Judged
<1>3. CASE ~o.cleartext /\ Weighed(o) = {}
  BY <1>3 DEF Report, NoReport, Judged
<1>4. CASE ~o.cleartext /\ Weighed(o) # {}
  BY <1>1, <1>4 DEF Report, NoReport, Judged
<1> QED
  BY <1>2, <1>3, <1>4

\* The strengths there are.
Bits == {0, 38, 80, 112, 128, 999}

\* The least of a set of strengths.
LEMMA WeakestIs ==
  ASSUME NEW S \in SUBSET Bits, 999 \in S
  PROVE Min(S) \in S /\ \A y \in S : Min(S) <= y
<1>1. \E m \in S : \A y \in S : m <= y
  <2>1. CASE 0 \in S
    BY <2>1 DEF Bits
  <2>2. CASE 0 \notin S /\ 38 \in S
    BY <2>2 DEF Bits
  <2>3. CASE 0 \notin S /\ 38 \notin S /\ 80 \in S
    BY <2>3 DEF Bits
  <2>4. CASE 0 \notin S /\ 38 \notin S /\ 80 \notin S /\ 112 \in S
    BY <2>4 DEF Bits
  <2>5. CASE 0 \notin S /\ 38 \notin S /\ 80 \notin S /\ 112 \notin S /\ 128 \in S
    BY <2>5 DEF Bits
  <2>6. CASE 0 \notin S /\ 38 \notin S /\ 80 \notin S /\ 112 \notin S /\ 128 \notin S
    BY <2>6 DEF Bits
  <2> QED
    BY <2>1, <2>2, <2>3, <2>4, <2>5, <2>6
<1>2. S \in SUBSET Int
  BY DEF Bits
<1>3. PICK m \in S : \A y \in S : m <= y
  BY <1>1
<1>4. Min(S) = m
  BY <1>2, <1>3, MinIs
<1> QED
  BY <1>3, <1>4

\* What the strength is the least of.
Parts(o) ==
    {SuiteBits[c] : c \in o.ciphers} \cup (IF o.certificate.read THEN {KeyBits[o.certificate.key]} ELSE {})
    \cup {999}

\* The strength of a configuration is that of its weakest part.
LEMMA StrengthIs ==
  ASSUME NEW o \in Observable
  PROVE /\ Parts(o) \in SUBSET Bits /\ Strength(o) \in Parts(o)
        /\ \A y \in Parts(o) : Strength(o) <= y
<1>1. o.ciphers \subseteq DOMAIN SuiteTags
  BY DEF Observable
<1>2. \A c \in o.ciphers : SuiteBits[c] \in Bits
  BY <1>1, SuiteIs DEF SuiteBits, Bits
<1>3. KeyBits[o.certificate.key] \in Bits
  BY CertificateIs DEF KeyBits, Bits
<1>4. 999 \in Parts(o) /\ Parts(o) \in SUBSET Bits
  BY <1>2, <1>3 DEF Parts, Bits
<1>5. Strength(o) = Min(Parts(o))
  BY DEF Strength, Parts
<1> HIDE DEF Parts
<1> QED
  BY <1>4, <1>5, WeakestIs

\* The number of classes that count, their sum and the mean.
LEMMA BaseIs ==
  ASSUME NEW o \in Observable, Weighed(o) # {}
  PROVE /\ Cardinality(Weighed(o)) \in 1..3 /\ Total(o) \in 0..(100 * Cardinality(Weighed(o)))
        /\ Base(o) = Mean(Total(o), Cardinality(Weighed(o))) /\ Base(o) \in 0..100
<1> DEFINE p == ProtocolClass(o)
           c == CipherClass(o)
           t == CertificateClass(o)
           n == Cardinality(Weighed(o))
<1>1. p \in Categories /\ c \in Categories /\ t \in Categories
  BY ClassesAre
<1>2. n = One(p) + One(c) + One(t) /\ Total(o) = Worth(p) + Worth(c) + Worth(t)
      /\ ~(p = "unknown" /\ c = "unknown" /\ t = "unknown")
  BY WeighedIs
<1>3. Base(o) = Mean(Total(o), n)
  BY DEF Base, Mean
<1> HIDE DEF p, c, t, n
<1>4. \A x \in Categories : One(x) \in {0, 1} /\ Worth(x) \in 0..100 /\ (One(x) = 0 => Worth(x) = 0)
                            /\ (One(x) = 0 <=> x = "unknown")
  BY ScoreIs DEF Categories
<1>5. n \in 1..3 /\ Total(o) \in 0..(100 * n)
  <2> DEFINE i == One(p)
             j == One(c)
             k == One(t)
             u == Worth(p)
             v == Worth(c)
             w == Worth(t)
  <2>1. i \in {0, 1} /\ j \in {0, 1} /\ k \in {0, 1} /\ (i = 1 \/ j = 1 \/ k = 1)
    BY <1>1, <1>2, <1>4
  <2>2. /\ u \in 0..100 /\ v \in 0..100 /\ w \in 0..100
        /\ i = 0 => u = 0
        /\ j = 0 => v = 0
        /\ k = 0 => w = 0
    BY <1>1, <1>4
  <2>3. n = i + j + k /\ Total(o) = u + v + w
    BY <1>2
  <2> HIDE DEF i, j, k, u, v, w
  <2>4. u + v + w <= 100 * (i + j + k)
    BY <2>1, <2>2, SMTT(30)
  <2> QED
    BY <2>1, <2>2, <2>3, <2>4
<1>6. Base(o) \in 0..100
  <2>1. \A m \in 1..3 : \A s \in 0..(100 * m) : Mean(s, m) \in 0..100
    BY MeanBounded
  <2> QED
    BY <1>3, <1>5, <2>1
<1> QED
  BY <1>3, <1>5, <1>6 DEF n

\* The worst of the classes, where any counts.
LEMMA OverallIs ==
  ASSUME NEW o \in Observable, Weighed(o) # {}
  PROVE LET worst == Worst({ProtocolClass(o), CipherClass(o), CertificateClass(o)})
        IN  /\ worst = WorstOf({ProtocolClass(o), CipherClass(o), CertificateClass(o)})
            /\ worst \in {"recommended", "acceptable", "weak", "insecure"}
<1>1. {ProtocolClass(o), CipherClass(o), CertificateClass(o)} \subseteq Categories
  BY ClassesAre
<1>2. ~(ProtocolClass(o) = "unknown" /\ CipherClass(o) = "unknown" /\ CertificateClass(o) = "unknown")
  BY WeighedIs
<1> QED
  BY <1>1, <1>2, WorstIs DEF WorstOf, Categories

\* The types of a report follow from the invariant.
LEMMA GradingTyped ==
  ASSUME GradingInv
  PROVE GradingTypeOK
<1>1. CASE report = NoReport
  BY <1>1 DEF GradingTypeOK, NoReport
<1>2. CASE probe = "grade" /\ report = Report(peer)
  <2> DEFINE o == peer
  <2>1. o \in Observable
    BY <1>2, ObservationsAre DEF GradingInv
  <2>2. report.vulnerabilities \subseteq DOMAIN Detection
    BY <1>2, <2>1, ReportIs DEF Vulnerabilities
  <2>3. report.strength \in 0..999
    BY <1>2, <2>1, ReportIs, StrengthIs DEF Bits
  <2>4. report.score \in 0..100
    <3>1. report.score = IF o.cleartext \/ Weighed(o) = {} THEN 0 ELSE Base(o)
      BY <1>2, <2>1, ReportIs DEF Judged
    <3>2. Weighed(o) # {} => Base(o) \in 0..100
      BY <2>1, BaseIs
    <3> QED
      BY <3>1, <3>2
  <2>5. report.grade \in 0..7
    <3>1. GradeFor(0) \in 1..7 /\ (Weighed(o) # {} => GradeFor(Base(o)) \in 1..7)
      BY <2>1, BaseIs, GradeIs DEF GradeOf
    <3>2. Weighed(o) # {} => Capped(o, GradeFor(Base(o))) \in 1..7
      BY <3>1, CapIs
    <3>3. report.grade = Judged(o).grade
      BY <1>2, <2>1, ReportIs
    <3> QED
      BY <3>1, <3>2, <3>3 DEF Judged
  <2>6. report.verdict \in {"unknown", "secure", "acceptable", "weak", "insecure"}
    <3>1. report.verdict = Judged(o).verdict
      BY <1>2, <2>1, ReportIs
    <3> QED
      BY <2>1, <3>1, OverallIs DEF Judged, VerdictFor
  <2> QED
    BY <2>2, <2>3, <2>4, <2>5, <2>6 DEF GradingTypeOK
<1> QED
  BY <1>1, <1>2 DEF GradingInv

-----------------------------------------------------------------------------
(* Profiles are honest.                                                     *)

\* A profile has rules of the forms there are, one at most of a kind.
LEMMA ProfileIs ==
  ASSUME NEW rules \in Profiles
  PROVE /\ \A r \in rules : r[1] \in RuleKinds /\ r[2] \in {"require", "forbid"}
        /\ \A q, r \in rules : q[1] = r[1] => q = r
<1>1. \A n : kSubset(n, RuleForms) \subseteq SUBSET RuleForms
  BY DEF kSubset
<1>2. rules \subseteq RuleForms
  BY <1>1 DEF Profiles
<1>3. \A r \in RuleForms : r[2] \in {"require", "forbid"}
  BY DEF RuleForms
<1> QED
  BY <1>2, <1>3 DEF Profiles, RuleKinds

\* Evidence that is lost helps only against a rule that forbids what it was of.
LEMMA LostEvidence ==
  ASSUME NEW f \in Facts, NEW rules \in Profiles, NEW r \in rules,
         Conformance(rules, f) # "pass", Conformance(rules, [f EXCEPT ![r[1]] = "nothing"]) = "pass"
  PROVE r[2] = "forbid" /\ f[r[1]] = "bad"
<1> DEFINE lost == [f EXCEPT ![r[1]] = "nothing"]
<1>1. f \in [RuleKinds -> {"good", "bad", "nothing"}]
  BY DEF Facts
<1>2. /\ r[1] \in RuleKinds /\ r[2] \in {"require", "forbid"}
      /\ \A q \in rules : q[1] = r[1] => q = r
      /\ \A q \in rules : q[1] \in RuleKinds
  BY ProfileIs
<1>3. lost[r[1]] = "nothing" /\ \A k \in RuleKinds \ {r[1]} : lost[k] = f[k]
  BY <1>1, <1>2
<1>4. "protocol" \in RuleKinds
  <2>1. <<"protocol", "require">> \in RuleForms
    BY DEF RuleForms
  <2> QED
    BY <2>1 DEF RuleKinds
<1> HIDE DEF lost
<1>5. /\ lost["protocol"] # "nothing" /\ Unverified(rules, lost) = {}
      /\ \A q \in rules : lost[q[1]] # "bad"
  BY DEF Conformance, lost
<1>6. r[1] # "protocol" /\ f["protocol"] # "nothing"
  BY <1>3, <1>4, <1>5
<1>7. \A q \in rules : q[2] = "require" /\ q[1] # "protocol" => lost[q[1]] # "nothing"
  BY <1>5 DEF Unverified
<1>8. r[2] = "forbid"
  BY <1>2, <1>3, <1>6, <1>7
<1>9. ASSUME f[r[1]] # "bad" PROVE FALSE
  <2>1. \A q \in rules : f[q[1]] # "bad"
    BY <1>2, <1>3, <1>5, <1>9
  <2>2. Unverified(rules, f) = {}
    <3>1. ASSUME NEW q \in rules, q[2] = "require", q[1] # "protocol" PROVE f[q[1]] # "nothing"
      <4>1. q[1] # r[1]
        BY <1>2, <1>8, <3>1
      <4> QED
        BY <1>2, <1>3, <1>7, <3>1, <4>1
    <3> QED
      BY <3>1 DEF Unverified
  <2>3. Conformance(rules, f) = "pass"
    BY <1>6, <2>1, <2>2 DEF Conformance
  <2> QED
    BY <2>3
<1> QED
  BY <1>8, <1>9

\* What the tool's own policy passes has neither weak protocols nor weak suites nor a
\* weak certificate.
LEMMA LocalIs ==
  ASSUME NEW o \in Observable, LocalConformance(o) = "pass"
  PROVE /\ o.protocols # {} /\ ProtocolClass(o) \notin {"weak", "insecure"}
        /\ CipherClass(o) \notin {"weak", "insecure"}
        /\ ~o.certificate.invalid => CertificateClass(o) \notin {"weak", "insecure"}
<1>1. o.protocols \subseteq DOMAIN Protocol /\ o.ciphers \subseteq DOMAIN SuiteTags
  BY DEF Observable
<1>2. /\ o.protocols # {}
      /\ \A p \in o.protocols : Protocol[p] \notin {"weak", "insecure"}
      /\ \A c \in o.ciphers : Suite(c) \notin {"weak", "insecure"}
      /\ Worst({o.certificate.key, o.certificate.signature}) \notin {"weak", "insecure"}
  BY DEF LocalConformance
<1>3. "ssl3" \notin o.protocols /\ "tls1_0" \notin o.protocols
  BY <1>2, ProtocolIs
<1>4. "rc4" \notin o.ciphers /\ "triple_des" \notin o.ciphers
  BY <1>2, SuiteIs
<1>5. ProtocolClass(o) \notin {"weak", "insecure"}
  BY <1>3, ClassesAre
<1>6. CipherClass(o) \notin {"weak", "insecure"}
  BY <1>4, ClassesAre
<1>7. ~o.certificate.invalid => CertificateClass(o) \notin {"weak", "insecure"}
  BY <1>2 DEF CertificateClass
<1> QED
  BY <1>2, <1>5, <1>6, <1>7

\* So a verdict that calls it weak or insecure is about a certificate that is rejected.
LEMMA LocalVerdict ==
  ASSUME NEW o \in Observable, LocalConformance(o) = "pass"
  PROVE /\ Report(o).verdict # "weak"
        /\ Report(o).verdict = "insecure" => o.certificate.invalid \/ o.alternate = "invalid"
<1>1. ~o.cleartext
  BY LocalIs DEF Observable
<1>2. Report(o).verdict = Judged(o).verdict
  BY ReportIs
<1>3. CASE o.alternate = "invalid"
  BY <1>2, <1>3 DEF Judged
<1>4. CASE o.alternate # "invalid" /\ Weighed(o) = {}
  BY <1>1, <1>2, <1>4 DEF Judged
<1>5. CASE o.alternate # "invalid" /\ Weighed(o) # {}
  <2> DEFINE p == ProtocolClass(o)
             c == CipherClass(o)
             t == CertificateClass(o)
             worst == Worst({p, c, t})
  <2>1. worst = WorstOf({p, c, t}) /\ worst \in {"recommended", "acceptable", "weak", "insecure"}
    BY <1>5, OverallIs
  <2>2. Report(o).verdict = VerdictFor[worst]
    BY <1>1, <1>2, <1>5 DEF Judged
  <2>3. /\ p \notin {"weak", "insecure"} /\ c \notin {"weak", "insecure"}
        /\ ~o.certificate.invalid => t \notin {"weak", "insecure"}
        /\ o.certificate.invalid => t = "insecure"
    BY LocalIs, ClassesAre
  <2> HIDE DEF p, c, t
  <2>4. CASE o.certificate.invalid
    <3>1. worst = "insecure"
      BY <2>1, <2>3, <2>4 DEF WorstOf
    <3> QED
      BY <2>2, <2>4, <3>1 DEF VerdictFor
  <2>5. CASE ~o.certificate.invalid
    <3>1. worst \in {"recommended", "acceptable"}
      BY <2>1, <2>3, <2>5 DEF WorstOf
    <3> QED
      BY <2>2, <3>1 DEF VerdictFor
  <2> QED
    BY <2>4, <2>5
<1> QED
  BY <1>3, <1>4, <1>5

\* What a profile that is met was observed of.
LEMMA PassIs ==
  ASSUME NEW rules \in Profiles, NEW f \in Facts
  PROVE Conformance(rules, f) = "pass" <=>
           /\ f["protocol"] # "nothing"
           /\ \A r \in rules : f[r[1]] = "good" \/ (f[r[1]] = "nothing" /\ r[2] = "forbid")
<1>1. ASSUME NEW r \in rules
      PROVE /\ f[r[1]] \in {"good", "bad", "nothing"} /\ r[2] \in {"require", "forbid"}
  <2>1. r[1] \in RuleKinds /\ r[2] \in {"require", "forbid"}
    BY ProfileIs
  <2> QED
    BY <2>1 DEF Facts
<1>2. CASE f["protocol"] = "nothing"
  BY <1>2 DEF Conformance
<1>3. CASE f["protocol"] # "nothing" /\ \E r \in rules : f[r[1]] = "bad"
  BY <1>3 DEF Conformance
<1>4. CASE f["protocol"] # "nothing" /\ ~\E r \in rules : f[r[1]] = "bad"
  <2>1. Conformance(rules, f) = "pass" <=> Unverified(rules, f) = {}
    BY <1>4 DEF Conformance
  <2>2. Unverified(rules, f) = {} <=> \A r \in rules : ~(r[2] = "require" /\ r[1] # "protocol" /\ f[r[1]] = "nothing")
    BY DEF Unverified
  <2> QED
    BY <1>1, <1>4, <2>1, <2>2
<1> QED
  BY <1>2, <1>3, <1>4

\* So does that a profile is met only on evidence.
LEMMA ProfilesHonestHolds ==
  ASSUME GradingInv
  PROVE ProfilesHonest
<1>1. ASSUME pc = "done", probe = "profile", NEW r \in peer.rules, verdict.is # "pass",
             Conformance(peer.rules, [peer.facts EXCEPT ![r[1]] = "nothing"]) = "pass"
      PROVE r[2] = "forbid" /\ peer.facts[r[1]] = "bad"
  <2>1. /\ peer.facts \in Facts /\ peer.rules \in Profiles
        /\ Conformance(peer.rules, peer.facts) # "pass"
    BY <1>1 DEF GradingInv
  <2> QED
    BY <1>1, <2>1, LostEvidence
<1>2. ASSUME pc = "done", probe = "grade", verdict.is = "pass"
      PROVE /\ report.verdict # "weak"
            /\ report.verdict = "insecure" => peer.certificate.invalid \/ peer.alternate = "invalid"
  <2>1. peer \in Observable /\ report = Report(peer) /\ LocalConformance(peer) = "pass"
    BY <1>2, ObservationsAre DEF GradingInv
  <2> QED
    BY <2>1, LocalVerdict
<1>3. ASSUME pc = "done", probe = "profile"
      PROVE verdict.is = "pass" <=>
               /\ peer.facts["protocol"] # "nothing"
               /\ \A r \in peer.rules : \/ peer.facts[r[1]] = "good"
                                        \/ peer.facts[r[1]] = "nothing" /\ r[2] = "forbid"
  <2>1. peer.facts \in Facts /\ peer.rules \in Profiles /\ verdict.is = Conformance(peer.rules, peer.facts)
    BY <1>3 DEF GradingInv
  <2> QED
    BY <2>1, PassIs
<1> QED
  BY <1>1, <1>2, <1>3 DEF ProfilesHonest

-----------------------------------------------------------------------------
(* Grades are consistent.                                                   *)

\* One condition of the policy, by what it is.
LEMMA ConditionIs ==
  ASSUME NEW o, NEW of
  PROVE /\ Innermost(o, Is("protocol", of)) <=> of \in o.protocols
        /\ Nested(o, Is("protocol", of)) <=> of \in o.protocols
        /\ Matches(o, Is("protocol", of)) <=> of \in o.protocols
        /\ Nested(o, Is("cipher_tag", of)) <=> \E c \in o.ciphers : of \in SuiteTags[c]
        /\ Matches(o, Is("cipher_tag", of)) <=> \E c \in o.ciphers : of \in SuiteTags[c]
        /\ Nested(o, Is("any", of)) <=> \E sub \in of : Innermost(o, sub)
        /\ Matches(o, Is("all", of)) <=> \A sub \in of : Nested(o, sub)
<1>1. \A kind : Is(kind, of).is = kind /\ Is(kind, of).of = of
  BY DEF Is
<1>2. Innermost(o, Is("protocol", of)) <=> of \in o.protocols
  BY <1>1 DEF Innermost, Match
<1>3. Nested(o, Is("protocol", of)) <=> of \in o.protocols
  BY <1>1 DEF Nested, Match, Within
<1>4. Matches(o, Is("protocol", of)) <=> of \in o.protocols
  BY <1>1 DEF Matches, Match, Within
<1>5. Nested(o, Is("cipher_tag", of)) <=> \E c \in o.ciphers : of \in SuiteTags[c]
  BY <1>1 DEF Nested, Match, Within
<1>6. Matches(o, Is("cipher_tag", of)) <=> \E c \in o.ciphers : of \in SuiteTags[c]
  BY <1>1 DEF Matches, Match, Within
<1>7. Nested(o, Is("any", of)) <=> \E sub \in of : Innermost(o, sub)
  BY <1>1 DEF Nested, Match, Within
<1>8. Matches(o, Is("all", of)) <=> \A sub \in of : Nested(o, sub)
  BY <1>1 DEF Matches, Match, Within
<1> QED
  BY <1>2, <1>3, <1>4, <1>5, <1>6, <1>7, <1>8

\* The vulnerabilities it knows.
LEMMA VulnerabilitiesAre ==
  ASSUME NEW o
  PROVE Vulnerabilities(o) =
          {v \in DOMAIN Detection :
             CASE v = "POODLE"  -> "ssl3" \in o.protocols
               [] v = "SWEET32" -> \E c \in o.ciphers : "3des" \in SuiteTags[c]
               [] v = "RC4"     -> \E c \in o.ciphers : "rc4" \in SuiteTags[c]
               [] v = "BEAST"   -> /\ "tls1_0" \in o.protocols
                                   /\ \E c \in o.ciphers : "cbc" \in SuiteTags[c]}
<1>1. DOMAIN Detection = {"POODLE", "SWEET32", "RC4", "BEAST"}
  BY DEF Detection
<1>2. Matches(o, Detection["POODLE"]) <=> ("ssl3" \in o.protocols)
  BY ConditionIs DEF Detection
<1>3. Matches(o, Detection["SWEET32"]) <=> \E c \in o.ciphers : "3des" \in SuiteTags[c]
  BY ConditionIs DEF Detection
<1>4. Matches(o, Detection["RC4"]) <=> \E c \in o.ciphers : "rc4" \in SuiteTags[c]
  BY ConditionIs DEF Detection
<1>5. Matches(o, Detection["BEAST"]) <=>
         "tls1_0" \in o.protocols /\ \E c \in o.ciphers : "cbc" \in SuiteTags[c]
  <2> DEFINE one == Is("any", {Is("protocol", "tls1_0")})
             two == Is("cipher_tag", "cbc")
  <2>1. Detection["BEAST"] = Is("all", {one, two})
    BY DEF Detection
  <2>2. Nested(o, one) <=> "tls1_0" \in o.protocols
    <3>1. Nested(o, one) <=> \E sub \in {Is("protocol", "tls1_0")} : Innermost(o, sub)
      BY ConditionIs
    <3>2. Innermost(o, Is("protocol", "tls1_0")) <=> ("tls1_0" \in o.protocols)
      BY ConditionIs
    <3> QED
      BY <3>1, <3>2
  <2>3. Nested(o, two) <=> \E c \in o.ciphers : "cbc" \in SuiteTags[c]
    BY ConditionIs
  <2> HIDE DEF one, two
  <2>4. Matches(o, Is("all", {one, two})) <=> \A sub \in {one, two} : Nested(o, sub)
    BY ConditionIs
  <2> QED
    BY <2>1, <2>2, <2>3, <2>4
<1> QED
  BY <1>1, <1>2, <1>3, <1>4, <1>5 DEF Vulnerabilities

\* No better than c.
NoBetter(c, d) ==
    \/ c = d \/ d = "insecure"
    \/ c = "recommended" /\ d \in {"acceptable", "weak"}
    \/ c = "acceptable" /\ d = "weak"

\* What holds of an observation and a worsened one.
Worse(o, w) ==
    /\ w \in Observable /\ ~o.cleartext /\ ~w.cleartext
    /\ o.protocols \subseteq w.protocols /\ o.ciphers \subseteq w.ciphers
    /\ NoBetter(ProtocolClass(o), ProtocolClass(w))
    /\ NoBetter(CipherClass(o), CipherClass(w))
    /\ NoBetter(CertificateClass(o), CertificateClass(w))
    /\ Caps(o) \subseteq Caps(w) /\ Parts(o) \subseteq Parts(w)
    /\ o.alternate = "invalid" => w.alternate = "invalid"

\* The caps, one by one.
LEMMA CapsAre ==
  ASSUME NEW o
  PROVE /\ "any_insecure_offered" \in Caps(o) <=>
              "insecure" \in {ProtocolClass(o), CipherClass(o), CertificateClass(o)}
        /\ "sslv3_supported" \in Caps(o) <=> "ssl3" \in o.protocols
        /\ "no_tls12_or_higher" \in Caps(o) <=> "tls1_2" \notin o.protocols /\ "tls1_3" \notin o.protocols
        /\ "weak_protocol_supported" \in Caps(o) <=> "tls1_0" \in o.protocols
        /\ "certificate_invalid" \in Caps(o) <=> o.certificate.invalid \/ o.alternate = "invalid"
        /\ "self_signed" \in Caps(o) <=> o.certificate.self_signed
        /\ Caps(o) \subseteq {"any_insecure_offered", "sslv3_supported", "no_tls12_or_higher",
                              "weak_protocol_supported", "certificate_invalid", "self_signed"}
<1>1. Range(Classes(o)) = {ProtocolClass(o), CipherClass(o), CertificateClass(o)}
  BY DEF Range, Classes
<1>2. DOMAIN GradeCap = {"any_insecure_offered", "sslv3_supported", "no_tls12_or_higher",
                         "weak_protocol_supported", "certificate_invalid", "self_signed"}
  BY DEF GradeCap
<1>3. "any_insecure_offered" \in Caps(o) <=>
         "insecure" \in {ProtocolClass(o), CipherClass(o), CertificateClass(o)}
  BY <1>1, <1>2 DEF Caps
<1>4. "sslv3_supported" \in Caps(o) <=> "ssl3" \in o.protocols
  BY <1>2 DEF Caps
<1>5. "no_tls12_or_higher" \in Caps(o) <=> "tls1_2" \notin o.protocols /\ "tls1_3" \notin o.protocols
  BY <1>2 DEF Caps
<1>6. "weak_protocol_supported" \in Caps(o) <=> "tls1_0" \in o.protocols
  BY <1>2 DEF Caps
<1>7. "certificate_invalid" \in Caps(o) <=> o.certificate.invalid \/ o.alternate = "invalid"
  BY <1>2 DEF Caps
<1>8. "self_signed" \in Caps(o) <=> o.certificate.self_signed
  BY <1>2 DEF Caps
<1>9. Caps(o) \subseteq {"any_insecure_offered", "sslv3_supported", "no_tls12_or_higher",
                        "weak_protocol_supported", "certificate_invalid", "self_signed"}
  BY <1>2 DEF Caps
<1> QED
  BY <1>3, <1>4, <1>5, <1>6, <1>7, <1>8, <1>9

\* Caps only come in with what is added.
LEMMA CapsGrow ==
  ASSUME NEW o, NEW w, o.protocols \subseteq w.protocols,
         NoBetter(ProtocolClass(o), ProtocolClass(w)), NoBetter(CipherClass(o), CipherClass(w)),
         NoBetter(CertificateClass(o), CertificateClass(w)),
         "tls1_2" \notin o.protocols /\ "tls1_3" \notin o.protocols =>
            "tls1_2" \notin w.protocols /\ "tls1_3" \notin w.protocols,
         o.certificate.invalid => w.certificate.invalid,
         o.alternate = "invalid" => w.alternate = "invalid",
         o.certificate.self_signed => w.certificate.self_signed
  PROVE Caps(o) \subseteq Caps(w)
<1>1. \A c : NoBetter("insecure", c) => c = "insecure"
  BY DEF NoBetter
<1>2. "any_insecure_offered" \in Caps(o) => "any_insecure_offered" \in Caps(w)
  <2>1. "insecure" \in {ProtocolClass(o), CipherClass(o), CertificateClass(o)} =>
        "insecure" \in {ProtocolClass(w), CipherClass(w), CertificateClass(w)}
    BY <1>1
  <2> QED
    BY <2>1, CapsAre
<1>3. "sslv3_supported" \in Caps(o) => "sslv3_supported" \in Caps(w)
  BY CapsAre
<1>4. "no_tls12_or_higher" \in Caps(o) => "no_tls12_or_higher" \in Caps(w)
  BY CapsAre
<1>5. "weak_protocol_supported" \in Caps(o) => "weak_protocol_supported" \in Caps(w)
  BY CapsAre
<1>6. "certificate_invalid" \in Caps(o) => "certificate_invalid" \in Caps(w)
  BY CapsAre
<1>7. "self_signed" \in Caps(o) => "self_signed" \in Caps(w)
  BY CapsAre
<1> QED
  BY <1>2, <1>3, <1>4, <1>5, <1>6, <1>7, CapsAre

\* Another version of TLS, no better than the worst there is.
LEMMA ProtocolAdded ==
  ASSUME NEW o \in Observable, NEW p \in DOMAIN Protocol, o.protocols # {},
         Rank(Protocol[p]) >= Rank(ProtocolClass(o))
  PROVE Worse(o, [o EXCEPT !.protocols = @ \cup {p}])
<1> DEFINE w == [o EXCEPT !.protocols = @ \cup {p}]
<1>1. /\ w.protocols = o.protocols \cup {p} /\ w.ciphers = o.ciphers /\ w.certificate = o.certificate
      /\ w.alternate = o.alternate /\ w.cleartext = o.cleartext /\ ~o.cleartext
      /\ o.protocols \subseteq DOMAIN Protocol
  BY DEF Observable
<1>2. w \in Observable
  BY <1>1 DEF Observable
<1> HIDE DEF w
<1>3. CipherClass(w) = CipherClass(o) /\ CertificateClass(w) = CertificateClass(o) /\ Parts(w) = Parts(o)
  BY <1>1 DEF CipherClass, CertificateClass, Parts
<1>4. /\ p \in {"tls1_3", "tls1_2", "tls1_0", "ssl3"}
      /\ \E q \in {"tls1_3", "tls1_2", "tls1_0", "ssl3"} : q \in o.protocols
  BY <1>1, ProtocolIs
<1>5. /\ ProtocolClass(o) = IF "ssl3" \in o.protocols THEN "insecure"
                            ELSE IF "tls1_0" \in o.protocols THEN "weak"
                            ELSE IF "tls1_2" \in o.protocols THEN "acceptable"
                            ELSE IF "tls1_3" \in o.protocols THEN "recommended" ELSE "unknown"
      /\ ProtocolClass(w) = IF "ssl3" \in w.protocols THEN "insecure"
                            ELSE IF "tls1_0" \in w.protocols THEN "weak"
                            ELSE IF "tls1_2" \in w.protocols THEN "acceptable"
                            ELSE IF "tls1_3" \in w.protocols THEN "recommended" ELSE "unknown"
  BY <1>2, ClassesAre
<1>6. /\ "ssl3" \in o.protocols => p = "ssl3"
      /\ "tls1_0" \in o.protocols => p \in {"ssl3", "tls1_0"}
      /\ "tls1_2" \in o.protocols => p \in {"ssl3", "tls1_0", "tls1_2"}
  BY <1>4, <1>5, ProtocolIs, ScoredIs
<1>7. NoBetter(ProtocolClass(o), ProtocolClass(w))
  BY <1>1, <1>4, <1>5, <1>6 DEF NoBetter
<1>8. "tls1_2" \notin o.protocols /\ "tls1_3" \notin o.protocols =>
         "tls1_2" \notin w.protocols /\ "tls1_3" \notin w.protocols
  BY <1>1, <1>4, <1>6
<1>9. Caps(o) \subseteq Caps(w)
  <2>1. NoBetter(CipherClass(o), CipherClass(w)) /\ NoBetter(CertificateClass(o), CertificateClass(w))
    BY <1>3 DEF NoBetter
  <2> QED
    BY <1>1, <1>7, <1>8, <2>1, CapsGrow
<1> QED
  BY <1>1, <1>2, <1>3, <1>7, <1>9 DEF Worse, NoBetter, w

\* Another suite, no better than the worst there is.
LEMMA CipherAdded ==
  ASSUME NEW o \in Observable, NEW c \in DOMAIN SuiteTags, CipherClass(o) \in Scored, Suite(c) \in Scored,
         Rank(Suite(c)) >= Rank(CipherClass(o))
  PROVE Worse(o, [o EXCEPT !.ciphers = @ \cup {c}])
<1> DEFINE w == [o EXCEPT !.ciphers = @ \cup {c}]
<1>1. /\ w.ciphers = o.ciphers \cup {c} /\ w.protocols = o.protocols /\ w.certificate = o.certificate
      /\ w.alternate = o.alternate /\ w.cleartext = o.cleartext
      /\ o.ciphers \subseteq DOMAIN SuiteTags
  BY DEF Observable
<1>2. o.cleartext => o.ciphers = {}
  BY DEF Observable
<1>3. CipherClass(o) = IF "rc4" \in o.ciphers THEN "insecure"
                       ELSE IF "triple_des" \in o.ciphers THEN "weak"
                       ELSE IF "cbc" \in o.ciphers THEN "acceptable"
                       ELSE IF "gcm" \in o.ciphers THEN "recommended" ELSE "unknown"
  BY ClassesAre
<1>4. ~o.cleartext
  BY <1>2, <1>3, ScoredIs
<1>5. w \in Observable
  BY <1>1, <1>4 DEF Observable
<1> HIDE DEF w
<1>6. CipherClass(w) = IF "rc4" \in w.ciphers THEN "insecure"
                       ELSE IF "triple_des" \in w.ciphers THEN "weak"
                       ELSE IF "cbc" \in w.ciphers THEN "acceptable"
                       ELSE IF "gcm" \in w.ciphers THEN "recommended" ELSE "unknown"
  BY <1>5, ClassesAre
<1>7. /\ c \in {"gcm", "cbc", "triple_des", "rc4"}
      /\ \E d \in {"gcm", "cbc", "triple_des", "rc4"} : d \in o.ciphers
  BY <1>3, SuiteIs, ScoredIs
<1>8. /\ "rc4" \in o.ciphers => c = "rc4"
      /\ "triple_des" \in o.ciphers => c \in {"rc4", "triple_des"}
      /\ "cbc" \in o.ciphers => c \in {"rc4", "triple_des", "cbc"}
  BY <1>3, <1>7, SuiteIs, ScoredIs
<1>9. NoBetter(CipherClass(o), CipherClass(w))
  BY <1>1, <1>3, <1>6, <1>7, <1>8 DEF NoBetter
<1>10. ProtocolClass(w) = ProtocolClass(o) /\ CertificateClass(w) = CertificateClass(o)
  BY <1>1 DEF ProtocolClass, CertificateClass
<1>11. NoBetter(ProtocolClass(o), ProtocolClass(w)) /\ NoBetter(CertificateClass(o), CertificateClass(w))
  BY <1>10 DEF NoBetter
<1>12. Parts(o) \subseteq Parts(w)
  BY <1>1 DEF Parts
<1>13. Caps(o) \subseteq Caps(w)
  BY <1>1, <1>9, <1>11, CapsGrow
<1> QED
  BY <1>1, <1>4, <1>5, <1>9, <1>11, <1>12, <1>13 DEF Worse, w

\* A worse certificate.
LEMMA CertificateSpoilt ==
  ASSUME NEW o \in Observable, o.certificate.read,
         NEW w \in {[o EXCEPT !.certificate.invalid = TRUE], [o EXCEPT !.certificate.self_signed = TRUE],
                    [o EXCEPT !.certificate.signature = "insecure"], [o EXCEPT !.alternate = "invalid"]}
  PROVE Worse(o, w)
<1> DEFINE Read == [read : {TRUE}, key : {"recommended", "weak", "insecure", "unknown"},
                    signature : {"recommended", "insecure", "unknown"}, invalid : BOOLEAN, self_signed : BOOLEAN]
           t == o.certificate
<1>1. t \in {NoCertificate} \cup Read /\ NoCertificate.read = FALSE
  BY CertificateIs DEF Certificates, NoCertificate
<1>2. /\ t \in Read /\ ~o.cleartext
      /\ o \in [protocols : SUBSET DOMAIN Protocol, ciphers : SUBSET DOMAIN SuiteTags,
                certificate : Certificates, alternate : {"none", "clean", "weak", "invalid"}, cleartext : BOOLEAN]
  <2>1. t \in Read
    BY <1>1
  <2> QED
    BY <2>1 DEF Observable
<1>3. PICK u \in Read : /\ w = [o EXCEPT !.certificate = u] \/ (u = t /\ w = [o EXCEPT !.alternate = "invalid"])
                        /\ u.key = t.key /\ u.read = t.read
                        /\ t.invalid => u.invalid
                        /\ t.self_signed => u.self_signed
                        /\ u.signature = t.signature \/ u.signature = "insecure"
  <2>1. CASE w = [o EXCEPT !.certificate.invalid = TRUE]
    <3>1. [t EXCEPT !.invalid = TRUE] \in Read
      BY <1>2
    <3>2. w = [o EXCEPT !.certificate = [t EXCEPT !.invalid = TRUE]]
      BY <2>1
    <3> QED
      BY <1>2, <3>1, <3>2
  <2>2. CASE w = [o EXCEPT !.certificate.self_signed = TRUE]
    <3>1. [t EXCEPT !.self_signed = TRUE] \in Read
      BY <1>2
    <3>2. w = [o EXCEPT !.certificate = [t EXCEPT !.self_signed = TRUE]]
      BY <2>2
    <3> QED
      BY <1>2, <3>1, <3>2
  <2>3. CASE w = [o EXCEPT !.certificate.signature = "insecure"]
    <3>1. [t EXCEPT !.signature = "insecure"] \in Read
      BY <1>2
    <3>2. w = [o EXCEPT !.certificate = [t EXCEPT !.signature = "insecure"]]
      BY <2>3
    <3> QED
      BY <1>2, <3>1, <3>2
  <2>4. CASE w = [o EXCEPT !.alternate = "invalid"]
    BY <1>2, <2>4
  <2> QED
    BY <2>1, <2>2, <2>3, <2>4
<1>4. Read \subseteq Certificates /\ \A x \in Read : x.read /\ x.invalid \in BOOLEAN /\ x.self_signed \in BOOLEAN
  BY DEF Certificates
<1> HIDE DEF Read
<1>5. /\ w.protocols = o.protocols /\ w.ciphers = o.ciphers /\ w.cleartext = o.cleartext
      /\ w.certificate = u /\ w.alternate \in {o.alternate, "invalid"}
  BY <1>2, <1>3
<1>6. /\ w.protocols = o.protocols /\ w.ciphers = o.ciphers /\ w.cleartext = o.cleartext /\ ~o.cleartext
      /\ w.certificate.read = o.certificate.read /\ w.certificate.key = o.certificate.key
  BY <1>2, <1>3, <1>5
<1>7. /\ o.certificate.invalid => w.certificate.invalid
      /\ o.certificate.self_signed => w.certificate.self_signed
      /\ o.alternate = "invalid" => w.alternate = "invalid"
      /\ w.certificate.signature = o.certificate.signature \/ w.certificate.signature = "insecure"
  BY <1>3, <1>5
<1>8. w \in Observable
  <2>1. w \in [protocols : SUBSET DOMAIN Protocol, ciphers : SUBSET DOMAIN SuiteTags,
               certificate : Certificates, alternate : {"none", "clean", "weak", "invalid"}, cleartext : BOOLEAN]
    BY <1>2, <1>3, <1>4
  <2>2. w.certificate.read /\ ~w.cleartext
    BY <1>2, <1>3, <1>4, <1>5
  <2> QED
    BY <2>1, <2>2 DEF Observable
<1>9. NoBetter(CertificateClass(o), CertificateClass(w))
  <2>1. CASE w.certificate.invalid \/ w.certificate.signature = "insecure"
    BY <1>8, <2>1, ClassesAre DEF NoBetter, WorstOf
  <2>2. CASE ~w.certificate.invalid /\ w.certificate.signature = o.certificate.signature
    BY <1>6, <1>7, <2>2 DEF NoBetter, CertificateClass
  <2> QED
    BY <1>7, <2>1, <2>2
<1>10. NoBetter(ProtocolClass(o), ProtocolClass(w)) /\ NoBetter(CipherClass(o), CipherClass(w))
  BY <1>6 DEF NoBetter, ProtocolClass, CipherClass
<1>11. Parts(o) \subseteq Parts(w)
  BY <1>6 DEF Parts
<1>12. Caps(o) \subseteq Caps(w)
  BY <1>6, <1>7, <1>9, <1>10, CapsGrow
<1> QED
  BY <1>6, <1>7, <1>8, <1>9, <1>10, <1>11, <1>12 DEF Worse

\* What WorseNeverHelps compares are worse observations in this sense.
LEMMA WorsenedIs ==
  ASSUME NEW o \in Observable, NEW w \in Worsened(o)
  PROVE Worse(o, w)
<1>1. CASE \E p \in DOMAIN Protocol : /\ o.protocols # {} /\ Rank(Protocol[p]) >= Rank(ProtocolClass(o))
                                       /\ w = [o EXCEPT !.protocols = @ \cup {p}]
  BY <1>1, ProtocolAdded
<1>2. CASE \E c \in DOMAIN SuiteTags : /\ CipherClass(o) \in Scored /\ Suite(c) \in Scored
                                        /\ Rank(Suite(c)) >= Rank(CipherClass(o))
                                        /\ w = [o EXCEPT !.ciphers = @ \cup {c}]
  BY <1>2, CipherAdded
<1>3. CASE /\ o.certificate.read
           /\ w \in {[o EXCEPT !.certificate.invalid = TRUE], [o EXCEPT !.certificate.self_signed = TRUE],
                     [o EXCEPT !.certificate.signature = "insecure"], [o EXCEPT !.alternate = "invalid"]}
  BY <1>3, CertificateSpoilt
<1> QED
  BY <1>1, <1>2, <1>3 DEF Worsened

\* A worse observation has no higher mean.
LEMMA WorseScores ==
  ASSUME NEW o \in Observable, NEW w, Worse(o, w), Weighed(o) # {}
  PROVE Weighed(w) # {} /\ Base(w) \in 0..100 /\ Base(o) \in 0..100 /\ Base(w) <= Base(o)
<1> DEFINE p == ProtocolClass(o)
           c == CipherClass(o)
           t == CertificateClass(o)
           p2 == ProtocolClass(w)
           c2 == CipherClass(w)
           t2 == CertificateClass(w)
           n == Cardinality(Weighed(o))
           m == Cardinality(Weighed(w))
<1>1. w \in Observable /\ NoBetter(p, p2) /\ NoBetter(c, c2) /\ NoBetter(t, t2)
  BY DEF Worse
<1>2. /\ p \in Categories /\ c \in Categories /\ t \in Categories
      /\ p2 \in Categories /\ c2 \in Categories /\ t2 \in Categories
  BY <1>1, ClassesAre
<1>3. /\ n = One(p) + One(c) + One(t) /\ Total(o) = Worth(p) + Worth(c) + Worth(t)
      /\ m = One(p2) + One(c2) + One(t2) /\ Total(w) = Worth(p2) + Worth(c2) + Worth(t2)
      /\ ~(p = "unknown" /\ c = "unknown" /\ t = "unknown")
      /\ Weighed(w) = {} => p2 = "unknown" /\ c2 = "unknown" /\ t2 = "unknown"
  BY <1>1, WeighedIs
<1> HIDE DEF p, c, t, p2, c2, t2, n, m
<1>4. ASSUME NEW x \in Categories, NEW y \in Categories, NoBetter(x, y)
      PROVE /\ One(x) \in Nat /\ One(y) \in Nat /\ One(x) <= One(y) /\ (y = "unknown" => x = "unknown")
            /\ Worth(x) \in Nat /\ Worth(y) \in Nat /\ (One(x) = 1 => Worth(y) <= Worth(x))
            /\ (One(x) = 0 => Worth(y) = 0)
  BY <1>4, ScoreIs DEF NoBetter, Categories
<1>5. Weighed(w) # {}
  BY <1>1, <1>2, <1>3, <1>4
<1>6. n \in 1..3 /\ m \in 1..3 /\ Base(o) = Mean(Total(o), n) /\ Base(w) = Mean(Total(w), m)
      /\ Base(o) \in 0..100 /\ Base(w) \in 0..100 /\ Total(o) \in Nat /\ Total(w) \in Nat
  BY <1>1, <1>5, BaseIs DEF n, m
<1>7. \A x \in Categories : Worth(x) \in Nat /\ One(x) \in {0, 1} /\ (One(x) = 0 => Worth(x) = 0)
  BY ScoreIs DEF Categories
<1>8. /\ Worth(p2) <= Worth(p) /\ One(p) <= One(p2)
      /\ Worth(c2) <= Worth(c) /\ One(c) <= One(c2)
      /\ Worth(t2) <= Worth(t) /\ One(t) <= One(t2)
  BY <1>1, <1>2, <1>4, <1>7
<1>9. Total(w) <= Total(o) /\ n <= m
  <2>1. /\ Worth(p2) \in Nat /\ Worth(c2) \in Nat /\ Worth(t2) \in Nat /\ Worth(p) \in Nat
        /\ Worth(c) \in Nat /\ Worth(t) \in Nat
    BY <1>2, <1>7
  <2>2. Total(w) <= Total(o)
    BY <1>3, <1>8, <2>1
  <2>3. /\ One(p2) \in Nat /\ One(c2) \in Nat /\ One(t2) \in Nat /\ One(p) \in Nat
        /\ One(c) \in Nat /\ One(t) \in Nat
    BY <1>2, <1>7
  <2>4. n <= m
    BY <1>3, <1>8, <2>3
  <2> QED
    BY <2>2, <2>4
<1>10. Base(w) <= Base(o)
  <2>1. Mean(Total(w), m) <= Mean(Total(o), n)
    BY <1>6, <1>9, MeanFalls
  <2> QED
    BY <1>6, <2>1
<1> QED
  BY <1>5, <1>6, <1>10

\* Nor a better grade.
LEMMA WorseGrades ==
  ASSUME NEW o \in Observable, NEW w, Worse(o, w), Weighed(o) # {}
  PROVE Capped(w, GradeFor(Base(w))) >= Capped(o, GradeFor(Base(o)))
<1> DEFINE g == GradeFor(Base(o))
           h == GradeFor(Base(w))
<1>1. g \in 1..7 /\ h \in 1..7 /\ h >= g
  BY WorseScores, GradeIs DEF GradeOf
<1> HIDE DEF g, h
<1>2. Capped(o, g) \in {g} \cup {GradeCap[c] : c \in Caps(o)} /\ Capped(o, g) \in 1..7
  BY <1>1, CapIs
<1>3. Capped(w, h) \in 1..7 /\ Capped(w, h) >= h
  BY <1>1, CapIs
<1>4. \A c \in Caps(w) : Capped(w, h) >= GradeCap[c]
  BY <1>1, CapIs
<1>5. Caps(o) \subseteq Caps(w)
  BY DEF Worse
<1>6. Capped(w, h) >= Capped(o, g)
  <2>1. CASE Capped(o, g) = g
    BY <1>1, <1>3, <2>1
  <2>2. CASE \E c \in Caps(o) : Capped(o, g) = GradeCap[c]
    BY <1>4, <1>5, <2>2
  <2> QED
    BY <1>2, <2>1, <2>2
<1> QED
  BY <1>6 DEF g, h

\* The verdicts from the best to the worst.
LEMMA BadnessIs ==
  Badness("secure") = 1 /\ Badness("acceptable") = 2 /\ Badness("weak") = 3 /\ Badness("insecure") = 4
BY DEF Badness, VerdictFor, CategoryOrder

\* Nor a better verdict.
LEMMA WorseVerdicts ==
  ASSUME NEW o \in Observable, NEW w, Worse(o, w), Weighed(o) # {}
  PROVE Badness(Report(w).verdict) >= Badness(Report(o).verdict)
<1> DEFINE S == {ProtocolClass(o), CipherClass(o), CertificateClass(o)}
           T == {ProtocolClass(w), CipherClass(w), CertificateClass(w)}
           V == {"secure", "acceptable", "weak", "insecure"}
<1>1. w \in Observable /\ ~o.cleartext /\ ~w.cleartext /\ Weighed(w) # {}
  BY WorseScores DEF Worse
<1>2. /\ Report(o).verdict = IF o.alternate = "invalid" THEN "insecure" ELSE VerdictFor[Worst(S)]
      /\ Report(w).verdict = IF w.alternate = "invalid" THEN "insecure" ELSE VerdictFor[Worst(T)]
  BY <1>1, ReportIs DEF Judged
<1>3. /\ Worst(S) = WorstOf(S) /\ Worst(S) \in {"recommended", "acceptable", "weak", "insecure"}
      /\ Worst(T) = WorstOf(T) /\ Worst(T) \in {"recommended", "acceptable", "weak", "insecure"}
  BY <1>1, OverallIs
<1>4. /\ "insecure" \in S => "insecure" \in T
      /\ "weak" \in S => "weak" \in T \/ "insecure" \in T
      /\ "acceptable" \in S => "acceptable" \in T \/ "weak" \in T \/ "insecure" \in T
  BY DEF Worse, NoBetter
<1> HIDE DEF S, T
<1>5. NoBetter(Worst(S), Worst(T))
  BY <1>3, <1>4 DEF WorstOf, NoBetter
<1>6. o.alternate = "invalid" => w.alternate = "invalid"
  BY DEF Worse
<1>7. /\ VerdictFor["recommended"] = "secure" /\ VerdictFor["acceptable"] = "acceptable"
      /\ VerdictFor["weak"] = "weak" /\ VerdictFor["insecure"] = "insecure"
  BY DEF VerdictFor
<1>8. /\ Badness(VerdictFor[Worst(S)]) \in 1..4 /\ Badness(VerdictFor[Worst(T)]) \in 1..4
      /\ Badness(VerdictFor[Worst(T)]) >= Badness(VerdictFor[Worst(S)])
  BY <1>3, <1>5, <1>7, BadnessIs DEF NoBetter
<1> QED
  BY <1>2, <1>6, <1>8, BadnessIs

\* An insecure verdict has an F, where there is a grade.
LEMMA InsecureFails ==
  ASSUME NEW o \in Observable, Report(o).verdict = "insecure"
  PROVE Report(o).grade \in {0, 7}
<1>1. Report(o).verdict = Judged(o).verdict /\ Report(o).grade = Judged(o).grade
  BY ReportIs
<1>2. CASE o.cleartext
  BY <1>1, <1>2, GradeIs DEF Judged, GradeOf
<1>3. CASE ~o.cleartext /\ Weighed(o) = {}
  BY <1>1, <1>3 DEF Judged
<1>4. CASE ~o.cleartext /\ Weighed(o) # {}
  <2> DEFINE S == {ProtocolClass(o), CipherClass(o), CertificateClass(o)}
  <2>1. GradeFor(Base(o)) \in 1..7
    BY <1>4, BaseIs, GradeIs DEF GradeOf
  <2>2. o.alternate = "invalid" \/ VerdictFor[Worst(S)] = "insecure"
    BY <1>1, <1>4 DEF Judged
  <2>3. o.alternate = "invalid" \/ "insecure" \in S
    <3>1. Worst(S) = WorstOf(S) /\ Worst(S) \in {"recommended", "acceptable", "weak", "insecure"}
      BY <1>4, OverallIs
    <3> HIDE DEF S
    <3>2. VerdictFor[Worst(S)] = "insecure" => Worst(S) = "insecure"
      BY <3>1 DEF VerdictFor
    <3> QED
      BY <2>2, <3>1, <3>2 DEF WorstOf
  <2>4. \E c \in Caps(o) : GradeCap[c] = 7
    BY <2>3, CapsAre DEF GradeCap
  <2>5. Capped(o, GradeFor(Base(o))) \in 1..7 /\ Capped(o, GradeFor(Base(o))) >= 7
    BY <2>1, <2>4, CapIs
  <2>6. Report(o).grade = Capped(o, GradeFor(Base(o)))
    BY <1>1, <1>4 DEF Judged
  <2> QED
    BY <2>5, <2>6
<1> QED
  BY <1>2, <1>3, <1>4

\* A weak verdict has a B at best.
LEMMA WeakPales ==
  ASSUME NEW o \in Observable, Report(o).verdict = "weak"
  PROVE Report(o).grade >= 3
<1> DEFINE p == ProtocolClass(o)
           c == CipherClass(o)
           t == CertificateClass(o)
           S == {p, c, t}
<1>1. Report(o).verdict = Judged(o).verdict /\ Report(o).grade = Judged(o).grade
  BY ReportIs
<1>2. ~o.cleartext /\ o.alternate # "invalid" /\ Weighed(o) # {} /\ VerdictFor[Worst(S)] = "weak"
  BY <1>1 DEF Judged
<1>3. Worst(S) = WorstOf(S) /\ Worst(S) \in {"recommended", "acceptable", "weak", "insecure"}
  BY <1>2, OverallIs
<1>4. p \in Categories /\ c \in Categories /\ t \in Categories
  BY ClassesAre
<1>5. /\ Cardinality(Weighed(o)) \in 1..3 /\ Base(o) = Mean(Total(o), Cardinality(Weighed(o)))
      /\ Cardinality(Weighed(o)) = One(p) + One(c) + One(t) /\ Total(o) = Worth(p) + Worth(c) + Worth(t)
      /\ Base(o) \in 0..100
  BY <1>2, BaseIs, WeighedIs
<1> HIDE DEF p, c, t
<1>6. p = "weak" \/ c = "weak" \/ t = "weak"
  <2>1. Worst(S) = "weak"
    BY <1>2, <1>3 DEF VerdictFor
  <2> QED
    BY <1>3, <2>1 DEF WorstOf
<1>7. ASSUME NEW x \in Categories
      PROVE One(x) \in {0, 1} /\ Worth(x) \in 0..(100 * One(x)) /\ (x = "weak" => One(x) = 1 /\ Worth(x) = 40)
  BY ScoreIs DEF Categories
<1>8. Base(o) <= 80
  <2>1. \E n \in 1..3, s \in Nat : /\ n = Cardinality(Weighed(o)) /\ s = Total(o)
                                  /\ s <= 100 * n - 60
    <3>1. /\ One(p) \in {0, 1} /\ One(c) \in {0, 1} /\ One(t) \in {0, 1}
          /\ Worth(p) \in 0..(100 * One(p)) /\ Worth(c) \in 0..(100 * One(c)) /\ Worth(t) \in 0..(100 * One(t))
      BY <1>4, <1>7
    <3>2. \/ One(p) = 1 /\ Worth(p) = 40
          \/ One(c) = 1 /\ Worth(c) = 40
          \/ One(t) = 1 /\ Worth(t) = 40
      BY <1>4, <1>6, <1>7
    <3> QED
      BY <1>5, <3>1, <3>2
  <2>2. PICK n \in 1..3, s \in Nat : n = Cardinality(Weighed(o)) /\ s = Total(o) /\ s <= 100 * n - 60
    BY <2>1
  <2>3. Base(o) = Mean(s, n)
    BY <1>5, <2>2
  <2>4. n = 1 \/ n = 2 \/ n = 3
    OBVIOUS
  <2>5. n = 1 => Mean(s, n) <= 80
    BY <2>2 DEF Mean
  <2>6. n = 2 => Mean(s, n) <= 80
    BY <2>2 DEF Mean
  <2>7. n = 3 => Mean(s, n) <= 80
    BY <2>2 DEF Mean
  <2> QED
    BY <2>3, <2>4, <2>5, <2>6, <2>7
<1>9. GradeFor(Base(o)) \in 1..7 /\ GradeFor(Base(o)) >= 3
  BY <1>5, <1>8, GradeIs DEF GradeOf
<1>10. Capped(o, GradeFor(Base(o))) >= GradeFor(Base(o)) /\ Capped(o, GradeFor(Base(o))) \in 1..7
  BY <1>9, CapIs
<1>11. Report(o).grade = Capped(o, GradeFor(Base(o)))
  BY <1>1, <1>2 DEF Judged
<1> QED
  BY <1>9, <1>10, <1>11

\* A secure verdict has an A+, but an F where nothing of TLS was seen and a C where the
\* certificate signed itself.
LEMMA SecureShines ==
  ASSUME NEW o \in Observable, Report(o).verdict = "secure"
  PROVE /\ Report(o).grade = IF o.protocols = {} THEN 7 ELSE IF o.certificate.self_signed THEN 4 ELSE 1
        /\ ~o.certificate.invalid /\ o.alternate # "invalid" /\ ~o.cleartext
<1> DEFINE p == ProtocolClass(o)
           c == CipherClass(o)
           t == CertificateClass(o)
           S == {p, c, t}
<1>1. Report(o).verdict = Judged(o).verdict /\ Report(o).grade = Judged(o).grade
  BY ReportIs
<1>2. ~o.cleartext /\ o.alternate # "invalid" /\ Weighed(o) # {} /\ VerdictFor[Worst(S)] = "secure"
  BY <1>1 DEF Judged
<1>3. Worst(S) = WorstOf(S) /\ Worst(S) \in {"recommended", "acceptable", "weak", "insecure"}
  BY <1>2, OverallIs
<1>4. p \in Categories /\ c \in Categories /\ t \in Categories
  BY ClassesAre
<1>5. p \in {"recommended", "unknown"} /\ c \in {"recommended", "unknown"} /\ t \in {"recommended", "unknown"}
  <2> HIDE DEF p, c, t
  <2>1. Worst(S) = "recommended"
    BY <1>2, <1>3 DEF VerdictFor
  <2> QED
    BY <1>3, <1>4, <2>1 DEF WorstOf, Categories
<1>6. ~o.certificate.invalid
  BY <1>5, ClassesAre
<1>7. GradeFor(Base(o)) = 1
  <2>1. /\ Cardinality(Weighed(o)) \in 1..3 /\ Base(o) = Mean(Total(o), Cardinality(Weighed(o)))
        /\ Cardinality(Weighed(o)) = One(p) + One(c) + One(t) /\ Total(o) = Worth(p) + Worth(c) + Worth(t)
    BY <1>2, BaseIs, WeighedIs
  <2> HIDE DEF p, c, t
  <2>2. ASSUME NEW x \in {"recommended", "unknown"} PROVE One(x) \in {0, 1} /\ Worth(x) = 100 * One(x)
    BY ScoreIs DEF Categories
  <2>3. /\ Worth(p) = 100 * One(p) /\ Worth(c) = 100 * One(c) /\ Worth(t) = 100 * One(t)
        /\ One(p) \in {0, 1} /\ One(c) \in {0, 1} /\ One(t) \in {0, 1}
    BY <1>5, <2>2
  <2>4. Total(o) = 100 * Cardinality(Weighed(o))
    BY <2>1, <2>3
  <2>5. Base(o) = 100
    <3>1. \A n \in 1..3 : Mean(100 * n, n) = 100
      BY MeanBounded
    <3> QED
      BY <2>1, <2>4, <3>1, SMTT(30)
  <2> QED
    BY <2>5, GradeIs DEF GradeOf
<1>8. Report(o).grade = IF o.protocols = {} THEN 7 ELSE IF o.certificate.self_signed THEN 4 ELSE 1
  <2>1. "ssl3" \notin o.protocols /\ "tls1_0" \notin o.protocols
    BY <1>5, ClassesAre
  <2>2. o.protocols # {} => "tls1_2" \in o.protocols \/ "tls1_3" \in o.protocols
    BY <2>1, ProtocolIs DEF Observable
  <2>3. Report(o).grade = Capped(o, 1)
    BY <1>1, <1>2, <1>7 DEF Judged
  <2>4. GradeCap["no_tls12_or_higher"] = 7 /\ GradeCap["self_signed"] = 4
    BY DEF GradeCap
  <2>5. /\ Capped(o, 1) \in 1..7 /\ Capped(o, 1) \in {1} \cup {GradeCap[k] : k \in Caps(o)}
        /\ \A k \in Caps(o) : Capped(o, 1) >= GradeCap[k]
    BY CapIs
  <2>6. Caps(o) \subseteq {"no_tls12_or_higher", "self_signed"}
    BY <1>2, <1>5, <1>6, <2>1, CapsAre
  <2>7. CASE o.protocols = {}
    BY <2>3, <2>4, <2>5, <2>7, CapsAre
  <2>8. CASE o.protocols # {}
    <3>1. "no_tls12_or_higher" \notin Caps(o) /\ ("self_signed" \in Caps(o) <=> o.certificate.self_signed)
      BY <2>2, <2>8, CapsAre
    <3> QED
      BY <2>3, <2>4, <2>5, <2>6, <2>8, <3>1
  <2> QED
    BY <2>7, <2>8
<1> QED
  BY <1>2, <1>6, <1>8

\* Nor does it lessen what is known against the server, or add to its strength.
LEMMA WorseOtherwise ==
  ASSUME NEW o \in Observable, NEW w, Worse(o, w)
  PROVE /\ Report(w).strength <= Report(o).strength
        /\ Report(o).vulnerabilities \subseteq Report(w).vulnerabilities
<1>1. w \in Observable /\ o.protocols \subseteq w.protocols /\ o.ciphers \subseteq w.ciphers
      /\ Parts(o) \subseteq Parts(w)
  BY DEF Worse
<1>2. Strength(w) <= Strength(o)
  BY <1>1, StrengthIs
<1>3. Vulnerabilities(o) \subseteq Vulnerabilities(w)
  BY <1>1, VulnerabilitiesAre DEF Detection
<1> QED
  BY <1>1, <1>2, <1>3, ReportIs

\* So all that GradesConsistent says follows from the invariant.
LEMMA GradesConsistentHolds ==
  ASSUME GradingInv
  PROVE GradesConsistent
<1> SUFFICES ASSUME pc = "done", probe = "grade" PROVE
        /\ \A o \in Worsened(peer) :
              LET other == Report(o) IN
              /\ other.strength <= report.strength
              /\ report.vulnerabilities \subseteq other.vulnerabilities
              /\ report.grade # 0 =>
                    /\ other.score <= report.score /\ other.grade >= report.grade
                    /\ Badness(other.verdict) >= Badness(report.verdict)
        /\ report.verdict = "insecure" => report.grade \in {0, 7}
        /\ report.verdict = "weak" => report.grade >= 3
        /\ report.verdict = "secure" =>
              /\ report.grade = IF peer.protocols = {} THEN 7
                                ELSE IF peer.certificate.self_signed THEN 4 ELSE 1
              /\ ~peer.certificate.invalid /\ peer.alternate # "invalid" /\ ~peer.cleartext
  BY DEF GradesConsistent
<1>1. peer \in Observable /\ report = Report(peer)
  BY ObservationsAre DEF GradingInv
<1>2. ASSUME NEW w \in Worsened(peer)
      PROVE /\ Report(w).strength <= report.strength
            /\ report.vulnerabilities \subseteq Report(w).vulnerabilities
            /\ report.grade # 0 =>
                  /\ Report(w).score <= report.score /\ Report(w).grade >= report.grade
                  /\ Badness(Report(w).verdict) >= Badness(report.verdict)
  <2>1. Worse(peer, w)
    BY <1>1, WorsenedIs
  <2>2. w \in Observable /\ ~peer.cleartext /\ ~w.cleartext
    BY <2>1 DEF Worse
  <2>3. ASSUME report.grade # 0
        PROVE /\ Report(w).score <= report.score /\ Report(w).grade >= report.grade
              /\ Badness(Report(w).verdict) >= Badness(report.verdict)
    <3>1. Weighed(peer) # {}
      BY <1>1, <2>2, <2>3, ReportIs DEF Judged
    <3>2. Weighed(w) # {} /\ Base(w) <= Base(peer)
      BY <1>1, <2>1, <3>1, WorseScores
    <3>3. Report(w).score = Base(w) /\ report.score = Base(peer)
      BY <1>1, <2>2, <3>1, <3>2, ReportIs DEF Judged
    <3>4. Report(w).grade = Capped(w, GradeFor(Base(w))) /\ report.grade = Capped(peer, GradeFor(Base(peer)))
      BY <1>1, <2>2, <3>1, <3>2, ReportIs DEF Judged
    <3> QED
      BY <1>1, <2>1, <3>1, <3>2, <3>3, <3>4, WorseGrades, WorseVerdicts
  <2> QED
    BY <1>1, <2>1, <2>3, WorseOtherwise
<1> QED
  BY <1>1, <1>2, InsecureFails, WeakPales, SecureShines

-----------------------------------------------------------------------------
(* Certificates: chains.                                                    *)

\* The certificates a chain may hold.
Held == Others \cup {"leaf", "alt"}

\* A chain that is dealt with: a certificate of the server's, then others, each once.
IsChain(ds) ==
    /\ ds \in Seq(Held) /\ Len(ds) \in 1..(MaxPresented + 1) /\ DOMAIN ds = 1..Len(ds)
    /\ \A n \in 1..Len(ds) : ds[n] \in Held /\ (IF n = 1 THEN ds[n] \in {"leaf", "alt"} ELSE ds[n] \in Others)
    /\ \A i, k \in 1..Len(ds) : ds[i] = ds[k] => i = k

\* Who issues what.
LEMMA IssuerIs ==
  ASSUME NEW s
  PROVE /\ \A c \in Others : Issuer(s, c) = CASE c = "I" -> "J" [] c = "X" -> "somebody" [] OTHER -> "R"
        /\ \A c \in {"leaf", "alt"} : Issuer(s, c) \in {c, "R", "I"}
        /\ \A c \in Held : Issuer(s, c) \notin {"X", "Ic"}
        /\ \A c \in Others : SelfSigned(s, c) <=> c = "R"
        /\ \A c \in Others : Subject(c) \in {"I", "J", "R", "X"}
        /\ \A c \in {"leaf", "alt"} : Subject(c) = c
<1>1. \A c \in Others : Issuer(s, c) = CASE c = "I" -> "J" [] c = "X" -> "somebody" [] OTHER -> "R"
  BY DEF Others, Issuer
<1>2. \A c \in {"leaf", "alt"} : Issuer(s, c) \in {c, "R", "I"}
  BY DEF Issuer
<1>3. \A c \in Held : Issuer(s, c) \notin {"X", "Ic"}
  BY <1>1, <1>2 DEF Held, Others
<1>4. \A c \in Others : SelfSigned(s, c) <=> c = "R"
  BY <1>1 DEF SelfSigned, Subject, Others
<1>5. \A c \in Others : Subject(c) \in {"I", "J", "R", "X"}
  BY DEF Subject, Others
<1>6. \A c \in {"leaf", "alt"} : Subject(c) = c
  BY DEF Subject
<1> QED
  BY <1>1, <1>2, <1>3, <1>4, <1>5, <1>6

\* What a signature that verifies says.
LEMMA VerifyIs ==
  ASSUME NEW s, NEW c \in Held, NEW by
  PROVE /\ Verify(s, c, by) = "yes" <=>
              /\ ~Has(s, c, "odd_algorithm") /\ ~Has(s, c, "bad_signature") /\ Subject(by) = Issuer(s, c)
        /\ Verify(s, c, by) \in {"yes", "no", "none"}
<1>1. Subject(by) = Issuer(s, c) => by # "X"
  BY IssuerIs DEF Subject
<1> QED
  BY <1>1 DEF Verify

\* A set of numbers that is not empty has a least one: induction over Nat, as far as it
\* can be used without an operator as a parameter.
LEMMA LeastNumber ==
  ASSUME NEW T \in SUBSET Nat, T # {}
  PROVE \E x \in T : \A y \in T : x <= y
<1> DEFINE R == {ss \in Nat \X Nat : ss[1] < ss[2]}
<1>1. R = OpToRel(<, Nat)
  BY DEF OpToRel
<1>2. IsWellFoundedOn(R, Nat)
  BY <1>1, NatLessThanWellFounded
<1> HIDE DEF R
<1>3. PICK x \in T : \A y \in T : ~(<<y, x>> \in R)
  BY <1>2, WFMin
<1>4. \A y \in T : ~(y < x)
  BY <1>3 DEF R
<1> QED BY <1>4

\* The first of the places in a chain that have something.
LEMMA LeastIs ==
  ASSUME NEW S \in SUBSET Nat, S # {}
  PROVE Min(S) \in S /\ \A y \in S : Min(S) <= y
<1>1. \E m \in S : \A y \in S : m <= y
  BY LeastNumber
<1>2. PICK m \in S : \A y \in S : m <= y
  BY <1>1
<1>3. S \in SUBSET Int
  OBVIOUS
<1>4. Min(S) = m
  BY <1>2, <1>3, MinIs
<1> QED
  BY <1>2, <1>4

\* The store has who signed the m-th certificate, and nobody's before.
Reaches(s, ds, m) ==
    /\ m \in 1..Len(ds)
    /\ InStore(s, Issuer(s, ds[m])) /\ Verify(s, ds[m], Issuer(s, ds[m])) = "yes"
    /\ \A k \in 1..(m - 1) : ~(InStore(s, Issuer(s, ds[k])) /\ Verify(s, ds[k], Issuer(s, ds[k])) = "yes")

\* Up to the m-th, each was allowed to sign, and did sign, the one before.
Allowed(s, ds, m) ==
    /\ \A n \in 1..(m - 1) : MaySign(s, ds[n + 1], ds[n])
    /\ \A n \in 2..m : Has(s, ds[n], "pathlen0") => \A k \in 2..(n - 1) : SelfSigned(s, ds[k])
    /\ \A n \in 2..m : ~Has(s, ds[n], "excludes")
    /\ ~Has(s, "R", "excludes")

\* A certificate outside its dates.
Late(s, c) == Has(s, c, "expired") \/ Has(s, c, "future")

\* Those above the first.
Above(ds, m) == {ds[k] : k \in 2..m}

\* The same of the path itself.
LEMMA PathIs ==
  ASSUME NEW s, NEW ds, IsChain(ds), NEW m \in 1..Len(ds), NEW path, path = SubSeq(ds, 1, m)
  PROVE /\ Len(path) = m /\ path \in Seq(Held) /\ DOMAIN path = 1..m
        /\ \A k \in 1..m : path[k] = ds[k]
        /\ Range(Tail(path)) = Above(ds, m)
<1>1. ds \in Seq(Held) /\ Len(ds) \in Nat /\ m \in Nat /\ m <= Len(ds)
  BY DEF IsChain
<1>2. path \in Seq(Held) /\ Len(path) = m /\ \A k \in 1..m : path[k] = ds[k]
  BY <1>1, FirstOf
<1>3. DOMAIN path = 1..m
  BY <1>2
<1>4. DOMAIN Tail(path) = 1..(m - 1) /\ \A k \in 1..(m - 1) : Tail(path)[k] = path[k + 1]
  <2>1. path # <<>>
    BY <1>2
  <2> QED
    BY <1>1, <1>2, <2>1
<1>5. Range(Tail(path)) = {ds[k] : k \in 2..m}
  <2>1. ASSUME NEW c \in Range(Tail(path)) PROVE c \in {ds[k] : k \in 2..m}
    <3>1. PICK k \in 1..(m - 1) : c = Tail(path)[k]
      BY <1>4 DEF Range
    <3>2. k + 1 \in 2..m /\ k + 1 \in 1..m
      BY <1>1
    <3> QED
      BY <1>2, <1>4, <3>1, <3>2
  <2>2. ASSUME NEW k \in 2..m PROVE ds[k] \in Range(Tail(path))
    <3>1. k - 1 \in 1..(m - 1) /\ (k - 1) + 1 = k /\ k \in 1..m
      BY <1>1
    <3>2. Tail(path)[k - 1] = ds[k]
      BY <1>2, <1>4, <3>1
    <3> QED
      BY <1>4, <3>1, <3>2 DEF Range
  <2> QED
    BY <2>1, <2>2
<1> QED
  BY <1>2, <1>3, <1>5 DEF Above

\* What is said of a chain that has a path to the root.
Dates == {"trusted", "expired", "not_yet_valid"}

\* _path_validity calls a path trusted exactly when all of it is within its dates.
LEMMA CurrentIs ==
  ASSUME NEW s, NEW ds, IsChain(ds), NEW m \in 1..Len(ds), NEW path, path = SubSeq(ds, 1, m)
  PROVE /\ Current(s, path) \in Dates
        /\ Current(s, path) = "trusted" <=> \A n \in 1..m : ~Late(s, ds[n])
<1>1. DOMAIN path = 1..m /\ \A k \in 1..m : path[k] = ds[k]
  BY PathIs
<1> DEFINE late == {n \in DOMAIN path : Has(s, path[n], "expired") \/ Has(s, path[n], "future")}
<1>2. late = {} <=> \A n \in 1..m : ~Late(s, ds[n])
  BY <1>1 DEF Late
<1>3. Current(s, path) = IF late = {} THEN "trusted"
                         ELSE IF Has(s, path[Min(late)], "expired") THEN "expired" ELSE "not_yet_valid"
  BY DEF Current
<1> HIDE DEF late
<1> QED
  BY <1>2, <1>3 DEF Dates

\* evaluate_trust's objections to a path, along the chain itself.
LEMMA AllowedIs ==
  ASSUME NEW s, NEW ds, IsChain(ds), NEW m \in 1..Len(ds), NEW path, path = SubSeq(ds, 1, m)
  PROVE Allowed(s, ds, m) <=>
           ~(\/ \E n \in 1..(Len(path) - 1) : ~MaySign(s, path[n + 1], path[n])
             \/ ~LengthOk(s, path) \/ ~NamesOk(s, path))
<1>1. /\ Len(path) = m /\ \A k \in 1..m : path[k] = ds[k]
      /\ Range(Tail(path)) = Above(ds, m) /\ m \in Nat
  <2>1. m \in Nat
    BY DEF IsChain
  <2>2. Len(path) = m /\ \A k \in 1..m : path[k] = ds[k]
    BY PathIs
  <2>3. Range(Tail(path)) = Above(ds, m)
    BY PathIs
  <2> QED
    BY <2>1, <2>2, <2>3
<1>2. (\A n \in 1..(m - 1) : MaySign(s, ds[n + 1], ds[n])) <=>
         ~\E n \in 1..(Len(path) - 1) : ~MaySign(s, path[n + 1], path[n])
  <2>1. \A n \in 1..(m - 1) : n \in 1..m /\ n + 1 \in 1..m
    BY <1>1
  <2> QED
    BY <1>1, <2>1
<1>3. (\A n \in 2..m : Has(s, ds[n], "pathlen0") => \A k \in 2..(n - 1) : SelfSigned(s, ds[k])) <=>
         LengthOk(s, path)
  <2>1. \A n \in 2..m : n \in 1..m /\ \A k \in 2..(n - 1) : k \in 1..m
    BY <1>1
  <2>2. LengthOk(s, path) <=>
           \A n \in 2..m : Has(s, path[n], "pathlen0") => \A k \in 2..(n - 1) : SelfSigned(s, path[k])
    BY <1>1 DEF LengthOk
  <2> QED
    BY <1>1, <2>1, <2>2
<1>4. (\A n \in 2..m : ~Has(s, ds[n], "excludes")) /\ ~Has(s, "R", "excludes") <=> NamesOk(s, path)
  BY <1>1 DEF NamesOk, Above
<1> QED
  BY <1>2, <1>3, <1>4 DEF Allowed

\* There is one that reaches the store as soon as any is signed by who is in it.
LEMMA ReachesIs ==
  ASSUME NEW s, NEW ds, IsChain(ds),
         NEW n \in 1..Len(ds), InStore(s, Issuer(s, ds[n])), Verify(s, ds[n], Issuer(s, ds[n])) = "yes"
  PROVE \E m \in 1..n : Reaches(s, ds, m)
<1> DEFINE S == {k \in 1..Len(ds) : InStore(s, Issuer(s, ds[k])) /\ Verify(s, ds[k], Issuer(s, ds[k])) = "yes"}
<1>1. Len(ds) \in Nat \ {0}
  BY TrustAssumption DEF IsChain
<1>2. S \in SUBSET Nat /\ n \in S
  BY <1>1
<1>3. Min(S) \in S /\ \A y \in S : Min(S) <= y
  BY <1>2, LeastIs
<1> DEFINE m == Min(S)
<1> HIDE DEF m
<1>4. m \in S /\ \A y \in S : m <= y
  BY <1>3 DEF m
<1>5. m \in 1..n /\ \A k \in 1..(m - 1) : k \in 1..Len(ds) /\ k \notin S
  BY <1>1, <1>2, <1>4
<1>6. Reaches(s, ds, m)
  BY <1>4, <1>5 DEF Reaches
<1> QED
  BY <1>5, <1>6

\* The first is the one.
LEMMA ReachedIs ==
  ASSUME NEW s, NEW ds, IsChain(ds), NEW m, Reaches(s, ds, m)
  PROVE LET reached == {n \in DOMAIN ds : /\ InStore(s, Issuer(s, ds[n]))
                                          /\ Verify(s, ds[n], Issuer(s, ds[n])) = "yes"}
        IN  reached # {} /\ Min(reached) = m
<1> DEFINE S == {n \in DOMAIN ds : /\ InStore(s, Issuer(s, ds[n]))
                                   /\ Verify(s, ds[n], Issuer(s, ds[n])) = "yes"}
<1>1. DOMAIN ds = 1..Len(ds) /\ Len(ds) \in Nat \ {0}
  BY TrustAssumption DEF IsChain
<1>2. m \in S /\ S \in SUBSET Int
  BY <1>1 DEF Reaches
<1>3. \A y \in S : m <= y
  <2>1. SUFFICES ASSUME NEW y \in S, ~(m <= y) PROVE FALSE
    OBVIOUS
  <2>2. y \in 1..(m - 1)
    BY <1>1, <1>2, <2>1
  <2> QED
    BY <2>1, <2>2 DEF Reaches
<1> HIDE DEF S
<1>4. S # {} /\ Min(S) = m
  BY <1>2, <1>3, MinIs
<1> QED
  BY <1>4 DEF S

\* evaluate_trust, where the store has roots and the certificate did not sign itself.
LEMMA TrustAlong ==
  ASSUME NEW s, NEW ds, IsChain(ds), s.store \in {"root", "other"}, ~SelfSigned(s, ds[1])
  PROVE /\ PathTrust(s, ds) \in Dates \cup {"untrusted"}
        /\ PathTrust(s, ds) \in Dates =>
              \E m \in 1..Len(ds) :
                 /\ Reaches(s, ds, m) /\ Allowed(s, ds, m)
                 /\ PathTrust(s, ds) = "trusted" <=> \A n \in 1..m : ~Late(s, ds[n])
        /\ \A m \in 1..Len(ds) :
              Reaches(s, ds, m) /\ Allowed(s, ds, m) /\ (\A n \in 1..m : ~Late(s, ds[n])) =>
                 PathTrust(s, ds) = "trusted"
<1> DEFINE reached == {n \in DOMAIN ds : /\ InStore(s, Issuer(s, ds[n]))
                                         /\ Verify(s, ds[n], Issuer(s, ds[n])) = "yes"}
           path == SubSeq(ds, 1, Min(reached))
           bad == \/ reached = {}
                  \/ \E n \in 1..(Len(path) - 1) : ~MaySign(s, path[n + 1], path[n])
                  \/ ~LengthOk(s, path) \/ ~NamesOk(s, path)
<1>1. PathTrust(s, ds) = IF bad THEN "untrusted" ELSE Current(s, path)
  BY DEF PathTrust
<1>2. ASSUME NEW m \in 1..Len(ds), Reaches(s, ds, m)
      PROVE /\ bad <=> ~Allowed(s, ds, m)
            /\ Current(s, path) \in Dates
            /\ Current(s, path) = "trusted" <=> \A n \in 1..m : ~Late(s, ds[n])
  <2>1. reached # {} /\ path = SubSeq(ds, 1, m)
    BY <1>2, ReachedIs
  <2> HIDE DEF reached, path
  <2>2. bad <=> ~Allowed(s, ds, m)
    BY <2>1, AllowedIs
  <2>3. /\ Current(s, path) \in Dates
        /\ Current(s, path) = "trusted" <=> \A n \in 1..m : ~Late(s, ds[n])
    BY <2>1, CurrentIs
  <2> QED
    BY <2>2, <2>3
<1>3. ~bad => \E m \in 1..Len(ds) : Reaches(s, ds, m)
  <2>1. SUFFICES ASSUME NEW n \in reached PROVE \E m \in 1..Len(ds) : Reaches(s, ds, m)
    OBVIOUS
  <2>2. n \in 1..Len(ds)
    BY DEF IsChain
  <2>3. PICK m \in 1..n : Reaches(s, ds, m)
    BY <2>1, <2>2, ReachesIs
  <2> QED
    BY <2>3 DEF Reaches
<1> HIDE DEF bad, path
<1>4. CASE bad
  <2>1. PathTrust(s, ds) = "untrusted"
    BY <1>1, <1>4
  <2>2. \A m \in 1..Len(ds) : Reaches(s, ds, m) => ~Allowed(s, ds, m)
    BY <1>2, <1>4
  <2> QED
    BY <2>1, <2>2 DEF Dates
<1>5. CASE ~bad
  <2>1. PathTrust(s, ds) = Current(s, path)
    BY <1>1, <1>5
  <2>2. PICK m \in 1..Len(ds) : Reaches(s, ds, m)
    BY <1>3, <1>5
  <2>3. /\ Allowed(s, ds, m) /\ PathTrust(s, ds) \in Dates
        /\ PathTrust(s, ds) = "trusted" <=> \A n \in 1..m : ~Late(s, ds[n])
    BY <1>2, <1>5, <2>1, <2>2
  <2>4. \A k \in 1..Len(ds) : Reaches(s, ds, k) /\ (\A n \in 1..k : ~Late(s, ds[n])) => PathTrust(s, ds) = "trusted"
    BY <1>2, <2>1
  <2> QED
    BY <2>2, <2>3, <2>4
<1> QED
  BY <1>4, <1>5

\* And whatever the store.
LEMMA PathTrustIs ==
  ASSUME NEW s, NEW ds, IsChain(ds), s.store \in {"root", "other", "empty", "none"}
  PROVE /\ PathTrust(s, ds) \in Dates \cup {"untrusted", "self_signed", "not_checked"}
        /\ PathTrust(s, ds) \in Dates =>
              /\ s.store = "root"
              /\ \E m \in 1..Len(ds) :
                 /\ Reaches(s, ds, m) /\ Allowed(s, ds, m)
                 /\ PathTrust(s, ds) = "trusted" <=> \A n \in 1..m : ~Late(s, ds[n])
        /\ s.store = "root" =>
              /\ PathTrust(s, ds) # "not_checked"
              /\ \A m \in 1..Len(ds) :
                    Reaches(s, ds, m) /\ Allowed(s, ds, m) /\ (\A n \in 1..m : ~Late(s, ds[n])) =>
                       PathTrust(s, ds) \in {"trusted", "self_signed"}
              /\ PathTrust(s, ds) = "self_signed" => SelfSigned(s, ds[1])
<1>1. CASE s.store \in {"none", "empty"}
  <2>1. PathTrust(s, ds) \in {"self_signed", "not_checked"}
    BY <1>1 DEF PathTrust
  <2> QED
    BY <1>1, <2>1 DEF Dates
<1>2. CASE s.store \in {"root", "other"} /\ SelfSigned(s, ds[1])
  <2>1. PathTrust(s, ds) = "self_signed"
    BY <1>2 DEF PathTrust
  <2> QED
    BY <1>2, <2>1 DEF Dates
<1>3. CASE s.store \in {"root", "other"} /\ ~SelfSigned(s, ds[1])
  <2>1. \A m : Reaches(s, ds, m) => s.store = "root"
    BY DEF Reaches, InStore
  <2> QED
    BY <1>3, <2>1, TrustAlong DEF Dates
<1> QED
  BY <1>1, <1>2, <1>3

\* And with certificates that do not parse, over which evaluate_trust gives up.
LEMMA TrustIs ==
  ASSUME NEW s, NEW ds, IsChain(ds), s.store \in {"root", "other", "empty", "none"}
  PROVE /\ TrustOf(s, ds) \in Dates \cup {"untrusted", "self_signed", "not_checked", "unknown", "unreadable"}
        /\ TrustOf(s, ds) \in Dates =>
              /\ s.store = "root"
              /\ \E m \in 1..Len(ds) :
                 /\ Reaches(s, ds, m) /\ Allowed(s, ds, m)
                 /\ TrustOf(s, ds) = "trusted" <=> \A n \in 1..m : ~Late(s, ds[n])
        /\ s.store = "root" =>
              /\ TrustOf(s, ds) # "not_checked"
              /\ \A m \in 1..Len(ds) :
                    Reaches(s, ds, m) /\ Allowed(s, ds, m) /\ (\A n \in 1..m : ~Late(s, ds[n])) =>
                       TrustOf(s, ds) \in {"trusted", "self_signed", "unknown", "unreadable"}
              /\ TrustOf(s, ds) = "self_signed" => SelfSigned(s, ds[1])
        /\ TrustOf(s, ds) \in {"unknown", "unreadable"} => \E d \in Range(ds) : ~Parses(s, d)
<1>1. CASE \E c \in Range(ds) : Garbled(s, c)
  BY <1>1 DEF TrustOf, Garbled, Parses, Dates
<1>2. CASE /\ ~\E c \in Range(ds) : Garbled(s, c)
           /\ s.store \in {"root", "other"} /\ \E c \in Range(ds) : ~Parses(s, c)
  BY <1>2 DEF TrustOf, Dates
<1>3. CASE /\ ~\E c \in Range(ds) : Garbled(s, c)
           /\ ~(s.store \in {"root", "other"} /\ \E c \in Range(ds) : ~Parses(s, c))
  <2>1. TrustOf(s, ds) = PathTrust(s, ds)
    BY <1>3 DEF TrustOf
  <2>2. PathTrust(s, ds) \notin {"unknown", "unreadable"}
    BY PathTrustIs DEF Dates
  <2> QED
    BY <2>1, <2>2, PathTrustIs
<1> QED
  BY <1>1, <1>2, <1>3

-----------------------------------------------------------------------------
(* Certificates: sound paths.                                               *)

\* A signature by the one above, and one that the store's root made.
LEMMA MaySignIs ==
  ASSUME NEW s, NEW c \in Held, NEW issuer
  PROVE MaySign(s, issuer, c) <=>
           /\ ~Has(s, issuer, "not_ca") /\ ~Has(s, issuer, "no_cert_sign")
           /\ ~Has(s, c, "odd_algorithm") /\ ~Has(s, c, "bad_signature") /\ Subject(issuer) = Issuer(s, c)
BY VerifyIs DEF MaySign

\* What a root of the store signed.
LEMMA InStoreIs ==
  ASSUME NEW s, NEW c \in Held
  PROVE InStore(s, Issuer(s, c)) /\ Verify(s, c, Issuer(s, c)) = "yes" <=>
           /\ s.store = "root" /\ Issuer(s, c) = "R"
           /\ ~Has(s, c, "odd_algorithm") /\ ~Has(s, c, "bad_signature")
<1>1. Subject("R") = "R"
  BY DEF Subject
<1>2. InStore(s, Issuer(s, c)) <=> s.store = "root" /\ Issuer(s, c) = "R"
  BY DEF InStore
<1>3. ASSUME Issuer(s, c) = "R"
      PROVE Verify(s, c, Issuer(s, c)) = "yes" <=> ~Has(s, c, "odd_algorithm") /\ ~Has(s, c, "bad_signature")
  BY <1>1, <1>3, VerifyIs
<1> QED
  BY <1>2, <1>3

\* A chain cut off behind its n-th certificate is sound.
SoundTo(s, ds, n) ==
    /\ s.store = "root" /\ Issuer(s, ds[n]) = "R" /\ ~Has(s, "R", "excludes")
    /\ \A k \in 1..n : ~Has(s, ds[k], "bad_signature") /\ ~Has(s, ds[k], "odd_algorithm")
    /\ \A k \in 1..(n - 1) : Subject(ds[k + 1]) = Issuer(s, ds[k])
    /\ \A k \in 2..n : /\ ~Has(s, ds[k], "not_ca") /\ ~Has(s, ds[k], "no_cert_sign") /\ ~Has(s, ds[k], "excludes")
                       /\ ~(k > 2 /\ Has(s, ds[k], "pathlen0"))

\* What evaluate_trust allows is sound: a root behind the second certificate is the
\* only one that would be signed by itself, and no path goes on behind it.
LEMMA AllowedIsSound ==
  ASSUME NEW s, NEW ds, IsChain(ds), NEW m \in 1..Len(ds), Reaches(s, ds, m), Allowed(s, ds, m)
  PROVE SoundTo(s, ds, m)
<1>1. /\ \A k \in 1..Len(ds) : ds[k] \in Held
      /\ \A k \in 2..Len(ds) : ds[k] \in Others
      /\ \A i, k \in 1..Len(ds) : ds[i] = ds[k] => i = k
      /\ m \in Nat /\ Len(ds) \in Nat
  BY TrustAssumption DEF IsChain
<1>2. /\ s.store = "root" /\ Issuer(s, ds[m]) = "R"
      /\ ~Has(s, ds[m], "odd_algorithm") /\ ~Has(s, ds[m], "bad_signature")
  BY <1>1, InStoreIs DEF Reaches
<1>3. ASSUME NEW k \in 1..(m - 1)
      PROVE /\ ~Has(s, ds[k + 1], "not_ca") /\ ~Has(s, ds[k + 1], "no_cert_sign")
            /\ ~Has(s, ds[k], "odd_algorithm") /\ ~Has(s, ds[k], "bad_signature")
            /\ Subject(ds[k + 1]) = Issuer(s, ds[k])
  <2>1. ds[k] \in Held
    BY <1>1
  <2>2. MaySign(s, ds[k + 1], ds[k])
    BY DEF Allowed
  <2> QED
    BY <2>1, <2>2, MaySignIs
<1>4. \A k \in 1..m : ~Has(s, ds[k], "bad_signature") /\ ~Has(s, ds[k], "odd_algorithm")
  <2>1. \A k \in 1..m : k \in 1..(m - 1) \/ k = m
    BY <1>1
  <2> QED
    BY <1>2, <1>3, <2>1
<1>5. ASSUME NEW k \in 2..m
      PROVE ~Has(s, ds[k], "not_ca") /\ ~Has(s, ds[k], "no_cert_sign") /\ ~Has(s, ds[k], "excludes")
  <2>1. k - 1 \in 1..(m - 1) /\ (k - 1) + 1 = k
    BY <1>1
  <2> QED
    BY <1>3, <2>1 DEF Allowed
<1>6. ASSUME NEW k \in 2..m, k > 2, Has(s, ds[k], "pathlen0") PROVE FALSE
  <2>1. 2 \in 2..(k - 1) /\ 2 \in 2..Len(ds) /\ 2 \in 1..(m - 1) /\ 2 + 1 \in 2..Len(ds) /\ 2 + 1 \in 1..Len(ds)
        /\ 2 \in 1..Len(ds)
    BY <1>1, <1>6
  <2>2. SelfSigned(s, ds[2])
    BY <1>6, <2>1 DEF Allowed
  <2>3. ds[2] = "R"
    BY <1>1, <2>1, <2>2, IssuerIs
  <2>4. Issuer(s, ds[2]) = "R"
    BY <2>3 DEF Issuer
  <2>5. Subject(ds[2 + 1]) = "R"
    BY <1>3, <2>1, <2>4
  <2>6. ds[2 + 1] = "R"
    BY <1>1, <2>1, <2>5 DEF Subject, Others
  <2> QED
    BY <1>1, <2>1, <2>3, <2>6
<1> QED
  BY <1>2, <1>3, <1>4, <1>5, <1>6 DEF SoundTo, Allowed

\* And what is sound is allowed, up to where it meets the store, which is no later.
LEMMA SoundIsAllowed ==
  ASSUME NEW s, NEW ds, IsChain(ds), NEW n \in 1..Len(ds), SoundTo(s, ds, n)
  PROVE \E m \in 1..n : Reaches(s, ds, m) /\ Allowed(s, ds, m)
<1>1. /\ \A k \in 1..Len(ds) : ds[k] \in Held
      /\ n \in Nat /\ Len(ds) \in Nat
  BY TrustAssumption DEF IsChain
<1>2. InStore(s, Issuer(s, ds[n])) /\ Verify(s, ds[n], Issuer(s, ds[n])) = "yes"
  <2>1. n \in 1..n
    BY <1>1
  <2> QED
    BY <1>1, <2>1, InStoreIs DEF SoundTo
<1>3. PICK m \in 1..n : Reaches(s, ds, m)
  BY <1>2, ReachesIs
<1>4. ASSUME NEW k \in 1..(m - 1) PROVE MaySign(s, ds[k + 1], ds[k])
  <2>1. k \in 1..n /\ k \in 1..(n - 1) /\ k + 1 \in 2..n /\ k \in 1..Len(ds)
    BY <1>1
  <2> QED
    BY <1>1, <2>1, MaySignIs DEF SoundTo
<1>5. ASSUME NEW k \in 2..m
      PROVE /\ ~Has(s, ds[k], "excludes")
            /\ Has(s, ds[k], "pathlen0") => \A i \in 2..(k - 1) : SelfSigned(s, ds[i])
  <2>1. k \in 2..n /\ (k > 2 \/ 2..(k - 1) = {})
    BY <1>1
  <2> QED
    BY <2>1 DEF SoundTo
<1>6. Allowed(s, ds, m)
  BY <1>4, <1>5 DEF Allowed, SoundTo
<1> QED
  BY <1>3, <1>6

\* Of a sequence that begins as a chain does.
LEMMA SoundPathIs ==
  ASSUME NEW s, NEW ds, NEW m \in Nat \ {0}, NEW p, Len(p) = m, DOMAIN p = 1..m,
         \A k \in 1..m : p[k] = ds[k]
  PROVE /\ SoundPath(s, p) <=> SoundTo(s, ds, m)
        /\ InDate(s, p) <=> \A k \in 1..m : ~Late(s, ds[k])
<1>1. Last(p) = ds[m]
  BY DEF Last
<1>2. InDate(s, p) <=> \A k \in 1..m : ~Late(s, ds[k])
  BY DEF InDate, Late
<1>3. ASSUME NEW c
      PROVE {<<c, d>> : d \in {"not_ca", "no_cert_sign", "excludes"}} \cap s.defects = {} <=>
               ~Has(s, c, "not_ca") /\ ~Has(s, c, "no_cert_sign") /\ ~Has(s, c, "excludes")
  BY DEF Has
<1>4. (\A n \in 2..m : Subject(p[n]) = Issuer(s, p[n - 1])) <=>
         \A k \in 1..(m - 1) : Subject(ds[k + 1]) = Issuer(s, ds[k])
  <2>1. ASSUME \A n \in 2..m : Subject(p[n]) = Issuer(s, p[n - 1]), NEW k \in 1..(m - 1)
        PROVE Subject(ds[k + 1]) = Issuer(s, ds[k])
    <3>1. k + 1 \in 2..m /\ k + 1 \in 1..m /\ k \in 1..m /\ (k + 1) - 1 = k
      OBVIOUS
    <3> QED
      BY <2>1, <3>1
  <2>2. ASSUME \A k \in 1..(m - 1) : Subject(ds[k + 1]) = Issuer(s, ds[k]), NEW n \in 2..m
        PROVE Subject(p[n]) = Issuer(s, p[n - 1])
    <3>1. n - 1 \in 1..(m - 1) /\ n - 1 \in 1..m /\ n \in 1..m /\ (n - 1) + 1 = n
      OBVIOUS
    <3> QED
      BY <2>2, <3>1
  <2> QED
    BY <2>1, <2>2
<1>5. SoundPath(s, p) <=> SoundTo(s, ds, m)
  <2> DEFINE Free(c) == ~Has(s, c, "not_ca") /\ ~Has(s, c, "no_cert_sign") /\ ~Has(s, c, "excludes")
             Barred(c) == {<<c, d>> : d \in {"not_ca", "no_cert_sign", "excludes"}} \cap s.defects = {}
  <2>1. \A c : Barred(c) <=> Free(c)
    BY <1>3
  <2>2. SoundPath(s, p) <=>
          /\ Issuer(s, Last(p)) = "R" /\ s.store = "root"
          /\ \A n \in 1..m : ~Has(s, p[n], "bad_signature") /\ ~Has(s, p[n], "odd_algorithm")
          /\ \A n \in 2..m : Subject(p[n]) = Issuer(s, p[n - 1]) /\ Barred(p[n]) /\ ~(n > 2 /\ Has(s, p[n], "pathlen0"))
          /\ ~Has(s, "R", "excludes")
    BY DEF SoundPath
  <2>3. SoundTo(s, ds, m) <=>
          /\ s.store = "root" /\ Issuer(s, ds[m]) = "R" /\ ~Has(s, "R", "excludes")
          /\ \A k \in 1..m : ~Has(s, ds[k], "bad_signature") /\ ~Has(s, ds[k], "odd_algorithm")
          /\ \A k \in 1..(m - 1) : Subject(ds[k + 1]) = Issuer(s, ds[k])
          /\ \A k \in 2..m : Free(ds[k]) /\ ~(k > 2 /\ Has(s, ds[k], "pathlen0"))
    BY DEF SoundTo
  <2> HIDE DEF Free, Barred
  <2>4. \A n \in 2..m : n \in 1..m
    OBVIOUS
  <2> QED
    BY <1>1, <1>4, <2>1, <2>2, <2>3, <2>4
<1> QED
  BY <1>2, <1>5

\* A chain cut off is one of the paths.
LEMMA PathFound ==
  ASSUME NEW ds, IsChain(ds), NEW m \in 1..Len(ds)
  PROVE \E p \in Paths(ds) : Len(p) = m /\ DOMAIN p = 1..m /\ \A k \in 1..m : p[k] = ds[k]
<1> DEFINE q == [k \in 1..(m - 1) |-> ds[k + 1]]
           p == <<ds[1]>> \o q
<1>1. /\ Len(ds) \in Nat /\ m \in Nat \ {0} /\ ds \in Seq(Held) /\ DOMAIN ds = 1..Len(ds)
      /\ \A i, k \in 1..Len(ds) : ds[i] = ds[k] => i = k
      /\ \A k \in 1..Len(ds) : ds[k] \in Held
  BY TrustAssumption DEF IsChain
<1>2. \A k \in 1..(m - 1) : k + 1 \in 2..Len(ds) /\ k + 1 \in 1..Len(ds)
  BY <1>1
<1>3. DOMAIN Tail(ds) = 1..(Len(ds) - 1) /\ \A k \in 1..(Len(ds) - 1) : Tail(ds)[k] = ds[k + 1]
  <2>1. ds # <<>>
    BY <1>1
  <2> QED
    BY <1>1, <2>1
<1>4. q \in [1..(m - 1) -> Range(Tail(ds))]
  <2>1. ASSUME NEW k \in 1..(m - 1) PROVE ds[k + 1] \in Range(Tail(ds))
    <3>1. k \in 1..(Len(ds) - 1)
      BY <1>1
    <3> QED
      BY <1>3, <3>1 DEF Range
  <2> QED
    BY <2>1
<1>5. IsInjective(q)
  <2>1. ASSUME NEW i \in 1..(m - 1), NEW k \in 1..(m - 1), q[i] = q[k] PROVE i = k
    <3>1. ds[i + 1] = ds[k + 1]
      BY <2>1
    <3>2. i + 1 = k + 1
      BY <1>1, <1>2, <3>1
    <3> QED
      BY <1>1, <3>2
  <2> QED
    BY <2>1 DEF IsInjective
<1>6. p \in Paths(ds)
  <2>1. m - 1 \in 0..(Len(ds) - 1)
    BY <1>1
  <2> DEFINE Q == {r \in UNION {[1..n -> Range(Tail(ds))] : n \in 0..(Len(ds) - 1)} : IsInjective(r)}
  <2>2. q \in Q
    <3> HIDE DEF q
    <3> QED
      BY <1>4, <1>5, <2>1
  <2> HIDE DEF Q, q
  <2>3. p \in {<<ds[1]>> \o r : r \in Q}
    BY <2>2
  <2> QED
    BY <2>3 DEF Paths, Q
<1>7. q \in Seq(Held) /\ Len(q) = m - 1
  BY <1>1, <1>2
<1>8. Len(p) = m /\ DOMAIN p = 1..m /\ \A k \in 1..m : p[k] = ds[k]
  <2>1. q \in Seq(Held) /\ Len(q) = m - 1 /\ \A k \in 1..(m - 1) : q[k] = ds[k + 1]
    BY <1>7
  <2>2. <<ds[1]>> \in Seq(Held) /\ Len(<<ds[1]>>) = 1
    BY <1>1
  <2> DEFINE u == <<ds[1]>>
  <2>3. \A k \in 1..1 : u[k] = ds[k]
    OBVIOUS
  <2> HIDE DEF q, u
  <2>4. /\ u \o q \in Seq(Held) /\ Len(u \o q) = Len(u) + Len(q)
        /\ \A n \in 1..Len(u) : (u \o q)[n] = u[n]
        /\ \A n \in 1..Len(q) : (u \o q)[Len(u) + n] = q[n]
    BY <2>1, <2>2, Joined2 DEF u
  <2>5. p = u \o q
    BY DEF u
  <2> HIDE DEF p
  <2>6. Len(p) = m /\ DOMAIN p = 1..m
    BY <1>1, <2>1, <2>2, <2>4, <2>5 DEF u
  <2>7. ASSUME NEW k \in 1..m PROVE p[k] = ds[k]
    <3>1. CASE k = 1
      BY <2>2, <2>3, <2>4, <2>5, <3>1 DEF u
    <3>2. CASE k # 1
      <4>1. k - 1 \in 1..(m - 1) /\ 1 + (k - 1) = k /\ (k - 1) + 1 = k
        BY <1>1, <3>2
      <4>2. p[1 + (k - 1)] = q[k - 1]
        BY <2>1, <2>2, <2>4, <2>5, <4>1 DEF u
      <4> QED
        BY <2>1, <4>1, <4>2
    <3> QED
      BY <3>1, <3>2
  <2> QED
    BY <2>6, <2>7
<1> QED
  BY <1>6, <1>8

\* Any path is a sequence that is not empty.
LEMMA PathsAre ==
  ASSUME NEW ds, IsChain(ds), NEW p \in Paths(ds)
  PROVE Len(p) \in Nat \ {0} /\ DOMAIN p = 1..Len(p) /\ p \in Seq(Held)
<1>1. /\ Len(ds) \in Nat \ {0} /\ ds \in Seq(Held) /\ DOMAIN ds = 1..Len(ds)
      /\ \A k \in 1..Len(ds) : ds[k] \in Held
  BY TrustAssumption DEF IsChain
<1>2. PICK n \in 0..(Len(ds) - 1) : \E q \in [1..n -> Range(Tail(ds))] : p = <<ds[1]>> \o q
  BY DEF Paths
<1>3. PICK q \in [1..n -> Range(Tail(ds))] : p = <<ds[1]>> \o q
  BY <1>2
<1>4. Range(Tail(ds)) \subseteq Held
  <2>1. ds # <<>>
    BY <1>1
  <2>2. Tail(ds) \in Seq(Held)
    BY <1>1, <2>1
  <2> QED
    BY <2>2 DEF Range
<1>5. q \in Seq(Held) /\ <<ds[1]>> \in Seq(Held) /\ Len(<<ds[1]>>) = 1
  BY <1>1, <1>3, <1>4
<1> DEFINE u == <<ds[1]>>
<1> HIDE DEF u
<1>6. u \in Seq(Held) /\ Len(u) = 1 /\ p = u \o q /\ q \in Seq(Held)
  BY <1>3, <1>5 DEF u
<1>7. u \o q \in Seq(Held) /\ Len(u \o q) = Len(u) + Len(q) /\ Len(q) \in Nat
  <2>1. u \in Seq(Held) /\ q \in Seq(Held)
    BY <1>6
  <2>2. Len(q) \in Nat
    BY <2>1
  <2>3. u \o q \in Seq(Held)
    BY <2>1, Joined2
  <2>4. Len(u \o q) = Len(u) + Len(q)
    BY <2>1, Joined2
  <2> QED
    BY <2>2, <2>3, <2>4
<1>8. p \in Seq(Held) /\ Len(p) = 1 + Len(q)
  BY <1>6, <1>7
<1> QED
  BY <1>7, <1>8

-----------------------------------------------------------------------------
(* Certificates: what is known of a chain.                                  *)

\* verify_chain_signatures.
LEMMA SignaturesAre ==
  ASSUME NEW s, NEW ds, IsChain(ds)
  PROVE /\ Signatures(s, ds) \in {"yes", "no", "none"}
        /\ Signatures(s, ds) = "yes" /\ Len(ds) >= 2 => Genuine(s, ds)
        /\ SoundTo(s, ds, Len(ds)) => Signatures(s, ds) # "no"
<1>1. /\ Len(ds) \in Nat \ {0} /\ \A k \in 1..Len(ds) : ds[k] \in Held
      /\ \A k \in 2..Len(ds) : ds[k] \in Others
  BY TrustAssumption DEF IsChain
<1>2. Signatures(s, ds) \in {"yes", "no", "none"}
  BY DEF Signatures
<1>3. ASSUME Signatures(s, ds) = "yes", Len(ds) >= 2 PROVE Genuine(s, ds)
  <2>1. Links(s, ds) = {"yes"}
    BY <1>3, Zenon DEF Signatures
  <2>2. 1 \in 1..(Len(ds) - 1) /\ 1 \in 1..Len(ds) /\ 1 + 1 = 2
    BY <1>1, <1>3
  <2>3. Verify(s, ds[1], ds[1 + 1]) \in Links(s, ds)
    BY <2>2 DEF Links
  <2>4. Verify(s, ds[1], ds[2]) = "yes"
    BY <2>1, <2>2, <2>3
  <2>5. ds[1] \in Held
    BY <1>1, <2>2
  <2> QED
    BY <2>4, <2>5, VerifyIs DEF Genuine
<1>4. ASSUME SoundTo(s, ds, Len(ds)) PROVE Signatures(s, ds) # "no"
  <2>1. ASSUME NEW k \in 1..(Len(ds) - 1) PROVE Verify(s, ds[k], ds[k + 1]) = "yes"
    <3>1. k \in 1..Len(ds)
      BY <1>1
    <3>2. /\ ~Has(s, ds[k], "odd_algorithm") /\ ~Has(s, ds[k], "bad_signature")
          /\ Subject(ds[k + 1]) = Issuer(s, ds[k])
      BY <1>4, <3>1 DEF SoundTo
    <3> QED
      BY <1>1, <3>1, <3>2, VerifyIs
  <2>2. SelfSigned(s, Last(ds)) => Verify(s, Last(ds), Last(ds)) = "yes"
    <3>1. Last(ds) = ds[Len(ds)] /\ Len(ds) \in 1..Len(ds)
      BY <1>1 DEF Last
    <3>2. ~Has(s, Last(ds), "odd_algorithm") /\ ~Has(s, Last(ds), "bad_signature") /\ Last(ds) \in Held
      BY <1>1, <1>4, <3>1 DEF SoundTo
    <3> QED
      BY <3>2, VerifyIs DEF SelfSigned
  <2>3. "no" \notin Links(s, ds)
    BY <2>1, <2>2 DEF Links
  <2> QED
    BY <2>3 DEF Signatures
<1> QED
  BY <1>2, <1>3, <1>4

\* The records there are.
Records ==
    [certs : Seq(Held), trust : {"none", "trusted", "expired", "not_yet_valid", "untrusted", "self_signed",
                                 "not_checked", "unknown", "unreadable"},
     signatures : {"none", "yes", "no"}, aia : BOOLEAN, ocsp : {"unsaid", "good", "revoked"},
     crl : {"unsaid", "good", "revoked"}, stapled : {"unsaid", "good", "revoked", "invalid"}]

\* A status of revocation is of a chain with somebody to ask, and the truth if the one
\* asked is who issued the certificate.
Truthful(s, c) ==
    \A x \in {c.ocsp, c.crl, c.stapled} : x \in {"good", "revoked"} =>
        Len(c.certs) >= 2 /\ (Genuine(s, c.certs) => x = IF s.revoked THEN "revoked" ELSE "good")

\* A chain that was judged.
Known(s, c) ==
    /\ c \in Records /\ IsChain(c.certs)
    /\ c.trust = TrustOf(s, c.certs) /\ c.signatures = Signatures(s, c.certs)
    /\ c.aia => Subject(Last(c.certs)) = Issuer(s, Last(Front(c.certs)))
    /\ Truthful(s, c)

\* What TrustSound says of one chain.
Sound(s, c) ==
    LET sound == {p \in Paths(c.certs) : SoundPath(s, p)}
        false == {c.ocsp, c.crl, c.stapled} \cap (IF s.revoked THEN {"good"} ELSE {"revoked"})
    IN
    /\ c.trust = "trusted" => \E p \in sound : InDate(s, p) /\ IsPrefix(p, c.certs)
    /\ c.trust \in {"expired", "not_yet_valid"} => \E p \in sound : ~InDate(s, p)
    /\ s.store = "root" /\ s.defects = {} /\
       (\E p \in sound : IsPrefix(p, c.certs)) => c.trust = "trusted"
    /\ c.aia => Subject(Last(c.certs)) = Issuer(s, Last(Front(c.certs)))
    /\ Rejected(s, c) => c.certs \notin sound \/ ~InDate(s, c.certs) \/ s.revoked
    /\ ~Rejected(s, c) /\ s.store = "root" /\ c.trust # "self_signed" =>
          \/ \E p \in sound : InDate(s, p)
          \/ c.trust \in {"unknown", "unreadable"} /\ \E d \in Range(c.certs) : ~Parses(s, d)
    /\ false # {} => ~Genuine(s, c.certs) /\ c.signatures # "yes"

\* A chain that was judged is told the truth of.
LEMMA KnownIsSound ==
  ASSUME NEW s, NEW c, Known(s, c), s.store \in {"root", "other", "empty", "none"}, s.revoked \in BOOLEAN
  PROVE Sound(s, c)
<1> DEFINE ds == c.certs
           sound == {p \in Paths(ds) : SoundPath(s, p)}
<1>1. /\ IsChain(ds) /\ c.trust = TrustOf(s, ds) /\ c.signatures = Signatures(s, ds) /\ Truthful(s, c)
      /\ c.aia => Subject(Last(ds)) = Issuer(s, Last(Front(ds)))
  BY DEF Known
<1>2. Len(ds) \in Nat \ {0}
  BY <1>1, TrustAssumption DEF IsChain
<1> HIDE DEF ds, sound
<1>3. ASSUME c.trust \in Dates
      PROVE /\ s.store = "root"
            /\ c.trust = "trusted" => \E p \in sound : InDate(s, p) /\ IsPrefix(p, ds)
            /\ c.trust # "trusted" => \E p \in sound : ~InDate(s, p)
  <2>1. s.store = "root"
    BY <1>1, <1>3, TrustIs
  <2>2. PICK m \in 1..Len(ds) :
           /\ Reaches(s, ds, m) /\ Allowed(s, ds, m)
           /\ c.trust = "trusted" <=> \A n \in 1..m : ~Late(s, ds[n])
    BY <1>1, <1>3, TrustIs
  <2>3. SoundTo(s, ds, m)
    BY <1>1, <2>2, AllowedIsSound
  <2>4. PICK p \in Paths(ds) : Len(p) = m /\ DOMAIN p = 1..m /\ \A k \in 1..m : p[k] = ds[k]
    BY <1>1, PathFound
  <2>5. m \in Nat \ {0} /\ m <= Len(ds)
    BY <1>2
  <2>6. SoundPath(s, p) /\ (InDate(s, p) <=> \A k \in 1..m : ~Late(s, ds[k]))
    BY <2>3, <2>4, <2>5, SoundPathIs
  <2>7. p \in sound
    BY <2>6 DEF sound
  <2>8. IsPrefix(p, ds)
    <3>1. SubSeq(p, 1, m) = SubSeq(ds, 1, m)
      BY <2>4 DEF SubSeq
    <3> QED
      BY <2>4, <2>5, <3>1 DEF IsPrefix
  <2> QED
    BY <2>1, <2>2, <2>6, <2>7, <2>8
<1>4. ASSUME NEW n \in 1..Len(ds), SoundTo(s, ds, n), \A k \in 1..n : ~Late(s, ds[k])
      PROVE /\ c.trust \in {"trusted", "self_signed", "unknown", "unreadable"}
            /\ c.trust = "self_signed" => SelfSigned(s, ds[1])
            /\ c.trust \in {"unknown", "unreadable"} => \E d \in Range(ds) : ~Parses(s, d)
  <2>1. PICK m \in 1..n : Reaches(s, ds, m) /\ Allowed(s, ds, m)
    BY <1>1, <1>4, SoundIsAllowed
  <2>2. m \in 1..Len(ds) /\ \A k \in 1..m : k \in 1..n
    BY <1>2
  <2>3. s.store = "root"
    BY <1>4 DEF SoundTo
  <2> QED
    BY <1>1, <1>4, <2>1, <2>2, <2>3, TrustIs
<1>5. ASSUME s.store = "root", s.defects = {}, NEW p \in sound, IsPrefix(p, ds) PROVE c.trust = "trusted"
  <2>1. p \in Paths(ds) /\ SoundPath(s, p)
    BY <1>5 DEF sound
  <2>2. Len(p) \in Nat \ {0} /\ DOMAIN p = 1..Len(p) /\ p \in Seq(Held)
    BY <1>1, <2>1, PathsAre
  <2>3. Len(p) <= Len(ds) /\ SubSeq(p, 1, Len(p)) = SubSeq(ds, 1, Len(p)) /\ ds \in Seq(Held)
    BY <1>1, <1>5 DEF IsPrefix, IsChain
  <2>4. /\ \A k \in 1..Len(p) : SubSeq(p, 1, Len(p))[k] = p[k]
        /\ \A k \in 1..Len(p) : SubSeq(ds, 1, Len(p))[k] = ds[k]
    BY <2>2, <2>3, FirstOf
  <2>5. \A k \in 1..Len(p) : p[k] = ds[k]
    BY <2>3, <2>4
  <2>6. SoundTo(s, ds, Len(p))
    BY <2>1, <2>2, <2>5, SoundPathIs
  <2>7. Len(p) \in 1..Len(ds) /\ \A d, k : ~Has(s, d, k)
    BY <1>2, <1>5, <2>2, <2>3 DEF Has
  <2>8. \A k \in 1..Len(p) : ~Late(s, ds[k])
    BY <2>7 DEF Late
  <2>9. ~SelfSigned(s, ds[1])
    <3>1. ds[1] \in {"leaf", "alt"}
      BY <1>1, <1>2 DEF IsChain
    <3> QED
      BY <2>7, <3>1 DEF SelfSigned, Subject, Issuer
  <2>10. \A d : Parses(s, d)
    BY <2>7 DEF Parses
  <2> QED
    BY <1>4, <2>6, <2>7, <2>8, <2>9, <2>10
<1>6. ASSUME ~Rejected(s, c), s.store = "root", c.trust # "self_signed"
      PROVE \/ \E p \in sound : InDate(s, p)
            \/ c.trust \in {"unknown", "unreadable"} /\ \E d \in Range(ds) : ~Parses(s, d)
  <2>1. /\ c.trust \in Dates \cup {"untrusted", "self_signed", "not_checked", "unknown", "unreadable"}
        /\ c.trust # "not_checked"
        /\ c.trust \in {"unknown", "unreadable"} => \E d \in Range(ds) : ~Parses(s, d)
    BY <1>1, <1>6, TrustIs
  <2>2. c.trust \in {"trusted", "unknown", "unreadable"}
    BY <1>6, <2>1 DEF Rejected, Dates
  <2> QED
    BY <1>3, <2>1, <2>2 DEF Dates
<1>7. ASSUME NEW x \in {c.ocsp, c.crl, c.stapled}, x \in {"good", "revoked"}, Genuine(s, ds)
      PROVE x = IF s.revoked THEN "revoked" ELSE "good"
  BY <1>1, <1>7 DEF Truthful, ds
<1>8. ASSUME NEW x \in {c.ocsp, c.crl, c.stapled}, x \in {"good", "revoked"}, c.signatures = "yes"
      PROVE Genuine(s, ds)
  <2>1. Len(ds) >= 2
    BY <1>1, <1>8 DEF Truthful, ds
  <2> QED
    BY <1>1, <1>8, <2>1, SignaturesAre
<1>9. ASSUME Rejected(s, c), ds \in sound, InDate(s, ds), ~s.revoked PROVE FALSE
  <2>1. SoundPath(s, ds) /\ DOMAIN ds = 1..Len(ds)
    BY <1>1, <1>9 DEF sound, IsChain
  <2>2. SoundTo(s, ds, Len(ds)) /\ \A k \in 1..Len(ds) : ~Late(s, ds[k])
    BY <1>2, <1>9, <2>1, SoundPathIs
  <2>3. Len(ds) \in 1..Len(ds) /\ 1 \in 1..Len(ds)
    BY <1>2
  <2>4. c.trust \in {"trusted", "self_signed", "unknown", "unreadable"}
    BY <1>4, <2>2, <2>3
  <2>5. c.signatures # "no"
    BY <1>1, <2>2, SignaturesAre
  <2>6. "revoked" \in {c.ocsp, c.crl, c.stapled}
    BY <1>9, <2>2, <2>3, <2>4, <2>5 DEF Rejected, Late, ds
  <2>7. Len(ds) >= 2 /\ ~Genuine(s, ds)
    BY <1>1, <1>9, <2>6 DEF Truthful, ds
  <2>8. 1 \in 1..(Len(ds) - 1) /\ 1 + 1 = 2
    BY <1>2, <2>7
  <2>9. Subject(ds[2]) = Issuer(s, ds[1])
    BY <2>2, <2>8 DEF SoundTo
  <2> QED
    BY <2>7, <2>9 DEF Genuine
<1>10. {c.ocsp, c.crl, c.stapled} \cap (IF s.revoked THEN {"good"} ELSE {"revoked"}) # {} =>
          ~Genuine(s, ds) /\ c.signatures # "yes"
  <2>1. ASSUME NEW x \in {c.ocsp, c.crl, c.stapled}, x \in (IF s.revoked THEN {"good"} ELSE {"revoked"})
        PROVE ~Genuine(s, ds) /\ c.signatures # "yes"
    <3>1. x \in {"good", "revoked"} /\ x # (IF s.revoked THEN "revoked" ELSE "good")
      BY <2>1
    <3> QED
      BY <1>7, <1>8, <3>1
  <2> QED
    BY <2>1
<1>11. /\ c.trust = "trusted" => \E p \in sound : InDate(s, p) /\ IsPrefix(p, ds)
       /\ c.trust \in {"expired", "not_yet_valid"} => \E p \in sound : ~InDate(s, p)
  BY <1>3 DEF Dates
<1> QED
  BY <1>1, <1>5, <1>6, <1>9, <1>10, <1>11 DEF Sound, sound, ds

-----------------------------------------------------------------------------
(* Certificates: what servers present.                                      *)

\* A server's own certificate and some of the others, each once.
LEMMA ServedIs ==
  ASSUME NEW n \in 0..(MaxPresented - 1), NEW q \in [1..n -> Others], IsInjective(q)
  PROVE IsChain(<<"leaf">> \o q) /\ Len(<<"leaf">> \o q) <= MaxPresented
<1> DEFINE u == <<"leaf">>
           ds == u \o q
<1>1. MaxPresented \in Nat /\ n \in Nat /\ n + 1 <= MaxPresented
  BY TrustAssumption
<1>2. u \in Seq(Held) /\ Len(u) = 1 /\ \A k \in 1..1 : u[k] = "leaf"
  BY DEF Held
<1>3. q \in Seq(Held) /\ Len(q) = n /\ \A k \in 1..n : q[k] \in Others
  BY <1>1 DEF Held
<1> HIDE DEF u
<1>4. ds \in Seq(Held)
  BY <1>2, <1>3, Joined2
<1>5. Len(ds) = Len(u) + Len(q)
  BY <1>2, <1>3, Joined2
<1>6. (\A k \in 1..Len(u) : ds[k] = u[k]) /\ \A k \in 1..Len(q) : ds[Len(u) + k] = q[k]
  <2>1. u \in Seq(Held) /\ q \in Seq(Held)
    BY <1>2, <1>3
  <2>2. \A k \in 1..Len(u) : ds[k] = u[k]
    BY <2>1, Joined2
  <2>3. \A k \in 1..Len(q) : ds[Len(u) + k] = q[k]
    BY <2>1, Joined2
  <2> QED
    BY <2>2, <2>3
<1> HIDE DEF ds
<1>7. Len(ds) = n + 1 /\ DOMAIN ds = 1..(n + 1)
  BY <1>1, <1>2, <1>3, <1>4, <1>5
<1>8. ASSUME NEW k \in 1..(n + 1)
      PROVE /\ k = 1 => ds[k] = "leaf"
            /\ k # 1 => ds[k] = q[k - 1] /\ ds[k] \in Others /\ k - 1 \in 1..n
  <2>1. CASE k = 1
    BY <1>2, <1>6, <2>1
  <2>2. CASE k # 1
    <3>1. k - 1 \in 1..n /\ 1 + (k - 1) = k
      BY <1>1, <2>2
    <3>2. ds[1 + (k - 1)] = q[k - 1] /\ q[k - 1] \in Others
      BY <1>2, <1>3, <1>6, <3>1
    <3> QED
      BY <2>2, <3>1, <3>2
  <2> QED
    BY <2>1, <2>2
<1>9. ASSUME NEW i \in 1..(n + 1), NEW k \in 1..(n + 1), ds[i] = ds[k] PROVE i = k
  <2>1. "leaf" \notin Others
    BY DEF Others
  <2>2. CASE i = 1 \/ k = 1
    BY <1>8, <1>9, <2>1, <2>2
  <2>3. CASE i # 1 /\ k # 1
    <3>1. q[i - 1] = q[k - 1] /\ i - 1 \in 1..n /\ k - 1 \in 1..n
      BY <1>8, <1>9, <2>3
    <3>2. i - 1 = k - 1
      BY <3>1 DEF IsInjective
    <3> QED
      BY <1>1, <3>2
  <2> QED
    BY <2>2, <2>3
<1>10. IsChain(ds) /\ Len(ds) <= MaxPresented
  <2>1. \A k \in 1..Len(ds) : ds[k] \in Held /\ (IF k = 1 THEN ds[k] \in {"leaf", "alt"} ELSE ds[k] \in Others)
    BY <1>7, <1>8 DEF Held
  <2> QED
    BY <1>1, <1>4, <1>7, <1>9, <2>1 DEF IsChain
<1> QED
  BY <1>10 DEF ds, u

\* With its other certificate in the place of the first.
LEMMA AlternateIs ==
  ASSUME NEW ds, IsChain(ds), Len(ds) <= MaxPresented
  PROVE IsChain(<<"alt">> \o Tail(ds)) /\ Len(<<"alt">> \o Tail(ds)) <= MaxPresented
<1> DEFINE u == <<"alt">>
           q == Tail(ds)
           es == u \o q
           n == Len(ds)
<1>1. /\ MaxPresented \in Nat /\ n \in Nat /\ n >= 1 /\ n <= MaxPresented /\ ds \in Seq(Held)
      /\ \A k \in 1..n : k # 1 => ds[k] \in Others
      /\ \A i, k \in 1..n : ds[i] = ds[k] => i = k
  BY TrustAssumption DEF IsChain
<1>2. u \in Seq(Held) /\ Len(u) = 1 /\ \A k \in 1..1 : u[k] = "alt"
  BY DEF Held
<1>3. q \in Seq(Held) /\ Len(q) = n - 1 /\ \A k \in 1..(n - 1) : q[k] = ds[k + 1]
  <2>1. ds # <<>>
    BY <1>1
  <2> QED
    BY <1>1, <2>1
<1> HIDE DEF u, q, n
<1>4. es \in Seq(Held)
  BY <1>2, <1>3, Joined2
<1>5. Len(es) = Len(u) + Len(q)
  BY <1>2, <1>3, Joined2
<1>6. (\A k \in 1..Len(u) : es[k] = u[k]) /\ \A k \in 1..Len(q) : es[Len(u) + k] = q[k]
  <2>1. u \in Seq(Held) /\ q \in Seq(Held)
    BY <1>2, <1>3
  <2>2. \A k \in 1..Len(u) : es[k] = u[k]
    BY <2>1, Joined2
  <2>3. \A k \in 1..Len(q) : es[Len(u) + k] = q[k]
    BY <2>1, Joined2
  <2> QED
    BY <2>2, <2>3
<1> HIDE DEF es
<1>7. Len(es) = n /\ DOMAIN es = 1..n
  BY <1>1, <1>2, <1>3, <1>4, <1>5
<1>8. ASSUME NEW k \in 1..n
      PROVE /\ k = 1 => es[k] = "alt"
            /\ k # 1 => es[k] = ds[k] /\ es[k] \in Others
  <2>1. CASE k = 1
    BY <1>2, <1>6, <2>1
  <2>2. CASE k # 1
    <3>1. k - 1 \in 1..(n - 1) /\ 1 + (k - 1) = k /\ (k - 1) + 1 = k
      BY <1>1, <2>2
    <3>2. es[1 + (k - 1)] = q[k - 1]
      BY <1>2, <1>3, <1>6, <3>1
    <3> QED
      BY <1>1, <1>3, <2>2, <3>1, <3>2
  <2> QED
    BY <2>1, <2>2
<1>9. ASSUME NEW i \in 1..n, NEW k \in 1..n, es[i] = es[k] PROVE i = k
  <2>1. "alt" \notin Others
    BY DEF Others
  <2> QED
    BY <1>1, <1>8, <1>9, <2>1
<1>10. IsChain(es) /\ Len(es) <= MaxPresented
  <2>1. \A k \in 1..Len(es) : es[k] \in Held /\ (IF k = 1 THEN es[k] \in {"leaf", "alt"} ELSE es[k] \in Others)
    BY <1>7, <1>8 DEF Held
  <2> QED
    BY <1>1, <1>4, <1>7, <1>9, <2>1 DEF IsChain
<1> QED
  BY <1>10 DEF es, u, q

\* The chains that servers present.
LEMMA ServerIs ==
  ASSUME NEW s \in Servers
  PROVE /\ s.store \in {"root", "other", "empty", "none"} /\ s.revoked \in BOOLEAN
        /\ IsChain(s.presented) /\ Len(s.presented) <= MaxPresented
<1>1. s.store \in {"root", "other", "empty", "none"} /\ s.revoked \in BOOLEAN
  BY DEF Servers
<1>2. s.presented \in Presentable
  BY DEF Servers
<1>3. PICK n \in 0..(MaxPresented - 1) :
         \E q \in {r \in [1..n -> Others] : IsInjective(r)} : s.presented = <<"leaf">> \o q
  BY <1>2 DEF Presentable
<1>4. PICK q \in [1..n -> Others] : IsInjective(q) /\ s.presented = <<"leaf">> \o q
  BY <1>3
<1> QED
  BY <1>1, <1>4, ServedIs

\* The record of a chain that was never received.
LEMMA NoChainIs ==
  /\ NoChain \in Records /\ NoChain.certs = <<>> /\ NoChain.trust = "none" /\ NoChain.signatures = "none"
  /\ NoChain.aia = FALSE /\ NoChain.ocsp = "unsaid" /\ NoChain.crl = "unsaid" /\ NoChain.stapled = "unsaid"
BY DEF NoChain, Records

\* A chain that was just judged.
LEMMA BuildIs ==
  ASSUME NEW s, NEW ds, IsChain(ds), s.store \in {"root", "other", "empty", "none"}
  PROVE /\ Known(s, Build(s, ds)) /\ Build(s, ds).certs = ds /\ Build(s, ds).aia = FALSE
        /\ Build(s, ds).ocsp = "unsaid" /\ Build(s, ds).crl = "unsaid" /\ Build(s, ds).stapled = "unsaid"
<1> DEFINE c == Build(s, ds)
<1>1. ds \in Seq(Held)
  BY DEF IsChain
<1>2. /\ TrustOf(s, ds) \in {"trusted", "expired", "not_yet_valid", "untrusted", "self_signed", "not_checked",
                             "unknown", "unreadable"}
      /\ Signatures(s, ds) \in {"none", "yes", "no"}
  BY TrustIs, SignaturesAre DEF Dates
<1> DEFINE x == [NoChain EXCEPT !.certs = ds]
           y == [x EXCEPT !.trust = TrustOf(s, ds)]
           z == [y EXCEPT !.signatures = Signatures(s, ds)]
<1>3. /\ x \in Records /\ x.certs = ds /\ x.aia = FALSE
      /\ x.ocsp = "unsaid" /\ x.crl = "unsaid" /\ x.stapled = "unsaid"
  BY <1>1, NoChainIs DEF Records
<1> HIDE DEF x
<1>4. /\ y \in Records /\ y.certs = ds /\ y.trust = TrustOf(s, ds) /\ y.aia = FALSE
      /\ y.ocsp = "unsaid" /\ y.crl = "unsaid" /\ y.stapled = "unsaid"
  BY <1>2, <1>3 DEF Records
<1> HIDE DEF y
<1>5. /\ z \in Records /\ z.certs = ds /\ z.trust = TrustOf(s, ds) /\ z.signatures = Signatures(s, ds)
      /\ z.aia = FALSE /\ z.ocsp = "unsaid" /\ z.crl = "unsaid" /\ z.stapled = "unsaid"
  BY <1>2, <1>4 DEF Records
<1>6. c = z
  BY DEF Build, x, y
<1> HIDE DEF z, c
<1>7. Truthful(s, c)
  BY <1>5, <1>6 DEF Truthful
<1>8. Known(s, c)
  BY <1>5, <1>6, <1>7 DEF Known
<1> QED
  BY <1>5, <1>6, <1>8 DEF c

-----------------------------------------------------------------------------
(* Certificates: the invariant.                                             *)

\* A chain nothing is left to do for, but to ask about revocation.
Finished(s, c) == c = NoChain \/ Known(s, c)

\* What was received and not judged yet.
Received(c) ==
    /\ c.trust = "none" /\ c.signatures = "none" /\ c.aia = FALSE
    /\ c.ocsp = "unsaid" /\ c.crl = "unsaid" /\ c.stapled = "unsaid"
    /\ IsChain(c.certs) /\ Len(c.certs) <= MaxPresented

\* Where the two chains stand at each place: the second is begun when the first is
\* settled, and nobody is asked about a chain that is not.
TrustAt(s, place, now, ch) ==
    /\ now \in Turns /\ ch \in [Turns -> Records]
    /\ place \in {"retrieve", "retrieve13", "build", "aia", "ocsp", "crl", "staple", "done"}
    /\ \A t \in Turns : (t = now /\ place = "build") \/ Finished(s, ch[t])
    /\ now = "primary" => ch["alternate"] = NoChain
    /\ now = "alternate" => Known(s, ch["primary"])
    /\ place \in {"retrieve", "retrieve13"} => ch[now] = NoChain
    /\ place = "build" => Received(ch[now])
    /\ place = "aia" => Known(s, ch[now]) /\ Len(ch[now].certs) <= MaxPresented /\ ~ch[now].aia
                        /\ ch[now].ocsp = "unsaid" /\ ch[now].crl = "unsaid" /\ ch[now].stapled = "unsaid"
    /\ place \in {"ocsp", "crl"} => now = "primary"
    /\ place \in {"ocsp", "crl", "staple"} => Known(s, ch["primary"]) /\ Len(ch["primary"].certs) >= 2

\* The two chains while certificates are dealt with; the other stages have none.
TrustInv ==
    /\ probe = "trust" => peer \in Servers /\ TrustAt(peer, pc, turn, chains)
    /\ probe # "trust" => TrustIdle

\* The invariant holds as any stage begins.
LEMMA TrustBegins ==
  Init => TrustInv
<1> SUFFICES ASSUME Init PROVE TrustInv
  OBVIOUS
<1>1. CASE TrustIdle /\ probe # "trust"
  BY <1>1 DEF TrustInv
<1>2. CASE TrustInit
  <2>1. /\ probe = "trust" /\ peer \in Servers /\ pc = "retrieve" /\ turn = "primary"
        /\ chains = [t \in Turns |-> NoChain]
    BY <1>2 DEF TrustInit, Begin
  <2>2. TrustAt(peer, pc, turn, chains)
    BY <2>1, NoChainIs DEF TrustAt, Turns, Finished
  <2> QED
    BY <2>1, <2>2 DEF TrustInv
<1> QED
  BY <1>1, <1>2 DEF Init, GradingInit, InvocationInit, Begin

\* What follows a chain that is settled.
LEMMA GoOnKeeps ==
  ASSUME NEW s \in Servers, s = peer, GoOn, turn \in Turns, chains' \in [Turns -> Records],
         \A t \in Turns : Finished(s, chains'[t]),
         turn = "primary" => chains'["alternate"] = NoChain,
         turn = "alternate" => Known(s, chains'["primary"])
  PROVE TrustAt(s, pc', turn', chains')
<1> DEFINE first == chains'["primary"]
<1>1. pc' = Following /\ turn' = IF turn = "primary" /\ pc' = "retrieve" THEN "alternate" ELSE turn
  BY DEF GoOn
<1>2. Finished(s, first) /\ (first.trust # "none" \/ Len(first.certs) >= 2 => Known(s, first))
  BY NoChainIs DEF Finished, Turns
<1>3. CASE turn = "primary" /\ first.trust \notin {"none", "unreadable"} /\ peer.key = "RSA"
  <2>1. pc' = "retrieve" /\ turn' = "alternate"
    BY <1>1, <1>3 DEF Following
  <2> QED
    BY <1>2, <1>3, <2>1 DEF TrustAt, Turns
<1>4. CASE ~(turn = "primary" /\ first.trust \notin {"none", "unreadable"} /\ peer.key = "RSA") /\ peer.asks = "staple" /\ Len(first.certs) >= 2
  <2>1. pc' = "staple" /\ turn' = turn
    BY <1>1, <1>4 DEF Following
  <2> QED
    BY <1>2, <1>4, <2>1 DEF TrustAt
<1>5. CASE ~(turn = "primary" /\ first.trust \notin {"none", "unreadable"} /\ peer.key = "RSA") /\ ~(peer.asks = "staple" /\ Len(first.certs) >= 2)
  <2>1. pc' = "done" /\ turn' = turn
    BY <1>1, <1>5 DEF Following
  <2> QED
    BY <2>1 DEF TrustAt
<1> QED
  BY <1>3, <1>4, <1>5

\* A chain is settled.
LEMMA SettledKeeps ==
  ASSUME NEW s \in Servers, s = peer, TrustAt(s, pc, turn, chains), pc \in {"build", "aia"},
         NEW chain, Known(s, chain), Settled(chain)
  PROVE TrustAt(s, pc', turn', chains')
<1>1. /\ turn \in Turns /\ chains \in [Turns -> Records] /\ chain \in Records
      /\ turn = "primary" => chains["alternate"] = NoChain
      /\ turn = "alternate" => Known(s, chains["primary"])
      /\ "primary" \in Turns /\ "alternate" \in Turns /\ \A t \in Turns : t \in {"primary", "alternate"}
  BY DEF TrustAt, Known, Turns
<1>2. CASE turn = "primary"
  <2>1. chains' = [chains EXCEPT !["primary"] = chain]
    BY <1>2 DEF Settled
  <2>2. /\ chains' \in [Turns -> Records] /\ chains'["primary"] = chain /\ chains'["alternate"] = NoChain
        /\ \A t \in Turns : Finished(s, chains'[t])
    BY <1>1, <1>2, <2>1 DEF Finished
  <2>3. CASE peer.asks \in {"ocsp", "crl", "both"} /\ Len(chain.certs) >= 2 /\ chain.trust # "unreadable"
    <3>1. pc' \in {"crl", "ocsp"} /\ turn' = turn
      BY <1>2, <2>3 DEF Settled, Stay
    <3> QED
      BY <1>1, <1>2, <2>2, <2>3, <3>1 DEF TrustAt
  <2>4. CASE ~(peer.asks \in {"ocsp", "crl", "both"} /\ Len(chain.certs) >= 2 /\ chain.trust # "unreadable")
    <3>1. GoOn
      BY <1>2, <2>4 DEF Settled
    <3> QED
      BY <1>1, <1>2, <2>2, <3>1, GoOnKeeps
  <2> QED
    BY <2>3, <2>4
<1>3. CASE turn = "alternate"
  <2>1. \E c \in {NoChain, chain} : chains' = [chains EXCEPT !["alternate"] = c]
    BY <1>3 DEF Settled
  <2>2. PICK c \in {NoChain, chain} : chains' = [chains EXCEPT !["alternate"] = c]
    BY <2>1
  <2>3. c \in Records /\ Finished(s, c)
    BY <1>1, NoChainIs DEF Finished
  <2>4. chains' \in [Turns -> Records] /\ chains'["alternate"] = c /\ chains'["primary"] = chains["primary"]
    BY <1>1, <2>2, <2>3
  <2>5. \A t \in Turns : Finished(s, chains'[t])
    BY <1>1, <1>3, <2>3, <2>4 DEF Finished
  <2>6. GoOn
    BY <1>3 DEF Settled
  <2> QED
    BY <1>1, <1>3, <2>4, <2>5, <2>6, GoOnKeeps
<1> QED
  BY <1>1, <1>2, <1>3

-----------------------------------------------------------------------------
(* Certificates: the steps.                                                 *)

\* A certificate that was fetched and joins a chain is not in it already: none of the
\* others signed the last certificate, nor did the last one itself.
LEMMA ChainGrows ==
  ASSUME NEW s, NEW ds, IsChain(ds), Len(ds) <= MaxPresented, NEW c \in Others, Asked(s, ds), Joins(s, ds, c)
  PROVE /\ IsChain(Append(ds, c)) /\ Last(Append(ds, c)) = c
        /\ Last(Front(Append(ds, c))) = Last(ds)
<1> DEFINE n == Len(ds)
           es == Append(ds, c)
<1>1. /\ ds \in Seq(Held) /\ c \in Held /\ n \in Nat /\ n >= 1 /\ n <= MaxPresented /\ MaxPresented \in Nat
      /\ \A i, k \in 1..n : ds[i] = ds[k] => i = k
      /\ \A k \in 1..n : ds[k] \in Held /\ (IF k = 1 THEN ds[k] \in {"leaf", "alt"} ELSE ds[k] \in Others)
  BY TrustAssumption DEF IsChain, Held
<1>2. es \in Seq(Held) /\ Len(es) = n + 1 /\ es[n + 1] = c /\ \A k \in 1..n : es[k] = ds[k]
  BY <1>1
<1>3. ASSUME NEW k \in 1..n, ds[k] = c PROVE FALSE
  <2>1. Last(ds) = ds[n] /\ Front(ds) = SubSeq(ds, 1, n - 1)
    BY DEF Last, Front
  <2>2. CASE k = n
    BY <1>3, <2>1, <2>2 DEF Asked, Joins, SelfSigned
  <2>3. CASE k # n
    <3>1. n - 1 \in Nat /\ n - 1 <= n /\ k \in 1..(n - 1)
      BY <1>1, <2>3
    <3>2. SubSeq(ds, 1, n - 1) \in Seq(Held) /\ Len(SubSeq(ds, 1, n - 1)) = n - 1
      BY <1>1, <3>1, FirstOf
    <3>3. \A i \in 1..(n - 1) : SubSeq(ds, 1, n - 1)[i] = ds[i]
      BY <1>1, <3>1, FirstOf
    <3>4. k \in DOMAIN Front(ds) /\ Front(ds)[k] = c
      BY <1>3, <2>1, <3>1, <3>2, <3>3
    <3>5. c \in Range(Front(ds))
      BY <3>4 DEF Range
    <3> QED
      BY <3>5 DEF Asked, Joins
  <2> QED
    BY <2>2, <2>3
<1> HIDE DEF n, es
<1>4. DOMAIN es = 1..(n + 1)
  BY <1>1, <1>2
<1>5. \A k \in 1..(n + 1) : (k = n + 1 /\ k # 1 /\ es[k] = c) \/ (k \in 1..n /\ es[k] = ds[k])
  BY <1>1, <1>2
<1>6. \A k \in 1..(n + 1) : es[k] \in Held /\ (IF k = 1 THEN es[k] \in {"leaf", "alt"} ELSE es[k] \in Others)
  BY <1>1, <1>5
<1>7. \A i, k \in 1..(n + 1) : es[i] = es[k] => i = k
  BY <1>1, <1>3, <1>5
<1>8. IsChain(es)
  BY <1>1, <1>2, <1>4, <1>6, <1>7 DEF IsChain
<1>9. Last(es) = c
  BY <1>2 DEF Last
<1>10. Last(Front(es)) = Last(ds)
  <2>1. Front(es) = SubSeq(es, 1, n)
    <3>1. (n + 1) - 1 = n
      BY <1>1
    <3> QED
      BY <1>2, <3>1 DEF Front
  <2>2. n <= Len(es) /\ n \in 1..n
    BY <1>1, <1>2
  <2>3. Len(SubSeq(es, 1, n)) = n
    BY <1>1, <1>2, <2>2, FirstOf
  <2>4. \A k \in 1..n : SubSeq(es, 1, n)[k] = es[k]
    BY <1>1, <1>2, <2>2, FirstOf
  <2> QED
    BY <1>2, <2>1, <2>2, <2>3, <2>4 DEF Last, n
<1> QED
  BY <1>8, <1>9, <1>10 DEF es

\* What an answer about revocation is taken for.
LEMMA StatusIs ==
  ASSUME NEW s, NEW ds, NEW a \in Answers(s, ds), NEW x \in {OcspStatus(s, ds, a), CrlStatus(s, ds, a)}
  PROVE /\ x \in {"unsaid", "good", "revoked"}
        /\ x # "unsaid" /\ Genuine(s, ds) => x = IF s.revoked THEN "revoked" ELSE "good"
<1>1. a \in [signer : {"issuer", "delegate", "outsider"}, about : {"leaf", "another"},
             fresh : BOOLEAN, says : {"good", "revoked"}]
  BY DEF Answers
<1>2. Genuine(s, ds) /\ a.signer # "outsider" /\ a.about = "leaf" /\ a.fresh =>
         a.says = IF s.revoked THEN "revoked" ELSE "good"
  BY DEF Answers
<1>3. a.says \in {"good", "revoked"}
  BY <1>1
<1> QED
  BY <1>2, <1>3 DEF OcspStatus, CrlStatus

\* It is noted with the chain.
LEMMA StatusNoted ==
  ASSUME NEW s, NEW c, Known(s, c), Len(c.certs) >= 2, NEW x \in {"unsaid", "good", "revoked", "invalid"},
         x \in {"good", "revoked"} /\ Genuine(s, c.certs) => x = IF s.revoked THEN "revoked" ELSE "good",
         NEW d \in Records, d.certs = c.certs, d.trust = c.trust, d.signatures = c.signatures, d.aia = c.aia,
         d.ocsp \in {x, c.ocsp}, d.crl \in {x, c.crl}, d.stapled \in {x, c.stapled}
  PROVE Known(s, d)
<1>1. Truthful(s, d)
  <2>1. \A y \in {d.ocsp, d.crl, d.stapled} : y = x \/ y \in {c.ocsp, c.crl, c.stapled}
    OBVIOUS
  <2> QED
    BY <2>1 DEF Known, Truthful
<1> QED
  BY <1>1 DEF Known

\* A chain that is received from the server.
LEMMA PresentedKeeps ==
  ASSUME NEW s \in Servers, s = peer, TrustAt(s, pc, turn, chains), pc \in {"retrieve", "retrieve13"}, Presented
  PROVE TrustAt(s, pc', turn', chains')
<1>1. /\ turn \in Turns /\ chains \in [Turns -> Records] /\ chains[turn] = NoChain
      /\ turn = "primary" => chains["alternate"] = NoChain
      /\ turn = "alternate" => Known(s, chains["primary"])
      /\ \A t \in Turns : Finished(s, chains[t])
  BY DEF TrustAt
<1>2. /\ chains' = [chains EXCEPT ![turn] = [NoChain EXCEPT !.certs = Offered]]
      /\ pc' = "build" /\ turn' = turn
  BY <1>1 DEF Presented, Stay
<1>3. IsChain(Offered) /\ Len(Offered) <= MaxPresented
  BY ServerIs, AlternateIs DEF Offered
<1>4. Offered \in Seq(Held)
  BY <1>3 DEF IsChain
<1> DEFINE x == [NoChain EXCEPT !.certs = Offered]
<1>5. /\ x \in Records /\ x.certs = Offered /\ x.trust = "none" /\ x.signatures = "none" /\ x.aia = FALSE
      /\ x.ocsp = "unsaid" /\ x.crl = "unsaid" /\ x.stapled = "unsaid"
  BY <1>4, NoChainIs DEF Records
<1>6. chains' = [chains EXCEPT ![turn] = x]
  BY <1>2
<1> HIDE DEF x
<1>7. Received(x)
  BY <1>3, <1>5 DEF Received
<1>8. /\ chains' \in [Turns -> Records] /\ chains'[turn] = x
      /\ \A t \in Turns : t # turn => chains'[t] = chains[t]
  BY <1>1, <1>5, <1>6
<1> QED
  BY <1>1, <1>2, <1>7, <1>8 DEF TrustAt, Turns

\* None was received.
LEMMA NothingKeeps ==
  ASSUME NEW s \in Servers, s = peer, TrustAt(s, pc, turn, chains), pc \in {"retrieve", "retrieve13"}, Nothing
  PROVE TrustAt(s, pc', turn', chains')
<1>1. /\ turn \in Turns /\ chains \in [Turns -> Records]
      /\ turn = "primary" => chains["alternate"] = NoChain
      /\ turn = "alternate" => Known(s, chains["primary"])
      /\ \A t \in Turns : Finished(s, chains[t])
  BY DEF TrustAt
<1>2. chains' = chains /\ GoOn
  BY DEF Nothing
<1> QED
  BY <1>1, <1>2, GoOnKeeps

\* A chain is asked for over TLS 1.2 or 1.3.
LEMMA RetrieveKeeps ==
  ASSUME NEW s \in Servers, s = peer, TrustAt(s, pc, turn, chains), Retrieve12 \/ Retrieve13
  PROVE TrustAt(s, pc', turn', chains')
<1>1. pc \in {"retrieve", "retrieve13"}
  BY DEF Retrieve12, Retrieve13
<1>2. CASE Presented
  BY <1>1, <1>2, PresentedKeeps
<1>3. CASE Nothing
  BY <1>1, <1>3, NothingKeeps
<1>4. CASE pc = "retrieve" /\ pc' = "retrieve13" /\ UNCHANGED chains /\ Stay
  BY <1>4 DEF TrustAt, Stay
<1> QED
  BY <1>2, <1>3, <1>4 DEF Retrieve12, Retrieve13

\* A chain is judged, and settled unless it may be completed.
LEMMA MakeChainKeeps ==
  ASSUME NEW s \in Servers, s = peer, TrustAt(s, pc, turn, chains), MakeChain
  PROVE TrustAt(s, pc', turn', chains')
<1> DEFINE ds == chains[turn].certs
           chain == Build(s, ds)
<1>1. /\ pc = "build" /\ turn \in Turns /\ chains \in [Turns -> Records]
      /\ turn = "primary" => chains["alternate"] = NoChain
      /\ turn = "alternate" => Known(s, chains["primary"])
      /\ \A t \in Turns : t # turn => Finished(s, chains[t])
      /\ IsChain(chains[turn].certs) /\ Len(chains[turn].certs) <= MaxPresented
  BY DEF TrustAt, MakeChain, Received
<1>2. /\ Known(s, chain) /\ chain.certs = chains[turn].certs /\ chain.aia = FALSE
      /\ chain.ocsp = "unsaid" /\ chain.crl = "unsaid" /\ chain.stapled = "unsaid"
  <2>1. s.store \in {"root", "other", "empty", "none"} /\ IsChain(ds)
    BY <1>1, ServerIs
  <2> HIDE DEF ds
  <2>2. Known(s, chain) /\ chain.certs = ds
    BY <2>1, BuildIs
  <2>3. chain.aia = FALSE
    BY <2>1, BuildIs, Zenon
  <2>4. chain.ocsp = "unsaid"
    BY <2>1, BuildIs, ZenonT(60)
  <2>5. chain.crl = "unsaid"
    BY <2>1, BuildIs, ZenonT(60)
  <2>6. chain.stapled = "unsaid"
    BY <2>1, BuildIs, ZenonT(60)
  <2> QED
    BY <2>2, <2>3, <2>4, <2>5, <2>6 DEF ds
<1>3. \/ pc' = "aia" /\ chains' = [chains EXCEPT ![turn] = chain] /\ Stay
      \/ Settled(chain)
  BY DEF MakeChain
<1> HIDE DEF chain
<1>4. CASE Settled(chain)
  BY <1>1, <1>2, <1>4, SettledKeeps
<1>5. CASE pc' = "aia" /\ chains' = [chains EXCEPT ![turn] = chain] /\ Stay
  <2>1. chain \in Records /\ turn' = turn
    BY <1>2, <1>5 DEF Known, Stay
  <2>2. /\ chains' \in [Turns -> Records] /\ chains'[turn] = chain
        /\ \A t \in Turns : t # turn => chains'[t] = chains[t]
    BY <1>1, <1>5, <2>1
  <2>3. \A t \in Turns : Finished(s, chains'[t])
    BY <1>1, <1>2, <2>2 DEF Finished
  <2> QED
    BY <1>1, <1>2, <1>5, <2>1, <2>2, <2>3 DEF TrustAt, Turns
<1> QED
  BY <1>3, <1>4, <1>5

\* A chain is completed by the issuer that was missing, or settled as it is.
LEMMA CompleteChainKeeps ==
  ASSUME NEW s \in Servers, s = peer, TrustAt(s, pc, turn, chains), CompleteChain
  PROVE TrustAt(s, pc', turn', chains')
<1> DEFINE c0 == chains[turn]
           ds == c0.certs
<1>1. pc = "aia" /\ Known(s, c0) /\ Len(ds) <= MaxPresented /\ IsChain(ds)
  BY DEF TrustAt, CompleteChain, Known
<1>2. CASE Settled(c0)
  BY <1>1, <1>2, SettledKeeps
<1>3. ASSUME NEW c \in Others, Asked(s, ds), Joins(s, ds, c),
             Settled([Build(s, Append(ds, c)) EXCEPT !.aia = TRUE])
      PROVE TrustAt(s, pc', turn', chains')
  <2> DEFINE es == Append(ds, c)
             b == Build(s, es)
             d == [b EXCEPT !.aia = TRUE]
  <2>1. IsChain(es) /\ Last(es) = c /\ Last(Front(es)) = Last(ds)
    BY <1>1, <1>3, ChainGrows
  <2>2. Subject(Last(es)) = Issuer(s, Last(Front(es)))
    BY <1>3, <2>1 DEF Joins
  <2> HIDE DEF es
  <2>3. Known(s, b) /\ b.certs = es
    <3>1. s.store \in {"root", "other", "empty", "none"}
      BY ServerIs
    <3> QED
      BY <2>1, <3>1, BuildIs
  <2> HIDE DEF b
  <2>4. /\ d \in Records /\ d.certs = b.certs /\ d.trust = b.trust /\ d.signatures = b.signatures
        /\ d.ocsp = b.ocsp /\ d.crl = b.crl /\ d.stapled = b.stapled
    BY <2>3 DEF Known, Records
  <2>5. Settled(d)
    BY <1>3 DEF b, es
  <2> HIDE DEF d
  <2>6. Truthful(s, d)
    BY <2>3, <2>4 DEF Known, Truthful
  <2>7. Known(s, d)
    BY <2>2, <2>3, <2>4, <2>6 DEF Known
  <2> QED
    BY <1>1, <2>5, <2>7, SettledKeeps
<1>4. \/ Settled(c0)
      \/ \E c \in Others : Asked(s, ds) /\ Joins(s, ds, c) /\ Settled([Build(s, Append(ds, c)) EXCEPT !.aia = TRUE])
  BY DEF CompleteChain
<1> QED
  BY <1>2, <1>3, <1>4

\* The place where an answer about revocation is noted.
LEMMA RevocationKeeps ==
  ASSUME NEW s \in Servers, s = peer, TrustAt(s, pc, turn, chains), Ocsp \/ Crl \/ Staple
  PROVE TrustAt(s, pc', turn', chains')
<1> DEFINE c == chains["primary"]
<1>1. /\ turn \in Turns /\ chains \in [Turns -> Records] /\ pc \in {"ocsp", "crl", "staple"}
      /\ Known(s, c) /\ Len(c.certs) >= 2 /\ c \in Records
      /\ turn = "primary" => chains["alternate"] = NoChain
      /\ pc # "staple" => turn = "primary"
      /\ Finished(s, chains["alternate"])
      /\ "primary" \in Turns /\ "alternate" \in Turns /\ \A t \in Turns : t \in {"primary", "alternate"}
  BY DEF TrustAt, Ocsp, Crl, Staple, Known, Turns
<1> DEFINE Good == /\ chains' \in [Turns -> Records] /\ chains'["alternate"] = chains["alternate"]
                   /\ Known(s, chains'["primary"]) /\ Len(chains'["primary"].certs) >= 2
<1>3. ASSUME UNCHANGED chains PROVE Good
  <2>1. chains'["primary"] = c
    BY <1>3
  <2> HIDE DEF c
  <2> QED
    BY <1>1, <1>3, <2>1
<1>4. ASSUME NEW d, Known(s, d), d.certs = c.certs, chains' = [chains EXCEPT !["primary"] = d] PROVE Good
  <2>1. d \in Records
    BY <1>4 DEF Known
  <2>2. chains' \in [Turns -> Records] /\ chains'["alternate"] = chains["alternate"] /\ chains'["primary"] = d
    BY <1>1, <1>4, <2>1
  <2> QED
    BY <1>1, <1>4, <2>2
<1>5. ASSUME NEW a \in Answers(s, c.certs), chains' = [chains EXCEPT !["primary"].ocsp = OcspStatus(s, c.certs, a)] PROVE Good
  <2> DEFINE x == OcspStatus(s, c.certs, a)
             d == [c EXCEPT !.ocsp = x]
  <2>1. x \in {"unsaid", "good", "revoked"} /\ (x # "unsaid" /\ Genuine(s, c.certs) => x = IF s.revoked THEN "revoked" ELSE "good")
    BY StatusIs
  <2>2. chains' = [chains EXCEPT !["primary"] = d]
    BY <1>1, <1>5
  <2> HIDE DEF x, c
  <2>3. /\ d \in Records /\ d.certs = c.certs /\ d.trust = c.trust /\ d.signatures = c.signatures /\ d.aia = c.aia
        /\ d.ocsp = x /\ d.crl = c.crl /\ d.stapled = c.stapled
    BY <1>1, <2>1 DEF Records
  <2> HIDE DEF d
  <2>4. Known(s, d)
    BY <1>1, <2>1, <2>3, StatusNoted
  <2> QED
    BY <1>4, <2>2, <2>3, <2>4
<1>6. ASSUME NEW a \in Answers(s, c.certs), chains' = [chains EXCEPT !["primary"].crl = CrlStatus(s, c.certs, a)] PROVE Good
  <2> DEFINE x == CrlStatus(s, c.certs, a)
             d == [c EXCEPT !.crl = x]
  <2>1. x \in {"unsaid", "good", "revoked"} /\ (x # "unsaid" /\ Genuine(s, c.certs) => x = IF s.revoked THEN "revoked" ELSE "good")
    BY StatusIs
  <2>2. chains' = [chains EXCEPT !["primary"] = d]
    BY <1>1, <1>6
  <2> HIDE DEF x, c
  <2>3. /\ d \in Records /\ d.certs = c.certs /\ d.trust = c.trust /\ d.signatures = c.signatures /\ d.aia = c.aia
        /\ d.ocsp = c.ocsp /\ d.crl = x /\ d.stapled = c.stapled
    BY <1>1, <2>1 DEF Records
  <2> HIDE DEF d
  <2>4. Known(s, d)
    BY <1>1, <2>1, <2>3, StatusNoted
  <2> QED
    BY <1>4, <2>2, <2>3, <2>4
<1>7. ASSUME NEW a \in Answers(s, c.certs),
             chains' = [chains EXCEPT !["primary"].stapled =
                           IF OcspStatus(s, c.certs, a) = "unsaid" THEN "invalid" ELSE OcspStatus(s, c.certs, a)]
      PROVE Good
  <2> DEFINE x == IF OcspStatus(s, c.certs, a) = "unsaid" THEN "invalid" ELSE OcspStatus(s, c.certs, a)
             d == [c EXCEPT !.stapled = x]
  <2>1. x \in {"good", "revoked", "invalid"}
        /\ (x \in {"good", "revoked"} /\ Genuine(s, c.certs) => x = IF s.revoked THEN "revoked" ELSE "good")
    <3>1. /\ OcspStatus(s, c.certs, a) \in {"unsaid", "good", "revoked"}
          /\ (OcspStatus(s, c.certs, a) # "unsaid" /\ Genuine(s, c.certs) => OcspStatus(s, c.certs, a) = IF s.revoked THEN "revoked" ELSE "good")
      BY StatusIs
    <3> QED
      BY <3>1
  <2>2. chains' = [chains EXCEPT !["primary"] = d]
    BY <1>1, <1>7
  <2> HIDE DEF x, c
  <2>3. /\ d \in Records /\ d.certs = c.certs /\ d.trust = c.trust /\ d.signatures = c.signatures /\ d.aia = c.aia
        /\ d.ocsp = c.ocsp /\ d.crl = c.crl /\ d.stapled = x
    BY <1>1, <2>1 DEF Records
  <2> HIDE DEF d
  <2>4. Known(s, d)
    BY <1>1, <2>1, <2>3, StatusNoted
  <2> QED
    BY <1>4, <2>2, <2>3, <2>4
<1> HIDE DEF Good
<1>8. Good
  <2>1. CASE Ocsp
    BY <1>3, <1>5, <2>1 DEF Ocsp
  <2>2. CASE Crl
    BY <1>3, <1>6, <2>2 DEF Crl
  <2>3. CASE Staple
    BY <1>3, <1>7, <2>3 DEF Staple
  <2> QED
    BY <2>1, <2>2, <2>3
<1> USE DEF Good
<1> HIDE DEF c
<1>9. \A t \in Turns : Finished(s, chains'[t])
  BY <1>1, <1>8 DEF Finished
<1>10. CASE GoOn
  BY <1>1, <1>8, <1>9, <1>10, GoOnKeeps
<1>11. CASE pc # "staple" /\ pc' = "crl" /\ Stay
  BY <1>1, <1>8, <1>9, <1>11 DEF TrustAt, Stay
<1>12. CASE pc' = "done" /\ UNCHANGED turn
  BY <1>1, <1>8, <1>9, <1>12 DEF TrustAt
<1> QED
  BY <1>10, <1>11, <1>12 DEF Ocsp, Crl, Staple

\* Every step about certificates keeps the invariant.
LEMMA TrustKept ==
  ASSUME TrustInv, TrustStep
  PROVE TrustInv'
<1>1. probe = "trust" /\ probe' = "trust" /\ peer' = peer /\ peer \in Servers /\ TrustAt(peer, pc, turn, chains)
  BY DEF TrustInv, TrustStep
<1>2. TrustAt(peer, pc', turn', chains')
  BY <1>1, RetrieveKeeps, MakeChainKeeps, CompleteChainKeeps, RevocationKeeps DEF TrustStep
<1> QED
  BY <1>1, <1>2 DEF TrustInv

\* The other stages leave it alone.
LEMMA TrustStays ==
  ASSUME TrustInv, UNCHANGED <<probe, peer, trust>>, probe = "trust" => UNCHANGED pc
  PROVE TrustInv'
BY DEF TrustInv, TrustIdle, trust

-----------------------------------------------------------------------------
(* Certificates: what the invariant says.                                   *)

\* What is said of a chain in the end is the truth.
LEMMA TrustSoundHolds ==
  ASSUME TrustInv
  PROVE TrustSound
<1> SUFFICES ASSUME pc = "done", probe = "trust", NEW t \in Turns, chains[t].trust # "none"
             PROVE Sound(peer, chains[t])
  BY DEF TrustSound, Sound
<1>1. peer \in Servers /\ Finished(peer, chains[t])
  BY DEF TrustInv, TrustAt
<1>2. Known(peer, chains[t])
  BY <1>1, NoChainIs DEF Finished
<1> QED
  BY <1>1, <1>2, ServerIs, KnownIsSound

\* The types of the two chains follow from the invariant.
LEMMA TrustTyped ==
  ASSUME TrustInv
  PROVE TrustTypeOK
<1>1. ASSUME NEW c \in Records, Len(c.certs) <= MaxPresented + 1
      PROVE /\ c.certs \in Seq(Others \cup {"leaf", "alt"}) /\ Len(c.certs) <= MaxPresented + 1
            /\ c.trust \in {"none", "trusted", "expired", "not_yet_valid", "untrusted",
                            "self_signed", "not_checked", "unknown", "unreadable"}
            /\ c.signatures \in {"none", "yes", "no"}
            /\ {c.ocsp, c.crl} \subseteq {"unsaid", "good", "revoked"}
            /\ c.stapled \in {"unsaid", "good", "revoked", "invalid"}
  BY <1>1 DEF Records, Held
<1>2. NoChain \in Records /\ Len(NoChain.certs) <= MaxPresented + 1
  BY NoChainIs, TrustAssumption
<1>3. ASSUME NEW s, NEW c, Known(s, c) \/ Received(c) PROVE Len(c.certs) <= MaxPresented + 1
  BY <1>3, TrustAssumption DEF Known, Received, IsChain
<1>4. turn \in Turns /\ \A t \in Turns : chains[t] \in Records /\ Len(chains[t].certs) <= MaxPresented + 1
  <2>1. CASE probe = "trust"
    <3>1. TrustAt(peer, pc, turn, chains)
      BY <2>1 DEF TrustInv
    <3>2. turn \in Turns /\ \A t \in Turns : chains[t] \in Records
      BY <3>1 DEF TrustAt
    <3>3. ASSUME NEW t \in Turns PROVE Len(chains[t].certs) <= MaxPresented + 1
      <4>1. chains[t] = NoChain \/ Known(peer, chains[t]) \/ Received(chains[t])
        BY <3>1 DEF TrustAt, Finished
      <4> QED
        BY <1>2, <1>3, <4>1
    <3> QED
      BY <3>2, <3>3
  <2>2. CASE probe # "trust"
    <3>1. turn = "primary" /\ chains = [t \in Turns |-> NoChain]
      BY <2>2 DEF TrustInv, TrustIdle
    <3> QED
      BY <1>2, <3>1 DEF Turns
  <2> QED
    BY <2>1, <2>2
<1> QED
  BY <1>1, <1>4 DEF TrustTypeOK

-----------------------------------------------------------------------------
(* The three stages together.                                               *)

\* Failures stay within their bound.
FaultsBounded == faults \in 0..MaxFaults

LEMMA FaultsBegin ==
  Init => FaultsBounded
BY ProbeRunAssumption
   DEF Init, TrustInit, GradingInit, InvocationInit, Begin, FaultsBounded

LEMMA FaultsKept ==
  ASSUME FaultsBounded, NoFault \/ Fault
  PROVE FaultsBounded'
BY ProbeRunAssumption DEF FaultsBounded, NoFault, Fault

\* A step fails, or does not.
LEMMA StepsFail ==
  TrustStep \/ GradingStep \/ InvocationStep => NoFault \/ Fault
<1>1. TrustStep => NoFault \/ Fault
  BY DEF TrustStep, Retrieve12, Retrieve13, MakeChain, CompleteChain, Ocsp, Crl, Staple
<1>2. GradingStep => NoFault \/ Fault
  BY DEF GradingStep, Assess, Conform
<1>3. InvocationStep => NoFault \/ Fault
  BY DEF InvocationStep, Killed
<1> QED
  BY <1>1, <1>2, <1>3

\* The invariant of each stage, which the steps of the others leave alone.
IInv == InvocationInv /\ GradingInv /\ TrustInv /\ FaultsBounded

LEMMA IInvBegins ==
  Init => IInv
BY InvocationBegins, GradingBegins, TrustBegins, FaultsBegin DEF IInv

LEMMA IInvKept ==
  ASSUME IInv, [Next]_vars
  PROVE IInv'
<1> USE DEF IInv
<1>1. CASE TrustStep /\ UNCHANGED <<report, invocation>>
  <2>1. probe = "trust" /\ UNCHANGED <<probe, peer>>
    BY <1>1 DEF TrustStep
  <2>2. TrustInv'
    BY <1>1, TrustKept
  <2>3. GradingInv'
    BY <1>1, <2>1, GradingStays
  <2>4. InvocationInv'
    BY <1>1, <2>1, InvocationStays
  <2> QED
    BY <1>1, <2>2, <2>3, <2>4, StepsFail, FaultsKept
<1>2. CASE GradingStep /\ UNCHANGED <<trust, invocation>>
  <2>1. probe \in {"grade", "profile"} /\ UNCHANGED <<probe, peer>>
    BY <1>2 DEF GradingStep, Assess, Conform
  <2>2. GradingInv'
    BY <1>2, GradingKept
  <2>3. TrustInv'
    BY <1>2, <2>1, TrustStays
  <2>4. InvocationInv'
    BY <1>2, <2>1, InvocationStays
  <2> QED
    BY <1>2, <2>2, <2>3, <2>4, StepsFail, FaultsKept
<1>3. CASE InvocationStep /\ UNCHANGED <<trust, report>>
  <2>1. probe \in {"estate", "history"} /\ UNCHANGED <<probe, peer, pc, verdict>>
    BY <1>3 DEF InvocationStep
  <2>2. InvocationInv'
    BY <1>3, InvocationKept
  <2>3. GradingInv'
    BY <1>3, <2>1, GradingStays
  <2>4. TrustInv'
    BY <1>3, <2>1, TrustStays
  <2> QED
    BY <1>3, <2>2, <2>3, <2>4, StepsFail, FaultsKept
<1>4. CASE UNCHANGED vars
  <2>1. UNCHANGED <<probe, peer, pc, faults, verdict, trust, report, invocation>>
    BY <1>4 DEF vars, run
  <2>2. GradingInv'
    BY <2>1, GradingStays
  <2>3. TrustInv'
    BY <2>1, TrustStays
  <2>4. InvocationInv'
    BY <2>1, InvocationStays
  <2> QED
    BY <2>1, <2>2, <2>3, <2>4 DEF FaultsBounded
<1> QED
  BY <1>1, <1>2, <1>3, <1>4 DEF Next

-----------------------------------------------------------------------------
(* The theorems.                                                            *)

\* A plugin that raises and a certificate that is shared are noted with the results they
\* are about, and a severity that is none ends the run; the exit code is that function of
\* what was reached, found, required and known before which ExitMeansGood writes out, and
\* in which an address that was not reached breaks no gate but that of a baseline; the
\* records of a run that got through are in the history in one piece, for good, and the
\* file goes bad only by a report of two pieces; and the MCP server answers the lines in
\* their order.
THEOREM InvocationsHold ==
  Spec => []InvocationsTrue
<1>1. IInv => InvocationsTrue
  BY FindingsBelongHolds, ExitMeansGoodHolds, HistoryKeptHolds, RepliesInOrderHolds DEF IInv, InvocationsTrue
<1> QED
  BY <1>1, IInvBegins, IInvKept, PTL DEF Spec

\* A profile is met exactly where each thing it rules on was seen to be good, or was not
\* seen and is only forbidden to be bad; so the loss of what spoke against such a rule, and
\* no other loss, makes a server conform.  What the tool's own policy passes is not called
\* weak, nor insecure but over a certificate that is rejected.
THEOREM ProfilesAreHonest ==
  Spec => []ProfilesHonest
<1>1. IInv => ProfilesHonest
  BY ProfilesHonestHolds DEF IInv
<1> QED
  BY <1>1, IInvBegins, IInvKept, PTL DEF Spec

\* A server that has something bad more, and all else the same, is not graded better, nor
\* called more secure; an insecure verdict has an F, a weak one a B at best, and a secure
\* one an A+, or else an F where no version of TLS was seen and a C where the good leaf
\* signed itself.
THEOREM GradesAreConsistent ==
  Spec => []GradesConsistent
<1>1. IInv => GradesConsistent
  BY GradesConsistentHolds DEF IInv
<1> QED
  BY <1>1, IInvBegins, IInvKept, PTL DEF Spec

\* What is said of each chain holds of its certificates: trusted only over a path that
\* RFC 5280 accepts, rejected never if it is such a path from end to end and not revoked,
\* accepted without one only where a certificate does not parse, completed only by the
\* issuer that was missing; and a status of revocation is false only where the second
\* certificate is not the leaf's issuer and the chain's own signatures do not hold.
THEOREM TrustIsSound ==
  Spec => []TrustSound
<1>1. IInv => TrustSound
  BY TrustSoundHolds DEF IInv
<1> QED
  BY <1>1, IInvBegins, IInvKept, PTL DEF Spec

\* Type correctness of the three stages.
THEOREM AuditsTyped ==
  Spec => []AuditsTypeOK
<1>1. IInv => AuditsTypeOK
  BY TrustTyped, GradingTyped, InvocationTyped DEF IInv, AuditsTypeOK, FaultsBounded
<1> QED
  BY <1>1, IInvBegins, IInvKept, PTL DEF Spec
=============================================================================
