# webServerCryptoChecker: TLA+ models and proofs

The program scans TLS servers and grades what they offer. It is Python, has three
front ends (a command line, a web service, an MCP server over stdio), one scan
engine behind them, and its own implementations of TLS, QUIC, DNS, DNSSEC and the
cryptography they need. This directory holds TLA+ models of the parts whose
correctness depends on the order of events, TLC configurations that check them on
small instances, and TLAPS proofs for every value of their constants.

Paths below are relative to `src/web_crypto_checker/`.

## The system

| Component | State it keeps | Operations | What makes it correct |
|---|---|---|---|
| Scan jobs (`web/server.py` 153-254, 386-472; `web/page.html`) | `_State.jobs` (ordered), `_State.running`, a `Job` per scan: status, error, report, done, rendered | POST `/api/scan`, the scan thread, GET status, GET report, the page's `poll()` | slots are counted exactly and come back; a refused request leaves nothing; replies read without a lock are consistent; the list keeps the newest jobs |
| Connections (`web/server.py` 507-678) | the `BoundedSemaphore`, `close_connection` and the input stream of each handler | accept, admit or turn away, answer, hang up, close | releases balance acquires; sockets are bounded; nothing queues; the body of a refused scan request that announced its length is never parsed as a request |
| Scan engine (`scanner.py`) | futures of the pool, attempts, collected results, progress | `resolve`, `scan_target`, `_scan_once`, `pool.map`, then assessment, active probes, plugins, fleet checks, summary | report in target order whatever the schedule; partial successes kept; nothing left running; every scan ends |
| Plugins and fleet checks (`plugins/`) | findings appended to results | load, run per server, run per fleet | findings come after the grade and cannot change it; an exception of a plugin is a finding; what else a plugin returns and can end the run with is known |
| TLS enumeration (`tls/enumerate.py`, `groups.py`, `signatures.py`) | remaining and chosen suites, groups, schemes | offer, note the choice, drop it, ask again | ends against any server; in order against an honest one, and complete where no error is returned; a lost probe of a scheme costs that scheme alone |
| TLS probe reader (`tls/probe.py`, `messages.py`, `wire.py`) | bytes of a handshake so far | read records until a ServerHello or an alert | fragments are reassembled; warnings do not end a probe |
| TLS probes (`tls/features.py`, `active.py`, `robot.py`, `sslv2.py`) | the answers drawn so far | one crafted exchange each, or several | which statements a failure can falsify is known, probe by probe; no attack that failed half way is reported as one that worked, but for an early ChangeCipherSpec met by silence |
| TLS handshakes (`tls/tls12.py`, `tls13.py`) | transcript, keys, sequence numbers | flights, key schedule, application data | sequence numbers and transcripts stay in step; each verdict is a known function of the server and of whether the network failed |
| HTTP layer (`http_layer.py`, `webclient.py`, `mixed_content.py`, `subresource_integrity.py`) | the answer so far | fetch over TLS, port 80, cleartext | what is said to be there is there; only what a cut answer lacks may be called missing falsely |
| Application protocols (`application/`) | the answer so far, the HPACK table | one exchange each | decoder and writer agree; support is never claimed falsely, its want and a checked origin only after a cut |
| QUIC (`quic/`) | datagrams received | reach, dial version 1 then 2, list versions | what loss, order and repetition can make of the parameters is known: nothing, but in the cases listed under Observations |
| Certificates, trust and revocation (`pki/`) | the chain, its trust, its statuses | retrieve, judge, complete, ask OCSP and CRL, check a staple | "trusted" has a sound path; nothing sound from end to end is rejected unless revoked; a status is the truth where the second certificate issued the leaf |
| Resolver (`resolver.py`) | servers to ask, depth | follow referrals | ends against any delegation |
| DNSSEC and DANE (`dnssec.py`, `dns.py`) | the chain walked | climb, descend, validate a set or a denial | nothing is authentic without a chain to the root; a denial is true of the zone whose records make it |
| Grading (`assessment.py`, `strength.py`, `policy.py`, `vulnerabilities.py`) | findings, score, verdict | classify, score, cap | caps bound the grade; a worse server never grades better; grade, verdict and strength contradict each other in two known cases and no other |
| Compliance (`compliance.py`) | profiles and editions | evaluate | a requirement that could not be tested is not met; what is only forbidden is met unseen |
| Command line, history, comparison (`cli.py`, `history.py`, `compare.py`) | the history file | scan, emit, append, compare, gate | the exit code is a known function of what was reached, found and required; a history with one writer survives what does not kill that writer |
| MCP server (`mcp/server.py`) | none between messages | one JSON-RPC message per line | one reply per request, none per notification, no call ends the loop |
| Targets, cryptographic primitives, reports, wizard, languages, data model | none | pure functions, text | not modelled, see below |

How they interact: the web service starts one daemon thread per accepted scan;
the thread calls `scan()`, which calls back `Job.tick` for each target and
returns the report; pages poll the `Job` that thread writes.  Inside `scan()` the
calling thread collects what up to `concurrency` workers produce.  Every worker
runs the enumeration, the probes and the DNS lookups of one target in sequence;
what they observed becomes a grade and a conformance, then plugins and fleet checks
add findings, and the command line records, compares and gates the report.
The command line calls the same `scan()`; the MCP server calls the command line.

Where the difficulty is: three kinds of threads share a `Job` without a lock
(handlers read it field by field, the scan thread writes it field by field); one
counter is decremented on four paths by two kinds of threads; thread creation can
fail; an exception leaves a pool of running workers; connections are kept alive
with bodies unread; everything a probe learns comes from a server that may stop,
stall or lie.  `PROJECT.json` lists these hazards line by line.

## The modules

**JobService** — what the web service promises, with no threads or counters: a
job is admitted below the ceiling, settles once, while it holds capacity, and
leaves once.

**WebJobs** — the scan jobs as the code runs them. `post[j]` is the program
counter of the handler of a POST, `scan[j]` that of its `_run` thread, `at[p]`
that of a page (its poll loop, and the handler thread serving it). The methods of
`_State` hold its lock and are one action each: `Reserve`/`TooBusy` (reserve),
`Add` (add, with the eviction loop), `Unwind` and `Release` (release), `Drop`
(remove), `Poll` and `FetchReport` (get). The attributes of `Job` are plain
assignments, so each write (`ScanReturns`, `MarkDone`, `MarkError`, `NoteError`)
and each read of `as_status` (`ReadStatus`, `ReadDone`, `ReadError`,
`ReadSummary`) is an action. `StartFails` is `Thread.start()` raising. Building
and validating the targets before `reserve()` touches no shared state; its
failure is `Reject`.

**WebConnections** — `_BoundedServer` and the keep-alive loop of the handler. A
connection is in the backlog, with the acceptor, with a handler, or closed;
`slots` is the semaphore; `unread` says whose body is left in the stream when the
handler looks for the next request line: that of a request to another path, of a
scan request that announced its length, or of one sent in chunks, whose length reads
as zero (`PostChunked`). `socketserver` and `http.server` are
external: their actions are modelled from how this code overrides and calls them.
A request is answered in one step here; what happens inside is WebJobs.

**SerialScan** — the first phase of `scan()` as its serial path runs it: groups
are appended target by target, until a report or an exception.

**ScanPool** — the concurrent path: `Begin` (a worker takes the oldest future),
`ResolveFails`/`Resolve`, `ReadRecords`, `Probe` per address, `Retry`/`Finish`
(`_scan_once`), `Escapes` (an exception outside the `try` of `scan_target`), and
the collecting thread's `Collect`, `Reraise` (the exception comes out of
`pool.map`, queued futures are cancelled), `Unwound` (the `with` waits) and
`Report`. A result is "ok" or "error"; what is in it is data.

**ProbeReader** — one probe (`tls/probe.py`): the record loop of `_read_response`
as an operator from what the peer sends to ServerHello, alert or error. A record is
a warning, a final alert, a part of the handshake message, or one the reader
rejects; a message is a number of parts that parse as a ServerHello or do not. What
a server that answers, or refuses, may send is external, and includes warnings
anywhere before the last part; broken replies are every other way a reply can stop.

**Enumeration** — what `_scan_address` learns by asking repeatedly, over
ProbeReader. `Take` and `LeaveRound` are the two ways through the body of a loop
(`Handle`), which `_enumerate_version` and `enumerate_groups` share but for
`reached`; the actions are what the server and the network make of a probe
(`Chooses`, `Refuses`, `Strays`, `Fails`, `Exhausts`). `Assess` is the decision
whether the address answered, with the outcomes of the SSL 2.0 and plain HTTP
probes left open; `Signs`, `SignsNot`, `SignFails` and `Finish` are the schemes, and
`unanswered` those whose probe the network failed, which no part of the program keeps. A
server has a fixed order of preference and says something else only when it likes
nothing that is offered; one that follows the client's order is the case where both
orders agree. A load balancer that mixes servers is not modelled.

**ProbeRun** — what the probes of one address share: `probe` (the function), `peer`
(what the other side really is, which only the properties look at), `pc`, `verdict`
and `faults`, how often the network failed this probe. Every action of the modules
below either succeeds (`NoFault`) or meets a failure (`Fault`: refused, cut, reset or
late), as long as `MaxFaults` allows, and then takes the code's error path.

**Handshakes** — `tls12.py` and `tls13.py`. `script` is what the server is about to
send, record by record, `sealed` the key and number it seals the next one with,
`expected` the number the client expects, `flight` the transcript. Cryptography is
symbolic. `ReadFlight12`, `ReadHello13` and `ReadFlight13` are the reading loops,
`Send` and `SendAgain` the client's answer, and `ReadReply12/13`, `ReadAuth12/13`,
`ReadFinished`, `ReadRenewal` and `ReadTickets` what each probe reads afterwards.

**FeatureProbes** — `features.py`, `active.py`, `robot.py`, `sslv2.py`: `Ask` is one
connection, `Tell` the verdict over `replies`. Each probe is a pair of operators, what
a server of a trait answers and what the code concludes.

**QuicProbe** — `Reach`, `Arrives` (one datagram, in any order, again or never),
`Settles` (joining CRYPTO frames and reading what can be read) and `ReadVersions`. What
is sent again may be cut elsewhere and overlap the flight (`SentAgain`, at most `MaxTwice`
such datagrams); `noted` is what the network and the server did, for the properties alone.

**AppProbes** — `http_layer.py` and `application/`: `Piece`, `Ends` (which the code
takes for the end of the answer) and `Fails`. For gRPC, `Write` is the server
encoding a header block with a table of its own; `Decode` is `hpack.Decoder`.
Header lines come whole.

**NameChecks** — `Resolve` with its stack of calls (`resolver.py`), and the validated
lookups: `AskSystem`, `FetchSigned`, `Climb` to the root, `RootKeys`, `Descend`.
**Denial** — the proof of absence: NSEC3 and NSEC over every zone with up to
`MaxOwners` names below its apex, delegations among them, every hash order in `Salts` and
every part of the records, up to `MaxRecords`, as the proof.

**Probes** composes these six: a behaviour is one probe of any of them, since
`_scan_address` runs them in sequence and over connections of their own.

**Trust** — five certificates with defects, presented in any order:
`Retrieve12`/`Retrieve13`, `MakeChain` (`evaluate_trust`, `verify_chain_signatures`),
`CompleteChain`, `Ocsp`, `Crl`, `Staple`, once for the default chain and once for the
other type of key. A certificate may be one that `parse_certificate` (`Garbled`) or the
signature checks (`Parses`) make nothing of: `TrustOf` is then "unreadable" or "unknown",
and otherwise the verdict on the path (`PathTrust`). `Rejected` is what the assessment then
says browsers do.

**Grading** — operators over observations: classes, score, caps, verdict, strength,
vulnerabilities (`Assess`), and profiles as sets of rules over evidence that is good,
bad or missing (`Conform`). Suites and certificates stand for what the policy file
tells apart.

**Invocation** — `Plugins` and `Fleet` (`plugins/runner.py`), `Compare` with the exit
code, and for two processes `AppendHistory`, `Flush`, `Trend` and `Killed`;
`ReadLine` and `Reply` are the loop of the MCP server, whose tool call is a run of the
command line that may keep the same history file. An estate has findings of the assessment, of
plugins and of the fleet, each at a severity of its own, a `--fail-on` limit (`AtOrAbove`),
and addresses that miss a profile, whether one is required or not. A report's lines leave
a buffer in one write or, when it is full, in two.

**Audits** composes these three, the later stages of a scan, each over any input the
stages before may leave.

**MCWebJobs, MCWebConnections, MCScanPool, MCEnumeration, MCProbes, MCAudits** give the
constants values for TLC. **WebJobs_proofs, WebConnections_proofs, ScanPool_proofs,
Enumeration_proofs, NameChecks_proofs, Handshakes_proofs, Probes_proofs, Audits_proofs** hold
the theorems.

An operator whose comment starts with "Mutant" is a wrong version of the action
that follows it. It is part of no specification: it is there to see that the
property aimed at that mistake fails when the wrong version is put in.

## The runs

| Run | What it checks |
|---|---|
| `WebJobs_safety` | `TypeOK`; `SlotAccounting` (counter = holders), `ScansBounded`, `RefusedLeavesNothing`, `RepliesAreWhole`, `KeepsNewest`; `ImplementsService` (refinement of JobService) |
| `WebJobs_live` | `SlotsComeBack`, `PollingEnds` |
| `WebJobs_errortext` | `ErrorHasText` fails: see Findings |
| `WebConnections` | `TypeOK`, `SlotsBalance`, `SocketsBounded`, `RefusedBodyNeverParsed`, `NobodyQueues` |
| `WebConnections_elsewhere` | `PostBodyNeverParsed` fails |
| `ScanPool` | `TypeOK`, `ReportInOrder`, `ProgressCounts`, `NothingLeftRunning`, `PartialSuccessKept`, `ImplementsSerial`, `ScanEnds` |
| `ScanPool_abort` | `OneTargetNeverAborts` fails |
| `ScanPool_retries` | `FailuresWereRetried` fails |
| `Enumeration` | `TypeOK`, `ServerOrder`, `CompleteUnlessFailed`, `NobodyWrittenOff`, `NeverSpins`, `EnumerationEnds` |
| `Enumeration_groups` | `StatusIsTheServers` fails |
| `Probes` | `ProbesTypeOK`; `HandshakesInStep`; `VerdictsTrue` (handshakes, features, ROBOT, HTTP and application protocols); `QuicVerdictsTrue`; `DecodedAsWritten`; `QueriesBounded`; `ValidatedMeansSigned`; `DenialExact` |
| `Audits` | `AuditsTypeOK`; `TrustSound`; `GradesConsistent`; `ProfilesHonest`; `InvocationsTrue` (plugins and fleet, exit codes, history, replies) |

The verdict properties have one form: they say what is concluded as a function of `peer`
and of what the network did. Where that is not the truth about `peer`, the property says
so as a statement of its own - which conclusion, under which condition, and that it then
does or may come out - and not by leaving the case out; where the code's own documentation
promises otherwise, the comment of the property quotes the line. So a change of the code
that removes such a departure breaks the property as one that adds a departure does,
wherever the statement is an equivalence. The section Observations collects them.

Bounds. `WebJobs_safety` has three requests for two slots and two kept jobs: the
ceiling refuses, an eviction happens while a scan runs, and a slot is given back
while another request waits; two targets per scan tell a first tick from the
last; one page is enough, since pages share nothing but the render cache. Jobs
are interchangeable (symmetry), and the properties of this run are all safety.
`WebJobs_live` uses two requests for one slot, without symmetry. `WebConnections`
has four connections for two slots, so two are turned away while two are served.
`ScanPool` has three targets, two workers, two attempts and two addresses: a
target queues, a later one finishes first, a retry follows a failure, and an
exception finds one worker busy and one future queued. `Enumeration` has TLS 1.3
and one older version, two choices a round and every server over them, so that a
round can end before, after and between choices and one version can fail where the
other answers; replies have up to three records, enough for a warning before and
between two parts. `Probes` allows two failures, because one is what the second ROBOT
round is there for and two are what defeats it; blocks have four fields over tables of
one and three entries, so that insertion evicts and a resize empties; the resolver's
two bounds are smaller than the code's 16 and 4 and are parameters of the budget that
`QueriesBounded` states; `MaxZones` is two, so that a chain is as long as the bound
and one longer; denial zones have two owners with names of two labels, enough for an
empty non-terminal, a wildcard at each level, a delegation and an alias (three owners
pass too, and `DenialProven` takes any number). `Audits` has
chains of three certificates (a path of three, or a shorter one with a stranger in
it) with two defects, two versions and two suites a server, profiles of two rules, and
two lines for the MCP server. One datagram of a QUIC dial comes twice or cut elsewhere
(`MaxTwice`), which is all that shortening a chunk takes; a certificate that does not parse
is the only defect of its chain; an estate has three addresses of two targets, one of which
has findings of its own and one misses the profile, since the gates ask whether there is
any. `MaxRecords` and `MaxAddresses` are bounds
of the model, as are those a module declares to be; the others are parameters of the
code. Deadlock is not checked: the models end when the requests, connections, targets
or questions are used up.

Fairness. A thread that can take a step does. Clients owe nothing: no request is
ever sent, no page opened, no connection given up by fairness; `NobodyQueues`
assumes only the acceptor. Two assumptions about scans are made explicitly.
`ScanEnds` takes every worker to make progress: the timeouts of the code are per
`recv`, and the record loop of `tls/probe.py` (72-97) has no deadline, so this
also assumes that a server stops sending. `SlotsComeBack` and `PollingEnds` take
`scan()` to end, which is `ScanEnds`. In `EnumerationEnds` one thread makes progress
and every reply is finite, the same assumption about servers.

## Findings

- `WebJobs_errortext` — `_run` assigns `status = "error"` before `error`
  (`web/server.py` 446-447). A poll between the two gets an empty text and is the
  last: `page.html` shows "The scan failed: " and stops.
- `WebConnections_elsewhere` — `do_POST` closes the connection of every refused
  POST `/api/scan` because the unread body would be parsed as the next request
  (614-631), but the 404 for another path (612) keeps it, and so does the 400 for a scan
  request sent in chunks, whose missing Content-Length is read as zero (632-640).
- `ScanPool_abort` — the `try` of `scan_target` covers the probes and not
  `resolve`, `check_caa` and `check_https` (293-306). An exception there leaves
  `scan()` and discards the results of all targets; a non-ASCII host name is
  enough (`dns.py` 59).
- `ScanPool_retries` — `--retries N` is documented as N retries with default 1;
  the loop counts the first scan, so the default never retries (602).

- `Enumeration_groups` — `enumerate_groups` concludes `ENFORCED` or `NOT_READY` from
  the groups seen before a probe failed, and `_scan_address` drops the error
  (`scanner.py` 274), so `models.py` 94 and 100 do not hold of the report. The
  suites keep the error of their version (`enumerate.py` 134). `CompleteUnlessFailed` is
  about the error the loop returns, which for groups the caller drops; the schemes return
  none once one was answered (`signatures.py` 74-76), and of them it says only that a lost
  probe costs its own scheme.

Two more behaviours are worth knowing and are not defects of the properties
above: `add()` evicts by age alone, so a scan that still runs can leave the list
and its page then gets 404; two concurrent downloads of one format both render.

## Observations

Where what is concluded departs from the truth, or from what the repository says of
itself. Each is stated by a property of a passing run, as the code has it, and marked here
with that property; the lines that promise otherwise are quoted. The findings above are
the ones where a property of the documentation's own wording is run and fails.

*A lost answer* (`VerdictsTrue`). The TLS 1.2 probe for client certificates reads a
timeout, a close and a reset as "required" (`tls12.py` 216-225), where the one for 1.3
says unknown. A new hello that gets no answer reads as renegotiation refused. The fetches
send no Certificate when the server asks for one, and a server that then closes, or any
connection that is cut, yields a short or empty response and no error: headers are
called missing that were never read (`http_layer.py` 285-290), and a redirect of port
80 that was cut reads as none. HTTP/2, gRPC, WebSocket and SSE verdicts are drawn from
short answers alike ("no", "no limit", "enforced"). ROBOT is claimed falsely only when the
same vectors fail in both rounds. A greased hello that is lost reads as intolerance, and
silence after an early ChangeCipherSpec as acceptance.

*Signature schemes* (`CompleteUnlessFailed`). A list that lacks the schemes whose probes
were lost looks like a whole one (`signatures.py` 53-54, 74-76; `scanner.py` 279).

*QUIC* (`QuicVerdictsTrue`). CRYPTO frames are joined in order of offset without looking at
gaps, so a lost datagram can yield wrong transport parameters if it cut their message; of
two frames at one offset the one read last is kept, so a repetition that is cut shorter can
do the same with nothing lost. `read_negotiation` searches the first datagram alone for the
ServerHello (`handshake.py` 245), so another one that overtakes it loses the ServerHello and
the parameters, again with nothing lost. A server that speaks version 2 alone is said to
have no HTTP/3, since the reachability probe dials version 1, though `reachability.py`
93-98 has a dial of version 2 "for a v2-only server".

*DNS* (`DenialExact`, `QueriesBounded`, `ValidatedMeansSigned`). The two bounds of the
resolver multiply. A chain of exactly `_MAX_ZONES` zones is taken for too long. Of a denial,
`dnssec.py` 561-563 says that it "means DANE is genuinely not configured" and "fails closed",
599-603 that its signer "must be the queried name's own zone": `_in_bailiwick` wants an
ancestor, and a denial looks neither for delegations in the type bitmap nor at opt-out. So
all the records of a parent without opt-out deny every name of a child zone, whatever that
child has (`DelegationsDenied`); what a denial says is
true of the zone whose records it is made of (`DeniedMeansAbsent`), and no more. Absences at
wildcards that own the name cannot be proved.

*Certificates* (`TrustSound`). Revocation is asked of `ders[1]` whoever it is
(`scanner.py` 452-454, 262), though `crl.py` 6-9 and 96-97 and `ocsp.py` 6-10 have the
leaf's issuer answer: with a leaf issued by the root itself, and another party's
certificate behind it, that party's answer counts. Its chain's signatures then do not
hold, which is reported apart. `verify_chain_signatures` wants every presented certificate
to sign the one before, `evaluate_trust` only those of the path: a trusted chain with an
extra certificate is graded F. A chain with a certificate that does not parse is "unknown",
or not built at all, and not said to be rejected, wherever that certificate stands. A
self-signed leaf that is in the store is still called self-signed.

*Grades* (`GradesConsistent`). `assessment.py` 8-9 says that the letter and the word "can
never contradict each other". They do in two cases: a secure verdict comes with an F when no
protocol was seen, and with a C when the good leaf signed itself and no store is there to
say otherwise (`--no-trust`), because caps lower the letter alone. A certificate that could
not be read grades better than an invalid one. An invalid second certificate caps the grade,
one that is merely weak or self-signed does not.

*Profiles* (`ProfilesHonest`). `compliance.py` 10-13 says *not assessed* rather than *pass*
when not enough was seen, `docs/en/README.md` 499-500 "never *pass*", and
`docs/en/politica-normativas.md` 28 that a pass means everything "was checkable and was met".
A rule that only forbids is passed by a server of which nothing was observed
(`compliance.py` 210-300). The local profile looks at algorithms, so a server with a
rejected certificate passes.

*Exit codes and plugins* (`InvocationsTrue`). `docs/en/README.md` 621-622 has code 0 for
"every target was scanned successfully": one address that answered is enough. Line 690 and
`cli.py` 479-481 have 1 "unless every endpoint conforms": an address that was not reached
has no compliance entries and breaks no `--require-profile` gate (`cli.py` 341-347). A
plugin "cannot bring the scan down" (551-552, `docs/en/plugins.md` 17): one with an unknown
severity always does. Fleet findings land on every address of a target, once for each
address that shares, and count for `--fail-on` there, on addresses that were not
reached too.

*History* (`InvocationsTrue`). It is written through a buffer: a report larger than it can
be cut in the middle of a record by a crash, or have another process's records written into
it, and every later load of the file fails.

## The proofs

For every number of jobs, pages, slots, connections, targets, workers, retries
and addresses, from the named assumptions on the constants (finite sets, positive
bounds, `MaxRunning <= MaxJobs` as with the code's 8 and 64):

- `WebJobs_proofs`: `TypeCorrect`, `SlotsExact`, `CeilingHolds`, `NewestKept`,
  `RefusalIsClean`, `WholeReplies`, `JobsImplementService`, `HoldersGoOn`,
  `RequestsOnlyForward`.
  `SlotAccounting` is not inductive alone: it needs that a scan thread exists only
  once its POST is past `started` (else `StartFails` could give back a slot a
  thread also holds), and the ceiling. `HoldersStep` says how each action changes
  the set of holders, and cardinalities follow. `KeepsNewest` rests on the stamps
  being distinct and on `YoungerGrows`: the set of younger jobs only grows.
  `RepliesAreWhole` rests on two facts: `Written`, the order in which the scan
  thread writes, and `Said`, that each field a page has read is still implied by
  the job, because the writes only move forward. `JobLeft` bounds the steps a request
  has left: each step of its handler or thread lowers it, nobody else's raises it, and
  a request with a slot always has a guard of its own open.
- `WebConnections_proofs`: `ConnectionsTyped`, `SlotsBalanced`,
  `OpenSocketsBounded`, `RefusedBodyClosed`, `AcceptorNeverWaits`, `NobodySentBack`.
  `TypeOK` says `slots <=
  MaxConnections`, and follows only from the balance; the sockets need in addition
  that the acceptor holds at most one connection. Whoever knocks or is in its hands,
  the acceptor has a guard open (`AcceptorNeverWaits`), and each of its steps lowers
  `ToAccept` of a connection, which no handler raises.
- `ScanPool_proofs`: `PoolTyped`, `InOrder`, `CountsExact`, `NoStragglers`,
  `PartialKept`, `PoolImplementsSerial`, `StepsLeftNat`, `ScanCannotCycle`,
  `ScanGoesOn`. The invariant `Attempted /\ Collected`
  says what an attempt has produced so far, that what was collected is final, and
  that a scan that unwinds has no future left in the queue; that last part is why
  no worker can start after `scan()` raised. `StepsLeft` prices an attempt above all
  its steps, so that a retry, which starts over, still lowers it; `Counted` bounds the
  attempts. `ScanGoesOn` needs no fairness: what was collected is final, so the target
  whose turn it is is the oldest in the queue, and with no worker busy one is free
  for it.

- `Enumeration_proofs`: `HelloIsRead`, `RefusalIsRead`, `BrokenIsError` (the reader,
  for replies of any length), `EnumerationTyped`, `OrderKept`, `NothingMissed`,
  `NotWrittenOff`, `TurnsShrink`, for every number of versions and schemes, every
  set of suites and groups and every server. The invariant `IInv` says that
  what a round still offers is its list without what was chosen (`Progress`); with
  `ServerOrder` this makes what the server likes of the rest exactly the tail of its
  order (`LikedIsTheRest`), so its answer is the next one (`ChoosingTakes`) and
  silence means that all was noted (`AllNoted`). The reader needs that the count of
  parts only grows (`PartsGrow`): only the last record of an answer is decisive.

- `NameChecks_proofs`: `ResolutionEnds`, `ValidationSound`, `DenialProven`,
  `NamesTyped`, for every bound on referrals, servers, glueless names, zones, owners
  and denial records. `QueriesBounded` says nothing
  of the calls that still run, so it is not inductive: `ResolverInv` adds what they
  owe (`Owes`, the referrals each has left, each at the price of all its servers and
  of a call below), and no step raises what was sent plus what is owed. The price is
  the recursive `Budget`, whose equation (`BudgetEquation`) needs that such a function
  exists (`BudgetExists`, by the least number for which it would not). `PolicyInv` says
  what was climbed is what may be descended, level by level.
  `DenialProven` is about the ring of owners. A name strictly between an owner and the
  next is no owner (`CoveredIsNoOwner`); a name that is none has an owner before it,
  the last one or the greatest of all (`NoOwnerIsCovered`). The second needs that no
  two names share a place: their keys differ (`KeyInjective`), so their ranks do
  (`IndexIs`), and a factor and an addend modulo the prime 11 keep ranks apart
  (`HashInjective`). For NSEC3 the closest encloser is the longest name above the
  question that owns a record (`EncloserIsClosest`). For NSEC it is read off the one
  record that covers the question, which is right because in the order of RFC 4034
  the names below a name come right after it: an owner that shares more labels with the
  question stands between the record and the next one, where there is none
  (`CoversBetween`, `ShownIs`). `DenialInv` says that the records of a proof are the
  zone's and that the verdict is what they prove. A name that was delegated away
  is absent like any other, with no wildcard in its place (`DelegatedAway`), so all the
  records prove it.
- `Handshakes_proofs`: `EndsStayInStep`, `HandshakesTellTheTruth`, `HandshakesTyped`, for
  any number of tickets and of parts of an answer. `HandshakeInv` names the place a
  handshake is at (`Places`): which units the server still has to send there, sealed
  under which key and with which number, and what of the flight the client has had
  (`Progress`). Each action leads from one place to another. A handshake the network has
  failed is at its end (`Unfailed`), so on the way the server's script is whole; whether it
  goes on after the client's flight depends on its wanting a certificate (`Welcome`).
- `Probes_proofs`: `FeaturesTellTheTruth`, `RobotIsFair`, `OffersTellTheTruth` (and from
  these and the handshakes `ProbesTellTheTruth`), `QuicTellsTheTruth`,
  `BlocksReadAsWritten`, `ProbesTyped`. `FeatureInv` says of each answer heard that it
  is the server's or one of the failures counted; `AppInv` that the pieces read are
  the first of those sent, so that an answer can only have been cut, and that
  with no failure all of them are read, which then show what the server does
  (`SupportShows`, `GrpcHears`).
  `QuicInv` needs
  that every datagram read is one that was sent (`Sent`): each chunk of the stream is
  then a stretch between two cuts (`ChunkHolds`), a complete flight has one wherever
  the stream goes on (`CompleteIsTrue`), and bytes are taken for another message only
  where EncryptedExtensions was cut, in the flight or in a repetition (`WrongOverCut`).
  A dial of version 2 comes only after a failure or an Initial that was overtaken.
  `BlocksReadAsWritten` compares two ways of forgetting: the writer keeps the newest
  headers that fit, the decoder drops the oldest until they fit. Both are the longest
  beginning of the table that fits (`KeptFits`, `Evicted`), because partial sums grow.
- `Audits_proofs`: `TrustIsSound`, `GradesAreConsistent`, `ProfilesAreHonest`,
  `InvocationsHold`, `AuditsTyped`, for every observation, profile and estate the
  modules name, chains of any number of the certificates of Trust (`MaxPresented`), in
  any order, with any number of their defects (`MaxDefects`; one that makes a certificate
  unreadable comes alone), any number of failures and
  of lines for the MCP server. Each stage has an invariant that the steps of the others
  leave alone.
  `TrustInv` says where the two chains stand: a chain that was judged is `Known`, which
  ties what is said of it to its own certificates, so that completion and the answers
  about revocation have to keep it true. `KnownIsSound` is the argument about
  `evaluate_trust`: the first certificate (`LeastIs`) that a root of the store signed
  ends a path that, wherever the code objects to nothing, RFC 5280 accepts
  (`AllowedIsSound`), and any sound beginning of a chain makes the code find one no
  longer (`SoundIsAllowed`). The path length needs that a self-signed certificate behind
  the leaf can only be the root: this is why the exception for self-signed certificates
  does no harm. Of a chain whose signatures hold, the second certificate is the issuer
  (`SignaturesAre`); that is all that makes a revocation status true.
  A certificate that does not parse
  ends the argument at once (`TrustOf`), and is the one way to a chain that is neither
  rejected nor has a path.
  `GradesAreConsistent` compares two reports: what is added to an observation can only
  lower a class, raise the number that count, and add caps (`CapsGrow`), and a rounded
  mean over more does not rise when its sum does not (`MeanFalls`).
  `ProfilesAreHonest` goes over the rules one at a time (`LostEvidence`).
  `ExitMeansGood` counts what the three sources of findings left on each address.
  `HistoryInv` says what of each process is in the file, and where (`Headed`, `Entire`):
  nothing in it moves (`HeadedStays`), and a file that one process alone wrote is in
  order up to the piece it is at (`Orderly`), so that a file that went bad has two
  writers. `Serving` numbers the answers by the lines.

The provers cannot use the induction theorems of the library, which take an operator
as a parameter. Where a recursive function has to be unfolded for every length, the
proofs argue with a set instead: `UpTo` says that a set that has 0 and, with each
number, the next one has all numbers up to n; it rests on the least element of a
nonempty set of numbers (`NatMin`). For this the folds over sequences in AppProbes
and the search in FeatureProbes are written as recursive functions.

Model-checked only: `SlotsComeBack`, `PollingEnds`, `NobodyQueues`, `ScanEnds` and
`EnumerationEnds`, since they are liveness under fairness, and the five findings. What
fairness is applied to is proved of three of the five, with the guards written out
instead of ENABLED: something can always be done (`HoldersGoOn`, `AcceptorNeverWaits`,
`ScanGoesOn`), and what is done brings the end nearer (`RequestsOnlyForward`,
`NobodySentBack`, `ScanCannotCycle`). Of `EnumerationEnds` the turns of its loops are
(`TurnsShrink`). A page that polls goes round for as long as the scan runs, so
`PollingEnds` has no such measure. Every other property a run checks is stated by a
theorem.

What the proofs changed in the models: nested detections of Grading are evaluated by
`Match`, a condition given which of the conditions in it matched, and the policy's
conditions nest two deep (`Innermost`, `Nested`, `Matches`) instead of a RECURSIVE
operator; the sum of the score is written out over the three classes (`Points`, `Total`).

## Not modelled

- Which requests of the web service validate, and the text of replies; tokens and
  private-address checks (guards before any shared state); `http.server`,
  `socketserver` and `concurrent.futures` beyond what the code relies on.
- The bytes of hellos, records, frames, packets, Huffman codes, variable-length
  integers, DNS messages and DER: modules say which messages parse and which do not.
- `scanner._summarise` and the order of the probes inside `_scan_address`; the table
  that merges the suites of all versions; a load balancer that mixes servers.
- `targets.py`: parsing of text and one pass that removes duplicates.
- The wording of findings, and the judgement of what headers, cookies, content
  policies, scripts and CAA, HTTPS and TLSA records say (`http_findings`,
  `mixed_content.py`, `subresource_integrity.py`, the `_..._findings` of
  `assessment.py`): single-pass parsing of text with no order to get wrong.
- `pki/ct.py` and `pki/roca.py`: no verdict on the chain depends on the first, and the
  second is arithmetic on the modulus, as is all of `crypto/`, symbolic elsewhere.
- Loading of plugins, policies and profiles, the three builtin plugins that read one
  result, `history.summarise`, `reporting/`, `wizard.py`, `i18n.py`, `messages.py`,
  `models.py`: text, tables and records without control state.
- Time: `_read_flight`, `_read_server_flight`, `_drain_server_finished` and the record
  loop of `tls/probe.py` have a timeout per `recv` and no deadline; servers are
  assumed to stop sending.

## Plan

Every component that was planned is modelled, and every safety property the runs check
is proved. WebScan, the composition of WebJobs and ScanPool, is not written: JobService
and SerialScan are the interface at which each was checked, and with
`JobsImplementService` and `PoolImplementsSerial` proved apart the composition would be a
theorem about the two interfaces.
