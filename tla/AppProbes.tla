----------------------------- MODULE AppProbes ------------------------------
(***************************************************************************)
(* The probes of what a server offers over TLS, or without it: http_layer.py,*)
(* and of application/ http2.py, grpc.py, hpack.py, websocket.py and sse.py. *)
(* An exchange is a request and the pieces of the answer that arrive before  *)
(* the connection ends; Handshakes tells why a fetch may return fewer pieces *)
(* and no error.                                                            *)
(***************************************************************************)
EXTENDS ProbeRun, SequencesExt

CONSTANTS
    MaxBlock,   \* Bound of the model: header fields of one block.
    TableSizes  \* The limits a header table may be given.

ASSUME AppProbesAssumption == MaxBlock \in Nat /\ TableSizes \subseteq Nat /\ TableSizes # {}

VARIABLES
    answer,  \* the pieces read of the answer to the current request
    block,   \* grpc: the fields of the server's header block, as sent
    fields   \* grpc: the header fields these stand for

app == <<answer, block, fields>>

AppKinds == {"http", "cleartext", "http2", "grpc", "websocket", "sse"}

\* Pieces of an answer.  The frames of HTTP/2 carry an acknowledgement flag; the head
\* of an HTTP response is its status line and the rest.
Settings   == "settings"
Ack        == "settings_ack"
Preambles  == {<<Settings, Ack>>, <<Ack, Settings>>, <<"window", Settings>>, <<Settings>>}

AppServers(p) ==
    CASE p = "http2" -> [alpn : {"h2", "http/1.1", "none"}, frames : Preambles,
                         streams : {"none", "few", "many"}, asks : BOOLEAN]
      [] p = "grpc" -> [alpn : {"h2", "none"}, frames : {<<Settings, Ack>>}, asks : BOOLEAN,
                        says : {"headers", "rst_stream", "goaway"}]
      [] p = "websocket" -> [upgrades : BOOLEAN, token : BOOLEAN, checks : BOOLEAN, asks : BOOLEAN]
      [] p = "sse" -> [streams : BOOLEAN, allow : {"reflects", "star", "none"}, asks : BOOLEAN]
      [] p = "http" -> [hsts : {"none", "short", "good"}, mixed : BOOLEAN, length : BOOLEAN,
                        port80 : {"redirects", "serves", "closed"}, asks : BOOLEAN]
      [] p = "cleartext" -> [speaks : {"http", "other", "nothing"}]

-----------------------------------------------------------------------------
(* Header blocks: hpack.py.                                                  *)

\* Headers by name, and the size each takes in the table.
Headers  == {"status", "grpc", "other"}
Static   == <<"status">>
Size(h)  == IF h = "grpc" THEN 2 ELSE 1
Total(t) ==
    LET sum[n \in 0..Len(t)] == IF n = 0 THEN 0 ELSE sum[n - 1] + Size(t[n])
    IN  sum[Len(t)]

\* The fields of a block.
Indexed(i) == [kind |-> "indexed", number |-> i, header |-> "status"]
Insert(h)  == [kind |-> "insert", number |-> 0, header |-> h]
Literal(h) == [kind |-> "literal", number |-> 0, header |-> h]
Resize(n)  == [kind |-> "resize", number |-> n, header |-> "status"]

\* What RFC 7541 has the table hold, with no loop: the newest insertions, as many as
\* fit, taken at each step.
Kept(table, limit) ==
    SubSeq(table, 1, CHOOSE n \in 0..Len(table) :
        /\ Total(SubSeq(table, 1, n)) <= limit
        /\ \A k \in (n + 1)..Len(table) : Total(SubSeq(table, 1, k)) > limit)

\* Decoder._evict: the oldest goes, and its size with it, while they do not fit.
Drop(d) ==
    IF d.size <= d.limit THEN d
    ELSE [d EXCEPT !.dynamic = Front(d.dynamic), !.size = d.size - Size(Last(d.dynamic))]

Evict(d) ==
    LET after[n \in 0..Len(d.dynamic)] == IF n = 0 THEN d ELSE Drop(after[n - 1])
    IN  after[Len(d.dynamic)]

\* Mutant: a new entry goes behind the others.
Inserted_Behind(d, h) ==
    Evict([d EXCEPT !.dynamic = Append(d.dynamic, h), !.size = d.size + Size(h)])

\* Decoder._insert.
Inserted(d, h) ==
    Evict([d EXCEPT !.dynamic = <<h>> \o d.dynamic, !.size = d.size + Size(h)])

\* Decoder._entry: the static table, then the dynamic one, newest first.
Entry(d, i) ==
    IF i <= Len(Static) THEN Static[i]
    ELSE IF i - Len(Static) <= Len(d.dynamic) THEN d.dynamic[i - Len(Static)] ELSE "bad"

\* One field of a block.
Decoded(d, f) ==
    CASE f.kind = "indexed" -> [d EXCEPT !.out = Append(d.out, Entry(d, f.number)),
                                         !.bad = d.bad \/ Entry(d, f.number) = "bad"]
      [] f.kind = "insert"  -> [Inserted(d, f.header) EXCEPT !.out = Append(d.out, f.header)]
      [] f.kind = "literal" -> [d EXCEPT !.out = Append(d.out, f.header)]
      [] f.kind = "resize"  -> Evict([d EXCEPT !.limit = f.number])

NewDecoder == [dynamic |-> <<>>, size |-> 0, limit |-> 4, out |-> <<>>, bad |-> FALSE]

\* Decoder.decode, a new decoder for each block.
Decode(fs) ==
    LET after[n \in 0..Len(fs)] == IF n = 0 THEN NewDecoder ELSE Decoded(after[n - 1], fs[n])
    IN  after[Len(fs)]

\* The server that writes these fields: its table, and the limit it gave it.
Written(w, f) ==
    CASE f.kind = "insert" -> [w EXCEPT !.table = Kept(<<f.header>> \o w.table, w.limit)]
      [] f.kind = "resize" -> [table |-> Kept(w.table, f.number), limit |-> f.number]
      [] OTHER -> w

Writer(fs) ==
    LET after[n \in 0..Len(fs)] ==
            IF n = 0 THEN [table |-> <<>>, limit |-> 4] ELSE Written(after[n - 1], fs[n])
    IN  after[Len(fs)]

-----------------------------------------------------------------------------
(* The server.                                                              *)

\* The pieces of the answer to the first request, or to the second one: with a foreign
\* origin, or to port 80.
Pieces(p, s, second) ==
    CASE p = "cleartext" -> (CASE s.speaks = "http" -> <<"200", "blank">>
                               [] s.speaks = "other" -> <<"banner">>
                               [] s.speaks = "nothing" -> <<>>)
      [] p = "http" /\ second -> (CASE s.port80 = "redirects" -> <<"301", "location", "blank">>
                                    [] s.port80 = "serves" -> <<"200", "blank">>
                                    [] s.port80 = "closed" -> <<>>)
      [] p \notin {"http", "cleartext"} /\ s.asks -> <<>>
      [] p = "http" /\ ~second ->
           IF s.asks THEN <<>>
           ELSE <<"200">> \o (IF s.hsts = "none" THEN <<>> ELSE <<"hsts">>)
                          \o <<"blank", IF s.mixed THEN "mixed" ELSE "page">>
      [] ~s.asks /\ p = "http2" -> IF s.alpn = "h2" THEN s.frames ELSE <<"http/">>
      [] ~s.asks /\ p = "grpc" -> IF s.alpn = "h2" THEN s.frames \o <<s.says>> ELSE <<>>
      [] ~s.asks /\ p = "websocket" ->
           IF s.upgrades /\ ~(second /\ s.checks) THEN <<"101", "rest">> ELSE <<"400", "rest">>
      [] ~s.asks /\ p = "sse" -> <<"200", "rest">>

\* _server_settings_present: one that is not an acknowledgement.
SettingsPresent(pieces) == \E i \in 1..Len(pieces) : pieces[i] = Settings

Holding(pieces, some) == \E i \in 1..Len(pieces) : pieces[i] \in some

\* _page_complete: the length was announced and the page is there; without a length only
\* the end of the connection tells.
PageComplete(pieces) == peer.length /\ Holding(pieces, {"page", "mixed"})

\* When a reader has enough: _done of http2.py, _response_ready of grpc.py, _page_complete,
\* and the end of the headers for the others.
Ready(p, pieces) ==
    CASE p = "http2" -> SettingsPresent(pieces) \/ (pieces # <<>> /\ pieces[1] = "http/")
      [] p = "grpc"  -> Holding(pieces, {"headers", "rst_stream", "goaway"})
      [] p = "http" /\ pc = "read" -> PageComplete(pieces)
      [] p = "cleartext" \/ (p = "http" /\ pc = "second") -> Holding(pieces, {"blank"})
      [] OTHER       -> Len(pieces) = 2

-----------------------------------------------------------------------------
(* The probes.                                                              *)

AppFailed(p) == [is |-> p, supported |-> "unknown", detail |-> "none"]
Found(p, yes, detail) == [is |-> p, supported |-> IF yes THEN "yes" ELSE "no", detail |-> detail]

\* check_http2; http2_findings reports "no limit" and a limit beyond a thousand.
Http2Verdict(pieces) ==
    Found("http2", peer.alpn = "h2",
          IF peer.alpn = "h2" /\ SettingsPresent(pieces) THEN peer.streams ELSE "none")

\* check_grpc: the first HEADERS frame decides, if it decodes.
GrpcVerdict(pieces) ==
    LET heard == \E i \in 1..Len(pieces) : pieces[i] = "headers"
        read  == Decode(block)
    IN  Found("grpc", /\ peer.alpn = "h2" /\ heard /\ ~read.bad
                      /\ \E i \in 1..Len(read.out) : read.out[i] = "grpc", "none")

\* check_websocket: 101 and the token of this request's key.
Upgraded(pieces) == pieces = <<"101", "rest">> /\ peer.token
\* check_sse: the media type of the response.
Streams(pieces)  == Len(pieces) = 2 /\ peer.streams

Supported(pieces) == IF probe = "websocket" THEN Upgraded(pieces) ELSE Streams(pieces)

\* parse_http_response and http_findings, of whatever came: a header that is not there is
\* missing, also where the answer ends before it, and when nothing came at all.
HttpVerdict(pieces) ==
    Found("http", TRUE,
          (IF ~Holding(pieces, {"hsts"}) THEN {"no_hsts"}
           ELSE IF peer.hsts = "short" THEN {"short_hsts"} ELSE {})
          \cup (IF Holding(pieces, {"mixed"}) THEN {"mixed"} ELSE {}))

\* check_cleartext_redirect and _redirect_target, over fetch_cleartext.
Cleartext(pieces) ==
    IF pieces # <<>> /\ ~Holding(pieces, {"location"}) THEN {"no_redirect"} ELSE {}

\* check_cleartext_http, asked where no TLS was found: a status line is an answer.
CleartextVerdict(pieces) == Found("cleartext", Holding(pieces, {"200"}), "none")

\* What the answer to the foreign origin shows: origin_enforced, cross_origin_open.
Foreign(pieces) ==
    IF probe = "websocket"
      THEN IF pieces # <<>> /\ pieces[1] = "101" THEN "open" ELSE "enforced"
      ELSE IF Len(pieces) = 2 /\ peer.allow = "reflects" THEN "open" ELSE "enforced"

AppInit ==
    \E p \in AppKinds : \E s \in AppServers(p) :
        /\ Begin(p, s, IF p = "grpc" /\ Pieces(p, s, FALSE) # <<>> /\ s.says = "headers" THEN "write" ELSE "read")
        /\ answer = <<>> /\ block = <<>> /\ fields = <<>>

AppIdle == answer = <<>> /\ block = <<>> /\ fields = <<>>

\* The server writes its header block; its own table says which index stands for what.
Write ==
    /\ pc = "write" /\ probe = "grpc"
    /\ LET table == Writer(block).table IN
       \/ /\ Len(block) < MaxBlock
          /\ \/ \E h \in Headers : \E f \in {Insert(h), Literal(h)} :
                   block' = Append(block, f) /\ fields' = Append(fields, h)
             \/ \E i \in 1..Len(Static) + Len(table) :
                   /\ block' = Append(block, Indexed(i))
                   /\ fields' = Append(fields, (Static \o table)[i])
             \/ \E n \in TableSizes : block' = Append(block, Resize(n)) /\ UNCHANGED fields
          /\ pc' = pc
       \/ pc' = "read" /\ UNCHANGED <<block, fields>>
    /\ NoFault /\ UNCHANGED <<probe, peer, verdict, answer>>

\* Whether the first answer calls for a second request: with a foreign origin (--active)
\* or, always, to port 80.
Again(pieces) ==
    pc = "read" /\ (probe = "http" \/ (probe \in {"websocket", "sse"} /\ Supported(pieces)))

Result(pieces) ==
    CASE probe = "http2" -> Conclude(Http2Verdict(pieces))
      [] probe = "grpc" -> Conclude(GrpcVerdict(pieces))
      [] probe = "cleartext" -> Conclude(CleartextVerdict(pieces))
      [] Again(pieces) ->
           /\ verdict' = IF probe = "http" THEN HttpVerdict(pieces) ELSE Found(probe, TRUE, "none")
           /\ pc' = "second"
      [] pc = "second" ->
           Conclude([verdict EXCEPT !.detail = IF probe = "http" THEN @ \cup Cleartext(pieces)
                                               ELSE Foreign(pieces)])
      [] OTHER -> Conclude(Found(probe, FALSE, "none"))

\* One more piece arrives; when there is enough the answer is read.
Piece ==
    LET pieces == Pieces(probe, peer, pc = "second")
        read   == Append(answer, pieces[Len(answer) + 1])
    IN  /\ pc \in {"read", "second"} /\ probe \in AppKinds
        /\ Len(answer) < Len(pieces)
        /\ IF Ready(probe, read) THEN Result(read) /\ answer' = <<>>
           ELSE answer' = read /\ UNCHANGED <<pc, verdict>>
        /\ NoFault /\ UNCHANGED <<probe, peer, block, fields>>

\* The connection ends first, which is no error: what there is is the answer.
Ends ==
    /\ pc \in {"read", "second"} /\ probe \in AppKinds
    /\ IF answer = Pieces(probe, peer, pc = "second") THEN NoFault ELSE Fault
    /\ Result(answer) /\ answer' = <<>>
    /\ UNCHANGED <<probe, peer, block, fields>>

\* The handshake fails or the connection is reset: an error, whatever was read, or the
\* second request tells nothing.  Over no TLS it is as if nothing answered.
Fails ==
    /\ pc \in {"read", "second"} /\ probe \in AppKinds
    /\ Fault
    /\ Conclude(CASE pc = "second" -> verdict
                   [] probe = "cleartext" -> CleartextVerdict(<<>>)
                   [] OTHER -> AppFailed(probe))
    /\ answer' = <<>>
    /\ UNCHANGED <<probe, peer, block, fields>>

AppStep == Write \/ Piece \/ Ends \/ Fails

-----------------------------------------------------------------------------
(* Properties.                                                              *)

AppTypeOK ==
    /\ answer \in Seq({"settings", "settings_ack", "window", "http/", "headers", "rst_stream", "goaway",
                       "101", "200", "301", "400", "rest", "banner", "blank", "location", "hsts",
                       "mixed", "page"})
    /\ block \in Seq([kind : {"indexed", "insert", "literal", "resize"}, number : Nat, header : Headers])
    /\ fields \in Seq(Headers)

\* The decoder and the server that wrote a block agree on every header in it, whatever
\* was inserted, evicted and resized on the way (hpack.Decoder).
DecodedAsWritten ==
    probe = "grpc" => LET read == Decode(block) IN read.out = fields /\ ~read.bad

\* What a probe says with no failure is so, and all of it.  After one, an answer may be cut
\* short, which the exchanges report as no error, and then four things may be said falsely:
\* that there is no limit of streams, as is said of a server that asks for client
\* certificates, too; that a header of security is missing, or a redirect (http_findings,
\* check_cleartext_redirect); that an origin is enforced; and that nothing speaks HTTP.  What
\* is said to be there is the server's, for all that was cut: what is supported, a limit, an
\* origin that is open, mixed content, a short HSTS.
AppVerdictsTrue ==
    pc = "done" /\ probe \in AppKinds /\ verdict.supported # "unknown" =>
      LET yes == verdict.supported = "yes" IN
      CASE probe = "http2" ->
             /\ yes <=> peer.alpn = "h2"
             /\ yes => verdict.detail \in {"none", peer.streams}
             /\ yes /\ faults = 0 /\ ~peer.asks => verdict.detail = peer.streams
        [] probe = "grpc" ->
             /\ yes => \E i \in 1..Len(fields) : fields[i] = "grpc"
             /\ faults = 0 /\ ~peer.asks /\ peer.alpn = "h2" /\ peer.says = "headers" =>
                  (yes <=> \E i \in 1..Len(fields) : fields[i] = "grpc")
        [] probe = "websocket" ->
             /\ yes => peer.upgrades /\ peer.token
             /\ verdict.detail = "open" => ~peer.checks
             /\ faults = 0 /\ ~peer.asks =>
                  /\ yes <=> peer.upgrades /\ peer.token
                  /\ yes => verdict.detail = IF peer.checks THEN "enforced" ELSE "open"
        [] probe = "sse" ->
             /\ yes => peer.streams
             /\ verdict.detail = "open" => peer.allow = "reflects"
             /\ faults = 0 /\ ~peer.asks =>
                  /\ yes <=> peer.streams
                  /\ yes => verdict.detail = IF peer.allow = "reflects" THEN "open" ELSE "enforced"
        [] probe = "http" ->
             LET Claims(what, truth) == what \in verdict.detail => truth IN
             /\ Claims("no_hsts", peer.hsts = "none" \/ faults > 0 \/ peer.asks)
             /\ Claims("short_hsts", peer.hsts = "short") /\ Claims("mixed", peer.mixed)
             /\ Claims("no_redirect", peer.port80 = "serves" \/ faults > 0)
             /\ faults = 0 /\ ~peer.asks =>
                  /\ peer.hsts = "none" => "no_hsts" \in verdict.detail
                  /\ peer.hsts = "short" => "short_hsts" \in verdict.detail
                  /\ peer.mixed => "mixed" \in verdict.detail
                  /\ peer.port80 = "serves" => "no_redirect" \in verdict.detail
        [] probe = "cleartext" ->
             /\ yes => peer.speaks = "http"
             /\ peer.speaks = "http" => yes \/ faults > 0
=============================================================================
