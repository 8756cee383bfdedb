# BW_Fetcher in TLA+

BW_Fetcher is a command-line HTTP/2 client: it resolves a host, races the
addresses, optionally tunnels through a SOCKS5 proxy, runs a TLS handshake with
a browser's fingerprint, requests a page over nghttp2, follows redirects, and
fetches what the page links to, partly while the page is still arriving. What it
has fetched it prints or files under a capture directory. This project models
the parts where order, failure, time and lengths decide the outcome: the address
race, the proxy handshake, the connection with its event loop, the fetch core,
the scanning and streaming of subresources, and the capture store. Paths below
are relative to `src/`.

## 1. The system

| component | state it keeps | operations | interacts with |
|---|---|---|---|
| Address race, `URL_to_DNS/resolve_host.cpp` | futures, `done`, `completed`, `winner`, one socket per attempt | `try_connect` per thread, the polling caller, the detached drainer | called by the fetch core; threads share the vector of futures |
| SOCKS5 handshake, `PROXY/` | a reply buffer | `proxy_handshake`, `send_all`, `recv_exact` | blocking calls on the new socket |
| HTTP/2 client, `HTTP2_Client/` | `_running`, `_goaway`, `redirect_url`, responses by stream, callbacks | `send_header`, `reset_for_request`, `run_event_loop`, the frame, header, data, receive and send callbacks | calls the callbacks of the fetch core; nghttp2 and BoringSSL |
| Fetch core, `fetcher.cpp` | `ConnectionState` (socket, session, host, port, cookies), hop counter, `FetchResult` | `fetch_multi`, `fetch_one`, `teardown_connection` | the race, the proxy, TLS, the client |
| Script discovery, `challenge_scripts.cpp` | buffer, scan cursor, URLs seen | `feed`, `finalize`, `resolve_url` | fed by the subresource state |
| Runtime subresources, `fetcher.cpp` | `RuntimeSubresourceState`: scanner, `pending`, `dispatched`, `sid_*`, `active_streams`, `next_seq` | `enqueue`, `dispatch_same_host`, `on_body_chunk`, `on_stream_complete`, `fetch_with_runtime_subresources` | callbacks from inside `nghttp2_session_recv` |
| HTML catalogue, `html_catalog.cpp` | none | list what a page names and the run has not fetched | capture store |
| Command line and capture store, `main.cpp` | run directory, folders, `meta.json`, `run.json`, `catalog.json` | parse arguments, `allocate_run_dir`, `write_capture_request`, `write_present_entry`, `write_run_json`, `write_catalog_json` | the fetch core, the file system, other runs |
| URL parser, `URL_to_DNS/URL_Parser.cc` | none | `parse_url` | everywhere |
| TLS client, profiles, `BORING_SSL/` | the SSL context; constant tables | `SSL_Handshake`, `load_browser_profile` | BoringSSL |
| Decompression, `decompress.cpp` | none | gzip/deflate, brotli | called at END_STREAM |
| Python wrapper, `python/` | a temporary directory | run the program, read its output, score it | a subprocess |
| Benchmarks, packaging, CI | none | | |

What makes the behaviour hard:

* *Concurrency.* The race runs one thread per address, a caller that polls them
  and a thread that outlives the call. Everything after it is one thread, but
  its callbacks run in the order the server's frames arrive. Runs of the program
  are processes that share a store.
* *Ordering.* Subresources are requested from inside a callback of the page's
  body and may end before it; a connection outlives the request it was made for.
* *Lengths.* The proxy's replies have three lengths and arrive in pieces; the
  scanner searches a page in windows that depend on how it was cut.
* *Failure.* The server may reset a stream, announce GOAWAY, close politely or
  not, or push; a file may not open; a process may end between two files.
* *Time.* One deadline per event loop; none for DNS, the proxy or TLS.

What makes each component correct is stated by the properties of section 4; the
hazards of `PROJECT.json` list where the code is exposed, with the properties
that would notice.

## 2. Modules

| module | models | extends |
|---|---|---|
| `ConnectRace` | what the race promises: one socket handed out, every other closed, failure only after all attempts | |
| `HappyEyeballs` | `happy_eyeballs_connect`, `try_connect`, the drainer; implements `ConnectRace` | |
| `Socks5` | `proxy_handshake`, `send_all`, `recv_exact`, and the proxy | |
| `H2Client` | `ConnectionState`, `nghttp2_client`, and the server | |
| `BatchFetch` | what `fetch_multi` promises: one result per URL in order, each the answer to the URL it names or an error; a batch whose primary failed may end there | |
| `Fetch` | `fetch_multi` and `fetch_one`; implements `BatchFetch` | `H2Client` |
| `Scanner` | `IncrementalSubresourceScanner`, `resolve_url` | `H2Client` |
| `Subresources` | `fetch_with_runtime_subresources`, `RuntimeSubresourceState` | `Scanner` |
| `Capture` | the capture store, `catalog_present_resources` | |
| `MCFetch`, `MCSubresources`, `MCSocks5`, `MCCapture` | the instances TLC checks | their module |
| `HappyEyeballsProofs`, `H2ClientProofs`, `FetchProofs`, `SubresourcesProofs`, `SubresourceStreamsProofs`, `SubresourceScanProofs`, `Socks5Proofs`, `CaptureProofs` | the theorems | section 5 |

`Fetch` and `Subresources` are two callers of the same client, so the state and
the steps they share stand once in `H2Client`; each adds its own control (`pc`),
the data it keeps and what its callbacks do. `Capture` takes the result of either
as given.

### The address race

`task[i]` and `fd[i]` are what attempt `i`'s thread has done and the descriptor
it made; `cursor`, `done`, `completed`, `winner` are the caller's locals, and
`drainer`, `dcursor` the detached thread. Actions follow the code: `SocketFails`,
`StartConnect`, `Connected`, `ConnectFails` are `try_connect`'s branches;
`TakeFuture`, `SkipFuture`, `NextPass`, `Finish` the polling loop; `Drain`,
`DrainerExits` the drainer. A wait of 2 ms that finds a future not ready is a
step that moves on. A descriptor is "misclosed" when something other than an
open one is closed.

### The proxy handshake

The socket is two sequences of bytes, `upstream` and `downstream`. A `send` and a
`recv` take any number of them (`SendSome`, `RecvSome`), so every split occurs.
`pc` says which message is sent or which piece of an answer is awaited; `got` and
`need` are `recv_exact`'s. The proxy is external: it finds the end of a message as
RFC 1928 and RFC 1929 say (`Length`), answers with any method, verdict, address
form and name length, may end the connection in the middle of an answer, and,
once the tunnel stands, passes on bytes of the target. A user name, password or
host is its length; `Byte` is the cast to `uint8_t`.

### The connection

`conn` is `ConnectionState` without its cookies, `sockets` how many sockets are
open, `asked` the URL requested on each stream (stream ids are consecutive
here, odd in the code), `running`, `redirect` and `late` the event loop. The
server is `wire`, the frames on their way, `answered`, the streams it has ended,
and `peer`. A frame is what changes the client's control: the END_STREAM of an
answer or a redirect, a piece of a body, RST_STREAM, GOAWAY, `eof` (close_notify),
`reset` (a read error), `push`. A `Location` is absolute, root-relative, empty, or
a string `parse_url` rejects; `Resolve` does what the frame callback does with it,
including that a root-relative one loses a port that is not the default.
`broken` is an observer: the client has seen a read or a write fail.

Which faults the server may show is the constant `Faults`: `rst`, `goaway`,
`eof`, `reset`, `epipe` (a write fails once the server is gone), `push`, and
`stray` (redirects on any stream at any time, in `Subresources` only).

### The fetch core

`pc` follows `fetch_multi` and `fetch_one` statement by statement: `profile`, `hop`,
`connect`, `proxy`, `tls`, `request`, the loop `top` / `recv` / `send`, `after`, `next`,
`close`, `done`. A body is the URL it answers, so that a result can be compared
with the URL it claims. Every response sets one cookie, named by its URL, so
`jar` and `carried` say which responses an extra's cookie header reflects. The
list of extras is given (`opt.urls`); that `auto_challenge_scripts` computes it
from the primary's body makes no difference to what follows.

`BatchFetch` is what `fetcher.h:38-43` and `54-57` promise, with one exception that
the header does not make: `also` is to have "one entry per also_fetch URL"
(`fetcher.h:56`), but `fetch_multi` returns it empty when the primary failed
(`fetcher.cpp:705`). The abstract specification allows a batch to end there and to
go on, so `ImplementsBatch` neither hides the code's choice in a promise nor
checks it.

### The scanner

`Matches` gives what the three regular expressions match in each page, in the
order the code collects it, each match with the bytes it takes. `Feed` and
`Finalize` choose a window as the code does: from `cursor` up to `Guard`
(`kTailGuard`) bytes before what has arrived, then on from there; a match is
found if it lies inside the window. One step per match (`PassOver`, `Find`) is the
loop over the matches of a window, with the limit in it. A page in `Encoded` is
sent compressed, and as the scanner is fed the bytes as sent, it matches nothing.
`windows` is history: what has been searched.

### Runtime subresources

`pending`, `dispatched`, `active`, `primarySid` are the code's, `streams` joins
`sid_url` and `sid_seq`, `deferred` is `dispatch_same_host`'s local, `refused` is
history: what `send_header` refused. A callback is a run of steps: `OnBodyChunk`,
`OnPrimary` or `OnSubresource` begins it, the scanner's steps find links (`NotNews`,
`FindLink`, `ScanDone`), `Defer`, `Drop` and `Dispatch` take them one by one, and
`CallbackReturns` ends it with `on_stream_complete`'s verdict. No frame is read in
between. `sent` is the server's: how much of the page's body it has sent, in the
pieces `Pieces` allows. The connection's set-up is one step that fails or not,
and a later `fetch_one` one step with its result, because `Fetch` has their steps.

### The capture store

Each run is a process with a program counter: it tests for a directory name
(`Probe`), creates it (`Create`), fetches (`FetchMulti`, with the batch chosen from
`Batches`), then for each request and each resource the page names beside picks a
folder (`unique_request_dir`), writes the body and the `meta.json`, and at last
`run.json` and `catalog.json`. The store is `dirs`, `folders`, and for each kind of
file a function from where it lies to what it holds, for a body also whether all of it
is there. A write may fail, with the consequence it has in the code: a page that
is seen not to be written ends the run, another body skips the folder's
`meta.json`, a lost `meta.json` is not noticed. `write_body_file` returns the state
of its stream before the stream is closed (`main.cpp:124-129`), so a body that was
still in the buffer may be lost and is taken for written: `WriteBody` leaves a
whole body or a part of one, `BodyFails` none or a part. `Die` ends a process
before any of its steps, or in the middle of a body. A resource has the URL it was
asked under and the one it ended at; `FetchResult` keeps only the second. `Kept`
and `CatalogStart` are `html_catalog.cpp` and its caller: what a page names less
where fetches ended, numbered on from the greatest `request_seq`.

## 3. Assumptions and bounds

* *Fairness.* Race: every thread is scheduled and the kernel ends every
  `connect`, which `select` bounds by its timeout. Fetch and Subresources: weak
  fairness of the client's thread and of the clock; nothing is assumed of the
  server. With the thread's fairness goes the assumption that DNS, the proxy
  handshake and the TLS handshake end: the code puts no deadline on them. How
  much that assumes is what `Returns` says of `Socks5`: with a fair client the
  handshake returns if the proxy answers what it is asked, and the run does not
  claim more. `Capture` has no fairness: its properties are safety.
* *`MaxWire`*: 2 undelivered frames in `Fetch`, enough for an answer behind a
  GOAWAY or a close; 3 in `Subresources`, for a piece of the page between two
  answers. All frames already sent are read before the deadline is looked at, as
  in the code; that a server could send without a pause and so hold
  `nghttp2_session_recv` is left out (`SubresourceChunk` is bounded to one frame and
  stops with the deadline).
* *Batches* of at most three URLs with `max_redirects` 0 to 3, on two hosts and
  two ports: a return to a host that was left, a URL that does not parse, a
  proxy, the redirect limit on the first hop. All have a deadline; the theorems
  hold without one too.
* *Pages* of 8 bytes in pieces that end at 2, 4, 6 or 8, with `Guard = 2` for
  `kTailGuard = 2048`: a match across a cut, one that ends at it, one in the tail
  that only `finalize` sees, the same link as script and as preload, a link
  elsewhere, one that is no URL. With a limit of one and without; two hops, and a
  redirect to the empty string, which ends the loop without a hop to follow.
* *Redirects without a body* in `Subresources`, unless `stray` is in `Faults`.
  The code scans a redirect's body too; then, and after a stray redirect, streams
  of the old page meet the new one, which the properties about streams exclude.
* *Four attempts* in the race: two per family, so one can win, one fail, one be
  slow and one be consumed.
* *`MaxLength = 3`* stands for 255: lengths of 0, 1, 3 and 4 are empty, short, at
  and beyond what a byte holds. `MaxForward = 2` bytes of the target arrive unasked.
* *Two runs* in the store, for one host in one second, the case in which names
  collide. In `capture` the second starts after the first has ended or died; in
  `capture_same_second` they overlap. `MaxSuffix = 3` stands for 999 and is more than
  the folders of one name that a run makes here; the theorems on what is lost
  assume the same (`Namesakes`), so what happens beyond it is neither checked nor
  proved. One write below a run directory fails (`MaxFailures`), noticed or not.
  The runs are alike, so `capture` takes them as symmetric; it has no liveness.
* *nghttp2 and BoringSSL* are external. A request submitted reaches the server
  unless it has said GOAWAY or is gone. A receive callback that returns 0 means
  "would block" to nghttp2, which is why `eof` is `NothingToRecv`.

Deadlock checking is off in all runs: the program ends, and nothing is to happen
after it. That it does end is a property of its own in four passing runs; not in
`fetch_faults`, which has the actions of `fetch`, nor in `capture`, where a process
may end at any step.

## 4. What is checked

| run | shows |
|---|---|
| `happy_eyeballs` | `WinnerUsable`, `NoDoubleClose`, `ThrowsOnlyIfAllFailed`, `NoSocketLeft`; `ImplementsRace` and `RaceDelivers`: the abstract race's safety and liveness |
| `fetch` | `ResultIsAnswer`; `ImplementsBatch`; `Terminates`, with deadline, whatever the server does |
| `fetch_faults` | with failed writes and pushes too: `OwnOrigin`, `NoRequestAfterGoaway`, `ErrorIffFailed`, `OneSocket`, `CookiesSurvive` |
| `subresources` | no link lost or asked for twice (`LinksConserved`), the loop's counter exact (`ActiveIsInFlight`), the page whole when the loop ends by itself, or redirected to the empty string with nothing of it come (`PageIsComplete`), what lies in a window found up to the limit (`WindowsSearched`), `SeqInStartOrder`, `OwnHost`, `StreamedIsAnswer`, `Terminates` |
| `socks5` | exactly the replies are consumed (`CleanTunnel`), neither side waits for the other (`NoMutualWait`), credentials and request leave when asked for (`SaidInTurn`), `Returns` |
| `capture` | each run its own directory (`OwnRunDir`), nothing written is overwritten (`NothingOverwritten`), the catalogue lists what is there (`CatalogComplete`), its present entries are numbered after the requests and are no fetch's final URL (`PresentApart`), what is there after exit codes 0 and 1 (`CodeTellsStore`) |

The fetch core is checked in two runs because two properties need a weaker
server: after a failed write, frames not yet read stay on a connection that is
reused, and after a push a body belongs to no request. In both cases a result
may carry another answer, so `ResultIsAnswer` and `ImplementsBatch` hold without
`push` and `epipe` only, and are proved under that assumption.

Six runs end in a violation, each of a sentence the code says about itself:

| run | the sentence | what the code does |
|---|---|---|
| `fetch_broken` | "reusing the live HTTP/2 connection" (`fetcher.h:64-65`) | a failed read ends the loop as success; the dead connection is reused |
| `subresources_hijack` | "URL after following redirects" (`fetcher.h:43`) | a script's redirect replaces the page |
| `subresources_compressed` | "While the HTML body streams in, scan for `<script src>` (+ preload hints) and GET each URL" (`main.cpp:40-41`) | the scanner is fed the bytes as sent: of a compressed page nothing is found |
| `subresources_cut` | "Scan HTML incrementally as body DATA chunks arrive" (`challenge_scripts.h:29`) | a tag across the end of a window is in neither window |
| `capture_same_second` | "each run creates `<dir>/<timestamp>_<host>/requests/...`" (`main.cpp:45-46`) | the test and the creation are two steps, and creating an existing directory succeeds |
| `capture_redirected` | "that was not already fetched (`fetched_abs` holds absolute URLs of primary + subresource GETs)" (`html_catalog.h:17-18`) | compares with `final_url`: a subresource that was redirected is listed as present too |

`subresources_cut` has no compressed page (`Encoded = {}`), so its trace is a
tag that lies across a cut: three windows, 0-4, 4-6 and 6-8, and a match in bytes
2-5. Two more sentences the code does not keep have no run of their own. The hop
loop counts requests, so of `max_redirects` redirects the last one's target is not
requested (`fetcher.cpp:148`, `fetcher.h:59`: "following up to opt.max_redirects
redirects"); and `also` is empty after a primary that failed (section 2).

## 5. What is proved

All theorems are for every value of the constants that the named assumptions
(`AddressCounts`, `ConnConstants`, `OptionsType`, `ScannerConstants`,
`RuntimeConstants`, `Socks5Constants`, `CaptureConstants`, `HintTypes`, `BatchTypes`)
admit, and what else a theorem assumes is in its statement: any number of
addresses, any batch, any page, any lengths, any sequence of server events, any
number of runs. With them every invariant and every action property that a
passing run checks is proved, and both refinements but for their liveness.

**`HappyEyeballsProofs`**: `Invariant`, then `TypeCorrect`, `WinnerSafe`, `ClosedOnce`,
`ThrowIsTotalFailure`, `NothingLeaked`, and `Refinement` of `ConnectRace`'s safety
part. The invariant says who owns a socket: an attempt's descriptor is open just
while it is connecting or connected and not drained; a consumed future is
ready, and, unless it is the winner, failed; the drainer has passed only
futures that are settled. `completed` is the cardinality of the consumed futures,
which is what makes "all completed" mean "all failed" when the call throws.

**`H2ClientProofs`** holds what the operations of `H2Client` preserve whoever calls
them: `WireInv` (a frame is well formed, a response answers a stream that was
opened) and `SocketInv`. Both of the next two rest on it.

**`FetchProofs`**: `IInv` is `TypeOK` with `ConnInv` (where a socket and a session
exist, by `pc`), `WireInv`, `OwnOrigin` and `ResInv` (results, and the current one,
are ok or carry an error). From it follow `TypeCorrect`, `RequestsStayHome`,
`SocketsAreClosed`, `ResultsAreHonest`, `GoawayIsRespected`. `CookiesKept` adds that the
jar is what the results so far have set, whatever was torn down in between.
`AnswersMatch` and `KeepsContract` assume `Quiet`, that neither `push` nor `epipe` is a
fault. Their invariant `StaleInv` is the argument why reuse is safe: when a loop
ends on a connection that can be used again, nothing that could still deliver
is left on it (`NothingPending`), and frames arrive in the order of the wire
(`WireOrder`), so the only answer a request can see is its own (`BodyInv`).
`BatchInv` adds that results are appended in the order of the URLs.

**`SubresourcesProofs`**: `TypeCorrect` and `RequestsOnHost`, for every server, stray
redirects included. `IInv` says what the connection is at each point of a hop.

**`SubresourceStreamsProofs`** assumes `NoStray`, that servers redirect only pages and
before they send them, and needs three more invariants, each on top of the last:

* `HopInv`, whom a response belongs to. A stream is `Expected` to bring a response
  while the server has not ended it or its last frame is on the wire, and it has
  at most one (`WireOrder`). In a hop only the page's stream and those of the map
  are expected (`PageInv`); between two hops none is (`BetweenHops`), because the
  page is redirected before it has sent anything, and while it has sent nothing
  nothing has come of it (`Untouched`). Hence `StreamedAnswers`.
* `FlightInv`: a stream enters the map with the counter and the next number and
  leaves it with its response. Hence `CounterIsExact` and `NumberedInOrder`.
* `LinkInv`: the queue, what is put aside and what was requested are disjoint and
  without repetition, so the links found can be counted. Hence `NoLinkLost`.

**`SubresourceScanProofs`** has two parts. The first, for every server: between two
steps of the scan loop the links found are the matches of the windows before, and
of this one up to the match (`ScanInv`), and the windows follow each other without
a gap (`CoverInv`); a match is found once, because a link found is never news
again. Hence `WindowsAreSearched`. The second, again under `NoStray`, gives
`CompletePages` from four invariants: the pieces of the page on the wire are those
sent and not yet scanned, in order and before the end of its stream (`PieceInv`);
a page that is complete was searched to its last byte (`DoneInv`); what still
waits between two callbacks is elsewhere (`QueueInv`); and the loop stops by
itself only at the end of the page and of all that was requested for it, or for a
redirect to the empty string, of whose page nothing has come (`StopInv`). The last
case was missing from `PageIsComplete` until the proof asked for it:
`on_frame_recv` takes any `Location` as a redirect, but an empty `redirect_url` is no
hop to follow (`HTTP2_Client/http2_client.cpp:146-154`, `fetcher.cpp:612`).

**`Socks5Proofs`**: `TypeCorrect`, `TunnelIsClean`, `NobodyWaits`, `CredentialsInTurn`, for any
`MaxLength`, so for 255, and any cut of the two streams. The streams are joined with
what is left to send and what was received (`Saying`, `Arriving`), so a split no
longer matters; `TurnInv` then says, at each `pc`, that either one whole message is
being said and nothing of its answer has come, or all of it was taken and the
answer is there up to a prefix: `MethodCame`, `StatusCame`, `ReplyCame`, `LengthCame`,
`AddressCame`. `Fits` is why the proxy finds the same end of a message as the client
(`WholeMessage`): a length that passed the test at `PROXY/proxy_socket5_handshake.cpp:45`
is not changed by its cast to a byte (lines 83, 85, 105).

**`CaptureProofs`**: `TypeCorrect` for any runs. The others assume `~Concurrent`, that runs
under one root do not overlap, which `capture_same_second` shows they must:

* `OwnDirectory`, from `OwnInv`: nobody takes the name between its test and its
  creation, since only one run is awake. What is proved of one run then survives
  the others, because they write elsewhere.
* `ExitCode`, from `CodeInv`: what lies in a run's directory at each point. After 0
  the page's body file is there, and whole if no write failed; the code itself
  cannot say more, as it does not see a write that fails at the close. After 1
  there is no whole body, no `meta.json`, no `run.json` and no catalogue.
* `NothingLost`, also under `Namesakes`, that no more items of a batch share place and
  number than there are suffixes. `FreshInv` bounds a folder's suffix by the
  items of that name so far, so `unique_request_dir` finds a free one.
* `CompleteCatalogs`, under the same: `CountInv` counts `meta.json` files against items
  until one is not written.
* `PresentStaysApart`, from `MetaInv`: what has a `meta.json` is an item of the batch,
  an entry's number is past those of the requests, and it is the final URL of no
  successful fetch (`ItemFacts`). It may be the URL one was asked for.
* `PresentUnasked`, also under `Direct`, that no successful fetch was redirected:
  then `PresentIsLeftOver` holds. A redirect is all that breaks it.

The lemmas about operators that these rest on are stated once: `Least` and `Greatest`
(of a set of numbers, a finite one), `Ranked`, `StartsAfter`, `KeptFacts` and `PresentFacts`
for the catalogue, `Unique` for the suffix, `MatchedOK` and `HeadFrame` for the scanner,
`WholeMessage`, `Moved` and `PacketTypes` for the handshake. No induction over data is
needed: where one would be natural, the least counterexample does (`Least`, from
the well-foundedness of the order on the natural numbers).

Only model-checked: liveness (`RaceDelivers`, `Terminates` twice, `Returns`), which is
beyond the prover.

## 6. Not modelled

* Argument parsing, the JSON and the report on stdout, and the output of plain
  fetches (`--out`, `--also-out-dir`): formatting, one file after another.
* What the regular expressions of the scanner and of the catalogue match, the
  filter of `--auto-challenge-scripts`, and URLs as strings (`parse_url`,
  `resolve_url` on text): constants and records here.
* Header contents, decompression, flow control and SETTINGS; DNS and TLS beyond
  their outcome; the tables of the browser profiles.
* The body of a redirect response, cookies set by redirect hops, and cookies in
  the subresource mode.
* The platform layer, the Python wrapper and its detection, benchmarks and
  packaging. `PROJECT.json` gives the reason for each component.

## 7. Plan

Done: the race, the connection, the fetch core, the scanner with the runtime
subresources, the proxy handshake and the capture store; the theorems of
section 5, which cover every safety property of the passing runs. Next:

1. What of the liveness properties is safety and can be proved: a measure that
   every step of the race, of the handshake's client and of a batch's control
   decreases, and that a state with no step left is a final one.
2. `NothingLost` and `CompleteCatalogs` for overlapping runs of different names, where
   the test and the creation cannot meet.
3. Redirects with a body and two ports in `Subresources`; cookies of redirect hops.
4. `parse_url` and the resolution of references over token sequences.
