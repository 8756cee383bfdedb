---- MODULE Subresources ----
(***************************************************************************)
(* fetch_with_runtime_subresources and RuntimeSubresourceState             *)
(* (fetcher.cpp): the page is scanned while its body arrives, and what it  *)
(* links to on the same host is requested at once on streams of the same   *)
(* connection.  The rest is fetched one by one when the page is done.      *)
(*                                                                         *)
(* The page, the subresources and the end of the connection interleave as  *)
(* the server likes; a callback runs to its end before the next frame is   *)
(* read.  The connection's set-up is abstracted to its outcome and a later *)
(* fetch_one to its result: Fetch has their steps.  Cookies are left out.  *)
(***************************************************************************)
EXTENDS Scanner, Functions

CONSTANTS Options,    \* FetchOptions with fetch_subresources set
          Pieces,     \* bound: where a page may be cut, its end included
          Redirects   \* bound: the Location headers servers send

ASSUME RuntimeConstants ==
  /\ Redirects \subseteq Location /\ Pieces \subseteq Nat
  /\ \A o \in Options : /\ o.url \in Url \cup {BadUrl}
                        /\ o.also \in Seq(Url \cup {BadUrl})
                        /\ o.maxRedirects \in Nat /\ o.maxSubresources \in Nat
                        /\ o.proxy \in BOOLEAN

VARIABLES
  opt,         \* url, also_fetch, max_redirects, max_subresources, proxy
  pc,          \* where the thread is
  target,      \* target_url, page_url of the current state
  hop,         \* the hop counter
  primary,     \* batch.primary
  also,        \* batch.also
  todo,        \* what is left to fetch one by one
  fetched,     \* the URLs streamed, when the page is over
  pending,     \* links found and not requested; pending_urls is its range
  deferred,    \* dispatch_same_host: those it has put aside
  dispatched,  \* links requested on a stream
  refused,     \* history: those of them that could not be submitted
  streams,     \* sid_url and sid_seq: the subresource streams in flight
  primarySid,  \* primary_sid
  primaryDone, \* primary_done
  completing,  \* the callback that runs is on_stream_complete
  active,      \* active_streams
  nextSeq,     \* next_seq
  sent         \* the server: how much of the page's body it has sent

batchVars == <<primary, also, todo, fetched>>
queueVars == <<pending, deferred, dispatched, refused>>
stateVars == <<queueVars, streams, primarySid, primaryDone, completing, active, nextSeq>>
callVars == <<opt, target, hop, batchVars>>
runtimeVars == <<pc, callVars, scannerVars, stateVars>>
vars == <<h2Vars, runtimeVars, sent>>

NoResult == [ok |-> FALSE, error |-> "none", final |-> NoUrl, body |-> NoUrl]

Init == /\ H2Init
        /\ ScannerInit
        /\ opt \in Options
        /\ pc = "hop"
        /\ target = opt.url
        /\ hop = 0
        /\ primary = NoResult
        /\ also = <<>>
        /\ todo = <<>>
        /\ fetched = {}
        /\ pending = <<>>
        /\ deferred = <<>>
        /\ dispatched = {}
        /\ refused = {}
        /\ streams = <<>>
        /\ primarySid = 0
        /\ primaryDone = FALSE
        /\ completing = FALSE
        /\ active = 0
        /\ nextSeq = 1
        /\ sent = 0
----
(* on_body_chunk and on_stream_complete *)

\* The body a frame brings.
BodyOf(f) == IF f.sid = 0 THEN NoUrl ELSE asked[f.sid]

ReadFrame == /\ wire' = Tail(wire)
             /\ UNCHANGED <<conn, sockets, broken, asked, answered, peer, loopVars>>

OnBodyChunk == /\ pc = "recv"
               /\ Incoming("chunk")
               /\ Head(wire).sid = primarySid /\ ~primaryDone
               /\ ReadFrame
               /\ Feed(Head(wire).data.upto, opt.maxSubresources)
               /\ pc' = "scan"
               /\ completing' = FALSE
               /\ UNCHANGED <<callVars, queueVars, streams, primarySid, primaryDone, active,
                              nextSeq, sent>>

\* A chunk of any other stream is only kept.
OtherChunk == /\ pc = "recv"
              /\ Incoming("chunk")
              /\ Head(wire).sid # primarySid \/ primaryDone
              /\ Consume
              /\ UNCHANGED <<running, redirect, runtimeVars, sent>>

\* Faulty variant: the counter only counts up.
NoneLess == active

\* One stream less, never below zero.
OneLess == IF active > 0 THEN active - 1 ELSE 0

OnPrimary == /\ pc = "recv"
             /\ Incoming("answer") /\ Head(wire).sid = primarySid
             /\ ReadFrame
             /\ active' = OneLess
             /\ primaryDone' = TRUE
             /\ primary' = [ok |-> TRUE, error |-> "none", final |-> target,
                            body |-> BodyOf(Head(wire))]
             /\ Finalize(opt.maxSubresources)
             /\ pc' = "scan"
             /\ completing' = TRUE
             /\ UNCHANGED <<opt, target, hop, also, todo, fetched, queueVars, streams, primarySid,
                            nextSeq, sent>>

\* Faulty variant: no stream is known by its id.
NotOwn(sid) == [url |-> target, seq |-> 0]

\* What sid_url and sid_seq know of a stream, else it is put down to the page.
Own(sid) == IF sid \in DOMAIN streams THEN streams[sid] ELSE [url |-> target, seq |-> 0]

\* Faulty variant: the stream is not erased.
OthersAndSelf(sid) == streams

Others(sid) == [s \in DOMAIN streams \ {sid} |-> streams[s]]

OnSubresource == LET sid == Head(wire).sid
                 IN  /\ pc = "recv"
                     /\ Incoming("answer") /\ sid # primarySid
                     /\ ReadFrame
                     /\ active' = OneLess
                     /\ also' = Append(also, [url |-> Own(sid).url, seq |-> Own(sid).seq,
                                              body |-> BodyOf(Head(wire))])
                     /\ streams' = Others(sid)
                     /\ pc' = "dispatch"
                     /\ completing' = TRUE
                     /\ UNCHANGED <<opt, target, hop, primary, todo, fetched, scannerVars,
                                    queueVars, primarySid, primaryDone, nextSeq, sent>>
----
(* enqueue *)

NotNews == /\ pc = "scan"
           /\ PassOver(target)
           /\ UNCHANGED <<h2Vars, pc, callVars, stateVars, sent>>

\* A link that waits or was requested does not come again.
Enqueue(url) == pending' = IF url \in dispatched \/ url \in Range(pending)
                           THEN pending ELSE Append(pending, url)

FindLink == /\ pc = "scan"
            /\ Find(target, opt.maxSubresources)
            /\ Enqueue(Candidate(target))
            /\ UNCHANGED <<h2Vars, pc, callVars, deferred, dispatched, refused, streams, primarySid,
                           primaryDone, completing, active, nextSeq, sent>>

ScanDone == /\ pc = "scan"
            /\ Searched(target)
            /\ pc' = "dispatch"
            /\ UNCHANGED <<h2Vars, callVars, stateVars, sent>>
----
(* dispatch_same_host *)

\* Faulty variant: every host is the connection's.
AnyHost(url) == url # BadUrl

SameHost(url) == url # BadUrl /\ url.host = conn.host

Dispatching == pc = "dispatch" /\ ~conn.goaway /\ pending # <<>>

\* On another host: it stays.
Defer == /\ Dispatching
         /\ ~SameHost(Head(pending))
         /\ pending' = Tail(pending)
         /\ deferred' = Append(deferred, Head(pending))
         /\ UNCHANGED <<h2Vars, pc, callVars, scannerVars, dispatched, refused, streams, primarySid,
                        primaryDone, completing, active, nextSeq, sent>>

\* Requested before, or send_header fails: it is dropped.
Drop == LET url == Head(pending)
        IN  /\ Dispatching
            /\ SameHost(url)
            /\ pending' = Tail(pending)
            /\ dispatched' = dispatched \cup {url}
            /\ refused' = IF url \in dispatched THEN refused ELSE refused \cup {url}
            /\ UNCHANGED <<h2Vars, pc, callVars, scannerVars, deferred, streams, primarySid,
                           primaryDone, completing, active, nextSeq, sent>>

\* Requested on a stream of its own.
Dispatch == LET url == Head(pending)
                sid == Len(asked) + 1
            IN  /\ Dispatching
                /\ SameHost(url) /\ url \notin dispatched
                /\ pending' = Tail(pending)
                /\ dispatched' = dispatched \cup {url}
                /\ asked' = Append(asked, url)
                /\ answered' = IF peer = "up" THEN answered ELSE answered \cup {sid}
                /\ streams' = [s \in DOMAIN streams \cup {sid} |->
                                 IF s = sid THEN [url |-> url, seq |-> nextSeq] ELSE streams[s]]
                /\ nextSeq' = nextSeq + 1
                /\ active' = active + 1
                /\ UNCHANGED <<conn, sockets, broken, wire, peer, loopVars, pc, callVars,
                               scannerVars, deferred, refused, primarySid, primaryDone,
                               completing, sent>>

\* Faulty variant: the loop ends with the page.
LoopDoneWithPage == running /\ ~primaryDone

\* on_stream_complete's verdict: the loop runs until nothing is in flight.
LoopGoesOn == running /\ ~(primaryDone /\ active = 0)

\* Faulty variant: what was put aside is lost.
ReturnsWithoutDeferred == /\ pc = "dispatch"
                          /\ ~Dispatching
                          /\ pending' = pending
                          /\ deferred' = <<>>
                          /\ running' = IF completing THEN LoopGoesOn ELSE running
                          /\ pc' = "recv"
                          /\ UNCHANGED <<conn, sockets, broken, sessionVars, redirect, late, callVars,
                                         scannerVars, dispatched, refused, streams, primarySid,
                                         primaryDone, completing, active, nextSeq, sent>>

\* What was put aside waits again, and the callback returns.
CallbackReturns == /\ pc = "dispatch"
                   /\ ~Dispatching
                   /\ pending' = pending \o deferred
                   /\ deferred' = <<>>
                   /\ running' = IF completing THEN LoopGoesOn ELSE running
                   /\ pc' = "recv"
                   /\ UNCHANGED <<conn, sockets, broken, sessionVars, redirect, late, callVars,
                                  scannerVars, dispatched, refused, streams, primarySid,
                                  primaryDone, completing, active, nextSeq, sent>>
----
(* fetch_with_runtime_subresources: one hop *)

\* Control passes on and the call's own state stays.
Move(from, to) == /\ pc = from
                  /\ pc' = to
                  /\ UNCHANGED <<callVars, scannerVars, stateVars, sent>>

\* The call returns with an error; the result so far is kept beside it.
Fail(from, error) == /\ pc = from
                     /\ pc' = "close"
                     /\ primary' = [primary EXCEPT !.error = error]
                     /\ UNCHANGED <<opt, target, hop, also, todo, fetched, scannerVars, stateVars,
                                    sent>>

HopLimit == hop >= opt.maxRedirects /\ Fail("hop", "limit") /\ UNCHANGED h2Vars

StartHop == hop < opt.maxRedirects /\ target # BadUrl

ParseFails == /\ hop < opt.maxRedirects /\ target = BadUrl
              /\ Fail("hop", "parse")
              /\ Teardown /\ UNCHANGED loopVars

Reuse == StartHop /\ Reusable(target, opt.proxy) /\ Move("hop", "request") /\ UNCHANGED h2Vars

Reconnect == /\ StartHop /\ ~Reusable(target, opt.proxy)
             /\ Move("hop", "connect")
             /\ Teardown /\ UNCHANGED loopVars

\* Connecting, the proxy or the TLS handshake fails; what was opened is closed.
ConnectFails == Fail("connect", "connect") /\ UNCHANGED h2Vars

\* They succeed: SetSocket and then SetSession.
Connect == /\ Move("connect", "request")
           /\ \E protocol \in Negotiated :
                conn' = [conn EXCEPT !.sock = TRUE, !.ssl = TRUE, !.protocol = protocol,
                                     !.host = target.host, !.port = target.port,
                                     !.client = (protocol = "h2")]
           /\ sockets' = sockets + 1
           /\ UNCHANGED <<broken, sessionVars, loopVars>>

Unsupported == conn.protocol # "h2" /\ Fail("request", "protocol") /\ UNCHANGED h2Vars

SubmitFails == /\ conn.protocol = "h2"
               /\ Fail("request", "submit")
               /\ Teardown /\ UNCHANGED loopVars

\* A new RuntimeSubresourceState; the page is requested.
Request == /\ pc = "request"
           /\ conn.protocol = "h2"
           /\ SendHeader(target)
           /\ NewScanner
           /\ pending' = <<>> /\ deferred' = <<>>
           /\ dispatched' = {} /\ refused' = {}
           /\ streams' = <<>>
           /\ primarySid' = Len(asked) + 1
           /\ primaryDone' = FALSE /\ completing' = FALSE
           /\ active' = 1
           /\ nextSeq' = 1
           /\ sent' = 0
           /\ pc' = "top"
           /\ UNCHANGED callVars
----
(* the event loop, and what follows it *)

\* Faulty variant: the deadline is not looked at.
LoopIgnoringDeadline == running /\ Move("top", "recv") /\ UNCHANGED h2Vars

LoopAgain == running /\ ~late /\ Move("top", "recv") /\ UNCHANGED h2Vars

\* A page that was complete stays in the result.
TimesOut == /\ running /\ late
            /\ Fail("top", "timeout")
            /\ Teardown /\ UNCHANGED loopVars

LoopStops == ~running /\ Move("top", "after") /\ UNCHANGED h2Vars

OnFrame == /\ pc = "recv"
           /\ RecvRedirect \/ RecvRst \/ RecvGoaway
           /\ UNCHANGED <<runtimeVars, sent>>

DoneReading == NothingToRecv /\ Move("recv", "send") /\ UNCHANGED h2Vars

ReadBreaks == RecvFails /\ Move("recv", "after")

DoneSending == Move("send", "top") /\ UNCHANGED h2Vars

SendBreaks == SendFails /\ Move("send", "after")

\* Faulty variant: an empty Location is followed too.
FollowEmpty == /\ pc = "after"
               /\ target' = redirect
               /\ hop' = hop + 1
               /\ pc' = "hop"
               /\ UNCHANGED <<h2Vars, opt, batchVars, scannerVars, stateVars, sent>>

Follow == /\ pc = "after"
          /\ redirect # NoUrl
          /\ target' = redirect
          /\ hop' = hop + 1
          /\ pc' = "hop"
          /\ UNCHANGED <<h2Vars, opt, batchVars, scannerVars, stateVars, sent>>

\* Left to fetch: what waits, and what the caller asked for.
PageOver == /\ pc = "after"
            /\ redirect = NoUrl
            /\ primary' = IF ~primary.ok /\ primary.error = "none"
                          THEN [primary EXCEPT !.error = "no response"] ELSE primary
            /\ fetched' = {also[k].url : k \in DOMAIN also}
            /\ todo' = pending \o opt.also
            /\ pc' = "extras"
            /\ UNCHANGED <<h2Vars, opt, target, hop, also, scannerVars, stateVars, sent>>

\* What was streamed is not fetched again.
SkipExtra == /\ pc = "extras"
             /\ todo # <<>>
             /\ Head(todo) \in fetched
             /\ todo' = Tail(todo)
             /\ UNCHANGED <<h2Vars, pc, opt, target, hop, primary, also, fetched, scannerVars,
                            stateVars, sent>>

\* fetch_one, successful or not.  It may leave the connection as it is or
\* take it down; which other connection it leaves matters to nothing here.
FetchExtra == /\ pc = "extras"
              /\ todo # <<>>
              /\ Head(todo) \notin fetched
              /\ todo' = Tail(todo)
              /\ \E body \in {Head(todo), NoUrl} :
                   also' = Append(also, [url |-> Head(todo), seq |-> nextSeq, body |-> body])
              /\ nextSeq' = nextSeq + 1
              /\ KeepConnection \/ Teardown
              /\ UNCHANGED <<loopVars, pc, opt, target, hop, primary, fetched, scannerVars,
                             queueVars, streams, primarySid, primaryDone, completing, active, sent>>

NoMoreExtras == todo = <<>> /\ Move("extras", "close") /\ UNCHANGED h2Vars

Finish == Teardown /\ Move("close", "done") /\ UNCHANGED loopVars
----
Client == \/ HopLimit \/ ParseFails \/ Reuse \/ Reconnect \/ ConnectFails \/ Connect
          \/ Unsupported \/ SubmitFails \/ Request
          \/ LoopAgain \/ TimesOut \/ LoopStops
          \/ OnBodyChunk \/ OtherChunk \/ OnPrimary \/ OnSubresource \/ OnFrame
          \/ NotNews \/ FindLink \/ ScanDone
          \/ Defer \/ Drop \/ Dispatch \/ CallbackReturns
          \/ DoneReading \/ ReadBreaks \/ DoneSending \/ SendBreaks
          \/ Follow \/ PageOver \/ SkipExtra \/ FetchExtra \/ NoMoreExtras \/ Finish

InCallback == pc \in {"scan", "dispatch"}
InLoop == InCallback \/ pc \in {"top", "recv", "send"}

Deadline == /\ InLoop
            /\ DeadlinePasses
            /\ UNCHANGED <<runtimeVars, sent>>

\* The page's body goes on, up to a byte of Pieces.
PageChunk == /\ InLoop
             /\ \E n \in Pieces : /\ sent < n /\ n <= BodySize[target]
                                  /\ Chunk(primarySid, n)
                                  /\ sent' = n

\* A piece of a subresource, one at a time and not after the deadline: a server
\* that always has a next one ready keeps nghttp2_session_recv reading, and the
\* deadline is not looked at.
SubresourceChunk == /\ InLoop /\ ~late
                    /\ \A k \in DOMAIN wire : wire[k].kind # "chunk"
                    /\ \E s \in DOMAIN streams : Chunk(s, 0)

\* The page's body is complete when its stream ends.
MayAnswer(s) == s = primarySid => sent = BodySize[asked[s]]

\* Redirects come on the page's own stream and without a body; a stray one
\* comes on any stream and at any time.
MayRedirect(s) == "stray" \in Faults \/ (s = primarySid /\ sent = 0)

\* What the server does until the page is over.  It needs no turn while a
\* callback runs, which reads nothing.
Server == /\ pc \notin {"extras", "close", "done"} /\ ~InCallback
          /\ \/ PageChunk
             \/ /\ \/ SubresourceChunk
                   \/ \E s \in Stream : \/ MayAnswer(s) /\ Answer(s)
                                        \/ MayRedirect(s) /\ \E loc \in Redirects : AnswerRedirect(s, loc)
                                        \/ ResetStream(s)
                   \/ Goaway
                   \/ \E how \in {"eof", "reset"} : Close(how)
                /\ UNCHANGED sent
          /\ UNCHANGED runtimeVars

Next == Client \/ Deadline \/ Server

Spec == Init /\ [][Next]_vars /\ WF_vars(Client) /\ WF_vars(Deadline)
----
(* Properties *)

\* Every variable stays within its range (fetcher.cpp:380-403).
TypeOK ==
  /\ H2TypeOK
  /\ ScannerTypeOK
  /\ pc \in {"hop", "connect", "request", "top", "recv", "scan", "dispatch", "send", "after",
             "extras", "close", "done"}
  /\ opt \in Options
  /\ target \in Url \cup {BadUrl}
  /\ hop \in 0 .. opt.maxRedirects
  /\ primary \in [ok : BOOLEAN, final : Url \cup {NoUrl}, body : Url \cup {NoUrl},
                  error : {"none", "limit", "parse", "connect", "protocol", "submit",
                           "timeout", "no response"}]
  /\ also \in Seq([url : Url \cup {BadUrl}, seq : Nat, body : Url \cup {BadUrl, NoUrl}])
  /\ todo \in Seq(Url \cup {BadUrl})
  /\ pending \in Seq(Url \cup {BadUrl}) /\ deferred \in Seq(Url \cup {BadUrl})
  /\ refused \subseteq dispatched /\ dispatched \subseteq Url
  /\ DOMAIN streams \subseteq Nat
  /\ streams \in [DOMAIN streams -> [url : Url, seq : Nat \ {0}]]
  /\ primarySid \in Nat /\ primaryDone \in BOOLEAN /\ completing \in BOOLEAN
  /\ active \in Nat /\ nextSeq \in Nat \ {0} /\ sent \in Nat

Streamed == {also[k].url : k \in DOMAIN also}
InFlight == {streams[s].url : s \in DOMAIN streams}

\* While the page loads no link is lost and none is asked for twice: a link the
\* scanner found waits, is in flight, was answered or could not be submitted,
\* and only one of these (fetcher.cpp:405-452, 473-489).
LinksConserved ==
  InLoop =>
    /\ seen = Range(pending) \cup Range(deferred) \cup InFlight \cup Streamed \cup refused
    /\ Cardinality(seen) = Len(pending) + Len(deferred) + Cardinality(DOMAIN streams)
                              + Len(also) + Cardinality(refused)

\* active_streams counts the streams that are in flight: the loop neither ends
\* before one of them is answered nor waits for none (fetcher.cpp:448, 464, 493).
ActiveIsInFlight ==
  InLoop => active = Cardinality(DOMAIN streams) + IF primaryDone THEN 0 ELSE 1

\* When the loop of a page ends by itself, with no redirect, GOAWAY or failure
\* of the connection, the page is there, everything that was requested is, all
\* that still waits is elsewhere, and every byte of the page was searched,
\* unless the limit was reached (fetcher.cpp:492-493, challenge_scripts.cpp:197-212).
\* The exception is a page that was redirected to the empty string, of which
\* nothing has come: the loop stops and there is no hop to follow
\* (http2_client.cpp:146-154, fetcher.cpp:612).
PageIsComplete ==
  pc = "after" /\ redirect = NoUrl /\ ~conn.goaway /\ ~broken =>
    \/ ~primary.ok /\ sent = 0 /\ primarySid \in answered
    \/ /\ primary.ok
       /\ streams = <<>>
       /\ \A k \in DOMAIN pending : ~SameHost(pending[k])
       /\ \/ Full(opt.maxSubresources)
          \/ UNION {w.from + 1 .. w.upto : w \in windows} = 1 .. BodySize[target]

\* A link that lies in one of the windows is found, however many pieces the page
\* came in, up to the limit and never beyond it (challenge_scripts.cpp:118-135, 189-207).
WindowsSearched ==
  /\ opt.maxSubresources > 0 => Cardinality(seen) <= opt.maxSubresources
  /\ InLoop /\ pc # "scan" /\ ~Full(opt.maxSubresources) =>
       seen = {ResolveUrl(m.src, target) :
                 m \in {n \in Range(Matched(target)) :
                          Fetchable(n.src) /\ \E w \in windows : Inside(n, w)}}

\* request_seq numbers what was requested after the page 1..N in start order,
\* no number twice and none left out (fetcher.h:46, fetcher.cpp:447, 639, 658).
SeqInStartOrder ==
  /\ {streams[s].seq : s \in DOMAIN streams} \cup {also[k].seq : k \in DOMAIN also}
       = 1 .. nextSeq - 1
  /\ nextSeq = 1 + Cardinality(DOMAIN streams) + Len(also)
  /\ \A s, t \in DOMAIN streams : s < t => streams[s].seq < streams[t].seq

\* What is requested on the connection is on its host (fetcher.cpp:420-423).
OwnHost == \A s \in Stream : asked[s].host = conn.host

\* What was streamed carries the body of the URL it is filed under
\* (fetcher.cpp:473-489).
StreamedIsAnswer == \A k \in DOMAIN also : also[k].body \in {also[k].url, NoUrl}

\* The call returns, whatever the server does to the page, its subresources
\* and the connection (fetcher.cpp:606-610).
Terminates == <>(pc = "done")

(* What the code's own comments say, and the code does not do *)

\* The primary's final_url is the "URL after following redirects" (fetcher.h:43):
\* only a redirect of the page's own stream becomes the next hop.
OnlyPageNavigates ==
  [][redirect' # redirect /\ redirect' # NoUrl => Head(wire).sid = primarySid]_vars

\* "While the HTML body streams in, scan for <script src> (+ preload hints) and
\* GET each URL" (main.cpp:40-41): when the loop of a page that has come ended by
\* itself, the scanner has found what discover_subresource_urls finds in the whole.
EveryLinkFound ==
  pc = "after" /\ primaryDone /\ ~conn.goaway /\ ~broken => seen = WholePage(target)
====
