---- MODULE Fetch ----
(***************************************************************************)
(* fetch_multi and fetch_one (fetcher.cpp): a primary URL and then each    *)
(* extra one, every fetch following redirects hop by hop, reusing the      *)
(* connection for another request to the same host and port.               *)
(*                                                                         *)
(* One thread runs all of it.  What interleaves is the server, and time:   *)
(* frames arrive, the connection ends and the deadline passes between any  *)
(* two steps of the client.                                                *)
(*                                                                         *)
(* A body is abstracted to the URL it answers, so that a result can be     *)
(* compared with the URL it claims; every response sets one cookie,        *)
(* identified with the URL that set it.                                    *)
(***************************************************************************)
EXTENDS H2Client

CONSTANTS Options,    \* FetchOptions the batch may be called with
          Redirects   \* bound: the Location headers servers send

ASSUME OptionsType ==
  /\ Redirects \subseteq Location
  /\ \A o \in Options : /\ o.urls \in Seq(Url \cup {BadUrl}) /\ o.urls # <<>>
                        /\ o.maxRedirects \in Nat
                        /\ o.proxy \in BOOLEAN
                        /\ o.timeout \in BOOLEAN

VARIABLES
  opt,      \* urls: primary and extras; maxRedirects; proxy; timeout > 0
  pc,       \* where the thread is
  target,   \* target_url of the current fetch_one
  hop,      \* its hop counter
  res,      \* its FetchResult
  results,  \* MultiFetchResult: the primary result, then the extras
  jar,      \* ConnectionState::cookies
  carried   \* the cookie header of the current fetch, a set of cookies

dataVars == <<opt, target, hop, res, results, jar, carried>>
fetchVars == <<pc, dataVars>>
vars == <<h2Vars, fetchVars>>

\* The URL this fetch_one was asked for.
Current == opt.urls[Len(results) + 1]

FreshResult(url) == [start |-> url, ok |-> FALSE, error |-> "none", final |-> NoUrl,
                     body |-> NoUrl, cookies |-> {}]

Result == [start : Url \cup {BadUrl}, ok : BOOLEAN,
           error : {"none", "profile", "parse", "connect", "proxy", "tls", "protocol",
                    "submit", "timeout", "no response"},
           final : Url \cup {BadUrl, NoUrl}, body : Url \cup {NoUrl},
           cookies : SUBSET (Url \cup {NoUrl})]

Init == /\ H2Init
        /\ opt \in Options
        /\ pc = "profile"
        /\ target = opt.urls[1]
        /\ hop = 0
        /\ res = FreshResult(opt.urls[1])
        /\ results = <<>>
        /\ jar = {}
        /\ carried = {}

----
(* fetch_multi *)

\* load_browser_profile throws or WSAStartup fails: only an error comes back.
ProfileFails == /\ pc = "profile"
                /\ results' = <<[res EXCEPT !.error = "profile"]>>
                /\ pc' = "close"
                /\ UNCHANGED <<h2Vars, opt, target, hop, res, jar, carried>>

ProfileLoads == /\ pc = "profile"
                /\ pc' = "hop"
                /\ UNCHANGED <<h2Vars, dataVars>>

\* After a fetch: an extra carries the cookies gathered so far.
NextUrl == /\ pc = "next"
           /\ results[1].ok
           /\ Len(results) < Len(opt.urls)
           /\ pc' = "hop"
           /\ target' = Current
           /\ hop' = 0
           /\ res' = FreshResult(Current)
           /\ carried' = jar
           /\ UNCHANGED <<h2Vars, opt, results, jar>>

\* Faulty variant: a failed extra ends the batch.
StopAtFailure == /\ pc = "next"
                 /\ ~results[Len(results)].ok \/ Len(results) = Len(opt.urls)
                 /\ pc' = "close"
                 /\ UNCHANGED <<h2Vars, dataVars>>

NoMoreUrls == /\ pc = "next"
              /\ ~results[1].ok \/ Len(results) = Len(opt.urls)
              /\ pc' = "close"
              /\ UNCHANGED <<h2Vars, dataVars>>

\* Faulty variant: the connection is left open.
FinishWithoutTeardown == /\ pc = "close"
                         /\ pc' = "done"
                         /\ UNCHANGED <<h2Vars, dataVars>>

Finish == /\ pc = "close"
          /\ Teardown
          /\ pc' = "done"
          /\ UNCHANGED <<loopVars, dataVars>>

----
(* fetch_one: leaving it *)

\* An early return with an error.
Fail(error) == /\ results' = Append(results, [res EXCEPT !.error = error])
               /\ pc' = "next"
               /\ UNCHANGED <<opt, target, hop, res, jar, carried>>

\* Faulty variant: the end of the loop is taken for success.
CompleteSilently(r) == /\ results' = Append(results, r)
                       /\ jar' = IF r.ok THEN jar \cup {r.body} ELSE jar
                       /\ pc' = "next"
                       /\ UNCHANGED <<opt, target, hop, res, carried>>

\* The end of the hop loop: no response is an error, a response's cookie is
\* kept.
Complete(r) ==
  /\ results' = Append(results, IF ~r.ok /\ r.error = "none"
                                THEN [r EXCEPT !.error = "no response"] ELSE r)
  /\ jar' = IF r.ok THEN jar \cup {r.body} ELSE jar
  /\ pc' = "next"
  /\ UNCHANGED <<opt, target, hop, res, carried>>

----
(* fetch_one: one hop up to the request *)

HopLimit == /\ pc = "hop"
            /\ hop >= opt.maxRedirects
            /\ Complete(res)
            /\ UNCHANGED h2Vars

StartHop == pc = "hop" /\ hop < opt.maxRedirects

ParseFails == /\ StartHop
              /\ target = BadUrl
              /\ Teardown
              /\ UNCHANGED loopVars
              /\ results' = Append(results, [res EXCEPT !.error = "parse", !.final = target])
              /\ pc' = "next"
              /\ UNCHANGED <<opt, target, hop, res, jar, carried>>

Reuse == /\ StartHop
         /\ target # BadUrl
         /\ Reusable(target, opt.proxy)
         /\ res' = [res EXCEPT !.final = target]
         /\ pc' = "request"
         /\ UNCHANGED <<h2Vars, opt, target, hop, results, jar, carried>>

\* Faulty variant: the cookies go with the connection.
ReconnectForgettingCookies == /\ StartHop
                              /\ target # BadUrl
                              /\ ~Reusable(target, opt.proxy)
                              /\ Teardown
                              /\ jar' = {}
                              /\ res' = [res EXCEPT !.final = target]
                              /\ pc' = "connect"
                              /\ UNCHANGED <<loopVars, opt, target, hop, results, carried>>

Reconnect == /\ StartHop
             /\ target # BadUrl
             /\ ~Reusable(target, opt.proxy)
             /\ Teardown
             /\ res' = [res EXCEPT !.final = target]
             /\ pc' = "connect"
             /\ UNCHANGED <<loopVars, opt, target, hop, results, jar, carried>>

\* dns_lookup_host or happy_eyeballs_connect throws.
ConnectFails == /\ pc = "connect"
                /\ Fail("connect")
                /\ UNCHANGED h2Vars

Connect == /\ pc = "connect"
           /\ SetSocket
           /\ pc' = IF opt.proxy THEN "proxy" ELSE "tls"
           /\ UNCHANGED <<loopVars, dataVars>>

\* The target port is out of range or proxy_handshake refuses.
ProxyFails == /\ pc = "proxy"
              /\ Teardown
              /\ Fail("proxy")
              /\ UNCHANGED loopVars

ProxyTunnels == /\ pc = "proxy"
                /\ pc' = "tls"
                /\ UNCHANGED <<h2Vars, dataVars>>

\* Boring_SSL_Client throws or SSL_Handshake returns no session.
TlsFails == /\ pc = "tls"
            /\ Teardown
            /\ Fail("tls")
            /\ UNCHANGED loopVars

TlsConnects == /\ pc = "tls"
               /\ \E protocol \in Negotiated : SetSession(target, protocol)
               /\ pc' = "request"
               /\ UNCHANGED <<loopVars, dataVars>>

\* The server does not speak HTTP/2: the loop ends, the connection stays.
Unsupported == /\ pc = "request"
               /\ conn.protocol # "h2"
               /\ Complete([res EXCEPT !.error = "protocol"])
               /\ UNCHANGED h2Vars

SubmitFails == /\ pc = "request"
               /\ conn.protocol = "h2"
               /\ Teardown
               /\ Fail("submit")
               /\ UNCHANGED loopVars

Request == /\ pc = "request"
           /\ conn.protocol = "h2"
           /\ SendHeader(target)
           /\ res' = [res EXCEPT !.cookies = carried]
           /\ pc' = "top"
           /\ UNCHANGED <<opt, target, hop, results, jar, carried>>

----
(* fetch_one: the event loop *)

\* Faulty variant: the connection survives the time-out.
TimesOutKeepingConnection == /\ pc = "top"
                             /\ running /\ late
                             /\ Fail("timeout")
                             /\ UNCHANGED h2Vars

TimesOut == /\ pc = "top"
            /\ running /\ late
            /\ Teardown
            /\ Fail("timeout")
            /\ UNCHANGED loopVars

\* Faulty variant: the deadline is not looked at.
LoopIgnoringDeadline == /\ pc = "top"
                        /\ running
                        /\ pc' = "recv"
                        /\ UNCHANGED <<h2Vars, dataVars>>

LoopAgain == /\ pc = "top"
             /\ running /\ ~late
             /\ pc' = "recv"
             /\ UNCHANGED <<h2Vars, dataVars>>

LoopStops == /\ pc = "top"
             /\ ~running
             /\ pc' = "after"
             /\ UNCHANGED <<h2Vars, dataVars>>

\* The response callback.
OnResponse == /\ pc = "recv"
              /\ RecvAnswer(TRUE)
              /\ res' = [res EXCEPT !.ok = TRUE,
                                    !.body = IF Head(wire).sid = 0 THEN NoUrl
                                             ELSE asked[Head(wire).sid]]
              /\ UNCHANGED <<opt, pc, target, hop, results, jar, carried>>

OnFrame == /\ pc = "recv"
           /\ RecvRedirect \/ RecvRst \/ RecvGoaway
           /\ UNCHANGED fetchVars

DoneReading == /\ pc = "recv"
               /\ NothingToRecv
               /\ pc' = "send"
               /\ UNCHANGED <<h2Vars, dataVars>>

ReadBreaks == /\ pc = "recv"
              /\ RecvFails
              /\ pc' = "after"
              /\ UNCHANGED dataVars

DoneSending == /\ pc = "send"
               /\ pc' = "top"
               /\ UNCHANGED <<h2Vars, dataVars>>

SendBreaks == /\ pc = "send"
              /\ SendFails
              /\ pc' = "after"
              /\ UNCHANGED dataVars

\* Faulty variant: an empty Location is followed too.
FollowEmpty == /\ pc = "after"
               /\ target' = redirect
               /\ hop' = hop + 1
               /\ res' = [res EXCEPT !.ok = FALSE]
               /\ pc' = "hop"
               /\ UNCHANGED <<h2Vars, opt, results, jar, carried>>

\* A redirect was seen: drop the result so far and take the next hop.
Follow == /\ pc = "after"
          /\ redirect # NoUrl
          /\ target' = redirect
          /\ hop' = hop + 1
          /\ res' = [res EXCEPT !.ok = FALSE]
          /\ pc' = "hop"
          /\ UNCHANGED <<h2Vars, opt, results, jar, carried>>

Finished == /\ pc = "after"
            /\ redirect = NoUrl
            /\ Complete(res)
            /\ UNCHANGED h2Vars
----
Client == \/ ProfileFails \/ ProfileLoads \/ NextUrl \/ NoMoreUrls \/ Finish
          \/ HopLimit \/ ParseFails \/ Reuse \/ Reconnect
          \/ ConnectFails \/ Connect \/ ProxyFails \/ ProxyTunnels
          \/ TlsFails \/ TlsConnects \/ Unsupported \/ SubmitFails \/ Request
          \/ TimesOut \/ LoopAgain \/ LoopStops
          \/ OnResponse \/ OnFrame \/ DoneReading \/ ReadBreaks
          \/ DoneSending \/ SendBreaks \/ Follow \/ Finished

InLoop == pc \in {"top", "recv", "send"}

Deadline == /\ opt.timeout /\ InLoop
            /\ DeadlinePasses
            /\ UNCHANGED fetchVars

\* What the server does to the streams it has been asked for.
Reply == /\ \/ \E s \in Stream : \/ Answer(s)
                                 \/ \E loc \in Redirects : AnswerRedirect(s, loc)
                                 \/ ResetStream(s)
            \/ \E how \in {"eof", "reset"} : Close(how)
         /\ UNCHANGED fetchVars

Server == \/ Reply
          \/ (Goaway \/ Push) /\ UNCHANGED fetchVars

Next == Client \/ Deadline \/ Server

\* The thread runs and the clock moves.  That connecting, the proxy and the
\* TLS handshake end is assumed with the thread's fairness: no deadline of the
\* code covers them.  Nothing is assumed of the server.
Fairness == WF_vars(Client) /\ WF_vars(Deadline)

Spec == Init /\ [][Next]_vars /\ Fairness

----
(* Properties *)

Results == {results[k] : k \in DOMAIN results}
Returned == pc = "done"

\* Every variable stays within its declared range (fetcher.cpp:52-61, 138-296).
TypeOK ==
  /\ H2TypeOK
  /\ opt \in Options
  /\ pc \in {"profile", "hop", "connect", "proxy", "tls", "request", "top", "recv",
             "send", "after", "next", "close", "done"}
  /\ target \in Url \cup {BadUrl}
  /\ hop \in 0 .. opt.maxRedirects
  /\ res \in Result
  /\ results \in Seq(Result)
  /\ Len(results) <= Len(opt.urls)
  /\ jar \subseteq Url \cup {NoUrl}
  /\ carried \subseteq Url \cup {NoUrl}

\* A request is only ever on a connection made for its own host and port, in
\* particular after a redirect to another port of the same host
\* (fetcher.cpp:162-164, 222-226).
OwnOrigin == \A s \in Stream : /\ asked[s].host = conn.host
                               /\ asked[s].port = conn.port

\* No request is put on a connection once the client has seen its GOAWAY
\* (http2_client.h:50-52, fetcher.cpp:164).
NoRequestAfterGoaway == [][Len(asked') > Len(asked) => ~conn.goaway]_vars

\* A successful result carries the body of the URL it names as final: not that
\* of an earlier request whose answer came too late, of another hop or of
\* another stream (fetcher.cpp:243-287).
ResultIsAnswer == \A r \in Results : r.ok => r.body = r.final

\* A fetch that fails says so, and one that succeeds reports no error
\* (fetcher.h:39, fetcher.cpp:289-291).
ErrorIffFailed == \A r \in Results : r.ok <=> r.error = "none"

\* One socket at most is open at a time, it is the one ConnectionState holds,
\* and none is left when fetch_multi returns (fetcher.cpp:120-136, 167, 739).
OneSocket == /\ sockets = IF conn.sock THEN 1 ELSE 0
             /\ Returned => sockets = 0

\* An extra carries the cookies of every earlier final response of the batch,
\* whatever connections were torn down in between (fetcher.h:65-66,
\* fetcher.cpp:292-294, 730-736).
CookiesSurvive ==
  pc = "top" => res.cookies = {results[k].body : k \in {j \in DOMAIN results : results[j].ok}}

\* fetch_multi implements its contract: results in the order asked, one for each
\* URL once the primary has succeeded, none of them another's answer
\* (fetcher.h:38-57, fetcher.cpp:704-740).
Batch == INSTANCE BatchFetch WITH urls <- opt.urls, finished <- Returned

ImplementsBatch == Batch!Spec

\* With a deadline fetch_multi returns whatever the server does: it may stop
\* answering, reset streams, close (fetcher.h:31-34, http2_client.cpp:295-306).
Terminates == <>Returned

(* What the code's own comment says, and the code does not do *)

\* "reusing the live HTTP/2 connection" (fetcher.h:64-65): no request is put on
\* a connection whose failure the client has seen (fetcher.cpp:162-164,
\* http2_client.cpp:309-314).
NoRequestOnBroken == [][Len(asked') > Len(asked) => ~broken]_vars
====
