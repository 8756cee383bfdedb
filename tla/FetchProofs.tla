---- MODULE FetchProofs ----
(***************************************************************************)
(* Theorems of Fetch, for every set of hosts, ports and options and every  *)
(* sequence of server events.                                              *)
(***************************************************************************)
EXTENDS Fetch, H2ClientProofs

Fetching == {"hop", "connect", "proxy", "tls", "request", "top", "recv", "send", "after"}

\* What ConnectionState is at each point of a hop.  A session implies a socket,
\* a TLS connection and HTTP/2; the connection in use is the target's.
ConnInv ==
  /\ conn.client => /\ conn.sock /\ conn.ssl /\ conn.protocol = "h2"
                    /\ conn.host \in Host /\ conn.port \in Port
  /\ pc = "connect" => conn = NoConn
  /\ pc \in {"connect", "proxy", "tls"} => asked = <<>>
  /\ pc \in {"proxy", "tls"} => conn = [NoConn EXCEPT !.sock = TRUE]
  /\ pc \in {"connect", "proxy", "tls", "request", "top", "recv", "send", "after"} =>
       target # BadUrl /\ res.final = target
  /\ pc = "request" => /\ conn.host = target.host /\ conn.port = target.port
                       /\ conn.protocol = "h2" => conn.client
                       /\ ~conn.goaway
  /\ pc \in {"top", "recv", "send", "after"} => conn.client
  /\ pc = "done" => ~conn.sock
  /\ SocketInv

\* A fetch that has not failed yet has no error; as long as its loop is to run
\* on, it has no response.
ResInv ==
  /\ pc \in Fetching \cup {"profile"} => /\ res.error = "none"
                                         /\ Len(results) < Len(opt.urls)
  /\ pc \in {"profile", "hop", "connect", "proxy", "tls", "request"} => ~res.ok
  /\ pc = "profile" => results = <<>>
  /\ InLoop /\ running => ~res.ok
  /\ \A k \in DOMAIN results : results[k].ok <=> results[k].error = "none"
  /\ pc = "next" => results # <<>>
  /\ hop = opt.maxRedirects => pc \notin Fetching \ {"hop"}

IInv == TypeOK /\ ConnInv /\ WireInv /\ OwnOrigin /\ ResInv

\* Stream s may still bring a response: the server can send one, or has.
Ending(k) == wire[k].kind \in {"answer", "redirect"}

Pending(s) == \/ s \notin answered /\ peer # "gone"
              \/ \E k \in DOMAIN wire : Ending(k) /\ wire[k].sid = s

\* One response is on its way at most, for the last stream opened, and nothing
\* follows the end of the connection.
WireOrder ==
  /\ \A k \in DOMAIN wire :
       /\ Ending(k) => wire[k].sid \in Stream /\ wire[k].sid \in answered
       /\ wire[k].kind \in {"eof", "reset"} => k = Len(wire) /\ peer = "gone"
       /\ wire[k].kind # "push"
  /\ \A j, k \in DOMAIN wire : Ending(j) /\ Ending(k) => j = k
  /\ \A s \in Stream : Pending(s) => s = Len(asked)

\* Once the loop of a request is over no stream may bring a response, or the
\* connection will not be used again.
NothingPending == conn.goaway \/ (InLoop /\ running) \/ \A s \in Stream : ~Pending(s)

\* In the loop the last stream is the target's, and a response is its.
BodyInv ==
  /\ pc \in {"top", "recv", "send", "after"} =>
       /\ asked # <<>> /\ asked[Len(asked)] = target
       /\ res.ok => res.body = res.final
  /\ ResultIsAnswer

StaleInv == WireOrder /\ NothingPending /\ BodyInv
----
(* What the operations of H2Client preserve *)

\* Every server event appends one frame at most and leaves the client alone.
LEMMA ServerOK ==
  ASSUME H2TypeOK, WireInv, Server
  PROVE  /\ H2TypeOK' /\ WireInv'
         /\ UNCHANGED <<conn, sockets, broken, asked, running, redirect, late, fetchVars>>
         /\ \E f \in Frame : wire' = Append(wire, f) /\ FrameOK(f)
  <1>1. ASSUME NEW s \in Stream, Answer(s) \/ ResetStream(s)
               \/ \E loc \in Redirects : AnswerRedirect(s, loc)
        PROVE  /\ H2TypeOK' /\ WireInv'
               /\ UNCHANGED <<conn, sockets, broken, asked, running, redirect, late>>
               /\ \E f \in Frame : wire' = Append(wire, f) /\ FrameOK(f)
    <2>1. s \in Nat
      BY DEF Stream, H2TypeOK
    <2>2. answered' \in SUBSET Nat /\ peer' = peer
      BY <1>1, <2>1 DEF Answer, ResetStream, AnswerRedirect, EndStream, H2TypeOK
    <2>3. CASE Answer(s)
      BY SendOK, <2>1, <2>2, <2>3 DEF Answer, H2TypeOK
    <2>4. CASE ResetStream(s)
      BY SendOK, <2>1, <2>2, <2>4 DEF ResetStream, H2TypeOK
    <2>5. ASSUME NEW loc \in Redirects, AnswerRedirect(s, loc)
          PROVE  /\ H2TypeOK' /\ WireInv'
                 /\ UNCHANGED <<conn, sockets, broken, asked, running, redirect, late>>
                 /\ \E f \in Frame : wire' = Append(wire, f) /\ FrameOK(f)
      BY SendOK, <2>1, <2>2, <2>5, OptionsType, ZenonT(60) DEF AnswerRedirect, H2TypeOK
    <2> QED BY <1>1, <2>3, <2>4, <2>5
  <1>2. ASSUME NEW how \in {"eof", "reset"}, Close(how)
        PROVE  /\ H2TypeOK' /\ WireInv'
               /\ UNCHANGED <<conn, sockets, broken, asked, running, redirect, late>>
               /\ \E f \in Frame : wire' = Append(wire, f) /\ FrameOK(f)
    BY SendOK, <1>2, ZenonT(60) DEF Close, H2TypeOK
  <1>3. ASSUME Goaway \/ Push
        PROVE  /\ H2TypeOK' /\ WireInv'
               /\ UNCHANGED <<conn, sockets, broken, asked, running, redirect, late>>
               /\ \E f \in Frame : wire' = Append(wire, f) /\ FrameOK(f)
    BY SendOK, <1>3, ZenonT(60) DEF Goaway, Push, H2TypeOK
  <1>4. UNCHANGED fetchVars
    BY DEF Server, Reply
  <1> QED
    BY <1>1, <1>2, <1>3, <1>4 DEF Server, Reply
----
(* Leaving fetch_one *)

\* A result that is added keeps every result a success or an error.
LEMMA ResultAdded ==
  ASSUME TypeOK, ResInv, Len(results) < Len(opt.urls),
         NEW r \in Result, r.ok <=> r.error = "none",
         results' = Append(results, r), UNCHANGED opt
  PROVE  /\ results' \in Seq(Result)
         /\ Len(results') = Len(results) + 1 /\ Len(results') <= Len(opt'.urls)
         /\ results' # <<>>
         /\ \A k \in DOMAIN results' : results'[k].ok <=> results'[k].error = "none"
  <1>1. /\ results \in Seq(Result) /\ Len(results) \in Nat
        /\ opt.urls \in Seq(Url \cup {BadUrl}) /\ Len(opt.urls) \in Nat
        /\ \A k \in DOMAIN results : results[k].ok <=> results[k].error = "none"
    BY OptionsType DEF TypeOK, ResInv
  <1>2. /\ results' \in Seq(Result)
        /\ Len(results') = Len(results) + 1
        /\ \A k \in 1 .. Len(results) : results'[k] = results[k]
        /\ results'[Len(results) + 1] = r
    BY <1>1, AppendProperties
  <1>3. \A k \in DOMAIN results' : k \in DOMAIN results \/ k = Len(results) + 1
    BY <1>1, <1>2
  <1>4. results' # <<>>
    BY <1>1, <1>2
  <1> QED
    BY <1>1, <1>2, <1>3, <1>4

LEMMA FailOK ==
  ASSUME IInv, pc \in Fetching, ~res.ok,
         NEW error \in {"connect", "proxy", "tls", "submit", "timeout"}, Fail(error)
  PROVE  /\ results' \in Seq(Result) /\ Len(results') <= Len(opt'.urls)
         /\ results' # <<>>
         /\ \A k \in DOMAIN results' : results'[k].ok <=> results'[k].error = "none"
         /\ pc' = "next" /\ UNCHANGED <<opt, target, hop, res, jar, carried>>
  <1>1. res \in Result /\ TypeOK /\ ResInv /\ Len(results) < Len(opt.urls)
    BY DEF IInv, TypeOK, ResInv
  <1>2. [res EXCEPT !.error = error] \in Result
    BY <1>1 DEF Result
  <1>3. /\ [res EXCEPT !.error = error].ok = res.ok
        /\ [res EXCEPT !.error = error].error = error
    BY <1>1 DEF Result
  <1> QED
    BY <1>1, <1>2, <1>3, ResultAdded DEF Fail

LEMMA CompleteOK ==
  ASSUME IInv, pc \in Fetching, NEW r \in Result, r.ok => r.error = "none", Complete(r)
  PROVE  /\ results' \in Seq(Result) /\ Len(results') <= Len(opt'.urls)
         /\ results' # <<>>
         /\ \A k \in DOMAIN results' : results'[k].ok <=> results'[k].error = "none"
         /\ jar' \subseteq Url \cup {NoUrl}
         /\ pc' = "next" /\ UNCHANGED <<opt, target, hop, res, carried>>
  <1> DEFINE q == IF ~r.ok /\ r.error = "none" THEN [r EXCEPT !.error = "no response"] ELSE r
  <1>1. TypeOK /\ ResInv /\ Len(results) < Len(opt.urls)
    BY DEF IInv, ResInv
  <1>2. q \in Result /\ (q.ok <=> q.error = "none")
    BY DEF Result
  <1>3. results' = Append(results, q) /\ UNCHANGED opt
    BY DEF Complete
  <1>4. jar' \subseteq Url \cup {NoUrl}
    BY <1>1 DEF Complete, TypeOK, Result
  <1> HIDE DEF q
  <1> QED
    BY <1>1, <1>2, <1>3, <1>4, ResultAdded DEF Complete
----
(* The inductive invariant *)

LEMMA InvInit == Init => IInv
  <1> SUFFICES ASSUME Init PROVE IInv
    OBVIOUS
  <1>1. opt \in Options /\ opt.urls \in Seq(Url \cup {BadUrl}) /\ opt.urls # <<>>
        /\ opt.maxRedirects \in Nat
    BY OptionsType DEF Init
  <1>2. Len(opt.urls) \in Nat \ {0} /\ opt.urls[1] \in Url \cup {BadUrl}
    BY <1>1
  <1>3. H2TypeOK
    <2>1. /\ conn = NoConn /\ sockets = 0 /\ broken = FALSE /\ asked = <<>> /\ wire = <<>>
          /\ answered = {} /\ peer = "up" /\ running = TRUE /\ redirect = NoUrl
          /\ late = FALSE
      BY DEF Init, H2Init
    <2>2. asked \in Seq(Url) /\ wire \in Seq(Frame)
      BY <2>1
    <2> QED BY <2>1, <2>2, NoConnType DEF H2TypeOK
  <1>4. res \in Result /\ results \in Seq(Result)
    BY <1>2 DEF Init, FreshResult, Result
  <1>5. TypeOK
    BY <1>1, <1>2, <1>3, <1>4 DEF TypeOK, Init
  <1>6. ConnInv /\ WireInv /\ OwnOrigin
    BY NoConnFields DEF Init, H2Init, ConnInv, SocketInv, WireInv, FrameOK, OwnOrigin, Stream
  <1>7. ResInv
    BY <1>2 DEF Init, ResInv, FreshResult, InLoop, Fetching
  <1> QED
    BY <1>5, <1>6, <1>7 DEF IInv

\* Nothing about the connection changes in a step that leaves it alone.
LEMMA SameConnection ==
  ASSUME IInv, UNCHANGED h2Vars
  PROVE  /\ H2TypeOK' /\ WireInv' /\ OwnOrigin'
         /\ UNCHANGED <<conn, sockets, broken, asked, wire, answered, peer,
                        running, redirect, late>>
  BY DEF IInv, TypeOK, H2TypeOK, WireInv, FrameOK, OwnOrigin, Stream, h2Vars, sessionVars, loopVars

\* The steps of fetch_multi and of a hop before the request.
LEMMA HopStep ==
  ASSUME IInv,
         \/ ProfileFails \/ ProfileLoads \/ NextUrl \/ NoMoreUrls \/ Finish
         \/ HopLimit \/ ParseFails \/ Reuse \/ Reconnect
  PROVE  IInv'
  <1>a. TypeOK /\ ConnInv /\ WireInv /\ OwnOrigin /\ ResInv /\ H2TypeOK
    BY DEF IInv, TypeOK
  <1>b. /\ opt \in Options /\ opt.urls \in Seq(Url \cup {BadUrl}) /\ opt.maxRedirects \in Nat
        /\ Len(opt.urls) \in Nat /\ Len(results) \in Nat /\ opt.urls # <<>>
    BY <1>a, OptionsType DEF TypeOK
  <1>c. ASSUME Teardown, UNCHANGED loopVars
        PROVE  /\ H2TypeOK' /\ WireInv' /\ OwnOrigin' /\ conn' = NoConn /\ sockets' = 0
               /\ asked' = <<>>
    BY <1>a, <1>c, TeardownOK DEF ConnInv, SocketInv, WireInv, FrameOK, OwnOrigin, Stream
  <1>1. ASSUME ProfileFails PROVE IInv'
    <2>a. UNCHANGED h2Vars /\ pc = "profile" /\ pc' = "close"
          /\ UNCHANGED <<opt, target, hop, res, jar, carried>>
      BY <1>1 DEF ProfileFails
    <2>b. results = <<>> /\ ~res.ok /\ res \in Result
      BY <1>a, <2>a DEF ResInv, TypeOK
    <2> DEFINE r == [res EXCEPT !.error = "profile"]
    <2>1. r \in Result /\ ~r.ok /\ r.error = "profile" /\ results' = <<r>>
      BY <1>1, <2>b DEF Result, ProfileFails
    <2>2. /\ results' \in Seq(Result) /\ Len(results') = 1
          /\ \A k \in DOMAIN results' : results'[k].ok <=> results'[k].error = "none"
      <3> HIDE DEF r
      <3> QED BY <2>1
    <2>3. 1 <= Len(opt.urls)
      BY <1>b
    <2>4. TypeOK'
      BY <1>a, <2>a, <2>2, <2>3, SameConnection DEF TypeOK
    <2>5. ConnInv' /\ WireInv' /\ OwnOrigin'
      BY <1>a, <2>a, SameConnection DEF ConnInv, SocketInv
    <2>6. ResInv'
      BY <2>a, <2>2 DEF ResInv, InLoop, Fetching
    <2> QED BY <2>4, <2>5, <2>6 DEF IInv
  <1>2. ASSUME ProfileLoads \/ NoMoreUrls PROVE IInv'
    <2>a. /\ UNCHANGED h2Vars /\ UNCHANGED dataVars
          /\ \/ pc = "profile" /\ pc' = "hop"
             \/ pc = "next" /\ pc' = "close"
      BY <1>2 DEF ProfileLoads, NoMoreUrls
    <2>1. TypeOK'
      BY <1>a, <2>a, SameConnection DEF TypeOK, dataVars
    <2>2. ConnInv' /\ WireInv' /\ OwnOrigin'
      BY <1>a, <2>a, SameConnection DEF ConnInv, SocketInv, dataVars
    <2>3. ResInv'
      BY <1>a, <2>a, SameConnection DEF ResInv, InLoop, Fetching, dataVars
    <2> QED BY <2>1, <2>2, <2>3 DEF IInv
  <1>3. ASSUME NextUrl PROVE IInv'
    <2>a. /\ pc = "next" /\ pc' = "hop" /\ Len(results) < Len(opt.urls)
          /\ target' = Current /\ hop' = 0 /\ res' = FreshResult(Current) /\ carried' = jar
          /\ UNCHANGED h2Vars /\ UNCHANGED <<opt, results, jar>>
      BY <1>3 DEF NextUrl
    <2>b. Current \in Url \cup {BadUrl}
      BY <1>b, <2>a DEF Current
    <2>1. FreshResult(Current) \in Result
      BY <2>b DEF FreshResult, Result
    <2>2. TypeOK'
      BY <1>a, <1>b, <2>a, <2>b, <2>1, SameConnection DEF TypeOK
    <2>3. ConnInv' /\ WireInv' /\ OwnOrigin'
      BY <1>a, <2>a, SameConnection DEF ConnInv, SocketInv
    <2>4. ResInv'
      BY <1>a, <2>a, SameConnection DEF ResInv, InLoop, Fetching, FreshResult
    <2> QED BY <2>2, <2>3, <2>4 DEF IInv
  <1>4. ASSUME Finish PROVE IInv'
    <2>a. /\ pc = "close" /\ pc' = "done" /\ Teardown /\ UNCHANGED loopVars
          /\ UNCHANGED dataVars
      BY <1>4 DEF Finish
    <2>1. TypeOK'
      BY <1>a, <1>c, <2>a DEF TypeOK, dataVars
    <2>2. ConnInv'
      BY <1>a, <1>c, <2>a, NoConnFields DEF ConnInv, SocketInv
    <2>3. ResInv'
      BY <1>a, <2>a DEF ResInv, InLoop, Fetching, dataVars
    <2> QED BY <1>c, <2>a, <2>1, <2>2, <2>3 DEF IInv
  <1>5. ASSUME HopLimit PROVE IInv'
    <2>a. pc = "hop" /\ Complete(res) /\ UNCHANGED h2Vars
      BY <1>5 DEF HopLimit
    <2>b. res \in Result /\ (res.ok => res.error = "none")
      BY <1>a, <2>a DEF TypeOK, ResInv
    <2>c. /\ results' \in Seq(Result) /\ Len(results') <= Len(opt'.urls)
          /\ results' # <<>>
          /\ \A k \in DOMAIN results' : results'[k].ok <=> results'[k].error = "none"
          /\ jar' \subseteq Url \cup {NoUrl}
          /\ pc' = "next" /\ UNCHANGED <<opt, target, hop, res, carried>>
      BY <2>a, <2>b, CompleteOK DEF Fetching
    <2>1. TypeOK'
      BY <1>a, <2>a, <2>c, SameConnection DEF TypeOK
    <2>2. ConnInv' /\ WireInv' /\ OwnOrigin'
      BY <1>a, <2>a, <2>c, SameConnection DEF ConnInv, SocketInv
    <2>3. ResInv'
      BY <2>c DEF ResInv, InLoop, Fetching
    <2> QED BY <2>1, <2>2, <2>3 DEF IInv
  <1>6. ASSUME ParseFails PROVE IInv'
    <2> DEFINE r == [res EXCEPT !.error = "parse", !.final = target]
    <2>a. /\ pc = "hop" /\ pc' = "next" /\ target = BadUrl /\ Teardown /\ UNCHANGED loopVars
          /\ results' = Append(results, r)
          /\ UNCHANGED <<opt, target, hop, res, jar, carried>>
      BY <1>6 DEF ParseFails, StartHop
    <2>b. r \in Result /\ ~r.ok /\ r.error = "parse" /\ Len(results) < Len(opt.urls)
      BY <1>a, <2>a DEF TypeOK, ResInv, Result, Fetching
    <2>c. /\ results' \in Seq(Result) /\ Len(results') <= Len(opt'.urls)
          /\ results' # <<>>
          /\ \A k \in DOMAIN results' : results'[k].ok <=> results'[k].error = "none"
      <3> HIDE DEF r
      <3> QED BY <1>a, <2>a, <2>b, ResultAdded
    <2>1. TypeOK'
      BY <1>a, <1>c, <2>a, <2>c DEF TypeOK
    <2>2. ConnInv'
      BY <1>a, <1>c, <2>a, NoConnFields DEF ConnInv, SocketInv
    <2>3. ResInv'
      BY <2>a, <2>c DEF ResInv, InLoop, Fetching
    <2> QED BY <1>c, <2>a, <2>1, <2>2, <2>3 DEF IInv
  <1>7. ASSUME Reuse PROVE IInv'
    <2>a. /\ pc = "hop" /\ pc' = "request" /\ target # BadUrl /\ hop < opt.maxRedirects
          /\ Reusable(target, opt.proxy) /\ UNCHANGED h2Vars
          /\ res' = [res EXCEPT !.final = target]
          /\ UNCHANGED <<opt, target, hop, results, jar, carried>>
      BY <1>7 DEF Reuse, StartHop
    <2>b. /\ res' \in Result /\ res'.final = target
          /\ res'.ok = res.ok /\ res'.error = res.error
      BY <1>a, <2>a DEF TypeOK, Result
    <2>1. TypeOK'
      BY <1>a, <2>a, <2>b, SameConnection DEF TypeOK
    <2>2. ConnInv' /\ WireInv' /\ OwnOrigin'
      BY <1>a, <2>a, <2>b, SameConnection DEF ConnInv, SocketInv, Reusable
    <2>3. ResInv'
      BY <1>a, <1>b, <2>a, <2>b DEF ResInv, InLoop, Fetching, TypeOK
    <2> QED BY <2>1, <2>2, <2>3 DEF IInv
  <1>8. ASSUME Reconnect PROVE IInv'
    <2>a. /\ pc = "hop" /\ pc' = "connect" /\ target # BadUrl /\ hop < opt.maxRedirects
          /\ Teardown /\ UNCHANGED loopVars
          /\ res' = [res EXCEPT !.final = target]
          /\ UNCHANGED <<opt, target, hop, results, jar, carried>>
      BY <1>8 DEF Reconnect, StartHop
    <2>b. /\ res' \in Result /\ res'.final = target
          /\ res'.ok = res.ok /\ res'.error = res.error
      BY <1>a, <2>a DEF TypeOK, Result
    <2>1. TypeOK'
      BY <1>a, <1>c, <2>a, <2>b DEF TypeOK
    <2>2. ConnInv'
      BY <1>c, <2>a, <2>b, NoConnFields DEF ConnInv, SocketInv
    <2>3. ResInv'
      BY <1>a, <1>b, <2>a, <2>b DEF ResInv, InLoop, Fetching, TypeOK
    <2> QED BY <1>c, <2>a, <2>1, <2>2, <2>3 DEF IInv
  <1> QED
    BY <1>1, <1>2, <1>3, <1>4, <1>5, <1>6, <1>7, <1>8

\* The steps that connect and send the request.
LEMMA ConnectStep ==
  ASSUME IInv,
         \/ ConnectFails \/ Connect \/ ProxyFails \/ ProxyTunnels
         \/ TlsFails \/ TlsConnects \/ Unsupported \/ SubmitFails \/ Request
  PROVE  IInv'
  <1>a. TypeOK /\ ConnInv /\ WireInv /\ OwnOrigin /\ ResInv /\ H2TypeOK
    BY DEF IInv, TypeOK
  <1>b. /\ opt \in Options /\ opt.maxRedirects \in Nat /\ res \in Result
        /\ Len(results) <= Len(opt.urls)
    BY <1>a, OptionsType DEF TypeOK
  <1>c. ASSUME Teardown, UNCHANGED loopVars
        PROVE  /\ H2TypeOK' /\ WireInv' /\ OwnOrigin' /\ conn' = NoConn /\ sockets' = 0
    BY <1>a, <1>c, TeardownOK DEF ConnInv, SocketInv, WireInv, FrameOK, OwnOrigin, Stream
  <1>1. ASSUME NEW error \in {"connect", "proxy", "tls", "submit", "timeout"}, Fail(error),
               pc \in {"connect", "proxy", "tls", "request"},
               \/ UNCHANGED h2Vars
               \/ Teardown /\ UNCHANGED loopVars
        PROVE  IInv'
    <2>a. /\ results' \in Seq(Result) /\ Len(results') <= Len(opt'.urls)
          /\ results' # <<>>
          /\ \A k \in DOMAIN results' : results'[k].ok <=> results'[k].error = "none"
          /\ pc' = "next" /\ UNCHANGED <<opt, target, hop, res, jar, carried>>
      BY <1>a, <1>1, FailOK DEF Fetching, ResInv
    <2>b. H2TypeOK' /\ WireInv' /\ OwnOrigin'
      BY <1>1, <1>c, SameConnection
    <2>1. TypeOK'
      BY <1>a, <2>a, <2>b DEF TypeOK
    <2>2. ConnInv'
      BY <1>a, <1>1, <1>c, <2>a, SameConnection, NoConnFields DEF ConnInv, SocketInv
    <2>3. ResInv'
      BY <2>a DEF ResInv, InLoop, Fetching
    <2> QED BY <2>b, <2>1, <2>2, <2>3 DEF IInv
  <1>2. ASSUME ConnectFails \/ ProxyFails \/ TlsFails \/ SubmitFails PROVE IInv'
    BY <1>1, <1>2 DEF ConnectFails, ProxyFails, TlsFails, SubmitFails
  <1>3. ASSUME Connect PROVE IInv'
    <2>a. /\ pc = "connect" /\ pc' \in {"proxy", "tls"}
          /\ conn' = [conn EXCEPT !.sock = TRUE] /\ sockets' = sockets + 1
          /\ UNCHANGED <<broken, asked, wire, answered, peer, running, redirect, late>>
          /\ UNCHANGED dataVars
      BY <1>3 DEF Connect, SetSocket, sessionVars, loopVars
    <2>b. conn = NoConn /\ sockets = 0 /\ asked = <<>>
      <3>1. conn = NoConn /\ asked = <<>>
        BY <1>a, <2>a DEF ConnInv, SocketInv
      <3> QED BY <1>a, <3>1, NoConnFields DEF ConnInv, SocketInv
    <2>c. /\ conn' \in ConnType /\ ~conn'.client /\ conn'.sock
          /\ conn' = [NoConn EXCEPT !.sock = TRUE]
      <3>1. conn' = [NoConn EXCEPT !.sock = TRUE]
        BY <2>a, <2>b
      <3> QED BY <3>1, NoConnType, NoConnFields DEF ConnType, Negotiated
    <2>1. H2TypeOK'
      BY <1>a, <2>a, <2>b, <2>c DEF H2TypeOK
    <2>2. TypeOK'
      BY <1>a, <2>a, <2>1 DEF TypeOK, dataVars
    <2>3. WireInv' /\ OwnOrigin'
      BY <1>a, <2>a, <2>b DEF WireInv, FrameOK, OwnOrigin, Stream
    <2>4. ConnInv'
      BY <1>a, <2>a, <2>b, <2>c DEF ConnInv, SocketInv, dataVars
    <2>5. ResInv'
      BY <1>a, <2>a DEF ResInv, InLoop, Fetching, dataVars
    <2> QED BY <2>2, <2>3, <2>4, <2>5 DEF IInv
  <1>4. ASSUME ProxyTunnels PROVE IInv'
    <2>a. pc = "proxy" /\ pc' = "tls" /\ UNCHANGED h2Vars /\ UNCHANGED dataVars
      BY <1>4 DEF ProxyTunnels
    <2>1. TypeOK'
      BY <1>a, <2>a, SameConnection DEF TypeOK, dataVars
    <2>2. ConnInv' /\ WireInv' /\ OwnOrigin'
      BY <1>a, <2>a, SameConnection DEF ConnInv, SocketInv, dataVars
    <2>3. ResInv'
      BY <1>a, <2>a DEF ResInv, InLoop, Fetching, dataVars
    <2> QED BY <2>1, <2>2, <2>3 DEF IInv
  <1>5. ASSUME TlsConnects PROVE IInv'
    <2>a. PICK protocol \in Negotiated : SetSession(target, protocol)
      BY <1>5 DEF TlsConnects
    <2>b. /\ pc = "tls" /\ pc' = "request" /\ UNCHANGED dataVars
          /\ UNCHANGED <<sockets, broken, asked, wire, answered, peer, running, redirect, late>>
      BY <1>5, <2>a DEF TlsConnects, SetSession, sessionVars, loopVars
    <2>c. conn = [NoConn EXCEPT !.sock = TRUE] /\ target \in Url /\ target # BadUrl
      BY <1>a, <2>b DEF ConnInv, SocketInv, TypeOK
    <2>d. target.host \in Host /\ target.port \in Port
      BY <2>c DEF Url
    <2>e. conn' = [sock |-> TRUE, ssl |-> TRUE, protocol |-> protocol, host |-> target.host,
                   port |-> target.port, client |-> protocol = "h2", goaway |-> FALSE]
      BY <2>a, <2>c DEF SetSession, NoConn
    <2>f. conn' \in ConnType
      BY <2>d, <2>e DEF ConnType, Negotiated
    <2>g. asked = <<>>
      BY <1>a, <2>b DEF ConnInv, SocketInv
    <2>1. H2TypeOK'
      BY <1>a, <2>b, <2>f DEF H2TypeOK
    <2>2. TypeOK'
      BY <1>a, <2>b, <2>1 DEF TypeOK, dataVars
    <2>3. WireInv' /\ OwnOrigin'
      BY <1>a, <2>b, <2>g DEF WireInv, FrameOK, OwnOrigin, Stream
    <2>4. ConnInv'
      <3>1. /\ conn'.sock /\ conn'.ssl /\ conn'.protocol = protocol /\ ~conn'.goaway
            /\ conn'.host = target.host /\ conn'.port = target.port
            /\ conn'.client <=> protocol = "h2"
        BY <2>e
      <3>2. sockets = 1 /\ target # BadUrl /\ res.final = target
        <4>1. conn.sock
          BY <2>c, NoConnType DEF ConnType, Negotiated
        <4> QED BY <1>a, <2>b, <4>1 DEF ConnInv, SocketInv
      <3> QED BY <2>b, <2>d, <3>1, <3>2 DEF ConnInv, SocketInv, dataVars
    <2>5. ResInv'
      BY <1>a, <2>b DEF ResInv, InLoop, Fetching, dataVars
    <2> QED BY <2>2, <2>3, <2>4, <2>5 DEF IInv
  <1>6. ASSUME Unsupported PROVE IInv'
    <2> DEFINE r == [res EXCEPT !.error = "protocol"]
    <2>a. pc = "request" /\ Complete(r) /\ UNCHANGED h2Vars
      BY <1>6 DEF Unsupported
    <2>b. r \in Result /\ (r.ok => r.error = "none")
      BY <1>a, <1>b, <2>a DEF ResInv, Result
    <2>c. /\ results' \in Seq(Result) /\ Len(results') <= Len(opt'.urls)
          /\ results' # <<>>
          /\ \A k \in DOMAIN results' : results'[k].ok <=> results'[k].error = "none"
          /\ jar' \subseteq Url \cup {NoUrl}
          /\ pc' = "next" /\ UNCHANGED <<opt, target, hop, res, carried>>
      <3> HIDE DEF r
      <3> QED BY <2>a, <2>b, CompleteOK DEF Fetching
    <2>1. TypeOK'
      BY <1>a, <2>a, <2>c, SameConnection DEF TypeOK
    <2>2. ConnInv' /\ WireInv' /\ OwnOrigin'
      BY <1>a, <2>a, <2>c, SameConnection DEF ConnInv, SocketInv
    <2>3. ResInv'
      BY <2>c DEF ResInv, InLoop, Fetching
    <2> QED BY <2>1, <2>2, <2>3 DEF IInv
  <1>7. ASSUME Request PROVE IInv'
    <2>a. /\ pc = "request" /\ pc' = "top" /\ conn.protocol = "h2"
          /\ running' = TRUE /\ redirect' = NoUrl /\ late' = FALSE
          /\ asked' = Append(asked, target)
          /\ answered' = IF peer = "up" THEN answered ELSE answered \cup {Len(asked) + 1}
          /\ UNCHANGED <<conn, sockets, broken, wire, peer>>
          /\ res' = [res EXCEPT !.cookies = carried]
          /\ UNCHANGED <<opt, target, hop, results, jar, carried>>
      BY <1>7 DEF Request, SendHeader
    <2>b. /\ target \in Url /\ conn.client /\ target # BadUrl /\ res.final = target
          /\ conn.host = target.host /\ conn.port = target.port
      BY <1>a, <2>a DEF ConnInv, SocketInv, TypeOK
    <2>c. /\ asked' \in Seq(Url) /\ Len(asked') = Len(asked) + 1
          /\ \A k \in 1 .. Len(asked) : asked'[k] = asked[k]
          /\ asked'[Len(asked) + 1] = target /\ Len(asked) \in Nat
          /\ DOMAIN asked = 1 .. Len(asked) /\ DOMAIN asked' = 1 .. Len(asked) + 1
      BY <1>a, <2>a, <2>b, AppendProperties DEF H2TypeOK
    <2>d. /\ res' \in Result /\ res'.final = res.final
          /\ res'.ok = res.ok /\ res'.error = res.error
      BY <1>a, <1>b, <2>a DEF TypeOK, Result
    <2>e. answered' \in SUBSET Nat
      BY <1>a, <2>a, <2>c DEF H2TypeOK
    <2>1. H2TypeOK'
      BY <1>a, <2>a, <2>c, <2>e DEF H2TypeOK
    <2>2. TypeOK'
      BY <1>a, <2>a, <2>d, <2>1 DEF TypeOK
    <2>3. WireInv' /\ OwnOrigin'
      BY <1>a, <2>a, <2>b, <2>c DEF WireInv, FrameOK, OwnOrigin, Stream
    <2>4. ConnInv'
      BY <1>a, <2>a, <2>b, <2>d DEF ConnInv, SocketInv
    <2>5. ResInv'
      BY <1>a, <2>a, <2>d DEF ResInv, InLoop, Fetching
    <2> QED BY <2>2, <2>3, <2>4, <2>5 DEF IInv
  <1> QED
    BY <1>2, <1>3, <1>4, <1>5, <1>6, <1>7

\* The steps of the event loop, and of what follows it.
LEMMA LoopStep ==
  ASSUME IInv,
         \/ TimesOut \/ LoopAgain \/ LoopStops
         \/ OnResponse \/ OnFrame \/ DoneReading \/ ReadBreaks
         \/ DoneSending \/ SendBreaks \/ Follow \/ Finished
  PROVE  IInv'
  <1>a. TypeOK /\ ConnInv /\ WireInv /\ OwnOrigin /\ ResInv /\ H2TypeOK
    BY DEF IInv, TypeOK
  <1>b. /\ opt \in Options /\ opt.maxRedirects \in Nat /\ res \in Result
        /\ Len(results) <= Len(opt.urls)
    BY <1>a, OptionsType DEF TypeOK
  <1>1. ASSUME TimesOut PROVE IInv'
    <2>a. /\ pc = "top" /\ running /\ Teardown /\ Fail("timeout") /\ UNCHANGED loopVars
      BY <1>1 DEF TimesOut
    <2>b. /\ results' \in Seq(Result) /\ Len(results') <= Len(opt'.urls)
          /\ results' # <<>>
          /\ \A k \in DOMAIN results' : results'[k].ok <=> results'[k].error = "none"
          /\ pc' = "next" /\ UNCHANGED <<opt, target, hop, res, jar, carried>>
      BY <1>a, <2>a, FailOK DEF Fetching, ResInv, InLoop
    <2>c. H2TypeOK' /\ WireInv' /\ OwnOrigin' /\ conn' = NoConn /\ sockets' = 0
      BY <1>a, <2>a, TeardownOK DEF ConnInv, SocketInv, WireInv, FrameOK, OwnOrigin, Stream
    <2>1. TypeOK'
      BY <1>a, <2>b, <2>c DEF TypeOK
    <2>2. ConnInv'
      BY <2>b, <2>c, NoConnFields DEF ConnInv, SocketInv
    <2>3. ResInv'
      BY <2>b DEF ResInv, InLoop, Fetching
    <2> QED BY <2>c, <2>1, <2>2, <2>3 DEF IInv
  <1>2. ASSUME LoopAgain \/ LoopStops \/ DoneReading \/ DoneSending PROVE IInv'
    <2>a. /\ pc \in {"top", "recv", "send"} /\ pc' \in {"top", "recv", "send", "after"}
          /\ UNCHANGED h2Vars /\ UNCHANGED dataVars
      BY <1>2 DEF LoopAgain, LoopStops, DoneReading, DoneSending
    <2>1. TypeOK'
      BY <1>a, <2>a, SameConnection DEF TypeOK, dataVars
    <2>2. ConnInv' /\ WireInv' /\ OwnOrigin'
      BY <1>a, <2>a, SameConnection DEF ConnInv, SocketInv, dataVars
    <2>3. ResInv'
      BY <1>a, <2>a, SameConnection DEF ResInv, InLoop, Fetching, dataVars
    <2> QED BY <2>1, <2>2, <2>3 DEF IInv
  <1>3. ASSUME ReadBreaks \/ SendBreaks PROVE IInv'
    <2>a. /\ pc \in {"recv", "send"} /\ pc' = "after" /\ broken' = TRUE
          /\ UNCHANGED <<conn, sockets, asked, wire, answered, peer, running, redirect, late>>
          /\ UNCHANGED dataVars
      BY <1>3 DEF ReadBreaks, SendBreaks, RecvFails, SendFails, sessionVars, loopVars
    <2>1. TypeOK'
      BY <1>a, <2>a DEF TypeOK, H2TypeOK, dataVars
    <2>2. ConnInv' /\ WireInv' /\ OwnOrigin'
      BY <1>a, <2>a DEF ConnInv, SocketInv, WireInv, FrameOK, OwnOrigin, Stream, dataVars
    <2>3. ResInv'
      BY <1>a, <2>a DEF ResInv, InLoop, Fetching, dataVars
    <2> QED BY <2>1, <2>2, <2>3 DEF IInv
  <1>w. ASSUME wire # <<>>, wire' = Tail(wire)
        PROVE  /\ wire' \in Seq(Frame) /\ Head(wire) \in Frame
               /\ \A k \in DOMAIN wire' : k + 1 \in DOMAIN wire /\ wire'[k] = wire[k + 1]
               /\ Head(wire) = wire[1] /\ 1 \in DOMAIN wire
    BY <1>a, <1>w, HeadTailProperties DEF H2TypeOK
  <1>4. ASSUME OnResponse PROVE IInv'
    <2>a. /\ pc = "recv" /\ pc' = pc /\ wire # <<>> /\ wire' = Tail(wire)
          /\ running' = FALSE
          /\ UNCHANGED <<conn, sockets, broken, asked, answered, peer, redirect, late>>
          /\ res' = [res EXCEPT !.ok = TRUE, !.body = IF Head(wire).sid = 0 THEN NoUrl
                                                      ELSE asked[Head(wire).sid]]
          /\ UNCHANGED <<opt, target, hop, results, jar, carried>>
      BY <1>4 DEF OnResponse, RecvAnswer, Incoming, Consume
    <2>b. /\ wire' \in Seq(Frame) /\ Head(wire) \in Frame /\ FrameOK(Head(wire))
          /\ \A k \in DOMAIN wire' : k + 1 \in DOMAIN wire /\ wire'[k] = wire[k + 1]
      BY <1>a, <1>w, <2>a DEF WireInv
    <2>c. Head(wire).kind \in {"answer", "push"}
      BY <1>4 DEF OnResponse, RecvAnswer, Incoming
    <2>d. Head(wire).sid # 0 => asked[Head(wire).sid] \in Url
      BY <1>a, <2>b, <2>c DEF FrameOK, Stream, H2TypeOK
    <2>e. res' \in Result /\ res'.final = res.final /\ res'.error = res.error
      BY <1>b, <2>a, <2>d DEF Result
    <2>1. H2TypeOK'
      BY <1>a, <2>a, <2>b DEF H2TypeOK
    <2>2. TypeOK'
      BY <1>a, <2>a, <2>e, <2>1 DEF TypeOK
    <2>3. WireInv' /\ OwnOrigin'
      BY <1>a, <2>a, <2>b DEF WireInv, FrameOK, OwnOrigin, Stream
    <2>4. ConnInv'
      BY <1>a, <2>a, <2>e DEF ConnInv, SocketInv
    <2>5. ResInv'
      BY <1>a, <2>a, <2>e DEF ResInv, InLoop, Fetching
    <2> QED BY <2>2, <2>3, <2>4, <2>5 DEF IInv
  <1>5. ASSUME OnFrame PROVE IInv'
    <2>a. pc = "recv" /\ UNCHANGED fetchVars /\ (RecvRedirect \/ RecvRst \/ RecvGoaway)
      BY <1>5 DEF OnFrame
    <2>b. conn.host \in Host
      BY <1>a, <2>a DEF ConnInv
    <2>c. /\ H2TypeOK' /\ WireInv' /\ UNCHANGED <<sockets, asked>>
          /\ conn'.sock = conn.sock /\ conn'.ssl = conn.ssl /\ conn'.client = conn.client
          /\ conn'.protocol = conn.protocol /\ conn'.host = conn.host /\ conn'.port = conn.port
          /\ (running' => running)
      BY <1>a, <2>a, <2>b, RecvOK
    <2>1. TypeOK'
      BY <1>a, <2>a, <2>c DEF TypeOK, fetchVars, dataVars
    <2>2. OwnOrigin'
      BY <1>a, <2>c DEF OwnOrigin, Stream
    <2>3. ConnInv'
      BY <1>a, <2>a, <2>c DEF ConnInv, SocketInv, fetchVars, dataVars
    <2>4. ResInv'
      BY <1>a, <2>a, <2>c DEF ResInv, InLoop, Fetching, fetchVars, dataVars
    <2> QED BY <2>c, <2>1, <2>2, <2>3, <2>4 DEF IInv
  <1>6. ASSUME Follow PROVE IInv'
    <2>a. /\ pc = "after" /\ pc' = "hop" /\ redirect # NoUrl /\ target' = redirect
          /\ hop' = hop + 1 /\ res' = [res EXCEPT !.ok = FALSE] /\ UNCHANGED h2Vars
          /\ UNCHANGED <<opt, results, jar, carried>>
      BY <1>6 DEF Follow
    <2>b. res' \in Result /\ ~res'.ok /\ res'.error = res.error
      BY <1>b, <2>a DEF Result
    <2>c. target' \in Url \cup {BadUrl}
      BY <1>a, <2>a DEF H2TypeOK
    <2>d. hop' \in 0 .. opt.maxRedirects
      BY <1>a, <1>b, <2>a DEF TypeOK, ResInv, Fetching
    <2>1. TypeOK'
      BY <1>a, <2>a, <2>b, <2>c, <2>d, SameConnection DEF TypeOK
    <2>2. ConnInv' /\ WireInv' /\ OwnOrigin'
      BY <1>a, <2>a, SameConnection DEF ConnInv, SocketInv
    <2>3. ResInv'
      BY <1>a, <2>a, <2>b DEF ResInv, InLoop, Fetching
    <2> QED BY <2>1, <2>2, <2>3 DEF IInv
  <1>7. ASSUME Finished PROVE IInv'
    <2>a. pc = "after" /\ Complete(res) /\ UNCHANGED h2Vars
      BY <1>7 DEF Finished
    <2>b. res.ok => res.error = "none"
      BY <1>a, <2>a DEF ResInv, Fetching
    <2>c. /\ results' \in Seq(Result) /\ Len(results') <= Len(opt'.urls)
          /\ results' # <<>>
          /\ \A k \in DOMAIN results' : results'[k].ok <=> results'[k].error = "none"
          /\ jar' \subseteq Url \cup {NoUrl}
          /\ pc' = "next" /\ UNCHANGED <<opt, target, hop, res, carried>>
      BY <1>b, <2>a, <2>b, CompleteOK DEF Fetching
    <2>1. TypeOK'
      BY <1>a, <2>a, <2>c, SameConnection DEF TypeOK
    <2>2. ConnInv' /\ WireInv' /\ OwnOrigin'
      BY <1>a, <2>a, <2>c, SameConnection DEF ConnInv, SocketInv
    <2>3. ResInv'
      BY <2>c DEF ResInv, InLoop, Fetching
    <2> QED BY <2>1, <2>2, <2>3 DEF IInv
  <1> QED
    BY <1>1, <1>2, <1>3, <1>4, <1>5, <1>6, <1>7

\* Time and the server.
LEMMA EnvironmentStep ==
  ASSUME IInv, Deadline \/ Server
  PROVE  IInv'
  <1>a. TypeOK /\ ConnInv /\ WireInv /\ OwnOrigin /\ ResInv /\ H2TypeOK
    BY DEF IInv, TypeOK
  <1>1. ASSUME Deadline PROVE IInv'
    <2>a. /\ late' = TRUE /\ UNCHANGED fetchVars
          /\ UNCHANGED <<conn, sockets, broken, asked, wire, answered, peer, running, redirect>>
      BY <1>1 DEF Deadline, DeadlinePasses, sessionVars
    <2>1. TypeOK'
      BY <1>a, <2>a DEF TypeOK, H2TypeOK, fetchVars, dataVars
    <2>2. ConnInv' /\ WireInv' /\ OwnOrigin' /\ ResInv'
      BY <1>a, <2>a DEF ConnInv, SocketInv, WireInv, FrameOK, OwnOrigin, ResInv, Stream, InLoop,
                        fetchVars, dataVars
    <2> QED BY <2>1, <2>2 DEF IInv
  <1>2. ASSUME Server PROVE IInv'
    <2>a. /\ H2TypeOK' /\ WireInv' /\ UNCHANGED fetchVars
          /\ UNCHANGED <<conn, sockets, broken, asked, running, redirect, late>>
      BY <1>a, <1>2, ServerOK
    <2>1. TypeOK'
      BY <1>a, <2>a DEF TypeOK, fetchVars, dataVars
    <2>2. ConnInv' /\ OwnOrigin' /\ ResInv'
      BY <1>a, <2>a DEF ConnInv, SocketInv, OwnOrigin, ResInv, Stream, InLoop, fetchVars, dataVars
    <2> QED BY <2>a, <2>1, <2>2 DEF IInv
  <1> QED BY <1>1, <1>2

LEMMA InvNext == IInv /\ [Next]_vars => IInv'
  <1> SUFFICES ASSUME IInv, [Next]_vars PROVE IInv'
    OBVIOUS
  <1>1. CASE Client
    BY <1>1, HopStep, ConnectStep, LoopStep DEF Client
  <1>2. CASE Deadline \/ Server
    BY <1>2, EnvironmentStep
  <1>3. CASE UNCHANGED vars
    <2>1. UNCHANGED h2Vars /\ UNCHANGED fetchVars
      BY <1>3 DEF vars
    <2>2. TypeOK'
      BY <2>1, SameConnection DEF IInv, TypeOK, fetchVars, dataVars
    <2>3. ConnInv' /\ WireInv' /\ OwnOrigin' /\ ResInv'
      BY <2>1, SameConnection DEF IInv, ConnInv, SocketInv, ResInv, InLoop, fetchVars, dataVars
    <2> QED BY <2>2, <2>3 DEF IInv
  <1> QED
    BY <1>1, <1>2, <1>3 DEF Next
----
(* Theorems *)

\* Every reachable state satisfies the invariant.
THEOREM Invariant == Spec => []IInv
  BY InvInit, InvNext, PTL DEF Spec

\* The variables of the fetch and of its connection stay in their types, with
\* any number of redirects, extras and server events.
THEOREM TypeCorrect == Spec => []TypeOK
  <1>1. IInv => TypeOK
    BY DEF IInv
  <1> QED BY <1>1, Invariant, PTL

\* No request ever travels on a connection made for another host or port.
THEOREM RequestsStayHome == Spec => []OwnOrigin
  <1>1. IInv => OwnOrigin
    BY DEF IInv
  <1> QED BY <1>1, Invariant, PTL

\* One socket at most is open, and none once fetch_multi has returned.
THEOREM SocketsAreClosed == Spec => []OneSocket
  <1>1. IInv => OneSocket
    BY DEF IInv, ConnInv, SocketInv, OneSocket, Returned
  <1> QED BY <1>1, Invariant, PTL

\* Every result is a success without an error or a failure with one.
THEOREM ResultsAreHonest == Spec => []ErrorIffFailed
  <1>1. IInv => ErrorIffFailed
    BY DEF IInv, ResInv, ErrorIffFailed, Results
  <1> QED BY <1>1, Invariant, PTL

\* No request follows a GOAWAY that the client has seen: only a hop that
\* passed Reusable, or a new connection, leads to send_header.
THEOREM GoawayIsRespected == Spec => NoRequestAfterGoaway
  <1>1. IInv /\ [Next]_vars => [Len(asked') > Len(asked) => ~conn.goaway]_vars
    <2> SUFFICES ASSUME IInv, Next, Len(asked') > Len(asked) PROVE ~conn.goaway
      OBVIOUS
    <2>1. CASE Request
      BY <2>1 DEF IInv, ConnInv, SocketInv, Request
    <2>2. CASE ~Request
      <3>0. Len(asked) \in Nat
        BY DEF IInv, TypeOK, H2TypeOK
      <3>1. asked' = asked \/ asked' = <<>>
        <4>1. CASE Server
          BY <4>1, ServerOK DEF IInv, TypeOK
        <4>2. CASE Deadline
          BY <4>2 DEF Deadline, DeadlinePasses, sessionVars
        <4>3. CASE Client
          BY <2>2, <4>3
             DEF Client, ProfileFails, ProfileLoads, NextUrl, NoMoreUrls, Finish, HopLimit,
                 ParseFails, Reuse, Reconnect, ConnectFails, Connect, ProxyFails,
                 ProxyTunnels, TlsFails, TlsConnects, Unsupported, SubmitFails, TimesOut,
                 LoopAgain, LoopStops, OnResponse, OnFrame, DoneReading, ReadBreaks,
                 DoneSending, SendBreaks, Follow, Finished, Teardown, SetSocket, SetSession,
                 RecvAnswer, RecvRedirect, RecvRst, RecvGoaway, RecvFails, SendFails,
                 Consume, h2Vars, sessionVars
        <4> QED BY <4>1, <4>2, <4>3 DEF Next
      <3> QED BY <3>0, <3>1
    <2> QED BY <2>1, <2>2
  <1> QED BY <1>1, Invariant, PTL DEF Spec, NoRequestAfterGoaway
----
(* The cookies of the batch *)

OkBodies == {results[k].body : k \in {j \in DOMAIN results : results[j].ok}}

\* The jar holds the cookie of every successful result; a fetch carries the
\* jar it started with, and no cookie comes in before it is over.
CookieInv == /\ jar = OkBodies
             /\ pc \in Fetching \cup {"profile"} => carried = jar
             /\ pc \in {"top", "recv", "send", "after"} => res.cookies = carried

\* Recording an error, an address or the cookies leaves the rest of a result.
LEMMA WithError ==
  ASSUME NEW r \in Result,
         NEW e \in {"profile", "connect", "proxy", "tls", "protocol", "submit", "timeout",
                    "no response"}
  PROVE  [r EXCEPT !.error = e] \in Result /\ [r EXCEPT !.error = e].ok = r.ok
  BY DEF Result

LEMMA WithParseError ==
  ASSUME NEW r \in Result, NEW u \in Url \cup {BadUrl}
  PROVE  /\ [r EXCEPT !.error = "parse", !.final = u] \in Result
         /\ [r EXCEPT !.error = "parse", !.final = u].ok = r.ok
  BY DEF Result

LEMMA WithCookies ==
  ASSUME NEW r \in Result, NEW c
  PROVE  [r EXCEPT !.cookies = c].cookies = c
  BY DEF Result

LEMMA EmptyAppend == \A r : Append(<<>>, r) = <<r>>
  OBVIOUS

\* A result that is added brings its cookie if it is a success.
LEMMA CookieAdded ==
  ASSUME results \in Seq(Result), NEW r \in Result, results' = Append(results, r)
  PROVE  OkBodies' = IF r.ok THEN OkBodies \cup {r.body} ELSE OkBodies
  <1>1. /\ Len(results) \in Nat /\ DOMAIN results = 1 .. Len(results)
        /\ DOMAIN results' = 1 .. Len(results) + 1
        /\ \A k \in 1 .. Len(results) : results'[k] = results[k]
        /\ results'[Len(results) + 1] = r
    BY AppendProperties
  <1>2. DOMAIN results' = DOMAIN results \cup {Len(results) + 1}
    BY <1>1
  <1> QED
    BY <1>1, <1>2 DEF OkBodies

LEMMA CookieInit == Init => CookieInv
  BY DEF Init, CookieInv, OkBodies, FreshResult

LEMMA CookieNext == IInv /\ CookieInv /\ [Next]_vars => CookieInv'
  <1> SUFFICES ASSUME IInv, CookieInv, [Next]_vars PROVE CookieInv'
    OBVIOUS
  <1>a. /\ TypeOK /\ ResInv /\ results \in Seq(Result) /\ res \in Result
    BY DEF IInv, TypeOK
  <1>1. ASSUME NEW r \in Result, results' = Append(results, r), pc' \in {"next", "close"},
               jar' = IF r.ok THEN jar \cup {r.body} ELSE jar
        PROVE  CookieInv'
    BY <1>a, <1>1, CookieAdded DEF CookieInv, Fetching
  <1>2. ASSUME NEW error \in {"connect", "proxy", "tls", "submit", "timeout"}, Fail(error),
               ~res.ok
        PROVE  CookieInv'
    <2> DEFINE r == [res EXCEPT !.error = error]
    <2>1. r \in Result /\ ~r.ok
      BY <1>a, <1>2, WithError, ZenonT(60)
    <2>2. results' = Append(results, r) /\ pc' = "next" /\ jar' = jar
      BY <1>2 DEF Fail
    <2> HIDE DEF r
    <2> QED BY <1>1, <2>1, <2>2
  <1>3. ASSUME NEW r \in Result, Complete(r) PROVE CookieInv'
    <2> DEFINE q == IF ~r.ok /\ r.error = "none" THEN [r EXCEPT !.error = "no response"] ELSE r
    <2>1. q \in Result /\ q.ok = r.ok
      BY WithError
    <2>2. q.ok => q = r
      BY <2>1
    <2>3. results' = Append(results, q) /\ pc' = "next"
          /\ jar' = IF r.ok THEN jar \cup {r.body} ELSE jar
      BY <1>3 DEF Complete
    <2> HIDE DEF q
    <2> QED BY <1>1, <2>1, <2>2, <2>3
  <1>4. ASSUME ConnectFails \/ ProxyFails \/ TlsFails \/ SubmitFails \/ TimesOut PROVE CookieInv'
    <2>1. ~res.ok
      BY <1>a, <1>4
         DEF ConnectFails, ProxyFails, TlsFails, SubmitFails, TimesOut, ResInv, InLoop
    <2> QED BY <1>2, <1>4, <2>1 DEF ConnectFails, ProxyFails, TlsFails, SubmitFails, TimesOut
  <1>5. ASSUME HopLimit \/ Unsupported \/ Finished PROVE CookieInv'
    <2>1. [res EXCEPT !.error = "protocol"] \in Result
      BY <1>a, WithError
    <2> QED BY <1>a, <1>3, <1>5, <2>1 DEF HopLimit, Unsupported, Finished
  <1>6. ASSUME ParseFails PROVE CookieInv'
    <2> DEFINE r == [res EXCEPT !.error = "parse", !.final = target]
    <2>1. r \in Result /\ r.ok = res.ok
      BY <1>a, WithParseError DEF TypeOK
    <2>2. ~res.ok
      BY <1>a, <1>6 DEF ParseFails, StartHop, ResInv, InLoop
    <2>3. results' = Append(results, r) /\ pc' = "next" /\ jar' = jar
      BY <1>6 DEF ParseFails
    <2> HIDE DEF r
    <2> QED BY <1>1, <2>1, <2>2, <2>3
  <1>7. ASSUME ProfileFails PROVE CookieInv'
    <2> DEFINE r == [res EXCEPT !.error = "profile"]
    <2>1. r \in Result /\ r.ok = res.ok
      BY <1>a, WithError
    <2>2. ~res.ok /\ results = <<>>
      BY <1>a, <1>7 DEF ProfileFails, ResInv, InLoop
    <2>3. results' = <<r>> /\ pc' = "close" /\ jar' = jar
      BY <1>7 DEF ProfileFails
    <2>4. results' = Append(results, r)
      BY <2>2, <2>3, EmptyAppend
    <2> HIDE DEF r
    <2> QED BY <1>1, <2>1, <2>2, <2>3, <2>4
  <1>8. ASSUME NextUrl \/ NoMoreUrls \/ Finish PROVE CookieInv'
    BY <1>8 DEF NextUrl, NoMoreUrls, Finish, CookieInv, OkBodies, Fetching, dataVars
  <1>9. ASSUME Request PROVE CookieInv'
    BY <1>a, <1>9, WithCookies DEF Request, CookieInv, OkBodies, Fetching
  <1>10. ASSUME \/ ProfileLoads \/ Reuse \/ Reconnect \/ Connect \/ ProxyTunnels
                \/ TlsConnects \/ LoopAgain \/ LoopStops \/ OnResponse \/ OnFrame
                \/ DoneReading \/ ReadBreaks \/ DoneSending \/ SendBreaks \/ Follow
         PROVE  CookieInv'
    <2>1. /\ UNCHANGED <<results, jar, carried>> /\ pc \in Fetching \cup {"profile"}
          /\ pc' \in {"top", "recv", "send", "after"} =>
               pc \in {"top", "recv", "send", "after"} /\ res'.cookies = res.cookies
      BY <1>a, <1>10
         DEF ProfileLoads, Reuse, Reconnect, StartHop, Connect, ProxyTunnels, TlsConnects,
             LoopAgain, LoopStops, OnResponse, OnFrame, DoneReading, ReadBreaks, DoneSending,
             SendBreaks, Follow, Fetching, fetchVars, dataVars, Result
    <2> QED BY <2>1 DEF CookieInv, OkBodies
  <1>11. ASSUME Deadline \/ Server \/ UNCHANGED vars PROVE CookieInv'
    <2>1. UNCHANGED <<pc, res, results, jar, carried>>
      BY <1>11 DEF Deadline, Server, Reply, vars, fetchVars, dataVars
    <2> QED BY <2>1 DEF CookieInv, OkBodies
  <1> QED
    BY <1>4, <1>5, <1>6, <1>7, <1>8, <1>9, <1>10, <1>11 DEF Next, Client

\* Every request of the batch carries the cookies of all the successful results
\* before it, whatever happened to the connections in between.
THEOREM CookiesKept == Spec => []CookiesSurvive
  <1>1. CookieInv => CookiesSurvive
    BY DEF CookieInv, OkBodies, CookiesSurvive, Fetching
  <1> QED BY <1>1, Invariant, CookieInit, CookieNext, PTL DEF Spec
----
(* A successful result is the answer to its own request *)

\* No server push, and no write error while an answer is still to be read.
Quiet == "push" \notin Faults /\ "epipe" \notin Faults

LEMMA AnswerAdded ==
  ASSUME results \in Seq(Result), ResultIsAnswer, NEW r \in Result,
         r.ok => r.body = r.final, results' = Append(results, r)
  PROVE  ResultIsAnswer'
  <1>1. \A k \in DOMAIN results' :
          results'[k] = r \/ (k \in DOMAIN results /\ results'[k] = results[k])
    BY AppendProperties
  <1> QED
    BY <1>1 DEF ResultIsAnswer, Results

\* Only the frames, the streams and the state of the server matter to the order.
LEMMA SameWire ==
  ASSUME WireOrder, UNCHANGED <<asked, wire, answered, peer>>
  PROVE  /\ WireOrder'
         /\ (\A s \in Stream : ~Pending(s)) => (\A s \in Stream : ~Pending(s))'
  BY DEF WireOrder, Pending, Ending, Stream

LEMMA NoWire ==
  ASSUME asked' = <<>>, wire' = <<>>
  PROVE  WireOrder' /\ (\A s \in Stream : ~Pending(s))'
  BY DEF WireOrder, Stream

\* The next hop or fetch begins, or fetch_one returns, on a quiet connection.
LEMMA StaleHop ==
  ASSUME IInv, StaleInv,
         \/ ProfileFails \/ ProfileLoads \/ NextUrl \/ NoMoreUrls \/ Finish
         \/ HopLimit \/ ParseFails \/ Reuse \/ Reconnect
         \/ ConnectFails \/ Connect \/ ProxyFails \/ ProxyTunnels
         \/ TlsFails \/ TlsConnects \/ Unsupported \/ SubmitFails
         \/ TimesOut \/ Finished \/ Follow
  PROVE  StaleInv'
  <1>a. /\ WireOrder /\ NothingPending /\ BodyInv /\ ResultIsAnswer
        /\ res \in Result /\ results \in Seq(Result) /\ TypeOK /\ ConnInv /\ ResInv
    BY DEF IInv, StaleInv, TypeOK, BodyInv
  <1>1. WireOrder' /\ NothingPending'
    <2>1. CASE Teardown
      BY <2>1, NoWire DEF Teardown, NothingPending
    <2>2. CASE UNCHANGED h2Vars /\ ~InLoop
      <3>1. UNCHANGED <<conn, asked, wire, answered, peer>>
        BY <2>2 DEF h2Vars, sessionVars
      <3> QED BY <1>a, <2>2, <3>1, SameWire DEF NothingPending
    <2>3. CASE Connect \/ TlsConnects
      <3>1. asked = <<>> /\ UNCHANGED <<asked, wire, answered, peer>>
        BY <1>a, <2>3 DEF Connect, TlsConnects, SetSocket, SetSession, ConnInv, SocketInv,
                       sessionVars
      <3>2. \A s \in Stream : ~Pending(s)
        BY <3>1 DEF Stream
      <3> QED BY <1>a, <3>1, <3>2, SameWire DEF NothingPending
    <2>4. Teardown \/ (UNCHANGED h2Vars /\ ~InLoop) \/ Connect \/ TlsConnects
      BY DEF ProfileFails, ProfileLoads, NextUrl, NoMoreUrls, Finish, HopLimit, ParseFails,
             Reuse, Reconnect, ConnectFails, ProxyFails, ProxyTunnels, TlsFails,
             Unsupported, SubmitFails, TimesOut, Finished, Follow, StartHop, InLoop
    <2> QED BY <2>1, <2>2, <2>3, <2>4
  <1>2. pc' \in {"hop", "connect", "proxy", "tls", "request", "next", "close", "done"}
    BY DEF ProfileFails, ProfileLoads, NextUrl, NoMoreUrls, Finish, HopLimit, ParseFails,
           Reuse, Reconnect, ConnectFails, Connect, ProxyFails, ProxyTunnels, TlsFails,
           TlsConnects, Unsupported, SubmitFails, TimesOut, Finished, Follow, Fail, Complete
  <1>3. ASSUME NEW error \in {"connect", "proxy", "tls", "submit", "timeout"}, Fail(error), ~res.ok
        PROVE  ResultIsAnswer'
    <2> DEFINE r == [res EXCEPT !.error = error]
    <2>1. r \in Result /\ ~r.ok
      BY <1>a, <1>3 DEF Result
    <2>2. results' = Append(results, r)
      BY <1>3 DEF Fail
    <2> HIDE DEF r
    <2> QED BY <1>a, <2>1, <2>2, AnswerAdded
  <1>4. ASSUME NEW r \in Result, Complete(r), r.ok => r.body = r.final
        PROVE  ResultIsAnswer'
    <2> DEFINE q == IF ~r.ok /\ r.error = "none" THEN [r EXCEPT !.error = "no response"] ELSE r
    <2>1. q \in Result /\ (q.ok => q.body = q.final)
      BY <1>4 DEF Result
    <2>2. results' = Append(results, q)
      BY <1>4 DEF Complete
    <2> HIDE DEF q
    <2> QED BY <1>a, <2>1, <2>2, AnswerAdded
  <1>5. ResultIsAnswer'
    <2>1. CASE ConnectFails \/ ProxyFails \/ TlsFails \/ SubmitFails
      BY <1>a, <1>3, <2>1 DEF ConnectFails, ProxyFails, TlsFails, SubmitFails, ResInv
    <2>2. CASE TimesOut
      BY <1>a, <1>3, <2>2 DEF TimesOut, ResInv, InLoop
    <2>3. CASE HopLimit
      BY <1>a, <1>4, <2>3 DEF HopLimit, ResInv
    <2>4. CASE Finished
      BY <1>a, <1>4, <2>4 DEF Finished, BodyInv
    <2>5. CASE Unsupported
      <3> DEFINE r == [res EXCEPT !.error = "protocol"]
      <3>1. r \in Result /\ ~r.ok /\ Complete(r)
        BY <1>a, <2>5 DEF Unsupported, Result, ResInv
      <3> HIDE DEF r
      <3> QED BY <1>4, <3>1
    <2>6. CASE ParseFails
      <3> DEFINE r == [res EXCEPT !.error = "parse", !.final = target]
      <3>1. r \in Result /\ ~r.ok
        BY <1>a, <2>6 DEF ParseFails, StartHop, TypeOK, Result, ResInv
      <3>2. results' = Append(results, r)
        BY <2>6 DEF ParseFails
      <3> HIDE DEF r
      <3> QED BY <1>a, <3>1, <3>2, AnswerAdded
    <2>7. CASE ProfileFails
      <3> DEFINE r == [res EXCEPT !.error = "profile"]
      <3>1. r \in Result /\ ~r.ok /\ results = <<>>
        BY <1>a, <2>7 DEF ProfileFails, Result, ResInv
      <3>2. results' = Append(results, r)
        BY <2>7, <3>1 DEF ProfileFails
      <3> HIDE DEF r
      <3> QED BY <1>a, <3>1, <3>2, AnswerAdded
    <2>8. CASE UNCHANGED results
      BY <1>a, <2>8 DEF ResultIsAnswer, Results
    <2> QED
      BY <2>1, <2>2, <2>3, <2>4, <2>5, <2>6, <2>7, <2>8
         DEF ProfileLoads, NextUrl, NoMoreUrls, Finish, Reuse, Reconnect, Connect,
             ProxyTunnels, TlsConnects, Follow, dataVars
  <1> QED
    BY <1>1, <1>2, <1>5 DEF StaleInv, BodyInv

\* A request opens a stream on a quiet connection; its loop reads one response.
LEMMA StaleLoop ==
  ASSUME Quiet, IInv, StaleInv,
         \/ Request \/ LoopAgain \/ LoopStops \/ OnResponse \/ OnFrame \/ DoneReading
         \/ ReadBreaks \/ DoneSending \/ SendBreaks
  PROVE  StaleInv'
  <1>a. /\ WireOrder /\ NothingPending /\ BodyInv /\ ResultIsAnswer
        /\ res \in Result /\ results \in Seq(Result) /\ TypeOK /\ ConnInv /\ ResInv
        /\ asked \in Seq(Url) /\ wire \in Seq(Frame) /\ Len(asked) \in Nat
        /\ DOMAIN asked = 1 .. Len(asked)
    BY DEF IInv, StaleInv, TypeOK, H2TypeOK, BodyInv
  <1>b. ASSUME UNCHANGED <<results>>
        PROVE  ResultIsAnswer'
    BY <1>a, <1>b DEF ResultIsAnswer, Results
  <1>1. ASSUME Request PROVE StaleInv'
    <2>a. /\ pc = "request" /\ pc' = "top" /\ running' = TRUE
          /\ asked' = Append(asked, target)
          /\ answered' = IF peer = "up" THEN answered ELSE answered \cup {Len(asked) + 1}
          /\ UNCHANGED <<conn, wire, peer, target, results>>
          /\ res' = [res EXCEPT !.cookies = carried]
      BY <1>1 DEF Request, SendHeader
    <2>b. ~conn.goaway /\ target \in Url /\ ~res.ok
      BY <1>a, <2>a DEF ConnInv, SocketInv, TypeOK, ResInv
    <2>c. \A s \in Stream : ~Pending(s)
      BY <1>a, <2>a, <2>b DEF NothingPending, InLoop
    <2>d. /\ DOMAIN asked' = 1 .. Len(asked) + 1 /\ Len(asked') = Len(asked) + 1
          /\ asked'[Len(asked) + 1] = target
      BY <1>a, <2>a, <2>b, AppendProperties
    <2>e. /\ answered \subseteq answered' /\ Stream \subseteq Stream'
          /\ \A s \in Stream : s \in answered' => s \in answered
      BY <1>a, <2>a, <2>d DEF Stream
    <2>f. \A s \in Stream' : Pending(s)' => s = Len(asked')
      <3> SUFFICES ASSUME NEW s \in Stream', Pending(s)', s # Len(asked')
                   PROVE  FALSE
        OBVIOUS
      <3>1. s \in Stream
        BY <1>a, <2>d DEF Stream
      <3> QED BY <2>a, <2>c, <2>e, <3>1 DEF Pending, Ending
    <2>1. WireOrder'
      BY <1>a, <2>a, <2>e, <2>f DEF WireOrder, Ending
    <2>2. NothingPending'
      BY <2>a DEF NothingPending, InLoop
    <2>3. asked' # <<>> /\ asked'[Len(asked')] = target'
      BY <1>a, <2>a, <2>d
    <2>4. ~res'.ok
      BY <1>a, <2>a, <2>b DEF Result
    <2> QED BY <1>b, <2>a, <2>1, <2>2, <2>3, <2>4 DEF StaleInv, BodyInv
  <1>2. ASSUME LoopAgain \/ LoopStops \/ DoneReading \/ DoneSending PROVE StaleInv'
    <2>a. /\ InLoop /\ pc' \in {"top", "recv", "send", "after"} /\ (pc' = "after" => ~running)
          /\ UNCHANGED h2Vars /\ UNCHANGED dataVars
      BY <1>2 DEF LoopAgain, LoopStops, DoneReading, DoneSending, InLoop
    <2>b. UNCHANGED <<conn, asked, wire, answered, peer, running, target, res, results>>
      BY <2>a DEF h2Vars, sessionVars, loopVars, dataVars
    <2>1. WireOrder' /\ NothingPending'
      BY <1>a, <2>a, <2>b, SameWire DEF NothingPending, InLoop
    <2>2. BodyInv'
      BY <1>a, <1>b, <2>a, <2>b DEF BodyInv, InLoop
    <2> QED BY <2>1, <2>2 DEF StaleInv
  <1>3. ASSUME ReadBreaks \/ SendBreaks PROVE StaleInv'
    <2>a. /\ pc = "recv" /\ pc' = "after" /\ Incoming("reset")
          /\ UNCHANGED <<conn, asked, wire, answered, peer, running, target, res, results>>
      BY <1>3 DEF ReadBreaks, SendBreaks, RecvFails, SendFails, Quiet, sessionVars, loopVars,
                  dataVars
    <2>b. \A s \in Stream : ~Pending(s)
      <3>1. wire # <<>> /\ wire[1].kind = "reset" /\ 1 \in DOMAIN wire
        BY <1>a, <2>a, HeadTailProperties DEF Incoming
      <3>2. Len(wire) = 1 /\ peer = "gone"
        BY <1>a, <3>1 DEF WireOrder
      <3>3. \A k \in DOMAIN wire : k = 1
        BY <1>a, <3>2
      <3> QED BY <3>1, <3>2, <3>3 DEF Pending, Ending
    <2>1. WireOrder' /\ NothingPending'
      BY <1>a, <2>a, <2>b, SameWire DEF NothingPending
    <2>2. BodyInv'
      BY <1>a, <1>b, <2>a DEF BodyInv
    <2> QED BY <2>1, <2>2 DEF StaleInv
  <1>c. ASSUME wire # <<>>, wire' = Tail(wire), UNCHANGED <<asked, answered, peer>>
        PROVE  /\ WireOrder'
               /\ \A s \in Stream : Pending(s)' => Pending(s)
               /\ Ending(1) => \A s \in Stream : ~Pending(s)'
               /\ Head(wire) = wire[1] /\ 1 \in DOMAIN wire
               /\ Ending(1) => wire[1].sid = Len(asked)
    <2>1. /\ \A k \in DOMAIN wire' :
               k + 1 \in DOMAIN wire /\ wire'[k] = wire[k + 1] /\ k \in Nat \ {0}
          /\ Head(wire) = wire[1] /\ 1 \in DOMAIN wire
          /\ Len(wire') = Len(wire) - 1 /\ Len(wire) \in Nat
      BY <1>a, <1>c, HeadTailProperties
    <2>2. \A k \in DOMAIN wire' : Ending(k)' => Ending(k + 1)
      BY <1>c, <2>1 DEF Ending
    <2>3. \A s \in Stream : Pending(s)' => Pending(s)
      BY <1>c, <2>1, <2>2 DEF Pending
    <2>4. WireOrder'
      <3>1. \A k \in DOMAIN wire' :
              /\ Ending(k)' => wire'[k].sid \in Stream' /\ wire'[k].sid \in answered'
              /\ wire'[k].kind \in {"eof", "reset"} => k = Len(wire') /\ peer' = "gone"
              /\ wire'[k].kind # "push"
        BY <1>a, <1>c, <2>1, <2>2 DEF WireOrder, Stream
      <3>2. \A j, k \in DOMAIN wire' : Ending(j)' /\ Ending(k)' => j = k
        BY <1>a, <2>1, <2>2 DEF WireOrder
      <3>3. \A s \in Stream' : Pending(s)' => s = Len(asked')
        BY <1>a, <1>c, <2>3 DEF WireOrder, Stream
      <3> QED BY <3>1, <3>2, <3>3 DEF WireOrder
    <2>5. ASSUME Ending(1) PROVE wire[1].sid = Len(asked) /\ wire[1].sid \in answered
      BY <1>a, <2>1, <2>5 DEF WireOrder, Pending
    <2>6. ASSUME Ending(1), NEW s \in Stream, Pending(s)' PROVE FALSE
      <3>1. s = Len(asked) /\ s = wire[1].sid /\ s \in answered
        BY <1>a, <2>3, <2>5, <2>6 DEF WireOrder
      <3>2. \A k \in DOMAIN wire' : ~Ending(k)'
        BY <1>a, <2>1, <2>2, <2>6 DEF WireOrder
      <3> QED BY <1>c, <2>6, <3>1, <3>2 DEF Pending
    <2> QED BY <2>1, <2>3, <2>4, <2>5, <2>6
  <1>4. ASSUME OnResponse PROVE StaleInv'
    <2>a. /\ pc = "recv" /\ pc' = pc /\ wire # <<>> /\ wire' = Tail(wire)
          /\ UNCHANGED <<conn, asked, answered, peer, target, results>>
          /\ res' = [res EXCEPT !.ok = TRUE, !.body = IF Head(wire).sid = 0 THEN NoUrl
                                                      ELSE asked[Head(wire).sid]]
      BY <1>4 DEF OnResponse, RecvAnswer, Incoming, Consume
    <2>b. Ending(1) /\ WireOrder' /\ Head(wire) = wire[1]
      BY <1>a, <1>c, <1>4, <2>a DEF OnResponse, RecvAnswer, Incoming, Ending, WireOrder
    <2>c. \A s \in Stream' : ~Pending(s)'
      BY <1>c, <2>a, <2>b DEF Stream
    <2>d. /\ asked # <<>> /\ asked[Len(asked)] = target /\ Head(wire).sid = Len(asked)
          /\ target = res.final
      BY <1>a, <1>c, <2>a, <2>b DEF BodyInv, ConnInv, SocketInv
    <2>e. res'.body = target /\ res'.final = target
      <3>1. Len(asked) # 0
        BY <1>a, <2>d
      <3>2. res' = [res EXCEPT !.ok = TRUE, !.body = target]
        BY <2>a, <2>d, <3>1
      <3> QED BY <1>a, <2>d, <3>2 DEF Result
    <2> QED BY <1>b, <2>a, <2>b, <2>c, <2>d, <2>e DEF StaleInv, NothingPending, BodyInv
  <1>5. ASSUME OnFrame PROVE StaleInv'
    <2>a. /\ pc = "recv" /\ pc' = pc /\ wire # <<>> /\ wire' = Tail(wire)
          /\ UNCHANGED <<asked, answered, peer, target, results, res>>
      BY <1>5 DEF OnFrame, RecvRedirect, RecvRst, RecvGoaway, Incoming, Consume, fetchVars, dataVars
    <2>b. /\ WireOrder'
          /\ \A s \in Stream' : Pending(s)' => Pending(s)
          /\ Ending(1) => \A s \in Stream' : ~Pending(s)'
          /\ Head(wire) = wire[1]
      BY <1>c, <2>a DEF Stream
    <2>c. NothingPending'
      <3>1. CASE RecvRedirect
        BY <2>b, <3>1 DEF RecvRedirect, Incoming, Ending, NothingPending
      <3>2. CASE RecvRst
        BY <1>a, <2>a, <2>b, <3>2 DEF RecvRst, Consume, NothingPending, InLoop, Stream
      <3>3. CASE RecvGoaway
        <4>1. conn'.goaway
          BY <1>a, <3>3 DEF RecvGoaway, TypeOK, H2TypeOK, ConnType, Negotiated
        <4> QED BY <4>1 DEF NothingPending
      <3> QED BY <1>5, <3>1, <3>2, <3>3 DEF OnFrame
    <2>d. BodyInv'
      BY <1>a, <1>b, <2>a DEF BodyInv
    <2> QED BY <2>b, <2>c, <2>d DEF StaleInv
  <1> QED BY <1>1, <1>2, <1>3, <1>4, <1>5

\* What the server sends is in order, and for the streams it may still answer.
LEMMA StaleServer ==
  ASSUME Quiet, IInv, StaleInv, Deadline \/ Server
  PROVE  StaleInv'
  <1>a. /\ WireOrder /\ NothingPending /\ BodyInv /\ ResultIsAnswer /\ H2TypeOK /\ WireInv
        /\ wire \in Seq(Frame) /\ Len(wire) \in Nat /\ asked \in Seq(Url)
        /\ DOMAIN asked = 1 .. Len(asked)
    BY DEF IInv, StaleInv, TypeOK, H2TypeOK, BodyInv
  <1>b. /\ UNCHANGED <<conn, asked, running>> /\ UNCHANGED fetchVars
    BY <1>a, ServerOK DEF Deadline, DeadlinePasses, sessionVars
  <1>c. BodyInv'
    BY <1>a, <1>b DEF BodyInv, ResultIsAnswer, Results, fetchVars, dataVars
  <1>1. ASSUME Deadline PROVE StaleInv'
    <2>1. UNCHANGED <<asked, wire, answered, peer>>
      BY <1>1 DEF Deadline, DeadlinePasses, sessionVars
    <2>2. WireOrder' /\ NothingPending'
      BY <1>a, <1>b, <2>1, SameWire DEF NothingPending, InLoop, fetchVars
    <2> QED BY <1>c, <2>2 DEF StaleInv
  <1>d. ASSUME NEW kind \in {"answer", "redirect", "rst", "goaway", "eof", "reset"},
               NEW sid, NEW data, Send(kind, sid, data)
        PROVE  /\ peer # "gone"
               /\ DOMAIN wire' = 1 .. Len(wire) + 1 /\ Len(wire') = Len(wire) + 1
               /\ DOMAIN wire = 1 .. Len(wire)
               /\ \A k \in DOMAIN wire : wire'[k] = wire[k] /\ wire[k].kind \notin {"eof", "reset"}
               /\ wire'[Len(wire) + 1].kind = kind /\ wire'[Len(wire) + 1].sid = sid
    <2>1. peer # "gone" /\ wire' = Append(wire, [kind |-> kind, sid |-> sid, data |-> data])
      BY <1>d DEF Send
    <2>2. \A k \in DOMAIN wire : wire[k].kind \notin {"eof", "reset"}
      BY <1>a, <2>1 DEF WireOrder
    <2> QED BY <1>a, <2>1, <2>2
  <1>2. ASSUME NEW s \in Stream, NEW kind \in {"answer", "redirect", "rst"}, NEW data,
               Send(kind, s, data), EndStream(s)
        PROVE  WireOrder' /\ (\A t \in Stream' : Pending(t)' => Pending(t))
    <2>a. /\ peer' = peer /\ answered' = answered \cup {s} /\ s \notin answered
          /\ asked' = asked
      BY <1>b, <1>2 DEF EndStream
    <2>b. Pending(s) /\ s = Len(asked)
      BY <1>a, <1>d, <1>2, <2>a DEF Pending, WireOrder
    <2>c. \A k \in DOMAIN wire : ~Ending(k)
      <3> SUFFICES ASSUME NEW k \in DOMAIN wire, Ending(k) PROVE FALSE
        OBVIOUS
      <3>1. wire[k].sid \in Stream /\ wire[k].sid \in answered /\ Pending(wire[k].sid)
        BY <1>a DEF WireOrder, Pending
      <3> QED BY <1>a, <2>a, <2>b, <3>1 DEF WireOrder
    <2>d. \A k \in DOMAIN wire' : Ending(k)' => k = Len(wire) + 1 /\ wire'[k].sid = s
      BY <1>d, <1>2, <2>c DEF Ending
    <2>1. \A t \in Stream' : Pending(t)' => Pending(t)
      BY <2>a, <2>b, <2>d DEF Pending
    <2>2. \A k \in DOMAIN wire' :
            /\ Ending(k)' => wire'[k].sid \in Stream' /\ wire'[k].sid \in answered'
            /\ wire'[k].kind \in {"eof", "reset"} => k = Len(wire') /\ peer' = "gone"
            /\ wire'[k].kind # "push"
      BY <1>a, <1>d, <1>2, <2>a, <2>d DEF WireOrder, Stream
    <2>3. \A t \in Stream' : Pending(t)' => t = Len(asked')
      BY <1>a, <2>1, <2>a DEF WireOrder, Stream
    <2>4. \A j, k \in DOMAIN wire' : Ending(j)' /\ Ending(k)' => j = k
      BY <2>d
    <2> QED BY <2>1, <2>2, <2>3, <2>4 DEF WireOrder
  <1>3. ASSUME NEW kind \in {"goaway", "eof", "reset"}, Send(kind, 0, NoUrl),
               kind # "goaway" => peer' = "gone", UNCHANGED answered
        PROVE  WireOrder' /\ (\A t \in Stream' : Pending(t)' => Pending(t))
    <2>a. peer # "gone" /\ asked' = asked
      BY <1>b, <1>d, <1>3
    <2>b. \A k \in DOMAIN wire' : Ending(k)' => k \in DOMAIN wire /\ Ending(k)
      BY <1>d, <1>3 DEF Ending
    <2>c. \A k \in DOMAIN wire' : k \in DOMAIN wire => wire'[k] = wire[k]
      BY <1>d, <1>3
    <2>1. \A t \in Stream' : Pending(t)' => Pending(t)
      BY <1>3, <2>a, <2>b, <2>c DEF Pending, Stream
    <2>2. \A k \in DOMAIN wire' :
            /\ Ending(k)' => wire'[k].sid \in Stream' /\ wire'[k].sid \in answered'
            /\ wire'[k].kind \in {"eof", "reset"} => k = Len(wire') /\ peer' = "gone"
            /\ wire'[k].kind # "push"
      BY <1>a, <1>d, <1>3, <2>a, <2>b, <2>c DEF WireOrder, Stream
    <2>3. \A t \in Stream' : Pending(t)' => t = Len(asked')
      BY <1>a, <2>1, <2>a DEF WireOrder, Stream
    <2>4. \A j, k \in DOMAIN wire' : Ending(j)' /\ Ending(k)' => j = k
      BY <1>a, <2>b DEF WireOrder
    <2> QED BY <2>1, <2>2, <2>3, <2>4 DEF WireOrder
  <1>4. ASSUME Server PROVE StaleInv'
    <2>1. WireOrder' /\ (\A t \in Stream' : Pending(t)' => Pending(t))
      <3>1. ASSUME NEW s \in Stream, Answer(s) \/ ResetStream(s)
            PROVE  WireOrder' /\ (\A t \in Stream' : Pending(t)' => Pending(t))
        BY <1>2, <3>1 DEF Answer, ResetStream
      <3>2. ASSUME NEW s \in Stream, NEW loc \in Redirects, AnswerRedirect(s, loc)
            PROVE  WireOrder' /\ (\A t \in Stream' : Pending(t)' => Pending(t))
        BY <1>2, <3>2 DEF AnswerRedirect
      <3>3. ASSUME NEW how \in {"eof", "reset"}, Close(how)
            PROVE  WireOrder' /\ (\A t \in Stream' : Pending(t)' => Pending(t))
        BY <1>3, <3>3 DEF Close
      <3>4. ASSUME Goaway
            PROVE  WireOrder' /\ (\A t \in Stream' : Pending(t)' => Pending(t))
        BY <1>3, <3>4 DEF Goaway
      <3> QED BY <1>4, <3>1, <3>2, <3>3, <3>4 DEF Server, Reply, Push, Quiet
    <2>2. NothingPending'
      BY <1>a, <1>b, <2>1 DEF NothingPending, InLoop, Stream, fetchVars
    <2> QED BY <1>c, <2>1, <2>2 DEF StaleInv
  <1> QED BY <1>1, <1>4

LEMMA StaleInit == Init => StaleInv
  <1> SUFFICES ASSUME Init PROVE StaleInv
    OBVIOUS
  <1>1. /\ asked = <<>> /\ wire = <<>> /\ results = <<>> /\ pc = "profile"
    BY DEF Init, H2Init
  <1>2. WireOrder /\ NothingPending
    BY <1>1 DEF WireOrder, NothingPending, Stream
  <1>3. BodyInv
    BY <1>1 DEF BodyInv, ResultIsAnswer, Results
  <1> QED BY <1>2, <1>3 DEF StaleInv

LEMMA StaleNext == Quiet /\ IInv /\ StaleInv /\ [Next]_vars => StaleInv'
  <1> SUFFICES ASSUME Quiet, IInv, StaleInv, [Next]_vars PROVE StaleInv'
    OBVIOUS
  <1>1. CASE Client
    BY <1>1, StaleHop, StaleLoop DEF Client
  <1>2. CASE Deadline \/ Server
    BY <1>2, StaleServer
  <1>3. CASE UNCHANGED vars
    <2>1. /\ UNCHANGED <<conn, asked, wire, answered, peer, running>>
          /\ UNCHANGED <<pc, target, res, results>>
      BY <1>3 DEF vars, h2Vars, sessionVars, loopVars, fetchVars, dataVars
    <2>2. WireOrder' /\ NothingPending'
      BY <2>1, SameWire DEF StaleInv, NothingPending, InLoop
    <2>3. BodyInv'
      BY <2>1 DEF StaleInv, BodyInv, ResultIsAnswer, Results
    <2> QED BY <2>2, <2>3 DEF StaleInv
  <1> QED BY <1>1, <1>2, <1>3 DEF Next

\* With a server that does not push, and no write error while an answer is
\* unread, a successful result is the answer to the URL it names as final: no
\* answer of an earlier request, hop or time-out is ever taken for it.
THEOREM AnswersMatch == ASSUME Quiet PROVE Spec => []ResultIsAnswer
  <1>1. StaleInv => ResultIsAnswer
    BY DEF StaleInv, BodyInv
  <1>2. IInv /\ StaleInv /\ [Next]_vars => StaleInv'
    BY StaleNext
  <1> QED BY <1>1, <1>2, Invariant, StaleInit, PTL DEF Spec
----
(* Fetch implements BatchFetch *)

\* The fetch that runs is the next one of the batch, after a primary that
\* succeeded; the batch is over when all are done or the primary failed.
BatchInv ==
  /\ pc \in Fetching \cup {"profile"} => /\ res.start = opt.urls[Len(results) + 1]
                                         /\ results # <<>> => results[1].ok
  /\ Len(results) > 1 => results[1].ok
  /\ pc = "close" => Len(results) = Len(opt.urls) \/ (Len(results) = 1 /\ ~results[1].ok)

LEMMA BatchInit == Init => BatchInv /\ Batch!Init
  BY DEF Init, FreshResult, BatchInv, Batch!Init, Returned

\* The result of the fetch that runs is the one the contract expects next.
LEMMA Delivered ==
  ASSUME IInv, IInv', StaleInv', BatchInv, pc \in Fetching \cup {"profile"},
         NEW r \in Result, r.start = res.start, results' = Append(results, r),
         pc' \in {"next", "close"}, pc' = "close" => pc = "profile" /\ ~r.ok,
         UNCHANGED opt
  PROVE  BatchInv' /\ Batch!Deliver
  <1>a. /\ results \in Seq(Result) /\ Len(results) \in Nat /\ Len(results) < Len(opt.urls)
        /\ ResultIsAnswer' /\ results' \in Seq(Result)
        /\ \A k \in DOMAIN results' : results'[k].ok <=> results'[k].error = "none"
    BY DEF IInv, TypeOK, ResInv, StaleInv, BodyInv
  <1>b. /\ Len(results') = Len(results) + 1 /\ results'[Len(results) + 1] = r
        /\ \A k \in DOMAIN results : results'[k] = results[k]
        /\ DOMAIN results' = 1 .. Len(results) + 1 /\ DOMAIN results = 1 .. Len(results)
    BY <1>a, AppendProperties
  <1>c. IF r.ok THEN r.body = r.final ELSE r.error # "none"
    BY <1>a, <1>b DEF ResultIsAnswer, Results
  <1>d. results # <<>> <=> Len(results) > 0
    BY <1>a
  <1>1. Batch!Deliver
    <2>1. r.start = opt.urls[Len(results')]
      BY <1>b DEF BatchInv
    <2>2. ~Returned /\ ~Returned'
      BY DEF Fetching, Returned
    <2>3. Returned' = Returned /\ opt.urls' = opt.urls
      BY <2>2 DEF Returned
    <2>4. Len(results) < Len(opt.urls)
      BY <1>a
    <2> QED BY <1>b, <1>c, <2>1, <2>2, <2>3, <2>4 DEF Batch!Deliver
  <1>2. BatchInv'
    <2>1. Len(results') > 1 => results'[1].ok
      BY <1>a, <1>b, <1>d DEF BatchInv
    <2>2. pc' = "close" => Len(results') = 1 /\ ~results'[1].ok
      BY <1>a, <1>b DEF IInv, ResInv
    <2> QED BY <2>1, <2>2 DEF BatchInv, Fetching
  <1> QED BY <1>1, <1>2

LEMMA BatchStep ==
  ASSUME Quiet, IInv, IInv', StaleInv, StaleInv', BatchInv, [Next]_vars
  PROVE  BatchInv' /\ [Batch!Next]_Batch!vars
  <1>a. /\ res \in Result /\ results \in Seq(Result) /\ opt.urls \in Seq(Url \cup {BadUrl})
        /\ Len(results) \in Nat /\ Len(opt.urls) \in Nat
        /\ target \in Url \cup {BadUrl} /\ carried \subseteq Url \cup {NoUrl} /\ ResInv
        /\ pc = "next" => results # <<>>
    BY OptionsType DEF IInv, TypeOK, ResInv
  <1>1. ASSUME NEW r \in Result, r.start = res.start, results' = Append(results, r),
               pc \in Fetching, pc' = "next", UNCHANGED opt
        PROVE  BatchInv' /\ [Batch!Next]_Batch!vars
    BY <1>1, Delivered DEF Batch!Next
  <1>2. ASSUME NEW error \in {"connect", "proxy", "tls", "submit", "timeout"}, Fail(error),
               pc \in Fetching
        PROVE  BatchInv' /\ [Batch!Next]_Batch!vars
    <2> DEFINE r == [res EXCEPT !.error = error]
    <2>1. r \in Result /\ r.start = res.start /\ results' = Append(results, r)
          /\ pc' = "next" /\ UNCHANGED opt
      BY <1>a, <1>2 DEF Fail, Result
    <2> HIDE DEF r
    <2> QED BY <1>1, <1>2, <2>1
  <1>3. ASSUME NEW q \in Result, q.start = res.start, Complete(q), pc \in Fetching
        PROVE  BatchInv' /\ [Batch!Next]_Batch!vars
    <2> DEFINE r == IF ~q.ok /\ q.error = "none" THEN [q EXCEPT !.error = "no response"] ELSE q
    <2>1. r \in Result /\ r.start = res.start /\ results' = Append(results, r)
          /\ pc' = "next" /\ UNCHANGED opt
      BY <1>3 DEF Complete, Result
    <2> HIDE DEF r
    <2> QED BY <1>1, <1>3, <2>1
  <1>4. ASSUME ConnectFails \/ ProxyFails \/ TlsFails \/ SubmitFails \/ TimesOut
        PROVE  BatchInv' /\ [Batch!Next]_Batch!vars
    BY <1>2, <1>4 DEF ConnectFails, ProxyFails, TlsFails, SubmitFails, TimesOut, Fetching
  <1>5. ASSUME HopLimit \/ Finished PROVE BatchInv' /\ [Batch!Next]_Batch!vars
    BY <1>a, <1>3, <1>5 DEF HopLimit, Finished, Fetching
  <1>6. ASSUME Unsupported PROVE BatchInv' /\ [Batch!Next]_Batch!vars
    <2> DEFINE q == [res EXCEPT !.error = "protocol"]
    <2>1. q \in Result /\ q.start = res.start /\ Complete(q) /\ pc \in Fetching
      BY <1>a, <1>6 DEF Unsupported, Result, Fetching
    <2> HIDE DEF q
    <2> QED BY <1>3, <2>1
  <1>7. ASSUME ParseFails PROVE BatchInv' /\ [Batch!Next]_Batch!vars
    <2> DEFINE r == [res EXCEPT !.error = "parse", !.final = target]
    <2>1. r \in Result /\ r.start = res.start /\ results' = Append(results, r)
          /\ pc \in Fetching /\ pc' = "next" /\ UNCHANGED opt
      BY <1>a, <1>7 DEF ParseFails, StartHop, Result, Fetching
    <2> HIDE DEF r
    <2> QED BY <1>1, <2>1
  <1>8. ASSUME ProfileFails PROVE BatchInv' /\ [Batch!Next]_Batch!vars
    <2> DEFINE r == [res EXCEPT !.error = "profile"]
    <2>1. /\ r \in Result /\ r.start = res.start /\ ~r.ok
          /\ pc = "profile" /\ pc' = "close" /\ UNCHANGED opt /\ results = <<>>
      BY <1>a, <1>8 DEF ProfileFails, Result, ResInv
    <2>2. results' = Append(results, r)
      BY <1>8, <2>1 DEF ProfileFails
    <2> HIDE DEF r
    <2> QED BY <2>1, <2>2, Delivered DEF Batch!Next
  <1>9. ASSUME UNCHANGED <<opt, results>>, res'.start = res.start,
               pc \in Fetching \cup {"profile"}, pc' \in Fetching
        PROVE  BatchInv' /\ [Batch!Next]_Batch!vars
    BY <1>9 DEF BatchInv, Batch!vars, Returned, Fetching
  <1>10. ASSUME \/ ProfileLoads \/ Reuse \/ Reconnect \/ Connect \/ ProxyTunnels
                \/ TlsConnects \/ Request \/ LoopAgain \/ LoopStops \/ OnResponse
                \/ OnFrame \/ DoneReading \/ ReadBreaks \/ DoneSending \/ SendBreaks
                \/ Follow
         PROVE  BatchInv' /\ [Batch!Next]_Batch!vars
    <2>1. /\ UNCHANGED <<opt, results>>
          /\ pc \in Fetching \cup {"profile"} /\ pc' \in Fetching
      BY <1>10 DEF ProfileLoads, Reuse, Reconnect, StartHop, Connect, ProxyTunnels,
                   TlsConnects, Request, LoopAgain, LoopStops, OnResponse, OnFrame,
                   DoneReading, ReadBreaks, DoneSending, SendBreaks, Follow, Fetching,
                   fetchVars, dataVars
    <2>2. res'.start = res.start
      BY <1>a, <1>10
         DEF ProfileLoads, Reuse, Reconnect, Connect, ProxyTunnels, TlsConnects, Request,
             LoopAgain, LoopStops, OnResponse, OnFrame, DoneReading, ReadBreaks,
             DoneSending, SendBreaks, Follow, Result, fetchVars, dataVars
    <2> QED BY <1>9, <2>1, <2>2
  <1>11. ASSUME NextUrl PROVE BatchInv' /\ [Batch!Next]_Batch!vars
    <2>1. /\ res'.start = opt.urls[Len(results) + 1] /\ results[1].ok
          /\ UNCHANGED <<opt, results>> /\ pc = "next" /\ pc' = "hop"
      BY <1>11 DEF NextUrl, FreshResult, Current
    <2> QED BY <2>1 DEF BatchInv, Batch!vars, Returned
  <1>12. ASSUME NoMoreUrls PROVE BatchInv' /\ [Batch!Next]_Batch!vars
    <2>1. /\ ~results[1].ok \/ Len(results) = Len(opt.urls)
          /\ UNCHANGED <<opt, results>> /\ pc = "next" /\ pc' = "close"
      BY <1>12 DEF NoMoreUrls, dataVars
    <2>2. Len(results) # 0
      BY <1>a, <2>1
    <2>3. ~results[1].ok => Len(results) = 1
      <3>0. Len(results) \in Nat
        BY <1>a
      <3>1. \A n \in Nat : n # 0 => n > 1 \/ n = 1
        OBVIOUS
      <3>2. Len(results) > 1 => results[1].ok
        BY DEF BatchInv
      <3> QED BY <2>2, <3>0, <3>1, <3>2, Zenon
    <2> QED BY <2>1, <2>3 DEF BatchInv, Batch!vars, Returned, Fetching
  <1>13. ASSUME Finish PROVE BatchInv' /\ [Batch!Next]_Batch!vars
    <2>1. pc = "close" /\ pc' = "done" /\ UNCHANGED <<opt, results>>
      BY <1>13 DEF Finish, dataVars
    <2>2. BatchInv'
      BY <2>1 DEF BatchInv, Fetching
    <2>3. Batch!Finish
      BY <2>1 DEF BatchInv, Batch!Finish, Returned
    <2> QED BY <2>2, <2>3 DEF Batch!Next
  <1>14. ASSUME Deadline \/ Server \/ UNCHANGED vars
         PROVE  BatchInv' /\ [Batch!Next]_Batch!vars
    <2>1. UNCHANGED <<opt, pc, res, results>>
      BY <1>14 DEF Deadline, Server, Reply, vars, fetchVars, dataVars
    <2> QED BY <2>1 DEF BatchInv, Batch!vars, Returned
  <1> QED
    BY <1>4, <1>5, <1>6, <1>7, <1>8, <1>10, <1>11, <1>12, <1>13, <1>14 DEF Next, Client

\* fetch_multi keeps its contract: results in the order asked, one for each URL
\* once the primary has succeeded, and every one the answer to its URL or an error.
THEOREM KeepsContract == ASSUME Quiet PROVE Spec => ImplementsBatch
  <1>1. Init => IInv /\ StaleInv /\ BatchInv /\ Batch!Init
    BY InvInit, StaleInit, BatchInit
  <1>2. IInv /\ StaleInv /\ BatchInv /\ [Next]_vars
        => IInv' /\ StaleInv' /\ BatchInv' /\ [Batch!Next]_Batch!vars
    BY InvNext, StaleNext, BatchStep
  <1> QED BY <1>1, <1>2, PTL DEF Spec, ImplementsBatch, Batch!Spec
====
