---- MODULE SubresourcesProofs ----
(***************************************************************************)
(* Theorems of Subresources, for every page, every limit, every set of     *)
(* options and every sequence of server events.                            *)
(***************************************************************************)
EXTENDS Subresources, H2ClientProofs

Link == Url \cup {BadUrl}

Looping == {"top", "recv", "scan", "dispatch", "send", "after"}

PrimaryType == [ok : BOOLEAN, final : Url \cup {NoUrl}, body : Url \cup {NoUrl},
                error : {"none", "limit", "parse", "connect", "protocol", "submit",
                         "timeout", "no response"}]

Filed == [url : Link, seq : Nat, body : Link \cup {NoUrl}]

\* TypeOK but for the page's result.
Types ==
  /\ H2TypeOK
  /\ ScannerTypeOK
  /\ pc \in {"hop", "connect", "request", "extras", "close", "done"} \cup Looping
  /\ opt \in Options
  /\ target \in Link
  /\ hop \in 0 .. opt.maxRedirects
  /\ also \in Seq(Filed)
  /\ todo \in Seq(Link)
  /\ pending \in Seq(Link) /\ deferred \in Seq(Link)
  /\ refused \subseteq dispatched /\ dispatched \subseteq Url
  /\ DOMAIN streams \subseteq Nat
  /\ streams \in [DOMAIN streams -> [url : Url, seq : Nat \ {0}]]
  /\ primarySid \in Nat /\ primaryDone \in BOOLEAN /\ completing \in BOOLEAN
  /\ active \in Nat /\ nextSeq \in Nat \ {0} /\ sent \in Nat

\* What the connection is at each point of a hop.
ConnInv ==
  /\ conn.client => conn.protocol = "h2" /\ conn.host \in Host
  /\ SocketInv
  /\ pc = "connect" => conn = NoConn /\ asked = <<>>
  /\ pc \in {"connect", "request"} \cup Looping => target \in Url /\ hop < opt.maxRedirects
  /\ pc = "request" => /\ conn.host = target.host
                       /\ conn.protocol = "h2" => conn.client
  /\ pc \in Looping => conn.client
  /\ OwnHost

IInv == Types /\ ConnInv /\ WireInv

LEMMA TypeParts == TypeOK <=> Types /\ primary \in PrimaryType
  BY DEF TypeOK, Types, PrimaryType, Link, Looping, Filed
----
(* The scanner *)

LEMMA SearchOK ==
  ASSUME ScannerTypeOK, NEW from \in Nat, NEW upto \in Nat, Search(from, upto)
  PROVE  /\ cursor' \in Nat /\ at' \in Nat /\ window' \in [from : Nat, upto : Nat]
         /\ windows' \subseteq [from : Nat, upto : Nat]
  BY DEF ScannerTypeOK, Search

LEMMA FeedOK ==
  ASSUME ScannerTypeOK, NEW n \in Nat, NEW max, Feed(n, max)
  PROVE  ScannerTypeOK' /\ UNCHANGED seen
  <1>1. SafeEnd(n) \in Nat
    BY ScannerConstants DEF SafeEnd
  <1>2. CASE UNCHANGED scannerVars
    BY <1>2 DEF ScannerTypeOK, scannerVars
  <1>3. CASE buffered' = n /\ UNCHANGED <<cursor, window, at, seen, windows>>
    BY <1>3 DEF ScannerTypeOK
  <1>4. CASE buffered' = n /\ Search(cursor, SafeEnd(n)) /\ UNCHANGED seen
    BY <1>1, <1>4, SearchOK DEF ScannerTypeOK
  <1> QED
    BY <1>2, <1>3, <1>4 DEF Feed, scannerVars

LEMMA FinalizeOK ==
  ASSUME ScannerTypeOK, NEW max, Finalize(max)
  PROVE  ScannerTypeOK' /\ UNCHANGED seen
  <1>1. CASE UNCHANGED scannerVars
    BY <1>1 DEF ScannerTypeOK, scannerVars
  <1>2. CASE UNCHANGED <<buffered, seen>> /\ Search(cursor, buffered)
    BY <1>2, SearchOK DEF ScannerTypeOK
  <1> QED
    BY <1>1, <1>2 DEF Finalize, scannerVars

\* What the scanner finds is a URL, or does not parse.
LEMMA CandidateType ==
  ASSUME target \in Url, Scanning(target), News(target)
  PROVE  Candidate(target) \in Link /\ Candidate(target) \notin seen
  <1>1. Matches[target] \in Seq(Match)
    BY ScannerConstants
  <1>2. Matched(target) = Matches[target]
    BY DEF Matched, Scanning
  <1>3. Matches[target][at] \in Match
    BY <1>1, <1>2 DEF Scanning
  <1>4. Matches[target][at].src \in Src /\ Matches[target][at].src.form # "ignored"
    BY <1>2, <1>3 DEF Match, News, Fetchable
  <1>5. ResolveUrl(Matches[target][at].src, target) \in Link
    BY <1>4, ConnConstants DEF Src, ResolveUrl, Link, Url
  <1> QED
    BY <1>2, <1>5 DEF Candidate, News

LEMMA ScanOK ==
  ASSUME ScannerTypeOK, target \in Url,
         NEW max, PassOver(target) \/ Find(target, max) \/ Searched(target)
  PROVE  ScannerTypeOK'
  <1>1. CASE Find(target, max)
    <2>1. Candidate(target) \in Link
      BY <1>1, CandidateType DEF Find
    <2>2. at' \in Nat
      BY <1>1 DEF Find, ScannerTypeOK
    <2> QED BY <1>1, <2>1, <2>2 DEF Find, ScannerTypeOK, Link
  <1>2. CASE PassOver(target) \/ Searched(target)
    BY <1>2 DEF PassOver, Searched, ScannerTypeOK
  <1> QED
    BY <1>1, <1>2
----
(* The connection, and the types *)

LEMMA InvInit == Init => IInv
  <1> SUFFICES ASSUME Init PROVE IInv
    OBVIOUS
  <1>1. /\ opt \in Options /\ opt.url \in Link /\ opt.maxRedirects \in Nat
    BY RuntimeConstants DEF Init, Link
  <1>2. H2TypeOK
    <2>1. /\ conn = NoConn /\ sockets = 0 /\ broken = FALSE /\ asked = <<>> /\ wire = <<>>
          /\ answered = {} /\ peer = "up" /\ running = TRUE /\ redirect = NoUrl
          /\ late = FALSE
      BY DEF Init, H2Init
    <2>2. asked \in Seq(Url) /\ wire \in Seq(Frame)
      BY <2>1
    <2> QED BY <2>1, <2>2, NoConnType DEF H2TypeOK
  <1>3. ScannerTypeOK
    BY DEF Init, ScannerInit, ScannerTypeOK
  <1>4. /\ also \in Seq(Filed) /\ todo \in Seq(Link) /\ pending \in Seq(Link)
        /\ deferred \in Seq(Link)
    BY DEF Init
  <1>5. DOMAIN streams = {} /\ streams \in [DOMAIN streams -> [url : Url, seq : Nat \ {0}]]
    BY DEF Init
  <1>6. Types
    <2>1. /\ pc = "hop" /\ target = opt.url /\ hop = 0 /\ dispatched = {} /\ refused = {}
          /\ primarySid = 0 /\ ~primaryDone /\ primaryDone \in BOOLEAN /\ completing \in BOOLEAN
          /\ active = 0 /\ nextSeq = 1 /\ sent = 0
      BY DEF Init
    <2>2. refused \subseteq dispatched /\ dispatched \subseteq Url /\ DOMAIN streams \subseteq Nat
      BY <1>5, <2>1
    <2>3. hop \in 0 .. opt.maxRedirects /\ nextSeq \in Nat \ {0} /\ active \in Nat
          /\ primarySid \in Nat /\ sent \in Nat /\ target \in Link
      BY <1>1, <2>1
    <2> QED BY <1>1, <1>2, <1>3, <1>4, <1>5, <2>1, <2>2, <2>3 DEF Types
  <1>7. ConnInv /\ WireInv
    BY NoConnFields DEF Init, H2Init, ConnInv, SocketInv, WireInv, OwnHost, Stream, Looping
  <1> QED
    BY <1>6, <1>7 DEF IInv

LEMMA SameConnection ==
  ASSUME IInv, UNCHANGED h2Vars
  PROVE  /\ H2TypeOK' /\ WireInv' /\ SocketInv' /\ OwnHost'
         /\ UNCHANGED <<conn, sockets, broken, asked, wire, answered, peer,
                        running, redirect, late>>
  BY DEF IInv, Types, H2TypeOK, ConnInv, SocketInv, WireInv, FrameOK, OwnHost, Stream, h2Vars,
         sessionVars, loopVars

LEMMA TornDown ==
  ASSUME IInv, Teardown, UNCHANGED loopVars
  PROVE  /\ H2TypeOK' /\ WireInv' /\ SocketInv' /\ OwnHost'
         /\ conn' = NoConn /\ asked' = <<>> /\ ~conn'.client /\ ~conn'.sock
  <1>1. H2TypeOK /\ SocketInv
    BY DEF IInv, Types, ConnInv
  <1> QED
    BY <1>1, TeardownOK, NoConnFields DEF SocketInv, OwnHost, Stream

\* What the call itself keeps stays in its types.
LEMMA CallKept ==
  ASSUME IInv, H2TypeOK', UNCHANGED <<opt, target, hop, also, todo, scannerVars, stateVars, sent>>,
         pc' \in {"hop", "connect", "request", "extras", "close", "done"} \cup Looping
  PROVE  Types'
  <1>1. ScannerTypeOK'
    BY DEF IInv, Types, ScannerTypeOK, scannerVars
  <1> QED
    BY <1>1 DEF IInv, Types, stateVars, queueVars

LEMMA FailStep ==
  ASSUME IInv, NEW from, NEW error, Fail(from, error),
         UNCHANGED h2Vars \/ (Teardown /\ UNCHANGED loopVars)
  PROVE  IInv'
  <1>1. pc' = "close" /\ UNCHANGED <<opt, target, hop, also, todo, scannerVars, stateVars, sent>>
    BY DEF Fail
  <1>2. H2TypeOK' /\ WireInv' /\ SocketInv' /\ OwnHost' /\ (conn' = conn \/ ~conn'.client)
    BY SameConnection, TornDown
  <1>3. Types'
    BY <1>1, <1>2, CallKept
  <1>4. ConnInv'
    BY <1>1, <1>2 DEF IInv, ConnInv, Looping
  <1> QED
    BY <1>2, <1>3, <1>4 DEF IInv

\* The steps of a hop before the request.
LEMMA HopStep ==
  ASSUME IInv, HopLimit \/ ParseFails \/ Reuse \/ Reconnect \/ ConnectFails \/ Connect
               \/ Unsupported \/ SubmitFails \/ Request
  PROVE  IInv'
  <1>a. Types /\ ConnInv /\ WireInv /\ H2TypeOK /\ ScannerTypeOK
    BY DEF IInv, Types
  <1>1. CASE HopLimit \/ ParseFails \/ ConnectFails \/ Unsupported \/ SubmitFails
    BY <1>1, FailStep DEF HopLimit, ParseFails, ConnectFails, Unsupported, SubmitFails
  <1>2. CASE Reuse
    <2>1. /\ pc = "hop" /\ pc' = "request" /\ UNCHANGED h2Vars
          /\ UNCHANGED <<opt, target, hop, also, todo, scannerVars, stateVars, sent>>
          /\ hop < opt.maxRedirects /\ target # BadUrl /\ conn.client /\ conn.host = target.host
      BY <1>2 DEF Reuse, Move, StartHop, Reusable, callVars, batchVars
    <2>2. Types'
      BY <2>1, CallKept, SameConnection
    <2>3. ConnInv'
      BY <1>a, <2>1, SameConnection DEF ConnInv, Types, Link, Looping
    <2> QED BY <2>1, <2>2, <2>3, SameConnection DEF IInv
  <1>3. CASE Reconnect
    <2>1. /\ pc = "hop" /\ pc' = "connect" /\ Teardown /\ UNCHANGED loopVars
          /\ UNCHANGED <<opt, target, hop, also, todo, scannerVars, stateVars, sent>>
          /\ hop < opt.maxRedirects /\ target # BadUrl
      BY <1>3 DEF Reconnect, Move, StartHop, callVars, batchVars
    <2>2. Types'
      BY <2>1, CallKept, TornDown
    <2>3. ConnInv'
      BY <1>a, <2>1, TornDown DEF ConnInv, Types, Link, Looping
    <2> QED BY <2>1, <2>2, <2>3, TornDown DEF IInv
  <1>4. CASE Connect
    <2>1. /\ pc = "connect" /\ pc' = "request"
          /\ UNCHANGED <<opt, target, hop, also, todo, scannerVars, stateVars, sent>>
          /\ sockets' = sockets + 1 /\ UNCHANGED <<broken, sessionVars, loopVars>>
      BY <1>4 DEF Connect, Move, callVars, batchVars
    <2>2. PICK protocol \in Negotiated :
            conn' = [conn EXCEPT !.sock = TRUE, !.ssl = TRUE, !.protocol = protocol,
                                 !.host = target.host, !.port = target.port,
                                 !.client = (protocol = "h2")]
      BY <1>4 DEF Connect
    <2>3. conn = NoConn /\ asked = <<>> /\ target \in Url /\ hop < opt.maxRedirects
      BY <1>a, <2>1 DEF ConnInv
    <2>4. target.host \in Host /\ target.port \in Port
      BY <2>3 DEF Url
    <2>5. /\ conn' \in ConnType /\ conn'.sock /\ conn'.protocol = protocol
          /\ conn'.host = target.host /\ (conn'.client <=> protocol = "h2")
      BY <2>2, <2>3, <2>4, NoConnType DEF ConnType
    <2>6. sockets' = 1 /\ UNCHANGED <<asked, wire, running, redirect, late, answered, peer>>
      BY <1>a, <2>1, <2>3, NoConnFields DEF ConnInv, SocketInv, sessionVars, loopVars
    <2>7. H2TypeOK' /\ WireInv'
      BY <1>a, <2>1, <2>5, <2>6 DEF H2TypeOK, WireInv, FrameOK, Stream
    <2>8. Types'
      BY <2>1, <2>7, CallKept
    <2>9. ConnInv'
      BY <2>1, <2>3, <2>4, <2>5, <2>6 DEF ConnInv, SocketInv, OwnHost, Stream, Looping
    <2> QED BY <2>7, <2>8, <2>9 DEF IInv
  <1>5. CASE Request
    <2>1. /\ pc = "request" /\ pc' = "top" /\ conn.protocol = "h2"
          /\ running' = TRUE /\ redirect' = NoUrl /\ late' = FALSE
          /\ asked' = Append(asked, target)
          /\ answered' = IF peer = "up" THEN answered ELSE answered \cup {Len(asked) + 1}
          /\ UNCHANGED <<conn, sockets, broken, wire, peer>>
          /\ UNCHANGED <<opt, target, hop, also, todo>>
          /\ pending' = <<>> /\ deferred' = <<>> /\ dispatched' = {} /\ refused' = {}
          /\ DOMAIN streams' = {} /\ primarySid' = Len(asked) + 1
          /\ primaryDone' = FALSE /\ completing' = FALSE
          /\ active' = 1 /\ nextSeq' = 1 /\ sent' = 0
          /\ NewScanner
      BY <1>5 DEF Request, SendHeader, callVars, batchVars
    <2>2. /\ target \in Url /\ hop < opt.maxRedirects /\ conn.client /\ conn.host = target.host
      BY <1>a, <2>1 DEF ConnInv
    <2>3. /\ asked' \in Seq(Url) /\ Len(asked') = Len(asked) + 1
          /\ \A k \in 1 .. Len(asked) : asked'[k] = asked[k]
          /\ asked'[Len(asked) + 1] = target /\ Len(asked) \in Nat
          /\ DOMAIN asked = 1 .. Len(asked) /\ DOMAIN asked' = 1 .. Len(asked) + 1
      BY <1>a, <2>1, <2>2, AppendProperties DEF H2TypeOK
    <2>4. answered' \in SUBSET Nat
      <3>1. answered \in SUBSET Nat /\ Len(asked) + 1 \in Nat
        BY <1>a, <2>3 DEF H2TypeOK
      <3> QED BY <2>1, <3>1
    <2>5. H2TypeOK'
      BY <1>a, <2>1, <2>3, <2>4, ConnConstants DEF H2TypeOK
    <2>6. ScannerTypeOK'
      BY <2>1 DEF NewScanner, ScannerTypeOK
    <2>7. /\ pending' \in Seq(Link) /\ deferred' \in Seq(Link)
          /\ streams' \in [DOMAIN streams' -> [url : Url, seq : Nat \ {0}]]
      BY <1>5, <2>1 DEF Request
    <2>8. Types'
      <3>1. /\ opt' \in Options /\ target' \in Link /\ hop' \in 0 .. opt'.maxRedirects
            /\ also' \in Seq(Filed) /\ todo' \in Seq(Link)
        BY <1>a, <2>1 DEF Types
      <3>2. /\ refused' \subseteq dispatched' /\ dispatched' \subseteq Url
            /\ DOMAIN streams' \subseteq Nat
            /\ primaryDone' \in BOOLEAN /\ completing' \in BOOLEAN
        BY <2>1
      <3>4. primarySid' \in Nat /\ active' \in Nat /\ nextSeq' \in Nat \ {0} /\ sent' \in Nat
        BY <2>1, <2>3
      <3>3. pc' \in Looping
        BY <2>1 DEF Looping
      <3> QED BY <2>5, <2>6, <2>7, <3>1, <3>2, <3>3, <3>4 DEF Types
    <2>9. WireInv' /\ OwnHost'
      BY <1>a, <2>1, <2>2, <2>3 DEF WireInv, FrameOK, ConnInv, OwnHost, Stream
    <2>10. ConnInv'
      BY <1>a, <2>1, <2>2, <2>9 DEF ConnInv, SocketInv
    <2> QED BY <2>8, <2>9, <2>10 DEF IInv
  <1> QED
    BY <1>1, <1>2, <1>3, <1>4, <1>5

\* Reading a frame that does not concern the connection.
LEMMA Popped ==
  ASSUME IInv, wire # <<>>, wire' = Tail(wire),
         UNCHANGED <<conn, sockets, broken, asked, answered, peer, running, redirect, late>>
  PROVE  /\ H2TypeOK' /\ WireInv' /\ SocketInv' /\ OwnHost'
         /\ Head(wire) \in Frame /\ FrameOK(Head(wire))
  <1>1. H2TypeOK /\ WireInv /\ SocketInv /\ OwnHost
    BY DEF IInv, Types, ConnInv
  <1>2. /\ wire' \in Seq(Frame) /\ WireInv' /\ Head(wire) \in Frame /\ FrameOK(Head(wire))
    BY <1>1, ReadOK
  <1> QED
    BY <1>1, <1>2 DEF H2TypeOK, SocketInv, OwnHost, Stream

LEMMA OneLessType == ASSUME active \in Nat PROVE OneLess \in Nat
  BY DEF OneLess

\* A subresource is filed under the URL it was requested for, or under the page.
LEMMA FiledOK ==
  ASSUME IInv, pc = "recv", wire # <<>>, Head(wire) \in Frame, FrameOK(Head(wire)),
         Head(wire).kind = "answer"
  PROVE  /\ Head(wire).sid \in Nat
         /\ Own(Head(wire).sid).url \in Url /\ Own(Head(wire).sid).seq \in Nat
         /\ BodyOf(Head(wire)) \in Url \cup {NoUrl}
         /\ BodyOf(Head(wire)) = asked[Head(wire).sid] /\ Head(wire).sid \in Stream
  <1> DEFINE sid == Head(wire).sid
  <1>1. Types /\ asked \in Seq(Url) /\ target \in Url /\ sid \in Nat /\ sid \in Stream
    BY DEF IInv, Types, H2TypeOK, ConnInv, Looping, FrameOK, Frame
  <1>2. BodyOf(Head(wire)) = asked[sid] /\ asked[sid] \in Url
    BY <1>1 DEF BodyOf, Stream
  <1>3. CASE sid \in DOMAIN streams
    <2>1. streams[sid] \in [url : Url, seq : Nat \ {0}]
      BY <1>1, <1>3 DEF Types
    <2> QED BY <1>1, <1>2, <1>3, <2>1 DEF Own
  <1>4. CASE sid \notin DOMAIN streams
    BY <1>1, <1>2, <1>4 DEF Own
  <1> QED BY <1>3, <1>4

LEMMA OthersOK ==
  ASSUME NEW S, NEW T, streams \in [S -> T], NEW sid
  PROVE  /\ DOMAIN Others(sid) = DOMAIN streams \ {sid}
         /\ Others(sid) \in [S \ {sid} -> T]
         /\ \A t \in DOMAIN Others(sid) : Others(sid)[t] = streams[t]
  BY DEF Others

\* The callbacks begin.
LEMMA FrameStep ==
  ASSUME IInv, OnBodyChunk \/ OtherChunk \/ OnPrimary \/ OnSubresource
  PROVE  IInv'
  <1>a. Types /\ ConnInv /\ WireInv /\ H2TypeOK /\ ScannerTypeOK
    BY DEF IInv, Types
  <1>b. /\ pc = "recv" /\ wire # <<>> /\ wire' = Tail(wire)
        /\ UNCHANGED <<conn, sockets, broken, asked, answered, peer, running, redirect, late>>
        /\ UNCHANGED <<opt, target, hop, todo, pending, deferred, dispatched, refused,
                       primarySid, nextSeq, sent>>
        /\ pc' \in Looping
    BY DEF OnBodyChunk, OtherChunk, OnPrimary, OnSubresource, Incoming, ReadFrame, Consume,
           loopVars, runtimeVars, callVars, batchVars, stateVars, queueVars, Looping
  <1>c. /\ H2TypeOK' /\ WireInv' /\ SocketInv' /\ OwnHost'
        /\ Head(wire) \in Frame /\ FrameOK(Head(wire))
    BY <1>b, Popped
  <1>d. ConnInv'
    BY <1>a, <1>b, <1>c DEF ConnInv, Looping
  <1>1. CASE OnBodyChunk
    <2>1. Head(wire).data.upto \in Nat
      BY <1>1, <1>c DEF OnBodyChunk, Incoming, FrameOK
    <2>2. ScannerTypeOK'
      BY <1>1, <1>a, <2>1, FeedOK DEF OnBodyChunk
    <2>3. /\ UNCHANGED <<also, streams, primaryDone, active>> /\ completing' = FALSE
      BY <1>1 DEF OnBodyChunk, callVars, batchVars
    <2>4. Types'
      BY <1>a, <1>b, <1>c, <2>2, <2>3 DEF Types
    <2> QED BY <1>c, <1>d, <2>4 DEF IInv
  <1>2. CASE OtherChunk
    <2>1. UNCHANGED <<also, streams, primaryDone, active, completing>> /\ UNCHANGED scannerVars
      BY <1>2 DEF OtherChunk, runtimeVars, callVars, batchVars, stateVars
    <2>2. ScannerTypeOK'
      BY <1>a, <2>1 DEF ScannerTypeOK, scannerVars
    <2>3. Types'
      BY <1>a, <1>b, <1>c, <2>1, <2>2 DEF Types
    <2> QED BY <1>c, <1>d, <2>3 DEF IInv
  <1>3. CASE OnPrimary
    <2>1. ScannerTypeOK'
      BY <1>3, <1>a, FinalizeOK DEF OnPrimary
    <2>2. /\ UNCHANGED <<also, streams>> /\ completing' = TRUE /\ primaryDone' = TRUE
          /\ active' \in Nat
      BY <1>3, <1>a, OneLessType DEF OnPrimary, Types
    <2>3. Types'
      BY <1>a, <1>b, <1>c, <2>1, <2>2 DEF Types
    <2> QED BY <1>c, <1>d, <2>3 DEF IInv
  <1>4. CASE OnSubresource
    <2> DEFINE sid == Head(wire).sid
               r == [url |-> Own(sid).url, seq |-> Own(sid).seq, body |-> BodyOf(Head(wire))]
    <2>1. r \in Filed /\ also' = Append(also, r)
      BY <1>4, <1>b, <1>c, FiledOK DEF OnSubresource, Incoming, Filed, Link
    <2>2. also' \in Seq(Filed)
      BY <1>a, <2>1, AppendProperties DEF Types
    <2>3. /\ DOMAIN streams' \subseteq Nat
          /\ streams' \in [DOMAIN streams' -> [url : Url, seq : Nat \ {0}]]
      BY <1>4, <1>a, OthersOK DEF OnSubresource, Types
    <2>4. /\ UNCHANGED <<scannerVars, primaryDone>> /\ completing' = TRUE /\ active' \in Nat
      BY <1>4, <1>a, OneLessType DEF OnSubresource, Types
    <2>5. ScannerTypeOK'
      BY <1>a, <2>4 DEF ScannerTypeOK, scannerVars
    <2>6. Types'
      BY <1>a, <1>b, <1>c, <2>2, <2>3, <2>4, <2>5 DEF Types
    <2> QED BY <1>c, <1>d, <2>6 DEF IInv
  <1> QED
    BY <1>1, <1>2, <1>3, <1>4

LEMMA HeadTailTypes ==
  ASSUME NEW S, NEW s \in Seq(S), s # <<>>
  PROVE  Head(s) \in S /\ Tail(s) \in Seq(S)
  OBVIOUS

\* The links found are queued.
LEMMA ScanStep ==
  ASSUME IInv, NotNews \/ FindLink \/ ScanDone
  PROVE  IInv'
  <1>a. Types /\ ConnInv /\ WireInv /\ H2TypeOK /\ ScannerTypeOK
    BY DEF IInv, Types
  <1>b. /\ pc = "scan" /\ pc' \in {"scan", "dispatch"} /\ UNCHANGED h2Vars
        /\ UNCHANGED <<opt, target, hop, also, todo, deferred, dispatched, refused, streams,
                       primarySid, primaryDone, completing, active, nextSeq, sent>>
    BY DEF NotNews, FindLink, ScanDone, callVars, batchVars, stateVars, queueVars
  <1>c. target \in Url
    BY <1>a, <1>b DEF ConnInv, Looping
  <1>1. ScannerTypeOK'
    BY <1>a, <1>c, ScanOK DEF NotNews, FindLink, ScanDone
  <1>2. pending' \in Seq(Link)
    <2>1. CASE FindLink
      <3>1. Candidate(target) \in Link
        BY <1>c, <2>1, CandidateType DEF FindLink, Find
      <3>2. pending \in Seq(Link)
        BY <1>a DEF Types
      <3>3. Append(pending, Candidate(target)) \in Seq(Link)
        BY <3>1, <3>2, AppendProperties
      <3> QED BY <2>1, <3>2, <3>3 DEF FindLink, Enqueue
    <2>2. CASE NotNews \/ ScanDone
      BY <1>a, <2>2 DEF NotNews, ScanDone, stateVars, queueVars, Types
    <2> QED BY <2>1, <2>2
  <1>3. Types'
    BY <1>a, <1>b, <1>1, <1>2, SameConnection DEF Types, Looping
  <1>4. ConnInv'
    BY <1>a, <1>b, SameConnection DEF ConnInv, Looping
  <1> QED
    BY <1>b, <1>3, <1>4, SameConnection DEF IInv

\* A request on the connection in use, for a URL on its host.
LEMMA Submitted ==
  ASSUME IInv, NEW url \in Url, url.host = conn.host,
         asked' = Append(asked, url),
         answered' = IF peer = "up" THEN answered ELSE answered \cup {Len(asked) + 1},
         UNCHANGED <<conn, sockets, broken, wire, peer, loopVars>>
  PROVE  /\ H2TypeOK' /\ WireInv' /\ SocketInv' /\ OwnHost'
         /\ Len(asked) \in Nat /\ DOMAIN asked = 1 .. Len(asked)
         /\ DOMAIN asked' = 1 .. Len(asked) + 1 /\ Len(asked') = Len(asked) + 1
         /\ \A k \in 1 .. Len(asked) : asked'[k] = asked[k]
         /\ asked'[Len(asked) + 1] = url
  <1>1. H2TypeOK /\ WireInv /\ SocketInv /\ OwnHost
    BY DEF IInv, Types, ConnInv
  <1>2. /\ asked' \in Seq(Url) /\ Len(asked') = Len(asked) + 1
        /\ \A k \in 1 .. Len(asked) : asked'[k] = asked[k]
        /\ asked'[Len(asked) + 1] = url /\ Len(asked) \in Nat
        /\ DOMAIN asked = 1 .. Len(asked) /\ DOMAIN asked' = 1 .. Len(asked) + 1
    BY <1>1, AppendProperties DEF H2TypeOK
  <1>3. answered' \in SUBSET Nat
    <2>1. answered \in SUBSET Nat /\ Len(asked) + 1 \in Nat
      BY <1>1, <1>2 DEF H2TypeOK
    <2> QED BY <2>1
  <1>4. H2TypeOK'
    BY <1>1, <1>2, <1>3 DEF H2TypeOK, loopVars
  <1>5. WireInv'
    BY <1>1, <1>2 DEF WireInv, FrameOK, Stream
  <1>6. OwnHost'
    BY <1>1, <1>2 DEF OwnHost, Stream
  <1> QED
    BY <1>1, <1>2, <1>4, <1>5, <1>6 DEF SocketInv

\* What waits is put aside, dropped or requested, and the callback returns.
LEMMA DispatchStep ==
  ASSUME IInv, Defer \/ Drop \/ Dispatch \/ CallbackReturns
  PROVE  IInv'
  <1>a. Types /\ ConnInv /\ WireInv /\ H2TypeOK /\ ScannerTypeOK /\ OwnHost
    BY DEF IInv, Types, ConnInv
  <1>b. /\ pc = "dispatch" /\ pc' \in {"recv", "dispatch"}
        /\ UNCHANGED <<conn, sockets, broken, wire, peer, redirect, late>>
        /\ UNCHANGED <<opt, target, hop, also, todo, primarySid, primaryDone, completing, sent>>
        /\ UNCHANGED scannerVars
    BY DEF Defer, Drop, Dispatch, CallbackReturns, Dispatching, h2Vars, sessionVars, loopVars,
           callVars, batchVars
  <1>c. ScannerTypeOK'
    BY <1>a, <1>b DEF ScannerTypeOK, scannerVars
  <1>d. pending \in Seq(Link) /\ deferred \in Seq(Link) /\ dispatched \subseteq Url
        /\ refused \subseteq dispatched
    BY <1>a DEF Types
  <1>e. Dispatching => Head(pending) \in Link /\ Tail(pending) \in Seq(Link)
    BY <1>d, HeadTailTypes DEF Dispatching
  <1>f. Dispatching /\ SameHost(Head(pending)) =>
          Head(pending) \in Url /\ Head(pending).host = conn.host
    BY <1>e DEF SameHost, Link
  <1>1. CASE Defer
    <2>1. /\ UNCHANGED h2Vars /\ UNCHANGED <<dispatched, refused, streams, active, nextSeq>>
      BY <1>1 DEF Defer
    <2>2. pending' \in Seq(Link) /\ deferred' \in Seq(Link)
      BY <1>1, <1>d, <1>e, AppendProperties DEF Defer
    <2>3. Types'
      BY <1>a, <1>b, <1>c, <2>1, <2>2, SameConnection DEF Types, Looping
    <2>4. ConnInv'
      BY <1>a, <1>b, <2>1, SameConnection DEF ConnInv, Looping
    <2> QED BY <2>1, <2>3, <2>4, SameConnection DEF IInv
  <1>2. CASE Drop
    <2>1. /\ UNCHANGED h2Vars /\ UNCHANGED <<deferred, streams, active, nextSeq>>
      BY <1>2 DEF Drop
    <2>2. pending' \in Seq(Link) /\ refused' \subseteq dispatched' /\ dispatched' \subseteq Url
      BY <1>2, <1>d, <1>e, <1>f DEF Drop
    <2>3. Types'
      BY <1>a, <1>b, <1>c, <2>1, <2>2, SameConnection DEF Types, Looping
    <2>4. ConnInv'
      BY <1>a, <1>b, <2>1, SameConnection DEF ConnInv, Looping
    <2> QED BY <2>1, <2>3, <2>4, SameConnection DEF IInv
  <1>3. CASE Dispatch
    <2> DEFINE url == Head(pending)
               sid == Len(asked) + 1
    <2>1. /\ url \in Url /\ url.host = conn.host
          /\ asked' = Append(asked, url)
          /\ answered' = IF peer = "up" THEN answered ELSE answered \cup {sid}
          /\ UNCHANGED <<conn, sockets, broken, wire, peer, loopVars>>
          /\ pending' = Tail(pending) /\ dispatched' = dispatched \cup {url}
          /\ UNCHANGED <<deferred, refused>>
          /\ nextSeq' = nextSeq + 1 /\ active' = active + 1
          /\ streams' = [s \in DOMAIN streams \cup {sid} |->
                           IF s = sid THEN [url |-> url, seq |-> nextSeq] ELSE streams[s]]
      BY <1>3, <1>f DEF Dispatch
    <2>2. H2TypeOK' /\ WireInv' /\ SocketInv' /\ OwnHost' /\ sid \in Nat
      BY <2>1, Submitted
    <2>3. /\ DOMAIN streams' \subseteq Nat
          /\ streams' \in [DOMAIN streams' -> [url : Url, seq : Nat \ {0}]]
      BY <1>a, <2>1, <2>2 DEF Types
    <2>4. nextSeq' \in Nat \ {0} /\ active' \in Nat
      BY <1>a, <2>1, SMTT(60) DEF Types
    <2>5. pending' \in Seq(Link) /\ refused' \subseteq dispatched' /\ dispatched' \subseteq Url
      BY <1>3, <1>d, <1>e, <2>1 DEF Dispatch
    <2>6. Types'
      BY <1>a, <1>b, <1>c, <2>1, <2>2, <2>3, <2>4, <2>5 DEF Types, Looping
    <2>7. ConnInv'
      BY <1>a, <1>b, <2>2 DEF ConnInv, Looping
    <2> QED BY <2>2, <2>6, <2>7 DEF IInv
  <1>4. CASE CallbackReturns
    <2>1. /\ pending' = pending \o deferred /\ deferred' = <<>>
          /\ UNCHANGED <<asked, answered, dispatched, refused, streams, active, nextSeq>>
          /\ running' = IF completing THEN LoopGoesOn ELSE running
      BY <1>4 DEF CallbackReturns, sessionVars
    <2>2. pending' \in Seq(Link) /\ deferred' \in Seq(Link)
      BY <1>d, <2>1, ConcatProperties
    <2>3. running' \in BOOLEAN
      BY <1>a, <2>1 DEF H2TypeOK, LoopGoesOn
    <2>4. H2TypeOK' /\ WireInv' /\ SocketInv' /\ OwnHost'
      BY <1>a, <1>b, <2>1, <2>3 DEF H2TypeOK, WireInv, FrameOK, ConnInv, SocketInv, OwnHost, Stream
    <2>5. Types'
      BY <1>a, <1>b, <1>c, <2>1, <2>2, <2>4 DEF Types, Looping
    <2>6. ConnInv'
      BY <1>a, <1>b, <2>4 DEF ConnInv, Looping
    <2> QED BY <2>4, <2>5, <2>6 DEF IInv
  <1> QED
    BY <1>1, <1>2, <1>3, <1>4

\* The event loop goes round, or ends.
LEMMA LoopStep ==
  ASSUME IInv, LoopAgain \/ TimesOut \/ LoopStops \/ OnFrame \/ DoneReading \/ ReadBreaks
               \/ DoneSending \/ SendBreaks
  PROVE  IInv'
  <1>a. Types /\ ConnInv /\ WireInv /\ H2TypeOK /\ ScannerTypeOK
    BY DEF IInv, Types
  <1>1. CASE TimesOut
    BY <1>1, FailStep DEF TimesOut
  <1>2. CASE LoopAgain \/ LoopStops \/ DoneReading \/ DoneSending
    <2>1. /\ pc \in Looping /\ pc' \in Looping /\ UNCHANGED h2Vars
          /\ UNCHANGED <<opt, target, hop, also, todo, scannerVars, stateVars, sent>>
      BY <1>2 DEF LoopAgain, LoopStops, DoneReading, DoneSending, Move, callVars, batchVars,
                  Looping
    <2>2. Types'
      BY <2>1, CallKept, SameConnection
    <2>3. ConnInv'
      BY <1>a, <2>1, SameConnection DEF ConnInv, Looping
    <2> QED BY <2>1, <2>2, <2>3, SameConnection DEF IInv
  <1>3. CASE ReadBreaks \/ SendBreaks
    <2>1. /\ pc \in Looping /\ pc' \in Looping /\ broken' = TRUE
          /\ UNCHANGED <<conn, sockets, asked, wire, answered, peer, running, redirect, late>>
          /\ UNCHANGED <<opt, target, hop, also, todo, scannerVars, stateVars, sent>>
      BY <1>3 DEF ReadBreaks, SendBreaks, RecvFails, SendFails, Move, callVars, batchVars,
                  sessionVars, loopVars, Looping
    <2>2. H2TypeOK' /\ WireInv' /\ SocketInv' /\ OwnHost'
      BY <1>a, <2>1 DEF H2TypeOK, WireInv, FrameOK, ConnInv, SocketInv, OwnHost, Stream
    <2>3. Types'
      BY <2>1, <2>2, CallKept
    <2>4. ConnInv'
      BY <1>a, <2>1, <2>2 DEF ConnInv, Looping
    <2> QED BY <2>2, <2>3, <2>4 DEF IInv
  <1>4. CASE OnFrame
    <2>1. /\ pc = "recv" /\ UNCHANGED runtimeVars /\ UNCHANGED sent
          /\ RecvRedirect \/ RecvRst \/ RecvGoaway
      BY <1>4 DEF OnFrame
    <2>2. /\ pc' = pc
          /\ UNCHANGED <<opt, target, hop, also, todo, scannerVars, stateVars, sent>>
      BY <2>1 DEF runtimeVars, callVars, batchVars
    <2>3. conn.host \in Host
      BY <1>a, <2>1 DEF ConnInv, Looping
    <2>4. /\ H2TypeOK' /\ WireInv' /\ UNCHANGED <<sockets, asked>>
          /\ conn'.sock = conn.sock /\ conn'.client = conn.client
          /\ conn'.protocol = conn.protocol /\ conn'.host = conn.host
      BY <1>a, <2>1, <2>3, RecvOK
    <2>5. Types'
      BY <2>1, <2>2, <2>4, CallKept DEF Looping
    <2>6. ConnInv'
      BY <1>a, <2>1, <2>2, <2>4 DEF ConnInv, SocketInv, OwnHost, Stream, Looping
    <2> QED BY <2>4, <2>5, <2>6 DEF IInv
  <1> QED
    BY <1>1, <1>2, <1>3, <1>4

\* The next hop, or the rest of the batch and the end.
LEMMA AfterStep ==
  ASSUME IInv, Follow \/ PageOver \/ SkipExtra \/ FetchExtra \/ NoMoreExtras \/ Finish
  PROVE  IInv'
  <1>a. Types /\ ConnInv /\ WireInv /\ H2TypeOK /\ ScannerTypeOK
    BY DEF IInv, Types
  <1>b. ASSUME UNCHANGED scannerVars PROVE ScannerTypeOK'
    BY <1>a, <1>b DEF ScannerTypeOK, scannerVars
  <1>1. CASE Follow
    <2>1. /\ pc = "after" /\ pc' = "hop" /\ redirect # NoUrl /\ target' = redirect
          /\ hop' = hop + 1 /\ UNCHANGED h2Vars
          /\ UNCHANGED <<opt, also, todo, scannerVars, stateVars, sent>>
      BY <1>1 DEF Follow, batchVars
    <2>2. target' \in Link
      BY <1>a, <2>1 DEF H2TypeOK, Link
    <2>3. hop' \in 0 .. opt.maxRedirects
      <3>1. opt.maxRedirects \in Nat /\ hop \in 0 .. opt.maxRedirects /\ hop < opt.maxRedirects
        BY <1>a, <2>1, RuntimeConstants DEF Types, ConnInv, Looping
      <3> QED BY <2>1, <3>1
    <2>4. Types'
      BY <1>a, <1>b, <2>1, <2>2, <2>3, SameConnection DEF Types, stateVars, queueVars
    <2>5. ConnInv'
      BY <1>a, <2>1, SameConnection DEF ConnInv, Looping
    <2> QED BY <2>1, <2>4, <2>5, SameConnection DEF IInv
  <1>2. CASE PageOver \/ SkipExtra
    <2>1. /\ pc' = "extras" /\ UNCHANGED h2Vars
          /\ UNCHANGED <<opt, target, hop, also, scannerVars, stateVars, sent>>
      BY <1>2 DEF PageOver, SkipExtra
    <2>2. todo' \in Seq(Link)
      <3>1. opt.also \in Seq(Link) /\ pending \in Seq(Link) /\ todo \in Seq(Link)
        BY <1>a, RuntimeConstants DEF Types, Link
      <3>2. CASE PageOver
        BY <3>1, <3>2, ConcatProperties DEF PageOver
      <3>3. CASE SkipExtra
        BY <3>1, <3>3, HeadTailTypes DEF SkipExtra
      <3> QED BY <1>2, <3>2, <3>3
    <2>3. Types'
      BY <1>a, <1>b, <2>1, <2>2, SameConnection DEF Types, stateVars, queueVars
    <2>4. ConnInv'
      BY <1>a, <2>1, SameConnection DEF ConnInv, Looping
    <2> QED BY <2>1, <2>3, <2>4, SameConnection DEF IInv
  <1>3. CASE FetchExtra
    <2>1. /\ pc = "extras" /\ pc' = "extras" /\ todo # <<>> /\ todo' = Tail(todo)
          /\ UNCHANGED loopVars /\ (KeepConnection \/ Teardown)
          /\ UNCHANGED <<opt, target, hop, scannerVars, pending, deferred, dispatched, refused,
                         streams, primarySid, primaryDone, completing, active, sent>>
          /\ nextSeq' = nextSeq + 1
      BY <1>3 DEF FetchExtra, queueVars
    <2>2. Head(todo) \in Link /\ todo' \in Seq(Link)
      BY <1>a, <2>1, HeadTailTypes DEF Types
    <2>3. also' \in Seq(Filed)
      <3>1. PICK body \in {Head(todo), NoUrl} :
              also' = Append(also, [url |-> Head(todo), seq |-> nextSeq, body |-> body])
        BY <1>3 DEF FetchExtra
      <3>2. [url |-> Head(todo), seq |-> nextSeq, body |-> body] \in Filed
        BY <1>a, <2>2 DEF Filed, Types
      <3> QED BY <1>a, <3>1, <3>2, AppendProperties DEF Types
    <2>4. /\ H2TypeOK' /\ WireInv' /\ SocketInv' /\ OwnHost' /\ (conn' = conn \/ ~conn'.client)
      <3>1. CASE KeepConnection
        <4>1. UNCHANGED h2Vars
          BY <2>1, <3>1 DEF KeepConnection, h2Vars
        <4> QED BY <4>1, SameConnection
      <3>2. CASE Teardown
        BY <2>1, <3>2, TornDown
      <3> QED BY <2>1, <3>1, <3>2
    <2>5. nextSeq' \in Nat \ {0}
      BY <1>a, <2>1 DEF Types
    <2>6. Types'
      BY <1>a, <1>b, <2>1, <2>2, <2>3, <2>4, <2>5 DEF Types
    <2>7. ConnInv'
      BY <1>a, <2>1, <2>4 DEF ConnInv, Looping
    <2> QED BY <2>4, <2>6, <2>7 DEF IInv
  <1>4. CASE NoMoreExtras \/ Finish
    <2>1. /\ pc' \in {"close", "done"}
          /\ UNCHANGED <<opt, target, hop, also, todo, scannerVars, stateVars, sent>>
          /\ UNCHANGED h2Vars \/ (Teardown /\ UNCHANGED loopVars)
      BY <1>4 DEF NoMoreExtras, Finish, Move, callVars, batchVars
    <2>2. /\ H2TypeOK' /\ WireInv' /\ SocketInv' /\ OwnHost' /\ (conn' = conn \/ ~conn'.client)
      BY <2>1, SameConnection, TornDown
    <2>3. Types'
      BY <2>1, <2>2, CallKept
    <2>4. ConnInv'
      BY <1>a, <2>1, <2>2 DEF ConnInv, Looping
    <2> QED BY <2>2, <2>3, <2>4 DEF IInv
  <1> QED
    BY <1>1, <1>2, <1>3, <1>4
----
(* The server *)

\* A stream's last frame.
Ending(f) == f.kind \in {"answer", "redirect"}

\* What a server event does: it puts a frame on the wire, for a stream it has
\* not ended yet if the frame is a response, and after the whole body if it is
\* the page's.
Sends(f) ==
  /\ wire' = Append(wire, f)
  /\ UNCHANGED <<conn, sockets, broken, asked, running, redirect, late, runtimeVars>>
  /\ Ending(f) => f.sid \in Stream /\ f.sid \notin answered /\ f.sid \in answered'
  /\ answered \subseteq answered'
  /\ f.kind = "redirect" => "stray" \in Faults \/ (f.sid = primarySid /\ sent = 0)
  /\ f.kind = "chunk" /\ sent' = sent => f.sid \in DOMAIN streams
  /\ f.kind = "answer" /\ f.sid = primarySid => sent = BodySize[asked[primarySid]]
  /\ \/ sent' = sent
     \/ /\ sent' > sent /\ sent' <= BodySize[target]
        /\ f.kind = "chunk" /\ f.sid = primarySid /\ f.data.upto = sent'
        /\ primarySid \notin answered /\ InLoop

LEMMA ServerSends ==
  ASSUME IInv, Server
  PROVE  /\ H2TypeOK' /\ WireInv' /\ sent' \in Nat
         /\ \E f \in Frame : FrameOK(f) /\ Sends(f)
  <1>a. H2TypeOK /\ WireInv /\ sent \in Nat /\ primarySid \in Nat /\ DOMAIN streams \subseteq Nat
    BY DEF IInv, Types
  <1>b. UNCHANGED runtimeVars
    BY DEF Server
  <1>c. sent' \in Nat
    BY <1>a, RuntimeConstants DEF Server, PageChunk
  <1>1. ASSUME NEW s \in Stream, UNCHANGED sent,
               (MayAnswer(s) /\ Answer(s)) \/ ResetStream(s)
               \/ (MayRedirect(s) /\ \E loc \in Redirects : AnswerRedirect(s, loc))
        PROVE  /\ H2TypeOK' /\ WireInv'
               /\ \E f \in Frame : FrameOK(f) /\ Sends(f)
    <2>1. s \in Nat
      BY <1>a DEF Stream, H2TypeOK
    <2>2. /\ answered' = answered \cup {s} /\ answered' \in SUBSET Nat /\ peer' = peer
          /\ s \notin answered
      BY <1>a, <1>1, <2>1 DEF Answer, ResetStream, AnswerRedirect, EndStream, H2TypeOK
    <2>3. ASSUME NEW kind \in {"answer", "rst", "redirect"}, NEW data \in Location \cup {NoUrl},
                 Send(kind, s, data), kind = "redirect" => data \in Location /\ MayRedirect(s),
                 kind = "answer" => MayAnswer(s)
          PROVE  /\ H2TypeOK' /\ WireInv'
                 /\ \E f \in Frame : FrameOK(f) /\ Sends(f)
      <3> DEFINE g == [kind |-> kind, sid |-> s, data |-> data]
      <3>1. /\ H2TypeOK' /\ WireInv'
            /\ UNCHANGED <<conn, sockets, broken, asked, running, redirect, late>>
            /\ wire' = Append(wire, g) /\ g \in Frame /\ FrameOK(g)
        <4>1. /\ kind \in {"answer", "redirect", "chunk", "rst", "goaway", "eof", "reset", "push"}
              /\ data \in Location \cup {NoUrl} \cup [form : {"piece"}, upto : Nat]
              /\ kind = "redirect" => data \in Location
              /\ kind = "chunk" => data \in [form : {"piece"}, upto : Nat]
              /\ kind \in {"answer", "redirect"} => s \in Stream
              /\ kind = "push" => s = 0
          BY <2>3
        <4>2. peer' \in {"up", "draining", "gone"}
          BY <1>a, <2>2 DEF H2TypeOK
        <4> QED BY <1>a, <2>1, <2>2, <2>3, <4>1, <4>2, SendOK, Zenon
      <3>2. g.kind = kind /\ g.sid = s
        OBVIOUS
      <3> HIDE DEF g
      <3>3. Sends(g)
        BY <1>b, <1>1, <2>2, <2>3, <3>1, <3>2 DEF Sends, Ending, MayRedirect, MayAnswer
      <3> QED BY <3>1, <3>3
    <2>4. CASE MayAnswer(s) /\ Answer(s)
      BY <2>3, <2>4 DEF Answer
    <2>5. CASE ResetStream(s)
      BY <2>3, <2>5 DEF ResetStream
    <2>6. ASSUME NEW loc \in Redirects, AnswerRedirect(s, loc), MayRedirect(s)
          PROVE  /\ H2TypeOK' /\ WireInv'
                 /\ \E f \in Frame : FrameOK(f) /\ Sends(f)
      BY <2>3, <2>6, RuntimeConstants DEF AnswerRedirect
    <2> QED BY <1>1, <2>4, <2>5, <2>6
  <1>2. ASSUME NEW kind \in {"goaway", "eof", "reset"}, Send(kind, 0, NoUrl),
               answered' = answered, peer' \in {"draining", "gone"}, UNCHANGED sent
        PROVE  /\ H2TypeOK' /\ WireInv'
               /\ \E f \in Frame : FrameOK(f) /\ Sends(f)
    <2> DEFINE g == [kind |-> kind, sid |-> 0, data |-> NoUrl]
    <2>1. answered' \in SUBSET Nat
      BY <1>a, <1>2 DEF H2TypeOK
    <2>2. /\ H2TypeOK' /\ WireInv'
          /\ UNCHANGED <<conn, sockets, broken, asked, running, redirect, late>>
          /\ wire' = Append(wire, g) /\ g \in Frame /\ FrameOK(g)
      <3>1. /\ kind \in {"answer", "redirect", "chunk", "rst", "goaway", "eof", "reset", "push"}
            /\ NoUrl \in Location \cup {NoUrl} \cup [form : {"piece"}, upto : Nat]
            /\ kind # "chunk" /\ kind # "push" /\ kind \notin {"answer", "redirect"}
            /\ 0 \in Nat /\ peer' \in {"up", "draining", "gone"}
        BY <1>2
      <3> QED BY <1>a, <1>2, <2>1, <3>1, SendOK, ZenonT(40)
    <2>3. g.kind = kind /\ kind \notin {"answer", "redirect", "chunk"}
      OBVIOUS
    <2> HIDE DEF g
    <2>4. Sends(g)
      BY <1>b, <1>2, <2>2, <2>3 DEF Sends, Ending
    <2> QED BY <2>2, <2>4
  <1>3. ASSUME NEW s \in Nat, NEW n \in Nat, Chunk(s, n),
               \/ UNCHANGED sent /\ s \in DOMAIN streams
               \/ s = primarySid /\ sent' > sent /\ sent' = n /\ n <= BodySize[target] /\ InLoop
        PROVE  /\ H2TypeOK' /\ WireInv'
               /\ \E f \in Frame : FrameOK(f) /\ Sends(f)
    <2> DEFINE data == [form |-> "piece", upto |-> n]
               g == [kind |-> "chunk", sid |-> s, data |-> data]
    <2>1. /\ Send("chunk", s, data) /\ UNCHANGED <<answered, peer>> /\ s \notin answered
          /\ data \in [form : {"piece"}, upto : Nat] /\ data.upto = n
      BY <1>3 DEF Chunk
    <2> HIDE DEF data
    <2>2. answered' \in SUBSET Nat /\ peer' \in {"up", "draining", "gone"}
      BY <1>a, <2>1 DEF H2TypeOK
    <2>3. /\ H2TypeOK' /\ WireInv'
          /\ UNCHANGED <<conn, sockets, broken, asked, running, redirect, late>>
          /\ wire' = Append(wire, g) /\ g \in Frame /\ FrameOK(g)
      BY <1>a, <2>1, <2>2, SendOK
    <2>4. g.kind = "chunk" /\ g.sid = s /\ g.data = data
      OBVIOUS
    <2> HIDE DEF g
    <2>5. Sends(g)
      BY <1>a, <1>b, <1>3, <2>1, <2>3, <2>4 DEF Sends, Ending
    <2> QED BY <2>3, <2>5
  <1>4. CASE PageChunk
    <2>1. PICK n \in Pieces :
            Chunk(primarySid, n) /\ sent' = n /\ sent < n /\ n <= BodySize[target] /\ InLoop
      BY <1>4 DEF PageChunk
    <2>2. n \in Nat
      BY RuntimeConstants
    <2> QED BY <1>a, <1>3, <2>1, <2>2
  <1>5. CASE SubresourceChunk /\ UNCHANGED sent
    <2>1. PICK s \in DOMAIN streams : Chunk(s, 0)
      BY <1>5 DEF SubresourceChunk
    <2> QED BY <1>a, <1>3, <1>5, <2>1
  <1>6. CASE UNCHANGED sent /\ (Goaway \/ \E how \in {"eof", "reset"} : Close(how))
    <2>1. CASE Goaway
      BY <1>c, <1>2, <1>6, <2>1 DEF Goaway
    <2>2. ASSUME NEW how \in {"eof", "reset"}, Close(how)
          PROVE  /\ H2TypeOK' /\ WireInv'
                 /\ \E f \in Frame : FrameOK(f) /\ Sends(f)
      BY <1>2, <1>6, <2>2 DEF Close
    <2> QED BY <1>c, <1>6, <2>1, <2>2
  <1> QED
    BY <1>c, <1>1, <1>4, <1>5, <1>6 DEF Server

LEMMA EnvironmentStep ==
  ASSUME IInv, Deadline \/ Server
  PROVE  IInv'
  <1>a. Types /\ ConnInv /\ WireInv /\ H2TypeOK /\ ScannerTypeOK
    BY DEF IInv, Types
  <1>1. /\ UNCHANGED <<conn, sockets, asked>> /\ UNCHANGED runtimeVars /\ H2TypeOK' /\ WireInv'
        /\ sent' \in Nat
    <2>1. CASE Deadline
      BY <1>a, <2>1 DEF Deadline, DeadlinePasses, H2TypeOK, WireInv, FrameOK, Stream, sessionVars,
                        Types
    <2>2. CASE Server
      BY <2>2, ServerSends DEF Sends
    <2> QED BY <2>1, <2>2
  <1>2. Types'
    BY <1>a, <1>1 DEF Types, runtimeVars, callVars, batchVars, stateVars, queueVars, ScannerTypeOK,
                      scannerVars
  <1>3. ConnInv'
    BY <1>a, <1>1 DEF ConnInv, SocketInv, OwnHost, Stream, runtimeVars, callVars, Looping
  <1> QED
    BY <1>1, <1>2, <1>3 DEF IInv

LEMMA InvNext == IInv /\ [Next]_vars => IInv'
  <1> SUFFICES ASSUME IInv, [Next]_vars PROVE IInv'
    OBVIOUS
  <1>1. CASE Client
    BY <1>1, HopStep, FrameStep, ScanStep, DispatchStep, LoopStep, AfterStep DEF Client
  <1>2. CASE Deadline \/ Server
    BY <1>2, EnvironmentStep
  <1>3. CASE UNCHANGED vars
    <2>1. /\ UNCHANGED h2Vars /\ pc' = pc
          /\ UNCHANGED <<opt, target, hop, also, todo, scannerVars, stateVars, sent>>
      BY <1>3 DEF vars, runtimeVars, callVars, batchVars
    <2>2. Types'
      BY <2>1, SameConnection, CallKept DEF IInv, Types
    <2>3. ConnInv'
      BY <2>1, SameConnection DEF IInv, ConnInv, Looping
    <2> QED BY <2>1, <2>2, <2>3, SameConnection DEF IInv
  <1> QED
    BY <1>1, <1>2, <1>3 DEF Next

\* Every reachable state satisfies the invariant.
THEOREM Invariant == Spec => []IInv
  BY InvInit, InvNext, PTL DEF Spec

\* What travels on the connection is for its host, whatever is redirected,
\* linked or pushed into the queue.
THEOREM RequestsOnHost == Spec => []OwnHost
  <1>1. IInv => OwnHost
    BY DEF IInv, ConnInv
  <1> QED BY <1>1, Invariant, PTL
----
(* The page's result *)

LEMMA WithError ==
  ASSUME primary \in PrimaryType,
         NEW e \in {"none", "limit", "parse", "connect", "protocol", "submit", "timeout",
                    "no response"}
  PROVE  [primary EXCEPT !.error = e] \in PrimaryType
  BY DEF PrimaryType

LEMMA PrimaryInit == Init => primary \in PrimaryType
  BY DEF Init, NoResult, PrimaryType

LEMMA PrimaryNext == IInv /\ primary \in PrimaryType /\ [Next]_vars => primary' \in PrimaryType
  <1> SUFFICES ASSUME IInv, primary \in PrimaryType, [Next]_vars PROVE primary' \in PrimaryType
    OBVIOUS
  <1>1. CASE HopLimit \/ ParseFails \/ ConnectFails \/ Unsupported \/ SubmitFails \/ TimesOut
    BY <1>1, WithError DEF HopLimit, ParseFails, ConnectFails, Unsupported, SubmitFails, TimesOut,
                           Fail
  <1>2. CASE OnPrimary
    <2>1. pc = "recv" /\ wire # <<>> /\ wire' = Tail(wire) /\ Head(wire).kind = "answer"
          /\ UNCHANGED <<conn, sockets, broken, asked, answered, peer, running, redirect, late>>
      BY <1>2 DEF OnPrimary, Incoming, ReadFrame, loopVars
    <2>2. BodyOf(Head(wire)) \in Url \cup {NoUrl}
      BY <2>1, Popped, FiledOK
    <2>3. target \in Url
      BY <2>1 DEF IInv, ConnInv, Looping
    <2>4. primary' = [ok |-> TRUE, error |-> "none", final |-> target, body |-> BodyOf(Head(wire))]
      BY <1>2 DEF OnPrimary
    <2> QED BY <2>2, <2>3, <2>4 DEF PrimaryType
  <1>3. CASE PageOver
    BY <1>3, WithError DEF PageOver
  <1>4. CASE UNCHANGED primary
    BY <1>4
  <1>5. ASSUME Client PROVE \/ HopLimit \/ ParseFails \/ ConnectFails \/ Unsupported \/ SubmitFails
                            \/ TimesOut \/ OnPrimary \/ PageOver \/ UNCHANGED primary
    BY <1>5 DEF Client, Reuse, Reconnect, Connect, Request, LoopAgain, LoopStops, OnBodyChunk,
                OtherChunk, OnSubresource, OnFrame, NotNews, FindLink, ScanDone, Defer, Drop,
                Dispatch, CallbackReturns, DoneReading, ReadBreaks, DoneSending, SendBreaks, Follow,
                SkipExtra, FetchExtra, NoMoreExtras, Finish, Move, runtimeVars, callVars, batchVars
  <1>6. CASE Deadline \/ Server \/ UNCHANGED vars
    BY <1>4, <1>6 DEF Deadline, Server, vars, runtimeVars, callVars, batchVars
  <1> QED
    BY <1>1, <1>2, <1>3, <1>4, <1>5, <1>6 DEF Next

\* The variables of the call, of the scanner and of the connection stay in
\* their types, for any page and any server.
THEOREM TypeCorrect == Spec => []TypeOK
  <1> DEFINE P == primary \in PrimaryType
  <1>1. Init => P
    BY PrimaryInit
  <1>2. IInv /\ P /\ [Next]_vars => P'
    BY PrimaryNext
  <1>3. IInv /\ P => TypeOK
    BY TypeParts DEF IInv
  <1> HIDE DEF P
  <1> QED BY <1>1, <1>2, <1>3, Invariant, PTL DEF Spec
====
