---- MODULE SubresourceStreamsProofs ----
(***************************************************************************)
(* Whose body is whose, in Subresources: with one response on each stream  *)
(* and redirects on the page's stream only, what is streamed is filed      *)
(* under the URL it was requested for.  The streams that responses are     *)
(* expected on are the page's and those of the map; the page is redirected *)
(* before it has sent anything, hence before a link was requested.         *)
(***************************************************************************)
EXTENDS SubresourcesProofs, FiniteSetTheorems

\* No server redirects a subresource, or a page it has begun to send.
NoStray == "stray" \notin Faults

\* Stream s may still bring a response: the server can send one, or has.
Expected(s) == s \notin answered \/ \E k \in DOMAIN wire : Ending(wire[k]) /\ wire[k].sid = s

\* A stream has one response.
WireOrder ==
  /\ \A k \in DOMAIN wire : Ending(wire[k]) => wire[k].sid \in answered
  /\ \A j, k \in DOMAIN wire :
       Ending(wire[j]) /\ Ending(wire[k]) /\ wire[j].sid = wire[k].sid => j = k

\* As long as the page has sent nothing, nothing has come of it.
Untouched ==
  pc \in {"hop", "connect", "request"} \cup Looping /\ sent = 0 =>
    /\ DOMAIN streams = {} /\ also = <<>>
    /\ pending = <<>> /\ deferred = <<>>
    /\ buffered = 0 /\ cursor = 0 /\ at = 0
    /\ \A k \in DOMAIN wire : wire[k].kind # "chunk"

\* Between two hops no response is expected any more.
BetweenHops ==
  pc \in {"hop", "connect", "request"} => sent = 0 /\ \A s \in Stream : ~Expected(s)

\* In a hop the page's stream and the subresources' are those that responses
\* are expected on, and only the page is redirected, before it has sent anything.
PageInv ==
  pc \in Looping =>
    /\ primarySid \in Stream
    /\ redirect # NoUrl => sent = 0 /\ \A s \in Stream : ~Expected(s)
    /\ \A k \in DOMAIN wire : wire[k].kind = "redirect" => wire[k].sid = primarySid /\ sent = 0
    /\ primaryDone => ~Expected(primarySid)
    /\ DOMAIN streams \subseteq Stream \ {primarySid}
    /\ \A s \in DOMAIN streams : streams[s].url = asked[s]
    /\ \A s \in Stream : Expected(s) => s = primarySid \/ s \in DOMAIN streams

\* Whom a response belongs to.
HopInv == WireOrder /\ Untouched /\ BetweenHops /\ PageInv /\ StreamedIsAnswer

LEMMA HopInit == Init => HopInv
  BY DEF Init, H2Init, ScannerInit, HopInv, WireOrder, Untouched, BetweenHops, PageInv,
         StreamedIsAnswer, Expected, Stream, Looping
----
(* Steps that read nothing *)

\* Control moves within a hop, or leaves it.
LEMMA SameHop ==
  ASSUME HopInv,
         UNCHANGED <<asked, wire, answered, redirect, sent, streams, also, pending, deferred,
                     buffered, cursor, at, primarySid, primaryDone>>,
         pc' \in Looping => pc \in Looping,
         pc' \in {"hop", "connect", "request"} => pc \in {"hop", "connect", "request"}
  PROVE  HopInv'
  <1>1. WireOrder' /\ StreamedIsAnswer'
    BY DEF HopInv, WireOrder, Ending, StreamedIsAnswer
  <1>2. Stream' = Stream /\ \A s : Expected(s)' <=> Expected(s)
    BY DEF Stream, Expected, Ending
  <1>3. Untouched'
    BY DEF HopInv, Untouched
  <1>4. BetweenHops'
    BY <1>2 DEF HopInv, BetweenHops
  <1>5. PageInv'
    BY <1>2 DEF HopInv, PageInv
  <1> QED
    BY <1>1, <1>3, <1>4, <1>5 DEF HopInv

\* The page is over, and the connection is kept or taken down.
LEMMA PageLeft ==
  ASSUME HopInv, pc' \in {"extras", "close", "done"}, StreamedIsAnswer',
         UNCHANGED <<wire, answered>> \/ wire' = <<>>
  PROVE  HopInv'
  <1>1. WireOrder'
    BY DEF HopInv, WireOrder, Ending
  <1>2. Untouched' /\ BetweenHops' /\ PageInv'
    BY DEF Untouched, BetweenHops, PageInv, Looping
  <1> QED
    BY <1>1, <1>2 DEF HopInv

LEMMA QuietStep ==
  ASSUME HopInv, IInv,
         \/ Reuse \/ Connect \/ LoopAgain \/ LoopStops \/ DoneReading \/ ReadBreaks
         \/ DoneSending \/ SendBreaks \/ Deadline \/ UNCHANGED vars
  PROVE  HopInv'
  <1>1. UNCHANGED <<asked, wire, answered, redirect, sent, streams, also, pending, deferred,
                    buffered, cursor, at, primarySid, primaryDone>>
    BY DEF Reuse, Connect, LoopAgain, LoopStops, DoneReading, ReadBreaks, DoneSending, SendBreaks,
           Deadline, RecvFails, SendFails, DeadlinePasses, Move, vars, h2Vars, sessionVars,
           loopVars, runtimeVars, callVars, batchVars, scannerVars, stateVars, queueVars
  <1>2. /\ pc' \in Looping => pc \in Looping
        /\ pc' \in {"hop", "connect", "request"} => pc \in {"hop", "connect", "request"}
    BY DEF Reuse, Connect, LoopAgain, LoopStops, DoneReading, ReadBreaks, DoneSending, SendBreaks,
           Deadline, Move, vars, runtimeVars, Looping
  <1> QED
    BY <1>1, <1>2, SameHop

\* The page is over, or the call fails.
LEMMA LeavingStep ==
  ASSUME HopInv, IInv,
         \/ HopLimit \/ ParseFails \/ ConnectFails \/ Unsupported \/ SubmitFails \/ TimesOut
         \/ PageOver \/ SkipExtra \/ FetchExtra \/ NoMoreExtras \/ Finish
  PROVE  HopInv'
  <1>1. pc' \in {"extras", "close", "done"}
    BY DEF HopLimit, ParseFails, ConnectFails, Unsupported, SubmitFails, TimesOut, PageOver,
           SkipExtra, FetchExtra, NoMoreExtras, Finish, Fail, Move
  <1>2. UNCHANGED <<wire, answered>> \/ wire' = <<>>
    BY DEF HopLimit, ParseFails, ConnectFails, Unsupported, SubmitFails, TimesOut, PageOver,
           SkipExtra, FetchExtra, NoMoreExtras, Finish, Teardown, KeepConnection, h2Vars,
           sessionVars
  <1>3. StreamedIsAnswer'
    <2>1. CASE UNCHANGED also
      BY <2>1 DEF HopInv, StreamedIsAnswer
    <2>2. CASE FetchExtra
      <3>1. PICK body \in {Head(todo), NoUrl} :
              also' = Append(also, [url |-> Head(todo), seq |-> nextSeq, body |-> body])
        BY <2>2 DEF FetchExtra
      <3> DEFINE r == [url |-> Head(todo), seq |-> nextSeq, body |-> body]
      <3>2. r \in Filed /\ r.body \in {r.url, NoUrl}
        <4>1. Head(todo) \in Link
          BY <2>2, HeadTailTypes DEF IInv, Types, FetchExtra
        <4> QED BY <4>1 DEF IInv, Types, Filed
      <3> HIDE DEF r
      <3>3. \A k \in DOMAIN also' : also'[k] = r \/ (k \in DOMAIN also /\ also'[k] = also[k])
        BY <3>1, <3>2, AppendProperties, SMTT(40) DEF IInv, Types, r
      <3> QED BY <3>2, <3>3 DEF HopInv, StreamedIsAnswer
    <2> QED BY <2>1, <2>2 DEF HopLimit, ParseFails, ConnectFails, Unsupported, SubmitFails,
               TimesOut, PageOver, SkipExtra, NoMoreExtras, Finish, Fail, Move, callVars, batchVars
  <1> QED
    BY <1>1, <1>2, <1>3, PageLeft
----
(* From hop to hop *)

LEMMA ReconnectStep ==
  ASSUME HopInv, IInv, Reconnect
  PROVE  HopInv'
  <1>1. /\ pc = "hop" /\ pc' = "connect" /\ Teardown /\ UNCHANGED loopVars
        /\ UNCHANGED <<also, buffered, cursor, at, pending, deferred, streams, sent>>
    BY DEF Reconnect, Move, callVars, batchVars, scannerVars, stateVars, queueVars
  <1>2. wire' = <<>> /\ Stream' = {}
    BY <1>1, TornDown DEF Teardown, Stream
  <1>3. WireOrder' /\ StreamedIsAnswer'
    BY <1>1, <1>2 DEF HopInv, WireOrder, StreamedIsAnswer
  <1>4. Untouched'
    BY <1>1, <1>2 DEF HopInv, Untouched
  <1>5. BetweenHops' /\ PageInv'
    BY <1>1, <1>2 DEF HopInv, BetweenHops, PageInv, Looping
  <1> QED
    BY <1>3, <1>4, <1>5 DEF HopInv

\* A stream is opened: the responses expected are those of before, and its own.
LEMMA Opened ==
  ASSUME IInv, WireOrder, wire' = wire, answered \subseteq answered', Len(asked) \in Nat,
         DOMAIN asked = 1 .. Len(asked), DOMAIN asked' = 1 .. Len(asked) + 1
  PROVE  /\ WireOrder'
         /\ Len(asked) + 1 \in Stream' /\ Len(asked) + 1 \notin Stream /\ Stream \subseteq Stream'
         /\ \A s \in Stream' : Expected(s)' => s = Len(asked) + 1 \/ (s \in Stream /\ Expected(s))
         /\ \A s : ~Expected(s) => ~Expected(s)'
  <1>1. WireOrder'
    BY DEF WireOrder, Ending
  <1>2. \A s : ~Expected(s) => ~Expected(s)'
    BY DEF Expected, Ending
  <1> QED
    BY <1>1, <1>2 DEF Stream

LEMMA RequestStep ==
  ASSUME HopInv, IInv, Request
  PROVE  HopInv'
  <1>1. /\ pc = "request" /\ pc' = "top" /\ wire' = wire /\ also' = also /\ redirect' = NoUrl
        /\ asked' = Append(asked, target)
        /\ answered' = IF peer = "up" THEN answered ELSE answered \cup {Len(asked) + 1}
        /\ pending' = <<>> /\ deferred' = <<>> /\ DOMAIN streams' = {}
        /\ primarySid' = Len(asked) + 1 /\ primaryDone' = FALSE /\ sent' = 0
        /\ buffered' = 0 /\ cursor' = 0 /\ at' = 0
    BY DEF Request, SendHeader, NewScanner, callVars, batchVars
  <1>2. target \in Url /\ asked \in Seq(Url) /\ WireInv
    BY <1>1 DEF IInv, Types, H2TypeOK, ConnInv
  <1>3. /\ Len(asked) \in Nat /\ DOMAIN asked = 1 .. Len(asked)
        /\ DOMAIN asked' = 1 .. Len(asked) + 1 /\ answered \subseteq answered'
    BY <1>1, <1>2, AppendProperties
  <1>4. sent = 0 /\ \A s \in Stream : ~Expected(s)
    BY <1>1 DEF HopInv, BetweenHops
  <1>5. /\ WireOrder' /\ primarySid' \in Stream'
        /\ \A s \in Stream' : Expected(s)' => s = primarySid'
    BY <1>1, <1>3, <1>4, Opened DEF HopInv
  <1>6. \A k \in DOMAIN wire : wire[k].kind # "redirect"
    <2> SUFFICES ASSUME NEW k \in DOMAIN wire, wire[k].kind = "redirect" PROVE FALSE
      OBVIOUS
    <2>1. wire[k].sid \in Stream
      BY <1>2 DEF WireInv, FrameOK
    <2>2. Expected(wire[k].sid)
      BY DEF Expected, Ending
    <2> QED BY <1>4, <2>1, <2>2
  <1>7. Untouched' /\ BetweenHops' /\ StreamedIsAnswer'
    BY <1>1, <1>4 DEF HopInv, Untouched, BetweenHops, StreamedIsAnswer, Looping
  <1>8. PageInv'
    BY <1>1, <1>5, <1>6 DEF PageInv
  <1> QED
    BY <1>5, <1>7, <1>8 DEF HopInv

LEMMA FollowStep ==
  ASSUME HopInv, IInv, Follow
  PROVE  HopInv'
  <1>1. /\ pc = "after" /\ pc' = "hop" /\ redirect # NoUrl
        /\ UNCHANGED <<asked, wire, answered, also, buffered, cursor, at, pending, deferred,
                       streams, sent>>
    BY DEF Follow, h2Vars, sessionVars, batchVars, scannerVars, stateVars, queueVars
  <1>2. sent = 0 /\ \A s \in Stream : ~Expected(s)
    BY <1>1 DEF HopInv, PageInv, Looping
  <1>3. WireOrder' /\ StreamedIsAnswer' /\ Untouched'
    BY <1>1 DEF HopInv, WireOrder, Ending, StreamedIsAnswer, Untouched, Looping
  <1>4. BetweenHops'
    BY <1>1, <1>2 DEF BetweenHops, Expected, Ending, Stream
  <1>5. PageInv'
    BY <1>1 DEF PageInv, Looping
  <1> QED
    BY <1>3, <1>4, <1>5 DEF HopInv
----
(* Reading a frame *)

\* With its last frame read, no response is expected on a stream.
LEMMA PopHop ==
  ASSUME IInv, WireOrder, wire # <<>>, wire' = Tail(wire), UNCHANGED <<asked, answered>>
  PROVE  /\ WireOrder' /\ Stream' = Stream
         /\ \A s : Expected(s)' => Expected(s)
         /\ \A s : Ending(Head(wire)) /\ s = Head(wire).sid =>
                    s \in Stream /\ Expected(s) /\ ~Expected(s)'
         /\ \A k \in DOMAIN wire' : \E j \in DOMAIN wire : wire'[k] = wire[j]
         /\ \E j \in DOMAIN wire : Head(wire) = wire[j]
  <1>1. H2TypeOK /\ WireInv
    BY DEF IInv, Types
  <1>2. /\ Head(wire) = wire[1] /\ 1 \in DOMAIN wire /\ FrameOK(Head(wire))
        /\ \A k \in DOMAIN wire' : k + 1 \in DOMAIN wire /\ wire'[k] = wire[k + 1]
    BY <1>1, ReadOK
  <1>3. DOMAIN wire' \subseteq Nat \ {0}
    <2>1. wire' \in Seq(Frame)
      BY <1>1, ReadOK
    <2> QED BY <2>1
  <1>4. WireOrder'
    <2>1. \A k \in DOMAIN wire' : Ending(wire'[k]) => wire'[k].sid \in answered'
      BY <1>2 DEF WireOrder
    <2>2. ASSUME NEW j \in DOMAIN wire', NEW k \in DOMAIN wire', Ending(wire'[j]),
                 Ending(wire'[k]), wire'[j].sid = wire'[k].sid
          PROVE  j = k
      <3>1. j + 1 = k + 1
        BY <1>2, <2>2 DEF WireOrder
      <3> QED BY <1>3, <3>1
    <2> QED BY <2>1, <2>2 DEF WireOrder, Ending
  <1>5. \A s : Expected(s)' => Expected(s)
    BY <1>2 DEF Expected, Ending
  <1>6. ASSUME NEW s, Ending(Head(wire)), s = Head(wire).sid
        PROVE  s \in Stream /\ Expected(s) /\ ~Expected(s)'
    <2>1. s \in Stream
      BY <1>2, <1>6 DEF FrameOK, Ending
    <2>2. s \in answered /\ Expected(s)
      BY <1>2, <1>6 DEF WireOrder, Expected
    <2>3. ASSUME NEW k \in DOMAIN wire', Ending(wire'[k]), wire'[k].sid = s PROVE FALSE
      <3>1. k + 1 = 1
        BY <1>2, <1>6, <2>3 DEF WireOrder
      <3> QED BY <1>3, <3>1
    <2>4. ~Expected(s)'
      BY <2>2, <2>3 DEF Expected, Ending
    <2> QED BY <2>1, <2>2, <2>4
  <1> QED
    BY <1>2, <1>4, <1>5, <1>6 DEF Stream

\* What a callback or a frame changes of the hop, beside the wire, is what its
\* own stream brings.
LEMMA ReadStep ==
  ASSUME HopInv, IInv, OnBodyChunk \/ OtherChunk \/ OnPrimary \/ OnSubresource \/ OnFrame
  PROVE  HopInv'
  <1> DEFINE f == Head(wire)
  <1>1. /\ pc = "recv" /\ pc' \in Looping /\ wire # <<>> /\ wire' = Tail(wire)
        /\ UNCHANGED <<asked, answered, pending, deferred, primarySid, sent>>
    BY DEF OnBodyChunk, OtherChunk, OnPrimary, OnSubresource, OnFrame, Incoming, ReadFrame, Consume,
           RecvRedirect, RecvRst, RecvGoaway, runtimeVars, callVars, stateVars, queueVars, Looping
  <1>2. WireOrder /\ Untouched /\ PageInv /\ StreamedIsAnswer /\ Types
    BY DEF HopInv, IInv
  <1>3. /\ WireOrder' /\ Stream' = Stream
        /\ \A s : Expected(s)' => Expected(s)
        /\ \A s : Ending(f) /\ s = f.sid => s \in Stream /\ Expected(s) /\ ~Expected(s)'
        /\ \A k \in DOMAIN wire' : \E j \in DOMAIN wire : wire'[k] = wire[j]
        /\ \E j \in DOMAIN wire : f = wire[j]
    BY <1>1, <1>2, PopHop
  <1>4. BetweenHops'
    BY <1>1 DEF BetweenHops, Looping
  <1>5. /\ primarySid \in Stream
        /\ redirect # NoUrl => sent = 0 /\ \A s \in Stream : ~Expected(s)
        /\ \A k \in DOMAIN wire : wire[k].kind = "redirect" => wire[k].sid = primarySid /\ sent = 0
        /\ primaryDone => ~Expected(primarySid)
        /\ DOMAIN streams \subseteq Stream \ {primarySid}
        /\ \A s \in DOMAIN streams : streams[s].url = asked[s]
        /\ \A s \in Stream : Expected(s) => s = primarySid \/ s \in DOMAIN streams
    BY <1>1, <1>2 DEF PageInv, Looping
  <1>6. sent = 0 => /\ DOMAIN streams = {} /\ also = <<>> /\ pending = <<>> /\ deferred = <<>>
                    /\ buffered = 0 /\ cursor = 0 /\ at = 0
                    /\ \A k \in DOMAIN wire : wire[k].kind # "chunk"
    BY <1>1, <1>2 DEF Untouched, Looping
  <1> HIDE DEF f
  <1>7. CASE OnBodyChunk \/ OtherChunk
    <2>1. /\ f.kind = "chunk" /\ UNCHANGED <<also, streams, primaryDone, redirect>>
      BY <1>7 DEF OnBodyChunk, OtherChunk, Incoming, ReadFrame, runtimeVars, callVars, batchVars,
                  stateVars, loopVars, f
    <2>2. sent # 0
      BY <1>3, <1>6, <2>1
    <2>3. Untouched' /\ StreamedIsAnswer'
      BY <1>1, <1>2, <2>1, <2>2 DEF Untouched, StreamedIsAnswer
    <2>4. PageInv'
      BY <1>1, <1>3, <1>5, <2>1, <2>2 DEF PageInv
    <2> QED BY <1>3, <1>4, <2>3, <2>4 DEF HopInv
  <1>8. CASE OnPrimary
    <2>1. /\ f.kind = "answer" /\ f.sid = primarySid /\ UNCHANGED <<also, streams, redirect>>
          /\ primaryDone' = TRUE /\ Finalize(opt.maxSubresources)
      BY <1>8 DEF OnPrimary, Incoming, ReadFrame, loopVars, f
    <2>2. Expected(primarySid) /\ \A s : s = primarySid => ~Expected(s)'
      BY <1>3, <2>1 DEF Ending
    <2>3. redirect = NoUrl
      BY <1>5, <2>2
    <2>4. sent = 0 => UNCHANGED <<buffered, cursor, at>>
      BY <1>6, <2>1 DEF Finalize, scannerVars
    <2>5. Untouched' /\ StreamedIsAnswer'
      BY <1>1, <1>2, <1>3, <1>6, <2>1, <2>4 DEF Untouched, StreamedIsAnswer
    <2>6. ~Expected(primarySid)'
      BY <1>1, <2>2
    <2>7. PageInv'
      BY <1>1, <1>3, <1>5, <2>1, <2>3, <2>6 DEF PageInv
    <2> QED BY <1>3, <1>4, <2>5, <2>7 DEF HopInv
  <1>9. CASE OnSubresource
    <2> DEFINE r == [url |-> Own(f.sid).url, seq |-> Own(f.sid).seq, body |-> BodyOf(f)]
    <2>1. /\ f.kind = "answer" /\ f.sid # primarySid /\ UNCHANGED <<primaryDone, redirect>>
          /\ also' = Append(also, r) /\ streams' = Others(f.sid)
      BY <1>9 DEF OnSubresource, Incoming, ReadFrame, loopVars, f
    <2>2. Expected(f.sid) /\ f.sid \in Stream /\ \A s : s = f.sid => ~Expected(s)'
      BY <1>3, <2>1 DEF Ending
    <2>3. f.sid \in DOMAIN streams /\ redirect = NoUrl /\ sent # 0
      BY <1>5, <1>6, <2>1, <2>2
    <2>4. r.url = asked[f.sid] /\ r.body = asked[f.sid] /\ r \in Filed
      <3>1. f \in Frame /\ FrameOK(f)
        BY <1>1, Popped, ReadOK DEF IInv, Types, f
      <3>2. BodyOf(f) = asked[f.sid] /\ r \in Filed
        BY <1>1, <2>1, <3>1, FiledOK DEF Filed, Link, f
      <3> QED BY <1>5, <2>3, <3>2 DEF Own
    <2> HIDE DEF r
    <2>5. StreamedIsAnswer'
      <3>1. \A k \in DOMAIN also' : also'[k] = r \/ (k \in DOMAIN also /\ also'[k] = also[k])
        BY <1>2, <2>1, <2>4, AppendProperties DEF Types
      <3> QED BY <1>2, <2>4, <3>1 DEF StreamedIsAnswer
    <2>6. Untouched'
      BY <1>1, <2>3 DEF Untouched
    <2>7. /\ DOMAIN streams' = DOMAIN streams \ {f.sid}
          /\ \A t \in DOMAIN streams' : streams'[t] = streams[t]
      BY <1>2, <2>1, OthersOK DEF Types
    <2>8. PageInv'
      BY <1>1, <1>3, <1>5, <2>1, <2>2, <2>3, <2>7 DEF PageInv
    <2> QED BY <1>3, <1>4, <2>5, <2>6, <2>8 DEF HopInv
  <1>10. CASE OnFrame
    <2>1. UNCHANGED <<also, streams, primaryDone, buffered, cursor, at>>
      BY <1>10 DEF OnFrame, runtimeVars, callVars, batchVars, stateVars, scannerVars
    <2>2. Untouched' /\ StreamedIsAnswer'
      BY <1>1, <1>2, <1>3, <1>6, <2>1 DEF Untouched, StreamedIsAnswer
    <2>3. CASE RecvRst \/ RecvGoaway
      <3>1. redirect' = redirect
        BY <2>3 DEF RecvRst, RecvGoaway
      <3>2. PageInv'
        BY <1>1, <1>3, <1>5, <2>1, <3>1 DEF PageInv
      <3> QED BY <1>3, <1>4, <2>2, <3>2 DEF HopInv
    <2>4. CASE RecvRedirect
      <3>1. f.kind = "redirect"
        BY <2>4 DEF RecvRedirect, Incoming, f
      <3>2. f.sid = primarySid /\ sent = 0
        BY <1>3, <1>5, <3>1
      <3>3. \A s \in Stream : ~Expected(s)'
        BY <1>3, <1>5, <1>6, <3>1, <3>2 DEF Ending
      <3>4. PageInv'
        BY <1>1, <1>3, <1>5, <2>1, <3>2, <3>3 DEF PageInv
      <3> QED BY <1>3, <1>4, <2>2, <3>4 DEF HopInv
    <2> QED BY <1>10, <2>3, <2>4 DEF OnFrame
  <1> QED
    BY <1>7, <1>8, <1>9, <1>10
----
(* Callbacks and the server *)

\* A callback that goes on has something of the page before it.
LEMMA CallbackStep ==
  ASSUME HopInv, IInv, NotNews \/ FindLink \/ ScanDone \/ Defer \/ Drop \/ CallbackReturns
  PROVE  HopInv'
  <1>1. /\ pc \in Looping /\ pc' \in Looping
        /\ UNCHANGED <<asked, wire, answered, redirect, sent, streams, also, primarySid,
                       primaryDone, buffered, cursor>>
    BY DEF NotNews, FindLink, ScanDone, Defer, Drop, CallbackReturns, Dispatching, PassOver, Find,
           Searched, h2Vars, sessionVars, loopVars, callVars, batchVars, stateVars, queueVars,
           scannerVars, Looping
  <1>2. sent = 0 => pending = <<>> /\ deferred = <<>> /\ at = 0
    BY <1>1 DEF HopInv, Untouched
  <1>3. sent = 0 => pending' = <<>> /\ deferred' = <<>> /\ at' = 0
    <2>1. CASE NotNews \/ FindLink
      <3>1. at \in DOMAIN Matched(target) /\ target \in Url
        BY <2>1, <1>1 DEF NotNews, FindLink, PassOver, Find, Scanning, IInv, ConnInv
      <3>2. Matched(target) \in Seq(Match)
        BY <3>1, ScannerConstants DEF Matched
      <3>3. at # 0
        BY <3>1, <3>2
      <3> QED BY <1>2, <3>3
    <2>2. CASE ScanDone
      BY <1>2, <2>2 DEF ScanDone, Searched, stateVars, queueVars
    <2>3. CASE Defer \/ Drop
      BY <1>2, <2>3 DEF Defer, Drop, Dispatching
    <2>4. CASE CallbackReturns
      BY <1>2, <2>4 DEF CallbackReturns, scannerVars
    <2> QED BY <2>1, <2>2, <2>3, <2>4
  <1>4. Stream' = Stream /\ \A s : Expected(s)' <=> Expected(s)
    BY <1>1 DEF Stream, Expected, Ending
  <1>5. WireOrder' /\ StreamedIsAnswer'
    BY <1>1 DEF HopInv, WireOrder, Ending, StreamedIsAnswer
  <1>6. Untouched'
    BY <1>1, <1>3 DEF HopInv, Untouched
  <1>7. BetweenHops' /\ PageInv'
    BY <1>1, <1>4 DEF HopInv, BetweenHops, PageInv, Looping
  <1> QED
    BY <1>5, <1>6, <1>7 DEF HopInv

LEMMA DispatchHop ==
  ASSUME HopInv, IInv, Dispatch
  PROVE  HopInv'
  <1> DEFINE url == Head(pending)
             sid == Len(asked) + 1
  <1>1. /\ pc = "dispatch" /\ pc' = pc /\ pending # <<>>
        /\ asked' = Append(asked, url)
        /\ answered' = IF peer = "up" THEN answered ELSE answered \cup {sid}
        /\ UNCHANGED <<wire, redirect, also, primarySid, primaryDone, sent>>
        /\ streams' = [s \in DOMAIN streams \cup {sid} |->
                         IF s = sid THEN [url |-> url, seq |-> nextSeq] ELSE streams[s]]
    BY DEF Dispatch, Dispatching, loopVars, callVars, batchVars
  <1>2. url \in Url /\ asked \in Seq(Url)
    <2>1. url \in Link
      BY <1>1, HeadTailTypes DEF IInv, Types
    <2> QED BY <2>1 DEF Dispatch, SameHost, Link, IInv, Types, H2TypeOK
  <1>3. /\ sid - 1 = Len(asked) /\ Len(asked) \in Nat /\ DOMAIN asked = 1 .. Len(asked)
        /\ DOMAIN asked' = 1 .. sid /\ answered \subseteq answered'
        /\ asked'[sid] = url /\ \A k \in 1 .. Len(asked) : asked'[k] = asked[k]
    BY <1>1, <1>2, AppendProperties
  <1>4. /\ WireOrder' /\ sid \in Stream' /\ sid \notin Stream /\ Stream \subseteq Stream'
        /\ \A s \in Stream' : Expected(s)' => s = sid \/ (s \in Stream /\ Expected(s))
        /\ \A s : ~Expected(s) => ~Expected(s)'
    BY <1>1, <1>3, Opened DEF HopInv
  <1>5. sent # 0 /\ redirect = NoUrl
    BY <1>1 DEF HopInv, Untouched, PageInv, Looping
  <1>6. /\ primarySid \in Stream /\ (primaryDone => ~Expected(primarySid))
        /\ \A k \in DOMAIN wire : wire[k].kind = "redirect" => wire[k].sid = primarySid /\ sent = 0
        /\ DOMAIN streams \subseteq Stream \ {primarySid}
        /\ \A s \in DOMAIN streams : streams[s].url = asked[s]
        /\ \A s \in Stream : Expected(s) => s = primarySid \/ s \in DOMAIN streams
    BY <1>1 DEF HopInv, PageInv, Looping
  <1> HIDE DEF url, sid
  <1>7. Untouched' /\ BetweenHops' /\ StreamedIsAnswer'
    BY <1>1, <1>5 DEF HopInv, Untouched, BetweenHops, StreamedIsAnswer
  <1>8. DOMAIN streams' = DOMAIN streams \cup {sid}
    BY <1>1
  <1>9. \A s \in DOMAIN streams' : streams'[s].url = asked'[s]
    <2>1. streams'[sid].url = asked'[sid]
      BY <1>1, <1>3
    <2>2. \A s \in DOMAIN streams : s # sid /\ streams'[s] = streams[s] /\ asked'[s] = asked[s]
      BY <1>1, <1>3, <1>4, <1>6 DEF Stream
    <2> QED BY <1>6, <1>8, <2>1, <2>2
  <1>10. PageInv'
    BY <1>1, <1>4, <1>5, <1>6, <1>8, <1>9 DEF PageInv
  <1> QED
    BY <1>4, <1>7, <1>10 DEF HopInv

LEMMA ServerHop ==
  ASSUME NoStray, HopInv, IInv, Server
  PROVE  HopInv'
  <1>1. PICK f \in Frame : FrameOK(f) /\ Sends(f)
    BY ServerSends
  <1>2. /\ wire' = Append(wire, f) /\ wire \in Seq(Frame) /\ sent \in Nat
        /\ UNCHANGED <<asked, redirect, pc, streams, also, pending, deferred, buffered, cursor, at,
                       primarySid, primaryDone>>
        /\ Ending(f) => f.sid \in Stream /\ f.sid \notin answered /\ f.sid \in answered'
        /\ answered \subseteq answered'
        /\ f.kind = "redirect" => f.sid = primarySid /\ sent = 0
        /\ f.kind = "chunk" /\ sent' = sent => f.sid \in DOMAIN streams
        /\ \/ sent' = sent
           \/ sent' > sent /\ f.kind = "chunk" /\ primarySid \notin answered /\ InLoop
    BY <1>1 DEF Sends, NoStray, runtimeVars, callVars, batchVars, scannerVars, stateVars, queueVars,
                IInv, Types, H2TypeOK
  <1>3. /\ \A k \in DOMAIN wire' : \/ k \in DOMAIN wire /\ wire'[k] = wire[k]
                                   \/ k \notin DOMAIN wire /\ k = Len(wire) + 1 /\ wire'[k] = f
        /\ DOMAIN wire \subseteq DOMAIN wire'
    <2>1. /\ DOMAIN wire = 1 .. Len(wire) /\ DOMAIN wire' = 1 .. Len(wire) + 1 /\ Len(wire) \in Nat
          /\ wire'[Len(wire) + 1] = f /\ \A k \in 1 .. Len(wire) : wire'[k] = wire[k]
      BY <1>2, AppendProperties
    <2>2. ASSUME NEW k \in DOMAIN wire'
          PROVE  \/ k \in DOMAIN wire /\ wire'[k] = wire[k]
                 \/ k \notin DOMAIN wire /\ k = Len(wire) + 1 /\ wire'[k] = f
      <3>1. CASE k = Len(wire) + 1
        BY <2>1, <3>1
      <3>2. CASE k \in 1 .. Len(wire)
        BY <2>1, <3>2
      <3> QED BY <2>1, <2>2, <3>1, <3>2
    <2>3. DOMAIN wire \subseteq DOMAIN wire'
      BY <2>1
    <2> QED BY <2>2, <2>3
  <1>4. WireOrder /\ Untouched /\ BetweenHops /\ PageInv /\ StreamedIsAnswer
    BY DEF HopInv
  <1>5. WireOrder'
    BY <1>2, <1>3, <1>4 DEF WireOrder, Ending
  <1>6. Stream' = Stream /\ \A s : Expected(s)' => Expected(s)
    BY <1>2, <1>3 DEF Stream, Expected, Ending
  <1>7. Ending(f) => Expected(f.sid) /\ f.sid \in Stream
    BY <1>2 DEF Expected
  <1>8. BetweenHops'
    BY <1>2, <1>4, <1>6 DEF BetweenHops, InLoop, InCallback
  <1>9. StreamedIsAnswer'
    BY <1>2, <1>4 DEF StreamedIsAnswer
  <1>10. Untouched'
    <2>1. CASE sent' = sent
      BY <1>2, <1>3, <1>4, <2>1 DEF Untouched
    <2>2. CASE sent' > sent
      BY <1>2, <2>2 DEF Untouched
    <2> QED BY <1>2, <2>1, <2>2
  <1>11. PageInv'
    <2> SUFFICES ASSUME pc' \in Looping PROVE PageInv'
      BY DEF PageInv
    <2>1. /\ primarySid \in Stream
          /\ redirect # NoUrl => sent = 0 /\ \A s \in Stream : ~Expected(s)
          /\ \A k \in DOMAIN wire :
               wire[k].kind = "redirect" => wire[k].sid = primarySid /\ sent = 0
          /\ primaryDone => ~Expected(primarySid)
          /\ DOMAIN streams \subseteq Stream \ {primarySid}
          /\ \A s \in DOMAIN streams : streams[s].url = asked[s]
          /\ \A s \in Stream : Expected(s) => s = primarySid \/ s \in DOMAIN streams
      BY <1>2, <1>4 DEF PageInv
    <2>2. sent' # sent => redirect = NoUrl /\ \A k \in DOMAIN wire : wire[k].kind # "redirect"
      <3> SUFFICES ASSUME sent' # sent
                   PROVE  redirect = NoUrl /\ \A k \in DOMAIN wire : wire[k].kind # "redirect"
        OBVIOUS
      <3>1. primarySid \notin answered /\ Expected(primarySid)
        BY <1>2 DEF Expected
      <3> QED BY <1>4, <2>1, <3>1 DEF WireOrder, Ending
    <2>3. redirect' # NoUrl => sent' = 0 /\ \A s \in Stream' : ~Expected(s)'
      BY <1>2, <1>6, <2>1, <2>2
    <2>4. \A k \in DOMAIN wire' :
            wire'[k].kind = "redirect" => wire'[k].sid = primarySid /\ sent' = 0
      BY <1>2, <1>3, <2>1, <2>2
    <2>5. primaryDone' => ~Expected(primarySid)'
      BY <1>2, <1>6, <2>1
    <2> QED BY <1>2, <1>6, <2>1, <2>3, <2>4, <2>5 DEF PageInv
  <1> QED
    BY <1>5, <1>8, <1>9, <1>10, <1>11 DEF HopInv

LEMMA HopNext == NoStray => (IInv /\ HopInv /\ [Next]_vars => HopInv')
  <1> SUFFICES ASSUME NoStray, IInv, HopInv, [Next]_vars PROVE HopInv'
    OBVIOUS
  <1>1. CASE Client
    BY <1>1, QuietStep, LeavingStep, ReconnectStep, RequestStep, FollowStep, ReadStep, CallbackStep,
       DispatchHop DEF Client
  <1>2. CASE Server
    BY <1>2, ServerHop
  <1>3. CASE Deadline \/ UNCHANGED vars
    BY <1>3, QuietStep
  <1> QED
    BY <1>1, <1>2, <1>3 DEF Next

\* Whatever the page links to and whatever order the answers come in, what was
\* streamed carries the body of the URL it is filed under, as long as servers
\* redirect only pages and before they send them.
THEOREM StreamedAnswers == NoStray => (Spec => []StreamedIsAnswer)
  <1> SUFFICES ASSUME NoStray PROVE Spec => []StreamedIsAnswer
    OBVIOUS
  <1>1. HopInv => StreamedIsAnswer
    BY DEF HopInv
  <1>2. IInv /\ HopInv /\ [Next]_vars => HopInv'
    BY HopNext
  <1> QED BY <1>1, <1>2, Invariant, HopInit, PTL DEF Spec
----
(* Counting and numbering *)

FlightInv == IsFiniteSet(DOMAIN streams) /\ ActiveIsInFlight /\ SeqInStartOrder

LEMMA FlightInit == Init => FlightInv
  <1> SUFFICES ASSUME Init PROVE FlightInv
    OBVIOUS
  <1>1. DOMAIN streams = {} /\ also = <<>> /\ nextSeq = 1 /\ ~InLoop
    BY DEF Init, InLoop, InCallback
  <1>2. IsFiniteSet(DOMAIN streams) /\ Cardinality(DOMAIN streams) = 0
    BY <1>1, FS_EmptySet
  <1> QED
    BY <1>1, <1>2 DEF FlightInv, ActiveIsInFlight, SeqInStartOrder

\* Nothing is requested and nothing answered.
LEMMA SameFlight ==
  ASSUME FlightInv, UNCHANGED <<also, streams, nextSeq>>,
         InLoop' => InLoop /\ UNCHANGED <<primaryDone, active>>
  PROVE  FlightInv'
  BY DEF FlightInv, ActiveIsInFlight, SeqInStartOrder

\* Before the page's request nothing was streamed.
LEMMA RequestFlight ==
  ASSUME HopInv, Request
  PROVE  FlightInv'
  <1>1. /\ pc = "request" /\ DOMAIN streams' = {} /\ nextSeq' = 1 /\ also' = also
        /\ primaryDone' = FALSE /\ active' = 1
    BY DEF Request, callVars, batchVars
  <1>2. also = <<>>
    BY <1>1 DEF HopInv, BetweenHops, Untouched
  <1>3. IsFiniteSet(DOMAIN streams') /\ Cardinality(DOMAIN streams') = 0
    BY <1>1, FS_EmptySet
  <1> QED
    BY <1>1, <1>2, <1>3 DEF FlightInv, ActiveIsInFlight, SeqInStartOrder

\* The page ends once.
LEMMA PrimaryFlight ==
  ASSUME FlightInv, HopInv, IInv, OnPrimary
  PROVE  FlightInv'
  <1>1. /\ pc = "recv" /\ UNCHANGED <<also, streams, nextSeq>> /\ primaryDone' = TRUE
        /\ active' = OneLess /\ wire # <<>> /\ Head(wire).kind = "answer"
        /\ Head(wire).sid = primarySid /\ wire' = Tail(wire) /\ UNCHANGED <<asked, answered>>
    BY DEF OnPrimary, Incoming, ReadFrame
  <1>2. Expected(primarySid)
    BY <1>1, PopHop DEF HopInv, Ending
  <1>3. ~primaryDone
    BY <1>1, <1>2 DEF HopInv, PageInv, Looping
  <1>4. active = Cardinality(DOMAIN streams) + 1 /\ Cardinality(DOMAIN streams) \in Nat
    BY <1>1, <1>3, FS_CardinalityType DEF FlightInv, ActiveIsInFlight, InLoop, InCallback
  <1>5. active' = Cardinality(DOMAIN streams)
    BY <1>1, <1>4 DEF OneLess
  <1> QED
    BY <1>1, <1>4, <1>5 DEF FlightInv, ActiveIsInFlight, SeqInStartOrder

\* A subresource leaves the map with its number.
LEMMA SubresourceFlight ==
  ASSUME FlightInv, HopInv, IInv, OnSubresource
  PROVE  FlightInv'
  <1> DEFINE sid == Head(wire).sid
             r == [url |-> Own(sid).url, seq |-> Own(sid).seq, body |-> BodyOf(Head(wire))]
             D == DOMAIN streams
  <1>1. /\ pc = "recv" /\ pc' = "dispatch" /\ UNCHANGED <<nextSeq, primaryDone>>
        /\ active' = OneLess /\ wire # <<>> /\ Head(wire).kind = "answer"
        /\ sid # primarySid /\ wire' = Tail(wire) /\ UNCHANGED <<asked, answered>>
        /\ also' = Append(also, r) /\ streams' = Others(sid)
    BY DEF OnSubresource, Incoming, ReadFrame
  <1>2. sid \in D
    <2>1. Expected(sid) /\ sid \in Stream
      BY <1>1, PopHop DEF HopInv, Ending
    <2> QED BY <1>1, <2>1 DEF HopInv, PageInv, Looping
  <1>3. Types
    BY DEF IInv
  <1>4. r.seq = streams[sid].seq /\ r \in Filed
    <2>1. Head(wire) \in Frame /\ FrameOK(Head(wire))
      BY <1>1, ReadOK DEF IInv, Types
    <2> QED BY <1>1, <1>2, <2>1, FiledOK DEF Own, Filed, Link
  <1> HIDE DEF sid, r
  <1>5. /\ DOMAIN streams' = D \ {sid}
        /\ \A t \in DOMAIN streams' : streams'[t] = streams[t]
    BY <1>1, <1>3, OthersOK DEF Types
  <1>6. /\ IsFiniteSet(DOMAIN streams') /\ Cardinality(DOMAIN streams') = Cardinality(D) - 1
        /\ Cardinality(D) \in Nat
    BY <1>2, <1>5, FS_RemoveElement, FS_CardinalityType DEF FlightInv
  <1>7. /\ Len(also') = Len(also) + 1 /\ Len(also) \in Nat /\ also'[Len(also) + 1] = r
        /\ DOMAIN also = 1 .. Len(also) /\ DOMAIN also' = 1 .. Len(also) + 1
        /\ \A k \in DOMAIN also : also'[k] = also[k]
    BY <1>1, <1>3, <1>4, AppendProperties DEF Types
  <1>8. ActiveIsInFlight'
    <2>1. active = Cardinality(D) + IF primaryDone THEN 0 ELSE 1
      BY <1>1 DEF FlightInv, ActiveIsInFlight, InLoop, InCallback
    <2>2. Cardinality(D) # 0
      BY <1>6, FS_CardinalityType
    <2> QED BY <1>1, <1>6, <2>1, <2>2 DEF OneLess, ActiveIsInFlight
  <1>9. SeqInStartOrder'
    <2>1. /\ {streams[s].seq : s \in D} \cup {also[k].seq : k \in DOMAIN also} = 1 .. nextSeq - 1
          /\ nextSeq = 1 + Cardinality(D) + Len(also)
          /\ \A s, t \in D : s < t => streams[s].seq < streams[t].seq
      BY DEF FlightInv, SeqInStartOrder
    <2>2. {also'[k].seq : k \in DOMAIN also'} = {also[k].seq : k \in DOMAIN also} \cup {r.seq}
      BY <1>7
    <2>3. {streams[s].seq : s \in D} = {streams'[s].seq : s \in DOMAIN streams'} \cup {r.seq}
      BY <1>2, <1>4, <1>5
    <2>4. {streams'[s].seq : s \in DOMAIN streams'} \cup {also'[k].seq : k \in DOMAIN also'}
            = 1 .. nextSeq' - 1
      BY <1>1, <2>1, <2>2, <2>3
    <2>5. nextSeq' = 1 + Cardinality(DOMAIN streams') + Len(also')
      <3>1. /\ nextSeq' = nextSeq /\ Cardinality(D) \in Nat /\ Len(also) \in Nat
            /\ nextSeq = 1 + Cardinality(D) + Len(also)
        BY <1>1, <1>6, <1>7, <2>1
      <3>2. Cardinality(DOMAIN streams') = Cardinality(D) - 1 /\ Len(also') = Len(also) + 1
        BY <1>6, <1>7
      <3> QED BY <3>1, <3>2
    <2>6. \A s, t \in DOMAIN streams' : s < t => streams'[s].seq < streams'[t].seq
      BY <1>5, <2>1
    <2> QED BY <2>4, <2>5, <2>6 DEF SeqInStartOrder
  <1> QED
    BY <1>6, <1>8, <1>9 DEF FlightInv

\* A link enters the map with the next number.
LEMMA DispatchFlight ==
  ASSUME FlightInv, HopInv, IInv, Dispatch
  PROVE  FlightInv'
  <1> DEFINE url == Head(pending)
             sid == Len(asked) + 1
             D == DOMAIN streams
  <1>1. /\ pc = "dispatch" /\ pc' = pc /\ UNCHANGED <<also, primaryDone>>
        /\ nextSeq' = nextSeq + 1 /\ active' = active + 1
        /\ streams' = [s \in D \cup {sid} |->
                         IF s = sid THEN [url |-> url, seq |-> nextSeq] ELSE streams[s]]
    BY DEF Dispatch, Dispatching, callVars, batchVars
  <1>2. Types /\ D \subseteq Stream /\ Stream = 1 .. Len(asked) /\ Len(asked) \in Nat
    BY <1>1, SMTT(60) DEF IInv, HopInv, PageInv, Looping, Stream, Types, H2TypeOK
  <1> HIDE DEF url, sid
  <1>3. sid \notin D /\ sid \in Nat /\ \A s \in D : s \in Nat /\ s < sid
    BY <1>2 DEF sid
  <1>4. /\ DOMAIN streams' = D \cup {sid} /\ streams'[sid].seq = nextSeq
        /\ \A s \in D : streams'[s] = streams[s]
    BY <1>1, <1>3
  <1>5. /\ IsFiniteSet(DOMAIN streams') /\ Cardinality(DOMAIN streams') = Cardinality(D) + 1
        /\ Cardinality(D) \in Nat
    BY <1>3, <1>4, FS_AddElement, FS_CardinalityType DEF FlightInv
  <1>6. ActiveIsInFlight'
    <2>1. active = Cardinality(D) + IF primaryDone THEN 0 ELSE 1
      BY <1>1 DEF FlightInv, ActiveIsInFlight, InLoop, InCallback
    <2> QED BY <1>1, <1>5, <2>1 DEF ActiveIsInFlight
  <1>7. SeqInStartOrder'
    <2>1. /\ {streams[s].seq : s \in D} \cup {also[k].seq : k \in DOMAIN also} = 1 .. nextSeq - 1
          /\ nextSeq = 1 + Cardinality(D) + Len(also)
          /\ \A s, t \in D : s < t => streams[s].seq < streams[t].seq
      BY DEF FlightInv, SeqInStartOrder
    <2>2. {streams'[s].seq : s \in DOMAIN streams'} = {streams[s].seq : s \in D} \cup {nextSeq}
      BY <1>4
    <2>3. nextSeq \in Nat \ {0} /\ Len(also) \in Nat
      BY <1>2 DEF Types
    <2>4. {streams'[s].seq : s \in DOMAIN streams'} \cup {also'[k].seq : k \in DOMAIN also'}
            = 1 .. nextSeq' - 1
      <3>1. 1 .. nextSeq' - 1 = (1 .. nextSeq - 1) \cup {nextSeq}
        BY <1>1, <2>3
      <3> QED BY <1>1, <2>1, <2>2, <3>1
    <2>5. nextSeq' = 1 + Cardinality(DOMAIN streams') + Len(also')
      BY <1>1, <1>5, <2>1, <2>3
    <2>6. ASSUME NEW s \in DOMAIN streams', NEW t \in DOMAIN streams', s < t
          PROVE  streams'[s].seq < streams'[t].seq
      <3>1. s \in D
        BY <1>3, <1>4, <2>6
      <3>2. streams[s].seq \in 1 .. nextSeq - 1
        BY <2>1, <3>1
      <3>3. CASE t = sid
        BY <1>4, <2>3, <3>1, <3>2, <3>3
      <3>4. CASE t \in D
        BY <1>4, <2>1, <2>6, <3>1, <3>4
      <3> QED BY <1>4, <3>3, <3>4
    <2> QED BY <2>4, <2>5, <2>6 DEF SeqInStartOrder
  <1> QED
    BY <1>5, <1>6, <1>7 DEF FlightInv

\* What is fetched after the page takes the next number too.
LEMMA ExtraFlight ==
  ASSUME FlightInv, IInv, FetchExtra
  PROVE  FlightInv'
  <1>1. PICK body \in {Head(todo), NoUrl} :
          also' = Append(also, [url |-> Head(todo), seq |-> nextSeq, body |-> body])
    BY DEF FetchExtra
  <1> DEFINE r == [url |-> Head(todo), seq |-> nextSeq, body |-> body]
  <1>2. /\ pc' = "extras" /\ streams' = streams /\ nextSeq' = nextSeq + 1
    BY DEF FetchExtra
  <1>3. nextSeq \in Nat \ {0} /\ also \in Seq(Filed)
    BY DEF IInv, Types
  <1>4. r \in Filed /\ r.seq = nextSeq
    <2>1. Head(todo) \in Link
      BY HeadTailTypes DEF IInv, Types, FetchExtra
    <2> QED BY <1>3, <2>1 DEF Filed
  <1> HIDE DEF r
  <1>5. /\ Len(also') = Len(also) + 1 /\ Len(also) \in Nat /\ also'[Len(also) + 1] = r
        /\ DOMAIN also = 1 .. Len(also) /\ DOMAIN also' = 1 .. Len(also) + 1
        /\ \A k \in DOMAIN also : also'[k] = also[k]
    BY <1>1, <1>3, <1>4, AppendProperties DEF r
  <1>6. /\ {streams[s].seq : s \in DOMAIN streams} \cup {also[k].seq : k \in DOMAIN also}
             = 1 .. nextSeq - 1
        /\ nextSeq = 1 + Cardinality(DOMAIN streams) + Len(also)
        /\ \A s, t \in DOMAIN streams : s < t => streams[s].seq < streams[t].seq
        /\ Cardinality(DOMAIN streams) \in Nat
    BY FS_CardinalityType DEF FlightInv, SeqInStartOrder
  <1>7. {also'[k].seq : k \in DOMAIN also'} = {also[k].seq : k \in DOMAIN also} \cup {nextSeq}
    BY <1>4, <1>5
  <1>8. 1 .. nextSeq' - 1 = (1 .. nextSeq - 1) \cup {nextSeq}
    BY <1>2, <1>3
  <1>9. {streams'[s].seq : s \in DOMAIN streams'} \cup {also'[k].seq : k \in DOMAIN also'}
          = 1 .. nextSeq' - 1
    BY <1>2, <1>6, <1>7, <1>8
  <1>10. nextSeq' = 1 + Cardinality(DOMAIN streams') + Len(also')
    BY <1>2, <1>5, <1>6
  <1>11. SeqInStartOrder'
    BY <1>2, <1>6, <1>9, <1>10 DEF SeqInStartOrder
  <1> QED
    BY <1>2, <1>11 DEF FlightInv, ActiveIsInFlight, InLoop, InCallback

LEMMA FlightNext == IInv /\ HopInv /\ FlightInv /\ [Next]_vars => FlightInv'
  <1> SUFFICES ASSUME IInv, HopInv, FlightInv, [Next]_vars PROVE FlightInv'
    OBVIOUS
  <1>1. CASE Request \/ OnPrimary \/ OnSubresource \/ Dispatch \/ FetchExtra
    BY <1>1, RequestFlight, PrimaryFlight, SubresourceFlight, DispatchFlight, ExtraFlight
  <1>2. CASE \/ HopLimit \/ ParseFails \/ Reuse \/ Reconnect \/ ConnectFails \/ Connect
             \/ Unsupported \/ SubmitFails \/ TimesOut \/ LoopStops \/ ReadBreaks \/ SendBreaks
             \/ Follow \/ PageOver \/ SkipExtra \/ NoMoreExtras \/ Finish
    <2>1. UNCHANGED <<also, streams, nextSeq>> /\ ~InLoop'
      BY <1>2 DEF HopLimit, ParseFails, Reuse, Reconnect, ConnectFails, Connect, Unsupported,
                  SubmitFails, TimesOut, LoopStops, ReadBreaks, SendBreaks, Follow, PageOver,
                  SkipExtra, NoMoreExtras, Finish, Fail, Move, callVars, batchVars, stateVars,
                  InLoop, InCallback
    <2> QED BY <2>1, SameFlight
  <1>3. CASE \/ LoopAgain \/ OnBodyChunk \/ OtherChunk \/ OnFrame \/ NotNews \/ FindLink
             \/ ScanDone \/ Defer \/ Drop \/ CallbackReturns \/ DoneReading \/ DoneSending
             \/ Deadline \/ Server \/ UNCHANGED vars
    <2>1. /\ UNCHANGED <<also, streams, nextSeq, primaryDone, active>> /\ (InLoop' => InLoop)
      BY <1>3 DEF LoopAgain, OnBodyChunk, OtherChunk, OnFrame, NotNews, FindLink, ScanDone, Defer,
                  Drop, CallbackReturns, DoneReading, DoneSending, Deadline, Server, Dispatching,
                  Move, vars, runtimeVars, callVars, batchVars, stateVars, InLoop, InCallback
    <2> QED BY <2>1, SameFlight
  <1> QED
    BY <1>1, <1>2, <1>3 DEF Next, Client

THEOREM FlightCorrect == NoStray => (Spec => []FlightInv)
  <1> SUFFICES ASSUME NoStray PROVE Spec => []FlightInv
    OBVIOUS
  <1>1. IInv /\ HopInv /\ [Next]_vars => HopInv'
    BY HopNext
  <1> QED BY <1>1, Invariant, HopInit, FlightInit, FlightNext, PTL DEF Spec

\* The event loop's counter is the number of streams that are in flight.
THEOREM CounterIsExact == NoStray => (Spec => []ActiveIsInFlight)
  <1> SUFFICES ASSUME NoStray PROVE Spec => []ActiveIsInFlight
    OBVIOUS
  <1>1. FlightInv => ActiveIsInFlight
    BY DEF FlightInv
  <1>2. Spec => []FlightInv
    BY FlightCorrect
  <1> QED BY <1>1, <1>2, PTL

\* What follows the page is numbered 1 .. N, each once, in the order it was
\* requested.
THEOREM NumberedInOrder == NoStray => (Spec => []SeqInStartOrder)
  <1> SUFFICES ASSUME NoStray PROVE Spec => []SeqInStartOrder
    OBVIOUS
  <1>1. FlightInv => SeqInStartOrder
    BY DEF FlightInv
  <1>2. Spec => []FlightInv
    BY FlightCorrect
  <1> QED BY <1>1, <1>2, PTL
----
(* Sequences without repetition *)

Injective(s) == \A i, j \in DOMAIN s : s[i] = s[j] => i = j

LEMMA RangeAppend ==
  ASSUME NEW S, NEW s \in Seq(S), NEW e \in S
  PROVE  /\ Range(Append(s, e)) = Range(s) \cup {e}
         /\ Injective(s) /\ e \notin Range(s) => Injective(Append(s, e))
  <1> DEFINE t == Append(s, e)
  <1>1. /\ DOMAIN s = 1 .. Len(s) /\ DOMAIN t = 1 .. Len(s) + 1 /\ Len(s) \in Nat
        /\ t[Len(s) + 1] = e /\ \A k \in 1 .. Len(s) : t[k] = s[k]
    BY AppendProperties
  <1> HIDE DEF t
  <1>2. DOMAIN t = DOMAIN s \cup {Len(s) + 1} /\ Len(s) + 1 \notin DOMAIN s
    BY <1>1
  <1>3. Range(t) = Range(s) \cup {e}
    BY <1>1, <1>2 DEF Range
  <1>4. ASSUME Injective(s), e \notin Range(s) PROVE Injective(t)
    <2>1. \A k \in DOMAIN s : t[k] # e
      BY <1>1, <1>4 DEF Range
    <2> QED BY <1>1, <1>2, <1>4, <2>1 DEF Injective
  <1> QED
    BY <1>3, <1>4 DEF t

LEMMA RangeTail ==
  ASSUME NEW S, NEW s \in Seq(S), s # <<>>
  PROVE  /\ Range(s) = {Head(s)} \cup Range(Tail(s))
         /\ Injective(s) => Injective(Tail(s)) /\ Head(s) \notin Range(Tail(s))
         /\ Len(s) = Len(Tail(s)) + 1 /\ Len(Tail(s)) \in Nat
  <1> DEFINE t == Tail(s)
  <1>1. /\ DOMAIN s = 1 .. Len(s) /\ Len(s) \in Nat \ {0} /\ Head(s) = s[1]
        /\ Len(t) = Len(s) - 1 /\ DOMAIN t = 1 .. Len(t)
        /\ \A k \in 1 .. Len(t) : t[k] = s[k + 1]
    BY HeadTailProperties, EmptySeq, LenProperties
  <1> HIDE DEF t
  <1>2. Range(s) = {Head(s)} \cup Range(t)
    <2>1. ASSUME NEW k \in DOMAIN s PROVE s[k] = Head(s) \/ s[k] \in Range(t)
      <3>1. CASE k = 1
        BY <1>1, <3>1
      <3>2. CASE k # 1
        <4>1. k - 1 \in DOMAIN t /\ t[k - 1] = s[k]
          BY <1>1, <2>1, <3>2
        <4> QED BY <4>1 DEF Range
      <3> QED BY <3>1, <3>2
    <2>2. \A k \in DOMAIN t : k + 1 \in DOMAIN s /\ t[k] = s[k + 1]
      BY <1>1
    <2>3. 1 \in DOMAIN s
      BY <1>1
    <2> QED BY <1>1, <2>1, <2>2, <2>3 DEF Range
  <1>3. ASSUME Injective(s) PROVE Injective(t) /\ Head(s) \notin Range(t)
    <2>1. \A k \in DOMAIN t : k \in Nat \ {0} /\ k + 1 \in DOMAIN s /\ t[k] = s[k + 1]
      BY <1>1
    <2>2. 1 \in DOMAIN s
      BY <1>1
    <2>3. ASSUME NEW i \in DOMAIN t, NEW j \in DOMAIN t, t[i] = t[j] PROVE i = j
      <3>1. i + 1 = j + 1
        BY <1>3, <2>1, <2>3 DEF Injective
      <3> QED BY <2>1, <3>1
    <2>4. ASSUME NEW i \in DOMAIN t, t[i] = Head(s) PROVE FALSE
      <3>1. i + 1 = 1
        BY <1>1, <1>3, <2>1, <2>2, <2>4 DEF Injective
      <3> QED BY <2>1, <3>1
    <2> QED BY <2>3, <2>4 DEF Injective, Range
  <1> QED
    BY <1>1, <1>2, <1>3 DEF t

LEMMA RangeConcat ==
  ASSUME NEW S, NEW s \in Seq(S), NEW t \in Seq(S)
  PROVE  /\ Range(s \o t) = Range(s) \cup Range(t)
         /\ Injective(s) /\ Injective(t) /\ Range(s) \cap Range(t) = {} => Injective(s \o t)
         /\ Len(s \o t) = Len(s) + Len(t)
  <1> DEFINE u == s \o t
             n == Len(s)
             m == Len(t)
  <1>1. /\ DOMAIN s = 1 .. n /\ DOMAIN t = 1 .. m /\ n \in Nat /\ m \in Nat
        /\ Len(u) = n + m /\ DOMAIN u = 1 .. n + m
        /\ \A k \in 1 .. n + m : u[k] = IF k <= n THEN s[k] ELSE t[k - n]
    BY ConcatProperties, LenProperties
  <1> HIDE DEF u, n, m
  <1>2. ASSUME NEW k \in DOMAIN u
        PROVE  \/ k \in DOMAIN s /\ u[k] = s[k]
               \/ k - n \in DOMAIN t /\ u[k] = t[k - n] /\ k \in Nat
    BY <1>1, <1>2
  <1>3. \A k \in DOMAIN s : k \in DOMAIN u /\ u[k] = s[k]
    BY <1>1
  <1>4. \A k \in DOMAIN t : n + k \in DOMAIN u /\ u[n + k] = t[k]
    BY <1>1
  <1>5. Range(u) = Range(s) \cup Range(t)
    BY <1>2, <1>3, <1>4 DEF Range
  <1>6. ASSUME Injective(s), Injective(t), Range(s) \cap Range(t) = {} PROVE Injective(u)
    <2> SUFFICES ASSUME NEW i \in DOMAIN u, NEW j \in DOMAIN u, u[i] = u[j] PROVE i = j
      BY DEF Injective
    <2>1. CASE i \in DOMAIN s /\ j \in DOMAIN s
      BY <1>3, <1>6, <2>1 DEF Injective
    <2>2. CASE i \notin DOMAIN s /\ j \notin DOMAIN s
      <3>1. /\ i - n \in DOMAIN t /\ u[i] = t[i - n] /\ i \in Nat
            /\ j - n \in DOMAIN t /\ u[j] = t[j - n] /\ j \in Nat
        BY <1>2, <2>2
      <3>2. i - n = j - n
        BY <1>6, <3>1 DEF Injective
      <3> QED BY <1>1, <3>1, <3>2
    <2>3. CASE (i \in DOMAIN s /\ j \notin DOMAIN s) \/ (i \notin DOMAIN s /\ j \in DOMAIN s)
      <3>1. u[i] \in Range(s) /\ u[i] \in Range(t)
        BY <1>2, <1>3, <2>3 DEF Range
      <3> QED BY <1>6, <3>1
    <2> QED BY <2>1, <2>2, <2>3
  <1> QED
    BY <1>1, <1>5, <1>6 DEF u, n, m
----
(* The links of a page *)

\* A link is in one place: it waits, is put aside, or was requested.
LinkInv ==
  InLoop =>
    /\ seen = Range(pending) \cup Range(deferred) \cup dispatched
    /\ dispatched = InFlight \cup Streamed \cup refused
    /\ Range(pending) \cap Range(deferred) = {}
    /\ (Range(pending) \cup Range(deferred)) \cap dispatched = {}
    /\ Injective(pending) /\ Injective(deferred)
    /\ IsFiniteSet(seen) /\ IsFiniteSet(refused)
    /\ Cardinality(seen) = Len(pending) + Len(deferred) + Cardinality(DOMAIN streams)
                              + Len(also) + Cardinality(refused)

\* What the steps below start from.
LEMMA LinkParts ==
  ASSUME IInv, FlightInv, LinkInv, InLoop
  PROVE  /\ seen = Range(pending) \cup Range(deferred) \cup dispatched
         /\ dispatched = InFlight \cup Streamed \cup refused
         /\ Range(pending) \cap Range(deferred) = {}
         /\ (Range(pending) \cup Range(deferred)) \cap dispatched = {}
         /\ Injective(pending) /\ Injective(deferred)
         /\ IsFiniteSet(seen) /\ IsFiniteSet(refused)
         /\ Cardinality(seen) = Len(pending) + Len(deferred) + Cardinality(DOMAIN streams)
                                   + Len(also) + Cardinality(refused)
         /\ pending \in Seq(Link) /\ deferred \in Seq(Link) /\ also \in Seq(Filed)
         /\ Len(pending) \in Nat /\ Len(deferred) \in Nat /\ Len(also) \in Nat
         /\ IsFiniteSet(DOMAIN streams) /\ Cardinality(DOMAIN streams) \in Nat
         /\ Cardinality(refused) \in Nat /\ Cardinality(seen) \in Nat
  BY FS_CardinalityType, LenProperties DEF LinkInv, FlightInv, IInv, Types

LEMMA LinkInit == Init => LinkInv
  BY DEF Init, LinkInv, InLoop, InCallback

\* No link moves.
LEMMA SameLinks ==
  ASSUME LinkInv, InLoop' => InLoop /\ UNCHANGED <<seen, pending, deferred, dispatched, refused,
                                                   streams, also>>
  PROVE  LinkInv'
  BY DEF LinkInv, InFlight, Streamed

LEMMA RequestLinks ==
  ASSUME HopInv, Request
  PROVE  LinkInv'
  <1>1. /\ pc = "request" /\ DOMAIN streams' = {} /\ also' = also /\ seen' = {}
        /\ pending' = <<>> /\ deferred' = <<>> /\ dispatched' = {} /\ refused' = {}
    BY DEF Request, NewScanner, callVars, batchVars
  <1>2. also = <<>>
    BY <1>1 DEF HopInv, BetweenHops, Untouched
  <1>3. InFlight' = {} /\ Streamed' = {} /\ Range(pending') = {} /\ Range(deferred') = {}
    BY <1>1, <1>2 DEF InFlight, Streamed, Range
  <1>4. Injective(pending') /\ Injective(deferred')
    BY <1>1 DEF Injective
  <1> QED
    BY <1>1, <1>2, <1>3, <1>4, FS_EmptySet DEF LinkInv, Injective

\* A link that is found waits.
LEMMA FindLinks ==
  ASSUME FlightInv, LinkInv, IInv, FindLink
  PROVE  LinkInv'
  <1> DEFINE c == Candidate(target)
  <1>1. /\ pc = "scan" /\ pc' = pc /\ InLoop
        /\ UNCHANGED <<deferred, dispatched, refused, streams, also>>
        /\ seen' = seen \cup {c} /\ target \in Url /\ Scanning(target) /\ News(target)
    BY DEF FindLink, Find, callVars, batchVars, InLoop, InCallback, IInv, ConnInv, Looping
  <1>2. c \in Link /\ c \notin seen
    BY <1>1, CandidateType
  <1> HIDE DEF c
  <1>3. c \notin dispatched /\ c \notin Range(pending) /\ c \notin Range(deferred)
    BY <1>1, <1>2, LinkParts
  <1>4. pending' = Append(pending, c)
    BY <1>3 DEF FindLink, Enqueue, c
  <1>5. /\ Range(pending') = Range(pending) \cup {c} /\ Injective(pending')
        /\ Len(pending') = Len(pending) + 1
    <2>1. pending \in Seq(Link) /\ Injective(pending)
      BY <1>1, LinkParts
    <2>2. Range(Append(pending, c)) = Range(pending) \cup {c} /\ Injective(Append(pending, c))
      BY <1>2, <1>3, <2>1, RangeAppend
    <2>3. Len(Append(pending, c)) = Len(pending) + 1
      BY <1>2, <2>1, AppendProperties
    <2> QED BY <1>4, <2>2, <2>3 DEF Injective
  <1>6. IsFiniteSet(seen') /\ Cardinality(seen') = Cardinality(seen) + 1
    BY <1>1, <1>2, LinkParts, FS_AddElement
  <1>7. InFlight' = InFlight /\ Streamed' = Streamed
    BY <1>1 DEF InFlight, Streamed
  <1>8. Cardinality(seen') = Len(pending') + Len(deferred') + Cardinality(DOMAIN streams')
                               + Len(also') + Cardinality(refused')
    BY <1>1, <1>5, <1>6, LinkParts, SMTT(40)
  <1>9. /\ seen' = Range(pending') \cup Range(deferred') \cup dispatched'
        /\ Range(pending') \cap Range(deferred') = {}
        /\ (Range(pending') \cup Range(deferred')) \cap dispatched' = {}
    BY <1>1, <1>3, <1>5, LinkParts
  <1>10. /\ dispatched' = InFlight' \cup Streamed' \cup refused'
         /\ Injective(deferred') /\ IsFiniteSet(refused')
    BY <1>1, <1>7, LinkParts DEF Injective
  <1> QED
    BY <1>5, <1>6, <1>8, <1>9, <1>10 DEF LinkInv, Injective

\* The head of what waits is put aside, dropped or requested.
LEMMA DispatchLinks ==
  ASSUME FlightInv, LinkInv, HopInv, IInv, Defer \/ Drop \/ Dispatch
  PROVE  LinkInv'
  <1> DEFINE url == Head(pending)
             sid == Len(asked) + 1
             D == DOMAIN streams
  <1>1. /\ pc = "dispatch" /\ pc' = pc /\ InLoop /\ InLoop' /\ pending # <<>>
        /\ pending' = Tail(pending) /\ UNCHANGED <<seen, also>>
    BY DEF Defer, Drop, Dispatch, Dispatching, scannerVars, callVars, batchVars, InLoop, InCallback
  <1>2. /\ Range(pending) = {url} \cup Range(pending') /\ url \notin Range(pending')
        /\ Injective(pending') /\ Len(pending) = Len(pending') + 1 /\ Len(pending') \in Nat
    <2>1. pending \in Seq(Link) /\ Injective(pending)
      BY <1>1, LinkParts
    <2> QED BY <1>1, <2>1, RangeTail DEF Injective
  <1>3. url \in Link /\ url \in Range(pending)
    BY <1>1, <1>2, LinkParts, HeadTailTypes
  <1>4. url \notin dispatched /\ url \notin Range(deferred) /\ url \notin refused
    BY <1>1, <1>3, LinkParts
  <1> HIDE DEF url, sid
  <1>5. CASE Defer
    <2>1. deferred' = Append(deferred, url) /\ UNCHANGED <<dispatched, refused, streams>>
      BY <1>5 DEF Defer, url
    <2>2. /\ Range(deferred') = Range(deferred) \cup {url} /\ Injective(deferred')
          /\ Len(deferred') = Len(deferred) + 1
      <3>1. deferred \in Seq(Link) /\ Injective(deferred)
        BY <1>1, LinkParts
      <3>2. /\ Range(Append(deferred, url)) = Range(deferred) \cup {url}
            /\ Injective(Append(deferred, url))
        BY <1>3, <1>4, <3>1, RangeAppend
      <3>3. Len(Append(deferred, url)) = Len(deferred) + 1
        BY <1>3, <3>1, AppendProperties
      <3> QED BY <2>1, <3>2, <3>3 DEF Injective
    <2>3. /\ seen' = Range(pending') \cup Range(deferred') \cup dispatched'
          /\ Range(pending') \cap Range(deferred') = {}
          /\ (Range(pending') \cup Range(deferred')) \cap dispatched' = {}
      BY <1>1, <1>2, <1>4, <2>1, <2>2, LinkParts, ZenonT(60)
    <2>4. Cardinality(seen') = Len(pending') + Len(deferred') + Cardinality(DOMAIN streams')
                                 + Len(also') + Cardinality(refused')
      BY <1>1, <1>2, <2>1, <2>2, LinkParts
    <2>5. dispatched' = InFlight' \cup Streamed' \cup refused'
      BY <1>1, <2>1, LinkParts DEF InFlight, Streamed
    <2>6. IsFiniteSet(seen') /\ IsFiniteSet(refused')
      BY <1>1, <2>1, LinkParts
    <2> QED BY <1>2, <2>2, <2>3, <2>4, <2>5, <2>6 DEF LinkInv, Injective
  <1>6. CASE Drop
    <2>1. /\ dispatched' = dispatched \cup {url} /\ refused' = refused \cup {url}
          /\ UNCHANGED <<deferred, streams>>
      BY <1>4, <1>6 DEF Drop, url
    <2>2. IsFiniteSet(refused') /\ Cardinality(refused') = Cardinality(refused) + 1
      BY <1>1, <1>4, <2>1, LinkParts, FS_AddElement
    <2>3. /\ seen' = Range(pending') \cup Range(deferred') \cup dispatched'
          /\ Range(pending') \cap Range(deferred') = {}
          /\ (Range(pending') \cup Range(deferred')) \cap dispatched' = {}
      BY <1>1, <1>2, <1>4, <2>1, LinkParts
    <2>4. Cardinality(seen') = Len(pending') + Len(deferred') + Cardinality(DOMAIN streams')
                                 + Len(also') + Cardinality(refused')
      BY <1>1, <1>2, <2>1, <2>2, LinkParts
    <2>5. dispatched' = InFlight' \cup Streamed' \cup refused'
      BY <1>1, <2>1, LinkParts DEF InFlight, Streamed
    <2>6. IsFiniteSet(seen') /\ Injective(deferred')
      BY <1>1, <2>1, LinkParts DEF Injective
    <2> QED BY <1>2, <2>2, <2>3, <2>4, <2>5, <2>6 DEF LinkInv, Injective
  <1>7. CASE Dispatch
    <2>1. /\ dispatched' = dispatched \cup {url} /\ UNCHANGED <<deferred, refused>>
          /\ streams' = [s \in D \cup {sid} |->
                           IF s = sid THEN [url |-> url, seq |-> nextSeq] ELSE streams[s]]
      BY <1>7 DEF Dispatch, url, sid
    <2>2. sid \notin D
      <3>1. D \subseteq Stream /\ Stream = 1 .. Len(asked) /\ Len(asked) \in Nat
        BY <1>1 DEF IInv, HopInv, PageInv, Looping, Stream, Types, H2TypeOK
      <3> QED BY <3>1 DEF sid
    <2>3. /\ DOMAIN streams' = D \cup {sid} /\ streams'[sid].url = url
          /\ \A s \in D : streams'[s] = streams[s]
      BY <2>1, <2>2
    <2>4. Cardinality(DOMAIN streams') = Cardinality(D) + 1
      BY <1>1, <2>2, <2>3, LinkParts, FS_AddElement, ZenonT(60)
    <2>5. InFlight' = InFlight \cup {url}
      BY <2>3 DEF InFlight
    <2>6. dispatched' = InFlight' \cup Streamed' \cup refused'
      BY <1>1, <2>1, <2>5, LinkParts DEF Streamed
    <2>7. /\ seen' = Range(pending') \cup Range(deferred') \cup dispatched'
          /\ Range(pending') \cap Range(deferred') = {}
          /\ (Range(pending') \cup Range(deferred')) \cap dispatched' = {}
      BY <1>1, <1>2, <1>4, <2>1, LinkParts
    <2>8. Cardinality(seen') = Len(pending') + Len(deferred') + Cardinality(DOMAIN streams')
                                 + Len(also') + Cardinality(refused')
      BY <1>1, <1>2, <2>1, <2>4, LinkParts
    <2>9. IsFiniteSet(seen') /\ IsFiniteSet(refused') /\ Injective(deferred')
      BY <1>1, <2>1, LinkParts DEF Injective
    <2> QED BY <1>2, <2>6, <2>7, <2>8, <2>9 DEF LinkInv, Injective
  <1> QED
    BY <1>5, <1>6, <1>7

\* What was put aside waits again.
LEMMA ReturnLinks ==
  ASSUME FlightInv, LinkInv, IInv, CallbackReturns
  PROVE  LinkInv'
  <1>1. /\ InLoop /\ pending' = pending \o deferred /\ deferred' = <<>>
        /\ UNCHANGED <<seen, also, dispatched, refused, streams>>
    BY DEF CallbackReturns, scannerVars, callVars, batchVars, InLoop, InCallback
  <1>2. /\ Range(pending') = Range(pending) \cup Range(deferred) /\ Injective(pending')
        /\ Len(pending') = Len(pending) + Len(deferred)
    <2>1. /\ pending \in Seq(Link) /\ Injective(pending) /\ deferred \in Seq(Link)
          /\ Injective(deferred) /\ Range(pending) \cap Range(deferred) = {}
      BY <1>1, LinkParts
    <2>2. /\ Range(pending \o deferred) = Range(pending) \cup Range(deferred)
          /\ Injective(pending \o deferred)
          /\ Len(pending \o deferred) = Len(pending) + Len(deferred)
      BY <2>1, RangeConcat
    <2> QED BY <1>1, <2>2 DEF Injective
  <1>3. Range(deferred') = {} /\ Injective(deferred') /\ Len(deferred') = 0
    BY <1>1 DEF Range, Injective
  <1>4. InFlight' = InFlight /\ Streamed' = Streamed
    BY <1>1 DEF InFlight, Streamed
  <1>5. Cardinality(seen') = Len(pending') + Len(deferred') + Cardinality(DOMAIN streams')
                               + Len(also') + Cardinality(refused')
    BY <1>1, <1>2, <1>3, LinkParts
  <1>6. /\ seen' = Range(pending') \cup Range(deferred') \cup dispatched'
        /\ Range(pending') \cap Range(deferred') = {}
        /\ (Range(pending') \cup Range(deferred')) \cap dispatched' = {}
    BY <1>1, <1>2, <1>3, LinkParts
  <1>7. /\ dispatched' = InFlight' \cup Streamed' \cup refused'
        /\ IsFiniteSet(seen') /\ IsFiniteSet(refused')
    BY <1>1, <1>4, LinkParts
  <1> QED
    BY <1>2, <1>3, <1>5, <1>6, <1>7 DEF LinkInv, Injective

\* What is answered was in flight.
LEMMA AnsweredLinks ==
  ASSUME FlightInv, LinkInv, HopInv, IInv, OnSubresource
  PROVE  LinkInv'
  <1> DEFINE sid == Head(wire).sid
             r == [url |-> Own(sid).url, seq |-> Own(sid).seq, body |-> BodyOf(Head(wire))]
             D == DOMAIN streams
  <1>1. /\ pc = "recv" /\ InLoop /\ UNCHANGED <<seen, pending, deferred, dispatched, refused>>
        /\ wire # <<>> /\ Head(wire).kind = "answer" /\ sid # primarySid /\ wire' = Tail(wire)
        /\ UNCHANGED <<asked, answered>> /\ also' = Append(also, r) /\ streams' = Others(sid)
    BY DEF OnSubresource, Incoming, ReadFrame, queueVars, scannerVars, InLoop, InCallback
  <1>2. sid \in D
    <2>1. Expected(sid) /\ sid \in Stream
      BY <1>1, PopHop DEF HopInv, Ending
    <2> QED BY <1>1, <2>1 DEF HopInv, PageInv, Looping
  <1>3. r.url = streams[sid].url /\ r \in Filed
    <2>1. Head(wire) \in Frame /\ FrameOK(Head(wire))
      BY <1>1, ReadOK DEF IInv, Types
    <2> QED BY <1>1, <1>2, <2>1, FiledOK DEF Own, Filed, Link
  <1> HIDE DEF sid, r
  <1>4. DOMAIN streams' = D \ {sid} /\ \A t \in DOMAIN streams' : streams'[t] = streams[t]
    BY <1>1, OthersOK DEF IInv, Types
  <1>5. Cardinality(DOMAIN streams') = Cardinality(D) - 1
    BY <1>1, <1>2, <1>4, LinkParts, FS_RemoveElement, ZenonT(60)
  <1>6. also \in Seq(Filed)
    BY DEF IInv, Types
  <1>7. /\ Len(also') = Len(also) + 1 /\ also'[Len(also) + 1] = r /\ Len(also) \in Nat
        /\ DOMAIN also = 1 .. Len(also) /\ DOMAIN also' = 1 .. Len(also) + 1
        /\ \A k \in DOMAIN also : also'[k] = also[k]
    BY <1>1, <1>3, <1>6, AppendProperties
  <1>8. Streamed' = Streamed \cup {r.url} /\ InFlight = InFlight' \cup {r.url}
    <2>1. Streamed' = Streamed \cup {r.url}
      BY <1>7 DEF Streamed
    <2>2. InFlight = InFlight' \cup {r.url}
      BY <1>2, <1>3, <1>4 DEF InFlight
    <2> QED BY <2>1, <2>2
  <1>9. Cardinality(seen') = Len(pending') + Len(deferred') + Cardinality(DOMAIN streams')
                               + Len(also') + Cardinality(refused')
    <2>1. /\ Cardinality(seen) = Len(pending) + Len(deferred) + Cardinality(D) + Len(also)
                                   + Cardinality(refused)
          /\ Len(pending) \in Nat /\ Len(deferred) \in Nat /\ Cardinality(D) \in Nat
          /\ Cardinality(refused) \in Nat /\ Len(also) \in Nat
      BY <1>1, LinkParts
    <2>2. Len(also') = Len(also) + 1
      BY <1>7
    <2>3. UNCHANGED <<seen, pending, deferred, refused>>
      BY <1>1
    <2> QED BY <1>5, <2>1, <2>2, <2>3
  <1>10. dispatched' = InFlight' \cup Streamed' \cup refused'
    BY <1>1, <1>8, LinkParts
  <1>11. /\ seen' = Range(pending') \cup Range(deferred') \cup dispatched'
         /\ Range(pending') \cap Range(deferred') = {}
         /\ (Range(pending') \cup Range(deferred')) \cap dispatched' = {}
         /\ IsFiniteSet(seen') /\ IsFiniteSet(refused')
         /\ Injective(pending') /\ Injective(deferred')
    BY <1>1, LinkParts DEF Injective
  <1> QED
    BY <1>9, <1>10, <1>11 DEF LinkInv, Injective

LEMMA LinkNext == IInv /\ HopInv /\ FlightInv /\ LinkInv /\ [Next]_vars => LinkInv'
  <1> SUFFICES ASSUME IInv, HopInv, FlightInv, LinkInv, [Next]_vars PROVE LinkInv'
    OBVIOUS
  <1>1. CASE \/ Request \/ FindLink \/ Defer \/ Drop \/ Dispatch \/ CallbackReturns
             \/ OnSubresource
    BY <1>1, RequestLinks, FindLinks, DispatchLinks, ReturnLinks, AnsweredLinks
  <1>2. CASE \/ HopLimit \/ ParseFails \/ Reuse \/ Reconnect \/ ConnectFails \/ Connect
             \/ Unsupported \/ SubmitFails \/ TimesOut \/ LoopStops \/ ReadBreaks \/ SendBreaks
             \/ Follow \/ PageOver \/ SkipExtra \/ FetchExtra \/ NoMoreExtras \/ Finish
    <2>1. ~InLoop'
      BY <1>2 DEF HopLimit, ParseFails, Reuse, Reconnect, ConnectFails, Connect, Unsupported,
                  SubmitFails, TimesOut, LoopStops, ReadBreaks, SendBreaks, Follow, PageOver,
                  SkipExtra, FetchExtra, NoMoreExtras, Finish, Fail, Move, InLoop, InCallback
    <2> QED BY <2>1, SameLinks
  <1>3. CASE OnBodyChunk \/ OnPrimary
    <2>1. seen' = seen
      <3>1. ASSUME OnBodyChunk PROVE seen' = seen
        BY <3>1 DEF OnBodyChunk, Feed, Search, scannerVars
      <3>2. ASSUME OnPrimary PROVE seen' = seen
        BY <3>2 DEF OnPrimary, Finalize, Search, scannerVars
      <3> QED BY <1>3, <3>1, <3>2
    <2>2. /\ UNCHANGED <<pending, deferred, dispatched, refused, streams, also>>
          /\ (InLoop' => InLoop)
      BY <1>3 DEF OnBodyChunk, OnPrimary, callVars, batchVars, queueVars, InLoop, InCallback
    <2> QED BY <2>1, <2>2, SameLinks
  <1>4. CASE \/ LoopAgain \/ OtherChunk \/ OnFrame \/ NotNews \/ ScanDone \/ DoneReading
             \/ DoneSending \/ Deadline \/ Server \/ UNCHANGED vars
    <2>1. /\ UNCHANGED <<seen, pending, deferred, dispatched, refused, streams, also>>
          /\ (InLoop' => InLoop)
      BY <1>4 DEF LoopAgain, OtherChunk, OnFrame, NotNews, ScanDone, DoneReading, DoneSending,
                  Deadline, Server, Move, PassOver, Searched, vars, runtimeVars, callVars,
                  batchVars, stateVars, queueVars, scannerVars, InLoop, InCallback
    <2> QED BY <2>1, SameLinks
  <1> QED
    BY <1>1, <1>2, <1>3, <1>4 DEF Next, Client

\* A link that was found is never lost and never requested twice.
THEOREM NoLinkLost == NoStray => (Spec => []LinksConserved)
  <1> SUFFICES ASSUME NoStray PROVE Spec => []LinksConserved
    OBVIOUS
  <1>1. IInv /\ HopInv /\ [Next]_vars => HopInv'
    BY HopNext
  <1>2. LinkInv => LinksConserved
    BY DEF LinkInv, LinksConserved
  <1> QED
    BY <1>1, <1>2, Invariant, HopInit, FlightInit, FlightNext, LinkInit, LinkNext, PTL DEF Spec
====
