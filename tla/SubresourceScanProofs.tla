---- MODULE SubresourceScanProofs ----
(***************************************************************************)
(* What of a page is searched, in Subresources: every match that lies in a *)
(* window is found, up to the limit; the windows follow each other without *)
(* a gap; and when the loop of a page that has come ends by itself, they   *)
(* cover the page and nothing that was requested is outstanding.           *)
(***************************************************************************)
EXTENDS SubresourceStreamsProofs

Limit == opt.maxSubresources

\* The scan loop has gone through match k for window w.
Examined(k, w) == at = 0 \/ w # window \/ k < at

\* The matches found so far: those that lie in a window gone through.
Hit(k) == /\ Fetchable(Matched(target)[k].src)
          /\ \E w \in windows : Inside(Matched(target)[k], w) /\ Examined(k, w)

\* The links of those.
Found == {ResolveUrl(Matched(target)[k].src, target) : k \in {i \in DOMAIN Matched(target) : Hit(i)}}

\* What is found is what the windows hold, as far as they have been gone through.
ScanInv ==
  /\ pc # "scan" => at = 0
  /\ \A w \in windows : w.upto <= cursor
  /\ at # 0 => ~Full(Limit) /\ window \in windows
  /\ IsFiniteSet(seen) /\ (Limit > 0 => Cardinality(seen) <= Limit)
  /\ InLoop /\ ~Full(Limit) => seen = Found

\* The windows follow each other from the first byte to the cursor.
CoverInv == UNION {w.from + 1 .. w.upto : w \in windows} = 1 .. cursor

\* A frame of the page's body.
Piece(f) == f.kind = "chunk" /\ f.sid = primarySid

\* The pieces of the page arrive in order, up to what was sent, and before the
\* end of its stream; what has not arrived is on its way.
PieceInv ==
  pc \in Looping =>
    /\ asked[primarySid] = target
    /\ cursor <= buffered /\ buffered <= sent /\ sent <= BodySize[target]
    /\ \A k \in DOMAIN wire :
         Piece(wire[k]) => buffered < wire[k].data.upto /\ wire[k].data.upto <= sent
    /\ \A j, k \in DOMAIN wire :
         Piece(wire[j]) /\ Piece(wire[k]) /\ j < k => wire[j].data.upto < wire[k].data.upto
    /\ ~primaryDone => \/ buffered = sent \/ Full(Limit)
                       \/ \E k \in DOMAIN wire : Piece(wire[k]) /\ wire[k].data.upto = sent
    /\ \A j \in DOMAIN wire :
         wire[j].kind = "answer" /\ wire[j].sid = primarySid =>
           /\ sent = BodySize[target]
           /\ \A k \in DOMAIN wire : Piece(wire[k]) => k < j

\* A page that is complete was searched, and is the only one with a result.
DoneInv ==
  /\ pc \in {"hop", "connect", "request"} => ~primary.ok
  /\ pc \in Looping => /\ primary.ok <=> primaryDone
                       /\ redirect # NoUrl => ~primaryDone
                       /\ primaryDone => Full(Limit) \/ cursor = BodySize[target]

\* What waits between two callbacks is on another host, unless the server has
\* said goaway; what was put aside is always.
QueueInv ==
  pc \in Looping =>
    /\ \A k \in DOMAIN deferred : ~SameHost(deferred[k])
    /\ pc \notin {"scan", "dispatch"} /\ ~conn.goaway =>
         \A k \in DOMAIN pending : ~SameHost(pending[k])

\* Why the loop stops: a redirect to nowhere, of a page of which nothing has
\* come, or the end of the page and of all that was requested for it.
StopInv ==
  /\ pc = "after" => broken \/ ~running
  /\ pc \in Looping /\ ~running /\ ~conn.goaway /\ redirect = NoUrl =>
       /\ pc \notin {"scan", "dispatch"}
       /\ \/ sent = 0 /\ ~primaryDone /\ \A s \in Stream : ~Expected(s)
          \/ primaryDone /\ DOMAIN streams = {}

PageDoneInv == PieceInv /\ DoneInv /\ QueueInv /\ StopInv
----
(* The scanner's windows *)

LEMMA MatchedOK ==
  ASSUME target \in Url
  PROVE  /\ Matched(target) \in Seq(Match)
         /\ DOMAIN Matched(target) \subseteq Nat \ {0}
         /\ DOMAIN Matched(target) = 1 .. Len(Matched(target)) /\ Len(Matched(target)) \in Nat
  <1>1. Matched(target) \in Seq(Match)
    BY ScannerConstants DEF Matched
  <1> QED BY <1>1

LEMMA WindowsInit == Init => ScanInv /\ CoverInv
  <1> SUFFICES ASSUME Init PROVE ScanInv /\ CoverInv
    OBVIOUS
  <1>1. /\ cursor = 0 /\ at = 0 /\ seen = {} /\ windows = {} /\ ~InLoop
        /\ opt \in Options
    BY DEF Init, ScannerInit, InLoop, InCallback
  <1>2. IsFiniteSet(seen) /\ Cardinality(seen) = 0 /\ Limit \in Nat
    BY <1>1, FS_EmptySet, RuntimeConstants DEF Limit
  <1> QED
    BY <1>1, <1>2 DEF ScanInv, CoverInv

\* Nothing is searched.
LEMMA SameScan ==
  ASSUME ScanInv, CoverInv, UNCHANGED <<scannerVars, opt>>, pc' # "scan" => pc # "scan",
         InLoop' => InLoop /\ UNCHANGED target
  PROVE  ScanInv' /\ CoverInv'
  <1>1. UNCHANGED <<buffered, cursor, window, at, seen, windows>> /\ UNCHANGED Limit
    BY DEF scannerVars, Limit
  <1>2. Full(Limit)' <=> Full(Limit)
    BY <1>1 DEF Full
  <1>3. ASSUME InLoop', ~Full(Limit)' PROVE seen' = Found'
    <2>1. seen = Found /\ target' = target
      BY <1>2, <1>3 DEF ScanInv
    <2>2. Found' = Found
      BY <1>1, <2>1 DEF Found, Hit, Examined
    <2> QED BY <1>1, <2>1, <2>2
  <1> QED
    BY <1>1, <1>2, <1>3 DEF ScanInv, CoverInv

LEMMA RequestScan ==
  ASSUME IInv, Request
  PROVE  ScanInv' /\ CoverInv'
  <1>1. /\ pc' = "top" /\ cursor' = 0 /\ at' = 0 /\ seen' = {} /\ windows' = {} /\ opt' \in Options
    BY DEF Request, NewScanner, callVars, IInv, Types
  <1>2. IsFiniteSet(seen') /\ Cardinality(seen') = 0 /\ Limit' \in Nat
    BY <1>1, FS_EmptySet, RuntimeConstants DEF Limit
  <1>3. Found' = {}
    BY <1>1 DEF Found, Hit
  <1> QED
    BY <1>1, <1>2, <1>3 DEF ScanInv, CoverInv

\* A search starts, of a window that was not searched before.
LEMMA NewWindow ==
  ASSUME IInv, ScanInv, CoverInv, pc = "recv", pc' = "scan", UNCHANGED <<seen, opt, target>>,
         ~Full(Limit), NEW upto \in Nat, cursor < upto, Search(cursor, upto)
  PROVE  ScanInv' /\ CoverInv'
  <1>0. PICK w0 : w0 = [from |-> cursor, upto |-> upto]
    OBVIOUS
  <1>1. /\ at = 0 /\ at' = 1 /\ cursor' = upto /\ window' = w0 /\ windows' = windows \cup {w0}
        /\ w0.from = cursor /\ w0.upto = upto
    BY <1>0 DEF ScanInv, Search
  <1>2. cursor \in Nat /\ target \in Url /\ windows \subseteq [from : Nat, upto : Nat]
    BY DEF IInv, Types, ScannerTypeOK, ConnInv, Looping
  <1>3. \A w \in windows : w.upto \in Nat /\ w.upto <= cursor
    BY <1>2 DEF ScanInv
  <1>4. w0 \notin windows
    BY <1>1, <1>2, <1>3
  <1>5. Limit' = Limit /\ ~Full(Limit)'
    BY DEF Limit, Full
  <1>6. Found' = Found
    <2>1. ASSUME NEW k \in DOMAIN Matched(target) PROVE Hit(k)' <=> Hit(k)
      <3>1. k \in Nat \ {0}
        BY <1>2, MatchedOK
      <3>2. ~Examined(k, w0)'
        BY <1>1, <3>1 DEF Examined
      <3>3. \A w \in windows : Examined(k, w) /\ Examined(k, w)'
        BY <1>1, <1>4 DEF Examined
      <3>4. Matched(target)' = Matched(target)
        BY DEF Matched
      <3> QED BY <1>1, <3>2, <3>3, <3>4 DEF Hit
    <2> QED BY <2>1 DEF Found
  <1>7. seen' = Found'
    BY <1>6 DEF ScanInv, InLoop
  <1>8. \A w \in windows' : w.upto <= cursor'
    BY <1>1, <1>2, <1>3
  <1>9. ScanInv'
    BY <1>1, <1>5, <1>7, <1>8 DEF ScanInv
  <1>10. CoverInv'
    <2>1. UNION {w.from + 1 .. w.upto : w \in windows'}
            = (UNION {w.from + 1 .. w.upto : w \in windows}) \cup (cursor + 1 .. upto)
      <3> DEFINE S(w) == w.from + 1 .. w.upto
      <3>1. S(w0) = cursor + 1 .. upto
        BY <1>1
      <3> HIDE DEF S
      <3>2. UNION {S(w) : w \in windows'} = (UNION {S(w) : w \in windows}) \cup S(w0)
        BY <1>1
      <3> QED BY <3>1, <3>2 DEF S
    <2>2. 1 .. upto = (1 .. cursor) \cup (cursor + 1 .. upto)
      BY <1>2
    <2> QED BY <1>1, <2>1, <2>2 DEF CoverInv
  <1> QED
    BY <1>9, <1>10

LEMMA HeadFrame ==
  ASSUME H2TypeOK, WireInv, wire # <<>>
  PROVE  Head(wire) \in Frame /\ FrameOK(Head(wire)) /\ 1 \in DOMAIN wire /\ Head(wire) = wire[1]
  <1>1. wire \in Seq(Frame) /\ 1 \in DOMAIN wire /\ Head(wire) = wire[1]
    BY DEF H2TypeOK
  <1> QED BY <1>1 DEF WireInv

LEMMA ReadScan ==
  ASSUME IInv, ScanInv, CoverInv, OnBodyChunk \/ OnPrimary
  PROVE  ScanInv' /\ CoverInv'
  <1>1. pc = "recv" /\ pc' = "scan" /\ UNCHANGED <<opt, target>> /\ InLoop
    BY DEF OnBodyChunk, OnPrimary, callVars, InLoop
  <1>2. buffered \in Nat /\ cursor \in Nat /\ ScannerTypeOK
    BY DEF IInv, Types, ScannerTypeOK
  <1>3. CASE UNCHANGED scannerVars
    BY <1>1, <1>3, SameScan
  <1>4. CASE OnBodyChunk
    <2> DEFINE n == Head(wire).data.upto
    <2>1. Feed(n, Limit) /\ wire # <<>> /\ Head(wire).kind = "chunk"
      BY <1>4 DEF OnBodyChunk, Incoming, Limit
    <2>2. n \in Nat
      <3>1. FrameOK(Head(wire))
        BY <2>1, HeadFrame DEF IInv, Types
      <3> QED BY <2>1, <3>1 DEF FrameOK
    <2> HIDE DEF n
    <2>3. SafeEnd(n) \in Nat
      BY <2>2, ScannerConstants DEF SafeEnd
    <2>4. CASE UNCHANGED <<cursor, window, at, seen, windows>>
      <3>1. Limit' = Limit /\ (Full(Limit)' <=> Full(Limit))
        BY <1>1, <2>4 DEF Limit, Full
      <3>2. Found' = Found
        BY <1>1, <2>4 DEF Found, Hit, Examined
      <3> QED BY <1>1, <2>4, <3>1, <3>2 DEF ScanInv, CoverInv
    <2>5. CASE ~Full(Limit) /\ SafeEnd(n) > cursor /\ Search(cursor, SafeEnd(n)) /\ UNCHANGED seen
      <3>1. cursor < SafeEnd(n)
        BY <1>2, <2>3, <2>5
      <3> QED BY <1>1, <2>3, <2>5, <3>1, NewWindow
    <2> QED BY <1>3, <2>1, <2>4, <2>5 DEF Feed
  <1>5. CASE OnPrimary
    <2>1. Finalize(Limit)
      BY <1>5 DEF OnPrimary, Limit
    <2>2. CASE cursor < buffered /\ ~Full(Limit) /\ UNCHANGED seen /\ Search(cursor, buffered)
      BY <1>1, <1>2, <2>2, NewWindow
    <2> QED BY <1>3, <2>1, <2>2 DEF Finalize
  <1> QED
    BY <1>4, <1>5

\* The match the loop is at is gone through.
LEMMA Advance ==
  ASSUME IInv, ScanInv, target \in Url, Scanning(target), at' = at + 1,
         UNCHANGED <<window, windows, target>>
  PROVE  /\ ~(Inside(Matched(target)[at], window) /\ Fetchable(Matched(target)[at].src)) =>
              Found' = Found
         /\ Inside(Matched(target)[at], window) /\ Fetchable(Matched(target)[at].src) =>
              Found' = Found \cup {Candidate(target)}
  <1>0. PICK i : i = at
    OBVIOUS
  <1>1. /\ i \in DOMAIN Matched(target) /\ DOMAIN Matched(target) \subseteq Nat \ {0}
        /\ i \in Nat \ {0} /\ at' = i + 1
    BY <1>0, MatchedOK DEF Scanning
  <1>2. window \in windows
    BY <1>0, <1>1 DEF ScanInv
  <1>3. Matched(target)' = Matched(target)
    BY DEF Matched
  <1>4. ASSUME NEW k \in DOMAIN Matched(target), k # i PROVE Hit(k)' <=> Hit(k)
    <2>1. \A w : Examined(k, w)' <=> Examined(k, w)
      BY <1>0, <1>1, <1>4 DEF Examined
    <2> QED BY <1>3, <2>1 DEF Hit
  <1>5. \A w : Examined(i, w) <=> w # window
    BY <1>0, <1>1 DEF Examined
  <1>6. \A w : Examined(i, w)'
    BY <1>1 DEF Examined
  <1>7. /\ Hit(i)' <=> /\ Fetchable(Matched(target)[i].src)
                       /\ \E w \in windows : Inside(Matched(target)[i], w)
        /\ Hit(i) <=> /\ Fetchable(Matched(target)[i].src)
                      /\ \E w \in windows : Inside(Matched(target)[i], w) /\ w # window
    BY <1>3, <1>5, <1>6 DEF Hit
  <1>8. CASE ~(Inside(Matched(target)[i], window) /\ Fetchable(Matched(target)[i].src))
    <2>1. Hit(i)' <=> Hit(i)
      BY <1>7, <1>8
    <2>2. Found' = Found
      BY <1>3, <1>4, <2>1 DEF Found
    <2> QED BY <1>0, <1>8, <2>2
  <1>9. CASE Inside(Matched(target)[i], window) /\ Fetchable(Matched(target)[i].src)
    <2>1. Hit(i)'
      BY <1>2, <1>7, <1>9
    <2>2. Found' = Found \cup {ResolveUrl(Matched(target)[i].src, target)}
      <3> DEFINE D == DOMAIN Matched(target)
                 L(k) == ResolveUrl(Matched(target)[k].src, target)
      <3>1. Found' = {L(k) : k \in {j \in D : Hit(j)'}}
        BY <1>3 DEF Found, ResolveUrl
      <3>2. Found = {L(k) : k \in {j \in D : Hit(j)}}
        BY DEF Found
      <3>3. \A j \in D : Hit(j)' <=> Hit(j) \/ j = i
        BY <1>4, <2>1
      <3> HIDE DEF L, D
      <3>4. i \in D
        BY <1>1 DEF D
      <3>5. Found' = Found \cup {L(i)}
        BY <3>1, <3>2, <3>3, <3>4
      <3> QED BY <3>5 DEF L
    <2> QED BY <1>0, <1>9, <2>2 DEF Candidate
  <1> QED
    BY <1>8, <1>9

LEMMA SearchStep ==
  ASSUME IInv, ScanInv, CoverInv, NotNews \/ FindLink \/ ScanDone
  PROVE  ScanInv' /\ CoverInv'
  <1>1. /\ pc = "scan" /\ UNCHANGED <<opt, target, cursor, window, windows>> /\ InLoop
        /\ target \in Url /\ opt \in Options /\ at \in Nat
    BY DEF NotNews, FindLink, ScanDone, PassOver, Find, Searched, callVars, InLoop, InCallback,
           IInv, ConnInv, Types, ScannerTypeOK, Looping
  <1>2. Limit' = Limit /\ Limit \in Nat /\ CoverInv'
    BY <1>1, RuntimeConstants DEF Limit, CoverInv
  <1>3. \A w \in windows' : w.upto <= cursor'
    BY <1>1 DEF ScanInv
  <1>4. Scanning(target) => at # 0
    BY <1>1, MatchedOK DEF Scanning
  <1>5. CASE NotNews
    <2>1. /\ Scanning(target) /\ ~News(target) /\ at' = at + 1 /\ seen' = seen /\ pc' = pc
      BY <1>5 DEF NotNews, PassOver
    <2>2. Full(Limit)' <=> Full(Limit)
      BY <1>2, <2>1 DEF Full
    <2>3. ~Full(Limit) /\ window \in windows
      BY <1>4, <2>1 DEF ScanInv
    <2>4. seen = Found
      BY <1>1, <2>3 DEF ScanInv
    <2>5. Found' = Found
      BY <1>1, <2>1, <2>4, Advance DEF News
    <2> QED BY <1>1, <1>2, <1>3, <2>1, <2>2, <2>3, <2>4, <2>5 DEF ScanInv
  <1>6. CASE FindLink
    <2>1. /\ Scanning(target) /\ News(target) /\ seen' = seen \cup {Candidate(target)}
          /\ at' = IF Limit > 0 /\ Cardinality(seen) + 1 >= Limit THEN 0 ELSE at + 1
          /\ pc' = pc
      BY <1>6 DEF FindLink, Find, Limit
    <2>2. ~Full(Limit) /\ window \in windows /\ IsFiniteSet(seen)
      BY <1>4, <2>1 DEF ScanInv
    <2>3. Candidate(target) \notin seen
      BY <2>1 DEF News
    <2>4. /\ IsFiniteSet(seen') /\ Cardinality(seen') = Cardinality(seen) + 1
          /\ Cardinality(seen) \in Nat
      BY <2>1, <2>2, <2>3, FS_AddElement, FS_CardinalityType
    <2>5. Limit > 0 => Cardinality(seen') <= Limit
      BY <1>2, <2>2, <2>4 DEF Full
    <2>6. CASE Limit > 0 /\ Cardinality(seen) + 1 >= Limit
      <3>1. at' = 0 /\ Full(Limit)'
        BY <1>2, <2>1, <2>4, <2>6 DEF Full
      <3> QED BY <1>1, <1>2, <1>3, <2>1, <2>4, <2>5, <3>1 DEF ScanInv
    <2>7. CASE ~(Limit > 0 /\ Cardinality(seen) + 1 >= Limit)
      <3>1. at' = at + 1 /\ ~Full(Limit)'
        BY <1>2, <2>1, <2>4, <2>7 DEF Full
      <3>2. Found' = Found \cup {Candidate(target)}
        BY <1>1, <2>1, <3>1, Advance DEF News
      <3>3. seen' = Found'
        BY <1>1, <2>1, <2>2, <3>2 DEF ScanInv
      <3> QED BY <1>1, <1>2, <1>3, <2>1, <2>2, <2>4, <2>5, <3>1, <3>3 DEF ScanInv
    <2> QED BY <2>6, <2>7
  <1>7. CASE ScanDone
    <2>1. ~Scanning(target) /\ at' = 0 /\ seen' = seen /\ pc' = "dispatch"
      BY <1>7 DEF ScanDone, Searched
    <2>2. Full(Limit)' <=> Full(Limit)
      BY <1>2, <2>1 DEF Full
    <2>3. Found' = Found
      <3>1. ASSUME NEW k \in DOMAIN Matched(target) PROVE Hit(k)' <=> Hit(k)
        <4>1. at = 0 \/ k < at
          BY <1>1, <2>1, MatchedOK DEF Scanning
        <4>2. \A w : Examined(k, w) /\ Examined(k, w)'
          BY <2>1, <4>1 DEF Examined
        <4>3. Matched(target)' = Matched(target)
          BY <1>1 DEF Matched
        <4> QED BY <1>1, <4>2, <4>3 DEF Hit
      <3> QED BY <1>1, <3>1 DEF Found
    <2> QED BY <1>1, <1>2, <1>3, <2>1, <2>2, <2>3 DEF ScanInv
  <1> QED
    BY <1>5, <1>6, <1>7

LEMMA WindowsNext == IInv /\ ScanInv /\ CoverInv /\ [Next]_vars => ScanInv' /\ CoverInv'
  <1> SUFFICES ASSUME IInv, ScanInv, CoverInv, [Next]_vars PROVE ScanInv' /\ CoverInv'
    OBVIOUS
  <1>1. CASE Request \/ OnBodyChunk \/ OnPrimary \/ NotNews \/ FindLink \/ ScanDone
    BY <1>1, RequestScan, ReadScan, SearchStep
  <1>2. CASE \/ HopLimit \/ ParseFails \/ Reuse \/ Reconnect \/ ConnectFails \/ Connect
             \/ Unsupported \/ SubmitFails \/ TimesOut \/ LoopStops \/ ReadBreaks \/ SendBreaks
             \/ Follow \/ PageOver \/ SkipExtra \/ FetchExtra \/ NoMoreExtras \/ Finish
    <2>1. UNCHANGED <<scannerVars, opt>> /\ ~InLoop' /\ pc # "scan"
      BY <1>2 DEF HopLimit, ParseFails, Reuse, Reconnect, ConnectFails, Connect, Unsupported,
                  SubmitFails, TimesOut, LoopStops, ReadBreaks, SendBreaks, Follow, PageOver,
                  SkipExtra, FetchExtra, NoMoreExtras, Finish, Fail, Move, callVars, InLoop,
                  InCallback
    <2> QED BY <2>1, SameScan
  <1>3. CASE \/ LoopAgain \/ OtherChunk \/ OnSubresource \/ OnFrame \/ Defer \/ Drop \/ Dispatch
             \/ CallbackReturns \/ DoneReading \/ DoneSending \/ Deadline \/ Server
             \/ UNCHANGED vars
    <2>1. /\ UNCHANGED <<scannerVars, opt, target>> /\ (pc' # "scan" => pc # "scan")
          /\ InLoop' => InLoop
      BY <1>3 DEF LoopAgain, OtherChunk, OnSubresource, OnFrame, Defer, Drop, Dispatch,
                  CallbackReturns, DoneReading, DoneSending, Deadline, Server, Dispatching, Move,
                  vars, runtimeVars, callVars, InLoop, InCallback
    <2> QED BY <2>1, SameScan
  <1> QED
    BY <1>1, <1>2, <1>3 DEF Next, Client

THEOREM ScanCorrect == Spec => []ScanInv /\ []CoverInv
  <1>1. Init => ScanInv /\ CoverInv
    BY WindowsInit
  <1> QED BY <1>1, WindowsNext, Invariant, PTL DEF Spec

\* However many pieces a page comes in, what is found is what the windows hold,
\* up to the limit and never beyond it.
THEOREM WindowsAreSearched == Spec => []WindowsSearched
  <1>1. ScanInv => WindowsSearched
    <2> SUFFICES ASSUME ScanInv PROVE WindowsSearched
      OBVIOUS
    <2>1. Limit > 0 => Cardinality(seen) <= Limit
      BY DEF ScanInv
    <2>2. ASSUME InLoop, pc # "scan", ~Full(Limit)
          PROVE  seen = {ResolveUrl(m.src, target) :
                           m \in {n \in Range(Matched(target)) :
                                    Fetchable(n.src) /\ \E w \in windows : Inside(n, w)}}
      <3> DEFINE M == Matched(target)
                 Good(m) == Fetchable(m.src) /\ \E w \in windows : Inside(m, w)
      <3>1. seen = {ResolveUrl(M[k].src, target) : k \in {i \in DOMAIN M : Good(M[i])}}
        <4>1. seen = Found /\ at = 0
          BY <2>2 DEF ScanInv
        <4>2. \A k \in DOMAIN M : Hit(k) <=> Good(M[k])
          BY <4>1 DEF Hit, Examined
        <4> QED BY <4>1, <4>2 DEF Found
      <3>2. Range(M) = {M[k] : k \in DOMAIN M}
        BY DEF Range
      <3> HIDE DEF M, Good
      <3>3. seen = {ResolveUrl(m.src, target) : m \in {n \in Range(M) : Good(n)}}
        BY <3>1, <3>2
      <3> QED BY <3>3 DEF M, Good
    <2> QED BY <2>1, <2>2 DEF WindowsSearched, Limit
  <1> QED BY <1>1, ScanCorrect, PTL
----
(* The page's body, from the server to the scanner *)

\* What has been found stays found.
LEMMA FullStays ==
  ASSUME ScanInv, IInv, pc \in Looping, pc' \in Looping, [Next]_vars, ~Request
  PROVE  Full(Limit) => Full(Limit)'
  <1>1. CASE UNCHANGED <<seen, opt>>
    BY <1>1 DEF Full, Limit
  <1>2. CASE NotNews \/ FindLink
    <2>1. pc = "scan" /\ Scanning(target) /\ target \in Url
      BY <1>2 DEF NotNews, FindLink, PassOver, Find, IInv, ConnInv
    <2>2. at # 0
      BY <2>1, MatchedOK DEF Scanning
    <2> QED BY <2>2 DEF ScanInv
  <1>3. CASE OnBodyChunk \/ OnPrimary
    <2>1. UNCHANGED <<seen, opt>>
      BY <1>3 DEF OnBodyChunk, OnPrimary, Feed, Finalize, callVars, scannerVars
    <2> QED BY <1>1, <2>1
  <1>4. CASE Server \/ Deadline \/ UNCHANGED vars
    BY <1>1, <1>4 DEF Server, Deadline, vars, runtimeVars, callVars, scannerVars
  <1>5. CASE \/ LoopAgain \/ LoopStops \/ OtherChunk \/ OnSubresource \/ OnFrame \/ ScanDone
             \/ Defer \/ Drop \/ Dispatch \/ CallbackReturns \/ DoneReading \/ ReadBreaks
             \/ DoneSending \/ SendBreaks
    BY <1>1, <1>5 DEF LoopAgain, LoopStops, OtherChunk, OnSubresource, OnFrame, ScanDone, Searched,
                  Defer, Drop, Dispatch, CallbackReturns, DoneReading, ReadBreaks, DoneSending,
                  SendBreaks, Move, runtimeVars, callVars, scannerVars
  <1>6. CASE \/ HopLimit \/ ParseFails \/ Reuse \/ Reconnect \/ ConnectFails \/ Connect
             \/ Unsupported \/ SubmitFails \/ TimesOut \/ Follow \/ PageOver \/ SkipExtra
             \/ FetchExtra \/ NoMoreExtras \/ Finish
    BY <1>6 DEF HopLimit, ParseFails, Reuse, Reconnect, ConnectFails, Connect, Unsupported,
                SubmitFails, TimesOut, Follow, PageOver, SkipExtra, FetchExtra, NoMoreExtras,
                Finish, Fail, Move, Looping
  <1> QED
    BY <1>2, <1>3, <1>4, <1>5, <1>6 DEF Next, Client

\* Nothing of the page arrives, and nothing is sent.
LEMMA SamePieces ==
  ASSUME PieceInv, UNCHANGED <<wire, target, primarySid, buffered, cursor, sent, primaryDone>>,
         pc' \in Looping => /\ pc \in Looping /\ asked'[primarySid] = asked[primarySid]
                            /\ Full(Limit) => Full(Limit)'
  PROVE  PieceInv'
  BY DEF PieceInv, Piece

LEMMA RequestPieces ==
  ASSUME HopInv, IInv, Request
  PROVE  PieceInv'
  <1>1. /\ pc = "request" /\ pc' = "top" /\ wire' = wire /\ target' = target
        /\ asked' = Append(asked, target) /\ primarySid' = Len(asked) + 1
        /\ sent' = 0 /\ buffered' = 0 /\ cursor' = 0
    BY DEF Request, SendHeader, NewScanner, callVars
  <1>2. target \in Url /\ asked \in Seq(Url) /\ WireInv
    BY <1>1 DEF IInv, Types, H2TypeOK, ConnInv
  <1>3. asked'[primarySid'] = target' /\ primarySid' \notin Stream
    BY <1>1, <1>2, AppendProperties DEF Stream
  <1>4. \A k \in DOMAIN wire : wire[k].kind # "chunk"
    BY <1>1 DEF HopInv, BetweenHops, Untouched
  <1>5. \A k \in DOMAIN wire : wire[k].kind = "answer" => wire[k].sid \in Stream
    BY <1>2 DEF WireInv, FrameOK
  <1>6. BodySize[target'] \in Nat
    BY <1>1, <1>2, ScannerConstants
  <1> QED
    BY <1>1, <1>3, <1>4, <1>5, <1>6 DEF PieceInv, Piece

\* The frames that are left, when the first one is read.
LEMMA Shifted ==
  ASSUME H2TypeOK, wire # <<>>, wire' = Tail(wire)
  PROVE  /\ DOMAIN wire \subseteq Nat \ {0} /\ DOMAIN wire' \subseteq Nat \ {0}
         /\ \A k \in DOMAIN wire' : k + 1 \in DOMAIN wire /\ wire'[k] = wire[k + 1]
         /\ \A k \in DOMAIN wire : k = 1 \/ (k - 1 \in DOMAIN wire' /\ wire'[k - 1] = wire[k])
         /\ Head(wire) = wire[1] /\ 1 \in DOMAIN wire
  <1>1. /\ wire \in Seq(Frame) /\ Len(wire) \in Nat \ {0} /\ DOMAIN wire = 1 .. Len(wire)
        /\ Len(wire') = Len(wire) - 1 /\ DOMAIN wire' = 1 .. Len(wire')
        /\ \A k \in 1 .. Len(wire') : wire'[k] = wire[k + 1]
        /\ Head(wire) = wire[1]
    BY HeadTailProperties, EmptySeq, LenProperties DEF H2TypeOK
  <1> QED BY <1>1

LEMMA PieceTypes ==
  ASSUME IInv, PieceInv, pc \in Looping
  PROVE  /\ sent \in Nat /\ buffered \in Nat /\ cursor \in Nat
         /\ target \in Url /\ BodySize[target] \in Nat
         /\ \A k \in DOMAIN wire : wire[k].kind = "chunk" => wire[k].data.upto \in Nat
         /\ asked[primarySid] = target
         /\ cursor <= buffered /\ buffered <= sent /\ sent <= BodySize[target]
         /\ \A k \in DOMAIN wire :
              Piece(wire[k]) => buffered < wire[k].data.upto /\ wire[k].data.upto <= sent
         /\ \A j, k \in DOMAIN wire :
              Piece(wire[j]) /\ Piece(wire[k]) /\ j < k => wire[j].data.upto < wire[k].data.upto
         /\ ~primaryDone => \/ buffered = sent \/ Full(Limit)
                            \/ \E k \in DOMAIN wire : Piece(wire[k]) /\ wire[k].data.upto = sent
         /\ \A j \in DOMAIN wire :
              wire[j].kind = "answer" /\ wire[j].sid = primarySid =>
                /\ sent = BodySize[target]
                /\ \A k \in DOMAIN wire : Piece(wire[k]) => k < j
  <1>1. sent \in Nat /\ buffered \in Nat /\ cursor \in Nat /\ target \in Url /\ WireInv
    BY DEF IInv, Types, ScannerTypeOK, ConnInv
  <1>2. BodySize[target] \in Nat
    BY <1>1, ScannerConstants
  <1>3. \A k \in DOMAIN wire : wire[k].kind = "chunk" => wire[k].data.upto \in Nat
    BY <1>1 DEF WireInv, FrameOK
  <1> QED BY <1>1, <1>2, <1>3 DEF PieceInv

\* A frame is read that is no piece of a page still expected.
LEMMA OtherPieces ==
  ASSUME PieceInv, IInv, pc \in Looping, wire # <<>>, wire' = Tail(wire),
         UNCHANGED <<asked, target, primarySid, buffered, sent>>,
         Full(Limit) => Full(Limit)', cursor' \in {cursor, buffered},
         primaryDone' \/ (~primaryDone /\ ~Piece(Head(wire)))
  PROVE  PieceInv'
  <1>1. /\ DOMAIN wire \subseteq Nat \ {0} /\ DOMAIN wire' \subseteq Nat \ {0}
        /\ \A k \in DOMAIN wire' : k + 1 \in DOMAIN wire /\ wire'[k] = wire[k + 1]
        /\ \A k \in DOMAIN wire : k = 1 \/ (k - 1 \in DOMAIN wire' /\ wire'[k - 1] = wire[k])
        /\ Head(wire) = wire[1] /\ 1 \in DOMAIN wire
    BY Shifted DEF IInv, Types
  <1>2. \A f : Piece(f)' <=> Piece(f)
    BY DEF Piece
  <1>3. /\ asked'[primarySid'] = target' /\ sent' <= BodySize[target']
        /\ cursor' <= buffered' /\ buffered' <= sent'
    BY PieceTypes
  <1>4. \A k \in DOMAIN wire' :
          Piece(wire'[k]) => buffered' < wire'[k].data.upto /\ wire'[k].data.upto <= sent'
    BY <1>1, PieceTypes
  <1>5. ASSUME NEW j \in DOMAIN wire', NEW k \in DOMAIN wire', Piece(wire'[j]), Piece(wire'[k]),
               j < k
        PROVE  wire'[j].data.upto < wire'[k].data.upto
    <2>1. j + 1 \in DOMAIN wire /\ k + 1 \in DOMAIN wire /\ j + 1 < k + 1
      BY <1>1, <1>5
    <2> QED BY <1>1, <1>5, <2>1, PieceTypes
  <1>6. ASSUME ~primaryDone'
        PROVE  \/ buffered' = sent' \/ Full(Limit)'
               \/ \E k \in DOMAIN wire' : Piece(wire'[k]) /\ wire'[k].data.upto = sent'
    <2>1. \/ buffered = sent \/ Full(Limit)
          \/ \E k \in DOMAIN wire : Piece(wire[k]) /\ wire[k].data.upto = sent
      BY <1>6, PieceTypes
    <2>2. ASSUME NEW k \in DOMAIN wire, Piece(wire[k]), wire[k].data.upto = sent
          PROVE  \E i \in DOMAIN wire' : Piece(wire'[i]) /\ wire'[i].data.upto = sent'
      <3>1. k # 1
        BY <1>1, <1>6, <2>2
      <3> QED BY <1>1, <2>2, <3>1
    <2> QED BY <2>1, <2>2
  <1>7. ASSUME NEW j \in DOMAIN wire', wire'[j].kind = "answer", wire'[j].sid = primarySid,
               NEW k \in DOMAIN wire', Piece(wire'[k])
        PROVE  k < j
    <2>1. k + 1 < j + 1
      BY <1>1, <1>7, PieceTypes
    <2> QED BY <1>1, <2>1
  <1>8. \A j \in DOMAIN wire' :
          wire'[j].kind = "answer" /\ wire'[j].sid = primarySid => sent' = BodySize[target']
    BY <1>1, PieceTypes
  <1> QED
    BY <1>2, <1>3, <1>4, <1>5, <1>6, <1>7, <1>8 DEF PieceInv

\* The first piece under way reaches the scanner.
LEMMA ChunkPieces ==
  ASSUME PieceInv, IInv, ScanInv, OnBodyChunk
  PROVE  PieceInv'
  <1> DEFINE f == Head(wire)
             n == f.data.upto
  <1>1. /\ pc = "recv" /\ pc \in Looping /\ wire # <<>> /\ wire' = Tail(wire) /\ Piece(f)
        /\ ~primaryDone /\ UNCHANGED <<asked, target, primarySid, sent, primaryDone, opt>>
        /\ Feed(n, Limit)
    BY DEF OnBodyChunk, Incoming, ReadFrame, callVars, Piece, Limit, Looping
  <1>2. Full(Limit) => Full(Limit)'
    BY <1>1 DEF Feed, Full, Limit, scannerVars
  <1>3. /\ DOMAIN wire \subseteq Nat \ {0} /\ DOMAIN wire' \subseteq Nat \ {0}
        /\ \A k \in DOMAIN wire' : k + 1 \in DOMAIN wire /\ wire'[k] = wire[k + 1]
        /\ \A k \in DOMAIN wire : k = 1 \/ (k - 1 \in DOMAIN wire' /\ wire'[k - 1] = wire[k])
        /\ f = wire[1] /\ 1 \in DOMAIN wire
    BY <1>1, Shifted DEF IInv, Types
  <1>4. buffered < n /\ n <= sent /\ n \in Nat
    BY <1>1, <1>3, PieceTypes DEF Piece
  <1> HIDE DEF f, n
  <1>5. SafeEnd(n) \in Nat /\ SafeEnd(n) <= n
    BY <1>4, ScannerConstants DEF SafeEnd
  <1>6. /\ buffered' \in {buffered, n} /\ cursor' <= buffered'
        /\ Full(Limit) \/ buffered' = n
    <2>1. cursor <= buffered /\ buffered \in Nat /\ cursor \in Nat
      BY <1>1, PieceTypes
    <2> QED BY <1>1, <1>4, <1>5, <2>1 DEF Feed, Search, scannerVars
  <1>7. \A g : Piece(g)' <=> Piece(g)
    BY <1>1 DEF Piece
  <1>8. /\ asked'[primarySid'] = target' /\ sent' <= BodySize[target'] /\ buffered' <= sent'
    BY <1>1, <1>4, <1>6, PieceTypes
  <1>9. ASSUME NEW k \in DOMAIN wire', Piece(wire'[k])
        PROVE  buffered' < wire'[k].data.upto /\ wire'[k].data.upto <= sent'
    <2>1. /\ k + 1 \in DOMAIN wire /\ wire'[k] = wire[k + 1] /\ 1 < k + 1
      BY <1>3, <1>9
    <2>2. n < wire'[k].data.upto
      BY <1>1, <1>3, <1>9, <2>1, PieceTypes DEF n
    <2>3. buffered < wire'[k].data.upto /\ wire'[k].data.upto <= sent
      BY <1>1, <1>9, <2>1, PieceTypes
    <2> QED BY <1>1, <1>6, <2>2, <2>3
  <1>10. ASSUME NEW j \in DOMAIN wire', NEW k \in DOMAIN wire', Piece(wire'[j]), Piece(wire'[k]),
                j < k
         PROVE  wire'[j].data.upto < wire'[k].data.upto
    <2>1. j + 1 \in DOMAIN wire /\ k + 1 \in DOMAIN wire /\ j + 1 < k + 1
      BY <1>3, <1>10
    <2> QED BY <1>1, <1>3, <1>10, <2>1, PieceTypes
  <1>11. \/ buffered' = sent' \/ Full(Limit)'
         \/ \E k \in DOMAIN wire' : Piece(wire'[k]) /\ wire'[k].data.upto = sent'
    <2>1. \/ buffered = sent \/ Full(Limit)
          \/ \E k \in DOMAIN wire : Piece(wire[k]) /\ wire[k].data.upto = sent
      BY <1>1, PieceTypes
    <2>2. buffered # sent
      BY <1>1, <1>4, PieceTypes
    <2>3. ASSUME NEW k \in DOMAIN wire, Piece(wire[k]), wire[k].data.upto = sent, ~Full(Limit)
          PROVE  \/ buffered' = sent'
                 \/ \E i \in DOMAIN wire' : Piece(wire'[i]) /\ wire'[i].data.upto = sent'
      <3>1. CASE k = 1
        BY <1>1, <1>3, <1>6, <2>3, <3>1 DEF n
      <3>2. CASE k # 1
        BY <1>1, <1>3, <2>3, <3>2
      <3> QED BY <3>1, <3>2
    <2> QED BY <1>2, <2>1, <2>2, <2>3
  <1>12. ASSUME NEW j \in DOMAIN wire', wire'[j].kind = "answer", wire'[j].sid = primarySid,
                NEW k \in DOMAIN wire', Piece(wire'[k])
         PROVE  k < j
    <2>1. k + 1 < j + 1
      BY <1>1, <1>3, <1>12, PieceTypes
    <2> QED BY <1>3, <2>1
  <1>13. \A j \in DOMAIN wire' :
           wire'[j].kind = "answer" /\ wire'[j].sid = primarySid => sent' = BodySize[target']
    BY <1>1, <1>3, PieceTypes
  <1> QED
    BY <1>1, <1>6, <1>7, <1>8, <1>9, <1>10, <1>11, <1>12, <1>13 DEF PieceInv

LEMMA ServerPieces ==
  ASSUME PieceInv, HopInv, IInv, Server, pc \in Looping
  PROVE  PieceInv'
  <1>1. PICK f \in Frame : FrameOK(f) /\ Sends(f)
    BY ServerSends
  <1>2. /\ wire' = Append(wire, f) /\ wire \in Seq(Frame) /\ sent \in Nat
        /\ UNCHANGED <<asked, target, primarySid, buffered, cursor, primaryDone, opt, seen>>
        /\ f.kind = "chunk" /\ sent' = sent => f.sid \in DOMAIN streams
        /\ f.kind = "answer" /\ f.sid = primarySid => sent = BodySize[asked[primarySid]]
        /\ \/ sent' = sent
           \/ /\ sent' > sent /\ sent' <= BodySize[target]
              /\ f.kind = "chunk" /\ f.sid = primarySid /\ f.data.upto = sent'
              /\ primarySid \notin answered
    BY <1>1 DEF Sends, runtimeVars, callVars, scannerVars, stateVars, IInv, Types, H2TypeOK
  <1>3. primarySid \notin DOMAIN streams /\ WireOrder
    BY DEF HopInv, PageInv
  <1>4. sent' \in Nat
    BY ServerSends
  <1>5. PICK last \in Nat : last = Len(wire) + 1
    BY <1>2
  <1>6. /\ DOMAIN wire' = DOMAIN wire \cup {last} /\ wire'[last] = f
        /\ \A k \in DOMAIN wire : k \in Nat /\ k < last /\ wire'[k] = wire[k]
    BY <1>2, <1>5, AppendProperties
  <1>7. Piece(f) => sent' > sent /\ f.data.upto = sent'
    BY <1>2, <1>3 DEF Piece
  <1>8. sent' # sent => /\ Piece(f)
                        /\ \A j \in DOMAIN wire : wire[j].kind = "answer" => wire[j].sid # primarySid
    BY <1>2, <1>3 DEF Piece, WireOrder, Ending
  <1>9. (Full(Limit)' <=> Full(Limit)) /\ (\A g : Piece(g)' <=> Piece(g))
    BY <1>2 DEF Full, Limit, Piece
  <1>10. sent <= sent' /\ sent' <= BodySize[target]
    BY <1>2, <1>4, PieceTypes
  <1>11. /\ asked'[primarySid'] = target' /\ cursor' <= buffered' /\ buffered' <= sent'
         /\ sent' <= BodySize[target']
    BY <1>2, <1>4, <1>10, PieceTypes
  <1>12. ASSUME NEW k \in DOMAIN wire', Piece(wire'[k])
         PROVE  buffered' < wire'[k].data.upto /\ wire'[k].data.upto <= sent'
    <2>1. CASE k \in DOMAIN wire
      <3>1. wire'[k].data.upto \in Nat /\ buffered < wire'[k].data.upto
            /\ wire'[k].data.upto <= sent
        BY <1>6, <1>12, <2>1, PieceTypes DEF Piece
      <3> QED BY <1>2, <1>4, <1>10, <3>1
    <2>2. CASE k = last
      BY <1>2, <1>4, <1>6, <1>7, <1>12, <2>2, PieceTypes
    <2> QED BY <1>6, <2>1, <2>2
  <1>13. ASSUME NEW j \in DOMAIN wire', NEW k \in DOMAIN wire', Piece(wire'[j]), Piece(wire'[k]),
                j < k
         PROVE  wire'[j].data.upto < wire'[k].data.upto
    <2>1. j \in DOMAIN wire
      BY <1>6, <1>13
    <2>2. CASE k \in DOMAIN wire
      BY <1>6, <1>13, <2>1, <2>2, PieceTypes
    <2>3. CASE k = last
      <3>1. wire'[j].data.upto \in Nat /\ wire'[j].data.upto <= sent
        BY <1>6, <1>13, <2>1, PieceTypes DEF Piece
      <3>2. sent' > sent /\ wire'[k].data.upto = sent'
        BY <1>6, <1>7, <1>13, <2>3
      <3> QED BY <1>2, <1>4, <3>1, <3>2
    <2> QED BY <1>6, <2>2, <2>3
  <1>14. ASSUME ~primaryDone'
         PROVE  \/ buffered' = sent' \/ Full(Limit)'
                \/ \E k \in DOMAIN wire' : Piece(wire'[k]) /\ wire'[k].data.upto = sent'
    <2>1. CASE sent' = sent
      <3>1. \/ buffered = sent \/ Full(Limit)
            \/ \E k \in DOMAIN wire : Piece(wire[k]) /\ wire[k].data.upto = sent
        BY <1>2, <1>14, PieceTypes
      <3> QED BY <1>2, <1>6, <1>9, <2>1, <3>1
    <2>2. CASE sent' # sent
      BY <1>6, <1>7, <1>8, <2>2
    <2> QED BY <2>1, <2>2
  <1>15. ASSUME NEW j \in DOMAIN wire', wire'[j].kind = "answer", wire'[j].sid = primarySid
         PROVE  sent' = BodySize[target'] /\ \A k \in DOMAIN wire' : Piece(wire'[k]) => k < j
    <2>1. CASE j \in DOMAIN wire
      <3>1. sent' = sent
        BY <1>6, <1>8, <1>15, <2>1
      <3>2. sent = BodySize[target] /\ \A k \in DOMAIN wire : Piece(wire[k]) => k < j
        BY <1>6, <1>15, <2>1, PieceTypes
      <3>3. ~Piece(f)
        BY <1>2, <1>7, <3>1
      <3> QED BY <1>2, <1>6, <3>1, <3>2, <3>3
    <2>2. CASE j = last
      <3>1. f.kind = "answer" /\ f.sid = primarySid /\ ~Piece(f)
        BY <1>6, <1>15, <2>2 DEF Piece
      <3>2. sent' = sent /\ sent = BodySize[target]
        BY <1>2, <1>8, <3>1, PieceTypes
      <3> QED BY <1>2, <1>6, <2>2, <3>1, <3>2
    <2> QED BY <1>6, <2>1, <2>2
  <1> QED
    BY <1>2, <1>9, <1>11, <1>12, <1>13, <1>14, <1>15 DEF PieceInv

LEMMA PiecesNext ==
  ASSUME NoStray, IInv, HopInv, ScanInv, PieceInv, [Next]_vars
  PROVE  PieceInv'
  <1> SUFFICES ASSUME pc' \in Looping PROVE PieceInv'
    BY DEF PieceInv
  <1>1. CASE Request
    BY <1>1, RequestPieces
  <1>2. CASE OnBodyChunk
    BY <1>2, ChunkPieces
  <1>3. CASE Server
    BY <1>3, ServerPieces DEF Server, runtimeVars
  <1>4. CASE OtherChunk \/ OnPrimary \/ OnSubresource \/ OnFrame
    <2>1. /\ pc \in Looping /\ wire # <<>> /\ wire' = Tail(wire) /\ ~Request
          /\ UNCHANGED <<asked, target, primarySid, buffered, sent>>
      BY <1>4 DEF OtherChunk, OnPrimary, OnSubresource, OnFrame, Incoming, ReadFrame, Consume,
                  RecvRedirect, RecvRst, RecvGoaway, Finalize, Search, Request, runtimeVars,
                  callVars, stateVars, scannerVars, Looping
    <2>2. cursor' \in {cursor, buffered}
      BY <1>4 DEF OtherChunk, OnPrimary, OnSubresource, OnFrame, Finalize, Search, runtimeVars,
                  scannerVars
    <2>3. primaryDone \in BOOLEAN
      BY DEF IInv, Types
    <2>4. primaryDone' \/ (~primaryDone /\ ~Piece(Head(wire)))
      BY <1>4, <2>3 DEF OtherChunk, OnPrimary, OnSubresource, OnFrame, Incoming, RecvRedirect,
                        RecvRst, RecvGoaway, Piece, runtimeVars, stateVars
    <2> QED BY <2>1, <2>2, <2>4, FullStays, OtherPieces
  <1>5. CASE \/ LoopAgain \/ LoopStops \/ NotNews \/ FindLink \/ ScanDone \/ Defer \/ Drop
             \/ Dispatch \/ CallbackReturns \/ DoneReading \/ ReadBreaks \/ DoneSending
             \/ SendBreaks \/ Deadline \/ UNCHANGED vars
    <2>1. /\ UNCHANGED <<wire, target, primarySid, buffered, cursor, sent, primaryDone>>
          /\ pc \in Looping /\ ~Request
      BY <1>5 DEF LoopAgain, LoopStops, NotNews, FindLink, ScanDone, Defer, Drop, Dispatch,
                  CallbackReturns, DoneReading, ReadBreaks, DoneSending, SendBreaks, Deadline,
                  PassOver, Find, Searched, RecvFails, SendFails, DeadlinePasses, Dispatching, Move,
                  Request, vars, h2Vars, sessionVars, loopVars, runtimeVars, callVars, stateVars,
                  scannerVars, Looping
    <2>2. asked'[primarySid] = asked[primarySid]
      <3>1. CASE Dispatch
        <4>1. asked' = Append(asked, Head(pending)) /\ asked \in Seq(Url) /\ Head(pending) \in Url
          <5>1. Head(pending) \in Link
            BY <3>1, HeadTailTypes DEF Dispatch, Dispatching, IInv, Types
          <5> QED BY <3>1, <5>1 DEF Dispatch, SameHost, Link, IInv, Types, H2TypeOK
        <4>2. primarySid \in DOMAIN asked
          BY <2>1 DEF HopInv, PageInv, Stream
        <4> QED BY <4>1, <4>2, AppendProperties
      <3>2. CASE ~Dispatch
        BY <1>5, <3>2 DEF LoopAgain, LoopStops, NotNews, FindLink, ScanDone, Defer, Drop,
                    CallbackReturns, DoneReading, ReadBreaks, DoneSending, SendBreaks, Deadline,
                    RecvFails, SendFails, DeadlinePasses, vars, h2Vars, sessionVars
      <3> QED BY <3>1, <3>2
    <2> QED BY <2>1, <2>2, FullStays, SamePieces
  <1>6. CASE \/ HopLimit \/ ParseFails \/ Reuse \/ Reconnect \/ ConnectFails \/ Connect
             \/ Unsupported \/ SubmitFails \/ TimesOut \/ Follow \/ PageOver \/ SkipExtra
             \/ FetchExtra \/ NoMoreExtras \/ Finish
    BY <1>6 DEF HopLimit, ParseFails, Reuse, Reconnect, ConnectFails, Connect, Unsupported,
                SubmitFails, TimesOut, Follow, PageOver, SkipExtra, FetchExtra, NoMoreExtras,
                Finish, Fail, Move, Looping
  <1> QED
    BY <1>1, <1>2, <1>3, <1>4, <1>5, <1>6 DEF Next, Client
----
(* The page's result *)

\* The end of the page finds it searched, or the limit reached.
LEMMA PrimaryDone ==
  ASSUME IInv, HopInv, ScanInv, PieceInv, OnPrimary
  PROVE  /\ Full(Limit)' \/ cursor' = BodySize[target']
         /\ redirect' = NoUrl
  <1>1. /\ pc = "recv" /\ pc \in Looping /\ wire # <<>> /\ wire' = Tail(wire)
        /\ Head(wire).kind = "answer" /\ Head(wire).sid = primarySid
        /\ UNCHANGED <<asked, answered, redirect, target, opt>> /\ Finalize(Limit)
    BY DEF OnPrimary, Incoming, ReadFrame, loopVars, Looping, Limit
  <1>2. Expected(primarySid) /\ primarySid \in Stream
    BY <1>1, PopHop DEF HopInv, Ending
  <1>3. ~primaryDone /\ redirect = NoUrl
    BY <1>1, <1>2 DEF HopInv, PageInv
  <1>4. Full(Limit)' <=> Full(Limit)
    BY <1>1 DEF Finalize, Full, Limit, scannerVars
  <1>5. /\ 1 \in DOMAIN wire /\ Head(wire) = wire[1] /\ DOMAIN wire \subseteq Nat \ {0}
    BY <1>1, Shifted DEF IInv, Types
  <1>6. sent = BodySize[target] /\ \A k \in DOMAIN wire : ~Piece(wire[k])
    <2>1. sent = BodySize[target] /\ \A k \in DOMAIN wire : Piece(wire[k]) => k < 1
      BY <1>1, <1>5, PieceTypes
    <2> QED BY <1>5, <2>1
  <1>7. buffered = BodySize[target] \/ Full(Limit)
    BY <1>1, <1>3, <1>6, PieceTypes
  <1>8. cursor <= buffered /\ cursor \in Nat /\ buffered \in Nat
    BY <1>1, PieceTypes
  <1>9. Full(Limit) \/ cursor' = buffered
    BY <1>1, <1>8 DEF Finalize, Search, scannerVars
  <1> QED
    BY <1>1, <1>3, <1>4, <1>7, <1>9

LEMMA DoneNext ==
  ASSUME NoStray, IInv, HopInv, ScanInv, PieceInv, DoneInv, [Next]_vars
  PROVE  DoneInv'
  <1>1. CASE Request
    BY <1>1 DEF Request, SendHeader, DoneInv, callVars, batchVars, Looping
  <1>2. CASE OnPrimary
    <2>1. /\ pc' = "scan" /\ primaryDone' = TRUE /\ primary'.ok = TRUE
      BY <1>2 DEF OnPrimary
    <2> QED BY <1>2, <2>1, PrimaryDone DEF DoneInv
  <1>3. CASE OnBodyChunk
    BY <1>3 DEF OnBodyChunk, ReadFrame, DoneInv, callVars, batchVars, loopVars, Looping
  <1>4. CASE OnFrame
    <2>1. /\ pc = "recv" /\ pc' = "recv" /\ ~Request
          /\ UNCHANGED <<primary, primaryDone, cursor, target>>
      BY <1>4 DEF OnFrame, Request, runtimeVars, callVars, batchVars, stateVars, scannerVars
    <2>2. Full(Limit) => Full(Limit)'
      BY <2>1, FullStays DEF Looping
    <2>3. CASE RecvRedirect
      <3>1. wire # <<>> /\ wire' = Tail(wire) /\ Head(wire).kind = "redirect"
            /\ UNCHANGED <<asked, answered>>
        BY <2>3 DEF RecvRedirect, Incoming, Consume
      <3>2. Expected(Head(wire).sid) /\ Head(wire).sid = primarySid
        BY <2>1, <3>1, PopHop DEF HopInv, PageInv, Ending, Looping
      <3>3. ~primaryDone
        BY <2>1, <3>2 DEF HopInv, PageInv, Looping
      <3> QED BY <2>1, <3>3 DEF DoneInv, Looping
    <2>4. CASE RecvRst \/ RecvGoaway
      BY <2>1, <2>2, <2>4 DEF RecvRst, RecvGoaway, DoneInv
    <2> QED BY <1>4, <2>3, <2>4 DEF OnFrame
  <1>5. CASE Follow
    BY <1>5 DEF Follow, batchVars, DoneInv, Looping
  <1>6. CASE Reuse \/ Reconnect \/ Connect
    BY <1>6 DEF Reuse, Reconnect, Connect, Move, callVars, batchVars, DoneInv, Looping
  <1>7. CASE \/ LoopAgain \/ LoopStops \/ OtherChunk \/ OnSubresource \/ NotNews \/ FindLink
             \/ ScanDone \/ Defer \/ Drop \/ Dispatch \/ CallbackReturns \/ DoneReading
             \/ ReadBreaks \/ DoneSending \/ SendBreaks
    <2>1. /\ UNCHANGED <<primary, primaryDone, cursor, target>> /\ pc \in Looping
          /\ pc' \in Looping /\ ~Request
      BY <1>7 DEF LoopAgain, LoopStops, OtherChunk, OnSubresource, NotNews, FindLink, ScanDone,
                  Defer, Drop, Dispatch, CallbackReturns, DoneReading, ReadBreaks, DoneSending,
                  SendBreaks, PassOver, Find, Searched, Dispatching, Move, Request, runtimeVars,
                  callVars, batchVars, stateVars, scannerVars, Looping
    <2>2. redirect' = redirect
      BY <1>7 DEF LoopAgain, LoopStops, OtherChunk, OnSubresource, NotNews, FindLink, ScanDone,
                  Defer, Drop, Dispatch, CallbackReturns, DoneReading, ReadBreaks, DoneSending,
                  SendBreaks, ReadFrame, RecvFails, SendFails, h2Vars, loopVars
    <2> QED BY <2>1, <2>2, FullStays DEF DoneInv, Looping
  <1>8. CASE Server \/ Deadline \/ UNCHANGED vars
    <2>1. UNCHANGED runtimeVars /\ redirect' = redirect
      <3>1. CASE Server
        BY <3>1, ServerSends DEF Sends
      <3> QED BY <1>8, <3>1 DEF Deadline, DeadlinePasses, vars, h2Vars, loopVars
    <2> QED BY <2>1 DEF DoneInv, Full, Limit, runtimeVars, callVars, batchVars, stateVars, scannerVars
  <1>9. CASE \/ HopLimit \/ ParseFails \/ ConnectFails \/ Unsupported \/ SubmitFails \/ TimesOut
             \/ PageOver \/ SkipExtra \/ FetchExtra \/ NoMoreExtras \/ Finish
    BY <1>9 DEF HopLimit, ParseFails, ConnectFails, Unsupported, SubmitFails, TimesOut, PageOver,
                SkipExtra, FetchExtra, NoMoreExtras, Finish, Fail, Move, DoneInv, Looping
  <1> QED
    BY <1>1, <1>2, <1>3, <1>4, <1>5, <1>6, <1>7, <1>8, <1>9 DEF Next, Client
----
(* What waits when a callback has returned *)

\* No link is queued and no callback ends.
LEMMA SameQueue ==
  ASSUME QueueInv, UNCHANGED <<pending, deferred>>,
         pc' \in Looping =>
           /\ pc \in Looping
           /\ \A url : SameHost(url)' <=> SameHost(url)
           /\ ~conn'.goaway => ~conn.goaway
           /\ pc \in {"scan", "dispatch"} => pc' \in {"scan", "dispatch"}
  PROVE  QueueInv'
  BY DEF QueueInv

LEMMA HostStays == ASSUME conn'.host = conn.host PROVE \A url : SameHost(url)' <=> SameHost(url)
  BY DEF SameHost

LEMMA CallbackQueue ==
  ASSUME QueueInv, IInv, Defer \/ Drop \/ Dispatch \/ FindLink \/ CallbackReturns
  PROVE  QueueInv'
  <1>1. /\ pc \in Looping /\ conn' = conn /\ pending \in Seq(Link) /\ deferred \in Seq(Link)
    BY DEF Defer, Drop, Dispatch, FindLink, CallbackReturns, Dispatching, h2Vars, Looping, IInv, Types
  <1>2. \A url : SameHost(url)' <=> SameHost(url)
    BY <1>1, HostStays
  <1>3. \A k \in DOMAIN deferred : ~SameHost(deferred[k])
    BY <1>1 DEF QueueInv
  <1>4. CASE Drop \/ Dispatch \/ FindLink
    BY <1>2, <1>3, <1>4 DEF Drop, Dispatch, FindLink, Dispatching, QueueInv
  <1>5. CASE Defer
    <2>1. /\ pc' = "dispatch" /\ deferred' = Append(deferred, Head(pending))
          /\ ~SameHost(Head(pending)) /\ Head(pending) \in Link
      BY <1>1, <1>5, HeadTailTypes DEF Defer, Dispatching
    <2>2. \A k \in DOMAIN deferred' :
            deferred'[k] = Head(pending) \/ (k \in DOMAIN deferred /\ deferred'[k] = deferred[k])
      BY <1>1, <2>1, AppendProperties
    <2> QED BY <1>2, <1>3, <2>1, <2>2 DEF QueueInv
  <1>6. CASE CallbackReturns
    <2>1. /\ pc' = "recv" /\ deferred' = <<>> /\ pending' = pending \o deferred
          /\ conn.goaway \/ pending = <<>>
      BY <1>6 DEF CallbackReturns, Dispatching
    <2>2. pending = <<>> => pending' = deferred
      BY <1>1, <2>1
    <2> QED BY <1>1, <1>2, <1>3, <2>1, <2>2 DEF QueueInv
  <1> QED
    BY <1>4, <1>5, <1>6

LEMMA QueueNext ==
  ASSUME IInv, QueueInv, [Next]_vars
  PROVE  QueueInv'
  <1>1. CASE Request
    BY <1>1 DEF Request, QueueInv
  <1>2. CASE Defer \/ Drop \/ Dispatch \/ FindLink \/ CallbackReturns
    BY <1>2, CallbackQueue
  <1>3. CASE OnFrame
    <2>1. /\ pc = "recv" /\ pc' = "recv" /\ UNCHANGED <<pending, deferred>>
      BY <1>3 DEF OnFrame, runtimeVars, stateVars, queueVars
    <2>2. conn'.host = conn.host /\ (conn.goaway => conn'.goaway)
      <3>1. conn \in ConnType
        BY DEF IInv, Types, H2TypeOK
      <3>2. conn' = conn \/ conn' = [conn EXCEPT !.goaway = TRUE]
        BY <1>3 DEF OnFrame, RecvRedirect, RecvRst, RecvGoaway, Consume
      <3> QED BY <3>1, <3>2 DEF ConnType
    <2> QED BY <2>1, <2>2, HostStays, SameQueue DEF Looping
  <1>4. CASE \/ LoopAgain \/ LoopStops \/ OnBodyChunk \/ OtherChunk \/ OnPrimary \/ OnSubresource
             \/ NotNews \/ ScanDone \/ DoneReading \/ ReadBreaks \/ DoneSending \/ SendBreaks
             \/ Deadline \/ Server \/ UNCHANGED vars
    <2>1. UNCHANGED <<pending, deferred, conn>>
      <3>1. CASE Server
        BY <3>1, ServerSends DEF Sends, runtimeVars, stateVars, queueVars
      <3> QED BY <1>4, <3>1 DEF LoopAgain, LoopStops, OnBodyChunk, OtherChunk, OnPrimary,
                 OnSubresource, NotNews, ScanDone, DoneReading, ReadBreaks, DoneSending, SendBreaks,
                 Deadline, ReadFrame, Consume, RecvFails, SendFails, DeadlinePasses, Move, vars,
                 h2Vars, runtimeVars, stateVars, queueVars
    <2>2. pc' \in Looping => /\ pc \in Looping
                             /\ pc \in {"scan", "dispatch"} => pc' \in {"scan", "dispatch"}
      BY <1>4 DEF LoopAgain, LoopStops, OnBodyChunk, OtherChunk, OnPrimary, OnSubresource, NotNews,
                  ScanDone, DoneReading, ReadBreaks, DoneSending, SendBreaks, Deadline, Server,
                  Move, vars, runtimeVars, Looping
    <2> QED BY <2>1, <2>2, HostStays, SameQueue
  <1>5. CASE \/ HopLimit \/ ParseFails \/ Reuse \/ Reconnect \/ ConnectFails \/ Connect
             \/ Unsupported \/ SubmitFails \/ TimesOut \/ Follow \/ PageOver \/ SkipExtra
             \/ FetchExtra \/ NoMoreExtras \/ Finish
    BY <1>5 DEF HopLimit, ParseFails, Reuse, Reconnect, ConnectFails, Connect, Unsupported,
                SubmitFails, TimesOut, Follow, PageOver, SkipExtra, FetchExtra, NoMoreExtras,
                Finish, Fail, Move, Looping, QueueInv
  <1> QED
    BY <1>1, <1>2, <1>3, <1>4, <1>5 DEF Next, Client
----
(* Why the loop stops *)

\* The loop has stopped by itself.
Stopped == ~running /\ ~conn.goaway /\ redirect = NoUrl

\* A loop that has stopped calls nobody back: no response is expected.
LEMMA StoppedIsQuiet ==
  ASSUME StopInv, HopInv, IInv, pc \in Looping, Stopped
  PROVE  ~OnBodyChunk /\ ~OnPrimary /\ ~OnSubresource /\ pc \notin {"scan", "dispatch"}
  <1>1. /\ pc \notin {"scan", "dispatch"}
        /\ \/ sent = 0 /\ ~primaryDone /\ \A s \in Stream : ~Expected(s)
           \/ primaryDone /\ DOMAIN streams = {}
    BY DEF StopInv, Stopped
  <1>2. \A s \in Stream : ~Expected(s)
    BY <1>1 DEF HopInv, PageInv
  <1>3. ~OnBodyChunk
    <2> SUFFICES ASSUME OnBodyChunk PROVE FALSE
      OBVIOUS
    <2>1. ~primaryDone /\ wire # <<>> /\ Head(wire).kind = "chunk"
      BY DEF OnBodyChunk, Incoming
    <2>2. 1 \in DOMAIN wire /\ Head(wire) = wire[1]
      BY <2>1, HeadFrame DEF IInv, Types
    <2> QED BY <1>1, <2>1, <2>2 DEF HopInv, Untouched
  <1>4. ~OnPrimary /\ ~OnSubresource
    <2> SUFFICES ASSUME OnPrimary \/ OnSubresource PROVE FALSE
      OBVIOUS
    <2>1. /\ wire # <<>> /\ wire' = Tail(wire) /\ Head(wire).kind = "answer"
          /\ UNCHANGED <<asked, answered>>
      BY DEF OnPrimary, OnSubresource, Incoming, ReadFrame
    <2>2. Head(wire).sid \in Stream /\ Expected(Head(wire).sid)
      BY <2>1, PopHop DEF HopInv, Ending
    <2> QED BY <1>2, <2>2
  <1> QED
    BY <1>1, <1>3, <1>4

\* The reasons for the stop remain.
LEMMA StillStopped ==
  ASSUME StopInv, pc \in Looping, Stopped,
         UNCHANGED <<sent, primaryDone, streams>> /\ Stream' = Stream,
         \A s : Expected(s)' => Expected(s),
         pc' \notin {"scan", "dispatch"}, pc' = "after" => broken' \/ ~running'
  PROVE  StopInv'
  BY DEF StopInv, Stopped

LEMMA StopByCallback ==
  ASSUME StopInv, HopInv, IInv, FlightInv, CallbackReturns
  PROVE  StopInv'
  <1>1. /\ pc = "dispatch" /\ pc' = "recv" /\ UNCHANGED <<conn, redirect, primaryDone, streams>>
        /\ running' = IF completing THEN LoopGoesOn ELSE running
    BY DEF CallbackReturns
  <1> SUFFICES ASSUME Stopped' PROVE StopInv'
    BY <1>1 DEF StopInv, Stopped
  <1>2. running
    <2>1. ~conn.goaway /\ redirect = NoUrl
      BY <1>1 DEF Stopped
    <2> QED BY <1>1, <2>1, StoppedIsQuiet DEF Stopped, Looping
  <1>3. primaryDone /\ active = 0
    BY <1>1, <1>2 DEF Stopped, LoopGoesOn
  <1>4. IsFiniteSet(DOMAIN streams) /\ Cardinality(DOMAIN streams) = 0
    <2>1. active = Cardinality(DOMAIN streams) + 0 /\ IsFiniteSet(DOMAIN streams)
      BY <1>1, <1>3 DEF FlightInv, ActiveIsInFlight, InLoop, InCallback
    <2> QED BY <1>3, <2>1, FS_CardinalityType
  <1>5. DOMAIN streams = {}
    BY <1>4, FS_EmptySet
  <1> QED
    BY <1>1, <1>3, <1>5 DEF StopInv

LEMMA StopByFrame ==
  ASSUME NoStray, StopInv, HopInv, IInv, OnFrame \/ OtherChunk
  PROVE  StopInv'
  <1>1. /\ pc = "recv" /\ pc' = "recv" /\ wire # <<>> /\ wire' = Tail(wire)
        /\ UNCHANGED <<asked, answered, sent, primaryDone, streams, primarySid>>
    BY DEF OnFrame, OtherChunk, Incoming, Consume, RecvRedirect, RecvRst, RecvGoaway, runtimeVars,
           stateVars
  <1>2. /\ Stream' = Stream /\ \A s : Expected(s)' => Expected(s)
        /\ \A s : Ending(Head(wire)) /\ s = Head(wire).sid =>
                    s \in Stream /\ Expected(s) /\ ~Expected(s)'
        /\ \E j \in DOMAIN wire : Head(wire) = wire[j]
    BY <1>1, PopHop DEF HopInv
  <1>3. CASE RecvGoaway
    <2>1. conn' = [conn EXCEPT !.goaway = TRUE] /\ conn \in ConnType
      BY <1>3 DEF RecvGoaway, IInv, Types, H2TypeOK
    <2>2. conn'.goaway
      BY <2>1 DEF ConnType
    <2> QED BY <1>1, <2>2 DEF StopInv
  <1>4. CASE RecvRedirect
    <2>1. Head(wire).kind = "redirect"
      BY <1>4 DEF RecvRedirect, Incoming
    <2>2. Head(wire).sid = primarySid /\ sent = 0
      BY <1>1, <1>2, <2>1 DEF HopInv, PageInv, Looping
    <2>3. Expected(primarySid) /\ ~primaryDone /\ DOMAIN streams = {}
      BY <1>1, <1>2, <2>1, <2>2 DEF HopInv, PageInv, Untouched, Ending, Looping
    <2>4. \A s \in Stream' : ~Expected(s)'
      BY <1>1, <1>2, <2>1, <2>2, <2>3 DEF HopInv, PageInv, Ending, Looping
    <2> QED BY <1>1, <2>2, <2>3, <2>4 DEF StopInv
  <1>5. CASE RecvRst \/ OtherChunk
    <2>1. UNCHANGED <<conn, running, redirect>>
      BY <1>5 DEF RecvRst, OtherChunk, Consume
    <2>2. CASE Stopped
      BY <1>1, <1>2, <2>2, StillStopped DEF Looping
    <2>3. CASE ~Stopped
      BY <1>1, <2>1, <2>3 DEF StopInv, Stopped
    <2> QED BY <2>2, <2>3
  <1> QED
    BY <1>3, <1>4, <1>5 DEF OnFrame

LEMMA StopByServer ==
  ASSUME StopInv, HopInv, IInv, Server
  PROVE  StopInv'
  <1>1. PICK f \in Frame : FrameOK(f) /\ Sends(f)
    BY ServerSends
  <1>2. /\ wire' = Append(wire, f) /\ wire \in Seq(Frame)
        /\ UNCHANGED <<conn, broken, running, redirect, asked, pc, primaryDone, streams, primarySid>>
        /\ answered \subseteq answered'
        /\ Ending(f) => f.sid \in Stream /\ f.sid \notin answered
        /\ sent' # sent => primarySid \notin answered
    BY <1>1 DEF Sends, runtimeVars, stateVars, IInv, Types, H2TypeOK
  <1>3. Stream' = Stream /\ \A s : Expected(s)' => Expected(s)
    <2>1. \A k \in DOMAIN wire' : (k \in DOMAIN wire /\ wire'[k] = wire[k]) \/ wire'[k] = f
      BY <1>2, AppendProperties
    <2> QED BY <1>2, <2>1 DEF Stream, Expected, Ending
  <1>4. CASE pc \in Looping /\ Stopped /\ ~primaryDone
    <2>1. sent = 0 /\ \A s \in Stream : ~Expected(s)
      BY <1>4 DEF StopInv, Stopped
    <2>2. ~Expected(primarySid)
      BY <1>4, <2>1 DEF HopInv, PageInv
    <2>3. sent' = sent
      BY <1>2, <2>2 DEF Expected
    <2>4. pc \notin {"scan", "dispatch"}
      BY <1>4 DEF StopInv, Stopped
    <2> QED BY <1>2, <1>3, <1>4, <2>3, <2>4, StillStopped DEF StopInv
  <1>5. CASE pc \in Looping /\ Stopped /\ primaryDone
    BY <1>2, <1>5 DEF StopInv, Stopped
  <1>6. CASE ~(pc \in Looping /\ Stopped)
    BY <1>2, <1>6 DEF StopInv, Stopped
  <1> QED
    BY <1>4, <1>5, <1>6

LEMMA StopNext ==
  ASSUME NoStray, IInv, HopInv, FlightInv, StopInv, [Next]_vars
  PROVE  StopInv'
  <1>1. CASE Request
    BY <1>1 DEF Request, SendHeader, StopInv
  <1>2. CASE CallbackReturns
    BY <1>2, StopByCallback
  <1>3. CASE OnFrame \/ OtherChunk
    BY <1>3, StopByFrame
  <1>4. CASE Server
    BY <1>4, StopByServer
  <1>5. CASE \/ OnBodyChunk \/ OnPrimary \/ OnSubresource \/ NotNews \/ FindLink \/ ScanDone
             \/ Defer \/ Drop \/ Dispatch
    <2>1. /\ pc \in Looping /\ pc' # "after" /\ UNCHANGED <<conn, running, redirect>>
      BY <1>5 DEF OnBodyChunk, OnPrimary, OnSubresource, NotNews, FindLink, ScanDone, Defer, Drop,
                  Dispatch, Dispatching, ReadFrame, h2Vars, loopVars, Looping
    <2>2. ~Stopped
      BY <1>5, <2>1, StoppedIsQuiet DEF NotNews, FindLink, ScanDone, Defer, Drop, Dispatch,
                                        Dispatching
    <2> QED BY <2>1, <2>2 DEF StopInv, Stopped
  <1>6. CASE \/ LoopAgain \/ LoopStops \/ DoneReading \/ ReadBreaks \/ DoneSending \/ SendBreaks
             \/ Deadline \/ UNCHANGED vars
    <2>1. /\ UNCHANGED <<conn, running, redirect, asked, wire, answered, sent, primaryDone, streams>>
          /\ pc' = "after" => (pc = "after" /\ broken' = broken) \/ broken' \/ ~running'
          /\ pc' \in Looping => pc \in Looping
          /\ pc' \in {"scan", "dispatch"} => pc \in {"scan", "dispatch"}
      BY <1>6 DEF LoopAgain, LoopStops, DoneReading, ReadBreaks, DoneSending, SendBreaks, Deadline,
                  RecvFails, SendFails, DeadlinePasses, Move, InLoop, InCallback, vars, h2Vars,
                  sessionVars, loopVars, runtimeVars, stateVars, Looping
    <2>2. Stream' = Stream /\ \A s : Expected(s)' <=> Expected(s)
      BY <2>1 DEF Stream, Expected, Ending
    <2>3. pc' = "after" => broken' \/ ~running'
      BY <2>1 DEF StopInv
    <2>4. CASE pc \in Looping /\ Stopped
      <3>1. pc' \notin {"scan", "dispatch"}
        BY <2>1, <2>4 DEF StopInv, Stopped
      <3> QED BY <2>1, <2>2, <2>3, <2>4, <3>1, StillStopped
    <2>5. CASE ~(pc \in Looping /\ Stopped)
      BY <2>1, <2>3, <2>5 DEF StopInv, Stopped
    <2> QED BY <2>4, <2>5
  <1>7. CASE \/ HopLimit \/ ParseFails \/ Reuse \/ Reconnect \/ ConnectFails \/ Connect
             \/ Unsupported \/ SubmitFails \/ TimesOut \/ Follow \/ PageOver \/ SkipExtra
             \/ FetchExtra \/ NoMoreExtras \/ Finish
    BY <1>7 DEF HopLimit, ParseFails, Reuse, Reconnect, ConnectFails, Connect, Unsupported,
                SubmitFails, TimesOut, Follow, PageOver, SkipExtra, FetchExtra, NoMoreExtras,
                Finish, Fail, Move, Looping, StopInv
  <1> QED
    BY <1>1, <1>2, <1>3, <1>4, <1>5, <1>6, <1>7 DEF Next, Client
----
LEMMA PageDoneInit == Init => PageDoneInv
  BY DEF Init, H2Init, NoResult, PageDoneInv, PieceInv, DoneInv, QueueInv, StopInv, Looping

THEOREM PageDoneCorrect == NoStray => (Spec => []PageDoneInv)
  <1> SUFFICES ASSUME NoStray PROVE Spec => []PageDoneInv
    OBVIOUS
  <1>1. IInv /\ HopInv /\ FlightInv /\ ScanInv /\ PageDoneInv /\ [Next]_vars => PageDoneInv'
    BY PiecesNext, DoneNext, QueueNext, StopNext DEF PageDoneInv
  <1>2. IInv /\ HopInv /\ [Next]_vars => HopInv'
    BY HopNext
  <1>3. Spec => []FlightInv
    BY FlightCorrect
  <1> QED BY <1>1, <1>2, <1>3, Invariant, HopInit, ScanCorrect, PageDoneInit, PTL DEF Spec

\* When the loop of a page ends by itself, the page is complete and searched to
\* its last byte, or to the limit; nothing requested is outstanding and all that
\* waits is elsewhere; unless the page was redirected to the empty string.  This
\* holds for every page, every cut of it and every order of the answers, as long
\* as servers redirect only pages and before they send them.
THEOREM CompletePages == NoStray => (Spec => []PageIsComplete)
  <1> SUFFICES ASSUME NoStray PROVE Spec => []PageIsComplete
    OBVIOUS
  <1>1. IInv /\ HopInv /\ ScanInv /\ CoverInv /\ PageDoneInv => PageIsComplete
    <2> SUFFICES ASSUME IInv, HopInv, CoverInv, PageDoneInv, pc = "after", redirect = NoUrl,
                        ~conn.goaway, ~broken
                 PROVE  \/ ~primary.ok /\ sent = 0 /\ primarySid \in answered
                        \/ /\ primary.ok /\ streams = <<>>
                           /\ \A k \in DOMAIN pending : ~SameHost(pending[k])
                           /\ \/ Full(Limit)
                              \/ UNION {w.from + 1 .. w.upto : w \in windows}
                                   = 1 .. BodySize[target]
      BY DEF PageIsComplete, Limit
    <2>1. \/ sent = 0 /\ ~primaryDone /\ \A s \in Stream : ~Expected(s)
          \/ primaryDone /\ DOMAIN streams = {}
      BY DEF PageDoneInv, StopInv, Looping
    <2>2. CASE sent = 0 /\ ~primaryDone /\ \A s \in Stream : ~Expected(s)
      <3>1. primarySid \in Stream /\ ~primary.ok
        BY <2>2 DEF HopInv, PageInv, PageDoneInv, DoneInv, Looping
      <3> QED BY <2>2, <3>1 DEF Expected
    <2>3. CASE primaryDone /\ DOMAIN streams = {}
      <3>1. primary.ok /\ (Full(Limit) \/ cursor = BodySize[target])
        BY <2>3 DEF PageDoneInv, DoneInv, Looping
      <3>2. streams = <<>>
        <4>1. streams \in [{} -> [url : Url, seq : Nat \ {0}]]
          BY <2>3 DEF IInv, Types
        <4> QED BY <4>1
      <3>3. \A k \in DOMAIN pending : ~SameHost(pending[k])
        BY DEF PageDoneInv, QueueInv, Looping
      <3> QED BY <3>1, <3>2, <3>3 DEF CoverInv
    <2> QED BY <2>1, <2>2, <2>3
  <1>2. IInv /\ HopInv /\ [Next]_vars => HopInv'
    BY HopNext
  <1>3. Spec => []PageDoneInv
    BY PageDoneCorrect
  <1> QED BY <1>1, <1>2, <1>3, Invariant, HopInit, ScanCorrect, PTL DEF Spec
====
