---- MODULE H2ClientProofs ----
(***************************************************************************)
(* What the operations of H2Client preserve, whoever calls them: lemmas    *)
(* for the theorems of Fetch and of Subresources.                          *)
(***************************************************************************)
EXTENDS H2Client, SequenceTheorems, TLAPS

\* A frame on the wire is well formed, and a response answers a stream that
\* was opened.
FrameOK(f) == /\ f.kind = "redirect" => f.data \in Location
              /\ f.kind = "chunk" => f.data.upto \in Nat
              /\ f.kind \in {"answer", "redirect"} => f.sid \in Stream
              /\ f.kind = "push" => f.sid = 0

WireInv == \A k \in DOMAIN wire : FrameOK(wire[k])

\* There is a socket or there is none.
SocketInv == sockets = IF conn.sock THEN 1 ELSE 0

LEMMA NoConnType == NoConn \in ConnType
  BY DEF NoConn, ConnType, Negotiated

LEMMA NoConnFields == ~NoConn.sock /\ ~NoConn.ssl /\ ~NoConn.client /\ ~NoConn.goaway
  BY DEF NoConn

\* teardown_connection leaves nothing of the connection behind.
LEMMA TeardownOK ==
  ASSUME H2TypeOK, SocketInv, Teardown, UNCHANGED loopVars
  PROVE  /\ H2TypeOK' /\ WireInv'
         /\ conn' = NoConn /\ sockets' = 0 /\ asked' = <<>> /\ wire' = <<>>
         /\ peer' = "up" /\ ~broken'
         /\ UNCHANGED <<running, redirect, late>>
  <1>1. /\ conn' = NoConn /\ asked' = <<>> /\ wire' = <<>> /\ peer' = "up" /\ broken' = FALSE
        /\ answered' = {} /\ UNCHANGED <<running, redirect, late>>
    BY DEF Teardown, loopVars
  <1>2. sockets' = 0
    BY DEF Teardown, SocketInv
  <1>3. asked' \in Seq(Url) /\ wire' \in Seq(Frame)
    BY <1>1
  <1>4. WireInv'
    BY <1>1 DEF WireInv
  <1> QED
    BY <1>1, <1>2, <1>3, <1>4, NoConnType DEF H2TypeOK

\* A Location header resolves to a URL, to one that does not parse, or to none.
LEMMA ResolveType ==
  ASSUME NEW loc \in Location, conn.host \in Host
  PROVE  Resolve(loc) \in Url \cup {BadUrl, NoUrl}
  BY ConnConstants DEF Resolve, Location, Url

\* The first frame is a good one, and so are those that follow it.
LEMMA ReadOK ==
  ASSUME H2TypeOK, WireInv, wire # <<>>, wire' = Tail(wire), UNCHANGED asked
  PROVE  /\ wire' \in Seq(Frame) /\ WireInv'
         /\ Head(wire) \in Frame /\ FrameOK(Head(wire))
         /\ Head(wire) = wire[1] /\ 1 \in DOMAIN wire
         /\ \A k \in DOMAIN wire' : k + 1 \in DOMAIN wire /\ wire'[k] = wire[k + 1]
  <1>1. wire \in Seq(Frame) /\ Len(wire) \in Nat \ {0} /\ DOMAIN wire = 1 .. Len(wire)
    BY EmptySeq, LenProperties DEF H2TypeOK
  <1>2. /\ wire' \in Seq(Frame) /\ Len(wire') = Len(wire) - 1
        /\ \A k \in 1 .. Len(wire') : wire'[k] = wire[k + 1]
        /\ Head(wire) \in Frame /\ Head(wire) = wire[1]
    BY <1>1, HeadTailProperties
  <1>3. \A k \in DOMAIN wire' : k + 1 \in DOMAIN wire /\ wire'[k] = wire[k + 1]
    BY <1>1, <1>2
  <1> QED
    BY <1>1, <1>2, <1>3 DEF WireInv, FrameOK, Stream

\* The frames that concern the connection.
LEMMA RecvOK ==
  ASSUME H2TypeOK, WireInv, conn.host \in Host, RecvRedirect \/ RecvRst \/ RecvGoaway
  PROVE  /\ H2TypeOK' /\ WireInv'
         /\ wire # <<>> /\ wire' = Tail(wire)
         /\ UNCHANGED <<sockets, broken, asked, answered, peer, late>>
         /\ conn' = conn \/ conn' = [conn EXCEPT !.goaway = TRUE]
         /\ conn'.sock = conn.sock /\ conn'.ssl = conn.ssl /\ conn'.client = conn.client
         /\ conn'.protocol = conn.protocol /\ conn'.host = conn.host /\ conn'.port = conn.port
         /\ running' \in BOOLEAN /\ (running' => running)
  <1>1. /\ wire # <<>> /\ wire' = Tail(wire)
        /\ UNCHANGED <<sockets, broken, asked, answered, peer, late>>
    BY DEF RecvRedirect, RecvRst, RecvGoaway, Incoming, Consume
  <1>2. /\ wire' \in Seq(Frame) /\ WireInv' /\ FrameOK(Head(wire))
    BY <1>1, ReadOK
  <1>3. redirect' \in Url \cup {BadUrl, NoUrl}
    <2>1. CASE RecvRedirect
      <3>1. Head(wire).data \in Location
        BY <1>2, <2>1 DEF RecvRedirect, Incoming, FrameOK
      <3> QED BY <2>1, <3>1, ResolveType DEF RecvRedirect
    <2>2. CASE RecvRst \/ RecvGoaway
      BY <2>2 DEF RecvRst, RecvGoaway, H2TypeOK
    <2> QED BY <2>1, <2>2
  <1>4. running' \in BOOLEAN /\ (running' => running)
    <2>1. running' = FALSE \/ running' = running
      BY DEF RecvRedirect, RecvRst, RecvGoaway
    <2>2. running \in BOOLEAN
      BY DEF H2TypeOK
    <2>3. CASE running' = FALSE
      BY <2>3
    <2>4. CASE running' = running
      BY <2>2, <2>4
    <2> QED BY <2>1, <2>3, <2>4
  <1>5. conn' = conn \/ conn' = [conn EXCEPT !.goaway = TRUE]
    BY DEF RecvRedirect, RecvRst, RecvGoaway, Consume
  <1>6. /\ conn' \in ConnType /\ conn'.sock = conn.sock /\ conn'.ssl = conn.ssl
        /\ conn'.protocol = conn.protocol /\ conn'.client = conn.client
        /\ conn'.host = conn.host /\ conn'.port = conn.port
    BY <1>5 DEF H2TypeOK, ConnType, Negotiated
  <1>7. H2TypeOK'
    BY <1>1, <1>2, <1>3, <1>4, <1>6 DEF H2TypeOK
  <1> QED
    BY <1>1, <1>2, <1>4, <1>5, <1>6, <1>7

\* A frame the server sends joins the wire and leaves the client alone.
LEMMA SendOK ==
  ASSUME H2TypeOK, WireInv,
         NEW kind \in {"answer", "redirect", "chunk", "rst", "goaway", "eof", "reset", "push"},
         NEW sid \in Nat, NEW data \in Location \cup {NoUrl} \cup [form : {"piece"}, upto : Nat],
         Send(kind, sid, data), answered' \in SUBSET Nat,
         peer' \in {"up", "draining", "gone"},
         kind = "redirect" => data \in Location,
         kind = "chunk" => data \in [form : {"piece"}, upto : Nat],
         kind \in {"answer", "redirect"} => sid \in Stream,
         kind = "push" => sid = 0
  PROVE  /\ H2TypeOK' /\ WireInv'
         /\ UNCHANGED <<conn, sockets, broken, asked, running, redirect, late>>
         /\ wire' = Append(wire, [kind |-> kind, sid |-> sid, data |-> data])
         /\ [kind |-> kind, sid |-> sid, data |-> data] \in Frame
         /\ FrameOK([kind |-> kind, sid |-> sid, data |-> data])
  <1> DEFINE f == [kind |-> kind, sid |-> sid, data |-> data]
  <1>1. f \in Frame /\ wire' = Append(wire, f) /\ FrameOK(f)
    BY DEF Frame, Send, FrameOK
  <1>2. UNCHANGED <<conn, sockets, broken, asked, running, redirect, late>>
    BY DEF Send, loopVars
  <1> HIDE DEF f
  <1>3. /\ wire' \in Seq(Frame)
        /\ \A k \in DOMAIN wire' : \/ k \in DOMAIN wire /\ wire'[k] = wire[k]
                                   \/ wire'[k] = f
    BY <1>1, AppendProperties DEF H2TypeOK
  <1>4. WireInv'
    BY <1>1, <1>2, <1>3 DEF WireInv, FrameOK, Stream
  <1>5. H2TypeOK'
    BY <1>2, <1>3 DEF H2TypeOK
  <1> QED
    BY <1>1, <1>2, <1>4, <1>5 DEF f
====
