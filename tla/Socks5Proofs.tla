---- MODULE Socks5Proofs ----
(***************************************************************************)
(* Theorems about Socks5.  The two sides take turns: what the client says  *)
(* is either not answered, and then upstream and left together are one     *)
(* whole message, or answered, and then what the client has read and what  *)
(* is still downstream together are one whole answer, or the beginning of  *)
(* one on a connection that is closed.                                     *)
(***************************************************************************)
EXTENDS Socks5, SequenceTheorems, TLAPS

\* What the client has said and the proxy has not taken.
Saying == upstream \o left

\* What has come of the answer that is awaited.
Arriving == IF Receiving THEN got \o downstream ELSE downstream

\* The message is said, in part or whole, and nothing has come of the answer.
Asking(message, expected) == /\ Saying = message /\ Arriving = <<>>
                             /\ open => stage = expected

\* An answer to the greeting, and what the proxy expects after it.
MethodCame == LET s == Arriving
              IN  \/ /\ Len(s) = 2 /\ s[1] = 5 /\ s[2] = 0
                     /\ open => stage = "request"
                  \/ /\ Len(s) = 2 /\ s[1] = 5 /\ s[2] = 2
                     /\ open => stage = "auth"
                  \/ /\ Len(s) = 2 /\ (s[1] # 5 \/ s[2] \notin {0, 2})
                     /\ open => stage = "over"
                  \/ Len(s) < 2 /\ ~open

\* A verdict on the credentials.
StatusCame == LET s == Arriving
              IN  \/ /\ Len(s) = 2 /\ s[2] = 0
                     /\ open => stage = "request"
                  \/ /\ Len(s) = 2 /\ s[2] # 0
                     /\ open => stage = "over"
                  \/ Len(s) < 2 /\ ~open

\* What follows the header of a reply that grants the tunnel.
Rest(s) == IF s[4] = 1 THEN 6 ELSE IF s[4] = 4 THEN 18 ELSE s[5] + 3

Grants(s) == Len(s) >= 4 /\ s[2] = 0 /\ s[4] \in {1, 3, 4}

\* A refusal; or a reply that grants the tunnel and behind it what the target
\* has sent; or the beginning of one.
ReplyCame == LET s == Arriving
             IN  \/ /\ Len(s) >= 4 /\ ~Grants(s)
                    /\ open => stage = "over"
                 \/ /\ Grants(s) /\ Len(s) >= 5 /\ Len(s) = 4 + Rest(s) + forwarded
                    /\ open => stage = "tunnel"
                 \/ /\ Len(s) < 4 \/ (Grants(s) /\ (Len(s) = 4 \/ Len(s) < 4 + Rest(s)))
                    /\ ~open

\* The same without its header.
LengthCame == LET s == Arriving
              IN  \/ /\ Len(s) >= 1 /\ Len(s) = 3 + s[1] + forwarded
                     /\ open => stage = "tunnel"
                  \/ /\ Len(s) = 0 \/ Len(s) < 3 + s[1]
                     /\ ~open

\* What is left of it.
AddressCame == \/ Len(Arriving) = need + forwarded /\ (open => stage = "tunnel")
               \/ Len(Arriving) < need /\ ~open

\* Where the handshake is, by pc.
TurnInv ==
  /\ pc = "start" => Asking(<<>>, "greeting")
  /\ pc \in {"greeting", "method"} => Asking(Greeting, "greeting") \/ (Saying = <<>> /\ MethodCame)
  /\ pc \in {"auth", "status"} => \/ HaveCreds /\ Asking(AuthPacket, "auth")
                                  \/ Saying = <<>> /\ StatusCame
  /\ pc \in {"connect", "reply"} => Asking(Request, "request") \/ (Saying = <<>> /\ ReplyCame)
  /\ pc = "length" => Saying = <<>> /\ LengthCame
  /\ pc = "address" => Saying = <<>> /\ AddressCame
  /\ pc = "ok" => Saying = <<>> /\ Len(downstream) = forwarded /\ (open => stage = "tunnel")

\* How much of an answer the client wants before it looks at it.
NeedInv == /\ Receiving => left = <<>>
           /\ pc \in {"method", "status"} => need = 2
           /\ pc = "reply" => need = 4
           /\ pc = "length" => need = 1

\* A closed connection expects nothing, and nothing is forwarded before there
\* is a tunnel.
StageInv == /\ ~open => stage = "over"
            /\ stage \in {"greeting", "auth", "request"} => forwarded = 0

\* A length that is sent is the length that was meant.
Fits == pc \notin {"start", "failed"} => ~TooLong

IInv == TypeOK /\ TurnInv /\ NeedInv /\ StageInv /\ Fits
----
(* Bytes *)

LEMMA BytesType == ASSUME NEW s \in Bytes PROVE Len(s) \in Nat /\ \A k \in 1 .. Len(s) : s[k] \in Nat
  <1>1. \A k \in 1 .. Len(s) : s[k] \in 0 .. 255 + MaxLength
    BY ElementOfSeq DEF Bytes
  <1> QED BY <1>1, LenProperties, Socks5Constants DEF Bytes

LEMMA Joined ==
  ASSUME NEW s \in Bytes, NEW t \in Bytes
  PROVE  /\ s \o t \in Bytes /\ Len(s \o t) = Len(s) + Len(t)
         /\ \A k \in 1 .. Len(s) : (s \o t)[k] = s[k]
         /\ \A k \in 1 .. Len(t) : (s \o t)[Len(s) + k] = t[k]
         /\ s \o <<>> = s /\ <<>> \o s = s
         /\ s \o t = <<>> <=> s = <<>> /\ t = <<>>
  <1>1. /\ s \o t \in Bytes /\ Len(s \o t) = Len(s) + Len(t)
        /\ \A k \in 1 .. Len(s) + Len(t) : (s \o t)[k] = IF k <= Len(s) THEN s[k] ELSE t[k - Len(s)]
    BY ConcatProperties DEF Bytes
  <1>2. Len(s) \in Nat /\ Len(t) \in Nat
    BY BytesType
  <1>3. \A k \in 1 .. Len(s) : (s \o t)[k] = s[k]
    BY <1>1, <1>2
  <1>4. \A k \in 1 .. Len(t) : (s \o t)[Len(s) + k] = t[k]
    <2> SUFFICES ASSUME NEW k \in 1 .. Len(t) PROVE (s \o t)[Len(s) + k] = t[k]
      OBVIOUS
    <2>1. Len(s) + k \in 1 .. Len(s) + Len(t) /\ ~(Len(s) + k <= Len(s)) /\ Len(s) + k - Len(s) = k
      BY <1>2
    <2> QED BY <1>1, <2>1
  <1>5. /\ s \o <<>> = s /\ <<>> \o s = s
        /\ s \o t = <<>> <=> s = <<>> /\ t = <<>>
    BY ConcatEmptySeq, ConcatEqualIffEmpty DEF Bytes
  <1> QED BY <1>1, <1>3, <1>4, <1>5

\* A sequence of bytes is empty just if its length is 0.
LEMMA Empty == /\ <<>> \in Bytes /\ Len(<<>>) = 0
               /\ \A s \in Bytes : Len(s) = 0 => s = <<>>
  BY EmptySeq DEF Bytes

\* What is taken from the front of one sequence joins the end of another.
LEMMA Moved ==
  ASSUME NEW s \in Bytes, NEW t \in Bytes, NEW n \in 1 .. Len(t)
  PROVE  /\ s \o SubSeq(t, 1, n) \in Bytes /\ SubSeq(t, n + 1, Len(t)) \in Bytes
         /\ Len(s \o SubSeq(t, 1, n)) = Len(s) + n
         /\ (s \o SubSeq(t, 1, n)) \o SubSeq(t, n + 1, Len(t)) = s \o t
  <1>1. Len(t) \in Nat /\ n \in Nat
    BY BytesType
  <1>2. \A k \in 1 .. Len(t) : t[k] \in 0 .. 255 + MaxLength
    BY ElementOfSeq DEF Bytes
  <1>3. SubSeq(t, 1, n) \in Bytes /\ Len(SubSeq(t, 1, n)) = n
    <2>1. \A k \in 1 .. n : t[k] \in 0 .. 255 + MaxLength
      BY <1>1, <1>2
    <2>2. n \in Int /\ 1 \in Int
      BY <1>1
    <2>3. /\ SubSeq(t, 1, n) \in Seq(0 .. 255 + MaxLength)
          /\ Len(SubSeq(t, 1, n)) = IF 1 <= n THEN n - 1 + 1 ELSE 0
      BY <2>1, <2>2, SubSeqProperties
    <2> QED BY <1>1, <2>3 DEF Bytes
  <1>4. SubSeq(t, n + 1, Len(t)) \in Bytes
    <2>1. \A k \in n + 1 .. Len(t) : t[k] \in 0 .. 255 + MaxLength
      BY <1>1, <1>2
    <2>2. n + 1 \in Int /\ Len(t) \in Int
      BY <1>1
    <2> QED BY <2>1, <2>2, SubSeqProperties DEF Bytes
  <1>5. SubSeq(t, 1, n) \o SubSeq(t, n + 1, Len(t)) = t
    <2>1. SubSeq(t, 1, n) \o SubSeq(t, n + 1, Len(t)) = SubSeq(t, 1, Len(t))
      <3>1. 1 \in 1 .. Len(t) + 1 /\ n \in 1 - 1 .. Len(t) /\ Len(t) \in n .. Len(t)
        BY <1>1
      <3> QED BY <3>1, ConcatAdjacentSubSeq DEF Bytes
    <2> QED BY <2>1, SubSeqFull DEF Bytes
  <1>6. PICK u \in Bytes, v \in Bytes :
          u = SubSeq(t, 1, n) /\ v = SubSeq(t, n + 1, Len(t)) /\ u \o v = t
    BY <1>3, <1>4, <1>5
  <1>7. (s \o u) \o v = s \o (u \o v)
    BY SMTT(40) DEF Bytes
  <1>8. s \o SubSeq(t, 1, n) \in Bytes /\ Len(s \o SubSeq(t, 1, n)) = Len(s) + n
    BY <1>3, Joined
  <1> QED BY <1>4, <1>6, <1>7, <1>8

LEMMA TextType ==
  ASSUME NEW n \in Nat
  PROVE  Text(n) \in Bytes /\ Len(Text(n)) = n
  <1>1. \A k \in 1 .. n : 7 \in 0 .. 255 + MaxLength
    BY Socks5Constants
  <1> QED BY <1>1 DEF Text, Bytes
----
(* The messages *)

LEMMA GreetingLength ==
  /\ Greeting \in Bytes /\ Greeting # <<>> /\ Len(Greeting) \in {3, 4}
  /\ Greeting[2] = Len(Greeting) - 2
  <1> DEFINE S == 0 .. 255 + MaxLength
  <1>1. 0 \in S /\ 1 \in S /\ 2 \in S /\ 5 \in S
    BY Socks5Constants
  <1> HIDE DEF S
  <1>2. <<5, 2, 0, 2>> \in Seq(S) /\ <<5, 1, 0>> \in Seq(S)
    BY <1>1
  <1>3. <<5, 2, 0, 2>> \in Bytes /\ <<5, 1, 0>> \in Bytes
    BY <1>2 DEF Bytes, S
  <1>4. CASE HaveCreds
    BY <1>3, <1>4 DEF Greeting
  <1>5. CASE ~HaveCreds
    BY <1>3, <1>5 DEF Greeting
  <1> QED BY <1>4, <1>5

LEMMA AuthPacketLength ==
  ASSUME call \in Calls, ~TooLong
  PROVE  /\ AuthPacket \in Bytes /\ AuthPacket # <<>>
         /\ Len(AuthPacket) = 3 + call.user + call.pass
         /\ AuthPacket[2] = call.user /\ AuthPacket[3 + call.user] = call.pass
  <1> DEFINE u == call.user
             p == call.pass
             head == <<1, u>>
             user == Text(u)
             tail == <<p>>
             pass == Text(p)
  <1>1. u \in 0 .. MaxLength /\ p \in 0 .. MaxLength
    BY Socks5Constants DEF TooLong
  <1>2. Byte(u) = u /\ Byte(p) = p
    BY <1>1, Socks5Constants DEF Byte
  <1>3. AuthPacket = ((head \o user) \o tail) \o pass
    BY <1>2 DEF AuthPacket
  <1>4. user \in Bytes /\ Len(user) = u /\ pass \in Bytes /\ Len(pass) = p
    BY <1>1, TextType
  <1>5. head \in Bytes /\ Len(head) = 2 /\ head[2] = u /\ tail \in Bytes /\ Len(tail) = 1 /\ tail[1] = p
    BY <1>1, Socks5Constants DEF Bytes
  <1> HIDE DEF head, user, tail, pass
  <1>6. /\ head \o user \in Bytes /\ Len(head \o user) = 2 + u /\ (head \o user)[2] = u
    <2>1. 2 \in 1 .. Len(head)
      BY <1>5
    <2>2. /\ head \o user \in Bytes /\ Len(head \o user) = Len(head) + Len(user)
          /\ (head \o user)[2] = head[2]
      BY <1>4, <1>5, <2>1, Joined, ZenonT(60)
    <2> QED BY <1>4, <1>5, <2>2
  <1>7. /\ (head \o user) \o tail \in Bytes /\ Len((head \o user) \o tail) = 3 + u
        /\ ((head \o user) \o tail)[2] = u /\ ((head \o user) \o tail)[3 + u] = p
    <2>1. 2 \in 1 .. Len(head \o user) /\ 1 \in 1 .. Len(tail) /\ Len(head \o user) + 1 = 3 + u
      BY <1>1, <1>5, <1>6
    <2> HIDE DEF u, p
    <2>2. /\ (head \o user) \o tail \in Bytes
          /\ Len((head \o user) \o tail) = Len(head \o user) + Len(tail)
          /\ ((head \o user) \o tail)[2] = (head \o user)[2]
          /\ ((head \o user) \o tail)[Len(head \o user) + 1] = tail[1]
      BY <1>5, <1>6, <2>1, Joined, ZenonT(60)
    <2> QED BY <1>1, <1>5, <1>6, <2>1, <2>2
  <1>8. /\ AuthPacket \in Bytes /\ Len(AuthPacket) = 3 + u + p
        /\ AuthPacket[2] = u /\ AuthPacket[3 + u] = p
    <2> DEFINE front == (head \o user) \o tail
    <2>1. front \in Bytes /\ Len(front) = 3 + u /\ front[2] = u /\ front[3 + u] = p
      BY <1>7
    <2>2. AuthPacket = front \o pass
      BY <1>3
    <2> HIDE DEF front, u, p
    <2>3. 2 \in 1 .. Len(front) /\ 3 + u \in 1 .. Len(front)
      BY <1>1, <2>1
    <2> QED BY <1>1, <1>4, <2>1, <2>2, <2>3, Joined, ZenonT(60)
  <1>9. AuthPacket # <<>>
    BY <1>1, <1>8, Empty
  <1> QED BY <1>8, <1>9

LEMMA RequestLength ==
  ASSUME call \in Calls, ~TooLong
  PROVE  /\ Request \in Bytes /\ Request # <<>>
         /\ Len(Request) = 7 + call.host /\ Request[5] = call.host
  <1> DEFINE h == call.host
             head == <<5, 1, 0, 3, h>>
             name == Text(h)
             port == <<1, 187>>
  <1>1. h \in 0 .. MaxLength
    BY Socks5Constants DEF TooLong
  <1>2. Byte(h) = h
    BY <1>1, Socks5Constants DEF Byte
  <1>3. Request = (head \o name) \o port
    BY <1>2 DEF Request
  <1>4. name \in Bytes /\ Len(name) = h
    BY <1>1, TextType
  <1>5. head \in Bytes /\ Len(head) = 5 /\ head[5] = h /\ port \in Bytes /\ Len(port) = 2
    BY <1>1, Socks5Constants DEF Bytes
  <1> HIDE DEF head, name, port, h
  <1>6. head \o name \in Bytes /\ Len(head \o name) = 5 + h /\ (head \o name)[5] = h
    <2>1. 5 \in 1 .. Len(head)
      BY <1>5
    <2>2. /\ head \o name \in Bytes /\ Len(head \o name) = Len(head) + Len(name)
          /\ (head \o name)[5] = head[5]
      BY <1>4, <1>5, <2>1, Joined, ZenonT(60)
    <2> QED BY <1>4, <1>5, <2>2
  <1>7. Request \in Bytes /\ Len(Request) = 7 + h /\ Request[5] = h
    <2>1. 5 \in 1 .. Len(head \o name)
      BY <1>1, <1>6
    <2>2. /\ (head \o name) \o port \in Bytes
          /\ Len((head \o name) \o port) = Len(head \o name) + Len(port)
          /\ ((head \o name) \o port)[5] = (head \o name)[5]
      BY <1>5, <1>6, <2>1, Joined, ZenonT(60)
    <2> QED BY <1>1, <1>3, <1>5, <1>6, <2>2
  <1>8. Request # <<>>
    BY <1>1, <1>7, Empty
  <1> QED BY <1>7, <1>8 DEF h

\* The proxy sees the end of a message where the client has put it.
LEMMA WholeMessage ==
  ASSUME TypeOK, ~TooLong, NEW message, upstream \o left = message,
         \/ stage = "greeting" /\ message = Greeting
         \/ stage = "auth" /\ message = AuthPacket
         \/ stage = "request" /\ message = Request
  PROVE  /\ message \in Bytes /\ message # <<>> /\ Len(message) = Len(upstream) + Len(left)
         /\ Length(upstream) \in Nat
         /\ Length(upstream) <= Len(upstream) <=> left = <<>>
         /\ left = <<>> => Length(upstream) = Len(upstream)
  <1>1. upstream \in Bytes /\ left \in Bytes /\ Len(upstream) \in Nat /\ Len(left) \in Nat
    BY BytesType DEF TypeOK
  <1>2. /\ message \in Bytes /\ Len(message) = Len(upstream) + Len(left)
        /\ \A k \in 1 .. Len(upstream) : message[k] = upstream[k]
    BY <1>1, Joined
  <1>3. left = <<>> <=> Len(left) = 0
    BY <1>1, Empty
  <1>4. call \in Calls /\ call.user \in Nat /\ call.pass \in Nat /\ call.host \in Nat
    BY Socks5Constants DEF TypeOK
  <1>5. CASE stage = "greeting"
    <2>1. message = Greeting
      BY <1>5
    <2>2. /\ message # <<>> /\ Len(message) \in {3, 4} /\ message[2] = Len(message) - 2
      BY <2>1, GreetingLength
    <2>3. CASE Len(upstream) >= 2
      <3>1. Length(upstream) = Len(message)
        BY <1>1, <1>2, <1>5, <2>2, <2>3 DEF Length
      <3> QED BY <1>1, <1>2, <1>3, <2>2, <3>1
    <2>4. CASE Len(upstream) < 2
      <3>1. Length(upstream) = Len(upstream) + 1
        BY <1>1, <1>5, <2>4 DEF Length
      <3> QED BY <1>1, <1>2, <1>3, <2>2, <2>4, <3>1
    <2> QED BY <1>1, <2>3, <2>4
  <1>6. CASE stage = "auth"
    <2>1. message = AuthPacket
      BY <1>6
    <2>2. /\ message # <<>> /\ Len(message) = 3 + call.user + call.pass
          /\ message[2] = call.user /\ message[3 + call.user] = call.pass
      BY <1>4, <2>1, AuthPacketLength
    <2>3. CASE Len(upstream) >= 3 + call.user
      <3>1. upstream[2] = call.user /\ upstream[3 + call.user] = call.pass
        <4>1. 2 \in 1 .. Len(upstream) /\ 3 + call.user \in 1 .. Len(upstream)
          BY <1>1, <1>4, <2>3
        <4> QED BY <1>2, <2>2, <4>1
      <3>2. Length(upstream) = Len(message)
        BY <1>1, <1>4, <1>6, <2>2, <2>3, <3>1 DEF Length
      <3> QED BY <1>1, <1>2, <1>3, <2>2, <3>2
    <2>4. CASE Len(upstream) < 3 + call.user
      <3>1. Len(upstream) >= 2 => upstream[2] = call.user
        BY <1>1, <1>2, <2>2
      <3>2. Length(upstream) = Len(upstream) + 1
        BY <1>1, <1>4, <1>6, <2>4, <3>1 DEF Length
      <3> QED BY <1>1, <1>2, <1>3, <1>4, <2>2, <2>4, <3>2, SMTT(40)
    <2> QED BY <1>1, <1>4, <2>3, <2>4
  <1>7. CASE stage = "request"
    <2>1. message = Request
      BY <1>7
    <2>2. message # <<>> /\ Len(message) = 7 + call.host /\ message[5] = call.host
      BY <1>4, <2>1, RequestLength
    <2>3. CASE Len(upstream) >= 5
      <3>1. upstream[5] = call.host
        BY <1>1, <1>2, <2>2, <2>3
      <3>2. Length(upstream) = Len(message)
        BY <1>1, <1>4, <1>7, <2>2, <2>3, <3>1 DEF Length
      <3> QED BY <1>1, <1>2, <1>3, <2>2, <3>2
    <2>4. CASE Len(upstream) < 5
      <3>1. Length(upstream) = Len(upstream) + 1
        BY <1>1, <1>7, <2>4 DEF Length
      <3> QED BY <1>1, <1>2, <1>3, <1>4, <2>2, <2>4, <3>1
    <2> QED BY <1>1, <2>3, <2>4
  <1> QED BY <1>5, <1>6, <1>7
----
(* Types *)

LEMMA PacketTypes ==
  ASSUME call \in Calls, ~TooLong
  PROVE  Greeting \in Bytes /\ AuthPacket \in Bytes /\ Request \in Bytes
  BY GreetingLength, AuthPacketLength, RequestLength

LEMMA InitInv == Init => IInv
  <1> SUFFICES ASSUME Init PROVE IInv
    OBVIOUS
  <1>1. TypeOK
    BY Empty DEF Init, TypeOK
  <1>2. Saying = <<>> /\ Arriving = <<>>
    BY Empty, Joined DEF Init, Saying, Arriving, Receiving
  <1>3. TurnInv
    BY <1>2 DEF Init, TurnInv, Asking
  <1> QED
    BY <1>1, <1>3 DEF Init, IInv, NeedInv, StageInv, Fits, Receiving

LEMMA ClientTypes ==
  ASSUME TypeOK, NeedInv, Fits, Client
  PROVE  TypeOK' /\ Fits'
  <1>1. CASE Start
    BY <1>1, PacketTypes DEF Start, SendAll, Return, KeepWire, proxyVars, TypeOK, Fits, TooLong
  <1>2. CASE SendSome
    <2>1. PICK n \in 1 .. Len(left) : /\ upstream' = upstream \o SubSeq(left, 1, n)
                                      /\ left' = SubSeq(left, n + 1, Len(left))
      BY <1>2 DEF SendSome
    <2>2. upstream' \in Bytes /\ left' \in Bytes
      BY <2>1, Moved DEF TypeOK
    <2> QED BY <1>2, <2>2 DEF SendSome, proxyVars, TypeOK, Fits, TooLong
  <1>3. CASE RecvSome
    <2>1. PICK n \in 1 .. need - Len(got) : /\ n <= Len(downstream)
                                            /\ got' = got \o SubSeq(downstream, 1, n)
                                            /\ downstream' = SubSeq(downstream, n + 1, Len(downstream))
      BY <1>3 DEF RecvSome
    <2>2. n \in 1 .. Len(downstream) /\ Len(got) \in Nat /\ got \in Bytes /\ downstream \in Bytes
      BY <2>1, BytesType DEF TypeOK
    <2>3. got' \in Bytes /\ downstream' \in Bytes /\ Len(got') = Len(got) + n
      BY <2>1, <2>2, Moved
    <2>4. Len(got') <= need
      BY <2>1, <2>2, <2>3 DEF TypeOK
    <2> QED BY <1>3, <2>3, <2>4 DEF RecvSome, proxyVars, TypeOK, Fits, TooLong
  <1>4. CASE CallFails
    BY <1>4 DEF CallFails, Return, KeepWire, proxyVars, TypeOK, Fits
  <1>5. CASE MessageSent
    BY <1>5, Empty DEF MessageSent, Sent, RecvExact, KeepWire, proxyVars, TypeOK, Fits, TooLong
  <1>6. CASE OnMethod
    BY <1>6, PacketTypes
       DEF OnMethod, Received, SendAll, Return, KeepWire, proxyVars, TypeOK, Fits, TooLong
  <1>7. CASE OnStatus
    BY <1>7, PacketTypes
       DEF OnStatus, Received, SendAll, Return, KeepWire, proxyVars, TypeOK, Fits, TooLong
  <1>8. CASE OnReply
    BY <1>8, Empty
       DEF OnReply, Received, RecvExact, Return, KeepWire, proxyVars, TypeOK, Fits, TooLong
  <1>9. CASE OnLength \/ OnAddress
    <2>1. CASE OnLength
      <3>1. pc = "length" /\ need = 1 /\ Len(got) = 1 /\ got \in Bytes
        BY <2>1 DEF OnLength, Received, NeedInv, TypeOK
      <3>2. got[1] \in Nat
        BY <3>1, BytesType
      <3>3. need' \in Nat /\ got' = <<>> /\ pc' = "address"
        BY <2>1, <3>2 DEF OnLength, RecvExact
      <3> QED BY <2>1, <3>1, <3>3, Empty
              DEF OnLength, Received, RecvExact, KeepWire, proxyVars, TypeOK, Fits, TooLong
    <2>2. CASE OnAddress
      BY <2>2 DEF OnAddress, Received, Return, KeepWire, proxyVars, TypeOK, Fits, TooLong
    <2> QED BY <1>9, <2>1, <2>2
  <1> QED
    BY <1>1, <1>2, <1>3, <1>4, <1>5, <1>6, <1>7, <1>8, <1>9 DEF Client
----
(* The client's turn *)

\* Neither what is said nor what has come of the answer changes.
LEMMA SameTurn ==
  ASSUME TurnInv, Saying' = Saying, Arriving' = Arriving, downstream' = downstream \/ pc # "ok",
         UNCHANGED <<call, pc, need, stage, open, forwarded>>
  PROVE  TurnInv'
  <1>1. /\ Greeting' = Greeting /\ AuthPacket' = AuthPacket /\ Request' = Request
        /\ HaveCreds' = HaveCreds
    BY DEF Greeting, AuthPacket, Request, HaveCreds
  <1>2. \A m, s : Asking(m, s)' <=> Asking(m, s)
    BY DEF Asking
  <1>3. /\ MethodCame' <=> MethodCame
        /\ StatusCame' <=> StatusCame
        /\ ReplyCame' <=> ReplyCame
        /\ LengthCame' <=> LengthCame
        /\ AddressCame' <=> AddressCame
    BY DEF MethodCame, StatusCame, ReplyCame, LengthCame, AddressCame
  <1> QED
    BY <1>1, <1>2, <1>3 DEF TurnInv

\* The call fails, and nothing is expected of the proxy any more.
LEMMA Failed == ASSUME pc' = "failed" PROVE TurnInv' /\ NeedInv'
  BY DEF TurnInv, NeedInv, Receiving

LEMMA ByteSteps ==
  ASSUME IInv, SendSome \/ RecvSome
  PROVE  TurnInv' /\ NeedInv'
  <1>1. CASE SendSome
    <2>1. PICK n \in 1 .. Len(left) : /\ upstream' = upstream \o SubSeq(left, 1, n)
                                      /\ left' = SubSeq(left, n + 1, Len(left))
      BY <1>1 DEF SendSome
    <2>2. Saying' = Saying
      BY <2>1, Moved DEF Saying, IInv, TypeOK
    <2>3. UNCHANGED <<call, pc, got, need, downstream, stage, open, forwarded>> /\ Sending
      BY <1>1 DEF SendSome, proxyVars
    <2>4. Arriving' = Arriving
      BY <2>3 DEF Arriving, Receiving
    <2>5. NeedInv'
      BY <2>3 DEF IInv, NeedInv, Sending, Receiving
    <2> QED BY <2>2, <2>3, <2>4, <2>5, SameTurn DEF IInv
  <1>2. CASE RecvSome
    <2>1. PICK n \in 1 .. need - Len(got) : /\ n <= Len(downstream)
                                            /\ got' = got \o SubSeq(downstream, 1, n)
                                            /\ downstream' = SubSeq(downstream, n + 1, Len(downstream))
      BY <1>2 DEF RecvSome
    <2>2. n \in 1 .. Len(downstream) /\ got \in Bytes /\ downstream \in Bytes
      BY <2>1, BytesType DEF IInv, TypeOK
    <2>3. got' \o downstream' = got \o downstream
      BY <2>1, <2>2, Moved
    <2>4. UNCHANGED <<call, pc, left, need, upstream, stage, open, forwarded>> /\ Receiving
      BY <1>2 DEF RecvSome, proxyVars
    <2>5. Arriving' = Arriving
      BY <2>3, <2>4 DEF Arriving, Receiving
    <2>6. Saying' = Saying /\ NeedInv'
      BY <2>4 DEF Saying, IInv, NeedInv, Receiving
    <2> QED BY <2>4, <2>5, <2>6, SameTurn DEF IInv, Receiving
  <1> QED
    BY <1>1, <1>2

\* The message is said; what has come of the answer is now to be read.
LEMMA MessageStep ==
  ASSUME IInv, MessageSent
  PROVE  TurnInv' /\ NeedInv'
  <1>1. /\ UNCHANGED <<call, upstream, left, downstream, stage, open, forwarded>>
        /\ left = <<>> /\ got' = <<>>
    BY DEF MessageSent, Sent, RecvExact, KeepWire, proxyVars
  <1>2. \/ pc = "greeting" /\ pc' = "method" /\ need' = 2
        \/ pc = "auth" /\ pc' = "status" /\ need' = 2
        \/ pc = "connect" /\ pc' = "reply" /\ need' = 4
    BY DEF MessageSent, Sent, RecvExact
  <1>3. Saying' = Saying
    BY <1>1 DEF Saying
  <1>4. Arriving' = Arriving
    <2>1. got' \o downstream' = downstream
      BY <1>1, Empty, Joined DEF IInv, TypeOK
    <2>2. Receiving' /\ ~Receiving
      BY <1>2 DEF Receiving
    <2> QED BY <2>1, <2>2 DEF Arriving
  <1>5. /\ Greeting' = Greeting /\ AuthPacket' = AuthPacket /\ Request' = Request
        /\ HaveCreds' = HaveCreds
    BY <1>1 DEF Greeting, AuthPacket, Request, HaveCreds
  <1>6. \A m, s : Asking(m, s)' <=> Asking(m, s)
    BY <1>1, <1>3, <1>4 DEF Asking
  <1>7. /\ MethodCame' <=> MethodCame
        /\ StatusCame' <=> StatusCame
        /\ ReplyCame' <=> ReplyCame
    BY <1>1, <1>4 DEF MethodCame, StatusCame, ReplyCame
  <1>8. TurnInv'
    BY <1>2, <1>3, <1>5, <1>6, <1>7 DEF IInv, TurnInv
  <1>9. NeedInv'
    BY <1>1, <1>2 DEF NeedInv, Receiving
  <1> QED
    BY <1>8, <1>9

\* What the client has read is the front of the answer.
LEMMA FrontRead ==
  ASSUME IInv, Receiving, Len(got) = need
  PROVE  /\ Len(Arriving) = need + Len(downstream) /\ Len(downstream) \in Nat /\ need \in Nat
         /\ \A k \in 1 .. need : got[k] \in Nat /\ Arriving[k] = got[k]
         /\ \A k \in 1 .. Len(downstream) : Arriving[need + k] = downstream[k]
         /\ Arriving = <<>> => need = 0
  <1>1. got \in Bytes /\ downstream \in Bytes /\ need \in Nat
    BY DEF IInv, TypeOK
  <1>2. Arriving = got \o downstream
    BY DEF Arriving
  <1>3. Len(got) \in Nat /\ Len(downstream) \in Nat /\ \A k \in 1 .. Len(got) : got[k] \in Nat
    BY <1>1, BytesType
  <1>4. Arriving = <<>> => need = 0
    BY <1>1, <1>2, Joined, Empty
  <1> QED
    BY <1>1, <1>2, <1>3, <1>4, Joined

\* A new message is to be said, and nothing has come.
LEMMA NowSaying ==
  ASSUME IInv, NEW message \in Bytes, NEW to, SendAll(message, to), KeepWire,
         to \in {"greeting", "auth", "connect"}, upstream = <<>>, downstream = <<>>
  PROVE  Saying' = message /\ Arriving' = <<>> /\ pc' = to /\ NeedInv'
  <1>1. pc' = to /\ left' = message /\ upstream' = <<>> /\ downstream' = <<>>
    BY DEF SendAll, KeepWire
  <1>2. Saying' = message
    BY <1>1, Empty, Joined DEF Saying
  <1>3. Arriving' = <<>> /\ NeedInv'
    BY <1>1 DEF Arriving, Receiving, NeedInv
  <1> QED BY <1>1, <1>2, <1>3

LEMMA StartStep ==
  ASSUME IInv, Start
  PROVE  TurnInv' /\ NeedInv'
  <1>1. CASE TooLong
    BY <1>1, Failed DEF Start, Return
  <1>2. CASE ~TooLong
    <2>1. /\ pc = "start" /\ SendAll(Greeting, "greeting") /\ KeepWire
      BY <1>2 DEF Start
    <2>2. Saying = <<>> /\ Arriving = <<>> /\ (open => stage = "greeting")
      BY <2>1 DEF IInv, TurnInv, Asking
    <2>3. upstream = <<>> /\ downstream = <<>>
      BY <2>1, <2>2, Joined DEF IInv, TypeOK, Saying, Arriving, Receiving
    <2>4. Saying' = Greeting /\ Arriving' = <<>> /\ pc' = "greeting" /\ NeedInv'
      BY <2>1, <2>3, GreetingLength, NowSaying
    <2>5. Greeting' = Greeting /\ UNCHANGED <<open, stage>>
      BY <2>1 DEF Greeting, HaveCreds, KeepWire, proxyVars
    <2>6. Asking(Greeting, "greeting")'
      BY <2>2, <2>4, <2>5 DEF Asking
    <2> QED BY <2>4, <2>6 DEF TurnInv
  <1> QED BY <1>1, <1>2

LEMMA MethodStep ==
  ASSUME IInv, OnMethod
  PROVE  TurnInv' /\ NeedInv'
  <1>1. pc = "method" /\ Len(got) = need /\ need = 2 /\ Receiving /\ KeepWire
    BY DEF OnMethod, Received, IInv, NeedInv, Receiving
  <1>2. /\ Len(Arriving) = 2 + Len(downstream) /\ Len(downstream) \in Nat
        /\ Arriving[1] = got[1] /\ Arriving[2] = got[2] /\ Arriving # <<>>
    BY <1>1, FrontRead
  <1>3. Saying = <<>> /\ MethodCame
    BY <1>1, <1>2 DEF IInv, TurnInv, Asking
  <1>4. Len(downstream) = 0
    BY <1>2, <1>3 DEF MethodCame
  <1>5. upstream = <<>> /\ downstream = <<>>
    BY <1>3, <1>4, Empty, Joined DEF IInv, TypeOK, Saying
  <1>6. CASE pc' = "failed"
    BY <1>6, Failed
  <1>7. CASE got[1] = 5 /\ got[2] = 2 /\ HaveCreds /\ SendAll(AuthPacket, "auth")
    <2>1. open => stage = "auth"
      BY <1>2, <1>3, <1>7 DEF MethodCame
    <2>2. AuthPacket \in Bytes
      BY <1>1, PacketTypes DEF IInv, TypeOK, Fits
    <2>3. Saying' = AuthPacket /\ Arriving' = <<>> /\ pc' = "auth" /\ NeedInv'
      BY <1>1, <1>5, <1>7, <2>2, NowSaying
    <2>4. AuthPacket' = AuthPacket /\ HaveCreds' /\ UNCHANGED <<open, stage>>
      BY <1>1, <1>7 DEF AuthPacket, HaveCreds, KeepWire, proxyVars
    <2>5. Asking(AuthPacket, "auth")'
      BY <2>1, <2>3, <2>4 DEF Asking
    <2> QED BY <2>3, <2>4, <2>5 DEF TurnInv
  <1>8. CASE got[1] = 5 /\ got[2] = 0 /\ SendAll(Request, "connect")
    <2>1. open => stage = "request"
      BY <1>2, <1>3, <1>8 DEF MethodCame
    <2>2. Request \in Bytes
      BY <1>1, PacketTypes DEF IInv, TypeOK, Fits
    <2>3. Saying' = Request /\ Arriving' = <<>> /\ pc' = "connect" /\ NeedInv'
      BY <1>1, <1>5, <1>8, <2>2, NowSaying
    <2>4. Request' = Request /\ UNCHANGED <<open, stage>>
      BY <1>1 DEF Request, KeepWire, proxyVars
    <2>5. Asking(Request, "request")'
      BY <2>1, <2>3, <2>4 DEF Asking
    <2> QED BY <2>3, <2>5 DEF TurnInv
  <1> QED
    BY <1>6, <1>7, <1>8 DEF OnMethod, Return

LEMMA StatusStep ==
  ASSUME IInv, OnStatus
  PROVE  TurnInv' /\ NeedInv'
  <1>1. pc = "status" /\ Len(got) = need /\ need = 2 /\ Receiving /\ KeepWire
    BY DEF OnStatus, Received, IInv, NeedInv, Receiving
  <1>2. /\ Len(Arriving) = 2 + Len(downstream) /\ Len(downstream) \in Nat
        /\ Arriving[2] = got[2] /\ Arriving # <<>>
    BY <1>1, FrontRead
  <1>3. Saying = <<>> /\ StatusCame
    BY <1>1, <1>2 DEF IInv, TurnInv, Asking
  <1>4. Len(downstream) = 0
    BY <1>2, <1>3 DEF StatusCame
  <1>5. upstream = <<>> /\ downstream = <<>>
    BY <1>3, <1>4, Empty, Joined DEF IInv, TypeOK, Saying
  <1>6. CASE got[2] # 0
    BY <1>6, Failed DEF OnStatus, Return
  <1>7. CASE got[2] = 0
    <2>1. open => stage = "request"
      BY <1>2, <1>3, <1>7 DEF StatusCame
    <2>2. Request \in Bytes
      BY <1>1, PacketTypes DEF IInv, TypeOK, Fits
    <2>3. SendAll(Request, "connect")
      BY <1>7 DEF OnStatus
    <2>4. Saying' = Request /\ Arriving' = <<>> /\ pc' = "connect" /\ NeedInv'
      BY <1>1, <1>5, <2>2, <2>3, NowSaying
    <2>5. Request' = Request /\ UNCHANGED <<open, stage>>
      BY <1>1 DEF Request, KeepWire, proxyVars
    <2>6. Asking(Request, "request")'
      BY <2>1, <2>4, <2>5 DEF Asking
    <2> QED BY <2>4, <2>6 DEF TurnInv
  <1> QED
    BY <1>6, <1>7

LEMMA ReplyStep ==
  ASSUME IInv, OnReply
  PROVE  TurnInv' /\ NeedInv'
  <1>1. pc = "reply" /\ Len(got) = need /\ need = 4 /\ Receiving /\ KeepWire
    BY DEF OnReply, Received, IInv, NeedInv, Receiving
  <1>2. /\ Len(Arriving) = 4 + Len(downstream) /\ Len(downstream) \in Nat
        /\ Arriving[2] = got[2] /\ Arriving[4] = got[4] /\ Arriving # <<>>
        /\ Len(downstream) >= 1 => Arriving[5] = downstream[1]
    <2>1. 2 \in 1 .. need /\ 4 \in 1 .. need
      BY <1>1
    <2>2. Len(downstream) >= 1 => 1 \in 1 .. Len(downstream)
      BY BytesType DEF IInv, TypeOK
    <2> QED BY <1>1, <2>1, <2>2, FrontRead
  <1>3. Saying = <<>> /\ ReplyCame
    BY <1>1, <1>2 DEF IInv, TurnInv, Asking
  <1>4. CASE pc' = "failed"
    BY <1>4, Failed
  <1>5. CASE got[2] = 0 /\ got[4] \in {1, 3, 4} /\ pc' # "failed"
    <2>1. Grants(Arriving)
      BY <1>2, <1>5 DEF Grants
    <2>2. /\ got' = <<>> /\ UNCHANGED <<upstream, left, downstream, open, stage, forwarded>>
          /\ left = <<>>
      BY <1>1, <1>5 DEF OnReply, RecvExact, Return, KeepWire, proxyVars, IInv, NeedInv
    <2>3. Saying' = <<>>
      BY <1>3, <2>2 DEF Saying
    <2>4. pc' \in {"length", "address"}
      BY <1>5 DEF OnReply, RecvExact, Return
    <2>5. Arriving' = downstream
      BY <2>2, <2>4, Empty, Joined DEF Arriving, Receiving, IInv, TypeOK
    <2>6. forwarded \in Nat
      BY DEF IInv, TypeOK
    <2>7. CASE got[4] = 3
      <3>1. pc' = "length" /\ need' = 1
        BY <1>5, <2>7 DEF OnReply, RecvExact, Return
      <3>2. \/ /\ Len(downstream) >= 1 /\ Len(downstream) = 3 + downstream[1] + forwarded
               /\ open => stage = "tunnel"
            \/ /\ Len(downstream) = 0 \/ Len(downstream) < 3 + downstream[1]
               /\ ~open
        <4>0. Len(downstream) >= 1 => downstream[1] \in Nat
          BY BytesType DEF IInv, TypeOK
        <4>1. Len(downstream) >= 1 => Rest(Arriving) = downstream[1] + 3
          BY <1>2, <2>7, <4>0 DEF Rest
        <4>2. CASE Len(downstream) >= 1
          BY <1>2, <1>3, <2>1, <2>6, <4>0, <4>1, <4>2, SMTT(40) DEF ReplyCame
        <4>3. CASE Len(downstream) = 0
          BY <1>2, <1>3, <2>1, <4>3 DEF ReplyCame
        <4> QED BY <1>2, <4>2, <4>3
      <3>3. LengthCame'
        BY <2>2, <2>5, <3>2 DEF LengthCame
      <3>4. NeedInv'
        BY <2>2, <3>1 DEF NeedInv
      <3> QED BY <2>3, <3>1, <3>3, <3>4 DEF TurnInv
    <2>8. CASE got[4] # 3
      <3>1. pc' = "address" /\ need' \in {6, 18} /\ need' = Rest(Arriving)
        BY <1>2, <1>5, <2>8 DEF OnReply, RecvExact, Return, Rest
      <3>2. \/ Len(downstream) = need' + forwarded /\ (open => stage = "tunnel")
            \/ Len(downstream) < need' /\ ~open
        BY <1>2, <1>3, <2>1, <2>6, <3>1, SMTT(40) DEF ReplyCame
      <3>3. AddressCame'
        BY <2>2, <2>5, <3>2 DEF AddressCame
      <3>4. NeedInv'
        BY <2>2, <3>1 DEF NeedInv
      <3> QED BY <2>3, <3>1, <3>3, <3>4 DEF TurnInv
    <2> QED BY <2>7, <2>8
  <1> QED
    BY <1>4, <1>5 DEF OnReply, Return

LEMMA LengthStep ==
  ASSUME IInv, OnLength
  PROVE  TurnInv' /\ NeedInv'
  <1>1. /\ pc = "length" /\ Len(got) = need /\ need = 1 /\ Receiving /\ KeepWire
        /\ pc' = "address" /\ got' = <<>> /\ left' = left /\ need' = got[1] + 2 /\ left = <<>>
    BY DEF OnLength, Received, RecvExact, IInv, NeedInv, Receiving
  <1>2. /\ Len(Arriving) = 1 + Len(downstream) /\ Len(downstream) \in Nat
        /\ Arriving[1] = got[1] /\ got[1] \in Nat
    BY <1>1, FrontRead
  <1>3. Saying = <<>> /\ LengthCame
    BY <1>1 DEF IInv, TurnInv
  <1>4. UNCHANGED <<upstream, left, downstream, open, stage, forwarded>> /\ forwarded \in Nat
    BY <1>1 DEF KeepWire, proxyVars, IInv, TypeOK
  <1>5. Saying' = <<>>
    BY <1>3, <1>4 DEF Saying
  <1>6. Arriving' = downstream
    BY <1>1, <1>4, Empty, Joined DEF Arriving, Receiving, IInv, TypeOK
  <1>7. AddressCame'
    BY <1>1, <1>2, <1>3, <1>4, <1>6 DEF LengthCame, AddressCame
  <1>8. NeedInv'
    BY <1>1 DEF NeedInv
  <1> QED BY <1>1, <1>5, <1>7, <1>8 DEF TurnInv

LEMMA AddressStep ==
  ASSUME IInv, OnAddress
  PROVE  TurnInv' /\ NeedInv'
  <1>1. /\ pc = "address" /\ Len(got) = need /\ Receiving /\ KeepWire
        /\ pc' = "ok" /\ UNCHANGED <<left, got, need>>
    BY DEF OnAddress, Received, Return, Receiving
  <1>2. /\ Len(Arriving) = need + Len(downstream) /\ Len(downstream) \in Nat /\ need \in Nat
    BY <1>1, FrontRead
  <1>3. Saying = <<>> /\ AddressCame
    BY <1>1 DEF IInv, TurnInv
  <1>4. UNCHANGED <<upstream, left, downstream, open, stage, forwarded>> /\ forwarded \in Nat
    BY <1>1 DEF KeepWire, proxyVars, IInv, TypeOK
  <1>5. Len(downstream) = forwarded /\ (open => stage = "tunnel")
    BY <1>2, <1>3, <1>4 DEF AddressCame
  <1>6. Saying' = <<>>
    BY <1>3, <1>4 DEF Saying
  <1>7. NeedInv'
    BY <1>1 DEF NeedInv, Receiving
  <1> QED BY <1>1, <1>4, <1>5, <1>6, <1>7 DEF TurnInv

LEMMA ClientStep ==
  ASSUME IInv, Client
  PROVE  IInv'
  <1>1. TypeOK' /\ Fits'
    BY ClientTypes DEF IInv
  <1>2. TurnInv' /\ NeedInv'
    <2>1. CASE CallFails
      BY <2>1, Failed DEF CallFails, Return
    <2> QED BY <2>1, StartStep, ByteSteps, MessageStep, MethodStep, StatusStep, ReplyStep,
               LengthStep, AddressStep DEF Client
  <1>3. StageInv'
    <2>1. UNCHANGED <<open, stage, forwarded>>
      BY DEF Client, Start, SendSome, RecvSome, CallFails, MessageSent, OnMethod, OnStatus, OnReply,
             OnLength, OnAddress, Sent, Received, KeepWire, proxyVars
    <2> QED BY <2>1 DEF IInv, StageInv
  <1> QED BY <1>1, <1>2, <1>3 DEF IInv
----
(* The proxy's turn *)

\* The beginning of an answer.
LEMMA Beginning ==
  ASSUME NEW reply \in Bytes, NEW n \in 0 .. Len(reply) - 1
  PROVE  /\ SubSeq(reply, 1, n) \in Bytes /\ Len(SubSeq(reply, 1, n)) = n /\ n < Len(reply)
         /\ \A k \in 1 .. n : SubSeq(reply, 1, n)[k] = reply[k]
  <1>1. Len(reply) \in Nat /\ n \in 0 .. Len(reply) /\ n \in Int /\ 1 \in Int
    BY BytesType
  <1>2. \A k \in 1 .. n : reply[k] \in 0 .. 255 + MaxLength
    <2>1. \A k \in 1 .. n : k \in 1 .. Len(reply)
      BY <1>1
    <2> QED BY <2>1, ElementOfSeq DEF Bytes
  <1>3. /\ SubSeq(reply, 1, n) \in Seq(0 .. 255 + MaxLength)
        /\ Len(SubSeq(reply, 1, n)) = IF 1 <= n THEN n - 1 + 1 ELSE 0
        /\ \A k \in 1 .. n - 1 + 1 : SubSeq(reply, 1, n)[k] = reply[1 + k - 1]
    BY <1>1, <1>2, SubSeqProperties
  <1> QED BY <1>1, <1>3 DEF Bytes

\* An answer takes the whole message, and all of it or its beginning arrives.
LEMMA AnswerTurn ==
  ASSUME IInv, open, Asked, NEW reply \in Bytes, NEW next, Answer(reply, next)
  PROVE  /\ upstream' \in Bytes /\ downstream' \in Bytes
         /\ UNCHANGED <<call, pc, left, got, need, forwarded>> /\ forwarded = 0
         /\ stage' = next \/ (stage' = "over" /\ ~open')
         /\ pc = "failed" \/
            /\ pc \in (CASE stage = "greeting" -> {"greeting", "method"}
                         [] stage = "auth" -> {"auth", "status"}
                         [] OTHER -> {"connect", "reply"})
            /\ Saying' = <<>>
            /\ \/ Arriving' = reply /\ stage' = next
               \/ /\ Len(Arriving') < Len(reply) /\ Len(Arriving') \in Nat /\ ~open'
                  /\ \A k \in 1 .. Len(Arriving') : Arriving'[k] = reply[k]
  <1>1. /\ UNCHANGED <<call, pc, left, got, need, forwarded>>
        /\ upstream' = SubSeq(upstream, Length(upstream) + 1, Len(upstream))
        /\ stage \in {"greeting", "auth", "request"} /\ Length(upstream) <= Len(upstream)
    BY DEF Answer, Asked, clientVars
  <1>2. \/ downstream' = downstream \o reply /\ stage' = next /\ open' = open
        \/ /\ \E n \in 0 .. Len(reply) - 1 : downstream' = downstream \o SubSeq(reply, 1, n)
           /\ stage' = "over" /\ open' = FALSE
    BY DEF Answer
  <1>3. forwarded = 0 /\ upstream \in Bytes /\ left \in Bytes /\ got \in Bytes /\ downstream \in Bytes
    BY <1>1 DEF IInv, StageInv, TypeOK
  <1>4. Len(upstream) \in Nat /\ \A k \in 1 .. Len(upstream) : upstream[k] \in 0 .. 255 + MaxLength
    BY <1>3, BytesType, ElementOfSeq DEF Bytes
  <1>5. Length(upstream) \in Nat
    <2>1. \A k \in 1 .. Len(upstream) : upstream[k] \in Nat
      BY <1>3, BytesType
    <2> QED BY <1>1, <1>4, <2>1, SMTT(40) DEF Length
  <1>6. upstream' \in Bytes
    <2>1. /\ Length(upstream) + 1 \in Int /\ Len(upstream) \in Int
          /\ \A k \in Length(upstream) + 1 .. Len(upstream) : upstream[k] \in 0 .. 255 + MaxLength
      BY <1>4, <1>5
    <2> QED BY <1>1, <2>1, SubSeqProperties DEF Bytes
  <1>7. PICK part \in Bytes :
          /\ downstream' = downstream \o part
          /\ \/ part = reply /\ stage' = next
             \/ /\ Len(part) < Len(reply) /\ ~open'
                /\ \A k \in 1 .. Len(part) : part[k] = reply[k]
    <2>1. CASE downstream' = downstream \o reply /\ stage' = next /\ open' = open
      BY <2>1
    <2>2. CASE /\ \E n \in 0 .. Len(reply) - 1 : downstream' = downstream \o SubSeq(reply, 1, n)
               /\ stage' = "over" /\ open' = FALSE
      <3>1. PICK n \in 0 .. Len(reply) - 1 : downstream' = downstream \o SubSeq(reply, 1, n)
        BY <2>2
      <3>2. /\ SubSeq(reply, 1, n) \in Bytes /\ Len(SubSeq(reply, 1, n)) = n /\ n < Len(reply)
            /\ \A k \in 1 .. n : SubSeq(reply, 1, n)[k] = reply[k]
        BY Beginning
      <3> QED BY <2>2, <3>1, <3>2
    <2> QED BY <1>2, <2>1, <2>2
  <1>8. downstream' \in Bytes
    BY <1>3, <1>7, Joined
  <1>9. ASSUME pc # "failed"
        PROVE  /\ pc \in (CASE stage = "greeting" -> {"greeting", "method"}
                            [] stage = "auth" -> {"auth", "status"}
                            [] OTHER -> {"connect", "reply"})
               /\ Saying' = <<>>
               /\ \/ Arriving' = reply /\ stage' = next
                  \/ /\ Len(Arriving') < Len(reply) /\ Len(Arriving') \in Nat /\ ~open'
                     /\ \A k \in 1 .. Len(Arriving') : Arriving'[k] = reply[k]
    <2>1. Saying # <<>>
      <3>1. CASE Saying = <<>>
        <4>1. upstream = <<>>
          BY <1>3, <3>1, Joined DEF Saying
        <4>2. Len(upstream) = 0
          BY <4>1, Empty
        <4>3. Length(upstream) = 1
          BY <1>1, <4>2 DEF Length
        <4> QED BY <1>1, <4>2, <4>3
      <3> QED BY <3>1
    <2>2. \/ /\ pc \in {"greeting", "method"} /\ Asking(Greeting, "greeting")
          \/ /\ pc \in {"auth", "status"} /\ Asking(AuthPacket, "auth")
          \/ /\ pc \in {"connect", "reply"} /\ Asking(Request, "request")
      BY <2>1, <1>9 DEF IInv, TypeOK, TurnInv, Asking
    <2>3. pc \in (CASE stage = "greeting" -> {"greeting", "method"}
                    [] stage = "auth" -> {"auth", "status"}
                    [] OTHER -> {"connect", "reply"})
      BY <1>1, <2>2 DEF Asking
    <2>4. PICK message : /\ upstream \o left = message /\ Arriving = <<>>
                         /\ \/ stage = "greeting" /\ message = Greeting
                            \/ stage = "auth" /\ message = AuthPacket
                            \/ stage = "request" /\ message = Request
      BY <2>2 DEF Asking, Saying
    <2>5. left = <<>> /\ Length(upstream) = Len(upstream)
      BY <1>1, <2>2, <2>4, WholeMessage DEF IInv, Fits
    <2>6. upstream' = <<>>
      BY <1>1, <1>4, <2>5, SubSeqEmpty
    <2>7. Saying' = <<>>
      BY <1>1, <2>5, <2>6, Empty, Joined DEF Saying
    <2>8. downstream = <<>> /\ (Receiving => got = <<>>)
      BY <1>3, <2>4, Joined DEF Arriving
    <2>9. Arriving' = part
      <3>1. downstream' = part
        BY <1>7, <2>8, Joined
      <3>2. CASE Receiving
        BY <1>1, <1>7, <2>8, <3>1, <3>2, Joined DEF Arriving, Receiving
      <3>3. CASE ~Receiving
        BY <1>1, <3>1, <3>3 DEF Arriving, Receiving
      <3> QED BY <3>2, <3>3
    <2>10. Len(part) \in Nat
      BY BytesType
    <2> QED BY <1>7, <2>3, <2>7, <2>9, <2>10
  <1>10. stage' = next \/ (stage' = "over" /\ ~open')
    BY <1>2
  <1>11. UNCHANGED <<call, pc, left, got, need, forwarded>> /\ forwarded = 0
    BY <1>1, <1>3
  <1> QED
    BY <1>6, <1>8, <1>9, <1>10, <1>11, Zenon

\* Names are shorter than a byte holds, and so are the answers.
LEMMA AnswerBytes ==
  /\ <<5, 0>> \in Bytes /\ <<5, 2>> \in Bytes /\ <<5, 255>> \in Bytes /\ <<4, 0>> \in Bytes
  /\ <<1, 0>> \in Bytes /\ <<1, 1>> \in Bytes
  /\ <<5, 0, 0, 1>> \in Bytes /\ <<5, 0, 0, 4>> \in Bytes /\ <<5, 0, 0, 9>> \in Bytes
  /\ <<5, 5, 0, 1>> \in Bytes
  /\ \A n \in Names : n \in Nat /\ <<5, 0, 0, 3, n>> \in Bytes
  <1> DEFINE S == 0 .. 255 + MaxLength
  <1>1. /\ 0 \in S /\ 1 \in S /\ 2 \in S /\ 3 \in S /\ 4 \in S /\ 5 \in S /\ 9 \in S /\ 255 \in S
        /\ \A n \in Names : n \in S /\ n \in Nat
    BY Socks5Constants
  <1> HIDE DEF S
  <1>2. /\ <<5, 0>> \in Seq(S) /\ <<5, 2>> \in Seq(S) /\ <<5, 255>> \in Seq(S) /\ <<4, 0>> \in Seq(S)
        /\ <<1, 0>> \in Seq(S) /\ <<1, 1>> \in Seq(S)
    BY <1>1
  <1>3. /\ <<5, 0, 0, 1>> \in Seq(S) /\ <<5, 0, 0, 4>> \in Seq(S) /\ <<5, 0, 0, 9>> \in Seq(S)
        /\ <<5, 5, 0, 1>> \in Seq(S)
    BY <1>1
  <1>4. \A n \in Names : <<5, 0, 0, 3, n>> \in Seq(S)
    BY <1>1
  <1> QED BY <1>1, <1>2, <1>3, <1>4 DEF Bytes, S

LEMMA ChooseStep ==
  ASSUME IInv, open, Asked, Choose
  PROVE  TypeOK' /\ TurnInv' /\ NeedInv'
  <1>1. PICK reply \in {<<5, 0>>, <<5, 2>>, <<5, 255>>, <<4, 0>>} :
          Answer(reply, IF reply = <<5, 0>> THEN "request"
                        ELSE IF reply = <<5, 2>> THEN "auth" ELSE "over")
    <2>1. <<5, 0>> # <<5, 2>> /\ <<5, 255>> # <<5, 0>> /\ <<5, 255>> # <<5, 2>>
          /\ <<4, 0>> # <<5, 0>> /\ <<4, 0>> # <<5, 2>>
      OBVIOUS
    <2> QED BY <2>1 DEF Choose
  <1> DEFINE next == IF reply = <<5, 0>> THEN "request"
                     ELSE IF reply = <<5, 2>> THEN "auth" ELSE "over"
  <1>2. /\ reply \in Bytes /\ Len(reply) = 2
        /\ next = "request" => reply[1] = 5 /\ reply[2] = 0
        /\ next = "auth" => reply[1] = 5 /\ reply[2] = 2
        /\ next = "over" => reply[1] # 5 \/ reply[2] \notin {0, 2}
        /\ next \in {"request", "auth", "over"}
    BY AnswerBytes
  <1>3. stage = "greeting"
    BY DEF Choose
  <1> HIDE DEF next
  <1>4. /\ upstream' \in Bytes /\ downstream' \in Bytes
        /\ UNCHANGED <<call, pc, left, got, need, forwarded>>
        /\ stage' = next \/ (stage' = "over" /\ ~open')
        /\ pc = "failed" \/
           /\ pc \in {"greeting", "method"}
           /\ Saying' = <<>>
           /\ \/ Arriving' = reply /\ stage' = next
              \/ Len(Arriving') < Len(reply) /\ ~open'
    <2>1. Answer(reply, next)
      BY <1>1 DEF next
    <2>2. pc \in (CASE stage = "greeting" -> {"greeting", "method"}
                    [] stage = "auth" -> {"auth", "status"}
                    [] OTHER -> {"connect", "reply"}) => pc \in {"greeting", "method"}
      BY <1>3
    <2> QED BY <1>2, <2>1, <2>2, AnswerTurn, Zenon
  <1>5. open' \in BOOLEAN
    BY <1>1 DEF Answer, IInv, TypeOK
  <1>6. TypeOK'
    BY <1>2, <1>4, <1>5 DEF IInv, TypeOK
  <1>7. NeedInv'
    BY <1>4 DEF IInv, NeedInv, Receiving
  <1>8. TurnInv'
    <2>1. CASE pc = "failed"
      BY <1>4, <2>1 DEF TurnInv
    <2>2. CASE pc # "failed"
      <3>1. MethodCame'
        BY <1>2, <1>4, <2>2 DEF MethodCame
      <3> QED BY <1>4, <2>2, <3>1 DEF TurnInv
    <2> QED BY <2>1, <2>2
  <1> QED BY <1>6, <1>7, <1>8

LEMMA JudgeStep ==
  ASSUME IInv, open, Asked, Judge
  PROVE  TypeOK' /\ TurnInv' /\ NeedInv'
  <1>1. PICK verdict \in {0, 1} : Answer(<<1, verdict>>, IF verdict = 0 THEN "request" ELSE "over")
    BY DEF Judge
  <1> DEFINE reply == <<1, verdict>>
             next == IF verdict = 0 THEN "request" ELSE "over"
  <1>2. /\ reply \in Bytes /\ Len(reply) = 2
        /\ next = "request" => reply[2] = 0
        /\ next = "over" => reply[2] # 0
        /\ next \in {"request", "over"}
    BY AnswerBytes
  <1>3. stage = "auth"
    BY DEF Judge
  <1>4. Answer(reply, next)
    BY <1>1
  <1> HIDE DEF next, reply
  <1>5. /\ upstream' \in Bytes /\ downstream' \in Bytes
        /\ UNCHANGED <<call, pc, left, got, need, forwarded>>
        /\ stage' = next \/ (stage' = "over" /\ ~open')
        /\ pc = "failed" \/
           /\ pc \in {"auth", "status"}
           /\ Saying' = <<>>
           /\ \/ Arriving' = reply /\ stage' = next
              \/ Len(Arriving') < Len(reply) /\ ~open'
    <2>1. pc \in (CASE stage = "greeting" -> {"greeting", "method"}
                    [] stage = "auth" -> {"auth", "status"}
                    [] OTHER -> {"connect", "reply"}) => pc \in {"auth", "status"}
      BY <1>3
    <2> QED BY <1>2, <1>4, <2>1, AnswerTurn, Zenon
  <1>6. open' \in BOOLEAN
    BY <1>4 DEF Answer, IInv, TypeOK
  <1>7. TypeOK'
    BY <1>2, <1>5, <1>6 DEF IInv, TypeOK
  <1>8. NeedInv'
    BY <1>5 DEF IInv, NeedInv, Receiving
  <1>9. TurnInv'
    <2>1. CASE pc = "failed"
      BY <1>5, <2>1 DEF TurnInv
    <2>2. CASE pc # "failed"
      <3>1. StatusCame'
        BY <1>2, <1>5, <2>2 DEF StatusCame
      <3> QED BY <1>5, <2>2, <3>1 DEF TurnInv
    <2> QED BY <2>1, <2>2
  <1> QED BY <1>7, <1>8, <1>9

\* The reply, or its beginning, has come.
LEMMA RequestAnswered ==
  ASSUME IInv, open, Asked, stage = "request", NEW reply \in Bytes, NEW next, Answer(reply, next),
         \/ next = "tunnel" /\ Grants(reply) /\ Len(reply) >= 5 /\ Len(reply) = 4 + Rest(reply)
         \/ next = "over" /\ Len(reply) >= 4 /\ ~Grants(reply)
  PROVE  TypeOK' /\ TurnInv' /\ NeedInv'
  <1>1. /\ upstream' \in Bytes /\ downstream' \in Bytes
        /\ UNCHANGED <<call, pc, left, got, need, forwarded>> /\ forwarded = 0
        /\ stage' = next \/ (stage' = "over" /\ ~open')
        /\ pc = "failed" \/
           /\ pc \in {"connect", "reply"}
           /\ Saying' = <<>>
           /\ \/ Arriving' = reply /\ stage' = next
              \/ /\ Len(Arriving') < Len(reply) /\ Len(Arriving') \in Nat /\ ~open'
                 /\ \A k \in 1 .. Len(Arriving') : Arriving'[k] = reply[k]
    <2>1. pc \in (CASE stage = "greeting" -> {"greeting", "method"}
                    [] stage = "auth" -> {"auth", "status"}
                    [] OTHER -> {"connect", "reply"}) => pc \in {"connect", "reply"}
      OBVIOUS
    <2> QED BY <2>1, AnswerTurn, Zenon
  <1>2. open' \in BOOLEAN
    BY DEF Answer, IInv, TypeOK
  <1>3. TypeOK'
    BY <1>1, <1>2 DEF IInv, TypeOK
  <1>4. NeedInv'
    BY <1>1 DEF IInv, NeedInv, Receiving
  <1>5. CASE pc = "failed"
    BY <1>1, <1>3, <1>4, <1>5 DEF TurnInv
  <1>6. CASE pc # "failed"
    <2>1. CASE Arriving' = reply /\ stage' = next
      <3>1. ReplyCame'
        BY <1>1, <2>1, BytesType DEF ReplyCame
      <3> QED BY <1>1, <1>3, <1>4, <1>6, <3>1 DEF TurnInv
    <2>2. CASE /\ Len(Arriving') < Len(reply) /\ Len(Arriving') \in Nat /\ ~open'
               /\ \A k \in 1 .. Len(Arriving') : Arriving'[k] = reply[k]
      <3>1. Len(Arriving') < 4 => ReplyCame'
        BY <2>2 DEF ReplyCame
      <3>2. ASSUME Len(Arriving') >= 4 PROVE ReplyCame'
        <4>1. Arriving'[2] = reply[2] /\ Arriving'[4] = reply[4]
          BY <2>2, <3>2
        <4>2. Len(Arriving') >= 5 => Arriving'[5] = reply[5]
          BY <2>2
        <4>3. Len(reply) \in Nat
          BY BytesType
        <4>4. Grants(Arriving') <=> Grants(reply)
          BY <2>2, <3>2, <4>1, <4>3 DEF Grants
        <4>5. CASE ~Grants(reply)
          BY <2>2, <3>2, <4>4, <4>5 DEF ReplyCame
        <4>6. CASE Grants(reply)
          <5>1. Len(Arriving') > 4 => Rest(Arriving') = Rest(reply)
            BY <2>2, <4>1, <4>2 DEF Rest
          <5>2. Len(reply) = 4 + Rest(reply) /\ Len(reply) >= 5
            BY <4>6
          <5>3. Len(Arriving') = 4 \/ Len(Arriving') < 4 + Rest(Arriving')
            <6>1. CASE Len(Arriving') > 4
              <7>1. Rest(Arriving') = Rest(reply)
                BY <5>1, <6>1
              <7>2. Len(Arriving') < 4 + Rest(reply)
                BY <2>2, <5>2
              <7> QED BY <7>1, <7>2
            <6>2. CASE Len(Arriving') <= 4
              <7>1. Len(Arriving') \in Nat
                BY <2>2
              <7>2. \A m \in Nat : m >= 4 /\ m <= 4 => m = 4
                OBVIOUS
              <7>3. Len(Arriving') = 4
                BY <3>2, <6>2, <7>1, <7>2, Zenon
              <7> QED BY <7>3
            <6> QED BY <2>2, <6>1, <6>2
          <5> QED BY <2>2, <4>4, <4>6, <5>3 DEF ReplyCame
        <4> QED BY <4>5, <4>6
      <3>3. ReplyCame'
        BY <2>2, <3>1, <3>2
      <3> QED BY <1>1, <1>3, <1>4, <1>6, <3>3 DEF TurnInv
    <2> QED BY <1>1, <1>6, <2>1, <2>2
  <1> QED BY <1>5, <1>6

\* An answer that has a header and a text behind it.
LEMMA HeaderAndText ==
  ASSUME NEW header \in Bytes, NEW n \in Nat
  PROVE  /\ header \o Text(n) \in Bytes /\ Len(header \o Text(n)) = Len(header) + n
         /\ \A k \in 1 .. Len(header) : (header \o Text(n))[k] = header[k]
  <1>1. Text(n) \in Bytes /\ Len(Text(n)) = n
    BY TextType
  <1> DEFINE text == Text(n)
  <1>2. text \in Bytes /\ Len(text) = n
    BY <1>1
  <1> HIDE DEF text
  <1>3. /\ header \o text \in Bytes /\ Len(header \o text) = Len(header) + Len(text)
        /\ \A k \in 1 .. Len(header) : (header \o text)[k] = header[k]
    BY <1>2, Joined
  <1> QED BY <1>2, <1>3 DEF text

LEMMA GrantStep ==
  ASSUME IInv, open, Asked, Grant \/ Refuse
  PROVE  TypeOK' /\ TurnInv' /\ NeedInv'
  <1>1. stage = "request"
    BY DEF Grant, Refuse
  <1>2. ASSUME NEW form \in {1, 4}, Answer(<<5, 0, 0, form>> \o Text(IF form = 1 THEN 6 ELSE 18), "tunnel")
        PROVE  TypeOK' /\ TurnInv' /\ NeedInv'
    <2> DEFINE header == <<5, 0, 0, form>>
               n == IF form = 1 THEN 6 ELSE 18
               reply == header \o Text(n)
    <2>1. header \in Bytes /\ Len(header) = 4 /\ header[2] = 0 /\ header[4] = form
      BY AnswerBytes
    <2>2. n \in Nat /\ n \in {6, 18} /\ (form = 1 <=> n = 6)
      BY <1>2
    <2>3. 2 \in 1 .. Len(header) /\ 4 \in 1 .. Len(header)
      BY <2>1
    <2>4. Answer(reply, "tunnel")
      BY <1>2
    <2> HIDE DEF header, n
    <2>5. reply \in Bytes /\ Len(reply) = 4 + n /\ reply[2] = 0 /\ reply[4] = form
      <3>1. /\ reply \in Bytes /\ Len(reply) = Len(header) + n
            /\ \A k \in 1 .. Len(header) : reply[k] = header[k]
        BY <2>1, <2>2, HeaderAndText
      <3> HIDE DEF reply
      <3> QED BY <2>1, <2>3, <3>1
    <2> HIDE DEF reply
    <2>6. Grants(reply) /\ Len(reply) >= 5 /\ Len(reply) = 4 + Rest(reply)
      BY <1>2, <2>2, <2>5 DEF Grants, Rest
    <2> QED BY <1>1, <2>4, <2>5, <2>6, RequestAnswered
  <1>3. ASSUME NEW m \in Names, Answer(<<5, 0, 0, 3, m>> \o Text(m + 2), "tunnel")
        PROVE  TypeOK' /\ TurnInv' /\ NeedInv'
    <2> DEFINE header == <<5, 0, 0, 3, m>>
               n == m + 2
               reply == header \o Text(n)
    <2>1. header \in Bytes /\ Len(header) = 5 /\ header[2] = 0 /\ header[4] = 3 /\ header[5] = m
      <3>1. header \in Bytes
        BY AnswerBytes
      <3>2. Len(header) = 5 /\ header[2] = 0 /\ header[4] = 3 /\ header[5] = m
        OBVIOUS
      <3> QED BY <3>1, <3>2
    <2>2. m \in Nat /\ n \in Nat /\ n = m + 2
      <3>1. m \in Nat
        BY AnswerBytes, Zenon
      <3> QED BY <3>1
    <2>3. 2 \in 1 .. Len(header) /\ 4 \in 1 .. Len(header) /\ 5 \in 1 .. Len(header)
      BY <2>1
    <2>4. Answer(reply, "tunnel")
      BY <1>3
    <2> HIDE DEF header, n
    <2>5. reply \in Bytes /\ Len(reply) = 5 + n /\ reply[2] = 0 /\ reply[4] = 3 /\ reply[5] = m
      <3>1. /\ reply \in Bytes /\ Len(reply) = Len(header) + n
            /\ \A k \in 1 .. Len(header) : reply[k] = header[k]
        BY <2>1, <2>2, HeaderAndText
      <3> HIDE DEF reply
      <3> QED BY <2>1, <2>3, <3>1
    <2> HIDE DEF reply
    <2>6. Grants(reply) /\ Len(reply) >= 5 /\ Len(reply) = 4 + Rest(reply)
      BY <2>2, <2>5 DEF Grants, Rest
    <2> QED BY <1>1, <2>4, <2>5, <2>6, RequestAnswered
  <1>4. CASE Answer(<<5, 0, 0, 9>>, "over")
    <2>1. <<5, 0, 0, 9>> \in Bytes /\ Len(<<5, 0, 0, 9>>) = 4 /\ ~Grants(<<5, 0, 0, 9>>)
      BY AnswerBytes DEF Grants
    <2> QED BY <1>1, <1>4, <2>1, RequestAnswered, SMTT(40)
  <1>5. CASE Refuse
    <2> DEFINE header == <<5, 5, 0, 1>>
               reply == header \o Text(6)
    <2>1. header \in Bytes /\ Len(header) = 4 /\ header[2] = 5 /\ 2 \in 1 .. Len(header)
      BY AnswerBytes
    <2>2. Answer(reply, "over")
      BY <1>5 DEF Refuse
    <2> HIDE DEF header
    <2>3. reply \in Bytes /\ Len(reply) = 10 /\ reply[2] = 5
      <3>1. /\ reply \in Bytes /\ Len(reply) = Len(header) + 6
            /\ \A k \in 1 .. Len(header) : reply[k] = header[k]
        BY <2>1, HeaderAndText
      <3> HIDE DEF reply
      <3> QED BY <2>1, <3>1
    <2> HIDE DEF reply
    <2>4. ~Grants(reply)
      BY <2>3 DEF Grants
    <2> QED BY <1>1, <2>2, <2>3, <2>4, RequestAnswered, SMTT(40)
  <1>6. CASE Grant
    <2>1. \/ Answer(<<5, 0, 0, 1>> \o Text(6), "tunnel")
          \/ Answer(<<5, 0, 0, 4>> \o Text(18), "tunnel")
          \/ \E m \in Names : Answer(<<5, 0, 0, 3, m>> \o Text(m + 2), "tunnel")
          \/ Answer(<<5, 0, 0, 9>>, "over")
      BY <1>6 DEF Grant
    <2>2. CASE Answer(<<5, 0, 0, 1>> \o Text(6), "tunnel")
      <3>1. Answer(<<5, 0, 0, 1>> \o Text(IF 1 = 1 THEN 6 ELSE 18), "tunnel")
        BY <2>2
      <3> QED BY <1>2, <3>1
    <2>3. CASE Answer(<<5, 0, 0, 4>> \o Text(18), "tunnel")
      <3>1. Answer(<<5, 0, 0, 4>> \o Text(IF 4 = 1 THEN 6 ELSE 18), "tunnel")
        BY <2>3
      <3> QED BY <1>2, <3>1
    <2> QED BY <1>3, <1>4, <2>1, <2>2, <2>3
  <1> QED BY <1>5, <1>6

LEMMA ProxyStep ==
  ASSUME IInv, ProxyAnswers
  PROVE  IInv'
  <1>1. TypeOK' /\ TurnInv' /\ NeedInv'
    BY ChooseStep, JudgeStep, GrantStep DEF ProxyAnswers
  <1>2. UNCHANGED <<call, pc, forwarded>> /\ forwarded = 0
    <2>1. UNCHANGED <<call, pc, forwarded>>
      BY DEF ProxyAnswers, Choose, Judge, Grant, Refuse, Answer, clientVars
    <2>2. forwarded = 0
      BY DEF ProxyAnswers, Asked, IInv, StageInv
    <2> QED BY <2>1, <2>2
  <1>3. ~open' => stage' = "over"
    BY DEF ProxyAnswers, Choose, Judge, Grant, Refuse, Answer
  <1>4. Fits'
    BY <1>2 DEF IInv, Fits, TooLong
  <1> QED BY <1>1, <1>2, <1>3, <1>4 DEF IInv, StageInv

\* The target's bytes come behind the reply.
LEMMA ForwardStep ==
  ASSUME IInv, Forward
  PROVE  IInv'
  <1>1. /\ stage = "tunnel" /\ downstream' = Append(downstream, 22) /\ forwarded' = forwarded + 1
        /\ UNCHANGED <<call, pc, left, got, need, upstream, stage, open>>
    BY DEF Forward, clientVars
  <1>2. /\ open /\ forwarded \in Nat /\ downstream \in Bytes /\ got \in Bytes
    BY <1>1 DEF IInv, TypeOK, StageInv
  <1>3. <<22>> \in Bytes /\ Len(<<22>>) = 1 /\ downstream' = downstream \o <<22>>
    <2>1. 22 \in 0 .. 255 + MaxLength
      BY Socks5Constants
    <2> QED BY <1>1, <1>2, <2>1, AppendIsConcat DEF Bytes
  <1>4. /\ downstream' \in Bytes /\ Len(downstream') = Len(downstream) + 1
    BY <1>2, <1>3, Joined
  <1>5. /\ Arriving \in Bytes /\ Len(Arriving') = Len(Arriving) + 1
        /\ \A k \in 1 .. Len(Arriving) : Arriving'[k] = Arriving[k]
    <2>1. Arriving \in Bytes
      BY <1>2, Joined DEF Arriving
    <2>2. Arriving' = Arriving \o <<22>>
      <3>1. CASE Receiving
        <4>1. got \o (downstream \o <<22>>) = (got \o downstream) \o <<22>>
          BY <1>2, <1>3 DEF Bytes
        <4> QED BY <1>1, <1>3, <3>1, <4>1 DEF Arriving, Receiving
      <3>2. CASE ~Receiving
        BY <1>1, <1>3, <3>2 DEF Arriving, Receiving
      <3> QED BY <3>1, <3>2
    <2> QED BY <1>3, <2>1, <2>2, Joined
  <1>6. Len(Arriving) \in Nat /\ \A k \in 1 .. Len(Arriving) : Arriving[k] \in Nat
    BY <1>5, BytesType
  <1>7. Saying' = Saying /\ NeedInv' /\ Fits' /\ StageInv'
    BY <1>1, <1>2 DEF Saying, IInv, NeedInv, Receiving, Fits, TooLong, StageInv
  <1>8. TypeOK'
    BY <1>1, <1>2, <1>4 DEF IInv, TypeOK
  <1>9. TurnInv'
    <2>1. pc \in {"connect", "reply", "length", "address", "ok", "failed"} /\ pc' = pc
      BY <1>1, <1>2 DEF IInv, TypeOK, TurnInv, Asking, MethodCame, StatusCame
    <2>2. CASE pc \in {"connect", "reply"}
      <3>1. Saying = <<>> /\ Grants(Arriving) /\ Len(Arriving) >= 5
            /\ Len(Arriving) = 4 + Rest(Arriving) + forwarded
        BY <1>1, <1>2, <2>2 DEF IInv, TurnInv, Asking, ReplyCame
      <3>2. 2 \in 1 .. Len(Arriving) /\ 4 \in 1 .. Len(Arriving) /\ 5 \in 1 .. Len(Arriving)
        BY <1>6, <3>1
      <3>3. Arriving'[2] = Arriving[2] /\ Arriving'[4] = Arriving[4] /\ Arriving'[5] = Arriving[5]
        BY <1>5, <3>2
      <3>4. Grants(Arriving') /\ Rest(Arriving') = Rest(Arriving) /\ Rest(Arriving) \in Nat
        BY <1>5, <1>6, <3>1, <3>2, <3>3, SMTT(40) DEF Grants, Rest
      <3>5. ReplyCame'
        BY <1>1, <1>2, <1>5, <1>6, <3>1, <3>4 DEF ReplyCame
      <3> QED BY <1>7, <2>1, <2>2, <3>1, <3>5 DEF TurnInv
    <2>3. CASE pc = "length"
      <3>1. Saying = <<>> /\ Len(Arriving) >= 1 /\ Len(Arriving) = 3 + Arriving[1] + forwarded
        BY <1>1, <1>2, <2>3 DEF IInv, TurnInv, LengthCame
      <3>2. 1 \in 1 .. Len(Arriving) /\ Arriving[1] \in Nat
        BY <1>6, <3>1
      <3>3. LengthCame'
        BY <1>1, <1>2, <1>5, <1>6, <3>1, <3>2 DEF LengthCame
      <3> QED BY <1>7, <2>1, <2>3, <3>1, <3>3 DEF TurnInv
    <2>4. CASE pc = "address"
      <3>1. Saying = <<>> /\ Len(Arriving) = need + forwarded /\ need \in Nat
        BY <1>1, <1>2, <2>4 DEF IInv, TypeOK, TurnInv, AddressCame
      <3>2. AddressCame'
        BY <1>1, <1>2, <1>5, <3>1 DEF AddressCame
      <3> QED BY <1>7, <2>1, <2>4, <3>1, <3>2 DEF TurnInv
    <2>5. CASE pc = "ok"
      BY <1>1, <1>2, <1>4, <1>7, <2>1, <2>5 DEF IInv, TurnInv
    <2>6. CASE pc = "failed"
      BY <2>1, <2>6 DEF TurnInv
    <2> QED BY <2>1, <2>2, <2>3, <2>4, <2>5, <2>6
  <1> QED BY <1>7, <1>8, <1>9 DEF IInv

\* Once it is closed the connection owes nothing.
LEMMA CloseStep ==
  ASSUME IInv, ProxyCloses
  PROVE  IInv'
  <1>1. /\ open' = FALSE /\ stage' = "over"
        /\ UNCHANGED <<call, pc, left, got, need, upstream, downstream, forwarded>>
    BY DEF ProxyCloses, clientVars
  <1>2. Saying' = Saying /\ Arriving' = Arriving
    BY <1>1 DEF Saying, Arriving, Receiving
  <1>3. /\ Greeting' = Greeting /\ AuthPacket' = AuthPacket /\ Request' = Request
        /\ HaveCreds' = HaveCreds
    BY <1>1 DEF Greeting, AuthPacket, Request, HaveCreds
  <1>4. \A m, s : Asking(m, s) => Asking(m, s)'
    BY <1>1, <1>2 DEF Asking
  <1>5. /\ MethodCame => MethodCame'
        /\ StatusCame => StatusCame'
        /\ ReplyCame => ReplyCame'
        /\ LengthCame => LengthCame'
        /\ AddressCame => AddressCame'
    BY <1>1, <1>2 DEF MethodCame, StatusCame, ReplyCame, LengthCame, AddressCame
  <1>6. TurnInv'
    BY <1>1, <1>2, <1>3, <1>4, <1>5 DEF IInv, TurnInv
  <1> QED
    BY <1>1, <1>6 DEF IInv, TypeOK, NeedInv, Receiving, StageInv, Fits, TooLong

LEMMA InvNext == IInv /\ [Next]_vars => IInv'
  <1> SUFFICES ASSUME IInv, [Next]_vars PROVE IInv'
    OBVIOUS
  <1>1. CASE UNCHANGED vars
    <2>1. UNCHANGED <<call, pc, left, got, need, upstream, downstream, stage, open, forwarded>>
      BY <1>1 DEF vars, clientVars, proxyVars
    <2>2. Saying' = Saying /\ Arriving' = Arriving
      BY <2>1 DEF Saying, Arriving, Receiving
    <2>3. TurnInv'
      BY <2>1, <2>2, SameTurn DEF IInv
    <2> QED
      BY <2>1, <2>3 DEF IInv, TypeOK, NeedInv, Receiving, StageInv, Fits, TooLong
  <1> QED
    BY <1>1, ClientStep, ProxyStep, ForwardStep, CloseStep DEF Next
----
(* The theorems *)

\* What is said and what has come fit each other in every state of the handshake
\* (proxy_socket5_handshake.cpp:40-144).
THEOREM Invariant == Spec => []IInv
  BY InitInv, InvNext, PTL DEF Spec

\* Every variable stays within its range (proxy_socket5_handshake.cpp:40-144).
THEOREM TypeCorrect == Spec => []TypeOK
  <1>1. IInv => TypeOK
    BY DEF IInv
  <1> QED BY <1>1, Invariant, PTL

\* Whatever lengths and forms the proxy's replies have and however the bytes
\* are cut, a successful handshake has read them all and none of the target's
\* (proxy_socket5_handshake.cpp:115-143).
THEOREM TunnelIsClean == Spec => []CleanTunnel
  <1>1. IInv => CleanTunnel
    <2> SUFFICES ASSUME IInv, pc = "ok"
                 PROVE  (stage = "tunnel" \/ ~open) /\ upstream = <<>> /\ Len(downstream) = forwarded
      BY DEF CleanTunnel
    <2>1. Saying = <<>> /\ Len(downstream) = forwarded /\ (open => stage = "tunnel")
      BY DEF IInv, TurnInv
    <2>2. upstream = <<>>
      BY <2>1, Joined DEF Saying, IInv, TypeOK
    <2> QED BY <2>1, <2>2
  <1> QED BY <1>1, Invariant, PTL

\* Client and proxy never wait for each other: a client that waits on an open
\* connection with nothing to read has sent a whole message
\* (proxy_socket5_handshake.cpp:45-60, 76-113, 126-140).
THEOREM NobodyWaits == Spec => []NoMutualWait
  <1>1. IInv => NoMutualWait
    <2> SUFFICES ASSUME IInv, Receiving, Len(got) < need, downstream = <<>>, open
                 PROVE  Asked
      BY DEF NoMutualWait
    <2>1. got \in Bytes /\ Len(got) \in Nat /\ need \in Nat /\ forwarded \in Nat
      BY BytesType DEF IInv, TypeOK
    <2>2. Arriving = got
      BY <2>1, Joined DEF Arriving
    <2>3. /\ pc = "method" => Asking(Greeting, "greeting")
          /\ pc = "status" => Asking(AuthPacket, "auth")
          /\ pc = "reply" => Asking(Request, "request")
          /\ pc \notin {"length", "address"}
      <3>1. pc = "method" => ~MethodCame
        BY <2>1, <2>2 DEF IInv, NeedInv, MethodCame
      <3>2. pc = "status" => ~StatusCame
        BY <2>1, <2>2 DEF IInv, NeedInv, StatusCame
      <3>3. pc = "reply" => ~ReplyCame
        BY <2>1, <2>2 DEF IInv, NeedInv, ReplyCame, Grants
      <3>4. pc = "length" => ~LengthCame
        BY <2>1, <2>2 DEF IInv, NeedInv, LengthCame
      <3>5. pc = "address" => ~AddressCame
        BY <2>1, <2>2 DEF AddressCame
      <3> QED BY <3>1, <3>2, <3>3, <3>4, <3>5 DEF IInv, TurnInv
    <2>4. \/ stage = "greeting" /\ Saying = Greeting
          \/ stage = "auth" /\ Saying = AuthPacket
          \/ stage = "request" /\ Saying = Request
      BY <2>3 DEF Asking, Receiving
    <2>5. left = <<>> /\ ~TooLong
      BY DEF IInv, NeedInv, Receiving, Fits
    <2>6. PICK message : /\ upstream \o left = message
                         /\ \/ stage = "greeting" /\ message = Greeting
                            \/ stage = "auth" /\ message = AuthPacket
                            \/ stage = "request" /\ message = Request
      BY <2>4 DEF Saying
    <2>7. Length(upstream) <= Len(upstream)
      BY <2>5, <2>6, WholeMessage DEF IInv
    <2> QED BY <2>4, <2>7 DEF Asked
  <1> QED BY <1>1, Invariant, PTL

\* Credentials go to a proxy that has asked for them, the request to one that
\* is satisfied (proxy_socket5_handshake.cpp:75-100).
THEOREM CredentialsInTurn == Spec => []SaidInTurn
  <1>1. IInv => SaidInTurn
    <2> SUFFICES ASSUME IInv, open, left # <<>>
                 PROVE  /\ pc = "auth" => stage = "auth" /\ HaveCreds
                        /\ pc = "connect" => stage = "request"
      BY DEF SaidInTurn
    <2>1. Saying # <<>>
      BY Joined DEF Saying, IInv, TypeOK
    <2> QED BY <2>1 DEF IInv, TurnInv, Asking
  <1> QED BY <1>1, Invariant, PTL
====
