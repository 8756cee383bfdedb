---- MODULE Socks5 ----
(***************************************************************************)
(* proxy_handshake (proxy_socket5_handshake.cpp): the client asks a SOCKS5 *)
(* proxy for a tunnel to the target, over a blocking socket that carries   *)
(* bytes and not messages.                                                 *)
(*                                                                         *)
(* A recv or a send takes as many bytes as it likes, and where one message *)
(* ends and the next begins is known only from the lengths in them.  The   *)
(* proxy is external: it reads what the client sends as RFC 1928 and 1929  *)
(* say, answers what it likes, and may end the connection in the middle of *)
(* an answer.  Names are abstracted to their lengths, the other bytes kept *)
(* where somebody reads them.                                              *)
(***************************************************************************)
EXTENDS Naturals, Sequences

CONSTANTS MaxLength,  \* 255, the largest length a byte holds
          Calls,      \* user, pass, target_host: their lengths
          Names,      \* bound: the lengths of the names a proxy answers with
          MaxForward  \* bound: bytes of the target's the proxy passes on unasked

ASSUME Socks5Constants ==
  /\ MaxLength \in Nat /\ MaxForward \in Nat
  /\ Names \subseteq 0 .. MaxLength
  /\ Calls \subseteq [user : Nat, pass : Nat, host : Nat]

VARIABLES
  call,        \* the arguments
  pc,          \* what is sent or awaited
  left,        \* what send_all has left to send
  got,         \* what recv_exact has read
  need,        \* how much recv_exact is to read
  upstream,    \* bytes on their way to the proxy
  downstream,  \* bytes on their way to the client
  stage,       \* the proxy: the message it expects, "tunnel", or "over"
  open,        \* the proxy: the connection is up
  forwarded    \* the proxy: the target's bytes it has passed on

clientVars == <<pc, left, got, need>>
proxyVars == <<stage, open, forwarded>>
vars == <<call, clientVars, upstream, downstream, proxyVars>>
----
(* what the client sends *)

Byte(n) == n % (MaxLength + 1)

Text(n) == [k \in 1 .. n |-> 7]

HaveCreds == call.user > 0 \/ call.pass > 0

\* Faulty variant: the lengths are not looked at.
NothingTooLong == FALSE

TooLong == call.user > MaxLength \/ call.pass > MaxLength \/ call.host > MaxLength

Greeting == IF HaveCreds THEN <<5, 2, 0, 2>> ELSE <<5, 1, 0>>

AuthPacket == <<1, Byte(call.user)>> \o Text(call.user) \o <<Byte(call.pass)>> \o Text(call.pass)

Request == <<5, 1, 0, 3, Byte(call.host)>> \o Text(call.host) \o <<1, 187>>

Init == /\ call \in Calls
        /\ pc = "start"
        /\ left = <<>> /\ got = <<>> /\ need = 0
        /\ upstream = <<>> /\ downstream = <<>>
        /\ stage = "greeting" /\ open = TRUE /\ forwarded = 0
----
(* send_all and recv_exact *)

SendAll(message, to) == pc' = to /\ left' = message /\ UNCHANGED <<got, need>>

RecvExact(n, to) == pc' = to /\ got' = <<>> /\ need' = n /\ UNCHANGED left

Return(result) == pc' = result /\ UNCHANGED <<left, got, need>>

KeepWire == UNCHANGED <<call, upstream, downstream, proxyVars>>

Sending == pc \in {"greeting", "auth", "connect"}
Receiving == pc \in {"method", "status", "reply", "length", "address"}
Done == pc \in {"ok", "failed"}

SendSome == /\ Sending /\ open
            /\ \E n \in 1 .. Len(left) :
                 /\ upstream' = upstream \o SubSeq(left, 1, n)
                 /\ left' = SubSeq(left, n + 1, Len(left))
            /\ UNCHANGED <<call, pc, got, need, downstream, proxyVars>>

\* Faulty variant: what has come is read, whether it belongs to the answer or not.
RecvAll == /\ Receiving /\ Len(got) < need /\ downstream # <<>>
           /\ got' = got \o downstream
           /\ downstream' = <<>>
           /\ UNCHANGED <<call, pc, left, need, upstream, proxyVars>>

RecvSome == /\ Receiving
            /\ \E n \in 1 .. need - Len(got) :
                 /\ n <= Len(downstream)
                 /\ got' = got \o SubSeq(downstream, 1, n)
                 /\ downstream' = SubSeq(downstream, n + 1, Len(downstream))
            /\ UNCHANGED <<call, pc, left, need, upstream, proxyVars>>

\* Faulty variant: a recv that returns 0 is tried again.
CallFailsSending == ~open /\ Sending /\ left # <<>> /\ Return("failed") /\ KeepWire

\* send or recv returns 0 or an error.
CallFails == /\ ~open
             /\ \/ Sending /\ left # <<>>
                \/ Receiving /\ Len(got) < need /\ downstream = <<>>
             /\ Return("failed")
             /\ KeepWire

Sent(message) == pc = message /\ left = <<>> /\ KeepWire
Received(reply) == pc = reply /\ Len(got) = need /\ KeepWire
----
(* proxy_handshake, from one call to the next *)

Start == /\ pc = "start"
         /\ IF TooLong THEN Return("failed") ELSE SendAll(Greeting, "greeting")
         /\ KeepWire

MessageSent == \/ Sent("greeting") /\ RecvExact(2, "method")
               \/ Sent("auth") /\ RecvExact(2, "status")
               \/ Sent("connect") /\ RecvExact(4, "reply")

OnMethod == /\ Received("method")
            /\ \/ got[1] = 5 /\ got[2] = 2 /\ HaveCreds /\ SendAll(AuthPacket, "auth")
               \/ got[1] = 5 /\ got[2] = 0 /\ SendAll(Request, "connect")
               \/ /\ got[1] # 5 \/ got[2] \notin {0, 2} \/ (got[2] = 2 /\ ~HaveCreds)
                  /\ Return("failed")

\* Faulty variant: the proxy's verdict on the credentials is not looked at.
OnStatusAnyway == Received("status") /\ SendAll(Request, "connect")

OnStatus == /\ Received("status")
            /\ IF got[2] = 0 THEN SendAll(Request, "connect") ELSE Return("failed")

\* What follows the header: BND.ADDR and BND.PORT.
OnReply == /\ Received("reply")
           /\ \/ got[2] = 0 /\ got[4] = 1 /\ RecvExact(6, "address")
              \/ got[2] = 0 /\ got[4] = 3 /\ RecvExact(1, "length")
              \/ got[2] = 0 /\ got[4] = 4 /\ RecvExact(18, "address")
              \/ (got[2] # 0 \/ got[4] \notin {1, 3, 4}) /\ Return("failed")

\* Faulty variant: the port behind the name is not read.
OnLengthWithoutPort == Received("length") /\ RecvExact(got[1], "address")

OnLength == Received("length") /\ RecvExact(got[1] + 2, "address")

OnAddress == Received("address") /\ Return("ok")

Client == \/ Start \/ SendSome \/ RecvSome \/ CallFails
          \/ MessageSent \/ OnMethod \/ OnStatus \/ OnReply \/ OnLength \/ OnAddress
----
(* the proxy *)

\* The length of the message that s begins with, as far as s shows it.
Length(s) ==
  CASE stage = "greeting" /\ Len(s) >= 2                 -> 2 + s[2]
    [] stage = "auth" /\ Len(s) >= 2 /\ Len(s) >= 3 + s[2] -> 3 + s[2] + s[3 + s[2]]
    [] stage = "request" /\ Len(s) >= 5                  -> 7 + s[5]
    [] OTHER                                             -> Len(s) + 1

\* It has a whole message to answer.
Asked == stage \in {"greeting", "auth", "request"} /\ Length(upstream) <= Len(upstream)

\* It answers, or ends the connection in the middle of the answer.
Answer(reply, next) ==
  /\ upstream' = SubSeq(upstream, Length(upstream) + 1, Len(upstream))
  /\ \/ downstream' = downstream \o reply /\ stage' = next /\ UNCHANGED open
     \/ /\ \E n \in 0 .. Len(reply) - 1 : downstream' = downstream \o SubSeq(reply, 1, n)
        /\ stage' = "over" /\ open' = FALSE
  /\ UNCHANGED <<call, clientVars, forwarded>>

Choose == /\ stage = "greeting"
          /\ \/ Answer(<<5, 0>>, "request")
             \/ Answer(<<5, 2>>, "auth")
             \/ Answer(<<5, 255>>, "over")
             \/ Answer(<<4, 0>>, "over")

Judge == /\ stage = "auth"
         /\ Answer(<<1, 0>>, "request") \/ Answer(<<1, 1>>, "over")

\* ATYP and the address in its form, whatever the proxy is bound to.
Grant == /\ stage = "request"
         /\ \/ Answer(<<5, 0, 0, 1>> \o Text(6), "tunnel")
            \/ Answer(<<5, 0, 0, 4>> \o Text(18), "tunnel")
            \/ \E n \in Names : Answer(<<5, 0, 0, 3, n>> \o Text(n + 2), "tunnel")
            \/ Answer(<<5, 0, 0, 9>>, "over")

Refuse == stage = "request" /\ Answer(<<5, 5, 0, 1>> \o Text(6), "over")

ProxyAnswers == open /\ Asked /\ (Choose \/ Judge \/ Grant \/ Refuse)

\* The tunnel stands and the target speaks first.
Forward == /\ stage = "tunnel" /\ forwarded < MaxForward
           /\ downstream' = Append(downstream, 22)
           /\ forwarded' = forwarded + 1
           /\ UNCHANGED <<call, clientVars, upstream, stage, open>>

ProxyCloses == /\ open /\ ~Done
               /\ open' = FALSE /\ stage' = "over"
               /\ UNCHANGED <<call, clientVars, upstream, downstream, forwarded>>

Next == Client \/ ProxyAnswers \/ Forward \/ ProxyCloses

Spec == Init /\ [][Next]_vars /\ WF_vars(Client)
----
(* Properties *)

Bytes == Seq(0 .. 255 + MaxLength)

\* Every variable stays within its range (proxy_socket5_handshake.cpp:40-144).
TypeOK ==
  /\ call \in Calls
  /\ pc \in {"start", "greeting", "method", "auth", "status", "connect", "reply", "length",
             "address", "ok", "failed"}
  /\ left \in Bytes /\ got \in Bytes /\ upstream \in Bytes /\ downstream \in Bytes
  /\ need \in Nat /\ forwarded \in Nat /\ open \in BOOLEAN
  /\ stage \in {"greeting", "auth", "request", "tunnel", "over"}
  /\ Len(got) <= need

\* "so TLS starts on a clean buffer": when the handshake succeeds the proxy has
\* granted the tunnel, or granted it and gone since, it has read all the client
\* said, and what is left to read is exactly what the target has sent
\* (proxy_socket5_handshake.cpp:115-143).
CleanTunnel ==
  pc = "ok" => /\ stage = "tunnel" \/ ~open
               /\ upstream = <<>>
               /\ Len(downstream) = forwarded

\* The client never waits for an answer the proxy does not owe: with nothing to
\* read on an open connection, the proxy has a whole message to answer, so no
\* length in a message says more or less than follows
\* (proxy_socket5_handshake.cpp:45-60, 76-113, 126-140).
NoMutualWait ==
  Receiving /\ Len(got) < need /\ downstream = <<>> /\ open => Asked

\* Credentials leave only for a proxy that has asked for them, and the request
\* only once it has accepted them or wanted none
\* (proxy_socket5_handshake.cpp:75-100).
SaidInTurn ==
  open /\ left # <<>> => /\ pc = "auth" => stage = "auth" /\ HaveCreds
                         /\ pc = "connect" => stage = "request"

\* The handshake returns if the proxy answers whatever it is asked: nothing else
\* bounds it (proxy_socket5_handshake.cpp:10-29).
Returns == WF_vars(ProxyAnswers) => <>Done
====
