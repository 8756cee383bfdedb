---- MODULE H2Client ----
(***************************************************************************)
(* The connection a fetch runs on: ConnectionState of fetcher.cpp, the     *)
(* nghttp2_client session of HTTP2_Client/, and the server at the other    *)
(* end.  Fetch and Subresources extend this module with what they do with  *)
(* the responses.                                                          *)
(*                                                                         *)
(* The bytes between the peers are abstracted to the frames that change    *)
(* the client's control: a stream's last frame (with the answer or with a  *)
(* redirect), a body chunk, RST_STREAM, GOAWAY, and the two ways a         *)
(* connection ends, close_notify and an error.  The server may send what   *)
(* it likes, in any order it likes, within MaxWire undelivered frames.     *)
(* nghttp2 and BoringSSL are external: a request submitted is a request    *)
(* the server sees, unless the server has said goaway or is gone.          *)
(***************************************************************************)
EXTENDS Naturals, Sequences

CONSTANTS
  Host, Port,       \* what a connection is made to
  DefaultPort,      \* the port of a URL that names none
  Path,             \* the rest of a URL
  BadUrl,           \* a string parse_url throws on
  NoUrl,            \* the empty string
  Faults,           \* what the server may do beside answering and redirecting
  MaxWire           \* bound: frames sent and not yet received

Url == [host : Host, port : Port, path : Path]

ASSUME ConnConstants == /\ DefaultPort \in Port
                        /\ BadUrl \notin Url /\ NoUrl \notin Url /\ BadUrl # NoUrl
                        /\ Faults \subseteq {"rst", "goaway", "eof", "reset", "epipe", "push", "stray"}
                        /\ MaxWire \in Nat

VARIABLES
  conn,      \* ConnectionState, without its cookies
  sockets,   \* how many sockets are open
  broken,    \* the client has seen a read or a write on conn fail
  asked,     \* the URL requested on each stream of the connection, by stream
  wire,      \* frames on their way to the client
  answered,  \* streams on which the server has ended
  peer,      \* the server: "up", "draining" after its GOAWAY, "gone"
  running,   \* nghttp2_client::_running
  redirect,  \* nghttp2_client::redirect_url
  late       \* the deadline of the current event loop has passed

sessionVars == <<asked, wire, answered, peer>>
loopVars == <<running, redirect, late>>
h2Vars == <<conn, sockets, broken, sessionVars, loopVars>>

NoConn == [sock |-> FALSE, ssl |-> FALSE, protocol |-> "", host |-> NoUrl,
           port |-> NoUrl, client |-> FALSE, goaway |-> FALSE]

Stream == DOMAIN asked

H2Init == /\ conn = NoConn
          /\ sockets = 0
          /\ broken = FALSE
          /\ asked = <<>>
          /\ wire = <<>>
          /\ answered = {}
          /\ peer = "up"
          /\ running = TRUE
          /\ redirect = NoUrl
          /\ late = FALSE
----
(* connecting and disconnecting *)

\* A Location header: an absolute URL ("//" ones included), a path on this
\* host, the empty string, or anything else, which parse_url rejects.
Location == [form : {"absolute"}, url : Url]
       \cup [form : {"root"}, path : Path]
       \cup [form : {"empty", "other"}]

Resolve(loc) ==
  CASE loc.form = "absolute" -> loc.url
    [] loc.form = "root"     -> [host |-> conn.host, port |-> DefaultPort, path |-> loc.path]
    [] loc.form = "empty"    -> NoUrl
    [] OTHER                 -> BadUrl

\* Faulty variants of Reusable, each without one of its conditions.
ReusableOnAnyPort(url, proxy) == /\ conn.client /\ conn.ssl
                                 /\ conn.protocol = "h2"
                                 /\ ~proxy
                                 /\ conn.host = url.host
                                 /\ ~conn.goaway

ReusableAfterGoaway(url, proxy) == /\ conn.client /\ conn.ssl
                                   /\ conn.protocol = "h2"
                                   /\ ~proxy
                                   /\ conn.host = url.host /\ conn.port = url.port

\* The test both hop loops make before they reconnect.
Reusable(url, proxy) == /\ conn.client /\ conn.ssl
                        /\ conn.protocol = "h2"
                        /\ ~proxy
                        /\ conn.host = url.host /\ conn.port = url.port
                        /\ ~conn.goaway

\* teardown_connection: what was on its way on the old connection is lost.
Teardown == /\ conn' = NoConn
            /\ sockets' = IF conn.sock THEN sockets - 1 ELSE sockets
            /\ broken' = FALSE
            /\ asked' = <<>>
            /\ wire' = <<>>
            /\ answered' = {}
            /\ peer' = "up"

KeepConnection == UNCHANGED <<conn, sockets, broken, sessionVars>>

\* happy_eyeballs_connect returned an endpoint.
SetSocket == /\ conn' = [conn EXCEPT !.sock = TRUE]
             /\ sockets' = sockets + 1
             /\ UNCHANGED <<broken, sessionVars>>

\* The ALPN protocol SSL_Handshake returns with a session: one the profile
\* offers, or none.
Negotiated == {"h2", "http/1.1", ""}

\* The TLS handshake completed.
SetSession(url, protocol) ==
  /\ conn' = [conn EXCEPT !.ssl = TRUE, !.protocol = protocol, !.host = url.host,
                          !.port = url.port, !.client = (protocol = "h2")]
  /\ UNCHANGED <<sockets, broken, sessionVars>>

\* reset_for_request and send_header.
SendHeader(url) == /\ running' = TRUE
                   /\ redirect' = NoUrl
                   /\ late' = FALSE
                   /\ asked' = Append(asked, url)
                   /\ answered' = IF peer = "up" THEN answered
                                  ELSE answered \cup {Len(asked) + 1}
                   /\ UNCHANGED <<conn, sockets, broken, wire, peer>>
----
(* the server *)

Send(kind, s, data) ==
  /\ conn.client
  /\ Len(wire) < MaxWire
  /\ peer # "gone"
  /\ wire' = Append(wire, [kind |-> kind, sid |-> s, data |-> data])
  /\ UNCHANGED <<conn, sockets, broken, asked, loopVars>>

EndStream(s) == /\ s \notin answered
                /\ answered' = answered \cup {s}
                /\ UNCHANGED peer

Answer(s) == Send("answer", s, NoUrl) /\ EndStream(s)

AnswerRedirect(s, loc) == Send("redirect", s, loc) /\ EndStream(s)

\* A piece of a body, up to and including the n-th link of the page.
Chunk(s, n) == /\ s \notin answered
               /\ Send("chunk", s, [form |-> "piece", upto |-> n])
               /\ UNCHANGED <<answered, peer>>

ResetStream(s) == "rst" \in Faults /\ Send("rst", s, NoUrl) /\ EndStream(s)

\* Streams opened before the GOAWAY may still be answered.
Goaway == /\ "goaway" \in Faults
          /\ peer = "up"
          /\ Send("goaway", 0, NoUrl)
          /\ peer' = "draining"
          /\ UNCHANGED answered

\* The server closes: politely (close_notify) or not.
Close(how) == /\ how \in Faults
              /\ Send(how, 0, NoUrl)
              /\ peer' = "gone"
              /\ UNCHANGED answered

\* The response of a pushed stream, for profiles that leave push enabled.
Push == /\ "push" \in Faults
        /\ asked # <<>>
        /\ Send("push", 0, NoUrl)
        /\ UNCHANGED <<answered, peer>>
----
(* nghttp2_client::run_event_loop; the callers say where control goes *)

Incoming(kind) == wire # <<>> /\ Head(wire).kind = kind

\* The frame is consumed by a callback that does not touch the connection.
Consume == /\ wire' = Tail(wire)
           /\ UNCHANGED <<conn, sockets, broken, asked, answered, peer, late>>

\* on_frame_recv_callback, END_STREAM with a followable redirect: whatever
\* stream it came on, it becomes the redirect of the event loop.
RecvRedirect == /\ Incoming("redirect")
                /\ Consume
                /\ redirect' = Resolve(Head(wire).data)
                /\ running' = FALSE

\* END_STREAM with a terminal response: decompressed and handed over; the
\* callback decides whether the loop stops.
RecvAnswer(stop) == /\ Incoming("answer") \/ Incoming("push")
                    /\ Consume
                    /\ running' = (running /\ ~stop)
                    /\ UNCHANGED redirect

\* RST_STREAM reaches the callback and is ignored.
RecvRst == /\ Incoming("rst")
           /\ Consume
           /\ UNCHANGED <<running, redirect>>

RecvGoaway == /\ Incoming("goaway")
              /\ wire' = Tail(wire)
              /\ conn' = [conn EXCEPT !.goaway = TRUE]
              /\ running' = FALSE
              /\ UNCHANGED <<sockets, broken, asked, answered, peer, redirect, late>>

\* Nothing to read.  close_notify counts as nothing: the callback returns 0,
\* which nghttp2 takes for "would block".
NothingToRecv == wire = <<>> \/ Incoming("eof")

\* SSL_read fails: nghttp2_session_recv returns an error.
RecvFails == /\ Incoming("reset")
             /\ broken' = TRUE
             /\ UNCHANGED <<conn, sockets, sessionVars, loopVars>>

\* SSL_write fails: only once the server is gone.
SendFails == /\ "epipe" \in Faults
             /\ peer = "gone"
             /\ broken' = TRUE
             /\ UNCHANGED <<conn, sockets, sessionVars, loopVars>>

\* Time passes while an event loop runs.
DeadlinePasses == /\ ~late
                  /\ late' = TRUE
                  /\ UNCHANGED <<conn, sockets, broken, sessionVars, running, redirect>>
----
Frame == [kind : {"answer", "redirect", "chunk", "rst", "goaway", "eof", "reset", "push"},
          sid : Nat, data : Location \cup {NoUrl} \cup [form : {"piece"}, upto : Nat]]

ConnType == [sock : BOOLEAN, ssl : BOOLEAN, protocol : Negotiated,
             host : Host \cup {NoUrl}, port : Port \cup {NoUrl},
             client : BOOLEAN, goaway : BOOLEAN]

H2TypeOK == /\ conn \in ConnType
            /\ sockets \in Nat
            /\ broken \in BOOLEAN
            /\ asked \in Seq(Url)
            /\ wire \in Seq(Frame)
            /\ answered \in SUBSET Nat
            /\ peer \in {"up", "draining", "gone"}
            /\ running \in BOOLEAN
            /\ redirect \in Url \cup {BadUrl, NoUrl}
            /\ late \in BOOLEAN
====
