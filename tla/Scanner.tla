---- MODULE Scanner ----
(***************************************************************************)
(* IncrementalSubresourceScanner (challenge_scripts.cpp): the page is      *)
(* searched while its body arrives, all but its last kTailGuard bytes,     *)
(* each search from where the one before ended; what is left is searched   *)
(* when the body is complete.                                              *)
(*                                                                         *)
(* A page is what the three expressions of collect_raw_candidates match in *)
(* the whole of it, each match with the bytes it takes; a window finds the *)
(* matches that lie inside it.  The loops over the matches of a window, of *)
(* resolve_new_candidates and of enqueue over what it returns are taken in *)
(* one, a step for each match.                                             *)
(***************************************************************************)
EXTENDS H2Client, FiniteSets

CONSTANTS Guard,     \* kTailGuard
          BodySize,  \* bytes of each page's body
          Matches,   \* what the expressions match in each page: scripts, modulepreloads, preloads
          Encoded    \* the pages that are sent compressed

\* A src or href: an absolute URL, a path ("//" ones included), a path beside
\* the page's with the page's directory before it, or data:, #top and the like.
Src == [form : {"absolute"}, url : Url \cup {BadUrl}]
  \cup [form : {"rooted", "relative"}, path : Path]
  \cup [form : {"ignored"}]

Match == [src : Src, first : Nat, last : Nat]

ASSUME ScannerConstants == /\ Guard \in Nat
                           /\ BodySize \in [Url -> Nat]
                           /\ Matches \in [Url -> Seq(Match)]
                           /\ Encoded \subseteq Url

VARIABLES
  buffered,  \* the size of buffer_
  cursor,    \* scan_cursor_
  window,    \* the bytes that are searched: from, up to
  at,        \* the match the loop is at, 0 outside of it
  seen,      \* seen_abs_; found_ is its size
  windows    \* history: the windows searched so far

scannerVars == <<buffered, cursor, window, at, seen, windows>>

ScannerInit == /\ buffered = 0
               /\ cursor = 0
               /\ window = [from |-> 0, upto |-> 0]
               /\ at = 0
               /\ seen = {}
               /\ windows = {}

\* A new scanner.
NewScanner == /\ buffered' = 0
              /\ cursor' = 0
              /\ window' = [from |-> 0, upto |-> 0]
              /\ at' = 0
              /\ seen' = {}
              /\ windows' = {}
----
(* resolving what was matched *)

\* resolve_url: the page's port is not kept.
ResolveUrl(src, page) ==
  IF src.form = "absolute" THEN src.url
  ELSE [host |-> page.host, port |-> DefaultPort, path |-> src.path]

Fetchable(src) == src.form # "ignored"

\* on_body_chunk hands over the bytes as they were sent: of a compressed page
\* nothing can be matched.
Matched(page) == IF page \in Encoded THEN <<>> ELSE Matches[page]

Inside(m, w) == w.from <= m.first /\ m.last <= w.upto

\* max_count, 0 for no limit.
Full(max) == max > 0 /\ Cardinality(seen) >= max

\* What discover_subresource_urls finds in the whole page.
WholePage(page) ==
  {ResolveUrl(Matches[page][k].src, page) :
     k \in {i \in DOMAIN Matches[page] : Fetchable(Matches[page][i].src)}}
----
(* the scanner's calls *)

\* A window is searched, and the next one starts where it ends.
Search(from, upto) == /\ window' = [from |-> from, upto |-> upto]
                      /\ windows' = windows \cup {[from |-> from, upto |-> upto]}
                      /\ cursor' = upto
                      /\ at' = 1

SafeEnd(n) == IF n > Guard THEN n - Guard ELSE 0

\* feed, of what brings the body to n bytes.
Feed(n, max) ==
  \/ /\ Full(max)
     /\ UNCHANGED scannerVars
  \/ /\ ~Full(max)
     /\ SafeEnd(n) <= cursor
     /\ buffered' = n
     /\ UNCHANGED <<cursor, window, at, seen, windows>>
  \/ /\ ~Full(max)
     /\ SafeEnd(n) > cursor
     /\ buffered' = n
     /\ Search(cursor, SafeEnd(n))
     /\ UNCHANGED seen

\* finalize, after which the cursor is not used any more.
Finalize(max) ==
  \/ /\ cursor >= buffered \/ Full(max)
     /\ UNCHANGED scannerVars
  \/ /\ cursor < buffered /\ ~Full(max)
     /\ UNCHANGED <<buffered, seen>>
     /\ Search(cursor, buffered)

\* The loop is at a match.
Scanning(page) == at \in DOMAIN Matched(page)

Candidate(page) == ResolveUrl(Matched(page)[at].src, page)

\* It lies in the window, can be fetched and was not found before.
News(page) == LET m == Matched(page)[at]
              IN  Inside(m, window) /\ Fetchable(m.src) /\ Candidate(page) \notin seen

PassOver(page) == /\ Scanning(page)
                  /\ ~News(page)
                  /\ at' = at + 1
                  /\ UNCHANGED <<buffered, cursor, window, seen, windows>>

\* Faulty variant: the match that reaches the limit does not end the loop.
FindBeyondLimit(page, max) == /\ Scanning(page)
                              /\ News(page)
                              /\ seen' = seen \cup {Candidate(page)}
                              /\ at' = at + 1
                              /\ UNCHANGED <<buffered, cursor, window, windows>>

\* The limit, once reached, ends the loop.
Find(page, max) == /\ Scanning(page)
                   /\ News(page)
                   /\ seen' = seen \cup {Candidate(page)}
                   /\ at' = IF max > 0 /\ Cardinality(seen) + 1 >= max THEN 0 ELSE at + 1
                   /\ UNCHANGED <<buffered, cursor, window, windows>>

Searched(page) == /\ ~Scanning(page)
                  /\ at' = 0
                  /\ UNCHANGED <<buffered, cursor, window, seen, windows>>
----
ScannerTypeOK == /\ buffered \in Nat /\ cursor \in Nat /\ at \in Nat
                 /\ window \in [from : Nat, upto : Nat]
                 /\ seen \subseteq Url \cup {BadUrl}
                 /\ windows \subseteq [from : Nat, upto : Nat]
====
