---- MODULE BatchFetch ----
(***************************************************************************)
(* What fetch_multi promises: a result for each URL asked for, in the      *)
(* order asked, the first being the primary (fetcher.h:54-57), and in      *)
(* every result either the answer to the URL it names as final, or an      *)
(* error (fetcher.h:38-43).  Fetch implements this specification.          *)
(*                                                                         *)
(* fetcher.h makes no exception to "one entry per also_fetch URL", but the *)
(* code does: it asks for nothing more when the primary has failed.  This  *)
(* specification allows both, to stop there and to go on.                  *)
(***************************************************************************)
EXTENDS Sequences, Naturals

VARIABLES urls,      \* the primary URL and the extras
          results,   \* what has been fetched
          finished   \* the call has returned

vars == <<urls, results, finished>>

Init == /\ results = <<>>
        /\ finished = FALSE

\* The next URL is fetched, with whatever redirects on the way.
Deliver == /\ ~finished
           /\ Len(results) < Len(urls)
           /\ Len(results') = Len(results) + 1
           /\ \A k \in DOMAIN results : results'[k] = results[k]
           /\ LET r == results'[Len(results')]
              IN  /\ r.start = urls[Len(results')]
                  /\ IF r.ok THEN r.body = r.final ELSE r.error # "none"
           /\ UNCHANGED <<urls, finished>>

\* All URLs, or none but a primary that failed.
Finish == /\ ~finished
          /\ Len(results) = Len(urls) \/ (Len(results) = 1 /\ ~results[1].ok)
          /\ finished' = TRUE
          /\ UNCHANGED <<urls, results>>

Next == Deliver \/ Finish

Spec == Init /\ [][Next]_vars
====
