---- MODULE MCCapture ----
(***************************************************************************)
(* Capture for TLC: two runs for one host in the same second.  Their       *)
(* batches have a failed subresource, a redirected one, numbers out of     *)
(* order, and, after a redirect in the middle of a page, a number twice;   *)
(* the page names what was fetched, the same link twice, what is no link,  *)
(* and inline scripts.                                                     *)
(***************************************************************************)
EXTENDS Capture, TLC

CONSTANTS r1, r2

MCRun == {r1, r2}
\* The runs are alike: no property names one of them.
Alike == Permutations(MCRun)
MCJob == [r \in MCRun |-> [second |-> 7, label |-> "host"]]

Page(ok) == [ok |-> ok, asked |-> "page", final |-> "page", seq |-> 0, source |-> "primary"]
Sub(asked, final, ok, seq) ==
  [ok |-> ok, asked |-> asked, final |-> final, seq |-> seq, source |-> "script"]

MCBatches ==
  {[primary |-> Page(FALSE), also |-> <<>>],
   [primary |-> Page(TRUE), also |-> <<Sub("js", "js", TRUE, 2), Sub("js2", NoUrl, FALSE, 1)>>],
   [primary |-> Page(TRUE), also |-> <<Sub("js", "js", TRUE, 1), Sub("js2", "moved", TRUE, 1)>>]}

Hint(source, url, usable) == [source |-> source, url |-> url, usable |-> usable]

MCHints == [u \in {"page", "js", "js2", "moved", "next"} |->
  IF u # "page" THEN <<>>
  ELSE << Hint("links/a", "next", TRUE), Hint("links/a", "page", TRUE), Hint("links/a", "next", TRUE),
          Hint("links/a", "next", FALSE), Hint("links/script", "js", TRUE),
          Hint("links/script", "js2", TRUE), Hint("inline_script", NoUrl, TRUE) >>]
====
