---- MODULE MCSubresources ----
(***************************************************************************)
(* Subresources for TLC: a page with two links on its own host and one     *)
(* elsewhere, which a cut at byte 4 goes through; two pages it may         *)
(* redirect to, one of them sent compressed; and extras that repeat one of *)
(* the links or do not parse.                                              *)
(***************************************************************************)
EXTENDS Subresources

CONSTANTS a, b, p443, x, y, z

MCHost == {a, b}
MCPort == {p443}
MCPath == {x, y, z}

U(h, q) == [host |-> h, port |-> p443, path |-> q]
Home == U(a, x)
Script == U(a, y)
Module == U(a, z)
Foreign == U(b, y)
Elsewhere == U(b, x)

At(src, first, last) == [src |-> src, first |-> first, last |-> last]
To(url) == [form |-> "absolute", url |-> url]
Rooted(path) == [form |-> "rooted", path |-> path]

\* Scripts first, then the preloads.
MCMatches == [u \in Url |->
  CASE u = Home      -> << At(Rooted(y), 0, 2), At([form |-> "ignored"], 5, 6),
                           At([form |-> "relative", path |-> z], 6, 8),
                           At(To(Foreign), 2, 5), At(To(Script), 5, 6) >>
    [] u = Elsewhere -> << At(To(Foreign), 0, 1), At(To(BadUrl), 1, 2) >>
    [] u = Script    -> << At(To(Foreign), 0, 1) >>
    [] OTHER         -> <<>>]

MCBodySize == [u \in Url |-> IF u = Home THEN 8 ELSE IF u \in {Elsewhere, Script} THEN 2 ELSE 0]
MCPieces == {2, 4, 6, 8}
MCEncoded == {Script}

MCRedirects == {To(Elsewhere), [form |-> "root", path |-> y], [form |-> "other"],
                [form |-> "empty"]}

Call(extras, hops, max, proxy) ==
  [url |-> Home, also |-> extras, maxRedirects |-> hops, maxSubresources |-> max, proxy |-> proxy]

MCOptions == {Call(<<>>, 2, 0, FALSE),
              Call(<<Script, Elsewhere>>, 1, 1, FALSE),
              Call(<<BadUrl>>, 1, 0, TRUE)}

\* Single batches for the runs that show one behaviour.
MCPlain == {Call(<<>>, 2, 0, FALSE)}
MCHome == {Home}
====
