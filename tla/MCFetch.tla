---- MODULE MCFetch ----
(***************************************************************************)
(* Fetch for TLC: two hosts, one of them on two ports; batches that go     *)
(* back to a host they left, redirect between ports and hosts, or name a   *)
(* URL parse_url rejects.                                                  *)
(***************************************************************************)
EXTENDS Fetch

CONSTANTS a, b, p443, p8443, x, y

MCHost == {a, b}
MCPort == {p443, p8443}
MCPath == {x, y}

U(h, p, q) == [host |-> h, port |-> p, path |-> q]
Home == U(a, p443, x)
Other == U(a, p443, y)
Alternate == U(a, p8443, x)
Abroad == U(b, p443, x)

Call(urls, max, proxy) ==
  [urls |-> urls, maxRedirects |-> max, proxy |-> proxy, timeout |-> TRUE]

\* A single batch, for the run that shows one behaviour.
MCTriple == {Call(<<Home, Other, Home>>, 1, FALSE)}

\* The Location headers: another port, another host, a path on this host, an
\* empty one and one that parse_url rejects.
MCRedirects == {[form |-> "absolute", url |-> Alternate],
                [form |-> "absolute", url |-> Abroad],
                [form |-> "root", path |-> y],
                [form |-> "empty"], [form |-> "other"]}

MCOptions == {Call(<<Home, Other>>, 2, FALSE),
              Call(<<Home, Alternate, Home>>, 1, FALSE),
              Call(<<Home, Abroad, Other>>, 1, FALSE),
              Call(<<Home, Other, Home>>, 1, FALSE),
              Call(<<Home, BadUrl, Home>>, 1, FALSE),
              Call(<<Home, Other>>, 1, TRUE),
              Call(<<Home>>, 3, FALSE),
              Call(<<Home>>, 0, FALSE)}
====
