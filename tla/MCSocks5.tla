---- MODULE MCSocks5 ----
(***************************************************************************)
(* Socks5 for TLC: a byte holds lengths up to 3; calls without             *)
(* credentials, with both, with one of them empty, at the limit, and       *)
(* beyond it.                                                              *)
(***************************************************************************)
EXTENDS Socks5

MCCalls == {[user |-> u, pass |-> p, host |-> h] :
              u \in {0, 1, 3, 4}, p \in {0, 2, 4}, h \in {2, 4}}
====
