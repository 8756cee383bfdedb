---- MODULE ConnectRace ----
(***************************************************************************)
(* What happy_eyeballs_connect promises its caller: several connection     *)
(* attempts race, at most one socket is handed out, that socket stays      *)
(* open, every other socket the race opened is closed, and the call fails  *)
(* only when every attempt has been made and none of their sockets is      *)
(* left.  HappyEyeballs implements this specification.                     *)
(***************************************************************************)

CONSTANTS Attempt,    \* the candidate addresses
          Undecided,  \* the race is still on; not an attempt
          NoSocket    \* the call failed; neither an attempt nor Undecided

VARIABLES tried,   \* attempts that have called socket()
          open,    \* attempts whose socket is open
          chosen   \* the attempt whose socket the caller owns

vars == <<tried, open, chosen>>

Init == /\ tried = {}
        /\ open = {}
        /\ chosen = Undecided

\* An attempt starts; socket() may fail.
Try(i) == /\ i \in Attempt \ tried
          /\ tried' = tried \cup {i}
          /\ open' \in {open, open \cup {i}}
          /\ UNCHANGED chosen

\* A socket the caller does not own is closed.
Close(i) == /\ i \in open \ {chosen}
            /\ open' = open \ {i}
            /\ UNCHANGED <<tried, chosen>>

Choose(i) == /\ chosen = Undecided
             /\ i \in open
             /\ chosen' = i
             /\ UNCHANGED <<tried, open>>

GiveUp == /\ chosen = Undecided
          /\ tried = Attempt
          /\ open = {}
          /\ chosen' = NoSocket
          /\ UNCHANGED <<tried, open>>

Next == \/ \E i \in Attempt : Try(i) \/ Close(i) \/ Choose(i)
        \/ GiveUp

Safe == Init /\ [][Next]_vars

\* Every race is decided, and in the end only the chosen socket is open.
Delivers == /\ <>(chosen # Undecided)
            /\ <>[](open \subseteq {chosen})

Spec == Safe /\ Delivers
====
