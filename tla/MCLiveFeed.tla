----------------------------- MODULE MCLiveFeed -----------------------------
(***************************************************************************)
(* LiveFeed for TLC: of all that could be published, two values in turn,   *)
(* so that entries next to each other can be told apart.                   *)
(***************************************************************************)
EXTENDS LiveFeed

InTurn == \A i \in DOMAIN log : log[i] = i % 2

MCSpec == Init /\ [][Next /\ InTurn']_vars /\ Fairness
=============================================================================
