---------------------------- MODULE MCApiService ----------------------------
(***************************************************************************)
(* ApiService for TLC: a vendor agent with good frames and a Qualcomm      *)
(* agent whose last frame cannot be serialized; and agents whose last      *)
(* frame is refused, each in its own way.                                  *)
(***************************************************************************)
EXTENDS ApiService

\* What decode names as the vendor is empty for frames of any vendor.
Frame(id, source, full) ==
    [id |-> id, source |-> source, vendor |-> "", rat |-> "LTE", layer |-> "RRC", full |-> full,
     size |-> "fits", valid |-> TRUE, diag |-> TRUE, json |-> TRUE]

Q1 == Frame(1, "qualcomm", FALSE)
S1 == Frame(2, "samsung", TRUE)
Q2 == [Frame(3, "qualcomm", TRUE) EXCEPT !.diag = FALSE]
NoJson  == [Frame(4, "qualcomm", TRUE)  EXCEPT !.json = FALSE]
Garbled == [Frame(5, "samsung", FALSE)  EXCEPT !.valid = FALSE]
TooBig  == [Frame(6, "samsung", FALSE)  EXCEPT !.size = "big"]

MCFrames == {Q1, Q2, S1, NoJson, Garbled, TooBig}

\* Two agents with good frames but for one; two with frames of which the last
\* is refused.
TwoAgents == [c \in Conns |-> IF c = 1 THEN <<Q1, Q2, NoJson>> ELSE <<S1>>]
Refused   == [c \in Conns |-> IF c = 1 THEN <<Q1, Garbled>> ELSE <<TooBig>>]
=============================================================================
