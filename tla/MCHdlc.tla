------------------------------- MODULE MCHdlc -------------------------------
(* Four bytes stand for the 256: End, Esc, and what Flip makes of them. *)
EXTENDS Hdlc, FiniteSets

MCFlip == [b \in Bytes |-> (b + 2) % 4]

\* A checksum of two bytes that takes every value, End and Esc included.
MCCrc(p) == LET Add[i \in 0 .. Len(p)] == IF i = 0 THEN 0 ELSE Add[i - 1] + i * p[i]
            IN  <<(Add[Len(p)] + 1) % 4, (Add[Len(p)] + Len(p)) % 4>>

MCPackets == {<<b>> : b \in Bytes} \cup {<<2, 3>>, <<3, 0>>, <<1, 2>>}
=============================================================================
