-------------------------------- MODULE Feed --------------------------------
(***************************************************************************)
(* What the WebSocket endpoint promises a reader, whatever buffers lie in  *)
(* between: one feed, in one order for everybody.  A client that joins is  *)
(* handed the feed from that point on, entry after entry; it may be made   *)
(* to skip entries, but then it is told how many, so that it can still     *)
(* place whatever comes next, and it is never made to skip one of the      *)
(* latest Keep entries.                                                    *)
(***************************************************************************)
EXTENDS Naturals, Sequences

CONSTANTS Clients,   \* the WebSocket connections, one identity each
          Values,    \* the JSON texts that are published
          Keep       \* how many of the latest entries are never skipped

VARIABLES log,       \* every entry the feed has taken, in order
          joined,    \* the clients that have joined the feed
          at,        \* at[c]: the feed position client c has accounted for
          got        \* got[c]: the entries c holds, each with its position

vars == <<log, joined, at, got>>

Init == /\ log = <<>>
        /\ joined = {}
        /\ at  = [c \in Clients |-> 0]
        /\ got = [c \in Clients |-> {}]

Publish(v) == /\ log' = Append(log, v)
              /\ UNCHANGED <<joined, at, got>>

\* A client that joins starts behind the last entry there is.
Join(c) == /\ c \notin joined
           /\ joined' = joined \cup {c}
           /\ at' = [at EXCEPT ![c] = Len(log)]
           /\ UNCHANGED <<log, got>>

Deliver(c) == /\ c \in joined
              /\ at[c] < Len(log)
              /\ at'  = [at  EXCEPT ![c] = @ + 1]
              /\ got' = [got EXCEPT ![c] = @ \cup {<<at[c] + 1, log[at[c] + 1]>>}]
              /\ UNCHANGED <<log, joined>>

Skip(c, k) == /\ c \in joined
              /\ at[c] + k + Keep <= Len(log)
              /\ at' = [at EXCEPT ![c] = @ + k]
              /\ UNCHANGED <<log, joined, got>>

Next == \/ \E v \in Values : Publish(v)
        \/ \E c \in Clients : Join(c) \/ Deliver(c) \/ \E k \in 1 .. Len(log) : Skip(c, k)

Spec == Init /\ [][Next]_vars
=============================================================================
