---------------------------- MODULE AtomicStore -----------------------------
(***************************************************************************)
(* What the REST endpoints promise: a log of decoded packets that grows by *)
(* one packet at a time, and answers that are each computed from the whole *)
(* log as it stands at one moment, as if no two requests ever overlapped.  *)
(***************************************************************************)
EXTENDS Naturals, Sequences, FiniteSets

CONSTANTS Readers,     \* the clients of /api/v1/stats and /api/v1/packets
          Packets,     \* decoded packets: records with vendor, rat, layer, full
          Limit,       \* how many packets the service retains
          MaxQuery,    \* the largest `limit` an answer honours
          Queries      \* the `limit` values that clients ask for

VARIABLES commits,     \* every packet taken, in order
          reply        \* reply[r]: the latest answer r got

vars == <<commits, reply>>

NoReply == [kind |-> "none"]

Lesser(m, n)  == IF m < n THEN m ELSE n
Greater(m, n) == IF m > n THEN m ELSE n

\* The n latest elements of s, in order (all of s if it is shorter).
Latest(s, n) == SubSeq(s, (Len(s) - Lesser(n, Len(s))) + 1, Len(s))

CountOf(s, Has(_)) == Cardinality({i \in DOMAIN s : Has(s[i])})

StatsOf(s) ==
    [kind        |-> "stats",
     received    |-> Len(s),
     full        |-> CountOf(s, LAMBDA p : p.full),
     by_vendor   |-> [v \in {p.vendor : p \in Packets} |-> CountOf(s, LAMBDA p : p.vendor = v)],
     by_rat      |-> [t \in {p.rat : p \in Packets} |-> CountOf(s, LAMBDA p : p.rat = t)],
     by_layer    |-> [l \in {p.layer : p \in Packets} |-> CountOf(s, LAMBDA p : p.layer = l)],
     history_len |-> Lesser(Len(s), Limit)]

\* What an answer with n packets holds: at least one, at most MaxQuery.
PacketsOf(s, n) ==
    [kind  |-> "packets",
     items |-> Latest(s, Lesser(Greater(1, Lesser(n, MaxQuery)), Limit))]

Init == commits = <<>> /\ reply = [r \in Readers |-> NoReply]

Commit(p) == commits' = Append(commits, p) /\ UNCHANGED reply

Answer(r) == /\ \/ reply' = [reply EXCEPT ![r] = StatsOf(commits)]
                \/ \E n \in Queries : reply' = [reply EXCEPT ![r] = PacketsOf(commits, n)]
             /\ UNCHANGED commits

Next == (\E p \in Packets : Commit(p)) \/ (\E r \in Readers : Answer(r))

Spec == Init /\ [][Next]_vars
=============================================================================
