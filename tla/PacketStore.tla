---------------------------- MODULE PacketStore -----------------------------
(***************************************************************************)
(* The shared half of 6grok-api: Arc<RwLock<Store>>, written by the tasks  *)
(* that ingest frames and read by the stats and packets handlers.          *)
(*                                                                         *)
(* tokio's RwLock is fair: requests queue in order, a writer runs alone,   *)
(* and readers run together unless a writer waits before them.  The bodies *)
(* that run under the lock take two steps each here, so that whatever the  *)
(* lock fails to exclude would show.                                       *)
(***************************************************************************)
EXTENDS Naturals, Sequences, FiniteSets

CONSTANTS Writers,      \* tasks inside process_frame, one per agent connection
          Readers,      \* tasks inside the stats or the packets handler
          Packets,      \* decoded packets: records with vendor, rat, layer, full
          History,      \* the --history argument
          MaxQuery,     \* the upper end of the clamp on ?limit= (1000 in packets)
          Queries,      \* the ?limit= values that clients ask for
          MaxCommits    \* bound: packets stored in a run

ASSUME HistoryAssumption == History \in Nat
ASSUME QueryAssumption == MaxQuery \in Nat \ {0} /\ Queries \subseteq Nat
ASSUME TaskAssumption == Writers \cap Readers = {}
ASSUME PacketAssumption == \A p \in Packets :
    {"vendor", "rat", "layer", "full"} \subseteq DOMAIN p /\ p.full \in BOOLEAN

Tasks == Writers \cup Readers

VARIABLES queue,     \* requests for the lock that have not been granted, in order
          st,        \* st[t]: "idle", "wait" in the queue, "first" and "second" step inside
          job,       \* job[t]: the packet t stores, or the request t answers
          received, fully_decoded, by_vendor, by_rat, by_layer, history,    \* struct Store
          part,      \* part[r]: what r has read in its first step
          reply,     \* reply[r]: the latest answer r gave
          commits    \* every packet counted, in order

lockVars  == <<queue, st, job>>
storeVars == <<received, fully_decoded, by_vendor, by_rat, by_layer, history>>
vars == <<lockVars, storeVars, part, reply, commits>>

NoJob   == [op |-> "none"]
NoReply == [kind |-> "none"]

Lesser(m, n)  == IF m < n THEN m ELSE n
Greater(m, n) == IF m > n THEN m ELSE n

\* let history_limit = cli.history.max(1)
history_limit == Greater(History, 1)

\* query.limit.unwrap_or(100).clamp(1, 1000)
Clamp(n) == Greater(1, Lesser(n, MaxQuery))

\* A packet without a vendor is filed under Qualcomm.
VendorOf(p) == IF p.vendor = "" THEN "Qualcomm" ELSE p.vendor

\* The keys of the maps; an absent key counts as 0.
Vendors == {VendorOf(p) : p \in Packets}
Rats    == {p.rat : p \in Packets}
Layers  == {p.layer : p \in Packets}

Inside == {t \in Tasks : st[t] \in {"first", "second"}}

Init == /\ queue = <<>>
        /\ st = [t \in Tasks |-> "idle"]
        /\ job = [t \in Tasks |-> NoJob]
        /\ received = 0 /\ fully_decoded = 0
        /\ by_vendor = [v \in Vendors |-> 0]
        /\ by_rat = [r \in Rats |-> 0]
        /\ by_layer = [l \in Layers |-> 0]
        /\ history = <<>>
        /\ part = [r \in Readers |-> NoReply]
        /\ reply = [r \in Readers |-> NoReply]
        /\ commits = <<>>

-----------------------------------------------------------------------------
\* The lock.  store.write().await and store.read().await enter the queue ...
Ask(t, j) == /\ st[t] = "idle"
             /\ queue' = Append(queue, t)
             /\ st' = [st EXCEPT ![t] = "wait"]
             /\ job' = [job EXCEPT ![t] = j]
             /\ UNCHANGED <<storeVars, part, reply, commits>>

WantWrite(w, p) == w \in Writers /\ Ask(w, [op |-> "store", packet |-> p])
WantStats(r)      == r \in Readers /\ Ask(r, [op |-> "stats"])
WantPackets(r, n) == r \in Readers /\ Ask(r, [op |-> "packets", limit |-> Clamp(n)])

\* Mutants of Grant: readers do not wait for the writer inside; a request is
\* granted out of turn.
GrantShared(t) == /\ queue # <<>> /\ t = Head(queue)
                  /\ t \in Writers => Inside = {}
                  /\ queue' = Tail(queue)
                  /\ st' = [st EXCEPT ![t] = "first"]
                  /\ UNCHANGED <<job, storeVars, part, reply, commits>>

GrantUnfair(t) == \E i \in DOMAIN queue :
                  /\ t = queue[i]
                  /\ IF t \in Writers THEN Inside = {} ELSE Inside \cap Writers = {}
                  /\ queue' = SubSeq(queue, 1, i - 1) \o SubSeq(queue, i + 1, Len(queue))
                  /\ st' = [st EXCEPT ![t] = "first"]
                  /\ UNCHANGED <<job, storeVars, part, reply, commits>>

\* ... and are granted in order: a writer alone, a reader beside readers.
Grant(t) == /\ queue # <<>> /\ t = Head(queue)
            /\ IF t \in Writers THEN Inside = {} ELSE Inside \cap Writers = {}
            /\ queue' = Tail(queue)
            /\ st' = [st EXCEPT ![t] = "first"]
            /\ UNCHANGED <<job, storeVars, part, reply, commits>>

-----------------------------------------------------------------------------
Bump(f, k) == [f EXCEPT ![k] = @ + 1]

\* while history.len() > history_limit { pop_front() }
Trim(s) == IF Len(s) > history_limit
           THEN SubSeq(s, (Len(s) - history_limit) + 1, Len(s)) ELSE s

\* process_frame under the lock: the counters ...
Count(w) == LET p == job[w].packet IN
    /\ w \in Writers /\ st[w] = "first"
    /\ received' = received + 1
    /\ fully_decoded' = IF p.full THEN fully_decoded + 1 ELSE fully_decoded
    /\ by_vendor' = Bump(by_vendor, VendorOf(p))
    /\ by_rat' = Bump(by_rat, p.rat)
    /\ by_layer' = Bump(by_layer, p.layer)
    /\ st' = [st EXCEPT ![w] = "second"]
    /\ commits' = Append(commits, p)
    /\ UNCHANGED <<queue, job, history, part, reply>>

\* Mutant of Push: the trim keeps one packet too many.
PushOneMore(w) ==
    /\ w \in Writers /\ st[w] = "second"
    /\ history' = LET s == Append(history, job[w].packet) IN
                  IF Len(s) > history_limit + 1 THEN Tail(s) ELSE s
    /\ st' = [st EXCEPT ![w] = "idle"]
    /\ job' = [job EXCEPT ![w] = NoJob]
    /\ UNCHANGED <<queue, received, fully_decoded, by_vendor, by_rat, by_layer,
                   part, reply, commits>>

\* ... and the history; then the guard is dropped.
Push(w) ==
    /\ w \in Writers /\ st[w] = "second"
    /\ history' = Trim(Append(history, job[w].packet))
    /\ st' = [st EXCEPT ![w] = "idle"]
    /\ job' = [job EXCEPT ![w] = NoJob]
    /\ UNCHANGED <<queue, received, fully_decoded, by_vendor, by_rat, by_layer,
                   part, reply, commits>>

-----------------------------------------------------------------------------
\* The handlers under the lock: a first read, then the rest and the answer.
ReadFirst(r) ==
    /\ r \in Readers /\ st[r] = "first"
    /\ part' = [part EXCEPT ![r] =
          IF job[r].op = "stats"
          THEN [received |-> received, full |-> fully_decoded]
          ELSE [skip |-> IF Len(history) > job[r].limit THEN Len(history) - job[r].limit ELSE 0]]
    /\ st' = [st EXCEPT ![r] = "second"]
    /\ UNCHANGED <<queue, job, storeVars, reply, commits>>

StatsAnswer(r) ==
    [kind        |-> "stats",
     received    |-> part[r].received,
     full        |-> part[r].full,
     by_vendor   |-> by_vendor,
     by_rat      |-> by_rat,
     by_layer    |-> by_layer,
     history_len |-> Len(history)]

\* history.iter().skip(start).cloned().collect()
PacketsAnswer(r) ==
    [kind |-> "packets", items |-> SubSeq(history, part[r].skip + 1, Len(history))]

ReadRest(r) ==
    /\ r \in Readers /\ st[r] = "second"
    /\ reply' = [reply EXCEPT ![r] = IF job[r].op = "stats" THEN StatsAnswer(r) ELSE PacketsAnswer(r)]
    /\ part' = [part EXCEPT ![r] = NoReply]
    /\ st' = [st EXCEPT ![r] = "idle"]
    /\ job' = [job EXCEPT ![r] = NoJob]
    /\ UNCHANGED <<queue, storeVars, commits>>

-----------------------------------------------------------------------------
Want(t) == \/ \E p \in Packets : WantWrite(t, p)
           \/ WantStats(t)
           \/ \E n \in Queries : WantPackets(t, n)

InsideStep(t) == Count(t) \/ Push(t) \/ ReadFirst(t) \/ ReadRest(t)

\* A bound of the model: no new packet once MaxCommits are counted or on their way.
Room == Len(commits) + Cardinality({w \in Writers : st[w] \in {"wait", "first"}}) < MaxCommits

Next == \E t \in Tasks : \/ (t \in Writers => Room) /\ Want(t)
                         \/ Grant(t)
                         \/ InsideStep(t)

Spec == Init /\ [][Next]_vars

\* The runtime polls every task that can go on; nothing makes a request come.
Fairness == \A t \in Tasks : WF_vars(Grant(t) \/ InsideStep(t))

FairSpec == Spec /\ Fairness
-----------------------------------------------------------------------------
Jobs == {NoJob} \cup [op : {"store"}, packet : Packets] \cup [op : {"stats"}]
               \cup [op : {"packets"}, limit : Nat \ {0}]
Parts == {NoReply} \cup [received : Nat, full : Nat] \cup [skip : Nat]
Replies == {NoReply} \cup [kind : {"packets"}, items : Seq(Packets)]
             \cup [kind : {"stats"}, received : Nat, full : Nat, history_len : 0 .. history_limit,
                   by_vendor : [Vendors -> Nat], by_rat : [Rats -> Nat], by_layer : [Layers -> Nat]]

\* TypeOK: the types of the lock's queue, the tasks, the store and the answers.
TypeOK == /\ queue \in Seq(Tasks)
          /\ st \in [Tasks -> {"idle", "wait", "first", "second"}]
          /\ job \in [Tasks -> Jobs]
          /\ received \in Nat /\ fully_decoded \in Nat
          /\ by_vendor \in [Vendors -> Nat]
          /\ by_rat \in [Rats -> Nat]
          /\ by_layer \in [Layers -> Nat]
          /\ history \in Seq(Packets)
          /\ part \in [Readers -> Parts]
          /\ reply \in [Readers -> Replies]
          /\ commits \in Seq(Packets)

\* A writer between its two steps: its packet is counted but not yet retained.
Pushing == {w \in Writers : st[w] = "second"}

\* HistoryWindow: but for the packet of a writer at work, the history holds
\* exactly the latest packets, in the order in which they were counted.
HistoryWindow ==
    LET done == SubSeq(commits, 1, Len(commits) - Cardinality(Pushing))
        n    == Lesser(Len(done), history_limit)
    IN  history = SubSeq(done, (Len(done) - n) + 1, Len(done))

\* What the endpoints promise, over packets filed under their vendor.
Filed(p) == [p EXCEPT !.vendor = VendorOf(p)]
Retitled == [i \in DOMAIN commits |-> Filed(commits[i])]
Refiled(a) == IF a.kind = "packets"
              THEN [a EXCEPT !.items = [i \in DOMAIN @ |-> Filed(@[i])]] ELSE a
Promise == INSTANCE AtomicStore WITH
              Packets <- {Filed(p) : p \in Packets}, Limit <- history_limit,
              commits <- Retitled, reply <- [r \in Readers |-> Refiled(reply[r])]

\* ImplementsAtomic: requests behave as if each ran alone: the counters of one
\* answer agree with each other and with one moment's history.
ImplementsAtomic == Promise!Spec

\* EveryRequestServed: a frame to store or a request to answer is never kept
\* waiting for ever, however many others keep coming.
EveryRequestServed == \A t \in Tasks : (st[t] = "wait") ~> (st[t] = "idle")
=============================================================================
