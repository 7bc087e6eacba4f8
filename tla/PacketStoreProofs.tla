------------------------- MODULE PacketStoreProofs --------------------------
(***************************************************************************)
(* Proofs about PacketStore, for every number of tasks, every history      *)
(* limit and every set of packets: a writer has the store to itself, the   *)
(* history is the latest packets, the answers are those of AtomicStore,    *)
(* and nobody who waits is overtaken.                                      *)
(***************************************************************************)
EXTENDS PacketStore, SequenceTheorems, FiniteSetTheorems, TLAPS

\* The queue holds the tasks that wait, each once.
Queued == /\ \A i, j \in 1 .. Len(queue) : queue[i] = queue[j] => i = j
          /\ \A t \in Tasks : st[t] = "wait" <=> \E i \in 1 .. Len(queue) : queue[i] = t

\* A task that has asked for the lock has something to do with it.
Assigned == \A t \in Tasks :
    IF st[t] = "idle" THEN job[t] = NoJob
    ELSE IF t \in Writers THEN job[t] \in [op : {"store"}, packet : Packets]
         ELSE \/ job[t] = [op |-> "stats"]
              \/ \E n \in Queries : job[t] = [op |-> "packets", limit |-> Clamp(n)]

\* WriterAlone: whoever is inside with a writer is that writer.
WriterAlone == \A w \in Writers : st[w] \in {"first", "second"} => Inside = {w}

\* The places of the packets that a counter counts.
FullAt(s)      == {i \in 1 .. Len(s) : s[i].full}
VendorAt(s, v) == {i \in 1 .. Len(s) : VendorOf(s[i]) = v}
RatAt(s, t)    == {i \in 1 .. Len(s) : s[i].rat = t}
LayerAt(s, l)  == {i \in 1 .. Len(s) : s[i].layer = l}

Counted == /\ received = Len(commits)
           /\ fully_decoded = Cardinality(FullAt(commits))
           /\ \A v \in Vendors : by_vendor[v] = Cardinality(VendorAt(commits, v))
           /\ \A t \in Rats : by_rat[t] = Cardinality(RatAt(commits, t))
           /\ \A l \in Layers : by_layer[l] = Cardinality(LayerAt(commits, l))

\* What is retained of the first n elements of s.
Window(s, n) == SubSeq(s, (n - Lesser(n, history_limit)) + 1, n)

Windowed ==
    /\ Pushing = {} => history = Window(commits, Len(commits))
    /\ \A w \in Pushing : /\ commits # <<>>
                          /\ commits[Len(commits)] = job[w].packet
                          /\ history = Window(commits, Len(commits) - 1)

Skip(n) == IF Len(history) > n THEN Len(history) - n ELSE 0

\* What a reader has read is still so: nobody writes before it answers.
ReadTrue == \A r \in Readers :
    part[r] = IF st[r] # "second" THEN NoReply
              ELSE IF job[r].op = "stats" THEN [received |-> received, full |-> fully_decoded]
                   ELSE [skip |-> Skip(job[r].limit)]

IInv == TypeOK /\ Queued /\ Assigned /\ WriterAlone /\ Counted /\ Windowed /\ ReadTrue

USE HistoryAssumption, QueryAssumption, TaskAssumption

LEMMA Limits == /\ history_limit \in Nat \ {0}
                /\ \A n \in Queries : Clamp(n) \in Nat \ {0}
  BY DEF history_limit, Clamp, Lesser, Greater

LEMMA Keys == ASSUME NEW p \in Packets
              PROVE  VendorOf(p) \in Vendors /\ p.rat \in Rats /\ p.layer \in Layers /\ p.full \in BOOLEAN
  BY PacketAssumption DEF Vendors, Rats, Layers

\* The places that one more packet adds to those counted.
LEMMA OneMore ==
    ASSUME NEW n \in Nat, NEW A, A \subseteq 1 .. n
    PROVE  /\ Cardinality(A) \in Nat
           /\ Cardinality(A \cup {n + 1}) = Cardinality(A) + 1
<1>1. IsFiniteSet(1 .. n)
  BY FS_Interval
<1>2. IsFiniteSet(A)
  BY <1>1, FS_Subset
<1>3. n + 1 \notin A
  OBVIOUS
<1> QED BY <1>2, <1>3, FS_AddElement, FS_CardinalityType

\* Every counter goes up by one when its packet comes, and by nothing otherwise.
LEMMA TalliesGrow ==
    ASSUME NEW s \in Seq(Packets), NEW p \in Packets
    PROVE  /\ Cardinality(FullAt(Append(s, p))) = IF p.full THEN Cardinality(FullAt(s)) + 1 ELSE Cardinality(FullAt(s))
           /\ \A v : Cardinality(VendorAt(Append(s, p), v)) =
                       IF v = VendorOf(p) THEN Cardinality(VendorAt(s, v)) + 1 ELSE Cardinality(VendorAt(s, v))
           /\ \A t : Cardinality(RatAt(Append(s, p), t)) =
                       IF t = p.rat THEN Cardinality(RatAt(s, t)) + 1 ELSE Cardinality(RatAt(s, t))
           /\ \A l : Cardinality(LayerAt(Append(s, p), l)) =
                       IF l = p.layer THEN Cardinality(LayerAt(s, l)) + 1 ELSE Cardinality(LayerAt(s, l))
<1> DEFINE n == Len(s)
           a == Append(s, p)
<1>1. /\ n \in Nat /\ Len(a) = n + 1 /\ a[n + 1] = p
      /\ \A i \in 1 .. n : a[i] = s[i]
  BY AppendProperties
<1>2. 1 .. n + 1 = (1 .. n) \cup {n + 1}
  BY <1>1
<1> HIDE DEF n, a
<1>3. /\ FullAt(a) = IF p.full THEN FullAt(s) \cup {n + 1} ELSE FullAt(s)
      /\ FullAt(s) \subseteq 1 .. n
  BY <1>1, <1>2 DEF FullAt, n
<1>4. ASSUME NEW v
      PROVE  /\ VendorAt(a, v) = IF v = VendorOf(p) THEN VendorAt(s, v) \cup {n + 1} ELSE VendorAt(s, v)
             /\ VendorAt(s, v) \subseteq 1 .. n
  BY <1>1, <1>2 DEF VendorAt, n
<1>5. ASSUME NEW t
      PROVE  /\ RatAt(a, t) = IF t = p.rat THEN RatAt(s, t) \cup {n + 1} ELSE RatAt(s, t)
             /\ RatAt(s, t) \subseteq 1 .. n
  BY <1>1, <1>2 DEF RatAt, n
<1>6. ASSUME NEW l
      PROVE  /\ LayerAt(a, l) = IF l = p.layer THEN LayerAt(s, l) \cup {n + 1} ELSE LayerAt(s, l)
             /\ LayerAt(s, l) \subseteq 1 .. n
  BY <1>1, <1>2 DEF LayerAt, n
<1>7. Cardinality(FullAt(a)) = IF p.full THEN Cardinality(FullAt(s)) + 1 ELSE Cardinality(FullAt(s))
  BY <1>1, <1>3, OneMore
<1>8. ASSUME NEW v
      PROVE  Cardinality(VendorAt(a, v)) =
               IF v = VendorOf(p) THEN Cardinality(VendorAt(s, v)) + 1 ELSE Cardinality(VendorAt(s, v))
  <2>1. Cardinality(VendorAt(s, v) \cup {n + 1}) = Cardinality(VendorAt(s, v)) + 1
    BY <1>1, <1>4, OneMore
  <2> QED BY <1>4, <2>1
<1>9. ASSUME NEW t
      PROVE  Cardinality(RatAt(a, t)) =
               IF t = p.rat THEN Cardinality(RatAt(s, t)) + 1 ELSE Cardinality(RatAt(s, t))
  <2>1. Cardinality(RatAt(s, t) \cup {n + 1}) = Cardinality(RatAt(s, t)) + 1
    BY <1>1, <1>5, OneMore
  <2> QED BY <1>5, <2>1
<1>10. ASSUME NEW l
      PROVE  Cardinality(LayerAt(a, l)) =
               IF l = p.layer THEN Cardinality(LayerAt(s, l)) + 1 ELSE Cardinality(LayerAt(s, l))
  <2>1. Cardinality(LayerAt(s, l) \cup {n + 1}) = Cardinality(LayerAt(s, l)) + 1
    BY <1>1, <1>6, OneMore
  <2> QED BY <1>6, <2>1
<1> QED BY <1>7, <1>8, <1>9, <1>10 DEF a

-----------------------------------------------------------------------------
\* A slice that lies in a sequence, and what is in it.
LEMMA Slice ==
    ASSUME NEW s \in Seq(Packets), NEW m \in 1 .. Len(s) + 1, NEW n \in m - 1 .. Len(s)
    PROVE  /\ SubSeq(s, m, n) \in Seq(Packets)
           /\ Len(SubSeq(s, m, n)) = (n - m) + 1
           /\ \A i \in 1 .. (n - m) + 1 : SubSeq(s, m, n)[i] = s[(m + i) - 1]
<1>1. \A i \in m .. n : s[i] \in Packets
  BY ElementOfSeq
<1>2. m \in Int /\ n \in Int
  OBVIOUS
<1> QED BY <1>1, <1>2, SubSeqProperties

LEMMA WindowIs ==
    ASSUME NEW s \in Seq(Packets), NEW n \in 0 .. Len(s)
    PROVE  /\ Window(s, n) \in Seq(Packets)
           /\ Len(Window(s, n)) = Lesser(n, history_limit)
           /\ \A i \in 1 .. Lesser(n, history_limit) :
                 Window(s, n)[i] = s[(n - Lesser(n, history_limit)) + i]
<1> DEFINE k == Lesser(n, history_limit)
<1>1. k \in 0 .. n
  <2>1. n \in Nat /\ history_limit \in Nat
    BY Limits
  <2> QED BY <2>1 DEF Lesser
<1> HIDE DEF k
<1>2. /\ SubSeq(s, (n - k) + 1, n) \in Seq(Packets)
      /\ Len(SubSeq(s, (n - k) + 1, n)) = (n - ((n - k) + 1)) + 1
      /\ \A i \in 1 .. (n - ((n - k) + 1)) + 1 : SubSeq(s, (n - k) + 1, n)[i] = s[(((n - k) + 1) + i) - 1]
  <2>1. (n - k) + 1 \in 1 .. Len(s) + 1 /\ n \in ((n - k) + 1) - 1 .. Len(s)
    BY <1>1
  <2> QED BY <2>1, Slice
<1>3. (n - ((n - k) + 1)) + 1 = k /\ \A i \in 1 .. k : (((n - k) + 1) + i) - 1 = (n - k) + i
  BY <1>1
<1>4. /\ SubSeq(s, (n - k) + 1, n) \in Seq(Packets)
      /\ Len(SubSeq(s, (n - k) + 1, n)) = k
      /\ \A i \in 1 .. k : SubSeq(s, (n - k) + 1, n)[i] = s[(n - k) + i]
  BY <1>2, <1>3
<1> QED BY <1>4 DEF Window, k

\* The first n elements leave the same window, whatever follows them.
LEMMA WindowOfFirst ==
    ASSUME NEW s \in Seq(Packets), NEW p \in Packets, NEW n \in 0 .. Len(s)
    PROVE  Window(Append(s, p), n) = Window(s, n)
<1> DEFINE a == Append(s, p)
<1>1. /\ a \in Seq(Packets) /\ Len(a) = Len(s) + 1 /\ n \in 0 .. Len(a)
      /\ \A i \in 1 .. Len(s) : a[i] = s[i]
  BY AppendProperties
<1> HIDE DEF a
<1> DEFINE k == Lesser(n, history_limit)
<1>2. k \in 0 .. n
  <2>1. n \in Nat /\ history_limit \in Nat
    BY Limits
  <2> QED BY <2>1 DEF Lesser
<1>3. /\ Window(s, n) \in Seq(Packets) /\ Len(Window(s, n)) = k
      /\ \A i \in 1 .. k : Window(s, n)[i] = s[(n - k) + i]
  BY WindowIs
<1>4. /\ Window(a, n) \in Seq(Packets) /\ Len(Window(a, n)) = k
      /\ \A i \in 1 .. k : Window(a, n)[i] = a[(n - k) + i]
  BY <1>1, WindowIs
<1> HIDE DEF k
<1>5. \A i \in 1 .. k : Window(a, n)[i] = Window(s, n)[i]
  <2> TAKE i \in 1 .. k
  <2>1. (n - k) + i \in 1 .. Len(s)
    BY <1>2
  <2> QED BY <2>1, <1>1, <1>3, <1>4
<1>6. Window(a, n) = Window(s, n)
  BY <1>3, <1>4, <1>5, SeqEqual
<1> QED BY <1>6 DEF a

\* push_back, then pop_front while there is one too many, moves the window on.
LEMMA TrimWindow ==
    ASSUME NEW s \in Seq(Packets), s # <<>>
    PROVE  Trim(Append(Window(s, Len(s) - 1), s[Len(s)])) = Window(s, Len(s))
<1> DEFINE n == Len(s)
           H == history_limit
           k == Lesser(n - 1, H)
           l == Lesser(n, H)
           v == Window(s, n - 1)
           a == Append(v, s[n])
           b == Window(s, n)
<1>0. n \in Nat \ {0} /\ H \in Nat \ {0}
  BY EmptySeq, Limits
<1>1. s[n] \in Packets /\ n - 1 \in 0 .. n /\ n \in 0 .. n
  BY <1>0, ElementOfSeq
<1>2. v \in Seq(Packets) /\ Len(v) = k /\ \A i \in 1 .. k : v[i] = s[((n - 1) - k) + i]
  BY <1>1, WindowIs
<1>3. b \in Seq(Packets) /\ Len(b) = l /\ \A i \in 1 .. l : b[i] = s[(n - l) + i]
  BY <1>1, WindowIs
<1>4. \/ k = H /\ l = H /\ H <= n - 1
      \/ k = n - 1 /\ l = n /\ n <= H
  BY <1>0 DEF Lesser
<1> HIDE DEF v, b, k, l, n, H
<1>5. /\ a \in Seq(Packets) /\ Len(a) = k + 1 /\ a[k + 1] = s[n]
      /\ \A i \in 1 .. k : a[i] = v[i]
  BY <1>1, <1>2, AppendProperties
<1> HIDE DEF a
<1>6. \A i \in 1 .. k + 1 : a[i] = s[((n - 1) - k) + i]
  <2> TAKE i \in 1 .. k + 1
  <2>1. CASE i = k + 1
    <3>1. ((n - 1) - k) + i = n
      BY <2>1, <1>0, <1>4
    <3> QED BY <3>1, <2>1, <1>5
  <2>2. CASE i # k + 1
    <3>1. i \in 1 .. k
      BY <2>2, <1>0, <1>4
    <3> QED BY <3>1, <1>5, <1>2
  <2> QED BY <2>1, <2>2
<1>7. CASE k = H /\ l = H /\ H <= n - 1
  <2>1. 2 \in 1 .. Len(a) + 1 /\ H + 1 \in 2 - 1 .. Len(a)
    BY <1>0, <1>5, <1>7
  <2>2. /\ SubSeq(a, 2, H + 1) \in Seq(Packets)
        /\ Len(SubSeq(a, 2, H + 1)) = ((H + 1) - 2) + 1
        /\ \A i \in 1 .. ((H + 1) - 2) + 1 : SubSeq(a, 2, H + 1)[i] = a[(2 + i) - 1]
    BY <1>5, <2>1, Slice
  <2>3. ((H + 1) - 2) + 1 = H
    BY <1>0
  <2>4. \A i \in 1 .. H : SubSeq(a, 2, H + 1)[i] = b[i]
    <3> TAKE i \in 1 .. H
    <3>1. (2 + i) - 1 = i + 1 /\ i + 1 \in 1 .. k + 1 /\ ((n - 1) - k) + (i + 1) = (n - l) + i
      BY <1>0, <1>7
    <3>2. SubSeq(a, 2, H + 1)[i] = a[i + 1]
      BY <2>2, <2>3, <3>1
    <3>3. a[i + 1] = s[(n - l) + i]
      BY <1>6, <3>1
    <3> QED BY <3>2, <3>3, <1>3, <1>7
  <2>5. SubSeq(a, 2, H + 1) = b
    <3>1. Len(SubSeq(a, 2, H + 1)) = H /\ Len(b) = H
      BY <2>2, <2>3, <1>3, <1>7
    <3> QED BY <3>1, <2>2, <2>4, <1>3, SeqEqual
  <2>6. Trim(a) = SubSeq(a, 2, H + 1)
    <3>1. Len(a) > H /\ (Len(a) - H) + 1 = 2 /\ Len(a) = H + 1
      BY <1>0, <1>5, <1>7
    <3> QED BY <3>1 DEF Trim, H
  <2> QED BY <2>5, <2>6 DEF a, v, b, n
<1>8. CASE k = n - 1 /\ l = n /\ n <= H
  <2>1. Len(a) = n /\ Len(b) = n
    BY <1>0, <1>3, <1>5, <1>8
  <2>2. \A i \in 1 .. n : a[i] = b[i]
    <3> TAKE i \in 1 .. n
    <3>1. i \in 1 .. k + 1 /\ ((n - 1) - k) + i = i /\ (n - l) + i = i
      BY <1>0, <1>8
    <3> QED BY <3>1, <1>6, <1>3, <1>8
  <2>3. a = b
    BY <2>1, <2>2, <1>3, <1>5, SeqEqual
  <2>4. Trim(a) = a
    <3>1. ~(Len(a) > H)
      BY <2>1, <1>0, <1>8
    <3> QED BY <3>1 DEF Trim, H
  <2> QED BY <2>3, <2>4 DEF a, v, b, n
<1> QED BY <1>4, <1>7, <1>8
-----------------------------------------------------------------------------
LEMMA InitInv == Init => IInv
<1> SUFFICES ASSUME Init PROVE IInv
  OBVIOUS
<1> USE DEF Init
<1>1. TypeOK /\ commits = <<>> /\ Len(commits) = 0
  BY DEF TypeOK, Jobs, Parts, Replies
<1>2. Queued /\ Assigned /\ WriterAlone /\ ReadTrue
  BY DEF Queued, Assigned, WriterAlone, ReadTrue, Tasks
<1>3. Counted
  <2>1. /\ FullAt(commits) = {}
        /\ \A v : VendorAt(commits, v) = {}
        /\ \A t : RatAt(commits, t) = {}
        /\ \A l : LayerAt(commits, l) = {}
    BY <1>1 DEF FullAt, VendorAt, RatAt, LayerAt
  <2> QED BY <1>1, <2>1, FS_EmptySet DEF Counted
<1>4. Windowed
  <2>1. Window(commits, 0) = <<>>
    <3>1. (0 - Lesser(0, history_limit)) + 1 = 1
      BY Limits DEF Lesser
    <3>2. SubSeq(commits, 1, 0) = <<>>
      BY SubSeqEmpty
    <3> QED BY <3>1, <3>2 DEF Window
  <2>2. Pushing = {}
    BY DEF Pushing, Tasks
  <2> QED BY <1>1, <2>1, <2>2 DEF Windowed
<1> QED BY <1>1, <1>2, <1>3, <1>4 DEF IInv

\* What the counters and the history say does not depend on the lock.
LEMMA StoreKept ==
    ASSUME Counted, UNCHANGED <<storeVars, commits>>
    PROVE  Counted'
  BY DEF Counted, storeVars, FullAt, VendorAt, RatAt, LayerAt

LEMMA AskInv ==
    ASSUME IInv, NEW t \in Tasks, NEW j \in Jobs, Ask(t, j),
           IF t \in Writers THEN j \in [op : {"store"}, packet : Packets]
           ELSE \/ j = [op |-> "stats"]
                \/ \E n \in Queries : j = [op |-> "packets", limit |-> Clamp(n)]
    PROVE  IInv'
<1> USE DEF IInv, Ask
<1>1. TypeOK'
  <2>1. queue' \in Seq(Tasks)
    BY AppendProperties DEF TypeOK
  <2> QED BY <2>1 DEF TypeOK, storeVars, Vendors, Rats, Layers
<1>2. /\ Len(queue') = Len(queue) + 1 /\ queue'[Len(queue) + 1] = t /\ Len(queue) \in Nat
      /\ \A i \in 1 .. Len(queue) : queue'[i] = queue[i]
  BY AppendProperties DEF TypeOK
<1>3. /\ st'[t] = "wait" /\ job'[t] = j
      /\ \A u \in Tasks \ {t} : st'[u] = st[u] /\ job'[u] = job[u]
  BY DEF TypeOK
<1>4. Queued'
  <2>1. \A i \in 1 .. Len(queue) : queue[i] # t
    BY DEF Queued
  <2>2. \A i, k \in 1 .. Len(queue') : queue'[i] = queue'[k] => i = k
    BY <1>2, <2>1 DEF Queued
  <2>3. ASSUME NEW u \in Tasks
        PROVE  st'[u] = "wait" <=> \E i \in 1 .. Len(queue') : queue'[i] = u
    BY <1>2, <1>3 DEF Queued
  <2> QED BY <2>2, <2>3 DEF Queued
<1>5. Assigned'
  BY <1>3 DEF Assigned
<1>6. Inside' = Inside /\ Pushing' = Pushing
  BY <1>3 DEF Inside, Pushing, Tasks
<1>7. WriterAlone'
  BY <1>3, <1>6 DEF WriterAlone, Tasks
<1>8. Windowed'
  BY <1>3, <1>6 DEF Windowed, Window, storeVars, Pushing, Tasks
<1>9. ReadTrue'
  BY <1>3 DEF ReadTrue, storeVars, Skip, Tasks
<1> QED BY <1>1, <1>4, <1>5, <1>7, <1>8, <1>9, StoreKept

LEMMA WantInv == ASSUME IInv, NEW t \in Tasks, Want(t) PROVE IInv'
<1>1. ASSUME NEW p \in Packets, WantWrite(t, p) PROVE IInv'
  BY <1>1, AskInv DEF WantWrite, Jobs
<1>2. CASE WantStats(t)
  BY <1>2, AskInv, TaskAssumption DEF WantStats, Jobs
<1>3. ASSUME NEW n \in Queries, WantPackets(t, n) PROVE IInv'
  <2>1. [op |-> "packets", limit |-> Clamp(n)] \in Jobs
    BY Limits DEF Jobs
  <2> QED BY <1>3, <2>1, AskInv, TaskAssumption DEF WantPackets
<1> QED BY <1>1, <1>2, <1>3 DEF Want

\* The head of the queue enters; it was waiting, and waits no longer.
LEMMA GrantInv == ASSUME IInv, NEW t \in Tasks, Grant(t) PROVE IInv'
<1> USE DEF IInv, Grant
<1>1. /\ queue' \in Seq(Tasks) /\ Len(queue) \in Nat \ {0} /\ Len(queue') = Len(queue) - 1
      /\ \A i \in 1 .. Len(queue') : queue'[i] = queue[i + 1]
      /\ queue[1] = t
  <2>1. queue \in Seq(Tasks) /\ queue # <<>>
    BY DEF TypeOK
  <2>2. Head(queue) = queue[1]
    BY <2>1
  <2> QED BY <2>1, <2>2, HeadTailProperties, EmptySeq
<1>2. /\ st[t] = "wait" /\ st'[t] = "first"
      /\ \A u \in Tasks \ {t} : st'[u] = st[u]
  BY <1>1 DEF TypeOK, Queued
<1>3. TypeOK'
  BY <1>1 DEF TypeOK, storeVars, Vendors, Rats, Layers
<1>4. Queued'
  <2>1. \A i \in 1 .. Len(queue') : i + 1 \in 1 .. Len(queue) /\ queue'[i] # t
    BY <1>1 DEF Queued
  <2>2. \A i, k \in 1 .. Len(queue') : queue'[i] = queue'[k] => i = k
    BY <1>1, <2>1 DEF Queued
  <2>3. ASSUME NEW u \in Tasks \ {t}
        PROVE  st'[u] = "wait" <=> \E i \in 1 .. Len(queue') : queue'[i] = u
    <3>1. ASSUME NEW i \in 1 .. Len(queue), queue[i] = u
          PROVE  \E k \in 1 .. Len(queue') : queue'[k] = u
      <4>1. i # 1
        BY <3>1, <1>1
      <4>2. i - 1 \in 1 .. Len(queue') /\ queue'[i - 1] = queue[(i - 1) + 1] /\ (i - 1) + 1 = i
        BY <4>1, <1>1
      <4> QED BY <4>2, <3>1
    <3>2. ASSUME NEW k \in 1 .. Len(queue'), queue'[k] = u
          PROVE  \E i \in 1 .. Len(queue) : queue[i] = u
      BY <3>2, <2>1, <1>1
    <3> QED BY <3>1, <3>2, <1>2 DEF Queued
  <2> QED BY <2>1, <2>2, <2>3, <1>2 DEF Queued
<1>5. Assigned'
  BY <1>2 DEF Assigned
<1>6. Inside' = Inside \cup {t} /\ Pushing' = Pushing
  BY <1>2 DEF Inside, Pushing, Tasks
<1>7. WriterAlone'
  <2> SUFFICES ASSUME NEW w \in Writers, st'[w] \in {"first", "second"} PROVE Inside' = {w}
    BY DEF WriterAlone
  <2>1. CASE w = t
    BY <2>1, <1>6
  <2>2. CASE w # t
    <3>1. st[w] \in {"first", "second"}
      BY <2>2, <1>2 DEF Tasks
    <3>2. w \in Inside \cap Writers
      BY <3>1 DEF Inside, Tasks
    <3> QED BY <3>2
  <2> QED BY <2>1, <2>2
<1>8. Windowed'
  BY <1>2, <1>6 DEF Windowed, Window, storeVars, Pushing, Tasks
<1>9. ReadTrue'
  BY <1>2 DEF ReadTrue, storeVars, Skip, Tasks
<1> QED BY <1>3, <1>4, <1>5, <1>7, <1>8, <1>9, StoreKept

\* A task that steps inside changes its own place and nobody else's.
LEMMA StepInside ==
    ASSUME IInv, NEW t \in Tasks, NEW s \in {"idle", "second"}, st[t] \in {"first", "second"},
           UNCHANGED queue, st' = [st EXCEPT ![t] = s]
    PROVE  /\ Queued' /\ WriterAlone'
           /\ \A u \in Tasks \ {t} : st'[u] = st[u]
           /\ st'[t] = s
<1> USE DEF IInv
<1>1. st'[t] = s /\ \A u \in Tasks \ {t} : st'[u] = st[u]
  BY DEF TypeOK
<1>2. Queued'
  BY <1>1 DEF Queued
<1>3. WriterAlone'
  <2> SUFFICES ASSUME NEW w \in Writers, st'[w] \in {"first", "second"} PROVE Inside' = {w}
    BY DEF WriterAlone
  <2>1. st[w] \in {"first", "second"} /\ w \in Tasks
    BY <1>1 DEF Tasks
  <2>2. Inside = {w} /\ t \in Inside
    BY <2>1 DEF WriterAlone, Inside
  <2>3. Inside' \subseteq Inside /\ w \in Inside'
    BY <1>1, <2>1, <2>2 DEF Inside
  <2> QED BY <2>2, <2>3
<1> QED BY <1>1, <1>2, <1>3

\* Inside with a writer there is neither a reader nor another writer.
LEMMA AloneInside ==
    ASSUME IInv, NEW w \in Writers, st[w] \in {"first", "second"}
    PROVE  /\ \A t \in Tasks \ {w} : st[t] \notin {"first", "second"}
           /\ st[w] = "first" => Pushing = {}
           /\ st[w] = "second" => Pushing = {w}
<1>1. Inside = {w}
  BY DEF IInv, WriterAlone
<1>2. \A t \in Tasks \ {w} : st[t] \notin {"first", "second"}
  BY <1>1 DEF Inside
<1> QED BY <1>2 DEF Pushing, Tasks

LEMMA CountInv == ASSUME IInv, NEW w \in Tasks, Count(w) PROVE IInv'
<1> DEFINE p == job[w].packet
<1> USE DEF IInv
<1>0. /\ w \in Writers /\ st[w] = "first" /\ p \in Packets /\ Pushing = {}
      /\ st' = [st EXCEPT ![w] = "second"] /\ commits' = Append(commits, p)
      /\ UNCHANGED <<queue, job, history, part, reply>>
  BY AloneInside DEF Count, Assigned
<1>1. /\ received' = received + 1
      /\ fully_decoded' = IF p.full THEN fully_decoded + 1 ELSE fully_decoded
      /\ by_vendor' = [by_vendor EXCEPT ![VendorOf(p)] = @ + 1]
      /\ by_rat' = [by_rat EXCEPT ![p.rat] = @ + 1]
      /\ by_layer' = [by_layer EXCEPT ![p.layer] = @ + 1]
  BY DEF Count, Bump
<1> HIDE DEF p
<1>2. /\ Queued' /\ WriterAlone' /\ st'[w] = "second"
      /\ \A u \in Tasks \ {w} : st'[u] = st[u]
  BY <1>0, StepInside
<1>3. commits' \in Seq(Packets) /\ Len(commits') = Len(commits) + 1
      /\ commits' # <<>> /\ commits'[Len(commits')] = p /\ Len(commits) \in Nat
  <2>1. commits \in Seq(Packets) /\ Len(commits) \in Nat
    BY DEF TypeOK
  <2> QED BY <1>0, <2>1, AppendProperties
<1>4. VendorOf(p) \in Vendors /\ p.rat \in Rats /\ p.layer \in Layers
  BY <1>0, Keys
<1>5. TypeOK'
  <2>1. /\ by_vendor' \in [Vendors -> Nat] /\ by_rat' \in [Rats -> Nat] /\ by_layer' \in [Layers -> Nat]
        /\ received' \in Nat /\ fully_decoded' \in Nat
    <3>1. /\ by_vendor \in [Vendors -> Nat] /\ by_rat \in [Rats -> Nat] /\ by_layer \in [Layers -> Nat]
          /\ received \in Nat /\ fully_decoded \in Nat
      BY DEF TypeOK
    <3>2. by_vendor' \in [Vendors -> Nat]
      BY <1>1, <1>4, <3>1
    <3>3. by_rat' \in [Rats -> Nat]
      BY <1>1, <1>4, <3>1
    <3>4. by_layer' \in [Layers -> Nat]
      BY <1>1, <1>4, <3>1
    <3>5. received' \in Nat /\ fully_decoded' \in Nat
      BY <1>1, <3>1
    <3> QED BY <3>2, <3>3, <3>4, <3>5
  <2>2. /\ queue' \in Seq(Tasks) /\ st' \in [Tasks -> {"idle", "wait", "first", "second"}]
        /\ job' \in [Tasks -> Jobs] /\ history' \in Seq(Packets)
        /\ part' \in [Readers -> Parts] /\ reply' \in [Readers -> Replies]
    BY <1>0 DEF TypeOK
  <2> QED BY <2>1, <2>2, <1>3 DEF TypeOK, Vendors, Rats, Layers
<1>6. Assigned'
  BY <1>0, <1>2 DEF Assigned
<1>7. Counted'
  <2>1. received' = Len(commits')
    BY <1>1, <1>3 DEF Counted
  <2>2. fully_decoded' = Cardinality(FullAt(commits'))
    BY <1>0, <1>1, TalliesGrow DEF Counted, TypeOK
  <2>3. \A v \in Vendors : by_vendor'[v] = Cardinality(VendorAt(commits', v))
    BY <1>0, <1>1, TalliesGrow DEF Counted, TypeOK
  <2>4. \A t \in Rats : by_rat'[t] = Cardinality(RatAt(commits', t))
    BY <1>0, <1>1, TalliesGrow DEF Counted, TypeOK
  <2>5. \A l \in Layers : by_layer'[l] = Cardinality(LayerAt(commits', l))
    BY <1>0, <1>1, TalliesGrow DEF Counted, TypeOK
  <2> QED BY <2>1, <2>2, <2>3, <2>4, <2>5 DEF Counted, FullAt, VendorAt, RatAt, LayerAt, Vendors, Rats, Layers
<1>8. Windowed'
  <2>1. Pushing' = {w}
    BY <1>0, <1>2 DEF Pushing, Tasks
  <2>2. history = Window(commits, Len(commits))
    BY <1>0 DEF Windowed
  <2>3. Window(commits', Len(commits') - 1) = Window(commits, Len(commits))
    <3>1. Len(commits') - 1 = Len(commits) /\ Len(commits) \in 0 .. Len(commits)
      BY <1>3
    <3> QED BY <3>1, <1>0, WindowOfFirst DEF TypeOK
  <2>4. commits'[Len(commits')] = job'[w].packet
    BY <1>0, <1>3 DEF p
  <2>5. history' = Window(commits', Len(commits') - 1)
    BY <1>0, <2>2, <2>3
  <2> QED BY <2>1, <2>4, <2>5, <1>3 DEF Windowed, Window
<1>9. ReadTrue'
  <2> SUFFICES ASSUME NEW r \in Readers PROVE part'[r] = NoReply /\ st'[r] # "second"
    BY DEF ReadTrue
  <2>1. r \in Tasks \ {w}
    BY <1>0, TaskAssumption DEF Tasks
  <2>2. st[r] # "second" /\ st'[r] = st[r]
    BY <1>0, <1>2, <2>1, AloneInside
  <2> QED BY <2>2, <1>0 DEF ReadTrue
<1> QED BY <1>2, <1>5, <1>6, <1>7, <1>8, <1>9

LEMMA PushInv == ASSUME IInv, NEW w \in Tasks, Push(w) PROVE IInv'
<1> USE DEF IInv
<1>0. /\ w \in Writers /\ st[w] = "second" /\ job[w].packet \in Packets /\ Pushing = {w}
      /\ st' = [st EXCEPT ![w] = "idle"] /\ job' = [job EXCEPT ![w] = NoJob]
      /\ history' = Trim(Append(history, job[w].packet))
      /\ UNCHANGED <<queue, received, fully_decoded, by_vendor, by_rat, by_layer, part, reply, commits>>
  BY AloneInside DEF Push, Assigned
<1>2. /\ Queued' /\ WriterAlone' /\ st'[w] = "idle"
      /\ \A u \in Tasks \ {w} : st'[u] = st[u]
  BY <1>0, StepInside
<1>3. history' = Window(commits, Len(commits))
  <2>1. /\ commits # <<>> /\ job[w].packet = commits[Len(commits)]
        /\ history = Window(commits, Len(commits) - 1)
    BY <1>0 DEF Windowed
  <2> QED BY <1>0, <2>1, TrimWindow DEF TypeOK
<1>4. TypeOK'
  <2>1. Len(commits) \in 0 .. Len(commits)
    BY DEF TypeOK
  <2>2. history' \in Seq(Packets)
    BY <2>1, <1>3, WindowIs DEF TypeOK
  <2> QED BY <1>0, <2>2 DEF TypeOK, Vendors, Rats, Layers, Jobs
<1>5. Assigned'
  <2>1. job'[w] = NoJob /\ \A u \in Tasks \ {w} : job'[u] = job[u]
    BY <1>0 DEF TypeOK
  <2> QED BY <1>2, <2>1 DEF Assigned
<1>6. Counted'
  BY <1>0 DEF Counted, FullAt, VendorAt, RatAt, LayerAt, Vendors, Rats, Layers
<1>7. Windowed'
  <2>1. Pushing' = {}
    BY <1>0, <1>2 DEF Pushing, Tasks
  <2> QED BY <1>0, <2>1, <1>3 DEF Windowed, Window
<1>8. ReadTrue'
  <2> SUFFICES ASSUME NEW r \in Readers PROVE part'[r] = NoReply /\ st'[r] # "second"
    BY DEF ReadTrue
  <2>1. r \in Tasks \ {w}
    BY <1>0, TaskAssumption DEF Tasks
  <2>2. st[r] # "second" /\ st'[r] = st[r]
    BY <1>0, <1>2, <2>1, AloneInside
  <2> QED BY <2>2, <1>0 DEF ReadTrue
<1> QED BY <1>2, <1>4, <1>5, <1>6, <1>7, <1>8

\* Nobody writes beside a reader: what it sees is the window of all there is.
LEMMA ReaderSees ==
    ASSUME IInv, NEW r \in Readers, st[r] \in {"first", "second"}
    PROVE  /\ Pushing = {}
           /\ history = Window(commits, Len(commits))
           /\ Len(history) = Lesser(Len(commits), history_limit)
<1>1. r \in Inside /\ r \notin Writers
  BY TaskAssumption DEF Inside, Tasks
<1>2. Pushing = {}
  BY <1>1 DEF IInv, WriterAlone, Pushing
<1>3. history = Window(commits, Len(commits))
  BY <1>2 DEF IInv, Windowed
<1>4. commits \in Seq(Packets) /\ Len(commits) \in 0 .. Len(commits)
  BY DEF IInv, TypeOK
<1> QED BY <1>2, <1>3, <1>4, WindowIs

LEMMA ReaderAsked ==
    ASSUME IInv, NEW r \in Readers, st[r] \in {"first", "second"}
    PROVE  \/ job[r] = [op |-> "stats"]
           \/ \E n \in Queries : job[r] = [op |-> "packets", limit |-> Clamp(n)] /\ Clamp(n) \in Nat \ {0}
<1>1. r \in Tasks /\ r \notin Writers
  BY TaskAssumption DEF Tasks
<1> QED BY <1>1, Limits DEF IInv, Assigned

LEMMA ReadFirstInv == ASSUME IInv, NEW r \in Tasks, ReadFirst(r) PROVE IInv'
<1> USE DEF IInv
<1>0. /\ r \in Readers /\ st[r] = "first" /\ st' = [st EXCEPT ![r] = "second"]
      /\ UNCHANGED <<queue, job, storeVars, reply, commits>>
      /\ part' = [part EXCEPT ![r] =
            IF job[r].op = "stats" THEN [received |-> received, full |-> fully_decoded]
            ELSE [skip |-> Skip(job[r].limit)]]
  BY DEF ReadFirst, Skip
<1>1. /\ Queued' /\ WriterAlone' /\ st'[r] = "second"
      /\ \A u \in Tasks \ {r} : st'[u] = st[u]
  BY <1>0, StepInside
<1>2. part'[r] \in Parts /\ part' \in [Readers -> Parts]
  <2>1. CASE job[r] = [op |-> "stats"]
    <3>1. [received |-> received, full |-> fully_decoded] \in Parts
      BY DEF TypeOK, Parts
    <3> QED BY <2>1, <3>1, <1>0 DEF TypeOK
  <2>2. ASSUME NEW n \in Queries, job[r] = [op |-> "packets", limit |-> Clamp(n)], Clamp(n) \in Nat \ {0}
        PROVE  part'[r] \in Parts /\ part' \in [Readers -> Parts]
    <3>1. Len(history) \in Nat
      BY DEF TypeOK
    <3>2. Skip(Clamp(n)) \in Nat
      BY <3>1, <2>2 DEF Skip
    <3>3. [skip |-> Skip(Clamp(n))] \in Parts
      BY <3>2 DEF Parts
    <3>4. job[r].op # "stats" /\ job[r].limit = Clamp(n)
      BY <2>2
    <3> QED BY <3>3, <3>4, <1>0 DEF TypeOK
  <2> QED BY <2>1, <2>2, <1>0, ReaderAsked
<1>3. TypeOK'
  BY <1>0, <1>2 DEF TypeOK, storeVars, Vendors, Rats, Layers
<1>4. Assigned'
  BY <1>0, <1>1 DEF Assigned
<1>5. Windowed'
  <2>1. Pushing' = Pushing
    BY <1>0, <1>1, TaskAssumption DEF Pushing, Tasks
  <2> QED BY <1>0, <2>1 DEF Windowed, Window, storeVars
<1>6. ReadTrue'
  <2> SUFFICES ASSUME NEW q \in Readers
               PROVE  part'[q] = IF st'[q] # "second" THEN NoReply
                                 ELSE IF job[q].op = "stats" THEN [received |-> received, full |-> fully_decoded]
                                      ELSE [skip |-> Skip(job[q].limit)]
    BY <1>0 DEF ReadTrue, storeVars, Skip
  <2>1. CASE q = r
    BY <2>1, <1>0, <1>1 DEF TypeOK
  <2>2. CASE q # r
    <3>1. part'[q] = part[q] /\ st'[q] = st[q]
      BY <2>2, <1>0, <1>1 DEF TypeOK, Tasks
    <3> QED BY <3>1 DEF ReadTrue
  <2> QED BY <2>1, <2>2
<1> QED BY <1>0, <1>1, <1>3, <1>4, <1>5, <1>6, StoreKept

\* The answers, in terms of the store at the moment they are given.
LEMMA StatsGiven ==
    ASSUME IInv, NEW r \in Readers, st[r] = "second", job[r].op = "stats"
    PROVE  StatsAnswer(r) = [kind |-> "stats", received |-> received, full |-> fully_decoded,
                             by_vendor |-> by_vendor, by_rat |-> by_rat, by_layer |-> by_layer,
                             history_len |-> Lesser(Len(commits), history_limit)]
<1>1. part[r] = [received |-> received, full |-> fully_decoded]
  BY DEF IInv, ReadTrue
<1>2. part[r].received = received /\ part[r].full = fully_decoded
  BY <1>1
<1> QED BY <1>2, ReaderSees DEF StatsAnswer

LEMMA PacketsGiven ==
    ASSUME IInv, NEW r \in Readers, st[r] = "second", NEW m \in Nat \ {0},
           job[r] = [op |-> "packets", limit |-> m]
    PROVE  LET k == Lesser(Lesser(m, history_limit), Len(commits)) IN
           /\ PacketsAnswer(r) = [kind |-> "packets", items |-> SubSeq(history, Skip(m) + 1, Len(history))]
           /\ SubSeq(history, Skip(m) + 1, Len(history)) \in Seq(Packets)
           /\ k \in 0 .. Len(commits)
           /\ Len(SubSeq(history, Skip(m) + 1, Len(history))) = k
           /\ \A i \in 1 .. k : SubSeq(history, Skip(m) + 1, Len(history))[i] = commits[(Len(commits) - k) + i]
<1> DEFINE k == Lesser(Lesser(m, history_limit), Len(commits))
           h == Lesser(Len(commits), history_limit)
           n == Len(commits)
           items == SubSeq(history, Skip(m) + 1, Len(history))
<1>0. history_limit \in Nat \ {0} /\ commits \in Seq(Packets) /\ n \in Nat /\ history \in Seq(Packets)
  BY Limits DEF IInv, TypeOK
<1>1. part[r].skip = Skip(m)
  <2>1. job[r].op # "stats" /\ job[r].limit = m
    OBVIOUS
  <2>2. part[r] = [skip |-> Skip(m)]
    BY <2>1 DEF IInv, ReadTrue
  <2> QED BY <2>2
<1>2. PacketsAnswer(r) = [kind |-> "packets", items |-> items]
  BY <1>1 DEF PacketsAnswer
<1>3. Len(history) = h /\ \A i \in 1 .. h : history[i] = commits[(n - h) + i]
  <2>1. history = Window(commits, n) /\ Len(history) = h /\ n \in 0 .. Len(commits)
    BY <1>0, ReaderSees
  <2> QED BY <1>0, <2>1, WindowIs
<1>4. k \in 0 .. n /\ h \in 0 .. n /\ k <= h /\ Skip(m) = h - k
  <2>1. /\ h = IF n < history_limit THEN n ELSE history_limit
        /\ k = IF m < history_limit THEN IF m < n THEN m ELSE n
               ELSE IF history_limit < n THEN history_limit ELSE n
    BY DEF Lesser
  <2>2. Skip(m) = IF h > m THEN h - m ELSE 0
    BY <1>3 DEF Skip
  <2> HIDE DEF h, k, n
  <2> QED BY <1>0, <2>1, <2>2
<1> HIDE DEF k, h, n
<1>5. /\ SubSeq(history, (h - k) + 1, h) \in Seq(Packets)
      /\ Len(SubSeq(history, (h - k) + 1, h)) = (h - ((h - k) + 1)) + 1
      /\ \A i \in 1 .. (h - ((h - k) + 1)) + 1 :
            SubSeq(history, (h - k) + 1, h)[i] = history[(((h - k) + 1) + i) - 1]
  <2>1. (h - k) + 1 \in 1 .. Len(history) + 1 /\ h \in ((h - k) + 1) - 1 .. Len(history)
    BY <1>0, <1>3, <1>4
  <2> QED BY <1>0, <2>1, Slice
<1>6. /\ (h - ((h - k) + 1)) + 1 = k
      /\ \A i \in 1 .. k : (((h - k) + 1) + i) - 1 = (h - k) + i /\ (h - k) + i \in 1 .. h
                            /\ (n - h) + ((h - k) + i) = (n - k) + i
  BY <1>0, <1>4
<1>7. items = SubSeq(history, (h - k) + 1, h)
  BY <1>3, <1>4
<1> HIDE DEF items
<1>8. items \in Seq(Packets) /\ Len(items) = k
  BY <1>5, <1>6, <1>7
<1>9. \A i \in 1 .. k : items[i] = commits[(n - k) + i]
  <2> TAKE i \in 1 .. k
  <2>1. items[i] = history[(h - k) + i]
    BY <1>5, <1>6, <1>7
  <2>2. history[(h - k) + i] = commits[(n - h) + ((h - k) + i)]
    BY <1>3, <1>6
  <2> QED BY <2>1, <2>2, <1>6
<1> QED BY <1>2, <1>4, <1>8, <1>9 DEF items, k, n

LEMMA ReadRestInv == ASSUME IInv, NEW r \in Tasks, ReadRest(r) PROVE IInv'
<1> USE DEF IInv
<1>0. /\ r \in Readers /\ st[r] = "second" /\ st' = [st EXCEPT ![r] = "idle"]
      /\ job' = [job EXCEPT ![r] = NoJob] /\ part' = [part EXCEPT ![r] = NoReply]
      /\ UNCHANGED <<queue, storeVars, commits>>
      /\ reply' = [reply EXCEPT ![r] = IF job[r].op = "stats" THEN StatsAnswer(r) ELSE PacketsAnswer(r)]
  BY DEF ReadRest
<1>1. /\ Queued' /\ WriterAlone' /\ st'[r] = "idle"
      /\ \A u \in Tasks \ {r} : st'[u] = st[u]
  BY <1>0, StepInside
<1>2. reply' \in [Readers -> Replies]
  <2>1. CASE job[r] = [op |-> "stats"]
    <3>1. Lesser(Len(commits), history_limit) \in 0 .. history_limit
      BY Limits DEF TypeOK, Lesser
    <3>2. StatsAnswer(r) \in Replies
      BY <2>1, <3>1, <1>0, StatsGiven DEF TypeOK, Replies
    <3> QED BY <2>1, <3>2, <1>0 DEF TypeOK
  <2>2. ASSUME NEW n \in Queries, job[r] = [op |-> "packets", limit |-> Clamp(n)], Clamp(n) \in Nat \ {0}
        PROVE  reply' \in [Readers -> Replies]
    <3>1. \E items \in Seq(Packets) : PacketsAnswer(r) = [kind |-> "packets", items |-> items]
      BY <2>2, <1>0, PacketsGiven
    <3>2. PacketsAnswer(r) \in Replies
      BY <3>1 DEF Replies
    <3>3. job[r].op # "stats"
      BY <2>2
    <3> QED BY <3>2, <3>3, <1>0 DEF TypeOK
  <2> QED BY <2>1, <2>2, <1>0, ReaderAsked
<1>3. TypeOK'
  BY <1>0, <1>2 DEF TypeOK, storeVars, Vendors, Rats, Layers, Jobs, Parts
<1>4. Assigned'
  <2>1. job'[r] = NoJob /\ \A u \in Tasks \ {r} : job'[u] = job[u]
    BY <1>0 DEF TypeOK
  <2> QED BY <1>1, <2>1 DEF Assigned
<1>5. Windowed'
  <2>1. Pushing' = Pushing /\ \A w \in Pushing : job'[w] = job[w]
    BY <1>0, <1>1, TaskAssumption DEF Pushing, Tasks, TypeOK
  <2> QED BY <1>0, <2>1 DEF Windowed, Window, storeVars
<1>6. ReadTrue'
  <2> SUFFICES ASSUME NEW q \in Readers
               PROVE  part'[q] = IF st'[q] # "second" THEN NoReply
                                 ELSE IF job'[q].op = "stats" THEN [received |-> received, full |-> fully_decoded]
                                      ELSE [skip |-> Skip(job'[q].limit)]
    BY <1>0 DEF ReadTrue, storeVars, Skip
  <2>1. CASE q = r
    BY <2>1, <1>0, <1>1 DEF TypeOK
  <2>2. CASE q # r
    <3>1. part'[q] = part[q] /\ st'[q] = st[q] /\ job'[q] = job[q]
      BY <2>2, <1>0, <1>1 DEF TypeOK, Tasks
    <3> QED BY <3>1 DEF ReadTrue
  <2> QED BY <2>1, <2>2
<1> QED BY <1>0, <1>1, <1>3, <1>4, <1>5, <1>6, StoreKept

\* Every step of the lock, of a writer or of a reader keeps the invariant.
LEMMA NextInv == IInv /\ [Next]_vars => IInv'
<1> SUFFICES ASSUME IInv, [Next]_vars PROVE IInv'
  OBVIOUS
<1>1. CASE UNCHANGED vars
  <2> USE <1>1 DEF vars, lockVars, storeVars, IInv
  <2>1. TypeOK'
    BY DEF TypeOK, Vendors, Rats, Layers
  <2>2. Queued' /\ Assigned' /\ WriterAlone'
    BY DEF Queued, Assigned, WriterAlone, Inside
  <2>3. Counted'
    BY StoreKept
  <2>4. Windowed' /\ ReadTrue'
    BY DEF Windowed, Window, Pushing, ReadTrue, Skip
  <2> QED BY <2>1, <2>2, <2>3, <2>4
<1>2. ASSUME NEW t \in Tasks, Want(t) \/ Grant(t) \/ InsideStep(t) PROVE IInv'
  BY <1>2, WantInv, GrantInv, CountInv, PushInv, ReadFirstInv, ReadRestInv DEF InsideStep
<1> QED BY <1>1, <1>2 DEF Next

\* The inductive invariant holds throughout every behaviour of the store.
THEOREM Invariance == Spec => []IInv
  BY InitInv, NextInv, PTL DEF Spec

\* TypeCorrect: the lock, the tasks, the store and the answers keep their types.
THEOREM TypeCorrect == Spec => []TypeOK
<1>1. IInv => TypeOK
  BY DEF IInv
<1> QED BY Invariance, <1>1, PTL

\* LockExcludes: whoever stores a packet is alone under the lock, and whoever
\* waits stands in its queue, once.
THEOREM LockExcludes == Spec => [](WriterAlone /\ Queued)
<1>1. IInv => WriterAlone /\ Queued
  BY DEF IInv
<1> QED BY Invariance, <1>1, PTL

\* HistoryKept: whatever --history is, the history is the latest packets in
\* the order in which they were counted.
THEOREM HistoryKept == Spec => []HistoryWindow
<1>1. IInv => HistoryWindow
  <2> SUFFICES ASSUME IInv PROVE HistoryWindow
    OBVIOUS
  <2>0. commits \in Seq(Packets) /\ Len(commits) \in Nat
    BY DEF IInv, TypeOK
  <2>1. ASSUME NEW d \in Nat, d <= Len(commits), Cardinality(Pushing) = d,
               history = Window(commits, Len(commits) - d)
        PROVE  HistoryWindow
    <3> DEFINE k == Len(commits) - d
               done == SubSeq(commits, 1, k)
               n == Lesser(k, history_limit)
    <3>1. k \in 0 .. Len(commits) /\ n \in 0 .. k
      BY <2>0, <2>1, Limits DEF Lesser
    <3> HIDE DEF k
    <3>2. done \in Seq(Packets) /\ Len(done) = k /\ \A i \in 1 .. k : done[i] = commits[i]
      <4>1. /\ SubSeq(commits, 1, k) \in Seq(Packets)
            /\ Len(SubSeq(commits, 1, k)) = (k - 1) + 1
            /\ \A i \in 1 .. (k - 1) + 1 : SubSeq(commits, 1, k)[i] = commits[(1 + i) - 1]
        <5>1. 1 \in 1 .. Len(commits) + 1 /\ k \in 1 - 1 .. Len(commits)
          BY <2>0, <3>1
        <5> QED BY <2>0, <5>1, Slice
      <4>2. (k - 1) + 1 = k /\ \A i \in 1 .. k : (1 + i) - 1 = i
        BY <3>1
      <4> QED BY <4>1, <4>2
    <3> HIDE DEF done
    <3>3. Window(done, k) = Window(commits, k)
      <4>1. k \in 0 .. Len(done)
        BY <3>1, <3>2
      <4>2. /\ Window(done, k) \in Seq(Packets) /\ Len(Window(done, k)) = n
            /\ \A i \in 1 .. n : Window(done, k)[i] = done[(k - n) + i]
        BY <3>2, <4>1, WindowIs
      <4>3. /\ Window(commits, k) \in Seq(Packets) /\ Len(Window(commits, k)) = n
            /\ \A i \in 1 .. n : Window(commits, k)[i] = commits[(k - n) + i]
        BY <2>0, <3>1, WindowIs
      <4> HIDE DEF n
      <4>4. \A i \in 1 .. n : (k - n) + i \in 1 .. k
        BY <3>1
      <4>5. \A i \in 1 .. n : Window(done, k)[i] = Window(commits, k)[i]
        BY <3>2, <4>2, <4>3, <4>4
      <4> QED BY <4>2, <4>3, <4>5, SeqEqual
    <3> QED BY <2>1, <3>2, <3>3 DEF HistoryWindow, Window, done, k
  <2>2. CASE Pushing = {}
    BY <2>0, <2>1, <2>2, FS_EmptySet DEF IInv, Windowed
  <2>3. ASSUME NEW w \in Pushing PROVE HistoryWindow
    <3>1. Pushing = {w}
      BY AloneInside DEF Pushing
    <3>2. Cardinality(Pushing) = 1
      BY <3>1, FS_Singleton
    <3>3. Len(commits) >= 1 /\ history = Window(commits, Len(commits) - 1)
      BY <2>0, EmptySeq DEF IInv, Windowed
    <3> QED BY <3>2, <3>3, <2>1
  <2> QED BY <2>2, <2>3
<1> QED BY Invariance, <1>1, PTL
-----------------------------------------------------------------------------
\* Filing a packet under its vendor changes nothing else of it.
LEMMA FiledIs ==
    ASSUME NEW p \in Packets
    PROVE  /\ Filed(p).vendor = VendorOf(p) /\ Filed(p).full = p.full
           /\ Filed(p).rat = p.rat /\ Filed(p).layer = p.layer
  BY PacketAssumption DEF Filed

LEMMA RetitledIs ==
    ASSUME commits \in Seq(Packets)
    PROVE  /\ Len(Retitled) = Len(commits) /\ DOMAIN Retitled = 1 .. Len(commits)
           /\ Retitled \in Seq({Filed(p) : p \in Packets})
           /\ \A i \in 1 .. Len(commits) : commits[i] \in Packets /\ Retitled[i] = Filed(commits[i])
<1>1. /\ Len(commits) \in Nat /\ DOMAIN commits = 1 .. Len(commits)
      /\ \A i \in 1 .. Len(commits) : commits[i] \in Packets
  BY LenProperties, ElementOfSeq
<1>2. Retitled = [i \in 1 .. Len(commits) |-> Filed(commits[i])]
  BY <1>1 DEF Retitled
<1>3. Retitled \in [1 .. Len(commits) -> {Filed(p) : p \in Packets}]
  BY <1>1, <1>2
<1>4. Retitled \in Seq({Filed(p) : p \in Packets})
  BY <1>1, <1>3, SeqDef
<1>5. DOMAIN Retitled = 1 .. Len(commits)
  BY <1>2
<1>6. Len(Retitled) = Len(commits)
  BY <1>1, <1>4, <1>5, LenProperties
<1> QED BY <1>1, <1>2, <1>4, <1>5, <1>6

\* AtomicStore counts with the same Cardinality.
LEMMA SameCardinality == ASSUME NEW A PROVE Promise!Cardinality(A) = Cardinality(A)
  BY DEF Promise!Cardinality, Cardinality

\* The counters are those of the log of filed packets.
LEMMA StatsAgree ==
    ASSUME IInv
    PROVE  Promise!StatsOf(Retitled) =
              [kind |-> "stats", received |-> received, full |-> fully_decoded,
               by_vendor |-> by_vendor, by_rat |-> by_rat, by_layer |-> by_layer,
               history_len |-> Lesser(Len(commits), history_limit)]
<1> DEFINE s == Retitled
           F == {Filed(p) : p \in Packets}
<1>1. /\ Len(s) = Len(commits) /\ DOMAIN s = 1 .. Len(commits)
      /\ \A i \in 1 .. Len(commits) : commits[i] \in Packets /\ s[i] = Filed(commits[i])
  BY RetitledIs DEF IInv, TypeOK
<1> HIDE DEF s
<1>2. {i \in DOMAIN s : s[i].full} = FullAt(commits)
  BY <1>1, FiledIs DEF FullAt
<1>3. ASSUME NEW v PROVE {i \in DOMAIN s : s[i].vendor = v} = VendorAt(commits, v)
  BY <1>1, FiledIs DEF VendorAt
<1>4. ASSUME NEW t PROVE {i \in DOMAIN s : s[i].rat = t} = RatAt(commits, t)
  BY <1>1, FiledIs DEF RatAt
<1>5. ASSUME NEW l PROVE {i \in DOMAIN s : s[i].layer = l} = LayerAt(commits, l)
  BY <1>1, FiledIs DEF LayerAt
<1>6. {p.vendor : p \in F} = Vendors /\ {p.rat : p \in F} = Rats /\ {p.layer : p \in F} = Layers
  BY FiledIs DEF Vendors, Rats, Layers
<1> HIDE DEF F
<1>7. by_vendor = [v \in {p.vendor : p \in F} |-> Promise!Cardinality({i \in DOMAIN s : s[i].vendor = v})]
  BY <1>3, <1>6, SameCardinality DEF IInv, TypeOK, Counted
<1>8. by_rat = [t \in {p.rat : p \in F} |-> Promise!Cardinality({i \in DOMAIN s : s[i].rat = t})]
  BY <1>4, <1>6, SameCardinality DEF IInv, TypeOK, Counted
<1>9. by_layer = [l \in {p.layer : p \in F} |-> Promise!Cardinality({i \in DOMAIN s : s[i].layer = l})]
  BY <1>5, <1>6, SameCardinality DEF IInv, TypeOK, Counted
<1>10. fully_decoded = Promise!Cardinality({i \in DOMAIN s : s[i].full}) /\ received = Len(s)
  BY <1>1, <1>2, SameCardinality DEF IInv, Counted
<1>11. Promise!StatsOf(s) =
          [kind |-> "stats", received |-> received, full |-> fully_decoded,
           by_vendor |-> by_vendor, by_rat |-> by_rat, by_layer |-> by_layer,
           history_len |-> Lesser(Len(commits), history_limit)]
  <2>1. Promise!Lesser(Len(s), history_limit) = Lesser(Len(commits), history_limit)
    BY <1>1 DEF Lesser, Promise!Lesser
  <2> QED BY <2>1, <1>7, <1>8, <1>9, <1>10 DEF Promise!StatsOf, Promise!CountOf, F
<1> QED BY <1>11 DEF s

\* The packets a reader answers with are the latest of the log, as many as
\* were asked for and retained.
LEMMA PacketsAgree ==
    ASSUME IInv, NEW r \in Readers, st[r] = "second", NEW n \in Queries, Clamp(n) \in Nat \ {0},
           job[r] = [op |-> "packets", limit |-> Clamp(n)]
    PROVE  Refiled(PacketsAnswer(r)) = Promise!PacketsOf(Retitled, n)
<1> DEFINE m == Clamp(n)
           k == Lesser(Lesser(m, history_limit), Len(commits))
           c == Len(commits)
           items == SubSeq(history, Skip(m) + 1, Len(history))
           F == {Filed(p) : p \in Packets}
<1>1. /\ PacketsAnswer(r) = [kind |-> "packets", items |-> items]
      /\ items \in Seq(Packets) /\ k \in 0 .. c /\ Len(items) = k
      /\ \A i \in 1 .. k : items[i] = commits[(c - k) + i]
  BY PacketsGiven
<1>2. /\ Len(Retitled) = c /\ Retitled \in Seq(F) /\ c \in Nat
      /\ \A i \in 1 .. c : Retitled[i] = Filed(commits[i])
  BY RetitledIs DEF IInv, TypeOK
<1> HIDE DEF items
<1>3. Refiled(PacketsAnswer(r)) = [kind |-> "packets", items |-> [i \in 1 .. k |-> Filed(items[i])]]
  <2>1. DOMAIN items = 1 .. k
    BY <1>1, LenProperties
  <2> DEFINE A == [kind |-> "packets", items |-> items]
             g == [i \in 1 .. k |-> Filed(items[i])]
  <2>2. A.kind = "packets" /\ A.items = items
    OBVIOUS
  <2>3. Refiled(A) = [A EXCEPT !.items = g]
    BY <2>1, <2>2 DEF Refiled
  <2> HIDE DEF g
  <2>4. [A EXCEPT !.items = g] = [kind |-> "packets", items |-> g]
    OBVIOUS
  <2> QED BY <1>1, <2>3, <2>4 DEF g
<1>4. Promise!PacketsOf(Retitled, n) = [kind |-> "packets", items |-> SubSeq(Retitled, (c - k) + 1, c)]
  <2>1. Promise!Lesser(Promise!Greater(1, Promise!Lesser(n, MaxQuery)), history_limit) = Lesser(m, history_limit)
    BY DEF Clamp, Lesser, Greater, Promise!Lesser, Promise!Greater
  <2>2. Promise!Lesser(Lesser(m, history_limit), c) = k
    BY DEF Lesser, Promise!Lesser
  <2> HIDE DEF m, k, c
  <2> QED BY <2>1, <2>2, <1>2 DEF Promise!PacketsOf, Promise!Latest
<1> HIDE DEF k, c, m
<1>5. /\ SubSeq(Retitled, (c - k) + 1, c) \in Seq(F)
      /\ Len(SubSeq(Retitled, (c - k) + 1, c)) = k
      /\ \A i \in 1 .. k : SubSeq(Retitled, (c - k) + 1, c)[i] = Retitled[(c - k) + i]
  <2>1. \A i \in (c - k) + 1 .. c : Retitled[i] \in F
    <3> HIDE DEF F
    <3> QED BY <1>1, <1>2, ElementOfSeq
  <2>2. (c - k) + 1 \in Int /\ c \in Int
    BY <1>1, <1>2
  <2>3. /\ SubSeq(Retitled, (c - k) + 1, c) \in Seq(F)
        /\ Len(SubSeq(Retitled, (c - k) + 1, c)) = IF (c - k) + 1 <= c THEN (c - ((c - k) + 1)) + 1 ELSE 0
        /\ \A i \in 1 .. (c - ((c - k) + 1)) + 1 :
              SubSeq(Retitled, (c - k) + 1, c)[i] = Retitled[(((c - k) + 1) + i) - 1]
    <3> HIDE DEF F
    <3> QED BY <2>1, <2>2, SubSeqProperties
  <2>4. /\ (IF (c - k) + 1 <= c THEN (c - ((c - k) + 1)) + 1 ELSE 0) = k
        /\ (c - ((c - k) + 1)) + 1 = k
        /\ \A i \in 1 .. k : (((c - k) + 1) + i) - 1 = (c - k) + i
    BY <1>1, <1>2
  <2> QED BY <2>3, <2>4
<1>6. \A i \in 1 .. k : (c - k) + i \in 1 .. c
  BY <1>1, <1>2
<1>7. SubSeq(Retitled, (c - k) + 1, c) = [i \in 1 .. k |-> Filed(items[i])]
  <2> DEFINE u == SubSeq(Retitled, (c - k) + 1, c)
  <2>1. DOMAIN u = 1 .. k /\ u = [i \in DOMAIN u |-> u[i]]
    BY <1>5, LenProperties
  <2>2. \A i \in 1 .. k : u[i] = Filed(items[i])
    BY <1>1, <1>2, <1>5, <1>6
  <2> HIDE DEF u
  <2>3. u = [i \in 1 .. k |-> Filed(items[i])]
    BY <2>1, <2>2
  <2> QED BY <2>3 DEF u
<1> QED BY <1>3, <1>4, <1>7

\* A packet counted is one Commit of the log.
LEMMA CountRefines == ASSUME IInv, NEW w \in Tasks, Count(w) PROVE \E p \in {Filed(q) : q \in Packets} : Promise!Commit(p)
<1> DEFINE q == job[w].packet
<1>1. w \in Writers /\ q \in Packets /\ commits' = Append(commits, q) /\ reply' = reply
  BY DEF IInv, Count, Assigned
<1> HIDE DEF q
<1>2. commits \in Seq(Packets) /\ commits' \in Seq(Packets) /\ Len(commits) \in Nat
      /\ Len(commits') = Len(commits) + 1 /\ commits'[Len(commits) + 1] = q
      /\ \A i \in 1 .. Len(commits) : commits'[i] = commits[i]
  <2>1. commits \in Seq(Packets) /\ Len(commits) \in Nat
    BY DEF IInv, TypeOK
  <2> QED BY <1>1, <2>1, AppendProperties
<1>3. /\ DOMAIN commits' = 1 .. Len(commits) + 1
      /\ Retitled' = [i \in 1 .. Len(commits) + 1 |-> Filed(commits'[i])]
  <2>1. DOMAIN commits' = 1 .. Len(commits) + 1
    BY <1>2, LenProperties
  <2> QED BY <2>1 DEF Retitled, Filed, VendorOf
<1>4. Append(Retitled, Filed(q)) = Retitled'
  <2> DEFINE F == {Filed(p) : p \in Packets}
             a == Append(Retitled, Filed(q))
  <2>1. /\ Retitled \in Seq(F) /\ Len(Retitled) = Len(commits) /\ Filed(q) \in F
        /\ \A i \in 1 .. Len(commits) : Retitled[i] = Filed(commits[i])
    BY <1>1, <1>2, RetitledIs
  <2> HIDE DEF F
  <2>2. /\ a \in Seq(F) /\ Len(a) = Len(commits) + 1 /\ a[Len(commits) + 1] = Filed(q)
        /\ \A i \in 1 .. Len(commits) : a[i] = Retitled[i]
    BY <2>1, AppendProperties
  <2> HIDE DEF a
  <2>3. DOMAIN a = 1 .. Len(commits) + 1 /\ a = [i \in DOMAIN a |-> a[i]]
    BY <2>2, LenProperties
  <2>4. \A i \in 1 .. Len(commits) + 1 : a[i] = Filed(commits'[i])
    <3> TAKE i \in 1 .. Len(commits) + 1
    <3>1. CASE i = Len(commits) + 1
      BY <3>1, <2>2, <1>2
    <3>2. CASE i # Len(commits) + 1
      <4>1. i \in 1 .. Len(commits)
        BY <3>2, <1>2
      <4> QED BY <4>1, <2>1, <2>2, <1>2
    <3> QED BY <3>1, <3>2
  <2>5. a = [i \in 1 .. Len(commits) + 1 |-> Filed(commits'[i])]
    BY <2>3, <2>4
  <2> QED BY <2>5, <1>3 DEF a
<1>5. [r \in Readers |-> Refiled(reply[r])]' = [r \in Readers |-> Refiled(reply[r])]
  BY <1>1 DEF Refiled, Filed, VendorOf
<1> QED BY <1>1, <1>4, <1>5 DEF Promise!Commit

\* An answer given is one Answer, of the log as it then stands.
LEMMA ReadRestRefines == ASSUME IInv, NEW r \in Tasks, ReadRest(r) PROVE r \in Readers /\ Promise!Answer(r)
<1> DEFINE R == [q \in Readers |-> Refiled(reply[q])]
           a == IF job[r].op = "stats" THEN StatsAnswer(r) ELSE PacketsAnswer(r)
<1>1. /\ r \in Readers /\ st[r] = "second" /\ commits' = commits
      /\ reply' = [reply EXCEPT ![r] = a]
  BY DEF ReadRest
<1>2. Retitled' = Retitled
  BY <1>1 DEF Retitled, Filed, VendorOf
<1>3. R' = [R EXCEPT ![r] = Refiled(a)]
  <2>1. R' = [q \in Readers |-> Refiled(reply'[q])]
    BY DEF Refiled, Filed, VendorOf
  <2>2. reply'[r] = a /\ \A q \in Readers \ {r} : reply'[q] = reply[q]
    BY <1>1 DEF IInv, TypeOK
  <2> HIDE DEF a
  <2> QED BY <2>1, <2>2, <1>1
<1>4. CASE job[r] = [op |-> "stats"]
  <2>1. a = StatsAnswer(r) /\ job[r].op = "stats"
    BY <1>4
  <2>2. a = Promise!StatsOf(Retitled)
    BY <2>1, <1>1, StatsGiven, StatsAgree
  <2>3. Refiled(a) = a
    BY <2>1 DEF Refiled, StatsAnswer
  <2> QED BY <1>1, <1>2, <1>3, <2>2, <2>3 DEF Promise!Answer
<1>5. ASSUME NEW n \in Queries, job[r] = [op |-> "packets", limit |-> Clamp(n)], Clamp(n) \in Nat \ {0}
      PROVE  Promise!Answer(r)
  <2>1. a = PacketsAnswer(r)
    <3>1. job[r].op # "stats"
      BY <1>5
    <3> QED BY <3>1
  <2>2. Refiled(a) = Promise!PacketsOf(Retitled, n)
    BY <2>1, <1>1, <1>5, PacketsAgree
  <2> HIDE DEF a
  <2> QED BY <1>1, <1>2, <1>3, <2>2 DEF Promise!Answer
<1> QED BY <1>1, <1>4, <1>5, ReaderAsked

\* Every step of the store is a step of the atomic one, or invisible to it.
LEMMA StepRefines == IInv /\ [Next]_vars => [Promise!Next]_Promise!vars
<1> SUFFICES ASSUME IInv, [Next]_vars PROVE [Promise!Next]_Promise!vars
  OBVIOUS
<1>1. CASE UNCHANGED <<commits, reply>>
  <2>1. Retitled' = Retitled
    BY <1>1 DEF Retitled, Filed, VendorOf
  <2>2. [r \in Readers |-> Refiled(reply[r])]' = [r \in Readers |-> Refiled(reply[r])]
    BY <1>1 DEF Refiled, Filed, VendorOf
  <2> QED BY <2>1, <2>2 DEF Promise!vars
<1>2. ASSUME NEW t \in Tasks, Count(t) PROVE Promise!Next
  BY <1>2, CountRefines DEF Promise!Next
<1>3. ASSUME NEW t \in Tasks, ReadRest(t) PROVE Promise!Next
  BY <1>3, ReadRestRefines DEF Promise!Next
<1>4. ASSUME NEW t \in Tasks, Want(t) \/ Grant(t) \/ Push(t) \/ ReadFirst(t)
      PROVE  UNCHANGED <<commits, reply>>
  BY <1>4 DEF Want, WantWrite, WantStats, WantPackets, Ask, Grant, Push, ReadFirst
<1>5. CASE UNCHANGED vars
  BY <1>1, <1>5 DEF vars
<1> QED BY <1>1, <1>2, <1>3, <1>4, <1>5 DEF Next, InsideStep

\* AnswersAtomic: under the lock every request behaves as if it ran alone: each
\* answer of stats or packets is computed from the log at one moment, whatever
\* --history, the limits and the number of agents and clients.
THEOREM AnswersAtomic == Spec => ImplementsAtomic
<1>1. Init => Promise!Init
  <2> SUFFICES ASSUME Init PROVE Promise!Init
    OBVIOUS
  <2>1. Retitled = <<>>
    BY DEF Init, Retitled
  <2>2. [r \in Readers |-> Refiled(reply[r])] = [r \in Readers |-> Promise!NoReply]
    BY DEF Init, Refiled, NoReply, Promise!NoReply
  <2> QED BY <2>1, <2>2 DEF Promise!Init
<1> QED BY Invariance, <1>1, StepRefines, PTL DEF Spec, ImplementsAtomic, Promise!Spec
-----------------------------------------------------------------------------
\* What EveryRequestServed rests on: nobody overtakes, and each step that a
\* task takes under the lock brings everybody who waits a step nearer.

\* t asked for the lock before u, and both wait for it.
Before(t, u) == \E i, j \in 1 .. Len(queue) : i < j /\ queue[i] = t /\ queue[j] = u

\* The tasks that have both steps under the lock before them.
Entered == {t \in Tasks : st[t] = "first"}

\* The steps under the lock that come before t has it: three for each request
\* up to its own, and what is left to those who are inside.
Place(t) == CHOOSE i \in 1 .. Len(queue) : queue[i] = t
Within   == Cardinality(Entered) + Cardinality(Inside)
Turns(t) == 3 * Place(t) + Within

\* NobodyOvertakes: of two requests that wait the earlier is granted first.
NobodyOvertakes ==
    [][\A t, u \in Tasks : Before(t, u) => Before(t, u)' \/ (st'[t] = "first" /\ st'[u] = "wait")]_vars

\* WaitShortens: whatever a task does under the lock brings everybody who waits
\* one step nearer to it, and new requests push nobody back.
WaitShortens ==
    [][\A t \in Tasks : st[t] = "wait" /\ st'[t] = "wait" =>
          \/ Turns(t)' = Turns(t) - 1
          \/ Turns(t)' = Turns(t) /\ \E u \in Tasks : Want(u)]_vars

FiniteInside == IsFiniteSet(Inside)

LEMMA PlaceIs ==
    ASSUME NEW t \in Tasks, NEW i \in 1 .. Len(queue), queue[i] = t, Queued
    PROVE  Place(t) = i
  BY DEF Place, Queued

\* Requests join the queue at its end.
LEMMA Joins ==
    ASSUME IInv, NEW t \in Tasks, Want(t)
    PROVE  /\ Len(queue) \in Nat /\ Len(queue') = Len(queue) + 1
           /\ \A i \in 1 .. Len(queue) : queue'[i] = queue[i]
           /\ Entered' = Entered /\ Inside' = Inside
           /\ \A u \in Tasks : st[u] = "wait" => st'[u] = "wait"
<1>1. PICK j : Ask(t, j)
  BY DEF Want, WantWrite, WantStats, WantPackets
<1>2. queue \in Seq(Tasks) /\ queue' = Append(queue, t)
  BY <1>1 DEF Ask, IInv, TypeOK
<1>3. st'[t] = "wait" /\ st[t] = "idle" /\ \A u \in Tasks \ {t} : st'[u] = st[u]
  BY <1>1 DEF Ask, IInv, TypeOK
<1> QED BY <1>2, <1>3, AppendProperties DEF Entered, Inside

\* The lock is granted at the queue's head.
LEMMA Enters ==
    ASSUME IInv, NEW t \in Tasks, Grant(t)
    PROVE  /\ Len(queue) \in Nat \ {0} /\ Len(queue') = Len(queue) - 1 /\ queue[1] = t
           /\ \A i \in 1 .. Len(queue) - 1 : queue'[i] = queue[i + 1]
           /\ st[t] = "wait" /\ st'[t] = "first" /\ \A u \in Tasks \ {t} : st'[u] = st[u]
           /\ t \notin Inside /\ Entered' = Entered \cup {t} /\ Inside' = Inside \cup {t}
<1>1. queue \in Seq(Tasks) /\ queue # <<>> /\ t = Head(queue) /\ queue' = Tail(queue)
  BY DEF Grant, IInv, TypeOK
<1>2. /\ Len(queue) \in Nat \ {0} /\ Len(queue') = Len(queue) - 1 /\ queue[1] = t
      /\ \A i \in 1 .. Len(queue) - 1 : queue'[i] = queue[i + 1]
  <2>1. Head(queue) = queue[1]
    BY <1>1
  <2> QED BY <1>1, <2>1, HeadTailProperties, EmptySeq
<1>3. st[t] = "wait"
  BY <1>2 DEF IInv, Queued
<1>4. st'[t] = "first" /\ \A u \in Tasks \ {t} : st'[u] = st[u]
  BY DEF Grant, IInv, TypeOK
<1> QED BY <1>2, <1>3, <1>4 DEF Entered, Inside

\* Of those inside one takes its next step.
LEMMA Advances ==
    ASSUME IInv, NEW t \in Tasks, InsideStep(t)
    PROVE  /\ queue' = queue /\ \A u \in Tasks \ {t} : st'[u] = st[u]
           /\ t \in Inside /\ st'[t] # "wait"
           /\ \/ t \in Entered /\ Entered' = Entered \ {t} /\ Inside' = Inside
              \/ t \notin Entered /\ Entered' = Entered /\ Inside' = Inside \ {t}
<1>1. CASE Count(t) \/ ReadFirst(t)
  <2>1. queue' = queue /\ st[t] = "first" /\ st' = [st EXCEPT ![t] = "second"]
    BY <1>1 DEF Count, ReadFirst
  <2>2. st'[t] = "second" /\ \A u \in Tasks \ {t} : st'[u] = st[u]
    BY <2>1 DEF IInv, TypeOK
  <2> QED BY <2>1, <2>2 DEF Entered, Inside
<1>2. CASE Push(t) \/ ReadRest(t)
  <2>1. queue' = queue /\ st[t] = "second" /\ st' = [st EXCEPT ![t] = "idle"]
    BY <1>2 DEF Push, ReadRest
  <2>2. st'[t] = "idle" /\ \A u \in Tasks \ {t} : st'[u] = st[u]
    BY <2>1 DEF IInv, TypeOK
  <2> QED BY <2>1, <2>2 DEF Entered, Inside
<1> QED BY <1>1, <1>2 DEF InsideStep

\* However many readers there are, those inside are finitely many, for one
\* step lets in one.
LEMMA FiniteInsideAlways == Spec => []FiniteInside
<1>1. Init => FiniteInside
  <2> SUFFICES ASSUME Init PROVE Inside = {}
    BY FS_EmptySet DEF FiniteInside
  <2> QED BY DEF Init, Inside
<1>2. IInv /\ FiniteInside /\ [Next]_vars => FiniteInside'
  <2> SUFFICES ASSUME IInv, IsFiniteSet(Inside), [Next]_vars PROVE IsFiniteSet(Inside')
    BY DEF FiniteInside
  <2>1. CASE UNCHANGED vars
    BY <2>1 DEF vars, lockVars, Inside
  <2>2. ASSUME NEW t \in Tasks, Want(t) \/ Grant(t) \/ InsideStep(t) PROVE IsFiniteSet(Inside')
    <3>1. Inside' \in {Inside, Inside \cup {t}, Inside \ {t}}
      BY <2>2, Joins, Enters, Advances
    <3> QED BY <3>1, FS_AddElement, FS_RemoveElement
  <2> QED BY <2>1, <2>2 DEF Next
<1> QED BY <1>1, <1>2, Invariance, PTL DEF Spec

\* NobodyIsOvertaken: the order in which requests are made is the order in which
\* they are granted, for writers and readers alike.
THEOREM NobodyIsOvertaken == Spec => NobodyOvertakes
<1> DEFINE Kept == \A t, u \in Tasks : Before(t, u) => Before(t, u)' \/ (st'[t] = "first" /\ st'[u] = "wait")
<1>1. IInv /\ [Next]_vars => Kept
  <2> SUFFICES ASSUME IInv, [Next]_vars, NEW t \in Tasks, NEW u \in Tasks, Before(t, u)
               PROVE  Before(t, u)' \/ (st'[t] = "first" /\ st'[u] = "wait")
    OBVIOUS
  <2>1. PICK i, j \in 1 .. Len(queue) : i < j /\ queue[i] = t /\ queue[j] = u
    BY DEF Before
  <2>2. queue \in Seq(Tasks) /\ Len(queue) \in Nat /\ st[u] = "wait" /\ t # u
    BY <2>1, LenProperties DEF IInv, TypeOK, Queued
  <2>3. CASE queue' = queue
    BY <2>1, <2>3 DEF Before
  <2>4. ASSUME NEW v \in Tasks, Want(v) PROVE Before(t, u)'
    BY <2>1, <2>4, Joins DEF Before
  <2>5. ASSUME NEW v \in Tasks, Grant(v) PROVE Before(t, u)' \/ (st'[t] = "first" /\ st'[u] = "wait")
    <3>1. CASE i = 1
      BY <2>1, <2>2, <2>5, <3>1, Enters
    <3>2. CASE i # 1
      <4>1. /\ i - 1 \in 1 .. Len(queue) - 1 /\ j - 1 \in 1 .. Len(queue) - 1 /\ i - 1 < j - 1
            /\ (i - 1) + 1 = i /\ (j - 1) + 1 = j
        BY <2>1, <2>2, <3>2
      <4>2. queue'[i - 1] = t /\ queue'[j - 1] = u /\ Len(queue') = Len(queue) - 1
        BY <2>1, <2>5, <4>1, Enters
      <4> QED BY <4>1, <4>2 DEF Before
    <3> QED BY <3>1, <3>2
  <2>6. ASSUME NEW v \in Tasks, InsideStep(v) PROVE queue' = queue
    BY <2>6, Advances
  <2> QED BY <2>3, <2>4, <2>5, <2>6 DEF Next, vars, lockVars
<1> QED BY <1>1, Invariance, PTL DEF NobodyOvertakes, Spec

\* Fewer, as many or more inside.
LEMMA TurnsInside ==
    ASSUME IInv, FiniteInside, NEW t \in Tasks, Want(t) \/ Grant(t) \/ InsideStep(t)
    PROVE  /\ Within \in Nat /\ Within' \in Nat
           /\ Want(t) => Within' = Within
           /\ Grant(t) => Within' = Within + 2
           /\ InsideStep(t) => Within' = Within - 1
<1>1. Entered \subseteq Inside /\ IsFiniteSet(Inside)
  BY DEF Entered, Inside, FiniteInside
<1>2. IsFiniteSet(Entered)
  BY <1>1, FS_Subset
<1> DEFINE e == Cardinality(Entered)
           i == Cardinality(Inside)
           f == Cardinality(Entered')
           j == Cardinality(Inside')
<1>3. e \in Nat /\ i \in Nat
  BY <1>1, <1>2, FS_CardinalityType
<1>4. Within = e + i /\ Within' = f + j
  BY DEF Within
<1>5. CASE Want(t)
  <2>1. f = e /\ j = i
    BY <1>5, Joins
  <2>2. ~Grant(t) /\ ~InsideStep(t)
    <3>1. st[t] = "idle"
      BY <1>5 DEF Want, WantWrite, WantStats, WantPackets, Ask
    <3>2. Grant(t) => st[t] = "wait"
      BY Enters
    <3>3. InsideStep(t) => t \in Inside
      BY Advances
    <3> QED BY <3>1, <3>2, <3>3 DEF Inside
  <2> HIDE DEF e, i, f, j
  <2>3. e + i \in Nat /\ f + j \in Nat /\ f + j = e + i
    BY <1>3, <2>1
  <2> QED BY <1>4, <2>2, <2>3
<1>6. CASE Grant(t)
  <2>1. t \notin Inside /\ t \notin Entered /\ Entered' = Entered \cup {t} /\ Inside' = Inside \cup {t}
    BY <1>1, <1>6, Enters
  <2>2. f = e + 1 /\ j = i + 1
    BY <1>1, <1>2, <2>1, FS_AddElement
  <2>3. ~Want(t) /\ ~InsideStep(t)
    <3>1. st[t] = "wait"
      BY <1>6, Enters
    <3>2. InsideStep(t) => t \in Inside
      BY Advances
    <3> QED BY <2>1, <3>1, <3>2 DEF Want, WantWrite, WantStats, WantPackets, Ask
  <2> HIDE DEF e, i, f, j
  <2>4. e + i \in Nat /\ f + j \in Nat /\ f + j = e + i + 2
    BY <1>3, <2>2
  <2> QED BY <1>4, <2>3, <2>4
<1>7. CASE InsideStep(t)
  <2>1. \/ t \in Entered /\ Entered' = Entered \ {t} /\ Inside' = Inside
        \/ t \in Inside /\ Entered' = Entered /\ Inside' = Inside \ {t}
    BY <1>7, Advances
  <2>2. (f = e - 1 /\ j = i) \/ (f = e /\ j = i - 1)
    BY <1>1, <1>2, <2>1, FS_RemoveElement
  <2>3. f \in Nat /\ j \in Nat
    <3>1. IsFiniteSet(Entered') /\ IsFiniteSet(Inside')
      BY <1>1, <1>2, <2>1, FS_RemoveElement
    <3> QED BY <3>1, FS_CardinalityType
  <2>4. ~Want(t) /\ ~Grant(t)
    <3>1. t \in Inside
      BY <1>7, Advances
    <3>2. Grant(t) => t \notin Inside
      BY Enters
    <3> QED BY <3>1, <3>2 DEF Inside, Want, WantWrite, WantStats, WantPackets, Ask
  <2> HIDE DEF e, i, f, j
  <2>5. e + i \in Nat /\ f + j \in Nat /\ f + j = e + i - 1
    BY <1>3, <2>2, <2>3
  <2> QED BY <1>3, <1>4, <2>3, <2>4, <2>5
<1> QED BY <1>5, <1>6, <1>7

\* WaitsGetShorter: a request waits for as many steps as its place in the queue
\* gives it at most, however many others are made: with every step of a task
\* that holds the lock, and with every grant, one less.
THEOREM WaitsGetShorter == Spec => WaitShortens
<1> DEFINE Nearer == \A t \in Tasks : st[t] = "wait" /\ st'[t] = "wait" =>
                        \/ Turns(t)' = Turns(t) - 1
                        \/ Turns(t)' = Turns(t) /\ \E u \in Tasks : Want(u)
<1>1. IInv /\ IInv' /\ FiniteInside /\ Next => Nearer
  <2> SUFFICES ASSUME IInv, IInv', FiniteInside, Next, NEW t \in Tasks, st[t] = "wait", st'[t] = "wait"
               PROVE  \/ Turns(t)' = Turns(t) - 1
                      \/ Turns(t)' = Turns(t) /\ \E u \in Tasks : Want(u)
    OBVIOUS
  <2>1. Queued /\ Queued' /\ Len(queue) \in Nat
    BY LenProperties DEF IInv, TypeOK
  <2>2. PICK i \in 1 .. Len(queue) : queue[i] = t
    BY <2>1 DEF Queued
  <2>3. Turns(t) = 3 * i + Within
    BY <2>1, <2>2, PlaceIs DEF Turns
  <2>4. ASSUME NEW n \in 1 .. Len(queue'), queue'[n] = t PROVE Turns(t)' = 3 * n + Within'
    <3>1. Place(t)' = n
      BY <2>1, <2>4 DEF Place, Queued
    <3> QED BY <3>1 DEF Turns
  <2>5. ASSUME NEW u \in Tasks, Want(u) PROVE Turns(t)' = Turns(t)
    <3>1. i \in 1 .. Len(queue') /\ queue'[i] = t
      BY <2>2, <2>5, Joins
    <3>2. Within' = Within
      BY <2>5, TurnsInside
    <3> QED BY <2>3, <2>4, <3>1, <3>2
  <2>6. ASSUME NEW u \in Tasks, Grant(u) PROVE Turns(t)' = Turns(t) - 1
    <3>1. i # 1
      BY <2>2, <2>6, Enters
    <3>2. i - 1 \in 1 .. Len(queue) - 1 /\ (i - 1) + 1 = i
      BY <2>1, <2>2, <3>1
    <3>3. i - 1 \in 1 .. Len(queue') /\ queue'[i - 1] = t
      BY <2>2, <2>6, <3>2, Enters
    <3>4. Within \in Nat /\ Within' = Within + 2
      BY <2>6, TurnsInside
    <3>5. Turns(t)' = 3 * (i - 1) + Within'
      BY <2>4, <3>3
    <3> QED BY <2>2, <2>3, <3>4, <3>5
  <2>7. ASSUME NEW u \in Tasks, InsideStep(u) PROVE Turns(t)' = Turns(t) - 1
    <3>1. i \in 1 .. Len(queue') /\ queue'[i] = t
      BY <2>2, <2>7, Advances
    <3>2. Within \in Nat /\ Within' = Within - 1
      BY <2>7, TurnsInside
    <3> QED BY <2>2, <2>3, <2>4, <3>1, <3>2
  <2> QED BY <2>5, <2>6, <2>7 DEF Next
<1> QED BY <1>1, Invariance, FiniteInsideAlways, PTL DEF WaitShortens, Spec
=============================================================================
