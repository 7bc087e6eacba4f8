-------------------------- MODULE ApiServiceProofs --------------------------
(***************************************************************************)
(* Proofs about ApiService, for any number of agents and clients and any   *)
(* frames: ingest tasks use the store and the feed as their modules say,   *)
(* so that all that PacketStoreProofs and LiveFeedProofs show holds in the *)
(* whole service; what one agent sends reaches both in its order, whatever *)
(* the others do; and no task waits for more than bytes and the lock.      *)
(***************************************************************************)
EXTENDS ApiService, SequenceTheorems, FiniteSetTheorems, TLAPS

SP == INSTANCE PacketStoreProofs WITH Writers <- Conns, Readers <- Clients, Packets <- Frames,
                                      MaxCommits <- MaxFrames
LP == INSTANCE LiveFeedProofs WITH Values <- Frames, MaxPublished <- MaxFrames

\* The task of c holds a frame that is not counted yet; one that is, and is not
\* yet published.
Fresh(c) == pc[c] \in {"frame", "decoded"} \/ (pc[c] = "store" /\ st[c] # "second")
Kept(c)  == pc[c] = "live" \/ (pc[c] = "store" /\ st[c] = "second")

\* The parts of the stream that the task of c has read, and those that it has
\* not, but for the piece that a dying agent leaves at the end.
Taken(c) == 2 * Stored(c) + (IF pc[c] = "body" THEN 1 ELSE IF Fresh(c) THEN 2 ELSE 0)
Whole(w) == IF w # <<>> /\ w[Len(w)] = Cut THEN Len(w) - 1 ELSE Len(w)
Left(c)  == Whole(wire[c])

\* w, behind the first t parts of the stream of c, holds lengths and frames in turn.
Carries(w, t, c) ==
    \A i \in 1 .. Whole(w), n \in 1 .. Len(Script[c]) :
        /\ t + i = 2 * n - 1 => w[i] = LengthOf(Script[c][n])
        /\ t + i = 2 * n     => w[i] = BodyOf(Script[c][n])

\* What is left of the stream goes on where the task has stopped, as far as the
\* agent has written.
Stream(c) ==
    pc[c] \notin {"ok", "error"} =>
       /\ Left(c) < Len(wire[c]) => fin[c]
       /\ Taken(c) + Left(c) \in {2 * sent[c], 2 * sent[c] + 1}
       /\ Taken(c) + Left(c) = 2 * sent[c] + 1 => sent[c] < Len(Script[c])
       /\ Carries(wire[c], Taken(c), c)

\* Why a connection is dropped.
Explained(c) ==
    LET n == Stored(c) + 1 IN
        \/ n <= Len(Script[c]) /\ LET f == Script[c][n] IN
              \/ f.size # "fits"
              \/ sent[c] >= n /\ ~f.valid
              \/ sent[c] >= n /\ cur[c] = f /\ (ToMirror(f) \/ ~Serializes(f))
        \/ fin[c] /\ sent[c] = n - 1
        \/ reset[c] /\ cur[c] = NoFrame

\* The frames stored are the first ones, and the task holds the next, or the last.
Position(c) ==
    /\ StoredAt(c) = 1 .. Stored(c) /\ Stored(c) \in Nat /\ Stored(c) <= sent[c]
    /\ Fresh(c) => Stored(c) < sent[c] /\ cur[c] = Script[c][Stored(c) + 1]
    /\ Kept(c) => Stored(c) > 0 /\ cur[c] = Script[c][Stored(c)]
    /\ pc[c] \in {"none", "length", "body"} => cur[c] = NoFrame
    /\ pc[c] = "ok" => Stored(c) = sent[c]
    /\ pc[c] = "error" => Explained(c)

\* A task is at the lock exactly while it stores, and with its own frame.
AtLock(c) == IF pc[c] = "store" THEN st[c] # "idle" /\ job[c].packet = cur[c] ELSE st[c] = "idle"

\* Nothing is stored but what agents send.
Sourced == \A x \in 1 .. Len(commits) : \E c \in Conns : commits[x] \in Elements(Script[c])

\* What is live is stored; what a task has still to publish is not live.
LiveKnown ==
    /\ \A x \in 1 .. Len(log) : \E y \in 1 .. Len(commits) : log[x] = commits[y]
    /\ \A c \in Conns : Kept(c) => \A x \in 1 .. Len(log) : log[x] # cur[c]

\* A client that has heard of its subscription when it asks is answered behind it.
Asked == \A k \in Clients : /\ joined[k] <= Len(commits)
                            /\ task[k] = "none" => at[k] = since[k]
                            /\ heard[k] => task[k] # "none"
                            /\ heard[k] /\ asOf[k] # Unanswered => joined[k] <= asOf[k]

\* What is committed behind a subscription is on the feed behind it, or will be.
OnFeed(k, f) == \/ \E x \in since[k] + 1 .. Len(log) : log[x] = f
                \/ f \in InFlight({"store", "live"})

Covered == \A k \in Live!Subscribers : \A i \in joined[k] + 1 .. Len(commits) : OnFeed(k, commits[i])

Mirrors ==
    /\ MirrorCovers
    /\ \A c \in Conns : pc[c] \in {"decoded", "store"} /\ ToMirror(cur[c]) => cur[c] \in mirrored

Connections == \A c \in Conns : Stream(c) /\ Position(c) /\ AtLock(c)

Tied == /\ Sourced /\ \A c \in Conns : InTurn(commits, c) /\ InTurn(log, c)
        /\ LiveKnown /\ Asked /\ Mirrors /\ Covered

IInv == TypeOK /\ SP!IInv /\ LP!IInv /\ Connections /\ Tied

-----------------------------------------------------------------------------
\* What PacketStoreProofs and LiveFeedProofs are about is what ApiService uses.
LEMMA SameStore == /\ Store!Init <=> SP!Init
                   /\ [Store!Next]_Store!vars <=> [SP!Next]_SP!vars
<1>1. Store!vars = SP!vars /\ Store!vars' = SP!vars'
  BY DEF Store!vars, SP!vars, Store!lockVars, SP!lockVars, Store!storeVars, SP!storeVars
<1>2. Store!Init <=> SP!Init
  BY DEF Store!Init, SP!Init, Store!Tasks, SP!Tasks, Store!NoJob, SP!NoJob, Store!NoReply, SP!NoReply,
     Store!Vendors, SP!Vendors, Store!VendorOf, SP!VendorOf, Store!Rats, SP!Rats, Store!Layers, SP!Layers
<1>3. Store!Next <=> SP!Next
  BY DEF Store!Next, SP!Next, Store!Tasks, SP!Tasks, Store!Room, SP!Room, Store!Want, SP!Want, Store!Grant, SP!Grant,
     Store!InsideStep, SP!InsideStep, Store!Count, SP!Count, Store!Push, SP!Push, Store!ReadFirst, SP!ReadFirst,
     Store!ReadRest, SP!ReadRest, Store!WantWrite, SP!WantWrite, Store!WantStats, SP!WantStats,
     Store!WantPackets, SP!WantPackets, Store!Ask, SP!Ask, Store!Inside, SP!Inside, Store!Bump, SP!Bump,
     Store!Trim, SP!Trim, Store!history_limit, SP!history_limit, Store!Greater, SP!Greater, Store!Lesser, SP!Lesser,
     Store!Clamp, SP!Clamp, Store!VendorOf, SP!VendorOf, Store!StatsAnswer, SP!StatsAnswer,
     Store!PacketsAnswer, SP!PacketsAnswer, Store!NoJob, SP!NoJob, Store!NoReply, SP!NoReply,
     Store!storeVars, SP!storeVars, Store!Cardinality, SP!Cardinality
<1> QED BY <1>1, <1>2, <1>3

LEMMA SameLive == /\ Live!Init <=> LP!Init
                  /\ [Live!Next]_Live!vars <=> [LP!Next]_LP!vars
<1>1. Live!vars = LP!vars /\ Live!vars' = LP!vars'
  BY DEF Live!vars, LP!vars
<1>2. Live!Init <=> LP!Init
  BY DEF Live!Init, LP!Init, Live!NoMessage, LP!NoMessage
<1>3. Live!Next <=> LP!Next
  BY DEF Live!Next, LP!Next, Live!Publish, LP!Publish, Live!Subscribe, LP!Subscribe, Live!TaskStep, LP!TaskStep,
     Live!Recv, LP!Recv, Live!RecvPacket, LP!RecvPacket, Live!RecvLagged, LP!RecvLagged, Live!Send, LP!Send,
     Live!SendOk, LP!SendOk, Live!SendSwallowed, LP!SendSwallowed, Live!SendErr, LP!SendErr,
     Live!PeerGone, LP!PeerGone, Live!Arrive, LP!Arrive, Live!Behind, LP!Behind, Live!Subscribers, LP!Subscribers,
     Live!Packet, LP!Packet, Live!Lagged, LP!Lagged, Live!NoMessage, LP!NoMessage,
     Live!taskVars, LP!taskVars, Live!peerVars, LP!peerVars
<1> QED BY <1>1, <1>2, <1>3

\* The assumptions of PacketStore hold of the frames, the agents and the clients.
LEMMA StoreKeeps == SP!IInv /\ [Store!Next]_Store!vars => SP!IInv'
<1>1. \A f \in Frames : {"vendor", "rat", "layer", "full"} \subseteq DOMAIN f /\ f.full \in BOOLEAN
  BY FrameAssumption
<1> QED BY <1>1, SP!NextInv, SameStore, ConnAssumption, LimitAssumption

LEMMA LiveKeeps == LP!IInv /\ [Live!Next]_Live!vars => LP!IInv'
  BY LP!NextInv, SameLive, LimitAssumption

\* What the two invariants say of the variables that the tasks work with.
LEMMA StoreFacts ==
    ASSUME SP!IInv
    PROVE  /\ commits \in Seq(Frames) /\ Len(commits) \in Nat /\ \A x \in 1 .. Len(commits) : commits[x] \in Frames
           /\ st \in [Conns \cup Clients -> {"idle", "wait", "first", "second"}]
           /\ DOMAIN job = Conns \cup Clients /\ queue \in Seq(Conns \cup Clients)
           /\ queue # <<>> => st[Head(queue)] = "wait"
<1>1. commits \in Seq(Frames) /\ st \in [Conns \cup Clients -> {"idle", "wait", "first", "second"}]
  BY DEF SP!IInv, SP!TypeOK, SP!Tasks
<1>2. Len(commits) \in Nat /\ \A x \in 1 .. Len(commits) : commits[x] \in Frames
  BY <1>1, LenProperties, ElementOfSeq
<1>3. DOMAIN job = Conns \cup Clients /\ queue \in Seq(Conns \cup Clients)
  BY DEF SP!IInv, SP!TypeOK, SP!Tasks
<1>4. ASSUME queue # <<>> PROVE st[Head(queue)] = "wait"
  <2>1. Len(queue) \in Nat /\ Len(queue) > 0 /\ Head(queue) = queue[1]
    BY <1>3, <1>4
  <2>2. queue[1] \in Conns \cup Clients /\ 1 \in 1 .. Len(queue)
    BY <1>3, <2>1, ElementOfSeq
  <2>3. \A t \in Conns \cup Clients : st[t] = "wait" <=> \E i \in 1 .. Len(queue) : queue[i] = t
    BY DEF SP!IInv, SP!Queued, SP!Tasks
  <2> QED BY <2>1, <2>2, <2>3
<1> QED BY <1>1, <1>2, <1>3, <1>4

LEMMA LiveFacts ==
    ASSUME LP!IInv
    PROVE  /\ log \in Seq(Frames) /\ Len(log) \in Nat /\ \A x \in 1 .. Len(log) : log[x] \in Frames
           /\ task \in [Clients -> {"none", "recv", "send", "ended"}] /\ since \in [Clients -> Nat]
           /\ at \in [Clients -> Nat]
           /\ \A k \in Clients : task[k] # "none" => since[k] <= Len(log)
<1>1. /\ log \in Seq(Frames) /\ task \in [Clients -> {"none", "recv", "send", "ended"}] /\ since \in [Clients -> Nat]
      /\ at \in [Clients -> Nat]
  BY DEF LP!IInv, LP!TypeOK
<1>2. Len(log) \in Nat /\ \A x \in 1 .. Len(log) : log[x] \in Frames
  BY <1>1, LenProperties, ElementOfSeq
<1>3. \A k \in Clients : task[k] # "none" => since[k] <= Len(log)
  BY DEF LP!IInv, LP!Positions, LP!Joined
<1> QED BY <1>1, <1>2, <1>3

LEMMA ScriptFacts ==
    /\ \A c \in Conns : Script[c] \in Seq(Frames) /\ Len(Script[c]) \in Nat
    /\ \A c \in Conns : \A n \in 1 .. Len(Script[c]) : Script[c][n] \in Frames
<1>1. \A c \in Conns : Script[c] \in Seq(Frames)
  BY ScriptAssumption
<1> QED BY <1>1, LenProperties, ElementOfSeq

-----------------------------------------------------------------------------
\* Elements of a sequence, and of one that grows.
LEMMA ElementsAre == ASSUME NEW S, NEW s \in Seq(S)
                     PROVE  Elements(s) = {s[i] : i \in 1 .. Len(s)}
<1>1. DOMAIN s = 1 .. Len(s)
  BY LenProperties
<1> QED BY <1>1 DEF Elements

LEMMA ElementsGrow == ASSUME NEW S, NEW s \in Seq(S), NEW e \in S
                      PROVE  Elements(Append(s, e)) = Elements(s) \cup {e}
<1>1. /\ Append(s, e) \in Seq(S) /\ Len(s) \in Nat /\ Len(Append(s, e)) = Len(s) + 1
      /\ Append(s, e)[Len(s) + 1] = e /\ \A i \in 1 .. Len(s) : Append(s, e)[i] = s[i]
  BY AppendProperties
<1>2. Elements(s) = {s[i] : i \in 1 .. Len(s)}
  BY ElementsAre
<1> DEFINE t == Append(s, e)
<1>3. Elements(t) = {t[i] : i \in 1 .. Len(t)}
  <2>1. t \in Seq(S)
    BY <1>1
  <2> HIDE DEF t
  <2> QED BY <2>1, ElementsAre
<1> QED BY <1>1, <1>2, <1>3

\* As many elements as places, when none comes twice.
LEMMA ElementsCounted ==
    ASSUME NEW S, NEW s \in Seq(S), \A x, y \in 1 .. Len(s) : s[x] = s[y] => x = y
    PROVE  IsFiniteSet(Elements(s)) /\ Cardinality(Elements(s)) = Len(s)
<1>1. Len(s) \in Nat /\ Elements(s) = {s[i] : i \in 1 .. Len(s)}
  BY LenProperties, ElementsAre
<1>2. IsFiniteSet(1 .. Len(s)) /\ Cardinality(1 .. Len(s)) = Len(s)
  <2>1. 1 \in Int /\ Len(s) \in Int /\ (IF 1 > Len(s) THEN 0 ELSE Len(s) - 1 + 1) = Len(s)
    BY <1>1
  <2> QED BY <2>1, FS_Interval
<1>3. ExistsBijection(1 .. Len(s), Elements(s))
  <2> DEFINE g == [i \in 1 .. Len(s) |-> s[i]]
  <2>1. g \in [1 .. Len(s) -> Elements(s)]
    BY <1>1
  <2>2. \A x, y \in 1 .. Len(s) : g[x] = g[y] => x = y
    OBVIOUS
  <2>3. \A e \in Elements(s) : \E x \in 1 .. Len(s) : g[x] = e
    BY <1>1
  <2> HIDE DEF g
  <2>4. g \in Bijection(1 .. Len(s), Elements(s))
    <3> DEFINE N == 1 .. Len(s)
               E == Elements(s)
    <3>1. g \in [N -> E] /\ (\A x, y \in N : g[x] = g[y] => x = y) /\ \A e \in E : \E x \in N : g[x] = e
      BY <2>1, <2>2, <2>3
    <3> HIDE DEF N, E
    <3>2. g \in Injection(N, E)
      BY <3>1 DEF Injection, IsInjective
    <3>3. g \in Surjection(N, E)
      BY <3>1 DEF Surjection
    <3>4. g \in Bijection(N, E)
      BY <3>2, <3>3 DEF Bijection
    <3> QED BY <3>4 DEF N, E
  <2> QED BY <2>4 DEF ExistsBijection
<1> QED BY <1>2, <1>3, FS_Bijection

\* How many frames of an agent are stored, when they are the first n.
LEMMA StoredIs == ASSUME NEW c \in Conns, NEW n \in Nat, StoredAt(c) = 1 .. n
                  PROVE  Stored(c) = n
<1>1. 1 \in Int /\ n \in Int /\ (IF 1 > n THEN 0 ELSE n - 1 + 1) = n
  OBVIOUS
<1> QED BY <1>1, FS_Interval DEF Stored

-----------------------------------------------------------------------------
\* Parts of a stream, told apart by their kind.
LEMMA PartsAre ==
    /\ Cut \in Parts /\ \A f \in Frames : LengthOf(f) \in Parts /\ BodyOf(f) \in Parts
    /\ \A f \in Frames : /\ LengthOf(f).part = "length" /\ LengthOf(f).size = f.size /\ LengthOf(f) # Cut
                         /\ BodyOf(f).part = "body" /\ BodyOf(f).frame = f /\ BodyOf(f) # Cut
<1>1. Cut.part = "cut"
  BY DEF Cut
<1>2. \A f \in Frames : /\ LengthOf(f).part = "length" /\ LengthOf(f).size = f.size
                        /\ BodyOf(f).part = "body" /\ BodyOf(f).frame = f
  BY DEF LengthOf, BodyOf
<1> QED BY <1>1, <1>2 DEF Parts

\* What one more part makes of the stream, and one part less.
LEMMA WholeAppend ==
    ASSUME NEW w \in Seq(Parts), NEW e \in Parts
    PROVE  /\ Append(w, e) \in Seq(Parts) /\ Len(w) \in Nat /\ Len(Append(w, e)) = Len(w) + 1
           /\ Append(w, e)[Len(w) + 1] = e /\ \A i \in 1 .. Len(w) : Append(w, e)[i] = w[i]
           /\ Whole(Append(w, e)) = IF e = Cut THEN Len(w) ELSE Len(w) + 1
<1> DEFINE t == Append(w, e)
<1>1. /\ t \in Seq(Parts) /\ Len(w) \in Nat /\ Len(t) = Len(w) + 1
      /\ t[Len(w) + 1] = e /\ \A i \in 1 .. Len(w) : t[i] = w[i]
  BY AppendProperties
<1>2. t # <<>>
  BY <1>1
<1> HIDE DEF t
<1>3. t[Len(t)] = e
  BY <1>1
<1>4. Whole(t) = IF e = Cut THEN Len(t) - 1 ELSE Len(t)
  BY <1>2, <1>3 DEF Whole
<1>5. Whole(t) = IF e = Cut THEN Len(w) ELSE Len(w) + 1
  BY <1>1, <1>4
<1> QED BY <1>1, <1>5 DEF t

LEMMA WholeTail ==
    ASSUME NEW w \in Seq(Parts), w # <<>>, Head(w) # Cut
    PROVE  /\ Tail(w) \in Seq(Parts) /\ Whole(w) \in Nat /\ Whole(w) >= 1 /\ Head(w) = w[1]
           /\ Whole(Tail(w)) = Whole(w) - 1
           /\ \A i \in 1 .. Whole(Tail(w)) : Tail(w)[i] = w[i + 1]
           /\ Whole(Tail(w)) < Len(Tail(w)) => Whole(w) < Len(w)
<1> DEFINE t == Tail(w)
<1>1. /\ t \in Seq(Parts) /\ Len(w) \in Nat /\ Len(w) > 0 /\ Len(t) = Len(w) - 1 /\ Head(w) = w[1]
      /\ \A i \in 1 .. Len(t) : t[i] = w[i + 1]
  <2>1. t \in Seq(Parts) /\ Len(w) \in Nat /\ Len(w) # 0 /\ Len(t) = Len(w) - 1 /\ Head(w) = w[1]
    BY HeadTailProperties, EmptySeq, LenProperties
  <2>2. \A i \in 1 .. Len(t) : t[i] = w[i + 1]
    BY HeadTailProperties
  <2> QED BY <2>1, <2>2
<1>2. t # <<>> <=> Len(w) >= 2
  BY <1>1
<1> HIDE DEF t
<1> DEFINE Shifted == /\ Whole(w) \in Nat /\ Whole(w) >= 1 /\ Whole(t) = Whole(w) - 1
                      /\ \A i \in 1 .. Whole(t) : t[i] = w[i + 1]
                      /\ Whole(t) < Len(t) => Whole(w) < Len(w)
<1>3. ASSUME Len(w) = 1 PROVE Shifted
  <2>1. w[Len(w)] # Cut /\ Len(t) = 0
    BY <1>1, <1>3
  <2>2. Whole(w) = 1 /\ Whole(t) = 0
    BY <1>1, <1>2, <1>3, <2>1 DEF Whole
  <2>3. \A i : i \notin 1 .. Whole(t)
    BY <2>2
  <2> QED BY <1>3, <2>1, <2>2, <2>3
<1>4. ASSUME Len(w) >= 2 PROVE Shifted
  <2>1. Len(t) \in 1 .. Len(t) /\ Len(t) + 1 = Len(w)
    BY <1>1, <1>4
  <2>2. t[Len(t)] = w[Len(w)]
    BY <1>1, <2>1
  <2>3. Whole(w) = (IF w[Len(w)] = Cut THEN Len(w) - 1 ELSE Len(w))
    BY DEF Whole
  <2>4. Whole(t) = (IF w[Len(w)] = Cut THEN Len(t) - 1 ELSE Len(t))
    BY <1>2, <1>4, <2>2 DEF Whole
  <2>5. Whole(t) = Whole(w) - 1 /\ Whole(w) \in Nat /\ Whole(w) >= 1 /\ Whole(t) <= Len(t)
    BY <1>1, <1>4, <2>3, <2>4
  <2>6. \A i \in 1 .. Whole(t) : t[i] = w[i + 1]
    BY <1>1, <2>5
  <2>7. Whole(t) < Len(t) => Whole(w) < Len(w)
    BY <1>1, <2>3, <2>4
  <2> QED BY <2>5, <2>6, <2>7
<1>5. Shifted
  BY <1>1, <1>3, <1>4
<1> QED BY <1>1, <1>5 DEF t

LEMMA WholeIs == ASSUME NEW w \in Seq(Parts)
                 PROVE  Whole(w) \in Nat /\ Whole(w) \in {Len(w), Len(w) - 1} /\ (w \in {<<>>, <<Cut>>} => Whole(w) = 0)
<1>1. Len(w) \in Nat /\ (w # <<>> => Len(w) > 0)
  BY LenProperties, EmptySeq
<1>2. Len(<<>>) = 0 /\ <<Cut>> # <<>> /\ Len(<<Cut>>) = 1 /\ <<Cut>>[1] = Cut
  OBVIOUS
<1>3. Whole(<<>>) = 0 /\ Whole(<<Cut>>) = 0
  BY <1>2 DEF Whole
<1>4. Whole(w) \in Nat /\ Whole(w) \in {Len(w), Len(w) - 1}
  BY <1>1 DEF Whole
<1> QED BY <1>3, <1>4

-----------------------------------------------------------------------------
\* The types of what one connection is about.
LEMMA ConnFacts ==
    ASSUME IInv, NEW c \in Conns
    PROVE  /\ wire[c] \in Seq(Parts) /\ Left(c) \in Nat /\ Left(c) <= Len(wire[c]) /\ Len(wire[c]) \in Nat
           /\ fin[c] \in BOOLEAN /\ reset[c] \in BOOLEAN
           /\ sent[c] \in Nat /\ Len(Script[c]) \in Nat /\ sent[c] <= Len(Script[c])
           /\ Stored(c) \in Nat /\ Taken(c) \in Nat
           /\ pc[c] \in {"none", "length", "body", "frame", "decoded", "store", "live", "ok", "error"}
           /\ st[c] \in {"idle", "wait", "first", "second"} /\ cur[c] \in Frames \cup {NoFrame}
           /\ DOMAIN wire = Conns /\ DOMAIN sent = Conns /\ DOMAIN fin = Conns /\ DOMAIN pc = Conns /\ DOMAIN cur = Conns
           /\ Stream(c) /\ Position(c) /\ AtLock(c)
<1>1. TypeOK /\ Stream(c) /\ Position(c) /\ AtLock(c) /\ SP!IInv
  BY DEF IInv, Connections
<1>2. /\ wire[c] \in Seq(Parts) /\ fin[c] \in BOOLEAN /\ reset[c] \in BOOLEAN /\ sent[c] \in Nat /\ sent[c] <= Len(Script[c])
      /\ pc[c] \in {"none", "length", "body", "frame", "decoded", "store", "live", "ok", "error"}
      /\ cur[c] \in Frames \cup {NoFrame}
      /\ DOMAIN wire = Conns /\ DOMAIN sent = Conns /\ DOMAIN fin = Conns /\ DOMAIN pc = Conns /\ DOMAIN cur = Conns
  BY <1>1 DEF TypeOK
<1>3. Left(c) \in Nat /\ Left(c) <= Len(wire[c]) /\ Len(wire[c]) \in Nat
  BY <1>2, WholeIs, LenProperties DEF Left
<1>4. Stored(c) \in Nat
  BY <1>1 DEF Position
<1>5. Taken(c) \in Nat
  BY <1>4 DEF Taken
<1>6. st[c] \in {"idle", "wait", "first", "second"}
  BY <1>1, StoreFacts
<1> QED BY <1>1, <1>2, <1>3, <1>4, <1>5, <1>6, ScriptFacts

\* A connection that a step does not touch.
LEMMA ConnKeeps ==
    ASSUME IInv, NEW c \in Conns, wire'[c] = wire[c], sent'[c] = sent[c], fin'[c] = fin[c], reset'[c] = reset[c],
           pc'[c] = pc[c], cur'[c] = cur[c], st'[c] = st[c], job'[c] = job[c], StoredAt(c)' = StoredAt(c)
    PROVE  Stream(c)' /\ Position(c)' /\ AtLock(c)'
<1>0. Stream(c) /\ Position(c) /\ AtLock(c)
  BY DEF IInv, Connections
<1>1. Stored(c)' = Stored(c)
  BY DEF Stored
<1>2. Left(c)' = Left(c)
  BY DEF Left, Whole
<1>3. (Fresh(c) <=> Fresh(c)') /\ (Kept(c) <=> Kept(c)')
  BY DEF Fresh, Kept
<1>4. Taken(c)' = Taken(c)
  BY <1>1, <1>3 DEF Taken
<1>5. Stream(c)'
  <2>1. Carries(wire[c], Taken(c), c)' <=> Carries(wire[c], Taken(c), c)
    BY <1>4 DEF Carries, Whole
  <2> QED BY <1>0, <1>2, <1>4, <2>1 DEF Stream
<1>6. Explained(c) => Explained(c)'
  BY <1>1 DEF Explained, ToMirror, Serializes
<1>7. Position(c)'
  BY <1>0, <1>1, <1>3, <1>6 DEF Position
<1>8. AtLock(c)'
  BY <1>0 DEF AtLock
<1> QED BY <1>5, <1>7, <1>8

\* A step that commits nothing stores nothing.
LEMMA SameStored == ASSUME NEW c \in Conns, commits' = commits
                    PROVE  StoredAt(c)' = StoredAt(c) /\ Stored(c)' = Stored(c)
  BY DEF StoredAt, Stored, Elements

LEMMA CarriesMore ==
    ASSUME NEW w \in Seq(Parts), NEW e \in Parts, NEW t \in Nat, NEW c \in Conns, Whole(w) = Len(w), Carries(w, t, c),
           NEW n \in 1 .. Len(Script[c]),
           \/ t + Len(w) = 2 * n - 2 /\ e = LengthOf(Script[c][n])
           \/ t + Len(w) = 2 * n - 1 /\ e = BodyOf(Script[c][n])
    PROVE  Carries(Append(w, e), t, c) /\ Whole(Append(w, e)) = Len(w) + 1
<1> DEFINE v == Append(w, e)
<1>1. Script[c][n] \in Frames /\ Len(Script[c]) \in Nat
  BY ScriptFacts
<1>2. e # Cut
  BY <1>1, PartsAre
<1>3. Whole(v) = Len(w) + 1 /\ Len(w) \in Nat /\ v[Len(w) + 1] = e /\ \A i \in 1 .. Len(w) : v[i] = w[i]
  BY <1>2, WholeAppend
<1> HIDE DEF v
<1>4. ASSUME NEW i \in 1 .. Whole(v), NEW m \in 1 .. Len(Script[c])
      PROVE  /\ t + i = 2 * m - 1 => v[i] = LengthOf(Script[c][m])
             /\ t + i = 2 * m     => v[i] = BodyOf(Script[c][m])
  <2>1. CASE i \in 1 .. Len(w)
    BY <1>3, <2>1 DEF Carries
  <2>2. CASE i = Len(w) + 1
    <3>1. m \in Nat /\ n \in Nat /\ Len(w) \in Nat
      BY <1>1, <1>3
    <3>2. CASE t + Len(w) = 2 * n - 2 /\ e = LengthOf(Script[c][n])
      <4>1. t + i # 2 * m /\ (t + i = 2 * m - 1 => m = n)
        BY <2>2, <3>1, <3>2
      <4> QED BY <1>3, <2>2, <3>2, <4>1
    <3>3. CASE t + Len(w) = 2 * n - 1 /\ e = BodyOf(Script[c][n])
      <4>1. t + i # 2 * m - 1 /\ (t + i = 2 * m => m = n)
        BY <2>2, <3>1, <3>3
      <4> QED BY <1>3, <2>2, <3>3, <4>1
    <3> QED BY <3>2, <3>3
  <2>3. i \in 1 .. Len(w) \/ i = Len(w) + 1
    BY <1>3
  <2> QED BY <2>1, <2>2, <2>3
<1>5. Carries(v, t, c)
  BY <1>4 DEF Carries
<1> QED BY <1>3, <1>5 DEF v

\* An agent that has not closed writes where the task's next reads will come.
LEMMA WriteLengthStream ==
    ASSUME IInv, NEW c \in Conns, WriteLength(c), pc'[c] = pc[c], st'[c] = st[c], Stored(c)' = Stored(c)
    PROVE  Stream(c)'
<1> DEFINE w == wire[c]
           n == sent[c] + 1
           t == Taken(c)
<1>1. /\ w \in Seq(Parts) /\ sent[c] \in Nat /\ Len(Script[c]) \in Nat /\ Stored(c) \in Nat /\ t \in Nat
      /\ Whole(w) <= Len(w) /\ Len(w) \in Nat
      /\ wire'[c] = Append(w, LengthOf(Script[c][n])) /\ sent'[c] = sent[c] /\ fin'[c] = fin[c]
      /\ ~fin[c] /\ ~Ended(c) /\ sent[c] < Len(Script[c]) /\ ~HalfWritten(c) /\ Stream(c)
  BY ConnFacts DEF WriteLength, Writable, Connected, Left
<1>2. n \in 1 .. Len(Script[c]) /\ Script[c][n] \in Frames
  BY <1>1, ScriptFacts
<1>3. Whole(w) = Len(w) /\ t + Len(w) \in {2 * sent[c], 2 * sent[c] + 1} /\ Carries(w, t, c)
  <2>1. pc[c] \notin {"ok", "error"}
    BY <1>1 DEF Ended
  <2>2. (Whole(w) < Len(w) => fin[c]) /\ t + Whole(w) \in {2 * sent[c], 2 * sent[c] + 1} /\ Carries(w, t, c)
    BY <1>1, <2>1 DEF Stream, Left
  <2>3. Whole(w) \in Nat
    BY <1>1, WholeIs
  <2>4. Whole(w) = Len(w)
    BY <1>1, <2>2, <2>3
  <2> QED BY <2>2, <2>4
<1>4. t + Len(w) = 2 * sent[c]
  <2>1. CASE w = <<>>
    <3>1. pc[c] # "body" /\ Len(w) = 0
      BY <1>1, <2>1, EmptySeq DEF HalfWritten
    <3>2. t = 2 * Stored(c) \/ t = 2 * Stored(c) + 2
      BY <3>1, <1>1 DEF Taken
    <3> QED BY <1>1, <1>3, <3>1, <3>2
  <2>2. ASSUME w # <<>>, t + Len(w) = 2 * sent[c] + 1 PROVE FALSE
    <3>1. Len(w) \in 1 .. Whole(w) /\ t + Len(w) = 2 * n - 1
      BY <1>1, <1>3, <2>2, EmptySeq
    <3>2. w[Len(w)] = LengthOf(Script[c][n])
      BY <1>2, <1>3, <3>1 DEF Carries
    <3>3. w[Len(w)].part = "length"
      BY <1>2, <3>2, PartsAre
    <3> QED BY <1>1, <2>2, <3>3 DEF HalfWritten
  <2> QED BY <1>3, <2>1, <2>2
<1>5. Taken(c)' = t
  BY DEF Taken, Fresh
<1>6. Carries(wire'[c], t, c) /\ Whole(wire'[c]) = Len(w) + 1 /\ Len(wire'[c]) = Len(w) + 1
  <2> HIDE DEF w, t
  <2>1. t + Len(w) = 2 * n - 2
    BY <1>1, <1>4
  <2> HIDE DEF n
  <2>2. LengthOf(Script[c][n]) \in Parts
    BY <1>2, PartsAre
  <2>3. Len(Append(w, LengthOf(Script[c][n]))) = Len(w) + 1
    BY <1>1, <2>2, AppendProperties
  <2> QED BY <1>1, <1>2, <1>3, <2>1, <2>2, <2>3, CarriesMore
<1>7. t + Whole(wire'[c]) = 2 * sent'[c] + 1 /\ sent'[c] < Len(Script[c]) /\ ~(Whole(wire'[c]) < Len(wire'[c]))
  <2> HIDE DEF w, t
  <2> QED BY <1>1, <1>4, <1>6
<1> QED BY <1>5, <1>6, <1>7 DEF Stream, Left, Carries, Whole

LEMMA WriteBodyStream ==
    ASSUME IInv, NEW c \in Conns, WriteBody(c), pc'[c] = pc[c], st'[c] = st[c], Stored(c)' = Stored(c)
    PROVE  Stream(c)' /\ sent[c] < Len(Script[c])
<1> DEFINE w == wire[c]
           n == sent[c] + 1
           t == Taken(c)
<1>1. /\ w \in Seq(Parts) /\ sent[c] \in Nat /\ Len(Script[c]) \in Nat /\ Stored(c) \in Nat /\ t \in Nat
      /\ Whole(w) <= Len(w) /\ Len(w) \in Nat
      /\ wire'[c] = Append(w, BodyOf(Script[c][n])) /\ sent'[c] = n /\ fin'[c] = fin[c]
      /\ ~fin[c] /\ ~Ended(c) /\ sent[c] <= Len(Script[c]) /\ HalfWritten(c) /\ Stream(c)
  BY ConnFacts DEF WriteBody, Writable, Connected, Left
<1>2. /\ Whole(w) = Len(w) /\ t + Len(w) \in {2 * sent[c], 2 * sent[c] + 1} /\ Carries(w, t, c)
      /\ t + Len(w) = 2 * sent[c] + 1 => sent[c] < Len(Script[c])
  <2>1. pc[c] \notin {"ok", "error"}
    BY <1>1 DEF Ended
  <2>2. /\ Whole(w) < Len(w) => fin[c]
        /\ t + Whole(w) \in {2 * sent[c], 2 * sent[c] + 1} /\ Carries(w, t, c)
        /\ t + Whole(w) = 2 * sent[c] + 1 => sent[c] < Len(Script[c])
    BY <1>1, <2>1 DEF Stream, Left
  <2>3. Whole(w) \in Nat
    BY <1>1, WholeIs
  <2>4. Whole(w) = Len(w)
    BY <1>1, <2>2, <2>3
  <2> QED BY <2>2, <2>4
<1>3. t + Len(w) = 2 * sent[c] + 1
  <2>1. CASE w = <<>>
    <3>1. pc[c] = "body" /\ Len(w) = 0
      BY <1>1, <2>1, EmptySeq DEF HalfWritten
    <3>2. t = 2 * Stored(c) + 1
      BY <3>1 DEF Taken
    <3> QED BY <1>1, <1>2, <3>1, <3>2
  <2>2. ASSUME w # <<>>, t + Len(w) = 2 * sent[c] PROVE FALSE
    <3>1. Len(w) \in 1 .. Whole(w) /\ sent[c] \in 1 .. Len(Script[c])
      BY <1>1, <1>2, <2>2, EmptySeq
    <3>2. w[Len(w)] = BodyOf(Script[c][sent[c]])
      BY <1>2, <2>2, <3>1 DEF Carries
    <3>3. w[Len(w)].part = "body"
      BY <3>1, <3>2, PartsAre, ScriptFacts
    <3>4. w[Len(w)].part = "length"
      BY <1>1, <2>2 DEF HalfWritten
    <3> QED BY <3>3, <3>4
  <2> QED BY <1>2, <2>1, <2>2
<1>4. n \in 1 .. Len(Script[c]) /\ Script[c][n] \in Frames /\ sent[c] < Len(Script[c])
  <2>1. sent[c] < Len(Script[c])
    BY <1>2, <1>3
  <2>2. n \in 1 .. Len(Script[c])
    BY <1>1, <2>1
  <2> QED BY <2>1, <2>2, ScriptFacts
<1>5. Taken(c)' = t
  BY DEF Taken, Fresh
<1>6. Carries(wire'[c], t, c) /\ Whole(wire'[c]) = Len(w) + 1 /\ Len(wire'[c]) = Len(w) + 1
  <2> HIDE DEF w, t
  <2>1. t + Len(w) = 2 * n - 1
    BY <1>1, <1>3
  <2> HIDE DEF n
  <2>2. BodyOf(Script[c][n]) \in Parts
    BY <1>4, PartsAre
  <2>3. Len(Append(w, BodyOf(Script[c][n]))) = Len(w) + 1
    BY <1>1, <2>2, AppendProperties
  <2> QED BY <1>1, <1>2, <1>4, <2>1, <2>2, <2>3, CarriesMore
<1>7. /\ t + Whole(wire'[c]) = 2 * sent'[c] /\ 2 * sent'[c] # 2 * sent'[c] + 1 /\ ~(Whole(wire'[c]) < Len(wire'[c]))
  <2>1. Len(w) \in Nat /\ t \in Nat /\ sent[c] \in Nat /\ sent'[c] = sent[c] + 1
    BY <1>1
  <2> HIDE DEF w, t
  <2>2. t + (Len(w) + 1) = 2 * (sent[c] + 1) /\ 2 * (sent[c] + 1) # 2 * (sent[c] + 1) + 1 /\ ~(Len(w) + 1 < Len(w) + 1)
    BY <1>3, <2>1
  <2> QED BY <1>6, <2>1, <2>2
<1> QED BY <1>4, <1>5, <1>6, <1>7 DEF Stream, Left, Carries, Whole

LEMMA CloseStream ==
    ASSUME IInv, NEW c \in Conns, Close(c), pc'[c] = pc[c], st'[c] = st[c], Stored(c)' = Stored(c)
    PROVE  Stream(c)'
<1> DEFINE w == wire[c]
           t == Taken(c)
<1>1. /\ w \in Seq(Parts) /\ sent[c] \in Nat /\ Len(w) \in Nat /\ Whole(w) <= Len(w) /\ Whole(w) \in Nat
      /\ wire'[c] \in {w, Append(w, Cut)} /\ sent'[c] = sent[c] /\ fin'[c] /\ ~fin[c] /\ ~Ended(c) /\ Stream(c)
  BY ConnFacts DEF Close, Connected, Left
<1>2. /\ Whole(w) = Len(w) /\ t + Whole(w) \in {2 * sent[c], 2 * sent[c] + 1} /\ Carries(w, t, c)
      /\ t + Whole(w) = 2 * sent[c] + 1 => sent[c] < Len(Script[c])
  <2>1. pc[c] \notin {"ok", "error"}
    BY <1>1 DEF Ended
  <2>2. /\ Whole(w) < Len(w) => fin[c]
        /\ t + Whole(w) \in {2 * sent[c], 2 * sent[c] + 1} /\ Carries(w, t, c)
        /\ t + Whole(w) = 2 * sent[c] + 1 => sent[c] < Len(Script[c])
    BY <1>1, <2>1 DEF Stream, Left
  <2> QED BY <1>1, <2>2
<1>3. Taken(c)' = t
  BY DEF Taken, Fresh
<1>4. Whole(wire'[c]) = Whole(w) /\ Carries(wire'[c], t, c)
  <2>1. CASE wire'[c] = w
    BY <1>2, <2>1
  <2>2. CASE wire'[c] = Append(w, Cut)
    <3>1. Whole(Append(w, Cut)) = Len(w) /\ \A i \in 1 .. Len(w) : Append(w, Cut)[i] = w[i]
      BY <1>1, PartsAre, WholeAppend
    <3> QED BY <1>2, <2>2, <3>1 DEF Carries
  <2> QED BY <1>1, <2>1, <2>2
<1> QED BY <1>1, <1>2, <1>3, <1>4 DEF Stream, Left, Carries, Whole

\* What a task finds at the head of the stream.
LEMMA HeadNext ==
    ASSUME IInv, NEW c \in Conns, wire[c] # <<>>, Head(wire[c]) # Cut, pc[c] \in {"length", "body"}
    PROVE  LET n == Stored(c) + 1 IN
           /\ n \in 1 .. Len(Script[c]) /\ Script[c][n] \in Frames
           /\ pc[c] = "length" => n <= sent[c] + 1 /\ Head(wire[c]) = LengthOf(Script[c][n])
           /\ pc[c] = "body" => n <= sent[c] /\ Head(wire[c]) = BodyOf(Script[c][n])
<1> DEFINE w == wire[c]
           n == Stored(c) + 1
           t == Taken(c)
<1>1. /\ w \in Seq(Parts) /\ sent[c] \in Nat /\ sent[c] <= Len(Script[c]) /\ Len(Script[c]) \in Nat
      /\ Stored(c) \in Nat /\ t \in Nat /\ Stream(c)
  BY ConnFacts
<1>2. /\ Whole(w) < Len(w) => fin[c]
      /\ t + Whole(w) \in {2 * sent[c], 2 * sent[c] + 1} /\ Carries(w, t, c)
      /\ t + Whole(w) = 2 * sent[c] + 1 => sent[c] < Len(Script[c])
  BY <1>1 DEF Stream, Left
<1>3. /\ Whole(w) \in Nat /\ Whole(w) >= 1 /\ Head(w) = w[1]
      /\ Whole(Tail(w)) = Whole(w) - 1
      /\ \A i \in 1 .. Whole(Tail(w)) : Tail(w)[i] = w[i + 1]
      /\ Whole(Tail(w)) < Len(Tail(w)) => Whole(w) < Len(w)
  BY <1>1, WholeTail
<1>4. /\ pc[c] = "length" => t = 2 * n - 2
      /\ pc[c] = "body" => t = 2 * n - 1
  BY <1>1 DEF Taken, Fresh
<1> HIDE DEF w, t
<1>5. n \in 1 .. Len(Script[c]) /\ (pc[c] = "length" => n <= sent[c] + 1) /\ (pc[c] = "body" => n <= sent[c])
  <2>1. n \in Nat /\ n >= 1
    BY <1>1
  <2> HIDE DEF n
  <2> DEFINE s == sent[c]
             l == Len(Script[c])
             k == Whole(w)
  <2>2. /\ s \in Nat /\ l \in Nat /\ s <= l /\ k \in Nat /\ k >= 1 /\ t \in Nat
        /\ t + k = 2 * s \/ t + k = 2 * s + 1
        /\ t + k = 2 * s + 1 => s < l
    BY <1>1, <1>2, <1>3
  <2> HIDE DEF s, l, k
  <2>3. ASSUME t = 2 * n - 2 PROVE n \in 1 .. l /\ n <= s + 1
    BY <2>1, <2>2, <2>3
  <2>4. ASSUME t = 2 * n - 1 PROVE n \in 1 .. l /\ n <= s
    BY <2>1, <2>2, <2>4
  <2>5. n \in 1 .. l /\ (pc[c] = "length" => n <= s + 1) /\ (pc[c] = "body" => n <= s)
    BY <1>4, <2>3, <2>4
  <2> QED BY <2>5 DEF s, l
<1>6. 1 \in 1 .. Whole(w)
  BY <1>3
<1> HIDE DEF n
<1>7. /\ pc[c] = "length" => Head(w) = LengthOf(Script[c][n])
      /\ pc[c] = "body" => Head(w) = BodyOf(Script[c][n])
  <2>1. n \in Nat
    BY <1>1, <1>5
  <2>2. CASE pc[c] = "length"
    <3>1. t + 1 = 2 * n - 1
      BY <1>4, <2>1, <2>2
    <3> QED BY <1>2, <1>3, <1>5, <1>6, <2>2, <3>1 DEF Carries
  <2>3. CASE pc[c] = "body"
    <3>1. t + 1 = 2 * n
      BY <1>4, <2>1, <2>3
    <3> QED BY <1>2, <1>3, <1>5, <1>6, <2>3, <3>1 DEF Carries
  <2> QED BY <2>2, <2>3
<1>8. Script[c][n] \in Frames
  BY <1>5, ScriptFacts
<1> QED BY <1>5, <1>7, <1>8 DEF w, n

\* ... and what is left behind it.
LEMMA ReadsNext ==
    ASSUME IInv, NEW c \in Conns, wire[c] # <<>>, Head(wire[c]) # Cut, pc[c] \in {"length", "body"},
           wire'[c] = Tail(wire[c]), sent'[c] = sent[c], fin'[c] = fin[c]
    PROVE  LET n == Stored(c) + 1 IN
           /\ n \in 1 .. Len(Script[c]) /\ Script[c][n] \in Frames
           /\ pc[c] = "length" => n <= sent[c] + 1 /\ Head(wire[c]) = LengthOf(Script[c][n])
           /\ pc[c] = "body" => n <= sent[c] /\ Head(wire[c]) = BodyOf(Script[c][n])
           /\ Taken(c)' = Taken(c) + 1 => Stream(c)'
<1> DEFINE w == wire[c]
           t == Taken(c)
<1>1. /\ w \in Seq(Parts) /\ sent[c] \in Nat /\ sent[c] <= Len(Script[c]) /\ Len(Script[c]) \in Nat
      /\ Stored(c) \in Nat /\ t \in Nat /\ Stream(c)
  BY ConnFacts
<1>2. /\ Whole(w) < Len(w) => fin[c]
      /\ t + Whole(w) \in {2 * sent[c], 2 * sent[c] + 1} /\ Carries(w, t, c)
      /\ t + Whole(w) = 2 * sent[c] + 1 => sent[c] < Len(Script[c])
  BY <1>1 DEF Stream, Left
<1>3. /\ Whole(w) \in Nat /\ Whole(w) >= 1 /\ Head(w) = w[1]
      /\ Whole(Tail(w)) = Whole(w) - 1
      /\ \A i \in 1 .. Whole(Tail(w)) : Tail(w)[i] = w[i + 1]
      /\ Whole(Tail(w)) < Len(Tail(w)) => Whole(w) < Len(w)
  BY <1>1, WholeTail
<1> HIDE DEF w, t
<1>4. ASSUME Taken(c)' = t + 1 PROVE Stream(c)'
  <2>1. Carries(Tail(w), t + 1, c)
    <3>1. ASSUME NEW i \in 1 .. Whole(Tail(w)), NEW m \in 1 .. Len(Script[c])
          PROVE  /\ (t + 1) + i = 2 * m - 1 => Tail(w)[i] = LengthOf(Script[c][m])
                 /\ (t + 1) + i = 2 * m     => Tail(w)[i] = BodyOf(Script[c][m])
      <4>1. i \in 1 .. Whole(w) - 1 /\ Tail(w)[i] = w[i + 1]
        BY <1>3
      <4>2. i + 1 \in 1 .. Whole(w) /\ (t + 1) + i = t + (i + 1)
        BY <1>1, <1>3, <4>1
      <4> QED BY <1>2, <4>1, <4>2 DEF Carries
    <3> QED BY <3>1 DEF Carries
  <2>2. (t + 1) + Whole(Tail(w)) = t + Whole(w)
    BY <1>1, <1>3
  <2>3. wire'[c] = Tail(w)
    BY DEF w
  <2>4. Left(c)' = Whole(Tail(w))
    BY <2>3 DEF Left, Whole
  <2>5. Carries(wire[c], Taken(c), c)'
    BY ZenonT(60), <1>4, <2>1, <2>3 DEF Carries, Whole
  <2>6. /\ (Left(c) < Len(wire[c]))' => fin'[c]
        /\ Taken(c)' + Left(c)' \in {2 * sent'[c], 2 * sent'[c] + 1}
        /\ Taken(c)' + Left(c)' = 2 * sent'[c] + 1 => sent'[c] < Len(Script[c])
    <3>1. (Left(c) < Len(wire[c]))' => fin'[c]
      BY <1>2, <1>3, <2>3, <2>4
    <3>2. Taken(c)' + Left(c)' = t + Whole(w)
      BY <1>4, <2>2, <2>4
    <3> QED BY <1>2, <3>1, <3>2
  <2> QED BY <2>5, <2>6 DEF Stream
<1> QED BY <1>4, HeadNext DEF t

-----------------------------------------------------------------------------
\* Steps of agents and tasks that touch neither the store nor the feed.
Outside == {"none", "length", "body", "frame", "ok", "error"}

LEMMA SameFlight ==
    ASSUME NEW W, \A c \in Conns : (pc'[c] \in W <=> pc[c] \in W) /\ (pc[c] \in W => cur'[c] = cur[c])
    PROVE  InFlight(W)' = InFlight(W)
  BY DEF InFlight

\* The mirror and the history agree as before, when no frame is on its way there
\* that was not, and none that was is gone.
LEMMA MirrorsStill ==
    ASSUME IInv, UNCHANGED <<mirrored, commits>>,
           \A c \in Conns : pc'[c] \in {"decoded", "store"} => pc[c] \in {"decoded", "store"} /\ cur'[c] = cur[c],
           InFlight({"decoded", "store"}) \subseteq InFlight({"decoded", "store"})',
           InFlight({"error"}) \subseteq InFlight({"error"})'
    PROVE  Mirrors'
<1>1. Mirrors /\ Elements(commits)' = Elements(commits)
  BY DEF IInv, Tied, Elements
<1>2. \A f : (ToMirror(f)' <=> ToMirror(f)) /\ (Serializes(f)' <=> Serializes(f))
  BY DEF ToMirror, Serializes
<1>3. MirrorCovers'
  BY <1>1, <1>2 DEF Mirrors, MirrorCovers
<1>4. ASSUME NEW c \in Conns, pc'[c] \in {"decoded", "store"}, ToMirror(cur[c])' PROVE cur'[c] \in mirrored'
  BY <1>1, <1>4 DEF Mirrors, ToMirror
<1> QED BY <1>3, <1>4 DEF Mirrors

\* What is covered stays so, when nothing is committed and no frame is lost
\* between the store and the feed.
LEMMA CoveredStill ==
    ASSUME IInv, UNCHANGED <<commits, log, task, since, joined>>,
           InFlight({"store", "live"}) \subseteq InFlight({"store", "live"})'
    PROVE  Covered'
<1>1. Covered
  BY DEF IInv, Tied
<1>2. Live!Subscribers' = Live!Subscribers
  BY DEF Live!Subscribers
<1>3. \A k, f : OnFeed(k, f) => OnFeed(k, f)'
  BY DEF OnFeed
<1> QED BY <1>1, <1>2, <1>3 DEF Covered

LEMMA PartsRest == ASSUME OnlyConn
                   PROVE  [Store!Next]_Store!vars /\ [Live!Next]_Live!vars
<1>1. UNCHANGED <<storeVars, liveVars>>
  BY DEF OnlyConn
<1> QED BY <1>1 DEF storeVars, liveVars, Store!vars, Store!lockVars, Store!storeVars, Live!vars

\* What ties tasks, store and feed together outlives such a step.
LEMMA OutsideKeeps ==
    ASSUME IInv, OnlyConn, mirrored' = mirrored,
           \A d \in Conns : \/ pc'[d] = pc[d] /\ cur'[d] = cur[d]
                            \/ pc[d] \in Outside /\ pc[d] # "error" /\ pc'[d] \in Outside
    PROVE  Tied'
<1>1. /\ UNCHANGED <<commits, st, log, task, since, at, opened, joined, heard, asOf>>
      /\ Tied
  BY DEF OnlyConn, storeVars, liveVars, clientVars, IInv
<1>2. \A d \in Conns : /\ pc'[d] \in {"decoded", "store", "live"} <=> pc[d] \in {"decoded", "store", "live"}
                       /\ pc[d] \in {"decoded", "store", "live"} => pc'[d] = pc[d] /\ cur'[d] = cur[d]
  BY DEF Outside
<1>3. InFlight({"decoded", "store"})' = InFlight({"decoded", "store"})
  <2>1. \A d \in Conns : /\ pc'[d] \in {"decoded", "store"} <=> pc[d] \in {"decoded", "store"}
                         /\ pc[d] \in {"decoded", "store"} => cur'[d] = cur[d]
    BY <1>2
  <2> QED BY <2>1, SameFlight
<1>4. InFlight({"store", "live"})' = InFlight({"store", "live"})
  <2>1. \A d \in Conns : /\ pc'[d] \in {"store", "live"} <=> pc[d] \in {"store", "live"}
                         /\ pc[d] \in {"store", "live"} => cur'[d] = cur[d]
    BY <1>2
  <2> QED BY <2>1, SameFlight
<1>5. Sourced' /\ \A d \in Conns : InTurn(commits, d)' /\ InTurn(log, d)'
  BY <1>1 DEF Tied, Sourced, InTurn, Elements
<1>6. LiveKnown'
  <2>1. \A d \in Conns : Kept(d)' => Kept(d) /\ cur'[d] = cur[d]
    BY <1>1, <1>2 DEF Kept
  <2> QED BY <1>1, <2>1 DEF Tied, LiveKnown
<1>7. Asked'
  BY <1>1 DEF Tied, Asked, Unanswered, MaxFrames
<1>8. Mirrors'
  <2>1. \A d \in Conns : pc'[d] \in {"decoded", "store"} => pc[d] \in {"decoded", "store"} /\ cur'[d] = cur[d]
    BY <1>2
  <2>2. InFlight({"error"}) \subseteq InFlight({"error"})'
    BY DEF InFlight, Outside
  <2> QED BY <1>1, <1>3, <2>1, <2>2, MirrorsStill
<1>9. Covered'
  BY <1>1, <1>4, CoveredStill
<1> QED BY <1>5, <1>6, <1>7, <1>8, <1>9 DEF Tied

LEMMA AgentInv ==
    ASSUME IInv, NEW c \in Conns, AgentStep(c)
    PROVE  TypeOK' /\ Connections' /\ Tied' /\ [Store!Next]_Store!vars /\ [Live!Next]_Live!vars
<1>1. /\ OnlyConn /\ UNCHANGED <<listener, pc, cur, mirrored>>
      /\ WriteLength(c) \/ WriteBody(c) \/ Close(c) \/ Break(c)
  BY DEF AgentStep
<1>2. UNCHANGED <<commits, st, job, opened, joined, heard, asOf>>
  BY <1>1 DEF OnlyConn, storeVars, clientVars
<1>3. /\ wire[c] \in Seq(Parts) /\ sent[c] \in Nat /\ Len(Script[c]) \in Nat /\ sent[c] <= Len(Script[c])
      /\ DOMAIN wire = Conns /\ DOMAIN sent = Conns /\ DOMAIN fin = Conns
      /\ Stream(c) /\ Position(c) /\ AtLock(c)
  BY ConnFacts
<1>4. \A d \in Conns : StoredAt(d)' = StoredAt(d) /\ Stored(d)' = Stored(d)
  BY <1>2, SameStored
<1>5. /\ \E e \in Parts \cup {Cut} : wire' = [wire EXCEPT ![c] = Append(@, e)] \/ wire' = wire
      /\ sent' = sent \/ (sent' = [sent EXCEPT ![c] = @ + 1] /\ sent[c] < Len(Script[c]))
      /\ fin' = fin \/ fin' = [fin EXCEPT ![c] = TRUE]
      /\ reset' = reset \/ reset' = [reset EXCEPT ![c] = TRUE]
      /\ ~Ended(c) /\ Stream(c)'
  <2>1. CASE WriteLength(c)
    <3>1. sent' = sent /\ fin' = fin /\ reset' = reset /\ ~Ended(c) /\ sent[c] < Len(Script[c])
          /\ wire' = [wire EXCEPT ![c] = Append(@, LengthOf(Script[c][sent[c] + 1]))]
      BY <2>1 DEF WriteLength, Writable, Connected
    <3>2. sent[c] + 1 \in 1 .. Len(Script[c])
      BY <1>3, <3>1
    <3>3. LengthOf(Script[c][sent[c] + 1]) \in Parts
      BY <3>2, ScriptFacts, PartsAre
    <3>4. Stream(c)'
      BY <1>1, <1>2, <1>4, <2>1, WriteLengthStream
    <3> QED BY <3>1, <3>3, <3>4
  <2>2. CASE WriteBody(c)
    <3>1. fin' = fin /\ reset' = reset /\ ~Ended(c) /\ sent' = [sent EXCEPT ![c] = @ + 1]
          /\ wire' = [wire EXCEPT ![c] = Append(@, BodyOf(Script[c][sent[c] + 1]))]
      BY <2>2 DEF WriteBody, Writable, Connected
    <3>2. Stream(c)' /\ sent[c] < Len(Script[c])
      BY <1>1, <1>2, <1>4, <2>2, WriteBodyStream
    <3>3. sent[c] + 1 \in 1 .. Len(Script[c])
      BY <1>3, <3>2
    <3>4. BodyOf(Script[c][sent[c] + 1]) \in Parts
      BY <3>3, ScriptFacts, PartsAre
    <3> QED BY <3>1, <3>2, <3>4
  <2>3. CASE Close(c)
    <3>1. sent' = sent /\ fin' = [fin EXCEPT ![c] = TRUE] /\ reset' = reset /\ ~Ended(c)
          /\ (wire' = wire \/ wire' = [wire EXCEPT ![c] = Append(@, Cut)])
      BY <2>3 DEF Close, Connected
    <3>2. Stream(c)'
      BY <1>1, <1>2, <1>4, <2>3, CloseStream
    <3> QED BY <3>1, <3>2
  <2>4. CASE Break(c)
    <3>1. UNCHANGED <<wire, fin, sent>> /\ reset' = [reset EXCEPT ![c] = TRUE] /\ ~Ended(c)
      BY <2>4 DEF Break
    <3>2. Taken(c)' = Taken(c)
      BY <1>1, <1>2, <1>4 DEF Taken, Fresh
    <3>3. Stream(c)'
      BY <1>1, <1>3, <3>1, <3>2 DEF Stream, Left, Carries, Whole
    <3> QED BY <3>1, <3>3
  <2> QED BY <1>1, <2>1, <2>2, <2>3, <2>4
<1>6. wire'[c] \in Seq(Parts) /\ DOMAIN wire' = Conns /\ \A d \in Conns \ {c} : wire'[d] = wire[d]
  <2>1. PICK e \in Parts \cup {Cut} : wire' = [wire EXCEPT ![c] = Append(@, e)] \/ wire' = wire
    BY <1>5
  <2>2. Append(wire[c], e) \in Seq(Parts)
    BY <1>3, PartsAre, AppendProperties
  <2> QED BY <1>3, <2>1, <2>2
<1>7. /\ sent' \in [Conns -> Nat] /\ \A d \in Conns : sent'[d] <= Len(Script[d]) /\ sent'[d] >= sent[d]
      /\ \A d \in Conns \ {c} : sent'[d] = sent[d]
      /\ fin' \in [Conns -> BOOLEAN] /\ reset' \in [Conns -> BOOLEAN]
      /\ \A d \in Conns \ {c} : fin'[d] = fin[d] /\ reset'[d] = reset[d]
  <2>1. /\ sent \in [Conns -> Nat] /\ fin \in [Conns -> BOOLEAN] /\ reset \in [Conns -> BOOLEAN]
        /\ \A d \in Conns : sent[d] <= Len(Script[d])
    BY DEF IInv, TypeOK
  <2>2. /\ fin' \in [Conns -> BOOLEAN] /\ reset' \in [Conns -> BOOLEAN]
        /\ \A d \in Conns \ {c} : fin'[d] = fin[d] /\ reset'[d] = reset[d]
    BY <1>5, <2>1
  <2>3. CASE sent' = sent
    BY <2>1, <2>2, <2>3
  <2>4. CASE sent' = [sent EXCEPT ![c] = @ + 1] /\ sent[c] < Len(Script[c])
    <3>1. sent' \in [Conns -> Nat] /\ \A d \in Conns \ {c} : sent'[d] = sent[d]
      BY <2>1, <2>4
    <3>2. sent'[c] = sent[c] + 1 /\ sent'[c] <= Len(Script[c]) /\ sent'[c] >= sent[c]
      BY <1>3, <2>1, <2>4
    <3>3. \A d \in Conns : sent'[d] <= Len(Script[d]) /\ sent'[d] >= sent[d]
      BY <2>1, <3>1, <3>2
    <3> QED BY <2>2, <3>1, <3>3
  <2> QED BY <1>5, <2>3, <2>4
<1>8. TypeOK'
  <2>1. wire' \in [Conns -> Seq(Parts)]
    <3>1. wire \in [Conns -> Seq(Parts)] /\ wire' = [d \in Conns |-> wire'[d]]
      <4>1. wire \in [Conns -> Seq(Parts)]
        BY DEF IInv, TypeOK
      <4>2. wire' = [d \in Conns |-> wire'[d]]
        BY <1>5, <4>1
      <4> QED BY <4>1, <4>2
    <3>2. \A d \in Conns : wire'[d] \in Seq(Parts)
      BY <1>6, <3>1
    <3> QED BY <3>1, <3>2
  <2> QED BY <1>1, <1>2, <1>7, <2>1 DEF IInv, TypeOK
<1>9. Connections'
  <2>1. ASSUME NEW d \in Conns, d # c PROVE Stream(d)' /\ Position(d)' /\ AtLock(d)'
    BY <1>1, <1>2, <1>4, <1>6, <1>7, <2>1, ConnKeeps
  <2>2. Position(c)'
    <3>1. /\ Stored(c)' = Stored(c) /\ StoredAt(c)' = StoredAt(c) /\ (Fresh(c)' <=> Fresh(c)) /\ (Kept(c)' <=> Kept(c))
          /\ pc'[c] = pc[c] /\ pc'[c] \notin {"ok", "error"} /\ cur'[c] = cur[c] /\ sent'[c] >= sent[c] /\ sent'[c] \in Nat
      BY <1>1, <1>2, <1>4, <1>5, <1>7 DEF Fresh, Kept, Ended
    <3> QED BY <1>3, <3>1 DEF Position
  <2>3. AtLock(c)'
    BY <1>1, <1>2, <1>3 DEF AtLock
  <2> QED BY <1>5, <2>1, <2>2, <2>3 DEF Connections
<1>10. Tied'
  BY <1>1, OutsideKeeps
<1> QED BY <1>1, <1>8, <1>9, <1>10, PartsRest

-----------------------------------------------------------------------------
\* Steps of a task that has no frame yet.
LEMMA OwnStep ==
    ASSUME IInv, NEW c \in Conns, UNCHANGED <<sent, fin, reset, commits, st, job>>,
           \A d \in Conns \ {c} : wire'[d] = wire[d] /\ pc'[d] = pc[d] /\ cur'[d] = cur[d],
           Stream(c)', Position(c)', AtLock(c)'
    PROVE  Connections'
<1>1. ASSUME NEW d \in Conns, d # c PROVE Stream(d)' /\ Position(d)' /\ AtLock(d)'
  BY <1>1, SameStored, ConnKeeps
<1> QED BY <1>1 DEF Connections

LEMMA AcceptInv ==
    ASSUME IInv, NEW c \in Conns, Accept(c)
    PROVE  TypeOK' /\ Connections' /\ Tied' /\ [Store!Next]_Store!vars /\ [Live!Next]_Live!vars
<1>1. /\ OnlyConn /\ UNCHANGED <<listener, wire, fin, reset, sent, cur, mirrored>>
      /\ pc[c] = "none" /\ pc' = [pc EXCEPT ![c] = "length"]
  BY DEF Accept, uplinkVars
<1>2. UNCHANGED <<commits, st, job, opened, joined, heard, asOf>>
  BY <1>1 DEF OnlyConn, storeVars, clientVars
<1>3. Stream(c) /\ Position(c) /\ AtLock(c) /\ DOMAIN pc = Conns
  BY ConnFacts
<1>4. pc'[c] = "length" /\ \A d \in Conns \ {c} : pc'[d] = pc[d]
  BY <1>1, <1>3
<1>5. TypeOK'
  BY <1>1, <1>2 DEF IInv, TypeOK
<1>6. Stored(c)' = Stored(c) /\ StoredAt(c)' = StoredAt(c)
  BY <1>2, SameStored
<1>7. ~Fresh(c) /\ ~Fresh(c)' /\ ~Kept(c) /\ ~Kept(c)' /\ Left(c)' = Left(c)
  BY <1>1, <1>4 DEF Fresh, Kept, Left, Whole
<1>8. Taken(c)' = Taken(c)
  BY <1>1, <1>4, <1>6, <1>7 DEF Taken
<1>9. Stream(c)'
  BY <1>1, <1>3, <1>4, <1>7, <1>8 DEF Stream, Carries, Whole
<1>10. Position(c)'
  BY <1>1, <1>3, <1>4, <1>6, <1>7 DEF Position
<1>11. AtLock(c)'
  BY <1>1, <1>2, <1>3, <1>4 DEF AtLock
<1>12. Connections'
  BY <1>1, <1>2, <1>4, <1>9, <1>10, <1>11, OwnStep
<1>13. Tied'
  BY <1>1, <1>4, OutsideKeeps DEF Outside
<1> QED BY <1>1, <1>5, <1>12, <1>13, PartsRest

LEMMA AcceptFailsInv ==
    ASSUME IInv, AcceptFails
    PROVE  TypeOK' /\ Connections' /\ Tied' /\ [Store!Next]_Store!vars /\ [Live!Next]_Live!vars
<1>1. OnlyConn /\ UNCHANGED <<wire, fin, reset, sent, pc, cur, mirrored>> /\ listener' = "down"
  BY DEF AcceptFails, uplinkVars
<1>2. UNCHANGED <<commits, st, job, opened, joined, heard, asOf>>
  BY <1>1 DEF OnlyConn, storeVars, clientVars
<1>3. TypeOK'
  BY <1>1, <1>2 DEF IInv, TypeOK
<1>4. Connections'
  BY <1>1, <1>2, SameStored, ConnKeeps DEF Connections
<1> QED BY <1>1, <1>3, <1>4, OutsideKeeps, PartsRest

\* At the end of its stream a task has had every frame that was written.
LEMMA AtEnd ==
    ASSUME IInv, NEW c \in Conns, Eof(c), pc[c] \in {"length", "body"}
    PROVE  Stored(c) = sent[c] /\ fin[c]
<1>1. /\ wire[c] \in Seq(Parts) /\ sent[c] \in Nat /\ Stored(c) \in Nat /\ Stream(c) /\ Position(c)
  BY ConnFacts
<1>2. Left(c) = 0 /\ fin[c]
  BY <1>1, WholeIs DEF Eof, Left
<1>3. Taken(c) + Left(c) \in {2 * sent[c], 2 * sent[c] + 1}
  BY <1>1 DEF Stream
<1>4. Taken(c) \in {2 * Stored(c), 2 * Stored(c) + 1}
  BY <1>1 DEF Taken, Fresh
<1> QED BY <1>1, <1>2, <1>3, <1>4

\* A read that fails as the connection has broken.
LEMMA ReadFailsInv ==
    ASSUME IInv, NEW c \in Conns, pc[c] \in {"length", "body"}, ReadFails(c), OnlyConn,
           UNCHANGED <<listener, cur, mirrored>>
    PROVE  TypeOK' /\ Connections' /\ Tied' /\ [Store!Next]_Store!vars /\ [Live!Next]_Live!vars
<1>1. UNCHANGED <<wire, fin, reset, sent>> /\ reset[c] /\ pc' = [pc EXCEPT ![c] = "error"]
  BY DEF ReadFails, uplinkVars, Goto
<1>2. UNCHANGED <<commits, st, job, opened, joined, heard, asOf>>
  BY DEF OnlyConn, storeVars, clientVars
<1>3. DOMAIN pc = Conns /\ Position(c) /\ AtLock(c)
  BY ConnFacts
<1>4. pc'[c] = "error" /\ \A d \in Conns \ {c} : pc'[d] = pc[d]
  BY <1>1, <1>3
<1>5. TypeOK'
  BY <1>1, <1>2 DEF IInv, TypeOK
<1>6. Stored(c)' = Stored(c) /\ StoredAt(c)' = StoredAt(c)
  BY <1>2, SameStored
<1>7. cur'[c] = NoFrame /\ ~Fresh(c)' /\ ~Kept(c)'
  BY <1>3, <1>4 DEF Position, Fresh, Kept
<1>8. Explained(c)'
  BY <1>1, <1>7 DEF Explained, NoFrame
<1>9. Stream(c)' /\ Position(c)' /\ AtLock(c)'
  <2>1. Stream(c)'
    BY <1>4 DEF Stream
  <2>2. Position(c)'
    BY <1>1, <1>3, <1>4, <1>6, <1>7, <1>8 DEF Position
  <2>3. AtLock(c)'
    BY <1>2, <1>3, <1>4 DEF AtLock
  <2> QED BY <2>1, <2>2, <2>3
<1>10. Connections'
  BY <1>1, <1>2, <1>4, <1>9, OwnStep
<1>11. Tied'
  BY <1>4, OutsideKeeps DEF Outside
<1> QED BY <1>5, <1>10, <1>11, PartsRest

LEMMA ReadLengthInv ==
    ASSUME IInv, NEW c \in Conns, ReadLength(c)
    PROVE  TypeOK' /\ Connections' /\ Tied' /\ [Store!Next]_Store!vars /\ [Live!Next]_Live!vars
<1>1. OnlyConn /\ UNCHANGED <<listener, cur, mirrored, sent, fin, reset>> /\ pc[c] = "length"
  BY DEF ReadLength, ReadFails, uplinkVars, Drop
<1>2. UNCHANGED <<commits, st, job, opened, joined, heard, asOf>>
  BY <1>1 DEF OnlyConn, storeVars, clientVars
<1>3. /\ wire[c] \in Seq(Parts) /\ sent[c] \in Nat /\ Stored(c) \in Nat /\ Taken(c) \in Nat
      /\ DOMAIN pc = Conns /\ DOMAIN wire = Conns
      /\ Stream(c) /\ Position(c) /\ AtLock(c)
  BY ConnFacts
<1>4. Stored(c)' = Stored(c) /\ StoredAt(c)' = StoredAt(c)
  BY <1>2, SameStored
<1>5. CASE Eof(c) /\ Goto(c, "ok") /\ UNCHANGED uplinkVars
  <2>1. pc' = [pc EXCEPT ![c] = "ok"] /\ wire' = wire
    BY <1>5 DEF Goto, uplinkVars
  <2>2. pc'[c] = "ok" /\ \A d \in Conns \ {c} : pc'[d] = pc[d]
    BY <1>3, <2>1
  <2>3. TypeOK'
    BY <1>1, <1>2, <2>1 DEF IInv, TypeOK
  <2>4. Stored(c) = sent[c]
    BY <1>1, <1>5, AtEnd
  <2>5. ~Fresh(c)' /\ ~Kept(c)'
    BY <2>2 DEF Fresh, Kept
  <2>6. Stream(c)'
    BY <2>2 DEF Stream
  <2>7. Position(c)'
    BY <1>1, <1>3, <1>4, <2>2, <2>4, <2>5 DEF Position
  <2>8. AtLock(c)'
    BY <1>1, <1>2, <1>3, <2>2 DEF AtLock
  <2>9. Connections'
    BY <1>1, <1>2, <2>1, <2>2, <2>6, <2>7, <2>8, OwnStep
  <2>10. Tied'
    BY <1>1, <2>2, OutsideKeeps DEF Outside
  <2> QED BY <1>1, <2>3, <2>9, <2>10, PartsRest
<1>6. CASE /\ wire[c] # <<>> /\ Head(wire[c]).part = "length"
           /\ Drop(c)
           /\ Goto(c, IF Head(wire[c]).size = "fits" THEN "body" ELSE "error")
  <2> DEFINE n == Stored(c) + 1
             where == IF Head(wire[c]).size = "fits" THEN "body" ELSE "error"
  <2>1. pc' = [pc EXCEPT ![c] = where] /\ wire' = [wire EXCEPT ![c] = Tail(@)]
    BY <1>6 DEF Goto, Drop
  <2>2. where \in {"body", "error"}
    OBVIOUS
  <2>3. Head(wire[c]) # Cut
    BY <1>6 DEF Cut
  <2> HIDE DEF where
  <2>4. /\ pc'[c] = where /\ \A d \in Conns \ {c} : pc'[d] = pc[d] /\ wire'[d] = wire[d]
        /\ wire'[c] = Tail(wire[c])
    BY <1>3, <2>1
  <2>5. /\ n \in 1 .. Len(Script[c]) /\ Script[c][n] \in Frames /\ n <= sent[c] + 1
        /\ Head(wire[c]) = LengthOf(Script[c][n])
        /\ Taken(c)' = Taken(c) + 1 => Stream(c)'
    BY <1>1, <1>6, <2>3, <2>4, ReadsNext
  <2>6. TypeOK'
    <3>1. Tail(wire[c]) \in Seq(Parts)
      BY <1>3, <1>6, <2>3, WholeTail
    <3>2. wire' \in [Conns -> Seq(Parts)]
      BY <2>1, <3>1 DEF IInv, TypeOK
    <3> QED BY <1>1, <1>2, <2>1, <2>2, <3>2 DEF IInv, TypeOK
  <2>7. ~Fresh(c) /\ ~Fresh(c)' /\ ~Kept(c)'
    BY <1>1, <2>2, <2>4 DEF Fresh, Kept
  <2>8. Stream(c)'
    <3>1. CASE where = "error"
      BY <2>4, <3>1 DEF Stream
    <3>2. CASE where = "body"
      <4>1. Taken(c)' = Taken(c) + 1
        BY <1>1, <1>3, <1>4, <2>4, <2>7, <3>2 DEF Taken
      <4> QED BY <2>5, <4>1
    <3> QED BY <2>2, <3>1, <3>2
  <2>9. where = "error" => Script[c][n].size # "fits"
    BY <2>5, PartsAre DEF where
  <2>10. where = "error" => Explained(c)'
    BY <1>4, <2>5, <2>9 DEF Explained
  <2>11. Position(c)'
    BY <1>1, <1>3, <1>4, <2>2, <2>4, <2>7, <2>10 DEF Position
  <2>12. AtLock(c)'
    BY <1>1, <1>2, <1>3, <2>2, <2>4 DEF AtLock
  <2>13. Connections'
    BY <1>1, <1>2, <2>4, <2>8, <2>11, <2>12, OwnStep
  <2>14. Tied'
    BY <1>1, <2>2, <2>4, OutsideKeeps DEF Outside
  <2> QED BY <1>1, <2>6, <2>13, <2>14, PartsRest
<1>7. CASE ReadFails(c)
  BY <1>1, <1>7, ReadFailsInv
<1> QED BY <1>5, <1>6, <1>7 DEF ReadLength

LEMMA ReadBodyInv ==
    ASSUME IInv, NEW c \in Conns, ReadBody(c)
    PROVE  TypeOK' /\ Connections' /\ Tied' /\ [Store!Next]_Store!vars /\ [Live!Next]_Live!vars
<1>1. OnlyConn /\ UNCHANGED <<listener, mirrored, sent, fin, reset>> /\ pc[c] = "body"
  BY DEF ReadBody, ReadFails, uplinkVars, Drop
<1>2. UNCHANGED <<commits, st, job, opened, joined, heard, asOf>>
  BY <1>1 DEF OnlyConn, storeVars, clientVars
<1>3. /\ wire[c] \in Seq(Parts) /\ sent[c] \in Nat /\ Stored(c) \in Nat /\ Taken(c) \in Nat
      /\ DOMAIN pc = Conns /\ DOMAIN wire = Conns /\ DOMAIN cur = Conns
      /\ Stream(c) /\ Position(c) /\ AtLock(c)
  BY ConnFacts
<1>4. Stored(c)' = Stored(c) /\ StoredAt(c)' = StoredAt(c)
  BY <1>2, SameStored
<1>5. CASE Eof(c) /\ Goto(c, "error") /\ UNCHANGED <<uplinkVars, cur>>
  <2>1. pc' = [pc EXCEPT ![c] = "error"] /\ wire' = wire /\ cur' = cur
    BY <1>5 DEF Goto, uplinkVars
  <2>2. pc'[c] = "error" /\ \A d \in Conns \ {c} : pc'[d] = pc[d]
    BY <1>3, <2>1
  <2>3. TypeOK'
    BY <1>1, <1>2, <2>1 DEF IInv, TypeOK
  <2>4. Stored(c) = sent[c] /\ fin[c]
    BY <1>1, <1>5, AtEnd
  <2>5. ~Fresh(c)' /\ ~Kept(c)'
    BY <2>2 DEF Fresh, Kept
  <2>6. Stream(c)'
    BY <2>2 DEF Stream
  <2>7. Explained(c)'
    BY <1>1, <1>3, <1>4, <2>4 DEF Explained
  <2>8. Position(c)'
    BY <1>1, <1>3, <1>4, <2>2, <2>5, <2>7 DEF Position
  <2>9. AtLock(c)'
    BY <1>1, <1>2, <1>3, <2>2 DEF AtLock
  <2>10. Connections'
    BY <1>1, <1>2, <2>1, <2>2, <2>6, <2>8, <2>9, OwnStep
  <2>11. Tied'
    BY <1>1, <2>1, <2>2, OutsideKeeps DEF Outside
  <2> QED BY <1>1, <2>3, <2>10, <2>11, PartsRest
<1>6. CASE /\ wire[c] # <<>> /\ Head(wire[c]).part = "body"
           /\ Drop(c)
           /\ LET f == Head(wire[c]).frame IN
                 IF Decodes(f) THEN Goto(c, "frame") /\ cur' = [cur EXCEPT ![c] = f]
                               ELSE Goto(c, "error") /\ cur' = cur
  <2> DEFINE n == Stored(c) + 1
             f == Script[c][n]
             where == IF f.valid THEN "frame" ELSE "error"
  <2>1. wire' = [wire EXCEPT ![c] = Tail(@)] /\ Head(wire[c]) # Cut
    BY <1>6 DEF Drop, Cut
  <2>2. wire'[c] = Tail(wire[c]) /\ \A d \in Conns \ {c} : wire'[d] = wire[d]
    BY <1>3, <2>1
  <2>3. /\ n \in 1 .. Len(Script[c]) /\ f \in Frames /\ n <= sent[c]
        /\ Head(wire[c]) = BodyOf(f)
        /\ Taken(c)' = Taken(c) + 1 => Stream(c)'
    BY <1>1, <1>6, <2>1, <2>2, ReadsNext
  <2>4. Head(wire[c]).frame = f
    BY <2>3, PartsAre
  <2> HIDE DEF f
  <2>5. /\ pc' = [pc EXCEPT ![c] = where]
        /\ IF f.valid THEN cur' = [cur EXCEPT ![c] = f] ELSE cur' = cur
    BY <1>6, <2>4 DEF Goto, Decodes
  <2>6. where \in {"frame", "error"} /\ (where = "frame" <=> f.valid)
    OBVIOUS
  <2> HIDE DEF where
  <2>7. /\ pc'[c] = where /\ \A d \in Conns \ {c} : pc'[d] = pc[d] /\ cur'[d] = cur[d]
        /\ where = "frame" => cur'[c] = f
    BY <1>3, <2>5, <2>6
  <2>8. TypeOK'
    <3>1. Tail(wire[c]) \in Seq(Parts)
      BY <1>3, <1>6, <2>1, WholeTail
    <3>2. wire' \in [Conns -> Seq(Parts)]
      BY <2>1, <3>1 DEF IInv, TypeOK
    <3>3. cur' \in [Conns -> Frames \cup {NoFrame}]
      BY <2>3, <2>5 DEF IInv, TypeOK
    <3>4. pc' \in [Conns -> {"none", "length", "body", "frame", "decoded", "store", "live", "ok", "error"}]
      BY <2>5, <2>6 DEF IInv, TypeOK
    <3> QED BY <1>1, <1>2, <3>2, <3>3, <3>4 DEF IInv, TypeOK
  <2>9. (Fresh(c)' <=> where = "frame") /\ ~Kept(c)'
    BY <2>6, <2>7 DEF Fresh, Kept
  <2>10. Stream(c)'
    <3>1. CASE where = "error"
      BY <2>7, <3>1 DEF Stream
    <3>2. CASE where = "frame"
      <4>1. Taken(c)' = Taken(c) + 1
        BY <1>1, <1>3, <1>4, <2>7, <2>9, <3>2 DEF Taken
      <4> QED BY <2>3, <4>1
    <3> QED BY <2>6, <3>1, <3>2
  <2>11. where = "error" => Explained(c)'
    BY <1>1, <1>4, <2>3, <2>6 DEF Explained, f
  <2>12. Position(c)'
    <3>1. Fresh(c)' => Stored(c)' < sent'[c] /\ cur'[c] = Script[c][Stored(c)' + 1]
      <4>1. Stored(c) < sent[c]
        BY <1>3, <2>3
      <4> QED BY <1>1, <1>4, <2>7, <2>9, <4>1 DEF f
    <3> QED BY <1>1, <1>3, <1>4, <2>6, <2>7, <2>9, <2>11, <3>1 DEF Position
  <2>13. AtLock(c)'
    BY <1>1, <1>2, <1>3, <2>6, <2>7 DEF AtLock
  <2>14. Connections'
    BY <1>1, <1>2, <2>2, <2>7, <2>10, <2>12, <2>13, OwnStep
  <2>15. Tied'
    BY <1>1, <2>6, <2>7, OutsideKeeps DEF Outside
  <2> QED BY <1>1, <2>8, <2>14, <2>15, PartsRest
<1>7. CASE ReadFails(c) /\ cur' = cur
  BY <1>1, <1>7, ReadFailsInv
<1> QED BY <1>5, <1>6, <1>7 DEF ReadBody

-----------------------------------------------------------------------------
\* The frame a task holds before it is counted is not stored; after, it is.
LEMMA HeldFresh ==
    ASSUME IInv, NEW c \in Conns, Fresh(c)
    PROVE  /\ Stored(c) + 1 \in 1 .. Len(Script[c]) /\ cur[c] = Script[c][Stored(c) + 1]
           /\ cur[c] \in Frames /\ cur[c] \notin Elements(commits)
<1>1. /\ Stored(c) \in Nat /\ sent[c] \in Nat /\ Len(Script[c]) \in Nat /\ sent[c] <= Len(Script[c]) /\ Position(c)
  BY ConnFacts
<1>2. Stored(c) < sent[c] /\ cur[c] = Script[c][Stored(c) + 1] /\ StoredAt(c) = 1 .. Stored(c)
  BY <1>1 DEF Position
<1>3. Stored(c) + 1 \in 1 .. Len(Script[c]) /\ Stored(c) + 1 \notin 1 .. Stored(c)
  BY <1>1, <1>2
<1>4. cur[c] \in Frames
  BY <1>2, <1>3, ScriptFacts
<1>5. Script[c][Stored(c) + 1] \notin Elements(commits)
  BY <1>2, <1>3 DEF StoredAt
<1> QED BY <1>2, <1>3, <1>4, <1>5

LEMMA HeldKept ==
    ASSUME IInv, NEW c \in Conns, Kept(c)
    PROVE  /\ Stored(c) \in 1 .. Len(Script[c]) /\ cur[c] = Script[c][Stored(c)]
           /\ cur[c] \in Frames /\ cur[c] \in Elements(commits)
<1>1. /\ Stored(c) \in Nat /\ sent[c] \in Nat /\ Len(Script[c]) \in Nat /\ sent[c] <= Len(Script[c]) /\ Position(c)
  BY ConnFacts
<1>2. Stored(c) > 0 /\ cur[c] = Script[c][Stored(c)] /\ StoredAt(c) = 1 .. Stored(c) /\ Stored(c) <= sent[c]
  BY <1>1 DEF Position
<1>3. Stored(c) \in 1 .. Len(Script[c]) /\ Stored(c) \in 1 .. Stored(c)
  BY <1>1, <1>2
<1>4. cur[c] \in Frames
  BY <1>2, <1>3, ScriptFacts
<1>5. Script[c][Stored(c)] \in Elements(commits)
  BY <1>2, <1>3 DEF StoredAt
<1> QED BY <1>2, <1>3, <1>4, <1>5

\* Nothing is stored twice, and nothing goes live twice.
LEMMA NoneTwice ==
    ASSUME IInv
    PROVE  /\ \A x, y \in 1 .. Len(commits) : commits[x] = commits[y] => x = y
           /\ \A x, y \in 1 .. Len(log) : log[x] = log[y] => x = y
<1>1. /\ commits \in Seq(Frames) /\ Len(commits) \in Nat /\ DOMAIN commits = 1 .. Len(commits)
      /\ log \in Seq(Frames) /\ Len(log) \in Nat /\ DOMAIN log = 1 .. Len(log)
  BY StoreFacts, LiveFacts, LenProperties DEF IInv
<1>2. Tied
  BY DEF IInv
<1>3. ASSUME NEW s, DOMAIN s = 1 .. Len(s), Len(s) \in Nat, \A c \in Conns : InTurn(s, c),
             NEW x \in 1 .. Len(s), NEW y \in 1 .. Len(s), s[x] = s[y], x < y,
             NEW c \in Conns, s[x] \in Elements(Script[c])
      PROVE  FALSE
  <2>1. PICK i \in 1 .. Len(Script[c]) : s[x] = Script[c][i]
    <3>1. Elements(Script[c]) = {Script[c][i] : i \in 1 .. Len(Script[c])}
      BY ScriptFacts, ElementsAre
    <3> QED BY <1>3, <3>1
  <2>2. InTurn(s, c) /\ x \in DOMAIN s /\ y \in DOMAIN s
    BY <1>3
  <2>3. i < i
    BY <1>3, <2>1, <2>2 DEF InTurn
  <2> QED BY <2>1, <2>3, ScriptFacts
<1>4. \A x \in 1 .. Len(commits) : \E c \in Conns : commits[x] \in Elements(Script[c])
  BY <1>2 DEF Tied, Sourced
<1>5. \A x \in 1 .. Len(log) : \E c \in Conns : log[x] \in Elements(Script[c])
  <2> TAKE x \in 1 .. Len(log)
  <2>1. PICK y \in 1 .. Len(commits) : log[x] = commits[y]
    BY <1>2 DEF Tied, LiveKnown
  <2> QED BY <1>4, <2>1
<1>6. \A c \in Conns : InTurn(commits, c) /\ InTurn(log, c)
  BY <1>2 DEF Tied
<1>7. ASSUME NEW x \in 1 .. Len(commits), NEW y \in 1 .. Len(commits), commits[x] = commits[y] PROVE x = y
  <2>1. ASSUME x < y PROVE FALSE
    BY <1>1, <1>3, <1>4, <1>6, <1>7, <2>1
  <2>2. ASSUME y < x PROVE FALSE
    BY <1>1, <1>3, <1>4, <1>6, <1>7, <2>2
  <2> QED BY <1>1, <2>1, <2>2
<1>8. ASSUME NEW x \in 1 .. Len(log), NEW y \in 1 .. Len(log), log[x] = log[y] PROVE x = y
  <2>1. ASSUME x < y PROVE FALSE
    BY <1>1, <1>3, <1>5, <1>6, <1>8, <2>1
  <2>2. ASSUME y < x PROVE FALSE
    BY <1>1, <1>3, <1>5, <1>6, <1>8, <2>2
  <2> QED BY <1>1, <2>1, <2>2
<1> QED BY <1>7, <1>8

\* So there is a place for each of them.
LEMMA Placed ==
    ASSUME IInv
    PROVE  /\ MaxFrames \in Nat
           /\ Cardinality(Elements(commits)) = Len(commits) /\ IsFiniteSet(Elements(commits))
           /\ Elements(commits) \subseteq Frames /\ Len(commits) <= MaxFrames
           /\ Cardinality(Elements(log)) = Len(log) /\ IsFiniteSet(Elements(log))
           /\ Elements(log) \subseteq Frames /\ Len(log) <= MaxFrames
<1>1. IsFiniteSet(Frames) /\ MaxFrames \in Nat
  BY FrameAssumption, FS_CardinalityType DEF MaxFrames
<1>2. ASSUME NEW s \in Seq(Frames), \A x, y \in 1 .. Len(s) : s[x] = s[y] => x = y
      PROVE  /\ Cardinality(Elements(s)) = Len(s) /\ IsFiniteSet(Elements(s))
             /\ Elements(s) \subseteq Frames /\ Len(s) <= MaxFrames
  <2>1. IsFiniteSet(Elements(s)) /\ Cardinality(Elements(s)) = Len(s)
    BY <1>2, ElementsCounted
  <2>2. Elements(s) \subseteq Frames
    <3>1. Elements(s) = {s[i] : i \in 1 .. Len(s)} /\ \A i \in 1 .. Len(s) : s[i] \in Frames
      BY ElementsAre, ElementOfSeq
    <3> QED BY <3>1
  <2>3. Cardinality(Elements(s)) <= Cardinality(Frames)
    BY <1>1, <2>2, FS_Subset
  <2> QED BY <2>1, <2>2, <2>3 DEF MaxFrames
<1>3. commits \in Seq(Frames) /\ log \in Seq(Frames)
  BY StoreFacts, LiveFacts DEF IInv
<1> QED BY <1>1, <1>2, <1>3, NoneTwice

\* The frames of tasks that have still to count them are so many, and none of
\* them is stored.
LEMMA HeldApart ==
    ASSUME IInv, NEW W, W \subseteq Conns, \A w \in W : Fresh(w)
    PROVE  LET H == {cur[w] : w \in W} IN
           /\ H \subseteq Frames /\ H \cap Elements(commits) = {} /\ IsFiniteSet(H)
           /\ IsFiniteSet(W) /\ Cardinality(W) = Cardinality(H)
           /\ \A v, w \in W : cur[v] = cur[w] => v = w
<1> DEFINE H == {cur[w] : w \in W}
<1>1. \A w \in W : cur[w] \in Frames /\ cur[w] \notin Elements(commits)
  BY HeldFresh
<1>2. H \subseteq Frames /\ H \cap Elements(commits) = {}
  BY <1>1
<1>3. IsFiniteSet(H)
  BY <1>2, FrameAssumption, FS_Subset
<1>4. \A v, w \in W : cur[v] = cur[w] => v = w
  <2> TAKE v \in W, w \in W
  <2> HAVE cur[v] = cur[w]
  <2>1. Stored(v) + 1 \in 1 .. Len(Script[v]) /\ cur[v] = Script[v][Stored(v) + 1]
    BY HeldFresh
  <2>2. Stored(w) + 1 \in 1 .. Len(Script[w]) /\ cur[w] = Script[w][Stored(w) + 1]
    BY HeldFresh
  <2> DEFINE i == Stored(v) + 1
             j == Stored(w) + 1
  <2>3. i \in 1 .. Len(Script[v]) /\ j \in 1 .. Len(Script[w]) /\ Script[v][i] = Script[w][j]
    BY <2>1, <2>2
  <2> HIDE DEF i, j
  <2>4. v \in Conns /\ w \in Conns
    OBVIOUS
  <2> QED BY <2>3, <2>4, ScriptAssumption
<1> DEFINE g == [h \in H |-> CHOOSE w \in W : cur[w] = h]
<1>5. \A h \in H : g[h] \in W /\ cur[g[h]] = h
  OBVIOUS
<1>6. g \in Bijection(H, W)
  <2>1. g \in [H -> W]
    BY <1>5
  <2>2. \A h, i \in H : g[h] = g[i] => h = i
    BY <1>5
  <2>3. \A w \in W : \E h \in H : g[h] = w
    <3> TAKE w \in W
    <3>1. cur[w] \in H
      OBVIOUS
    <3>2. g[cur[w]] \in W /\ cur[g[cur[w]]] = cur[w]
      BY <1>5, <3>1
    <3> QED BY <1>4, <3>1, <3>2
  <2> HIDE DEF g, H
  <2>4. g \in Injection(H, W)
    BY <2>1, <2>2 DEF Injection, IsInjective
  <2>5. g \in Surjection(H, W)
    BY <2>1, <2>3 DEF Surjection
  <2> QED BY <2>4, <2>5 DEF Bijection
<1>7. ExistsBijection(H, W)
  BY <1>6 DEF ExistsBijection
<1> HIDE DEF H, g
<1>8. IsFiniteSet(W) /\ Cardinality(W) = Cardinality(H)
  BY <1>3, <1>7, FS_Bijection
<1> QED BY <1>2, <1>3, <1>4, <1>8 DEF H

\* The bound of PacketStore never holds a task back: while a task has a frame
\* to store, fewer frames are counted or on their way than there are.
LEMMA RoomLeft ==
    ASSUME IInv, NEW c \in Conns, pc[c] = "decoded"
    PROVE  Store!Room
<1> DEFINE W == {w \in Conns : st[w] \in {"wait", "first"}}
           H == {cur[w] : w \in W}
           E == Elements(commits)
<1>1. \A w \in Conns : AtLock(w) /\ Position(w)
  BY DEF IInv, Connections
<1>2. \A w \in W : pc[w] = "store" /\ Fresh(w)
  BY <1>1 DEF AtLock, Fresh
<1>3. c \notin W /\ Fresh(c)
  BY <1>2 DEF Fresh
<1>4. /\ H \subseteq Frames /\ H \cap E = {} /\ IsFiniteSet(H)
      /\ IsFiniteSet(W) /\ Cardinality(W) = Cardinality(H)
  BY <1>2, HeldApart
<1>5. cur[c] \in Frames /\ cur[c] \notin E
  BY <1>3, HeldFresh
<1>6. cur[c] \notin H
  <2>1. \A w \in W : cur[w] # cur[c]
    <3> DEFINE V == W \cup {c}
    <3>1. V \subseteq Conns /\ \A v \in V : Fresh(v)
      BY <1>2, <1>3
    <3> HIDE DEF V
    <3>2. \A v, w \in V : cur[v] = cur[w] => v = w
      BY <3>1, HeldApart
    <3> QED BY <1>3, <3>2 DEF V
  <2> QED BY <2>1
<1>7. Cardinality(E) = Len(commits) /\ IsFiniteSet(E) /\ E \subseteq Frames
  BY Placed
<1> HIDE DEF H, E, W
<1> DEFINE U == E \cup H
<1>8. Cardinality(U) = Cardinality(E) + Cardinality(H) /\ IsFiniteSet(U)
  <2>1. E \cap H = {} /\ Cardinality({}) = 0
    BY <1>4, FS_EmptySet
  <2>2. /\ IsFiniteSet(U) /\ Cardinality(U) = Cardinality(E) + Cardinality(H) - Cardinality(E \cap H)
    BY <1>4, <1>7, FS_Union
  <2>3. Cardinality(E \cap H) = 0
    BY <2>1
  <2> DEFINE e == Cardinality(E)
             h == Cardinality(H)
             u == Cardinality(U)
             z == Cardinality(E \cap H)
  <2>4. e \in Nat /\ h \in Nat
    BY <1>4, <1>7, FS_CardinalityType
  <2>5. u = e + h - z /\ z = 0
    BY <2>2, <2>3
  <2> HIDE DEF e, h, u, z, U
  <2>6. u = e + h
    BY <2>4, <2>5
  <2> QED BY <2>2, <2>6 DEF e, h, u
<1>9. cur[c] \notin U /\ U \cup {cur[c]} \subseteq Frames
  BY <1>4, <1>5, <1>6, <1>7
<1> HIDE DEF U
<1>10. Cardinality(U \cup {cur[c]}) = Cardinality(U) + 1
  BY <1>8, <1>9, FS_AddElement
<1>11. Cardinality(U \cup {cur[c]}) <= MaxFrames
  BY <1>9, FrameAssumption, FS_Subset DEF MaxFrames
<1>12. Len(commits) + Cardinality(W) < MaxFrames
  <2> DEFINE e == Cardinality(E)
             h == Cardinality(H)
             u == Cardinality(U)
             v == Cardinality(U \cup {cur[c]})
  <2>1. e \in Nat /\ h \in Nat /\ u = e + h /\ v = u + 1 /\ v <= MaxFrames /\ MaxFrames \in Nat
    BY <1>4, <1>7, <1>8, <1>10, <1>11, FS_CardinalityType, Placed
  <2> HIDE DEF e, h, u, v
  <2>2. e + h < MaxFrames
    BY <2>1
  <2> QED BY <1>4, <1>7, <2>2 DEF e, h
<1> QED BY <1>12 DEF Store!Room, W, Store!Cardinality, Cardinality

-----------------------------------------------------------------------------
\* Steps that commit nothing and publish nothing.
LEMMA TiedStill ==
    ASSUME IInv, UNCHANGED <<commits, log, task, since, at, joined, heard, asOf, cur>>,
           \A c \in Conns : Kept(c)' => Kept(c),
           InFlight({"store", "live"}) \subseteq InFlight({"store", "live"})', Mirrors'
    PROVE  Tied'
<1>1. Tied
  BY DEF IInv
<1>2. Sourced' /\ \A c \in Conns : InTurn(commits, c)' /\ InTurn(log, c)'
  BY <1>1 DEF Tied, Sourced, InTurn, Elements
<1>3. LiveKnown'
  BY <1>1 DEF Tied, LiveKnown
<1>4. Asked'
  BY <1>1 DEF Tied, Asked, Unanswered, MaxFrames
<1>5. Covered'
  BY CoveredStill
<1> QED BY <1>2, <1>3, <1>4, <1>5 DEF Tied

LEMMA MirrorInv ==
    ASSUME IInv, NEW c \in Conns, Mirror(c)
    PROVE  TypeOK' /\ Connections' /\ Tied' /\ [Store!Next]_Store!vars /\ [Live!Next]_Live!vars
<1>1. OnlyConn /\ UNCHANGED <<listener, wire, sent, fin, reset, cur>> /\ pc[c] = "frame"
  BY DEF Mirror, uplinkVars
<1>2. UNCHANGED <<commits, st, job, log, task, since, at, opened, joined, heard, asOf>>
  BY <1>1 DEF OnlyConn, storeVars, liveVars, clientVars
<1>3. /\ Stored(c) \in Nat /\ sent[c] \in Nat /\ Taken(c) \in Nat /\ DOMAIN pc = Conns
      /\ Stream(c) /\ Position(c) /\ AtLock(c)
  BY ConnFacts
<1>4. Fresh(c) /\ ~Kept(c)
  BY <1>1 DEF Fresh, Kept
<1>5. /\ Stored(c) + 1 \in 1 .. Len(Script[c]) /\ cur[c] = Script[c][Stored(c) + 1]
      /\ cur[c] \in Frames /\ cur[c] \notin Elements(commits)
  BY <1>4, HeldFresh
<1>6. Stored(c)' = Stored(c) /\ StoredAt(c)' = StoredAt(c)
  BY <1>2, SameStored
<1>7. PICK where \in {"decoded", "error"} :
        /\ pc' = [pc EXCEPT ![c] = where]
        /\ where = "error" => ToMirror(cur[c]) /\ mirrored' = mirrored
        /\ where = "decoded" /\ ToMirror(cur[c]) => mirrored' = mirrored \cup {cur[c]}
        /\ where = "decoded" /\ ~ToMirror(cur[c]) => mirrored' = mirrored
  BY DEF Mirror, Goto
<1>8. pc'[c] = where /\ \A d \in Conns \ {c} : pc'[d] = pc[d]
  BY <1>3, <1>7
<1>9. TypeOK'
  BY <1>1, <1>2, <1>5, <1>7 DEF IInv, TypeOK
<1>10. (Fresh(c)' <=> where = "decoded") /\ ~Kept(c)'
  BY <1>7, <1>8 DEF Fresh, Kept
<1>11. Stream(c)'
  <2>1. CASE where = "error"
    BY <1>8, <2>1 DEF Stream
  <2>2. CASE where = "decoded"
    <3>1. Taken(c)' = Taken(c)
      BY <1>1, <1>4, <1>6, <1>8, <1>10, <2>2 DEF Taken
    <3>2. Left(c)' = Left(c) /\ pc[c] \notin {"ok", "error"} /\ UNCHANGED <<wire, sent, fin>>
      BY <1>1 DEF Left, Whole
    <3>3. Carries(wire[c], Taken(c), c)' <=> Carries(wire[c], Taken(c), c)
      BY <3>1, <3>2 DEF Carries, Whole
    <3> QED BY <1>3, <3>1, <3>2, <3>3 DEF Stream
  <2> QED BY <1>7, <2>1, <2>2
<1>12. where = "error" => Explained(c)'
  <2>1. Stored(c) + 1 <= Len(Script[c]) /\ sent[c] >= Stored(c) + 1
    <3>1. Stored(c) < sent[c]
      BY <1>3, <1>4 DEF Position
    <3> QED BY <1>3, <1>5, <3>1, ScriptFacts
  <2>2. ToMirror(cur[c])' <=> ToMirror(cur[c])
    BY <1>1 DEF ToMirror
  <2>3. where = "error" => ToMirror(Script[c][Stored(c) + 1])' /\ cur'[c] = Script[c][Stored(c) + 1]
    BY <1>1, <1>5, <1>6, <1>7 DEF ToMirror
  <2> QED BY <1>1, <1>5, <1>6, <1>7, <2>1 DEF Explained, ToMirror, Serializes
<1>13. Position(c)'
  BY <1>1, <1>3, <1>4, <1>6, <1>7, <1>8, <1>10, <1>12 DEF Position
<1>14. AtLock(c)'
  BY <1>1, <1>2, <1>3, <1>7, <1>8 DEF AtLock
<1>15. Connections'
  BY <1>1, <1>2, <1>8, <1>11, <1>13, <1>14, OwnStep
<1>16. InFlight({"store", "live"})' = InFlight({"store", "live"})
  <2>1. \A d \in Conns : pc'[d] \in {"store", "live"} <=> pc[d] \in {"store", "live"}
    BY <1>1, <1>7, <1>8
  <2> QED BY <1>1, <2>1, SameFlight
<1>17. \A d \in Conns : Kept(d)' => Kept(d)
  BY <1>2, <1>8, <1>10 DEF Kept
<1>18. Mirrors'
  <2>1. Mirrors
    BY DEF IInv, Tied
  <2>2. mirrored \subseteq mirrored' /\ \A f \in mirrored' : f \in mirrored \/ (f = cur[c] /\ where = "decoded")
    BY <1>7
  <2>3. \A f \in Elements(commits)' : ToMirror(f)' => f \in mirrored'
    BY <1>2, <2>1, <2>2 DEF Mirrors, MirrorCovers, ToMirror, Elements
  <2>4. InFlight({"decoded", "store"}) \subseteq InFlight({"decoded", "store"})'
    BY <1>1, <1>8 DEF InFlight
  <2>5. where = "decoded" => cur[c] \in InFlight({"decoded", "store"})'
    BY <1>1, <1>8 DEF InFlight
  <2>6. \A f \in mirrored' : \/ f \in Elements(commits)' \cup InFlight({"decoded", "store"})'
                             \/ f \in InFlight({"error"})' /\ ~Serializes(f)'
    <3>1. InFlight({"error"}) \subseteq InFlight({"error"})'
      BY <1>1, <1>8 DEF InFlight
    <3>2. \A f : Serializes(f)' <=> Serializes(f)
      BY DEF Serializes
    <3> QED BY <1>2, <2>1, <2>2, <2>4, <2>5, <3>1, <3>2 DEF Mirrors, MirrorCovers, Elements
  <2>7. \A d \in Conns : pc'[d] \in {"decoded", "store"} /\ ToMirror(cur[d])' => cur'[d] \in mirrored'
    <3> TAKE d \in Conns
    <3>1. CASE d = c
      BY <1>1, <1>7, <1>8, <3>1 DEF ToMirror
    <3>2. CASE d # c
      BY <1>1, <1>8, <2>1, <2>2, <3>2 DEF Mirrors, ToMirror
    <3> QED BY <3>1, <3>2
  <2> QED BY <2>3, <2>6, <2>7 DEF Mirrors, MirrorCovers
<1>19. Tied'
  BY <1>1, <1>2, <1>16, <1>17, <1>18, TiedStill
<1> QED BY <1>1, <1>9, <1>15, <1>19, PartsRest

LEMMA FeedRests == ASSUME UNCHANGED liveVars
                   PROVE  [Live!Next]_Live!vars /\ UNCHANGED <<log, task, next, held, peer, since, at, got>>
  BY DEF liveVars, Live!vars

LEMMA StoreRests == ASSUME UNCHANGED storeVars
                    PROVE  [Store!Next]_Store!vars /\ UNCHANGED <<commits, st, job, queue>>
  BY DEF storeVars, Store!vars, Store!lockVars, Store!storeVars

\* What the task has decoded goes to the store, ...
LEMMA AskedInv ==
    ASSUME IInv, NEW c \in Conns, AskStore(c), Serializes(cur[c])
    PROVE  TypeOK' /\ Connections' /\ Tied' /\ [Store!Next]_Store!vars /\ [Live!Next]_Live!vars
<1>1. /\ pc[c] = "decoded" /\ pc' = [pc EXCEPT ![c] = "store"] /\ Store!WantWrite(c, cur[c])
      /\ UNCHANGED <<listener, wire, sent, fin, reset, mirrored, cur, opened, joined, heard, asOf, liveVars>>
  BY DEF AskStore, OnlyStore, Goto, uplinkVars, clientVars
<1>2. /\ UNCHANGED commits /\ st' = [st EXCEPT ![c] = "wait"]
      /\ job' = [job EXCEPT ![c] = [op |-> "store", packet |-> cur[c]]]
  BY <1>1 DEF Store!WantWrite, Store!Ask
<1>3. UNCHANGED <<log, task, since, at>> /\ [Live!Next]_Live!vars
  BY <1>1, FeedRests
<1>4. /\ Stored(c) \in Nat /\ Taken(c) \in Nat /\ DOMAIN pc = Conns
      /\ Stream(c) /\ Position(c) /\ AtLock(c)
  BY ConnFacts
<1>5. DOMAIN st = Conns \cup Clients /\ DOMAIN job = Conns \cup Clients
  BY StoreFacts DEF IInv
<1>6. /\ pc'[c] = "store" /\ \A d \in Conns \ {c} : pc'[d] = pc[d] /\ st'[d] = st[d] /\ job'[d] = job[d]
      /\ st'[c] = "wait" /\ job'[c].packet = cur[c]
  BY <1>1, <1>2, <1>4, <1>5
<1>7. \A d \in Conns : Stored(d)' = Stored(d) /\ StoredAt(d)' = StoredAt(d)
  BY <1>2, SameStored
<1>8. TypeOK'
  BY <1>1 DEF IInv, TypeOK
<1>9. Fresh(c) /\ ~Kept(c) /\ Fresh(c)' /\ ~Kept(c)'
  BY <1>1, <1>6 DEF Fresh, Kept
<1>10. Taken(c)' = Taken(c)
  BY <1>1, <1>6, <1>7, <1>9 DEF Taken
<1>11. Stream(c)' /\ Position(c)' /\ AtLock(c)'
  <2>1. Stream(c)'
    BY <1>1, <1>4, <1>10 DEF Stream, Left, Carries, Whole
  <2>2. Position(c)'
    BY <1>1, <1>4, <1>6, <1>7, <1>9 DEF Position
  <2>3. AtLock(c)'
    BY <1>1, <1>6 DEF AtLock
  <2> QED BY <2>1, <2>2, <2>3
<1>12. Connections'
  <2>1. ASSUME NEW d \in Conns, d # c PROVE Stream(d)' /\ Position(d)' /\ AtLock(d)'
    BY <1>1, <1>6, <1>7, <2>1, ConnKeeps
  <2> QED BY <1>11, <2>1 DEF Connections
<1>13. Mirrors'
  <2>1. /\ InFlight({"decoded", "store"}) \subseteq InFlight({"decoded", "store"})'
        /\ InFlight({"error"}) \subseteq InFlight({"error"})'
    BY <1>1, <1>6 DEF InFlight
  <2>2. \A d \in Conns : pc'[d] \in {"decoded", "store"} => pc[d] \in {"decoded", "store"} /\ cur'[d] = cur[d]
    BY <1>1, <1>6
  <2> QED BY <1>1, <1>2, <2>1, <2>2, MirrorsStill
<1>14. Tied'
  <2>1. \A d \in Conns : Kept(d)' => Kept(d)
    BY <1>6, <1>9 DEF Kept
  <2>2. InFlight({"store", "live"}) \subseteq InFlight({"store", "live"})'
    BY <1>1, <1>6 DEF InFlight
  <2> QED BY <1>1, <1>2, <1>3, <1>13, <2>1, <2>2, TiedStill
<1>15. Store!Next
  <2>1. Store!Room /\ cur[c] \in Frames
    BY <1>1, <1>9, RoomLeft, HeldFresh
  <2>2. Store!Want(c) /\ c \in Store!Tasks
    BY <1>1, <2>1 DEF Store!Want, Store!Tasks
  <2> QED BY <2>1, <2>2 DEF Store!Next
<1> QED BY <1>3, <1>8, <1>12, <1>14, <1>15

\* ... or, when it cannot be serialized, ends the connection.
LEMMA RefusedInv ==
    ASSUME IInv, NEW c \in Conns, AskStore(c), ~Serializes(cur[c])
    PROVE  TypeOK' /\ Connections' /\ Tied' /\ [Store!Next]_Store!vars /\ [Live!Next]_Live!vars
<1>1. /\ pc[c] = "decoded" /\ pc' = [pc EXCEPT ![c] = "error"]
      /\ UNCHANGED <<listener, wire, sent, fin, reset, mirrored, cur, opened, joined, heard, asOf>>
      /\ UNCHANGED storeVars /\ UNCHANGED liveVars
  BY DEF AskStore, OnlyStore, Goto, uplinkVars, clientVars
<1>2. UNCHANGED <<commits, st, job>> /\ [Store!Next]_Store!vars
  BY <1>1, StoreRests
<1>3. UNCHANGED <<log, task, since, at>> /\ [Live!Next]_Live!vars
  BY <1>1, FeedRests
<1>4. /\ Stored(c) \in Nat /\ sent[c] \in Nat /\ DOMAIN pc = Conns /\ Position(c) /\ AtLock(c)
  BY ConnFacts
<1>5. pc'[c] = "error" /\ \A d \in Conns \ {c} : pc'[d] = pc[d]
  BY <1>1, <1>4
<1>6. TypeOK'
  BY <1>1 DEF IInv, TypeOK
<1>7. Stored(c)' = Stored(c) /\ StoredAt(c)' = StoredAt(c)
  BY <1>2, SameStored
<1>8. Fresh(c) /\ ~Fresh(c)' /\ ~Kept(c)'
  BY <1>1, <1>5 DEF Fresh, Kept
<1>9. Explained(c)'
  <2> DEFINE n == Stored(c) + 1
  <2>1. n \in 1 .. Len(Script[c]) /\ cur[c] = Script[c][n] /\ Stored(c) < sent[c]
    BY <1>4, <1>8, HeldFresh DEF Position
  <2>2. n <= Len(Script[c]) /\ sent[c] >= n
    BY <1>4, <2>1, ScriptFacts
  <2>3. cur'[c] = Script[c][n] /\ ~Serializes(Script[c][n]) /\ sent'[c] = sent[c]
    BY <1>1, <2>1
  <2> QED BY <1>7, <2>2, <2>3 DEF Explained, Serializes
<1>10. Stream(c)' /\ Position(c)' /\ AtLock(c)'
  <2>1. Stream(c)'
    BY <1>5 DEF Stream
  <2>2. Position(c)'
    BY <1>1, <1>4, <1>5, <1>7, <1>8, <1>9 DEF Position
  <2>3. AtLock(c)'
    BY <1>1, <1>2, <1>4, <1>5 DEF AtLock
  <2> QED BY <2>1, <2>2, <2>3
<1>11. Connections'
  BY <1>1, <1>2, <1>5, <1>10, OwnStep
<1>12. Mirrors'
  <2>1. Mirrors /\ Elements(commits)' = Elements(commits)
    BY <1>2 DEF IInv, Tied, Elements
  <2>2. \A f : (ToMirror(f)' <=> ToMirror(f)) /\ (Serializes(f)' <=> Serializes(f))
    BY DEF ToMirror, Serializes
  <2>3. InFlight({"decoded", "store"}) \subseteq InFlight({"decoded", "store"})' \cup {cur[c]}
    BY <1>1, <1>5 DEF InFlight
  <2>4. InFlight({"error"}) \cup {cur[c]} \subseteq InFlight({"error"})'
    BY <1>1, <1>5 DEF InFlight
  <2>5. MirrorCovers'
    BY <1>1, <2>1, <2>2, <2>3, <2>4 DEF Mirrors, MirrorCovers
  <2>6. \A d \in Conns : pc'[d] \in {"decoded", "store"} => pc[d] \in {"decoded", "store"}
    BY <1>1, <1>5
  <2> QED BY <1>1, <2>1, <2>5, <2>6 DEF Mirrors, ToMirror
<1>13. Tied'
  <2>1. \A d \in Conns : Kept(d)' => Kept(d)
    BY <1>2, <1>5, <1>8 DEF Kept
  <2>2. InFlight({"store", "live"}) \subseteq InFlight({"store", "live"})'
    BY <1>1, <1>5 DEF InFlight
  <2> QED BY <1>1, <1>2, <1>3, <1>12, <2>1, <2>2, TiedStill
<1> QED BY <1>2, <1>3, <1>6, <1>11, <1>13

LEMMA AskStoreInv ==
    ASSUME IInv, NEW c \in Conns, AskStore(c)
    PROVE  TypeOK' /\ Connections' /\ Tied' /\ [Store!Next]_Store!vars /\ [Live!Next]_Live!vars
  BY AskedInv, RefusedInv

-----------------------------------------------------------------------------
\* The task is granted the lock.
LEMMA GrantedInv ==
    ASSUME IInv, NEW c \in Conns, pc[c] = "store", Store!Grant(c), OnlyStore, UNCHANGED <<pc, cur, clientVars>>
    PROVE  TypeOK' /\ Connections' /\ Tied' /\ [Store!Next]_Store!vars /\ [Live!Next]_Live!vars
<1>1. UNCHANGED <<listener, wire, sent, fin, reset, mirrored, pc, cur, opened, joined, heard, asOf, liveVars>>
  BY DEF OnlyStore, uplinkVars, clientVars
<1>2. UNCHANGED <<commits, job>> /\ st' = [st EXCEPT ![c] = "first"] /\ queue # <<>> /\ Head(queue) = c
  BY DEF Store!Grant, Store!storeVars
<1>3. UNCHANGED <<log, task, since, at>> /\ [Live!Next]_Live!vars
  BY <1>1, FeedRests
<1>4. Stream(c) /\ Position(c) /\ AtLock(c)
  BY ConnFacts
<1>5. st[c] = "wait" /\ st'[c] = "first" /\ \A d \in Conns \ {c} : st'[d] = st[d]
  BY <1>2, StoreFacts DEF IInv
<1>6. \A d \in Conns : Stored(d)' = Stored(d) /\ StoredAt(d)' = StoredAt(d)
  BY <1>2, SameStored
<1>7. TypeOK'
  BY <1>1 DEF IInv, TypeOK
<1>8. Fresh(c) /\ ~Kept(c) /\ Fresh(c)' /\ ~Kept(c)'
  BY <1>1, <1>5 DEF Fresh, Kept
<1>9. Taken(c)' = Taken(c)
  BY <1>1, <1>6, <1>8 DEF Taken
<1>10. Stream(c)' /\ Position(c)' /\ AtLock(c)'
  <2>1. Stream(c)'
    BY <1>1, <1>4, <1>9 DEF Stream, Left, Carries, Whole
  <2>2. Position(c)'
    BY <1>1, <1>4, <1>6, <1>8 DEF Position
  <2>3. AtLock(c)'
    BY <1>1, <1>2, <1>4, <1>5 DEF AtLock
  <2> QED BY <2>1, <2>2, <2>3
<1>11. Connections'
  <2>1. ASSUME NEW d \in Conns, d # c PROVE Stream(d)' /\ Position(d)' /\ AtLock(d)'
    BY <1>1, <1>2, <1>5, <1>6, <2>1, ConnKeeps
  <2> QED BY <1>10, <2>1 DEF Connections
<1>12. Tied'
  <2>1. \A d \in Conns : Kept(d)' => Kept(d)
    BY <1>1, <1>5, <1>8 DEF Kept
  <2>2. \A W : InFlight(W)' = InFlight(W)
    BY <1>1 DEF InFlight
  <2>3. Mirrors'
    BY <1>1, <1>2, <2>2, MirrorsStill
  <2> QED BY <1>1, <1>2, <1>3, <2>1, <2>2, <2>3, TiedStill
<1>13. Store!Next
  BY DEF Store!Next, Store!Tasks
<1> QED BY <1>3, <1>7, <1>11, <1>12, <1>13

\* The frame it counts is the next one of its agent.
LEMMA CommitGrows ==
    ASSUME IInv, NEW c \in Conns, Fresh(c), commits' = Append(commits, cur[c])
    PROVE  /\ Len(commits') = Len(commits) + 1 /\ Len(commits) \in Nat
           /\ commits'[Len(commits) + 1] = cur[c] /\ \A x \in 1 .. Len(commits) : commits'[x] = commits[x]
           /\ DOMAIN commits' = 1 .. Len(commits) + 1 /\ DOMAIN commits = 1 .. Len(commits)
           /\ Elements(commits)' = Elements(commits) \cup {cur[c]}
           /\ StoredAt(c)' = 1 .. Stored(c) + 1 /\ Stored(c)' = Stored(c) + 1
           /\ \A d \in Conns \ {c} : StoredAt(d)' = StoredAt(d)
<1>1. commits \in Seq(Frames) /\ DOMAIN commits = 1 .. Len(commits)
  BY StoreFacts, LenProperties DEF IInv
<1>2. /\ Stored(c) + 1 \in 1 .. Len(Script[c]) /\ cur[c] = Script[c][Stored(c) + 1]
      /\ cur[c] \in Frames /\ cur[c] \notin Elements(commits)
  BY HeldFresh
<1>3. /\ commits' \in Seq(Frames)
      /\ Len(commits') = Len(commits) + 1 /\ Len(commits) \in Nat
      /\ commits'[Len(commits) + 1] = cur[c] /\ \A x \in 1 .. Len(commits) : commits'[x] = commits[x]
  BY <1>1, <1>2, AppendProperties
<1>4. DOMAIN commits' = 1 .. Len(commits) + 1
  BY <1>3, LenProperties
<1>5. Elements(commits)' = Elements(commits) \cup {cur[c]}
  <2>1. Elements(Append(commits, cur[c])) = Elements(commits) \cup {cur[c]}
    BY <1>1, <1>2, ElementsGrow
  <2> QED BY <2>1 DEF Elements
<1>6. Stored(c) \in Nat /\ StoredAt(c) = 1 .. Stored(c) /\ Len(Script[c]) \in Nat
  BY ConnFacts DEF Position
<1> DEFINE n == Stored(c) + 1
<1>7. ASSUME NEW d \in Conns, NEW m \in 1 .. Len(Script[d]), Script[d][m] = cur[c]
      PROVE  d = c /\ m = n
  <2>1. n \in 1 .. Len(Script[c]) /\ Script[d][m] = Script[c][n]
    BY <1>2, <1>7
  <2> HIDE DEF n
  <2> QED BY <2>1, ScriptAssumption
<1>8. StoredAt(c)' = StoredAt(c) \cup {n}
  <2>1. StoredAt(c)' = {m \in 1 .. Len(Script[c]) : Script[c][m] \in Elements(commits) \cup {cur[c]}}
    BY <1>5 DEF StoredAt
  <2>2. \A m \in 1 .. Len(Script[c]) : Script[c][m] = cur[c] <=> m = n
    BY <1>2, <1>7
  <2>3. n \in 1 .. Len(Script[c])
    BY <1>2
  <2> HIDE DEF n
  <2> QED BY <2>1, <2>2, <2>3 DEF StoredAt
<1>9. \A s \in Nat : (1 .. s) \cup {s + 1} = 1 .. s + 1
  OBVIOUS
<1>10. StoredAt(c)' = 1 .. n
  BY <1>6, <1>8, <1>9
<1>11. Stored(c)' = n
  <2>1. n \in Nat
    BY <1>6
  <2> HIDE DEF n
  <2>2. 1 \in Int /\ n \in Int /\ (IF 1 > n THEN 0 ELSE n - 1 + 1) = n
    BY <2>1
  <2> QED BY <1>10, <2>2, FS_Interval DEF Stored
<1>12. ASSUME NEW d \in Conns \ {c} PROVE StoredAt(d)' = StoredAt(d)
  <2>1. StoredAt(d)' = {m \in 1 .. Len(Script[d]) : Script[d][m] \in Elements(commits) \cup {cur[c]}}
    BY <1>5 DEF StoredAt
  <2>2. \A m \in 1 .. Len(Script[d]) : Script[d][m] # cur[c]
    BY <1>7
  <2> QED BY <2>1, <2>2 DEF StoredAt
<1> QED BY <1>1, <1>3, <1>4, <1>5, <1>10, <1>11, <1>12

\* The task counts its frame.
LEMMA CountedInv ==
    ASSUME IInv, NEW c \in Conns, pc[c] = "store", Store!Count(c), OnlyStore, UNCHANGED <<pc, cur, clientVars>>
    PROVE  TypeOK' /\ Connections' /\ Tied' /\ [Store!Next]_Store!vars /\ [Live!Next]_Live!vars
<1>1. UNCHANGED <<listener, wire, sent, fin, reset, mirrored, pc, cur, opened, joined, heard, asOf, liveVars>>
  BY DEF OnlyStore, uplinkVars, clientVars
<1>2. /\ UNCHANGED job /\ st' = [st EXCEPT ![c] = "second"] /\ st[c] = "first"
      /\ commits' = Append(commits, job[c].packet)
  BY DEF Store!Count
<1>3. UNCHANGED <<log, task, since, at>> /\ [Live!Next]_Live!vars
  BY <1>1, FeedRests
<1>4. Stream(c) /\ Position(c) /\ AtLock(c) /\ Stored(c) \in Nat /\ sent[c] \in Nat
  BY ConnFacts
<1>5. st'[c] = "second" /\ \A d \in Conns \ {c} : st'[d] = st[d]
  BY <1>2, StoreFacts DEF IInv
<1>6. Fresh(c) /\ ~Kept(c) /\ ~Fresh(c)' /\ Kept(c)' /\ commits' = Append(commits, cur[c])
  BY <1>1, <1>2, <1>4, <1>5 DEF Fresh, Kept, AtLock
<1>7. /\ Stored(c) + 1 \in 1 .. Len(Script[c]) /\ cur[c] = Script[c][Stored(c) + 1]
      /\ cur[c] \in Frames /\ cur[c] \notin Elements(commits)
  BY <1>6, HeldFresh
<1>8. /\ Len(commits') = Len(commits) + 1 /\ Len(commits) \in Nat
      /\ commits'[Len(commits) + 1] = cur[c] /\ \A x \in 1 .. Len(commits) : commits'[x] = commits[x]
      /\ DOMAIN commits' = 1 .. Len(commits) + 1 /\ DOMAIN commits = 1 .. Len(commits)
      /\ Elements(commits)' = Elements(commits) \cup {cur[c]}
      /\ StoredAt(c)' = 1 .. Stored(c) + 1 /\ Stored(c)' = Stored(c) + 1
      /\ \A d \in Conns \ {c} : StoredAt(d)' = StoredAt(d)
  BY <1>6, CommitGrows
<1>9. TypeOK'
  BY <1>1 DEF IInv, TypeOK
<1>10. Stream(c)' /\ Position(c)' /\ AtLock(c)'
  <2>1. Taken(c)' = Taken(c)
    <3>1. Taken(c) = 2 * Stored(c) + 2 /\ Taken(c)' = 2 * Stored(c)' + 0
      BY <1>1, <1>6 DEF Taken
    <3> QED BY <1>4, <1>8, <3>1
  <2>2. Stream(c)'
    <3>1. UNCHANGED <<wire, sent, fin, reset, pc>>
      BY <1>1
    <3>2. Left(c)' = Left(c)
      BY <3>1 DEF Left, Whole
    <3>3. Carries(wire[c], Taken(c), c)' <=> Carries(wire[c], Taken(c), c)
      BY <2>1, <3>1 DEF Carries, Whole
    <3> QED BY <1>4, <2>1, <3>1, <3>2, <3>3 DEF Stream
  <2>3. Position(c)'
    <3>1. Stored(c) < sent[c]
      BY <1>4, <1>6 DEF Position
    <3>2. Stored(c)' \in Nat /\ Stored(c)' <= sent'[c] /\ Stored(c)' > 0
      BY <1>1, <1>4, <1>8, <3>1
    <3> QED BY <1>1, <1>6, <1>7, <1>8, <3>2 DEF Position
  <2>4. AtLock(c)'
    BY <1>1, <1>2, <1>4, <1>5 DEF AtLock
  <2> QED BY <2>2, <2>3, <2>4
<1>11. Connections'
  <2>1. ASSUME NEW d \in Conns, d # c PROVE Stream(d)' /\ Position(d)' /\ AtLock(d)'
    BY <1>1, <1>2, <1>5, <1>8, <2>1, ConnKeeps
  <2> QED BY <1>10, <2>1 DEF Connections
<1>12. Tied /\ Elements(commits) = {commits[x] : x \in 1 .. Len(commits)}
  BY <1>8 DEF IInv, Elements
<1>13. Sourced'
  <2>1. cur[c] \in Elements(Script[c])
    <3>1. Elements(Script[c]) = {Script[c][i] : i \in 1 .. Len(Script[c])}
      BY ScriptFacts, ElementsAre
    <3> QED BY <1>7, <3>1
  <2>2. ASSUME NEW x \in 1 .. Len(commits') PROVE \E d \in Conns : commits'[x] \in Elements(Script[d])
    <3>1. CASE x \in 1 .. Len(commits)
      BY <1>8, <1>12, <3>1 DEF Tied, Sourced
    <3>2. CASE x = Len(commits) + 1
      BY <1>8, <2>1, <3>2
    <3> QED BY <1>8, <3>1, <3>2
  <2> QED BY <2>2 DEF Sourced, Elements
<1>14. ASSUME NEW d \in Conns PROVE InTurn(commits, d)'
  <2>1. ASSUME NEW i \in 1 .. Len(Script[d]), NEW j \in 1 .. Len(Script[d]),
               NEW x \in 1 .. Len(commits) + 1, NEW y \in 1 .. Len(commits) + 1,
               commits'[x] = Script[d][i], commits'[y] = Script[d][j], x < y
        PROVE  i < j
    <3>1. x \in 1 .. Len(commits) /\ commits'[x] = commits[x]
      BY <1>8, <2>1
    <3>2. CASE y \in 1 .. Len(commits)
      <4>1. commits'[y] = commits[y] /\ InTurn(commits, d)
        BY <1>8, <1>12, <3>2 DEF Tied
      <4>2. x \in DOMAIN commits /\ y \in DOMAIN commits
        BY <1>8, <3>1, <3>2
      <4> QED BY <2>1, <3>1, <4>1, <4>2 DEF InTurn
    <3>3. CASE y = Len(commits) + 1
      <4> DEFINE n == Stored(c) + 1
      <4>1. n \in 1 .. Len(Script[c]) /\ Script[d][j] = Script[c][n]
        BY <1>7, <1>8, <2>1, <3>3
      <4> HIDE DEF n
      <4>2. d = c /\ j = n
        BY <4>1, ScriptAssumption
      <4>3. Script[c][i] \in Elements(commits)
        BY <1>12, <2>1, <3>1, <4>2
      <4>4. i \in StoredAt(c) /\ StoredAt(c) = 1 .. Stored(c)
        BY <1>4, <4>2, <4>3 DEF StoredAt, Position
      <4> QED BY <1>4, <4>2, <4>4 DEF n
    <3> QED BY <1>8, <3>2, <3>3
  <2> QED BY <1>8, <2>1 DEF InTurn
<1>15. ASSUME NEW d \in Conns PROVE InTurn(log, d)'
  BY <1>3, <1>12 DEF Tied, InTurn
<1>16. LiveKnown'
  <2>1. \A x \in 1 .. Len(log) : \E y \in 1 .. Len(commits) : log[x] = commits[y]
    BY <1>12 DEF Tied, LiveKnown
  <2>2. \A x \in 1 .. Len(log') : \E y \in 1 .. Len(commits') : log'[x] = commits'[y]
    BY <1>3, <1>8, <2>1
  <2>3. ASSUME NEW d \in Conns, Kept(d)' PROVE \A x \in 1 .. Len(log') : log'[x] # cur'[d]
    <3>1. CASE d = c
      BY <1>1, <1>3, <1>7, <1>12, <2>1, <3>1
    <3>2. CASE d # c
      BY <1>1, <1>3, <1>5, <1>12, <2>3, <3>2 DEF Tied, LiveKnown, Kept
    <3> QED BY <3>1, <3>2
  <2> QED BY <2>2, <2>3 DEF LiveKnown
<1>17. Asked'
  BY <1>1, <1>3, <1>8, <1>12 DEF Tied, Asked, Unanswered, MaxFrames, IInv, TypeOK
<1>18. \A W : InFlight(W)' = InFlight(W)
  BY <1>1 DEF InFlight
<1>19. Mirrors'
  <2>1. Mirrors
    BY <1>12 DEF Tied
  <2>2. ToMirror(cur[c]) => cur[c] \in mirrored
    BY <2>1 DEF Mirrors
  <2>3. \A f : (ToMirror(f)' <=> ToMirror(f)) /\ (Serializes(f)' <=> Serializes(f))
    BY DEF ToMirror, Serializes
  <2>4. MirrorCovers'
    BY <1>1, <1>8, <1>18, <2>1, <2>2, <2>3 DEF Mirrors, MirrorCovers
  <2> QED BY <1>1, <2>1, <2>4 DEF Mirrors, ToMirror
<1>20. Covered'
  <2>1. ASSUME NEW k \in Clients, k \in Live!Subscribers, NEW i \in joined[k] + 1 .. Len(commits')
        PROVE  OnFeed(k, commits'[i])
    <3>0. joined[k] \in Nat
      BY Placed DEF IInv, TypeOK
    <3>1. CASE i \in joined[k] + 1 .. Len(commits)
      <4>1. commits'[i] = commits[i]
        BY <1>8, <3>0, <3>1
      <4> QED BY <1>12, <2>1, <3>1, <4>1 DEF Tied, Covered
    <3>2. CASE i = Len(commits) + 1
      BY <1>8, <3>2 DEF OnFeed, InFlight
    <3> QED BY <1>8, <3>0, <3>1, <3>2
  <2>2. Live!Subscribers' = Live!Subscribers /\ Live!Subscribers \subseteq Clients
    BY <1>3 DEF Live!Subscribers
  <2>3. \A k, f : OnFeed(k, f) => OnFeed(k, f)'
    BY <1>3, <1>18 DEF OnFeed
  <2> QED BY <1>1, <2>1, <2>2, <2>3 DEF Covered
<1>21. Tied'
  BY <1>13, <1>14, <1>15, <1>16, <1>17, <1>19, <1>20 DEF Tied
<1>22. Store!Next
  BY DEF Store!Next, Store!Tasks, Store!InsideStep
<1> QED BY <1>3, <1>9, <1>11, <1>21, <1>22

\* The task retains its packet and gives the lock back.
LEMMA LeaveStoreInv ==
    ASSUME IInv, NEW c \in Conns, LeaveStore(c)
    PROVE  TypeOK' /\ Connections' /\ Tied' /\ [Store!Next]_Store!vars /\ [Live!Next]_Live!vars
<1>1. /\ pc[c] = "store" /\ pc' = [pc EXCEPT ![c] = "live"] /\ Store!Push(c)
      /\ UNCHANGED <<listener, wire, sent, fin, reset, mirrored, cur, opened, joined, heard, asOf, liveVars>>
  BY DEF LeaveStore, OnlyStore, Goto, uplinkVars, clientVars
<1>2. UNCHANGED commits /\ st[c] = "second" /\ st' = [st EXCEPT ![c] = "idle"] /\ \E j : job' = [job EXCEPT ![c] = j]
  BY <1>1 DEF Store!Push
<1>3. UNCHANGED <<log, task, since, at>> /\ [Live!Next]_Live!vars
  BY <1>1, FeedRests
<1>4. /\ Stored(c) \in Nat /\ DOMAIN pc = Conns /\ Stream(c) /\ Position(c)
  BY ConnFacts
<1>5. DOMAIN st = Conns \cup Clients /\ DOMAIN job = Conns \cup Clients
  BY StoreFacts DEF IInv
<1>6. /\ pc'[c] = "live" /\ \A d \in Conns \ {c} : pc'[d] = pc[d] /\ st'[d] = st[d] /\ job'[d] = job[d]
      /\ st'[c] = "idle"
  BY <1>1, <1>2, <1>4, <1>5
<1>7. \A d \in Conns : Stored(d)' = Stored(d) /\ StoredAt(d)' = StoredAt(d)
  BY <1>2, SameStored
<1>8. TypeOK'
  BY <1>1 DEF IInv, TypeOK
<1>9. ~Fresh(c) /\ Kept(c) /\ ~Fresh(c)' /\ Kept(c)'
  BY <1>1, <1>2, <1>6 DEF Fresh, Kept
<1>10. Taken(c)' = Taken(c)
  BY <1>1, <1>6, <1>7, <1>9 DEF Taken
<1>11. Stream(c)' /\ Position(c)' /\ AtLock(c)'
  <2>1. Stream(c)'
    BY <1>1, <1>4, <1>10 DEF Stream, Left, Carries, Whole
  <2>2. Position(c)'
    BY <1>1, <1>4, <1>6, <1>7, <1>9 DEF Position
  <2>3. AtLock(c)'
    BY <1>6 DEF AtLock
  <2> QED BY <2>1, <2>2, <2>3
<1>12. Connections'
  <2>1. ASSUME NEW d \in Conns, d # c PROVE Stream(d)' /\ Position(d)' /\ AtLock(d)'
    BY <1>1, <1>6, <1>7, <2>1, ConnKeeps
  <2> QED BY <1>11, <2>1 DEF Connections
<1>13. Mirrors'
  <2>1. Mirrors
    BY DEF IInv, Tied
  <2>2. cur[c] \in Elements(commits)
    BY <1>9, HeldKept
  <2>3. InFlight({"decoded", "store"}) \subseteq InFlight({"decoded", "store"})' \cup {cur[c]}
    BY <1>1, <1>6 DEF InFlight
  <2>4. Elements(commits)' = Elements(commits)
    BY <1>2 DEF Elements
  <2>5. MirrorCovers'
    <3>1. InFlight({"error"}) \subseteq InFlight({"error"})'
      BY <1>1, <1>6 DEF InFlight
    <3>2. \A f : (ToMirror(f)' <=> ToMirror(f)) /\ (Serializes(f)' <=> Serializes(f))
      BY DEF ToMirror, Serializes
    <3> QED BY <1>1, <2>1, <2>2, <2>3, <2>4, <3>1, <3>2 DEF Mirrors, MirrorCovers
  <2>6. \A d \in Conns : pc'[d] \in {"decoded", "store"} => pc[d] \in {"decoded", "store"}
    BY <1>1, <1>6
  <2> QED BY <1>1, <2>1, <2>5, <2>6 DEF Mirrors, ToMirror
<1>14. Tied'
  <2>1. \A d \in Conns : Kept(d)' => Kept(d)
    BY <1>6, <1>9 DEF Kept
  <2>2. InFlight({"store", "live"}) \subseteq InFlight({"store", "live"})'
    BY <1>1, <1>6 DEF InFlight
  <2> QED BY <1>1, <1>2, <1>3, <1>13, <2>1, <2>2, TiedStill
<1>15. Store!Next
  BY <1>1 DEF Store!Next, Store!Tasks, Store!InsideStep
<1> QED BY <1>3, <1>8, <1>12, <1>14, <1>15

\* The task publishes its packet, to whoever listens.
LEMMA PublishLiveInv ==
    ASSUME IInv, NEW c \in Conns, PublishLive(c)
    PROVE  TypeOK' /\ Connections' /\ Tied' /\ [Store!Next]_Store!vars /\ [Live!Next]_Live!vars
<1>1. /\ pc[c] = "live" /\ pc' = [pc EXCEPT ![c] = "length"] /\ Live!Publish(cur[c])
      /\ cur' = [cur EXCEPT ![c] = NoFrame]
      /\ UNCHANGED <<listener, wire, sent, fin, reset, mirrored, opened, joined, heard, asOf, storeVars>>
  BY DEF PublishLive, Goto, uplinkVars, clientVars
<1>2. UNCHANGED <<commits, st, job>> /\ [Store!Next]_Store!vars
  BY <1>1, StoreRests
<1>3. /\ log' = IF Live!Subscribers = {} THEN log ELSE Append(log, cur[c])
      /\ UNCHANGED <<task, since, at>>
  BY <1>1 DEF Live!Publish, Live!taskVars, Live!peerVars
<1>4. /\ Stored(c) \in Nat /\ DOMAIN pc = Conns /\ DOMAIN cur = Conns /\ Stream(c) /\ Position(c) /\ AtLock(c)
  BY ConnFacts
<1>5. /\ pc'[c] = "length" /\ \A d \in Conns \ {c} : pc'[d] = pc[d] /\ cur'[d] = cur[d]
  BY <1>1, <1>4
<1>6. \A d \in Conns : Stored(d)' = Stored(d) /\ StoredAt(d)' = StoredAt(d)
  BY <1>2, SameStored
<1>7. TypeOK'
  BY <1>1 DEF IInv, TypeOK
<1>8. ~Fresh(c) /\ Kept(c) /\ ~Fresh(c)' /\ ~Kept(c)'
  BY <1>1, <1>5 DEF Fresh, Kept
<1>9. /\ Stored(c) \in 1 .. Len(Script[c]) /\ cur[c] = Script[c][Stored(c)]
      /\ cur[c] \in Frames /\ cur[c] \in Elements(commits)
  BY <1>8, HeldKept
<1>10. Connections'
  <2>1. Taken(c)' = Taken(c)
    BY <1>1, <1>5, <1>6, <1>8 DEF Taken
  <2>2. Stream(c)'
    BY <1>1, <1>4, <1>5, <2>1 DEF Stream, Left, Carries, Whole
  <2>3. Position(c)'
    BY <1>1, <1>4, <1>5, <1>6, <1>8 DEF Position
  <2>4. AtLock(c)'
    BY <1>1, <1>2, <1>4, <1>5 DEF AtLock
  <2> QED BY <1>1, <1>2, <1>5, <2>2, <2>3, <2>4, OwnStep
<1>11. /\ Tied /\ log \in Seq(Frames) /\ Len(log) \in Nat /\ DOMAIN log = 1 .. Len(log)
       /\ Elements(commits) = {commits[x] : x \in 1 .. Len(commits)}
       /\ Elements(log) = {log[x] : x \in 1 .. Len(log)}
       /\ \A k \in Clients : task[k] # "none" => since[k] <= Len(log)
  BY LiveFacts, StoreFacts, ElementsAre, LenProperties DEF IInv
<1>12. \/ log' = log /\ Live!Subscribers = {}
       \/ /\ Len(log') = Len(log) + 1 /\ log'[Len(log) + 1] = cur[c] /\ DOMAIN log' = 1 .. Len(log) + 1
          /\ \A x \in 1 .. Len(log) : log'[x] = log[x]
  <2>1. CASE Live!Subscribers # {}
    <3>1. /\ Append(log, cur[c]) \in Seq(Frames) /\ Len(Append(log, cur[c])) = Len(log) + 1
          /\ Append(log, cur[c])[Len(log) + 1] = cur[c]
          /\ \A x \in 1 .. Len(log) : Append(log, cur[c])[x] = log[x]
      BY <1>9, <1>11, AppendProperties
    <3>2. log' = Append(log, cur[c])
      BY <1>3, <2>1
    <3>3. log' \in Seq(Frames)
      BY <3>1, <3>2
    <3> QED BY <3>1, <3>2, <3>3, LenProperties
  <2> QED BY <1>3, <2>1
<1>13. /\ \A x \in 1 .. Len(log) : log[x] \in Elements(commits)
       /\ \A d \in Conns : Kept(d) => \A x \in 1 .. Len(log) : log[x] # cur[d]
  BY <1>11 DEF Tied, LiveKnown
<1>14. Sourced'
  BY <1>2, <1>11 DEF Tied, Sourced, Elements
<1>15. ASSUME NEW d \in Conns PROVE InTurn(commits, d)'
  BY <1>2, <1>11 DEF Tied, InTurn
<1>16. ASSUME NEW d \in Conns PROVE InTurn(log, d)'
  <2>1. CASE log' = log
    BY <1>11, <2>1 DEF Tied, InTurn
  <2>2. CASE /\ Len(log') = Len(log) + 1 /\ log'[Len(log) + 1] = cur[c] /\ DOMAIN log' = 1 .. Len(log) + 1
             /\ \A x \in 1 .. Len(log) : log'[x] = log[x]
    <3>1. ASSUME NEW i \in 1 .. Len(Script[d]), NEW j \in 1 .. Len(Script[d]),
                 NEW x \in 1 .. Len(log) + 1, NEW y \in 1 .. Len(log) + 1,
                 log'[x] = Script[d][i], log'[y] = Script[d][j], x < y
          PROVE  i < j
      <4>1. x \in 1 .. Len(log) /\ log'[x] = log[x]
        BY <1>11, <2>2, <3>1
      <4>2. CASE y \in 1 .. Len(log)
        <5>1. log'[y] = log[y] /\ InTurn(log, d)
          BY <1>11, <2>2, <4>2 DEF Tied
        <5>2. x \in DOMAIN log /\ y \in DOMAIN log
          BY <1>11, <4>1, <4>2
        <5> QED BY <3>1, <4>1, <5>1, <5>2 DEF InTurn
      <4>3. CASE y = Len(log) + 1
        <5> DEFINE n == Stored(c)
        <5>1. n \in 1 .. Len(Script[c]) /\ Script[d][j] = Script[c][n]
          BY <1>9, <2>2, <3>1, <4>3
        <5>2. n \in Nat
          BY <1>4
        <5> HIDE DEF n
        <5>3. d = c /\ j = n
          BY <5>1, ScriptAssumption
        <5>4. Script[c][i] \in Elements(commits) /\ Script[c][i] # Script[c][n]
          BY <1>8, <1>9, <1>13, <3>1, <4>1, <5>3 DEF n
        <5>5. i \in StoredAt(c) /\ StoredAt(c) = 1 .. n
          BY <1>4, <5>3, <5>4 DEF StoredAt, Position, n
        <5>6. i \in 1 .. n /\ i # n
          BY <5>4, <5>5
        <5> QED BY <5>2, <5>3, <5>6
      <4> QED BY <1>11, <4>2, <4>3
    <3> QED BY <2>2, <3>1 DEF InTurn
  <2> QED BY <1>12, <2>1, <2>2
<1>17. LiveKnown'
  <2>1. \A x \in 1 .. Len(log') : log'[x] \in Elements(commits)
    BY SMTT(30), <1>9, <1>11, <1>12, <1>13
  <2>2. \A x \in 1 .. Len(log') : \E y \in 1 .. Len(commits') : log'[x] = commits'[y]
    BY <1>2, <1>11, <2>1
  <2>3. ASSUME NEW d \in Conns, Kept(d)' PROVE \A x \in 1 .. Len(log') : log'[x] # cur'[d]
    <3>1. d # c /\ Kept(d) /\ cur'[d] = cur[d]
      BY <1>2, <1>5, <1>8, <2>3 DEF Kept
    <3>2. cur[d] # cur[c]
      <4> DEFINE m == Stored(d)
                 n == Stored(c)
      <4>1. m \in 1 .. Len(Script[d]) /\ cur[d] = Script[d][m] /\ n \in 1 .. Len(Script[c]) /\ cur[c] = Script[c][n]
        BY <1>9, <3>1, HeldKept
      <4> HIDE DEF m, n
      <4> QED BY <3>1, <4>1, ScriptAssumption
    <3> QED BY <1>11, <1>12, <1>13, <3>1, <3>2
  <2> QED BY <2>2, <2>3 DEF LiveKnown
<1>18. Asked'
  BY <1>1, <1>2, <1>3, <1>11 DEF Tied, Asked, Unanswered, MaxFrames
<1>19. Mirrors'
  <2>1. InFlight({"decoded", "store"})' = InFlight({"decoded", "store"})
    <3>1. \A d \in Conns : /\ pc'[d] \in {"decoded", "store"} <=> pc[d] \in {"decoded", "store"}
                           /\ pc[d] \in {"decoded", "store"} => cur'[d] = cur[d]
      BY <1>1, <1>5
    <3> QED BY <3>1, SameFlight
  <2>2. \A d \in Conns : pc'[d] \in {"decoded", "store"} => pc[d] \in {"decoded", "store"} /\ cur'[d] = cur[d]
    BY <1>1, <1>5
  <2>3. InFlight({"error"}) \subseteq InFlight({"error"})'
    BY <1>1, <1>5 DEF InFlight
  <2> QED BY <1>1, <1>2, <2>1, <2>2, <2>3, MirrorsStill
<1>20. Covered'
  <2>1. ASSUME NEW k \in Clients, k \in Live!Subscribers, NEW i \in joined[k] + 1 .. Len(commits)
        PROVE  \/ \E x \in since[k] + 1 .. Len(log') : log'[x] = commits[i]
               \/ commits[i] \in InFlight({"store", "live"})'
    <3>1. /\ Len(log') = Len(log) + 1 /\ log'[Len(log) + 1] = cur[c]
          /\ \A x \in 1 .. Len(log) : log'[x] = log[x]
      BY <1>12, <2>1
    <3>2. since[k] \in Nat /\ since[k] <= Len(log)
      BY <1>11, <2>1, LiveFacts DEF IInv, Live!Subscribers
    <3>3. \/ \E x \in since[k] + 1 .. Len(log) : log[x] = commits[i]
          \/ commits[i] \in InFlight({"store", "live"})
      BY <1>11, <2>1 DEF Tied, Covered, OnFeed
    <3>4. CASE \E x \in since[k] + 1 .. Len(log) : log[x] = commits[i]
      <4>1. PICK x \in since[k] + 1 .. Len(log) : log[x] = commits[i]
        BY <3>4
      <4>2. x \in 1 .. Len(log) /\ x \in since[k] + 1 .. Len(log')
        BY <1>11, <3>1, <3>2
      <4> QED BY <3>1, <4>1, <4>2
    <3>5. CASE commits[i] \in InFlight({"store", "live"})
      <4>1. PICK d \in Conns : pc[d] \in {"store", "live"} /\ commits[i] = cur[d]
        BY <3>5 DEF InFlight
      <4>2. CASE d = c
        <5>1. Len(log) + 1 \in since[k] + 1 .. Len(log')
          BY <1>11, <3>1, <3>2
        <5> QED BY <3>1, <4>1, <4>2, <5>1
      <4>3. CASE d # c
        BY <1>5, <4>1, <4>3 DEF InFlight
      <4> QED BY <4>2, <4>3
    <3> QED BY <3>3, <3>4, <3>5
  <2>2. Live!Subscribers' = Live!Subscribers /\ Live!Subscribers \subseteq Clients
    BY <1>3 DEF Live!Subscribers
  <2>3. since' = since /\ joined' = joined /\ commits' = commits
    BY <1>1, <1>2, <1>3
  <2>4. \A k \in Live!Subscribers' : \A i \in joined'[k] + 1 .. Len(commits') :
            \/ \E x \in since'[k] + 1 .. Len(log') : log'[x] = commits'[i]
            \/ commits'[i] \in InFlight({"store", "live"})'
    BY <2>1, <2>2, <2>3
  <2> QED BY <2>4 DEF Covered, OnFeed
<1>21. Tied'
  BY <1>14, <1>15, <1>16, <1>17, <1>18, <1>19, <1>20 DEF Tied
<1>22. Live!Next
  <2> DEFINE E == Elements(log)
  <2>1. cur[c] \notin E
    BY <1>8, <1>11, <1>13
  <2>2. Cardinality(E) = Len(log) /\ IsFiniteSet(E) /\ E \subseteq Frames
    BY Placed
  <2> HIDE DEF E
  <2>3. Cardinality(E \cup {cur[c]}) = Cardinality(E) + 1
    BY <2>1, <2>2, FS_AddElement
  <2>4. E \cup {cur[c]} \subseteq Frames
    BY <1>9, <2>2
  <2>5. Cardinality(E \cup {cur[c]}) <= MaxFrames
    BY <2>4, FrameAssumption, FS_Subset DEF MaxFrames
  <2>6. Len(log) + 1 <= MaxFrames
    BY <2>2, <2>3, <2>5
  <2>7. Len(log) < MaxFrames
    <3> DEFINE n == Len(log)
    <3>1. n \in Nat /\ MaxFrames \in Nat /\ n + 1 <= MaxFrames
      BY <1>11, <2>6, Placed
    <3> HIDE DEF n
    <3>2. n < MaxFrames
      BY <3>1
    <3> QED BY <3>2 DEF n
  <2> QED BY <1>1, <1>9, <2>7 DEF Live!Next
<1> QED BY <1>2, <1>7, <1>10, <1>21, <1>22

-----------------------------------------------------------------------------
\* Steps of clients and their tasks.
LEMMA ClientStill ==
    ASSUME IInv, UNCHANGED <<wire, fin, reset, sent, pc, cur, commits>>,
           \A c \in Conns : st'[c] = st[c] /\ job'[c] = job[c]
    PROVE  Connections'
<1>1. ASSUME NEW c \in Conns PROVE Stream(c)' /\ Position(c)' /\ AtLock(c)'
  BY SameStored, ConnKeeps
<1> QED BY <1>1 DEF Connections

\* A step of the feed that publishes nothing: a client's task has subscribed, or
\* had before and is counted from the same place.
LEMMA FeedStep ==
    ASSUME IInv, NEW k \in Clients, UNCHANGED <<connVars, storeVars, opened, heard, asOf, log>>,
           \A l \in Clients \ {k} : task'[l] = task[l] /\ since'[l] = since[l] /\ at'[l] = at[l],
           task'[k] # "none",
           \/ task[k] = "none" /\ joined' = [joined EXCEPT ![k] = Len(commits)]
           \/ /\ task[k] # "none" /\ since'[k] = since[k] /\ joined' = joined
              /\ task'[k] = "ended" \/ task[k] # "ended"
    PROVE  TypeOK' /\ Connections' /\ Tied' /\ [Store!Next]_Store!vars
<1>1. UNCHANGED <<listener, wire, fin, reset, sent, pc, cur, mirrored, opened, heard, asOf, commits, st, job>>
  BY StoreRests DEF connVars, uplinkVars
<1>2. /\ joined \in [Clients -> 0 .. MaxFrames] /\ Len(commits) \in 0 .. MaxFrames /\ MaxFrames \in Nat
      /\ asOf \in [Clients -> 0 .. Unanswered]
  BY StoreFacts, Placed DEF IInv, TypeOK
<1>3. joined' \in [Clients -> 0 .. MaxFrames] /\ \A l \in Clients \ {k} : joined'[l] = joined[l]
  BY <1>2
<1>4. TypeOK'
  BY <1>1, <1>3 DEF IInv, TypeOK
<1>5. Connections'
  BY <1>1, ClientStill
<1>6. Tied /\ task \in [Clients -> {"none", "recv", "send", "ended"}]
  BY LiveFacts DEF IInv
<1>7. Sourced' /\ LiveKnown' /\ \A c \in Conns : InTurn(commits, c)' /\ InTurn(log, c)'
  <2>1. Sourced'
    BY <1>1, <1>6 DEF Tied, Sourced, Elements
  <2>2. LiveKnown'
    BY <1>1, <1>6 DEF Tied, LiveKnown, Kept
  <2>3. \A c \in Conns : InTurn(commits, c)' /\ InTurn(log, c)'
    BY <1>1, <1>6 DEF Tied, InTurn
  <2> QED BY <2>1, <2>2, <2>3
<1>8. Asked'
  <2>1. ASSUME NEW l \in Clients
        PROVE  /\ joined'[l] <= Len(commits)
               /\ task'[l] = "none" => at'[l] = since'[l]
               /\ heard'[l] => task'[l] # "none"
               /\ heard'[l] /\ asOf'[l] # Unanswered => joined'[l] <= asOf'[l]
    <3>1. /\ joined[l] <= Len(commits) /\ Len(commits) \in Nat
          /\ task[l] = "none" => at[l] = since[l]
          /\ heard[l] => task[l] # "none"
          /\ heard[l] /\ asOf[l] # Unanswered => joined[l] <= asOf[l]
      BY <1>2, <1>6 DEF Tied, Asked
    <3>2. CASE l # k
      BY <1>1, <1>3, <3>1, <3>2
    <3>3. CASE l = k /\ task[k] = "none"
      <4>1. joined'[k] = Len(commits) /\ ~heard'[k]
        BY <1>1, <1>2, <3>1, <3>3
      <4> QED BY <3>1, <3>3, <4>1
    <3>4. CASE l = k /\ task[k] # "none"
      BY <1>1, <3>1, <3>4
    <3> QED BY <3>2, <3>3, <3>4
  <2> QED BY <1>1, <2>1 DEF Asked, Unanswered, MaxFrames
<1>9. \A W : InFlight(W)' = InFlight(W)
  BY <1>1 DEF InFlight
<1>10. Mirrors'
  BY <1>1, <1>9, MirrorsStill
<1>11. Covered'
  <2>1. ASSUME NEW l \in Clients, l \in Live!Subscribers', NEW i \in joined'[l] + 1 .. Len(commits')
        PROVE  OnFeed(l, commits[i])'
    <3>1. ~(l = k /\ task[k] = "none")
      <4>1. ASSUME l = k, task[k] = "none" PROVE FALSE
        <5>1. joined'[l] = Len(commits)
          BY <1>2, <4>1
        <5> QED BY <1>1, <1>2, <2>1, <5>1
      <4> QED BY <4>1
    <3>2. since'[l] = since[l] /\ joined'[l] = joined[l] /\ l \in Live!Subscribers
      BY <1>3, <1>6, <2>1, <3>1 DEF Live!Subscribers
    <3>3. OnFeed(l, commits[i])
      BY <1>1, <1>6, <2>1, <3>2 DEF Tied, Covered
    <3> QED BY <1>1, <1>9, <3>2, <3>3 DEF OnFeed
  <2>2. Live!Subscribers' \subseteq Clients
    BY DEF Live!Subscribers
  <2> QED BY <2>1, <2>2 DEF Covered
<1>12. Tied'
  BY <1>7, <1>8, <1>10, <1>11 DEF Tied
<1> QED BY <1>4, <1>5, <1>12, StoreRests

LEMMA UpgradeInv ==
    ASSUME IInv, NEW k \in Clients, Upgrade(k)
    PROVE  TypeOK' /\ Connections' /\ Tied' /\ [Store!Next]_Store!vars /\ [Live!Next]_Live!vars
<1>1. /\ UNCHANGED <<listener, wire, fin, reset, sent, pc, cur, mirrored, joined, heard, asOf>>
      /\ UNCHANGED storeVars /\ UNCHANGED liveVars /\ opened' = [opened EXCEPT ![k] = TRUE]
  BY DEF Upgrade, connVars, uplinkVars
<1>2. UNCHANGED <<commits, st, job>> /\ [Store!Next]_Store!vars
  BY <1>1, StoreRests
<1>3. UNCHANGED <<log, task, since, at>> /\ [Live!Next]_Live!vars
  BY <1>1, FeedRests
<1>4. TypeOK'
  BY <1>1 DEF IInv, TypeOK
<1>5. Connections'
  BY <1>1, <1>2, ClientStill
<1>6. Tied'
  <2>1. \A W : InFlight(W)' = InFlight(W)
    BY <1>1 DEF InFlight
  <2>2. \A c \in Conns : Kept(c)' => Kept(c)
    BY <1>1, <1>2 DEF Kept
  <2>3. Mirrors'
    BY <1>1, <1>2, <2>1, MirrorsStill
  <2> QED BY <1>1, <1>2, <1>3, <2>1, <2>2, <2>3, TiedStill
<1> QED BY <1>2, <1>3, <1>4, <1>5, <1>6

LEMMA SubscribeInv ==
    ASSUME IInv, NEW k \in Clients, Subscribe(k)
    PROVE  TypeOK' /\ Connections' /\ Tied' /\ [Store!Next]_Store!vars /\ [Live!Next]_Live!vars
<1>1. /\ Live!Subscribe(k) /\ UNCHANGED <<connVars, storeVars, opened, heard, asOf>>
      /\ joined' = [joined EXCEPT ![k] = Len(commits)]
  BY DEF Subscribe
<1>2. DOMAIN task = Clients /\ DOMAIN since = Clients /\ DOMAIN at = Clients
  BY LiveFacts DEF IInv
<1>3. /\ UNCHANGED log /\ task[k] = "none" /\ task'[k] = "recv"
      /\ \A l \in Clients \ {k} : task'[l] = task[l] /\ since'[l] = since[l] /\ at'[l] = at[l]
  BY <1>1, <1>2 DEF Live!Subscribe
<1>4. Live!Next
  BY <1>1 DEF Live!Next
<1> QED BY <1>1, <1>3, <1>4, FeedStep

LEMMA SocketInv ==
    ASSUME IInv, NEW k \in Clients, Socket(k)
    PROVE  TypeOK' /\ Connections' /\ Tied' /\ [Store!Next]_Store!vars /\ [Live!Next]_Live!vars
<1>1. Live!TaskStep(k) /\ UNCHANGED <<connVars, storeVars, opened, joined, heard, asOf>>
  BY DEF Socket, clientVars
<1>2. DOMAIN task = Clients /\ DOMAIN at = Clients
  BY LiveFacts DEF IInv
<1>3. /\ UNCHANGED <<log, since>> /\ task[k] \in {"recv", "send"}
      /\ \E w \in {"recv", "send", "ended"} : task' = [task EXCEPT ![k] = w]
      /\ at' = at \/ \E n : at' = [at EXCEPT ![k] = n]
  BY <1>1 DEF Live!TaskStep, Live!Recv, Live!RecvPacket, Live!RecvLagged, Live!Send, Live!SendOk,
              Live!SendSwallowed, Live!SendErr, Live!peerVars, Live!Arrive
<1>4. task'[k] # "none" /\ \A l \in Clients \ {k} : task'[l] = task[l] /\ at'[l] = at[l]
  BY <1>2, <1>3
<1>5. Live!Next
  BY <1>1 DEF Live!Next
<1> QED BY <1>1, <1>3, <1>4, <1>5, FeedStep

LEMMA LeaveInv ==
    ASSUME IInv, NEW k \in Clients, Leave(k)
    PROVE  TypeOK' /\ Connections' /\ Tied' /\ [Store!Next]_Store!vars /\ [Live!Next]_Live!vars
<1>1. Live!PeerGone(k) /\ UNCHANGED <<connVars, storeVars, opened, joined, heard, asOf>>
  BY DEF Leave, clientVars
<1>2. UNCHANGED <<log, task, since, at>> /\ task[k] # "none"
  BY <1>1 DEF Live!PeerGone, Live!taskVars
<1>3. Live!Next
  BY <1>1 DEF Live!Next
<1> QED BY <1>1, <1>2, <1>3, FeedStep

\* A client's request, and the handler's steps for it.
LEMMA RequestStep ==
    ASSUME IInv, NEW k \in Clients, OnlyStore, UNCHANGED <<pc, cur, commits, opened, joined>>,
           \A c \in Conns : st'[c] = st[c] /\ job'[c] = job[c],
           \/ heard' = [heard EXCEPT ![k] = at[k] > since[k]] /\ asOf' = [asOf EXCEPT ![k] = Unanswered]
           \/ heard' = heard /\ asOf' = asOf
           \/ heard' = heard /\ asOf' = [asOf EXCEPT ![k] = Len(commits)]
    PROVE  TypeOK' /\ Connections' /\ Tied' /\ [Live!Next]_Live!vars
<1>1. UNCHANGED <<listener, wire, fin, reset, sent, pc, cur, mirrored, commits, opened, joined, liveVars>>
  BY DEF OnlyStore, uplinkVars
<1>2. UNCHANGED <<log, task, since, at>> /\ [Live!Next]_Live!vars
  BY <1>1, FeedRests
<1>3. /\ heard \in [Clients -> BOOLEAN] /\ asOf \in [Clients -> 0 .. Unanswered] /\ Len(commits) \in 0 .. Unanswered
      /\ Unanswered \in Nat /\ Unanswered' = Unanswered
  BY StoreFacts, Placed DEF IInv, TypeOK, Unanswered, MaxFrames
<1>4. /\ heard' \in [Clients -> BOOLEAN] /\ asOf' \in [Clients -> 0 .. Unanswered]
      /\ \A l \in Clients \ {k} : heard'[l] = heard[l] /\ asOf'[l] = asOf[l]
      /\ \/ (heard'[k] <=> at[k] > since[k]) /\ asOf'[k] = Unanswered
         \/ heard'[k] = heard[k] /\ asOf'[k] \in {asOf[k], Len(commits)}
  <2>1. (at[k] > since[k]) \in BOOLEAN
    BY LiveFacts DEF IInv
  <2>2. CASE heard' = [heard EXCEPT ![k] = at[k] > since[k]] /\ asOf' = [asOf EXCEPT ![k] = Unanswered]
    <3> DEFINE b == at[k] > since[k]
    <3>1. b \in BOOLEAN /\ heard' = [heard EXCEPT ![k] = b]
      BY <2>1, <2>2
    <3>2. (heard'[k] <=> b) /\ heard' \in [Clients -> BOOLEAN] /\ \A l \in Clients \ {k} : heard'[l] = heard[l]
      <4> HIDE DEF b
      <4> QED BY <1>3, <3>1, Zenon
    <3>3. /\ asOf' \in [Clients -> 0 .. Unanswered] /\ asOf'[k] = Unanswered
          /\ \A l \in Clients \ {k} : asOf'[l] = asOf[l]
      BY <1>3, <2>2
    <3> QED BY <3>2, <3>3
  <2>3. CASE heard' = heard /\ asOf' = asOf
    BY <1>3, <2>3
  <2>4. CASE heard' = heard /\ asOf' = [asOf EXCEPT ![k] = Len(commits)]
    BY <1>3, <2>4
  <2> QED BY <2>2, <2>3, <2>4
<1>5. TypeOK'
  BY <1>1, <1>3, <1>4 DEF IInv, TypeOK
<1>6. Connections'
  BY <1>1, ClientStill
<1>7. Tied
  BY DEF IInv
<1>8. Sourced' /\ \A c \in Conns : InTurn(commits, c)' /\ InTurn(log, c)'
  BY <1>1, <1>2, <1>7 DEF Tied, Sourced, InTurn, Elements
<1>9. LiveKnown'
  <2>1. \A c \in Conns : Kept(c)' => Kept(c)
    BY <1>1 DEF Kept
  <2> QED BY <1>1, <1>2, <1>7, <2>1 DEF Tied, LiveKnown
<1>10. Asked'
  <2>1. ASSUME NEW l \in Clients
        PROVE  /\ joined[l] <= Len(commits)
               /\ task[l] = "none" => at[l] = since[l]
               /\ heard'[l] => task[l] # "none"
               /\ heard'[l] /\ asOf'[l] # Unanswered => joined[l] <= asOf'[l]
    <3>1. /\ joined[l] <= Len(commits)
          /\ task[l] = "none" => at[l] = since[l]
          /\ heard[l] => task[l] # "none"
          /\ heard[l] /\ asOf[l] # Unanswered => joined[l] <= asOf[l]
      BY <1>7 DEF Tied, Asked
    <3>2. since[l] \in Nat /\ ~(since[l] > since[l])
      BY LiveFacts DEF IInv
    <3>3. CASE l # k
      BY <1>4, <3>1, <3>3
    <3>4. CASE l = k
      BY <1>4, <3>1, <3>2, <3>4
    <3> QED BY <3>3, <3>4
  <2> QED BY <1>1, <1>2, <1>3, <2>1 DEF Asked
<1>11. \A W : InFlight(W)' = InFlight(W)
  BY <1>1 DEF InFlight
<1>12. Mirrors'
  BY <1>1, <1>11, MirrorsStill
<1>13. Covered'
  BY <1>1, <1>2, <1>11, CoveredStill
<1>14. Tied'
  BY <1>8, <1>9, <1>10, <1>12, <1>13 DEF Tied
<1> QED BY <1>2, <1>5, <1>6, <1>14

LEMMA FetchInv ==
    ASSUME IInv, NEW k \in Clients, Fetch(k)
    PROVE  TypeOK' /\ Connections' /\ Tied' /\ [Store!Next]_Store!vars /\ [Live!Next]_Live!vars
<1>1. /\ OnlyStore /\ UNCHANGED <<pc, cur, opened, joined>>
      /\ heard' = [heard EXCEPT ![k] = at[k] > since[k]] /\ asOf' = [asOf EXCEPT ![k] = Unanswered]
  BY DEF Fetch
<1>2. PICK n \in Queries : Store!WantPackets(k, n)
  BY DEF Fetch
<1>3. k \notin Conns
  BY ConnAssumption
<1>4. DOMAIN st = Conns \cup Clients /\ DOMAIN job = Conns \cup Clients
  BY StoreFacts DEF IInv
<1>5. UNCHANGED commits /\ \A c \in Conns : st'[c] = st[c] /\ job'[c] = job[c]
  BY <1>2, <1>3, <1>4 DEF Store!WantPackets, Store!Ask
<1>6. TypeOK' /\ Connections' /\ Tied' /\ [Live!Next]_Live!vars
  BY <1>1, <1>5, RequestStep
<1>7. Store!Next
  BY <1>2, <1>3 DEF Store!Next, Store!Tasks, Store!Want
<1> QED BY <1>6, <1>7

LEMMA HandleFetchInv ==
    ASSUME IInv, NEW k \in Clients, HandleFetch(k)
    PROVE  TypeOK' /\ Connections' /\ Tied' /\ [Store!Next]_Store!vars /\ [Live!Next]_Live!vars
<1>1. /\ OnlyStore /\ UNCHANGED <<pc, cur, opened, joined, heard>>
      /\ Store!Grant(k) \/ Store!ReadFirst(k) \/ Store!ReadRest(k)
      /\ asOf' = asOf \/ asOf' = [asOf EXCEPT ![k] = Len(commits)]
  BY DEF HandleFetch
<1>2. k \notin Conns
  BY ConnAssumption
<1>3. DOMAIN st = Conns \cup Clients /\ DOMAIN job = Conns \cup Clients
  BY StoreFacts DEF IInv
<1>4. UNCHANGED commits /\ \A c \in Conns : st'[c] = st[c] /\ job'[c] = job[c]
  BY <1>1, <1>2, <1>3 DEF Store!Grant, Store!ReadFirst, Store!ReadRest, Store!storeVars
<1>5. TypeOK' /\ Connections' /\ Tied' /\ [Live!Next]_Live!vars
  BY <1>1, <1>4, RequestStep
<1>6. Store!Next
  BY <1>1 DEF Store!Next, Store!Tasks, Store!InsideStep
<1> QED BY <1>5, <1>6

-----------------------------------------------------------------------------
LEMMA InitInv == Init => IInv
<1> SUFFICES ASSUME Init PROVE IInv
  OBVIOUS
<1> USE DEF Init
<1>1. SP!IInv
  <2>1. \A f \in Frames : {"vendor", "rat", "layer", "full"} \subseteq DOMAIN f /\ f.full \in BOOLEAN
    BY FrameAssumption
  <2> QED BY <2>1, SP!InitInv, SameStore, ConnAssumption, LimitAssumption
<1>2. LP!IInv
  BY LP!InitInv, SameLive, LimitAssumption
<1>3. commits = <<>> /\ st = [t \in Conns \cup Clients |-> "idle"]
  BY DEF Store!Init, Store!Tasks
<1>4. /\ log = <<>> /\ task = [k \in Clients |-> "none"]
      /\ since = [k \in Clients |-> 0] /\ at = [k \in Clients |-> 0]
  BY DEF Live!Init
<1>5. MaxFrames \in Nat
  BY FrameAssumption, FS_CardinalityType DEF MaxFrames
<1>6. TypeOK
  BY <1>5, ScriptFacts DEF TypeOK, Unanswered
<1>7. Elements(commits) = {} /\ Elements(log) = {}
  BY <1>3, <1>4 DEF Elements
<1>8. ASSUME NEW c \in Conns PROVE Stream(c) /\ Position(c) /\ AtLock(c)
  <2>1. pc[c] = "none" /\ wire[c] = <<>> /\ sent[c] = 0 /\ st[c] = "idle" /\ Len(<<>>) = 0
    BY <1>3
  <2>2. StoredAt(c) = 1 .. 0
    BY <1>7 DEF StoredAt
  <2>3. Stored(c) = 0
    BY <2>2, StoredIs
  <2>4. ~Fresh(c) /\ ~Kept(c)
    BY <2>1 DEF Fresh, Kept
  <2>5. Taken(c) = 0 /\ Left(c) = 0 /\ Whole(wire[c]) = 0
    BY <2>1, <2>3, <2>4 DEF Taken, Left, Whole
  <2>6. Carries(wire[c], Taken(c), c)
    BY <2>5 DEF Carries
  <2>7. Stream(c)
    BY <2>1, <2>5, <2>6 DEF Stream
  <2>8. Position(c)
    BY <2>1, <2>2, <2>3, <2>4 DEF Position
  <2>9. AtLock(c)
    BY <2>1 DEF AtLock
  <2> QED BY <2>7, <2>8, <2>9
<1>9. Tied
  <2>1. Len(commits) = 0 /\ Len(log) = 0 /\ DOMAIN commits = {} /\ DOMAIN log = {}
    BY <1>3, <1>4
  <2>2. InFlight({"decoded", "store"}) = {} /\ \A c \in Conns : ~Kept(c)
    BY DEF InFlight, Kept
  <2>3. Sourced /\ \A c \in Conns : InTurn(commits, c) /\ InTurn(log, c)
    BY <2>1 DEF Sourced, InTurn
  <2>4. LiveKnown
    BY <2>1, <2>2 DEF LiveKnown
  <2>5. Asked
    BY <1>4, <2>1 DEF Asked
  <2>6. Mirrors
    BY <2>2, <1>7 DEF Mirrors, MirrorCovers
  <2>7. Covered
    BY <1>4 DEF Covered, Live!Subscribers
  <2> QED BY <2>3, <2>4, <2>5, <2>6, <2>7 DEF Tied
<1> QED BY <1>1, <1>2, <1>6, <1>8, <1>9 DEF IInv, Connections

\* Each step of the service keeps the invariant and is a step of the store, of
\* the feed, of both or of neither.
LEMMA StepInv ==
    ASSUME IInv, Next
    PROVE  TypeOK' /\ Connections' /\ Tied' /\ [Store!Next]_Store!vars /\ [Live!Next]_Live!vars
<1> DEFINE Goal == TypeOK' /\ Connections' /\ Tied' /\ [Store!Next]_Store!vars /\ [Live!Next]_Live!vars
<1>1. ASSUME NEW c \in Conns, AgentStep(c) PROVE Goal
  BY <1>1, AgentInv
<1>2. ASSUME NEW c \in Conns, Accept(c) PROVE Goal
  BY <1>2, AcceptInv
<1>3. ASSUME NEW c \in Conns, IngestStep(c) PROVE Goal
  <2>1. CASE ReadLength(c)
    BY <2>1, ReadLengthInv
  <2>2. CASE ReadBody(c)
    BY <2>2, ReadBodyInv
  <2>3. CASE Mirror(c)
    BY <2>3, MirrorInv
  <2>4. CASE AskStore(c)
    BY <2>4, AskStoreInv
  <2>5. CASE InStore(c)
    <3>1. pc[c] = "store" /\ OnlyStore /\ UNCHANGED <<pc, cur, clientVars>> /\ (Store!Grant(c) \/ Store!Count(c))
      BY <2>5 DEF InStore
    <3>2. CASE Store!Grant(c)
      BY <3>1, <3>2, GrantedInv
    <3>3. CASE Store!Count(c)
      BY <3>1, <3>3, CountedInv
    <3> QED BY <3>1, <3>2, <3>3
  <2>6. CASE LeaveStore(c)
    BY <2>6, LeaveStoreInv
  <2>7. CASE PublishLive(c)
    BY <2>7, PublishLiveInv
  <2> HIDE DEF Goal
  <2> QED BY <1>3, <2>1, <2>2, <2>3, <2>4, <2>5, <2>6, <2>7 DEF IngestStep
<1>4. ASSUME AcceptFails PROVE Goal
  BY <1>4, AcceptFailsInv
<1>5. ASSUME NEW k \in Clients, Upgrade(k) PROVE Goal
  BY <1>5, UpgradeInv
<1>6. ASSUME NEW k \in Clients, Subscribe(k) PROVE Goal
  BY <1>6, SubscribeInv
<1>7. ASSUME NEW k \in Clients, Fetch(k) PROVE Goal
  BY <1>7, FetchInv
<1>8. ASSUME NEW k \in Clients, HandleFetch(k) PROVE Goal
  BY <1>8, HandleFetchInv
<1>9. ASSUME NEW k \in Clients, Socket(k) PROVE Goal
  BY <1>9, SocketInv
<1>10. ASSUME NEW k \in Clients, Leave(k) PROVE Goal
  BY <1>10, LeaveInv
<1> HIDE DEF Goal
<1>11. Goal
  <2>1. CASE \E c \in Conns : AgentStep(c) \/ Accept(c) \/ IngestStep(c)
    <3>1. PICK c \in Conns : AgentStep(c) \/ Accept(c) \/ IngestStep(c)
      BY <2>1
    <3> QED BY <1>1, <1>2, <1>3, <3>1
  <2>2. CASE \E k \in Clients : \/ Upgrade(k) \/ Subscribe(k) \/ Fetch(k) \/ HandleFetch(k)
                                \/ Socket(k) \/ Leave(k)
    <3>1. PICK k \in Clients : \/ Upgrade(k) \/ Subscribe(k) \/ Fetch(k) \/ HandleFetch(k)
                               \/ Socket(k) \/ Leave(k)
      BY <2>2
    <3> QED BY <1>5, <1>6, <1>7, <1>8, <1>9, <1>10, <3>1
  <2> QED BY <1>4, <2>1, <2>2 DEF Next
<1> QED BY <1>11 DEF Goal

LEMMA Stutters ==
    ASSUME IInv, UNCHANGED vars
    PROVE  TypeOK' /\ Connections' /\ Tied' /\ [Store!Next]_Store!vars /\ [Live!Next]_Live!vars
<1>1. OnlyConn /\ UNCHANGED <<listener, wire, fin, reset, sent, pc, cur, mirrored>>
  BY DEF vars, connVars, uplinkVars, OnlyConn
<1>2. UNCHANGED <<commits, st, job, opened, joined, heard, asOf>>
  BY <1>1 DEF OnlyConn, storeVars, clientVars
<1>3. TypeOK'
  BY <1>1, <1>2 DEF IInv, TypeOK
<1>4. Connections'
  BY <1>1, <1>2, ClientStill
<1> QED BY <1>1, <1>3, <1>4, OutsideKeeps, PartsRest

LEMMA NextInv == IInv /\ [Next]_vars => IInv' /\ [Store!Next]_Store!vars /\ [Live!Next]_Live!vars
<1> SUFFICES ASSUME IInv, [Next]_vars PROVE IInv' /\ [Store!Next]_Store!vars /\ [Live!Next]_Live!vars
  OBVIOUS
<1>1. TypeOK' /\ Connections' /\ Tied' /\ [Store!Next]_Store!vars /\ [Live!Next]_Live!vars
  BY StepInv, Stutters
<1>2. SP!IInv' /\ LP!IInv'
  <2>1. SP!IInv /\ LP!IInv
    BY DEF IInv
  <2> QED BY <1>1, <2>1, StoreKeeps, LiveKeeps
<1> QED BY <1>1, <1>2 DEF IInv

\* The inductive invariant holds throughout every run of the service: any
\* number of agents and clients, any frames, good or bad, cut anywhere.
THEOREM Invariance == Spec => []IInv
<1>1. IInv /\ [Next]_vars => IInv'
  BY NextInv
<1> QED BY InitInv, <1>1, PTL DEF Spec

\* TypeCorrect: the streams, the tasks' positions and what clients remember
\* keep their types.
THEOREM TypeCorrect == Spec => []TypeOK
<1>1. IInv => TypeOK
  BY DEF IInv
<1> QED BY Invariance, <1>1, PTL

\* SentInOrder: run_ingest and process_frame store what one agent sends from its
\* first frame on, in its order, none twice and none left out, and publish it
\* in that order, however many agents there are.
THEOREM SentInOrder == Spec => []InOrder
<1>1. IInv => InOrder
  <2> SUFFICES ASSUME IInv PROVE InOrder
    OBVIOUS
  <2>1. \A c \in Conns : InTurn(commits, c) /\ InTurn(log, c)
    BY DEF IInv, Tied
  <2>2. \A c \in Conns : StoredAt(c) = 1 .. Stored(c) /\ Stored(c) <= sent[c]
    BY DEF IInv, Connections, Position
  <2> QED BY <2>1, <2>2 DEF InOrder
<1> QED BY Invariance, <1>1, PTL

\* LiveIsInHistory: process_frame publishes nothing that it has not stored.
THEOREM LiveIsInHistory == Spec => []LiveIsStored
<1>1. IInv => LiveIsStored
  <2> SUFFICES ASSUME IInv PROVE LiveIsStored
    OBVIOUS
  <2>1. \A x \in 1 .. Len(log) : \E y \in 1 .. Len(commits) : log[x] = commits[y]
    BY DEF IInv, Tied, LiveKnown
  <2>2. /\ Elements(log) = {log[x] : x \in 1 .. Len(log)}
        /\ Elements(commits) = {commits[y] : y \in 1 .. Len(commits)}
    BY StoreFacts, LiveFacts, ElementsAre DEF IInv
  <2> QED BY <2>1, <2>2 DEF LiveIsStored
<1> QED BY Invariance, <1>1, PTL

LEMMA Counts ==
    ASSUME IInv
    PROVE  /\ Live!Subscribers \subseteq Clients
           /\ \A k \in Clients : joined[k] \in Nat /\ asOf[k] \in Nat
           /\ Len(commits) \in Nat
<1>1. MaxFrames \in Nat /\ Unanswered \in Nat
  BY Placed DEF Unanswered
<1>2. \A k \in Clients : joined[k] \in Nat /\ asOf[k] \in Nat
  BY <1>1 DEF IInv, TypeOK
<1>3. Len(commits) \in Nat
  BY StoreFacts DEF IInv
<1> QED BY <1>2, <1>3 DEF Live!Subscribers

\* NothingMissed: a client that its WebSocket has brought something before it
\* asks /packets for the history finds every later packet on the feed or about
\* to be there; one that asks when ws_upgrade has answered, or before, misses
\* none but those committed before the websocket task subscribed.
THEOREM NothingMissed == Spec => []NoGap
<1>1. IInv => NoGap
  <2> SUFFICES ASSUME IInv, NEW k \in Live!Subscribers, asOf[k] # Unanswered,
                      NEW i \in asOf[k] + 1 .. Len(commits), heard[k] \/ i > joined[k]
               PROVE  OnFeed(k, commits[i])
    <3>1. ASSUME IInv PROVE /\ Live!Subscribers \subseteq Clients
                            /\ \A k \in Clients : joined[k] \in Nat /\ asOf[k] \in Nat
                            /\ Len(commits) \in Nat
      BY <3>1, Counts
    <3>2. ASSUME IInv PROVE \A k \in Live!Subscribers : \A i \in asOf[k] + 1 .. Len(commits) :
                               i <= joined[k] \/ i > joined[k]
      BY <3>1, <3>2
    <3> QED BY <3>2 DEF NoGap, OnFeed
  <2>1. k \in Clients /\ Tied /\ TypeOK
    BY DEF Live!Subscribers, IInv
  <2>2. joined[k] \in Nat /\ asOf[k] \in Nat /\ Len(commits) \in Nat
    BY <2>1, Counts
  <2>3. heard[k] => joined[k] <= asOf[k]
    BY <2>1 DEF Tied, Asked
  <2>4. i \in joined[k] + 1 .. Len(commits)
    BY <2>2, <2>3
  <2> QED BY <2>1, <2>4 DEF Tied, Covered
<1> QED BY Invariance, <1>1, PTL

\* MirrorAgrees: the GSMTAP branch of process_frame hands out exactly the Qualcomm
\* frames that are stored, but for those between the two steps and those whose
\* packet cannot be serialized, which end their connection there.
THEOREM MirrorAgrees == Spec => []MirrorCovers
<1>1. IInv => MirrorCovers
  BY DEF IInv, Tied, Mirrors
<1> QED BY Invariance, <1>1, PTL

\* EndsClean: ingest_client ends without an error only when all that its agent
\* had written completely is stored.
THEOREM EndsClean == Spec => []CleanEnd
<1>1. IInv => CleanEnd
  <2> SUFFICES ASSUME IInv PROVE CleanEnd
    OBVIOUS
  <2>1. \A c \in Conns : pc[c] = "ok" => Stored(c) = sent[c]
    BY DEF IInv, Connections, Position
  <2> QED BY <2>1 DEF CleanEnd
<1> QED BY Invariance, <1>1, PTL

\* DropsExplained: ingest_client drops a connection only for a fault of that
\* agent's own next frame, or of the datagram or the JSON that it becomes, or
\* when that connection itself breaks while the next frame is read.
THEOREM DropsExplained == Spec => []ErrorsExplained
<1>1. IInv => ErrorsExplained
  <2> SUFFICES ASSUME IInv PROVE ErrorsExplained
    OBVIOUS
  <2>1. \A c \in Conns : pc[c] = "error" => Explained(c)
    BY DEF IInv, Connections, Position
  <2> QED BY <2>1 DEF ErrorsExplained, Explained
<1> QED BY Invariance, <1>1, PTL

\* PartsImplemented: tasks, handlers and sockets use the store and the feed only
\* as PacketStore and LiveFeed allow, within the bounds of both.
THEOREM PartsImplemented == Spec => ImplementsParts
<1>1. Init => Store!Init /\ Live!Init
  BY DEF Init
<1>2. IInv /\ [Next]_vars => [Store!Next]_Store!vars
  BY NextInv
<1>3. IInv /\ [Next]_vars => [Live!Next]_Live!vars
  BY NextInv
<1> QED BY Invariance, <1>1, <1>2, <1>3, PTL DEF Spec, ImplementsParts, Store!Spec, Live!Spec

\* PromisesHold: so the whole service keeps what the two promise: REST answers as
\* if each request ran alone, and a feed whose gaps are all reported.
THEOREM PromisesHold == Spec => SP!ImplementsAtomic /\ LP!ImplementsFeed
<1>1. SP!Spec => SP!ImplementsAtomic
  <2>1. \A f \in Frames : {"vendor", "rat", "layer", "full"} \subseteq DOMAIN f /\ f.full \in BOOLEAN
    BY FrameAssumption
  <2> QED BY <2>1, SP!AnswersAtomic, ConnAssumption, LimitAssumption
<1>2. LP!Spec => LP!ImplementsFeed
  BY LP!FeedImplemented, LimitAssumption
<1>3. Store!Init => SP!Init
  BY SameStore
<1>4. Live!Init => LP!Init
  BY SameLive
<1>5. [Store!Next]_Store!vars => [SP!Next]_SP!vars
  BY SameStore
<1>6. [Live!Next]_Live!vars => [LP!Next]_LP!vars
  BY SameLive
<1>7. Spec => SP!Spec /\ LP!Spec
  BY PartsImplemented, <1>3, <1>4, <1>5, <1>6, PTL
     DEF ImplementsParts, Store!Spec, Live!Spec, SP!Spec, LP!Spec
<1> QED BY <1>1, <1>2, <1>7, PTL

-----------------------------------------------------------------------------
(***************************************************************************)
(* Why a frame is stored in the end (FrameFate).                           *)
(***************************************************************************)

\* WrittenIsKept: a frame that an agent has written completely is never lost on
\* its way: it is stored, or its task is about to store it, or it is still on
\* the wire, unless the connection has failed.
WrittenIsKept ==
    \A c \in Conns : pc[c] # "error" =>
        \A n \in 1 .. sent[c] :
            \/ n <= Stored(c)
            \/ Fresh(c) /\ cur[c] = Script[c][n]
            \/ \E i \in DOMAIN wire[c] : wire[c][i] = BodyOf(Script[c][n])

LEMMA OnTheWire ==
    ASSUME IInv, NEW c \in Conns, pc[c] \notin {"ok", "error"}, NEW n \in 1 .. sent[c],
           ~(n <= Stored(c)), ~(Fresh(c) /\ n = Stored(c) + 1)
    PROVE  \E i \in DOMAIN wire[c] : wire[c][i] = BodyOf(Script[c][n])
<1> DEFINE w == wire[c]
           t == Taken(c)
           k == Whole(w)
           i == 2 * n - t
<1>1. /\ w \in Seq(Parts) /\ sent[c] \in Nat /\ sent[c] <= Len(Script[c]) /\ Len(Script[c]) \in Nat
      /\ Stored(c) \in Nat /\ t \in Nat /\ Stream(c)
  BY ConnFacts
<1>2. t + k \in {2 * sent[c], 2 * sent[c] + 1} /\ Carries(w, t, c)
  BY <1>1 DEF Stream, Left
<1>3. k \in Nat /\ k <= Len(w) /\ Len(w) \in Nat /\ DOMAIN w = 1 .. Len(w)
  BY <1>1, WholeIs, LenProperties
<1>4. t < 2 * n
  <2>1. \/ t = 2 * Stored(c) \/ t = 2 * Stored(c) + 1
        \/ t = 2 * Stored(c) + 2 /\ Fresh(c)
    BY <1>1 DEF Taken
  <2> HIDE DEF t
  <2>2. n \in Nat /\ n >= Stored(c) + 1 /\ (Fresh(c) => n >= Stored(c) + 2)
    BY <1>1
  <2> QED BY <1>1, <2>1, <2>2
<1> HIDE DEF w, t, k
<1>5. n \in Nat /\ n <= sent[c] /\ n \in 1 .. Len(Script[c])
  BY <1>1
<1>6. i \in 1 .. k /\ t + i = 2 * n /\ i \in DOMAIN w
  BY <1>1, <1>2, <1>3, <1>4, <1>5
<1> HIDE DEF i
<1>7. w[i] = BodyOf(Script[c][n])
  BY <1>2, <1>5, <1>6 DEF Carries, k
<1> QED BY <1>6, <1>7 DEF w

\* NobodyStalls: an ingest task is held up by nothing but bytes still to come
\* and the store's lock.  What is at the head of its stream is what it reads
\* next, or the stream is over; with a decoded frame it is not at the lock yet,
\* and then it is, with that frame to store; and what it has stored it can
\* publish.
NobodyStalls ==
    \A c \in Conns :
        /\ pc[c] \in {"length", "body"} =>
              \/ wire[c] = <<>> /\ ~fin[c]
              \/ Eof(c)
              \/ wire[c] # <<>> /\ Head(wire[c]).part = pc[c]
        /\ pc[c] = "decoded" => st[c] = "idle" /\ Store!Room
        /\ pc[c] = "store" => st[c] # "idle" /\ job[c] = [op |-> "store", packet |-> cur[c]]
        /\ pc[c] = "live" => Len(log) < MaxFrames /\ cur[c] \in Frames

LEMMA ReadsWhatIsThere ==
    ASSUME IInv, NEW c \in Conns, pc[c] \in {"length", "body"}, wire[c] # <<>>, ~Eof(c)
    PROVE  Head(wire[c]).part = pc[c]
<1> DEFINE w == wire[c]
           n == Stored(c) + 1
<1>1. w \in Seq(Parts) /\ Len(w) \in Nat /\ w # <<>> /\ Stream(c) /\ sent[c] \in Nat /\ Taken(c) \in Nat
      /\ sent[c] <= Len(Script[c]) /\ Len(Script[c]) \in Nat
  BY ConnFacts
<1>2. Whole(w) < Len(w) => fin[c]
  BY <1>1 DEF Stream, Left
<1>3. ASSUME Head(w) = Cut PROVE FALSE
  <2>1. Len(w) >= 1 /\ Head(w) = w[1]
    BY <1>1
  <2>2. CASE Len(w) = 1
    <3>1. w = <<Cut>> /\ w[Len(w)] = Cut
      BY <1>1, <1>3, <2>1, <2>2
    <3>2. Whole(w) = Len(w) - 1
      BY <1>1, <3>1 DEF Whole
    <3> QED BY <1>1, <1>2, <3>1, <3>2 DEF Eof
  <2>3. CASE Len(w) # 1
    <3>1. 1 \in 1 .. Whole(w)
      <4>1. Whole(w) = Len(w) \/ Whole(w) = Len(w) - 1
        BY DEF Whole
      <4> DEFINE l == Len(w)
                 k == Whole(w)
      <4>2. l \in Nat /\ l >= 1 /\ l # 1 /\ (k = l \/ k = l - 1)
        BY <1>1, <2>1, <2>3, <4>1
      <4> HIDE DEF l, k
      <4>3. 1 \in 1 .. k
        BY <4>2
      <4> QED BY <4>3 DEF k
    <3>2. PICK m \in 1 .. Len(Script[c]) : Taken(c) + 1 \in {2 * m - 1, 2 * m}
      <4> DEFINE t == Taken(c)
                 s == sent[c]
                 l == Len(Script[c])
                 k == Whole(w)
      <4>1. /\ t \in Nat /\ s \in Nat /\ l \in Nat /\ s <= l /\ k \in Nat /\ k >= 1
            /\ t + k = 2 * s \/ (t + k = 2 * s + 1 /\ s < l)
        <5>1. Whole(w) \in Nat /\ Whole(w) >= 1
          BY <1>1, <3>1, WholeIs
        <5> QED BY <1>1, <5>1 DEF Stream, Left
      <4> HIDE DEF t, s, l, k
      <4>2. t < 2 * l
        BY <4>1
      <4>3. PICK m \in Nat : t = 2 * m \/ t = 2 * m + 1
        <5>1. \/ Taken(c) = 2 * Stored(c) \/ Taken(c) = 2 * Stored(c) + 1
              \/ Taken(c) = 2 * (Stored(c) + 1)
          BY ConnFacts DEF Taken
        <5>2. Stored(c) \in Nat /\ Stored(c) + 1 \in Nat
          BY ConnFacts
        <5> QED BY <5>1, <5>2 DEF t
      <4>4. m + 1 \in 1 .. l /\ t + 1 \in {2 * (m + 1) - 1, 2 * (m + 1)}
        BY <4>1, <4>2, <4>3
      <4> QED BY <4>4 DEF t, l
    <3>3. w[1] = LengthOf(Script[c][m]) \/ w[1] = BodyOf(Script[c][m])
      BY <1>1, <3>1, <3>2 DEF Stream, Carries
    <3> QED BY <1>3, <2>1, <3>2, <3>3, PartsAre, ScriptFacts
  <2> QED BY <2>2, <2>3
<1>4. /\ Script[c][n] \in Frames
      /\ pc[c] = "length" => Head(w) = LengthOf(Script[c][n])
      /\ pc[c] = "body" => Head(w) = BodyOf(Script[c][n])
  BY <1>3, HeadNext
<1> QED BY <1>4, PartsAre

\* What a task has to publish is not live yet, so the feed has a place for it.
LEMMA RoomOnTheFeed ==
    ASSUME IInv, NEW c \in Conns, pc[c] = "live"
    PROVE  Len(log) < MaxFrames /\ cur[c] \in Frames
<1> DEFINE E == Elements(log)
<1>1. Kept(c)
  BY DEF Kept
<1>2. cur[c] \in Frames
  BY <1>1, HeldKept
<1>3. Cardinality(E) = Len(log) /\ IsFiniteSet(E) /\ E \subseteq Frames
  BY Placed
<1>4. cur[c] \notin E
  <2>1. E = {log[x] : x \in 1 .. Len(log)}
    BY LiveFacts, ElementsAre DEF IInv
  <2>2. \A x \in 1 .. Len(log) : log[x] # cur[c]
    BY <1>1 DEF IInv, Tied, LiveKnown
  <2> QED BY <2>1, <2>2
<1> HIDE DEF E
<1>5. Cardinality(E \cup {cur[c]}) = Cardinality(E) + 1
  BY <1>3, <1>4, FS_AddElement
<1>6. Cardinality(E \cup {cur[c]}) <= MaxFrames
  BY <1>2, <1>3, FrameAssumption, FS_Subset DEF MaxFrames
<1>7. MaxFrames \in Nat /\ Len(log) \in Nat
  BY Placed, LiveFacts DEF IInv
<1> QED BY <1>2, <1>3, <1>5, <1>6, <1>7

\* A frame that was written is not lost between the agent and the store.
THEOREM WrittenStays == Spec => []WrittenIsKept
<1>1. IInv => WrittenIsKept
  <2> SUFFICES ASSUME IInv, NEW c \in Conns, pc[c] # "error", NEW n \in 1 .. sent[c], ~(n <= Stored(c))
               PROVE  \/ Fresh(c) /\ cur[c] = Script[c][n]
                      \/ \E i \in DOMAIN wire[c] : wire[c][i] = BodyOf(Script[c][n])
    BY DEF WrittenIsKept
  <2>1. pc[c] # "ok"
    <3>1. pc[c] = "ok" => Stored(c) = sent[c]
      BY ConnFacts DEF Position
    <3>2. n <= sent[c]
      BY ConnFacts
    <3> QED BY <3>1, <3>2
  <2>2. CASE Fresh(c) /\ n = Stored(c) + 1
    BY <2>2, HeldFresh
  <2>3. CASE ~(Fresh(c) /\ n = Stored(c) + 1)
    BY <2>1, <2>3, OnTheWire
  <2> QED BY <2>2, <2>3
<1> QED BY <1>1, Invariance, PTL

\* An ingest task that is polled goes on, unless it waits for bytes or for the
\* lock, whatever the agents and clients do.
THEOREM TasksGoOn == Spec => []NobodyStalls
<1>1. IInv => NobodyStalls
  <2> SUFFICES ASSUME IInv, NEW c \in Conns
               PROVE  /\ pc[c] \in {"length", "body"} =>
                            \/ wire[c] = <<>> /\ ~fin[c]
                            \/ Eof(c)
                            \/ wire[c] # <<>> /\ Head(wire[c]).part = pc[c]
                      /\ pc[c] = "decoded" => st[c] = "idle" /\ Store!Room
                      /\ pc[c] = "store" => st[c] # "idle" /\ job[c] = [op |-> "store", packet |-> cur[c]]
                      /\ pc[c] = "live" => Len(log) < MaxFrames /\ cur[c] \in Frames
    BY DEF NobodyStalls
  <2>1. AtLock(c) /\ fin[c] \in BOOLEAN
    BY ConnFacts
  <2>2. ASSUME pc[c] \in {"length", "body"}
        PROVE  \/ wire[c] = <<>> /\ ~fin[c]
               \/ Eof(c)
               \/ wire[c] # <<>> /\ Head(wire[c]).part = pc[c]
    BY <2>1, <2>2, ReadsWhatIsThere DEF Eof
  <2>3. ASSUME pc[c] = "decoded" PROVE st[c] = "idle" /\ Store!Room
    BY <2>1, <2>3, RoomLeft DEF AtLock
  <2>4. ASSUME pc[c] = "store" PROVE st[c] # "idle" /\ job[c] = [op |-> "store", packet |-> cur[c]]
    <3>1. st[c] # "idle" /\ job[c].packet = cur[c]
      BY <2>1, <2>4 DEF AtLock
    <3>2. job[c] = [op |-> "store", packet |-> job[c].packet]
      BY <3>1 DEF IInv, SP!IInv, SP!Assigned, SP!TypeOK, SP!Tasks
    <3> QED BY <3>1, <3>2
  <2>5. ASSUME pc[c] = "live" PROVE Len(log) < MaxFrames /\ cur[c] \in Frames
    BY <2>5, RoomOnTheFeed
  <2> QED BY <2>2, <2>3, <2>4, <2>5
<1> QED BY <1>1, Invariance, PTL

\* ProgressHolds: so in the whole service, too, no request for the store is ever
\* overtaken, by an agent's packet or by a client's question, and each wait gets
\* shorter; and a websocket task that goes on catches up with the feed, as far
\* as it has been told of, or ends when its client has gone.
THEOREM ProgressHolds == Spec => /\ SP!NobodyOvertakes /\ SP!WaitShortens
                                 /\ []LP!CaughtUp /\ LP!CatchingUp /\ LP!GoneTasksEnd
<1>1. SP!Spec => SP!NobodyOvertakes /\ SP!WaitShortens
  <2>1. \A f \in Frames : {"vendor", "rat", "layer", "full"} \subseteq DOMAIN f /\ f.full \in BOOLEAN
    BY FrameAssumption
  <2>2. SP!Spec => SP!NobodyOvertakes
    BY <2>1, SP!NobodyIsOvertaken, ConnAssumption, LimitAssumption
  <2>3. SP!Spec => SP!WaitShortens
    BY <2>1, SP!WaitsGetShorter, ConnAssumption, LimitAssumption
  <2> QED BY <2>2, <2>3
<1>2. LP!Spec => []LP!CaughtUp /\ LP!CatchingUp /\ LP!GoneTasksEnd
  <2>1. LP!Spec => []LP!CaughtUp
    BY LP!ReportsAreComplete, LimitAssumption
  <2>2. LP!Spec => LP!CatchingUp
    BY LP!TasksCatchUp, LimitAssumption
  <2>3. LP!Spec => LP!GoneTasksEnd
    BY LP!GoneAreUncounted, LimitAssumption
  <2> QED BY <2>1, <2>2, <2>3
<1>3. Store!Init => SP!Init
  BY SameStore
<1>4. Live!Init => LP!Init
  BY SameLive
<1>5. [Store!Next]_Store!vars => [SP!Next]_SP!vars
  BY SameStore
<1>6. [Live!Next]_Live!vars => [LP!Next]_LP!vars
  BY SameLive
<1>7. Spec => SP!Spec /\ LP!Spec
  BY PartsImplemented, <1>3, <1>4, <1>5, <1>6, PTL
     DEF ImplementsParts, Store!Spec, Live!Spec, SP!Spec, LP!Spec
<1> QED BY <1>1, <1>2, <1>7, PTL
=============================================================================
