--------------------------- MODULE LiveFeedProofs ---------------------------
(***************************************************************************)
(* Proofs about LiveFeed, for every number of clients, every capacity and  *)
(* every bound: the transcript a client holds is faithful, only            *)
(* overwritten entries are skipped, channel and tasks implement Feed, and  *)
(* a task that goes on catches up or, when its client has gone, ends.      *)
(***************************************************************************)
EXTENDS LiveFeed, TLAPS

Joined == {c \in Clients : task[c] # "none"}

\* A receiver stands inside the channel's log or right behind it.
Positions == \A c \in Joined : next[c] \in 1 .. Len(log) + 1 /\ since[c] <= Len(log)

\* A task holds a message exactly while it sends; the packet is the entry it
\* read last, the notice counts entries the channel no longer has.
HeldTrue ==
    \A c \in Clients :
        IF task[c] = "send"
        THEN \/ /\ held[c].kind = "packet"
                /\ next[c] > 1
                /\ held[c] = Packet(log[next[c] - 1])
             \/ /\ held[c].kind = "lagged"
                /\ next[c] - 1 + Cap <= Len(log)
        ELSE held[c] = NoMessage

\* A client never accounts for more than was published, and has accounted for
\* nothing before it joins.
AtBound == \A c \in Clients : /\ at[c] <= Len(log)
                              /\ task[c] = "none" => got[c] = {} /\ peer[c] = "up"

IInv == TypeOK /\ Positions /\ HeldTrue /\ AtBound /\ InStep /\ Placed /\ OnlyOverwrittenSkipped

USE CapAssumption

\* Appending keeps every earlier entry where it was.
LEMMA AppendKeeps ==
    ASSUME NEW s \in Seq(Values), NEW v \in Values
    PROVE  /\ Append(s, v) \in Seq(Values)
           /\ Len(Append(s, v)) = Len(s) + 1
           /\ \A i \in 1 .. Len(s) : Append(s, v)[i] = s[i]
  OBVIOUS

LEMMA InitInv == Init => IInv
  BY DEF Init, IInv, TypeOK, Positions, Joined, HeldTrue, AtBound, InStep, Pending, Placed,
         OnlyOverwrittenSkipped, Subscribers, NoMessage, Messages

LEMMA PublishInv == ASSUME IInv, NEW v \in Values, Publish(v) PROVE IInv'
<1>1. CASE Subscribers = {}
  <2>1. UNCHANGED vars
    BY <1>1 DEF Publish, vars, taskVars, peerVars
  <2> QED BY <2>1 DEF IInv, vars, TypeOK, Positions, Joined, HeldTrue, AtBound, InStep, Pending,
                  Placed, OnlyOverwrittenSkipped, Subscribers
<1>2. CASE Subscribers # {}
  <2>1. log' = Append(log, v) /\ UNCHANGED <<task, next, held, peer, since, at, got>>
    BY <1>2 DEF Publish, taskVars, peerVars
  <2>2. /\ log' \in Seq(Values)
        /\ Len(log') = Len(log) + 1
        /\ \A i \in 1 .. Len(log) : log'[i] = log[i]
    BY <2>1, AppendKeeps DEF IInv, TypeOK
  <2>3. TypeOK'
    BY <2>1, <2>2 DEF IInv, TypeOK
  <2>4. Positions'
    BY <2>1, <2>2 DEF IInv, TypeOK, Positions, Joined
  <2>5. HeldTrue'
    <3> SUFFICES ASSUME NEW c \in Clients, task[c] = "send"
                 PROVE  \/ /\ held[c].kind = "packet"
                           /\ next[c] > 1
                           /\ held[c] = Packet(log'[next[c] - 1])
                        \/ /\ held[c].kind = "lagged"
                           /\ next[c] - 1 + Cap <= Len(log')
      BY <2>1 DEF IInv, HeldTrue
    <3>1. next[c] \in 1 .. Len(log) + 1 /\ next[c] \in Nat
      BY DEF IInv, TypeOK, Positions, Joined
    <3>2. CASE held[c].kind = "packet"
      <4>1. next[c] > 1 /\ held[c] = Packet(log[next[c] - 1])
        BY <3>2 DEF IInv, HeldTrue
      <4>2. log'[next[c] - 1] = log[next[c] - 1]
        BY <4>1, <3>1, <2>2
      <4> QED BY <4>1, <4>2, <3>2
    <3>3. CASE held[c].kind = "lagged"
      <4>1. next[c] - 1 + Cap <= Len(log)
        BY <3>3 DEF IInv, HeldTrue
      <4> QED BY <4>1, <3>1, <3>3, <2>2 DEF IInv, TypeOK
    <3> QED BY <3>2, <3>3 DEF IInv, HeldTrue
  <2>6. AtBound'
    BY <2>1, <2>2 DEF IInv, TypeOK, AtBound
  <2>7. InStep'
    BY <2>1 DEF IInv, InStep, Subscribers, Pending
  <2>8. Placed'
    BY <2>1, <2>2 DEF IInv, TypeOK, Placed
  <2>9. OnlyOverwrittenSkipped'
    <3> SUFFICES ASSUME NEW c \in Clients, NEW i \in since[c] + 1 .. at[c]
                 PROVE  i + Cap <= Len(log') \/ \E e \in got[c] : e[1] = i
      BY <2>1 DEF OnlyOverwrittenSkipped
    <3>1. i \in Nat /\ Len(log) \in Nat
      BY DEF IInv, TypeOK
    <3>2. i + Cap <= Len(log) \/ \E e \in got[c] : e[1] = i
      BY DEF IInv, OnlyOverwrittenSkipped
    <3> QED BY <3>1, <3>2, <2>2
  <2> QED BY <2>3, <2>4, <2>5, <2>6, <2>7, <2>8, <2>9 DEF IInv
<1> QED BY <1>1, <1>2

LEMMA SubscribeInv == ASSUME IInv, NEW c \in Clients, Subscribe(c) PROVE IInv'
<1> USE DEF IInv, Subscribe
<1>1. TypeOK'
  BY DEF TypeOK
<1>2. Positions'
  BY DEF TypeOK, Positions, Joined
<1>3. HeldTrue'
  BY DEF TypeOK, HeldTrue
<1>4. AtBound'
  BY DEF TypeOK, AtBound
<1>5. InStep'
  <2> SUFFICES ASSUME NEW d \in Clients, task'[d] \in {"recv", "send"}, peer'[d] = "up"
               PROVE  Pending(d)' + 1 = next'[d]
    BY DEF InStep, Subscribers
  <2>1. CASE d = c
    <3>1. held'[c] = NoMessage /\ at'[c] = Len(log) /\ next'[c] = Len(log) + 1
      BY DEF TypeOK, HeldTrue
    <3> QED BY <2>1, <3>1 DEF Pending, NoMessage, TypeOK
  <2>2. CASE d # c
    BY <2>2 DEF TypeOK, InStep, Subscribers, Pending
  <2> QED BY <2>1, <2>2
<1>6. Placed'
  BY DEF TypeOK, Placed
<1>7. OnlyOverwrittenSkipped'
  BY DEF TypeOK, OnlyOverwrittenSkipped
<1> QED BY <1>1, <1>2, <1>3, <1>4, <1>5, <1>6, <1>7

LEMMA RecvInv == ASSUME IInv, NEW c \in Clients, Recv(c) PROVE IInv'
<1> USE DEF IInv
<1>0. /\ log \in Seq(Values) /\ Len(log) \in Nat /\ Cap \in Nat \ {0}
      /\ next[c] \in Nat \ {0} /\ next[c] <= Len(log) + 1 /\ task[c] = "recv"
  BY DEF TypeOK, Positions, Joined, Recv, RecvPacket, RecvLagged
<1>1. /\ UNCHANGED <<log, peer, since, at, got>>
      /\ task' = [task EXCEPT ![c] = "send"]
  BY DEF Recv, RecvPacket, RecvLagged, peerVars
<1>2. CASE RecvPacket(c)
  <2>1. next[c] \in 1 .. Len(log)
    BY <1>0, <1>2 DEF RecvPacket, Behind
  <2>2. /\ held' = [held EXCEPT ![c] = Packet(log[next[c]])]
        /\ next' = [next EXCEPT ![c] = @ + 1]
    BY <1>2 DEF RecvPacket
  <2>3. log[next[c]] \in Values
    BY <2>1, <1>0
  <2>4. TypeOK'
    BY <1>0, <1>1, <2>2, <2>3 DEF TypeOK, Messages, Packet
  <2>5. Positions'
    BY <1>0, <1>1, <2>1, <2>2 DEF TypeOK, Positions, Joined
  <2>6. HeldTrue'
    BY <1>0, <1>1, <2>1, <2>2 DEF TypeOK, HeldTrue, Packet
  <2>7. AtBound'
    BY <1>0, <1>1 DEF TypeOK, AtBound
  <2>8. InStep'
    <3> SUFFICES ASSUME NEW d \in Clients, task'[d] \in {"recv", "send"}, peer'[d] = "up"
                 PROVE  Pending(d)' + 1 = next'[d]
      BY DEF InStep, Subscribers
    <3>1. CASE d = c
      <4>1. Pending(c) + 1 = next[c] /\ held[c] = NoMessage
        BY <1>0, <1>1, <3>1 DEF InStep, Subscribers, HeldTrue
      <4>2. held'[c] = Packet(log[next[c]]) /\ next'[c] = next[c] + 1 /\ at'[c] = at[c]
        BY <1>1, <2>2 DEF TypeOK
      <4> QED BY <1>0, <3>1, <4>1, <4>2 DEF Pending, NoMessage, Packet, TypeOK
    <3>2. CASE d # c
      BY <3>2, <1>1, <2>2 DEF TypeOK, InStep, Subscribers, Pending
    <3> QED BY <3>1, <3>2
  <2> QED BY <1>1, <2>4, <2>5, <2>6, <2>7, <2>8 DEF Placed, OnlyOverwrittenSkipped
<1>3. CASE RecvLagged(c)
  <2>1. Len(log) + 1 - next[c] > Cap
    BY <1>0, <1>3 DEF RecvLagged, Behind
  <2>2. /\ held' = [held EXCEPT ![c] = Lagged(Behind(next[c]) - Cap)]
        /\ next' = [next EXCEPT ![c] = Len(log) + 1 - Cap]
    BY <1>3 DEF RecvLagged
  <2>3. Behind(next[c]) - Cap \in Nat \ {0} /\ Len(log) + 1 - Cap \in 1 .. Len(log)
    BY <1>0, <2>1 DEF Behind
  <2>4. TypeOK'
    BY <1>0, <1>1, <2>2, <2>3 DEF TypeOK, Messages, Lagged
  <2>5. Positions'
    BY <1>0, <1>1, <2>2, <2>3 DEF TypeOK, Positions, Joined
  <2>6. HeldTrue'
    BY <1>0, <1>1, <2>2, <2>3 DEF TypeOK, HeldTrue, Lagged
  <2>7. AtBound'
    BY <1>0, <1>1 DEF TypeOK, AtBound
  <2>8. InStep'
    <3> SUFFICES ASSUME NEW d \in Clients, task'[d] \in {"recv", "send"}, peer'[d] = "up"
                 PROVE  Pending(d)' + 1 = next'[d]
      BY DEF InStep, Subscribers
    <3>1. CASE d = c
      <4>1. Pending(c) + 1 = next[c] /\ held[c] = NoMessage
        BY <1>0, <1>1, <3>1 DEF InStep, Subscribers, HeldTrue
      <4>2. /\ held'[c] = Lagged(Behind(next[c]) - Cap)
            /\ next'[c] = Len(log) + 1 - Cap /\ at'[c] = at[c]
        BY <1>1, <2>2 DEF TypeOK
      <4>3. at[c] \in Nat /\ next[c] \in Nat /\ Len(log) \in Nat /\ Cap \in Nat
        BY <1>0 DEF TypeOK
      <4>4. held[c].kind = "none"
        BY <4>1 DEF NoMessage
      <4>5. Pending(c) = at[c] + 0
        BY <4>4 DEF Pending
      <4>6. held'[c].kind = "lagged" /\ held'[c].skipped = Behind(next[c]) - Cap
        BY <4>2 DEF Lagged
      <4>7. Pending(c)' = at[c] + (Behind(next[c]) - Cap)
        BY <4>2, <4>6 DEF Pending
      <4>8. Behind(next[c]) = (Len(log) + 1) - next[c]
        BY DEF Behind
      <4>9. Pending(c)' + 1 = Len(log) + 1 - Cap
        BY <4>1, <4>3, <4>5, <4>7, <4>8
      <4> QED BY <3>1, <4>2, <4>9
    <3>2. CASE d # c
      BY <3>2, <1>1, <2>2 DEF TypeOK, InStep, Subscribers, Pending
    <3> QED BY <3>1, <3>2
  <2> QED BY <1>1, <2>4, <2>5, <2>6, <2>7, <2>8 DEF Placed, OnlyOverwrittenSkipped
<1> QED BY <1>2, <1>3 DEF Recv

LEMMA SendOkInv == ASSUME IInv, NEW c \in Clients, SendOk(c) PROVE IInv'
<1> USE DEF IInv
<1>0. /\ log \in Seq(Values) /\ Len(log) \in Nat /\ next[c] \in Nat \ {0} /\ at[c] \in Nat
      /\ next[c] <= Len(log) + 1 /\ task[c] = "send" /\ peer[c] = "up"
      /\ Pending(c) + 1 = next[c]
  BY DEF TypeOK, Positions, Joined, SendOk, InStep, Subscribers
<1>1. /\ UNCHANGED <<log, next, peer, since>>
      /\ task' = [task EXCEPT ![c] = "recv"]
      /\ held' = [held EXCEPT ![c] = NoMessage]
      /\ Arrive(c, held[c])
  BY DEF SendOk
<1>2. Positions' /\ HeldTrue'
  BY <1>0, <1>1 DEF TypeOK, Positions, Joined, HeldTrue
\* Either way the client's count catches up with the receiver.
<1>3. at' = [at EXCEPT ![c] = next[c] - 1]
  <2>1. CASE held[c].kind = "packet"
    <3>1. at' = [at EXCEPT ![c] = at[c] + 1]
      BY <2>1, <1>1 DEF Arrive
    <3>2. next[c] - 1 = at[c] + 1
      BY <1>0, <2>1 DEF Pending
    <3> QED BY <3>1, <3>2
  <2>2. CASE held[c].kind = "lagged"
    <3>1. at' = [at EXCEPT ![c] = at[c] + held[c].skipped]
      BY <2>2, <1>1 DEF Arrive
    <3>2. next[c] - 1 = at[c] + held[c].skipped
      <4>1. held[c] \in Messages
        BY <2>2 DEF TypeOK, NoMessage
      <4>2. held[c].skipped \in Nat
        BY <4>1, <2>2 DEF Messages
      <4> QED BY <1>0, <2>2, <4>2 DEF Pending
    <3> QED BY <3>1, <3>2
  <2> QED BY <1>0, <2>1, <2>2 DEF HeldTrue
<1>4. InStep'
  BY <1>0, <1>1, <1>3 DEF TypeOK, InStep, Subscribers, Pending, NoMessage
<1>5. CASE held[c].kind = "packet"
  <2>1. next[c] > 1 /\ held[c] = Packet(log[next[c] - 1]) /\ next[c] = at[c] + 2
    BY <1>0, <1>5 DEF HeldTrue, Pending
  <2>2. got' = [got EXCEPT ![c] = @ \cup {<<at[c] + 1, log[at[c] + 1]>>}]
    BY <1>1, <1>5, <2>1, <1>0 DEF Arrive, Packet
  <2>3. at[c] + 1 \in 1 .. Len(log) /\ log[at[c] + 1] \in Values /\ at'[c] = at[c] + 1
    BY <1>0, <1>3, <2>1 DEF TypeOK
  <2>4. TypeOK'
    BY <1>0, <1>1, <1>3, <2>1, <2>2, <2>3 DEF TypeOK
  <2>5. AtBound'
    BY <1>0, <1>1, <1>3, <2>2 DEF TypeOK, AtBound
  <2>6. Placed'
    BY <1>0, <1>1, <2>2, <2>3 DEF TypeOK, Placed
  <2>7. OnlyOverwrittenSkipped'
    <3> SUFFICES ASSUME NEW d \in Clients, NEW i \in since[d] + 1 .. at'[d]
                 PROVE  i + Cap <= Len(log) \/ \E e \in got'[d] : e[1] = i
      BY <1>1 DEF OnlyOverwrittenSkipped
    <3>1. CASE d = c /\ i = at[c] + 1
      <4>1. <<at[c] + 1, log[at[c] + 1]>> \in got'[d]
        BY <3>1, <2>2 DEF TypeOK
      <4> QED BY <4>1, <3>1
    <3>2. CASE ~(d = c /\ i = at[c] + 1)
      <4>1. i \in since[d] + 1 .. at[d]
        BY <3>2, <2>3, <1>0, <1>3 DEF TypeOK
      <4>2. i + Cap <= Len(log) \/ \E e \in got[d] : e[1] = i
        BY <4>1 DEF OnlyOverwrittenSkipped
      <4>3. got[d] \subseteq got'[d]
        BY <2>2 DEF TypeOK
      <4> QED BY <4>2, <4>3
    <3> QED BY <3>1, <3>2
  <2> QED BY <1>2, <1>4, <2>4, <2>5, <2>6, <2>7
<1>6. CASE held[c].kind = "lagged"
  <2>1. next[c] - 1 + Cap <= Len(log) /\ got' = got
    BY <1>0, <1>1, <1>6 DEF HeldTrue, Arrive
  <2>2. TypeOK'
    BY <1>0, <1>1, <1>3, <2>1 DEF TypeOK
  <2>3. AtBound'
    BY <1>0, <1>1, <1>3, <2>1 DEF TypeOK, AtBound
  <2>4. Placed'
    BY <1>1, <2>1 DEF Placed
  <2>5. OnlyOverwrittenSkipped'
    <3> SUFFICES ASSUME NEW d \in Clients, NEW i \in since[d] + 1 .. at'[d]
                 PROVE  i + Cap <= Len(log) \/ \E e \in got[d] : e[1] = i
      BY <1>1, <2>1 DEF OnlyOverwrittenSkipped
    <3>1. CASE d = c
      <4>1. at'[d] = next[c] - 1 /\ since[d] \in Nat
        BY <3>1, <1>3 DEF TypeOK
      <4> QED BY <4>1, <2>1, <1>0
    <3>2. CASE d # c
      <4>1. at'[d] = at[d]
        BY <3>2, <1>3 DEF TypeOK
      <4> QED BY <4>1 DEF OnlyOverwrittenSkipped
    <3> QED BY <3>1, <3>2
  <2> QED BY <1>2, <1>4, <2>2, <2>3, <2>4, <2>5
<1> QED BY <1>0, <1>5, <1>6 DEF HeldTrue

\* A write that fails, or that nobody reads, disturbs nothing a client holds.
LEMMA SendLostInv ==
    ASSUME IInv, NEW c \in Clients, SendSwallowed(c) \/ SendErr(c) PROVE IInv'
<1> USE DEF IInv
<1>1. /\ UNCHANGED <<log, next, since, at, got>>
      /\ task[c] = "send" /\ peer[c] # "up"
      /\ \E s \in {"recv", "ended"} : task' = [task EXCEPT ![c] = s]
      /\ held' = [held EXCEPT ![c] = NoMessage]
      /\ peer' \in {peer, [peer EXCEPT ![c] = "reset"]}
  BY DEF SendSwallowed, SendErr, peerVars
<1>2. TypeOK' /\ Positions' /\ HeldTrue'
  BY <1>1 DEF TypeOK, Positions, Joined, HeldTrue
<1>3. AtBound' /\ Placed' /\ OnlyOverwrittenSkipped'
  BY <1>1 DEF TypeOK, AtBound, Placed, OnlyOverwrittenSkipped
<1>4. InStep'
  BY <1>1 DEF TypeOK, InStep, Subscribers, Pending
<1> QED BY <1>2, <1>3, <1>4

LEMMA PeerGoneInv == ASSUME IInv, NEW c \in Clients, PeerGone(c) PROVE IInv'
<1> USE DEF IInv, PeerGone, taskVars
<1>1. TypeOK' /\ Positions' /\ HeldTrue'
  BY DEF TypeOK, Positions, Joined, HeldTrue
<1>2. AtBound' /\ Placed' /\ OnlyOverwrittenSkipped'
  BY DEF TypeOK, AtBound, Placed, OnlyOverwrittenSkipped
<1>3. InStep'
  BY DEF TypeOK, InStep, Subscribers, Pending
<1> QED BY <1>1, <1>2, <1>3

\* Every step of the channel, of a task or of a client keeps the invariant.
LEMMA NextInv == IInv /\ [Next]_vars => IInv'
<1> SUFFICES ASSUME IInv, [Next]_vars PROVE IInv'
  OBVIOUS
<1>1. CASE UNCHANGED vars
  BY <1>1 DEF IInv, vars, TypeOK, Positions, Joined, HeldTrue, AtBound, InStep, Pending,
              Placed, OnlyOverwrittenSkipped, Subscribers
<1>2. ASSUME NEW v \in Values, Publish(v) PROVE IInv'
  BY <1>2, PublishInv
<1>3. ASSUME NEW c \in Clients, Subscribe(c) \/ TaskStep(c) \/ PeerGone(c) PROVE IInv'
  BY <1>3, SubscribeInv, RecvInv, SendOkInv, SendLostInv, PeerGoneInv DEF TaskStep, Send
<1> QED BY <1>1, <1>2, <1>3 DEF Next

\* The inductive invariant holds throughout every behaviour of the feed.
THEOREM Invariance == Spec => []IInv
  BY InitInv, NextInv, PTL DEF Spec

\* TypeCorrect: the channel, the tasks and the clients keep their types.
THEOREM TypeCorrect == Spec => []TypeOK
<1>1. IInv => TypeOK
  BY DEF IInv
<1> QED BY Invariance, <1>1, PTL

\* FaithfulTranscript: for any capacity and number of clients, a client that
\* counts packets and notices gives every packet its true place in the feed.
THEOREM FaithfulTranscript == Spec => []Placed
<1>1. IInv => Placed
  BY DEF IInv
<1> QED BY Invariance, <1>1, PTL

\* LagIsReal: a client is told it lost an entry only if the channel had
\* dropped that entry, and its count never drifts from its receiver's place.
THEOREM LagIsReal == Spec => [](OnlyOverwrittenSkipped /\ InStep)
<1>1. IInv => OnlyOverwrittenSkipped /\ InStep
  BY DEF IInv
<1> QED BY Invariance, <1>1, PTL
-----------------------------------------------------------------------------
\* A message that arrives is one Deliver or one Skip of the abstract feed.
LEMMA SendOkRefines ==
    ASSUME IInv, NEW c \in Clients, SendOk(c)
    PROVE  Promise!Deliver(c) \/ \E k \in 1 .. Len(log) : Promise!Skip(c, k)
<1> DEFINE J == {d \in Clients : task[d] # "none"}
<1>0. /\ log \in Seq(Values) /\ Len(log) \in Nat /\ next[c] \in Nat \ {0} /\ at[c] \in Nat
      /\ next[c] <= Len(log) + 1 /\ task[c] = "send" /\ peer[c] = "up"
      /\ Pending(c) + 1 = next[c]
  BY DEF IInv, TypeOK, Positions, Joined, SendOk, InStep, Subscribers
<1>1. log' = log /\ J' = J /\ c \in J /\ Arrive(c, held[c])
  BY <1>0 DEF SendOk, IInv, TypeOK
<1>2. CASE held[c].kind = "packet"
  <2>1. next[c] > 1 /\ held[c] = Packet(log[next[c] - 1])
    BY <1>0, <1>2 DEF IInv, HeldTrue
  <2>2. next[c] = at[c] + 2
    BY <1>0, <1>2 DEF Pending
  <2>3. /\ at' = [at EXCEPT ![c] = @ + 1]
        /\ got' = [got EXCEPT ![c] = @ \cup {<<at[c] + 1, log[at[c] + 1]>>}]
    BY <1>1, <1>2, <2>1, <2>2, <1>0 DEF Arrive, Packet
  <2>4. at[c] < Len(log)
    BY <1>0, <2>2
  <2> QED BY <1>1, <2>3, <2>4 DEF Promise!Deliver
<1>3. CASE held[c].kind = "lagged"
  <2>1. held[c] \in Messages
    BY <1>3 DEF IInv, TypeOK, NoMessage
  <2>2. held[c].skipped \in Nat \ {0}
    BY <2>1, <1>3 DEF Messages
  <2>3. next[c] - 1 + Cap <= Len(log)
    BY <1>0, <1>3 DEF IInv, HeldTrue
  <2>4. next[c] - 1 = at[c] + held[c].skipped
    BY <1>0, <1>3, <2>2 DEF Pending
  <2>5. at[c] + held[c].skipped + Cap <= Len(log) /\ held[c].skipped \in 1 .. Len(log)
    BY <1>0, <2>2, <2>3, <2>4
  <2>6. at' = [at EXCEPT ![c] = @ + held[c].skipped] /\ got' = got
    BY <1>1, <1>3 DEF Arrive
  <2> QED BY <1>1, <2>5, <2>6 DEF Promise!Skip
<1> QED BY <1>0, <1>2, <1>3 DEF IInv, HeldTrue

\* Every step of the feed is a step of the abstract one, or invisible to it.
LEMMA StepRefines == IInv /\ [Next]_vars => [Promise!Next]_Promise!vars
<1> SUFFICES ASSUME IInv, [Next]_vars PROVE [Promise!Next]_Promise!vars
  OBVIOUS
<1> DEFINE J == {d \in Clients : task[d] # "none"}
<1>1. CASE UNCHANGED vars
  BY <1>1 DEF vars, Promise!vars
<1>2. ASSUME NEW v \in Values, Publish(v) PROVE [Promise!Next]_Promise!vars
  <2>1. J' = J /\ at' = at /\ got' = got /\ (log' = log \/ log' = Append(log, v))
    BY <1>2 DEF Publish, taskVars, peerVars
  <2> QED BY <2>1 DEF Promise!Next, Promise!Publish, Promise!vars
<1>3. ASSUME NEW c \in Clients, Subscribe(c) PROVE Promise!Join(c)
  <2>1. J' = J \cup {c} /\ c \notin J
    BY <1>3 DEF Subscribe, IInv, TypeOK
  <2> QED BY <1>3, <2>1 DEF Subscribe, Promise!Join
<1>4. ASSUME NEW c \in Clients, Recv(c) \/ SendSwallowed(c) \/ SendErr(c) \/ PeerGone(c)
      PROVE  UNCHANGED Promise!vars
  <2>1. J' = J /\ UNCHANGED <<log, at, got>>
    BY <1>4 DEF Recv, RecvPacket, RecvLagged, SendSwallowed, SendErr, PeerGone, taskVars,
                peerVars, IInv, TypeOK
  <2> QED BY <2>1 DEF Promise!vars
<1>5. ASSUME NEW c \in Clients, SendOk(c) PROVE Promise!Next
  BY <1>5, SendOkRefines DEF Promise!Next
<1> QED BY <1>1, <1>2, <1>3, <1>4, <1>5 DEF Next, TaskStep, Send, Promise!Next

\* FeedImplemented: ring, receivers, tasks and sockets together are the feed
\* that Feed describes, whatever the capacity and however clients come and go.
THEOREM FeedImplemented == Spec => ImplementsFeed
<1>1. Init => Promise!Init
  BY DEF Init, Promise!Init
<1> QED BY Invariance, <1>1, StepRefines, PTL DEF Spec, ImplementsFeed, Promise!Spec
-----------------------------------------------------------------------------
\* What EverythingReported rests on: a task that goes on catches up, and when it
\* has caught up its client has been told of everything.

\* The steps that the task of c is away from the channel's tail: two for each
\* entry that it has not read, one to write what it has read.
Backlog(c) == 2 * Behind(next[c]) + (IF task[c] = "send" THEN 1 ELSE 0)

\* CaughtUp: a client whose task has nothing left to do accounts for the whole feed.
CaughtUp == \A c \in Subscribers : Backlog(c) = 0 /\ peer[c] = "up" => at[c] = Len(log)

\* CatchingUp: a task's own steps shorten its backlog, and nothing but a packet
\* that is published lengthens it: no client does that to another.
CatchingUp ==
    [][\A c \in Clients : c \in Subscribers /\ c \in Subscribers' =>
          \/ Backlog(c)' < Backlog(c)
          \/ Backlog(c)' = Backlog(c) /\ UNCHANGED <<task[c], next[c], held[c], at[c]>>
          \/ Backlog(c)' = Backlog(c) + 2 /\ \E v \in Values : Publish(v)]_vars

\* Nothing lies behind the tail.
LEMMA BehindIs ==
    ASSUME IInv, NEW c \in Subscribers
    PROVE  /\ c \in Clients /\ task[c] \in {"recv", "send"} /\ Len(log) \in Nat
           /\ next[c] \in 1 .. Len(log) + 1 /\ Behind(next[c]) \in Nat
           /\ Backlog(c) = IF task[c] = "send" THEN 2 * Behind(next[c]) + 1 ELSE 2 * Behind(next[c])
<1>1. c \in Clients /\ task[c] \in {"recv", "send"} /\ Len(log) \in Nat
  BY DEF IInv, TypeOK, Subscribers
<1>2. next[c] \in 1 .. Len(log) + 1
  BY <1>1 DEF IInv, Positions, Joined
<1>3. Behind(next[c]) \in Nat
  BY <1>1, <1>2 DEF Behind
<1> QED BY <1>1, <1>2, <1>3 DEF Backlog

\* ReportsAreComplete: when the task of a connected client stands at the channel's
\* tail with nothing in its hands, the packets and notices that reached the
\* client add up to all that was published.
THEOREM ReportsAreComplete == Spec => []CaughtUp
<1>1. ASSUME IInv, NEW c \in Subscribers, Backlog(c) = 0, peer[c] = "up" PROVE at[c] = Len(log)
  <2>1. /\ task[c] = "recv" /\ Behind(next[c]) = 0 /\ c \in Clients
        /\ Len(log) \in Nat /\ next[c] \in 1 .. Len(log) + 1
    BY <1>1, BehindIs
  <2>2. held[c] = NoMessage
    BY <1>1, <2>1 DEF IInv, HeldTrue
  <2>3. at[c] \in Nat /\ Pending(c) + 1 = next[c]
    BY <1>1, <2>1 DEF IInv, TypeOK, InStep
  <2>4. Pending(c) = at[c]
    BY <2>2, <2>3 DEF Pending, NoMessage
  <2> QED BY <2>1, <2>3, <2>4 DEF Behind
<1>2. IInv => CaughtUp
  BY <1>1 DEF CaughtUp
<1> QED BY Invariance, <1>2, PTL

\* One step of the task of c.
LEMMA TaskShortens ==
    ASSUME IInv, IInv', NEW c \in Subscribers, c \in Subscribers', TaskStep(c)
    PROVE  Backlog(c)' < Backlog(c)
<1>1. /\ c \in Clients /\ Len(log) \in Nat /\ next[c] \in Nat /\ log' = log
      /\ Behind(next[c]) \in Nat /\ Behind(next[c]) = Len(log) + 1 - next[c]
  <2>1. log' = log
    BY DEF TaskStep, Recv, RecvPacket, RecvLagged, Send, SendOk, SendSwallowed, SendErr
  <2> QED BY <2>1, BehindIs DEF Behind
<1>2. CASE Recv(c)
  <2>1. /\ task[c] = "recv" /\ task'[c] = "send" /\ next'[c] \in Nat
        /\ Len(log) + 1 - next'[c] < Len(log) + 1 - next[c]
    <3>1. CASE RecvPacket(c)
      <4>1. task[c] = "recv" /\ task'[c] = "send" /\ next'[c] = next[c] + 1
        BY <3>1, <1>1 DEF RecvPacket, IInv, TypeOK
      <4> QED BY <1>1, <4>1
    <3>2. CASE RecvLagged(c)
      <4>1. /\ task[c] = "recv" /\ task'[c] = "send" /\ next'[c] = Len(log) + 1 - Cap
            /\ Behind(next[c]) > Cap
        BY <3>2, <1>1 DEF RecvLagged, IInv, TypeOK
      <4> QED BY <1>1, <4>1
    <3> QED BY <1>2, <3>1, <3>2 DEF Recv
  <2>2. Backlog(c) = 2 * (Len(log) + 1 - next[c])
    BY <1>1, <2>1 DEF Backlog
  <2>3. Backlog(c)' = 2 * (Len(log) + 1 - next'[c]) + 1
    <3>1. Backlog(c)' = 2 * Behind(next[c])' + 1
      BY <2>1 DEF Backlog
    <3>2. Behind(next[c])' = Len(log) + 1 - next'[c]
      BY <1>1, <2>1 DEF Behind
    <3> QED BY <3>1, <3>2
  <2> QED BY <1>1, <2>1, <2>2, <2>3
<1>3. CASE Send(c)
  <2>1. task[c] = "send" /\ next' = next /\ task'[c] # "send"
    BY <1>3, <1>1 DEF Send, SendOk, SendSwallowed, SendErr, IInv, TypeOK
  <2>2. Backlog(c) = 2 * (Len(log) + 1 - next[c]) + 1
    BY <1>1, <2>1 DEF Backlog
  <2>3. Backlog(c)' = 2 * (Len(log) + 1 - next[c])
    BY <1>1, <2>1 DEF Backlog, Behind
  <2> QED BY <1>1, <2>2, <2>3
<1> QED BY <1>2, <1>3 DEF TaskStep

\* What a step of one task, or of its client, leaves alone.
LEMMA OthersStay ==
    ASSUME IInv, NEW c \in Clients, NEW d \in Clients,
           (c # d /\ (Subscribe(d) \/ TaskStep(d))) \/ PeerGone(d)
    PROVE  Backlog(c)' = Backlog(c) /\ UNCHANGED <<task[c], next[c], held[c], at[c]>>
<1>1. UNCHANGED <<log, task[c], next[c], held[c], at[c]>>
  <2>1. CASE PeerGone(d)
    BY <2>1 DEF PeerGone, taskVars
  <2>2. CASE c # d /\ Subscribe(d)
    BY <2>2 DEF Subscribe, IInv, TypeOK
  <2>3. CASE c # d /\ Recv(d)
    BY <2>3 DEF Recv, RecvPacket, RecvLagged, IInv, TypeOK, peerVars
  <2>4. CASE c # d /\ Send(d)
    BY <2>4 DEF Send, SendOk, SendSwallowed, SendErr, Arrive, IInv, TypeOK, peerVars
  <2> QED BY <2>1, <2>2, <2>3, <2>4 DEF TaskStep
<1> QED BY <1>1 DEF Backlog, Behind

\* TasksCatchUp: how far a client is behind depends on its own task and on the
\* publisher only, and each step of its task makes it less.
THEOREM TasksCatchUp == Spec => CatchingUp
<1> DEFINE Closer == \A c \in Clients : c \in Subscribers /\ c \in Subscribers' =>
                        \/ Backlog(c)' < Backlog(c)
                        \/ Backlog(c)' = Backlog(c) /\ UNCHANGED <<task[c], next[c], held[c], at[c]>>
                        \/ Backlog(c)' = Backlog(c) + 2 /\ \E v \in Values : Publish(v)
<1>1. IInv /\ IInv' /\ Next => Closer
  <2> SUFFICES ASSUME IInv, IInv', Next, NEW c \in Clients, c \in Subscribers, c \in Subscribers'
               PROVE  \/ Backlog(c)' < Backlog(c)
                      \/ Backlog(c)' = Backlog(c) /\ UNCHANGED <<task[c], next[c], held[c], at[c]>>
                      \/ Backlog(c)' = Backlog(c) + 2 /\ \E v \in Values : Publish(v)
    OBVIOUS
  <2>1. ASSUME NEW v \in Values, Publish(v)
        PROVE  \/ Backlog(c)' = Backlog(c) /\ UNCHANGED <<task[c], next[c], held[c], at[c]>>
               \/ Backlog(c)' = Backlog(c) + 2
    <3>1. UNCHANGED <<task, next, held, at>> /\ log' \in {log, Append(log, v)}
      BY <2>1 DEF Publish, taskVars, peerVars
    <3>2. log \in Seq(Values) /\ Len(log) \in Nat /\ next[c] \in Nat
      BY BehindIs DEF IInv, TypeOK
    <3>3. Len(log') \in {Len(log), Len(log) + 1}
      BY <2>1, <3>1, <3>2, AppendKeeps
    <3>4. CASE Len(log') = Len(log)
      BY <3>1, <3>4 DEF Backlog, Behind
    <3>5. CASE Len(log') = Len(log) + 1
      <4> DEFINE b == Behind(next[c])
                 m == IF task[c] = "send" THEN 1 ELSE 0
      <4>1. next'[c] = next[c] /\ task'[c] = task[c]
        BY <3>1
      <4>2. Behind(next[c])' = Len(log) + 1 + 1 - next[c]
        BY <3>2, <3>5, <4>1 DEF Behind
      <4>3. b \in Nat /\ Behind(next[c])' = b + 1
        BY <3>2, <4>2, BehindIs DEF Behind
      <4>4. Backlog(c)' = 2 * Behind(next[c])' + m
        BY <4>1 DEF Backlog
      <4>5. Backlog(c) = 2 * b + m /\ m \in Nat
        BY DEF Backlog
      <4> HIDE DEF b, m
      <4> QED BY <4>3, <4>4, <4>5
    <3> QED BY <3>3, <3>4, <3>5
  <2>2. ~Subscribe(c)
    BY BehindIs DEF Subscribe
  <2>3. ASSUME NEW d \in Clients, Subscribe(d) \/ TaskStep(d) \/ PeerGone(d)
        PROVE  \/ Backlog(c)' < Backlog(c)
               \/ Backlog(c)' = Backlog(c) /\ UNCHANGED <<task[c], next[c], held[c], at[c]>>
    <3>1. CASE d = c /\ TaskStep(c)
      BY <3>1, TaskShortens
    <3>2. CASE ~(d = c /\ TaskStep(c))
      BY <2>2, <2>3, <3>2, OthersStay
    <3> QED BY <3>1, <3>2
  <2> QED BY <2>1, <2>3 DEF Next
<1> QED BY <1>1, Invariance, PTL DEF CatchingUp, Spec

-----------------------------------------------------------------------------
\* GoneTasksEnd: what GoneIsUncounted rests on.  A reset connection does not come
\* back, whatever others do, and the task on it takes at most one more message
\* from the channel: the write of it fails, and gives up the receiver.
GoneTasksEnd ==
    [][\A c \in Clients : c \in Subscribers /\ peer[c] = "reset" =>
          /\ peer'[c] = "reset"
          /\ \/ c \notin Subscribers'
             \/ task'[c] = task[c]
             \/ task[c] = "recv" /\ task'[c] = "send"]_vars

\* GoneAreUncounted: a client that has gone is not counted for longer than the
\* channel takes to hand its task one message (websocket, receiver_count()).
THEOREM GoneAreUncounted == Spec => GoneTasksEnd
<1> DEFINE Ends == \A c \in Clients : c \in Subscribers /\ peer[c] = "reset" =>
                      /\ peer'[c] = "reset"
                      /\ \/ c \notin Subscribers'
                         \/ task'[c] = task[c]
                         \/ task[c] = "recv" /\ task'[c] = "send"
<1>1. IInv /\ Next => Ends
  <2> SUFFICES ASSUME IInv, Next, NEW c \in Clients, c \in Subscribers, peer[c] = "reset"
               PROVE  /\ peer'[c] = "reset"
                      /\ \/ c \notin Subscribers'
                         \/ task'[c] = task[c]
                         \/ task[c] = "recv" /\ task'[c] = "send"
    OBVIOUS
  <2>0. task \in [Clients -> {"none", "recv", "send", "ended"}] /\ DOMAIN peer = Clients
    BY DEF IInv, TypeOK
  <2>1. ASSUME NEW v \in Values, Publish(v) PROVE peer'[c] = "reset" /\ task'[c] = task[c]
    BY <2>1 DEF Publish, taskVars, peerVars
  <2>2. ASSUME NEW d \in Clients, Subscribe(d) PROVE peer'[c] = "reset" /\ task'[c] = task[c]
    BY <2>0, <2>2 DEF Subscribe, Subscribers
  <2>3. ASSUME NEW d \in Clients, Recv(d)
        PROVE  peer'[c] = "reset" /\ (task'[c] = task[c] \/ (task[c] = "recv" /\ task'[c] = "send"))
    BY <2>0, <2>3 DEF Recv, RecvPacket, RecvLagged, peerVars
  <2>4. ASSUME NEW d \in Clients, Send(d)
        PROVE  peer'[c] = "reset" /\ (task'[c] = task[c] \/ c \notin Subscribers')
    BY <2>0, <2>4 DEF Send, SendOk, SendSwallowed, SendErr, Subscribers, peerVars
  <2>5. ASSUME NEW d \in Clients, PeerGone(d) PROVE peer'[c] = "reset" /\ task'[c] = task[c]
    BY <2>0, <2>5 DEF PeerGone, taskVars
  <2> QED BY <2>1, <2>2, <2>3, <2>4, <2>5 DEF Next, TaskStep
<1> QED BY <1>1, Invariance, PTL DEF GoneTasksEnd, Spec
=============================================================================
