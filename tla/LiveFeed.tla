------------------------------ MODULE LiveFeed ------------------------------
(***************************************************************************)
(* The live half of 6grok-api: the tokio broadcast channel AppState.live   *)
(* and one `websocket` task per upgraded connection.                       *)
(*                                                                         *)
(* The channel keeps the latest Cap entries; a receiver that falls behind  *)
(* them is told how many it lost and put on the oldest entry left.  The    *)
(* task takes one message from its receiver and writes it to its socket    *)
(* before it takes another, and it never reads the socket: that its peer   *)
(* has gone it learns from a write that fails, and from nothing else.      *)
(***************************************************************************)
EXTENDS Naturals, Sequences

CONSTANTS Clients,       \* WebSocket connections
          Values,        \* published JSON texts
          Cap,           \* the channel's capacity (2048 in main)
          MaxPublished   \* bound: entries published in a run

ASSUME CapAssumption == Cap \in Nat \ {0}

VARIABLES log,    \* the entries the channel has taken; slot i is held while i > Len(log) - Cap
          task,   \* task[c]: "none", then "recv" and "send" in turn, then "ended"
          next,   \* next[c]: position of the entry the receiver of c reads next
          held,   \* held[c]: the message the task of c is writing
          peer,   \* peer[c]: "up", "closed" by the client, "reset" once writes fail
          since,  \* since[c]: the channel's tail when c subscribed
          at,     \* at[c]: the feed position c can account for from what reached it
          got     \* got[c]: the entries that reached c, each at the place c gives it

taskVars == <<task, next, held>>
peerVars == <<peer, since, at, got>>
vars == <<log, task, next, held, peer, since, at, got>>

NoMessage  == [kind |-> "none"]
Packet(v)  == [kind |-> "packet", value |-> v]
Lagged(k)  == [kind |-> "lagged", skipped |-> k]

\* The entries a receiver that stands at position n has not read.
Behind(n) == (Len(log) + 1) - n

\* What receiver_count() counts: the tasks that still hold a receiver.
Subscribers == {c \in Clients : task[c] \in {"recv", "send"}}

Init == /\ log  = <<>>
        /\ task = [c \in Clients |-> "none"]
        /\ next = [c \in Clients |-> 1]
        /\ held = [c \in Clients |-> NoMessage]
        /\ peer = [c \in Clients |-> "up"]
        /\ since = [c \in Clients |-> 0]
        /\ at   = [c \in Clients |-> 0]
        /\ got  = [c \in Clients |-> {}]

-----------------------------------------------------------------------------
\* live.send(text), its Err (nobody subscribed, the text is dropped) ignored.
Publish(v) == /\ log' = IF Subscribers = {} THEN log ELSE Append(log, v)
              /\ UNCHANGED <<taskVars, peerVars>>

\* ws_upgrade hands the socket to a task, which subscribes at the channel's tail.
Subscribe(c) == /\ task[c] = "none"
                /\ task' = [task EXCEPT ![c] = "recv"]
                /\ next' = [next EXCEPT ![c] = Len(log) + 1]
                /\ since' = [since EXCEPT ![c] = Len(log)]
                /\ at'   = [at   EXCEPT ![c] = Len(log)]
                /\ UNCHANGED <<log, held, peer, got>>

\* recv() when the entry at the receiver's position is still in the channel.
RecvPacket(c) == /\ task[c] = "recv"
                 /\ Behind(next[c]) \in 1 .. Cap
                 /\ held' = [held EXCEPT ![c] = Packet(log[next[c]])]
                 /\ next' = [next EXCEPT ![c] = @ + 1]
                 /\ task' = [task EXCEPT ![c] = "send"]
                 /\ UNCHANGED <<log, peerVars>>

\* Mutants of RecvLagged: the notice is left out; the task's loop ends on it;
\* the receiver resumes at the tail; a full channel already counts as a lag.
RecvLaggedSilent(c) == /\ task[c] = "recv"
                       /\ Behind(next[c]) > Cap
                       /\ next' = [next EXCEPT ![c] = Len(log) + 1 - Cap]
                       /\ UNCHANGED <<log, task, held, peerVars>>

RecvLaggedEnds(c) == /\ task[c] = "recv"
                     /\ Behind(next[c]) > Cap
                     /\ task' = [task EXCEPT ![c] = "ended"]
                     /\ UNCHANGED <<log, next, held, peerVars>>

RecvLaggedToTail(c) == /\ task[c] = "recv"
                       /\ Behind(next[c]) > Cap
                       /\ held' = [held EXCEPT ![c] = Lagged(Behind(next[c]))]
                       /\ next' = [next EXCEPT ![c] = Len(log) + 1]
                       /\ task' = [task EXCEPT ![c] = "send"]
                       /\ UNCHANGED <<log, peerVars>>

RecvLaggedEarly(c) == /\ task[c] = "recv"
                      /\ Behind(next[c]) >= Cap
                      /\ held' = [held EXCEPT ![c] = Lagged(Behind(next[c]) - Cap)]
                      /\ next' = [next EXCEPT ![c] = Len(log) + 1 - Cap]
                      /\ task' = [task EXCEPT ![c] = "send"]
                      /\ UNCHANGED <<log, peerVars>>

\* recv() when that entry has been overwritten: the receiver moves to the
\* oldest entry left and the task reports the distance.
RecvLagged(c) == /\ task[c] = "recv"
                 /\ Behind(next[c]) > Cap
                 /\ held' = [held EXCEPT ![c] = Lagged(Behind(next[c]) - Cap)]
                 /\ next' = [next EXCEPT ![c] = Len(log) + 1 - Cap]
                 /\ task' = [task EXCEPT ![c] = "send"]
                 /\ UNCHANGED <<log, peerVars>>

Recv(c) == RecvPacket(c) \/ RecvLagged(c)

\* What a client makes of a message: a packet stands right behind what it has
\* accounted for, a notice moves that place on by the number it gives.
Arrive(c, m) ==
    IF m.kind = "packet"
    THEN /\ at'  = [at  EXCEPT ![c] = @ + 1]
         /\ got' = [got EXCEPT ![c] = @ \cup {<<at[c] + 1, m.value>>}]
    ELSE /\ at'  = [at  EXCEPT ![c] = @ + m.skipped]
         /\ got' = got

\* socket.send(..) to a client that reads: the message arrives.
SendOk(c) == /\ task[c] = "send"
             /\ peer[c] = "up"
             /\ Arrive(c, held[c])
             /\ held' = [held EXCEPT ![c] = NoMessage]
             /\ task' = [task EXCEPT ![c] = "recv"]
             /\ UNCHANGED <<log, next, peer, since>>

\* The kernel takes a write to a connection the client has closed, until the
\* reset it provokes has come back; the task sees a success.
SendSwallowed(c) == /\ task[c] = "send"
                    /\ peer[c] = "closed"
                    /\ peer' \in {peer, [peer EXCEPT ![c] = "reset"]}
                    /\ held' = [held EXCEPT ![c] = NoMessage]
                    /\ task' = [task EXCEPT ![c] = "recv"]
                    /\ UNCHANGED <<log, next, since, at, got>>

\* Mutant of SendErr: an error of the socket does not end the loop.
SendErrGoesOn(c) == /\ task[c] = "send"
                    /\ peer[c] = "reset"
                    /\ held' = [held EXCEPT ![c] = NoMessage]
                    /\ task' = [task EXCEPT ![c] = "recv"]
                    /\ UNCHANGED <<log, next, peerVars>>

\* socket.send(..) fails: the task ends and drops its receiver.
SendErr(c) == /\ task[c] = "send"
              /\ peer[c] = "reset"
              /\ held' = [held EXCEPT ![c] = NoMessage]
              /\ task' = [task EXCEPT ![c] = "ended"]
              /\ UNCHANGED <<log, next, peerVars>>

Send(c) == SendOk(c) \/ SendSwallowed(c) \/ SendErr(c)

\* The client closes the connection, or its host vanishes.
PeerGone(c) == /\ task[c] # "none"
               /\ peer[c] = "up"
               /\ \E s \in {"closed", "reset"} : peer' = [peer EXCEPT ![c] = s]
               /\ UNCHANGED <<log, taskVars, since, at, got>>

-----------------------------------------------------------------------------
TaskStep(c) == Recv(c) \/ Send(c)

Next == \/ \E v \in Values : Len(log) < MaxPublished /\ Publish(v)
        \/ \E c \in Clients : Subscribe(c) \/ TaskStep(c) \/ PeerGone(c)

Spec == Init /\ [][Next]_vars

\* The runtime polls every task that is ready; a client that stays connected
\* reads its socket.  Nothing makes a packet be published or a client leave.
Fairness == \A c \in Clients : WF_vars(Recv(c)) /\ WF_vars(Send(c))

FairSpec == Spec /\ Fairness
-----------------------------------------------------------------------------
Messages == [kind : {"packet"}, value : Values]
            \cup [kind : {"lagged"}, skipped : Nat \ {0}]

\* TypeOK: the types of the channel, of the tasks and of what clients hold.
TypeOK == /\ log  \in Seq(Values)
          /\ task \in [Clients -> {"none", "recv", "send", "ended"}]
          /\ next \in [Clients -> Nat \ {0}]
          /\ held \in [Clients -> Messages \cup {NoMessage}]
          /\ peer \in [Clients -> {"up", "closed", "reset"}]
          /\ since \in [Clients -> Nat]
          /\ at   \in [Clients -> Nat]
          /\ got  \in [Clients -> SUBSET (Nat \X Values)]

\* Placed: a client that only counts (one for each packet, `skipped` for each
\* lagged notice) gives every packet it got its true place in the feed, so
\* the stream of packets and notices is a faithful account of it.
Placed == \A c \in Clients : \A e \in got[c] :
             e[1] \in 1 .. Len(log) /\ e[2] = log[e[1]]

\* OnlyOverwrittenSkipped: an entry published since the client joined that it
\* was made to pass over had left the channel by then: `skipped` never counts
\* one of the latest Cap entries.
OnlyOverwrittenSkipped ==
    \A c \in Clients : \A i \in since[c] + 1 .. at[c] :
        i + Cap <= Len(log) \/ \E e \in got[c] : e[1] = i

\* What the client of c will have accounted for once the held message arrives.
Pending(c) == at[c] + (IF held[c].kind = "packet" THEN 1
                       ELSE IF held[c].kind = "lagged" THEN held[c].skipped ELSE 0)

\* InStep: while a client is connected, its own count (the held message
\* included) and its receiver's position in the channel agree, so nothing
\* falls between recv() and send().
InStep == \A c \in Subscribers : peer[c] = "up" => Pending(c) + 1 = next[c]

\* The abstract feed: clients have joined once their task runs.
Promise == INSTANCE Feed WITH Keep <- Cap, joined <- {c \in Clients : task[c] # "none"}

\* ImplementsFeed: channel, receivers and tasks together implement Feed.
ImplementsFeed == Promise!Spec

\* EverythingReported: whatever is published while a client is connected it
\* gets, or is told it has lost, unless it goes away first.
EverythingReported ==
    \A c \in Clients, i \in 1 .. MaxPublished :
        (c \in Subscribers /\ since[c] < i /\ i <= Len(log)) ~> (at[c] >= i \/ peer[c] # "up")

\* GoneIsUncounted: the subscribers that /stats counts are not all connected,
\* but one whose connection fails is counted only until the next packet: then
\* its task ends, and gives up its receiver.
GoneIsUncounted ==
    \A c \in Clients :
        (c \in Subscribers /\ peer[c] = "reset" /\ (task[c] = "send" \/ Behind(next[c]) > 0))
            ~> c \notin Subscribers
=============================================================================
