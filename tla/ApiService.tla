----------------------------- MODULE ApiService -----------------------------
(***************************************************************************)
(* 6grok-api from end to end: agents write frames to TCP connections, one  *)
(* ingest task per connection reads them and runs process_frame, which     *)
(* mirrors Qualcomm frames to GSMTAP, commits the packet to the store and  *)
(* publishes it on the live feed.                                          *)
(*                                                                         *)
(* The store is module PacketStore and the live feed module LiveFeed; this *)
(* module adds the agents' uplink, the ingest listener and the tasks, and  *)
(* ties each of their steps to the step of the store or of the feed it is. *)
(* A client is a WebSocket connection that also asks for the history.      *)
(***************************************************************************)
EXTENDS Naturals, Sequences, FiniteSets

CONSTANTS Conns,     \* agent connections
          Clients,   \* clients, each with one WebSocket and one REST connection
          Frames,    \* frames: records with source, vendor, rat, layer, full, size, valid, diag, json
          Script,    \* Script[c]: the frames the agent of c would send, in order
          GsmtapOn,  \* --gsmtap was given
          Ending,    \* bound: connections whose agents end or are killed, or that break, in a run
          Leaving,   \* bound: clients that leave in a run
          MaxWire,   \* bound: lengths and frames on a connection at one time
          History, MaxQuery, Queries, Cap

ASSUME ConnAssumption == Conns \cap Clients = {}
ASSUME LimitAssumption == /\ History \in Nat /\ MaxQuery \in Nat \ {0} /\ Queries \subseteq Nat
                          /\ Cap \in Nat \ {0}
ASSUME FrameAssumption ==
    /\ IsFiniteSet(Frames)
    /\ \A f \in Frames : /\ {"source", "vendor", "rat", "layer", "full",
                              "size", "valid", "diag", "json"} \subseteq DOMAIN f
                          /\ {f.full, f.valid, f.diag, f.json} \subseteq BOOLEAN

\* A frame is one thing captured once: it has one place in one agent's script.
ASSUME ScriptAssumption ==
    /\ Script \in [Conns -> Seq(Frames)] /\ GsmtapOn \in BOOLEAN
    /\ \A c, d \in Conns : \A i \in 1 .. Len(Script[c]), j \in 1 .. Len(Script[d]) :
          Script[c][i] = Script[d][j] => c = d /\ i = j

VARIABLES listener,  \* "up", or "down" once accept has failed
          wire,      \* wire[c]: what the agent wrote and the task has not read
          fin,       \* fin[c]: the agent has closed its end
          reset,     \* reset[c]: the connection has broken
          sent,      \* sent[c]: frames the agent has written completely
          pc,        \* pc[c]: where the ingest task of c is
          cur,       \* cur[c]: the frame it works on
          mirrored   \* the frames handed to the UDP socket for GSMTAP

VARIABLES queue, st, job, received, fully_decoded, by_vendor, by_rat, by_layer,
          history, part, reply, commits                       \* PacketStore
VARIABLES log, task, next, held, peer, since, at, got         \* LiveFeed

VARIABLES opened,    \* opened[k]: k has the answer to its WebSocket upgrade
          joined,    \* joined[k]: the commits there were when its task subscribed
          heard,     \* heard[k]: its WebSocket had brought k something when it last asked
          asOf       \* asOf[k]: the commits there were when it was answered, or none

uplinkVars == <<wire, fin, reset, sent>>
connVars   == <<listener, uplinkVars, pc, cur, mirrored>>
clientVars == <<opened, joined, heard, asOf>>
storeVars  == <<queue, st, job, received, fully_decoded, by_vendor, by_rat, by_layer, history,
                part, reply, commits>>
liveVars   == <<log, task, next, held, peer, since, at, got>>
vars == <<connVars, clientVars, storeVars, liveVars>>

MaxFrames == Cardinality(Frames)
NoFrame   == [id |-> "none"]
Unanswered == MaxFrames + 1

Store == INSTANCE PacketStore WITH Writers <- Conns, Readers <- Clients, Packets <- Frames,
                                   MaxCommits <- MaxFrames
Live  == INSTANCE LiveFeed WITH Values <- Frames, MaxPublished <- MaxFrames

Init == /\ listener = "up"
        /\ wire = [c \in Conns |-> <<>>]
        /\ fin = [c \in Conns |-> FALSE] /\ reset = [c \in Conns |-> FALSE]
        /\ sent = [c \in Conns |-> 0]
        /\ pc = [c \in Conns |-> "none"]
        /\ cur = [c \in Conns |-> NoFrame]
        /\ mirrored = {}
        /\ Store!Init /\ Live!Init
        /\ opened = [k \in Clients |-> FALSE]
        /\ joined = [k \in Clients |-> 0]
        /\ heard = [k \in Clients |-> FALSE]
        /\ asOf = [k \in Clients |-> Unanswered]

OnlyConn  == UNCHANGED <<storeVars, liveVars, clientVars>>
OnlyStore == UNCHANGED <<liveVars, listener, uplinkVars, mirrored>>

-----------------------------------------------------------------------------
\* The agent: WireSink.send writes the length, then the MessagePack frame.  An
\* agent that dies leaves a length or a frame cut short behind it.

LengthOf(f) == [part |-> "length", size |-> f.size]
BodyOf(f)   == [part |-> "body", frame |-> f]
Cut         == [part |-> "cut"]

Ended(c) == pc[c] \in {"ok", "error"}

\* What the agent writes still gets to the server, ...
Connected(c) == ~fin[c] /\ ~reset[c] /\ ~Ended(c)

\* ... and the buffers on the way have room for it.
Writable(c) == Connected(c) /\ Len(wire[c]) < MaxWire

\* The length of Script[c][sent[c] + 1] is on the wire and its frame is not.
HalfWritten(c) == IF wire[c] = <<>> THEN pc[c] = "body"
                                    ELSE wire[c][Len(wire[c])].part = "length"

WriteLength(c) ==
    /\ Writable(c) /\ sent[c] < Len(Script[c]) /\ ~HalfWritten(c)
    /\ wire' = [wire EXCEPT ![c] = Append(@, LengthOf(Script[c][sent[c] + 1]))]
    /\ UNCHANGED <<fin, reset, sent>>

WriteBody(c) ==
    /\ Writable(c) /\ HalfWritten(c)
    /\ wire' = [wire EXCEPT ![c] = Append(@, BodyOf(Script[c][sent[c] + 1]))]
    /\ sent' = [sent EXCEPT ![c] = @ + 1]
    /\ UNCHANGED <<fin, reset>>

\* It ends, or is killed in the middle of a write.
Close(c) ==
    /\ c \in Ending /\ Connected(c)
    /\ fin' = [fin EXCEPT ![c] = TRUE]
    /\ \/ wire' = wire
       \/ (sent[c] < Len(Script[c]) \/ HalfWritten(c)) /\ wire' = [wire EXCEPT ![c] = Append(@, Cut)]
    /\ UNCHANGED <<reset, sent>>

\* The connection breaks: a read by the server may still find what has come,
\* or fail, whatever is left to read.
Break(c) ==
    /\ c \in Ending /\ ~reset[c] /\ ~Ended(c)
    /\ reset' = [reset EXCEPT ![c] = TRUE]
    /\ UNCHANGED <<wire, fin, sent>>

AgentStep(c) == /\ WriteLength(c) \/ WriteBody(c) \/ Close(c) \/ Break(c)
                /\ UNCHANGED <<listener, pc, cur, mirrored>>
                /\ OnlyConn

-----------------------------------------------------------------------------
\* run_ingest: a task for each connection, until accept fails once.
Accept(c) == /\ listener = "up" /\ pc[c] = "none"
             /\ pc' = [pc EXCEPT ![c] = "length"]
             /\ UNCHANGED <<listener, uplinkVars, cur, mirrored>>
             /\ OnlyConn

AcceptFails == /\ listener = "up" /\ \E c \in Conns : pc[c] = "none"
               /\ listener' = "down"
               /\ UNCHANGED <<uplinkVars, pc, cur, mirrored>>
               /\ OnlyConn

Goto(c, where) == pc' = [pc EXCEPT ![c] = where]

Drop(c) == wire' = [wire EXCEPT ![c] = Tail(@)] /\ UNCHANGED <<fin, reset, sent>>

\* The stream is over, or what is left of it is less than one read needs.
Eof(c) == fin[c] /\ wire[c] \in {<<>>, <<Cut>>}

\* A read fails otherwise.
ReadFails(c) == reset[c] /\ Goto(c, "error") /\ UNCHANGED uplinkVars

\* Mutant of ReadLength: a length that is refused ends the task without error.
ReadLengthLax(c) ==
    /\ pc[c] = "length"
    /\ \/ Eof(c) /\ Goto(c, "ok") /\ UNCHANGED uplinkVars
       \/ ReadFails(c)
       \/ /\ wire[c] # <<>> /\ Head(wire[c]).part = "length"
          /\ Drop(c)
          /\ Goto(c, IF Head(wire[c]).size = "fits" THEN "body" ELSE "ok")
    /\ UNCHANGED <<listener, cur, mirrored>>
    /\ OnlyConn

\* read_exact of the length: at the end of the stream (inside the length, even)
\* the task is done; any other failure, a length of zero and one beyond
\* MAX_WIRE_FRAME are errors.
ReadLength(c) ==
    /\ pc[c] = "length"
    /\ \/ Eof(c) /\ Goto(c, "ok") /\ UNCHANGED uplinkVars
       \/ ReadFails(c)
       \/ /\ wire[c] # <<>> /\ Head(wire[c]).part = "length"
          /\ Drop(c)
          /\ Goto(c, IF Head(wire[c]).size = "fits" THEN "body" ELSE "error")
    /\ UNCHANGED <<listener, cur, mirrored>>
    /\ OnlyConn

\* decode_wire_frame takes the MessagePack form of a Frame that names a known
\* vendor.
Decodes(f) == f.valid

\* read_exact of the frame and decode_wire_frame.
ReadBody(c) ==
    /\ pc[c] = "body"
    /\ \/ Eof(c) /\ Goto(c, "error") /\ UNCHANGED <<uplinkVars, cur>>
       \/ ReadFails(c) /\ cur' = cur
       \/ /\ wire[c] # <<>> /\ Head(wire[c]).part = "body"
          /\ Drop(c)
          /\ LET f == Head(wire[c]).frame IN
                IF Decodes(f) THEN Goto(c, "frame") /\ cur' = [cur EXCEPT ![c] = f]
                              ELSE Goto(c, "error") /\ cur' = cur
    /\ UNCHANGED <<listener, mirrored>>
    /\ OnlyConn

\* The GSMTAP branch of process_frame applies: a Qualcomm frame whose payload
\* holds a DIAG packet, and a sink.
ToMirror(f) == GsmtapOn /\ f.source = "qualcomm" /\ f.diag

\* Mutant of Mirror: a datagram that cannot be sent is let go.
MirrorLax(c) ==
    /\ pc[c] = "frame"
    /\ \/ ToMirror(cur[c]) /\ mirrored' = mirrored \cup {cur[c]}
       \/ mirrored' = mirrored
    /\ Goto(c, "decoded")
    /\ UNCHANGED <<listener, uplinkVars, cur>>
    /\ OnlyConn

\* process_frame first sends the datagram; a failure ends the connection.
Mirror(c) ==
    /\ pc[c] = "frame"
    /\ IF ToMirror(cur[c])
       THEN \/ mirrored' = mirrored \cup {cur[c]} /\ Goto(c, "decoded")
            \/ mirrored' = mirrored /\ Goto(c, "error")
       ELSE mirrored' = mirrored /\ Goto(c, "decoded")
    /\ UNCHANGED <<listener, uplinkVars, cur>>
    /\ OnlyConn

\* frame.decode() gives a packet that serde_json can serialize.
Serializes(f) == f.json

\* Mutant of AskStore: the live feed gets the packet before the store.
AskStoreLate(c) == /\ pc[c] = "decoded"
                   /\ Live!Publish(cur[c])
                   /\ Store!WantWrite(c, cur[c])
                   /\ Goto(c, "store")
                   /\ UNCHANGED <<listener, uplinkVars, mirrored, cur, clientVars>>

\* The packet is decoded and serialized, then state.store.write().await; what
\* cannot be serialized ends the connection.
AskStore(c) == /\ pc[c] = "decoded"
               /\ IF Serializes(cur[c])
                  THEN Store!WantWrite(c, cur[c]) /\ Goto(c, "store")
                  ELSE UNCHANGED storeVars /\ Goto(c, "error")
               /\ OnlyStore /\ UNCHANGED <<cur, clientVars>>

\* The lock is granted, the counters are bumped, ...
InStore(c) == /\ pc[c] = "store"
              /\ Store!Grant(c) \/ Store!Count(c)
              /\ OnlyStore /\ UNCHANGED <<pc, cur, clientVars>>

\* Mutants of LeaveStore: what has been stored is stored again; only what
\* decodes fully goes live.
LeaveStoreAgain(c) == /\ pc[c] = "store"
                      /\ Store!Push(c)
                      /\ Goto(c, "live") \/ Goto(c, "decoded")
                      /\ OnlyStore /\ UNCHANGED <<cur, clientVars>>

LeaveStoreFull(c) == /\ pc[c] = "store"
                     /\ Store!Push(c)
                     /\ Goto(c, IF cur[c].full THEN "live" ELSE "length")
                     /\ OnlyStore /\ UNCHANGED <<cur, clientVars>>

\* ... the packet is retained and the lock released.
LeaveStore(c) == /\ pc[c] = "store"
                 /\ Store!Push(c)
                 /\ Goto(c, "live")
                 /\ OnlyStore /\ UNCHANGED <<cur, clientVars>>

\* Mutant of PublishLive: nothing is published while nobody listens, and the
\* error of the send ends the connection.
PublishLiveOrFail(c) ==
    /\ pc[c] = "live"
    /\ Live!Publish(cur[c])
    /\ Goto(c, IF Live!Subscribers = {} THEN "error" ELSE "length")
    /\ cur' = [cur EXCEPT ![c] = NoFrame]
    /\ UNCHANGED <<storeVars, listener, uplinkVars, mirrored, clientVars>>

\* Another: the packet is kept for clients to come.
PublishLiveKept(c) ==
    /\ pc[c] = "live"
    /\ log' = Append(log, cur[c])
    /\ Goto(c, "length")
    /\ cur' = [cur EXCEPT ![c] = NoFrame]
    /\ UNCHANGED <<task, next, held, peer, since, at, got>>
    /\ UNCHANGED <<storeVars, listener, uplinkVars, mirrored, clientVars>>

\* let _ = state.live.send(text); then the next frame.
PublishLive(c) == /\ pc[c] = "live"
                  /\ Live!Publish(cur[c])
                  /\ Goto(c, "length")
                  /\ cur' = [cur EXCEPT ![c] = NoFrame]
                  /\ UNCHANGED <<storeVars, listener, uplinkVars, mirrored, clientVars>>

IngestStep(c) == \/ ReadLength(c) \/ ReadBody(c) \/ Mirror(c) \/ AskStore(c)
                 \/ InStore(c) \/ LeaveStore(c) \/ PublishLive(c)

-----------------------------------------------------------------------------
\* ws_upgrade answers 101 and leaves the socket to a task; a client that leaves
\* before the task runs is to it one that leaves right after.
Upgrade(k) == /\ ~opened[k]
              /\ opened' = [opened EXCEPT ![k] = TRUE]
              /\ UNCHANGED <<connVars, storeVars, liveVars, joined, heard, asOf>>

\* The task runs, and subscribes first of all.
Subscribe(k) == /\ opened[k] /\ Live!Subscribe(k)
                /\ joined' = [joined EXCEPT ![k] = Len(commits)]
                /\ UNCHANGED <<connVars, storeVars, opened, heard, asOf>>

\* A client asks for the history as often as it likes, its WebSocket open or not.
Fetch(k) == /\ \E n \in Queries : Store!WantPackets(k, n)
            /\ heard' = [heard EXCEPT ![k] = at[k] > since[k]]
            /\ asOf' = [asOf EXCEPT ![k] = Unanswered]
            /\ OnlyStore /\ UNCHANGED <<pc, cur, opened, joined>>

\* Mutant of HandleFetch: the guard is held while the answer is written to a
\* client that does not read it.
HandleFetchHolds(k) == /\ Store!Grant(k) \/ Store!ReadFirst(k)
                       /\ OnlyStore /\ UNCHANGED <<pc, cur, clientVars>>

\* The packets handler.
HandleFetch(k) == /\ \/ Store!Grant(k) /\ asOf' = asOf
                     \/ Store!ReadFirst(k) /\ asOf' = asOf
                     \/ Store!ReadRest(k) /\ asOf' = [asOf EXCEPT ![k] = Len(commits)]
                  /\ OnlyStore /\ UNCHANGED <<pc, cur, opened, joined, heard>>

\* The websocket task, and the client at its other end.
Socket(k) == /\ Live!TaskStep(k)
             /\ UNCHANGED <<connVars, storeVars, clientVars>>

Leave(k) == /\ k \in Leaving /\ Live!PeerGone(k)
            /\ UNCHANGED <<connVars, storeVars, clientVars>>

Next == \/ \E c \in Conns : AgentStep(c) \/ Accept(c) \/ IngestStep(c)
        \/ AcceptFails
        \/ \E k \in Clients : \/ Upgrade(k) \/ Subscribe(k) \/ Fetch(k) \/ HandleFetch(k)
                               \/ Socket(k) \/ Leave(k)

Spec == Init /\ [][Next]_vars

\* The runtime polls every task that is ready, the lock is granted in order,
\* and a task that waits for bytes is woken when they come.
Fairness == /\ \A c \in Conns : WF_vars(IngestStep(c))
            /\ \A k \in Clients : WF_vars(HandleFetch(k)) /\ WF_vars(Socket(k))

FairSpec == Spec /\ Fairness
-----------------------------------------------------------------------------
\* TypeOK: the listener, the streams, where the tasks are, and how far agents
\* and clients.
Parts == {LengthOf(f) : f \in Frames} \cup {BodyOf(f) : f \in Frames} \cup {Cut}

TypeOK == /\ listener \in {"up", "down"}
          /\ wire \in [Conns -> Seq(Parts)]
          /\ fin \in [Conns -> BOOLEAN] /\ reset \in [Conns -> BOOLEAN]
          /\ sent \in [Conns -> Nat] /\ \A c \in Conns : sent[c] <= Len(Script[c])
          /\ pc \in [Conns -> {"none", "length", "body", "frame", "decoded", "store", "live",
                               "ok", "error"}]
          /\ cur \in [Conns -> Frames \cup {NoFrame}]
          /\ mirrored \subseteq Frames
          /\ opened \in [Clients -> BOOLEAN] /\ heard \in [Clients -> BOOLEAN]
          /\ joined \in [Clients -> 0 .. MaxFrames] /\ asOf \in [Clients -> 0 .. Unanswered]

Elements(s) == {s[i] : i \in DOMAIN s}

\* Frames that their tasks have committed or are about to, but not published.
InFlight(where) == {cur[c] : c \in {d \in Conns : pc[d] \in where}}

\* The frames of an agent that are stored, by their place in its script.
StoredAt(c) == {n \in 1 .. Len(Script[c]) : Script[c][n] \in Elements(commits)}
Stored(c)   == Cardinality(StoredAt(c))

\* The frames of an agent come in s in the order of its script, each once.
InTurn(s, c) ==
    \A i, j \in 1 .. Len(Script[c]), x, y \in DOMAIN s :
        (s[x] = Script[c][i] /\ s[y] = Script[c][j] /\ x < y) => i < j

\* InOrder: what is stored of an agent's frames is what it sent, in its order,
\* from the first on, nothing twice and nothing left out; and what is live of
\* them comes in that order too.
InOrder ==
    \A c \in Conns : /\ StoredAt(c) = 1 .. Stored(c) /\ Stored(c) <= sent[c]
                     /\ InTurn(commits, c) /\ InTurn(log, c)

\* LiveIsStored: a packet that went live has been stored before, so that a
\* client that hears of it and asks finds it, or has it trimmed by later ones.
LiveIsStored == Elements(log) \subseteq Elements(commits)

\* NoGap: between the answer a client got when it asked for the history and its
\* WebSocket no packet falls through: one that was committed after the answer
\* is on the feed behind the client's start, or its task is about to publish
\* it.  The client must have heard from the WebSocket when it asked.  That the
\* upgrade was answered is not enough: the task subscribes some time later, and
\* what is committed after the answer and before that may reach the client
\* neither way (i <= joined[k]); but nothing else is lost to it either.
NoGap ==
    \A k \in Live!Subscribers :
        asOf[k] # Unanswered =>
            \A i \in asOf[k] + 1 .. Len(commits) :
                \/ \E x \in since[k] + 1 .. Len(log) : log[x] = commits[i]
                \/ commits[i] \in InFlight({"store", "live"})
                \/ ~heard[k] /\ i <= joined[k]

\* MirrorCovers: what is handed to the GSMTAP socket and what is stored of the
\* Qualcomm frames is the same, but for frames on their way from the one to the
\* other and frames whose connection ended there, as their packets could not be
\* serialized.  Whether a datagram arrives UDP does not tell.
MirrorCovers ==
    /\ \A f \in Elements(commits) : ToMirror(f) => f \in mirrored
    /\ \A f \in mirrored :
          \/ f \in Elements(commits) \cup InFlight({"decoded", "store"})
          \/ f \in InFlight({"error"}) /\ ~Serializes(f)

\* ImplementsParts: ingest tasks, handlers and sockets together use the store and
\* the feed only as PacketStore and LiveFeed describe, with frames that decode
\* and within their bounds, so that what is shown of the two holds here.
ImplementsParts == Store!Spec /\ Live!Spec

\* CleanEnd: a connection that ends without an error has had every frame that
\* the agent had written completely stored.
CleanEnd == \A c \in Conns : pc[c] = "ok" => Stored(c) = sent[c]

\* ErrorsExplained: a connection is dropped for what is wrong with its own next
\* frame (its length, its encoding, its being cut short, the datagram or the
\* JSON it becomes) or as it breaks itself while the next frame is read, and
\* for nothing that other agents or clients do.
ErrorsExplained ==
    \A c \in Conns : pc[c] = "error" =>
        LET n == Stored(c) + 1 IN
            \/ /\ n <= Len(Script[c])
               /\ LET f == Script[c][n] IN
                     \/ f.size # "fits"
                     \/ sent[c] >= n /\ ~f.valid
                     \/ sent[c] >= n /\ cur[c] = f /\ (ToMirror(f) \/ ~Serializes(f))
            \/ fin[c] /\ sent[c] = n - 1
            \/ reset[c] /\ cur[c] = NoFrame

\* FrameFate: a frame that an agent has written to an accepted connection is
\* stored in the end, unless the connection fails first.
FrameFate ==
    \A c \in Conns : \A n \in 1 .. Len(Script[c]) :
        (sent[c] >= n /\ pc[c] # "none") ~> (Stored(c) >= n \/ pc[c] = "error")
=============================================================================
