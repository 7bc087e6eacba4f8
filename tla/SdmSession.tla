----------------------------- MODULE SdmSession -----------------------------
(***************************************************************************)
(* How 6grok-samsung-sdm sets up the log of a Shannon modem: processes     *)
(* that open the same diagnostic device, each of them a capture that       *)
(* configures it, a passive capture, or a stop.  A configuration is a row  *)
(* of packets, written one by one: start, the update period, nothing       *)
(* selected in any group, and then the selection.  Nobody waits for an     *)
(* answer, and a process may end between any two packets.                  *)
(*                                                                         *)
(* What a modem makes of a packet is not in the source, and left open here *)
(* where the comments do not say it.  An item stands for all items of its  *)
(* class: for those of a profile, or for the rest, which no profile names. *)
(*                                                                         *)
(* The specification is SessionSpec: SdmProofs extends this module and     *)
(* SdmFraming, of which the other names are.                               *)
(***************************************************************************)
EXTENDS Naturals, Sequences

CONSTANTS Procs,   \* the processes
          Modes,   \* the commands in use
          MaxInbox \* bound: packets the driver holds before a write blocks

Profiles     == {"signaling", "radio", "full"}
Configuring  == Profiles \cup {"all"} \* all: --all-items

ASSUME SessionAssumption ==
    Modes \subseteq Configuring \cup {"passive", "stop"} /\ MaxInbox \in Nat \ {0}

VARIABLES mode, pc,
          todo,               \* the packets a process has yet to write
          inbox,              \* packets the modem has not handled, in order
          running, selected,  \* whether the modem logs, and which items of each group
          adds,               \* a list of items adds to those selected, or replaces them
          latest,             \* history: the process that wrote last
          alone               \* history: processes during whose configuration no other wrote

procVars  == <<mode, pc, todo>>
modemVars == <<running, selected, adds>>
sessionVars == <<procVars, inbox, modemVars, latest, alone>>

-----------------------------------------------------------------------------
\* The groups, in the order init_packets goes through them, and their items.
GroupOrder == <<"common", "lte", "edge", "hspa", "cdma">>
Groups     == {GroupOrder[i] : i \in DOMAIN GroupOrder}

ItemsOf(g) == CASE g = "common" -> {"context", "signaling", "rest"}
                [] g = "lte"    -> {"context", "signaling", "radio", "rest"}
                [] OTHER        -> {"rest"}

\* deselect_all, a count of none; select_all, a count that means all.
NoItems    == [g \in Groups |-> {}]
Everything == [g \in Groups |-> ItemsOf(g)]

\* profile_items.
CommonItems(m) == IF m = "radio" THEN {"context"} ELSE {"context", "signaling"}

LteItems(m) == CASE m = "signaling" -> {"context", "signaling"}
                 [] m = "radio"     -> {"context", "radio"}
                 [] m = "full"      -> {"context", "signaling", "radio"}

Packet(op)   == [op |-> op]
Select(g, s) == [op |-> "select", group |-> g, items |-> s] \* item_selection

ForEachGroup(chosen) == [i \in DOMAIN GroupOrder |-> Select(GroupOrder[i], chosen[GroupOrder[i]])]

\* The last part of init_packets.
Selection(m) == IF m = "all" THEN ForEachGroup(Everything)
                ELSE <<Select("common", CommonItems(m)), Select("lte", LteItems(m))>>

\* Mutants of InitPackets: only the groups of the profile are emptied; each
\* group is emptied after it has been selected.
InitPacketsTwoGroups(m) ==
    <<Packet("start"), Packet("period"), Select("common", {}), Select("lte", {})>> \o Selection(m)

InitPacketsSelectFirst(m) ==
    <<Packet("start"), Packet("period")>> \o Selection(m) \o ForEachGroup(NoItems)

InitPackets(m) ==
    <<Packet("start"), Packet("period")>> \o ForEachGroup(NoItems) \o Selection(m)

\* What each command writes.
PacketsOf(m) == CASE m \in Configuring -> InitPackets(m)
                  [] m = "stop"        -> <<Packet("stop")>>
                  [] m = "passive"     -> <<>>

SessionInit ==
    /\ mode = [p \in Procs |-> "none"] /\ pc = [p \in Procs |-> "off"]
    /\ todo = [p \in Procs |-> <<>>] /\ inbox = <<>>
    /\ running \in BOOLEAN /\ selected \in {NoItems, Everything} /\ adds \in BOOLEAN
    /\ latest = "none" /\ alone = {}

-----------------------------------------------------------------------------
\* The modem takes the next packet.  A start and a stop may well change what
\* is selected; a list of items is added to what is, or replaces it.
Handle ==
    /\ inbox # <<>> /\ inbox' = Tail(inbox)
    /\ LET q == Head(inbox) IN
          CASE q.op = "start"  -> running' = TRUE /\ selected' \in {selected, NoItems, Everything}
            [] q.op = "stop"   -> running' = FALSE /\ selected' \in {selected, NoItems}
            [] q.op = "period" -> UNCHANGED <<running, selected>>
            [] q.op = "select" ->
                  /\ selected' = [selected EXCEPT ![q.group] =
                                     IF adds /\ q.items # {} THEN @ \cup q.items ELSE q.items]
                  /\ UNCHANGED running
    /\ UNCHANGED <<procVars, adds, latest, alone>>

-----------------------------------------------------------------------------
\* main: open_device, and what there is to write.
Open(p, m) == /\ pc[p] = "off"
              /\ mode' = [mode EXCEPT ![p] = m]
              /\ pc' = [pc EXCEPT ![p] = "writing"]
              /\ todo' = [todo EXCEPT ![p] = PacketsOf(m)]
              /\ alone' = alone \cup {p}
              /\ UNCHANGED <<inbox, modemVars, latest>>

\* Mutant of Write: a packet that the driver cannot take at once is dropped.
WriteDrops(p) ==
    /\ pc[p] = "writing" /\ todo[p] # <<>>
    /\ inbox' = IF Len(inbox) < MaxInbox THEN Append(inbox, Head(todo[p])) ELSE inbox
    /\ todo' = [todo EXCEPT ![p] = Tail(@)]
    /\ latest' = p
    /\ alone' = alone \ {q \in Procs : q # p /\ pc[q] = "writing"}
    /\ UNCHANGED <<mode, pc, modemVars>>

\* configure_sdm, or the stop: the next write_all.
Write(p) == /\ pc[p] = "writing" /\ todo[p] # <<>> /\ Len(inbox) < MaxInbox
            /\ inbox' = Append(inbox, Head(todo[p]))
            /\ todo' = [todo EXCEPT ![p] = Tail(@)]
            /\ latest' = p
            /\ alone' = alone \ {q \in Procs : q # p /\ pc[q] = "writing"}
            /\ UNCHANGED <<mode, pc, modemVars>>

\* All is written: a stop is done, a capture opens its files and its uplink
\* (run_stream reads on until the process ends).
Written(p) == /\ pc[p] = "writing" /\ todo[p] = <<>>
              /\ pc' = [pc EXCEPT ![p] = IF mode[p] = "stop" THEN "ended" ELSE "streaming"]
              /\ UNCHANGED <<mode, todo, inbox, modemVars, latest, alone>>

\* The process is stopped; a write or a read fails, or a file or the uplink
\* cannot be opened.  The modem is left as it is.
Ends(p) == /\ pc[p] \in {"writing", "streaming"}
           /\ pc' = [pc EXCEPT ![p] = "ended"]
           /\ UNCHANGED <<mode, todo, inbox, modemVars, latest, alone>>

SessionNext ==
    \/ Handle
    \/ \E p \in Procs : \/ \E m \in Modes : Open(p, m)
                        \/ Write(p) \/ Written(p) \/ Ends(p)

SessionSpec == SessionInit /\ [][SessionNext]_sessionVars

\* A process goes on writing, and the modem goes on reading.
FairSession == SessionSpec /\ WF_sessionVars(Handle) /\ \A p \in Procs : WF_sessionVars(Write(p))
-----------------------------------------------------------------------------
Packets == [op : {"start", "period", "stop"}]
           \cup UNION {[op : {"select"}, group : {g}, items : SUBSET ItemsOf(g)] : g \in Groups}

\* SessionTypeOK: the types of the processes, of the line to the modem and of the modem.
SessionTypeOK ==
    /\ mode \in [Procs -> Modes \cup {"none"}]
    /\ pc \in [Procs -> {"off", "writing", "streaming", "ended"}]
    /\ todo \in [Procs -> Seq(Packets)]
    /\ inbox \in Seq(Packets) /\ Len(inbox) <= MaxInbox
    /\ running \in BOOLEAN /\ adds \in BOOLEAN
    /\ \A g \in Groups : selected[g] \subseteq ItemsOf(g)
    /\ latest \in Procs \cup {"none"} /\ alone \subseteq Procs

\* What a configuration is to come to.
Wanted(m) == IF m = "all" THEN Everything
             ELSE [NoItems EXCEPT !["common"] = CommonItems(m), !["lte"] = LteItems(m)]

\* p has written all of a configuration.
Configured(p) == mode[p] \in Configuring /\ pc[p] # "off" /\ todo[p] = <<>>

\* SelectionExact: once the modem has handled a configuration that nobody
\* wrote into or after, it logs exactly what was asked for, whatever it had
\* selected before, whatever configurations were broken off before, and
\* whether it adds up the lists it is sent or not.
SelectionExact ==
    inbox = <<>> =>
        \A p \in alone : Configured(p) /\ latest = p => running /\ selected = Wanted(mode[p])

\* Some process has ended, or has yet to go on, within its configuration.
BrokenOff == \E p \in Procs : todo[p] # <<>>

\* NotSilenced: configurations that are written at the same time may mix, but
\* if none of them is broken off they never leave a modem that is running with
\* a hole in it: each group that profiles select has a whole selection that
\* somebody asked for.
NotSilenced ==
    inbox = <<>> /\ running /\ ~BrokenOff =>
        \A p \in Procs : Configured(p) =>
            \A g \in {"common", "lte"} :
                \E q \in Procs : Configured(q) /\ Wanted(mode[q])[g] \subseteq selected[g]

\* ConfigurationTakesHold: a configuration that is begun and not broken off
\* is what the modem logs in the end, unless another process writes to it.
ConfigurationTakesHold ==
    \A p \in Procs :
        pc[p] = "writing" /\ mode[p] \in Configuring /\ latest = p /\ p \in alone ~>
            \/ mode[p] \in Configuring /\ running /\ selected = Wanted(mode[p])
            \/ pc[p] = "ended" /\ todo[p] # <<>>
            \/ latest # p
=============================================================================
