---------------------------- MODULE DiagControl -----------------------------
(***************************************************************************)
(* How 6grok-agent (over a serial port) and 6grok-qcsuper (over a QCSuper  *)
(* TCP bridge) control the log masks of a Qualcomm modem: runs of the      *)
(* program, one after another, a modem that answers DIAG_LOG_CONFIG_F      *)
(* requests in order, and the line from the modem, on which answers travel *)
(* among log packets.                                                      *)
(*                                                                         *)
(* A log code is a pair <<equipment, item>>.  A run that is given codes    *)
(* asks for the modem's item ranges, then writes one mask per equipment,   *)
(* lowest first, and waits for the answer to each; then it captures.  It   *)
(* waits by reading chunks: the first packet with the operation it expects *)
(* is its answer, and what is left of that chunk is dropped.               *)
(***************************************************************************)
EXTENDS Integers, Sequences, FiniteSets

CONSTANTS Equips,      \* equipment IDs (0 .. 15 in the code)
          MaxItem,     \* the largest item ID a code can name (4095)
          LastItem,    \* LastItem[e]: the last item the modem supports
          Selections,  \* the choices a user makes: [explicit |-> codes, profile |-> codes]
          Commands,    \* the commands a user runs: "capture", "probe", "disable"
          Transport,   \* "serial" or "bridge"
          IdleLimit,   \* idle reads until a wait gives up (5)
          InitialMask, \* the masks before the first run
          MaxRuns,     \* bound: runs of the program
          MaxLine,     \* bound: packets on the line
          MaxFaults    \* bound: answers the modem or the line spoils

Items == 0 .. MaxItem
Codes == Equips \X Items

ASSUME EquipAssumption == Equips \subseteq Nat /\ MaxItem \in Nat
ASSUME ModemAssumption == LastItem \in [Equips -> Items] /\ InitialMask \in [Equips -> SUBSET Items]
ASSUME UserAssumption ==
    /\ Selections \subseteq [explicit : SUBSET Codes, profile : SUBSET Codes]
    /\ Commands \subseteq {"capture", "probe", "disable"}
    /\ Transport \in {"serial", "bridge"}
ASSUME BoundAssumption == {IdleLimit, MaxRuns, MaxLine, MaxFaults} \subseteq Nat

VARIABLES mask,       \* mask[e]: the items of e the modem logs
          inbox,      \* requests the modem has not handled, in order
          line,       \* packets on their way from the modem, in order
          faults,     \* answers spoilt so far
          run,        \* the number of the current run
          cmd, want,  \* its command and its selection
          pc,         \* "off", "ranges", "apply", "mask", "disable", "capture", "exited"
          result,     \* "none", or how the run ended: "ok", "failed", "refused",
                      \* "out_of_range" or "killed"
          ranges,     \* the ranges it has been told, none yet: <<>>
          todo,       \* the equipments whose mask it has yet to write
          idle,       \* idle_timeouts
          fresh       \* history: no request or answer of an earlier run was on
                      \* its way when this one started

modemVars == <<mask, inbox, faults>>
runVars   == <<run, cmd, want>>
hostVars  == <<pc, result, ranges, todo, idle, fresh>>
vars == <<modemVars, line, runVars, hostVars>>

-----------------------------------------------------------------------------
\* What is on the wire.

RangesRequest           == [op |-> "ranges"]
DisableRequest          == [op |-> "disable"]
SetMaskRequest(e, l, s) == [op |-> "mask", equip |-> e, last |-> l, items |-> s]

\* An answer: status 0 or not, and the ranges if they were asked for.  It
\* carries no number, and nobody looks at the equipment it names.
Answer(q, ok)  == [kind |-> "answer", op |-> q.op, ok |-> ok,
                   last |-> IF q.op = "ranges" THEN LastItem ELSE <<>>]
LogPacket(c)   == [kind |-> "log", code |-> c]
Noise          == [kind |-> "noise"]      \* fails validate_diag_frame

\* parse_log_config_header accepts p and the operation is op.
IsAnswer(p, op) == p.kind = "answer" /\ p.op = op

-----------------------------------------------------------------------------
\* What a run works out from its arguments and the ranges.

\* Mutant of Selected: profile codes are not held against the ranges.
SelectedUnchecked(w, last) == w.explicit \cup w.profile

\* Explicit codes stay as they are; profile codes the modem lacks are skipped.
Selected(w, last) == w.explicit \cup {c \in w.profile : c[2] <= last[c[1]]}

\* group_log_codes: the items of one equipment.
ItemsOf(s, e) == {c[2] : c \in {d \in s : d[1] = e}}

EquipsOf(s) == {c[1] : c \in s}

\* The explicit code check at the top of the equipment loop.
Unsupported(w, last, e) == \E c \in w.explicit : c[1] = e /\ c[2] > last[e]

\* set_mask_request returns ItemOutOfRange unless this holds.
Fits(q) == \A i \in q.items : i <= q.last

Lowest(s) == CHOOSE e \in s : \A f \in s : e <= f

NoWant == [explicit |-> {}, profile |-> {}]

Init == /\ mask = InitialMask
        /\ inbox = <<>> /\ line = <<>> /\ faults = 0
        /\ run = 0 /\ cmd = "none" /\ want = NoWant
        /\ pc = "off" /\ result = "none" /\ ranges = <<>> /\ todo = {} /\ idle = 0
        /\ fresh = TRUE

-----------------------------------------------------------------------------
\* The modem.

\* It handles the requests in order, and may refuse one.  Its answer may be
\* spoilt on the way, or never come.
Handle == /\ inbox # <<>>
          /\ Len(line) < MaxLine
          /\ inbox' = Tail(inbox)
          /\ \E ok \in BOOLEAN : LET q == Head(inbox) IN
                /\ mask' = IF ok /\ q.op = "mask" THEN [mask EXCEPT ![q.equip] = q.items]
                           ELSE IF ok /\ q.op = "disable" THEN [e \in Equips |-> {}]
                           ELSE mask
                /\ \/ /\ line' = Append(line, Answer(q, ok))
                      /\ faults' = faults
                   \/ /\ faults < MaxFaults
                      /\ line' \in {line, Append(line, Noise)}
                      /\ faults' = faults + 1
          /\ UNCHANGED <<runVars, hostVars>>

\* It logs an item that is enabled (one slot of the line is left for answers).
Log == /\ Len(line) < MaxLine - 1
       /\ \E e \in Equips : \E i \in mask[e] : line' = Append(line, LogPacket(<<e, i>>))
       /\ UNCHANGED <<modemVars, runVars, hostVars>>

-----------------------------------------------------------------------------
\* A run of the program.

Ask(q) == inbox' = Append(inbox, q) /\ UNCHANGED <<mask, faults>>

Exit(how) == pc' = "exited" /\ result' = how

\* main: the port is open.  Only a capture without codes writes nothing.
Start(c, w) ==
    /\ pc \in {"off", "exited"} /\ run < MaxRuns
    /\ run' = run + 1 /\ cmd' = c /\ want' = w
    /\ ranges' = <<>> /\ todo' = {} /\ idle' = 0 /\ result' = "none"
    /\ fresh' = (inbox = <<>> /\ \A i \in DOMAIN line : line[i].kind # "answer")
    /\ IF c = "disable"
       THEN pc' = "disable" /\ Ask(DisableRequest)
       ELSE IF c = "probe" \/ w # NoWant
       THEN pc' = "ranges" /\ Ask(RangesRequest)
       ELSE pc' = "capture" /\ UNCHANGED modemVars
    /\ UNCHANGED line

Waiting == pc \in {"ranges", "mask", "disable"}

\* Mutant of Answered: the status matters to the ranges only.
AnsweredUnchecked(a) ==
    CASE ~a.ok /\ pc = "ranges" ->
            Exit("failed") /\ UNCHANGED <<ranges, todo>>
      [] a.ok /\ pc = "ranges" /\ cmd = "capture" ->
            /\ pc' = "apply" /\ ranges' = a.last
            /\ todo' = EquipsOf(Selected(want, a.last))
            /\ UNCHANGED result
      [] pc = "mask" ->
            /\ pc' = "apply" /\ todo' = todo \ {Lowest(todo)}
            /\ UNCHANGED <<result, ranges>>
      [] OTHER ->
            Exit("ok") /\ UNCHANGED <<ranges, todo>>

\* What the caller of the wait makes of its answer: bail! on a status, else
\* the ranges to go on with, one more mask accepted, or the end.
Answered(a) ==
    CASE ~a.ok ->
            Exit("failed") /\ UNCHANGED <<ranges, todo>>
      [] a.ok /\ pc = "ranges" /\ cmd = "capture" ->
            /\ pc' = "apply" /\ ranges' = a.last
            /\ todo' = EquipsOf(Selected(want, a.last))
            /\ UNCHANGED result
      [] a.ok /\ pc = "mask" ->
            /\ pc' = "apply" /\ todo' = todo \ {Lowest(todo)}
            /\ UNCHANGED <<result, ranges>>
      [] OTHER ->
            Exit("ok") /\ UNCHANGED <<ranges, todo>>

\* A read brings n packets and none of them is the answer.
ReadOn(n) ==
    /\ Waiting
    /\ \A i \in 1 .. n : ~IsAnswer(line[i], pc)
    /\ line' = SubSeq(line, n + 1, Len(line))
    /\ idle' = 0
    /\ UNCHANGED <<modemVars, runVars, pc, result, ranges, todo, fresh>>

\* A read brings n packets and the i-th is the answer: those behind it go
\* with the buffer, and so does the head of a packet the read has cut.
ReadAnswer(n, i) ==
    /\ Waiting
    /\ IsAnswer(line[i], pc) /\ \A j \in 1 .. i - 1 : ~IsAnswer(line[j], pc)
    /\ LET rest == SubSeq(line, n + 1, Len(line)) IN
          \/ line' = rest
          \/ rest # <<>> /\ line' = <<Noise>> \o Tail(rest)
    /\ Answered(line[i])
    /\ idle' = 0
    /\ UNCHANGED <<modemVars, runVars, fresh>>

WaitRead == \E n \in 1 .. Len(line) : ReadOn(n) \/ \E i \in 1 .. n : ReadAnswer(n, i)

\* Mutant of IdleRead: the counter starts again each time.
IdleReadForgets == /\ Waiting /\ line = <<>>
                   /\ idle' = 0
                   /\ UNCHANGED <<modemVars, line, runVars, pc, result, ranges, todo, fresh>>

\* A second has passed without a byte.
IdleRead == /\ Waiting /\ line = <<>>
            /\ idle' = idle + 1
            /\ IF idle' >= IdleLimit THEN Exit("failed") ELSE UNCHANGED <<pc, result>>
            /\ UNCHANGED <<modemVars, line, runVars, ranges, todo, fresh>>

\* Mutant of WriteMask: explicit codes take the place of the profile's.
WriteMaskUnmerged ==
    /\ pc = "apply" /\ todo # {}
    /\ LET e == Lowest(todo)
           own == ItemsOf(want.explicit, e)
           q == SetMaskRequest(e, ranges[e],
                               IF own # {} THEN own ELSE ItemsOf(Selected(want, ranges), e))
       IN  IF Unsupported(want, ranges, e)
           THEN Exit("refused") /\ UNCHANGED modemVars
           ELSE pc' = "mask" /\ result' = result /\ Ask(q)
    /\ idle' = 0
    /\ UNCHANGED <<line, runVars, ranges, todo, fresh>>

\* The loop over the equipments: check the explicit items of the next one,
\* build its mask, write it; no equipment left: on to the capture.
WriteMask ==
    /\ pc = "apply" /\ todo # {}
    /\ LET e == Lowest(todo)
           q == SetMaskRequest(e, ranges[e], ItemsOf(Selected(want, ranges), e))
       IN  IF Unsupported(want, ranges, e)
           THEN Exit("refused") /\ UNCHANGED modemVars
           ELSE IF ~Fits(q)
           THEN Exit("out_of_range") /\ UNCHANGED modemVars
           ELSE pc' = "mask" /\ result' = result /\ Ask(q)
    /\ idle' = 0
    /\ UNCHANGED <<line, runVars, ranges, todo, fresh>>

BeginCapture == /\ pc = "apply" /\ todo = {}
                /\ pc' = "capture"
                /\ UNCHANGED <<modemVars, line, runVars, result, ranges, todo, idle,
                               fresh>>

\* run_qualcomm_stream and run_capture read on; answers are no log packets.
CaptureRead == /\ pc = "capture" /\ line # <<>>
               /\ \E n \in 1 .. Len(line) : line' = SubSeq(line, n + 1, Len(line))
               /\ UNCHANGED <<modemVars, runVars, hostVars>>

\* The bridge closes: an error to a wait, the end of the stream to a capture.
BridgeClosed == /\ Transport = "bridge"
                /\ Waiting \/ pc = "capture"
                /\ Exit(IF pc = "capture" THEN "ok" ELSE "failed")
                /\ line' = <<>>
                /\ UNCHANGED <<modemVars, runVars, ranges, todo, idle, fresh>>

\* The user stops the run, or a read or a write fails.  Packets not yet read
\* go with the port, unless somebody else holds it open.
Killed == /\ pc \notin {"off", "exited"}
          /\ Exit("killed")
          /\ line' \in {line, <<>>}
          /\ UNCHANGED <<modemVars, runVars, ranges, todo, idle, fresh>>

HostStep == WaitRead \/ IdleRead \/ WriteMask \/ BeginCapture \/ CaptureRead

Next == \/ Handle \/ Log
        \/ \E c \in Commands, w \in Selections : Start(c, w)
        \/ HostStep \/ BridgeClosed \/ Killed

Spec == Init /\ [][Next]_vars

\* A run that can go on does: a read brings what there is, or times out.
FairSpec == Spec /\ WF_vars(HostStep)

\* Besides, the modem handles every request in the end.
FairModemSpec == FairSpec /\ WF_vars(Handle)
-----------------------------------------------------------------------------
Requests == [op : {"ranges", "disable"}]
            \cup [op : {"mask"}, equip : Equips, last : Items, items : SUBSET Items]

Packets == [kind : {"answer"}, op : {"ranges", "disable", "mask"}, ok : BOOLEAN,
            last : {LastItem, <<>>}]
           \cup [kind : {"log"}, code : Codes] \cup {Noise}

\* TypeOK: the types of the modem, of the line and of the run.
TypeOK == /\ mask \in [Equips -> SUBSET Items]
          /\ inbox \in Seq(Requests) /\ line \in Seq(Packets) /\ faults \in Nat
          /\ run \in Nat /\ cmd \in Commands \cup {"none"} /\ want \in Selections \cup {NoWant}
          /\ pc \in {"off", "ranges", "apply", "mask", "disable", "capture", "exited"}
          /\ result \in {"none", "ok", "failed", "refused", "out_of_range", "killed"}
          /\ ranges \in {<<>>, LastItem} /\ todo \subseteq Equips /\ idle \in Nat
          /\ fresh \in BOOLEAN

\* NeverOutOfRange: set_mask_request never has to refuse what the run gives
\* it, for the two checks before it (profile codes skipped, explicit codes
\* refused) leave only items of the modem's range; and what is written to the
\* modem names the modem's own range, whichever run's answer told it.
NeverOutOfRange ==
    /\ result # "out_of_range"
    /\ \A i \in DOMAIN inbox : inbox[i].op = "mask" =>
          inbox[i].last = LastItem[inbox[i].equip] /\ Fits(inbox[i])

\* What the user's selection comes to on equipment e of this modem.
MaskFor(w, e) == ItemsOf(Selected(w, LastItem), e)

\* MaskIsASelection: runs that are killed, refused or answered late, and
\* requests that outlive them, leave every equipment with the mask it had,
\* the whole mask of one selection that names it, or none after a disable:
\* never a mixture, and never a change to an equipment that nobody named.
MaskIsASelection ==
    \A e \in Equips :
        \/ mask[e] = InitialMask[e]
        \/ \E w \in Selections : e \in EquipsOf(Selected(w, LastItem)) /\ mask[e] = MaskFor(w, e)
        \/ "disable" \in Commands /\ mask[e] = {}

\* The modem logs, on each equipment the run selected, the merged selection and
\* nothing else, every explicit code included.
Configured ==
    /\ \A e \in EquipsOf(Selected(want, LastItem)) : mask[e] = MaskFor(want, e)
    /\ \A c \in want.explicit : c[2] \in mask[c[1]]

\* CaptureConfigured: a run that finds nothing of an earlier run on its way
\* captures only once every mask it asked for is set, for it has checked the
\* status of each answer; log packets, lost answers and spoilt ones among them
\* do not mislead it.
CaptureConfigured == pc = "capture" /\ fresh => Configured

\* DisableSilences: a disable that finds nothing of an earlier run on its way
\* and reports success has left nothing enabled.
DisableSilences == cmd = "disable" /\ result = "ok" /\ fresh => \A e \in Equips : mask[e] = {}

\* EveryCaptureConfigured: as CaptureConfigured, whatever an earlier run left
\* on its way: no capture starts before the status of its own masks is checked.
EveryCaptureConfigured == pc = "capture" => Configured

\* WaitEnds: a wait for an answer ends, with the answer or with an error.
WaitEnds == Waiting ~> ~Waiting

\* QuietWaitEnds: a wait ends even when the answer never comes, provided that
\* the modem's log packets cease some day.
QuietWaitEnds == (<>[][~Log]_vars) => WaitEnds
=============================================================================
