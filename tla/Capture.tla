------------------------------ MODULE Capture ------------------------------
(***************************************************************************)
(* One collector after another on one machine, with the files they leave   *)
(* behind: a live capture keeps what it reads in a raw file and the frames *)
(* it makes of it in a file of JSON lines; `replay` makes the frames again *)
(* from the raw file, `frames` sends the lines again, and `records` makes  *)
(* frames of a file from elsewhere.  Each frame goes to the lines, to the  *)
(* uplink and to the output, in this order.  A process may be killed, or a *)
(* write fail, between any two writes.                                     *)
(*                                                                         *)
(* The stream is a sequence of pieces: bytes in the middle of a packet,    *)
(* bytes that complete a log packet, and bytes that complete something     *)
(* else (an invalid frame, a packet that is not a log, a record of no      *)
(* known log code).  Hdlc, SdmFraming and VendorRecords show how they are  *)
(* found.                                                                  *)
(***************************************************************************)
EXTENDS Naturals, Sequences, FiniteSets

CONSTANTS Options,    \* the combinations of --raw-capture, --frame-capture and --server in use,
                      \* and whether the device is the TCP bridge of 6grok-qcsuper
          Commands,   \* the commands in use
          Archives,   \* the files from elsewhere, as sequences of pieces
          MaxPieces,  \* bound: pieces a device delivers
          MaxRead,    \* bound: pieces in one read
          MaxRuns     \* bound: commands run

ASSUME CaptureAssumption ==
    /\ Options \subseteq [raw : BOOLEAN, json : BOOLEAN, link : BOOLEAN, bridge : BOOLEAN]
    /\ \A o \in Options : o.bridge => ~o.raw
    /\ Commands \subseteq {"capture", "replay", "frames", "records"}
    /\ {MaxPieces, MaxRead, MaxRuns} \subseteq Nat

Pieces == {"part", "log", "other"}

ASSUME ArchiveAssumption ==
    \A a \in Archives : a \in Seq(Pieces) /\ Len(a) <= MaxPieces

VARIABLES pc, command, options, runs, outcome,
          session,    \* which capture the stream belongs to
          device,     \* the pieces read from the device in this session
          archive,    \* the file that `records` reads
          raw,        \* the raw file: the session it is of, and its pieces
          lines,      \* the file of JSON lines: frames, and how far each is written
          chunk,      \* buf[..n]: pieces read and not yet decoded
          taken,      \* pieces of the source, or lines, that have been decoded
          sequence, frame,
          link,       \* the connection to 6grok-api
          wire,       \* frames written to it, and how far
          shown       \* frames on the output

proc  == <<command, options, runs, session, archive>>
input == <<device, chunk, taken, sequence, frame>>
sinks == <<raw, lines, link, wire, shown>>
vars  == <<pc, outcome, proc, input, sinks>>

None == [sequence |-> 0, packet |-> <<0, 0>>]

Init == /\ pc = "idle" /\ outcome = "none" /\ runs = 0 /\ session = 0
        /\ command = "none" /\ options = [raw |-> FALSE, json |-> FALSE, link |-> FALSE, bridge |-> FALSE]
        /\ archive = <<>> /\ device = <<>> /\ chunk = <<>> /\ taken = 0 /\ sequence = 0 /\ frame = None
        /\ raw = [session |-> 0, pieces |-> <<>>] /\ lines = <<>>
        /\ link = FALSE /\ wire = <<>> /\ shown = <<>>

\* The capture a command reads the packets of; an archive is of none.
Elsewhere == MaxRuns + 1
Source == CASE command = "capture" -> session
            [] command = "replay"  -> raw.session
            [] command = "records" -> Elsewhere

Exit(o) == pc' = "idle" /\ outcome' = o /\ UNCHANGED <<proc, input, sinks>>

-----------------------------------------------------------------------------
\* main: a command is parsed, and opens what it reads (a capture opens the
\* device, and `records` its file only when it has opened its outputs).
Start(c, o) ==
    /\ pc = "idle" /\ runs < MaxRuns
    /\ c # "capture" => ~o.raw /\ ~o.bridge
    /\ c = "replay" => raw.session > 0 \* the file is there
    /\ c = "frames" => ~o.json
    /\ command' = c /\ options' = o /\ runs' = runs + 1
    /\ session' = IF c = "capture" THEN session + 1 ELSE session
    /\ archive' \in IF c = "records" THEN Archives ELSE {<<>>}
    /\ device' = <<>> /\ chunk' = <<>> /\ taken' = 0 /\ sequence' = 0 /\ frame' = None
    /\ link' = FALSE /\ wire' = <<>> /\ shown' = <<>>
    /\ pc' = "open_raw" /\ outcome' = "running"
    /\ UNCHANGED <<raw, lines>>

\* open_optional: File::create empties a file that is there.
OpenRaw == /\ pc = "open_raw" /\ pc' = "open_lines"
           /\ raw' = IF options.raw THEN [session |-> session, pieces |-> <<>>] ELSE raw
           /\ UNCHANGED <<outcome, proc, input, lines, link, wire, shown>>

\* Mutant of OpenLines: the file is opened for appending.
OpenLinesAppends == /\ pc = "open_lines" /\ pc' = "connect"
                    /\ UNCHANGED <<outcome, proc, input, sinks>>

OpenLines == /\ pc = "open_lines" /\ pc' = "connect"
             /\ lines' = IF options.json THEN <<>> ELSE lines
             /\ UNCHANGED <<outcome, proc, input, raw, link, wire, shown>>

Reading == IF command = "frames" THEN "line" ELSE "read"

\* connect_optional; without a server there the command ends, the files it
\* was to write already empty.
Connect == /\ pc = "connect" /\ pc' = Reading
           /\ link' = options.link
           /\ UNCHANGED <<outcome, proc, input, raw, lines, wire, shown>>

ConnectFails == pc = "connect" /\ options.link /\ Exit("failed")

-----------------------------------------------------------------------------
\* One read from the device.
ReadLive == /\ pc = "read" /\ command = "capture"
            /\ \E n \in 1 .. MaxRead : \E data \in [1 .. n -> Pieces] :
                  /\ Len(device) + n <= MaxPieces
                  /\ device' = device \o data /\ chunk' = data
            /\ pc' = IF options.raw THEN "write_raw" ELSE "decode"
            /\ UNCHANGED <<outcome, proc, taken, sequence, frame, sinks>>

\* Mutant of WriteRaw: write in place of write_all.
WriteRawShort == /\ pc = "write_raw"
                 /\ raw' = [raw EXCEPT !.pieces = Append(@, device[Len(@) + 1])]
                 /\ pc' = "decode"
                 /\ UNCHANGED <<outcome, proc, input, lines, link, wire, shown>>

\* write_all puts the read into the raw file, a piece at a time.
WriteRaw == /\ pc = "write_raw"
            /\ raw' = [raw EXCEPT !.pieces = Append(@, device[Len(@) + 1])]
            /\ pc' = IF Len(raw'.pieces) = Len(device) THEN "decode" ELSE pc
            /\ UNCHANGED <<outcome, proc, input, lines, link, wire, shown>>

\* One read from the raw file.
ReadSaved == /\ pc = "read" /\ command = "replay"
             /\ \E n \in 1 .. Len(raw.pieces) - taken :
                   n <= MaxRead /\ chunk' = SubSeq(raw.pieces, taken + 1, taken + n)
             /\ pc' = "decode"
             /\ UNCHANGED <<outcome, proc, device, taken, sequence, frame, sinks>>

\* read_records: the next bytes of a record, or the rest of it; nothing is read
\* ahead.
ReadRecord == /\ pc = "read" /\ command = "records" /\ taken < Len(archive)
              /\ chunk' = <<archive[taken + 1]>>
              /\ pc' = "decode"
              /\ UNCHANGED <<outcome, proc, device, taken, sequence, frame, sinks>>

\* A command that is no log code ends the import, with what it had emitted.
UnknownRecord == pc = "decode" /\ command = "records" /\ chunk = <<"other">> /\ Exit("failed")

\* The file ends, between records or in one.
EndOfRecords == /\ pc = "read" /\ command = "records" /\ taken = Len(archive)
                /\ Exit(IF taken > 0 /\ archive[taken] = "part" THEN "failed" ELSE "ok")

\* Mutant of EndOfInput: a replay is taken for a live stream.
EndOfInputLive == /\ pc = "read" /\ command = "capture" /\ options.bridge
                  /\ Exit("ok")

\* A read returns nothing: the raw file or the bridge's connection is at its
\* end.  (From a serial or SDM device the loop reads on, and no state changes.)
EndOfInput == /\ pc = "read"
              /\ \/ command = "replay" /\ taken = Len(raw.pieces)
                 \/ command = "capture" /\ options.bridge
              /\ Exit("ok")

\* emit_frame begins with the first sink there is.
FirstSink == IF options.json /\ command # "frames" THEN "json" ELSE IF options.link THEN "length" ELSE "print"

\* Mutant of Decode: packets that are no logs are counted too.
DecodeCountsAll ==
    /\ pc = "decode" /\ chunk # <<>>
    /\ chunk' = Tail(chunk) /\ taken' = taken + 1
    /\ sequence' = IF Head(chunk) = "part" THEN sequence ELSE sequence + 1
    /\ IF Head(chunk) = "log"
       THEN /\ frame' = [sequence |-> sequence', packet |-> <<Source, taken + 1>>]
            /\ pc' = FirstSink
       ELSE UNCHANGED <<frame, pc>>
    /\ UNCHANGED <<outcome, proc, device, sinks>>

\* The decoder takes the next piece; a log packet becomes a numbered frame.
Decode == /\ pc = "decode" /\ chunk # <<>> /\ ~(command = "records" /\ Head(chunk) = "other")
          /\ chunk' = Tail(chunk) /\ taken' = taken + 1
          /\ IF Head(chunk) = "log"
             THEN /\ sequence' = sequence + 1
                  /\ frame' = [sequence |-> sequence', packet |-> <<Source, taken + 1>>]
                  /\ pc' = FirstSink
             ELSE UNCHANGED <<sequence, frame, pc>>
          /\ UNCHANGED <<outcome, proc, device, sinks>>

ReadOn == /\ pc = "decode" /\ chunk = <<>> /\ pc' = "read"
          /\ UNCHANGED <<outcome, proc, input, sinks>>

-----------------------------------------------------------------------------
\* replay_normalized_frames: the next line, which may lack its newline.
ReadLine == /\ pc = "line" /\ taken < Len(lines) /\ lines[taken + 1].written # "torn"
            /\ taken' = taken + 1 /\ frame' = lines[taken + 1].frame
            /\ pc' = FirstSink
            /\ UNCHANGED <<outcome, proc, device, chunk, sequence, sinks>>

\* A line that is no JSON value ends the replay.
TornLine == /\ pc = "line" /\ taken < Len(lines) /\ lines[taken + 1].written = "torn"
            /\ Exit("torn")

EndOfLines == pc = "line" /\ taken = Len(lines) /\ Exit("ok")

-----------------------------------------------------------------------------
\* emit_frame, the lines: to_writer goes straight to the file, in pieces ...
BeginLine == /\ pc = "json" /\ pc' = "finish"
             /\ lines' = Append(lines, [frame |-> frame, written |-> "torn"])
             /\ UNCHANGED <<outcome, proc, input, raw, link, wire, shown>>

Written(w) == [lines EXCEPT ![Len(lines)].written = w]

FinishLine == /\ pc = "finish" /\ pc' = "newline" /\ lines' = Written("whole")
              /\ UNCHANGED <<outcome, proc, input, raw, link, wire, shown>>

\* ... and the newline follows.
EndLine == /\ pc = "newline" /\ lines' = Written("ended")
           /\ pc' = IF options.link THEN "length" ELSE "print"
           /\ UNCHANGED <<outcome, proc, input, raw, link, wire, shown>>

\* WireSink.send: the length, then the frame; an error ends the command.
SendLength == /\ pc = "length" /\ link /\ pc' = "body"
              /\ wire' = Append(wire, [frame |-> frame, written |-> "length"])
              /\ UNCHANGED <<outcome, proc, input, raw, lines, link, shown>>

SendBody == /\ pc = "body" /\ link /\ pc' = "print"
            /\ wire' = [wire EXCEPT ![Len(wire)].written = "whole"]
            /\ UNCHANGED <<outcome, proc, input, raw, lines, link, shown>>

SendFails == pc \in {"length", "body"} /\ ~link /\ Exit("failed")

\* println!
Show == /\ pc = "print" /\ shown' = Append(shown, frame)
        /\ pc' = IF command = "frames" THEN "line" ELSE "decode"
        /\ UNCHANGED <<outcome, proc, input, raw, lines, link, wire>>

-----------------------------------------------------------------------------
\* External: the server goes away; the process is killed, or a write fails.
LinkLost == link /\ link' = FALSE /\ UNCHANGED <<pc, outcome, proc, input, raw, lines, wire, shown>>

Dies == pc # "idle" /\ Exit("died")

Step == \/ OpenRaw \/ OpenLines \/ Connect \/ ConnectFails
        \/ ReadLive \/ WriteRaw \/ ReadSaved \/ EndOfInput \/ Decode \/ ReadOn
        \/ ReadRecord \/ UnknownRecord \/ EndOfRecords
        \/ ReadLine \/ TornLine \/ EndOfLines
        \/ BeginLine \/ FinishLine \/ EndLine \/ SendLength \/ SendBody \/ SendFails \/ Show

Next == \/ \E c \in Commands, o \in Options : Start(c, o)
        \/ Step \/ LinkLost \/ Dies

Spec == Init /\ [][Next]_vars

\* A process that is running goes on running.
FairSpec == Spec /\ WF_vars(Step)
-----------------------------------------------------------------------------
Frame == [sequence : 1 .. MaxPieces, packet : (1 .. Elsewhere) \X (1 .. MaxPieces)]

\* TypeOK: the types of the process, its files and its connection.
TypeOK ==
    /\ pc \in {"idle", "open_raw", "open_lines", "connect", "read", "write_raw", "decode", "line",
               "json", "finish", "newline", "length", "body", "print"}
    /\ outcome \in {"none", "running", "ok", "failed", "torn", "died"}
    /\ command \in Commands \cup {"none"} /\ runs \in 0 .. MaxRuns /\ session \in 0 .. runs
    /\ options \in [raw : BOOLEAN, json : BOOLEAN, link : BOOLEAN, bridge : BOOLEAN]
    /\ archive \in Archives \cup {<<>>} /\ device \in Seq(Pieces) /\ chunk \in Seq(Pieces) /\ taken \in 0 .. MaxPieces
    /\ sequence \in 0 .. taken /\ frame \in Frame \cup {None}
    /\ raw \in [session : 0 .. session, pieces : Seq(Pieces)]
    /\ lines \in Seq([frame : Frame, written : {"torn", "whole", "ended"}])
    /\ wire \in Seq([frame : Frame, written : {"length", "whole"}])
    /\ link \in BOOLEAN /\ shown \in Seq(Frame)

\* The frames that the first n pieces of a capture make, each with its number.
Rank(pieces, i) == Cardinality({j \in 1 .. i : pieces[j] = "log"})
FramesUpTo(s, pieces, n) ==
    {[sequence |-> Rank(pieces, i), packet |-> <<s, i>>] : i \in {j \in 1 .. n : pieces[j] = "log"}}
FramesOf(s, pieces) == FramesUpTo(s, pieces, Len(pieces))

\* What is written: all frames, and those but for a last one that is incomplete.
Frames(written)   == [i \in 1 .. Len(written) |-> written[i].frame]
WholeLen(written) == IF written # <<>> /\ written[Len(written)].written \in {"torn", "length"}
                     THEN Len(written) - 1 ELSE Len(written)
Whole(written)    == [i \in 1 .. WholeLen(written) |-> written[i].frame]
Elements(s)       == {s[i] : i \in 1 .. Len(s)}

\* RawCovers: whatever became of a capture with a raw file, all frames of it
\* that anybody got to see can be made again from that file: the bytes are
\* written before anything is made of them.
RawCovers ==
    \A f \in Elements(Frames(lines)) \cup Elements(Frames(wire)) \cup Elements(shown) :
        f.packet[1] = raw.session => f \in FramesOf(raw.session, raw.pieces)

Follows(s, t) == \* t is s, or s and one element more
    Len(s) <= Len(t) /\ Len(t) <= Len(s) + 1 /\ s = SubSeq(t, 1, Len(s))

Begun  == taken > 0 \* the command has opened its files and read
Making == Begun /\ command # "frames"

\* OutputsInStep: what a command has shown, it has sent, and what it has sent
\* is in the file, in the same order and never more than one frame apart,
\* even in a process that died; only the last line may lack its newline, and
\* only the last frame on the wire its body; and the numbers have no gap.
OutputsInStep ==
    /\ Begun /\ options.link => Follows(shown, Whole(wire))
    /\ Making /\ options.json => Follows(shown, Whole(lines))
    /\ Making /\ options.json /\ options.link => Follows(Whole(wire), Whole(lines))
    /\ \A i \in 1 .. Len(lines) - 1 : lines[i].written = "ended"
    /\ \A i \in 1 .. Len(wire) - 1 : wire[i].written = "whole"
    /\ \A i \in 1 .. Len(shown) : shown[i].sequence = i

\* ReplayedInFull: a replay of the lines that was not interrupted has shown all
\* lines, and stopped early only for the last of them, torn by the death of the
\* process that wrote it; a replay of a raw file, and an import of records
\* that reports success, has shown all frames of the file, and such an import
\* has met no record that it could not name.
ReplayedInFull ==
    /\ command = "frames" /\ outcome \in {"ok", "torn"} =>
          /\ shown = Whole(lines)
          /\ Len(lines) - Len(shown) = IF outcome = "ok" THEN 0 ELSE 1
    /\ command \in {"replay", "records"} /\ outcome = "ok" =>
          /\ Elements(shown) = FramesOf(Source, IF command = "replay" THEN raw.pieces ELSE archive)
          /\ options.json => Frames(lines) = shown
          /\ \A i \in DOMAIN archive : archive[i] # "other"

\* ReplayReturns: a replay, or an import, comes to its end.
ReplayReturns == command # "capture" /\ pc # "idle" ~> pc = "idle"
=============================================================================
