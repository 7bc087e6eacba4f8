--------------------------- MODULE CaptureProofs ----------------------------
(***************************************************************************)
(* Proofs about Capture, for every device, every archive, every way to cut *)
(* the stream into reads and every sequence of commands that may die       *)
(* between any two writes: the raw file covers what anybody saw, the       *)
(* outputs never part by more than one frame, what is replayed is          *)
(* complete, and a replay gets on with every step.                         *)
(***************************************************************************)
EXTENDS Capture, SequenceTheorems, FiniteSetTheorems, TLAPS

Opening == {"open_raw", "open_lines", "connect"}
Sinks   == {"json", "finish", "newline", "length", "body", "print"}

\* The pieces that the command decodes.
Input == CASE command = "capture" -> device
           [] command = "replay"  -> raw.pieces
           [] OTHER               -> archive

\* The files that a command leaves to the next.
Files ==
    /\ Len(raw.pieces) <= MaxPieces /\ Len(lines) <= MaxPieces
    /\ \A i \in 1 .. Len(lines) : /\ lines[i].frame.sequence = i
                                  /\ lines[i].frame.packet[1] \in (1 .. session) \cup {Elsewhere}
                                  /\ i < Len(lines) => lines[i].written = "ended"

\* A frame of the capture in the raw file can be made of it.
Covered(f) == f.packet[1] = raw.session => f \in FramesOf(raw.session, raw.pieces)

AllCovered == /\ \A i \in 1 .. Len(lines) : Covered(lines[i].frame)
              /\ \A i \in 1 .. Len(wire) : Covered(wire[i].frame)
              /\ \A i \in 1 .. Len(shown) : Covered(shown[i])

-----------------------------------------------------------------------------
\* What holds of a command that runs, one part for each thing it works on.

\* Which steps a command and its options lead to.
Scene ==
    /\ outcome = "running" /\ command \in Commands
    /\ command # "capture" => ~options.raw
    /\ command = "capture" => session > 0
    /\ command = "replay" => raw.session > 0
    /\ command = "frames" => ~options.json /\ pc \notin {"read", "write_raw", "decode"}
    /\ command # "frames" => pc # "line"
    /\ command # "records" => archive = <<>>
    /\ pc = "write_raw" => command = "capture" /\ options.raw
    /\ pc \in {"json", "finish", "newline"} => options.json
    /\ pc \in {"length", "body"} => options.link
    /\ pc \in Opening => /\ device = <<>> /\ chunk = <<>> /\ taken = 0 /\ sequence = 0
                         /\ shown = <<>> /\ wire = <<>>

\* How far the input has been decoded; the chunk is what follows.
Decoded ==
    IF command = "frames"
    THEN /\ chunk = <<>> /\ sequence = 0 /\ taken <= Len(lines)
         /\ \A i \in 1 .. taken : lines[i].written # "torn"
    ELSE /\ taken + Len(chunk) <= Len(Input) /\ Len(Input) <= MaxPieces
         /\ \A i \in 1 .. Len(chunk) : chunk[i] = Input[taken + i]
         /\ command = "capture" => taken + Len(chunk) = Len(device)
         /\ command = "records" => \A i \in 1 .. taken : archive[i] # "other"
         /\ pc \notin {"write_raw", "decode"} \cup Sinks => chunk = <<>>
         /\ sequence = Rank(Input, taken)

\* The raw file has everything that was decoded, and is of no other session;
\* before it is opened no output has a frame of this one.
RawNow ==
    command = "capture" =>
       /\ pc = "open_raw" \/ ~options.raw => raw.session < session
       /\ pc \in Opening => \A i \in 1 .. Len(lines) : lines[i].frame.packet[1] # session
       /\ pc # "open_raw" /\ options.raw =>
             /\ raw.session = session
             /\ Len(raw.pieces) <= Len(device)
             /\ \A i \in 1 .. Len(raw.pieces) : raw.pieces[i] = device[i]
             /\ IF pc = "write_raw" THEN taken <= Len(raw.pieces) /\ Len(raw.pieces) < Len(device)
                                    ELSE Len(raw.pieces) = Len(device)

\* The frame on its way is that of the piece, or the line, taken last.
FrameNow ==
    pc \in Sinks =>
       /\ taken > 0
       /\ IF command = "frames" THEN frame = lines[taken].frame
          ELSE /\ Input[taken] = "log"
               /\ frame = [sequence |-> sequence, packet |-> <<Source, taken>>]

\* Everything taken before it has been shown.
Past == IF pc \in Sinks THEN taken - 1 ELSE taken

ShownNow ==
    IF command = "frames"
    THEN /\ Len(shown) = Past
         /\ \A i \in 1 .. Past : shown[i] = lines[i].frame
    ELSE /\ Len(shown) = Rank(Input, Past)
         /\ Elements(shown) = FramesUpTo(Source, Input, Past)
         /\ \A i \in 1 .. Len(shown) : shown[i].sequence = i

\* What was shown was written before, and by now perhaps one frame more.
LinesNow ==
    command # "frames" /\ options.json /\ pc \notin {"open_raw", "open_lines"} =>
       LET inFile == {"finish", "newline", "length", "body", "print"} IN
       /\ Len(lines) = IF pc \in inFile THEN Len(shown) + 1 ELSE Len(shown)
       /\ \A i \in 1 .. Len(shown) : lines[i] = [frame |-> shown[i], written |-> "ended"]
       /\ pc \in inFile => lines[Len(lines)] = [frame |-> frame,
             written |-> IF pc = "finish" THEN "torn" ELSE IF pc = "newline" THEN "whole" ELSE "ended"]

WireNow ==
    IF options.link
    THEN /\ Len(wire) = IF pc \in {"body", "print"} THEN Len(shown) + 1 ELSE Len(shown)
         /\ \A i \in 1 .. Len(shown) : wire[i] = [frame |-> shown[i], written |-> "whole"]
         /\ pc \in {"body", "print"} => wire[Len(wire)] = [frame |-> frame,
               written |-> IF pc = "body" THEN "length" ELSE "whole"]
    ELSE wire = <<>>

Running == Scene /\ Decoded /\ RawNow /\ FrameNow /\ ShownNow /\ LinesNow /\ WireNow

-----------------------------------------------------------------------------
\* What is left of it when the command has ended, in whatever way.

Together ==
    /\ \A i \in 1 .. Len(shown) : shown[i].sequence = i
    /\ IF options.link
       THEN /\ Len(wire) \in {Len(shown), Len(shown) + 1}
            /\ \A i \in 1 .. Len(shown) : wire[i] = [frame |-> shown[i], written |-> "whole"]
       ELSE wire = <<>>
    /\ Making /\ options.json =>
          /\ Len(lines) \in {Len(shown), Len(shown) + 1}
          /\ \A i \in 1 .. Len(shown) : lines[i] = [frame |-> shown[i], written |-> "ended"]
    /\ Making /\ options.json /\ options.link /\ Len(wire) = Len(shown) + 1 =>
          /\ Len(lines) = Len(wire)
          /\ lines[Len(wire)] = [frame |-> wire[Len(wire)].frame, written |-> "ended"]

Replayed ==
    /\ command = "frames" /\ outcome \in {"ok", "torn"} =>
          /\ Len(lines) = IF outcome = "ok" THEN Len(shown) ELSE Len(shown) + 1
          /\ \A i \in 1 .. Len(shown) : shown[i] = lines[i].frame /\ lines[i].written # "torn"
          /\ outcome = "torn" => lines[Len(lines)].written = "torn"
    /\ command \in {"replay", "records"} /\ outcome = "ok" =>
          /\ Elements(shown) = FramesOf(Source, Input)
          /\ options.json => Len(lines) = Len(shown) /\ \A i \in 1 .. Len(shown) : lines[i].frame = shown[i]
          /\ \A i \in 1 .. Len(archive) : archive[i] # "other"

IInv == /\ TypeOK /\ Files /\ AllCovered
        /\ IF pc = "idle" THEN Together /\ Replayed /\ outcome # "running" ELSE Running

-----------------------------------------------------------------------------
USE CaptureAssumption

\* The numbers of the frames and the frames themselves, one piece further.
LEMMA RankStep ==
    ASSUME NEW p, NEW n \in Nat
    PROVE  /\ Rank(p, 0) = 0 /\ Rank(p, n) \in 0 .. n
           /\ Rank(p, n + 1) = IF p[n + 1] = "log" THEN Rank(p, n) + 1 ELSE Rank(p, n)
<1> DEFINE A(k) == {j \in 1 .. k : p[j] = "log"}
<1>1. A(n + 1) = (IF p[n + 1] = "log" THEN A(n) \cup {n + 1} ELSE A(n)) /\ n + 1 \notin A(n) /\ A(0) = {}
  OBVIOUS
<1>2. IsFiniteSet(A(n)) /\ Cardinality(A(n)) \in Nat /\ Cardinality(A(n)) <= n
  <2>1. IsFiniteSet(1 .. n) /\ Cardinality(1 .. n) = n
    <3>1. 1 \in Int /\ n \in Int /\ (IF 1 > n THEN 0 ELSE n - 1 + 1) = n
      OBVIOUS
    <3> QED BY <3>1, FS_Interval
  <2>2. A(n) \in SUBSET (1 .. n)
    OBVIOUS
  <2> HIDE DEF A
  <2> QED BY <2>1, <2>2, FS_Subset, FS_CardinalityType
<1> HIDE DEF A
<1>3. Cardinality(A(n) \cup {n + 1}) = Cardinality(A(n)) + 1
  BY <1>1, <1>2, FS_AddElement
<1>4. Cardinality(A(0)) = 0
  BY <1>1, FS_EmptySet
<1>5. Rank(p, 0) = Cardinality(A(0)) /\ Rank(p, n) = Cardinality(A(n)) /\ Rank(p, n + 1) = Cardinality(A(n + 1))
  BY DEF Rank, A
<1> QED BY <1>1, <1>2, <1>3, <1>4, <1>5

LEMMA FramesStep ==
    ASSUME NEW p, NEW n \in Nat, NEW s
    PROVE  /\ FramesUpTo(s, p, 0) = {}
           /\ FramesUpTo(s, p, n + 1) =
                 IF p[n + 1] = "log"
                 THEN FramesUpTo(s, p, n) \cup {[sequence |-> Rank(p, n) + 1, packet |-> <<s, n + 1>>]}
                 ELSE FramesUpTo(s, p, n)
<1> DEFINE A(k) == {j \in 1 .. k : p[j] = "log"}
           F(i) == [sequence |-> Rank(p, i), packet |-> <<s, i>>]
<1>1. A(n + 1) = (IF p[n + 1] = "log" THEN A(n) \cup {n + 1} ELSE A(n)) /\ A(0) = {}
  OBVIOUS
<1>2. /\ FramesUpTo(s, p, 0) = {F(i) : i \in A(0)} /\ FramesUpTo(s, p, n) = {F(i) : i \in A(n)}
      /\ FramesUpTo(s, p, n + 1) = {F(i) : i \in A(n + 1)}
  BY DEF FramesUpTo
<1>3. p[n + 1] = "log" => F(n + 1) = [sequence |-> Rank(p, n) + 1, packet |-> <<s, n + 1>>]
  BY RankStep
<1> HIDE DEF A, F
<1>4. {F(i) : i \in A(n) \cup {n + 1}} = {F(i) : i \in A(n)} \cup {F(n + 1)}
  OBVIOUS
<1> QED BY <1>1, <1>2, <1>3, <1>4

\* What follows the first n pieces changes nothing of their frames ...
LEMMA FramesSame ==
    ASSUME NEW p, NEW q, NEW n \in Nat, \A i \in 1 .. n : p[i] = q[i]
    PROVE  Rank(p, n) = Rank(q, n) /\ \A s : FramesUpTo(s, p, n) = FramesUpTo(s, q, n)
<1>1. \A k \in 0 .. n : {j \in 1 .. k : p[j] = "log"} = {j \in 1 .. k : q[j] = "log"}
  OBVIOUS
<1>2. \A k \in 0 .. n : Rank(p, k) = Rank(q, k)
  BY <1>1 DEF Rank
<1>3. ASSUME NEW s PROVE FramesUpTo(s, p, n) = FramesUpTo(s, q, n)
  BY <1>1, <1>2 DEF FramesUpTo
<1> QED BY <1>2, <1>3

\* ... and they are among those of all pieces.
LEMMA FramesAmong ==
    ASSUME NEW p, NEW m \in Nat, NEW n \in 0 .. m, NEW s
    PROVE  FramesUpTo(s, p, n) \subseteq FramesUpTo(s, p, m)
  BY DEF FramesUpTo

LEMMA ElementsGrow ==
    ASSUME NEW S, NEW s \in Seq(S), NEW e \in S
    PROVE  Elements(Append(s, e)) = Elements(s) \cup {e}
<1>1. /\ Len(s) \in Nat /\ Len(Append(s, e)) = Len(s) + 1 /\ Append(s, e)[Len(s) + 1] = e
      /\ \A i \in 1 .. Len(s) : Append(s, e)[i] = s[i]
  BY AppendProperties
<1> QED BY <1>1 DEF Elements

Line(W) == [frame : Frame, written : W]

\* Setting how far the last entry is written.
LEMMA LastSet ==
    ASSUME NEW W, NEW s \in Seq(Line(W)), NEW w \in W, Len(s) > 0
    PROVE  LET t == [s EXCEPT ![Len(s)].written = w] IN
           /\ t \in Seq(Line(W)) /\ Len(t) = Len(s)
           /\ \A i \in 1 .. Len(s) - 1 : t[i] = s[i]
           /\ t[Len(s)] = [frame |-> s[Len(s)].frame, written |-> w]
<1> DEFINE n == Len(s)
           e == [s[n] EXCEPT !.written = w]
<1>1. n \in 1 .. Len(s) /\ n \in Nat
  OBVIOUS
<1>2. s[n] \in Line(W)
  BY <1>1, ElementOfSeq
<1>3. e \in Line(W) /\ e = [frame |-> s[n].frame, written |-> w]
  BY <1>2 DEF Line
<1>4. [s EXCEPT ![n].written = w] = [s EXCEPT ![n] = e]
  OBVIOUS
<1> HIDE DEF e
<1>5. /\ [s EXCEPT ![n] = e] \in Seq(Line(W)) /\ Len([s EXCEPT ![n] = e]) = Len(s)
      /\ \A j \in 1 .. Len(s) : [s EXCEPT ![n] = e][j] = IF j = n THEN e ELSE s[j]
  <2> HIDE DEF n
  <2> QED BY <1>1, <1>3, ExceptSeq
<1> QED BY <1>1, <1>3, <1>4, <1>5

-----------------------------------------------------------------------------
\* Lengths and counters are numbers.
LEMMA Numbers ==
    ASSUME TypeOK
    PROVE  /\ Len(shown) \in Nat /\ Len(wire) \in Nat /\ Len(lines) \in Nat /\ Len(device) \in Nat
           /\ Len(chunk) \in Nat /\ Len(raw.pieces) \in Nat /\ taken \in Nat /\ sequence \in Nat
           /\ raw.pieces \in Seq(Pieces) /\ raw.session \in Nat /\ session \in 0 .. MaxRuns
           /\ MaxPieces \in Nat /\ MaxRuns \in Nat /\ taken <= MaxPieces
  BY DEF TypeOK

LEMMA InitInv == Init => IInv
<1> SUFFICES ASSUME Init PROVE IInv
  OBVIOUS
<1> USE DEF Init
<1>1. TypeOK
  <2>1. \A S : <<>> \in Seq(S)
    BY EmptySeq
  <2>2. MaxPieces \in Nat /\ MaxRuns \in Nat
    OBVIOUS
  <2>3. raw \in [session : 0 .. session, pieces : Seq(Pieces)]
    BY <2>1
  <2>4. options \in [raw : BOOLEAN, json : BOOLEAN, link : BOOLEAN, bridge : BOOLEAN] /\ link \in BOOLEAN
    OBVIOUS
  <2>5. runs \in 0 .. MaxRuns /\ session \in 0 .. runs /\ taken \in 0 .. MaxPieces /\ sequence \in 0 .. taken
    BY <2>2
  <2>6. /\ archive \in Archives \cup {<<>>} /\ device \in Seq(Pieces) /\ chunk \in Seq(Pieces)
        /\ lines \in Seq([frame : Frame, written : {"torn", "whole", "ended"}])
        /\ wire \in Seq([frame : Frame, written : {"length", "whole"}]) /\ shown \in Seq(Frame)
    BY <2>1
  <2> QED BY <2>3, <2>4, <2>5, <2>6 DEF TypeOK
<1>2. Files /\ AllCovered
  BY DEF Files, AllCovered
<1>3. Together /\ Replayed
  BY DEF Together, Replayed, Making, Begun
<1> QED BY <1>1, <1>2, <1>3 DEF IInv

\* A command that ends, wherever it stands, leaves its outputs in step.
LEMMA EndsTogether == ASSUME TypeOK, Files, Running PROVE Together
<1> USE DEF Running
<1>0. /\ Len(shown) \in Nat /\ Len(wire) \in Nat /\ Len(lines) \in Nat /\ taken \in Nat
  BY Numbers
<1>1. \A i \in 1 .. Len(shown) : shown[i].sequence = i
  <2>1. CASE command = "frames"
    <3>1. Past \in Nat /\ Past <= Len(lines)
      BY <1>0, <2>1 DEF Past, FrameNow, Decoded
    <3> QED BY <1>0, <2>1, <3>1 DEF ShownNow, Files
  <2>2. CASE command # "frames"
    BY <2>2 DEF ShownNow
  <2> QED BY <2>1, <2>2
<1>2. Making => pc \notin {"open_raw", "open_lines"} /\ command # "frames"
  BY DEF Making, Begun, Scene, Opening
<1>3. ASSUME options.link
      PROVE  /\ Len(wire) \in {Len(shown), Len(shown) + 1}
             /\ \A i \in 1 .. Len(shown) : wire[i] = [frame |-> shown[i], written |-> "whole"]
             /\ Len(wire) = Len(shown) + 1 => pc \in {"body", "print"} /\ wire[Len(wire)].frame = frame
  BY <1>0, <1>3 DEF WireNow
<1>4. ~options.link => wire = <<>>
  BY DEF WireNow
<1>5. ASSUME Making, options.json
      PROVE  /\ Len(lines) \in {Len(shown), Len(shown) + 1}
             /\ \A i \in 1 .. Len(shown) : lines[i] = [frame |-> shown[i], written |-> "ended"]
             /\ pc \in {"body", "print"} => /\ Len(lines) = Len(shown) + 1
                                            /\ lines[Len(lines)] = [frame |-> frame, written |-> "ended"]
  BY <1>0, <1>2, <1>5 DEF LinesNow
<1> QED BY <1>1, <1>3, <1>4, <1>5 DEF Together

\* The end of a command, once its outcome is accounted for.
LEMMA ExitInv ==
    ASSUME IInv, pc # "idle", NEW o \in {"ok", "failed", "torn", "died"}, Exit(o), Replayed'
    PROVE  IInv'
<1> USE DEF Exit, proc, input, sinks
<1>1. TypeOK'
  BY DEF IInv, TypeOK
<1>2. Files'
  BY DEF IInv, Files
<1>3. AllCovered'
  BY DEF IInv, AllCovered, Covered, FramesOf
<1>4. Together'
  <2>1. Together
    BY EndsTogether DEF IInv
  <2> QED BY <2>1 DEF Together, Making, Begun
<1> QED BY <1>1, <1>2, <1>3, <1>4 DEF IInv

\* A failure promises nothing, nor does the end of a capture.
LEMMA FailureInv ==
    ASSUME IInv, pc # "idle", NEW o \in {"ok", "failed", "died"}, Exit(o), o = "ok" => command = "capture"
    PROVE  IInv'
<1>1. Replayed'
  BY DEF Exit, Replayed, proc
<1> QED BY <1>1, ExitInv

\* A replay of lines ends with the last line, or before it if it is torn.
LEMMA EndOfLinesInv == ASSUME IInv, EndOfLines \/ TornLine PROVE IInv'
<1> USE DEF IInv, Running
<1>0. Len(shown) \in Nat /\ Len(lines) \in Nat /\ taken \in Nat
  BY Numbers
<1>1. pc = "line" /\ command = "frames" /\ Past = taken
  BY DEF EndOfLines, TornLine, Scene, Past, Sinks
<1>2. /\ Len(shown) = taken /\ taken <= Len(lines)
      /\ \A i \in 1 .. taken : shown[i] = lines[i].frame /\ lines[i].written # "torn"
  BY <1>1 DEF ShownNow, Decoded
<1>3. CASE EndOfLines
  <2>1. Exit("ok") /\ taken = Len(lines)
    BY <1>3 DEF EndOfLines
  <2>2. Replayed'
    BY <2>1, <1>1, <1>2 DEF Exit, Replayed, proc, input, sinks
  <2> QED BY <1>1, <2>1, <2>2, ExitInv
<1>4. CASE TornLine
  <2>1. Exit("torn") /\ taken < Len(lines) /\ lines[taken + 1].written = "torn"
    BY <1>4 DEF TornLine
  <2>2. taken + 1 = Len(lines)
    <3>1. taken + 1 \in 1 .. Len(lines)
      BY <1>0, <2>1
    <3> QED BY <1>0, <2>1, <3>1 DEF Files
  <2>3. Replayed'
    BY <2>1, <2>2, <1>0, <1>1, <1>2 DEF Exit, Replayed, proc, input, sinks
  <2> QED BY <1>1, <2>1, <2>3, ExitInv
<1> QED BY <1>3, <1>4

\* What a replay, or an import, has shown when it has taken everything.
LEMMA AllShown ==
    ASSUME IInv, pc = "read", command \in {"replay", "records"}, taken = Len(Input)
    PROVE  /\ Elements(shown) = FramesOf(Source, Input)
           /\ options.json => Len(lines) = Len(shown) /\ \A i \in 1 .. Len(shown) : lines[i].frame = shown[i]
           /\ \A i \in 1 .. Len(archive) : archive[i] # "other"
<1> USE DEF IInv, Running
<1>1. Elements(shown) = FramesOf(Source, Input)
  BY DEF ShownNow, Past, Sinks, FramesOf
<1>2. options.json => Len(lines) = Len(shown) /\ \A i \in 1 .. Len(shown) : lines[i].frame = shown[i]
  <2> SUFFICES ASSUME options.json
               PROVE  Len(lines) = Len(shown) /\ \A i \in 1 .. Len(shown) : lines[i].frame = shown[i]
    OBVIOUS
  <2>1. Len(lines) = Len(shown)
    BY DEF LinesNow
  <2>2. \A i \in 1 .. Len(shown) : lines[i] = [frame |-> shown[i], written |-> "ended"]
    BY DEF LinesNow
  <2>3. ASSUME NEW i \in 1 .. Len(shown) PROVE lines[i].frame = shown[i]
    <3>1. lines[i] = [frame |-> shown[i], written |-> "ended"]
      BY <2>2
    <3> QED BY <3>1
  <2> QED BY <2>1, <2>3
<1>3. CASE command = "replay"
  BY <1>1, <1>2, <1>3 DEF Scene
<1>4. CASE command = "records"
  <2>1. taken = Len(archive)
    BY <1>4 DEF Input
  <2> QED BY <1>1, <1>2, <1>4, <2>1 DEF Decoded
<1> QED BY <1>3, <1>4

LEMMA CompleteInv ==
    ASSUME IInv, pc = "read", command \in {"replay", "records"}, taken = Len(Input), Exit("ok")
    PROVE  IInv'
<1>1. Replayed'
  <2>1. UNCHANGED <<command, options, session, archive, raw, lines, shown, device>> /\ outcome' = "ok"
    BY DEF Exit, proc, input, sinks
  <2>2. Source' = Source /\ Input' = Input
    BY <2>1 DEF Source, Input
  <2>3. FramesOf(Source, Input)' = FramesOf(Source, Input) /\ Elements(shown)' = Elements(shown)
    BY <2>1, <2>2 DEF FramesOf, Elements
  <2> QED BY <2>1, <2>3, AllShown DEF Replayed
<1> QED BY <1>1, ExitInv

LEMMA EndsInv ==
    ASSUME IInv, \/ ConnectFails \/ UnknownRecord \/ EndOfRecords \/ EndOfInput
                 \/ TornLine \/ EndOfLines \/ SendFails \/ Dies
    PROVE  IInv'
<1>1. CASE ConnectFails \/ UnknownRecord \/ SendFails \/ Dies
  <2>1. pc # "idle" /\ \E o \in {"failed", "died"} : Exit(o)
    BY <1>1 DEF ConnectFails, UnknownRecord, SendFails, Dies
  <2> QED BY <2>1, FailureInv
<1>2. CASE EndOfRecords
  <2>1. pc = "read" /\ command = "records" /\ taken = Len(Input) /\ (Exit("failed") \/ Exit("ok"))
    BY <1>2 DEF EndOfRecords, Input
  <2> QED BY <2>1, FailureInv, CompleteInv
<1>3. CASE EndOfInput
  <2>1. pc = "read" /\ Exit("ok") /\ (command = "capture" \/ (command = "replay" /\ taken = Len(Input)))
    BY <1>3 DEF EndOfInput, Input
  <2> QED BY <2>1, FailureInv, CompleteInv
<1> QED BY <1>1, <1>2, <1>3, EndOfLinesInv

-----------------------------------------------------------------------------
LEMMA StartInv == ASSUME IInv, NEW c \in Commands, NEW o \in Options, Start(c, o) PROVE IInv'
<1> USE DEF IInv
<1>0. /\ runs \in Nat /\ session \in Nat /\ session <= runs /\ runs < MaxRuns /\ MaxRuns \in Nat
      /\ raw.session <= session /\ raw.session \in Nat
  BY DEF TypeOK, Start
<1>1. /\ command' = c /\ options' = o /\ runs' = runs + 1 /\ pc' = "open_raw" /\ outcome' = "running"
      /\ session' = IF c = "capture" THEN session + 1 ELSE session
      /\ archive' \in IF c = "records" THEN Archives ELSE {<<>>}
      /\ device' = <<>> /\ chunk' = <<>> /\ taken' = 0 /\ sequence' = 0 /\ frame' = None
      /\ link' = FALSE /\ wire' = <<>> /\ shown' = <<>> /\ raw' = raw /\ lines' = lines
      /\ c # "capture" => ~o.raw /\ ~o.bridge
      /\ c = "replay" => raw.session > 0
      /\ c = "frames" => ~o.json
  BY DEF Start
<1>2. session' \in session .. runs + 1 /\ session' < Elsewhere
  BY <1>0, <1>1 DEF Elsewhere
<1>3. TypeOK'
  <2>1. /\ device' \in Seq(Pieces) /\ chunk' \in Seq(Pieces) /\ shown' \in Seq(Frame)
        /\ wire' \in Seq([frame : Frame, written : {"length", "whole"}])
    BY <1>1, EmptySeq
  <2>2. raw \in [session : 0 .. session', pieces : Seq(Pieces)]
    BY <1>0, <1>2 DEF TypeOK
  <2>3. archive' \in Archives \cup {<<>>}
    BY <1>1
  <2>4. o \in [raw : BOOLEAN, json : BOOLEAN, link : BOOLEAN, bridge : BOOLEAN] /\ link' \in BOOLEAN
    BY <1>1
  <2>5. taken' \in 0 .. MaxPieces /\ sequence' \in 0 .. taken' /\ runs' \in 0 .. MaxRuns /\ session' \in 0 .. runs'
    BY <1>0, <1>1, <1>2
  <2> QED BY <1>1, <2>1, <2>2, <2>3, <2>4, <2>5 DEF TypeOK
<1>4. Files'
  BY <1>0, <1>1, <1>2 DEF Files
<1>5. AllCovered'
  BY <1>1 DEF AllCovered, Covered, FramesOf
<1>6. Scene'
  BY <1>0, <1>1 DEF Scene, Opening
<1>7. Decoded'
  <2>1. c # "frames" => Len(Input') \in Nat /\ Len(Input') <= MaxPieces
    <3>1. c = "records" => Input' = archive' /\ archive' \in Archives
      BY <1>1 DEF Input
    <3>2. c = "replay" => Input' = raw.pieces
      BY <1>1 DEF Input
    <3>3. c = "capture" => Input' = <<>>
      BY <1>1 DEF Input
    <3>4. Len(raw.pieces) \in Nat /\ Len(raw.pieces) <= MaxPieces
      BY Numbers DEF Files
    <3> QED BY <3>1, <3>2, <3>3, <3>4, ArchiveAssumption
  <2>2. Rank(Input', 0) = 0
    BY RankStep
  <2>3. Len(chunk') = 0 /\ Len(device') = 0 /\ Len(lines) \in Nat
    BY <1>1, Numbers
  <2> QED BY <1>1, <2>1, <2>2, <2>3 DEF Decoded
<1>8. RawNow'
  <2> SUFFICES ASSUME c = "capture"
               PROVE  raw.session < session' /\ \A i \in 1 .. Len(lines) : lines[i].frame.packet[1] # session'
    BY <1>1 DEF RawNow
  <2> QED BY <1>0, <1>1, <1>2 DEF Files
<1>9. ShownNow'
  <2>1. Rank(Input', 0) = 0 /\ FramesUpTo(Source', Input', 0) = {} /\ Past' = 0
    BY <1>1, RankStep, FramesStep DEF Past, Sinks
  <2>2. Len(shown') = 0 /\ Elements(shown') = {}
    BY <1>1 DEF Elements
  <2>3. command' = c /\ \A i : i \notin 1 .. Past' /\ i \notin 1 .. Len(shown')
    BY <1>1, <2>1, <2>2
  <2>4. /\ Len(shown') = Past' /\ Len(shown') = Rank(Input', Past')
        /\ Elements(shown') = FramesUpTo(Source', Input', Past')
    BY <2>1, <2>2
  <2> QED BY <2>3, <2>4 DEF ShownNow
<1>10. FrameNow' /\ LinesNow' /\ WireNow'
  BY <1>1 DEF FrameNow, LinesNow, WireNow, Sinks
<1> QED BY <1>1, <1>3, <1>4, <1>5, <1>6, <1>7, <1>8, <1>9, <1>10 DEF Running

\* Nothing but the step a command stands at, or its link, has changed.
Still == UNCHANGED <<proc, input, raw, lines, wire, shown, outcome>>

LEMMA StillKeeps ==
    ASSUME IInv, Still
    PROVE  /\ Files' /\ AllCovered' /\ Input' = Input /\ Source' = Source
           /\ pc' \in {"idle", "open_raw", "open_lines", "connect", "read", "write_raw", "decode", "line",
                       "json", "finish", "newline", "length", "body", "print"} /\ link' \in BOOLEAN => TypeOK'
<1> USE DEF Still, proc, input
<1>1. Files' /\ AllCovered'
  BY DEF IInv, Files, AllCovered, Covered, FramesOf
<1>2. Input' = Input /\ Source' = Source
  BY DEF Input, Source
<1>3. ASSUME pc' \in {"idle", "open_raw", "open_lines", "connect", "read", "write_raw", "decode", "line",
                      "json", "finish", "newline", "length", "body", "print"}, link' \in BOOLEAN
      PROVE  TypeOK'
  BY <1>3 DEF IInv, TypeOK
<1> QED BY <1>1, <1>2, <1>3

LEMMA LinkLostInv == ASSUME IInv, LinkLost PROVE IInv'
<1>1. Still /\ pc' = pc /\ link' = FALSE
  BY DEF LinkLost, Still, input
<1>2. TypeOK' /\ Files' /\ AllCovered' /\ Input' = Input /\ Source' = Source
  BY <1>1, StillKeeps DEF IInv, TypeOK
<1> USE DEF Still, proc, input
<1>3. pc = "idle" => Together' /\ Replayed' /\ outcome' # "running"
  BY <1>1, <1>2 DEF IInv, Together, Replayed, Making, Begun, Elements, FramesOf
<1>4. ASSUME pc # "idle" PROVE Running'
  <2>1. Scene' /\ RawNow' /\ LinesNow' /\ WireNow'
    BY <1>1, <1>4 DEF IInv, Running, Scene, RawNow, LinesNow, WireNow
  <2>2. Decoded' /\ FrameNow' /\ ShownNow'
    BY <1>1, <1>2, <1>4 DEF IInv, Running, Decoded, FrameNow, ShownNow, Past, Elements
  <2> QED BY <2>1, <2>2 DEF Running
<1> QED BY <1>1, <1>2, <1>3, <1>4 DEF IInv

LEMMA ConnectInv == ASSUME IInv, Connect \/ ReadOn PROVE IInv'
<1>1. /\ Still /\ pc \in {"connect", "decode"} /\ pc' \in {"read", "line"} /\ Running /\ link' \in BOOLEAN
      /\ pc' = "line" <=> command = "frames"
  BY DEF Connect, ReadOn, Reading, Still, input, sinks, IInv, Running, Scene, TypeOK
<1>2. TypeOK' /\ Files' /\ AllCovered' /\ Input' = Input /\ Source' = Source
  BY <1>1, StillKeeps
<1>3. chunk = <<>>
  BY <1>1 DEF Connect, ReadOn, Running, Scene, Opening
<1> USE DEF Still, proc, input
<1>4. Scene'
  BY <1>1 DEF Running, Scene, Opening
<1>5. Decoded'
  BY <1>1, <1>2, <1>3 DEF Running, Decoded, Sinks
<1>6. RawNow' /\ FrameNow'
  BY <1>1 DEF Running, RawNow, FrameNow, Opening, Sinks
<1>7. ShownNow'
  BY <1>1, <1>2 DEF Running, ShownNow, Past, Sinks, Elements
<1>8. LinesNow' /\ WireNow'
  BY <1>1 DEF Running, LinesNow, WireNow
<1> QED BY <1>1, <1>2, <1>4, <1>5, <1>6, <1>7, <1>8 DEF IInv, Running

LEMMA OpenRawInv == ASSUME IInv, OpenRaw PROVE IInv'
<1> USE DEF proc, input
<1>1. /\ pc = "open_raw" /\ pc' = "open_lines" /\ Running /\ TypeOK /\ Files /\ AllCovered
      /\ raw' = IF options.raw THEN [session |-> session, pieces |-> <<>>] ELSE raw
      /\ UNCHANGED <<outcome, command, options, runs, session, archive, device, chunk, taken, sequence, frame,
                     lines, link, wire, shown>>
      /\ device = <<>> /\ shown = <<>> /\ wire = <<>> /\ Len(device) = 0
  BY DEF OpenRaw, IInv, Running, Scene, Opening
<1>2. options.raw => command = "capture" /\ raw'.session = session /\ raw'.pieces = <<>> /\ Len(raw'.pieces) = 0
  BY <1>1 DEF Running, Scene
<1>3. /\ raw'.session \in 0 .. session /\ raw'.pieces \in Seq(Pieces) /\ Len(raw'.pieces) <= MaxPieces
      /\ raw' \in [session : 0 .. session, pieces : Seq(Pieces)]
  BY <1>1, <1>2, EmptySeq DEF TypeOK, Files
<1>4. TypeOK'
  BY <1>1, <1>3 DEF TypeOK
<1>5. Files'
  BY <1>1, <1>3 DEF Files
<1>6. AllCovered'
  <2>1. options.raw => \A i \in 1 .. Len(lines) : lines[i].frame.packet[1] # session
    BY <1>1, <1>2 DEF Running, RawNow, Opening
  <2> QED BY <1>1, <1>2, <2>1 DEF AllCovered, Covered, FramesOf
<1>7. Scene'
  BY <1>1, <1>2 DEF Running, Scene, Opening
<1>8. Input' = Input /\ (command # "frames" => Source' = Source)
  <2>1. command \in {"capture", "replay", "records", "frames"}
    BY <1>1 DEF Running, Scene
  <2> QED BY <1>1, <1>2, <2>1 DEF Input, Source
<1>9. Decoded' /\ ShownNow' /\ FrameNow'
  BY <1>1, <1>8 DEF Running, Decoded, ShownNow, FrameNow, Past, Sinks, Elements
<1>10. RawNow'
  BY <1>1, <1>2 DEF Running, RawNow, Opening
<1>11. LinesNow' /\ WireNow'
  BY <1>1 DEF Running, LinesNow, WireNow
<1> QED BY <1>1, <1>4, <1>5, <1>6, <1>7, <1>9, <1>10, <1>11 DEF IInv, Running

LEMMA OpenLinesInv == ASSUME IInv, OpenLines PROVE IInv'
<1> USE DEF proc, input
<1>1. /\ pc = "open_lines" /\ pc' = "connect" /\ Running /\ TypeOK /\ Files /\ AllCovered
      /\ lines' = IF options.json THEN <<>> ELSE lines
      /\ UNCHANGED <<outcome, command, options, runs, session, archive, device, chunk, taken, sequence, frame,
                     raw, link, wire, shown>>
      /\ taken = 0 /\ shown = <<>> /\ Len(shown) = 0
  BY DEF OpenLines, IInv, Running, Scene, Opening
<1>2. options.json => lines' = <<>> /\ Len(lines') = 0 /\ command # "frames"
  BY <1>1 DEF Running, Scene
<1>3. TypeOK'
  BY <1>1, EmptySeq DEF TypeOK
<1>4. Files'
  BY <1>1, <1>2, Numbers DEF Files
<1>5. AllCovered'
  BY <1>1, <1>2 DEF AllCovered, Covered, FramesOf
<1>6. Scene' /\ RawNow'
  BY <1>1, <1>2 DEF Running, Scene, RawNow, Opening
<1>7. Input' = Input /\ Source' = Source
  BY <1>1 DEF Input, Source
<1>8. Decoded' /\ ShownNow' /\ FrameNow'
  BY <1>1, <1>2, <1>7 DEF Running, Decoded, ShownNow, FrameNow, Past, Sinks, Elements
<1>9. LinesNow' /\ WireNow'
  BY <1>1, <1>2 DEF Running, LinesNow, WireNow
<1> QED BY <1>1, <1>3, <1>4, <1>5, <1>6, <1>8, <1>9 DEF IInv, Running

-----------------------------------------------------------------------------
\* Input that has only grown has the same frames so far.
LEMMA GrownInput ==
    ASSUME IInv, Running, UNCHANGED <<command, taken, shown, lines>>, command # "frames",
           \A i \in 1 .. taken : Input'[i] = Input[i], Source' = Source,
           pc \notin Sinks, pc' \notin Sinks
    PROVE  /\ ShownNow' /\ sequence = Rank(Input', taken)
<1>1. taken \in Nat
  BY Numbers DEF IInv
<1>2. Rank(Input', taken) = Rank(Input, taken) /\ \A s : FramesUpTo(s, Input', taken) = FramesUpTo(s, Input, taken)
  <2> DEFINE p == Input'
             q == Input
  <2>1. \A i \in 1 .. taken : p[i] = q[i]
    OBVIOUS
  <2> HIDE DEF p, q
  <2>2. Rank(p, taken) = Rank(q, taken) /\ \A s : FramesUpTo(s, p, taken) = FramesUpTo(s, q, taken)
    BY <1>1, <2>1, FramesSame
  <2> QED BY <2>2 DEF p, q
<1>3. Past = taken /\ Past' = taken
  BY DEF Past
<1>4. /\ Len(shown) = Rank(Input, taken) /\ Elements(shown) = FramesUpTo(Source, Input, taken)
      /\ \A i \in 1 .. Len(shown) : shown[i].sequence = i
  BY <1>3 DEF Running, ShownNow
<1>5. ShownNow'
  BY <1>2, <1>3, <1>4 DEF ShownNow, Elements
<1> QED BY <1>2, <1>5 DEF Running, Decoded

\* What a step that only reads keeps.
LEMMA ReadKeeps ==
    ASSUME IInv, Running, pc = "read", pc' \in {"write_raw", "decode"}, pc' = "write_raw" => options.raw /\ command = "capture",
           UNCHANGED <<outcome, proc, taken, sequence, frame, sinks>>,
           device' \in Seq(Pieces), chunk' \in Seq(Pieces)
    PROVE  /\ TypeOK' /\ Files' /\ AllCovered' /\ Scene' /\ FrameNow' /\ LinesNow' /\ WireNow' /\ Source' = Source
<1> USE DEF proc, sinks
<1>1. TypeOK'
  BY DEF IInv, TypeOK
<1>2. Files' /\ AllCovered'
  BY DEF IInv, Files, AllCovered, Covered, FramesOf
<1>3. Scene'
  BY DEF Running, Scene, Opening
<1>4. FrameNow' /\ LinesNow' /\ WireNow'
  BY DEF Running, FrameNow, LinesNow, WireNow, Sinks
<1>5. Source' = Source
  BY DEF Source
<1> QED BY <1>1, <1>2, <1>3, <1>4, <1>5

LEMMA ReadLiveInv == ASSUME IInv, ReadLive PROVE IInv'
<1>1. /\ pc = "read" /\ command = "capture" /\ Running /\ pc' = IF options.raw THEN "write_raw" ELSE "decode"
      /\ UNCHANGED <<outcome, proc, taken, sequence, frame, sinks>>
  BY DEF ReadLive, IInv
<1>2. PICK n \in 1 .. MaxRead : \E data \in [1 .. n -> Pieces] :
         /\ Len(device) + n <= MaxPieces /\ device' = device \o data /\ chunk' = data
  BY DEF ReadLive
<1>3. /\ chunk' \in [1 .. n -> Pieces] /\ Len(device) + n <= MaxPieces /\ device' = device \o chunk'
      /\ n \in Nat \ {0} /\ MaxPieces \in Nat
  BY <1>2
<1>4. chunk' \in Seq(Pieces) /\ Len(chunk') = n /\ device \in Seq(Pieces) /\ Len(device) \in Nat
  BY <1>3, SeqDef, LenProperties DEF IInv, TypeOK
<1>5. /\ device' \in Seq(Pieces) /\ Len(device') = Len(device) + n
      /\ \A i \in 1 .. Len(device) + n : device'[i] = IF i <= Len(device) THEN device[i] ELSE chunk'[i - Len(device)]
  BY <1>3, <1>4, ConcatProperties
<1>6. taken = Len(device) /\ Input' = device' /\ Input = device
  <2>1. Input' = device' /\ Input = device
    BY <1>1 DEF Input, proc
  <2>2. chunk = <<>> /\ taken + Len(chunk) = Len(device) /\ taken \in Nat
    BY <1>1, Numbers DEF IInv, Running, Decoded, Sinks
  <2> QED BY <2>1, <2>2
<1>7. /\ TypeOK' /\ Files' /\ AllCovered' /\ Scene' /\ FrameNow' /\ LinesNow' /\ WireNow' /\ Source' = Source
  BY <1>1, <1>4, <1>5, ReadKeeps
<1>8. ShownNow' /\ sequence = Rank(Input', taken)
  <2>1. \A i \in 1 .. taken : Input'[i] = Input[i]
    BY <1>3, <1>4, <1>5, <1>6
  <2> QED BY <1>1, <1>7, <2>1, GrownInput DEF proc, sinks, Sinks
<1>9. Decoded'
  <2>1. \A i \in 1 .. n : chunk'[i] = device'[taken + i]
    BY <1>3, <1>4, <1>5, <1>6
  <2> QED BY <1>1, <1>3, <1>4, <1>5, <1>6, <1>8, <2>1 DEF Decoded, proc
<1>10. RawNow'
  <2> USE <1>1, <1>6 DEF Running, RawNow, proc, sinks, Opening
  <2>1. ASSUME options.raw
        PROVE  /\ raw.session = session /\ Len(raw.pieces) = Len(device)
               /\ \A i \in 1 .. Len(raw.pieces) : raw.pieces[i] = device'[i]
               /\ taken <= Len(raw.pieces) /\ Len(raw.pieces) < Len(device')
    BY <1>3, <1>4, <1>5, <2>1
  <2>2. ~options.raw => raw.session < session
    OBVIOUS
  <2>3. Len(device) <= Len(device')
    BY <1>3, <1>4, <1>5
  <2> QED BY <2>1, <2>2, <2>3
<1> QED BY <1>1, <1>7, <1>8, <1>9, <1>10 DEF IInv, Running

LEMMA ReadSavedInv == ASSUME IInv, ReadSaved \/ ReadRecord PROVE IInv'
<1>1. /\ pc = "read" /\ pc' = "decode" /\ Running /\ device' = device
      /\ UNCHANGED <<outcome, proc, taken, sequence, frame, sinks>>
      /\ command \in {"replay", "records"}
  BY DEF ReadSaved, ReadRecord, IInv
<1>2. taken \in Nat /\ Input \in Seq(Pieces) /\ Len(Input) \in Nat /\ Input' = Input
  <2>1. <<>> \in Seq(Pieces)
    BY EmptySeq
  <2>2. raw.pieces \in Seq(Pieces) /\ archive \in Seq(Pieces)
    BY <2>1, ArchiveAssumption DEF IInv, TypeOK
  <2> QED BY <1>1, <2>2, Numbers DEF IInv, Input, proc, sinks
<1>3. \E n \in Nat : /\ taken + n <= Len(Input) /\ chunk' \in Seq(Pieces) /\ Len(chunk') = n
                      /\ \A i \in 1 .. n : chunk'[i] = Input[taken + i]
  <2>1. CASE ReadSaved
    <3>1. Input = raw.pieces
      BY <2>1 DEF ReadSaved, Input
    <3>2. PICK n \in 1 .. Len(Input) - taken : chunk' = SubSeq(Input, taken + 1, taken + n)
      BY <2>1, <3>1 DEF ReadSaved
    <3>3. \A i \in taken + 1 .. taken + n : Input[i] \in Pieces
      BY <1>2, <3>2, ElementOfSeq
    <3>4. /\ taken + 1 \in Int /\ taken + n \in Int /\ taken + 1 <= taken + n
          /\ (taken + n) - (taken + 1) + 1 = n /\ \A i \in 1 .. n : (taken + 1) + i - 1 = taken + i
      BY <1>2
    <3>5. /\ SubSeq(Input, taken + 1, taken + n) \in Seq(Pieces)
          /\ Len(SubSeq(Input, taken + 1, taken + n)) = (taken + n) - (taken + 1) + 1
          /\ \A i \in 1 .. (taken + n) - (taken + 1) + 1 :
                SubSeq(Input, taken + 1, taken + n)[i] = Input[(taken + 1) + i - 1]
      BY <3>3, <3>4, SubSeqProperties
    <3>6. n \in Nat /\ taken + n <= Len(Input)
      BY <1>2
    <3>7. chunk' \in Seq(Pieces) /\ Len(chunk') = n /\ \A i \in 1 .. n : chunk'[i] = Input[taken + i]
      BY <3>2, <3>4, <3>5
    <3> QED BY <3>6, <3>7
  <2>2. CASE ReadRecord
    <3>1. Input = archive /\ chunk' = <<Input[taken + 1]>> /\ taken < Len(Input)
      BY <2>2 DEF ReadRecord, Input
    <3>2. Input[taken + 1] \in Pieces /\ taken + 1 <= Len(Input)
      BY <1>2, <3>1, ElementOfSeq
    <3>3. chunk' \in Seq(Pieces) /\ Len(chunk') = 1 /\ chunk'[1] = Input[taken + 1]
      BY <3>1, <3>2
    <3> QED BY <3>2, <3>3
  <2> QED BY <2>1, <2>2
<1>4. chunk' \in Seq(Pieces) /\ device' \in Seq(Pieces)
  BY <1>1, <1>3 DEF IInv, TypeOK
<1>5. /\ TypeOK' /\ Files' /\ AllCovered' /\ Scene' /\ FrameNow' /\ LinesNow' /\ WireNow' /\ Source' = Source
  BY <1>1, <1>4, ReadKeeps
<1>6. ShownNow' /\ sequence = Rank(Input', taken)
  BY <1>1, <1>2, <1>5, GrownInput DEF proc, sinks, Sinks
<1>7. Decoded'
  <2>1. command = "records" => \A i \in 1 .. taken : archive[i] # "other"
    BY <1>1 DEF Running, Decoded
  <2>2. Len(Input) <= MaxPieces
    BY <1>1 DEF Running, Decoded
  <2>3. taken + Len(chunk') <= Len(Input) /\ \A i \in 1 .. Len(chunk') : chunk'[i] = Input[taken + i]
    BY <1>3
  <2> QED BY <1>1, <1>2, <1>6, <2>1, <2>2, <2>3 DEF Decoded, proc
<1>8. RawNow'
  BY <1>1 DEF RawNow, proc
<1> QED BY <1>1, <1>5, <1>6, <1>7, <1>8 DEF IInv, Running

LEMMA WriteRawInv == ASSUME IInv, WriteRaw PROVE IInv'
<1> DEFINE p == raw.pieces
           q == raw'.pieces
           e == device[Len(p) + 1]
<1> USE DEF proc, input
<1>1. /\ pc = "write_raw" /\ Running /\ pc' \in {"write_raw", "decode"} /\ command = "capture" /\ options.raw
      /\ raw' = [raw EXCEPT !.pieces = Append(p, e)]
      /\ pc' = IF Len(q) = Len(device) THEN "decode" ELSE "write_raw"
      /\ UNCHANGED <<outcome, command, options, runs, session, archive, device, chunk, taken, sequence, frame,
                     lines, link, wire, shown>>
  BY DEF WriteRaw, IInv, Running, Scene
<1>2. /\ p \in Seq(Pieces) /\ Len(p) \in Nat /\ device \in Seq(Pieces) /\ Len(device) \in Nat
      /\ raw.session = session /\ Len(p) < Len(device) /\ Len(device) <= MaxPieces /\ taken <= Len(p) /\ taken \in Nat
      /\ \A i \in 1 .. Len(p) : p[i] = device[i]
  <2>1. Input = device
    BY <1>1 DEF Input
  <2> QED BY <1>1, <2>1, Numbers DEF IInv, TypeOK, Running, Decoded, RawNow, Sinks
<1>3. e \in Pieces
  BY <1>2, ElementOfSeq
<1>4. raw'.session = raw.session /\ q = Append(p, e) /\ raw' = [session |-> raw.session, pieces |-> q]
  BY <1>1 DEF IInv, TypeOK
<1> HIDE DEF p, q, e
<1>5. q \in Seq(Pieces) /\ Len(q) = Len(p) + 1 /\ q[Len(p) + 1] = e /\ \A i \in 1 .. Len(p) : q[i] = p[i]
  BY <1>2, <1>3, <1>4, AppendProperties
<1>6. TypeOK'
  BY <1>1, <1>4, <1>5 DEF IInv, TypeOK
<1>7. Files'
  BY <1>1, <1>2, <1>5 DEF IInv, Files, q
<1>8. AllCovered'
  <2>1. \A s : FramesOf(s, p) \subseteq FramesOf(s, q)
    <3> TAKE s
    <3>0. Len(p) \in Nat /\ \A i \in 1 .. Len(p) : p[i] = q[i]
      BY <1>2, <1>5
    <3>1. FramesUpTo(s, q, Len(p)) = FramesUpTo(s, p, Len(p))
      BY <3>0, FramesSame
    <3>2. FramesUpTo(s, q, Len(p)) \subseteq FramesUpTo(s, q, Len(q))
      BY <1>2, <1>5, FramesAmong
    <3> QED BY <3>1, <3>2 DEF FramesOf
  <2>2. \A f : Covered(f) => Covered(f)'
    BY <1>4, <2>1 DEF Covered, p, q
  <2> QED BY <1>1, <2>2 DEF IInv, AllCovered
<1>9. Scene' /\ Input' = Input /\ Source' = Source
  BY <1>1, <1>4 DEF Running, Scene, Opening, Input, Source
<1>10. Decoded'
  BY <1>1, <1>9 DEF Running, Decoded, Sinks
<1>11. RawNow'
  <2>1. \A i \in 1 .. Len(q) : q[i] = device[i]
    BY <1>2, <1>5 DEF e
  <2>2. Len(q) <= Len(device) /\ taken <= Len(q) /\ (pc' = "write_raw" => Len(q) < Len(device))
    BY <1>1, <1>2, <1>5
  <2>3. raw'.session = session'
    BY <1>1, <1>2, <1>4
  <2> QED BY <1>1, <2>1, <2>2, <2>3 DEF RawNow, q, Opening
<1>12. ShownNow'
  BY <1>1, <1>9 DEF Running, ShownNow, Past, Sinks, Elements
<1>13. FrameNow' /\ LinesNow' /\ WireNow'
  BY <1>1 DEF Running, FrameNow, LinesNow, WireNow, Sinks
<1> QED BY <1>1, <1>6, <1>7, <1>8, <1>9, <1>10, <1>11, <1>12, <1>13 DEF IInv, Running

\* The decoder takes a piece, which makes a frame if it is a log.
LEMMA DecodeInv == ASSUME IInv, Decode PROVE IInv'
<1> USE DEF proc, sinks
<1>1. /\ pc = "decode" /\ Running /\ TypeOK /\ chunk # <<>> /\ chunk' = Tail(chunk) /\ taken' = taken + 1
      /\ UNCHANGED <<outcome, command, options, runs, session, archive, device, raw, lines, link, wire, shown>>
      /\ command \in {"capture", "replay", "records"}
  BY DEF Decode, IInv, Running, Scene
<1>2. /\ chunk \in Seq(Pieces) /\ Len(chunk) \in Nat /\ taken \in Nat /\ sequence \in Nat /\ MaxPieces \in Nat
      /\ Len(shown) \in Nat /\ MaxRuns \in Nat
  BY <1>1, Numbers DEF TypeOK
<1>3. Input' = Input /\ Source' = Source /\ Source \in 1 .. Elsewhere
  <2>1. Input' = Input /\ Source' = Source
    BY <1>1 DEF Input, Source
  <2>2. session \in 0 .. MaxRuns /\ raw.session \in 0 .. session
    BY <1>1, Numbers DEF TypeOK
  <2>3. command = "capture" => session > 0
    BY <1>1 DEF Running, Scene
  <2>4. command = "replay" => raw.session > 0
    BY <1>1 DEF Running, Scene
  <2> QED BY <1>1, <1>2, <2>1, <2>2, <2>3, <2>4 DEF Source, Elsewhere
<1>4. /\ taken + Len(chunk) <= Len(Input) /\ Len(Input) <= MaxPieces /\ \A i \in 1 .. Len(chunk) : chunk[i] = Input[taken + i]
      /\ (command = "capture" => taken + Len(chunk) = Len(device))
      /\ (command = "records" => \A i \in 1 .. taken : archive[i] # "other")
      /\ sequence = Rank(Input, taken) /\ Len(shown) = Rank(Input, taken)
      /\ Elements(shown) = FramesUpTo(Source, Input, taken) /\ \A i \in 1 .. Len(shown) : shown[i].sequence = i
  BY <1>1 DEF Running, Decoded, ShownNow, Past, Sinks
<1>5. /\ chunk' \in Seq(Pieces) /\ Len(chunk') = Len(chunk) - 1 /\ Len(chunk) > 0 /\ Head(chunk) = Input[taken + 1]
      /\ \A i \in 1 .. Len(chunk) - 1 : chunk'[i] = Input[taken + 1 + i]
  <2>1. Len(chunk) > 0 /\ Head(chunk) = chunk[1]
    BY <1>1, <1>2, EmptySeq, HeadTailProperties
  <2>2. chunk' \in Seq(Pieces) /\ Len(chunk') = Len(chunk) - 1 /\ \A i \in 1 .. Len(chunk') : chunk'[i] = chunk[i + 1]
    BY <1>1, <1>2, HeadTailProperties
  <2>3. \A i \in 1 .. Len(chunk) - 1 : chunk[i + 1] = Input[taken + (i + 1)] /\ taken + (i + 1) = taken + 1 + i
    BY <1>2, <1>4
  <2>4. chunk[1] = Input[taken + 1]
    BY <1>2, <1>4, <2>1
  <2> QED BY <2>1, <2>2, <2>3, <2>4
<1>6. taken' \in Nat /\ taken' <= MaxPieces /\ Len(Input) \in Nat
  <2>1. Input \in Seq(Pieces)
    <3>1. archive \in Seq(Pieces)
      BY <1>1, ArchiveAssumption, EmptySeq DEF TypeOK
    <3> QED BY <1>1, <3>1, Numbers DEF TypeOK, Input
  <2> QED BY <1>1, <1>2, <1>4, <1>5, <2>1
<1>7. Files' /\ AllCovered'
  BY <1>1 DEF IInv, Files, AllCovered, Covered, FramesOf
<1>8. command = "records" => \A i \in 1 .. taken + 1 : archive[i] # "other"
  <2> SUFFICES ASSUME command = "records", NEW i \in 1 .. taken + 1 PROVE archive[i] # "other"
    OBVIOUS
  <2>1. Input = archive
    BY DEF Input
  <2>2. Input[taken + 1] # "other"
    BY <1>5 DEF Decode
  <2> QED BY <1>2, <1>4, <2>1, <2>2
<1>9. sequence' = Rank(Input, taken + 1) => Decoded'
  <2>1. /\ taken' + Len(chunk') <= Len(Input)
        /\ (command = "capture" => taken' + Len(chunk') = Len(device))
    BY <1>1, <1>2, <1>4, <1>5
  <2>2. pc' \in {"decode"} \cup Sinks
    BY DEF Decode, FirstSink, Sinks
  <2> QED BY <1>1, <1>3, <1>4, <1>5, <1>8, <2>1, <2>2 DEF Decoded
<1>10. RawNow'
  <2>1. pc' \notin Opening \cup {"write_raw", "open_raw"}
    BY DEF Decode, FirstSink, Opening
  <2>2. taken' <= Len(device) \/ command # "capture"
    BY <1>1, <1>2, <1>4, <1>5
  <2> QED BY <1>1, <2>1, <2>2 DEF Running, RawNow, Opening
<1>11. CASE Head(chunk) = "log"
  <2>1. /\ sequence' = sequence + 1 /\ frame' = [sequence |-> sequence', packet |-> <<Source, taken + 1>>] /\ pc' = FirstSink
    BY <1>11 DEF Decode
  <2>2. /\ pc' \in {"json", "length", "print"} /\ (pc' = "json" <=> options.json)
        /\ (pc' = "length" => options.link) /\ (pc' = "print" => ~options.link)
    BY <1>1, <2>1 DEF FirstSink
  <2>3. sequence' = Rank(Input, taken + 1) /\ sequence' \in 1 .. taken'
    <3>1. Rank(Input, taken + 1) = Rank(Input, taken) + 1 /\ Rank(Input, taken) \in 0 .. taken
      BY <1>2, <1>5, <1>11, RankStep
    <3> QED BY <1>1, <1>2, <1>4, <2>1, <3>1
  <2>4. frame' \in Frame
    BY <1>1, <1>2, <1>3, <1>6, <2>1, <2>3 DEF Frame
  <2>5. TypeOK'
    BY <1>1, <1>2, <1>5, <1>6, <2>2, <2>3, <2>4 DEF TypeOK
  <2>6. Scene'
    BY <1>1, <2>2 DEF Running, Scene, Opening
  <2>7. FrameNow'
    BY <1>1, <1>2, <1>3, <1>5, <1>11, <2>1 DEF FrameNow
  <2>8. Past' = taken
    BY <1>1, <1>2, <2>2 DEF Past, Sinks
  <2>9. ShownNow'
    BY <1>1, <1>3, <1>4, <2>8 DEF ShownNow, Elements
  <2>10. LinesNow' /\ WireNow'
    BY <1>1, <2>2 DEF Running, LinesNow, WireNow
  <2> QED BY <1>7, <1>9, <1>10, <2>2, <2>3, <2>5, <2>6, <2>7, <2>9, <2>10 DEF IInv, Running
<1>12. CASE Head(chunk) # "log"
  <2>1. UNCHANGED <<sequence, frame, pc>>
    BY <1>12 DEF Decode
  <2>2. /\ sequence' = Rank(Input, taken + 1) /\ Rank(Input, taken + 1) = Rank(Input, taken)
        /\ FramesUpTo(Source, Input, taken + 1) = FramesUpTo(Source, Input, taken)
    <3>1. Rank(Input, taken + 1) = Rank(Input, taken)
      BY <1>2, <1>5, <1>12, RankStep
    <3>2. FramesUpTo(Source, Input, taken + 1) = FramesUpTo(Source, Input, taken)
      <4>1. taken \in Nat /\ Input[taken + 1] # "log"
        BY <1>2, <1>5, <1>12
      <4> QED BY <4>1, FramesStep, ZenonT(60)
    <3> QED BY <1>4, <2>1, <3>1, <3>2
  <2>3. TypeOK'
    <3>1. sequence' \in 0 .. taken' /\ taken' \in 0 .. MaxPieces
      BY <1>1, <1>2, <1>6, <2>1 DEF TypeOK
    <3> QED BY <1>1, <1>5, <2>1, <3>1 DEF TypeOK
  <2>4. Scene' /\ FrameNow' /\ LinesNow' /\ WireNow'
    BY <1>1, <2>1 DEF Running, Scene, Opening, FrameNow, LinesNow, WireNow, Sinks
  <2>5. Past' = taken + 1
    BY <1>1, <2>1 DEF Past, Sinks
  <2>6. ShownNow'
    BY <1>1, <1>3, <1>4, <2>2, <2>5 DEF ShownNow, Elements
  <2> QED BY <1>1, <1>7, <1>9, <1>10, <2>1, <2>2, <2>3, <2>4, <2>6 DEF IInv, Running
<1> QED BY <1>11, <1>12

\* A replay of the lines takes the next one.
LEMMA ReadLineInv == ASSUME IInv, ReadLine PROVE IInv'
<1> USE DEF proc, sinks
<1>1. /\ pc = "line" /\ Running /\ TypeOK /\ Files /\ command = "frames" /\ ~options.json
      /\ taken < Len(lines) /\ lines[taken + 1].written # "torn" /\ taken' = taken + 1
      /\ frame' = lines[taken + 1].frame /\ pc' = IF options.link THEN "length" ELSE "print"
      /\ UNCHANGED <<outcome, command, options, runs, session, archive, device, chunk, sequence,
                     raw, lines, link, wire, shown>>
  BY DEF ReadLine, FirstSink, IInv, Running, Scene
<1>2. taken \in Nat /\ Len(lines) \in Nat /\ Len(lines) <= MaxPieces /\ sequence \in 0 .. taken /\ MaxPieces \in Nat
  BY <1>1, Numbers DEF TypeOK, Files
<1>3. frame' \in Frame
  <2>1. lines[taken + 1] \in [frame : Frame, written : {"torn", "whole", "ended"}]
    <3>1. lines \in Seq([frame : Frame, written : {"torn", "whole", "ended"}]) /\ taken + 1 \in 1 .. Len(lines)
      BY <1>1, <1>2 DEF TypeOK
    <3> QED BY <3>1, ElementOfSeq
  <2> QED BY <1>1, <2>1
<1>4. TypeOK'
  BY <1>1, <1>2, <1>3 DEF TypeOK
<1>5. Files' /\ AllCovered'
  BY <1>1 DEF IInv, Files, AllCovered, Covered, FramesOf
<1>6. Scene' /\ RawNow' /\ LinesNow' /\ WireNow'
  <2>1. Scene'
    BY <1>1 DEF Running, Scene, Opening
  <2>2. RawNow' /\ LinesNow'
    BY <1>1 DEF RawNow, LinesNow
  <2>3. WireNow'
    BY <1>1 DEF Running, WireNow
  <2> QED BY <2>1, <2>2, <2>3
<1>7. Decoded' /\ FrameNow'
  BY <1>1, <1>2 DEF Running, Decoded, FrameNow
<1>8. ShownNow'
  BY <1>1, <1>2 DEF Running, ShownNow, Past, Sinks
<1> QED BY <1>1, <1>4, <1>5, <1>6, <1>7, <1>8 DEF IInv, Running

LEMMA FrameAmong ==
    ASSUME NEW p, NEW n \in Nat, NEW k \in 1 .. n, p[k] = "log", NEW s
    PROVE  [sequence |-> Rank(p, k), packet |-> <<s, k>>] \in FramesUpTo(s, p, n)
  BY DEF FramesUpTo

\* What is known of the frame that is on its way to the outputs.
LEMMA FrameKnown ==
    ASSUME IInv, Running, pc \in Sinks
    PROVE  /\ frame \in Frame /\ Covered(frame)
           /\ command # "frames" =>
                 /\ frame.sequence = Len(shown) + 1 /\ Len(shown) + 1 <= MaxPieces
                 /\ frame.packet[1] \in (1 .. session) \cup {Elsewhere}
                 /\ Input[taken] = "log" /\ sequence = Rank(Input, taken)
                 /\ frame = [sequence |-> Rank(Input, taken - 1) + 1, packet |-> <<Source, taken>>]
<1>0. /\ taken \in Nat /\ Len(lines) \in Nat /\ Len(shown) \in Nat /\ taken > 0 /\ taken - 1 \in Nat /\ sequence \in 0 .. taken
      /\ MaxPieces \in Nat /\ taken <= MaxPieces /\ session \in 0 .. MaxRuns /\ raw.session \in 0 .. session /\ MaxRuns \in Nat
  BY Numbers DEF IInv, TypeOK, Running, FrameNow
<1>1. CASE command = "frames"
  <2>1. taken <= Len(lines) /\ frame = lines[taken].frame
    BY <1>1 DEF Running, Decoded, FrameNow
  <2>2. lines[taken] \in [frame : Frame, written : {"torn", "whole", "ended"}]
    <3>1. lines \in Seq([frame : Frame, written : {"torn", "whole", "ended"}]) /\ taken \in 1 .. Len(lines)
      BY <1>0, <2>1 DEF IInv, TypeOK
    <3> QED BY <3>1, ElementOfSeq
  <2>3. Covered(lines[taken].frame)
    BY <1>0, <2>1 DEF IInv, AllCovered
  <2> QED BY <1>1, <2>1, <2>2, <2>3
<1>2. CASE command # "frames"
  <2>1. /\ Input[taken] = "log" /\ frame = [sequence |-> sequence, packet |-> <<Source, taken>>]
        /\ sequence = Rank(Input, taken) /\ taken <= Len(Input) /\ Len(shown) = Rank(Input, taken - 1)
        /\ (command = "capture" => taken <= Len(device))
    <3>1. Len(chunk) \in Nat
      BY Numbers DEF IInv
    <3>2. taken + Len(chunk) <= Len(Input) /\ (command = "capture" => taken + Len(chunk) = Len(device))
      BY <1>2 DEF Running, Decoded
    <3>3. Input \in Seq(Pieces)
      <4>1. archive \in Seq(Pieces)
        BY ArchiveAssumption, EmptySeq DEF IInv, TypeOK
      <4> QED BY <4>1, Numbers DEF IInv, TypeOK, Input
    <3>4. Len(Input) \in Nat
      BY <3>3, LenProperties
    <3> QED BY <1>0, <1>2, <3>1, <3>2, <3>4, SMTT(30) DEF Running, Decoded, FrameNow, ShownNow, Past
  <2>2. sequence = Len(shown) + 1
    <3> DEFINE k == taken - 1
    <3>1. k \in Nat /\ taken = k + 1 /\ Len(shown) = Rank(Input, k)
      BY <1>0, <2>1
    <3> HIDE DEF k
    <3>2. Rank(Input, k + 1) = Rank(Input, k) + 1
      BY <2>1, <3>1, RankStep
    <3> QED BY <2>1, <3>1, <3>2
  <2>3. frame # None
    BY <1>0, <2>1, <2>2 DEF None
  <2>4. frame \in Frame
    BY <2>3 DEF IInv, TypeOK
  <2>5. command \in {"capture", "replay", "records"}
    BY <1>2 DEF Running, Scene
  <2>6. Source \in (1 .. session) \cup {Elsewhere}
    <3>1. (command = "capture" => session > 0) /\ (command = "replay" => raw.session > 0)
      BY DEF Running, Scene
    <3> QED BY <1>0, <2>5, <3>1 DEF Source
  <2>7. Covered(frame)
    <3> SUFFICES ASSUME frame.packet[1] = raw.session PROVE frame \in FramesUpTo(raw.session, raw.pieces, Len(raw.pieces))
      BY DEF Covered, FramesOf
    <3>1. Source = raw.session /\ Len(raw.pieces) \in Nat
      BY <2>1, Numbers DEF IInv
    <3>2. CASE command = "capture"
      <4>1. raw.session = session /\ Input = device
        BY <3>1, <3>2 DEF Source, Input
      <4>2. Len(raw.pieces) = Len(device) /\ \A i \in 1 .. Len(raw.pieces) : raw.pieces[i] = device[i]
        <5>1. pc \notin {"open_raw", "write_raw"}
          BY DEF Sinks
        <5>2. options.raw
          BY <1>0, <3>2, <4>1 DEF Running, RawNow
        <5> QED BY <3>2, <5>1, <5>2 DEF Running, RawNow
      <4>3. \A i \in 1 .. taken : raw.pieces[i] = device[i]
        BY <1>0, <2>1, <3>1, <3>2, <4>2
      <4>4. Rank(raw.pieces, taken) = Rank(device, taken)
        BY <1>0, <4>3, FramesSame
      <4>5. raw.pieces[taken] = "log" /\ taken \in 1 .. Len(raw.pieces)
        BY <1>0, <2>1, <3>1, <3>2, <4>1, <4>2, <4>3
      <4>6. frame = [sequence |-> Rank(raw.pieces, taken), packet |-> <<raw.session, taken>>]
        BY <2>1, <3>1, <4>1, <4>4
      <4> QED BY <3>1, <4>5, <4>6, FrameAmong
    <3>3. CASE command = "replay"
      <4>1. Input = raw.pieces
        BY <3>3 DEF Input
      <4>2. taken \in 1 .. Len(raw.pieces)
        BY <1>0, <2>1, <3>1, <4>1
      <4>3. frame = [sequence |-> Rank(raw.pieces, taken), packet |-> <<raw.session, taken>>]
        BY <2>1, <3>1, <4>1
      <4> QED BY <2>1, <3>1, <4>1, <4>2, <4>3, FrameAmong
    <3>4. CASE command = "records"
      BY <1>0, <3>1, <3>4 DEF Source, Elsewhere
    <3> QED BY <2>5, <3>2, <3>3, <3>4
  <2>8. Len(shown) + 1 <= MaxPieces
    BY <1>0, <2>2
  <2>9. frame.packet[1] = Source /\ frame.sequence = sequence
    BY <2>1
  <2> QED BY <1>2, <2>1, <2>2, <2>4, <2>6, <2>7, <2>8, <2>9
<1> QED BY <1>1, <1>2

\* What a step from one output to the next keeps.
LEMMA WriteKeeps ==
    ASSUME IInv, Running, pc \in Sinks, pc' \in Sinks,
           UNCHANGED <<outcome, proc, input, raw, link, shown>>,
           lines' \in Seq(Line({"torn", "whole", "ended"})), wire' \in Seq(Line({"length", "whole"})),
           command = "frames" => lines' = lines
    PROVE  /\ TypeOK' /\ Decoded' /\ RawNow' /\ FrameNow' /\ ShownNow'
           /\ \A f : Covered(f)' <=> Covered(f)
<1> USE DEF proc, input
<1>1. TypeOK'
  BY DEF IInv, TypeOK, Line, Sinks
<1>2. Input' = Input /\ Source' = Source /\ Past' = Past
  BY DEF Input, Source, Past
<1>3. Decoded' /\ FrameNow'
  BY <1>2 DEF Running, Decoded, FrameNow, Sinks
<1>4. ShownNow'
  BY <1>2 DEF Running, ShownNow, Elements
<1>5. RawNow'
  BY DEF Running, RawNow, Opening, Sinks
<1>6. \A f : Covered(f)' <=> Covered(f)
  BY DEF Covered, FramesOf
<1> QED BY <1>1, <1>3, <1>4, <1>5, <1>6

LEMMA BeginLineInv == ASSUME IInv, BeginLine PROVE IInv'
<1> DEFINE e == [frame |-> frame, written |-> "torn"]
           W == {"torn", "whole", "ended"}
<1>1. /\ pc = "json" /\ pc' = "finish" /\ Running /\ TypeOK /\ Files /\ AllCovered /\ lines' = Append(lines, e)
      /\ UNCHANGED <<outcome, proc, input, raw, link, wire, shown>>
      /\ options.json /\ command # "frames" /\ pc \in Sinks /\ pc' \in Sinks
  BY DEF BeginLine, IInv, Running, Scene, Sinks
<1>2. lines \in Seq(Line(W)) /\ Len(lines) \in Nat /\ wire \in Seq(Line({"length", "whole"})) /\ Len(shown) \in Nat
  BY <1>1, Numbers DEF TypeOK, Line
<1>3. /\ frame \in Frame /\ Covered(frame) /\ frame.sequence = Len(shown) + 1 /\ Len(shown) + 1 <= MaxPieces
      /\ frame.packet[1] \in (1 .. session) \cup {Elsewhere}
  BY <1>1, FrameKnown
<1>4. e \in Line(W) /\ e.frame = frame /\ e.written = "torn"
  BY <1>3 DEF Line
<1> HIDE DEF e, W
<1>5. /\ lines' \in Seq(Line(W)) /\ Len(lines') = Len(lines) + 1 /\ lines'[Len(lines) + 1] = e
      /\ \A i \in 1 .. Len(lines) : lines'[i] = lines[i]
  BY <1>1, <1>2, <1>4, AppendProperties
<1>6. /\ Len(lines) = Len(shown) /\ \A i \in 1 .. Len(shown) : lines[i] = [frame |-> shown[i], written |-> "ended"]
  BY <1>1 DEF Running, LinesNow
<1>7. /\ TypeOK' /\ Decoded' /\ RawNow' /\ FrameNow' /\ ShownNow' /\ \A f : Covered(f)' <=> Covered(f)
  BY <1>1, <1>2, <1>5, WriteKeeps DEF W
<1> USE DEF proc, input
<1>8. Files'
  <2>1. Len(lines') <= MaxPieces /\ Len(raw'.pieces) <= MaxPieces
    BY <1>1, <1>3, <1>5, <1>6 DEF Files
  <2>2. ASSUME NEW i \in 1 .. Len(lines')
        PROVE  /\ lines'[i].frame.sequence = i /\ lines'[i].frame.packet[1] \in (1 .. session') \cup {Elsewhere}
               /\ (i < Len(lines') => lines'[i].written = "ended")
    <3>1. CASE i = Len(lines) + 1
      BY <1>1, <1>2, <1>3, <1>4, <1>5, <1>6, <3>1
    <3>2. CASE i \in 1 .. Len(lines)
      <4>1. lines'[i] = lines[i] /\ lines[i].written = "ended"
        <5>1. lines[i] = [frame |-> shown[i], written |-> "ended"]
          BY <1>6, <3>2
        <5> QED BY <1>5, <3>2, <5>1
      <4>2. lines[i].frame.sequence = i /\ lines[i].frame.packet[1] \in (1 .. session) \cup {Elsewhere}
        BY <1>1, <3>2 DEF Files
      <4> QED BY <1>1, <4>1, <4>2
    <3> QED BY <1>2, <1>5, <3>1, <3>2
  <2> QED BY <2>1, <2>2 DEF Files, Elsewhere
<1>9. AllCovered'
  <2>1. ASSUME NEW i \in 1 .. Len(lines') PROVE Covered(lines'[i].frame)
    <3>1. CASE i = Len(lines) + 1
      BY <1>3, <1>4, <1>5, <3>1
    <3>2. CASE i \in 1 .. Len(lines)
      BY <1>1, <1>5, <3>2 DEF AllCovered
    <3> QED BY <1>2, <1>5, <3>1, <3>2
  <2> QED BY <1>1, <1>7, <2>1 DEF AllCovered, Covered, FramesOf
<1>10. Scene' /\ WireNow'
  BY <1>1 DEF Running, Scene, WireNow, Opening
<1>11. LinesNow'
  <2>1. Len(lines') = Len(shown) + 1 /\ lines'[Len(lines')] = e
    BY <1>5, <1>6
  <2>2. \A i \in 1 .. Len(shown) : lines'[i] = [frame |-> shown[i], written |-> "ended"]
    BY <1>5, <1>6
  <2> QED BY <1>1, <2>1, <2>2 DEF LinesNow, e
<1> QED BY <1>1, <1>7, <1>8, <1>9, <1>10, <1>11 DEF IInv, Running

LEMMA FinishLineInv == ASSUME IInv, FinishLine \/ EndLine PROVE IInv'
<1> DEFINE W == {"torn", "whole", "ended"}
<1>1. PICK w \in W : /\ lines' = [lines EXCEPT ![Len(lines)].written = w]
                     /\ \/ pc = "finish" /\ pc' = "newline" /\ w = "whole"
                        \/ pc = "newline" /\ pc' = (IF options.link THEN "length" ELSE "print") /\ w = "ended"
  BY DEF FinishLine, EndLine, Written
<1>2. /\ Running /\ TypeOK /\ Files /\ AllCovered /\ pc \in {"finish", "newline"}
      /\ UNCHANGED <<outcome, proc, input, raw, link, wire, shown>>
      /\ options.json /\ command # "frames" /\ pc \in Sinks /\ pc' \in Sinks
  BY <1>1 DEF FinishLine, EndLine, IInv, Running, Scene, Sinks
<1>3. lines \in Seq(Line(W)) /\ Len(lines) \in Nat /\ wire \in Seq(Line({"length", "whole"})) /\ Len(shown) \in Nat
  BY <1>2, Numbers DEF TypeOK, Line
<1>4. /\ Len(lines) = Len(shown) + 1 /\ lines[Len(lines)].frame = frame
      /\ \A i \in 1 .. Len(shown) : lines[i] = [frame |-> shown[i], written |-> "ended"]
  BY <1>2 DEF Running, LinesNow
<1>5. /\ lines' \in Seq(Line(W)) /\ Len(lines') = Len(lines)
      /\ \A i \in 1 .. Len(lines) - 1 : lines'[i] = lines[i]
      /\ lines'[Len(lines)] = [frame |-> lines[Len(lines)].frame, written |-> w]
  <2>1. Len(lines) > 0
    BY <1>3, <1>4
  <2> HIDE DEF W
  <2> QED BY SMTT(30), <1>1, <1>3, <2>1, LastSet
<1>6. \A i \in 1 .. Len(lines) : lines'[i].frame = lines[i].frame
  BY <1>3, <1>5
<1>7. /\ TypeOK' /\ Decoded' /\ RawNow' /\ FrameNow' /\ ShownNow' /\ \A f : Covered(f)' <=> Covered(f)
  BY <1>2, <1>3, <1>5, WriteKeeps
<1> USE DEF proc, input
<1>8. Files'
  <2>1. \A i \in 1 .. Len(lines') : i < Len(lines') => lines'[i].written = "ended"
    <3> SUFFICES ASSUME NEW i \in 1 .. Len(lines'), i < Len(lines') PROVE lines'[i].written = "ended"
      OBVIOUS
    <3>1. i \in 1 .. Len(lines) - 1 /\ lines'[i] = lines[i]
      BY <1>3, <1>5
    <3> QED BY <1>2, <1>3, <3>1 DEF Files
  <2> QED BY <1>2, <1>5, <1>6, <2>1 DEF Files, Elsewhere
<1>9. AllCovered'
  BY <1>2, <1>5, <1>6, <1>7 DEF AllCovered, Covered, FramesOf
<1>10. Scene' /\ WireNow'
  BY <1>1, <1>2 DEF Running, Scene, WireNow, Opening
<1>11. LinesNow'
  <2>1. Len(lines') = Len(shown) + 1 /\ lines'[Len(lines')] = [frame |-> frame, written |-> w]
    BY <1>4, <1>5
  <2>2. \A i \in 1 .. Len(shown) : lines'[i] = [frame |-> shown[i], written |-> "ended"]
    BY <1>3, <1>4, <1>5
  <2> QED BY <1>1, <1>2, <2>1, <2>2 DEF LinesNow
<1> QED BY <1>1, <1>2, <1>7, <1>8, <1>9, <1>10, <1>11 DEF IInv, Running

LEMMA SendLengthInv == ASSUME IInv, SendLength PROVE IInv'
<1> DEFINE e == [frame |-> frame, written |-> "length"]
           W == {"length", "whole"}
<1>1. /\ pc = "length" /\ pc' = "body" /\ Running /\ TypeOK /\ Files /\ AllCovered /\ wire' = Append(wire, e)
      /\ UNCHANGED <<outcome, proc, input, raw, lines, link, shown>>
      /\ options.link /\ pc \in Sinks /\ pc' \in Sinks
  BY DEF SendLength, IInv, Running, Scene, Sinks
<1>2. wire \in Seq(Line(W)) /\ Len(wire) \in Nat /\ lines \in Seq(Line({"torn", "whole", "ended"})) /\ Len(shown) \in Nat
  BY <1>1, Numbers DEF TypeOK, Line
<1>3. frame \in Frame /\ Covered(frame)
  BY <1>1, FrameKnown
<1>4. e \in Line(W) /\ e.frame = frame
  BY <1>3 DEF Line
<1> HIDE DEF e, W
<1>5. /\ wire' \in Seq(Line(W)) /\ Len(wire') = Len(wire) + 1 /\ wire'[Len(wire) + 1] = e
      /\ \A i \in 1 .. Len(wire) : wire'[i] = wire[i]
  BY <1>1, <1>2, <1>4, AppendProperties
<1>6. /\ Len(wire) = Len(shown) /\ \A i \in 1 .. Len(shown) : wire[i] = [frame |-> shown[i], written |-> "whole"]
  BY <1>1 DEF Running, WireNow
<1>7. /\ TypeOK' /\ Decoded' /\ RawNow' /\ FrameNow' /\ ShownNow' /\ \A f : Covered(f)' <=> Covered(f)
  BY <1>1, <1>2, <1>5, WriteKeeps DEF W
<1> USE DEF proc, input
<1>8. Files'
  BY <1>1 DEF Files, Elsewhere
<1>9. AllCovered'
  <2>1. ASSUME NEW i \in 1 .. Len(wire') PROVE Covered(wire'[i].frame)
    <3>1. CASE i = Len(wire) + 1
      BY <1>3, <1>4, <1>5, <3>1
    <3>2. CASE i \in 1 .. Len(wire)
      BY <1>1, <1>5, <3>2 DEF AllCovered
    <3> QED BY <1>2, <1>5, <3>1, <3>2
  <2> QED BY <1>1, <1>7, <2>1 DEF AllCovered, Covered, FramesOf
<1>10. Scene' /\ LinesNow'
  BY <1>1 DEF Running, Scene, LinesNow, Opening
<1>11. WireNow'
  <2>1. Len(wire') = Len(shown) + 1 /\ wire'[Len(wire')] = e
    BY <1>5, <1>6
  <2>2. \A i \in 1 .. Len(shown) : wire'[i] = [frame |-> shown[i], written |-> "whole"]
    BY <1>5, <1>6
  <2> QED BY <1>1, <2>1, <2>2 DEF WireNow, e
<1> QED BY <1>1, <1>7, <1>8, <1>9, <1>10, <1>11 DEF IInv, Running

LEMMA SendBodyInv == ASSUME IInv, SendBody PROVE IInv'
<1> DEFINE W == {"length", "whole"}
<1>1. /\ pc = "body" /\ pc' = "print" /\ Running /\ TypeOK /\ Files /\ AllCovered
      /\ wire' = [wire EXCEPT ![Len(wire)].written = "whole"]
      /\ UNCHANGED <<outcome, proc, input, raw, lines, link, shown>>
      /\ options.link /\ pc \in Sinks /\ pc' \in Sinks
  BY DEF SendBody, IInv, Running, Scene, Sinks
<1>2. wire \in Seq(Line(W)) /\ Len(wire) \in Nat /\ lines \in Seq(Line({"torn", "whole", "ended"})) /\ Len(shown) \in Nat
  BY <1>1, Numbers DEF TypeOK, Line
<1>3. /\ Len(wire) = Len(shown) + 1 /\ wire[Len(wire)].frame = frame
      /\ \A i \in 1 .. Len(shown) : wire[i] = [frame |-> shown[i], written |-> "whole"]
  BY <1>1 DEF Running, WireNow
<1>4. /\ wire' \in Seq(Line(W)) /\ Len(wire') = Len(wire)
      /\ \A i \in 1 .. Len(wire) - 1 : wire'[i] = wire[i]
      /\ wire'[Len(wire)] = [frame |-> wire[Len(wire)].frame, written |-> "whole"]
  <2>1. Len(wire) > 0 /\ "whole" \in W
    BY <1>2, <1>3
  <2> HIDE DEF W
  <2> QED BY <1>1, <1>2, <2>1, LastSet
<1>5. \A i \in 1 .. Len(wire) : wire'[i].frame = wire[i].frame
  BY <1>2, <1>4
<1>6. /\ TypeOK' /\ Decoded' /\ RawNow' /\ FrameNow' /\ ShownNow' /\ \A f : Covered(f)' <=> Covered(f)
  BY <1>1, <1>2, <1>4, WriteKeeps
<1> USE DEF proc, input
<1>7. Files'
  BY <1>1 DEF Files, Elsewhere
<1>8. AllCovered'
  BY <1>1, <1>4, <1>5, <1>6 DEF AllCovered, Covered, FramesOf
<1>9. Scene' /\ LinesNow'
  BY <1>1 DEF Running, Scene, LinesNow, Opening
<1>10. WireNow'
  <2>1. Len(wire') = Len(shown) + 1 /\ wire'[Len(wire')] = [frame |-> frame, written |-> "whole"]
    BY <1>3, <1>4
  <2>2. \A i \in 1 .. Len(shown) : wire'[i] = [frame |-> shown[i], written |-> "whole"]
    BY <1>2, <1>3, <1>4
  <2> QED BY <1>1, <2>1, <2>2 DEF WireNow
<1> QED BY <1>1, <1>6, <1>7, <1>8, <1>9, <1>10 DEF IInv, Running

\* The frame reaches the output, and everything taken so far has been shown.
LEMMA ShowInv == ASSUME IInv, Show PROVE IInv'
<1>1. /\ pc = "print" /\ pc' = (IF command = "frames" THEN "line" ELSE "decode") /\ Running /\ TypeOK /\ Files /\ AllCovered
      /\ shown' = Append(shown, frame) /\ pc \in Sinks
      /\ UNCHANGED <<outcome, proc, input, raw, lines, link, wire>>
  BY DEF Show, IInv, Sinks
<1>2. /\ shown \in Seq(Frame) /\ Len(shown) \in Nat /\ taken \in Nat /\ taken > 0 /\ taken - 1 \in Nat
      /\ Len(wire) \in Nat /\ Len(lines) \in Nat
  BY <1>1, Numbers DEF TypeOK, Running, FrameNow
<1>3. /\ frame \in Frame /\ Covered(frame)
      /\ command # "frames" =>
            /\ frame.sequence = Len(shown) + 1 /\ Input[taken] = "log" /\ sequence = Rank(Input, taken)
            /\ frame = [sequence |-> Rank(Input, taken - 1) + 1, packet |-> <<Source, taken>>]
  BY <1>1, FrameKnown
<1>4. /\ shown' \in Seq(Frame) /\ Len(shown') = Len(shown) + 1 /\ shown'[Len(shown) + 1] = frame
      /\ \A i \in 1 .. Len(shown) : shown'[i] = shown[i]
      /\ Elements(shown') = Elements(shown) \cup {frame}
  BY <1>1, <1>2, <1>3, AppendProperties, ElementsGrow
<1>5. \A i \in 1 .. Len(shown') : \/ i \in 1 .. Len(shown) /\ shown'[i] = shown[i]
                                  \/ i = Len(shown) + 1 /\ shown'[i] = frame
  BY <1>2, <1>4
<1> USE DEF proc, input
<1>6. TypeOK' /\ Files'
  BY <1>1, <1>4 DEF TypeOK, Files, Elsewhere
<1>7. AllCovered'
  <2>1. ASSUME NEW i \in 1 .. Len(shown') PROVE Covered(shown'[i])
    <3>1. CASE i = Len(shown) + 1
      BY <1>3, <1>4, <3>1
    <3>2. CASE i \in 1 .. Len(shown)
      BY <1>1, <1>4, <3>2 DEF AllCovered
    <3> QED BY <1>2, <1>4, <3>1, <3>2
  <2>2. \A f : Covered(f)' <=> Covered(f)
    BY <1>1 DEF Covered, FramesOf
  <2> QED BY <1>1, <2>1, <2>2 DEF AllCovered, Covered, FramesOf
<1>8. Scene' /\ RawNow' /\ FrameNow'
  BY <1>1 DEF Running, Scene, RawNow, FrameNow, Opening, Sinks
<1>9. Input' = Input /\ Source' = Source /\ Past = taken - 1 /\ Past' = taken
  BY <1>1 DEF Input, Source, Past, Sinks
<1>10. Decoded'
  BY <1>1, <1>9 DEF Running, Decoded, Sinks
<1>11. ShownNow'
  <2>1. CASE command = "frames"
    <3>1. /\ Len(shown) = taken - 1 /\ frame = lines[taken].frame
          /\ \A i \in 1 .. taken - 1 : shown[i] = lines[i].frame
      BY <1>1, <1>9, <2>1 DEF Running, ShownNow, FrameNow
    <3>2. Len(shown') = taken /\ Len(shown) + 1 = taken
      BY <1>2, <1>4, <3>1
    <3>3. ASSUME NEW i \in 1 .. taken PROVE shown'[i] = lines[i].frame
      <4>1. CASE i \in 1 .. Len(shown) /\ shown'[i] = shown[i]
        BY <3>1, <4>1
      <4>2. CASE i = Len(shown) + 1 /\ shown'[i] = frame
        BY <3>1, <3>2, <4>2
      <4> QED BY <1>5, <3>2, <4>1, <4>2
    <3> QED BY <1>1, <1>9, <2>1, <3>2, <3>3 DEF ShownNow
  <2>2. CASE command # "frames"
    <3> DEFINE k == taken - 1
    <3>1. /\ k \in Nat /\ taken = k + 1 /\ Len(shown) = Rank(Input, k) /\ Elements(shown) = FramesUpTo(Source, Input, k)
          /\ \A i \in 1 .. Len(shown) : shown[i].sequence = i
      BY <1>1, <1>2, <1>9, <2>2 DEF Running, ShownNow
    <3>2. frame = [sequence |-> Rank(Input, k) + 1, packet |-> <<Source, taken>>]
      BY <1>3, <2>2
    <3> HIDE DEF k
    <3>3. /\ Rank(Input, taken) = Rank(Input, k) + 1
          /\ FramesUpTo(Source, Input, taken) = FramesUpTo(Source, Input, k) \cup {frame}
      <4>1. Rank(Input, k + 1) = Rank(Input, k) + 1
        BY <1>3, <2>2, <3>1, RankStep
      <4>2. FramesUpTo(Source, Input, k + 1) = FramesUpTo(Source, Input, k) \cup {frame}
        <5>1. Input[k + 1] = "log" /\ <<Source, taken>> = <<Source, k + 1>>
          BY <1>3, <2>2, <3>1
        <5>2. frame = [sequence |-> Rank(Input, k) + 1, packet |-> <<Source, k + 1>>]
          BY <3>2, <5>1
        <5> QED BY <3>1, <5>1, <5>2, FramesStep, ZenonT(60)
      <4> QED BY <3>1, <4>1, <4>2
    <3>4. Len(shown') = Rank(Input, taken) /\ Elements(shown') = FramesUpTo(Source, Input, taken)
      BY <1>4, <3>1, <3>3
    <3>5. \A i \in 1 .. Len(shown') : shown'[i].sequence = i
      BY SMTT(30), <1>2, <1>3, <1>4, <2>2, <3>1
    <3> QED BY <1>1, <1>9, <2>2, <3>4, <3>5 DEF ShownNow, Elements
  <2> QED BY <2>1, <2>2
<1>12. LinesNow'
  <2> SUFFICES ASSUME command # "frames", options.json
               PROVE  Len(lines) = Len(shown') /\ \A i \in 1 .. Len(shown') : lines[i] = [frame |-> shown'[i], written |-> "ended"]
    BY <1>1 DEF LinesNow
  <2>1. /\ Len(lines) = Len(shown) + 1 /\ lines[Len(lines)] = [frame |-> frame, written |-> "ended"]
        /\ \A i \in 1 .. Len(shown) : lines[i] = [frame |-> shown[i], written |-> "ended"]
    BY <1>1 DEF Running, LinesNow
  <2>2. ASSUME NEW i \in 1 .. Len(shown') PROVE lines[i] = [frame |-> shown'[i], written |-> "ended"]
    <3>1. CASE i \in 1 .. Len(shown) /\ shown'[i] = shown[i]
      BY <2>1, <3>1
    <3>2. CASE i = Len(shown) + 1 /\ shown'[i] = frame
      BY <2>1, <3>2
    <3> QED BY <1>5, <3>1, <3>2
  <2>3. Len(lines) = Len(shown')
    BY <1>4, <2>1
  <2> QED BY <2>2, <2>3
<1>13. WireNow'
  <2>1. CASE options.link
    <3>1. /\ Len(wire) = Len(shown) + 1 /\ wire[Len(wire)] = [frame |-> frame, written |-> "whole"]
          /\ \A i \in 1 .. Len(shown) : wire[i] = [frame |-> shown[i], written |-> "whole"]
      BY <1>1, <2>1 DEF Running, WireNow
    <3>2. ASSUME NEW i \in 1 .. Len(shown') PROVE wire[i] = [frame |-> shown'[i], written |-> "whole"]
      <4>1. CASE i \in 1 .. Len(shown) /\ shown'[i] = shown[i]
        BY <3>1, <4>1
      <4>2. CASE i = Len(shown) + 1 /\ shown'[i] = frame
        BY <3>1, <4>2
      <4> QED BY <1>5, <4>1, <4>2
    <3>3. Len(wire) = Len(shown')
      BY <1>4, <3>1
    <3> QED BY <1>1, <2>1, <3>2, <3>3 DEF WireNow
  <2>2. CASE ~options.link
    BY <1>1, <2>2 DEF Running, WireNow
  <2> QED BY <2>1, <2>2
<1> QED BY <1>1, <1>6, <1>7, <1>8, <1>10, <1>11, <1>12, <1>13 DEF IInv, Running

-----------------------------------------------------------------------------
\* Every step keeps the inductive invariant: what a read brings extends the
\* stretch that the raw file covers before it is decoded, a frame follows its
\* piece in number and in place, and each output is reached after the one before.
LEMMA NextInv == IInv /\ [Next]_vars => IInv'
<1> SUFFICES ASSUME IInv, [Next]_vars PROVE IInv'
  OBVIOUS
<1>1. CASE \E c \in Commands, o \in Options : Start(c, o)
  BY <1>1, StartInv
<1>2. CASE Step
  BY <1>2, OpenRawInv, OpenLinesInv, ConnectInv, ReadLiveInv, ReadSavedInv, WriteRawInv, DecodeInv, ReadLineInv,
     BeginLineInv, FinishLineInv, SendLengthInv, SendBodyInv, ShowInv, EndsInv DEF Step
<1>3. CASE LinkLost
  BY <1>3, LinkLostInv
<1>4. CASE Dies
  BY <1>4, EndsInv
<1>5. CASE UNCHANGED vars
  <2>1. /\ Still /\ pc' = pc /\ link' = link
    BY <1>5 DEF vars, sinks, Still
  <2>2. TypeOK' /\ Files' /\ AllCovered' /\ Input' = Input /\ Source' = Source
    BY <2>1, StillKeeps DEF IInv, TypeOK
  <2> USE DEF Still, proc, input
  <2>3. pc = "idle" => Together' /\ Replayed' /\ outcome' # "running"
    BY <2>1, <2>2 DEF IInv, Together, Replayed, Making, Begun, Elements, FramesOf
  <2>4. ASSUME pc # "idle" PROVE Running'
    <3>1. Scene' /\ RawNow' /\ LinesNow' /\ WireNow'
      BY <2>1, <2>4 DEF IInv, Running, Scene, RawNow, LinesNow, WireNow
    <3>2. Decoded' /\ FrameNow' /\ ShownNow'
      BY <2>1, <2>2, <2>4 DEF IInv, Running, Decoded, FrameNow, ShownNow, Past, Elements
    <3> QED BY <3>1, <3>2 DEF Running
  <2> QED BY <2>1, <2>2, <2>3, <2>4 DEF IInv
<1> QED BY <1>1, <1>2, <1>3, <1>4, <1>5 DEF Next

\* Invariance: the inductive invariant holds in every state.
THEOREM Invariance == Spec => []IInv
<1>1. Init => IInv
  BY InitInv
<1>2. IInv /\ [Next]_vars => IInv'
  BY NextInv
<1> QED BY <1>1, <1>2, PTL DEF Spec

\* TypeCorrect: the process, its files and its connection keep their types; no
\* frame is numbered beyond the pieces that were taken.
THEOREM TypeCorrect == Spec => []TypeOK
<1>1. IInv => TypeOK
  BY DEF IInv
<1> QED BY <1>1, Invariance, PTL

-----------------------------------------------------------------------------
\* What is on the file and on the wire, as sequences of frames.
LEMMA WrittenIs ==
    ASSUME NEW W, NEW w \in Seq(Line(W))
    PROVE  /\ Len(w) \in Nat /\ \A i \in 1 .. Len(w) : w[i] \in Line(W)
           /\ Frames(w) \in Seq(Frame) /\ Len(Frames(w)) = Len(w)
           /\ \A i \in 1 .. Len(w) : Frames(w)[i] = w[i].frame
           /\ Whole(w) \in Seq(Frame) /\ Len(Whole(w)) = WholeLen(w) /\ WholeLen(w) \in 0 .. Len(w)
           /\ \A i \in 1 .. WholeLen(w) : Whole(w)[i] = w[i].frame
<1>1. Len(w) \in Nat /\ \A i \in 1 .. Len(w) : w[i] \in Line(W)
  BY LenProperties, ElementOfSeq
<1>2. ASSUME NEW n \in 0 .. Len(w), NEW t, t = [i \in 1 .. n |-> w[i].frame]
      PROVE  t \in Seq(Frame) /\ Len(t) = n /\ \A i \in 1 .. n : t[i] = w[i].frame
  <2>1. n \in Nat /\ t \in [1 .. n -> Frame]
    BY <1>1, <1>2 DEF Line
  <2>2. t \in Seq(Frame) /\ DOMAIN t = 1 .. n
    BY <2>1, SeqDef
  <2>3. Len(t) = n
    BY <2>1, <2>2, LenProperties
  <2> QED BY <1>2, <2>2, <2>3
<1>3. WholeLen(w) \in 0 .. Len(w)
  <2>1. w # <<>> => Len(w) > 0
    BY <1>1, EmptySeq
  <2> QED BY <1>1, <2>1 DEF WholeLen
<1>4. Len(w) \in 0 .. Len(w)
  BY <1>1
<1> QED BY <1>1, <1>2, <1>3, <1>4 DEF Frames, Whole

\* One sequence follows another when it is longer by at most one element.
LEMMA FollowsIf ==
    ASSUME NEW S, NEW s \in Seq(S), NEW t \in Seq(S), Len(t) \in {Len(s), Len(s) + 1},
           \A i \in 1 .. Len(s) : t[i] = s[i]
    PROVE  Follows(s, t)
<1>1. Len(s) \in Nat /\ Len(t) \in Nat /\ 1 \in Int /\ Len(s) \in Int
  BY LenProperties
<1>2. \A i \in 1 .. Len(s) : t[i] \in S
  BY <1>1, ElementOfSeq
<1>3. /\ SubSeq(t, 1, Len(s)) \in Seq(S)
      /\ Len(SubSeq(t, 1, Len(s))) = IF 1 <= Len(s) THEN Len(s) - 1 + 1 ELSE 0
      /\ \A i \in 1 .. Len(s) - 1 + 1 : SubSeq(t, 1, Len(s))[i] = t[1 + i - 1]
  BY <1>1, <1>2, SubSeqProperties
<1> DEFINE u == SubSeq(t, 1, Len(s))
<1>4. u \in Seq(S) /\ Len(u) = Len(s) /\ \A i \in 1 .. Len(u) : u[i] = s[i]
  <2>1. u \in Seq(S) /\ Len(u) = Len(s)
    BY <1>1, <1>3
  <2>2. ASSUME NEW i \in 1 .. Len(s) PROVE u[i] = s[i]
    <3>1. i \in 1 .. Len(s) - 1 + 1 /\ 1 + i - 1 = i
      BY <1>1
    <3> QED BY <1>3, <3>1
  <2> QED BY <2>1, <2>2
<1> HIDE DEF u
<1>5. u = s
  BY <1>4, SeqEqual
<1> QED BY <1>1, <1>5 DEF Follows, u

\* What was shown is complete on an output, which has at most one frame more.
LEMMA WholeFollows ==
    ASSUME TypeOK, NEW W, NEW w \in Seq(Line(W)), NEW d \in {"ended", "whole"},
           Len(w) \in {Len(shown), Len(shown) + 1},
           \A i \in 1 .. Len(shown) : w[i] = [frame |-> shown[i], written |-> d]
    PROVE  /\ Follows(shown, Whole(w)) /\ WholeLen(w) \in {Len(shown), Len(shown) + 1}
           /\ \A i \in 1 .. Len(shown) : Whole(w)[i] = shown[i]
           /\ \A i \in 1 .. Len(w) - 1 : w[i].written = d
<1>1. shown \in Seq(Frame) /\ Len(shown) \in Nat /\ Len(w) \in Nat
  BY WrittenIs, Numbers DEF TypeOK
<1>2. ASSUME NEW i \in 1 .. Len(shown) PROVE w[i].frame = shown[i] /\ w[i].written = d
  <2>1. w[i] = [frame |-> shown[i], written |-> d]
    OBVIOUS
  <2> QED BY <2>1
<1>3. WholeLen(w) \in {Len(shown), Len(shown) + 1}
  <2>1. CASE Len(w) = Len(shown)
    <3>1. w # <<>> => Len(w) \in 1 .. Len(shown)
      BY <1>1, <2>1, EmptySeq
    <3>2. w # <<>> => w[Len(w)].written \notin {"torn", "length"}
      BY <1>2, <3>1
    <3> QED BY <2>1, <3>2 DEF WholeLen
  <2>2. CASE Len(w) = Len(shown) + 1
    BY <1>1, <2>2 DEF WholeLen
  <2> QED BY <2>1, <2>2
<1>4. \A i \in 1 .. Len(shown) : Whole(w)[i] = shown[i]
  <2>1. \A i \in 1 .. WholeLen(w) : Whole(w)[i] = w[i].frame
    BY WrittenIs
  <2> QED BY <1>1, <1>2, <1>3, <2>1
<1>5. Follows(shown, Whole(w))
  <2>1. Whole(w) \in Seq(Frame) /\ Len(Whole(w)) = WholeLen(w)
    BY WrittenIs
  <2> QED BY <1>1, <1>3, <1>4, <2>1, FollowsIf
<1> QED BY <1>1, <1>2, <1>3, <1>4, <1>5

LEMMA InStep == ASSUME TypeOK, Files, Together PROVE OutputsInStep
<1> DEFINE A == {"torn", "whole", "ended"}
           B == {"length", "whole"}
<1>1. lines \in Seq(Line(A)) /\ wire \in Seq(Line(B)) /\ Len(shown) \in Nat /\ Len(wire) \in Nat /\ Len(lines) \in Nat
  BY Numbers DEF TypeOK, Line
<1> HIDE DEF A, B
<1>2. ASSUME options.link
      PROVE  /\ Follows(shown, Whole(wire)) /\ WholeLen(wire) \in {Len(shown), Len(shown) + 1}
             /\ \A i \in 1 .. Len(shown) : Whole(wire)[i] = shown[i]
             /\ \A i \in 1 .. Len(wire) - 1 : wire[i].written = "whole"
  <2>1. /\ Len(wire) \in {Len(shown), Len(shown) + 1}
        /\ \A i \in 1 .. Len(shown) : wire[i] = [frame |-> shown[i], written |-> "whole"]
    BY <1>2 DEF Together
  <2> QED BY <1>1, <2>1, WholeFollows
<1>3. ASSUME Making, options.json
      PROVE  /\ Follows(shown, Whole(lines)) /\ WholeLen(lines) \in {Len(shown), Len(shown) + 1}
             /\ \A i \in 1 .. Len(shown) : Whole(lines)[i] = shown[i]
  <2>1. /\ Len(lines) \in {Len(shown), Len(shown) + 1}
        /\ \A i \in 1 .. Len(shown) : lines[i] = [frame |-> shown[i], written |-> "ended"]
    BY <1>3 DEF Together
  <2> QED BY <1>1, <2>1, WholeFollows
<1>4. ASSUME Making, options.json, options.link
      PROVE  Follows(Whole(wire), Whole(lines))
  <2>1. /\ Whole(wire) \in Seq(Frame) /\ Len(Whole(wire)) = WholeLen(wire) /\ WholeLen(wire) \in 0 .. Len(wire)
        /\ Whole(lines) \in Seq(Frame) /\ Len(Whole(lines)) = WholeLen(lines)
        /\ \A i \in 1 .. WholeLen(wire) : Whole(wire)[i] = wire[i].frame
        /\ \A i \in 1 .. WholeLen(lines) : Whole(lines)[i] = lines[i].frame
    BY <1>1, WrittenIs
  <2>2. CASE WholeLen(wire) = Len(shown)
    <3>1. Len(Whole(lines)) \in {Len(Whole(wire)), Len(Whole(wire)) + 1}
      BY <1>3, <1>4, <2>1, <2>2
    <3>2. \A i \in 1 .. Len(Whole(wire)) : Whole(lines)[i] = Whole(wire)[i]
      BY <1>2, <1>3, <1>4, <2>1, <2>2
    <3> QED BY <2>1, <3>1, <3>2, FollowsIf
  <2>3. CASE WholeLen(wire) = Len(shown) + 1
    <3>1. Len(wire) = Len(shown) + 1
      <4>1. Len(wire) \in {Len(shown), Len(shown) + 1}
        BY <1>4 DEF Together
      <4> QED BY <1>1, <2>1, <2>3, <4>1
    <3>2. /\ Len(lines) = Len(wire)
          /\ lines[Len(wire)] = [frame |-> wire[Len(wire)].frame, written |-> "ended"]
      BY <1>4, <3>1 DEF Together
    <3>3. lines[Len(wire)].written = "ended" /\ lines[Len(wire)].frame = wire[Len(wire)].frame
      BY <3>2
    <3>4. WholeLen(lines) = Len(lines)
      BY <3>2, <3>3 DEF WholeLen
    <3>5. Len(Whole(lines)) = Len(Whole(wire))
      BY <2>1, <2>3, <3>1, <3>2, <3>4
    <3>6. ASSUME NEW i \in 1 .. Len(Whole(wire)) PROVE Whole(lines)[i] = Whole(wire)[i]
      <4>1. CASE i \in 1 .. Len(shown)
        BY <1>2, <1>3, <1>4, <4>1
      <4>2. CASE i = Len(shown) + 1
        <5>1. i = Len(wire) /\ i \in 1 .. WholeLen(wire) /\ i \in 1 .. WholeLen(lines)
          BY <1>1, <2>3, <3>1, <3>2, <3>4, <4>2
        <5>2. Whole(wire)[i] = wire[i].frame /\ Whole(lines)[i] = lines[i].frame
          BY <2>1, <5>1
        <5> QED BY <3>3, <5>1, <5>2
      <4> QED BY <1>1, <2>1, <2>3, <4>1, <4>2
    <3> QED BY <2>1, <3>5, <3>6, FollowsIf
  <2> QED BY <1>2, <1>4, <2>2, <2>3
<1>5. \A i \in 1 .. Len(lines) - 1 : lines[i].written = "ended"
  <2> SUFFICES ASSUME NEW i \in 1 .. Len(lines) - 1 PROVE lines[i].written = "ended"
    OBVIOUS
  <2>1. i \in 1 .. Len(lines) /\ i < Len(lines)
    BY <1>1
  <2> QED BY <2>1 DEF Files
<1>6. \A i \in 1 .. Len(wire) - 1 : wire[i].written = "whole"
  <2>1. ~options.link => \A i : i \notin 1 .. Len(wire) - 1
    BY DEF Together
  <2> QED BY <1>2, <2>1
<1>7. \A i \in 1 .. Len(shown) : shown[i].sequence = i
  BY DEF Together
<1> QED BY <1>2, <1>3, <1>4, <1>5, <1>6, <1>7 DEF OutputsInStep

\* OutputsNeverPart: however a command ends, and at every moment before, what
\* it has shown it has sent, what it has sent is in the file, and no output is
\* more than one frame ahead of the next; only the last line, and the last
\* frame on the wire, may be incomplete (emit_frame and WireSink.send).
THEOREM OutputsNeverPart == Spec => []OutputsInStep
<1>1. IInv => OutputsInStep
  BY EndsTogether, InStep DEF IInv
<1> QED BY <1>1, Invariance, PTL

-----------------------------------------------------------------------------
\* NothingUnrecorded: every frame that any output has of the capture in the raw
\* file can be made of that file, wherever the capture was killed: a read is
\* written in full before it is decoded (run_qualcomm_stream, run_stream).
THEOREM NothingUnrecorded == Spec => []RawCovers
<1>1. IInv => RawCovers
  <2> SUFFICES ASSUME IInv, NEW f \in Elements(Frames(lines)) \cup Elements(Frames(wire)) \cup Elements(shown)
               PROVE  Covered(f)
    BY DEF RawCovers, Covered
  <2>1. /\ lines \in Seq(Line({"torn", "whole", "ended"})) /\ wire \in Seq(Line({"length", "whole"}))
    BY DEF IInv, TypeOK, Line
  <2>2. CASE f \in Elements(Frames(lines))
    BY <2>1, <2>2, WrittenIs DEF Elements, IInv, AllCovered
  <2>3. CASE f \in Elements(Frames(wire))
    BY <2>1, <2>3, WrittenIs DEF Elements, IInv, AllCovered
  <2>4. CASE f \in Elements(shown)
    BY <2>4 DEF Elements, IInv, AllCovered
  <2> QED BY <2>2, <2>3, <2>4
<1> QED BY <1>1, Invariance, PTL

LEMMA InFull == ASSUME TypeOK, Files, Replayed PROVE ReplayedInFull
<1> DEFINE A == {"torn", "whole", "ended"}
<1>1. /\ lines \in Seq(Line(A)) /\ Len(shown) \in Nat /\ Len(lines) \in Nat /\ shown \in Seq(Frame)
      /\ \A i \in 1 .. Len(lines) : lines[i].written \in A
  <2>1. lines \in Seq(Line(A))
    BY DEF TypeOK, Line
  <2>2. \A i \in 1 .. Len(lines) : lines[i] \in Line(A)
    BY <2>1, WrittenIs
  <2> QED BY <2>1, <2>2, Numbers DEF TypeOK, Line
<1>2. ASSUME command = "frames", outcome \in {"ok", "torn"}
      PROVE  shown = Whole(lines) /\ Len(lines) - Len(shown) = IF outcome = "ok" THEN 0 ELSE 1
  <2>1. /\ Len(lines) = IF outcome = "ok" THEN Len(shown) ELSE Len(shown) + 1
        /\ \A i \in 1 .. Len(shown) : shown[i] = lines[i].frame /\ lines[i].written # "torn"
        /\ outcome = "torn" => lines[Len(lines)].written = "torn"
    BY <1>2 DEF Replayed
  <2>2. WholeLen(lines) = Len(shown)
    <3>1. CASE outcome = "ok"
      <4>1. lines # <<>> => Len(lines) \in 1 .. Len(shown)
        BY <1>1, <2>1, <3>1, EmptySeq
      <4>2. lines # <<>> => lines[Len(lines)].written \notin {"torn", "length"}
        BY <1>1, <2>1, <3>1, <4>1
      <4> QED BY <2>1, <3>1, <4>2 DEF WholeLen
    <3>2. CASE outcome = "torn"
      <4>1. Len(lines) = Len(shown) + 1 /\ lines[Len(lines)].written = "torn"
        BY <2>1, <3>2
      <4>2. lines # <<>>
        BY <1>1, <4>1, EmptySeq
      <4> QED BY <1>1, <4>1, <4>2 DEF WholeLen
    <3> QED BY <1>2, <3>1, <3>2
  <2>3. /\ Whole(lines) \in Seq(Frame) /\ Len(Whole(lines)) = WholeLen(lines)
        /\ \A i \in 1 .. WholeLen(lines) : Whole(lines)[i] = lines[i].frame
    BY <1>1, WrittenIs
  <2>4. Len(shown) = Len(Whole(lines)) /\ \A i \in 1 .. Len(shown) : shown[i] = Whole(lines)[i]
    BY <2>1, <2>2, <2>3
  <2>5. shown = Whole(lines)
    BY <1>1, <2>3, <2>4, SeqEqual
  <2> QED BY <1>1, <1>2, <2>1, <2>5
<1>3. ASSUME command \in {"replay", "records"}, outcome = "ok"
      PROVE  /\ Elements(shown) = FramesOf(Source, IF command = "replay" THEN raw.pieces ELSE archive)
             /\ options.json => Frames(lines) = shown
             /\ \A i \in DOMAIN archive : archive[i] # "other"
  <2>1. /\ Elements(shown) = FramesOf(Source, Input)
        /\ options.json => Len(lines) = Len(shown) /\ \A i \in 1 .. Len(shown) : lines[i].frame = shown[i]
        /\ \A i \in 1 .. Len(archive) : archive[i] # "other"
    BY <1>3 DEF Replayed
  <2>2. Input = IF command = "replay" THEN raw.pieces ELSE archive
    BY <1>3 DEF Input
  <2>3. /\ Frames(lines) \in Seq(Frame) /\ Len(Frames(lines)) = Len(lines)
        /\ \A i \in 1 .. Len(lines) : Frames(lines)[i] = lines[i].frame
    BY <1>1, WrittenIs
  <2>4. options.json => Frames(lines) = shown
    <3> SUFFICES ASSUME options.json PROVE Frames(lines) = shown
      OBVIOUS
    <3>1. Len(Frames(lines)) = Len(shown) /\ \A i \in 1 .. Len(Frames(lines)) : Frames(lines)[i] = shown[i]
      BY <2>1, <2>3
    <3> QED BY <1>1, <2>3, <3>1, SeqEqual
  <2>5. DOMAIN archive = 1 .. Len(archive)
    <3>1. archive \in Seq(Pieces)
      BY ArchiveAssumption, EmptySeq DEF TypeOK
    <3> QED BY <3>1, LenProperties
  <2> QED BY <2>1, <2>2, <2>4, <2>5
<1> QED BY <1>2, <1>3 DEF ReplayedInFull

\* ReplaysAreComplete: a replay of lines that was not interrupted has shown
\* every line, but for a last one torn by the death of its writer; a replay of
\* a raw file, and an import of records that reports success, has shown every
\* frame of the file, and met no record without a name (run_qualcomm_stream,
\* replay_normalized_frames, run_vendor_records).
THEOREM ReplaysAreComplete == Spec => []ReplayedInFull
<1>1. IInv => ReplayedInFull
  <2>1. ASSUME outcome = "running" PROVE ReplayedInFull
    BY <2>1 DEF ReplayedInFull
  <2> QED BY <2>1, InFull DEF IInv, Running, Scene
<1> QED BY <1>1, Invariance, PTL

-----------------------------------------------------------------------------
\* How far a command that reads a file has to go: what the file has left to be
\* taken, and the steps up to the next piece or line.
Given == CASE command = "replay"  -> Len(raw.pieces)
           [] command = "records" -> Len(archive)
           [] OTHER               -> Len(lines)

StepsLeft == CASE pc = "decode"           -> IF chunk = <<>> THEN 3 ELSE 0
               [] pc \in {"read", "line"} -> 1
               [] pc = "connect"          -> 2
               [] pc = "open_lines"       -> 3
               [] pc = "open_raw"         -> 4
               [] pc = "print"            -> 4
               [] pc = "body"             -> 5
               [] pc = "length"           -> 6
               [] pc = "newline"          -> 7
               [] pc = "finish"           -> 8
               [] pc = "json"             -> 9
               [] OTHER                   -> 0

Work == 10 * (Given - taken) + StepsLeft

ReplayGetsOn ==
    [][command # "capture" /\ pc # "idle" /\ pc' # "idle"
          => (Work >= 0 /\ Work' < Work) \/ LinkLost]_vars

LEMMA Bounded ==
    ASSUME TypeOK, Running, command # "capture"
    PROVE  taken \in Nat /\ Given \in Nat /\ taken <= Given /\ StepsLeft \in 0 .. 9 /\ Work >= 0
<1>1. taken \in Nat /\ Len(chunk) \in Nat /\ Len(lines) \in Nat /\ Len(raw.pieces) \in Nat
  BY Numbers
<1>2. Len(archive) \in Nat
  <2>1. archive \in Seq(Pieces)
    BY ArchiveAssumption, EmptySeq DEF TypeOK
  <2> QED BY <2>1, LenProperties
<1>3. command \in {"replay", "records", "frames"}
  BY DEF Running, Scene
<1>4. Given \in Nat
  BY <1>1, <1>2 DEF Given
<1>5. taken <= Given
  <2>1. CASE command = "frames"
    BY <2>1 DEF Running, Decoded, Given
  <2>2. CASE command # "frames"
    <3>1. Given = Len(Input)
      BY <1>3, <2>2 DEF Given, Input
    <3>2. taken + Len(chunk) <= Len(Input)
      BY <2>2 DEF Running, Decoded
    <3> QED BY <1>1, <1>4, <3>1, <3>2
  <2> QED BY <2>1, <2>2
<1>6. StepsLeft \in 0 .. 9
  BY DEF StepsLeft
<1> QED BY <1>1, <1>4, <1>5, <1>6 DEF Work

\* No command writes the file that it reads.
LEMMA SourceStays ==
    ASSUME Running, command # "capture", Step
    PROVE  Given' = Given /\ command' = command
<1>1. command' = command /\ archive' = archive
  BY DEF Step, Exit, OpenRaw, OpenLines, Connect, ConnectFails, ReadLive, WriteRaw, ReadSaved, EndOfInput,
         Decode, ReadOn, ReadRecord, UnknownRecord, EndOfRecords, ReadLine, TornLine, EndOfLines, BeginLine,
         FinishLine, EndLine, SendLength, SendBody, SendFails, Show, proc
<1>2. raw' = raw
  <2>1. ~options.raw /\ pc # "write_raw"
    BY DEF Running, Scene
  <2> QED BY <2>1 DEF Step, Exit, OpenRaw, OpenLines, Connect, ConnectFails, ReadLive, WriteRaw, ReadSaved,
         EndOfInput, Decode, ReadOn, ReadRecord, UnknownRecord, EndOfRecords, ReadLine, TornLine, EndOfLines,
         BeginLine, FinishLine, EndLine, SendLength, SendBody, SendFails, Show, sinks
<1>3. command = "frames" => lines' = lines
  <2>1. command = "frames" => ~options.json /\ pc \notin {"json", "finish", "newline"}
    BY DEF Running, Scene
  <2> QED BY <2>1 DEF Step, Exit, OpenRaw, OpenLines, Connect, ConnectFails, ReadLive, WriteRaw, ReadSaved,
         EndOfInput, Decode, ReadOn, ReadRecord, UnknownRecord, EndOfRecords, ReadLine, TornLine, EndOfLines,
         BeginLine, FinishLine, EndLine, SendLength, SendBody, SendFails, Show, sinks
<1>4. command \in {"replay", "records", "frames"}
  BY DEF Running, Scene
<1> QED BY <1>1, <1>2, <1>3, <1>4 DEF Given

\* Every step takes the next piece or line, or comes nearer to it.
LEMMA Nearer ==
    ASSUME TypeOK, Running, command # "capture", Step, pc' # "idle"
    PROVE  \/ taken' = taken + 1
           \/ taken' = taken /\ StepsLeft' < StepsLeft
<1>1. ASSUME OpenRaw \/ OpenLines \/ Connect PROVE taken' = taken /\ StepsLeft' < StepsLeft
  BY <1>1 DEF OpenRaw, OpenLines, Connect, Reading, StepsLeft, input
<1>2. ~ReadLive /\ ~WriteRaw
  BY DEF ReadLive, WriteRaw, Running, Scene
<1>3. ASSUME ReadSaved PROVE taken' = taken /\ StepsLeft' < StepsLeft
  <2>1. PICK n \in 1 .. Len(raw.pieces) - taken : chunk' = SubSeq(raw.pieces, taken + 1, taken + n)
    BY <1>3 DEF ReadSaved
  <2>2. raw.pieces \in Seq(Pieces) /\ Len(raw.pieces) \in Nat /\ taken \in Nat
    BY Numbers
  <2>3. \A i \in taken + 1 .. taken + n : raw.pieces[i] \in Pieces
    BY <2>2, ElementOfSeq
  <2>4. Len(chunk') = n
    <3>1. taken + 1 \in Int /\ taken + n \in Int /\ taken + 1 <= taken + n /\ (taken + n) - (taken + 1) + 1 = n
      BY <2>2
    <3>2. Len(SubSeq(raw.pieces, taken + 1, taken + n)) = (taken + n) - (taken + 1) + 1
      BY <2>3, <3>1, SubSeqProperties
    <3> QED BY <2>1, <3>1, <3>2
  <2>5. chunk' # <<>>
    <3>1. Len(<<>>) = 0
      OBVIOUS
    <3>2. n # 0
      BY <2>2
    <3> QED BY <2>4, <3>1, <3>2
  <2>6. pc = "read" /\ pc' = "decode" /\ taken' = taken
    BY <1>3 DEF ReadSaved
  <2> QED BY <2>5, <2>6 DEF StepsLeft
<1>4. ASSUME ReadRecord PROVE taken' = taken /\ StepsLeft' < StepsLeft
  BY <1>4 DEF ReadRecord, StepsLeft
<1>5. ASSUME Decode \/ ReadLine PROVE taken' = taken + 1
  BY <1>5 DEF Decode, ReadLine
<1>6. ASSUME ReadOn PROVE taken' = taken /\ StepsLeft' < StepsLeft
  BY <1>6 DEF ReadOn, StepsLeft, input
<1>7. ASSUME BeginLine \/ FinishLine \/ EndLine PROVE taken' = taken /\ StepsLeft' < StepsLeft
  BY <1>7 DEF BeginLine, FinishLine, EndLine, StepsLeft, input
<1>8. ASSUME SendLength \/ SendBody \/ Show PROVE taken' = taken /\ StepsLeft' < StepsLeft
  BY <1>8 DEF SendLength, SendBody, Show, StepsLeft, input
<1>9. /\ ~ConnectFails /\ ~EndOfInput /\ ~UnknownRecord /\ ~EndOfRecords
      /\ ~TornLine /\ ~EndOfLines /\ ~SendFails
  BY DEF ConnectFails, EndOfInput, UnknownRecord, EndOfRecords, TornLine, EndOfLines, SendFails, Exit
<1> QED BY <1>1, <1>2, <1>3, <1>4, <1>5, <1>6, <1>7, <1>8, <1>9 DEF Step

\* ReplaysGetOn: each step of a command that reads a file, but for those that
\* end it and for the loss of its server, leaves it less to do, and never less
\* than nothing: it reads no piece and no line twice, and writes nothing to the
\* file that it reads (run_qualcomm_stream, replay_normalized_frames,
\* run_vendor_records).  This is what ReplayReturns rests on.
THEOREM ReplaysGetOn == Spec => ReplayGetsOn
<1> DEFINE P == command # "capture" /\ pc # "idle" /\ pc' # "idle"
                   => (Work >= 0 /\ Work' < Work) \/ LinkLost
<1>1. ASSUME IInv, Next PROVE P
  <2> SUFFICES ASSUME command # "capture", pc # "idle", pc' # "idle", ~LinkLost
               PROVE  Work >= 0 /\ Work' < Work
    OBVIOUS
  <2>1. TypeOK /\ Running
    BY <1>1 DEF IInv
  <2>2. Step
    BY <1>1 DEF Next, Start, Dies, Exit
  <2>3. taken \in Nat /\ Given \in Nat /\ StepsLeft \in 0 .. 9 /\ Work >= 0
    BY <2>1, Bounded
  <2>4. Given' = Given
    BY <2>1, <2>2, SourceStays
  <2>5. taken' = taken + 1 \/ (taken' = taken /\ StepsLeft' < StepsLeft)
    BY <2>1, <2>2, Nearer
  <2>6. StepsLeft' \in 0 .. 9
    BY DEF StepsLeft
  <2>7. Work' = 10 * (Given - taken') + StepsLeft'
    BY <2>4 DEF Work
  <2> HIDE DEF StepsLeft, Given
  <2> QED BY <2>3, <2>5, <2>6, <2>7 DEF Work
<1>2. IInv /\ [Next]_vars => [P]_vars
  BY <1>1
<1> QED BY <1>2, Invariance, PTL DEF ReplayGetsOn, Spec
=============================================================================
