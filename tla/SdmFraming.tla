----------------------------- MODULE SdmFraming -----------------------------
(***************************************************************************)
(* SdmDecoder of 6grok-samsung-sdm: it is handed the byte stream of a      *)
(* Shannon diagnostic device (or of a saved capture) in whatever pieces    *)
(* the reads return, and cuts packets out of it, looking for the next      *)
(* start marker after whatever turns out not to be one.                    *)
(*                                                                         *)
(* A packet is a Start, a header that begins with two lengths, a payload   *)
(* and an End.  A length is one byte here, and the Header - 2 others of    *)
(* the header, which push does not look at, stand behind the lengths.      *)
(* Start and End are bytes like others, and may well stand in lengths and  *)
(* payloads.                                                               *)
(***************************************************************************)
EXTENDS Naturals, Sequences

CONSTANTS Bytes,      \* the bytes, which are numbers
          Start, End, \* 0x7f and 0x7e
          Header,     \* SDM_HEADER_LEN
          Gap,        \* by how much length1 exceeds length2 (3)
          Zeroed,     \* the places of zero and stamp in a packet
          MaxField,   \* the largest length (u16::MAX)
          MaxPacket,  \* MAX_SDM_PACKET
          MaxStream   \* bound: bytes in a stream

ASSUME SdmAssumption ==
    /\ Bytes \subseteq 0 .. MaxField /\ {Start, End} \subseteq Bytes
    /\ Header \in Nat /\ Header >= 2 /\ Gap \in 0 .. Header /\ Zeroed \subseteq 4 .. Header + 1
    /\ MaxField \in Nat /\ Header <= MaxField /\ MaxPacket \in Nat /\ Header + 2 <= MaxPacket
    /\ MaxStream \in Nat

VARIABLES stream,     \* all bytes pushed so far
          buffer,     \* SdmDecoder.buffer
          base,       \* bytes of the stream that have left the buffer
          busy,       \* push is in its loop
          frames,     \* packets handed out, each with the place of its start marker
          reports     \* the places of start markers reported as errors

vars == <<stream, buffer, base, busy, frames, reports>>

Init == /\ stream = <<>> /\ buffer = <<>> /\ base = 0 /\ busy = FALSE
        /\ frames = <<>> /\ reports = {}

-----------------------------------------------------------------------------
\* parse_header, on a piece of the stream that begins with its start marker.
length1(p) == p[2]
length2(p) == p[3]

Lesser(m, n) == IF m < n THEN m ELSE n

\* header.length2.saturating_add(3)
SaturatingAdd(m, n) == Lesser(m + n, MaxField)

Total(p) == length1(p) + 2

\* The header may be that of a packet.
Plausible(p) == /\ length1(p) = SaturatingAdd(length2(p), Gap)
                /\ Total(p) \in 1 + Header + 1 .. MaxPacket

\* Mutant of Verdict: the byte behind the payload is not looked at.
VerdictOpenEnded(p) ==
    IF Len(p) < 1 + Header THEN "await"
    ELSE IF ~Plausible(p) THEN "reject"
    ELSE IF Len(p) < Total(p) THEN "await" ELSE "accept"

\* What the loop of push makes of a piece that begins with a start marker: the
\* header or the packet it announces is not complete, or cannot be one, or is.
Verdict(p) ==
    IF Len(p) < 1 + Header THEN "await"
    ELSE IF ~Plausible(p) THEN "reject"
    ELSE IF Len(p) < Total(p) THEN "await"
    ELSE IF p[Total(p)] # End THEN "reject" ELSE "accept"

\* generate_packet: the lengths for this payload, zero and stamp 0, and the
\* others in the header (direction, group, command, timestamp) as given.
Blanked(others) == [i \in 1 .. Len(others) |-> IF i + 3 \in Zeroed THEN 0 ELSE others[i]]

GeneratePacket(others, payload) ==
    LET l2 == (Header - Gap) + Len(payload)
        l1 == l2 + Gap
    IN  <<Start, l1, l2>> \o Blanked(others) \o payload \o <<End>>

-----------------------------------------------------------------------------
\* push(data): the data joins the buffer ...
PushData(data) == /\ ~busy /\ Len(stream) + Len(data) <= MaxStream
                  /\ stream' = stream \o data
                  /\ buffer' = buffer \o data
                  /\ busy' = TRUE
                  /\ UNCHANGED <<base, frames, reports>>

\* ... and the loop runs.  The first start marker in the buffer:
FirstStart == CHOOSE i \in DOMAIN buffer :
                 buffer[i] = Start /\ \A j \in 1 .. i - 1 : buffer[j] # Start

HasStart == \E i \in DOMAIN buffer : buffer[i] = Start

\* The buffer from there on, and what has gone before it.
Rest == SubSeq(buffer, FirstStart, Len(buffer))
Gone == base + (FirstStart - 1)

\* No start marker: the buffer is garbage.
Clear == /\ busy /\ ~HasStart
         /\ buffer' = <<>> /\ base' = base + Len(buffer)
         /\ busy' = FALSE
         /\ UNCHANGED <<stream, frames, reports>>

\* Mutant of AwaitMore: an incomplete header is thrown away.
AwaitMoreDrops == /\ busy /\ HasStart /\ Verdict(Rest) = "await"
                  /\ IF Len(Rest) < 1 + Header
                     THEN buffer' = <<>> /\ base' = base + Len(buffer)
                     ELSE buffer' = Rest /\ base' = Gone
                  /\ busy' = FALSE
                  /\ UNCHANGED <<stream, frames, reports>>

\* The header, or the packet it announces, is not complete.
AwaitMore == /\ busy /\ HasStart /\ Verdict(Rest) = "await"
             /\ buffer' = Rest /\ base' = Gone
             /\ busy' = FALSE
             /\ UNCHANGED <<stream, frames, reports>>

\* Mutants of Reject: the whole header goes with the marker; a marker is
\* passed over without a report; the marker stays for a later look.
RejectHeader == /\ busy /\ HasStart /\ Verdict(Rest) = "reject"
                /\ buffer' = SubSeq(Rest, Header + 2, Len(Rest)) /\ base' = Gone + Header + 1
                /\ reports' = reports \cup {Gone + 1}
                /\ UNCHANGED <<stream, busy, frames>>

RejectSilently == /\ busy /\ HasStart /\ Verdict(Rest) = "reject"
                  /\ buffer' = Tail(Rest) /\ base' = Gone + 1
                  /\ reports' = IF Plausible(Rest) THEN reports \cup {Gone + 1} ELSE reports
                  /\ UNCHANGED <<stream, busy, frames>>

RejectAndWait == /\ busy /\ HasStart /\ Verdict(Rest) = "reject"
                 /\ buffer' = Rest /\ base' = Gone
                 /\ busy' = FALSE
                 /\ reports' = reports \cup {Gone + 1}
                 /\ UNCHANGED <<stream, frames>>

\* Mutant of Reject: the marker is found again and again.
RejectStays == /\ busy /\ HasStart /\ Verdict(Rest) = "reject"
               /\ buffer' = Rest /\ base' = Gone
               /\ reports' = reports \cup {Gone + 1}
               /\ UNCHANGED <<stream, busy, frames>>

\* The header cannot be right, or the packet does not end with an End: the
\* marker is reported and dropped, and the search goes on behind it.
Reject == /\ busy /\ HasStart /\ Verdict(Rest) = "reject"
          /\ buffer' = Tail(Rest) /\ base' = Gone + 1
          /\ reports' = reports \cup {Gone + 1}
          /\ UNCHANGED <<stream, busy, frames>>

\* Mutant of Accept: the length in the header is taken for the packet's.
AcceptShort == /\ busy /\ HasStart /\ Verdict(Rest) = "accept"
               /\ frames' = Append(frames, [at |-> Gone + 1, packet |-> SubSeq(Rest, 1, length1(Rest))])
               /\ buffer' = SubSeq(Rest, Total(Rest) + 1, Len(Rest)) /\ base' = Gone + Total(Rest)
               /\ UNCHANGED <<stream, busy, reports>>

Accept == /\ busy /\ HasStart /\ Verdict(Rest) = "accept"
          /\ frames' = Append(frames, [at |-> Gone + 1, packet |-> SubSeq(Rest, 1, Total(Rest))])
          /\ buffer' = SubSeq(Rest, Total(Rest) + 1, Len(Rest)) /\ base' = Gone + Total(Rest)
          /\ UNCHANGED <<stream, busy, reports>>

Turn == Clear \/ AwaitMore \/ Reject \/ Accept

Read == \E n \in 1 .. MaxStream - Len(stream) : \E data \in [1 .. n -> Bytes] : PushData(data)

Next == Read \/ Turn

Spec == Init /\ [][Next]_vars

\* The loop of push runs to its end.
FairSpec == Spec /\ WF_vars(Turn)
-----------------------------------------------------------------------------
\* TypeOK: the types of the decoder and of the books kept on it.
TypeOK == /\ stream \in Seq(Bytes) /\ buffer \in Seq(Bytes)
          /\ base \in Nat /\ busy \in BOOLEAN /\ reports \subseteq Nat
          /\ frames \in Seq([at : Nat \ {0}, packet : Seq(Bytes)])

Last(f) == f.at + Len(f.packet) - 1

\* Sliced: what is handed out are pieces of the stream, in order and apart
\* from each other, each from a Start to an End and as long as it says.
Sliced ==
    \A i \in DOMAIN frames : LET f == frames[i] IN
        /\ Last(f) <= base
        /\ f.packet = SubSeq(stream, f.at, Last(f))
        /\ f.packet[1] = Start /\ f.packet[Len(f.packet)] = End /\ Len(f.packet) = Total(f.packet)
        /\ \A j \in 1 .. i - 1 : Last(frames[j]) < f.at

\* EveryStartAccounted: a start marker that has left the buffer was part of a
\* packet or has been reported: no byte that could begin a packet is lost in
\* silence.
EveryStartAccounted ==
    \A i \in 1 .. base : stream[i] = Start =>
        \/ i \in reports
        \/ \E j \in DOMAIN frames : i \in frames[j].at .. Last(frames[j])

\* HoldsLessThanAPacket: between reads the decoder waits for the rest of one
\* packet at most, however much garbage the device has sent.
HoldsLessThanAPacket == ~busy => Len(buffer) < Lesser(MaxField + 2, MaxPacket)

\* The whole stream at once: the start markers from place i on, the first of
\* them, and what is found from place i on, if Found[j] is what is found from
\* place j on for each j behind i.
Markers(s, i) == {j \in i .. Len(s) : s[j] = Start}

FirstMarker(s, i) == CHOOSE j \in Markers(s, i) : \A k \in Markers(s, i) : j <= k

Nothing(n) == [frames |-> <<>>, reports |-> {}, base |-> n]

FoundFrom(s, i, Found) ==
    IF Markers(s, i) = {} THEN Nothing(Len(s))
    ELSE LET j == FirstMarker(s, i)
             p == SubSeq(s, j, Len(s))
         IN  CASE Verdict(p) = "await"  -> Nothing(j - 1)
               [] Verdict(p) = "reject" -> [Found[j + 1] EXCEPT !.reports = @ \cup {j}]
               [] Verdict(p) = "accept" ->
                    [Found[j + Total(p)] EXCEPT
                        !.frames = <<[at |-> j, packet |-> SubSeq(p, 1, Total(p))]>> \o @]

AllAtOnce(s) == LET Found[i \in 1 .. Len(s) + 1] == FoundFrom(s, i, Found) IN Found[1]

\* ReadsDoNotMatter: however the reads cut the stream, the decoder finds what
\* it would find in the whole stream read at once, so that the replay of a raw
\* capture yields the frames of the capture.
ReadsDoNotMatter ==
    ~busy => [frames |-> frames, reports |-> reports, base |-> base] = AllAtOnce(stream)

\* Where the decoder looks for a packet: at the beginning, behind a packet and
\* behind a marker it has reported.
Boundaries == {0} \cup {Last(frames[j]) : j \in DOMAIN frames} \cup reports

\* CleanPacketsFound: a packet as generate_packet makes it is handed out once
\* it is complete, if no other start marker lies between it and one of the
\* places where the decoder begins to look.
CleanPacketsFound ==
    ~busy =>
        \A i, j \in 1 .. Len(stream) :
            LET p == SubSeq(stream, i, j) IN
                (/\ Len(p) >= Header + 2
                 /\ p = GeneratePacket(SubSeq(p, 4, Header + 1), SubSeq(p, Header + 2, Len(p) - 1))
                 /\ Len(p) <= MaxPacket
                 /\ \E b \in Boundaries : b < i /\ \A m \in b + 1 .. i - 1 : stream[m] # Start)
                => \E n \in DOMAIN frames : frames[n] = [at |-> i, packet |-> p]

\* OnlyCleanPackets: what is handed out is what generate_packet makes of its
\* header and payload: the lengths, the end marker and all else in its place.
\* It may differ in two things: in zero and stamp, which are 0 there and which
\* push does not look at, and in length2 where length2 + 3 exceeds the range of
\* a length, so that any such length2 passes in a packet of the largest length1.
OnlyCleanPackets ==
    \A i \in DOMAIN frames :
        LET p == frames[i].packet
            q == GeneratePacket(SubSeq(p, 4, Header + 1), SubSeq(p, Header + 2, Len(p) - 1))
        IN  /\ Len(p) = Len(q)
            /\ \A x \in DOMAIN p : \/ p[x] = q[x]
                                   \/ x \in Zeroed
                                   \/ x = 3 /\ length2(p) + Gap > MaxField

\* PushEnds: the loop of push ends.
PushEnds == busy ~> ~busy
=============================================================================
