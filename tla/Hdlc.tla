-------------------------------- MODULE Hdlc --------------------------------
(***************************************************************************)
(* The asynchronous HDLC framing of DIAG packets, as 6grok-agent and       *)
(* 6grok-qcsuper write and read it: a sender that writes packets byte by   *)
(* byte, a line that may spoil bytes, and an HdlcDecoder.                  *)
(*                                                                         *)
(* A frame is the packet and its CRC, with End and Esc escaped, and an End *)
(* behind it.  There is no End before it: a frame starts wherever the last *)
(* one ended.  A sender may be killed in the middle of a frame, and a new  *)
(* decoder may be put on the line in the middle of one, for every wait for *)
(* an answer and every capture starts with HdlcDecoder::default().         *)
(***************************************************************************)
EXTENDS Naturals, Sequences

CONSTANTS Bytes, End, Esc,  \* 0x7e and 0x7d
          Flip,             \* Flip[b] = b ^ 0x20
          Crc(_),           \* the two bytes of the CRC
          Packets,          \* the packets a sender sends
          MaxSent,          \* bound: packets sent
          MaxFaults         \* bound: spoilt bytes and killed senders

ASSUME ByteAssumption ==
    /\ {End, Esc} \subseteq Bytes /\ End # Esc
    /\ Flip \in [Bytes -> Bytes] /\ \A b \in Bytes : Flip[Flip[b]] = b
    /\ {Flip[End], Flip[Esc]} \cap {End, Esc} = {}
ASSUME PacketAssumption ==
    \A p \in Packets : p \in Seq(Bytes) /\ p # <<>> /\ Crc(p) \in Seq(Bytes) /\ Len(Crc(p)) = 2

VARIABLES sent,           \* the packets whose frames have been begun
          sending,        \* the last of them is being written
          k, half,        \* k of its raw bytes are written, and the Esc before the next
          frame, escaped, \* the decoder
          spoilt,         \* this frame, or the End before it, has not arrived as it was sent
          intact,         \* the frames of which neither is so
          got,            \* the packets decoded, each with the number of the frame it ended
          faults          \* what went wrong so far

senderVars  == <<sent, sending, k, half>>
decoderVars == <<frame, escaped, got>>
vars == <<senderVars, decoderVars, spoilt, intact, faults>>

Init == /\ sent = <<>> /\ sending = FALSE /\ k = 0 /\ half = FALSE
        /\ frame = <<>> /\ escaped = FALSE /\ got = {}
        /\ spoilt = FALSE /\ intact = {} /\ faults = 0

-----------------------------------------------------------------------------
\* encode_hdlc and the write of what it returns.

Raw(p) == p \o Crc(p)

Current == Raw(sent[Len(sent)])

NextByte == IF k = Len(Current) THEN End
            ELSE IF half THEN Flip[Current[k + 1]]
            ELSE IF Current[k + 1] \in {End, Esc} THEN Esc
            ELSE Current[k + 1]

Advance == /\ sending
           /\ sent' = sent
           /\ \/ k = Len(Current) /\ sending' = FALSE /\ k' = 0 /\ half' = FALSE
              \/ /\ k < Len(Current) /\ sending' = TRUE
                 /\ half' = (~half /\ Current[k + 1] \in {End, Esc})
                 /\ k' = IF half' THEN k ELSE k + 1

Send(p) == /\ ~sending /\ Len(sent) < MaxSent
           /\ sent' = Append(sent, p) /\ sending' = TRUE /\ k' = 0 /\ half' = FALSE
           /\ UNCHANGED <<decoderVars, spoilt, intact, faults>>

\* Something of the frame is on the line.
Begun == sending /\ (k # 0 \/ half)

\* The sender is killed.  The next one does not know.
SenderKilled == /\ sending /\ faults < MaxFaults
                /\ sending' = FALSE /\ k' = 0 /\ half' = FALSE
                /\ spoilt' = (spoilt \/ Begun)
                /\ faults' = faults + 1
                /\ UNCHANGED <<sent, decoderVars, intact>>

-----------------------------------------------------------------------------
\* The decoder.

Payload(raw) == SubSeq(raw, 1, Len(raw) - 2)

\* validate_diag_frame
Valid(raw) == Len(raw) >= 3 /\ Crc(Payload(raw)) = SubSeq(raw, Len(raw) - 1, Len(raw))

\* Mutant of Push: an End leaves the escape on.
PushKeepsEscape(b) ==
    \/ /\ b = End
       /\ frame' = <<>> /\ escaped' = escaped
       /\ got' = IF frame # <<>> /\ Valid(frame)
                 THEN got \cup {[n |-> Len(sent), packet |-> Payload(frame)]} ELSE got
    \/ /\ b = Esc
       /\ escaped' = TRUE /\ UNCHANGED <<frame, got>>
    \/ /\ b \notin {End, Esc}
       /\ frame' = Append(frame, IF escaped THEN Flip[b] ELSE b)
       /\ escaped' = FALSE /\ got' = got

\* HdlcDecoder::push
Push(b) ==
    \/ /\ b = End
       /\ frame' = <<>> /\ escaped' = FALSE
       /\ got' = IF frame # <<>> /\ Valid(frame)
                 THEN got \cup {[n |-> Len(sent), packet |-> Payload(frame)]} ELSE got
    \/ /\ b = Esc
       /\ escaped' = TRUE /\ UNCHANGED <<frame, got>>
    \/ /\ b \notin {End, Esc}
       /\ frame' = Append(frame, IF escaped THEN Flip[b] ELSE b)
       /\ escaped' = FALSE /\ got' = got

\* A byte arrives as it was sent.
Deliver == /\ Advance /\ Push(NextByte)
           /\ IF sending' THEN UNCHANGED <<spoilt, intact>>
              ELSE /\ spoilt' = FALSE
                   /\ intact' = IF spoilt THEN intact ELSE intact \cup {Len(sent)}
           /\ faults' = faults

\* A byte is lost, or arrives as another.
Spoil == /\ Advance /\ faults < MaxFaults
         /\ \/ UNCHANGED decoderVars
            \/ \E b \in Bytes \ {NextByte} : Push(b)
         /\ spoilt' = TRUE /\ faults' = faults + 1
         /\ intact' = intact

\* HdlcDecoder::default() takes over the line.
NewDecoder == /\ frame' = <<>> /\ escaped' = FALSE
              /\ spoilt' = Begun
              /\ UNCHANGED <<senderVars, got, intact, faults>>

Next == (\E p \in Packets : Send(p)) \/ SenderKilled \/ Deliver \/ Spoil \/ NewDecoder

Spec == Init /\ [][Next]_vars
-----------------------------------------------------------------------------
\* TypeOK: the types of the sender, the decoder and the books kept on them.
TypeOK == /\ sent \in Seq(Packets) /\ sending \in BOOLEAN /\ half \in BOOLEAN
          /\ k \in Nat /\ (sending => sent # <<>> /\ k <= Len(Current))
          /\ frame \in Seq(Bytes) /\ escaped \in BOOLEAN
          /\ got \subseteq [n : Nat, packet : Seq(Bytes) \ {<<>>}]
          /\ spoilt \in BOOLEAN /\ intact \subseteq Nat /\ faults \in Nat

\* LossIsLocal: whatever went wrong before, a frame that arrives intact behind
\* an intact End (or as the first thing a new decoder sees) yields its packet,
\* just that one and just once: escapes, a CRC that looks like a flag, garbage
\* and half frames cost no packet but those they touch and the next one.
LossIsLocal == \A n \in intact : {e \in got : e.n = n} = {[n |-> n, packet |-> sent[n]]}
=============================================================================
