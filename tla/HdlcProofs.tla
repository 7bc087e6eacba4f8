----------------------------- MODULE HdlcProofs -----------------------------
(***************************************************************************)
(* Proofs about Hdlc, for any alphabet, any two-byte CRC and any faults.   *)
(***************************************************************************)
EXTENDS Hdlc, SequenceTheorems, TLAPS

\* A decoder of an unspoilt frame holds what has been sent of it, unescaped.
Tracking == ~spoilt => IF sending THEN frame = SubSeq(Current, 1, k) /\ escaped = half
                                  ELSE frame = <<>> /\ escaped = FALSE

\* Nothing has been decoded under the number of a frame that is still clean.
Fresh == /\ \A e \in got : e.n <= Len(sent)
         /\ sending /\ (~spoilt \/ ~Begun) => \A e \in got : e.n # Len(sent)

\* A frame is intact once it is complete.
Complete == /\ intact \subseteq 1 .. Len(sent)
            /\ sending => Len(sent) \notin intact

\* An Esc has been sent for a byte that needs one.
Escaping == sending /\ half => k < Len(Current) /\ Current[k + 1] \in {End, Esc}

IInv == TypeOK /\ Tracking /\ Escaping /\ Fresh /\ Complete /\ LossIsLocal

-----------------------------------------------------------------------------
\* The raw bytes of a packet are valid, and their payload is the packet.
LEMMA RawValid ==
    ASSUME NEW p \in Packets
    PROVE  /\ Raw(p) \in Seq(Bytes) /\ Len(Raw(p)) \in Nat /\ Len(Raw(p)) >= 3
           /\ Payload(Raw(p)) = p /\ Valid(Raw(p))
<1>1. /\ p \in Seq(Bytes) /\ p # <<>> /\ Crc(p) \in Seq(Bytes) /\ Len(Crc(p)) = 2
  BY PacketAssumption
<1>2. Len(p) \in Nat /\ Len(p) >= 1
  BY <1>1
<1>0. /\ Raw(p) \in Seq(Bytes) /\ Len(Raw(p)) = Len(p) + Len(Crc(p))
      /\ \A i \in 1 .. Len(p) + Len(Crc(p)) :
            Raw(p)[i] = IF i <= Len(p) THEN p[i] ELSE Crc(p)[i - Len(p)]
  <2> HIDE PacketAssumption
  <2> QED BY <1>1, ConcatProperties, Zenon DEF Raw
<1>3. Raw(p) \in Seq(Bytes) /\ Len(Raw(p)) = Len(p) + 2
  BY <1>0, <1>1
<1>4. \A i \in 1 .. Len(p) : Raw(p)[i] = p[i]
  BY <1>0, <1>1, <1>2
<1>5. Raw(p)[Len(p) + 1] = Crc(p)[1] /\ Raw(p)[Len(p) + 2] = Crc(p)[2]
  BY <1>0, <1>1, <1>2
<1> DEFINE r == Raw(p)
<1>6. r \in Seq(Bytes) /\ Len(r) = Len(p) + 2
  BY <1>3
<1>7. \A i \in 1 .. Len(p) : r[i] = p[i]
  BY <1>4
<1>8. r[Len(p) + 1] = Crc(p)[1] /\ r[Len(p) + 2] = Crc(p)[2]
  BY <1>5
<1> HIDE DEF r
<1>9. SubSeq(r, 1, Len(r) - 2) = p
  <2>1. SubSeq(r, 1, Len(p)) \in Seq(Bytes) /\ Len(SubSeq(r, 1, Len(p))) = Len(p)
    BY <1>2, <1>6
  <2>2. \A i \in 1 .. Len(p) : SubSeq(r, 1, Len(p))[i] = p[i]
    BY <1>2, <1>6, <1>7
  <2>3. SubSeq(r, 1, Len(p)) = p
    BY <1>1, <2>1, <2>2
  <2> QED BY <1>2, <1>6, <2>3
<1>10. SubSeq(r, Len(r) - 1, Len(r)) = Crc(p)
  <2> DEFINE c == SubSeq(r, Len(p) + 1, Len(p) + 2)
  <2>1. c \in Seq(Bytes) /\ Len(c) = 2 /\ c[1] = r[Len(p) + 1] /\ c[2] = r[Len(p) + 2]
    BY <1>2, <1>6
  <2> HIDE DEF c
  <2>2. c = Crc(p)
    BY <1>1, <1>8, <2>1
  <2> QED BY <1>2, <1>6, <2>2 DEF c
<1>11. Payload(r) = p
  BY <1>9 DEF Payload
<1>12. Valid(r)
  <2>1. Len(r) >= 3
    BY <1>2, <1>6
  <2> QED BY <1>10, <1>11, <2>1, Zenon DEF Valid
<1> QED BY <1>2, <1>6, <1>11, <1>12 DEF r

LEMMA InitInv == Init => IInv
<1> SUFFICES ASSUME Init PROVE IInv
  OBVIOUS
<1>1. TypeOK
  <2>1. sent \in Seq(Packets) /\ frame \in Seq(Bytes)
    BY EmptySeq, Zenon DEF Init
  <2> QED BY <2>1 DEF Init, TypeOK
<1>2. Tracking /\ Escaping
  BY DEF Init, Tracking, Escaping
<1>3. Fresh /\ Complete /\ LossIsLocal
  BY DEF Init, Fresh, Complete, LossIsLocal
<1> QED BY <1>1, <1>2, <1>3 DEF IInv

\* The current frame, and the byte that is sent next.
LEMMA CurrentRaw ==
    ASSUME TypeOK, sending
    PROVE  /\ Len(sent) \in Nat \ {0} /\ sent[Len(sent)] \in Packets
           /\ Current \in Seq(Bytes) /\ Len(Current) \in Nat /\ Len(Current) >= 3
           /\ Payload(Current) = sent[Len(sent)] /\ Valid(Current)
           /\ NextByte \in Bytes
<1>1. Len(sent) \in Nat \ {0} /\ sent[Len(sent)] \in Packets
  BY DEF TypeOK
<1>2. /\ Current \in Seq(Bytes) /\ Len(Current) \in Nat /\ Len(Current) >= 3
      /\ Payload(Current) = sent[Len(sent)] /\ Valid(Current)
  BY <1>1, RawValid DEF Current
<1>3. k < Len(Current) => Current[k + 1] \in Bytes
  BY <1>2 DEF TypeOK
<1>4. k \in Nat /\ k <= Len(Current)
  BY DEF TypeOK
<1>5. NextByte \in Bytes
  BY <1>2, <1>3, <1>4, ByteAssumption DEF NextByte
<1> QED BY <1>1, <1>2, <1>5

\* A byte pushed leaves the decoder well typed, and decodes, if anything, one
\* packet under the current number.
LEMMA PushTyped ==
    ASSUME TypeOK, NEW b \in Bytes, Push(b)
    PROVE  /\ frame' \in Seq(Bytes) /\ escaped' \in BOOLEAN
           /\ got' \subseteq [n : Nat, packet : Seq(Bytes) \ {<<>>}]
           /\ \A e \in got' : e \in got \/ e.n = Len(sent)
           /\ got \subseteq got'
<1>0. frame \in Seq(Bytes) /\ Len(sent) \in Nat /\ got \subseteq [n : Nat, packet : Seq(Bytes) \ {<<>>}]
  BY DEF TypeOK
<1>1. CASE b = End
  <2>0. frame' = <<>> /\ escaped' = FALSE
    BY <1>1, ByteAssumption DEF Push
  <2>1. frame' = <<>> /\ escaped' = FALSE /\ frame' \in Seq(Bytes)
    BY <2>0, EmptySeq, Zenon
  <2>2. CASE got' = got
    BY <1>0, <2>1, <2>2, Zenon
  <2>3. CASE Valid(frame) /\ got' = got \cup {[n |-> Len(sent), packet |-> Payload(frame)]}
    <3>1. Payload(frame) \in Seq(Bytes) /\ Len(Payload(frame)) = Len(frame) - 2 /\ Len(frame) >= 3
      BY <1>0, <2>3 DEF Payload, Valid
    <3>2. Payload(frame) # <<>>
      BY <1>0, <3>1
    <3> DEFINE x == [n |-> Len(sent), packet |-> Payload(frame)]
    <3>3. x \in [n : Nat, packet : Seq(Bytes) \ {<<>>}] /\ x.n = Len(sent)
      BY <1>0, <3>1, <3>2
    <3> HIDE DEF x
    <3>4. got' = got \cup {x}
      BY <2>3 DEF x
    <3> QED BY <1>0, <2>1, <3>3, <3>4, Zenon
  <2> QED BY <1>1, <2>2, <2>3, ByteAssumption DEF Push
<1>2. CASE b = Esc
  BY <1>0, <1>2, ByteAssumption DEF Push
<1>3. CASE b \notin {End, Esc}
  <2>1. Flip[b] \in Bytes
    BY ByteAssumption
  <2>2. frame' \in Seq(Bytes) /\ escaped' = FALSE /\ got' = got
    BY <1>0, <1>3, <2>1 DEF Push
  <2> QED BY <1>0, <2>2
<1> QED BY <1>1, <1>2, <1>3

\* The sender's side of a byte.
LEMMA AdvanceTyped ==
    ASSUME TypeOK, Advance
    PROVE  /\ sending /\ sent' = sent /\ Current' = Current
           /\ sending' \in BOOLEAN /\ half' \in BOOLEAN /\ k' \in Nat
           /\ sending' => k' <= Len(Current) /\ Begun'
           /\ ~sending' <=> k = Len(Current)
<1>1. /\ sending /\ sent' = sent /\ Current' = Current
      /\ k \in Nat /\ k <= Len(Current) /\ Len(Current) \in Nat
  BY CurrentRaw DEF Advance, TypeOK, Current
<1>2. CASE k = Len(Current)
  <2>1. sending' = FALSE /\ k' = 0 /\ half' = FALSE
    BY <1>1, <1>2 DEF Advance
  <2> QED BY <1>1, <1>2, <2>1 DEF Begun
<1>3. CASE k < Len(Current)
  <2>1. /\ sending' = TRUE /\ half' = (~half /\ Current[k + 1] \in {End, Esc})
        /\ k' = IF half' THEN k ELSE k + 1
    BY <1>1, <1>3 DEF Advance
  <2>2. half' \in BOOLEAN
    BY <2>1, Zenon
  <2> QED BY <1>1, <1>3, <2>1, <2>2 DEF Begun
<1> QED BY <1>1, <1>2, <1>3

-----------------------------------------------------------------------------
LEMMA SendInv == ASSUME IInv, NEW p \in Packets, Send(p) PROVE IInv'
<1>1. /\ ~sending /\ sent' = Append(sent, p) /\ sending' = TRUE /\ k' = 0 /\ half' = FALSE
      /\ sent \in Seq(Packets) /\ Len(sent) \in Nat
      /\ UNCHANGED <<frame, escaped, got, spoilt, intact, faults>>
  BY DEF IInv, TypeOK, Send, decoderVars
<1>2. /\ Len(sent') = Len(sent) + 1 /\ sent' \in Seq(Packets) /\ sent'[Len(sent')] = p
      /\ \A i \in 1 .. Len(sent) : sent'[i] = sent[i]
  BY <1>1
<1>3. Current' = Raw(p)
  BY <1>2 DEF Current
<1>4. Raw(p) \in Seq(Bytes) /\ Len(Raw(p)) \in Nat /\ Len(Raw(p)) >= 3
  BY RawValid
<1>5. TypeOK'
  <2>1. sent' # <<>> /\ k' <= Len(Current')
    BY <1>1, <1>2, <1>3, <1>4
  <2> QED BY <1>1, <1>2, <2>1 DEF IInv, TypeOK
<1>6. Tracking'
  <2>1. SubSeq(Current', 1, k') = <<>>
    BY <1>1, <1>3, <1>4
  <2> QED BY <1>1, <2>1 DEF IInv, Tracking
<1>7. Fresh'
  <2>1. \A e \in got : e.n \in Nat /\ e.n <= Len(sent)
    BY DEF IInv, TypeOK, Fresh
  <2> QED BY <1>1, <1>2, <2>1 DEF Fresh
<1>8. Complete'
  BY <1>1, <1>2 DEF IInv, Complete
<1>9. LossIsLocal'
  BY <1>1, <1>2 DEF IInv, LossIsLocal, Complete
<1>10. Escaping'
  BY <1>1 DEF Escaping
<1> QED BY <1>5, <1>6, <1>7, <1>8, <1>9, <1>10 DEF IInv

LEMMA SenderKilledInv == ASSUME IInv, SenderKilled PROVE IInv'
<1>1. /\ sending /\ sending' = FALSE /\ k' = 0 /\ half' = FALSE /\ spoilt' = (spoilt \/ Begun)
      /\ faults' = faults + 1 /\ UNCHANGED <<sent, frame, escaped, got, intact>>
      /\ spoilt \in BOOLEAN /\ faults \in Nat /\ TypeOK
  BY DEF IInv, TypeOK, SenderKilled, decoderVars
<1>2. Begun \in BOOLEAN /\ (~Begun => k = 0 /\ half = FALSE)
  BY <1>1 DEF Begun, TypeOK
<1>3. TypeOK'
  <2>1. spoilt' \in BOOLEAN
    BY <1>1, Zenon
  <2>2. k' \in Nat /\ faults' \in Nat
    BY <1>1
  <2>3. ~sending' /\ sending' \in BOOLEAN /\ half' \in BOOLEAN
    BY <1>1, Zenon
  <2>4. UNCHANGED sent /\ UNCHANGED frame /\ UNCHANGED escaped /\ UNCHANGED got /\ UNCHANGED intact
    BY <1>1
  <2> QED BY <1>1, <2>1, <2>2, <2>3, <2>4, Zenon DEF TypeOK
<1>4. Tracking'
  <2>1. ~spoilt' => ~spoilt /\ k = 0 /\ half = FALSE
    BY <1>1, <1>2
  <2>2. SubSeq(Current, 1, 0) = <<>>
    BY <1>1, CurrentRaw
  <2> QED BY <1>1, <2>1, <2>2 DEF IInv, Tracking
<1> QED BY <1>1, <1>3, <1>4 DEF IInv, Escaping, Fresh, Complete, LossIsLocal

LEMMA NewDecoderInv == ASSUME IInv, NewDecoder PROVE IInv'
<1>1. /\ frame' = <<>> /\ escaped' = FALSE /\ spoilt' = Begun
      /\ UNCHANGED <<sent, sending, k, half, got, intact, faults>>
      /\ TypeOK /\ Current' = Current /\ Begun' = Begun
  BY DEF IInv, NewDecoder, senderVars, Current, Begun
<1>2. Begun \in BOOLEAN
  BY <1>1 DEF Begun, TypeOK
<1>3. TypeOK'
  <2>1. spoilt' \in BOOLEAN
    BY <1>1, <1>2, Zenon
  <2>2. frame' \in Seq(Bytes) /\ escaped' \in BOOLEAN
    BY <1>1, EmptySeq, Zenon
  <2> QED BY <1>1, <2>1, <2>2 DEF TypeOK
<1>4. Tracking'
  <2>1. sending /\ ~Begun => k = 0 /\ half = FALSE /\ SubSeq(Current, 1, k) = <<>>
    BY <1>1, CurrentRaw DEF Begun, TypeOK
  <2> QED BY <1>1, <2>1 DEF Tracking
<1>5. Fresh'
  BY <1>1 DEF IInv, Fresh
<1> QED BY <1>1, <1>3, <1>4, <1>5 DEF IInv, Escaping, Complete, LossIsLocal

\* Entries under the current number do not touch the intact frames.
LEMMA OthersStay ==
    ASSUME IInv, sending, sent' = sent, got \subseteq got',
           \A e \in got' : e \in got \/ e.n = Len(sent),
           NEW m \in intact
    PROVE  {e \in got' : e.n = m} = {[n |-> m, packet |-> sent[m]]}
<1>1. m # Len(sent)
  BY DEF IInv, Complete
<1>2. {e \in got : e.n = m} = {[n |-> m, packet |-> sent[m]]}
  BY DEF IInv, LossIsLocal
<1> QED BY <1>1, <1>2

LEMMA SpoilInv == ASSUME IInv, Spoil PROVE IInv'
<1>0. /\ TypeOK /\ Advance /\ spoilt' = TRUE /\ faults' = faults + 1 /\ intact' = intact
  BY DEF IInv, Spoil
<1>1. /\ sending /\ sent' = sent /\ Current' = Current
      /\ sending' \in BOOLEAN /\ half' \in BOOLEAN /\ k' \in Nat
      /\ sending' => k' <= Len(Current) /\ Begun'
  BY <1>0, AdvanceTyped
<1>2. /\ frame' \in Seq(Bytes) /\ escaped' \in BOOLEAN
      /\ got' \subseteq [n : Nat, packet : Seq(Bytes) \ {<<>>}]
      /\ \A e \in got' : e \in got \/ e.n = Len(sent)
      /\ got \subseteq got'
  <2>1. CASE UNCHANGED decoderVars
    BY <1>0, <2>1 DEF decoderVars, TypeOK
  <2>2. CASE \E b \in Bytes \ {NextByte} : Push(b)
    BY <1>0, <2>2, PushTyped
  <2> QED BY <2>1, <2>2 DEF Spoil
<1>3. TypeOK'
  BY <1>0, <1>1, <1>2 DEF TypeOK
<1>4. Tracking'
  BY <1>0 DEF Tracking
<1>5. Fresh'
  <2>1. Len(sent) \in Nat
    BY <1>0 DEF TypeOK
  <2>2. \A e \in got' : e.n <= Len(sent)
    BY <1>2, <2>1 DEF IInv, Fresh
  <2> QED BY <1>0, <1>1, <2>2 DEF Fresh
<1>6. Complete'
  BY <1>0, <1>1 DEF IInv, Complete
<1>7. LossIsLocal'
  BY <1>0, <1>1, <1>2, OthersStay DEF LossIsLocal
<1>8. Escaping'
  BY <1>0, <1>1, CurrentRaw DEF Advance, Escaping, TypeOK
<1> QED BY <1>3, <1>4, <1>5, <1>6, <1>7, <1>8 DEF IInv

\* A byte of a frame that is not its End: the decoder keeps track.
LEMMA ByteInv == ASSUME IInv, Deliver, k # Len(Current) PROVE IInv'
<1>0. /\ TypeOK /\ Advance /\ Push(NextByte) /\ faults' = faults
  BY DEF IInv, Deliver
<1>1. /\ sending /\ sent' = sent /\ Current' = Current /\ sending' = TRUE
      /\ half' \in BOOLEAN /\ k' \in Nat /\ k' <= Len(Current) /\ Begun'
  BY <1>0, AdvanceTyped
<1>2. /\ NextByte \in Bytes /\ Current \in Seq(Bytes) /\ Len(Current) \in Nat
      /\ k \in Nat /\ k < Len(Current) /\ Len(sent) \in Nat
  BY <1>0, <1>1, CurrentRaw DEF TypeOK
<1>3. UNCHANGED <<spoilt, intact>>
  BY <1>1 DEF Deliver
<1>4. /\ frame' \in Seq(Bytes) /\ escaped' \in BOOLEAN
      /\ got' \subseteq [n : Nat, packet : Seq(Bytes) \ {<<>>}]
      /\ \A e \in got' : e \in got \/ e.n = Len(sent)
      /\ got \subseteq got'
  BY <1>0, <1>2, PushTyped
<1>5. TypeOK'
  BY <1>0, <1>1, <1>3, <1>4 DEF TypeOK
<1> DEFINE b == Current[k + 1]
<1>6. b \in Bytes /\ Flip[b] \in Bytes /\ Flip[Flip[b]] = b
  BY <1>2, ByteAssumption
<1>7. SubSeq(Current, 1, k + 1) = Append(SubSeq(Current, 1, k), b)
  BY <1>2
<1>8. half => b \in {End, Esc}
  BY <1>0, <1>1 DEF IInv, Escaping
<1>9. Escaping'
  <2>1. half' = (~half /\ b \in {End, Esc}) /\ k' = IF half' THEN k ELSE k + 1
    BY <1>0, <1>2 DEF Advance
  <2>2. half' => b \in {End, Esc} /\ k' = k
    BY <2>1, Zenon
  <2> QED BY <1>1, <1>2, <2>2 DEF Escaping
<1>10. ~spoilt => frame' = SubSeq(Current, 1, k') /\ escaped' = half' /\ got' = got
  <2> SUFFICES ASSUME ~spoilt
               PROVE  frame' = SubSeq(Current, 1, k') /\ escaped' = half' /\ got' = got
    OBVIOUS
  <2>1. frame = SubSeq(Current, 1, k) /\ escaped = half
    BY <1>1 DEF IInv, Tracking
  <2>2. half' = (~half /\ b \in {End, Esc}) /\ k' = IF half' THEN k ELSE k + 1
    BY <1>0, <1>2 DEF Advance
  <2>3. CASE half
    <3>1. NextByte = Flip[b] /\ NextByte \notin {End, Esc}
      BY <1>2, <1>8, <2>3, ByteAssumption DEF NextByte
    <3>2. frame' = Append(frame, Flip[Flip[b]]) /\ escaped' = FALSE /\ got' = got
      BY <1>0, <2>1, <2>3, <3>1 DEF Push
    <3> QED BY <1>6, <1>7, <2>1, <2>2, <2>3, <3>2
  <2>4. CASE ~half /\ b \in {End, Esc}
    <3>1. NextByte = Esc
      BY <1>2, <2>4 DEF NextByte
    <3>2. frame' = frame /\ escaped' = TRUE /\ got' = got
      BY <1>0, <3>1, ByteAssumption DEF Push
    <3> QED BY <2>1, <2>2, <2>4, <3>2
  <2>5. CASE ~half /\ b \notin {End, Esc}
    <3>1. NextByte = b
      BY <1>2, <2>5 DEF NextByte
    <3>2. frame' = Append(frame, b) /\ escaped' = FALSE /\ got' = got
      BY <1>0, <2>1, <2>5, <3>1 DEF Push
    <3> QED BY <1>7, <2>1, <2>2, <2>5, <3>2
  <2> QED BY <2>3, <2>4, <2>5
<1>11. Tracking'
  BY <1>1, <1>3, <1>10 DEF Tracking
<1>12. Fresh'
  <2>1. \A e \in got' : e.n <= Len(sent)
    BY <1>2, <1>4 DEF IInv, Fresh
  <2>2. ~spoilt => \A e \in got' : e.n # Len(sent)
    BY <1>1, <1>10 DEF IInv, Fresh
  <2> QED BY <1>1, <1>3, <2>1, <2>2 DEF Fresh
<1>13. Complete'
  BY <1>1, <1>3 DEF IInv, Complete
<1>14. LossIsLocal'
  BY <1>1, <1>3, <1>4, OthersStay DEF LossIsLocal
<1> QED BY <1>5, <1>9, <1>11, <1>12, <1>13, <1>14 DEF IInv

\* The End of a frame: what an unspoilt decoder holds is the whole frame, so
\* its packet is decoded, and it is the only one of that number.
LEMMA EndInv == ASSUME IInv, Deliver, k = Len(Current) PROVE IInv'
<1>0. /\ TypeOK /\ Advance /\ Push(NextByte) /\ faults' = faults
  BY DEF IInv, Deliver
<1>1. /\ sending /\ sent' = sent /\ sending' = FALSE /\ k' = 0 /\ half' = FALSE
  BY <1>0, CurrentRaw DEF Advance
<1>2. /\ Len(sent) \in Nat \ {0} /\ sent[Len(sent)] \in Packets
      /\ Current \in Seq(Bytes) /\ Len(Current) \in Nat /\ Len(Current) >= 3
      /\ Payload(Current) = sent[Len(sent)] /\ Valid(Current) /\ NextByte \in Bytes
  BY <1>0, <1>1, CurrentRaw
<1>3. NextByte = End
  BY DEF NextByte
<1>4. spoilt' = FALSE /\ intact' = IF spoilt THEN intact ELSE intact \cup {Len(sent)}
  BY <1>1 DEF Deliver
<1>5. /\ frame' \in Seq(Bytes) /\ escaped' \in BOOLEAN
      /\ got' \subseteq [n : Nat, packet : Seq(Bytes) \ {<<>>}]
      /\ \A e \in got' : e \in got \/ e.n = Len(sent)
      /\ got \subseteq got'
  BY <1>0, <1>2, PushTyped
<1>6. frame' = <<>> /\ escaped' = FALSE
  BY <1>0, <1>3, ByteAssumption DEF Push
<1>7. TypeOK'
  BY <1>0, <1>1, <1>2, <1>4, <1>5 DEF TypeOK
<1>8. Tracking' /\ Escaping'
  BY <1>1, <1>6 DEF Tracking, Escaping
<1>9. Fresh'
  BY <1>1, <1>2, <1>5 DEF IInv, Fresh
<1>10. Complete'
  <2>1. intact' \subseteq intact \cup {Len(sent)} /\ intact \subseteq 1 .. Len(sent)
    BY <1>4 DEF IInv, Complete
  <2>2. Len(sent) \in 1 .. Len(sent)
    BY <1>2
  <2> QED BY <1>1, <2>1, <2>2 DEF Complete
<1>11. ~spoilt => {e \in got' : e.n = Len(sent)}
                     = {[n |-> Len(sent), packet |-> sent[Len(sent)]]}
  <2> SUFFICES ASSUME ~spoilt
               PROVE  {e \in got' : e.n = Len(sent)}
                         = {[n |-> Len(sent), packet |-> sent[Len(sent)]]}
    OBVIOUS
  <2>1. frame = Current
    BY <1>1, <1>2 DEF IInv, Tracking
  <2>2. got' = got \cup {[n |-> Len(sent), packet |-> sent[Len(sent)]]}
    <3>1. frame # <<>> /\ Valid(frame) /\ Payload(frame) = sent[Len(sent)]
      BY <1>2, <2>1
    <3> QED BY <1>0, <1>3, <3>1, ByteAssumption DEF Push
  <2>3. \A e \in got : e.n # Len(sent)
    BY <1>1 DEF IInv, Fresh
  <2> QED BY <2>2, <2>3
<1>12. LossIsLocal'
  <2> SUFFICES ASSUME NEW m \in intact'
               PROVE  {e \in got' : e.n = m} = {[n |-> m, packet |-> sent[m]]}
    BY <1>1 DEF LossIsLocal
  <2>1. CASE m \in intact
    BY <1>1, <1>5, <2>1, OthersStay
  <2>2. CASE m \notin intact
    BY <1>4, <1>11, <2>2
  <2> QED BY <2>1, <2>2
<1> QED BY <1>7, <1>8, <1>9, <1>10, <1>12 DEF IInv

LEMMA NextInv == IInv /\ [Next]_vars => IInv'
<1> SUFFICES ASSUME IInv, [Next]_vars PROVE IInv'
  OBVIOUS
<1>1. CASE \E p \in Packets : Send(p)
  BY <1>1, SendInv
<1>2. CASE SenderKilled
  BY <1>2, SenderKilledInv
<1>3. CASE Deliver
  BY <1>3, ByteInv, EndInv
<1>4. CASE Spoil
  BY <1>4, SpoilInv
<1>5. CASE NewDecoder
  BY <1>5, NewDecoderInv
<1>6. CASE UNCHANGED vars
  BY <1>6 DEF vars, senderVars, decoderVars, IInv, TypeOK, Tracking, Escaping, Fresh, Complete,
              LossIsLocal, Current, Begun
<1> QED BY <1>1, <1>2, <1>3, <1>4, <1>5, <1>6 DEF Next

-----------------------------------------------------------------------------
\* The inductive invariant of sender, line and decoder.
THEOREM Invariance == Spec => []IInv
<1> QED BY InitInv, NextInv, PTL DEF Spec

\* The sender's place, the line and HdlcDecoder's frame keep their types.
THEOREM TypeCorrect == Spec => []TypeOK
<1>1. IInv => TypeOK
  BY DEF IInv
<1> QED BY <1>1, Invariance, PTL

\* HdlcDecoder recovers every packet that the line and the sender let through,
\* whatever the alphabet, the CRC and the packets.
THEOREM LossStaysLocal == Spec => []LossIsLocal
<1>1. IInv => LossIsLocal
  BY DEF IInv
<1> QED BY <1>1, Invariance, PTL
=============================================================================
