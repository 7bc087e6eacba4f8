------------------------------ MODULE SdmProofs ------------------------------
(***************************************************************************)
(* What holds of both halves of 6grok-samsung-sdm.  Of SdmDecoder, for     *)
(* every stream and every division of it into reads, for any header, gap   *)
(* and limits: the buffer is the rest of the stream, from `base` on; so    *)
(* each place in it is a place in the stream.  Of the sessions that set up *)
(* the log of a modem, for any processes and commands: the second part.    *)
(***************************************************************************)
EXTENDS SdmFraming, SdmSession, SequenceTheorems, WellFoundedInduction, TLAPS

Frame == [at : Nat \ {0}, packet : Seq(Bytes)]

\* Buffered: the buffer is what of the stream has not left it.
Buffered == base <= Len(stream) /\ buffer = SubSeq(stream, base + 1, Len(stream))

\* Settled: between reads the decoder waits for the rest of what may be a packet.
Settled == ~busy => buffer = <<>> \/ (buffer[1] = Start /\ Verdict(buffer) = "await")

\* Verified: what is handed out has passed the checks of push.
Verified == \A i \in DOMAIN frames : LET p == frames[i].packet IN Len(p) >= 1 + Header /\ Plausible(p)

IInv == TypeOK /\ Buffered /\ Settled /\ Verified /\ Sliced /\ EveryStartAccounted

-----------------------------------------------------------------------------
\* LeastElement: a nonempty set of numbers has a smallest one.
LEMMA LeastElement ==
    ASSUME NEW P, P \subseteq Nat, P # {}
    PROVE  \E k \in P : \A j \in P : k <= j
<1> DEFINE R == {ss \in Nat \X Nat : ss[1] < ss[2]}
<1>1. IsWellFoundedOn(R, Nat)
  BY NatLessThanWellFounded DEF OpToRel
<1> HIDE DEF R
<1>2. PICK k \in P : \A j \in P : ~(<<j, k>> \in R)
  BY <1>1, WFMin
<1>3. \A j \in P : j \in Nat /\ k \in Nat /\ ~(j < k)
  BY <1>2 DEF R
<1> QED
  BY <1>3

\* Slices: a part of a sequence, within its bounds.
LEMMA Slices ==
    ASSUME NEW S, NEW s \in Seq(S), NEW m \in Nat \ {0}, NEW n \in Nat, n <= Len(s)
    PROVE  /\ SubSeq(s, m, n) \in Seq(S)
           /\ Len(SubSeq(s, m, n)) = IF m <= n THEN n - m + 1 ELSE 0
           /\ \A i \in 1 .. n - m + 1 : SubSeq(s, m, n)[i] = s[m + i - 1]
<1>1. \A i \in m .. n : s[i] \in S
  BY ElementOfSeq, LenProperties
<1> QED
  BY <1>1, SubSeqProperties

\* Suffixes: what is left of a sequence behind its first m elements.
LEMMA Suffixes ==
    ASSUME NEW S, NEW s \in Seq(S), NEW m \in Nat, m <= Len(s)
    PROVE  /\ SubSeq(s, m + 1, Len(s)) \in Seq(S)
           /\ Len(SubSeq(s, m + 1, Len(s))) = Len(s) - m
           /\ \A i \in 1 .. Len(s) - m : SubSeq(s, m + 1, Len(s))[i] = s[m + i]
<1> DEFINE n == Len(s)
           k == m + 1
           t == SubSeq(s, k, n)
<1>1. /\ n \in Nat /\ k \in Nat \ {0} /\ n <= Len(s) /\ n - k + 1 = n - m
      /\ k <= n \/ n - m = 0
  BY LenProperties
<1>2. ASSUME NEW i \in 1 .. n - m PROVE k + i - 1 = m + i
  <2> HIDE DEF n
  <2> QED
    BY <1>1
<1> HIDE DEF k
<1>3. /\ t \in Seq(S) /\ Len(t) = IF k <= n THEN n - k + 1 ELSE 0
      /\ \A i \in 1 .. n - k + 1 : t[i] = s[k + i - 1]
  BY <1>1, Slices
<1> HIDE DEF n, t
<1>4. Len(t) = n - m
  BY <1>1, <1>3
<1>5. \A i \in 1 .. n - m : t[i] = s[m + i]
  BY <1>1, <1>2, <1>3
<1> QED
  BY <1>3, <1>4, <1>5 DEF k, n, t

\* SuffixOfSuffix: what is left of what is left.
LEMMA SuffixOfSuffix ==
    ASSUME NEW S, NEW s \in Seq(S), NEW m \in Nat, m <= Len(s), NEW k \in Nat, k <= Len(s) - m
    PROVE  SubSeq(SubSeq(s, m + 1, Len(s)), k + 1, Len(s) - m) = SubSeq(s, m + k + 1, Len(s))
<1> DEFINE n == Len(s)
           t == SubSeq(s, m + 1, n)
           u == SubSeq(t, k + 1, n - m)
           j == m + k
           v == SubSeq(s, j + 1, n)
<1>1. n \in Nat /\ n - m \in Nat
  BY LenProperties
<1>2. t \in Seq(S) /\ Len(t) = n - m /\ \A i \in 1 .. n - m : t[i] = s[m + i]
  BY Suffixes
<1>3. j \in Nat /\ j <= n /\ n - m - k = n - j
  <2> HIDE DEF t, u, v
  <2>1. n \in Nat /\ m \in Nat /\ k \in Nat /\ k <= n - m
    BY <1>1
  <2> HIDE DEF n
  <2> QED BY <2>1
<1> HIDE DEF t
<1>4. u \in Seq(S) /\ Len(u) = n - m - k /\ \A i \in 1 .. n - m - k : u[i] = t[k + i]
  BY SMTT(30), <1>1, <1>2, Suffixes
<1> HIDE DEF u, j
<1>5. v \in Seq(S) /\ Len(v) = n - j /\ \A i \in 1 .. n - j : v[i] = s[j + i]
  BY <1>3, Suffixes
<1> HIDE DEF v, n
<1>6. ASSUME NEW i \in 1 .. n - j PROVE u[i] = v[i]
  <2>1. i \in 1 .. n - m - k /\ k + i \in 1 .. n - m /\ m + (k + i) = j + i
    BY <1>1, <1>3 DEF j
  <2>2. u[i] = s[m + (k + i)]
    BY <1>2, <1>4, <2>1
  <2> QED
    BY <1>5, <2>1, <2>2
<1>7. u = v
  BY <1>3, <1>4, <1>5, <1>6, SeqEqual
<1> QED
  BY <1>7 DEF j, n, t, u, v

\* SlicesOfSlices: a part of a part is a part of the whole.
LEMMA SlicesOfSlices ==
    ASSUME NEW S, NEW s \in Seq(S), NEW m \in Nat \ {0}, NEW n \in Nat, m <= n, n <= Len(s),
           NEW i \in Nat \ {0}, NEW j \in Nat, j <= n - m + 1
    PROVE  SubSeq(SubSeq(s, m, n), i, j) = SubSeq(s, m + i - 1, m + j - 1)
<1> DEFINE t == SubSeq(s, m, n)
           u == SubSeq(t, i, j)
           v == SubSeq(s, m + i - 1, m + j - 1)
<1>1. /\ t \in Seq(S) /\ Len(t) = n - m + 1 /\ Len(s) \in Nat
      /\ \A k \in 1 .. n - m + 1 : t[k] = s[m + k - 1]
  BY Slices, LenProperties
<1>2. /\ m + i - 1 \in Nat \ {0} /\ m + j - 1 \in Nat /\ m + j - 1 <= Len(s)
      /\ (m + j - 1) - (m + i - 1) + 1 = j - i + 1
      /\ (m + i - 1 <= m + j - 1) <=> i <= j
  BY <1>1
<1> HIDE DEF t
<1>3. /\ u \in Seq(S) /\ Len(u) = IF i <= j THEN j - i + 1 ELSE 0
      /\ \A k \in 1 .. j - i + 1 : u[k] = t[i + k - 1]
  BY <1>1, Slices
<1>4. /\ v \in Seq(S) /\ Len(v) = IF i <= j THEN j - i + 1 ELSE 0
      /\ \A k \in 1 .. j - i + 1 : v[k] = s[m + i - 1 + k - 1]
  BY <1>2, Slices
<1>5. ASSUME NEW k \in 1 .. Len(u) PROVE u[k] = v[k]
  <2>1. k \in 1 .. j - i + 1 /\ i + k - 1 \in 1 .. n - m + 1
    BY <1>3
  <2>2. u[k] = s[m + (i + k - 1) - 1]
    BY <1>1, <1>3, <2>1
  <2>3. m + (i + k - 1) - 1 = m + i - 1 + k - 1
    BY <2>1
  <2> QED
    BY <1>4, <2>1, <2>2, <2>3
<1>6. u = v
  <2> HIDE DEF u, v
  <2> QED
    BY <1>3, <1>4, <1>5, SeqEqual
<1> QED
  BY <1>6 DEF t

-----------------------------------------------------------------------------
\* BufferIsRest: so each place in the buffer is a place in the stream.
LEMMA BufferIsRest ==
    ASSUME TypeOK, Buffered
    PROVE  /\ Len(buffer) = Len(stream) - base /\ DOMAIN buffer = 1 .. Len(stream) - base
           /\ \A i \in 1 .. Len(stream) - base : buffer[i] = stream[base + i]
<1>1. stream \in Seq(Bytes) /\ base \in Nat /\ base <= Len(stream)
  BY DEF TypeOK, Buffered
<1>2. /\ buffer \in Seq(Bytes) /\ Len(buffer) = Len(stream) - base
      /\ \A i \in 1 .. Len(stream) - base : buffer[i] = stream[base + i]
  BY <1>1, Suffixes DEF Buffered
<1>3. DOMAIN buffer = 1 .. Len(stream) - base
  BY <1>2, LenProperties
<1> QED
  BY <1>2, <1>3

\* RestOfStream: what push looks at is the stream from the first start marker
\* on that is still in the buffer.
LEMMA RestOfStream ==
    ASSUME TypeOK, Buffered, HasStart
    PROVE  /\ Gone \in Nat /\ base <= Gone /\ Gone < Len(stream) /\ Len(stream) \in Nat
           /\ Rest = SubSeq(stream, Gone + 1, Len(stream))
           /\ Rest \in Seq(Bytes) /\ Len(Rest) = Len(stream) - Gone
           /\ Rest[1] = Start /\ stream[Gone + 1] = Start
           /\ \A i \in base + 1 .. Gone : stream[i] # Start
<1> DEFINE n == Len(stream)
<1>1. stream \in Seq(Bytes) /\ base \in Nat /\ n \in Nat /\ base <= n
  BY LenProperties DEF TypeOK, Buffered
<1>2. /\ buffer \in Seq(Bytes) /\ Len(buffer) = n - base /\ DOMAIN buffer = 1 .. n - base
      /\ \A i \in 1 .. n - base : buffer[i] = stream[base + i]
  BY BufferIsRest DEF TypeOK
<1>3. \E i \in 1 .. n - base : buffer[i] = Start /\ \A j \in 1 .. i - 1 : buffer[j] # Start
  <2> DEFINE P == {i \in 1 .. n - base : buffer[i] = Start}
  <2>1. PICK i \in P : TRUE
    BY <1>2 DEF HasStart
  <2>2. P \subseteq Nat
    OBVIOUS
  <2>3. \E k \in P : \A j \in P : k <= j
    BY <1>1, <2>1, <2>2, LeastElement
  <2>4. PICK k \in P : \A j \in P : k <= j
    BY <2>3
  <2>5. k \in 1 .. n - base /\ buffer[k] = Start
    OBVIOUS
  <2>6. ASSUME NEW j \in 1 .. k - 1 PROVE buffer[j] # Start
    <3>1. j \in 1 .. n - base /\ ~(k <= j)
      BY <1>1, <2>5
    <3>2. j \notin P
      BY <2>4, <3>1
    <3> QED
      BY <3>1, <3>2
  <2> QED
    BY <2>5, <2>6
<1>4. /\ FirstStart \in 1 .. n - base /\ buffer[FirstStart] = Start
      /\ \A j \in 1 .. FirstStart - 1 : buffer[j] # Start
  BY <1>2, <1>3 DEF FirstStart
<1>5. Gone = base + FirstStart - 1 /\ Gone \in Nat /\ base <= Gone /\ Gone < n
  BY <1>1, <1>4 DEF Gone
<1>6. Rest = SubSeq(stream, Gone + 1, n)
  <2>1. SubSeq(SubSeq(stream, base + 1, n), FirstStart, n - base)
          = SubSeq(stream, base + 1 + FirstStart - 1, base + 1 + (n - base) - 1)
    <3>1. base + 1 \in Nat \ {0} /\ base + 1 <= n /\ n <= Len(stream) /\ FirstStart \in Nat \ {0}
          /\ n - base \in Nat /\ n - base <= n - (base + 1) + 1
      BY <1>1, <1>4
    <3> QED
      BY <1>1, <3>1, SlicesOfSlices
  <2>2. base + 1 + FirstStart - 1 = Gone + 1 /\ base + 1 + (n - base) - 1 = n
    BY <1>1, <1>4, <1>5
  <2> QED
    BY <1>2, <2>1, <2>2 DEF Rest, Buffered
<1>7. /\ Rest \in Seq(Bytes) /\ Len(Rest) = n - Gone
      /\ Rest[1] = stream[Gone + 1]
  <2>1. Gone + 1 \in Nat \ {0} /\ Gone + 1 <= n /\ n - (Gone + 1) + 1 = n - Gone
        /\ 1 \in 1 .. n - (Gone + 1) + 1 /\ Gone + 1 + 1 - 1 = Gone + 1
    BY <1>1, <1>5
  <2> QED
    BY <1>1, <1>6, <2>1, Slices
<1>8. stream[Gone + 1] = Start
  BY <1>1, <1>2, <1>4, <1>5
<1>9. ASSUME NEW i \in base + 1 .. Gone PROVE stream[i] # Start
  <2>1. i - base \in 1 .. FirstStart - 1 /\ i - base \in 1 .. n - base /\ base + (i - base) = i
    BY <1>1, <1>4, <1>5
  <2> QED
    BY <1>2, <1>4, <2>1
<1> QED
  BY <1>1, <1>5, <1>6, <1>7, <1>8, <1>9

\* TotalInRest: a packet that is accepted lies in what push looks at.
LEMMA TotalInRest ==
    ASSUME NEW p \in Seq(Bytes), Verdict(p) = "accept"
    PROVE  /\ Total(p) \in Nat /\ 1 + Header < Total(p) /\ Total(p) <= Len(p) /\ Len(p) \in Nat
           /\ Plausible(p) /\ p[Total(p)] = End
<1>1. Len(p) \in Nat /\ ~(Len(p) < 1 + Header) /\ Plausible(p) /\ ~(Len(p) < Total(p)) /\ p[Total(p)] = End
  BY LenProperties DEF Verdict
<1>2. Total(p) \in 1 + Header + 1 .. MaxPacket /\ Header \in Nat /\ MaxPacket \in Nat
  BY <1>1, SdmAssumption DEF Plausible
<1> QED
  BY <1>1, <1>2

-----------------------------------------------------------------------------
\* FrameFacts: a packet that was handed out takes the place it is said to take.
LEMMA FrameFacts ==
    ASSUME TypeOK, Verified, NEW i \in DOMAIN frames
    PROVE  /\ i \in Nat \ {0} /\ frames[i] \in Frame
           /\ frames[i].at \in Nat \ {0} /\ frames[i].packet \in Seq(Bytes)
           /\ Len(frames[i].packet) \in Nat /\ Len(frames[i].packet) >= 1 + Header
           /\ Last(frames[i]) \in Nat /\ frames[i].at <= Last(frames[i])
<1>1. frames \in Seq(Frame) /\ i \in 1 .. Len(frames) /\ Len(frames) \in Nat
  BY LenProperties DEF TypeOK, Frame
<1>2. frames[i] \in Frame
  BY <1>1, ElementOfSeq
<1>3. frames[i].at \in Nat \ {0} /\ frames[i].packet \in Seq(Bytes)
  BY <1>2 DEF Frame
<1>4. Len(frames[i].packet) \in Nat
  BY <1>3, LenProperties
<1>5. Len(frames[i].packet) >= 1 + Header /\ Header \in Nat
  BY SdmAssumption DEF Verified
<1> QED
  BY <1>1, <1>2, <1>3, <1>4, <1>5 DEF Last

\* FramesKept: what does not touch the frames, nor the stream before `base`,
\* leaves them slices of it.
LEMMA FramesKept ==
    ASSUME TypeOK, Verified, Sliced, frames' = frames, base' \in Nat, base <= base',
           \A m \in Nat \ {0}, n \in Nat :
               m <= n /\ n <= base => SubSeq(stream', m, n) = SubSeq(stream, m, n)
    PROVE  Verified' /\ Sliced'
<1>1. Verified'
  BY DEF Verified
<1>2. base \in Nat
  BY DEF TypeOK
<1>3. ASSUME NEW i \in DOMAIN frames
      PROVE  /\ Last(frames[i]) <= base'
             /\ frames[i].packet = SubSeq(stream', frames[i].at, Last(frames[i]))
             /\ frames[i].packet[1] = Start /\ frames[i].packet[Len(frames[i].packet)] = End
             /\ Len(frames[i].packet) = Total(frames[i].packet)
             /\ \A j \in 1 .. i - 1 : Last(frames[j]) < frames[i].at
  <2>1. /\ Last(frames[i]) <= base
        /\ frames[i].packet = SubSeq(stream, frames[i].at, Last(frames[i]))
        /\ frames[i].packet[1] = Start /\ frames[i].packet[Len(frames[i].packet)] = End
        /\ Len(frames[i].packet) = Total(frames[i].packet)
        /\ \A j \in 1 .. i - 1 : Last(frames[j]) < frames[i].at
    BY DEF Sliced
  <2>2. /\ frames[i].at \in Nat \ {0} /\ Last(frames[i]) \in Nat
        /\ frames[i].at <= Last(frames[i])
    BY FrameFacts
  <2>3. SubSeq(stream', frames[i].at, Last(frames[i])) = SubSeq(stream, frames[i].at, Last(frames[i]))
    BY <2>1, <2>2
  <2>4. Last(frames[i]) <= base'
    BY <1>2, <2>1, <2>2
  <2> QED
    BY <2>1, <2>3, <2>4
<1>4. Sliced'
  BY <1>3 DEF Sliced, Last
<1> QED
  BY <1>1, <1>4

-----------------------------------------------------------------------------
\* InitInv: a decoder begins in the invariant.
LEMMA InitInv == Init => IInv
<1> SUFFICES ASSUME Init PROVE IInv
  OBVIOUS
<1>1. Len(<<>>) = 0 /\ <<>> \in Seq(Bytes) /\ <<>> \in Seq(Frame) /\ DOMAIN <<>> = {}
  BY EmptySeq, LenProperties
<1>2. TypeOK
  BY <1>1 DEF Init, TypeOK, Frame
<1>3. Buffered
  <2>1. SubSeq(<<>>, 1, 0) = <<>>
    BY SubSeqEmpty
  <2> QED
    BY <1>1, <2>1 DEF Init, Buffered
<1>4. Settled
  BY DEF Init, Settled
<1>5. Verified /\ Sliced
  BY <1>1 DEF Init, Verified, Sliced
<1>6. EveryStartAccounted
  BY DEF Init, EveryStartAccounted
<1> QED
  BY <1>2, <1>3, <1>4, <1>5, <1>6 DEF IInv

\* PushInv: the bytes of a read join the stream and the buffer alike.
LEMMA PushInv ==
    ASSUME IInv, NEW data \in Seq(Bytes), PushData(data)
    PROVE  IInv'
<1> DEFINE n == Len(stream)
           d == Len(data)
<1>1. /\ stream' = stream \o data /\ buffer' = buffer \o data /\ busy' = TRUE
      /\ base' = base /\ frames' = frames /\ reports' = reports
  BY DEF PushData
<1>2. /\ TypeOK /\ stream \in Seq(Bytes) /\ buffer \in Seq(Bytes) /\ base \in Nat
      /\ n \in Nat /\ d \in Nat /\ base <= n
  BY LenProperties DEF IInv, TypeOK, Buffered
<1>3. /\ stream \o data \in Seq(Bytes) /\ buffer \o data \in Seq(Bytes)
      /\ Len(stream \o data) = n + d
      /\ \A i \in 1 .. n + d : (stream \o data)[i] = IF i <= n THEN stream[i] ELSE data[i - n]
      /\ Len(buffer \o data) = Len(buffer) + d
      /\ \A i \in 1 .. Len(buffer) + d :
             (buffer \o data)[i] = IF i <= Len(buffer) THEN buffer[i] ELSE data[i - Len(buffer)]
  BY <1>2, ConcatProperties
<1>4. TypeOK'
  BY <1>1, <1>2, <1>3 DEF TypeOK
<1>5. Len(buffer) = n - base /\ \A i \in 1 .. n - base : buffer[i] = stream[base + i]
  BY BufferIsRest, <1>2 DEF IInv
<1>6. Buffered'
  <2> DEFINE s == stream \o data
             b == buffer \o data
             u == SubSeq(s, base + 1, n + d)
  <2>1. n + d \in Nat /\ base <= n + d /\ n - base + d = n + d - base
    BY <1>2
  <2>2. /\ u \in Seq(Bytes) /\ Len(u) = n + d - base
        /\ \A i \in 1 .. n + d - base : u[i] = s[base + i]
    BY <1>2, <1>3, <2>1, Suffixes
  <2>4. b \in Seq(Bytes) /\ Len(b) = n + d - base
    BY <1>3, <1>5, <2>1
  <2>5. ASSUME NEW i \in 1 .. n + d - base PROVE u[i] = b[i]
    <3>1. /\ base + i \in 1 .. n + d /\ i \in 1 .. n - base + d
          /\ (base + i <= n) <=> (i <= n - base)
          /\ base + i - n = i - (n - base)
      BY <1>2, <2>1
    <3>2. u[i] = s[base + i]
      BY <2>2, <3>1
    <3>3. CASE i <= n - base
      <4>1. i \in 1 .. n - base
        BY <3>3
      <4>2. s[base + i] = stream[base + i]
        BY <1>3, <3>1, <3>3
      <4>3. b[i] = buffer[i]
        BY <1>3, <1>5, <3>1, <3>3
      <4> QED
        BY <1>5, <3>2, <4>1, <4>2, <4>3
    <3>4. CASE ~(i <= n - base)
      <4>1. ~(base + i <= n)
        BY <3>1, <3>4
      <4>2. s[base + i] = data[base + i - n]
        BY <1>2, <1>3, <3>1, <4>1
      <4>3. b[i] = data[i - (n - base)]
        BY <1>3, <1>5, <3>1, <3>4
      <4> QED
        BY <3>1, <3>2, <4>2, <4>3
    <3> QED
      BY <3>3, <3>4
  <2>6. b = u
    <3> HIDE DEF b, u
    <3> QED
      BY <2>2, <2>4, <2>5, SeqEqual
  <2> QED
    BY <1>1, <1>3, <2>1, <2>6 DEF Buffered
<1>7. Settled'
  BY <1>1 DEF Settled
<1>8. Verified' /\ Sliced'
  <2>1. ASSUME NEW m \in Nat \ {0}, NEW k \in Nat, m <= k /\ k <= base
        PROVE  SubSeq(stream', m, k) = SubSeq(stream, m, k)
    <3>1. m \in 1 .. n /\ k \in 1 .. n
      BY <1>2, <2>1
    <3> QED
      BY <1>1, <1>2, <3>1, SubSeqOfConcat1
  <2>2. base' \in Nat /\ base <= base'
    BY <1>1, <1>2
  <2> QED
    BY <1>1, <2>1, <2>2, FramesKept DEF IInv
<1>9. EveryStartAccounted'
  <2>1. ASSUME NEW i \in 1 .. base PROVE stream'[i] = stream[i]
    BY <1>1, <1>2, <1>3
  <2> QED
    BY <1>1, <2>1 DEF IInv, EveryStartAccounted, Last
<1> QED
  BY <1>4, <1>6, <1>7, <1>8, <1>9 DEF IInv

\* QuietTurn: a turn that hands out nothing keeps the frames.
LEMMA QuietTurn ==
    ASSUME IInv, stream' = stream, frames' = frames, base' \in Nat, base <= base'
    PROVE  Verified' /\ Sliced'
BY FramesKept DEF IInv

\* ClearInv: what is thrown away holds no start marker.
LEMMA ClearInv == ASSUME IInv, Clear PROVE IInv'
<1> DEFINE n == Len(stream)
<1>1. /\ TypeOK /\ Buffered /\ base \in Nat /\ n \in Nat /\ base <= n /\ stream \in Seq(Bytes)
      /\ Len(buffer) = n - base /\ DOMAIN buffer = 1 .. n - base
      /\ \A i \in 1 .. n - base : buffer[i] = stream[base + i]
  BY BufferIsRest, LenProperties DEF IInv, TypeOK, Buffered
<1>2. /\ buffer' = <<>> /\ base' = n /\ busy' = FALSE /\ ~HasStart
      /\ stream' = stream /\ frames' = frames /\ reports' = reports
  BY <1>1 DEF Clear
<1>3. TypeOK'
  BY <1>1, <1>2, EmptySeq DEF TypeOK
<1>4. Buffered'
  <2>1. SubSeq(stream, n + 1, n) = <<>>
    BY <1>1, SubSeqEmpty
  <2> QED
    BY <1>1, <1>2, <2>1 DEF Buffered
<1>5. Settled'
  BY <1>2 DEF Settled
<1>6. Verified' /\ Sliced'
  BY <1>1, <1>2, QuietTurn
<1>7. EveryStartAccounted'
  <2>1. ASSUME NEW i \in 1 .. n, stream[i] = Start PROVE i \in 1 .. base
    <3>1. CASE i > base
      <4>1. i - base \in 1 .. n - base /\ base + (i - base) = i
        BY <1>1, <3>1
      <4>2. buffer[i - base] = Start /\ i - base \in DOMAIN buffer
        BY <1>1, <2>1, <4>1
      <4> QED
        BY <1>2, <4>2 DEF HasStart
    <3> QED
      BY <1>1, <3>1
  <2> QED
    BY <1>2, <2>1 DEF IInv, EveryStartAccounted, Last
<1> QED
  BY <1>3, <1>4, <1>5, <1>6, <1>7 DEF IInv

\* PassedOver: a start marker up to the first one in the buffer has been
\* accounted for, or is that one.
LEMMA PassedOver ==
    ASSUME IInv, HasStart, NEW i \in 1 .. Gone, stream[i] = Start
    PROVE  i \in 1 .. base
<1>1. /\ Gone \in Nat /\ base <= Gone /\ base \in Nat
      /\ \A k \in base + 1 .. Gone : stream[k] # Start
  BY RestOfStream DEF IInv, TypeOK
<1> QED
  BY <1>1

\* AwaitInv: what may still be a packet stays.
LEMMA AwaitInv == ASSUME IInv, AwaitMore PROVE IInv'
<1>1. /\ HasStart /\ Verdict(Rest) = "await" /\ buffer' = Rest /\ base' = Gone /\ busy' = FALSE
      /\ stream' = stream /\ frames' = frames /\ reports' = reports
  BY DEF AwaitMore
<1>2. /\ Gone \in Nat /\ base <= Gone /\ Gone < Len(stream) /\ Len(stream) \in Nat
      /\ Rest = SubSeq(stream, Gone + 1, Len(stream))
      /\ Rest \in Seq(Bytes) /\ Rest[1] = Start
  BY <1>1, RestOfStream DEF IInv
<1>3. TypeOK'
  BY <1>1, <1>2 DEF IInv, TypeOK
<1>4. Buffered'
  BY <1>1, <1>2 DEF Buffered
<1>5. Settled'
  BY <1>1, <1>2 DEF Settled, Verdict, Plausible, Total, length1, length2
<1>6. Verified' /\ Sliced'
  BY <1>1, <1>2, QuietTurn
<1>7. EveryStartAccounted'
  BY <1>1, PassedOver DEF IInv, EveryStartAccounted, Last
<1> QED
  BY <1>3, <1>4, <1>5, <1>6, <1>7 DEF IInv

\* RejectInv: the marker that is dropped is reported.
LEMMA RejectInv == ASSUME IInv, Reject PROVE IInv'
<1> DEFINE n == Len(stream)
<1>1. /\ HasStart /\ buffer' = Tail(Rest) /\ base' = Gone + 1 /\ busy' = busy /\ busy
      /\ stream' = stream /\ frames' = frames /\ reports' = reports \cup {Gone + 1}
  BY DEF Reject
<1>2. /\ Gone \in Nat /\ base <= Gone /\ Gone < n /\ n \in Nat /\ base \in Nat
      /\ Rest = SubSeq(stream, Gone + 1, n)
      /\ Rest \in Seq(Bytes) /\ Len(Rest) = n - Gone /\ stream \in Seq(Bytes)
  BY <1>1, RestOfStream DEF IInv, TypeOK
<1>3. /\ Tail(Rest) \in Seq(Bytes) /\ Tail(Rest) = SubSeq(Rest, 2, Len(Rest))
  <2>1. Len(Rest) # 0
    BY <1>2
  <2>2. Rest # <<>>
    BY <2>1
  <2> QED
    BY <1>2, <2>2, HeadTailProperties, TailIsSubSeq
<1>4. TypeOK'
  BY <1>1, <1>2, <1>3 DEF IInv, TypeOK
<1>5. Buffered'
  <2>1. SubSeq(Rest, 1 + 1, n - Gone) = SubSeq(stream, Gone + 1 + 1, n)
    BY <1>2, SuffixOfSuffix
  <2>2. 1 + 1 = 2 /\ Gone + 1 <= n
    BY <1>2
  <2> QED
    BY <1>1, <1>2, <1>3, <2>1, <2>2 DEF Buffered
<1>6. Settled'
  BY <1>1 DEF Settled
<1>7. Verified' /\ Sliced'
  BY <1>1, <1>2, QuietTurn
<1>8. EveryStartAccounted'
  <2>1. ASSUME NEW i \in 1 .. Gone + 1, stream[i] = Start
        PROVE  i \in reports' \/ i \in 1 .. base
    BY <1>1, <1>2, <2>1, PassedOver
  <2> QED
    BY <1>1, <2>1 DEF IInv, EveryStartAccounted, Last
<1> QED
  BY <1>4, <1>5, <1>6, <1>7, <1>8 DEF IInv

\* Accepted: the packet that is handed out.
LEMMA Accepted ==
    ASSUME IInv, HasStart, Verdict(Rest) = "accept"
    PROVE  LET T == Total(Rest)
               q == SubSeq(Rest, 1, T)
           IN  /\ T \in Nat /\ 1 + Header < T /\ Gone + T <= Len(stream)
               /\ q \in Seq(Bytes) /\ Len(q) = T /\ q = SubSeq(stream, Gone + 1, Gone + T)
               /\ q[1] = Start /\ q[T] = End /\ Plausible(q) /\ Total(q) = T
               /\ SubSeq(Rest, T + 1, Len(Rest)) = SubSeq(stream, Gone + T + 1, Len(stream))
<1> DEFINE n == Len(stream)
           T == Total(Rest)
           q == SubSeq(Rest, 1, T)
<1>1. /\ Gone \in Nat /\ Gone < n /\ n \in Nat
      /\ Rest = SubSeq(stream, Gone + 1, n) /\ stream \in Seq(Bytes)
      /\ Rest \in Seq(Bytes) /\ Len(Rest) = n - Gone /\ Rest[1] = Start
  BY RestOfStream DEF IInv, TypeOK
<1>2. /\ T \in Nat /\ 1 + Header < T /\ T <= n - Gone /\ Plausible(Rest) /\ Rest[T] = End
      /\ Header \in Nat /\ Header >= 2
  BY <1>1, TotalInRest, SdmAssumption
<1> HIDE DEF T
<1>3. /\ q \in Seq(Bytes) /\ Len(q) = T /\ \A i \in 1 .. T : q[i] = Rest[i]
  <2>1. /\ 1 \in Nat \ {0} /\ 1 <= T /\ T <= Len(Rest) /\ T - 1 + 1 = T
        /\ \A i \in 1 .. T : 1 + i - 1 = i
    BY <1>1, <1>2
  <2>2. /\ q \in Seq(Bytes) /\ Len(q) = IF 1 <= T THEN T - 1 + 1 ELSE 0
        /\ \A i \in 1 .. T - 1 + 1 : q[i] = Rest[1 + i - 1]
    BY <1>1, <1>2, <2>1, Slices
  <2> HIDE DEF q
  <2> QED
    BY <2>1, <2>2
<1>4. q[1] = Start /\ q[2] = Rest[2] /\ q[3] = Rest[3] /\ q[T] = End
  <2>1. 1 \in 1 .. T /\ 2 \in 1 .. T /\ 3 \in 1 .. T /\ T \in 1 .. T
    BY <1>2
  <2> HIDE DEF q
  <2> QED
    BY <1>1, <1>2, <1>3, <2>1
<1>5. Plausible(q) /\ Total(q) = T
  <2>1. length1(q) = length1(Rest) /\ length2(q) = length2(Rest)
    BY <1>4 DEF length1, length2
  <2> HIDE DEF q
  <2> QED
    BY <1>2, <2>1 DEF Plausible, Total, T
<1>6. q = SubSeq(stream, Gone + 1, Gone + T)
  <2>1. /\ Gone + 1 \in Nat \ {0} /\ Gone + 1 <= n /\ n <= Len(stream)
        /\ 1 \in Nat \ {0} /\ T <= n - (Gone + 1) + 1
        /\ Gone + 1 + 1 - 1 = Gone + 1 /\ Gone + 1 + T - 1 = Gone + T
    BY <1>1, <1>2
  <2>2. SubSeq(SubSeq(stream, Gone + 1, n), 1, T) = SubSeq(stream, Gone + 1 + 1 - 1, Gone + 1 + T - 1)
    BY <1>1, <1>2, <2>1, SlicesOfSlices
  <2> QED
    BY <1>1, <2>1, <2>2
<1>7. SubSeq(Rest, T + 1, n - Gone) = SubSeq(stream, Gone + T + 1, n)
  BY <1>1, <1>2, SuffixOfSuffix
<1>8. Gone + T <= n
  BY <1>1, <1>2
<1> QED
  BY <1>1, <1>2, <1>3, <1>4, <1>5, <1>6, <1>7, <1>8 DEF T

\* AcceptInv: the packet joins the frames, behind all others.
LEMMA AcceptInv == ASSUME IInv, Accept PROVE IInv'
<1> DEFINE n == Len(stream)
           T == Total(Rest)
           q == SubSeq(Rest, 1, T)
           f == [at |-> Gone + 1, packet |-> q]
           k == Len(frames)
<1>1. /\ busy /\ HasStart /\ Verdict(Rest) = "accept"
      /\ frames' = Append(frames, f)
      /\ buffer' = SubSeq(Rest, T + 1, Len(Rest)) /\ base' = Gone + T
      /\ stream' = stream /\ busy' = busy /\ reports' = reports
  BY DEF Accept
<1>2. /\ Gone \in Nat /\ base <= Gone /\ base \in Nat /\ n \in Nat
  BY <1>1, RestOfStream DEF IInv, TypeOK
<1>3. /\ T \in Nat /\ 1 + Header < T /\ Gone + T <= n /\ Header \in Nat
      /\ q \in Seq(Bytes) /\ Len(q) = T /\ q = SubSeq(stream, Gone + 1, Gone + T)
      /\ q[1] = Start /\ q[T] = End /\ Plausible(q) /\ Total(q) = T
      /\ buffer' = SubSeq(stream, Gone + T + 1, n)
  BY <1>1, Accepted, SdmAssumption
<1> HIDE DEF n, T, q
<1>4. /\ f \in Frame /\ Last(f) = Gone + T /\ f.at = Gone + 1 /\ f.packet = q
  <2>1. Gone + 1 \in Nat \ {0} /\ Gone + 1 + T - 1 = Gone + T
    BY <1>2, <1>3
  <2>2. f.at = Gone + 1 /\ f.packet = q
    OBVIOUS
  <2>3. f \in Frame
    BY <1>3, <2>1 DEF Frame
  <2>4. Last(f) = Gone + T
    BY <1>3, <2>1, <2>2, Zenon DEF Last
  <2> QED
    BY <2>2, <2>3, <2>4
<1> HIDE DEF f
<1>5. /\ frames' \in Seq(Frame) /\ k \in Nat /\ Len(frames') = k + 1
      /\ DOMAIN frames = 1 .. k /\ DOMAIN frames' = 1 .. k + 1
      /\ frames'[k + 1] = f /\ \A i \in 1 .. k : frames'[i] = frames[i]
  <2>1. frames \in Seq(Frame)
    BY DEF IInv, TypeOK, Frame
  <2> QED
    BY <1>1, <1>4, <2>1, AppendProperties, LenProperties
<1> HIDE DEF k
<1>6. TypeOK'
  <2>1. buffer' \in Seq(Bytes)
    BY <1>2, <1>3, Suffixes DEF IInv, TypeOK, n
  <2> QED
    BY <1>1, <1>2, <1>3, <1>5, <2>1 DEF IInv, TypeOK, Frame
<1>7. Buffered'
  BY <1>1, <1>3 DEF Buffered, n
<1>8. Settled'
  BY <1>1 DEF Settled
<1>9. Verified'
  <2>1. ASSUME NEW i \in 1 .. k + 1
        PROVE  Len(frames'[i].packet) >= 1 + Header /\ Plausible(frames'[i].packet)
    <3>1. CASE i \in 1 .. k
      BY <1>5, <3>1 DEF IInv, Verified
    <3>2. CASE i = k + 1
      <4>1. frames'[i].packet = q
        BY <1>4, <1>5, <3>2
      <4>2. Len(q) >= 1 + Header
        BY <1>3
      <4> QED
        BY <1>3, <4>1, <4>2
    <3> QED
      BY <1>5, <3>1, <3>2
  <2> QED
    BY <1>5, <2>1 DEF Verified
<1>10. Sliced'
  <2>1. ASSUME NEW i \in 1 .. k
        PROVE  /\ Last(frames[i]) <= base
               /\ Last(frames[i]) <= Gone + T /\ Last(frames[i]) < Gone + 1
               /\ frames[i].packet = SubSeq(stream, frames[i].at, Last(frames[i]))
               /\ frames[i].packet[1] = Start /\ frames[i].packet[Len(frames[i].packet)] = End
               /\ Len(frames[i].packet) = Total(frames[i].packet)
               /\ \A j \in 1 .. i - 1 : Last(frames[j]) < frames[i].at
    <3>1. i \in DOMAIN frames
      BY <1>5
    <3>2. Last(frames[i]) \in Nat
      BY <3>1, FrameFacts DEF IInv
    <3>3. /\ Last(frames[i]) <= base
          /\ frames[i].packet = SubSeq(stream, frames[i].at, Last(frames[i]))
          /\ frames[i].packet[1] = Start /\ frames[i].packet[Len(frames[i].packet)] = End
          /\ Len(frames[i].packet) = Total(frames[i].packet)
          /\ \A j \in 1 .. i - 1 : Last(frames[j]) < frames[i].at
      BY <3>1 DEF IInv, Sliced
    <3>4. Last(frames[i]) <= Gone + T /\ Last(frames[i]) < Gone + 1
      BY <1>2, <1>3, <3>2, <3>3
    <3> QED
      BY <3>3, <3>4
  <2>2. ASSUME NEW i \in 1 .. k + 1
        PROVE  /\ Last(frames'[i]) <= Gone + T
               /\ frames'[i].packet = SubSeq(stream, frames'[i].at, Last(frames'[i]))
               /\ frames'[i].packet[1] = Start
               /\ frames'[i].packet[Len(frames'[i].packet)] = End
               /\ Len(frames'[i].packet) = Total(frames'[i].packet)
               /\ \A j \in 1 .. i - 1 : Last(frames'[j]) < frames'[i].at
    <3>1. CASE i \in 1 .. k
      <4>1. frames'[i] = frames[i] /\ \A j \in 1 .. i - 1 : frames'[j] = frames[j]
        BY <1>5, <3>1
      <4> QED
        BY <2>1, <3>1, <4>1
    <3>2. CASE i = k + 1
      <4>1. frames'[i] = f /\ \A j \in 1 .. i - 1 : j \in 1 .. k /\ frames'[j] = frames[j]
        BY <1>5, <3>2
      <4>2. \A j \in 1 .. i - 1 : Last(frames'[j]) < Gone + 1
        BY <2>1, <4>1
      <4>3. Last(f) <= Gone + T
        BY <1>2, <1>3, <1>4
      <4> QED
        BY <1>3, <1>4, <4>1, <4>2, <4>3
    <3> QED
      BY <1>5, <3>1, <3>2
  <2> QED
    BY <1>1, <1>5, <2>2 DEF Sliced, Last
<1>11. EveryStartAccounted'
  <2>1. ASSUME NEW i \in 1 .. Gone + T, stream[i] = Start
        PROVE  i \in reports \/ \E j \in 1 .. k + 1 : i \in frames'[j].at .. Last(frames'[j])
    <3>1. CASE i <= Gone
      <4>1. i \in 1 .. base
        BY <1>1, <1>2, <2>1, <3>1, PassedOver
      <4>2. i \in reports \/ \E j \in 1 .. k : i \in frames[j].at .. Last(frames[j])
        BY <1>5, <2>1, <4>1 DEF IInv, EveryStartAccounted
      <4>3. ASSUME NEW j \in 1 .. k, i \in frames[j].at .. Last(frames[j])
            PROVE  j \in 1 .. k + 1 /\ i \in frames'[j].at .. Last(frames'[j])
        BY <1>5, <4>3
      <4> QED
        BY <4>2, <4>3
    <3>2. CASE ~(i <= Gone)
      <4>1. i \in Gone + 1 .. Gone + T
        BY <1>2, <1>3, <3>2
      <4> QED
        BY <1>4, <1>5, <4>1
    <3> QED
      BY <3>1, <3>2
  <2> QED
    BY <1>1, <1>5, <2>1 DEF EveryStartAccounted, Last
<1> QED
  BY <1>6, <1>7, <1>8, <1>9, <1>10, <1>11 DEF IInv

LEMMA NextInv == IInv /\ [Next]_vars => IInv'
<1> SUFFICES ASSUME IInv, [Next]_vars PROVE IInv'
  OBVIOUS
<1>1. CASE Read
  <2>1. PICK n \in 1 .. MaxStream - Len(stream) : \E data \in [1 .. n -> Bytes] : PushData(data)
    BY <1>1 DEF Read
  <2>2. Len(stream) \in Nat /\ MaxStream \in Nat
    BY LenProperties, SdmAssumption DEF IInv, TypeOK
  <2>3. n \in Nat
    BY <2>2
  <2>4. PICK data \in [1 .. n -> Bytes] : PushData(data)
    BY <2>1
  <2>5. data \in Seq(Bytes)
    BY <2>3
  <2> QED
    BY <2>4, <2>5, PushInv
<1>2. CASE Clear
  BY <1>2, ClearInv
<1>3. CASE AwaitMore
  BY <1>3, AwaitInv
<1>4. CASE Reject
  BY <1>4, RejectInv
<1>5. CASE Accept
  BY <1>5, AcceptInv
<1>6. CASE UNCHANGED vars
  <2>1. /\ stream' = stream /\ buffer' = buffer /\ base' = base /\ busy' = busy
        /\ frames' = frames /\ reports' = reports
    BY <1>6 DEF vars
  <2>2. TypeOK' /\ Buffered' /\ Verified' /\ Sliced' /\ EveryStartAccounted'
    BY <2>1 DEF IInv, TypeOK, Buffered, Verified, Sliced, EveryStartAccounted, Last
  <2>3. Settled'
    BY <2>1 DEF IInv, Settled, Verdict, Plausible, Total, length1, length2
  <2> QED
    BY <2>2, <2>3 DEF IInv
<1> QED
  BY <1>1, <1>2, <1>3, <1>4, <1>5, <1>6 DEF Next, Turn

-----------------------------------------------------------------------------
\* The inductive invariant of the decoder.
THEOREM Invariance == Spec => []IInv
<1> QED
  BY InitInv, NextInv, PTL DEF Spec

\* The decoder and the books kept on it have their types.
THEOREM TypeCorrect == Spec => []TypeOK
<1>1. IInv => TypeOK
  BY DEF IInv
<1> QED
  BY <1>1, Invariance, PTL

\* SdmDecoder hands out disjoint slices of the stream, in order, from a Start
\* to an End, for every stream and every division of it into reads.
THEOREM FramesAreSlices == Spec => []Sliced
<1>1. IInv => Sliced
  BY DEF IInv
<1> QED
  BY <1>1, Invariance, PTL

\* No start marker leaves the decoder's buffer unreported, unless it was part
\* of a packet that was handed out.
THEOREM NoStartIsLost == Spec => []EveryStartAccounted
<1>1. IInv => EveryStartAccounted
  BY DEF IInv
<1> QED
  BY <1>1, Invariance, PTL

\* AwaitsLess: what waits for more bytes is shorter than the largest packet.
LEMMA AwaitsLess ==
    ASSUME NEW p \in Seq(Bytes), Verdict(p) = "await"
    PROVE  Len(p) < Lesser(MaxField + 2, MaxPacket)
<1>1. /\ Len(p) \in Nat /\ Header \in Nat /\ MaxField \in Nat /\ MaxPacket \in Nat
      /\ Header <= MaxField /\ Header + 2 <= MaxPacket
  BY LenProperties, SdmAssumption
<1>2. CASE Len(p) < 1 + Header
  BY <1>1, <1>2 DEF Lesser
<1>3. CASE ~(Len(p) < 1 + Header)
  <2>1. Plausible(p) /\ Len(p) < Total(p)
    BY <1>3 DEF Verdict
  <2>2. 2 \in 1 .. Len(p)
    BY <1>1, <1>3, SdmAssumption
  <2>3. length1(p) \in 0 .. MaxField
    BY <2>2, ElementOfSeq, SdmAssumption DEF length1
  <2>4. Total(p) \in Nat /\ Total(p) <= MaxField + 2 /\ Total(p) <= MaxPacket
    BY <1>1, <2>1, <2>3 DEF Total, Plausible
  <2> QED
    BY <1>1, <2>1, <2>4 DEF Lesser
<1> QED
  BY <1>2, <1>3

\* Between two reads the decoder holds less than one packet, whatever garbage
\* it was sent: its memory is bounded for streams of any length.
THEOREM MemoryIsBounded == Spec => []HoldsLessThanAPacket
<1>1. IInv => HoldsLessThanAPacket
  <2> SUFFICES ASSUME IInv, ~busy PROVE Len(buffer) < Lesser(MaxField + 2, MaxPacket)
    BY DEF HoldsLessThanAPacket
  <2>1. CASE buffer = <<>>
    BY <2>1, SdmAssumption DEF Lesser
  <2>2. CASE Verdict(buffer) = "await"
    BY <2>2, AwaitsLess DEF IInv, TypeOK
  <2> QED
    BY <2>1, <2>2 DEF IInv, Settled
<1> QED
  BY <1>1, Invariance, PTL

\* Piece: n elements of a sequence behind its first m.
LEMMA Piece ==
    ASSUME NEW S, NEW s \in Seq(S), NEW m \in Nat, NEW n \in Nat, m + n <= Len(s)
    PROVE  /\ SubSeq(s, m + 1, m + n) \in Seq(S) /\ Len(SubSeq(s, m + 1, m + n)) = n
           /\ \A i \in 1 .. n : SubSeq(s, m + 1, m + n)[i] = s[m + i]
<1> DEFINE k == m + 1
           j == m + n
           t == SubSeq(s, k, j)
<1>1. k \in Nat \ {0} /\ j \in Nat /\ j <= Len(s) /\ j - k + 1 = n /\ (k <= j \/ n = 0)
  OBVIOUS
<1>2. ASSUME NEW i \in 1 .. n PROVE k + i - 1 = m + i
  OBVIOUS
<1> HIDE DEF k, j
<1>3. /\ t \in Seq(S) /\ Len(t) = IF k <= j THEN j - k + 1 ELSE 0
      /\ \A i \in 1 .. j - k + 1 : t[i] = s[k + i - 1]
  BY <1>1, Slices
<1> HIDE DEF t
<1>4. Len(t) = n
  BY <1>1, <1>3
<1>5. \A i \in 1 .. n : t[i] = s[m + i]
  BY <1>1, <1>2, <1>3
<1> QED
  BY <1>3, <1>4, <1>5 DEF k, j, t

\* Joined: the elements of two sequences end to end.
LEMMA Joined ==
    ASSUME NEW S, NEW s \in Seq(S), NEW t \in Seq(S)
    PROVE  /\ s \o t \in Seq(S) /\ Len(s \o t) = Len(s) + Len(t)
           /\ \A i \in 1 .. Len(s) : (s \o t)[i] = s[i]
           /\ \A i \in 1 .. Len(t) : (s \o t)[Len(s) + i] = t[i]
<1>1. /\ s \o t \in Seq(S) /\ Len(s \o t) = Len(s) + Len(t)
      /\ \A i \in 1 .. Len(s) + Len(t) : (s \o t)[i] = IF i <= Len(s) THEN s[i] ELSE t[i - Len(s)]
  BY ConcatProperties
<1>2. Len(s) \in Nat /\ Len(t) \in Nat
  BY LenProperties
<1>3. ASSUME NEW i \in 1 .. Len(t) PROVE (s \o t)[Len(s) + i] = t[i]
  <2>1. /\ Len(s) + i \in 1 .. Len(s) + Len(t) /\ ~(Len(s) + i <= Len(s))
        /\ Len(s) + i - Len(s) = i
    BY <1>2
  <2> QED
    BY <1>1, <2>1
<1>4. ASSUME NEW i \in 1 .. Len(s) PROVE (s \o t)[i] = s[i]
  BY <1>1, <1>2
<1> QED
  BY <1>1, <1>3, <1>4

\* BytesAreNumbers: a sequence of bytes is one of numbers up to MaxField.
LEMMA BytesAreNumbers ==
    ASSUME NEW p \in Seq(Bytes)
    PROVE  p \in Seq(Nat) /\ \A i \in 1 .. Len(p) : p[i] \in 0 .. MaxField
<1>1. Len(p) \in Nat /\ p \in [1 .. Len(p) -> Bytes] /\ Bytes \subseteq 0 .. MaxField /\ MaxField \in Nat
  BY LenProperties, SdmAssumption
<1>2. \A i \in 1 .. Len(p) : p[i] \in 0 .. MaxField
  BY <1>1
<1>3. Bytes \subseteq Nat
  BY <1>1
<1>4. p \in Seq(Nat)
  BY <1>3, SeqMonotonic, Zenon
<1> QED
  BY <1>2, <1>4

\* Made: generate_packet from the parts of any sequence: it takes the room of
\* the sequence, computes the lengths for it and copies the rest, but for the
\* places that it fills with 0.
LEMMA Made ==
    ASSUME NEW p \in Seq(Bytes), Len(p) >= Header + 2
    PROVE  LET q == GeneratePacket(SubSeq(p, 4, Header + 1), SubSeq(p, Header + 2, Len(p) - 1))
           IN  /\ q \in Seq(Nat) /\ Len(q) = Len(p)
               /\ q[1] = Start /\ q[2] = Len(p) - 2 /\ q[3] = Len(p) - 2 - Gap /\ q[Len(p)] = End
               /\ \A i \in 4 .. Len(p) - 1 : i \notin Zeroed => q[i] = p[i]
<1> DEFINE T == Len(p)
           h == Header - 2
           k == Header + 1
           d == T - Header - 2
           given == SubSeq(p, 3 + 1, 3 + h)
           others == Blanked(given)
           payload == SubSeq(p, k + 1, k + d)
           l2 == (Header - Gap) + Len(payload)
           l1 == l2 + Gap
           a == <<Start, l1, l2>>
           z == <<End>>
           ao == a \o others
           aop == ao \o payload
           q == aop \o z
<1>1. /\ Header \in Nat /\ Header >= 2 /\ Gap \in Nat /\ Gap <= Header
      /\ Start \in Nat /\ End \in Nat
  <2>1. Start \in 0 .. MaxField /\ End \in 0 .. MaxField /\ MaxField \in Nat
    BY SdmAssumption
  <2>2. Header \in Nat /\ Header >= 2 /\ Gap \in 0 .. Header
    BY SdmAssumption
  <2> QED
    BY <2>1, <2>2
<1>2. T \in Nat /\ T >= Header + 2 /\ p \in Seq(Nat)
  BY LenProperties, BytesAreNumbers
<1>3. T = k + d + 1 /\ k = 3 + h
      /\ h \in Nat /\ k \in Nat /\ d \in Nat /\ 3 + h <= T /\ k + d <= T
  <2> HIDE DEF T
  <2> QED
    BY <1>1, <1>2
<1> HIDE DEF h, k, d
<1>5. /\ given \in Seq(Nat) /\ Len(given) = h /\ \A i \in 1 .. h : given[i] = p[3 + i]
  BY <1>2, <1>3, Piece
<1> HIDE DEF given
<1>6. /\ others \in Seq(Nat) /\ Len(others) = h
      /\ \A i \in 1 .. h : 3 + i \notin Zeroed => others[i] = p[3 + i]
  <2>1. others = [i \in 1 .. h |-> IF i + 3 \in Zeroed THEN 0 ELSE given[i]]
    BY <1>5, Zenon DEF Blanked
  <2> HIDE DEF others
  <2>2. \A i \in 1 .. h : given[i] \in Nat
    BY <1>3, <1>5
  <2>3. \A i \in 1 .. h : others[i] \in Nat /\ (3 + i \notin Zeroed => others[i] = p[3 + i])
    <3> SUFFICES ASSUME NEW i \in 1 .. h
                 PROVE  others[i] \in Nat /\ (3 + i \notin Zeroed => others[i] = p[3 + i])
      OBVIOUS
    <3>1. i + 3 = 3 + i
      BY <1>3
    <3>2. others[i] = IF i + 3 \in Zeroed THEN 0 ELSE given[i]
      BY <2>1
    <3> QED
      BY <1>5, <2>2, <3>1, <3>2
  <2> QED
    BY <1>3, <2>1, <2>3
<1>7. /\ payload \in Seq(Nat) /\ Len(payload) = d /\ \A i \in 1 .. d : payload[i] = p[k + i]
  BY <1>2, <1>3, Piece
<1>8. l2 = T - 2 - Gap /\ l1 = T - 2 /\ l2 \in Nat /\ l1 \in Nat
  <2> HIDE DEF T, payload
  <2>1. Len(payload) = T - Header - 2
    BY <1>7 DEF d
  <2>2. /\ (Header - Gap) + (T - Header - 2) = T - 2 - Gap /\ T - 2 - Gap + Gap = T - 2
        /\ T - 2 - Gap \in Nat /\ T - 2 \in Nat
    BY <1>1, <1>2, <1>3
  <2>3. l2 = T - 2 - Gap
    BY <2>1, <2>2, Zenon
  <2>4. l1 = T - 2
    BY <2>2, <2>3, Zenon
  <2> HIDE DEF l1, l2
  <2> QED
    BY <2>2, <2>3, <2>4
<1> HIDE DEF others, payload, l1, l2, T
<1>9. a \in Seq(Nat) /\ Len(a) = 3 /\ a[1] = Start /\ a[2] = l1 /\ a[3] = l2
  BY <1>1, <1>8
<1>10. z \in Seq(Nat) /\ Len(z) = 1 /\ z[1] = End
  BY <1>1
<1> HIDE DEF a, z
<1>11. /\ ao \in Seq(Nat) /\ Len(ao) = k
       /\ \A i \in 1 .. 3 : ao[i] = a[i]
       /\ \A i \in 1 .. h : ao[3 + i] = others[i]
  <2>1. a \in Seq(Nat) /\ others \in Seq(Nat)
    BY <1>6, <1>9
  <2>2. /\ ao \in Seq(Nat) /\ Len(ao) = Len(a) + Len(others)
        /\ \A i \in 1 .. Len(a) : ao[i] = a[i]
        /\ \A i \in 1 .. Len(others) : ao[Len(a) + i] = others[i]
    BY <2>1, Joined
  <2> HIDE DEF ao
  <2> QED
    BY <1>3, <1>6, <1>9, <2>2
<1> HIDE DEF ao
<1>12. /\ aop \in Seq(Nat) /\ Len(aop) = k + d
       /\ \A i \in 1 .. k : aop[i] = ao[i]
       /\ \A i \in 1 .. d : aop[k + i] = payload[i]
  <2>1. ao \in Seq(Nat) /\ payload \in Seq(Nat)
    BY <1>7, <1>11
  <2>2. /\ aop \in Seq(Nat) /\ Len(aop) = Len(ao) + Len(payload)
        /\ \A i \in 1 .. Len(ao) : aop[i] = ao[i]
        /\ \A i \in 1 .. Len(payload) : aop[Len(ao) + i] = payload[i]
    BY <2>1, Joined
  <2> HIDE DEF aop
  <2> QED
    BY <1>7, <1>11, <2>2
<1> HIDE DEF aop
<1>13. /\ q \in Seq(Nat) /\ Len(q) = T
       /\ \A i \in 1 .. k + d : q[i] = aop[i]
       /\ q[k + d + 1] = z[1]
  <2>1. aop \in Seq(Nat) /\ z \in Seq(Nat)
    BY <1>10, <1>12
  <2>2. /\ q \in Seq(Nat) /\ Len(q) = Len(aop) + Len(z)
        /\ \A i \in 1 .. Len(aop) : q[i] = aop[i]
        /\ \A i \in 1 .. Len(z) : q[Len(aop) + i] = z[i]
    BY <2>1, Joined
  <2> HIDE DEF q
  <2> QED
    BY <1>3, <1>10, <1>12, <2>2
<1> HIDE DEF q
<1>14. ASSUME NEW i \in 1 .. 3 PROVE q[i] = a[i]
  <2>1. i \in 1 .. k /\ i \in 1 .. k + d
    BY <1>3
  <2> QED
    BY <1>11, <1>12, <1>13, <2>1
<1>15. ASSUME NEW i \in 4 .. T - 1, i \notin Zeroed PROVE q[i] = p[i]
  <2>1. CASE i <= k
    <3>1. i - 3 \in 1 .. h /\ 3 + (i - 3) = i /\ i \in 1 .. k /\ i \in 1 .. k + d
      BY <1>2, <1>3, <2>1
    <3>2. ao[3 + (i - 3)] = p[3 + (i - 3)]
      BY <1>6, <1>11, <1>15, <3>1
    <3> QED
      BY <1>12, <1>13, <3>1, <3>2
  <2>2. CASE ~(i <= k)
    <3>1. i - k \in 1 .. d /\ k + (i - k) = i /\ i \in 1 .. k + d
      BY <1>2, <1>3, <2>2
    <3>2. aop[k + (i - k)] = p[k + (i - k)]
      BY <1>7, <1>12, <3>1
    <3> QED
      BY <1>13, <3>1, <3>2
  <2> QED
    BY <2>1, <2>2
<1>16. q[T] = End
  BY <1>3, <1>10, <1>13
<1>17. q[1] = Start /\ q[2] = T - 2 /\ q[3] = T - 2 - Gap
  BY <1>8, <1>9, <1>14
<1>18. q = GeneratePacket(SubSeq(p, 4, Header + 1), SubSeq(p, Header + 2, T - 1))
  <2>1. 3 + 1 = 4 /\ 3 + h = Header + 1 /\ k + 1 = Header + 2 /\ k + d = T - 1
    BY <1>1, <1>2, <1>3 DEF h, k, d
  <2>2. SubSeq(p, 4, Header + 1) = given /\ SubSeq(p, Header + 2, T - 1) = payload
    BY <2>1, Zenon DEF given, payload
  <2> QED
    BY <2>2, Zenon DEF q, aop, ao, a, z, l1, l2, others, GeneratePacket
<1> QED
  BY <1>13, <1>15, <1>16, <1>17, <1>18 DEF T

\* Generated: generate_packet from the header and the payload of a packet: the
\* same bytes, but that the second length is computed anew and some are 0.
LEMMA Generated ==
    ASSUME NEW p \in Seq(Bytes), Plausible(p), Len(p) = Total(p), p[1] = Start, p[Len(p)] = End
    PROVE  LET q == GeneratePacket(SubSeq(p, 4, Header + 1), SubSeq(p, Header + 2, Len(p) - 1))
           IN  /\ q \in Seq(Nat) /\ Len(q) = Len(p) /\ 3 \in 1 .. Len(p) /\ length1(p) = Len(p) - 2
               /\ q[3] = Len(p) - 2 - Gap
               /\ \A i \in 1 .. Len(p) : i # 3 /\ i \notin Zeroed => q[i] = p[i]
<1> DEFINE T == Len(p)
           q == GeneratePacket(SubSeq(p, 4, Header + 1), SubSeq(p, Header + 2, T - 1))
<1>1. T \in Nat /\ T \in 1 + Header + 1 .. MaxPacket /\ Header \in Nat /\ Header >= 2 /\ MaxPacket \in Nat
  BY LenProperties, SdmAssumption DEF Plausible
<1>2. T = p[2] + 2 /\ T >= Header + 2 /\ 2 \in 1 .. T /\ 3 \in 1 .. T
  <2>1. T = p[2] + 2
    BY DEF Total, length1
  <2> HIDE DEF T
  <2> QED
    BY <1>1, <2>1
<1>3. p[2] \in 0 .. MaxField /\ MaxField \in Nat
  BY <1>2, BytesAreNumbers, SdmAssumption
<1>4. /\ q \in Seq(Nat) /\ Len(q) = T
      /\ q[1] = Start /\ q[2] = T - 2 /\ q[3] = T - 2 - Gap /\ q[T] = End
      /\ \A i \in 4 .. T - 1 : i \notin Zeroed => q[i] = p[i]
  BY <1>2, Made
<1>5. p[1] = Start /\ p[T] = End
  OBVIOUS
<1> HIDE DEF T, q
<1>6. p[2] = T - 2
  BY <1>1, <1>2, <1>3
<1>7. ASSUME NEW i \in 1 .. T, i # 3, i \notin Zeroed PROVE q[i] = p[i]
  <2>1. i = 1 \/ i = 2 \/ i = T \/ i \in 4 .. T - 1
    BY <1>1, <1>7
  <2> QED
    BY <1>4, <1>5, <1>6, <1>7, <2>1
<1> QED
  BY <1>2, <1>4, <1>6, <1>7 DEF T, q, length1

\* Every packet that is handed out is what generate_packet makes of its header
\* and payload in every byte but zero and stamp, and length2 where length2 + 3
\* exceeds the range of a length.
THEOREM PacketsAreClean == Spec => []OnlyCleanPackets
<1>1. IInv => OnlyCleanPackets
  <2> SUFFICES ASSUME IInv, NEW i \in DOMAIN frames
               PROVE  LET p == frames[i].packet
                          q == GeneratePacket(SubSeq(p, 4, Header + 1), SubSeq(p, Header + 2, Len(p) - 1))
                      IN  /\ Len(p) = Len(q)
                          /\ \A x \in DOMAIN p : \/ p[x] = q[x]
                                                 \/ x \in Zeroed
                                                 \/ x = 3 /\ length2(p) + Gap > MaxField
    BY DEF OnlyCleanPackets
  <2> DEFINE p == frames[i].packet
             q == GeneratePacket(SubSeq(p, 4, Header + 1), SubSeq(p, Header + 2, Len(p) - 1))
  <2>1. /\ p \in Seq(Bytes) /\ Plausible(p) /\ Len(p) = Total(p) /\ p[1] = Start /\ p[Len(p)] = End
    BY FrameFacts DEF IInv, Verified, Sliced
  <2> HIDE DEF p
  <2>2. /\ Len(q) = Len(p) /\ 3 \in 1 .. Len(p) /\ length1(p) = Len(p) - 2
        /\ q[3] = Len(p) - 2 - Gap
        /\ \A j \in 1 .. Len(p) : j # 3 /\ j \notin Zeroed => q[j] = p[j]
    BY <2>1, Generated
  <2> HIDE DEF q
  <2>3. /\ DOMAIN p = 1 .. Len(p) /\ length2(p) \in Nat /\ length2(p) = p[3] /\ Gap \in Nat
        /\ MaxField \in Nat /\ Len(p) \in Nat /\ length1(p) \in Nat
    <3>1. 2 \in 1 .. Len(p)
      BY <2>2
    <3>2. p \in Seq(Nat) /\ p[2] \in 0 .. MaxField /\ p[3] \in 0 .. MaxField
      BY <2>1, <2>2, <3>1, BytesAreNumbers
    <3> QED
      BY <2>1, <3>2, LenProperties, SdmAssumption DEF length1, length2
  <2>4. length1(p) = Lesser(length2(p) + Gap, MaxField)
    BY <2>1 DEF Plausible, SaturatingAdd
  <2>5. q[3] = p[3] \/ length2(p) + Gap > MaxField
    BY SMTT(30), <2>2, <2>3, <2>4 DEF Lesser
  <2>6. \A x \in DOMAIN p : p[x] = q[x] \/ x \in Zeroed \/ (x = 3 /\ length2(p) + Gap > MaxField)
    BY <2>2, <2>3, <2>5
  <2> QED
    BY <2>2, <2>6 DEF p, q
<1> QED
  BY <1>1, Invariance, PTL
-----------------------------------------------------------------------------
\* Reported: a marker is reported for good reason, and is not in a packet.
Reported ==
    \A i \in reports :
        /\ i \in 1 .. base
        /\ \E n \in i .. Len(stream) : Verdict(SubSeq(stream, i, n)) = "reject"
        /\ \A k \in DOMAIN frames : ~(frames[k].at <= i /\ i <= Last(frames[k]))

\* VerdictStands: more bytes do not change what has been found.
LEMMA VerdictStands ==
    ASSUME NEW p \in Seq(Bytes), NEW q \in Seq(Bytes), Len(p) <= Len(q),
           \A i \in 1 .. Len(p) : q[i] = p[i], Verdict(p) # "await"
    PROVE  /\ Verdict(q) = Verdict(p) /\ Total(q) = Total(p)
           /\ Verdict(p) \in {"reject", "accept"}
<1>1. /\ Len(p) \in Nat /\ Len(q) \in Nat /\ Header \in Nat /\ Header >= 2 /\ MaxPacket \in Nat
  BY LenProperties, SdmAssumption
<1>2. ~(Len(p) < 1 + Header) /\ ~(Len(q) < 1 + Header) /\ 2 \in 1 .. Len(p) /\ 3 \in 1 .. Len(p)
  BY <1>1 DEF Verdict
<1>3. q[2] = p[2] /\ q[3] = p[3]
  BY <1>2
<1>4. Plausible(q) = Plausible(p) /\ Total(q) = Total(p)
  BY <1>3 DEF Plausible, Total, length1, length2
<1>5. CASE ~Plausible(p)
  BY <1>2, <1>4, <1>5 DEF Verdict
<1>6. CASE Plausible(p)
  <2>1. ~(Len(p) < Total(p))
    BY <1>2, <1>6 DEF Verdict
  <2>2. Total(p) \in 1 + Header + 1 .. MaxPacket
    BY <1>6 DEF Plausible
  <2>3. Total(p) \in 1 .. Len(p) /\ ~(Len(q) < Total(p))
    BY <1>1, <2>1, <2>2
  <2>4. q[Total(p)] = p[Total(p)]
    BY <2>3
  <2>5. Plausible(q)
    BY <1>4, <1>6
  <2>6. /\ Verdict(p) = IF p[Total(p)] # End THEN "reject" ELSE "accept"
        /\ Verdict(q) = IF q[Total(p)] # End THEN "reject" ELSE "accept"
    BY <1>2, <1>4, <1>6, <2>1, <2>3, <2>5 DEF Verdict
  <2> QED
    BY <1>4, <2>4, <2>6
<1> QED
  BY <1>5, <1>6

\* CleanIsAccepted: what generate_packet makes passes the checks of push.
LEMMA CleanIsAccepted ==
    ASSUME NEW p \in Seq(Bytes), Len(p) >= Header + 2, Len(p) <= MaxPacket,
           p = GeneratePacket(SubSeq(p, 4, Header + 1), SubSeq(p, Header + 2, Len(p) - 1))
    PROVE  p[1] = Start /\ Verdict(p) = "accept" /\ Len(p) = p[2] + 2
<1> DEFINE T == Len(p)
<1>1. p[1] = Start /\ p[2] = T - 2 /\ p[3] = T - 2 - Gap /\ p[T] = End
  BY Made
<1>2. /\ T \in Nat /\ T >= Header + 2 /\ T <= MaxPacket /\ Header \in Nat /\ Header >= 2
      /\ MaxPacket \in Nat /\ MaxField \in Nat /\ Gap \in Nat /\ Gap <= Header
  BY LenProperties, SdmAssumption
<1>3. 2 \in 1 .. T
  BY <1>2
<1>4. p[2] \in 0 .. MaxField
  BY <1>3, BytesAreNumbers
<1> HIDE DEF T
<1>5. Total(p) = T /\ length1(p) = T - 2 /\ length2(p) = T - 2 - Gap /\ T - 2 <= MaxField
  BY <1>1, <1>2, <1>4 DEF Total, length1, length2
<1>6. SaturatingAdd(length2(p), Gap) = T - 2
  BY <1>2, <1>5 DEF SaturatingAdd, Lesser
<1>7. Plausible(p)
  BY <1>2, <1>5, <1>6 DEF Plausible
<1>8. ~(T < 1 + Header) /\ ~(T < T)
  BY <1>2
<1>9. Verdict(p) = "accept"
  BY <1>1, <1>5, <1>7, <1>8 DEF Verdict, T
<1> QED
  BY <1>1, <1>2, <1>9 DEF T

\* SliceIsPrefix: of two slices from the same place the shorter begins the longer.
LEMMA SliceIsPrefix ==
    ASSUME NEW s \in Seq(Bytes), NEW i \in Nat \ {0}, NEW m \in Nat, i <= m, m <= Len(s)
    PROVE  /\ SubSeq(s, i, m) \in Seq(Bytes) /\ SubSeq(s, i, Len(s)) \in Seq(Bytes)
           /\ Len(SubSeq(s, i, m)) = m - i + 1
           /\ Len(SubSeq(s, i, m)) <= Len(SubSeq(s, i, Len(s)))
           /\ \A k \in 1 .. m - i + 1 : SubSeq(s, i, m)[k] = s[i + k - 1]
           /\ \A k \in 1 .. Len(SubSeq(s, i, m)) : SubSeq(s, i, Len(s))[k] = SubSeq(s, i, m)[k]
<1>1. Len(s) \in Nat /\ i <= Len(s) /\ Len(s) <= Len(s)
  BY LenProperties
<1>2. /\ SubSeq(s, i, m) \in Seq(Bytes)
      /\ Len(SubSeq(s, i, m)) = IF i <= m THEN m - i + 1 ELSE 0
      /\ \A k \in 1 .. m - i + 1 : SubSeq(s, i, m)[k] = s[i + k - 1]
  BY Slices
<1>3. /\ SubSeq(s, i, Len(s)) \in Seq(Bytes)
      /\ Len(SubSeq(s, i, Len(s))) = IF i <= Len(s) THEN Len(s) - i + 1 ELSE 0
      /\ \A k \in 1 .. Len(s) - i + 1 : SubSeq(s, i, Len(s))[k] = s[i + k - 1]
  BY <1>1, Slices
<1>4. m - i + 1 <= Len(s) - i + 1
  BY <1>1
<1>5. \A k \in 1 .. m - i + 1 : k \in 1 .. Len(s) - i + 1
  BY <1>1, <1>4
<1> QED
  BY <1>1, <1>2, <1>3, <1>4, <1>5

\* ReportedInit, ReportedNext: a marker is reported when it is rejected, and
\* lies behind all packets; packets are handed out behind all reports.
LEMMA ReportedInit == Init => Reported
BY DEF Init, Reported

LEMMA ReportedNext == IInv /\ Reported /\ [Next]_vars => Reported'
<1> SUFFICES ASSUME IInv, Reported, [Next]_vars PROVE Reported'
  OBVIOUS
<1> USE DEF Last
<1>1. /\ stream \in Seq(Bytes) /\ Len(stream) \in Nat /\ base \in Nat /\ base <= Len(stream)
      /\ DOMAIN frames = 1 .. Len(frames) /\ Len(frames) \in Nat
  BY LenProperties DEF IInv, TypeOK, Buffered
<1>2. ASSUME NEW data \in Seq(Bytes), PushData(data) PROVE Reported'
  <2>1. stream' = stream \o data /\ base' = base /\ frames' = frames /\ reports' = reports
    BY <1>2 DEF PushData
  <2>2. Len(stream') = Len(stream) + Len(data) /\ Len(data) \in Nat
    BY <1>1, <2>1, ConcatProperties, LenProperties
  <2>3. ASSUME NEW i \in reports
        PROVE  \E n \in i .. Len(stream') : Verdict(SubSeq(stream', i, n)) = "reject"
    <3>1. PICK n \in i .. Len(stream) : Verdict(SubSeq(stream, i, n)) = "reject"
      BY DEF Reported
    <3>2. i \in 1 .. Len(stream) /\ n \in 1 .. Len(stream) /\ n \in i .. Len(stream')
      BY <1>1, <2>2 DEF Reported
    <3>3. SubSeq(stream', i, n) = SubSeq(stream, i, n)
      BY <1>1, <1>2, <2>1, <3>2, SubSeqOfConcat1
    <3> QED
      BY <3>1, <3>2, <3>3
  <2> QED
    BY <2>1, <2>3 DEF Reported, Verdict, Plausible, Total, length1, length2
<1>3. ASSUME stream' = stream, frames' = frames, reports' = reports, base' \in Nat, base <= base'
      PROVE  Reported'
  <2>1. \A i \in reports : i \in 1 .. base'
    BY <1>1, <1>3 DEF Reported
  <2> QED
    BY <1>3, <2>1 DEF Reported, Verdict, Plausible, Total, length1, length2
<1>4. CASE Read
  <2>1. PICK n \in 1 .. MaxStream - Len(stream) : \E data \in [1 .. n -> Bytes] : PushData(data)
    BY <1>4 DEF Read
  <2>2. MaxStream \in Nat
    BY SdmAssumption
  <2>3. n \in Nat
    BY <1>1, <2>2
  <2>4. PICK data \in [1 .. n -> Bytes] : PushData(data)
    BY <2>1
  <2>5. data \in Seq(Bytes)
    BY <2>3
  <2> QED
    BY <1>2, <2>4, <2>5
<1>5. CASE Clear
  <2>1. base' = base + Len(buffer) /\ Len(buffer) \in Nat
    BY <1>5, LenProperties DEF Clear, IInv, TypeOK
  <2>2. base' \in Nat /\ base <= base'
    BY <1>1, <2>1
  <2>3. stream' = stream /\ frames' = frames /\ reports' = reports
    BY <1>5 DEF Clear
  <2> QED
    BY <1>3, <2>2, <2>3
<1>6. CASE AwaitMore
  <2>1. base' = Gone /\ stream' = stream /\ frames' = frames /\ reports' = reports /\ HasStart
    BY <1>6 DEF AwaitMore
  <2>2. Gone \in Nat /\ base <= Gone
    BY <2>1, RestOfStream DEF IInv
  <2> QED
    BY <1>3, <2>1, <2>2
<1>7. CASE Reject
  <2>1. /\ HasStart /\ Verdict(Rest) = "reject" /\ base' = Gone + 1
        /\ stream' = stream /\ frames' = frames /\ reports' = reports \cup {Gone + 1}
    BY <1>7 DEF Reject
  <2>2. /\ Gone \in Nat /\ base <= Gone /\ Gone < Len(stream)
        /\ Rest = SubSeq(stream, Gone + 1, Len(stream))
    BY <2>1, RestOfStream DEF IInv
  <2>3. \A i \in reports : i \in 1 .. Gone + 1
    BY <1>1, <2>2 DEF Reported
  <2>4. Gone + 1 \in 1 .. Gone + 1 /\ Len(stream) \in Gone + 1 .. Len(stream)
    BY <1>1, <2>2
  <2>5. \E n \in Gone + 1 .. Len(stream) : Verdict(SubSeq(stream, Gone + 1, n)) = "reject"
    BY <2>1, <2>2, <2>4
  <2>6. ASSUME NEW k \in DOMAIN frames PROVE ~(Gone + 1 <= Last(frames[k]))
    <3>1. Last(frames[k]) \in Nat /\ Last(frames[k]) <= base
      BY FrameFacts DEF IInv, Sliced
    <3> HIDE DEF Last
    <3> QED
      BY <1>1, <2>2, <3>1
  <2> QED
    BY ZenonT(60), <2>1, <2>3, <2>4, <2>5, <2>6 DEF Reported, Verdict, Plausible, Total, length1, length2
<1>8. CASE Accept
  <2> DEFINE f == [at |-> Gone + 1, packet |-> SubSeq(Rest, 1, Total(Rest))]
  <2>1. /\ HasStart /\ Verdict(Rest) = "accept" /\ base' = Gone + Total(Rest)
        /\ stream' = stream /\ frames' = Append(frames, f) /\ reports' = reports
    BY <1>8 DEF Accept
  <2>2. /\ Gone \in Nat /\ base <= Gone /\ Total(Rest) \in Nat /\ f.at = Gone + 1
    BY <2>1, RestOfStream, Accepted DEF IInv
  <2>3. \A i \in reports : i \in 1 .. Gone + Total(Rest) /\ ~(f.at <= i)
    BY <1>1, <2>2 DEF Reported
  <2> HIDE DEF f
  <2>4. /\ DOMAIN frames' = 1 .. Len(frames) + 1 /\ frames'[Len(frames) + 1] = f
        /\ \A k \in 1 .. Len(frames) : frames'[k] = frames[k]
    <3>1. frames \in Seq(Frame) /\ f \in Frame
      <4>1. SubSeq(Rest, 1, Total(Rest)) \in Seq(Bytes)
        BY <2>1, Accepted
      <4> QED
        BY <2>2, <4>1 DEF IInv, TypeOK, Frame, f
    <3> QED
      BY <2>1, <3>1, AppendProperties, LenProperties
  <2>5. ASSUME NEW i \in reports, NEW k \in DOMAIN frames'
        PROVE  ~(frames'[k].at <= i /\ i <= Last(frames'[k]))
    <3>1. CASE k \in 1 .. Len(frames)
      BY <1>1, <2>4, <3>1 DEF Reported
    <3>2. CASE k = Len(frames) + 1
      BY <2>3, <2>4, <3>2
    <3> QED
      BY <1>1, <2>4, <3>1, <3>2
  <2> QED
    BY <2>1, <2>3, <2>5 DEF Reported, Verdict, Plausible, Total, length1, length2
<1>9. CASE UNCHANGED vars
  BY <1>1, <1>3, <1>9 DEF vars
<1> QED
  BY <1>4, <1>5, <1>6, <1>7, <1>8, <1>9 DEF Next, Turn

\* LookedFor: a clean packet that is complete, with no other marker between it
\* and a place where the decoder began to look, has been handed out.
LEMMA LookedFor ==
    ASSUME IInv, Reported, ~busy, NEW i \in 1 .. Len(stream), NEW j \in 1 .. Len(stream),
           NEW p, p = SubSeq(stream, i, j),
           Len(p) >= Header + 2, Len(p) <= MaxPacket,
           p = GeneratePacket(SubSeq(p, 4, Header + 1), SubSeq(p, Header + 2, Len(p) - 1)),
           NEW b \in Boundaries, b < i, \A m \in b + 1 .. i - 1 : stream[m] # Start
    PROVE  \E n \in DOMAIN frames : frames[n] = [at |-> i, packet |-> p]
<1> DEFINE n == Len(stream)
           full == SubSeq(stream, i, n)
<1>1. /\ TypeOK /\ stream \in Seq(Bytes) /\ n \in Nat /\ base \in Nat /\ base <= n
      /\ Header \in Nat /\ Header >= 2 /\ i \in Nat \ {0} /\ j \in Nat /\ j <= n /\ i <= n
  BY LenProperties, SdmAssumption DEF IInv, TypeOK, Buffered
<1>2. i <= j
  <2>1. Len(SubSeq(stream, i, j)) = IF i <= j THEN j - i + 1 ELSE 0
    BY <1>1, Slices
  <2> QED
    BY <1>1, <2>1
<1>3. /\ p \in Seq(Bytes) /\ full \in Seq(Bytes) /\ Len(p) = j - i + 1 /\ Len(p) <= Len(full)
      /\ \A k \in 1 .. j - i + 1 : p[k] = stream[i + k - 1]
      /\ \A k \in 1 .. Len(p) : full[k] = p[k]
  BY SMTT(30), <1>1, <1>2, SliceIsPrefix
<1>4. p[1] = Start /\ Verdict(p) = "accept" /\ Len(p) = p[2] + 2
  BY <1>3, CleanIsAccepted
<1>5. Verdict(full) = "accept"
  BY <1>3, <1>4, VerdictStands
<1>6. stream[i] = Start /\ p[2] = stream[i + 1]
  <2>1. 1 \in 1 .. j - i + 1 /\ 2 \in 1 .. j - i + 1 /\ i + 1 - 1 = i /\ i + 2 - 1 = i + 1
    BY <1>1, <1>3
  <2> QED
    BY <1>3, <1>4, <2>1
<1> HIDE DEF n, full
<1>7. ASSUME NEW k \in DOMAIN frames
      PROVE  /\ k \in Nat \ {0} /\ frames[k] \in Frame
             /\ frames[k].at \in Nat \ {0} /\ Last(frames[k]) \in Nat
             /\ frames[k].at <= Last(frames[k]) /\ Last(frames[k]) <= base
             /\ Len(frames[k].packet) = Last(frames[k]) - frames[k].at + 1
             /\ Len(frames[k].packet) = stream[frames[k].at + 1] + 2
             /\ frames[k].packet = SubSeq(stream, frames[k].at, Last(frames[k]))
             /\ stream[frames[k].at] = Start
             /\ \A g \in 1 .. k - 1 : Last(frames[g]) < frames[k].at
  <2> DEFINE f == frames[k]
             z == Last(f)
             q == f.packet
             a == f.at
  <2>1. /\ k \in Nat \ {0} /\ f \in Frame /\ a \in Nat \ {0} /\ q \in Seq(Bytes)
        /\ Len(q) \in Nat /\ Len(q) >= 1 + Header /\ z \in Nat /\ a <= z
    BY FrameFacts DEF IInv
  <2>2. /\ z <= base /\ q = SubSeq(stream, a, z) /\ q[1] = Start /\ Len(q) = Total(q)
        /\ \A g \in 1 .. k - 1 : Last(frames[g]) < a
    BY DEF IInv, Sliced
  <2>3. z = a + Len(q) - 1
    BY DEF Last
  <2>4. Len(q) = q[2] + 2
    BY <2>2 DEF Total, length1
  <2> HIDE DEF f, z, q, a
  <2>5. z <= Len(stream)
    BY <1>1, <2>1, <2>2 DEF n
  <2>6. Len(q) = z - a + 1 /\ \A m \in 1 .. z - a + 1 : q[m] = stream[a + m - 1]
    BY <1>1, <2>1, <2>2, <2>5, SliceIsPrefix
  <2>7. 1 \in 1 .. z - a + 1 /\ 2 \in 1 .. z - a + 1 /\ a + 1 - 1 = a /\ a + 2 - 1 = a + 1
    BY <1>1, <2>1, <2>6
  <2>8. stream[a] = Start /\ q[2] = stream[a + 1]
    BY <2>2, <2>6, <2>7
  <2> QED
    BY <2>1, <2>2, <2>4, <2>6, <2>8 DEF f, z, q, a
<1>8. b \in Nat /\ b <= base
  <2>1. CASE b = 0
    BY <1>1, <2>1
  <2>2. ASSUME NEW k \in DOMAIN frames, b = Last(frames[k]) PROVE b \in Nat /\ b <= base
    BY <1>7, <2>2
  <2>3. CASE b \in reports
    BY <1>1, <2>3 DEF Reported
  <2> QED
    BY <2>1, <2>2, <2>3 DEF Boundaries
<1>9. i \in 1 .. base
  <2> SUFFICES ASSUME ~(i <= base) PROVE FALSE
    BY <1>1
  <2>1. Len(buffer) = n - base /\ \A k \in 1 .. n - base : buffer[k] = stream[base + k]
    BY <1>1, BufferIsRest DEF IInv, n
  <2>2. 1 \in 1 .. n - base
    BY <1>1
  <2>3. buffer # <<>>
    BY <2>1, <2>2
  <2>4. buffer[1] = Start /\ Verdict(buffer) = "await"
    BY <2>3 DEF IInv, Settled
  <2>5. stream[base + 1] = Start
    BY <2>1, <2>2, <2>4
  <2>6. ~(base + 1 \in b + 1 .. i - 1)
    BY <2>5
  <2>7. base + 1 = i
    BY <1>1, <1>8, <2>6
  <2>8. buffer = full
    BY <2>7 DEF IInv, Buffered, full, n
  <2> QED
    BY <1>5, <2>4, <2>8
<1>10. i \notin reports
  <2> SUFFICES ASSUME i \in reports PROVE FALSE
    OBVIOUS
  <2>1. PICK m \in i .. n : Verdict(SubSeq(stream, i, m)) = "reject"
    BY DEF Reported, n
  <2>2. m \in Nat /\ i <= m /\ m <= n
    BY <1>1
  <2>3. /\ SubSeq(stream, i, m) \in Seq(Bytes) /\ Len(SubSeq(stream, i, m)) <= Len(full)
        /\ \A k \in 1 .. Len(SubSeq(stream, i, m)) : full[k] = SubSeq(stream, i, m)[k]
    BY <1>1, <2>2, SliceIsPrefix DEF full, n
  <2>4. Verdict(full) = "reject"
    BY <1>3, <2>1, <2>3, VerdictStands
  <2> QED
    BY <1>5, <2>4
<1>11. PICK k \in DOMAIN frames : i \in frames[k].at .. Last(frames[k])
  BY <1>6, <1>9, <1>10 DEF IInv, EveryStartAccounted
<1>12. frames[k].at = i
  <2> DEFINE a == frames[k].at
             z == Last(frames[k])
  <2> SUFFICES ASSUME a # i PROVE FALSE
    OBVIOUS
  <2>1. a \in Nat \ {0} /\ z \in Nat /\ a < i /\ i <= z /\ stream[a] = Start
    BY <1>1, <1>7, <1>11
  <2>2. a <= b /\ b < z
    <3>1. ~(a \in b + 1 .. i - 1)
      BY <2>1
    <3> HIDE DEF a, z
    <3> QED
      BY <1>1, <1>8, <2>1, <3>1
  <2>3. b # 0
    <3> HIDE DEF a, z
    <3> QED
      BY <1>8, <2>1, <2>2
  <2>4. b \notin reports
    BY <2>1, <2>2, <1>8 DEF Reported
  <2>5. ASSUME NEW g \in DOMAIN frames, b = Last(frames[g]) PROVE FALSE
    <3>1. /\ g \in Nat \ {0} /\ k \in Nat \ {0}
          /\ frames[g].at \in Nat /\ frames[g].at <= Last(frames[g])
          /\ \A h \in 1 .. k - 1 : Last(frames[h]) < a
          /\ \A h \in 1 .. g - 1 : Last(frames[h]) < frames[g].at
      BY <1>7
    <3>2. CASE g = k
      <4>1. b = z
        BY <2>5, <3>2
      <4> HIDE DEF z
      <4> QED
        BY <1>8, <2>2, <4>1
    <3>3. CASE g < k
      <4>1. g \in 1 .. k - 1
        BY <3>1, <3>3
      <4>2. b < a
        BY <2>5, <3>1, <4>1
      <4> QED
        BY <1>8, <2>1, <2>2, <4>2
    <3>4. CASE k < g
      <4>1. k \in 1 .. g - 1
        BY <3>1, <3>4
      <4>2. z < frames[g].at
        BY <3>1, <4>1
      <4> QED
        BY <1>8, <2>1, <2>2, <2>5, <3>1, <4>2
    <3> QED
      BY <3>1, <3>2, <3>3, <3>4
  <2> QED
    BY <2>3, <2>4, <2>5 DEF Boundaries
<1>13. Last(frames[k]) = j
  <2>1. Last(frames[k]) - i + 1 = j - i + 1 /\ Last(frames[k]) \in Nat
    BY <1>3, <1>4, <1>6, <1>7, <1>12
  <2> QED
    BY <1>1, <2>1
<1>14. frames[k].packet = p
  BY <1>7, <1>12, <1>13
<1>15. frames[k] = [at |-> i, packet |-> p]
  BY <1>7, <1>12, <1>14 DEF Frame
<1> QED
  BY <1>15

\* Every clean packet is found: a packet as generate_packet makes it is handed
\* out as soon as it is complete, when no stray marker before it could have
\* taken its place.
THEOREM CleanPacketsAreFound == Spec => []CleanPacketsFound
<1>1. Spec => [](IInv /\ Reported)
  <2>1. Init => IInv /\ Reported
    BY InitInv, ReportedInit
  <2>2. (IInv /\ Reported) /\ [Next]_vars => (IInv /\ Reported)'
    BY NextInv, ReportedNext
  <2> QED
    BY <2>1, <2>2, PTL DEF Spec
<1>2. IInv /\ Reported => CleanPacketsFound
  BY LookedFor DEF CleanPacketsFound
<1> QED
  BY <1>1, <1>2, PTL
-----------------------------------------------------------------------------
\* What AllAtOnce finds from each place of a stream on.  It is defined by
\* recursion from the end of the stream; Scanned shows that there is a function
\* that satisfies the recursion.
Recursion(s, g) == g = [i \in 1 .. Len(s) + 1 |-> FoundFrom(s, i, g)]

FoundIn(s) == CHOOSE g : Recursion(s, g)

Findings == [frames : Seq(Frame), reports : SUBSET Nat, base : Nat]

\* FirstIsFirst: the first marker from place i on.
LEMMA FirstIsFirst ==
    ASSUME NEW s \in Seq(Bytes), NEW i \in Nat \ {0}, Markers(s, i) # {}
    PROVE  /\ FirstMarker(s, i) \in i .. Len(s) /\ s[FirstMarker(s, i)] = Start
           /\ \A k \in i .. FirstMarker(s, i) - 1 : s[k] # Start
<1>1. Len(s) \in Nat /\ Markers(s, i) \subseteq Nat
  BY LenProperties DEF Markers
<1>2. \E j \in Markers(s, i) : \A k \in Markers(s, i) : j <= k
  BY <1>1, LeastElement
<1>3. FirstMarker(s, i) \in Markers(s, i) /\ \A k \in Markers(s, i) : FirstMarker(s, i) <= k
  BY <1>2 DEF FirstMarker
<1>4. FirstMarker(s, i) \in i .. Len(s) /\ s[FirstMarker(s, i)] = Start
  BY <1>3 DEF Markers
<1>5. ASSUME NEW k \in i .. FirstMarker(s, i) - 1 PROVE s[k] # Start
  <2>1. k \in i .. Len(s) /\ ~(FirstMarker(s, i) <= k)
    BY <1>1, <1>4
  <2>2. k \notin Markers(s, i)
    BY <1>3, <2>1
  <2> QED
    BY <2>1, <2>2 DEF Markers
<1> QED
  BY <1>4, <1>5

\* Onwards: the search goes on behind the place where it was.
LEMMA Onwards ==
    ASSUME NEW s \in Seq(Bytes), NEW i \in 1 .. Len(s) + 1, Markers(s, i) # {}
    PROVE  LET j == FirstMarker(s, i)
               p == SubSeq(s, j, Len(s))
           IN  /\ j \in Nat \ {0} /\ p \in Seq(Bytes)
               /\ Verdict(p) \in {"await", "reject", "accept"}
               /\ j + 1 \in i + 1 .. Len(s) + 1
               /\ Verdict(p) = "accept" => /\ Total(p) \in Nat /\ j + Total(p) \in i + 1 .. Len(s) + 1
                                           /\ SubSeq(p, 1, Total(p)) \in Seq(Bytes)
<1> DEFINE j == FirstMarker(s, i)
           p == SubSeq(s, j, Len(s))
<1>1. Len(s) \in Nat /\ i \in Nat \ {0}
  BY LenProperties
<1>2. j \in i .. Len(s)
  BY <1>1, FirstIsFirst
<1> HIDE DEF j
<1>3. j \in Nat \ {0} /\ j <= Len(s) /\ j + 1 \in i + 1 .. Len(s) + 1
  BY <1>1, <1>2
<1>4. p \in Seq(Bytes) /\ Len(p) = Len(s) - j + 1
  BY <1>1, <1>3, SliceIsPrefix
<1> HIDE DEF p
<1>5. Verdict(p) \in {"await", "reject", "accept"}
  BY DEF Verdict
<1>6. ASSUME Verdict(p) = "accept"
      PROVE  /\ Total(p) \in Nat /\ j + Total(p) \in i + 1 .. Len(s) + 1
             /\ SubSeq(p, 1, Total(p)) \in Seq(Bytes)
  <2>1. /\ Total(p) \in Nat /\ 1 + Header < Total(p) /\ Total(p) <= Len(p) /\ Header \in Nat
    BY <1>4, <1>6, TotalInRest, SdmAssumption
  <2>2. 1 \in Nat \ {0}
    OBVIOUS
  <2>3. SubSeq(p, 1, Total(p)) \in Seq(Bytes)
    BY <1>4, <2>1, <2>2, Slices
  <2> QED
    BY <1>1, <1>2, <1>3, <1>4, <2>1, <2>3
<1> QED
  BY <1>3, <1>4, <1>5, <1>6 DEF j, p

\* FoundBehind: what is found from a place on depends on what is found from
\* the places behind it, and on nothing else.
LEMMA FoundBehind ==
    ASSUME NEW s \in Seq(Bytes), NEW i \in 1 .. Len(s) + 1, NEW g, NEW h,
           \A k \in i + 1 .. Len(s) + 1 : g[k] = h[k]
    PROVE  FoundFrom(s, i, g) = FoundFrom(s, i, h)
<1>1. CASE Markers(s, i) = {}
  BY <1>1 DEF FoundFrom
<1>2. CASE Markers(s, i) # {}
  <2> DEFINE j == FirstMarker(s, i)
             p == SubSeq(s, j, Len(s))
  <2>1. /\ Verdict(p) \in {"await", "reject", "accept"}
        /\ j + 1 \in i + 1 .. Len(s) + 1
        /\ Verdict(p) = "accept" => j + Total(p) \in i + 1 .. Len(s) + 1
    BY <1>2, Onwards
  <2>2. /\ g[j + 1] = h[j + 1]
        /\ Verdict(p) = "accept" => g[j + Total(p)] = h[j + Total(p)]
    BY <2>1
  <2> DEFINE F(e) == CASE Verdict(p) = "await"  -> Nothing(j - 1)
                       [] Verdict(p) = "reject" -> [e[j + 1] EXCEPT !.reports = @ \cup {j}]
                       [] Verdict(p) = "accept" ->
                            [e[j + Total(p)] EXCEPT
                                !.frames = <<[at |-> j, packet |-> SubSeq(p, 1, Total(p))]>> \o @]
  <2>3. FoundFrom(s, i, g) = F(g) /\ FoundFrom(s, i, h) = F(h)
    BY <1>2 DEF FoundFrom
  <2> HIDE DEF j, p
  <2>4. F(g) = F(h)
    BY <2>1, <2>2
  <2> QED
    BY <2>3, <2>4
<1> QED
  BY <1>1, <1>2

\* FoundIsFound: it is of the right type if that behind it is.
LEMMA FoundIsFound ==
    ASSUME NEW s \in Seq(Bytes), NEW i \in 1 .. Len(s) + 1, NEW g,
           \A k \in i + 1 .. Len(s) + 1 : g[k] \in Findings
    PROVE  FoundFrom(s, i, g) \in Findings
<1>1. Len(s) \in Nat /\ <<>> \in Seq(Frame)
  BY LenProperties, EmptySeq
<1>2. \A n \in Nat : Nothing(n) \in Findings
  BY <1>1 DEF Nothing, Findings
<1>3. CASE Markers(s, i) = {}
  BY <1>1, <1>2, <1>3 DEF FoundFrom
<1>4. CASE Markers(s, i) # {}
  <2> DEFINE j == FirstMarker(s, i)
             p == SubSeq(s, j, Len(s))
             f == [at |-> j, packet |-> SubSeq(p, 1, Total(p))]
  <2>1. /\ j \in Nat \ {0} /\ Verdict(p) \in {"await", "reject", "accept"}
        /\ j + 1 \in i + 1 .. Len(s) + 1
        /\ Verdict(p) = "accept" => /\ j + Total(p) \in i + 1 .. Len(s) + 1
                                    /\ SubSeq(p, 1, Total(p)) \in Seq(Bytes)
    BY <1>4, Onwards
  <2>2. Verdict(p) = "await" => FoundFrom(s, i, g) = Nothing(j - 1)
    BY <1>4 DEF FoundFrom
  <2>3. Verdict(p) = "reject" => FoundFrom(s, i, g) = [g[j + 1] EXCEPT !.reports = @ \cup {j}]
    BY <1>4 DEF FoundFrom
  <2>4. Verdict(p) = "accept" =>
            FoundFrom(s, i, g) = [g[j + Total(p)] EXCEPT !.frames = <<f>> \o @]
    BY <1>4 DEF FoundFrom
  <2>5. Verdict(p) = "accept" => f \in Frame
    <3> HIDE DEF j, p
    <3> QED
      BY <2>1 DEF Frame
  <2> HIDE DEF j, p, f
  <2>6. j - 1 \in Nat
    BY <2>1
  <2>7. CASE Verdict(p) = "await"
    BY <1>2, <2>2, <2>6, <2>7
  <2>8. CASE Verdict(p) = "reject"
    <3>1. g[j + 1] \in Findings
      BY <2>1
    <3>2. g[j + 1].reports \cup {j} \in SUBSET Nat
      BY <2>1, <3>1 DEF Findings
    <3> QED
      BY <2>3, <2>8, <3>1, <3>2 DEF Findings
  <2>9. CASE Verdict(p) = "accept"
    <3> DEFINE e == g[j + Total(p)]
    <3>1. e \in Findings /\ <<f>> \in Seq(Frame)
      BY <2>1, <2>5, <2>9
    <3>2. <<f>> \o e.frames \in Seq(Frame)
      <4>1. e.frames \in Seq(Frame)
        BY <3>1 DEF Findings
      <4> HIDE DEF e
      <4> QED
        BY <3>1, <4>1, ConcatProperties
    <3>3. FoundFrom(s, i, g) = [e EXCEPT !.frames = <<f>> \o @]
      BY <2>4, <2>9
    <3> HIDE DEF e
    <3> QED
      BY <3>1, <3>2, <3>3 DEF Findings
  <2> QED
    BY <2>1, <2>7, <2>8, <2>9
<1> QED
  BY <1>3, <1>4

\* Scanned: the recursion has a solution, which is what AllAtOnce takes.
LEMMA Scanned ==
    ASSUME NEW s \in Seq(Bytes)
    PROVE  /\ AllAtOnce(s) = FoundIn(s)[1]
           /\ \A i \in 1 .. Len(s) + 1 : /\ FoundIn(s)[i] = FoundFrom(s, i, FoundIn(s))
                                         /\ FoundIn(s)[i] \in Findings
<1> DEFINE n == Len(s)
           P(k) == \E g : /\ g = [i \in 1 .. n + 1 |-> g[i]]
                          /\ \A i \in n + 1 - k .. n + 1 : g[i] = FoundFrom(s, i, g)
           Bad == {k \in 0 .. n : ~P(k)}
<1>1. n \in Nat
  BY LenProperties
<1>2. ASSUME NEW k \in 0 .. n, k > 0 => P(k - 1) PROVE P(k)
  <2>1. PICK g : k > 0 => /\ g = [i \in 1 .. n + 1 |-> g[i]]
                          /\ \A i \in n + 1 - (k - 1) .. n + 1 : g[i] = FoundFrom(s, i, g)
    BY <1>2
  <2> DEFINE m == n + 1 - k
             h == [i \in 1 .. n + 1 |-> IF i = m THEN FoundFrom(s, i, g) ELSE g[i]]
  <2>2. m \in 1 .. n + 1 /\ n + 1 - (k - 1) = m + 1 /\ (~(k > 0) => m = n + 1)
    <3> HIDE DEF n
    <3> QED
      BY <1>1
  <2>3. /\ h[m] = FoundFrom(s, m, g)
        /\ \A i \in m + 1 .. n + 1 : h[i] = g[i] /\ i \in 1 .. n + 1
    <3> HIDE DEF m, n
    <3> QED
      BY <1>1, <2>2
  <2>4. h = [i \in 1 .. n + 1 |-> h[i]]
    OBVIOUS
  <2> HIDE DEF h, m
  <2>5. ASSUME NEW i \in m .. n + 1 PROVE h[i] = FoundFrom(s, i, h)
    <3>1. i \in 1 .. n + 1 /\ \A j \in i + 1 .. n + 1 : j \in m + 1 .. n + 1
      BY <1>1, <2>2
    <3>2. FoundFrom(s, i, g) = FoundFrom(s, i, h)
      BY <2>3, <3>1, FoundBehind
    <3>3. CASE i = m
      BY <2>3, <3>2, <3>3
    <3>4. CASE i # m
      <4>1. i \in m + 1 .. n + 1 /\ k > 0
        BY <1>1, <2>2, <3>4
      <4>2. g[i] = FoundFrom(s, i, g)
        BY <2>1, <2>2, <4>1
      <4> QED
        BY <2>3, <3>2, <4>1, <4>2
    <3> QED
      BY <3>3, <3>4
  <2> QED
    BY <2>4, <2>5 DEF m
<1>3. Bad = {}
  <2> SUFFICES ASSUME Bad # {} PROVE FALSE
    OBVIOUS
  <2> HIDE DEF P
  <2>1. Bad \subseteq Nat
    BY <1>1
  <2>2. PICK k \in Bad : \A j \in Bad : k <= j
    BY <2>1, LeastElement
  <2>3. k \in 0 .. n /\ ~P(k)
    OBVIOUS
  <2>4. ASSUME k > 0 PROVE P(k - 1)
    <3>1. k - 1 \in 0 .. n /\ ~(k <= k - 1)
      <4> HIDE DEF n
      <4> QED
        BY <1>1, <2>3, <2>4
    <3> QED
      BY <2>2, <3>1
  <2> QED
    BY <1>2, <2>3, <2>4
<1>4. \E g : Recursion(s, g)
  <2> HIDE DEF P
  <2>1. n \in 0 .. n
    BY <1>1
  <2>2. P(n)
    BY <1>3, <2>1
  <2>3. PICK g : /\ g = [i \in 1 .. n + 1 |-> g[i]]
                 /\ \A i \in n + 1 - n .. n + 1 : g[i] = FoundFrom(s, i, g)
    BY <2>2 DEF P
  <2>4. n + 1 - n = 1
    BY <1>1
  <2>5. g = [i \in 1 .. n + 1 |-> FoundFrom(s, i, g)]
    BY <2>3, <2>4
  <2> QED
    BY <2>5 DEF Recursion
<1>5. Recursion(s, FoundIn(s))
  BY <1>4 DEF FoundIn
<1>6. \A i \in 1 .. n + 1 : FoundIn(s)[i] = FoundFrom(s, i, FoundIn(s))
  BY <1>5 DEF Recursion
<1>7. \A i \in 1 .. n + 1 : FoundIn(s)[i] \in Findings
  <2> DEFINE Odd == {k \in 0 .. n : FoundIn(s)[n + 1 - k] \notin Findings}
  <2> SUFFICES ASSUME NEW i \in 1 .. n + 1, FoundIn(s)[i] \notin Findings PROVE FALSE
    OBVIOUS
  <2>1. n + 1 - i \in Odd
    <3>1. n + 1 - i \in 0 .. n /\ n + 1 - (n + 1 - i) = i
      <4> HIDE DEF n
      <4> QED
        BY <1>1
    <3> QED
      BY <3>1
  <2>2. Odd \subseteq Nat
    BY <1>1
  <2>3. PICK k \in Odd : \A j \in Odd : k <= j
    BY <2>1, <2>2, LeastElement
  <2>4. k \in 0 .. n /\ FoundIn(s)[n + 1 - k] \notin Findings
    OBVIOUS
  <2> DEFINE m == n + 1 - k
  <2>5. m \in 1 .. n + 1
    <3> HIDE DEF n
    <3> QED
      BY <1>1, <2>4
  <2>6. ASSUME NEW j \in m + 1 .. n + 1 PROVE FoundIn(s)[j] \in Findings
    <3>1. n + 1 - j \in 0 .. n /\ ~(k <= n + 1 - j) /\ n + 1 - (n + 1 - j) = j
      <4> HIDE DEF n
      <4> QED
        BY <1>1, <2>4
    <3>2. n + 1 - j \notin Odd
      BY <2>3, <3>1
    <3> QED
      BY <3>1, <3>2
  <2> HIDE DEF m
  <2>7. FoundFrom(s, m, FoundIn(s)) \in Findings
    BY <2>5, <2>6, FoundIsFound
  <2> QED
    BY <1>6, <2>4, <2>5, <2>7 DEF m
<1>8. AllAtOnce(s) = FoundIn(s)[1]
  BY Zenon DEF AllAtOnce, FoundIn, Recursion
<1> QED
  BY <1>6, <1>7, <1>8

\* And: what has been found so far, and what is found from there on.
And(f, r, x) == [frames |-> f \o x.frames, reports |-> r \cup x.reports, base |-> x.base]

\* OnTrack: whatever bytes are still to come, the whole stream read at once
\* yields what has been found so far and then what is found behind `base`.
OnTrack ==
    \A rest \in Seq(Bytes) :
        FoundIn(stream \o rest)[1] = And(frames, reports, FoundIn(stream \o rest)[base + 1])

\* Lengthened: the stream with what is still to come.
LEMMA Lengthened ==
    ASSUME IInv, NEW rest \in Seq(Bytes)
    PROVE  /\ stream \in Seq(Bytes) /\ stream \o rest \in Seq(Bytes)
           /\ Len(stream) \in Nat /\ Len(stream \o rest) \in Nat /\ Len(stream) <= Len(stream \o rest)
           /\ \A i \in 1 .. Len(stream) : (stream \o rest)[i] = stream[i]
           /\ base \in Nat /\ base <= Len(stream)
           /\ frames \in Seq(Frame) /\ reports \subseteq Nat
<1>1. /\ stream \in Seq(Bytes) /\ base \in Nat /\ base <= Len(stream)
      /\ frames \in Seq(Frame) /\ reports \subseteq Nat
  BY DEF IInv, TypeOK, Buffered, Frame
<1>2. /\ stream \o rest \in Seq(Bytes) /\ Len(stream \o rest) = Len(stream) + Len(rest)
      /\ \A i \in 1 .. Len(stream) : (stream \o rest)[i] = stream[i]
  BY <1>1, Joined
<1>3. Len(stream) \in Nat /\ Len(rest) \in Nat
  BY <1>1, LenProperties
<1> QED
  BY <1>1, <1>2, <1>3

\* PassesOver: bytes that are no markers make no difference.
LEMMA PassesOver ==
    ASSUME NEW s \in Seq(Bytes), NEW i \in 1 .. Len(s) + 1, NEW m \in i .. Len(s) + 1,
           \A k \in i .. m - 1 : s[k] # Start
    PROVE  FoundIn(s)[i] = FoundIn(s)[m]
<1>1. Len(s) \in Nat
  BY LenProperties
<1>2. Markers(s, i) = Markers(s, m)
  <2>1. ASSUME NEW k \in i .. Len(s), s[k] = Start PROVE k \in m .. Len(s)
    <3>1. ~(k \in i .. m - 1)
      BY <2>1
    <3> QED
      BY <1>1, <3>1
  <2>2. \A k \in m .. Len(s) : k \in i .. Len(s)
    BY <1>1
  <2> QED
    BY <2>1, <2>2 DEF Markers
<1>3. FirstMarker(s, i) = FirstMarker(s, m)
  BY <1>2 DEF FirstMarker
<1>4. FoundFrom(s, i, FoundIn(s)) = FoundFrom(s, m, FoundIn(s))
  BY <1>2, <1>3 DEF FoundFrom
<1>5. m \in 1 .. Len(s) + 1
  BY <1>1
<1> QED
  BY <1>4, <1>5, Scanned

\* AtMarker: at a marker the verdict on what follows decides.
LEMMA AtMarker ==
    ASSUME NEW s \in Seq(Bytes), NEW j \in 1 .. Len(s), s[j] = Start
    PROVE  LET p == SubSeq(s, j, Len(s))
               x == FoundIn(s)[j]
           IN  /\ Verdict(p) = "await" => x = Nothing(j - 1)
               /\ Verdict(p) = "reject" => x = [FoundIn(s)[j + 1] EXCEPT !.reports = @ \cup {j}]
               /\ Verdict(p) = "accept" =>
                    x = [FoundIn(s)[j + Total(p)] EXCEPT
                            !.frames = <<[at |-> j, packet |-> SubSeq(p, 1, Total(p))]>> \o @]
<1>1. Len(s) \in Nat
  BY LenProperties
<1>2. j \in Markers(s, j)
  BY <1>1 DEF Markers
<1>3. FirstMarker(s, j) = j
  <2>1. /\ FirstMarker(s, j) \in j .. Len(s)
        /\ \A k \in j .. FirstMarker(s, j) - 1 : s[k] # Start
    BY <1>1, <1>2, FirstIsFirst
  <2>2. ~(j \in j .. FirstMarker(s, j) - 1)
    BY <2>1
  <2> QED
    BY <1>1, <2>1, <2>2
<1>4. FoundIn(s)[j] = FoundFrom(s, j, FoundIn(s))
  BY <1>1, Scanned
<1> QED
  BY <1>2, <1>3, <1>4 DEF FoundFrom

\* Ahead: what push looks at, in the whole stream.
LEMMA Ahead ==
    ASSUME IInv, HasStart, NEW rest \in Seq(Bytes)
    PROVE  LET s == stream \o rest
               p == SubSeq(s, Gone + 1, Len(s))
           IN  /\ FoundIn(s)[base + 1] = FoundIn(s)[Gone + 1]
               /\ Gone + 1 \in 1 .. Len(s) /\ s[Gone + 1] = Start
               /\ Verdict(Rest) # "await" => Verdict(p) = Verdict(Rest) /\ Total(p) = Total(Rest)
               /\ Verdict(Rest) = "accept" => SubSeq(p, 1, Total(p)) = SubSeq(Rest, 1, Total(Rest))
<1> DEFINE s == stream \o rest
           N == Len(s)
           n == Len(stream)
           p == SubSeq(s, Gone + 1, N)
<1>1. /\ stream \in Seq(Bytes) /\ s \in Seq(Bytes) /\ n \in Nat /\ N \in Nat /\ n <= N
      /\ \A i \in 1 .. n : s[i] = stream[i]
      /\ base \in Nat /\ base <= n
  BY Lengthened
<1> HIDE DEF s
<1>2. /\ Gone \in Nat /\ base <= Gone /\ Gone < n
      /\ Rest = SubSeq(stream, Gone + 1, n)
      /\ Rest \in Seq(Bytes) /\ Len(Rest) = n - Gone
      /\ stream[Gone + 1] = Start
      /\ \A i \in base + 1 .. Gone : stream[i] # Start
  BY RestOfStream DEF IInv
<1>3. FoundIn(s)[base + 1] = FoundIn(s)[Gone + 1]
  <2> DEFINE i == base + 1
             m == Gone + 1
  <2>1. /\ i \in 1 .. N + 1 /\ m \in i .. N + 1 /\ m - 1 = Gone
        /\ \A k \in i .. Gone : k \in 1 .. n
    BY <1>1, <1>2
  <2>2. \A k \in i .. m - 1 : s[k] # Start
    BY <1>1, <1>2, <2>1
  <2> HIDE DEF i, m
  <2>3. FoundIn(s)[i] = FoundIn(s)[m]
    BY <1>1, <2>1, <2>2, PassesOver
  <2> QED
    BY <2>3 DEF i, m
<1>4. Gone + 1 \in 1 .. N /\ Gone + 1 \in 1 .. n /\ s[Gone + 1] = Start
  BY <1>1, <1>2
<1>5. p \in Seq(Bytes) /\ Len(p) = N - Gone /\ \A i \in 1 .. N - Gone : p[i] = s[Gone + i]
  <2>1. Gone <= Len(s)
    BY <1>1, <1>2
  <2> QED
    BY <1>1, <1>2, <2>1, Suffixes
<1>6. \A i \in 1 .. n - Gone : Rest[i] = stream[Gone + i]
  <2>1. Gone <= Len(stream)
    BY <1>1, <1>2
  <2>2. \A i \in 1 .. Len(stream) - Gone : SubSeq(stream, Gone + 1, Len(stream))[i] = stream[Gone + i]
    BY <1>1, <1>2, <2>1, Suffixes
  <2> QED
    BY <1>2, <2>2
<1> HIDE DEF p
<1>7. Len(Rest) <= Len(p) /\ \A i \in 1 .. Len(Rest) : p[i] = Rest[i]
  <2>1. n - Gone <= N - Gone
    BY <1>1, <1>2
  <2>2. ASSUME NEW i \in 1 .. n - Gone PROVE p[i] = Rest[i]
    <3>1. i \in 1 .. N - Gone /\ Gone + i \in 1 .. n
      BY <1>1, <1>2
    <3> QED
      BY <1>1, <1>5, <1>6, <3>1
  <2> QED
    BY <1>2, <1>5, <2>1, <2>2
<1>8. Verdict(Rest) # "await" => Verdict(p) = Verdict(Rest) /\ Total(p) = Total(Rest)
  BY <1>2, <1>5, <1>7, VerdictStands
<1>9. ASSUME Verdict(Rest) = "accept"
      PROVE  SubSeq(p, 1, Total(p)) = SubSeq(Rest, 1, Total(Rest))
  <2> DEFINE T == Total(Rest)
             u == SubSeq(p, 1, T)
             v == SubSeq(Rest, 1, T)
  <2>1. T \in Nat /\ T <= Len(Rest) /\ 1 \in Nat \ {0} /\ 1 <= T
    <3>1. T \in Nat /\ T <= Len(Rest) /\ 1 + Header < T
      BY <1>2, <1>9, TotalInRest
    <3> HIDE DEF T
    <3> QED
      BY <3>1, SdmAssumption
  <2>2. T <= Len(p) /\ Len(p) \in Nat /\ Len(Rest) \in Nat
    BY <1>1, <1>2, <1>5, <1>7, <2>1
  <2> HIDE DEF T
  <2>3. /\ u \in Seq(Bytes) /\ Len(u) = IF 1 <= T THEN T - 1 + 1 ELSE 0
        /\ \A i \in 1 .. T - 1 + 1 : u[i] = p[1 + i - 1]
    BY <1>5, <2>1, <2>2, Slices
  <2>4. /\ v \in Seq(Bytes) /\ Len(v) = IF 1 <= T THEN T - 1 + 1 ELSE 0
        /\ \A i \in 1 .. T - 1 + 1 : v[i] = Rest[1 + i - 1]
    BY <1>2, <2>1, <2>2, Slices
  <2> HIDE DEF u, v
  <2>5. ASSUME NEW i \in 1 .. Len(u) PROVE u[i] = v[i]
    <3>1. i \in 1 .. T - 1 + 1 /\ 1 + i - 1 = i /\ i \in 1 .. Len(Rest)
      BY <2>1, <2>2, <2>3
    <3> QED
      BY <1>7, <2>3, <2>4, <3>1
  <2>6. u = v
    BY <2>3, <2>4, <2>5, SeqEqual
  <2>7. Total(p) = T
    BY <1>8, <1>9 DEF T
  <2> QED
    BY <2>6, <2>7 DEF u, v, T
<1> QED
  BY <1>3, <1>4, <1>8, <1>9 DEF s, p

\* TrackInit, TrackNext: the decoder begins on track and stays on it.
LEMMA TrackInit == Init => OnTrack
<1> SUFFICES ASSUME Init, NEW rest \in Seq(Bytes)
             PROVE  FoundIn(stream \o rest)[1]
                      = And(frames, reports, FoundIn(stream \o rest)[base + 1])
  BY DEF OnTrack
<1> DEFINE s == stream \o rest
           x == FoundIn(s)[1]
<1>1. IInv
  BY InitInv
<1>2. s \in Seq(Bytes) /\ Len(s) \in Nat
  BY <1>1, Lengthened
<1> HIDE DEF s
<1>3. x \in Findings
  <2>1. 1 \in 1 .. Len(s) + 1
    BY <1>2
  <2> QED
    BY <1>2, <2>1, Scanned
<1>4. frames = <<>> /\ reports = {} /\ base = 0
  BY DEF Init
<1> HIDE DEF x
<1>5. <<>> \o x.frames = x.frames
  <2>1. x.frames \in Seq(Frame)
    BY <1>3 DEF Findings
  <2> QED
    BY <2>1, ConcatEmptySeq
<1>6. And(frames, reports, x) = x
  BY <1>3, <1>4, <1>5 DEF And, Findings
<1> QED
  BY <1>4, <1>6 DEF s, x

LEMMA TrackNext == IInv /\ OnTrack /\ [Next]_vars => OnTrack'
<1> SUFFICES ASSUME IInv, OnTrack, [Next]_vars, NEW rest \in Seq(Bytes)
             PROVE  FoundIn(stream' \o rest)[1]
                      = And(frames', reports', FoundIn(stream' \o rest)[base' + 1])
  BY Zenon DEF OnTrack, And, FoundIn, Recursion, FoundFrom, Nothing, FirstMarker, Markers,
               Verdict, Plausible, Total, length1, length2, SaturatingAdd, Lesser
<1> DEFINE s == stream \o rest
           n == Len(stream)
<1>1. /\ s \in Seq(Bytes) /\ stream \in Seq(Bytes) /\ n \in Nat /\ Len(s) \in Nat /\ n <= Len(s)
      /\ \A i \in 1 .. n : s[i] = stream[i]
      /\ base \in Nat /\ base <= n /\ frames \in Seq(Frame) /\ reports \subseteq Nat
  BY Lengthened
<1>2. FoundIn(s)[1] = And(frames, reports, FoundIn(s)[base + 1])
  BY DEF OnTrack
<1>3. ASSUME stream' = stream, frames' = frames, reports' = reports,
             FoundIn(s)[base' + 1] = FoundIn(s)[base + 1]
      PROVE  FoundIn(stream' \o rest)[1]
               = And(frames', reports', FoundIn(stream' \o rest)[base' + 1])
  BY <1>2, <1>3
<1>4. ASSUME NEW data \in Seq(Bytes), PushData(data)
      PROVE  FoundIn(stream' \o rest)[1]
               = And(frames', reports', FoundIn(stream' \o rest)[base' + 1])
  <2>1. stream' = stream \o data /\ base' = base /\ frames' = frames /\ reports' = reports
    BY <1>4 DEF PushData
  <2>2. stream' \o rest = stream \o (data \o rest) /\ data \o rest \in Seq(Bytes)
    BY SMTT(30), <1>1, <2>1, ConcatAssociative, ConcatProperties
  <2>3. FoundIn(stream \o (data \o rest))[1]
          = And(frames, reports, FoundIn(stream \o (data \o rest))[base + 1])
    BY <2>2 DEF OnTrack
  <2> QED
    BY <2>1, <2>2, <2>3
<1>5. CASE Read
  <2>1. PICK m \in 1 .. MaxStream - n : \E data \in [1 .. m -> Bytes] : PushData(data)
    BY <1>5 DEF Read
  <2>2. MaxStream \in Nat
    BY SdmAssumption
  <2>3. m \in Nat
    BY <1>1, <2>2
  <2>4. PICK data \in [1 .. m -> Bytes] : PushData(data)
    BY <2>1
  <2>5. data \in Seq(Bytes)
    BY <2>3
  <2> QED
    BY <1>4, <2>4, <2>5
<1>6. CASE Clear
  <2>1. /\ ~HasStart /\ base' = base + Len(buffer)
        /\ stream' = stream /\ frames' = frames /\ reports' = reports
    BY <1>6 DEF Clear
  <2>2. /\ Len(buffer) = n - base /\ DOMAIN buffer = 1 .. n - base
        /\ \A i \in 1 .. n - base : buffer[i] = stream[base + i]
    BY BufferIsRest DEF IInv
  <2>3. base' = n
    BY <1>1, <2>1, <2>2
  <2>4. ASSUME NEW k \in base + 1 .. n + 1 - 1 PROVE s[k] # Start
    <3>1. k - base \in 1 .. n - base /\ base + (k - base) = k /\ k \in 1 .. n
      BY <1>1
    <3>2. buffer[k - base] # Start
      BY <2>1, <2>2, <3>1 DEF HasStart
    <3> QED
      BY <1>1, <2>2, <3>1, <3>2
  <2> DEFINE i == base + 1
             m == n + 1
  <2>5. i \in 1 .. Len(s) + 1 /\ m \in i .. Len(s) + 1 /\ \A k \in i .. m - 1 : s[k] # Start
    BY <1>1, <2>4
  <2>6. FoundIn(s)[i] = FoundIn(s)[m]
    <3> HIDE DEF i, m, s
    <3> QED
      BY <1>1, <2>5, PassesOver
  <2> QED
    BY <1>3, <2>1, <2>3, <2>6
<1>7. CASE AwaitMore
  <2>1. HasStart /\ base' = Gone /\ stream' = stream /\ frames' = frames /\ reports' = reports
    BY <1>7 DEF AwaitMore
  <2>2. FoundIn(s)[base + 1] = FoundIn(s)[Gone + 1]
    BY <2>1, Ahead
  <2> QED
    BY <1>3, <2>1, <2>2
<1>8. CASE Reject
  <2> DEFINE x == FoundIn(s)[Gone + 1]
             y == FoundIn(s)[Gone + 1 + 1]
  <2>1. /\ HasStart /\ Verdict(Rest) = "reject" /\ base' = Gone + 1
        /\ stream' = stream /\ frames' = frames /\ reports' = reports \cup {Gone + 1}
    BY <1>8 DEF Reject
  <2>2. /\ FoundIn(s)[base + 1] = x /\ Gone + 1 \in 1 .. Len(s) /\ s[Gone + 1] = Start
        /\ Verdict(SubSeq(s, Gone + 1, Len(s))) = "reject"
    BY <2>1, Ahead
  <2>3. Gone + 1 + 1 \in 1 .. Len(s) + 1
    BY <1>1, <2>2
  <2>4. y \in Findings
    BY <1>1, <2>3, Scanned
  <2>5. x = [y EXCEPT !.reports = @ \cup {Gone + 1}]
    BY <1>1, <2>2, AtMarker
  <2> HIDE DEF x, y
  <2>6. x.frames = y.frames /\ x.reports = y.reports \cup {Gone + 1} /\ x.base = y.base
    BY <2>4, <2>5 DEF Findings
  <2>7. reports \cup x.reports = (reports \cup {Gone + 1}) \cup y.reports
    BY <2>6
  <2>8. And(frames, reports, x) = And(frames, reports', y)
    BY <2>1, <2>6, <2>7 DEF And
  <2> QED
    BY <1>2, <2>1, <2>2, <2>8 DEF x, y
<1>9. CASE Accept
  <2> DEFINE T == Total(Rest)
             f == [at |-> Gone + 1, packet |-> SubSeq(Rest, 1, T)]
             x == FoundIn(s)[Gone + 1]
             y == FoundIn(s)[Gone + 1 + T]
  <2>1. /\ HasStart /\ Verdict(Rest) = "accept" /\ base' = Gone + T
        /\ stream' = stream /\ frames' = Append(frames, f) /\ reports' = reports
    BY <1>9 DEF Accept
  <2>2. /\ T \in Nat /\ Gone + T <= n /\ Gone \in Nat /\ f \in Frame
    <3>1. T \in Nat /\ Gone + T <= n /\ SubSeq(Rest, 1, T) \in Seq(Bytes)
      BY <2>1, Accepted
    <3>2. Gone \in Nat
      BY <2>1, RestOfStream DEF IInv
    <3> HIDE DEF T
    <3> QED
      BY <3>1, <3>2 DEF Frame
  <2>3. /\ FoundIn(s)[base + 1] = x /\ Gone + 1 \in 1 .. Len(s) /\ s[Gone + 1] = Start
        /\ Verdict(SubSeq(s, Gone + 1, Len(s))) = "accept"
        /\ Total(SubSeq(s, Gone + 1, Len(s))) = T
        /\ SubSeq(SubSeq(s, Gone + 1, Len(s)), 1, T) = SubSeq(Rest, 1, T)
    BY <2>1, Ahead
  <2>4. x = [y EXCEPT !.frames = <<f>> \o @]
    <3> DEFINE j == Gone + 1
               p == SubSeq(s, j, Len(s))
    <3>1. Verdict(p) = "accept" =>
              FoundIn(s)[j] = [FoundIn(s)[j + Total(p)] EXCEPT
                                  !.frames = <<[at |-> j, packet |-> SubSeq(p, 1, Total(p))]>> \o @]
      <4> HIDE DEF s
      <4>1. j \in 1 .. Len(s) /\ s[j] = Start
        BY <2>3
      <4> HIDE DEF j
      <4> QED
        BY <1>1, <4>1, AtMarker
    <3>2. Verdict(p) = "accept" /\ Total(p) = T /\ SubSeq(p, 1, Total(p)) = SubSeq(Rest, 1, T)
      BY <2>3
    <3> HIDE DEF p, T
    <3> QED
      BY <3>1, <3>2
  <2> HIDE DEF T
  <2>5. Gone + 1 + T \in 1 .. Len(s) + 1 /\ Gone + T + 1 = Gone + 1 + T
    BY <1>1, <2>2
  <2>6. y \in Findings
    BY <1>1, <2>5, Scanned
  <2> HIDE DEF f, x, y
  <2>7. x.frames = <<f>> \o y.frames /\ x.reports = y.reports /\ x.base = y.base
        /\ y.frames \in Seq(Frame)
    BY <2>4, <2>6 DEF Findings
  <2>8. frames \o x.frames = Append(frames, f) \o y.frames
    <3> DEFINE u == y.frames
               v == <<f>>
    <3>1. v \in Seq(Frame) /\ u \in Seq(Frame) /\ x.frames = v \o u
      BY <2>2, <2>7
    <3>2. Append(frames, f) = frames \o v
      BY <1>1, <2>2, AppendIsConcat
    <3> HIDE DEF u, v
    <3>3. frames \o (v \o u) = (frames \o v) \o u
      BY SMTT(30), <1>1, <3>1, ConcatAssociative
    <3> QED
      BY <3>1, <3>2, <3>3 DEF u
  <2>9. And(frames, reports, x) = And(frames', reports, y)
    BY <2>1, <2>7, <2>8 DEF And
  <2>10. base' + 1 = Gone + 1 + T
    BY <2>1, <2>5
  <2> QED
    BY <1>2, <2>1, <2>3, <2>9, <2>10 DEF x, y
<1>10. CASE UNCHANGED vars
  BY <1>3, <1>10 DEF vars
<1> QED
  BY <1>5, <1>6, <1>7, <1>8, <1>9, <1>10 DEF Next, Turn

\* Between reads nothing is found behind `base`.
LEMMA NothingAhead ==
    ASSUME IInv, ~busy
    PROVE  FoundIn(stream)[base + 1] = Nothing(base)
<1> DEFINE n == Len(stream)
<1>1. /\ stream \in Seq(Bytes) /\ n \in Nat /\ base \in Nat /\ base <= n
      /\ buffer = SubSeq(stream, base + 1, n)
      /\ Len(buffer) = n - base /\ \A i \in 1 .. n - base : buffer[i] = stream[base + i]
  BY BufferIsRest, LenProperties DEF IInv, TypeOK, Buffered
<1>2. CASE buffer = <<>>
  <2>1. n - base = 0
    BY <1>1, <1>2
  <2>2. base = n /\ base + 1 \in 1 .. n + 1
    BY <1>1, <2>1
  <2>3. Markers(stream, base + 1) = {}
    BY <1>1, <2>2 DEF Markers
  <2>4. FoundFrom(stream, base + 1, FoundIn(stream)) = Nothing(n)
    BY <2>3 DEF FoundFrom
  <2> QED
    BY <1>1, <2>2, <2>4, Scanned
<1>3. CASE buffer # <<>>
  <2>1. buffer[1] = Start /\ Verdict(buffer) = "await"
    BY <1>3 DEF IInv, Settled
  <2>2. Len(buffer) # 0
    BY <1>3, EmptySeq DEF IInv, TypeOK
  <2>3. base + 1 \in 1 .. n /\ 1 \in 1 .. n - base /\ base + 1 - 1 = base
    BY <1>1, <2>2
  <2>4. stream[base + 1] = Start
    BY <1>1, <2>1, <2>3
  <2>5. FoundIn(stream)[base + 1] = Nothing(base)
    <3> DEFINE j == base + 1
    <3>1. j = base + 1 /\ j - 1 = base
      BY <1>1
    <3>2. j \in 1 .. Len(stream) /\ stream[j] = Start /\ Verdict(SubSeq(stream, j, Len(stream))) = "await"
      BY <1>1, <2>1, <2>3, <2>4
    <3> HIDE DEF j
    <3>3. FoundIn(stream)[j] = Nothing(j - 1)
      BY <1>1, <3>2, AtMarker
    <3> QED
      BY <3>1, <3>3
  <2> QED
    BY <2>5
<1> QED
  BY <1>2, <1>3

\* However the reads cut a stream, of any length, the decoder finds what it
\* would find in the whole of it read at once; so the replay of a raw capture
\* yields the frames that the capture did.
THEOREM AnyReadsWillDo == Spec => []ReadsDoNotMatter
<1>1. Spec => [](IInv /\ OnTrack)
  <2>1. Init => IInv /\ OnTrack
    BY InitInv, TrackInit
  <2>2. (IInv /\ OnTrack) /\ [Next]_vars => (IInv /\ OnTrack)'
    BY NextInv, TrackNext
  <2> QED
    BY <2>1, <2>2, PTL DEF Spec
<1>2. IInv /\ OnTrack => ReadsDoNotMatter
  <2> SUFFICES ASSUME IInv, OnTrack, ~busy
               PROVE  [frames |-> frames, reports |-> reports, base |-> base] = AllAtOnce(stream)
    BY DEF ReadsDoNotMatter
  <2>1. <<>> \in Seq(Bytes) /\ stream \in Seq(Bytes) /\ frames \in Seq(Frame)
    BY DEF IInv, TypeOK, Frame
  <2>2. stream \o <<>> = stream /\ frames \o <<>> = frames
    BY <2>1, ConcatEmptySeq
  <2>3. FoundIn(stream)[1] = And(frames, reports, FoundIn(stream)[base + 1])
    BY <2>1, <2>2 DEF OnTrack
  <2>4. AllAtOnce(stream) = And(frames, reports, Nothing(base))
    BY <2>1, <2>3, NothingAhead, Scanned
  <2>5. And(frames, reports, Nothing(base)) = [frames |-> frames, reports |-> reports, base |-> base]
    BY <2>2 DEF And, Nothing
  <2> QED
    BY <2>4, <2>5
<1> QED
  BY <1>1, <1>2, PTL

-----------------------------------------------------------------------------
\* PushGetsOn: each turn of the loop in push ends the loop or leaves fewer bytes
\* in the buffer, and none puts a byte back, so the loop turns at most once more
\* than there are bytes: the variant that PushEnds rests on.
PushGetsOn ==
    [][busy => \/ Len(buffer)' < Len(buffer)
               \/ ~busy' /\ Len(buffer)' <= Len(buffer)]_vars

\* BytesLeft: the buffer is as long as what of the stream is not done with.
LEMMA BytesLeft ==
    ASSUME IInv, IInv'
    PROVE  /\ base \in Nat /\ Len(stream) \in Nat /\ Len(buffer) = Len(stream) - base
           /\ base' \in Nat /\ Len(stream') \in Nat /\ Len(buffer') = Len(stream') - base'
<1>1. /\ stream \in Seq(Bytes) /\ base \in Nat /\ base <= Len(stream)
      /\ buffer = SubSeq(stream, base + 1, Len(stream))
  BY DEF IInv, TypeOK, Buffered
<1>2. /\ stream' \in Seq(Bytes) /\ base' \in Nat /\ base' <= Len(stream')
      /\ buffer' = SubSeq(stream', base' + 1, Len(stream'))
  BY DEF IInv, TypeOK, Buffered
<1> QED
  BY <1>1, <1>2, Suffixes, LenProperties

\* GoesOn: what a turn is done with is more than before, or it is the last.
LEMMA GoesOn ==
    ASSUME IInv, Turn
    PROVE  stream' = stream /\ (base' > base \/ (~busy' /\ base' >= base))
<1>1. base \in Nat /\ Len(buffer) \in Nat
  BY LenProperties DEF IInv, TypeOK
<1>2. CASE Clear
  BY <1>1, <1>2 DEF Clear
<1>3. ASSUME HasStart PROVE Gone \in Nat /\ base <= Gone
  BY <1>3, RestOfStream DEF IInv
<1>4. CASE AwaitMore
  <2>1. HasStart /\ stream' = stream /\ base' = Gone /\ ~busy'
    BY <1>4 DEF AwaitMore
  <2> QED
    BY <1>1, <1>3, <2>1
<1>5. CASE Reject
  <2>1. HasStart /\ stream' = stream /\ base' = Gone + 1
    BY <1>5 DEF Reject
  <2> QED
    BY <1>1, <1>3, <2>1
<1>6. CASE Accept
  <2>1. HasStart /\ Verdict(Rest) = "accept" /\ stream' = stream /\ base' = Gone + Total(Rest)
    BY <1>6 DEF Accept
  <2>2. Total(Rest) \in Nat /\ 1 + Header < Total(Rest) /\ Header \in Nat
    BY <2>1, Accepted, SdmAssumption
  <2> QED
    BY <1>1, <1>3, <2>1, <2>2
<1> QED
  BY <1>2, <1>4, <1>5, <1>6 DEF Turn

\* The loop of push cannot turn for ever, whatever the bytes.
THEOREM PushAlwaysGetsOn == Spec => PushGetsOn
<1> DEFINE P == busy => \/ Len(buffer)' < Len(buffer)
                        \/ ~busy' /\ Len(buffer)' <= Len(buffer)
<1>1. IInv /\ IInv' /\ Next => P
  <2> SUFFICES ASSUME IInv, IInv', Next, busy
               PROVE  Len(buffer') < Len(buffer) \/ (~busy' /\ Len(buffer') <= Len(buffer))
    OBVIOUS
  <2>1. Turn
    BY DEF Next, Read, PushData
  <2>2. stream' = stream /\ (base' > base \/ (~busy' /\ base' >= base))
    BY <2>1, GoesOn
  <2>3. /\ base \in Nat /\ Len(stream) \in Nat /\ Len(buffer) = Len(stream) - base
        /\ base' \in Nat /\ Len(buffer') = Len(stream) - base'
    BY <2>2, BytesLeft
  <2> QED
    BY <2>2, <2>3
<1> QED
  BY <1>1, Invariance, PTL DEF PushGetsOn, Spec
-----------------------------------------------------------------------------
(***************************************************************************)
(* The sessions: what holds of SdmSession for any processes, any commands  *)
(* in use and any line to the modem.                                       *)
(***************************************************************************)

\* WrittenOf: how many packets of its command a process has written.
WrittenOf(p) == Len(PacketsOf(mode[p])) - Len(todo[p])

\* InTurn: a process writes the packets of its command in turn.
InTurn ==
    \A p \in Procs :
        /\ pc[p] = "off" => mode[p] = "none" /\ todo[p] = <<>>
        /\ pc[p] # "off" => /\ mode[p] \in Modes /\ Len(todo[p]) <= Len(PacketsOf(mode[p]))
                            /\ \A i \in 1 .. Len(todo[p]) :
                                  todo[p][i] = PacketsOf(mode[p])[WrittenOf(p) + i]

\* A selection for each group, and none for what is no group.
Mapped == selected = [g \in Groups |-> selected[g]]

\* Unbegun: a process that writes alone and has not written last has not begun.
Unbegun == \A p \in alone : pc[p] = "writing" /\ latest # p => WrittenOf(p) = 0

\* p wrote last, and nobody has written into its configuration.
Undisturbed(p) == p \in alone /\ latest = p /\ mode[p] \in Configuring

\* How many packets of the configuration of p the modem has handled, less
\* those of others that are still before them.
HandledOf(p) == WrittenOf(p) - Len(inbox)

\* The modem after d packets of a configuration m: each group is empty once it
\* has been emptied, and holds what is wanted once it has been selected.
ModemAfter(m, d) ==
    /\ d >= 1 => running
    /\ \A i \in 1 .. 5 : d >= 2 + i =>
          selected[GroupOrder[i]] = IF d >= 7 + i THEN Wanted(m)[GroupOrder[i]] ELSE {}

\* OnItsWay: what of an undisturbed configuration is written is in the line to
\* the modem or has been handled.
OnItsWay ==
    \A p \in Procs : Undisturbed(p) =>
        /\ \A j \in 1 .. Len(inbox) :
              HandledOf(p) + j >= 1 => inbox[j] = PacketsOf(mode[p])[HandledOf(p) + j]
        /\ ModemAfter(mode[p], HandledOf(p))

\* A packet that selects items of g; one after which none of g may be selected.
Mends(r, g)  == r.op = "select" /\ r.group = g /\ r.items # {}
Breaks(r, g) == r.op = "start" \/ (r.op = "select" /\ r.group = g /\ r.items = {})

\* The groups that all configurations select items of.
Common == {"common", "lte"}

\* Asked: items are selected that some configuration asks for.
Asked == \A j \in 1 .. Len(inbox), g \in Common :
             Mends(inbox[j], g) =>
                 \E q \in Procs : mode[q] \in Configuring /\ inbox[j].items = Wanted(mode[q])[g]

\* g will be mended by a process; it will be in the line to the modem; it has
\* been, unless the modem was stopped.
Mending(g) ==
    \/ \E q \in Procs : \E i \in 1 .. Len(todo[q]) : Mends(todo[q][i], g)
    \/ \E j \in 1 .. Len(inbox) : /\ Mends(inbox[j], g)
                                  /\ \A k \in j + 1 .. Len(inbox) : ~Breaks(inbox[k], g)
    \/ /\ running => \E q \in Procs : mode[q] \in Configuring /\ Wanted(mode[q])[g] \subseteq selected[g]
       /\ \A k \in 1 .. Len(inbox) : ~Breaks(inbox[k], g)

Mended == (\E p \in Procs : mode[p] \in Configuring) => \A g \in Common : Mending(g)

SInv == SessionTypeOK /\ InTurn /\ Mapped /\ Unbegun /\ OnItsWay /\ Asked /\ Mended

-----------------------------------------------------------------------------
\* GroupsInOrder: the groups are five, each with a place of its own.
LEMMA GroupsInOrder ==
    /\ DOMAIN GroupOrder = 1 .. 5 /\ Groups = {"common", "lte", "edge", "hspa", "cdma"}
    /\ \A i \in 1 .. 5 : GroupOrder[i] \in Groups
    /\ \A i, j \in 1 .. 5 : GroupOrder[i] = GroupOrder[j] => i = j
    /\ \A g \in Groups : \E i \in 1 .. 5 : g = GroupOrder[i]
    /\ GroupOrder[1] = "common" /\ GroupOrder[2] = "lte"
<1>1. DOMAIN GroupOrder = 1 .. 5
  BY DEF GroupOrder
<1>2. /\ GroupOrder[1] = "common" /\ GroupOrder[2] = "lte" /\ GroupOrder[3] = "edge"
      /\ GroupOrder[4] = "hspa" /\ GroupOrder[5] = "cdma"
  BY DEF GroupOrder
<1>3. \A i \in 1 .. 5 : i = 1 \/ i = 2 \/ i = 3 \/ i = 4 \/ i = 5
  OBVIOUS
<1>4. Groups = {"common", "lte", "edge", "hspa", "cdma"}
  BY <1>1, <1>2, <1>3 DEF Groups
<1>5. \A i \in 1 .. 5 : GroupOrder[i] \in Groups
  BY <1>1 DEF Groups
<1>6. \A i, j \in 1 .. 5 : GroupOrder[i] = GroupOrder[j] => i = j
  BY <1>2, <1>3
<1>7. \A g \in Groups : \E i \in 1 .. 5 : g = GroupOrder[i]
  BY <1>1 DEF Groups
<1> QED
  BY <1>1, <1>2, <1>4, <1>5, <1>6, <1>7

\* EachGroup: a selection for each group is five packets.
LEMMA EachGroup ==
    ASSUME NEW chosen, \A g \in Groups : chosen[g] \subseteq ItemsOf(g)
    PROVE  /\ ForEachGroup(chosen) \in Seq(Packets) /\ Len(ForEachGroup(chosen)) = 5
           /\ \A i \in 1 .. 5 :
                 ForEachGroup(chosen)[i] = Select(GroupOrder[i], chosen[GroupOrder[i]])
<1> DEFINE w == ForEachGroup(chosen)
<1>1. w = [i \in 1 .. 5 |-> Select(GroupOrder[i], chosen[GroupOrder[i]])]
  BY GroupsInOrder DEF ForEachGroup
<1>2. \A i \in 1 .. 5 : Select(GroupOrder[i], chosen[GroupOrder[i]]) \in Packets
  <2>1. ASSUME NEW g \in Groups, NEW s \in SUBSET ItemsOf(g) PROVE Select(g, s) \in Packets
    BY DEF Select, Packets
  <2> QED
    BY <2>1, GroupsInOrder
<1> HIDE DEF w
<1>3. w \in [1 .. 5 -> Packets]
  BY <1>1, <1>2
<1>4. w \in Seq(Packets) /\ Len(w) = 5
  <2>1. w \in Seq(Packets) /\ DOMAIN w = 1 .. 5
    <3>1. \E n \in Nat : w \in [1 .. n -> Packets]
      BY <1>3
    <3> QED
      BY <1>3, <3>1, SeqDef
  <2>2. Len(w) \in Nat /\ DOMAIN w = 1 .. Len(w)
    BY <2>1, LenProperties
  <2> QED
    BY <2>1, <2>2
<1> QED
  BY <1>1, <1>4 DEF w

\* WantedItems: what a configuration wants of a group are items of it; of the
\* common groups it wants some.
LEMMA WantedItems ==
    ASSUME NEW m \in Configuring
    PROVE  /\ \A g \in Groups : Wanted(m)[g] \subseteq ItemsOf(g)
           /\ \A g \in Common : Wanted(m)[g] # {}
           /\ m = "all" => \A g \in Groups : Wanted(m)[g] = ItemsOf(g)
           /\ m # "all" => /\ Wanted(m)["common"] = CommonItems(m) /\ Wanted(m)["lte"] = LteItems(m)
                           /\ \A g \in Groups \ Common : Wanted(m)[g] = {}
           /\ Wanted(m) = [g \in Groups |-> Wanted(m)[g]]
<1>1. Groups = {"common", "lte", "edge", "hspa", "cdma"}
  BY GroupsInOrder
<1>2. CASE m = "all"
  <2>1. Wanted(m) = [g \in Groups |-> ItemsOf(g)]
    BY <1>2 DEF Wanted, Everything
  <2>2. ItemsOf("common") # {} /\ ItemsOf("lte") # {}
    BY DEF ItemsOf
  <2> QED
    BY <1>1, <1>2, <2>1, <2>2 DEF Common
<1>3. CASE m # "all"
  <2>1. Wanted(m) = [g \in Groups |-> IF g = "lte" THEN LteItems(m)
                                      ELSE IF g = "common" THEN CommonItems(m) ELSE {}]
    BY <1>1, <1>3 DEF Wanted, NoItems
  <2>2. m \in {"signaling", "radio", "full"}
    BY <1>3 DEF Configuring, Profiles
  <2>3. CommonItems(m) # {} /\ CommonItems(m) \subseteq ItemsOf("common")
    BY <2>2 DEF CommonItems, ItemsOf
  <2>4. LteItems(m) # {} /\ LteItems(m) \subseteq ItemsOf("lte")
    BY <2>2 DEF LteItems, ItemsOf
  <2> HIDE DEF Wanted
  <2> QED
    BY <1>1, <1>3, <2>1, <2>3, <2>4 DEF Common
<1> QED
  BY <1>2, <1>3

\* ConfigurationIs: the packets of a configuration, each in its place.
LEMMA ConfigurationIs ==
    ASSUME NEW m \in Configuring
    PROVE  LET w == PacketsOf(m)
           IN  /\ w \in Seq(Packets) /\ Len(w) = IF m = "all" THEN 12 ELSE 9
               /\ w[1] = Packet("start") /\ w[2] = Packet("period")
               /\ \A i \in 1 .. 5 : w[2 + i] = Select(GroupOrder[i], {})
               /\ \A i \in 1 .. 5 : 7 + i <= Len(w) =>
                                      w[7 + i] = Select(GroupOrder[i], Wanted(m)[GroupOrder[i]])
<1> DEFINE a == <<Packet("start"), Packet("period")>>
           b == ForEachGroup(NoItems)
           c == Selection(m)
           l == IF m = "all" THEN 5 ELSE 2
           ab == a \o b
           w == ab \o c
<1>1. a \in Seq(Packets) /\ Len(a) = 2 /\ a[1] = Packet("start") /\ a[2] = Packet("period")
  <2>1. Packet("start") \in Packets /\ Packet("period") \in Packets
    BY DEF Packet, Packets
  <2> QED
    BY <2>1
<1>2. b \in Seq(Packets) /\ Len(b) = 5 /\ \A i \in 1 .. 5 : b[i] = Select(GroupOrder[i], {})
  <2>1. \A g \in Groups : NoItems[g] = {}
    BY DEF NoItems
  <2>2. \A g \in Groups : NoItems[g] \subseteq ItemsOf(g)
    BY <2>1
  <2>3. /\ b \in Seq(Packets) /\ Len(b) = 5
        /\ \A i \in 1 .. 5 : b[i] = Select(GroupOrder[i], NoItems[GroupOrder[i]])
    BY <2>2, EachGroup
  <2>4. \A i \in 1 .. 5 : NoItems[GroupOrder[i]] = {}
    BY <2>1, GroupsInOrder
  <2> HIDE DEF b
  <2> QED
    BY <2>3, <2>4
<1>3. /\ c \in Seq(Packets) /\ Len(c) = l
      /\ \A i \in 1 .. l : c[i] = Select(GroupOrder[i], Wanted(m)[GroupOrder[i]])
  <2>1. CASE m = "all"
    <3>1. \A g \in Groups : Everything[g] = ItemsOf(g) /\ Everything[g] = Wanted(m)[g]
      BY <2>1, WantedItems DEF Everything
    <3>2. c = ForEachGroup(Everything)
      BY <2>1 DEF Selection
    <3>3. \A g \in Groups : Everything[g] \subseteq ItemsOf(g)
      BY <3>1
    <3> QED
      BY <2>1, <3>1, <3>2, <3>3, EachGroup, GroupsInOrder
  <2>2. CASE m # "all"
    <3> DEFINE c1 == Select("common", Wanted(m)["common"])
               c2 == Select("lte", Wanted(m)["lte"])
    <3>1. c = <<c1, c2>>
      BY <2>2, WantedItems DEF Selection
    <3>2. c1 \in Packets /\ c2 \in Packets
      <4>1. ASSUME NEW g \in Groups, NEW s \in SUBSET ItemsOf(g) PROVE Select(g, s) \in Packets
        BY DEF Select, Packets
      <4>2. "common" \in Groups /\ "lte" \in Groups
        BY GroupsInOrder
      <4>3. Wanted(m)["common"] \in SUBSET ItemsOf("common") /\ Wanted(m)["lte"] \in SUBSET ItemsOf("lte")
        BY <4>2, WantedItems
      <4> QED
        BY <4>1, <4>2, <4>3
    <3> DEFINE d1 == GroupOrder[1]
               d2 == GroupOrder[2]
    <3>3. c1 = Select(d1, Wanted(m)[d1]) /\ c2 = Select(d2, Wanted(m)[d2])
      BY GroupsInOrder
    <3> HIDE DEF c1, c2, c
    <3>4. c \in Seq(Packets) /\ Len(c) = 2 /\ c[1] = c1 /\ c[2] = c2
      BY <3>1, <3>2
    <3>5. \A i \in 1 .. l : i = 1 \/ i = 2
      BY <2>2
    <3> QED
      BY <2>2, <3>3, <3>4, <3>5
  <2> QED
    BY <2>1, <2>2
<1> HIDE DEF a, b, c
<1>4. /\ ab \in Seq(Packets) /\ Len(ab) = 7
      /\ \A i \in 1 .. 7 : ab[i] = IF i <= 2 THEN a[i] ELSE b[i - 2]
  <2>1. /\ ab \in Seq(Packets) /\ Len(ab) = Len(a) + Len(b)
        /\ \A i \in 1 .. Len(a) + Len(b) : ab[i] = IF i <= Len(a) THEN a[i] ELSE b[i - Len(a)]
    BY <1>1, <1>2, ConcatProperties
  <2> HIDE DEF ab
  <2> QED
    BY <1>1, <1>2, <2>1
<1> HIDE DEF ab
<1>5. /\ w \in Seq(Packets) /\ Len(w) = 7 + l
      /\ \A i \in 1 .. 7 + l : w[i] = IF i <= 7 THEN ab[i] ELSE c[i - 7]
  <2>1. /\ w \in Seq(Packets) /\ Len(w) = Len(ab) + Len(c)
        /\ \A i \in 1 .. Len(ab) + Len(c) : w[i] = IF i <= Len(ab) THEN ab[i] ELSE c[i - Len(ab)]
    BY <1>3, <1>4, ConcatProperties
  <2> HIDE DEF w
  <2> QED
    BY <1>3, <1>4, <2>1
<1> HIDE DEF w
<1>6. w[1] = Packet("start") /\ w[2] = Packet("period")
  <2>1. 1 \in 1 .. 7 + l /\ 2 \in 1 .. 7 + l
    OBVIOUS
  <2> QED
    BY <1>1, <1>4, <1>5, <2>1
<1>7. ASSUME NEW i \in 1 .. 5 PROVE w[2 + i] = Select(GroupOrder[i], {})
  <2>1. 2 + i \in 1 .. 7 + l /\ 2 + i \in 1 .. 7 /\ ~(2 + i <= 2) /\ 2 + i - 2 = i
    OBVIOUS
  <2> QED
    BY <1>2, <1>4, <1>5, <2>1
<1>8. ASSUME NEW i \in 1 .. 5, 7 + i <= 7 + l
      PROVE  w[7 + i] = Select(GroupOrder[i], Wanted(m)[GroupOrder[i]])
  <2>1. 7 + i \in 1 .. 7 + l /\ i \in 1 .. l /\ ~(7 + i <= 7) /\ 7 + i - 7 = i
    BY <1>8
  <2> QED
    BY <1>3, <1>5, <2>1
<1>9. w = PacketsOf(m)
  <2>1. m # "stop" /\ m # "passive"
    BY DEF Configuring, Profiles
  <2>2. PacketsOf(m) = InitPackets(m)
    BY <2>1 DEF PacketsOf
  <2> QED
    BY <2>2, Zenon DEF w, ab, a, b, c, InitPackets
<1>10. 7 + l = IF m = "all" THEN 12 ELSE 9
  OBVIOUS
<1> QED
  BY <1>5, <1>6, <1>7, <1>8, <1>9, <1>10

\* CommandIs: the packets of any command.
LEMMA CommandIs ==
    ASSUME NEW m \in Modes
    PROVE  /\ PacketsOf(m) \in Seq(Packets) /\ Len(PacketsOf(m)) \in Nat
           /\ m \in Configuring \/ PacketsOf(m) = <<>> \/ PacketsOf(m) = <<Packet("stop")>>
<1>1. m \in Configuring \/ m = "passive" \/ m = "stop"
  BY SessionAssumption
<1>2. Packet("stop") \in Packets
  BY DEF Packet, Packets
<1>3. "passive" \notin Configuring /\ "stop" \notin Configuring
  BY DEF Configuring, Profiles
<1>4. m = "passive" => PacketsOf(m) = <<>>
  BY <1>3 DEF PacketsOf
<1>5. m = "stop" => PacketsOf(m) = <<Packet("stop")>>
  BY <1>3 DEF PacketsOf
<1>6. PacketsOf(m) \in Seq(Packets)
  <2>1. <<>> \in Seq(Packets) /\ <<Packet("stop")>> \in Seq(Packets)
    BY <1>2
  <2>2. m \in Configuring => PacketsOf(m) \in Seq(Packets)
    BY ConfigurationIs
  <2> QED
    BY <1>1, <1>4, <1>5, <2>1, <2>2, Zenon
<1> QED
  BY <1>1, <1>4, <1>5, <1>6, LenProperties

-----------------------------------------------------------------------------
\* SInit: a modem that nobody has opened yet.
LEMMA SInit == SessionInit => SInv
<1> SUFFICES ASSUME SessionInit PROVE SInv
  OBVIOUS
<1>1. <<>> \in Seq(Packets) /\ Len(<<>>) = 0
  BY EmptySeq
<1>2. NoItems = [g \in Groups |-> {}] /\ Everything = [g \in Groups |-> ItemsOf(g)]
  BY DEF NoItems, Everything
<1>3. Mapped /\ \A g \in Groups : selected[g] \subseteq ItemsOf(g)
  <2>1. selected \in {NoItems, Everything}
    BY DEF SessionInit
  <2>2. CASE selected = NoItems
    BY <1>2, <2>2 DEF Mapped
  <2>3. CASE selected = Everything
    BY <1>2, <2>3 DEF Mapped
  <2> QED
    BY <2>1, <2>2, <2>3
<1>4. SessionTypeOK
  BY <1>1, <1>3, SessionAssumption DEF SessionInit, SessionTypeOK
<1>5. InTurn
  BY DEF SessionInit, InTurn
<1>6. Unbegun /\ OnItsWay
  BY DEF SessionInit, Unbegun, OnItsWay, Undisturbed
<1>7. Asked
  BY <1>1 DEF SessionInit, Asked
<1>8. Mended
  <2>1. "none" \notin Configuring
    BY DEF Configuring, Profiles
  <2> QED
    BY <2>1 DEF SessionInit, Mended
<1> QED
  BY <1>3, <1>4, <1>5, <1>6, <1>7, <1>8 DEF SInv

\* PacketFacts: the kinds of packets.
LEMMA PacketFacts ==
    ASSUME NEW r \in Packets
    PROVE  /\ r.op \in {"start", "period", "stop", "select"}
           /\ r.op = "select" => r.group \in Groups /\ r.items \subseteq ItemsOf(r.group)
<1>1. CASE r \in [op : {"start", "period", "stop"}]
  BY <1>1
<1>2. ASSUME NEW g \in Groups, r \in [op : {"select"}, group : {g}, items : SUBSET ItemsOf(g)]
      PROVE  r.op = "select" /\ r.group = g /\ r.items \subseteq ItemsOf(g)
  BY <1>2
<1> QED
  BY <1>1, <1>2 DEF Packets

\* Handled: what the modem makes of the next packet.
LEMMA Handled ==
    ASSUME SInv, Handle
    PROVE  LET r == inbox[1]
           IN  /\ inbox \in Seq(Packets) /\ Len(inbox) \in Nat /\ Len(inbox) >= 1
               /\ r \in Packets
               /\ inbox' \in Seq(Packets) /\ Len(inbox') = Len(inbox) - 1
               /\ \A j \in 1 .. Len(inbox) - 1 : inbox'[j] = inbox[j + 1]
               /\ mode' = mode /\ pc' = pc /\ todo' = todo /\ adds' = adds
               /\ latest' = latest /\ alone' = alone
               /\ r.op \in {"start", "period", "stop", "select"}
               /\ r.op = "start" => running' = TRUE /\ selected' \in {selected, NoItems, Everything}
               /\ r.op = "stop" => running' = FALSE /\ selected' \in {selected, NoItems}
               /\ r.op = "period" => running' = running /\ selected' = selected
               /\ r.op = "select" =>
                     /\ running' = running /\ r.group \in Groups /\ r.items \subseteq ItemsOf(r.group)
                     /\ selected' = [selected EXCEPT ![r.group] =
                                        IF adds /\ r.items # {} THEN selected[r.group] \cup r.items
                                        ELSE r.items]
<1> DEFINE r == inbox[1]
<1>1. inbox \in Seq(Packets) /\ inbox # <<>> /\ inbox' = Tail(inbox)
  BY DEF SInv, SessionTypeOK, Handle
<1>2. /\ Len(inbox) \in Nat /\ Len(inbox) >= 1
      /\ inbox' \in Seq(Packets) /\ Len(inbox') = Len(inbox) - 1
      /\ \A j \in 1 .. Len(inbox) - 1 : inbox'[j] = inbox[j + 1]
  <2>1. Len(inbox) # 0
    BY <1>1, EmptySeq
  <2>2. Len(inbox) \in Nat /\ Len(inbox) >= 1
    BY <1>1, <2>1, LenProperties
  <2> QED
    BY <1>1, <2>2, HeadTailProperties
<1>3. r \in Packets /\ Head(inbox) = r
  <2>1. 1 \in 1 .. Len(inbox)
    BY <1>2
  <2> QED
    BY <1>1, <2>1, ElementOfSeq, HeadTailProperties
<1>4. /\ r.op \in {"start", "period", "stop", "select"}
      /\ r.op = "select" => r.group \in Groups /\ r.items \subseteq ItemsOf(r.group)
  BY <1>3, PacketFacts
<1>5. /\ mode' = mode /\ pc' = pc /\ todo' = todo /\ adds' = adds
      /\ latest' = latest /\ alone' = alone
  BY DEF Handle, procVars
<1>6. CASE r.op = "start"
  BY <1>1, <1>2, <1>3, <1>4, <1>5, <1>6 DEF Handle
<1>7. CASE r.op = "stop"
  BY <1>1, <1>2, <1>3, <1>4, <1>5, <1>7 DEF Handle
<1>8. CASE r.op = "period"
  BY <1>1, <1>2, <1>3, <1>4, <1>5, <1>8 DEF Handle
<1>9. CASE r.op = "select"
  BY <1>1, <1>2, <1>3, <1>4, <1>5, <1>9 DEF Handle
<1> QED
  BY <1>4, <1>6, <1>7, <1>8, <1>9

\* Effect: of a packet on the selections.
LEMMA Effect ==
    ASSUME SInv, Handle
    PROVE  LET r == inbox[1]
           IN  /\ Mapped' /\ \A g \in Groups : selected'[g] \subseteq ItemsOf(g)
               /\ r.op = "select" => /\ r.items \subseteq selected'[r.group]
                                     /\ r.items = {} \/ selected[r.group] = {} => selected'[r.group] = r.items
                                     /\ \A g \in Groups : g # r.group => selected'[g] = selected[g]
               /\ r.op = "period" => selected' = selected
<1> DEFINE r == inbox[1]
<1>1. /\ selected = [g \in Groups |-> selected[g]] /\ \A g \in Groups : selected[g] \subseteq ItemsOf(g)
  BY DEF SInv, SessionTypeOK, Mapped
<1>2. NoItems = [g \in Groups |-> {}] /\ Everything = [g \in Groups |-> ItemsOf(g)]
  BY DEF NoItems, Everything
<1>3. ASSUME selected' \in {selected, NoItems, Everything}
      PROVE  Mapped' /\ \A g \in Groups : selected'[g] \subseteq ItemsOf(g)
  <2>1. CASE selected' = selected
    BY <1>1, <2>1 DEF Mapped
  <2>2. CASE selected' = NoItems
    BY <1>2, <2>2 DEF Mapped
  <2>3. CASE selected' = Everything
    BY <1>2, <2>3 DEF Mapped
  <2> QED
    BY <1>3, <2>1, <2>2, <2>3
<1>4. CASE r.op = "select"
  <2> DEFINE x == IF adds /\ r.items # {} THEN selected[r.group] \cup r.items ELSE r.items
             h == r.group
  <2>1. h \in Groups /\ r.items \subseteq ItemsOf(h) /\ selected' = [selected EXCEPT ![h] = x]
    BY <1>4, Handled
  <2>2. x \subseteq ItemsOf(h) /\ r.items \subseteq x /\ (r.items = {} \/ selected[h] = {} => x = r.items)
    BY <1>1, <2>1
  <2> HIDE DEF x, h, r
  <2>3. selected' = [g \in Groups |-> IF g = h THEN x ELSE selected[g]]
    BY <1>1, <2>1
  <2>4. selected'[h] = x /\ \A g \in Groups : g # h => selected'[g] = selected[g]
    BY <2>1, <2>3
  <2>5. Mapped'
    BY <2>3 DEF Mapped
  <2>6. \A g \in Groups : selected'[g] \subseteq ItemsOf(g)
    BY <1>1, <2>2, <2>4
  <2> QED
    BY <1>4, <2>2, <2>4, <2>5, <2>6 DEF h, r
<1>5. CASE r.op # "select"
  <2>1. selected' \in {selected, NoItems, Everything} /\ (r.op = "period" => selected' = selected)
    BY <1>5, Handled
  <2> QED
    BY <1>3, <1>5, <2>1
<1> QED
  BY <1>4, <1>5

\* SHandle: the modem handles a packet.
LEMMA SHandle == ASSUME SInv, Handle PROVE SInv'
<1> DEFINE r == inbox[1]
           n == Len(inbox)
<1>1. /\ inbox \in Seq(Packets) /\ n \in Nat /\ n >= 1 /\ r \in Packets
      /\ inbox' \in Seq(Packets) /\ Len(inbox') = n - 1
      /\ \A j \in 1 .. n - 1 : inbox'[j] = inbox[j + 1]
  BY Handled
<1>2. /\ mode' = mode /\ pc' = pc /\ todo' = todo /\ adds' = adds
      /\ latest' = latest /\ alone' = alone
  BY Handled
<1>3. /\ r.op \in {"start", "period", "stop", "select"}
      /\ r.op = "start" => running' = TRUE
      /\ r.op = "stop" => running' = FALSE
      /\ r.op = "period" => running' = running
      /\ r.op = "select" => running' = running /\ r.group \in Groups
  BY Handled
<1>4. /\ Mapped' /\ \A g \in Groups : selected'[g] \subseteq ItemsOf(g)
      /\ r.op = "select" => /\ r.items \subseteq selected'[r.group]
                            /\ r.items = {} \/ selected[r.group] = {} => selected'[r.group] = r.items
                            /\ \A g \in Groups : g # r.group => selected'[g] = selected[g]
      /\ r.op = "period" => selected' = selected
  BY Effect
<1>5. SessionTypeOK'
  <2>1. Len(inbox') <= MaxInbox
    BY <1>1, SessionAssumption DEF SInv, SessionTypeOK
  <2>2. running' \in BOOLEAN
    BY <1>3 DEF SInv, SessionTypeOK
  <2> QED
    BY <1>1, <1>2, <1>4, <2>1, <2>2 DEF SInv, SessionTypeOK
<1>6. InTurn' /\ Unbegun'
  BY <1>2 DEF SInv, InTurn, Unbegun, WrittenOf
<1>7. Asked'
  <2>1. ASSUME NEW j \in 1 .. n - 1, NEW g \in Common, Mends(inbox'[j], g)
        PROVE  \E q \in Procs : mode[q] \in Configuring /\ inbox'[j].items = Wanted(mode[q])[g]
    <3>1. j + 1 \in 1 .. n /\ inbox'[j] = inbox[j + 1]
      BY <1>1
    <3> QED
      BY <2>1, <3>1 DEF SInv, Asked
  <2> QED
    BY <1>1, <1>2, <2>1 DEF Asked, Mends
<1>8. OnItsWay'
  <2> SUFFICES ASSUME NEW p \in Procs, Undisturbed(p)
               PROVE  /\ \A j \in 1 .. n - 1 : HandledOf(p)' + j >= 1 =>
                             inbox'[j] = PacketsOf(mode[p])[HandledOf(p)' + j]
                      /\ ModemAfter(mode[p], HandledOf(p))'
    BY <1>1, <1>2 DEF OnItsWay, Undisturbed
  <2> DEFINE m == mode[p]
             w == PacketsOf(m)
             d == HandledOf(p)
  <2>1. m \in Configuring
    BY DEF Undisturbed
  <2>2. /\ \A j \in 1 .. n : d + j >= 1 => inbox[j] = w[d + j]
        /\ ModemAfter(m, d)
    BY DEF SInv, OnItsWay
  <2>3. /\ Len(w) = (IF m = "all" THEN 12 ELSE 9) /\ Len(w) \in Nat
        /\ w[1] = Packet("start") /\ w[2] = Packet("period")
        /\ \A i \in 1 .. 5 : w[2 + i] = Select(GroupOrder[i], {})
        /\ \A i \in 1 .. 5 : 7 + i <= Len(w) =>
                               w[7 + i] = Select(GroupOrder[i], Wanted(m)[GroupOrder[i]])
    <3> HIDE DEF m
    <3>1. /\ PacketsOf(m) \in Seq(Packets) /\ Len(PacketsOf(m)) = (IF m = "all" THEN 12 ELSE 9)
          /\ PacketsOf(m)[1] = Packet("start") /\ PacketsOf(m)[2] = Packet("period")
          /\ \A i \in 1 .. 5 : PacketsOf(m)[2 + i] = Select(GroupOrder[i], {})
          /\ \A i \in 1 .. 5 : 7 + i <= Len(PacketsOf(m)) =>
                PacketsOf(m)[7 + i] = Select(GroupOrder[i], Wanted(m)[GroupOrder[i]])
      BY <2>1, ConfigurationIs
    <3> QED
      BY <3>1
  <2>4. Len(todo[p]) \in Nat
    BY LenProperties DEF SInv, SessionTypeOK
  <2>5. d \in Int /\ HandledOf(p)' = d + 1 /\ d + n <= Len(w)
    <3>1. d = (Len(w) - Len(todo[p])) - n
      BY DEF HandledOf, WrittenOf
    <3>2. HandledOf(p)' = (Len(w) - Len(todo[p])) - (n - 1)
      BY <1>1, <1>2 DEF HandledOf, WrittenOf
    <3> DEFINE a == Len(w)
               b == Len(todo[p])
    <3>3. a \in Nat /\ b \in Nat /\ d = (a - b) - n /\ HandledOf(p)' = (a - b) - (n - 1) /\ n \in Nat
      BY <1>1, <2>3, <2>4, <3>1, <3>2
    <3> HIDE DEF d, n, a, b
    <3>4. d \in Int /\ HandledOf(p)' = d + 1 /\ d + n <= a
      BY <3>3
    <3> QED
      BY <3>4 DEF a
  <2>6. ASSUME NEW j \in 1 .. n - 1, d + 1 + j >= 1 PROVE inbox'[j] = w[d + 1 + j]
    <3>1. n \in Nat /\ d \in Int /\ inbox'[j] = inbox[j + 1]
      BY <1>1, <2>5
    <3> HIDE DEF d, n, w
    <3>2. j + 1 \in 1 .. n /\ d + (j + 1) = d + 1 + j
      BY <3>1
    <3>3. d + (j + 1) >= 1 => inbox[j + 1] = w[d + (j + 1)]
      BY <2>2, <3>2
    <3> QED
      BY <2>6, <3>1, <3>2, <3>3
  <2>7. /\ d >= 1 => running
        /\ \A i \in 1 .. 5 : d >= 2 + i =>
              selected[GroupOrder[i]] = IF d >= 7 + i THEN Wanted(m)[GroupOrder[i]] ELSE {}
    BY <2>2 DEF ModemAfter
  <2> HIDE DEF d, w, m, n
  <2>8. /\ d + 1 >= 1 => running'
        /\ \A i \in 1 .. 5 : d + 1 >= 2 + i =>
              selected'[GroupOrder[i]] = IF d + 1 >= 7 + i THEN Wanted(m)[GroupOrder[i]] ELSE {}
    <3>1. CASE d < 0
      BY <2>5, <3>1
    <3>2. CASE d >= 0
      <4>1. r = w[d + 1] /\ 1 \in 1 .. n
        BY <1>1, <2>2, <2>5, <3>2
      <4>2. d + 1 \in 1 .. Len(w)
        BY <1>1, <2>3, <2>5, <3>2
      <4>3. CASE d = 0
        <5>1. r.op = "start"
          BY <2>3, <4>1, <4>3 DEF Packet
        <5> QED
          BY <1>3, <4>3, <5>1
      <4>4. CASE d = 1
        <5>1. r.op = "period"
          BY <2>3, <4>1, <4>4 DEF Packet
        <5>2. running'
          BY <1>3, <2>7, <4>4, <5>1
        <5> QED
          BY <4>4, <5>2
      <4>5. ASSUME NEW k \in 1 .. 5, NEW s, r = Select(GroupOrder[k], s), d + 1 = 2 + k \/ d + 1 = 7 + k,
                   s = IF d + 1 = 2 + k THEN {} ELSE Wanted(m)[GroupOrder[k]]
            PROVE  /\ running'
                   /\ \A i \in 1 .. 5 : d + 1 >= 2 + i =>
                         selected'[GroupOrder[i]] = IF d + 1 >= 7 + i THEN Wanted(m)[GroupOrder[i]] ELSE {}
        <5>1. r.op = "select" /\ r.group = GroupOrder[k] /\ r.items = s
          BY <4>5 DEF Select
        <5>2. running'
          <6>1. d >= 1
            BY <2>5, <4>5
          <6> QED
            BY <1>3, <2>7, <5>1, <6>1
        <5>3. selected'[GroupOrder[k]] = s
          <6>1. CASE d + 1 = 2 + k
            BY <1>4, <4>5, <5>1, <6>1
          <6>2. CASE d + 1 = 7 + k
            <7>1. d >= 2 + k /\ ~(d >= 7 + k)
              BY <2>5, <6>2
            <7>2. selected[GroupOrder[k]] = {}
              BY <2>7, <7>1
            <7> QED
              BY <1>4, <5>1, <7>2
          <6> QED
            BY <4>5, <6>1, <6>2
        <5>4. \A i \in 1 .. 5 : i # k => selected'[GroupOrder[i]] = selected[GroupOrder[i]]
          BY <1>4, <5>1, GroupsInOrder
        <5>5. ASSUME NEW i \in 1 .. 5, d + 1 >= 2 + i
              PROVE  selected'[GroupOrder[i]] = IF d + 1 >= 7 + i THEN Wanted(m)[GroupOrder[i]] ELSE {}
          <6>1. CASE i = k
            <7>1. d + 1 >= 7 + i <=> ~(d + 1 = 2 + k)
              BY <4>5, <6>1
            <7> QED
              BY <4>5, <5>3, <6>1, <7>1
          <6>2. CASE i # k
            <7>1. (d >= 2 + i /\ (d + 1 >= 7 + i <=> d >= 7 + i)) \/ d + 1 = 2 + i \/ d + 1 = 7 + i
              BY <2>5, <5>5
            <7>2. ~(d + 1 = 2 + i /\ d + 1 = 2 + k) /\ ~(d + 1 = 7 + i /\ d + 1 = 7 + k)
              BY <2>5, <6>2
            <7>3. CASE d >= 2 + i /\ (d + 1 >= 7 + i <=> d >= 7 + i)
              BY <2>7, <5>4, <6>2, <7>3
            <7>4. CASE d + 1 = 2 + i
              <8>1. d + 1 = 7 + k
                BY <4>5, <7>2, <7>4
              <8> QED
                BY <7>4, <8>1
            <7>5. CASE d + 1 = 7 + i
              <8>1. d + 1 = 2 + k
                BY <4>5, <7>2, <7>5
              <8> QED
                BY <7>5, <8>1
            <7> QED
              BY <7>1, <7>3, <7>4, <7>5
          <6> QED
            BY <6>1, <6>2
        <5> QED
          BY <5>2, <5>5
      <4>6. CASE d \in 2 .. 6
        <5>1. d - 1 \in 1 .. 5 /\ 2 + (d - 1) = d + 1
          BY <4>6
        <5>2. r = Select(GroupOrder[d - 1], {})
          BY <2>3, <4>1, <5>1
        <5> QED
          BY <4>5, <5>1, <5>2
      <4>7. CASE d >= 7
        <5>1. d - 6 \in 1 .. 5 /\ 7 + (d - 6) = d + 1 /\ d + 1 # 2 + (d - 6) /\ d + 1 <= Len(w)
          BY <2>3, <2>5, <4>2, <4>7
        <5>2. r = Select(GroupOrder[d - 6], Wanted(m)[GroupOrder[d - 6]])
          BY <2>3, <4>1, <5>1
        <5> QED
          BY <4>5, <5>1, <5>2
      <4> QED
        BY <2>5, <3>2, <4>3, <4>4, <4>6, <4>7
    <3> QED
      BY <2>5, <3>1, <3>2
  <2>9. ModemAfter(mode[p], HandledOf(p))'
    BY <1>2, <2>5, <2>8 DEF ModemAfter, m
  <2> QED
    BY <2>5, <2>6, <2>9 DEF w, m, n
<1>9. Mended'
  <2> SUFFICES ASSUME NEW p \in Procs, mode[p] \in Configuring, NEW g \in Common PROVE Mending(g)'
    BY <1>2 DEF Mended
  <2>1. Mending(g)
    BY DEF SInv, Mended
  <2>2. g \in Groups
    BY GroupsInOrder DEF Common
  <2>3. \A k \in 1 .. n - 1 : k + 1 \in 1 .. n /\ inbox'[k] = inbox[k + 1]
    BY <1>1
  <2>4. CASE \E q \in Procs : \E i \in 1 .. Len(todo[q]) : Mends(todo[q][i], g)
    BY <1>2, <2>4 DEF Mending, Mends
  <2>5. ASSUME running' => \E q \in Procs : mode[q] \in Configuring /\ Wanted(mode[q])[g] \subseteq selected'[g],
               \A k \in 2 .. n : ~Breaks(inbox[k], g)
        PROVE  Mending(g)'
    <3>1. \A k \in 1 .. n - 1 : k + 1 \in 2 .. n
      BY <1>1
    <3>2. \A k \in 1 .. n - 1 : ~Breaks(inbox'[k], g)
      BY <2>3, <2>5, <3>1
    <3>3. \A k \in 1 .. Len(inbox') : ~Breaks(inbox'[k], g)
      BY <1>1, <3>2
    <3> QED
      BY <1>2, <2>5, <3>3 DEF Mending, Mends, Breaks
  <2>6. ASSUME NEW j \in 1 .. n, Mends(inbox[j], g), \A k \in j + 1 .. n : ~Breaks(inbox[k], g)
        PROVE  Mending(g)'
    <3>1. CASE j = 1
      <4>1. r.op = "select" /\ r.group = g /\ r.items \subseteq selected'[g]
        BY <1>4, <2>6, <3>1 DEF Mends
      <4>2. PICK q \in Procs : mode[q] \in Configuring /\ r.items = Wanted(mode[q])[g]
        BY <2>6, <3>1 DEF SInv, Asked
      <4>3. \A k \in 2 .. n : ~Breaks(inbox[k], g)
        BY <2>6, <3>1
      <4> QED
        BY <2>5, <4>1, <4>2, <4>3
    <3>2. CASE j # 1
      <4>1. j - 1 \in 1 .. n - 1 /\ inbox'[j - 1] = inbox[j]
        BY <1>1, <2>3, <3>2
      <4>2. \A k \in j - 1 + 1 .. n - 1 : k + 1 \in j + 1 .. n /\ k \in 1 .. n - 1
        BY <1>1, <3>2
      <4>3. \A k \in j - 1 + 1 .. n - 1 : ~Breaks(inbox'[k], g)
        BY <2>3, <2>6, <4>2
      <4>4. Mends(inbox'[j - 1], g)
        BY <2>6, <4>1
      <4> QED
        BY <1>1, <4>1, <4>3, <4>4 DEF Mending, Mends, Breaks
    <3> QED
      BY <3>1, <3>2
  <2>7. CASE /\ running => \E q \in Procs : mode[q] \in Configuring /\ Wanted(mode[q])[g] \subseteq selected[g]
             /\ \A k \in 1 .. n : ~Breaks(inbox[k], g)
    <3>1. ~Breaks(r, g) /\ \A k \in 2 .. n : ~Breaks(inbox[k], g)
      BY <1>1, <2>7
    <3>2. CASE r.op = "select" /\ r.group = g
      <4>1. Mends(r, g)
        BY <3>1, <3>2 DEF Mends, Breaks
      <4>2. 1 \in 1 .. n /\ \A k \in 1 + 1 .. n : k \in 2 .. n
        BY <1>1
      <4> QED
        BY <2>6, <3>1, <4>1, <4>2
    <3>3. CASE r.op = "select" /\ r.group # g
      BY <1>3, <1>4, <2>2, <2>5, <2>7, <3>1, <3>3
    <3>4. CASE r.op = "period"
      BY <1>3, <1>4, <2>5, <2>7, <3>1, <3>4
    <3>5. CASE r.op = "stop"
      BY <1>3, <2>5, <3>1, <3>5
    <3> QED
      BY <1>3, <3>1, <3>2, <3>3, <3>4, <3>5 DEF Breaks
  <2> QED
    BY <2>1, <2>4, <2>6, <2>7 DEF Mending
<1> QED
  BY <1>4, <1>5, <1>6, <1>7, <1>8, <1>9 DEF SInv

\* SQuiet: what changes neither packets nor modem, and begins no command.
LEMMA SQuiet ==
    ASSUME SInv, mode' = mode, todo' = todo, inbox' = inbox, running' = running,
           selected' = selected, adds' = adds, latest' = latest, alone' = alone,
           pc' \in [Procs -> {"off", "writing", "streaming", "ended"}],
           \A p \in Procs : /\ pc'[p] = "off" <=> pc[p] = "off"
                            /\ pc'[p] = "writing" => pc[p] = "writing"
    PROVE  SInv'
<1>1. SessionTypeOK' /\ Mapped'
  BY DEF SInv, SessionTypeOK, Mapped
<1>2. InTurn'
  BY DEF SInv, InTurn, WrittenOf
<1>3. Unbegun'
  BY DEF SInv, SessionTypeOK, Unbegun, WrittenOf
<1>4. OnItsWay'
  BY DEF SInv, OnItsWay, Undisturbed, HandledOf, WrittenOf, ModemAfter
<1>5. Asked'
  BY DEF SInv, Asked, Mends
<1>6. Mended'
  <2>1. ASSUME NEW g \in Common PROVE Mending(g)' <=> Mending(g)
    BY Zenon DEF Mending, Mends, Breaks
  <2> QED
    BY <2>1 DEF SInv, Mended
<1> QED
  BY <1>1, <1>2, <1>3, <1>4, <1>5, <1>6 DEF SInv

\* MendsItself: behind a packet of a command that breaks a group there is one
\* that mends it.
LEMMA MendsItself ==
    ASSUME NEW m \in Modes, NEW g \in Common, NEW k \in 1 .. Len(PacketsOf(m)), Breaks(PacketsOf(m)[k], g)
    PROVE  \E i \in k + 1 .. Len(PacketsOf(m)) : Mends(PacketsOf(m)[i], g)
<1> DEFINE w == PacketsOf(m)
<1>1. CASE m \in Configuring
  <2>1. PICK e \in 1 .. 2 : g = GroupOrder[e]
    BY GroupsInOrder DEF Common
  <2>2. /\ Len(w) = (IF m = "all" THEN 12 ELSE 9)
        /\ \A i \in 1 .. 5 : w[2 + i] = Select(GroupOrder[i], {})
        /\ \A i \in 1 .. 5 : 7 + i <= Len(w) => w[7 + i] = Select(GroupOrder[i], Wanted(m)[GroupOrder[i]])
    BY <1>1, ConfigurationIs
  <2>3. 7 + e <= Len(w) /\ e \in 1 .. 5
    BY <2>2
  <2>4. Mends(w[7 + e], g)
    BY <1>1, <2>1, <2>2, <2>3, WantedItems DEF Mends, Select
  <2>5. k <= 7
    <3> SUFFICES ASSUME k > 7 PROVE FALSE
      BY <2>2
    <3>1. k - 7 \in 1 .. 5 /\ 7 + (k - 7) = k /\ 7 + (k - 7) <= Len(w)
      BY <2>2
    <3>2. w[k] = Select(GroupOrder[k - 7], Wanted(m)[GroupOrder[k - 7]])
      BY <2>2, <3>1
    <3>3. Breaks(w[k], g)
      OBVIOUS
    <3>4. GroupOrder[k - 7] = g /\ Wanted(m)[g] = {}
      BY <3>2, <3>3 DEF Breaks, Select
    <3> QED
      BY <1>1, <3>4, WantedItems
  <2>6. 7 + e \in k + 1 .. Len(w)
    BY <2>2, <2>3, <2>5
  <2> QED
    BY <2>4, <2>6
<1>2. CASE w = <<>>
  BY <1>2
<1>3. CASE w = <<Packet("stop")>>
  <2>1. k = 1 /\ w[1] = Packet("stop")
    BY <1>3
  <2> QED
    BY <2>1 DEF Breaks, Packet
<1> QED
  BY <1>1, <1>2, <1>3, CommandIs

\* SOpen: a process begins a command.
LEMMA SOpen == ASSUME SInv, NEW p \in Procs, NEW m \in Modes, Open(p, m) PROVE SInv'
<1> DEFINE w == PacketsOf(m)
<1>1. /\ pc[p] = "off" /\ mode' = [mode EXCEPT ![p] = m] /\ pc' = [pc EXCEPT ![p] = "writing"]
      /\ todo' = [todo EXCEPT ![p] = w] /\ alone' = alone \cup {p}
      /\ inbox' = inbox /\ running' = running /\ selected' = selected /\ adds' = adds /\ latest' = latest
  BY DEF Open, modemVars
<1>2. /\ mode \in [Procs -> Modes \cup {"none"}]
      /\ pc \in [Procs -> {"off", "writing", "streaming", "ended"}]
      /\ todo \in [Procs -> Seq(Packets)]
      /\ mode[p] = "none" /\ todo[p] = <<>>
  BY <1>1 DEF SInv, SessionTypeOK, InTurn
<1>3. /\ mode'[p] = m /\ todo'[p] = w /\ pc'[p] = "writing"
      /\ \A q \in Procs : q # p => mode'[q] = mode[q] /\ todo'[q] = todo[q] /\ pc'[q] = pc[q]
  BY <1>1, <1>2
<1>4. w \in Seq(Packets) /\ Len(w) \in Nat
  BY CommandIs
<1>5. SessionTypeOK' /\ Mapped'
  BY <1>1, <1>2, <1>4 DEF SInv, SessionTypeOK, Mapped
<1>6. Len(PacketsOf(mode'[p])) - Len(todo'[p]) = 0
  BY <1>3, <1>4
<1>7. InTurn'
  <2>1. ASSUME NEW q \in Procs, q # p
        PROVE  /\ pc'[q] = "off" => mode'[q] = "none" /\ todo'[q] = <<>>
               /\ pc'[q] # "off" => /\ mode'[q] \in Modes /\ Len(todo'[q]) <= Len(PacketsOf(mode'[q]))
                                    /\ \A i \in 1 .. Len(todo'[q]) :
                                          todo'[q][i] = PacketsOf(mode'[q])[
                                                            Len(PacketsOf(mode'[q])) - Len(todo'[q]) + i]
    <3>1. /\ pc[q] = "off" => mode[q] = "none" /\ todo[q] = <<>>
          /\ pc[q] # "off" => /\ mode[q] \in Modes /\ Len(todo[q]) <= Len(PacketsOf(mode[q]))
                              /\ \A i \in 1 .. Len(todo[q]) :
                                    todo[q][i] = PacketsOf(mode[q])[
                                                     Len(PacketsOf(mode[q])) - Len(todo[q]) + i]
      BY DEF SInv, InTurn, WrittenOf
    <3>2. mode'[q] = mode[q] /\ todo'[q] = todo[q] /\ pc'[q] = pc[q]
      BY <1>3, <2>1
    <3> QED
      BY <3>1, <3>2
  <2>2. Len(w) <= Len(w) /\ Len(w) - Len(w) = 0 /\ \A i \in 1 .. Len(w) : 0 + i = i
    BY <1>4
  <2>3. /\ mode'[p] \in Modes /\ Len(todo'[p]) <= Len(PacketsOf(mode'[p]))
        /\ \A i \in 1 .. Len(todo'[p]) :
              todo'[p][i] = PacketsOf(mode'[p])[Len(PacketsOf(mode'[p])) - Len(todo'[p]) + i]
    BY <1>3, <2>2
  <2> QED
    BY <1>3, <2>1, <2>3 DEF InTurn, WrittenOf
<1>8. Unbegun'
  BY <1>1, <1>2, <1>3, <1>6 DEF SInv, SessionTypeOK, Unbegun, WrittenOf
<1>9. ASSUME NEW q \in Procs PROVE mode[q] \in Configuring => q # p /\ mode'[q] = mode[q]
  <2>1. "none" \notin Configuring
    BY DEF Configuring, Profiles
  <2> QED
    BY <1>2, <1>3, <2>1
<1>10. OnItsWay'
  <2> SUFFICES ASSUME NEW q \in Procs, Undisturbed(q)'
               PROVE  /\ \A j \in 1 .. Len(inbox) : HandledOf(q)' + j >= 1 =>
                             inbox[j] = PacketsOf(mode'[q])[HandledOf(q)' + j]
                      /\ ModemAfter(mode[q], HandledOf(q))'
    BY <1>1 DEF OnItsWay
  <2>1. CASE q = p
    <3>1. HandledOf(q)' = 0 - Len(inbox) /\ Len(inbox) \in Nat
      BY <1>1, <1>6, <2>1, LenProperties DEF HandledOf, WrittenOf, SInv, SessionTypeOK
    <3>2. \A j \in 1 .. Len(inbox) : ~(HandledOf(q)' + j >= 1)
      BY <3>1
    <3>3. ~(HandledOf(q)' >= 1) /\ \A i \in 1 .. 5 : ~(HandledOf(q)' >= 2 + i)
      BY <3>1
    <3> QED
      BY <3>2, <3>3 DEF ModemAfter
  <2>2. CASE q # p
    BY ZenonT(60), <1>1, <1>3, <2>2 DEF SInv, OnItsWay, Undisturbed, HandledOf, WrittenOf, ModemAfter
  <2> QED
    BY <2>1, <2>2
<1>11. Asked'
  <2>1. ASSUME NEW j \in 1 .. Len(inbox), NEW g \in Common, Mends(inbox[j], g)
        PROVE  \E q \in Procs : mode'[q] \in Configuring /\ inbox[j].items = Wanted(mode'[q])[g]
    <3>1. PICK q \in Procs : mode[q] \in Configuring /\ inbox[j].items = Wanted(mode[q])[g]
      BY <2>1 DEF SInv, Asked
    <3> QED
      BY <1>9, <3>1
  <2> QED
    BY <1>1, <2>1 DEF Asked, Mends
<1>12. Mended'
  <2> SUFFICES ASSUME NEW x \in Procs, mode'[x] \in Configuring, NEW g \in Common PROVE Mending(g)'
    BY DEF Mended
  <2>1. CASE m \in Configuring
    <3>1. Len(w) >= 1 /\ w[1] = Packet("start")
      BY <2>1, ConfigurationIs
    <3>2. 1 \in 1 .. Len(w) /\ Breaks(w[1], g)
      BY <1>4, <3>1 DEF Breaks, Packet
    <3>3. PICK i \in 1 + 1 .. Len(w) : Mends(w[i], g)
      BY <3>2, MendsItself
    <3>4. i \in 1 .. Len(w)
      BY <1>4
    <3> QED
      BY <1>3, <3>3, <3>4 DEF Mending, Mends
  <2>2. CASE m \notin Configuring
    <3>1. x # p /\ mode[x] \in Configuring
      BY <1>3, <2>2
    <3>2. Mending(g)
      BY <3>1 DEF SInv, Mended
    <3>3. ASSUME NEW q \in Procs, NEW i \in 1 .. Len(todo[q]), Mends(todo[q][i], g)
          PROVE  i \in 1 .. Len(todo'[q]) /\ Mends(todo'[q][i], g)
      <4>1. q # p
        BY <1>2
      <4> QED
        BY <1>3, <3>3, <4>1
    <3>4. (\E q \in Procs : mode[q] \in Configuring /\ Wanted(mode[q])[g] \subseteq selected[g])
          => \E q \in Procs : mode'[q] \in Configuring /\ Wanted(mode'[q])[g] \subseteq selected'[g]
      BY <1>1, <1>9
    <3>5. CASE \E q \in Procs : \E i \in 1 .. Len(todo[q]) : Mends(todo[q][i], g)
      BY <3>3, <3>5 DEF Mending, Mends
    <3>6. CASE \E j \in 1 .. Len(inbox) : /\ Mends(inbox[j], g)
                                          /\ \A k \in j + 1 .. Len(inbox) : ~Breaks(inbox[k], g)
      BY <1>1, <3>6, ZenonT(60) DEF Mending, Mends, Breaks
    <3>7. CASE /\ running => \E q \in Procs : mode[q] \in Configuring /\ Wanted(mode[q])[g] \subseteq selected[g]
               /\ \A k \in 1 .. Len(inbox) : ~Breaks(inbox[k], g)
      <4>1. running' => \E q \in Procs : mode'[q] \in Configuring /\ Wanted(mode'[q])[g] \subseteq selected'[g]
        BY <1>1, <3>4, <3>7
      <4>2. \A k \in 1 .. Len(inbox') : ~Breaks(inbox'[k], g)
        BY <1>1, <3>7
      <4> QED
        BY <4>1, <4>2, Zenon DEF Mending, Mends, Breaks
    <3> QED
      BY <3>2, <3>5, <3>6, <3>7 DEF Mending
  <2> QED
    BY <2>1, <2>2
<1> QED
  BY <1>5, <1>7, <1>8, <1>10, <1>11, <1>12 DEF SInv

\* SWrite: a process writes its next packet.
LEMMA SWrite == ASSUME SInv, NEW p \in Procs, Write(p) PROVE SInv'
<1> DEFINE m == mode[p]
           w == PacketsOf(m)
           n == Len(inbox)
           l == Len(todo[p])
           h == todo[p][1]
           d == Len(w) - l
<1>1. /\ pc[p] = "writing" /\ todo[p] # <<>> /\ n < MaxInbox
      /\ inbox' = Append(inbox, Head(todo[p])) /\ todo' = [todo EXCEPT ![p] = Tail(@)]
      /\ latest' = p /\ alone' = alone \ {q \in Procs : q # p /\ pc[q] = "writing"}
      /\ mode' = mode /\ pc' = pc /\ running' = running /\ selected' = selected /\ adds' = adds
  BY DEF Write, modemVars
<1>2. /\ inbox \in Seq(Packets) /\ n \in Nat /\ todo \in [Procs -> Seq(Packets)] /\ todo[p] \in Seq(Packets)
      /\ pc \in [Procs -> {"off", "writing", "streaming", "ended"}] /\ alone \subseteq Procs
  BY LenProperties DEF SInv, SessionTypeOK
<1>3. /\ l \in Nat /\ l >= 1 /\ Head(todo[p]) = h /\ h \in Packets
      /\ Tail(todo[p]) \in Seq(Packets) /\ Len(Tail(todo[p])) = l - 1
      /\ \A i \in 1 .. l - 1 : Tail(todo[p])[i] = todo[p][i + 1]
  <2> DEFINE t == todo[p]
  <2>1. t \in Seq(Packets) /\ t # <<>>
    BY <1>1, <1>2
  <2> HIDE DEF t
  <2>2. Len(t) \in Nat /\ Len(t) # 0
    BY <2>1, EmptySeq, LenProperties
  <2>3. 1 \in 1 .. Len(t)
    BY <2>2
  <2>4. t[1] \in Packets
    BY <2>1, <2>3, ElementOfSeq
  <2>5. /\ Head(t) = t[1] /\ Tail(t) \in Seq(Packets) /\ Len(Tail(t)) = Len(t) - 1
        /\ \A i \in 1 .. Len(t) - 1 : Tail(t)[i] = t[i + 1]
    BY <2>1, <2>2, HeadTailProperties
  <2>6. Len(t) \in Nat /\ Len(t) >= 1
    BY <2>2
  <2> QED
    BY <2>4, <2>5, <2>6 DEF t
<1>4. /\ todo'[p] = Tail(todo[p]) /\ \A q \in Procs : q # p => todo'[q] = todo[q]
  BY <1>1, <1>2
<1>5. /\ m \in Modes /\ l <= Len(w) /\ \A i \in 1 .. l : todo[p][i] = w[d + i]
  BY <1>1 DEF SInv, InTurn, WrittenOf
<1>6. w \in Seq(Packets) /\ Len(w) \in Nat
  BY <1>5, CommandIs
<1>7. /\ inbox' \in Seq(Packets) /\ Len(inbox') = n + 1 /\ inbox'[n + 1] = h
      /\ \A j \in 1 .. n : inbox'[j] = inbox[j]
  BY <1>1, <1>2, <1>3, AppendProperties
<1> HIDE DEF m, w, n, l, h
<1>8. d \in Nat /\ d + 1 \in 1 .. Len(w) /\ h = w[d + 1]
  <2>1. 1 \in 1 .. l
    BY <1>3
  <2> QED
    BY <1>3, <1>5, <1>6, <2>1 DEF h
<1>9. SessionTypeOK' /\ Mapped'
  <2>1. todo' \in [Procs -> Seq(Packets)]
    BY <1>1, <1>2, <1>3
  <2>2. Len(inbox') <= MaxInbox
    BY <1>1, <1>2, <1>7, SessionAssumption
  <2> QED
    BY <1>1, <1>7, <2>1, <2>2 DEF SInv, SessionTypeOK, Mapped
<1>10. InTurn'
  <2>1. /\ Len(todo'[p]) = l - 1 /\ Len(todo'[p]) <= Len(w)
        /\ \A i \in 1 .. l - 1 : todo'[p][i] = w[Len(w) - Len(todo'[p]) + i]
    <3>1. Len(todo'[p]) = l - 1 /\ l - 1 <= Len(w)
      BY <1>3, <1>4, <1>5, <1>6
    <3>2. ASSUME NEW i \in 1 .. l - 1 PROVE todo'[p][i] = w[Len(w) - Len(todo'[p]) + i]
      <4>1. i + 1 \in 1 .. l /\ d + (i + 1) = Len(w) - (l - 1) + i
        BY <1>3, <1>6
      <4> QED
        BY ZenonT(60), <1>3, <1>4, <1>5, <3>1, <4>1
    <3> QED
      BY <3>1, <3>2
  <2>2. ASSUME NEW q \in Procs
        PROVE  /\ pc'[q] = "off" => mode'[q] = "none" /\ todo'[q] = <<>>
               /\ pc'[q] # "off" => /\ mode'[q] \in Modes /\ Len(todo'[q]) <= Len(PacketsOf(mode'[q]))
                                    /\ \A i \in 1 .. Len(todo'[q]) :
                                          todo'[q][i] = PacketsOf(mode'[q])[
                                                            Len(PacketsOf(mode'[q])) - Len(todo'[q]) + i]
    <3>1. CASE q = p
      BY <1>1, <1>5, <2>1, <3>1 DEF w, m
    <3>2. CASE q # p
      <4>1. /\ pc[q] = "off" => mode[q] = "none" /\ todo[q] = <<>>
            /\ pc[q] # "off" => /\ mode[q] \in Modes /\ Len(todo[q]) <= Len(PacketsOf(mode[q]))
                                /\ \A i \in 1 .. Len(todo[q]) :
                                      todo[q][i] = PacketsOf(mode[q])[
                                                       Len(PacketsOf(mode[q])) - Len(todo[q]) + i]
        BY DEF SInv, InTurn, WrittenOf
      <4> QED
        BY <1>1, <1>4, <3>2, <4>1
    <3> QED
      BY <3>1, <3>2
  <2> QED
    BY <2>2 DEF InTurn, WrittenOf
<1>11. Unbegun'
  <2>1. \A q \in alone' : q = p \/ pc[q] # "writing"
    BY <1>1, <1>2
  <2> QED
    BY <1>1, <2>1 DEF Unbegun
<1>12. OnItsWay'
  <2> SUFFICES ASSUME p \in alone', m \in Configuring
               PROVE  /\ \A j \in 1 .. n + 1 : HandledOf(p)' + j >= 1 => inbox'[j] = w[HandledOf(p)' + j]
                      /\ ModemAfter(mode[p], HandledOf(p))'
    BY <1>1, <1>7 DEF OnItsWay, Undisturbed, w, m
  <2>1. p \in alone
    BY <1>1
  <2>2. HandledOf(p)' = d + 1 - (n + 1) /\ HandledOf(p) = d - n
    <3>1. Len(todo'[p]) = l - 1
      BY <1>3, <1>4
    <3>2. HandledOf(p)' = (Len(w) - (l - 1)) - (n + 1)
      BY <1>1, <1>7, <3>1 DEF HandledOf, WrittenOf, w, m
    <3>3. HandledOf(p) = (Len(w) - l) - n
      BY DEF HandledOf, WrittenOf, w, m, l, n
    <3> DEFINE a == Len(w)
    <3>4. /\ a \in Nat /\ l \in Nat /\ n \in Nat /\ d = a - l
          /\ HandledOf(p)' = (a - (l - 1)) - (n + 1) /\ HandledOf(p) = (a - l) - n
      BY <1>2, <1>3, <1>6, <3>2, <3>3
    <3> HIDE DEF a, d, l, n
    <3> QED
      BY <3>4
  <2> DEFINE e == HandledOf(p)
  <2>3. e = d - n /\ HandledOf(p)' = e /\ e \in Int /\ e + (n + 1) = d + 1
    <3> HIDE DEF d
    <3> QED
      BY <1>2, <1>8, <2>2
  <2> HIDE DEF e, d
  <2>4. CASE latest = p
    <3>1. /\ \A j \in 1 .. n : e + j >= 1 => inbox[j] = w[e + j]
          /\ ModemAfter(m, e)
      BY <2>1, <2>4 DEF SInv, OnItsWay, Undisturbed, w, m, n, e
    <3>2. ASSUME NEW j \in 1 .. n + 1, e + j >= 1 PROVE inbox'[j] = w[e + j]
      <4>1. CASE j \in 1 .. n
        BY <1>7, <3>1, <3>2, <4>1
      <4>2. CASE j = n + 1
        BY <1>7, <1>8, <2>3, <4>2
      <4> QED
        BY <1>2, <4>1, <4>2
    <3>3. ModemAfter(mode[p], HandledOf(p))'
      BY <1>1, <2>3, <3>1 DEF ModemAfter, m
    <3> QED
      BY <2>3, <3>2, <3>3
  <2>5. CASE latest # p
    <3>1. d = 0
      BY <1>1, <2>1, <2>5 DEF SInv, Unbegun, WrittenOf, d, w, m, l
    <3>2. ASSUME NEW j \in 1 .. n + 1, e + j >= 1 PROVE inbox'[j] = w[e + j]
      <4>1. j = n + 1 /\ e + j = d + 1
        BY <1>2, <2>3, <3>1, <3>2
      <4> QED
        BY <1>7, <1>8, <4>1
    <3>3. ~(e >= 1) /\ \A i \in 1 .. 5 : ~(e >= 2 + i)
      BY <1>2, <2>3, <3>1
    <3>4. ModemAfter(mode[p], HandledOf(p))'
      BY <2>3, <3>3 DEF ModemAfter
    <3> QED
      BY <2>3, <3>2, <3>4
  <2> QED
    BY <2>4, <2>5
<1>13. Asked'
  <2> SUFFICES ASSUME NEW j \in 1 .. n + 1, NEW g \in Common, Mends(inbox'[j], g)
               PROVE  \E q \in Procs : mode[q] \in Configuring /\ inbox'[j].items = Wanted(mode[q])[g]
    BY <1>1, <1>7 DEF Asked, Mends
  <2>1. CASE j \in 1 .. n
    BY <1>7, <2>1 DEF SInv, Asked, n
  <2>2. CASE j = n + 1
    <3>1. Mends(w[d + 1], g)
      BY <1>7, <1>8, <2>2
    <3>2. m \in Configuring
      <4>1. w # <<>>
        BY <1>8
      <4>2. w # <<Packet("stop")>>
        <5> SUFFICES ASSUME w = <<Packet("stop")>> PROVE FALSE
          OBVIOUS
        <5>1. Len(w) = 1 /\ w[1] = Packet("stop")
          OBVIOUS
        <5>2. d + 1 = 1
          <6> HIDE DEF d
          <6> QED
            BY <1>8, <5>1
        <5> QED
          BY <3>1, <5>1, <5>2 DEF Mends, Packet
      <4> QED
        BY <1>5, <4>1, <4>2, CommandIs DEF w
    <3>3. w[d + 1].items = Wanted(m)[g]
      <4> HIDE DEF d
      <4>1. /\ Len(w) = (IF m = "all" THEN 12 ELSE 9)
            /\ w[1] = Packet("start") /\ w[2] = Packet("period")
            /\ \A i \in 1 .. 5 : w[2 + i] = Select(GroupOrder[i], {})
            /\ \A i \in 1 .. 5 : 7 + i <= Len(w) => w[7 + i] = Select(GroupOrder[i], Wanted(m)[GroupOrder[i]])
        BY <3>2, ConfigurationIs DEF w
      <4>2. d + 1 # 1 /\ d + 1 # 2
        BY <3>1, <4>1 DEF Mends, Packet
      <4>3. ~(d + 1 \in 3 .. 7)
        <5> SUFFICES ASSUME d + 1 \in 3 .. 7 PROVE FALSE
          OBVIOUS
        <5>1. d - 1 \in 1 .. 5 /\ 2 + (d - 1) = d + 1
          BY <1>8
        <5>2. w[d + 1] = Select(GroupOrder[d - 1], {})
          BY <4>1, <5>1
        <5> QED
          BY <3>1, <5>2 DEF Mends, Select
      <4>4. d - 6 \in 1 .. 5 /\ 7 + (d - 6) = d + 1 /\ 7 + (d - 6) <= Len(w)
        BY <1>8, <4>1, <4>2, <4>3
      <4>5. w[d + 1] = Select(GroupOrder[d - 6], Wanted(m)[GroupOrder[d - 6]])
        BY <4>1, <4>4
      <4>6. GroupOrder[d - 6] = g
        BY <3>1, <4>5 DEF Mends, Select
      <4> QED
        BY <4>5, <4>6 DEF Select
    <3> QED
      BY <1>7, <1>8, <2>2, <3>2, <3>3 DEF m
  <2> QED
    BY <1>2, <2>1, <2>2
<1>14. Mended'
  <2> SUFFICES ASSUME NEW x \in Procs, mode[x] \in Configuring, NEW g \in Common PROVE Mending(g)'
    BY <1>1 DEF Mended
  <2>1. Mending(g)
    BY DEF SInv, Mended
  <2>2. ASSUME NEW q \in Procs, NEW i \in 1 .. Len(todo'[q]), Mends(todo'[q][i], g) PROVE Mending(g)'
    BY <2>2 DEF Mending, Mends
  <2>3. ASSUME NEW j \in 1 .. n + 1, Mends(inbox'[j], g), \A k \in j + 1 .. n + 1 : ~Breaks(inbox'[k], g)
        PROVE  Mending(g)'
    BY <1>7, <2>3 DEF Mending, Mends, Breaks
  <2>4. CASE Breaks(h, g)
    <3> HIDE DEF d
    <3>1. PICK i \in d + 1 + 1 .. Len(w) : Mends(w[i], g)
      BY <1>5, <1>8, <2>4, MendsItself DEF w
    <3>2. i - (d + 1) \in 1 .. l - 1 /\ i - (d + 1) + 1 \in 1 .. l /\ d + (i - (d + 1) + 1) = i
      BY <1>3, <1>6, <1>8 DEF d
    <3>3. todo'[p][i - (d + 1)] = w[i]
      BY <1>3, <1>4, <1>5, <3>2
    <3>4. i - (d + 1) \in 1 .. Len(todo'[p])
      BY <1>3, <1>4, <3>2
    <3> QED
      BY <2>2, <3>1, <3>3, <3>4
  <2>5. CASE Mends(h, g)
    <3>1. n + 1 \in 1 .. n + 1 /\ \A k \in n + 1 + 1 .. n + 1 : FALSE
      BY <1>2
    <3> QED
      BY <1>7, <2>3, <2>5, <3>1
  <2>6. CASE ~Breaks(h, g) /\ ~Mends(h, g)
    <3>1. ASSUME NEW q \in Procs, NEW i \in 1 .. Len(todo[q]), Mends(todo[q][i], g) PROVE Mending(g)'
      <4>1. CASE q # p
        BY <1>4, <2>2, <3>1, <4>1
      <4>2. CASE q = p
        <5>1. i \in 1 .. l /\ i # 1
          BY <2>6, <3>1, <4>2 DEF h, l
        <5>2. i - 1 \in 1 .. l - 1 /\ i - 1 + 1 = i
          BY <1>3, <5>1
        <5>3. todo'[p][i - 1] = todo[p][i] /\ i - 1 \in 1 .. Len(todo'[p])
          BY <1>3, <1>4, <5>2
        <5> QED
          BY <2>2, <3>1, <4>2, <5>3
      <4> QED
        BY <4>1, <4>2
    <3>2. ASSUME NEW j \in 1 .. n, Mends(inbox[j], g), \A k \in j + 1 .. n : ~Breaks(inbox[k], g)
          PROVE  Mending(g)'
      <4>1. j \in 1 .. n + 1 /\ Mends(inbox'[j], g)
        BY <1>2, <1>7, <3>2
      <4>2. ASSUME NEW k \in j + 1 .. n + 1 PROVE ~Breaks(inbox'[k], g)
        <5>1. CASE k = n + 1
          BY <1>7, <2>6, <5>1
        <5>2. CASE k # n + 1
          <6>1. k \in j + 1 .. n /\ k \in 1 .. n
            BY <1>2, <5>2
          <6> QED
            BY <1>7, <3>2, <6>1
        <5> QED
          BY <5>1, <5>2
      <4> QED
        BY <2>3, <4>1, <4>2
    <3>3. ASSUME running => \E q \in Procs : mode[q] \in Configuring /\ Wanted(mode[q])[g] \subseteq selected[g],
                 \A k \in 1 .. n : ~Breaks(inbox[k], g)
          PROVE  Mending(g)'
      <4>1. ASSUME NEW k \in 1 .. n + 1 PROVE ~Breaks(inbox'[k], g)
        <5>1. CASE k = n + 1
          BY <1>7, <2>6, <5>1
        <5>2. CASE k # n + 1
          <6>1. k \in 1 .. n
            BY <1>2, <5>2
          <6> QED
            BY <1>7, <3>3, <6>1
        <5> QED
          BY <5>1, <5>2
      <4>2. running' => \E q \in Procs : mode'[q] \in Configuring /\ Wanted(mode'[q])[g] \subseteq selected'[g]
        BY <1>1, <3>3
      <4> QED
        BY <1>7, <4>1, <4>2, Zenon DEF Mending, Mends, Breaks
    <3> QED
      BY <2>1, <3>1, <3>2, <3>3 DEF Mending, n
  <2> QED
    BY <2>4, <2>5, <2>6
<1> QED
  BY <1>9, <1>10, <1>11, <1>12, <1>13, <1>14 DEF SInv

LEMMA SNext == SInv /\ [SessionNext]_sessionVars => SInv'
<1> SUFFICES ASSUME SInv, [SessionNext]_sessionVars PROVE SInv'
  OBVIOUS
<1>1. CASE Handle
  BY <1>1, SHandle
<1>2. ASSUME NEW p \in Procs, NEW m \in Modes, Open(p, m) PROVE SInv'
  BY <1>2, SOpen
<1>3. ASSUME NEW p \in Procs, Write(p) PROVE SInv'
  BY <1>3, SWrite
<1>4. ASSUME NEW p \in Procs, Written(p) \/ Ends(p) PROVE SInv'
  <2>1. /\ mode' = mode /\ todo' = todo /\ inbox' = inbox /\ running' = running
        /\ selected' = selected /\ adds' = adds /\ latest' = latest /\ alone' = alone
        /\ pc[p] \in {"writing", "streaming"}
        /\ \E x \in {"streaming", "ended"} : pc' = [pc EXCEPT ![p] = x]
    BY <1>4 DEF Written, Ends, modemVars
  <2>2. pc \in [Procs -> {"off", "writing", "streaming", "ended"}]
    BY DEF SInv, SessionTypeOK
  <2>3. /\ pc' \in [Procs -> {"off", "writing", "streaming", "ended"}]
        /\ \A q \in Procs : /\ pc'[q] = "off" <=> pc[q] = "off"
                            /\ pc'[q] = "writing" => pc[q] = "writing"
    BY <2>1, <2>2
  <2> QED
    BY <2>1, <2>3, SQuiet
<1>5. CASE UNCHANGED sessionVars
  <2>1. /\ mode' = mode /\ todo' = todo /\ inbox' = inbox /\ running' = running
        /\ selected' = selected /\ adds' = adds /\ latest' = latest /\ alone' = alone /\ pc' = pc
    BY <1>5 DEF sessionVars, procVars, modemVars
  <2>2. pc' \in [Procs -> {"off", "writing", "streaming", "ended"}]
    BY <2>1 DEF SInv, SessionTypeOK
  <2> QED
    BY <2>1, <2>2, SQuiet
<1> QED
  BY <1>1, <1>2, <1>3, <1>4, <1>5 DEF SessionNext

\* The inductive invariant of the sessions.
THEOREM SessionInvariance == SessionSpec => []SInv
<1> QED
  BY SInit, SNext, PTL DEF SessionSpec

\* The processes, the line to the modem and the modem have their types.
THEOREM SessionTypes == SessionSpec => []SessionTypeOK
<1>1. SInv => SessionTypeOK
  BY DEF SInv
<1> QED
  BY <1>1, SessionInvariance, PTL

\* A configuration that nobody wrote into or after is what the modem logs, for
\* any processes and any modem of this kind: whatever it had selected, whatever
\* was broken off before, and however it takes a list of items.
THEOREM SelectionIsExact == SessionSpec => []SelectionExact
<1>1. SInv => SelectionExact
  <2> SUFFICES ASSUME SInv, inbox = <<>>, NEW p \in alone, Configured(p), latest = p
               PROVE  running /\ selected = Wanted(mode[p])
    BY DEF SelectionExact
  <2> DEFINE m == mode[p]
             w == PacketsOf(m)
  <2>1. p \in Procs /\ m \in Configuring /\ todo[p] = <<>>
    BY DEF SInv, SessionTypeOK, Configured
  <2>2. Len(w) = IF m = "all" THEN 12 ELSE 9
    BY <2>1, ConfigurationIs
  <2>3. HandledOf(p) = Len(w)
    <3>1. Len(todo[p]) = 0 /\ Len(inbox) = 0
      BY <2>1, EmptySeq
    <3> QED
      BY <2>2, <3>1 DEF HandledOf, WrittenOf
  <2>4. ModemAfter(m, Len(w))
    BY <2>1, <2>3 DEF SInv, OnItsWay, Undisturbed
  <2>5. Len(w) \in 9 .. 12
    BY <2>2
  <2>6. running /\ \A i \in 1 .. 5 :
            selected[GroupOrder[i]] = IF Len(w) >= 7 + i THEN Wanted(m)[GroupOrder[i]] ELSE {}
    <3> DEFINE a == Len(w)
    <3>1. ModemAfter(m, a) /\ a \in 9 .. 12
      BY <2>4, <2>5
    <3> HIDE DEF a, m
    <3>2. running /\ \A i \in 1 .. 5 :
              selected[GroupOrder[i]] = IF a >= 7 + i THEN Wanted(m)[GroupOrder[i]] ELSE {}
      BY <3>1 DEF ModemAfter
    <3> QED
      BY <3>2 DEF a, m
  <2> HIDE DEF w, m
  <2>7. ASSUME NEW i \in 1 .. 5 PROVE selected[GroupOrder[i]] = Wanted(m)[GroupOrder[i]]
    <3>1. CASE Len(w) >= 7 + i
      BY <2>6, <3>1
    <3>2. CASE ~(Len(w) >= 7 + i)
      <4>1. m # "all" /\ i # 1 /\ i # 2
        BY <2>2, <3>2
      <4>2. GroupOrder[i] \in Groups \ Common
        BY <4>1, GroupsInOrder DEF Common
      <4> QED
        BY <2>1, <2>6, <3>2, <4>1, <4>2, WantedItems
    <3> QED
      BY <3>1, <3>2
  <2>8. \A g \in Groups : selected[g] = Wanted(m)[g]
    BY <2>7, GroupsInOrder
  <2>9. selected = [g \in Groups |-> selected[g]] /\ Wanted(m) = [g \in Groups |-> Wanted(m)[g]]
    BY <2>1, WantedItems DEF SInv, Mapped
  <2> QED
    BY <2>6, <2>8, <2>9 DEF m
<1> QED
  BY <1>1, SessionInvariance, PTL

\* Configurations that mix leave no hole in either of the groups that all of
\* them select, for any number of processes, if none of them is broken off.
THEOREM ModemIsNotSilenced == SessionSpec => []NotSilenced
<1>1. SInv => NotSilenced
  <2> SUFFICES ASSUME SInv, inbox = <<>>, running, ~BrokenOff, NEW p \in Procs, Configured(p),
                      NEW g \in Common
               PROVE  \E q \in Procs : Configured(q) /\ Wanted(mode[q])[g] \subseteq selected[g]
    BY DEF NotSilenced, Common
  <2>1. Mending(g)
    BY DEF SInv, Mended, Configured
  <2>2. Len(inbox) = 0 /\ \A q \in Procs : todo[q] = <<>> /\ Len(todo[q]) = 0
    BY EmptySeq DEF BrokenOff
  <2>3. PICK q \in Procs : mode[q] \in Configuring /\ Wanted(mode[q])[g] \subseteq selected[g]
    BY <2>1, <2>2 DEF Mending
  <2>4. pc[q] # "off"
    <3>1. "none" \notin Configuring
      BY DEF Configuring, Profiles
    <3> QED
      BY <2>3, <3>1 DEF SInv, InTurn
  <2> QED
    BY <2>2, <2>3, <2>4 DEF Configured
<1> QED
  BY <1>1, SessionInvariance, PTL

-----------------------------------------------------------------------------
\* What a process has yet to write takes the line twice: into it and out of it.
ToCome(p) == 2 * Len(todo[p]) + Len(inbox)

\* ConfigurationGetsOn: until somebody else writes to the modem, no step brings
\* anything new between a process and the modem: it takes a packet on its way,
\* or leaves the packets and the modem as they are.  So a configuration that is
\* neither broken off nor written into is through after as many steps as it
\* has packets, twice over (ConfigurationTakesHold).
ConfigurationGetsOn ==
    [][\A p \in Procs : pc[p] # "off" /\ latest' = p =>
          \/ ToCome(p)' < ToCome(p)
          \/ UNCHANGED <<todo[p], inbox, modemVars>>]_sessionVars

LEMMA HandleTakes ==
    ASSUME SessionTypeOK, NEW p \in Procs, Handle
    PROVE  ToCome(p)' < ToCome(p)
<1>1. /\ inbox \in Seq(Packets) /\ inbox # <<>> /\ inbox' = Tail(inbox) /\ todo' = todo
      /\ Len(todo[p]) \in Nat
  BY LenProperties DEF SessionTypeOK, Handle, procVars
<1>2. Len(inbox) \in Nat /\ Len(inbox') = Len(inbox) - 1
  BY <1>1
<1>3. ToCome(p)' = 2 * Len(todo[p]) + (Len(inbox) - 1)
  BY <1>1, <1>2 DEF ToCome
<1> QED
  BY <1>1, <1>2, <1>3 DEF ToCome

LEMMA WriteTakes ==
    ASSUME SessionTypeOK, NEW p \in Procs, Write(p)
    PROVE  ToCome(p)' < ToCome(p)
<1> DEFINE t == todo[p]
<1>1. /\ inbox \in Seq(Packets) /\ t \in Seq(Packets) /\ t # <<>>
      /\ todo'[p] = Tail(t) /\ inbox' = Append(inbox, Head(t))
  BY DEF SessionTypeOK, Write
<1> HIDE DEF t
<1>2. Len(t) \in Nat /\ Len(Tail(t)) = Len(t) - 1
  BY <1>1
<1>3. Len(inbox) \in Nat /\ Len(inbox') = Len(inbox) + 1
  <2>1. Head(t) \in Packets
    BY <1>1
  <2> QED
    BY <1>1, <2>1, AppendProperties, LenProperties
<1>4. ToCome(p)' = 2 * (Len(t) - 1) + (Len(inbox) + 1) /\ ToCome(p) = 2 * Len(t) + Len(inbox)
  BY <1>1, <1>2, <1>3 DEF ToCome, t
<1> QED
  BY <1>2, <1>3, <1>4

\* A configuration that is left alone gets to its end, for any number of
\* processes, any commands in use and any line to the modem.
THEOREM ConfigurationsGetOn == SessionSpec => ConfigurationGetsOn
<1> DEFINE P == \A p \in Procs : pc[p] # "off" /\ latest' = p =>
                   \/ ToCome(p)' < ToCome(p)
                   \/ UNCHANGED <<todo[p], inbox, modemVars>>
<1>1. SessionTypeOK /\ SessionNext => P
  <2> SUFFICES ASSUME SessionTypeOK, SessionNext, NEW p \in Procs, pc[p] # "off", latest' = p
               PROVE  ToCome(p)' < ToCome(p) \/ UNCHANGED <<todo[p], inbox, modemVars>>
    OBVIOUS
  <2>1. CASE Handle
    BY <2>1, HandleTakes
  <2>2. ASSUME NEW q \in Procs, NEW m \in Modes, Open(q, m)
        PROVE  UNCHANGED <<todo[p], inbox, modemVars>>
    <3>1. q # p /\ todo' = [todo EXCEPT ![q] = PacketsOf(m)] /\ UNCHANGED <<inbox, modemVars>>
      BY <2>2 DEF Open
    <3> QED
      BY <3>1 DEF SessionTypeOK
  <2>3. ASSUME NEW q \in Procs, Write(q) PROVE ToCome(p)' < ToCome(p)
    <3>1. q = p
      BY <2>3 DEF Write
    <3> QED
      BY <2>3, <3>1, WriteTakes
  <2>4. ASSUME NEW q \in Procs, Written(q) \/ Ends(q)
        PROVE  UNCHANGED <<todo[p], inbox, modemVars>>
    BY <2>4 DEF Written, Ends
  <2> QED
    BY <2>1, <2>2, <2>3, <2>4 DEF SessionNext
<1> QED
  BY <1>1, SessionTypes, PTL DEF ConfigurationGetsOn, SessionSpec
=============================================================================
