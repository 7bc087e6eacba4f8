------------------------- MODULE VendorRecordsProofs ------------------------
(***************************************************************************)
(* What VendorRecords shows of files of a few bytes, for files of any      *)
(* length, any header and any limit: where the reader stands between two   *)
(* borders is what all of it follows from.                                 *)
(***************************************************************************)
EXTENDS VendorRecords, SequenceTheorems, TLAPS

FrameType == [vendor : {"mediatek", "samsung"}, code : Bytes, from : Nat, to : Nat]

\* InRecord: how far the reader is in the record that begins behind `start`,
\* and what it has checked of it.
InRecord ==
    /\ pc = "header" => format # "raw" /\ at <= HeaderEnd
    /\ pc = "payload" => /\ format # "raw" /\ HeaderEnd <= at /\ at <= RecordEnd
    /\ pc \in {"raw", "raw_read"} => format = "raw" /\ frames = <<>> /\ start = 0
    /\ pc = "raw" => at = 0
    /\ pc = "raw_read" => log \in Bytes /\ RawVendor # "none" /\ at <= Wanted
    /\ pc = "done" <=> result # "running"

IInv == TypeOK /\ InRecord /\ Tiled /\ EndIsHonest

-----------------------------------------------------------------------------
\* BytesAreNumbers: a byte is a number, and NoLog is none of them.
LEMMA BytesAreNumbers == Bytes \subseteq Nat /\ NoLog \notin Bytes
BY RecordAssumption

\* InitInv: a command begins in the invariant.
LEMMA InitInv == Init => IInv
<1> SUFFICES ASSUME Init PROVE IInv
  OBVIOUS
<1>1. PICK n \in 0 .. MaxStream : file \in [1 .. n -> Bytes]
  BY DEF Init
<1>2. n \in Nat
  BY RecordAssumption
<1>3. file \in Seq(Bytes) /\ Len(file) = n
  BY <1>1, <1>2
<1>4. TypeOK
  BY <1>2, <1>3 DEF Init, TypeOK, Codes
<1>5. InRecord
  BY RecordAssumption DEF Init, InRecord, HeaderEnd
<1>6. Tiled /\ EndIsHonest
  BY DEF Init, Tiled, EndIsHonest
<1> QED
  BY <1>4, <1>5, <1>6 DEF IInv

-----------------------------------------------------------------------------
\* WantedInFile: what a raw file is read for is in it.
LEMMA WantedInFile == ASSUME TypeOK PROVE Wanted \in Nat /\ Wanted <= Len(file)
BY RecordAssumption DEF TypeOK, Wanted

\* RecordInFile: a record whose header has been read has a code and a length.
LEMMA RecordInFile ==
    ASSUME TypeOK, HeaderEnd <= at
    PROVE  /\ Code \in Bytes /\ Length \in Bytes /\ Length \in Nat
           /\ HeaderEnd \in Nat /\ RecordEnd \in Nat /\ start < HeaderEnd
<1>1. /\ start \in Nat /\ Header \in Nat /\ Header >= 2 /\ at <= Len(file) /\ Len(file) \in Nat
      /\ file \in Seq(Bytes) /\ start + Header <= at /\ at \in Nat
  BY RecordAssumption DEF TypeOK, HeaderEnd
<1>2. start + 1 \in 1 .. Len(file) /\ start + 2 \in 1 .. Len(file)
  BY <1>1
<1>3. Code \in Bytes /\ Length \in Bytes
  BY <1>1, <1>2, ElementOfSeq DEF Code, Length
<1>4. Length \in Nat
  BY <1>3, BytesAreNumbers
<1> QED
  BY <1>1, <1>3, <1>4 DEF HeaderEnd, RecordEnd

\* EndOfCommand: a command that ends leaves all but its result as it was.
LEMMA EndOfCommand ==
    ASSUME IInv, NEW how, Exit(how),
           how \in {"ok", "truncated", "unknown", "no_log", "no_vendor", "too_large", "failed"},
           how = "ok" => start = Len(file),
           how = "truncated" => format # "raw" /\ Cut,
           how = "unknown" => /\ format = "samsung" /\ log = NoLog
                              /\ HeaderEnd <= Len(file) /\ Code \notin Synthetic,
           how = "too_large" => frames = <<>> /\ Len(file) > MaxRecord
    PROVE  IInv'
<1> USE DEF Exit, args
<1>1. TypeOK'
  BY DEF IInv, TypeOK
<1>2. InRecord'
  BY DEF InRecord
<1>3. Tiled'
  BY DEF IInv, Tiled, Begins
<1>4. EndIsHonest'
  BY DEF EndIsHonest, Cut, HeaderEnd, RecordEnd, Code, Length
<1> QED
  BY <1>1, <1>2, <1>3, <1>4 DEF IInv

\* ReadKeeps: a read that stays within what is wanted changes the place only.
LEMMA ReadKeeps ==
    ASSUME IInv, NEW wanted \in Nat, Read(wanted), pc \in {"header", "payload", "raw_read"},
           pc = "header" => at + wanted <= HeaderEnd,
           pc = "payload" => at + wanted <= RecordEnd,
           pc = "raw_read" => at + wanted <= Wanted
    PROVE  IInv'
<1> USE DEF args
<1>1. PICK n \in 1 .. wanted :
          at + n <= Len(file) /\ at' = at + n /\ UNCHANGED <<args, pc, start, frames, result>>
  BY DEF Read
<1>2. TypeOK'
  BY <1>1 DEF IInv, TypeOK
<1>3. at \in Nat /\ at' \in Nat /\ at <= at' /\ at' <= at + wanted
  BY <1>1 DEF IInv, TypeOK
<1>4. HeaderEnd' = HeaderEnd /\ RecordEnd' = RecordEnd /\ Code' = Code /\ Wanted' = Wanted
      /\ RawVendor' = RawVendor
  BY <1>1 DEF HeaderEnd, RecordEnd, Code, Length, Wanted, RawVendor
<1>5. HeaderEnd \in Nat /\ Wanted \in Nat
  BY RecordAssumption, WantedInFile DEF IInv, TypeOK, HeaderEnd
<1>6. pc = "header" => at' <= HeaderEnd
  BY <1>3, <1>5
<1>7. pc = "payload" => HeaderEnd <= at' /\ at' <= RecordEnd
  BY <1>3, <1>5, RecordInFile DEF IInv, InRecord
<1>8. pc = "raw_read" => at' <= Wanted
  BY <1>3, <1>5
<1>9. InRecord'
  BY <1>1, <1>4, <1>6, <1>7, <1>8 DEF IInv, InRecord
<1>10. Tiled' /\ EndIsHonest'
  BY <1>1, <1>4 DEF IInv, Tiled, Begins, EndIsHonest, Cut
<1> QED
  BY <1>2, <1>9, <1>10 DEF IInv

\* EmitKeeps: a frame of what has been read since the last border, as long as
\* its header says and under the code it is to have, keeps the tiling.
LEMMA EmitKeeps ==
    ASSUME IInv, NEW vendor \in {"mediatek", "samsung"}, NEW code \in Bytes,
           Emit(vendor, code), start' = at, UNCHANGED <<args, at>>, start < at,
           format # "raw" => /\ vendor = format /\ at = RecordEnd /\ HeaderEnd <= at
                             /\ format = "mediatek" \/ log = NoLog => code = Code,
           format = "raw" => frames = <<>> /\ start = 0 /\ at = Len(file)
    PROVE  frames' \in Seq(FrameType) /\ Tiled'
<1> DEFINE new == [vendor |-> vendor, code |-> code, from |-> start + 1, to |-> at]
<1>1. start \in Nat /\ at \in Nat /\ file \in Seq(Bytes) /\ frames \in Seq(FrameType)
  BY DEF IInv, TypeOK, FrameType
<1>2. new \in FrameType /\ new.from = start + 1 /\ new.to = at /\ new.vendor = vendor /\ new.code = code
  BY <1>1 DEF FrameType
<1>3. /\ frames' = Append(frames, new) /\ frames' \in Seq(FrameType)
      /\ Len(frames') = Len(frames) + 1 /\ DOMAIN frames' = 1 .. Len(frames) + 1
      /\ \A i \in 1 .. Len(frames) : frames'[i] = frames[i]
      /\ frames'[Len(frames) + 1] = new
  <2> HIDE DEF new
  <2>1. frames' = Append(frames, new)
    BY DEF Emit, new
  <2> QED
    BY <1>1, <1>2, <2>1
<1>n. PICK n \in Nat : n = Len(frames) + 1
  BY <1>1
<1>4. DOMAIN frames = 1 .. Len(frames) /\ Len(frames) \in Nat /\ frames' # <<>>
  BY <1>1, <1>3
<1> HIDE DEF new
<1>5. start' = frames'[Len(frames')].to
  BY <1>2, <1>3
<1>6. ASSUME NEW i \in 1 .. Len(frames)
      PROVE  frames'[i] = frames[i] /\ Begins(i)' = Begins(i)
  BY <1>3, <1>4, <1>6 DEF Begins
<1>7. new.from = Begins(n)'
  <2>1. CASE frames = <<>>
    BY <1>1, <1>2, <1>4, <1>n, <2>1 DEF IInv, Tiled, Begins
  <2>2. CASE frames # <<>>
    <3>1. start = frames[Len(frames)].to /\ Len(frames) >= 1 /\ n # 1 /\ n - 1 = Len(frames)
      BY <1>1, <1>4, <1>n, <2>2 DEF IInv, Tiled
    <3>2. frames'[n - 1] = frames[Len(frames)]
      BY <1>3, <1>4, <3>1
    <3> QED
      BY <1>1, <1>2, <3>1, <3>2 DEF Begins
  <2> QED
    BY <2>1, <2>2
<1>8. format # "raw" => new.to = new.from + Header + file[new.from + 1] - 1
  <2> SUFFICES ASSUME format # "raw"
               PROVE  new.to = new.from + Header + file[new.from + 1] - 1
    OBVIOUS
  <2>1. file[start + 2] \in Nat /\ at = start + Header + file[start + 2] /\ Header \in Nat
    BY RecordInFile, RecordAssumption DEF IInv, RecordEnd, HeaderEnd, Length
  <2>2. new.from + 1 = start + 2
    BY <1>1, <1>2
  <2> QED
    BY <1>1, <1>2, <2>1, <2>2
<1>9. format = "mediatek" \/ (format = "samsung" /\ log = NoLog) => new.code = file[new.from]
  BY <1>2 DEF Code
<1>10. format = "raw" => n = 1 /\ new.to = Len(file)
  BY <1>1, <1>2, <1>n
<1>11. ASSUME NEW i \in DOMAIN frames'
       PROVE  LET f == frames'[i] IN
                /\ f.from = Begins(i)'
                /\ format' # "raw" => f.to = f.from + Header + file'[f.from + 1] - 1
                /\ format' = "mediatek" \/ (format' = "samsung" /\ log' = NoLog) => f.code = file'[f.from]
                /\ format' = "raw" => i = 1 /\ f.to = Len(file')
  <2>1. format' = format /\ file' = file /\ log' = log
    BY DEF args
  <2>2. CASE i = n
    <3>1. frames'[i] = new /\ new.from = Begins(i)'
      BY <1>3, <1>7, <1>n, <2>2
    <3> QED
      BY <1>8, <1>9, <1>10, <2>1, <2>2, <3>1
  <2>3. CASE i \in 1 .. Len(frames)
    <3>1. LET f == frames[i] IN
             /\ f.from = Begins(i)
             /\ format # "raw" => f.to = f.from + Header + file[f.from + 1] - 1
             /\ format = "mediatek" \/ (format = "samsung" /\ log = NoLog) => f.code = file[f.from]
             /\ format = "raw" => i = 1 /\ f.to = Len(file)
      BY <1>4, <2>3 DEF IInv, Tiled
    <3> QED
      BY <1>6, <2>1, <2>3, <3>1
  <2> QED
    BY <1>3, <1>4, <1>n, <2>2, <2>3
<1>12. Tiled'
  BY <1>4, <1>5, <1>11 DEF Tiled
<1> QED
  BY <1>3, <1>12

-----------------------------------------------------------------------------
\* StepInv: every step keeps the invariant.
LEMMA StepInv == IInv /\ [Next]_vars => IInv'
<1> SUFFICES ASSUME IInv, [Next]_vars PROVE IInv'
  OBVIOUS
<1>0. /\ TypeOK /\ InRecord
      /\ start \in Nat /\ at \in Nat /\ start <= at /\ at <= Len(file) /\ Len(file) \in Nat
      /\ HeaderEnd \in Nat /\ start < HeaderEnd
  BY RecordAssumption DEF IInv, TypeOK, HeaderEnd
<1>1. CASE ReadHeader
  <2>1. pc = "header" /\ Read(HeaderEnd - at) /\ HeaderEnd - at \in Nat
    BY <1>0, <1>1 DEF ReadHeader, InRecord
  <2> QED
    BY <1>0, <2>1, ReadKeeps
<1>2. CASE EndOfHeader
  <2>1. at = start => start = Len(file)
    BY <1>2 DEF EndOfHeader, AtEnd
  <2>2. at # start => format # "raw" /\ Cut
    BY <1>0, <1>2 DEF EndOfHeader, AtEnd, InRecord, Cut
  <2> QED
    BY <1>2, <2>1, <2>2, EndOfCommand DEF EndOfHeader
<1>3. CASE ParseHeader
  <2>1. CASE format = "samsung" /\ log = NoLog /\ Code \notin Synthetic
    BY <1>0, <1>3, <2>1, EndOfCommand DEF ParseHeader
  <2>2. CASE ~(format = "samsung" /\ log = NoLog /\ Code \notin Synthetic)
    <3>1. pc = "header" /\ at = HeaderEnd /\ pc' = "payload" /\ UNCHANGED <<args, at, start, frames, result>>
      BY <1>3, <2>2 DEF ParseHeader
    <3>2. HeaderEnd <= RecordEnd
      BY <1>0, <3>1, RecordInFile DEF RecordEnd
    <3>3. HeaderEnd' = HeaderEnd /\ RecordEnd' = RecordEnd /\ Code' = Code
      BY <3>1 DEF HeaderEnd, RecordEnd, Code, Length, args
    <3>4. TypeOK'
      BY <1>0, <3>1 DEF TypeOK, args
    <3>5. InRecord'
      BY <1>0, <2>2, <3>1, <3>2, <3>3 DEF InRecord, args
    <3>6. Tiled' /\ EndIsHonest'
      BY <3>1, <3>3 DEF IInv, Tiled, Begins, EndIsHonest, Cut, args
    <3> QED
      BY <3>4, <3>5, <3>6 DEF IInv
  <2> QED
    BY <2>1, <2>2
<1>4. CASE ReadPayload
  <2>1. pc = "payload" /\ Read(RecordEnd - at) /\ HeaderEnd <= at /\ at <= RecordEnd
    BY <1>0, <1>4 DEF ReadPayload, InRecord
  <2>2. RecordEnd \in Nat /\ RecordEnd - at \in Nat /\ at + (RecordEnd - at) <= RecordEnd
    BY <1>0, <2>1, RecordInFile
  <2> QED
    BY <2>1, <2>2, ReadKeeps
<1>5. CASE EndOfPayload
  <2>1. format # "raw" /\ HeaderEnd <= at /\ at = Len(file) /\ at < RecordEnd
    BY <1>0, <1>5 DEF EndOfPayload, AtEnd, InRecord
  <2>2. Cut
    BY <1>0, <2>1 DEF Cut
  <2> QED
    BY <1>5, <2>1, <2>2, EndOfCommand DEF EndOfPayload
<1>6. CASE Deliver
  <2>1. /\ pc = "payload" /\ at = RecordEnd /\ Emit(format, LogCode) /\ start' = at /\ pc' = "header"
        /\ UNCHANGED <<args, at, result>> /\ format \in {"mediatek", "samsung"} /\ HeaderEnd <= at
    BY <1>0, <1>6 DEF Deliver, InRecord, TypeOK
  <2>2. LogCode \in Bytes /\ (format = "mediatek" \/ log = NoLog => LogCode = Code)
    BY <1>0, <2>1, RecordInFile DEF LogCode, TypeOK, Codes
  <2>3. frames' \in Seq(FrameType) /\ Tiled'
    BY <1>0, <2>1, <2>2, EmitKeeps
  <2>4. TypeOK'
    BY <1>0, <2>1, <2>3 DEF TypeOK, FrameType, args
  <2>5. InRecord'
    <3>1. at' <= HeaderEnd'
      BY <1>0, <2>1, RecordAssumption DEF HeaderEnd
    <3> QED
      BY <1>0, <2>1, <3>1 DEF InRecord, args
  <2>6. EndIsHonest'
    BY <1>0, <2>1 DEF InRecord, EndIsHonest
  <2> QED
    BY <2>3, <2>4, <2>5, <2>6 DEF IInv
<1>7. CASE RawBegin
  <2>1. CASE log = NoLog
    BY <1>7, <2>1, EndOfCommand DEF RawBegin
  <2>2. CASE log # NoLog /\ RawVendor = "none"
    BY <1>7, <2>2, EndOfCommand DEF RawBegin
  <2>3. CASE log # NoLog /\ RawVendor # "none"
    <3>1. pc = "raw" /\ pc' = "raw_read" /\ UNCHANGED <<args, at, start, frames, result>>
      BY <1>7, <2>3 DEF RawBegin
    <3>2. log \in Bytes /\ at = 0 /\ Wanted \in Nat /\ Wanted' = Wanted /\ RawVendor' = RawVendor
      BY <1>0, <2>3, <3>1, WantedInFile DEF TypeOK, Codes, InRecord, Wanted, RawVendor, args
    <3>3. TypeOK'
      BY <1>0, <3>1 DEF TypeOK, args
    <3>4. InRecord'
      BY <1>0, <2>3, <3>1, <3>2 DEF InRecord, args
    <3>5. Tiled' /\ EndIsHonest'
      BY <3>1 DEF IInv, Tiled, Begins, EndIsHonest, Cut, HeaderEnd, RecordEnd, Code, Length, args
    <3> QED
      BY <3>3, <3>4, <3>5 DEF IInv
  <2> QED
    BY <2>1, <2>2, <2>3
<1>8. CASE RawRead
  <2>1. pc = "raw_read" /\ Read(Wanted - at) /\ at <= Wanted /\ Wanted \in Nat
    BY <1>0, <1>8, WantedInFile DEF RawRead, InRecord
  <2>2. Wanted - at \in Nat /\ at + (Wanted - at) <= Wanted
    BY <1>0, <2>1
  <2> QED
    BY <2>1, <2>2, ReadKeeps
<1>9. CASE RawEnd
  <2>1. pc = "raw_read" /\ at = Wanted /\ format = "raw" /\ frames = <<>> /\ start = 0
        /\ log \in Bytes /\ RawVendor # "none"
    BY <1>0, <1>9 DEF RawEnd, InRecord
  <2>2. at <= MaxRecord => at = Len(file)
    BY <1>0, <2>1, RecordAssumption DEF Wanted
  <2>3. CASE at > MaxRecord
    BY <1>0, <1>9, <2>1, <2>3, RecordAssumption, EndOfCommand DEF RawEnd
  <2>4. CASE at <= MaxRecord /\ at = 0
    <3>1. Exit("ok")
      BY <1>9, <2>4, RecordAssumption DEF RawEnd
    <3> QED
      BY <2>1, <2>2, <2>4, <3>1, EndOfCommand
  <2>5. CASE at <= MaxRecord /\ at # 0
    <3>1. /\ Emit(RawVendor, log) /\ start' = at /\ pc' = "done" /\ result' = "ok"
          /\ UNCHANGED <<args, at>>
      BY <1>0, <1>9, <2>5, RecordAssumption DEF RawEnd
    <3>2. RawVendor \in {"mediatek", "samsung"}
      BY <2>1 DEF RawVendor
    <3>3. frames' \in Seq(FrameType) /\ Tiled'
      BY <1>0, <2>1, <2>2, <2>5, <3>1, <3>2, EmitKeeps
    <3>4. TypeOK'
      BY <1>0, <3>1, <3>3 DEF TypeOK, FrameType, args
    <3>5. InRecord' /\ EndIsHonest'
      BY <2>2, <2>5, <3>1 DEF InRecord, EndIsHonest, args
    <3> QED
      BY <3>3, <3>4, <3>5 DEF IInv
  <2> QED
    BY <1>0, <2>3, <2>4, <2>5, RecordAssumption
<1>10. CASE ReadFails \/ SinkFails
  <2>1. Exit("failed")
    BY <1>10 DEF ReadFails, SinkFails
  <2> QED
    BY <2>1, EndOfCommand
<1>11. CASE UNCHANGED vars
  BY <1>11 DEF IInv, TypeOK, InRecord, Tiled, Begins, EndIsHonest, Cut, HeaderEnd,
               RecordEnd, Code, Length, Wanted, RawVendor, vars, args
<1> QED
  BY <1>1, <1>2, <1>3, <1>4, <1>5, <1>6, <1>7, <1>8, <1>9, <1>10, <1>11 DEF Next, Step

\* Invariance: the invariant holds throughout.
THEOREM Invariance == Spec => []IInv
BY InitInv, StepInv, PTL DEF Spec

\* TypeCorrect: the reader and its frames keep their types, and the reader
\* never leaves the file.
THEOREM TypeCorrect == Spec => []TypeOK
<1>1. IInv => TypeOK
  BY DEF IInv
<1> QED
  BY Invariance, <1>1, PTL

\* RecordsTile: whatever the file, the header and the reads, the frames cover
\* the file from its beginning to `start` without a gap or an overlap, each as
\* long as its header says and under the code it should have.
THEOREM RecordsTile == Spec => []Tiled
<1>1. IInv => Tiled
  BY DEF IInv
<1> QED
  BY Invariance, <1>1, PTL

\* HonestEnd: success means that all of the file is in frames, and the errors
\* say what is the case.
THEOREM HonestEnd == Spec => []EndIsHonest
<1>1. IInv => EndIsHonest
  BY DEF IInv
<1> QED
  BY Invariance, <1>1, PTL
=============================================================================
