---------------------------- MODULE VendorRecords ---------------------------
(***************************************************************************)
(* The `records` command of 6grok-agent: read_records takes a file that    *)
(* some vendor tool has left, perhaps cut short, apart into records, and   *)
(* run_vendor_records makes a frame of each.                               *)
(*                                                                         *)
(* A MediaTek or Samsung record is a header and a payload.  The header is  *)
(* Header bytes here, of which the first is the log code (MediaTek) or the *)
(* command (Samsung) and the second the length of the payload; a raw file  *)
(* is one record without a header.  The bytes come in reads of any size.   *)
(***************************************************************************)
EXTENDS Naturals, Sequences

CONSTANTS Bytes,     \* the bytes, which are numbers: codes and lengths
          Synthetic, \* the codes 0x2000..=0x23ff of Samsung records
          MediaTek,  \* the codes of MediaTek records that a raw file may have
          NoLog,     \* the command line has no --log
          Header,    \* MTK_HEADER_LEN, SAMSUNG_HEADER_LEN
          MaxRecord, \* MAX_RECORD
          MaxStream  \* bound: bytes in a file

\* A length never exceeds MAX_RECORD, being of 16 bits: the two checks of it
\* in read_records cannot fail, and are left out.
ASSUME RecordAssumption ==
    /\ Header \in Nat /\ Header >= 2 /\ MaxRecord \in Nat /\ MaxStream \in Nat
    /\ Bytes \subseteq 0 .. MaxRecord
    /\ Synthetic \subseteq Bytes /\ MediaTek \subseteq Bytes /\ Synthetic \cap MediaTek = {}
    /\ NoLog \notin Bytes

VARIABLES file, format, log, \* what the command is given
          pc,
          at,       \* bytes read
          start,    \* bytes before the record being read
          frames,   \* the frames emitted: the i-th has sequence i
          result    \* "running", or how the command ended

args == <<file, format, log>>
vars == <<args, pc, at, start, frames, result>>

Init == /\ file \in UNION {[1 .. n -> Bytes] : n \in 0 .. MaxStream}
        /\ format \in {"mediatek", "samsung", "raw"}
        /\ log \in Bytes \cup {NoLog}
        /\ pc = IF format = "raw" THEN "raw" ELSE "header"
        /\ at = 0 /\ start = 0 /\ frames = <<>> /\ result = "running"

Exit(how) == pc' = "done" /\ result' = how /\ UNCHANGED <<args, at, start, frames>>

\* One read puts up to `wanted` bytes at `to`; there is none at the end.
Read(wanted) == \E n \in 1 .. wanted :
                   /\ at + n <= Len(file) /\ at' = at + n
                   /\ UNCHANGED <<args, pc, start, frames, result>>

AtEnd == at = Len(file)
-----------------------------------------------------------------------------
\* read_exact_or_eof.
HeaderEnd == start + Header

ReadHeader == pc = "header" /\ Read(HeaderEnd - at)

\* Mutant of EndOfHeader: an end is an end.
EndOfHeaderAnyhow == pc = "header" /\ AtEnd /\ at < HeaderEnd /\ Exit("ok")

\* The file may end before a header and not inside it.
EndOfHeader == /\ pc = "header" /\ AtEnd /\ at < HeaderEnd
               /\ Exit(IF at = start THEN "ok" ELSE "truncated")

Code   == file[start + 1] \* MediaTek's log code, Samsung's command
Length == file[start + 2]

\* The code of a frame: --log counts for Samsung only.
LogCode == IF format = "samsung" /\ log # NoLog THEN log ELSE Code

\* A Samsung command that is no log code needs a --log.
ParseHeader ==
    /\ pc = "header" /\ at = HeaderEnd
    /\ IF format = "samsung" /\ log = NoLog /\ Code \notin Synthetic
       THEN Exit("unknown")
       ELSE pc' = "payload" /\ UNCHANGED <<args, at, start, frames, result>>

\* Mutant of RecordEnd: the length counts the header.
RecordEndWithHeader == start + Length

RecordEnd == HeaderEnd + Length

\* read_exact; what it has read of a payload that is cut short is dropped.
ReadPayload  == pc = "payload" /\ Read(RecordEnd - at)

EndOfPayload == pc = "payload" /\ AtEnd /\ at < RecordEnd /\ Exit("truncated")

\* The sink of run_vendor_records: the next frame, of bytes start + 1 .. at.
Emit(vendor, code) ==
    frames' = Append(frames, [vendor |-> vendor, code |-> code, from |-> start + 1, to |-> at])

Deliver == /\ pc = "payload" /\ at = RecordEnd
           /\ Emit(format, LogCode)
           /\ start' = at /\ pc' = "header"
           /\ UNCHANGED <<args, at, result>>
-----------------------------------------------------------------------------
RawVendor == IF log \in Synthetic THEN "samsung" ELSE IF log \in MediaTek THEN "mediatek" ELSE "none"

\* RecordFormat::Raw: the code tells the vendor ...
RawBegin == /\ pc = "raw"
            /\ IF log = NoLog THEN Exit("no_log")
               ELSE IF RawVendor = "none" THEN Exit("no_vendor")
               ELSE pc' = "raw_read" /\ UNCHANGED <<args, at, start, frames, result>>

\* ... take(MAX_RECORD + 1).read_to_end, ...
Wanted == IF Len(file) > MaxRecord THEN MaxRecord + 1 ELSE Len(file)

RawRead == pc = "raw_read" /\ Read(Wanted - at)

\* ... and all of the file is the record, if there is anything in it.
RawEnd == /\ pc = "raw_read" /\ at = Wanted
          /\ IF at > MaxRecord THEN Exit("too_large")
             ELSE IF at = 0 THEN Exit("ok")
             ELSE /\ Emit(RawVendor, log)
                  /\ start' = at /\ pc' = "done" /\ result' = "ok"
                  /\ UNCHANGED <<args, at>>
-----------------------------------------------------------------------------
\* A read fails (for good: Interrupted is read again), or emit_frame does.
ReadFails == pc \in {"header", "payload", "raw_read"} /\ Exit("failed")

SinkFails == pc = "payload" /\ at = RecordEnd /\ Exit("failed")

Step == \/ ReadHeader \/ EndOfHeader \/ ParseHeader
        \/ ReadPayload \/ EndOfPayload \/ Deliver
        \/ RawBegin \/ RawRead \/ RawEnd

Next == Step \/ ReadFails \/ SinkFails

Spec == Init /\ [][Next]_vars
-----------------------------------------------------------------------------
Codes == Bytes \cup {NoLog}

\* TypeOK: the types of the arguments, of the reader and of the frames.
TypeOK ==
    /\ file \in Seq(Bytes) /\ format \in {"mediatek", "samsung", "raw"} /\ log \in Codes
    /\ pc \in {"header", "payload", "raw", "raw_read", "done"}
    /\ start \in Nat /\ at \in start .. Len(file)
    /\ frames \in Seq([vendor : {"mediatek", "samsung"}, code : Bytes, from : Nat, to : Nat])
    /\ result \in {"running", "ok", "truncated", "unknown", "no_log", "no_vendor", "too_large", "failed"}

\* Where the i-th frame has to begin, if no byte is to be lost or read twice.
Begins(i) == IF i = 1 THEN 1 ELSE frames[i - 1].to + 1

\* Tiled: the frames are all that has been taken of the file, end to end; each
\* is as long as its own header says and has the code of that header, unless
\* --log gave another: no read, however short, moves a border.
Tiled ==
    /\ start = IF frames = <<>> THEN 0 ELSE frames[Len(frames)].to
    /\ \A i \in DOMAIN frames : LET f == frames[i] IN
          /\ f.from = Begins(i)
          /\ format # "raw" => f.to = f.from + Header + file[f.from + 1] - 1
          /\ format = "mediatek" \/ (format = "samsung" /\ log = NoLog) => f.code = file[f.from]
          /\ format = "raw" => i = 1 /\ f.to = Len(file)

\* What begins where the last record ends is not a record that can be read.
Cut == /\ start < Len(file)
       /\ HeaderEnd <= Len(file) => RecordEnd > Len(file)

\* EndIsHonest: the command reports success only when every byte of the file
\* is in a frame, and calls a file cut short or its record unknown only when
\* it is, all records before that one delivered.
EndIsHonest ==
    /\ result = "ok" => start = Len(file)
    /\ result = "truncated" => format # "raw" /\ Cut
    /\ result = "unknown" => /\ format = "samsung" /\ log = NoLog
                             /\ HeaderEnd <= Len(file) /\ Code \notin Synthetic
    /\ result = "too_large" => frames = <<>> /\ Len(file) > MaxRecord
=============================================================================
