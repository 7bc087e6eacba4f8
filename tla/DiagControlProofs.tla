------------------------- MODULE DiagControlProofs --------------------------
(***************************************************************************)
(* Proofs about DiagControl, for any modem, any selections, any number of  *)
(* runs and of spoilt answers: masks stay within the modem's ranges, an    *)
(* equipment's mask is always one whole selection or what it was, and a    *)
(* run that finds nothing of an earlier one does not capture, nor report a *)
(* disable, before the modem has done what it asked; and a wait runs out   *)
(* unless the modem goes on logging.                                       *)
(***************************************************************************)
EXTENDS DiagControl, WellFoundedInduction, TLAPS

\* An answer to a ranges request tells the modem's ranges.
Told == \A i \in DOMAIN line : line[i].kind = "answer" /\ line[i].op = "ranges" => line[i].last = LastItem

\* A request the modem has yet to handle is a disable the user may ask for, a
\* query, or the whole mask that one selection comes to on this modem.
WholeMask(q) ==
    \E w \in Selections :
        /\ q.equip \in EquipsOf(Selected(w, LastItem))
        /\ q.last = LastItem[q.equip]
        /\ q.items = MaskFor(w, q.equip)
        /\ Fits(q)

Legitimate(q) == /\ q.op = "disable" => "disable" \in Commands
                 /\ q.op = "mask" => WholeMask(q)

Requested == \A i \in DOMAIN inbox : Legitimate(inbox[i])

\* A run works on equipments of its own selection, with the modem's ranges.
Working ==
    pc \in {"apply", "mask"} =>
        /\ ranges = LastItem /\ want \in Selections
        /\ todo \subseteq EquipsOf(Selected(want, LastItem))
        /\ pc = "mask" => todo # {}

\* The run was started by one of the user's commands.
Asked == pc \notin {"off", "exited"} => want \in Selections

IInv == TypeOK /\ Told /\ Requested /\ Working /\ Asked /\ result # "out_of_range" /\ MaskIsASelection

-----------------------------------------------------------------------------
\* A nonempty set of equipments has a lowest one, and Lowest finds it.
LEMMA LowestIn ==
    ASSUME NEW S, S \subseteq Nat, S # {}
    PROVE  Lowest(S) \in S /\ \A f \in S : Lowest(S) <= f
<1> DEFINE R == OpToRel(<, Nat)
<1>1. IsWellFoundedOn(R, Nat)
  BY NatLessThanWellFounded
<1> HIDE DEF R
<1>2. \E e \in S : \A f \in S : ~(<<f, e>> \in R)
  BY <1>1, WFMin
<1>3. \E e \in S : \A f \in S : e <= f
  <2>1. PICK e \in S : \A f \in S : ~(<<f, e>> \in R)
    BY <1>2
  <2>2. \A f \in S : <<f, e>> \in R <=> f < e
    BY DEF R, OpToRel
  <2>3. \A f \in S : ~(f < e)
    BY <2>1, <2>2, Zenon
  <2>4. \A f \in S : f \in Nat /\ e \in Nat
    OBVIOUS
  <2>5. \A f \in S : e <= f
    BY <2>3, <2>4, SMT
  <2> QED BY <2>5
<1> QED BY <1>3 DEF Lowest

\* What a selection comes to on this modem is made of codes.
LEMMA SelectedCodes ==
    ASSUME NEW w \in Selections
    PROVE  /\ Selected(w, LastItem) \subseteq Codes
           /\ EquipsOf(Selected(w, LastItem)) \subseteq Equips
           /\ \A e \in Equips : MaskFor(w, e) \subseteq Items
<1>1. w.explicit \subseteq Codes /\ w.profile \subseteq Codes
  BY UserAssumption
<1>2. Selected(w, LastItem) \subseteq Codes
  BY <1>1 DEF Selected
<1>3. \A c \in Codes : c[1] \in Equips /\ c[2] \in Items
  BY DEF Codes
<1> QED BY <1>2, <1>3 DEF EquipsOf, ItemsOf, MaskFor

\* The request built for an equipment of the selection, once its explicit
\* items are checked, fits the modem's range and is the whole mask.
LEMMA MaskFits ==
    ASSUME NEW w \in Selections, NEW e \in EquipsOf(Selected(w, LastItem)),
           ~Unsupported(w, LastItem, e)
    PROVE  LET q == SetMaskRequest(e, LastItem[e], ItemsOf(Selected(w, LastItem), e)) IN
              Fits(q) /\ WholeMask(q) /\ q \in Requests /\ q.op = "mask"
<1> DEFINE q == SetMaskRequest(e, LastItem[e], ItemsOf(Selected(w, LastItem), e))
<1>1. e \in Equips /\ MaskFor(w, e) \subseteq Items /\ Selected(w, LastItem) \subseteq Codes
  BY SelectedCodes
<1>2. q.op = "mask" /\ q.equip = e /\ q.last = LastItem[e] /\ q.items = MaskFor(w, e)
  BY DEF SetMaskRequest, MaskFor
<1>3. LastItem[e] \in Items
  BY <1>1, ModemAssumption
<1>4. q \in Requests
  BY <1>1, <1>3 DEF Requests, SetMaskRequest, MaskFor
<1>5. ASSUME NEW i \in q.items PROVE i <= q.last
  <2>1. PICK c \in Selected(w, LastItem) : c[1] = e /\ c[2] = i
    BY <1>2, <1>5 DEF MaskFor, ItemsOf
  <2>2. c[2] \in Nat /\ LastItem[e] \in Nat
    BY <1>1, <1>3, <2>1, EquipAssumption DEF Codes, Items
  <2>3. CASE c \in w.explicit
    <3>1. ~(c[2] > LastItem[e])
      BY <2>1, <2>3 DEF Unsupported
    <3> QED BY <3>1, <2>1, <2>2, <1>2
  <2>4. CASE c \in w.profile /\ c[2] <= LastItem[c[1]]
    BY <2>1, <2>4, <1>2
  <2> QED BY <2>1, <2>3, <2>4 DEF Selected
<1>6. Fits(q)
  BY <1>5 DEF Fits
<1> QED BY <1>2, <1>4, <1>6 DEF WholeMask

LEMMA InitInv == Init => IInv
<1> SUFFICES ASSUME Init PROVE IInv
  OBVIOUS
<1>1. TypeOK
  BY ModemAssumption DEF Init, TypeOK, Requests, Packets
<1> QED BY <1>1 DEF Init, IInv, Told, Requested, Working, Asked, MaskIsASelection

-----------------------------------------------------------------------------
\* A legitimate request that is written keeps the requests legitimate.
LEMMA AppendedRequest ==
    ASSUME Requested, inbox \in Seq(Requests), NEW q \in Requests, Legitimate(q),
           inbox' = Append(inbox, q)
    PROVE  Requested' /\ inbox' \in Seq(Requests)
BY DEF Requested

\* The modem handles a request: its masks stay whole selections, and its
\* answer, if one gets through, tells its own ranges.
LEMMA HandleInv == ASSUME IInv, Handle PROVE IInv'
<1> DEFINE q == Head(inbox)
<1>0. /\ TypeOK /\ inbox # <<>> /\ inbox \in Seq(Requests) /\ line \in Seq(Packets)
      /\ mask \in [Equips -> SUBSET Items] /\ inbox' = Tail(inbox)
      /\ UNCHANGED <<runVars, hostVars>>
  BY DEF IInv, TypeOK, Handle
<1>1. q \in Requests /\ q = inbox[1] /\ 1 \in DOMAIN inbox /\ Legitimate(q)
  BY <1>0 DEF IInv, Requested
<1>2. PICK ok \in BOOLEAN :
        /\ mask' = IF ok /\ q.op = "mask" THEN [mask EXCEPT ![q.equip] = q.items]
                   ELSE IF ok /\ q.op = "disable" THEN [e \in Equips |-> {}] ELSE mask
        /\ \/ line' = Append(line, Answer(q, ok)) /\ faults' = faults
           \/ line' \in {line, Append(line, Noise)} /\ faults' = faults + 1
  BY DEF Handle
<1>3. Answer(q, ok) \in Packets /\ Noise \in Packets
  <2>1. q.op \in {"ranges", "disable", "mask"}
    BY <1>1 DEF Requests
  <2> QED BY <1>1, <2>1 DEF Answer, Packets
<1>4. inbox' \in Seq(Requests) /\ line' \in Seq(Packets) /\ faults' \in Nat
  <2>1. faults \in Nat /\ Tail(inbox) \in Seq(Requests)
    BY <1>0 DEF TypeOK
  <2>2. \A p \in Packets : Append(line, p) \in Seq(Packets)
    BY <1>0
  <2>3. line' = Append(line, Answer(q, ok)) \/ line' = line \/ line' = Append(line, Noise)
    BY <1>2
  <2>4. line' \in Seq(Packets)
    BY <1>0, <1>3, <2>2, <2>3, Zenon
  <2>5. faults' \in Nat
    <3>1. faults' = faults \/ faults' = faults + 1
      BY <1>2
    <3> QED BY <2>1, <3>1
  <2> QED BY <1>0, <2>1, <2>4, <2>5
<1>5. mask' \in [Equips -> SUBSET Items]
  <2>1. q.op = "mask" => q.items \in SUBSET Items
    BY <1>1 DEF Requests
  <2> QED BY <1>0, <1>2, <2>1
<1>6. TypeOK'
  BY <1>0, <1>4, <1>5 DEF TypeOK, runVars, hostVars
<1>7. Told'
  <2>1. \/ line' = Append(line, Answer(q, ok)) \/ line' = line \/ line' = Append(line, Noise)
    BY <1>2
  <2>2. Answer(q, ok).op = "ranges" => Answer(q, ok).last = LastItem
    BY DEF Answer
  <2>3. Noise.kind # "answer"
    BY DEF Noise
  <2>4. \A p \in Packets : (p.kind = "answer" /\ p.op = "ranges" => p.last = LastItem)
            => \A i \in DOMAIN Append(line, p) :
                  Append(line, p)[i].kind = "answer" /\ Append(line, p)[i].op = "ranges"
                     => Append(line, p)[i].last = LastItem
    BY <1>0 DEF IInv, Told
  <2>5. CASE line' = Append(line, Answer(q, ok))
    <3> DEFINE p == Answer(q, ok)
    <3>1. p \in Packets /\ (p.op = "ranges" => p.last = LastItem)
      BY <1>3, <2>2
    <3> HIDE DEF p
    <3>2. line' = Append(line, p)
      BY <2>5 DEF p
    <3> QED BY <2>4, <3>1, <3>2 DEF Told
  <2>6. CASE line' = Append(line, Noise)
    BY <1>3, <2>3, <2>4, <2>6 DEF Told
  <2>7. CASE line' = line
    BY <2>7 DEF IInv, Told
  <2> QED BY <2>1, <2>5, <2>6, <2>7
<1>8. Requested'
  BY <1>0 DEF IInv, Requested
<1>9. MaskIsASelection'
  <2> SUFFICES ASSUME NEW e \in Equips
               PROVE  \/ mask'[e] = InitialMask[e]
                      \/ \E w \in Selections : /\ e \in EquipsOf(Selected(w, LastItem))
                                               /\ mask'[e] = MaskFor(w, e)
                      \/ "disable" \in Commands /\ mask'[e] = {}
    BY DEF MaskIsASelection
  <2>1. CASE mask'[e] = mask[e]
    BY <2>1 DEF IInv, MaskIsASelection
  <2>2. CASE q.op = "mask" /\ q.equip = e /\ mask'[e] = q.items
    BY <1>1, <2>2 DEF Legitimate, WholeMask
  <2>3. CASE q.op = "disable" /\ mask'[e] = {}
    BY <1>1, <2>3 DEF Legitimate
  <2> QED BY <1>0, <1>2, <2>1, <2>2, <2>3
<1> QED BY <1>0, <1>6, <1>7, <1>8, <1>9
        DEF IInv, Working, Asked, runVars, hostVars

\* The modem sends a log packet.
LEMMA LogInv == ASSUME IInv, Log PROVE IInv'
<1>1. PICK e \in Equips : \E i \in mask[e] : line' = Append(line, LogPacket(<<e, i>>))
  BY DEF Log
<1>2. PICK i \in mask[e] : line' = Append(line, LogPacket(<<e, i>>))
  BY <1>1
<1>3. <<e, i>> \in Codes
  BY <1>2 DEF IInv, TypeOK, Codes
<1>4. LogPacket(<<e, i>>) \in Packets /\ LogPacket(<<e, i>>).kind # "answer"
  BY <1>3 DEF LogPacket, Packets
<1>5. UNCHANGED <<modemVars, runVars, hostVars>>
  BY DEF Log
<1>6. TypeOK'
  BY <1>2, <1>4, <1>5 DEF IInv, TypeOK, modemVars, runVars, hostVars
<1>7. Told'
  BY <1>2, <1>4 DEF IInv, TypeOK, Told
<1> QED BY <1>5, <1>6, <1>7 DEF IInv, Requested, Working, Asked, MaskIsASelection,
                                modemVars, runVars, hostVars

\* Reading from the line leaves a line of packets that still tells the truth.
LEMMA LineSuffix ==
    ASSUME IInv, NEW n \in 1 .. Len(line),
           LET rest == SubSeq(line, n + 1, Len(line)) IN
              line' = rest \/ (rest # <<>> /\ line' = <<Noise>> \o Tail(rest))
    PROVE  line' \in Seq(Packets) /\ Told'
<1> DEFINE rest == SubSeq(line, n + 1, Len(line))
<1>0. line \in Seq(Packets) /\ Len(line) \in Nat /\ n \in Nat
  BY DEF IInv, TypeOK
<1>1. /\ rest \in Seq(Packets) /\ Len(rest) = Len(line) - n
      /\ \A i \in 1 .. Len(rest) : rest[i] = line[n + i]
  BY <1>0
<1>2. \A i \in 1 .. Len(rest) :
         rest[i].kind = "answer" /\ rest[i].op = "ranges" => rest[i].last = LastItem
  BY <1>0, <1>1 DEF IInv, Told
<1>3. CASE line' = rest
  <2> HIDE DEF rest
  <2>1. DOMAIN line' = 1 .. Len(rest) /\ line' \in Seq(Packets)
    BY <1>1, <1>3
  <2> QED BY <1>2, <1>3, <2>1 DEF Told
<1>4. CASE rest # <<>> /\ line' = <<Noise>> \o Tail(rest)
  <2> HIDE DEF rest
  <2>1. Noise \in Packets /\ Noise.kind # "answer"
    BY DEF Noise, Packets
  <2>2. Tail(rest) \in Seq(Packets) /\ Len(Tail(rest)) = Len(rest) - 1 /\ Len(rest) \in Nat \ {0}
    BY <1>1, <1>4
  <2>3. <<Noise>> \in Seq(Packets) /\ Len(<<Noise>>) = 1
    BY <2>1
  <2>4. line' \in Seq(Packets) /\ Len(line') = Len(rest)
    BY <2>2, <2>3, <1>4
  <2>5. \A i \in 1 .. Len(rest) : line'[i] = IF i = 1 THEN Noise ELSE rest[i]
    BY <1>1, <1>4, <2>2, <2>3
  <2> QED BY <1>2, <2>1, <2>4, <2>5 DEF Told
<1> QED BY <1>3, <1>4

\* A run is started.
LEMMA StartInv == ASSUME IInv, NEW c \in Commands, NEW w \in Selections, Start(c, w) PROVE IInv'
<1>1. /\ TypeOK /\ Told /\ Requested /\ MaskIsASelection
      /\ run' = run + 1 /\ cmd' = c /\ want' = w
      /\ ranges' = <<>> /\ todo' = {} /\ idle' = 0 /\ result' = "none"
      /\ fresh' \in BOOLEAN
      /\ line' = line /\ mask' = mask /\ faults' = faults
  BY DEF IInv, Start, Ask, modemVars
<1>2. run' \in Nat
  BY <1>1 DEF TypeOK
<1>3. RangesRequest \in Requests /\ DisableRequest \in Requests
  BY DEF RangesRequest, DisableRequest, Requests
<1>4. \/ c = "disable" /\ pc' = "disable" /\ inbox' = Append(inbox, DisableRequest)
      \/ pc' = "ranges" /\ inbox' = Append(inbox, RangesRequest)
      \/ pc' = "capture" /\ inbox' = inbox
  BY DEF Start, Ask, modemVars
<1>6. Requested' /\ inbox' \in Seq(Requests)
  <2>1. DisableRequest.op = "disable" /\ RangesRequest.op = "ranges"
    BY DEF DisableRequest, RangesRequest
  <2>2. c = "disable" => Legitimate(DisableRequest)
    BY <2>1 DEF Legitimate
  <2>3. Legitimate(RangesRequest)
    BY <2>1 DEF Legitimate
  <2>4. inbox \in Seq(Requests)
    BY <1>1 DEF TypeOK
  <2>5. CASE c = "disable" /\ pc' = "disable" /\ inbox' = Append(inbox, DisableRequest)
    BY <1>1, <1>3, <2>2, <2>4, <2>5, AppendedRequest
  <2>6. CASE pc' = "ranges" /\ inbox' = Append(inbox, RangesRequest)
    BY <1>1, <1>3, <2>3, <2>4, <2>6, AppendedRequest
  <2>7. CASE pc' = "capture" /\ inbox' = inbox
    BY <1>1, <2>4, <2>7 DEF Requested
  <2> QED BY <1>4, <2>5, <2>6, <2>7
<1>7. TypeOK'
  BY <1>1, <1>2, <1>4, <1>6 DEF TypeOK
<1>8. Told'
  BY <1>1 DEF Told
<1>9. MaskIsASelection'
  BY <1>1 DEF MaskIsASelection
<1>10. Working' /\ Asked'
  BY <1>1, <1>4 DEF Working, Asked
<1> QED BY <1>1, <1>6, <1>7, <1>8, <1>9, <1>10 DEF IInv

\* A read without the answer.
LEMMA ReadOnInv == ASSUME IInv, NEW n \in 1 .. Len(line), ReadOn(n) PROVE IInv'
<1>1. line' \in Seq(Packets) /\ Told'
  BY LineSuffix DEF ReadOn
<1>2. idle' = 0 /\ UNCHANGED <<modemVars, runVars, pc, result, ranges, todo, fresh>>
  BY DEF ReadOn
<1>3. TypeOK'
  BY <1>1, <1>2 DEF IInv, TypeOK, modemVars, runVars
<1> QED BY <1>1, <1>2, <1>3 DEF IInv, Requested, Working, Asked, MaskIsASelection, modemVars, runVars

\* A read with the answer: the ranges it tells are the modem's, and a mask that
\* is accepted leaves the equipments still to write.
LEMMA ReadAnswerInv ==
    ASSUME IInv, NEW n \in 1 .. Len(line), NEW i \in 1 .. n, ReadAnswer(n, i) PROVE IInv'
<1> DEFINE a == line[i]
<1>0. /\ TypeOK /\ Told /\ Working /\ Asked /\ pc \in {"ranges", "mask", "disable"}
      /\ a.kind = "answer" /\ a.op = pc /\ Answered(a) /\ idle' = 0
      /\ UNCHANGED <<modemVars, runVars, fresh>>
  BY DEF IInv, ReadAnswer, Waiting, IsAnswer
<1>1. line' \in Seq(Packets) /\ Told'
  BY LineSuffix DEF ReadAnswer
<1>2. i \in DOMAIN line /\ line \in Seq(Packets) /\ a \in Packets
  BY <1>0 DEF TypeOK
<1> HIDE DEF a
<1>5. CASE pc' = "exited" /\ result' \in {"failed", "ok"} /\ UNCHANGED <<ranges, todo>>
  <2>1. TypeOK'
    BY <1>0, <1>1, <1>5 DEF TypeOK, modemVars, runVars
  <2> QED BY <1>0, <1>1, <1>5, <2>1
          DEF IInv, Requested, Working, Asked, MaskIsASelection, modemVars, runVars
<1>6. CASE /\ pc = "ranges" /\ pc' = "apply" /\ ranges' = a.last
           /\ todo' = EquipsOf(Selected(want, a.last)) /\ UNCHANGED result
  <2>1. a.last = LastItem
    BY <1>0, <1>2, <1>6 DEF Told, a
  <2>2. want \in Selections
    BY <1>0, <1>6 DEF Asked
  <2>3. todo' \subseteq Equips
    BY <1>6, <2>1, <2>2, SelectedCodes
  <2>4. TypeOK'
    BY <1>0, <1>1, <1>6, <2>1, <2>3 DEF TypeOK, modemVars, runVars
  <2>5. Working' /\ Asked'
    BY <1>0, <1>6, <2>1, <2>2 DEF Working, Asked, runVars
  <2> QED BY <1>0, <1>1, <1>6, <2>4, <2>5
          DEF IInv, Requested, MaskIsASelection, modemVars, runVars
<1>7. CASE /\ pc = "mask" /\ pc' = "apply"
           /\ todo' = todo \ {Lowest(todo)} /\ UNCHANGED <<result, ranges>>
  <2>1. TypeOK'
    BY <1>0, <1>1, <1>7 DEF TypeOK, modemVars, runVars
  <2>2. Working' /\ Asked'
    BY <1>0, <1>7 DEF Working, Asked, runVars
  <2> QED BY <1>0, <1>1, <1>7, <2>1, <2>2
          DEF IInv, Requested, MaskIsASelection, modemVars, runVars
<1> QED
  <2>1. CASE ~a.ok
    BY <1>0, <1>5, <2>1 DEF Answered, Exit
  <2>2. CASE a.ok /\ pc = "ranges" /\ cmd = "capture"
    BY <1>0, <1>6, <2>2 DEF Answered
  <2>3. CASE a.ok /\ pc = "mask"
    BY <1>0, <1>7, <2>3 DEF Answered
  <2>4. CASE a.ok /\ pc # "mask" /\ ~(pc = "ranges" /\ cmd = "capture")
    BY <1>0, <1>5, <2>4 DEF Answered, Exit
  <2> QED BY <2>1, <2>2, <2>3, <2>4

\* A second without a byte.
LEMMA IdleReadInv == ASSUME IInv, IdleRead PROVE IInv'
<1>1. /\ idle' = idle + 1
      /\ \/ pc' = "exited" /\ result' = "failed"
         \/ UNCHANGED <<pc, result>>
      /\ UNCHANGED <<modemVars, line, runVars, ranges, todo, fresh>>
  BY DEF IdleRead, Exit
<1>2. TypeOK'
  BY <1>1 DEF IInv, TypeOK, modemVars, runVars
<1> QED BY <1>1, <1>2 DEF IInv, Told, Requested, Working, Asked, MaskIsASelection, modemVars, runVars

\* A mask is written, or the code the modem lacks is refused.  That the request
\* fits the range, so that "out_of_range" is never the result, is MaskFits.
LEMMA WriteMaskInv == ASSUME IInv, WriteMask PROVE IInv'
<1> DEFINE e == Lowest(todo)
           q == SetMaskRequest(e, LastItem[e], ItemsOf(Selected(want, LastItem), e))
<1>0. /\ TypeOK /\ Requested /\ pc = "apply" /\ todo # {} /\ ranges = LastItem /\ want \in Selections
      /\ todo \subseteq EquipsOf(Selected(want, LastItem))
      /\ idle' = 0 /\ UNCHANGED <<line, runVars, ranges, todo, fresh>>
  BY DEF IInv, Working, WriteMask
<1>1. e \in todo
  <2>1. todo \subseteq Nat
    BY <1>0, EquipAssumption DEF TypeOK
  <2> QED BY <1>0, <2>1, LowestIn
<1>2. CASE Unsupported(want, ranges, e)
  <2>1. pc' = "exited" /\ result' = "refused" /\ UNCHANGED modemVars
    BY <1>2 DEF WriteMask, Exit
  <2>2. TypeOK'
    BY <1>0, <2>1 DEF TypeOK, modemVars, runVars
  <2> QED BY <1>0, <2>1, <2>2
          DEF IInv, Told, Requested, Working, Asked, MaskIsASelection, modemVars, runVars
<1>3. CASE ~Unsupported(want, ranges, e)
  <2>1. e \in EquipsOf(Selected(want, LastItem)) /\ ~Unsupported(want, LastItem, e)
    BY <1>0, <1>1, <1>3 DEF TypeOK
  <2>2. Fits(q) /\ WholeMask(q) /\ q \in Requests /\ q.op = "mask"
    BY <2>1, <1>0, MaskFits
  <2>3. /\ pc' = "mask" /\ result' = result
        /\ inbox' = Append(inbox, q) /\ UNCHANGED <<mask, faults>>
    BY <1>0, <1>3, <2>2 DEF WriteMask, Ask
  <2>4. Legitimate(q)
    BY <2>2 DEF Legitimate
  <2> HIDE DEF q, e
  <2>5. inbox \in Seq(Requests)
    BY <1>0 DEF TypeOK
  <2>6. Requested' /\ inbox' \in Seq(Requests)
    BY <1>0, <2>2, <2>3, <2>4, <2>5, AppendedRequest
  <2>7. TypeOK'
    BY <1>0, <2>2, <2>3, <2>6 DEF TypeOK, runVars
  <2> QED BY <1>0, <2>3, <2>6, <2>7 DEF IInv, Told, Working, Asked, MaskIsASelection, runVars
<1> QED BY <1>2, <1>3

\* The capture starts, and reads.
LEMMA CaptureInv == ASSUME IInv, BeginCapture \/ CaptureRead PROVE IInv'
<1>1. CASE BeginCapture
  <2>1. /\ pc = "apply" /\ pc' = "capture"
        /\ UNCHANGED <<modemVars, line, runVars, result, ranges, todo, idle, fresh>>
    BY <1>1 DEF BeginCapture
  <2>2. TypeOK'
    BY <2>1 DEF IInv, TypeOK, modemVars, runVars
  <2> QED BY <2>1, <2>2
          DEF IInv, Told, Requested, Working, Asked, MaskIsASelection, modemVars, runVars
<1>2. CASE CaptureRead
  <2>1. UNCHANGED <<modemVars, runVars, hostVars>>
    BY <1>2 DEF CaptureRead
  <2>2. PICK n \in 1 .. Len(line) : line' = SubSeq(line, n + 1, Len(line))
    BY <1>2 DEF CaptureRead
  <2>3. line' \in Seq(Packets) /\ Told'
    BY <2>2, LineSuffix
  <2>4. TypeOK'
    BY <2>1, <2>3 DEF IInv, TypeOK, modemVars, runVars, hostVars
  <2> QED BY <2>1, <2>3, <2>4
          DEF IInv, Requested, Working, Asked, MaskIsASelection, modemVars, runVars, hostVars
<1> QED BY <1>1, <1>2

\* The bridge closes, or the run is stopped.
LEMMA StoppedInv == ASSUME IInv, BridgeClosed \/ Killed PROVE IInv'
<1>1. /\ pc' = "exited" /\ result' \in {"ok", "failed", "killed"}
      /\ line' = line \/ line' = <<>>
      /\ UNCHANGED <<modemVars, runVars, ranges, todo, idle, fresh>>
  BY DEF BridgeClosed, Killed, Exit
<1>2. line' \in Seq(Packets) /\ Told'
  <2>1. CASE line' = line
    BY <2>1 DEF IInv, TypeOK, Told
  <2>2. CASE line' = <<>>
    BY <2>2 DEF Told
  <2> QED BY <1>1, <2>1, <2>2
<1>3. TypeOK'
  BY <1>1, <1>2 DEF IInv, TypeOK, modemVars, runVars
<1> QED BY <1>1, <1>2, <1>3
        DEF IInv, Requested, Working, Asked, MaskIsASelection, modemVars, runVars

LEMMA NextInv == IInv /\ [Next]_vars => IInv'
<1> SUFFICES ASSUME IInv, [Next]_vars PROVE IInv'
  OBVIOUS
<1>1. CASE Handle
  BY <1>1, HandleInv
<1>2. CASE Log
  BY <1>2, LogInv
<1>3. CASE \E c \in Commands, w \in Selections : Start(c, w)
  BY <1>3, StartInv
<1>4. CASE WaitRead
  BY <1>4, ReadOnInv, ReadAnswerInv DEF WaitRead
<1>5. CASE IdleRead
  BY <1>5, IdleReadInv
<1>6. CASE WriteMask
  BY <1>6, WriteMaskInv
<1>7. CASE BeginCapture \/ CaptureRead
  BY <1>7, CaptureInv
<1>8. CASE BridgeClosed \/ Killed
  BY <1>8, StoppedInv
<1>9. CASE UNCHANGED vars
  BY <1>9 DEF vars, modemVars, runVars, hostVars, IInv, TypeOK, Told, Requested, Working, Asked,
              MaskIsASelection
<1> QED BY <1>1, <1>2, <1>3, <1>4, <1>5, <1>6, <1>7, <1>8, <1>9 DEF Next, HostStep

-----------------------------------------------------------------------------
\* The inductive invariant: types, what answers tell, what is still to be
\* handled, what the run works on, and the masks.
THEOREM Invariance == Spec => []IInv
<1> QED BY InitInv, NextInv, PTL DEF Spec

\* Every variable keeps its type.
THEOREM TypeCorrect == Spec => []TypeOK
<1>1. IInv => TypeOK
  BY DEF IInv
<1> QED BY <1>1, Invariance, PTL

\* set_mask_request never refuses, and every mask on its way to the modem has
\* the modem's own range, whichever run's answer told it.
THEOREM MasksInRange == Spec => []NeverOutOfRange
<1>1. IInv => NeverOutOfRange
  BY DEF IInv, NeverOutOfRange, Requested, Legitimate, WholeMask
<1> QED BY <1>1, Invariance, PTL

\* Whatever stops the runs and whichever answers they take for theirs, the mask
\* of an equipment is one selection's whole mask, nothing, or what it was.
THEOREM WholeSelections == Spec => []MaskIsASelection
<1>1. IInv => MaskIsASelection
  BY DEF IInv
<1> QED BY <1>1, Invariance, PTL

-----------------------------------------------------------------------------
(* A run that finds nothing of an earlier run on its way.                  *)

Answers == {i \in DOMAIN line : line[i].kind = "answer"}

\* There is at most one request or one answer, and only while the run waits.
Alone ==
    /\ \A i, j \in Answers : i = j
    /\ inbox # <<>> => Len(inbox) = 1 /\ Answers = {}
    /\ ~Waiting /\ pc # "exited" => inbox = <<>> /\ Answers = {}

\* It is the one the run waits for, and a good answer tells what was done.
Faithful ==
    /\ pc = "mask" =>
          /\ inbox # <<>> => /\ inbox[1].op = "mask" /\ inbox[1].equip = Lowest(todo)
                             /\ inbox[1].items = MaskFor(want, Lowest(todo))
          /\ \A i \in Answers : line[i].ok => mask[Lowest(todo)] = MaskFor(want, Lowest(todo))
    /\ pc = "disable" =>
          /\ inbox # <<>> => inbox[1].op = "disable"
          /\ \A i \in Answers : line[i].ok => \A e \in Equips : mask[e] = {}

\* What the run is through with stays done.
Done ==
    /\ pc \in {"apply", "mask", "capture"} =>
          \A e \in EquipsOf(Selected(want, LastItem)) \ todo : mask[e] = MaskFor(want, e)
    /\ pc = "capture" => todo = {}
    /\ cmd = "disable" => pc \in {"disable", "exited"}
    /\ cmd = "disable" /\ result = "ok" =>
          pc = "exited" /\ inbox = <<>> /\ \A e \in Equips : mask[e] = {}

Own == fresh => Alone /\ Faithful /\ Done

LEMMA InitOwn == Init => Own
BY DEF Init, Own, Alone, Faithful, Done, Answers, Waiting

\* What a read leaves on the line was on it before, n places behind.
LEMMA AnswersLeft ==
    ASSUME line \in Seq(Packets), NEW n \in 1 .. Len(line),
           LET rest == SubSeq(line, n + 1, Len(line)) IN
              line' = rest \/ (rest # <<>> /\ line' = <<Noise>> \o Tail(rest))
    PROVE  \A i \in Answers' : i \in Nat \ {0} /\ i + n \in Answers /\ line'[i] = line[i + n]
<1> DEFINE rest == SubSeq(line, n + 1, Len(line))
<1>0. Len(line) \in Nat /\ n \in Nat /\ n <= Len(line) /\ n + 1 \in 1 .. Len(line) + 1
  OBVIOUS
<1>1. /\ rest \in Seq(Packets) /\ Len(rest) = Len(line) - n /\ Len(line) \in Nat /\ n \in Nat
      /\ \A i \in 1 .. Len(rest) : rest[i] = line[i + n]
  BY <1>0
<1>2. CASE line' = rest
  <2>1. DOMAIN line' = 1 .. Len(rest)
    BY <1>1, <1>2
  <2> HIDE DEF rest
  <2> QED BY <1>1, <1>2, <2>1 DEF Answers
<1>3. CASE rest # <<>> /\ line' = <<Noise>> \o Tail(rest)
  <2> HIDE DEF rest
  <2>1. Tail(rest) \in Seq(Packets) /\ Len(Tail(rest)) = Len(rest) - 1 /\ Len(rest) \in Nat \ {0}
    BY <1>1, <1>3
  <2>2. Noise \in Packets /\ Noise.kind # "answer"
    BY DEF Noise, Packets
  <2>3. <<Noise>> \in Seq(Packets) /\ Len(<<Noise>>) = 1
    BY <2>2
  <2>4. line' \in Seq(Packets) /\ Len(line') = Len(rest)
    BY <2>1, <2>3, <1>3
  <2>5. \A i \in 1 .. Len(rest) : line'[i] = IF i = 1 THEN Noise ELSE rest[i]
    BY <1>1, <1>3, <2>1, <2>3
  <2>6. DOMAIN line' = 1 .. Len(rest) /\ DOMAIN line = 1 .. Len(line)
    BY <2>4
  <2>7. \A i \in 1 .. Len(rest) : (i # 1 /\ line'[i] = rest[i]) \/ line'[i].kind # "answer"
    BY <2>2, <2>5
  <2>8. \A i \in 1 .. Len(rest) : i \in Nat \ {0} /\ i + n \in 1 .. Len(line) /\ rest[i] = line[i + n]
    BY <1>1
  <2> QED BY <2>6, <2>7, <2>8 DEF Answers
<1> QED BY <1>2, <1>3

\* A packet that is put on the line is the last one there.
LEMMA AnswersPut ==
    ASSUME line \in Seq(Packets), NEW p \in Packets, line' = Append(line, p)
    PROVE  /\ \A i \in Answers : i \in Answers' /\ line'[i] = line[i]
           /\ \A i \in Answers' : \/ i \in Answers /\ line'[i] = line[i]
                                  \/ i = Len(line) + 1 /\ line'[i] = p /\ p.kind = "answer"
BY DEF Answers

\* Handling the run's own request does what its answer will tell.
LEMMA HandleOwn == ASSUME IInv, Own, Handle PROVE Own'
<1> SUFFICES ASSUME fresh' PROVE (Alone /\ Faithful /\ Done)'
  BY DEF Own
<1> DEFINE q == Head(inbox)
<1>0. /\ fresh /\ Alone /\ Faithful /\ Done /\ TypeOK /\ Working /\ line \in Seq(Packets)
      /\ inbox # <<>> /\ inbox \in Seq(Requests) /\ inbox' = Tail(inbox)
      /\ UNCHANGED <<run, cmd, want, pc, result, ranges, todo, idle, fresh>>
  BY DEF Own, Handle, IInv, TypeOK, runVars, hostVars
<1>1. Answers = {} /\ inbox' = <<>> /\ pc \in {"ranges", "mask", "disable", "exited"} /\ q = inbox[1]
      /\ q \in Requests
  BY <1>0 DEF Alone, Waiting
<1>2. PICK ok \in BOOLEAN :
        /\ mask' = IF ok /\ q.op = "mask" THEN [mask EXCEPT ![q.equip] = q.items]
                   ELSE IF ok /\ q.op = "disable" THEN [e \in Equips |-> {}] ELSE mask
        /\ \/ line' = Append(line, Answer(q, ok))
           \/ line' \in {line, Append(line, Noise)}
  BY DEF Handle
<1>3. Answer(q, ok) \in Packets /\ Answer(q, ok).ok = ok /\ Noise \in Packets /\ Noise.kind # "answer"
  <2>1. q.op \in {"ranges", "disable", "mask"}
    BY <1>1 DEF Requests
  <2> QED BY <1>1, <2>1 DEF Answer, Packets, Noise
<1>4. \A i \in Answers' : i = Len(line) + 1 /\ line'[i].ok = ok
  <2>1. CASE line' = Append(line, Answer(q, ok))
    BY <2>1, <1>0, <1>1, <1>3, AnswersPut
  <2>2. CASE line' = Append(line, Noise)
    BY <2>2, <1>0, <1>1, <1>3, AnswersPut
  <2>3. CASE line' = line
    BY <2>3, <1>1 DEF Answers
  <2> QED BY <1>2, <2>1, <2>2, <2>3
<1>5. Alone'
  BY <1>0, <1>1, <1>4 DEF Alone, Waiting
<1>6. ASSUME pc = "mask"
      PROVE  /\ q.op = "mask" /\ q.equip = Lowest(todo) /\ q.items = MaskFor(want, Lowest(todo))
             /\ Lowest(todo) \in todo /\ Lowest(todo) \in Equips
  <2>1. todo # {} /\ todo \subseteq Nat /\ todo \subseteq Equips
    BY <1>0, <1>6, EquipAssumption DEF Working, TypeOK
  <2> QED BY <1>0, <1>1, <1>6, <2>1, LowestIn DEF Faithful
<1>7. ASSUME pc = "disable" PROVE q.op = "disable"
  BY <1>0, <1>1, <1>7 DEF Faithful
<1>8. mask \in [Equips -> SUBSET Items]
  BY <1>0 DEF TypeOK
<1>9. Faithful'
  <2>1. ASSUME pc = "mask", ok PROVE mask'[Lowest(todo)] = MaskFor(want, Lowest(todo))
    BY <1>2, <1>6, <1>8, <2>1
  <2>2. ASSUME pc = "disable", ok, NEW e \in Equips PROVE mask'[e] = {}
    BY <1>2, <1>7, <2>2
  <2>3. MaskFor(want', Lowest(todo')) = MaskFor(want, Lowest(todo)) /\ Lowest(todo') = Lowest(todo)
    BY <1>0
  <2> QED BY <1>0, <1>1, <1>4, <2>1, <2>2, <2>3 DEF Faithful
<1>10. Done'
  <2>1. ASSUME pc = "mask", NEW e \in EquipsOf(Selected(want, LastItem)) \ todo
        PROVE  mask'[e] = MaskFor(want, e)
    <3>1. mask[e] = MaskFor(want, e) /\ e # q.equip
      BY <1>0, <1>6, <2>1 DEF Done
    <3>2. e \in Equips
      BY <1>0, <2>1, SelectedCodes DEF Working
    <3> QED BY <1>2, <1>6, <1>8, <2>1, <3>1, <3>2
  <2>2. ~(cmd = "disable" /\ result = "ok")
    BY <1>0 DEF Done
  <2>3. MaskFor(want', 0) = MaskFor(want, 0) /\ \A e : MaskFor(want', e) = MaskFor(want, e)
    BY <1>0
  <2> QED BY <1>0, <1>1, <2>1, <2>2, <2>3 DEF Done
<1> QED BY <1>5, <1>9, <1>10

\* Log packets are no answers.
LEMMA LogOwn == ASSUME IInv, Own, Log PROVE Own'
<1>1. PICK e \in Equips : \E i \in mask[e] : line' = Append(line, LogPacket(<<e, i>>))
  BY DEF Log
<1>2. PICK i \in mask[e] : line' = Append(line, LogPacket(<<e, i>>))
  BY <1>1
<1>3. LogPacket(<<e, i>>) \in Packets /\ LogPacket(<<e, i>>).kind # "answer"
  BY <1>2 DEF IInv, TypeOK, Codes, LogPacket, Packets
<1>4. line \in Seq(Packets)
  BY DEF IInv, TypeOK
<1>5. Answers' = Answers /\ \A j \in Answers : line'[j] = line[j]
  BY <1>2, <1>3, <1>4, AnswersPut
<1>6. UNCHANGED <<mask, inbox, cmd, want, pc, result, todo, fresh>>
  BY DEF Log, modemVars, runVars, hostVars
<1> QED BY <1>5, <1>6 DEF Own, Alone, Faithful, Done, Waiting

\* A run that finds nothing on its way starts with its own request alone.
LEMMA StartOwn == ASSUME IInv, NEW c \in Commands, NEW w \in Selections, Start(c, w) PROVE Own'
<1> SUFFICES ASSUME fresh' PROVE (Alone /\ Faithful /\ Done)'
  BY DEF Own
<1>1. /\ inbox = <<>> /\ Answers = {} /\ line' = line /\ mask' = mask
      /\ cmd' = c /\ want' = w /\ result' = "none" /\ todo' = {} /\ inbox \in Seq(Requests)
  BY DEF Start, Ask, modemVars, Answers, IInv, TypeOK
<1>2. \/ c = "disable" /\ pc' = "disable" /\ inbox' = <<DisableRequest>>
      \/ c # "disable" /\ pc' = "ranges" /\ inbox' = <<RangesRequest>>
      \/ c # "disable" /\ w = NoWant /\ pc' = "capture" /\ inbox' = <<>>
  BY <1>1 DEF Start, Ask, modemVars
<1>3. Answers' = {}
  BY <1>1 DEF Answers
<1>4. w = NoWant => EquipsOf(Selected(w, LastItem)) = {}
  BY DEF NoWant, Selected, EquipsOf
<1>5. DisableRequest.op = "disable"
  BY DEF DisableRequest
<1> QED BY <1>1, <1>2, <1>3, <1>4, <1>5 DEF Alone, Faithful, Done, Waiting

\* A read without the answer leaves what is left of the line.
LEMMA ReadOnOwn == ASSUME IInv, Own, NEW n \in 1 .. Len(line), ReadOn(n) PROVE Own'
<1>1. \A i \in Answers' : i \in Nat \ {0} /\ i + n \in Answers /\ line'[i] = line[i + n]
  BY AnswersLeft DEF ReadOn, IInv, TypeOK
<1>2. UNCHANGED <<mask, inbox, cmd, want, pc, result, todo, fresh>> /\ n \in Nat
  BY DEF ReadOn, modemVars, runVars
<1>3. \A i, j \in Nat : i + n = j + n => i = j
  BY <1>2
<1>4. fresh => Alone'
  BY <1>1, <1>2, <1>3 DEF Own, Alone, Waiting
<1>5. fresh => Faithful'
  BY <1>1, <1>2 DEF Own, Faithful
<1>6. fresh => Done'
  BY <1>2 DEF Own, Done
<1> QED BY <1>2, <1>4, <1>5, <1>6 DEF Own

\* The answer to the run's own request: nothing else is on its way, and if the
\* run goes on, or a disable ends well, the modem has done what was asked.
LEMMA ReadAnswerOwn ==
    ASSUME IInv, Own, NEW n \in 1 .. Len(line), NEW i \in 1 .. n, ReadAnswer(n, i) PROVE Own'
<1> SUFFICES ASSUME fresh' PROVE (Alone /\ Faithful /\ Done)'
  BY DEF Own
<1> DEFINE a == line[i]
<1>0. /\ TypeOK /\ Told /\ Working /\ Asked /\ pc \in {"ranges", "mask", "disable"}
      /\ a.kind = "answer" /\ a.op = pc /\ Answered(a) /\ fresh /\ Alone /\ Faithful /\ Done
      /\ UNCHANGED <<mask, inbox, run, cmd, want, fresh>>
  BY DEF IInv, Own, ReadAnswer, Waiting, IsAnswer, modemVars, runVars
<1>1. i \in Answers /\ n \in Nat /\ i \in Nat /\ i <= n
  BY <1>0 DEF Answers, TypeOK
<1>2. inbox = <<>> /\ inbox' = <<>>
  BY <1>0, <1>1 DEF Alone
<1>3. Answers' = {}
  <2>1. \A k \in Answers' : k \in Nat \ {0} /\ k + n \in Answers
    BY AnswersLeft DEF ReadAnswer, IInv, TypeOK
  <2>2. \A k \in Answers' : k + n = i
    BY <1>0, <1>1, <2>1 DEF Alone
  <2> QED BY <1>1, <2>1, <2>2
<1>4. Alone'
  BY <1>2, <1>3 DEF Alone
<1>5. Faithful'
  BY <1>2, <1>3 DEF Faithful
<1>6. a.op = "ranges" => a.last = LastItem
  BY <1>0, <1>1 DEF Told, Answers
<1> HIDE DEF a
<1>7. CASE ~a.ok
  <2>1. pc' = "exited" /\ result' = "failed"
    BY <1>0, <1>7 DEF Answered, Exit
  <2> QED BY <1>4, <1>5, <2>1 DEF Done
<1>8. CASE a.ok /\ pc = "ranges" /\ cmd = "capture"
  <2>1. pc' = "apply" /\ todo' = EquipsOf(Selected(want, LastItem))
    BY <1>0, <1>6, <1>8 DEF Answered
  <2> QED BY <1>0, <1>4, <1>5, <1>8, <2>1 DEF Done
<1>9. CASE a.ok /\ pc = "mask"
  <2>1. pc' = "apply" /\ todo' = todo \ {Lowest(todo)} /\ result' = result
    BY <1>0, <1>9 DEF Answered
  <2>2. mask[Lowest(todo)] = MaskFor(want, Lowest(todo))
    BY <1>0, <1>1, <1>9 DEF Faithful, a
  <2>3. \A e \in EquipsOf(Selected(want, LastItem)) \ todo' : mask[e] = MaskFor(want, e)
    BY <1>0, <1>9, <2>1, <2>2 DEF Done
  <2>4. MaskFor(want, 0)' = MaskFor(want, 0) /\ \A e : MaskFor(want', e) = MaskFor(want, e)
    BY <1>0
  <2>5. cmd # "disable"
    BY <1>0, <1>9 DEF Done
  <2> QED BY <1>0, <1>4, <1>5, <2>1, <2>3, <2>4, <2>5 DEF Done
<1>10. CASE a.ok /\ pc # "mask" /\ ~(pc = "ranges" /\ cmd = "capture")
  <2>1. pc' = "exited" /\ result' = "ok"
    BY <1>0, <1>10 DEF Answered, Exit
  <2>2. cmd = "disable" => \A e \in Equips : mask[e] = {}
    BY <1>0, <1>1, <1>10 DEF Faithful, Done, a
  <2> QED BY <1>0, <1>2, <1>4, <1>5, <2>1, <2>2 DEF Done
<1> QED BY <1>7, <1>8, <1>9, <1>10

\* The request that is written is the whole mask of the lowest equipment.
LEMMA WriteMaskOwn == ASSUME IInv, Own, WriteMask PROVE Own'
<1> SUFFICES ASSUME fresh' PROVE (Alone /\ Faithful /\ Done)'
  BY DEF Own
<1> DEFINE e == Lowest(todo)
           q == SetMaskRequest(e, LastItem[e], ItemsOf(Selected(want, LastItem), e))
<1>0. /\ fresh /\ Alone /\ Faithful /\ Done /\ TypeOK /\ pc = "apply" /\ ranges = LastItem
      /\ UNCHANGED <<line, run, cmd, want, todo, fresh, mask>>
  BY DEF IInv, Own, Working, WriteMask, Ask, runVars, modemVars
<1>1. inbox = <<>> /\ Answers = {} /\ Answers' = {}
  BY <1>0 DEF Alone, Waiting, Answers
<1>2. cmd # "disable"
  BY <1>0 DEF Done
<1>3. \/ pc' = "exited" /\ inbox' = inbox
      \/ pc' = "mask" /\ inbox' = Append(inbox, q)
  BY <1>0 DEF WriteMask, Exit, Ask, modemVars
<1>4. CASE pc' = "exited" /\ inbox' = inbox
  BY <1>0, <1>1, <1>2, <1>4 DEF Alone, Faithful, Done
<1>5. CASE pc' = "mask" /\ inbox' = Append(inbox, q)
  <2>1. q.op = "mask" /\ q.equip = Lowest(todo) /\ q.items = MaskFor(want, Lowest(todo))
    BY DEF SetMaskRequest, MaskFor
  <2> HIDE DEF q, e
  <2>2. inbox' = <<q>>
    BY <1>1, <1>5
  <2>3. Alone'
    BY <1>1, <1>5, <2>2 DEF Alone, Waiting
  <2>4. Faithful'
    BY <1>0, <1>1, <1>5, <2>1, <2>2 DEF Faithful
  <2>5. Done'
    BY <1>0, <1>2, <1>5 DEF Done
  <2> QED BY <2>3, <2>4, <2>5
<1> QED BY <1>3, <1>4, <1>5

\* The other steps of a run ask for nothing.
LEMMA OtherOwn ==
    ASSUME IInv, Own, IdleRead \/ BeginCapture \/ CaptureRead \/ BridgeClosed \/ Killed PROVE Own'
<1> SUFFICES ASSUME fresh' PROVE (Alone /\ Faithful /\ Done)'
  BY DEF Own
<1>1. CASE IdleRead \/ BridgeClosed \/ Killed
  <2>1. /\ UNCHANGED <<mask, inbox, run, cmd, want, todo, fresh>>
        /\ \/ UNCHANGED <<line, pc, result>>
           \/ pc' = "exited" /\ result' \in {"failed", "killed"} /\ line' \in {line, <<>>}
           \/ pc' = "exited" /\ pc = "capture" /\ result' = "ok" /\ line' = <<>>
    BY <1>1 DEF IdleRead, BridgeClosed, Killed, Exit, modemVars, runVars
  <2>2. fresh /\ Alone /\ Faithful /\ Done
    BY <2>1 DEF Own
  <2>3. CASE UNCHANGED <<line, pc, result>>
    BY <2>1, <2>2, <2>3 DEF Alone, Faithful, Done, Waiting, Answers
  <2>4. CASE pc' = "exited" /\ result' \in {"failed", "killed"} /\ line' \in {line, <<>>}
    <3>1. Answers' \in {Answers, {}}
      BY <2>4 DEF Answers
    <3> QED BY <2>1, <2>2, <2>4, <3>1 DEF Alone, Faithful, Done
  <2>5. CASE pc' = "exited" /\ pc = "capture" /\ result' = "ok" /\ line' = <<>>
    <3>1. Answers' = {} /\ cmd # "disable"
      BY <2>2, <2>5 DEF Answers, Done
    <3> QED BY <2>1, <2>2, <2>5, <3>1 DEF Alone, Faithful, Done
  <2> QED BY <2>1, <2>3, <2>4, <2>5
<1>2. CASE BeginCapture
  BY <1>2 DEF BeginCapture, Own, Alone, Faithful, Done, Waiting, Answers, modemVars, runVars
<1>3. CASE CaptureRead
  <2>1. PICK n \in 1 .. Len(line) : line' = SubSeq(line, n + 1, Len(line))
    BY <1>3 DEF CaptureRead
  <2>2. \A k \in Answers' : k + n \in Answers
    BY <2>1, AnswersLeft DEF IInv, TypeOK
  <2>3. pc = "capture" /\ UNCHANGED <<mask, inbox, run, cmd, want, pc, result, todo, fresh>>
    BY <1>3 DEF CaptureRead, modemVars, runVars, hostVars
  <2> QED BY <2>2, <2>3 DEF Own, Alone, Faithful, Done, Waiting
<1> QED BY <1>1, <1>2, <1>3

LEMMA NextOwn == IInv /\ Own /\ [Next]_vars => Own'
<1> SUFFICES ASSUME IInv, Own, [Next]_vars PROVE Own'
  OBVIOUS
<1>1. CASE Handle
  BY <1>1, HandleOwn
<1>2. CASE Log
  BY <1>2, LogOwn
<1>3. CASE \E c \in Commands, w \in Selections : Start(c, w)
  BY <1>3, StartOwn
<1>4. CASE WaitRead
  BY <1>4, ReadOnOwn, ReadAnswerOwn DEF WaitRead
<1>5. CASE WriteMask
  BY <1>5, WriteMaskOwn
<1>6. CASE IdleRead \/ BeginCapture \/ CaptureRead \/ BridgeClosed \/ Killed
  BY <1>6, OtherOwn
<1>7. CASE UNCHANGED vars
  BY <1>7 DEF vars, modemVars, runVars, hostVars, Own, Alone, Faithful, Done, Waiting, Answers
<1> QED BY <1>1, <1>2, <1>3, <1>4, <1>5, <1>6, <1>7 DEF Next, HostStep

\* What a run that is alone with the modem has on its way, and what is done.
THEOREM OwnRequests == Spec => []Own
<1> QED BY InitOwn, NextOwn, Invariance, PTL DEF Spec

\* A run that finds nothing of an earlier one captures only once each mask it
\* asked for is set as it asked, every explicit code included.
THEOREM CapturesConfigured == Spec => []CaptureConfigured
<1>1. IInv /\ Own => CaptureConfigured
  <2> SUFFICES ASSUME IInv, Own, pc = "capture", fresh PROVE Configured
    BY DEF CaptureConfigured
  <2>1. \A e \in EquipsOf(Selected(want, LastItem)) : mask[e] = MaskFor(want, e)
    BY DEF Own, Done
  <2>2. \A c \in want.explicit : c \in Selected(want, LastItem)
    BY DEF Selected
  <2>3. \A c \in want.explicit : c[1] \in EquipsOf(Selected(want, LastItem)) /\ c[2] \in MaskFor(want, c[1])
    BY <2>2 DEF EquipsOf, MaskFor, ItemsOf
  <2> QED BY <2>1, <2>3 DEF Configured
<1> QED BY <1>1, Invariance, OwnRequests, PTL

\* A disable that finds nothing of an earlier run and reports success has left
\* nothing enabled.
THEOREM DisablesSilence == Spec => []DisableSilences
<1>1. Own => DisableSilences
  BY DEF Own, Done, DisableSilences
<1> QED BY <1>1, OwnRequests, PTL

-----------------------------------------------------------------------------
(***************************************************************************)
(* Why a wait ends (QuietWaitEnds).                                        *)
(***************************************************************************)

\* What may still keep a wait from an idle read: a packet on the line takes a
\* read, and a request may bring one packet more.
Coming == 2 * Len(inbox) + Len(line)

\* QuietWaitRunsOut: while a run waits, only a new log packet can keep it
\* waiting for ever.  Every other step that leaves it waiting uses up a request
\* or a packet that was on its way, or takes nothing and is one more idle read,
\* and there are fewer than IdleLimit of these: a count that each wait starts
\* at zero and that only bytes from the modem put back.
QuietWaitRunsOut ==
    [][Waiting /\ Waiting' =>
          \/ Log
          \/ Coming' < Coming
          \/ Coming' = Coming /\ idle < idle' /\ idle' < IdleLimit]_vars

LEMMA HandleComes == ASSUME TypeOK, Handle PROVE Coming' < Coming
<1>1. /\ Len(inbox) \in Nat /\ Len(line) \in Nat /\ inbox \in Seq(Requests) /\ inbox # <<>>
      /\ inbox' = Tail(inbox)
  BY DEF TypeOK, Handle
<1>2. Len(inbox') = Len(inbox) - 1 /\ Len(inbox) >= 1
  BY <1>1
<1>3. Len(line') \in {Len(line), Len(line) + 1}
  <2>1. line' = line \/ \E p : line' = Append(line, p)
    BY DEF Handle
  <2> QED BY <2>1 DEF TypeOK
<1>4. Coming' = 2 * Len(inbox') + Len(line')
  BY DEF Coming
<1> QED BY <1>1, <1>2, <1>3, <1>4 DEF Coming

LEMMA ReadTakes == ASSUME TypeOK, NEW n \in 1 .. Len(line), ReadOn(n) PROVE Coming' < Coming
<1>1. /\ Len(inbox) \in Nat /\ Len(line) \in Nat /\ inbox' = inbox
      /\ line' = SubSeq(line, n + 1, Len(line)) /\ line \in Seq(Packets)
  BY DEF TypeOK, ReadOn, modemVars
<1>2. Len(line') = Len(line) - n
  BY <1>1
<1>3. Coming' = 2 * Len(inbox) + (Len(line) - n) /\ Coming = 2 * Len(inbox) + Len(line)
  BY <1>1, <1>2 DEF Coming
<1>4. Len(inbox) \in Nat /\ Len(line) \in Nat /\ n \in Nat /\ n >= 1
  BY <1>1
<1> QED BY <1>3, <1>4

LEMMA IdleCounts ==
    ASSUME TypeOK, IdleRead, Waiting'
    PROVE  Coming' = Coming /\ idle < idle' /\ idle' < IdleLimit
<1>1. idle \in Nat /\ IdleLimit \in Nat /\ idle' = idle + 1 /\ inbox' = inbox /\ line' = line
  BY BoundAssumption DEF TypeOK, IdleRead, modemVars
<1>2. ~(idle' >= IdleLimit)
  BY DEF IdleRead, Exit, Waiting
<1> QED BY <1>1, <1>2 DEF Coming

LEMMA OthersEndTheWait ==
    ASSUME Waiting, Waiting',
           \/ \E c \in Commands, w \in Selections : Start(c, w)
           \/ \E n \in 1 .. Len(line) : \E i \in 1 .. n : ReadAnswer(n, i)
           \/ WriteMask \/ BeginCapture \/ CaptureRead \/ BridgeClosed \/ Killed
    PROVE  FALSE
<1>1. ASSUME NEW n, NEW i, ReadAnswer(n, i) PROVE FALSE
  <2>1. Answered(line[i]) /\ Waiting
    BY <1>1 DEF ReadAnswer
  <2>2. pc' \in {"exited", "apply"}
    BY <2>1 DEF Answered, Exit
  <2> QED BY <2>2 DEF Waiting
<1>2. ~BridgeClosed /\ ~Killed
  BY DEF BridgeClosed, Killed, Exit, Waiting
<1> QED BY <1>1, <1>2 DEF Start, WriteMask, BeginCapture, CaptureRead, Waiting

\* A wait for an answer runs out unless the modem goes on logging: the variant
\* that QuietWaitEnds rests on, for any IdleLimit and any number of runs,
\* requests, faults and packets.
THEOREM QuietWaitsRunOut == Spec => QuietWaitRunsOut
<1> DEFINE P == Waiting /\ Waiting' =>
                   \/ Log
                   \/ Coming' < Coming
                   \/ Coming' = Coming /\ idle < idle' /\ idle' < IdleLimit
<1>1. TypeOK /\ Next => P
  <2> SUFFICES ASSUME TypeOK, Next, Waiting, Waiting', ~Log
               PROVE  Coming' < Coming \/ (Coming' = Coming /\ idle < idle' /\ idle' < IdleLimit)
    OBVIOUS
  <2>1. CASE Handle
    BY <2>1, HandleComes
  <2>2. CASE \E n \in 1 .. Len(line) : ReadOn(n)
    BY <2>2, ReadTakes
  <2>3. CASE IdleRead
    BY <2>3, IdleCounts
  <2> QED BY <2>1, <2>2, <2>3, OthersEndTheWait DEF Next, HostStep, WaitRead
<1> QED BY <1>1, TypeCorrect, PTL DEF QuietWaitRunsOut, Spec
=============================================================================
