------------------------------- MODULE DfuProofs ------------------------------
(***************************************************************************)
(* Proofs about Dfu and DfuServer, for images, sectors, buffers and        *)
(* packets of any size, any bank that holds the image, and any number of   *)
(* flash faults, lost links and restarts.                                  *)
(*                                                                         *)
(* What the server has written and what the client sends next are only     *)
(* related through the dialogue: Session says, for the request or the      *)
(* answer that is outstanding, what both sides know.  It needs a session   *)
(* that found no answer of an earlier one, since the client takes that for *)
(* the answer to its first request.                                        *)
(***************************************************************************)
EXTENDS Dfu, SequenceTheorems, WellFoundedInduction, TLAPS

-----------------------------------------------------------------------------
(* The flash.                                                              *)

Bytes == Image \cup {Garbage}

FlashType ==
  /\ bank \in [Cell -> Contents]
  /\ ready \in BOOLEAN /\ neighbour \in BOOLEAN
  /\ faults \in 0 .. MaxFaults

(* The programmable cells at off are counted up to the first that is not.  *)
LEMMA FitsIs ==
  ASSUME NEW old, NEW off \in Nat, NEW data \in Seq(Bytes)
  PROVE  /\ Fits(old, off, data) \in 0 .. Len(data)
         /\ \A i \in 1 .. Fits(old, off, data) :
              Programmable(old, off + i - 1, data[i])
<1> DEFINE Stuck == {i \in 1 .. Len(data) :
                       ~Programmable(old, off + i - 1, data[i])}
           Good(k) == /\ \A i \in 1 .. k :
                           Programmable(old, off + i - 1, data[i])
                      /\ k < Len(data) =>
                           ~Programmable(old, off + k, data[k + 1])
<1>1. Len(data) \in Nat
  OBVIOUS
<1>2. \E k \in 0 .. Len(data) : Good(k)
  <2>1. CASE Stuck = {}
    <3>1. ASSUME NEW i \in 1 .. Len(data)
          PROVE  Programmable(old, off + i - 1, data[i])
      <4>1. i \notin Stuck
        BY <2>1
      <4> QED BY <4>1
    <3>2. Good(Len(data))
      BY <3>1, <1>1
    <3> QED BY <3>2, <1>1
  <2>2. CASE Stuck # {}
    <3> DEFINE R == OpToRel(<, Nat)
    <3>1. Stuck \subseteq Nat
      BY <1>1
    <3>2. \A x, y \in Nat : ~ (<<y, x>> \in R) => x <= y
      BY DEF OpToRel
    <3>3. IsWellFoundedOn(R, Nat)
      BY NatLessThanWellFounded
    <3> HIDE DEF R, Stuck
    <3>4. \E x \in Stuck : \A y \in Stuck : ~ (<<y, x>> \in R)
      BY <2>2, <3>1, <3>3, WFMin
    <3>5. PICK x \in Stuck : \A y \in Stuck : x <= y
      BY <3>4, <3>1, <3>2
    <3> USE DEF Stuck
    <3>6. x \in 1 .. Len(data) /\ off + (x - 1) = off + x - 1
      BY <1>1
    <3>7. \A i \in 1 .. x - 1 : i \notin Stuck
      BY <3>1, <3>5
    <3>8. \A i \in 1 .. x - 1 : Programmable(old, off + i - 1, data[i])
      BY <1>1, <3>6, <3>7
    <3>9. Good(x - 1)
      BY <3>6, <3>8, <1>1
    <3>10. x - 1 \in 0 .. Len(data)
      BY <3>6, <1>1
    <3> HIDE DEF Good
    <3> QED BY <3>9, <3>10
  <2> QED BY <2>1, <2>2
<1>3. Fits(old, off, data) = CHOOSE k \in 0 .. Len(data) : Good(k)
  BY DEF Fits
<1> HIDE DEF Good
<1>4. Fits(old, off, data) \in 0 .. Len(data) /\ Good(Fits(old, off, data))
  BY <1>2, <1>3
<1> QED BY <1>4 DEF Good

(* Marking spoils at most the first byte, which no header has.             *)
LEMMA MarkedIs ==
  ASSUME NEW off \in Nat, NEW data \in Seq(Bytes)
  PROVE  /\ Marked(off, data) \in Seq(Bytes)
         /\ Len(Marked(off, data)) = Len(data)
         /\ off # 0 \/ data = <<>> \/ IsHeader(data) => Marked(off, data) = data
<1>1. Garbage \in Bytes
  BY DEF Bytes
<1> QED BY <1>1 DEF Marked, IsHeader

LEMMA EraseIs ==
  ASSUME NEW old \in [Cell -> Contents], NEW sectors
  PROVE  /\ AfterErase(old, sectors) \in [Cell -> Contents]
         /\ \A o \in Cell : (\A s \in sectors : o \notin SectorAt(s)) =>
              AfterErase(old, sectors)[o] = old[o]
BY DEF AfterErase, Contents

LEMMA SectorsAreAhead ==
  ASSUME NEW off \in Nat, NEW n \in Nat, NEW s \in SectorsFor(off, n)
  PROVE  /\ s \in Nat /\ s >= off
         /\ \A o \in Cell : o < off => o \notin SectorAt(s)
BY DfuAssumption DEF SectorsFor, SectorAt, Cell

LEMMA WriteIs ==
  ASSUME NEW old \in [Cell -> Contents], NEW off \in Nat,
         NEW data \in Seq(Bytes), NEW k \in 0 .. Len(data)
  PROVE  /\ AfterWrite(old, off, data, k) \in [Cell -> Contents]
         /\ \A o \in Cell : o < off => AfterWrite(old, off, data, k)[o] = old[o]
         /\ \A o \in Cell : o \in off .. off + k - 1 =>
              AfterWrite(old, off, data, k)[o] = data[o - off + 1]
         /\ \A o \in Cell : old[o] # Erased =>
              AfterWrite(old, off, data, k)[o] # Erased
<1> DEFINE new(o) == CASE o \in off .. off + k - 1 -> data[o - off + 1]
                       [] o = off + k /\ k < Len(data) /\ old[o] # data[k + 1]
                            -> Garbage
                       [] OTHER -> old[o]
<1>1. AfterWrite(old, off, data, k) = [o \in Cell |-> new(o)]
  BY DEF AfterWrite
<1>2. Len(data) \in Nat /\ \A o \in Cell : o \in Int
  BY DfuAssumption DEF Cell
<1>3. ASSUME NEW o \in Cell
      PROVE  /\ new(o) \in Contents
             /\ o < off => new(o) = old[o]
             /\ o \in off .. off + k - 1 => new(o) = data[o - off + 1]
             /\ old[o] # Erased => new(o) # Erased
  <2>1. CASE o \in off .. off + k - 1
    <3>1. o - off + 1 \in 1 .. Len(data)
      BY <1>2, <2>1
    <3>2. data[o - off + 1] \in Bytes
      BY <3>1, ElementOfSeq
    <3>3. Bytes \subseteq Contents /\ Erased \notin Bytes
      BY DfuAssumption DEF Bytes, Contents, Image
    <3> QED BY <1>2, <2>1, <3>2, <3>3
  <2>2. CASE o = off + k /\ k < Len(data) /\ old[o] # data[k + 1]
    <3>1. o \notin off .. off + k - 1
      BY <1>2, <2>2
    <3>2. new(o) = Garbage
      BY <2>2, <3>1
    <3>3. ~ (o < off)
      BY <1>2, <2>2
    <3> HIDE DEF new
    <3>4. Garbage \in Contents /\ Garbage # Erased
      BY DfuAssumption DEF Contents
    <3> QED BY <3>1, <3>2, <3>3, <3>4
  <2>3. CASE /\ o \notin off .. off + k - 1
             /\ ~(o = off + k /\ k < Len(data) /\ old[o] # data[k + 1])
    BY <1>2, <2>3
  <2> QED BY <2>1, <2>2, <2>3
<1> HIDE DEF new
<1> QED BY <1>1, <1>3

(* What an outcome leaves: it touches no cell before off, its sectors are  *)
(* among those of the write, and one that succeeds has written its data.   *)
LEMMA OutcomeIs ==
  ASSUME FlashType, NEW off \in Nat, NEW data \in Seq(Bytes),
         NEW out \in Outcomes(off, data)
  PROVE  /\ out.kept \in [Cell -> Contents]
         /\ out.erased \subseteq SectorsFor(off, Len(data))
         /\ \A o \in Cell : o < off => out.kept[o] = bank[o]
         /\ out.ok = TRUE =>
              \A o \in Cell : o \in off .. off + Len(data) - 1 =>
                out.kept[o] = Marked(off, data)[o - off + 1]
         /\ \A o \in Cell :
              (\A s \in out.erased : o \notin SectorAt(s)) /\ bank[o] # Erased
                => out.kept[o] # Erased
<1> DEFINE d == Marked(off, data)
<1>1. CASE out \in Refusals(off, data)
  <2>1. out = Outcome(bank, {}, FALSE, FALSE)
    BY <1>1 DEF Refusals
  <2> QED BY <2>1 DEF Outcome, FlashType
<1>2. CASE \E erased \in SUBSET SectorsFor(off, Len(data)) :
             out \in Written(off, d, erased)
  <2>1. PICK erased \in SUBSET SectorsFor(off, Len(data)) :
          out \in Written(off, d, erased)
    BY <1>2
  <2> DEFINE blank == AfterErase(bank, erased)
  <2>2. d \in Seq(Bytes) /\ Len(d) = Len(data) /\ Len(data) \in Nat
    BY MarkedIs
  <2> HIDE DEF d
  <2>3. blank \in [Cell -> Contents]
    BY EraseIs DEF FlashType
  <2>4. \A o \in Cell : o < off => blank[o] = bank[o]
    BY <2>2, EraseIs, SectorsAreAhead DEF FlashType
  <2>5. \A o \in Cell : (\A s \in erased : o \notin SectorAt(s)) =>
           blank[o] = bank[o]
    BY EraseIs DEF FlashType
  <2> HIDE DEF blank
  <2>6. Fits(blank, off, d) \in 0 .. Len(d)
    BY <2>2, FitsIs
  <2>7. PICK k \in 0 .. Len(d) :
          \E trouble : out = Outcome(AfterWrite(blank, off, d, k), erased,
                                     k = Len(d), trouble)
    BY <2>1, <2>2, <2>6 DEF Written, blank
  <2>8. /\ out.kept = AfterWrite(blank, off, d, k)
        /\ out.erased = erased
        /\ out.ok = (k = Len(d))
    BY <2>7 DEF Outcome
  <2>9. /\ out.kept \in [Cell -> Contents]
        /\ \A o \in Cell : o < off => out.kept[o] = blank[o]
        /\ \A o \in Cell : o \in off .. off + k - 1 =>
             out.kept[o] = d[o - off + 1]
        /\ \A o \in Cell : blank[o] # Erased => out.kept[o] # Erased
    BY <2>2, <2>3, <2>8, WriteIs
  <2>10. out.ok = TRUE => k = Len(data)
    BY <2>2, <2>8
  <2> QED BY <2>4, <2>8, <2>5, <2>9, <2>10 DEF d
<1>3. out \in Refusals(off, data) \/
      \E erased \in SUBSET SectorsFor(off, Len(data)) :
        out \in Written(off, d, erased)
  BY DEF Outcomes
<1> QED BY <1>1, <1>2, <1>3

(* sil_dfu_update and the erases after it.                                 *)
LEMMA UpdateIs ==
  ASSUME FlashType, NEW off \in Nat, NEW data \in Seq(Bytes), NEW ok,
         NEW again, NEW failing, Update(off, data, ok, again, failing)
  PROVE  /\ FlashType'
         /\ ready' => ready
         /\ \A o \in Cell :
              o < off /\ (\A s \in again : o \notin SectorAt(s)) =>
                bank'[o] = bank[o]
         /\ ok = TRUE /\ again = {} =>
              \A o \in Cell : o \in off .. off + Len(data) - 1 =>
                bank'[o] = Marked(off, data)[o - off + 1]
         /\ (\A s \in SectorsFor(off, Len(data)) \cup again : s < BankSize) =>
              neighbour' = neighbour
         /\ again \subseteq Nat /\ bank[0] # Erased /\ ready' =>
              bank'[0] # Erased
<1>1. PICK out \in Outcomes(off, data) :
        /\ out.ok = ok
        /\ bank' = AfterErase(out.kept, again)
        /\ ready' = (ready /\ 0 \notin out.erased \cup again)
        /\ neighbour' = (neighbour /\
                           \A s \in out.erased \cup again : s < BankSize)
        /\ Fault(out.trouble \/ failing)
  BY DEF Update
<1>2. /\ out.kept \in [Cell -> Contents]
      /\ out.erased \subseteq SectorsFor(off, Len(data))
      /\ \A o \in Cell : o < off => out.kept[o] = bank[o]
      /\ out.ok = TRUE =>
           \A o \in Cell : o \in off .. off + Len(data) - 1 =>
             out.kept[o] = Marked(off, data)[o - off + 1]
      /\ \A o \in Cell :
           (\A s \in out.erased : o \notin SectorAt(s)) /\ bank[o] # Erased =>
             out.kept[o] # Erased
  BY OutcomeIs
<1>3. /\ bank' \in [Cell -> Contents]
      /\ \A o \in Cell : (\A s \in again : o \notin SectorAt(s)) =>
           bank'[o] = out.kept[o]
  BY <1>1, <1>2, EraseIs
<1>4. faults' \in 0 .. MaxFaults
  BY <1>1, DfuAssumption DEF Fault, FlashType
<1>5. ready' \in BOOLEAN /\ (ready' => ready)
  BY <1>1
<1>6. neighbour' \in BOOLEAN
  BY <1>1
<1>7. (\A s \in SectorsFor(off, Len(data)) \cup again : s < BankSize) =>
        neighbour' = neighbour
  BY <1>1, <1>2 DEF FlashType
<1>8. ASSUME again \subseteq Nat, bank[0] # Erased, ready'
      PROVE  bank'[0] # Erased
  <2>1. out.erased \subseteq Nat
    BY <1>2, SectorsAreAhead
  <2>2. 0 \in Cell /\ \A s \in Nat \ {0} : 0 \notin SectorAt(s)
    BY DfuAssumption DEF Cell, SectorAt
  <2>3. out.kept[0] # Erased
    BY <1>1, <1>2, <1>8, <2>1, <2>2
  <2> QED BY <1>1, <1>3, <1>8, <2>2, <2>3
<1> QED BY <1>1, <1>2, <1>3, <1>4, <1>5, <1>6, <1>7, <1>8 DEF FlashType

LEMMA NothingBefore ==
  ASSUME FlashType, NEW off \in Nat, NEW data \in Seq(Bytes), NEW ok,
         NEW failing, Update(off, data, ok, {}, failing)
  PROVE  \A o \in Cell : o < off => bank'[o] = bank[o]
<1>1. PICK none : none = {}
  OBVIOUS
<1>2. Update(off, data, ok, none, failing)
  BY <1>1
<1>3. \A o \in Cell :
        o < off /\ (\A s \in none : o \notin SectorAt(s)) => bank'[o] = bank[o]
  BY <1>2, UpdateIs
<1> QED BY <1>1, <1>3

LEMMA HeaderIs ==
  /\ Piece(0, Header) \in Seq(Bytes) /\ Len(Piece(0, Header)) = Header
  /\ \A i \in 1 .. Header : Piece(0, Header)[i] = i - 1
  /\ Marked(0, Piece(0, Header)) = Piece(0, Header)
  /\ SectorsFor(0, Header) = {0}
<1>1. \A i \in 1 .. Header : 0 + i - 1 = i - 1 /\ i - 1 \in Image
  BY DfuAssumption DEF Image
<1>2. /\ Piece(0, Header) \in Seq(Bytes)
      /\ Len(Piece(0, Header)) = Header
      /\ \A i \in 1 .. Header : Piece(0, Header)[i] = i - 1
  BY <1>1, DfuAssumption DEF Piece, Bytes
<1>3. IsHeader(Piece(0, Header))
  BY <1>2, DfuAssumption DEF IsHeader
<1>4. SectorsFor(0, Header) = {0}
  <2>1. 0 % Sector = 0
    BY DfuAssumption
  <2> QED BY <2>1 DEF SectorsFor
<1> QED BY <1>2, <1>3, <1>4, MarkedIs

(* The header of an image that is ready cannot be written again: either    *)
(* the erase before it takes its mark away or the write fails on its first *)
(* cell, and changes nothing of a header that is the image's.              *)
LEMMA HeaderSpoilsNothing ==
  ASSUME FlashType, ready, bank[0] # Erased, NEW ok,
         Update(0, Piece(0, Header), ok, {}, FALSE), ready'
  PROVE  ok # TRUE /\ (bank[0] = 0 => bank' = bank)
<1> DEFINE d == Piece(0, Header)
<1>1. PICK out \in Outcomes(0, d) :
        /\ out.ok = ok
        /\ bank' = AfterErase(out.kept, {})
        /\ 0 \notin out.erased
  BY DEF Update
<1>2. out.kept \in [Cell -> Contents] /\ out.erased = {}
  BY <1>1, OutcomeIs, HeaderIs
<1>3. bank' = out.kept
  BY <1>1, <1>2 DEF AfterErase
<1>4. CASE out \in Refusals(0, d)
  <2>1. out = Outcome(bank, {}, FALSE, FALSE)
    BY <1>4 DEF Refusals
  <2>2. out.kept = bank /\ out.ok = FALSE
    BY <2>1 DEF Outcome
  <2> QED BY <1>1, <1>3, <2>2
<1>5. CASE \E erased \in SUBSET SectorsFor(0, Len(d)) :
             out \in Written(0, Marked(0, d), erased)
  <2>1. PICK erased \in SUBSET SectorsFor(0, Len(d)) :
          out \in Written(0, d, erased)
    BY <1>5, HeaderIs
  <2>2. \A e \in SUBSET SectorsFor(0, Len(d)) :
          out \in Written(0, d, e) => out.erased = e
    BY DEF Written, Outcome
  <2>3. out \in Written(0, d, {})
    BY <1>2, <2>1, <2>2
  <2>4. AfterErase(bank, {}) = bank
    BY DEF AfterErase, FlashType
  <2>5. ~Programmable(bank, 0, d[1])
    BY DEF Programmable
  <2>6. Fits(bank, 0, d) = 0
    <3>1. /\ Fits(bank, 0, d) \in 0 .. Header
          /\ \A i \in 1 .. Fits(bank, 0, d) :
               Programmable(bank, 0 + i - 1, d[i])
      BY FitsIs, HeaderIs
    <3>2. 0 + 1 - 1 = 0
      OBVIOUS
    <3>3. ~(1 \in 1 .. Fits(bank, 0, d))
      BY <2>5, <3>1, <3>2
    <3> QED BY <3>1, <3>3, DfuAssumption
  <2>7. \E trouble :
          out = Outcome(AfterWrite(bank, 0, d, 0), {}, 0 = Len(d), trouble)
    BY <2>3, <2>4, <2>6 DEF Written
  <2>8. out.kept = AfterWrite(bank, 0, d, 0) /\ out.ok = (0 = Len(d))
    BY <2>7 DEF Outcome
  <2>9. bank[0] = 0 => AfterWrite(bank, 0, d, 0) = bank
    <3>1. SUFFICES ASSUME bank[0] = 0 PROVE AfterWrite(bank, 0, d, 0) = bank
      OBVIOUS
    <3>2. bank[0] = d[0 + 1]
      BY <3>1, HeaderIs, DfuAssumption
    <3>3. 0 .. 0 + 0 - 1 = {}
      OBVIOUS
    <3>4. AfterWrite(bank, 0, d, 0) = [o \in Cell |-> bank[o]]
      BY <3>2, <3>3 DEF AfterWrite
    <3> QED BY <3>4 DEF FlashType
  <2> QED BY <1>1, <1>3, <2>8, <2>9, HeaderIs, DfuAssumption
<1> QED BY <1>4, <1>5 DEF Outcomes

-----------------------------------------------------------------------------
(* The server, whatever the client sends.                                  *)

RamType ==
  /\ curr_offset \in Nat /\ resend \in Nat
  /\ image_length \in {0, ImageLength}
  /\ buffer \in Seq(Bytes)
  /\ checked \in BOOLEAN

ServerType == FlashType /\ RamType

LEMMA ClearedType == ASSUME Cleared PROVE RamType'
<1>1. <<>> \in Seq(Bytes)
  OBVIOUS
<1> QED BY <1>1 DEF Cleared, RamType

LEMMA StartType ==
  ASSUME ServerType, Start \/ StartFails
  PROVE  ServerType'
<1>1. FlashType'
  BY HeaderIs, UpdateIs DEF ServerType, Start, StartFails
<1>2. CASE Start
  BY <1>1, <1>2, DfuAssumption DEF Start, ServerType, RamType
<1>3. CASE StartFails
  BY <1>1, <1>3, ClearedType DEF StartFails, ServerType
<1> QED BY <1>2, <1>3

LEMMA CheckType ==
  ASSUME ServerType, NEW size, NEW s, BufferCheck(size, s)
  PROVE  ServerType' /\ buffer' = <<>>
<1> USE DEF ServerType
<1>1. CASE Refuse
  BY <1>1 DEF Refuse, AnswerFrom, RamType, FlashType, flash
<1>2. CASE WriteBuffer
  <2>1. FlashType'
    BY <1>2, UpdateIs DEF WriteBuffer, RamType
  <2>2. curr_offset + Len(buffer) \in Nat
    BY DEF RamType
  <2>3. resend' \in Nat
    BY <1>2, DfuAssumption DEF WriteBuffer, NextResend, RamType
  <2> QED BY <1>2, <2>1, <2>2, <2>3 DEF WriteBuffer, AnswerFrom, RamType
<1>3. CASE WriteFails
  <2>1. FlashType'
    BY <1>3, UpdateIs DEF WriteFails, RamType
  <2> QED BY <1>3, <2>1 DEF WriteFails, AnswerFrom, ResumeAt, RamType
<1> QED BY <1>1, <1>2, <1>3 DEF BufferCheck

LEMMA DataType ==
  ASSUME ServerType, NEW data \in Seq(Bytes),
         Ignore \/ Collect(data) \/ WriteData(data) \/ DataFails(data)
  PROVE  ServerType'
<1> USE DEF ServerType
<1>1. buffer \o data \in Seq(Bytes) /\ Len(buffer) \in Nat /\ Len(data) \in Nat
  BY DEF RamType
<1>2. CASE Ignore
  BY <1>2 DEF Ignore, server, flash, ram, FlashType, RamType
<1>3. CASE Collect(data)
  BY <1>1, <1>3 DEF Collect, flash, FlashType, RamType
<1>4. CASE WriteData(data)
  <2>1. FlashType'
    BY <1>1, <1>4, UpdateIs DEF WriteData, RamType
  <2> QED BY <1>1, <1>4, <2>1 DEF WriteData, RamType
<1>5. CASE DataFails(data)
  <2>1. FlashType'
    BY <1>1, <1>5, UpdateIs DEF DataFails, RamType
  <2> QED BY <1>5, <2>1, ClearedType DEF DataFails
<1> QED BY <1>2, <1>3, <1>4, <1>5

-----------------------------------------------------------------------------
(* The messages on the link, and what a handler does with one.             *)

DataMsgs == {m \in [op : {"data"}, arg : Seq(Bytes)] : Len(m.arg) <= Mtu}
CrcMsgs == [op : {"crc"}, arg : Nat, sum : Seq(Bytes)]
PlainMsgs == [op : {"target", "start", "valid"}, arg : {"app", "patch"}]
             \cup [op : {"check", "activate", "reset"}, arg : {0}]
RequestMsgs == DataMsgs \cup CrcMsgs \cup PlainMsgs
AnswerMsgs == [op : {"target", "valid"}, arg : BOOLEAN]
              \cup [op : {"start", "check"}, arg : {0}]
              \cup [op : {"crc"}, arg : Nat]

First == Msg("target", "app")

LEMMA RequestKinds ==
  /\ \A m \in DataMsgs :
       m.op = "data" /\ m.arg \in Seq(Bytes) /\ Len(m.arg) <= Mtu
  /\ \A m \in CrcMsgs : m.op = "crc" /\ m.arg \in Nat /\ m.sum \in Seq(Bytes)
  /\ \A m \in PlainMsgs :
       m.op \in {"target", "start", "check", "valid", "activate", "reset"}
BY DEF DataMsgs, CrcMsgs, PlainMsgs

LEMMA AnswerKinds ==
  \A m \in AnswerMsgs :
    /\ m.op \in {"target", "start", "check", "crc", "valid"}
    /\ m.op = "crc" => m.arg \in Nat
BY DEF AnswerMsgs

ClientType ==
  /\ signature \in {"app", "patch"}
  /\ pushed \in Nat /\ burst \in Nat
  /\ length \in {0, ImageLength}
  /\ pkt_count \in 0 .. buffer_check_pkt_num - 1
  /\ sum \in Seq(Bytes)
  /\ fsm \in {"idle", "cccd", "data", "wait"}
  /\ cached \in AnswerMsgs \cup {NoMsg}

LinkType ==
  /\ up \in BOOLEAN /\ response \in BOOLEAN
  /\ requests \in Seq(RequestMsgs)
  /\ answers \in Seq(AnswerMsgs)
  /\ pending \in Nat

FateType ==
  /\ restarting \in BOOLEAN /\ updated \in BOOLEAN
  /\ losses \in 0 .. MaxLosses
  /\ stale \subseteq {"offset", "message"}

Types == ServerType /\ ClientType /\ LinkType /\ FateType

(* Packets of Mtu bytes fill a buffer and no more.                         *)
LEMMA PacketNumber ==
  /\ buffer_check_pkt_num \in Nat \ {0}
  /\ buffer_check_pkt_num * Mtu <= BufferSize
  /\ \A k \in Nat : k * Mtu \in Nat /\ (k + 1) * Mtu = k * Mtu + Mtu
  /\ \A j, k \in Nat : j <= k => j * Mtu <= k * Mtu
<1> USE LinkAssumption, DfuAssumption
<1>1. Mtu \in Nat \ {0} /\ BufferSize \in Nat \ {0} /\ Mtu <= BufferSize
  OBVIOUS
<1>2. /\ buffer_check_pkt_num \in Nat \ {0}
      /\ buffer_check_pkt_num * Mtu <= BufferSize
  BY <1>1, Z3 DEF buffer_check_pkt_num
<1>3. ASSUME NEW k \in Nat
      PROVE  k * Mtu \in Nat /\ (k + 1) * Mtu = k * Mtu + Mtu
  BY <1>1, <1>3
<1>4. ASSUME NEW j \in Nat, NEW k \in Nat, j <= k
      PROVE  j * Mtu <= k * Mtu
  BY <1>1, <1>4
<1> QED BY <1>2, <1>3, <1>4

(* Sending: what is appended, and where it comes to stand.                 *)
LEMMA AppendIs ==
  ASSUME NEW S, NEW q \in Seq(S), NEW m \in S
  PROVE  /\ Append(q, m) \in Seq(S)
         /\ Len(Append(q, m)) = Len(q) + 1
         /\ Append(q, m)[Len(q) + 1] = m
         /\ \A i \in 1 .. Len(q) : Append(q, m)[i] = q[i]
         /\ Append(<<>>, m) = <<m>>
         /\ q \o <<m>> = Append(q, m)
<1>1. Append(<<>>, m) = <<m>>
  OBVIOUS
<1> QED BY <1>1, AppendProperties, AppendIsConcat

LEMMA TailIs ==
  ASSUME NEW S, NEW q \in Seq(S), q # <<>>
  PROVE  /\ Head(q) \in S /\ Head(q) = q[1]
         /\ Tail(q) \in Seq(S)
         /\ Len(q) \in Nat \ {0}
         /\ Len(Tail(q)) = Len(q) - 1
         /\ \A i \in 1 .. Len(q) - 1 : Tail(q)[i] = q[i + 1]
         /\ Len(q) = 1 => Tail(q) = <<>>
<1>1. /\ Head(q) \in S
      /\ Tail(q) \in Seq(S)
      /\ Len(Tail(q)) = Len(q) - 1
      /\ \A i \in 1 .. Len(Tail(q)) : Tail(q)[i] = q[i + 1]
  BY HeadTailProperties
<1>2. Len(q) \in Nat \ {0}
  BY EmptySeq
<1>3. Head(q) = q[1]
  OBVIOUS
<1>4. ASSUME Len(q) = 1 PROVE Tail(q) = <<>>
  <2>1. Len(Tail(q)) = 0 /\ Tail(q) \in Seq(S)
    BY <1>1, <1>4
  <2>2. \A t \in Seq(S) : t # <<>> => Len(t) \in Nat \ {0}
    BY EmptySeq
  <2> QED BY <2>1, <2>2
<1> QED BY <1>1, <1>2, <1>3, <1>4

LEMMA HandleIs ==
  ASSUME NEW m \in AnswerMsgs, HandleCpMsg(m)
  PROVE  /\ m.op = "target" =>
              HandleTarget(m.arg) /\ UNCHANGED <<pkt_count, sum, burst>>
         /\ m.op = "start" => Request(Msg("check", 0)) /\ SameImage
         /\ m.op = "check" => HandleCheck
         /\ m.op = "crc" => HandleCrc(m.arg)
         /\ m.op = "valid" =>
              /\ Request(Msg(IF m.arg THEN "activate" ELSE "reset", 0))
              /\ SameImage
BY DEF HandleCpMsg

(* The handler sends one request, which is never the first of a session,   *)
(* or it lets the client push.                                             *)
LEMMA HandleEffect ==
  ASSUME Types, requests = <<>>, NEW m \in AnswerMsgs, HandleCpMsg(m)
  PROVE  /\ signature' \in {"app", "patch"}
         /\ pushed' \in Nat /\ burst' \in Nat
         /\ length' \in {0, ImageLength}
         /\ pkt_count' \in 0 .. buffer_check_pkt_num - 1
         /\ sum' = sum
         /\ \/ /\ fsm' = "wait" /\ burst' = burst
               /\ \E r \in PlainMsgs : r # First /\ requests' = <<r>>
            \/ fsm' = "idle" /\ requests' = <<>>
<1> USE DEF Types, ClientType
<1>1. /\ \A r \in PlainMsgs :
           Request(r) => requests' = <<r>> /\ fsm' = "wait"
      /\ Msg("target", "patch") \in PlainMsgs
      /\ Msg("target", "patch") # First
      /\ \A x \in {"app", "patch"} :
           Msg("start", x) \in PlainMsgs /\ Msg("start", x) # First
      /\ \A x \in {"app", "patch"} :
           Msg("valid", x) \in PlainMsgs /\ Msg("valid", x) # First
      /\ \A x \in {"check", "activate", "reset"} :
           Msg(x, 0) \in PlainMsgs /\ Msg(x, 0) # First
  <2>1. \A r \in PlainMsgs : Append(requests, r) = <<r>>
    BY AppendIs
  <2> QED BY <2>1 DEF Request, Msg, PlainMsgs, First
<1>2. CASE m.op = "target"
  <2>1. HandleTarget(m.arg) /\ UNCHANGED <<pkt_count, sum, burst>>
    BY <1>2, HandleIs
  <2> QED BY <1>1, <2>1, DfuAssumption DEF HandleTarget
<1>3. CASE m.op = "start"
  BY <1>1, <1>3, HandleIs DEF SameImage
<1>4. CASE m.op = "check"
  <2>1. HandleCheck
    BY <1>4, HandleIs
  <2>2. 0 \in 0 .. buffer_check_pkt_num - 1 /\ Burst \in Nat
    BY PacketNumber, LinkAssumption
  <2> QED BY <2>1, <2>2 DEF HandleCheck
<1>5. CASE m.op = "crc"
  <2>1. HandleCrc(m.arg) /\ m.arg \in Nat
    BY <1>5, HandleIs, AnswerKinds
  <2> QED BY <1>1, <2>1 DEF HandleCrc, GoesOnFrom
<1>6. CASE m.op = "valid"
  BY <1>1, <1>6, HandleIs DEF SameImage
<1> QED BY <1>2, <1>3, <1>4, <1>5, <1>6, AnswerKinds

(* What the client has summed up of the buffer it is pushing.              *)
Summed == IF pkt_count = 0 THEN <<>> ELSE sum

LEMMA PacketIs ==
  ASSUME Types
  PROVE  /\ PacketSize \in 0 .. Mtu
         /\ Packet(PacketSize) \in Seq(Bytes)
         /\ Len(Packet(PacketSize)) = PacketSize
         /\ length = ImageLength /\ pushed <= length =>
              /\ pushed + PacketSize <= length
              /\ \A i \in 1 .. PacketSize :
                   Packet(PacketSize)[i] = pushed + i - 1
<1>1. /\ pushed \in Nat /\ length \in {0, ImageLength}
      /\ Mtu \in Nat \ {0} /\ ImageLength \in Nat
  BY DfuAssumption, LinkAssumption DEF Types, ClientType
<1>2. /\ PacketSize \in 0 .. Mtu
      /\ length = ImageLength /\ pushed <= length =>
           pushed + PacketSize <= length
  BY <1>1 DEF PacketSize, Lesser
<1> HIDE DEF PacketSize
<1>3. /\ Packet(PacketSize) \in Seq(Bytes)
      /\ Len(Packet(PacketSize)) = PacketSize
      /\ \A i \in 1 .. PacketSize : pushed + i - 1 \in Image =>
           Packet(PacketSize)[i] = pushed + i - 1
  BY <1>1, <1>2 DEF Packet, Bytes
<1> QED BY <1>1, <1>2, <1>3 DEF Image

LEMMA PushIs ==
  ASSUME Types, Push
  PROVE  \E d \in DataMsgs, q \in Seq(RequestMsgs) :
           /\ d = Msg("data", Packet(PacketSize))
           /\ q = requests \/ q = Append(requests, d)
           /\ pushed' = pushed + PacketSize
           /\ sum' = Summed \o d.arg /\ sum' \in Seq(Bytes)
           /\ pending' \in Nat
           /\ \/ /\ fsm' = "data" /\ requests' = q
                 /\ pkt_count' = pkt_count + 1
                 /\ pkt_count' <= buffer_check_pkt_num - 1
              \/ /\ fsm' = "wait" /\ pkt_count' = 0
                 /\ \E c \in CrcMsgs :
                      c.sum = sum' /\ requests' = Append(q, c)
<1> DEFINE n == PacketSize
           data == Packet(n)
           d == Msg("data", data)
           total == Summed \o data
           count == pkt_count + 1
           last == count = buffer_check_pkt_num \/ pushed + n = length
           c == [op |-> "crc", arg |-> (count - 1) * Mtu + n, sum |-> total]
           sent == IF pending < Credits THEN <<d>> ELSE <<>>
           q == requests \o sent
<1>1. /\ pending' = pending + Len(sent)
      /\ requests' = q \o (IF last THEN <<c>> ELSE <<>>)
      /\ fsm' = IF last THEN "wait" ELSE "data"
      /\ pkt_count' = IF last THEN 0 ELSE count
      /\ sum' = total
      /\ pushed' = pushed + n
  BY DEF Push, Summed
<1>2. /\ n \in 0 .. Mtu /\ data \in Seq(Bytes) /\ Len(data) = n
      /\ Mtu \in Nat
      /\ pkt_count \in 0 .. buffer_check_pkt_num - 1
      /\ requests \in Seq(RequestMsgs)
      /\ pending \in Nat
  BY PacketIs, LinkAssumption DEF Types, ClientType, LinkType
<1>3. total \in Seq(Bytes)
  <2>1. Summed \in Seq(Bytes)
    BY EmptySeq DEF Summed, Types, ClientType
  <2> QED BY <1>2, <2>1, ConcatProperties
<1> HIDE DEF n, data, total
<1>4. d \in DataMsgs /\ d.arg = data
  BY <1>2 DEF DataMsgs, Msg
<1>5. c \in CrcMsgs /\ c.sum = total
  <2>1. pkt_count * Mtu \in Nat /\ count - 1 = pkt_count
    BY <1>2, PacketNumber
  <2>2. (count - 1) * Mtu + n \in Nat
    BY <1>2, <2>1
  <2> QED BY <1>3, <2>2 DEF CrcMsgs
<1>6. /\ sent = <<d>> \/ sent = <<>>
      /\ Len(sent) \in Nat
  OBVIOUS
<1> HIDE DEF sent, d, c
<1>7. q \in Seq(RequestMsgs) /\ (q = requests \/ q = Append(requests, d))
  <2>1. d \in RequestMsgs
    BY <1>4 DEF RequestMsgs
  <2>2. CASE sent = <<d>>
    BY <1>2, <2>1, <2>2, AppendIs
  <2>3. CASE sent = <<>>
    BY <1>2, <2>3, ConcatEmptySeq
  <2> QED BY <1>6, <2>2, <2>3
<1> HIDE DEF q
<1>8. /\ d = Msg("data", Packet(PacketSize))
      /\ pushed' = pushed + PacketSize
      /\ sum' = Summed \o d.arg /\ sum' \in Seq(Bytes)
      /\ pending' \in Nat
  <2>1. sum' = Summed \o d.arg
    BY <1>1, <1>4 DEF total
  <2> QED BY <1>1, <1>2, <1>3, <1>6, <2>1 DEF d, data, n
<1>9. CASE last
  <2>1. c \in RequestMsgs
    BY <1>5 DEF RequestMsgs
  <2>2. requests' = Append(q, c)
    BY <1>1, <1>7, <1>9, <2>1, AppendIs
  <2>3. c.sum = sum'
    BY <1>1, <1>5
  <2>4. fsm' = "wait" /\ pkt_count' = 0
    BY <1>1, <1>9
  <2> HIDE DEF last
  <2> QED BY <1>4, <1>5, <1>7, <1>8, <2>2, <2>3, <2>4
<1>10. CASE ~last
  <2>1. requests' = q
    BY <1>1, <1>7, <1>10, ConcatEmptySeq
  <2>2. count <= buffer_check_pkt_num - 1
    BY <1>2, <1>10, PacketNumber
  <2>3. fsm' = "data" /\ pkt_count' = count
    BY <1>1, <1>10
  <2> HIDE DEF last
  <2> QED BY <1>4, <1>7, <1>8, <2>1, <2>2, <2>3
<1> QED BY <1>9, <1>10

-----------------------------------------------------------------------------
(* The link carries at most one request, after the packets it is about,    *)
(* and the client waits exactly while that request is on its way or its    *)
(* response is.                                                            *)

Last == requests[Len(requests)]

Quiet == requests = <<>> /\ answers = <<>> /\ ~response /\ burst = 0

Wire ==
  /\ ~up \/ fsm = "cccd" => Quiet
  /\ fsm = "idle" => requests = <<>> /\ ~response
  /\ fsm = "data" =>
       ~response /\ \A i \in 1 .. Len(requests) : requests[i] \in DataMsgs
  /\ fsm = "wait" /\ up /\ response => requests = <<>>
  /\ fsm = "wait" /\ up /\ ~response =>
       /\ requests # <<>>
       /\ \A i \in 1 .. Len(requests) - 1 : requests[i] \in DataMsgs
       /\ Last \in CrcMsgs \/ (Last \in PlainMsgs /\ Len(requests) = 1)
  /\ requests = <<First>> => answers = <<>> /\ burst = 0

LEMMA FirstIs ==
  /\ First \in PlainMsgs /\ First.op = "target"
  /\ First \notin DataMsgs \cup CrcMsgs
BY DEF First, Msg, PlainMsgs, DataMsgs, CrcMsgs

(* A response waits for the request that the client waits for.             *)
LEMMA WaitsForResponse ==
  ASSUME Types, Wire, up
  PROVE  /\ response => fsm = "wait" /\ requests = <<>>
         /\ fsm = "idle" => requests = <<>>
BY DEF Types, ClientType, LinkType, Wire, Quiet

(* The server's next write.                                                *)
LEMMA NextWrite ==
  ASSUME Types, Wire, up, requests # <<>>
  PROVE  /\ ~response /\ fsm \in {"data", "wait"}
         /\ Head(requests).op = "data" =>
              /\ Head(requests) \in DataMsgs
              /\ fsm = "wait" => Len(requests) > 1 /\ Last \in CrcMsgs
         /\ Head(requests).op # "data" =>
              /\ fsm = "wait" /\ Len(requests) = 1
              /\ Head(requests) = Last /\ Last \in CrcMsgs \cup PlainMsgs
              /\ Tail(requests) = <<>>
<1>1. /\ requests \in Seq(RequestMsgs)
      /\ Len(requests) \in Nat \ {0}
      /\ Head(requests) = requests[1]
      /\ Len(requests) = 1 => Tail(requests) = <<>>
  BY TailIs DEF Types, LinkType
<1>2. ~response /\ fsm \in {"data", "wait"}
  BY DEF Types, ClientType, LinkType, Wire, Quiet
<1>3. CASE fsm = "data"
  <2>1. requests[1] \in DataMsgs
    BY <1>1, <1>3 DEF Wire
  <2> QED BY <1>1, <1>2, <1>3, <2>1, RequestKinds
<1>4. CASE fsm = "wait"
  <2>1. /\ \A i \in 1 .. Len(requests) - 1 : requests[i] \in DataMsgs
        /\ Last \in CrcMsgs \/ (Last \in PlainMsgs /\ Len(requests) = 1)
    BY <1>2, <1>4 DEF Wire
  <2>2. CASE Len(requests) = 1
    <3>1. requests[1] = Last
      BY <2>2 DEF Last
    <3> QED BY <1>1, <1>2, <1>4, <2>1, <2>2, <3>1, RequestKinds
  <2>3. CASE Len(requests) # 1
    <3>1. Len(requests) > 1
      <4>1. \A k \in Nat \ {0} : k # 1 => k > 1
        OBVIOUS
      <4> QED BY <1>1, <2>3, <4>1
    <3>2. 1 \in 1 .. Len(requests) - 1
      BY <1>1, <3>1
    <3>3. Head(requests) \in DataMsgs
      BY <1>1, <2>1, <3>2
    <3>4. Head(requests).op = "data"
      BY <3>3, RequestKinds
    <3>5. Len(requests) > 1 /\ Last \in CrcMsgs
      BY <2>1, <2>3, <3>1
    <3> QED BY <1>2, <1>4, <3>3, <3>4, <3>5
  <2> QED BY <2>2, <2>3
<1> QED BY <1>2, <1>3, <1>4

LEMMA DownWire ==
  ASSUME Types, Wire, Down
  PROVE  ClientType' /\ LinkType' /\ Wire' /\ ~up'
<1>1. <<>> \in Seq(RequestMsgs) /\ <<>> \in Seq(AnswerMsgs) /\ Len(<<>>) = 0
  OBVIOUS
<1>2. ClientType'
  BY DEF Down, Types, ClientType
<1>3. LinkType'
  BY <1>1 DEF Down, LinkType
<1>4. Wire'
  BY <1>1 DEF Down, Wire, Quiet
<1> QED BY <1>2, <1>3, <1>4 DEF Down

(* Every answer that the server notifies is the answer to its only write.  *)
LEMMA NotifyWire ==
  ASSUME Types, Wire, up, requests # <<>>, Head(requests).op # "data",
         NEW m \in AnswerMsgs, Notify(m)
  PROVE  ClientType' /\ LinkType' /\ Wire'
<1>1. fsm = "wait" /\ requests' = <<>> /\ response' = TRUE
  BY NextWrite DEF Notify
<1>2. answers' \in Seq(AnswerMsgs)
  BY AppendProperties DEF Notify, Types, LinkType
<1>3. requests' \in Seq(RequestMsgs)
  BY <1>1
<1>4. ClientType'
  BY DEF Notify, client, Types, ClientType
<1> QED BY <1>1, <1>2, <1>3, <1>4
        DEF Notify, client, Types, LinkType, Wire, Quiet

LEMMA FateSame ==
  ASSUME FateType, UNCHANGED <<restarting, updated, losses, stale>>
  PROVE  FateType'
BY DEF FateType

LEMMA RestartType ==
  ASSUME FateType, Restart, UNCHANGED losses
  PROVE  FateType'
BY DEF FateType, Restart

-----------------------------------------------------------------------------
(* The steps of the client keep the types and the order on the link.       *)

LEMMA CccdWire ==
  ASSUME Types, Wire, CccdWritten
  PROVE  Types' /\ Wire' /\ requests' = <<First>>
<1>1. requests = <<>> /\ answers = <<>> /\ ~response /\ burst = 0
  BY DEF CccdWritten, Wire, Quiet
<1>2. First \in RequestMsgs
  BY FirstIs DEF RequestMsgs
<1>3. /\ Append(<<>>, First) = <<First>>
      /\ Append(<<>>, First) \in Seq(RequestMsgs)
  BY <1>2, AppendIs, EmptySeq
<1>4. requests' = <<First>> /\ fsm' = "wait"
  BY <1>1, <1>3 DEF CccdWritten, Request, First
<1>5. Len(<<First>>) = 1 /\ <<First>>[1] = First
  OBVIOUS
<1>6. ServerType' /\ FateType'
  BY DEF CccdWritten, Types, ServerType, server, flash, ram, fate, FlashType,
         RamType, FateType
<1>7. ClientType' /\ LinkType'
  BY <1>3, <1>4 DEF CccdWritten, Types, ClientType, LinkType
<1>8. Wire'
  BY <1>1, <1>4, <1>5, FirstIs DEF CccdWritten, Wire, Quiet, Last
<1> QED BY <1>4, <1>6, <1>7, <1>8 DEF Types

LEMMA SameServer ==
  ASSUME Types, UNCHANGED <<server, fate>>
  PROVE  ServerType' /\ FateType'
BY DEF Types, ServerType, server, flash, ram, fate, FlashType, RamType, FateType

LEMMA HandledWire ==
  ASSUME Types, Wire, up, requests = <<>>, burst = 0, NEW m \in AnswerMsgs,
         HandleCpMsg(m), UNCHANGED <<up, pending>>, response' = FALSE,
         answers' \in Seq(AnswerMsgs), cached' \in AnswerMsgs \cup {NoMsg}
  PROVE  ClientType' /\ LinkType' /\ Wire'
<1>1. /\ signature' \in {"app", "patch"}
      /\ pushed' \in Nat /\ burst' \in Nat
      /\ length' \in {0, ImageLength}
      /\ pkt_count' \in 0 .. buffer_check_pkt_num - 1
      /\ sum' = sum
  BY HandleEffect
<1>2. CASE fsm' = "idle" /\ requests' = <<>>
  <2>1. <<>> \in Seq(RequestMsgs) /\ <<>> # <<First>>
    OBVIOUS
  <2>2. ClientType'
    BY <1>1, <1>2 DEF Types, ClientType
  <2>3. LinkType'
    BY <1>2, <2>1 DEF Types, LinkType
  <2>4. Wire'
    BY <1>2, <2>1 DEF Wire, Quiet
  <2> QED BY <2>2, <2>3, <2>4
<1>3. CASE /\ fsm' = "wait" /\ burst' = burst
           /\ \E r \in PlainMsgs : r # First /\ requests' = <<r>>
  <2>1. PICK r \in PlainMsgs : r # First /\ requests' = <<r>>
    BY <1>3
  <2>2. r \in RequestMsgs
    BY DEF RequestMsgs
  <2>3. <<r>> \in Seq(RequestMsgs) /\ Len(<<r>>) = 1 /\ <<r>>[1] = r
    BY <2>2
  <2>4. <<r>> # <<First>> /\ <<r>> # <<>>
    BY <2>1
  <2>5. ClientType'
    BY <1>1, <1>3 DEF Types, ClientType
  <2>6. LinkType'
    BY <2>1, <2>3 DEF Types, LinkType
  <2>7. Len(requests') = 1 /\ Last' = r
    BY <2>1, <2>3 DEF Last
  <2>8. Wire'
    BY <1>3, <2>1, <2>4, <2>7 DEF Wire, Quiet
  <2> QED BY <2>5, <2>6, <2>8
<1> QED BY <1>2, <1>3, HandleEffect

LEMMA RespondedWire ==
  ASSUME Types, Wire, Responded
  PROVE  Types' /\ Wire'
<1>1. up /\ response /\ burst = 0 /\ fsm = "wait" /\ requests = <<>>
  BY WaitsForResponse DEF Responded
<1>2. ServerType' /\ FateType'
  BY SameServer DEF Responded
<1>3. CASE cached # NoMsg
  <2>1. cached \in AnswerMsgs /\ HandleCpMsg(cached)
    BY <1>1, <1>3 DEF Responded, Types, ClientType
  <2>2. answers' \in Seq(AnswerMsgs) /\ cached' \in AnswerMsgs \cup {NoMsg}
    BY <1>1 DEF Responded, Types, LinkType
  <2>3. ClientType' /\ LinkType' /\ Wire'
    BY <1>1, <2>1, <2>2, HandledWire DEF Responded
  <2> QED BY <1>2, <2>3 DEF Types
<1>4. CASE cached = NoMsg
  <2>1. /\ fsm' = "idle" /\ requests' = <<>> /\ response' = FALSE
        /\ UNCHANGED <<up, answers, pending>> /\ SameImage
        /\ cached' = NoMsg
    BY <1>1, <1>4 DEF Responded
  <2>2. ClientType' /\ LinkType'
    BY <1>1, <2>1 DEF SameImage, Types, ClientType, LinkType
  <2>3. Wire'
    BY <1>1, <2>1 DEF Wire, Quiet
  <2> QED BY <1>2, <2>2, <2>3 DEF Types
<1> QED BY <1>3, <1>4

LEMMA NotifiedWire ==
  ASSUME Types, Wire, Notified
  PROVE  Types' /\ Wire'
<1>1. /\ up /\ answers # <<>> /\ burst = 0
      /\ answers' = Tail(answers) /\ UNCHANGED <<up, response, pending>>
  BY DEF Notified
<1>2. ServerType' /\ FateType'
  BY SameServer DEF Notified
<1>3. Head(answers) \in AnswerMsgs /\ Tail(answers) \in Seq(AnswerMsgs)
  BY <1>1, TailIs DEF Types, LinkType
<1>4. CASE fsm = "idle"
  <2>1. HandleCpMsg(Head(answers)) /\ cached' = cached
    BY <1>4 DEF Notified
  <2>2. requests = <<>> /\ response' = FALSE
    BY <1>1, <1>4 DEF Wire, Types, LinkType
  <2>3. cached' \in AnswerMsgs \cup {NoMsg}
    BY <2>1 DEF Types, ClientType
  <2>4. ClientType' /\ LinkType' /\ Wire'
    BY <1>1, <1>3, <2>1, <2>2, <2>3, HandledWire
  <2> QED BY <1>2, <2>4 DEF Types
<1>5. CASE fsm # "idle"
  <2>1. cached' = Head(answers) /\ UNCHANGED <<fsm, requests>> /\ SameImage
    BY <1>5 DEF Notified
  <2>2. ClientType' /\ LinkType'
    BY <1>1, <1>3, <2>1 DEF SameImage, Types, ClientType, LinkType
  <2>3. fsm # "cccd" /\ requests # <<First>>
    BY <1>1 DEF Wire, Quiet
  <2>4. Wire'
    BY <1>1, <2>1, <2>3, <1>5 DEF Wire, Quiet, Last, SameImage
  <2> QED BY <1>2, <2>2, <2>4 DEF Types
<1> QED BY <1>4, <1>5

LEMMA DataSentWire ==
  ASSUME Types, Wire, DataSent
  PROVE  Types' /\ Wire'
<1>1. ServerType' /\ FateType'
  BY SameServer DEF DataSent
<1>2. ClientType' /\ LinkType'
  BY DEF DataSent, Types, ClientType, LinkType
<1>3. fsm # "data" => burst' = 0
  BY DEF DataSent
<1>4. fsm = "data" => requests # <<First>>
  <2>1. Len(<<First>>) = 1 /\ <<First>>[1] = First
    OBVIOUS
  <2> QED BY <2>1, FirstIs DEF Wire
<1>5. Wire'
  BY <1>3, <1>4 DEF DataSent, Wire, Quiet, Last
<1> QED BY <1>1, <1>2, <1>5 DEF Types

LEMMA PushImageWire ==
  ASSUME Types, Wire, PushImage
  PROVE  Types' /\ Wire'
<1>1. /\ burst \in Nat /\ burst > 0 /\ burst' = burst - 1
      /\ up /\ fsm # "cccd" /\ requests # <<First>>
      /\ requests \in Seq(RequestMsgs)
  BY DEF PushImage, Types, ClientType, LinkType, Wire, Quiet
<1>2. ServerType' /\ FateType'
  BY SameServer DEF PushImage
<1>3. UNCHANGED <<signature, length, cached, up, answers, response>>
  BY DEF PushImage
<1>4. CASE MayPush
  <2>1. fsm \in {"idle", "data"} /\ ~response
    BY <1>1, <1>4 DEF MayPush, Types, ClientType, Wire
  <2>2. \A i \in 1 .. Len(requests) : requests[i] \in DataMsgs
    BY <2>1 DEF Wire
  <2>3. Push
    BY <1>4 DEF PushImage
  <2>4. PICK d \in DataMsgs, q \in Seq(RequestMsgs) :
          /\ q = requests \/ q = Append(requests, d)
          /\ pushed' = pushed + PacketSize
          /\ sum' \in Seq(Bytes) /\ pending' \in Nat
          /\ \/ /\ fsm' = "data" /\ requests' = q
                /\ pkt_count' = pkt_count + 1
                /\ pkt_count' <= buffer_check_pkt_num - 1
             \/ /\ fsm' = "wait" /\ pkt_count' = 0
                /\ \E c \in CrcMsgs : requests' = Append(q, c)
    BY <2>3, PushIs
  <2>5. /\ Len(q) \in Nat
        /\ \A i \in 1 .. Len(q) : q[i] \in DataMsgs
    <3>1. CASE q = requests
      BY <2>2, <3>1
    <3>2. CASE q = Append(requests, d)
      <4>1. d \in RequestMsgs
        BY DEF RequestMsgs
      <4>2. /\ Len(q) = Len(requests) + 1
            /\ q[Len(requests) + 1] = d
            /\ \A i \in 1 .. Len(requests) : q[i] = requests[i]
        BY <1>1, <3>2, <4>1, AppendIs
      <4>3. Len(requests) \in Nat
        BY <1>1
      <4>4. ASSUME NEW i \in 1 .. Len(q) PROVE q[i] \in DataMsgs
        <5>1. i \in 1 .. Len(requests) \/ i = Len(requests) + 1
          BY <4>2, <4>3
        <5> QED BY <2>2, <4>2, <5>1
      <4> QED BY <4>2, <4>3, <4>4
    <3> QED BY <2>4, <3>1, <3>2
  <2>6. \A t : t = <<First>> => Len(t) = 1 /\ t[1] = First
    OBVIOUS
  <2>7. PacketSize \in Nat
    BY PacketIs, LinkAssumption
  <2>8. CASE /\ fsm' = "data" /\ requests' = q
             /\ pkt_count' = pkt_count + 1
             /\ pkt_count' <= buffer_check_pkt_num - 1
    <3>1. requests' # <<First>>
      BY <2>5, <2>6, <2>8, FirstIs
    <3>2. Wire'
      BY <1>1, <1>3, <2>1, <2>5, <2>8, <3>1 DEF Wire, Quiet
    <3>3. pkt_count' \in 0 .. buffer_check_pkt_num - 1
      BY <2>8, PacketNumber DEF Types, ClientType
    <3>4. ClientType' /\ LinkType'
      BY <1>1, <1>3, <2>4, <2>7, <2>8, <3>3 DEF Types, ClientType, LinkType
    <3> QED BY <1>2, <3>2, <3>4 DEF Types
  <2>9. CASE /\ fsm' = "wait" /\ pkt_count' = 0
             /\ \E c \in CrcMsgs : requests' = Append(q, c)
    <3>1. PICK c \in CrcMsgs : requests' = Append(q, c)
      BY <2>9
    <3>2. c \in RequestMsgs
      BY DEF RequestMsgs
    <3>3. /\ requests' \in Seq(RequestMsgs)
          /\ Len(requests') = Len(q) + 1
          /\ requests'[Len(q) + 1] = c
          /\ \A i \in 1 .. Len(q) : requests'[i] = q[i]
      BY <3>1, <3>2, AppendIs
    <3>4. requests' # <<First>>
      <4>1. CASE Len(q) = 0
        BY <2>6, <3>3, <4>1, FirstIs
      <4>2. CASE Len(q) # 0
        BY <2>5, <2>6, <3>3, <4>2
      <4> QED BY <4>1, <4>2
    <3>5. /\ Last' \in CrcMsgs /\ requests' # <<>>
          /\ \A i \in 1 .. Len(requests') - 1 : requests'[i] \in DataMsgs
      BY <2>5, <3>3 DEF Last
    <3>6. Wire'
      BY <1>1, <1>3, <2>1, <2>9, <3>4, <3>5 DEF Wire, Quiet
    <3>7. pkt_count' \in 0 .. buffer_check_pkt_num - 1
      BY <2>9, PacketNumber
    <3>8. ClientType' /\ LinkType'
      BY <1>1, <1>3, <2>4, <2>7, <2>9, <3>3, <3>7
         DEF Types, ClientType, LinkType
    <3> QED BY <1>2, <3>6, <3>8 DEF Types
  <2> QED BY <2>4, <2>8, <2>9
<1>5. CASE ~MayPush
  <2>1. UNCHANGED <<pushed, pkt_count, sum, fsm, requests, pending>>
    BY <1>5 DEF PushImage
  <2>2. ClientType' /\ LinkType'
    BY <1>1, <1>3, <2>1 DEF Types, ClientType, LinkType
  <2>3. Wire'
    BY <1>1, <1>3, <2>1 DEF Wire, Quiet, Last
  <2> QED BY <1>2, <2>2, <2>3 DEF Types
<1> QED BY <1>4, <1>5

-----------------------------------------------------------------------------
(* So do those of the server, the link and the devices.                    *)

Taken ==
  /\ requests' = Tail(requests)
  /\ UNCHANGED <<client, up, answers, response, pending, fate>>

Gone == Down /\ Restart /\ UNCHANGED losses

NextData == Head(requests).arg

LEMMA ServeDataIs ==
  ASSUME Types, Wire, ServeData
  PROVE  /\ up /\ requests # <<>> /\ Head(requests) \in DataMsgs
         /\ NextData \in Seq(Bytes) /\ Len(NextData) <= Mtu
         /\ \/ Beyond(NextData) /\ Ignore /\ Taken
            \/ /\ ~Beyond(NextData) /\ (checked \/ ~Full(NextData))
               /\ Collect(NextData) /\ Taken
            \/ ~Beyond(NextData) /\ ~checked /\ WriteData(NextData) /\ Taken
            \/ ~Beyond(NextData) /\ ~checked /\ DataFails(NextData) /\ Gone
<1>1. up /\ requests # <<>> /\ Head(requests) \in DataMsgs
  BY NextWrite DEF ServeData
<1>2. NextData \in Seq(Bytes) /\ Len(NextData) <= Mtu
  BY <1>1, RequestKinds DEF NextData
<1>3. (CASE Beyond(NextData) -> Ignore /\ Taken
         [] ~Beyond(NextData) /\ (checked \/ ~Full(NextData)) ->
              Collect(NextData) /\ Taken
         [] OTHER -> \/ WriteData(NextData) /\ Taken
                     \/ DataFails(NextData) /\ Gone)
  BY DEF ServeData, Taken, Gone, NextData
<1>4. CASE Beyond(NextData)
  BY <1>1, <1>2, <1>3, <1>4
<1>5. CASE ~Beyond(NextData) /\ (checked \/ ~Full(NextData))
  BY <1>1, <1>2, <1>3, <1>5
<1>6. CASE ~Beyond(NextData) /\ ~(checked \/ ~Full(NextData))
  BY <1>1, <1>2, <1>3, <1>6
<1> QED BY <1>4, <1>5, <1>6

LEMMA TakenWire ==
  ASSUME Types, Wire, up, requests # <<>>, Head(requests) \in DataMsgs, Taken
  PROVE  /\ ClientType' /\ LinkType' /\ FateType' /\ Wire'
         /\ Len(requests') = Len(requests) - 1
         /\ fsm = "wait" => requests' # <<>> /\ Last' = Last /\ Last \in CrcMsgs
<1>1. ~response /\ (fsm = "wait" => Len(requests) > 1 /\ Last \in CrcMsgs)
  BY NextWrite, RequestKinds
<1>2. fsm \in {"data", "wait"}
  BY NextWrite
<1>3. /\ Tail(requests) \in Seq(RequestMsgs)
      /\ Len(requests) \in Nat \ {0}
      /\ Len(Tail(requests)) = Len(requests) - 1
      /\ \A i \in 1 .. Len(requests) - 1 : Tail(requests)[i] = requests[i + 1]
  BY TailIs DEF Types, LinkType
<1>4. ClientType' /\ LinkType' /\ FateType'
  BY <1>3 DEF Taken, client, fate, Types, ClientType, LinkType, FateType
<1>5. \A t : t = <<First>> => Len(t) = 1 /\ t[1] = First
  OBVIOUS
<1>6. UNCHANGED <<fsm, up, response, answers, burst>>
  BY DEF Taken, client
<1>7. requests' = Tail(requests)
  BY DEF Taken
<1>8. CASE fsm = "data"
  <2>1. \A i \in 1 .. Len(requests) : requests[i] \in DataMsgs
    BY <1>8 DEF Wire
  <2>2. \A i \in 1 .. Len(requests') : requests'[i] \in DataMsgs
    <3>1. ASSUME NEW i \in 1 .. Len(requests')
          PROVE  requests'[i] \in DataMsgs
      <4>1. i \in 1 .. Len(requests) - 1 /\ i + 1 \in 1 .. Len(requests)
        BY <1>3, <1>7
      <4> QED BY <1>3, <1>7, <2>1, <4>1
    <3> QED BY <3>1
  <2>3. requests' # <<First>>
    BY <1>5, <2>2, FirstIs
  <2>4. Wire'
    BY <1>1, <1>6, <1>8, <2>2, <2>3 DEF Wire, Quiet
  <2> QED BY <1>3, <1>4, <1>7, <1>8, <2>4
<1>9. CASE fsm = "wait"
  <2>1. \A i \in 1 .. Len(requests) - 1 : requests[i] \in DataMsgs
    BY <1>1, <1>9 DEF Wire
  <2>2. Len(requests') \in Nat \ {0} /\ Len(requests') = Len(requests) - 1
    BY <1>1, <1>3, <1>7, <1>9
  <2>3. Last' = Last
    <3>1. Len(requests) - 1 \in 1 .. Len(requests) - 1
      BY <1>3, <2>2
    <3>2. requests'[Len(requests) - 1] = requests[(Len(requests) - 1) + 1]
      BY <1>3, <1>7, <3>1
    <3>3. (Len(requests) - 1) + 1 = Len(requests)
      BY <1>3
    <3> QED BY <2>2, <3>2, <3>3 DEF Last
  <2>4. \A i \in 1 .. Len(requests') - 1 : requests'[i] \in DataMsgs
    <3>1. ASSUME NEW i \in 1 .. Len(requests') - 1
          PROVE  requests'[i] \in DataMsgs
      <4>1. /\ i \in 1 .. Len(requests) - 1
            /\ i + 1 \in 1 .. Len(requests) - 1
        BY <1>3, <2>2
      <4> QED BY <1>3, <1>7, <2>1, <4>1
    <3> QED BY <3>1
  <2>5. requests' # <<First>>
    BY <1>1, <1>5, <1>9, <2>3, FirstIs DEF Last
  <2>6. requests' # <<>>
    BY <2>2
  <2>7. Wire'
    BY <1>1, <1>6, <1>9, <2>3, <2>4, <2>5, <2>6 DEF Wire, Quiet
  <2> QED BY <1>1, <1>4, <1>9, <2>2, <2>3, <2>6, <2>7
<1> QED BY <1>2, <1>8, <1>9

LEMMA GoneWire ==
  ASSUME Types, Wire, Gone
  PROVE  ClientType' /\ LinkType' /\ FateType' /\ Wire' /\ ~up'
BY DownWire, RestartType DEF Gone, Types

LEMMA ServeDataWire ==
  ASSUME Types, Wire, ServeData
  PROVE  Types' /\ Wire'
<1>1. /\ up /\ requests # <<>> /\ Head(requests) \in DataMsgs
      /\ NextData \in Seq(Bytes)
      /\ \/ Ignore \/ Collect(NextData) \/ WriteData(NextData)
         \/ DataFails(NextData)
      /\ Taken \/ Gone
  BY ServeDataIs
<1>2. ServerType'
  BY <1>1, DataType DEF Types
<1> QED BY <1>1, <1>2, TakenWire, GoneWire DEF Types

(* A notified answer, with whatever the request did to the server.         *)
LEMMA AnswerWire ==
  ASSUME Types, Wire, up, requests # <<>>, Head(requests).op # "data",
         ServerType', NEW m \in AnswerMsgs, Notify(m),
         stale' \in {stale, Leftovers}
  PROVE  Types' /\ Wire'
<1>1. FateType'
  BY DEF Notify, Types, FateType, Leftovers
<1> QED BY <1>1, NotifyWire DEF Types

LEMMA ServeTargetIs ==
  ASSUME Types, Wire, ServeTarget
  PROVE  /\ up /\ requests # <<>> /\ Head(requests).op = "target"
         /\ ServerType' /\ Types' /\ Wire'
         /\ TargetInfo
         /\ \E image \in {"app", "patch"} :
              /\ Head(requests) = Msg("target", image)
              /\ Notify(Msg("target", Newest(image)))
              /\ stale' = IF image = "app" THEN Leftovers ELSE stale
<1>1. PICK image \in {"app", "patch"} :
        /\ Served(Msg("target", image))
        /\ TargetInfo
        /\ Notify(Msg("target", Newest(image)))
        /\ stale' = IF image = "app" THEN Leftovers ELSE stale
  BY DEF ServeTarget
<1>2. up /\ requests # <<>> /\ Head(requests).op = "target"
  BY <1>1 DEF Served, Msg
<1>3. Msg("target", Newest(image)) \in AnswerMsgs
  BY DEF Msg, AnswerMsgs, Newest, Types, FateType
<1>4. ServerType'
  <2>1. <<>> \in Seq(Bytes)
    OBVIOUS
  <2> QED BY <1>1, <2>1
          DEF TargetInfo, flash, Types, ServerType, FlashType, RamType
<1>5. Types' /\ Wire'
  BY <1>1, <1>2, <1>3, <1>4, AnswerWire
<1> QED BY <1>1, <1>2, <1>4, <1>5 DEF Served

LEMMA ServeStartWire ==
  ASSUME Types, Wire, ServeStart
  PROVE  /\ up /\ requests # <<>> /\ Head(requests).op = "start"
         /\ Types' /\ Wire'
<1>1. up /\ requests # <<>> /\ Head(requests).op = "start"
  BY DEF ServeStart, Served, Msg
<1>2. CASE Start /\ Notify(Msg("start", 0)) /\ UNCHANGED stale
  <2>1. Msg("start", 0) \in AnswerMsgs
    BY DEF Msg, AnswerMsgs
  <2> QED BY <1>1, <1>2, <2>1, AnswerWire, StartType DEF Types
<1>3. CASE StartFails /\ Down /\ Restart /\ UNCHANGED losses
  BY <1>1, <1>3, GoneWire, StartType DEF Gone, Types
<1> QED BY <1>2, <1>3 DEF ServeStart

LEMMA ServeCheckWire ==
  ASSUME Types, Wire, ServeCheck
  PROVE  /\ up /\ requests # <<>> /\ Head(requests).op = "check"
         /\ Types' /\ Wire'
<1>1. up /\ requests # <<>> /\ Head(requests).op = "check"
  BY DEF ServeCheck, Served, Msg
<1>2. Msg("check", 0) \in AnswerMsgs
  BY DEF Msg, AnswerMsgs
<1>3. ServerType'
  BY DEF ServeCheck, BufferCheckEn, flash, Types, ServerType, FlashType,
         RamType
<1> QED BY <1>1, <1>2, <1>3, AnswerWire DEF ServeCheck

LEMMA ServeCrcWire ==
  ASSUME Types, Wire, ServeCrc
  PROVE  /\ up /\ requests # <<>> /\ Head(requests).op = "crc"
         /\ fsm = "wait" /\ ~response /\ Last = Head(requests)
         /\ buffer' = <<>> /\ requests' = <<>>
         /\ Types' /\ Wire'
<1>1. up /\ requests # <<>> /\ Head(requests).op = "crc"
  BY DEF ServeCrc
<1>2. ServerType' /\ buffer' = <<>>
  BY CheckType DEF ServeCrc, Types
<1>3. Msg("crc", curr_offset') \in AnswerMsgs
  BY <1>2 DEF Msg, AnswerMsgs, ServerType, RamType
<1>4. Types' /\ Wire'
  BY <1>1, <1>2, <1>3, AnswerWire DEF ServeCrc
<1>5. fsm = "wait" /\ ~response /\ Last = Head(requests) /\ requests' = <<>>
  BY <1>1, NextWrite DEF ServeCrc, Notify
<1> QED BY <1>1, <1>2, <1>4, <1>5

LEMMA ServeValidWire ==
  ASSUME Types, Wire, ServeValid
  PROVE  /\ up /\ requests # <<>> /\ Head(requests).op = "valid"
         /\ Types' /\ Wire'
<1>1. up /\ requests # <<>> /\ Head(requests).op = "valid"
  BY DEF ServeValid, Served, Msg
<1>2. SumMatches \in BOOLEAN
  BY DEF SumMatches, Whole
<1>3. Msg("valid", SumMatches) \in AnswerMsgs
  BY <1>2 DEF Msg, AnswerMsgs
<1>4. ServerType'
  BY <1>2 DEF ServeValid, ValidFw, ram, Types, ServerType, FlashType, RamType
<1> QED BY <1>1, <1>3, <1>4, AnswerWire DEF ServeValid

LEMMA ClearedGoneType ==
  ASSUME Types, Wire, UNCHANGED flash, Cleared, Down, Restart,
         losses' \in 0 .. MaxLosses
  PROVE  Types' /\ Wire'
<1>1. ServerType'
  BY ClearedType DEF flash, Types, ServerType, FlashType
<1>2. FateType'
  BY DEF Restart, Types, FateType
<1> QED BY <1>1, <1>2, DownWire DEF Types

LEMMA LossesIs ==
  ASSUME Types, losses < MaxLosses
  PROVE  losses + 1 \in 0 .. MaxLosses
BY LinkAssumption DEF Types, FateType

LEMMA RebootWire == ASSUME Types, Wire, Reboot PROVE Types' /\ Wire'
<1>1. losses' \in 0 .. MaxLosses
  BY LossesIs DEF Reboot, Types, FateType
<1> QED BY <1>1, ClearedGoneType DEF Reboot

LEMMA ServeResetWire == ASSUME Types, Wire, ServeReset PROVE Types' /\ Wire'
<1>1. losses' \in 0 .. MaxLosses
  BY DEF ServeReset, Types, FateType
<1> QED BY <1>1, ClearedGoneType DEF ServeReset

LEMMA ServeActivateWire ==
  ASSUME Types, Wire, ServeActivate
  PROVE  Types' /\ Wire'
<1>1. ServerType' /\ FateType'
  BY DEF ServeActivate, server, flash, ram, Types, ServerType, FlashType,
         RamType, FateType
<1> QED BY <1>1, DownWire DEF ServeActivate, Types

LEMMA LoseLinkWire == ASSUME Types, Wire, LoseLink PROVE Types' /\ Wire'
<1>1. ServerType' /\ FateType'
  BY LossesIs DEF LoseLink, server, flash, ram, Types, ServerType, FlashType,
                  RamType, FateType
<1> QED BY <1>1, DownWire DEF LoseLink, Types

LEMMA ConnectWire == ASSUME Types, Wire, Connect PROVE Types' /\ Wire'
<1>1. losses' \in 0 .. MaxLosses
  BY LossesIs DEF Connect, Types, FateType
<1>2. ServerType' /\ FateType'
  BY <1>1 DEF Connect, server, flash, ram, Types, ServerType, FlashType,
              RamType, FateType
<1>3. ClientType' /\ LinkType'
  BY DEF Connect, Types, ClientType, LinkType
<1>4. Wire'
  BY DEF Connect, Wire, Quiet
<1> QED BY <1>2, <1>3, <1>4 DEF Types

LEMMA TypesInit == ASSUME Init PROVE Types /\ Wire
<1>1. /\ <<>> \in Seq(Bytes) /\ <<>> \in Seq(RequestMsgs)
      /\ <<>> \in Seq(AnswerMsgs)
  OBVIOUS
<1>2. 0 \in 0 .. MaxFaults /\ 0 \in 0 .. MaxLosses
  BY DfuAssumption, LinkAssumption
<1>3. ServerType
  <2>1. FlashType
    <3>1. [o \in Cell |-> Garbage] \in [Cell -> Contents]
      BY DEF Contents
    <3> QED BY <1>2, <3>1 DEF Init, ServerInit, FlashType
  <2>2. RamType
    BY <1>1 DEF Init, ServerInit, RamType
  <2> QED BY <2>1, <2>2 DEF ServerType
<1>4. ClientType
  BY <1>1, PacketNumber DEF Init, ClientType
<1>5. LinkType /\ FateType
  <2>1. LinkType
    BY <1>1 DEF Init, LinkType
  <2>2. FateType
    BY <1>2 DEF Init, FateType
  <2> QED BY <2>1, <2>2
<1>6. Wire
  BY DEF Init, Wire, Quiet
<1> QED BY <1>3, <1>4, <1>5, <1>6 DEF Types

LEMMA TypesStep == ASSUME Types, Wire, [Next]_vars PROVE Types' /\ Wire'
<1>1. CASE UNCHANGED vars
  BY <1>1 DEF vars, server, flash, ram, client, link, fate, Types, ServerType,
              FlashType, RamType, ClientType, LinkType, FateType, Wire, Quiet,
              Last
<1>2. CASE ClientStep
  BY <1>2, CccdWire, RespondedWire, NotifiedWire, DataSentWire, PushImageWire
     DEF ClientStep
<1>3. CASE Serve
  BY <1>3, ServeTargetIs, ServeStartWire, ServeCheckWire, ServeCrcWire,
     ServeValidWire, ServeActivateWire, ServeResetWire, ServeDataWire
     DEF Serve
<1>4. CASE Connect \/ LoseLink \/ Reboot
  BY <1>4, ConnectWire, LoseLinkWire, RebootWire
<1> QED BY <1>1, <1>2, <1>3, <1>4 DEF Next

-----------------------------------------------------------------------------
(* The bound of the buffer.  In a session the packets that are on their    *)
(* way and those in the buffer are at most what the client has counted,    *)
(* and a buffer that is not being filled is empty.                         *)

InSession == up /\ fsm # "cccd" /\ requests # <<First>>

CrcNext == requests # <<>> /\ Last.op = "crc"

Load ==
  /\ Len(buffer) <= BufferSize
  /\ InSession /\ fsm = "data" =>
       /\ Len(requests) <= pkt_count
       /\ Len(buffer) <= (pkt_count - Len(requests)) * Mtu
  /\ InSession /\ (fsm = "idle" \/ (fsm = "wait" /\ ~CrcNext)) => buffer = <<>>
  /\ InSession /\ fsm = "wait" /\ CrcNext =>
       /\ Len(requests) - 1 <= buffer_check_pkt_num
       /\ Len(buffer) <= (buffer_check_pkt_num - (Len(requests) - 1)) * Mtu

LEMMA LoadEmpty ==
  ASSUME Types', buffer' = <<>>,
         fsm' = "data" => Len(requests') <= pkt_count',
         fsm' = "wait" => Len(requests') - 1 <= buffer_check_pkt_num
  PROVE  Load'
<1>1. /\ Len(requests') \in Nat /\ pkt_count' \in Nat
      /\ buffer_check_pkt_num \in Nat /\ BufferSize \in Nat
  BY PacketNumber, DfuAssumption DEF Types, LinkType, ClientType
<1>2. \A k \in Nat : 0 <= k * Mtu
  BY PacketNumber
<1>3. Len(buffer') = 0
  OBVIOUS
<1>4. CASE fsm' = "data"
  BY <1>1, <1>2, <1>3, <1>4 DEF Load
<1>5. CASE fsm' = "wait"
  <2>1. Len(requests') = 0 => requests' = <<>>
    BY EmptySeq DEF Types, LinkType
  <2>2. CrcNext' => Len(requests') # 0
    <3>1. requests' # <<>> => Len(requests') # 0
      BY EmptySeq DEF Types, LinkType
    <3> QED BY <3>1 DEF CrcNext
  <2>3. CrcNext' => 0 <= (buffer_check_pkt_num - (Len(requests') - 1)) * Mtu
    BY <1>1, <1>2, <1>5, <2>2
  <2> QED BY <1>1, <1>3, <1>5, <2>3 DEF Load
<1>6. CASE fsm' \notin {"data", "wait"}
  BY <1>1, <1>3, <1>6 DEF Load
<1> QED BY <1>4, <1>5, <1>6

LEMMA LoadSame ==
  ASSUME Load, UNCHANGED <<buffer, fsm, up, requests, pkt_count>>
  PROVE  Load'
BY DEF Load, InSession, CrcNext, Last

LEMMA LoadOut ==
  ASSUME Load, buffer' \in {<<>>, buffer}, ~InSession'
  PROVE  Load'
BY DfuAssumption DEF Load

(* A handler runs when no packet is on its way, and sends none.            *)
LEMMA HandledLoad ==
  ASSUME Types, Load, Types', up, requests = <<>>, fsm \in {"idle", "wait"},
         buffer' = buffer, NEW m \in AnswerMsgs, HandleCpMsg(m)
  PROVE  Load'
<1>1. buffer' = <<>>
  BY DEF Load, InSession, CrcNext
<1>2. fsm' # "data" /\ Len(requests') <= 1
  <2>1. \A r : Len(<<r>>) = 1
    OBVIOUS
  <2>2. Len(<<>>) = 0
    OBVIOUS
  <2>3. \/ fsm' = "wait" /\ \E r \in PlainMsgs : requests' = <<r>>
        \/ fsm' = "idle" /\ requests' = <<>>
    BY HandleEffect
  <2>4. CASE fsm' = "wait" /\ \E r \in PlainMsgs : requests' = <<r>>
    <3>1. PICK r \in PlainMsgs : requests' = <<r>>
      BY <2>4
    <3> QED BY <2>1, <2>4, <3>1
  <2>5. CASE fsm' = "idle" /\ requests' = <<>>
    BY <2>2, <2>5
  <2> QED BY <2>3, <2>4, <2>5
<1>3. Len(requests') - 1 <= buffer_check_pkt_num
  BY <1>2, PacketNumber DEF Types, LinkType
<1> QED BY <1>1, <1>2, <1>3, LoadEmpty

(* An answer is notified when no other packet is on its way.               *)
LEMMA AnswerLoad ==
  ASSUME Types, Wire, Load, Types', up, requests # <<>>,
         Head(requests).op # "data", NEW m, Notify(m),
         buffer' = <<>> \/
           (buffer' = buffer /\ Head(requests).op \notin {"target", "crc"})
  PROVE  Load'
<1>1. /\ fsm = "wait" /\ Head(requests) = Last
      /\ fsm' = fsm /\ requests' = <<>>
  BY NextWrite DEF Notify, client
<1>2. buffer' = <<>>
  <2>1. CASE buffer' = <<>>
    BY <2>1
  <2>2. CASE buffer' = buffer /\ Head(requests).op \notin {"target", "crc"}
    <3>1. requests # <<First>>
      <4>1. requests = <<First>> => Head(requests).op = "target"
        BY FirstIs
      <4> QED BY <2>2, <4>1
    <3>2. InSession /\ ~CrcNext
      BY <1>1, <2>2, <3>1 DEF InSession, CrcNext
    <3> QED BY <1>1, <2>2, <3>2 DEF Load
  <2> QED BY <2>1, <2>2
<1>3. Len(requests') - 1 <= buffer_check_pkt_num
  BY <1>1, PacketNumber
<1> QED BY <1>1, <1>2, <1>3, LoadEmpty

LEMMA PushLoad ==
  ASSUME Types, Wire, Load, Types', PushImage
  PROVE  Load'
<1>1. up /\ fsm # "cccd" /\ requests # <<First>> /\ UNCHANGED <<up, buffer>>
  BY DEF PushImage, server, ram, Types, ClientType, LinkType, Wire, Quiet
<1>2. CASE ~MayPush
  BY <1>1, <1>2, LoadSame DEF PushImage
<1>3. CASE MayPush
  <2>1. fsm \in {"idle", "data"} /\ InSession
    BY <1>1, <1>3 DEF MayPush, Types, ClientType, InSession
  <2>2. Push
    BY <1>3 DEF PushImage
  <2>3. PICK d \in DataMsgs, q \in Seq(RequestMsgs) :
          /\ q = requests \/ q = Append(requests, d)
          /\ \/ /\ fsm' = "data" /\ requests' = q
                /\ pkt_count' = pkt_count + 1
             \/ /\ fsm' = "wait" /\ pkt_count' = 0
                /\ \E c \in CrcMsgs : requests' = Append(q, c)
    BY <2>2, PushIs
  <2>4. /\ Len(q) \in Nat /\ Len(requests) \in Nat /\ Len(buffer) \in Nat
        /\ pkt_count \in 0 .. buffer_check_pkt_num - 1
        /\ buffer_check_pkt_num \in Nat \ {0}
        /\ BufferSize \in Nat
    <3>1. buffer_check_pkt_num \in Nat \ {0} /\ BufferSize \in Nat
      BY PacketNumber, DfuAssumption
    <3>2. Len(q) \in Nat /\ Len(requests) \in Nat /\ Len(buffer) \in Nat
      BY DEF Types, LinkType, ServerType, RamType
    <3> QED BY <3>1, <3>2 DEF Types, ClientType
  <2>5. Len(q) \in {Len(requests), Len(requests) + 1}
    <3>1. d \in RequestMsgs
      BY DEF RequestMsgs
    <3> QED BY <2>3, <3>1, AppendIs DEF Types, LinkType
  <2>6. /\ Len(requests) <= pkt_count
        /\ Len(buffer) <= (pkt_count - Len(requests)) * Mtu
    <3>1. CASE fsm = "data"
      BY <2>1, <3>1 DEF Load
    <3>2. CASE fsm = "idle"
      <4>1. requests = <<>> /\ buffer = <<>>
        BY <2>1, <3>2 DEF Wire, Load
      <4>2. Len(requests) = 0 /\ Len(buffer) = 0
        BY <4>1
      <4>3. 0 <= pkt_count * Mtu
        BY <2>4, PacketNumber
      <4> QED BY <2>4, <4>2, <4>3
    <3> QED BY <2>1, <3>1, <3>2
  <2>7. /\ Len(q) <= pkt_count + 1
        /\ Len(buffer) <= (pkt_count + 1 - Len(q)) * Mtu
        /\ Len(buffer) <= (buffer_check_pkt_num - Len(q)) * Mtu
    <3> DEFINE a == pkt_count - Len(requests)
               b == pkt_count + 1 - Len(q)
               c == buffer_check_pkt_num - Len(q)
    <3>1. a \in Nat /\ b \in Nat /\ c \in Nat /\ a <= b /\ b <= c
      BY <2>4, <2>5, <2>6
    <3>2. a * Mtu <= b * Mtu /\ b * Mtu <= c * Mtu
      BY <3>1, PacketNumber
    <3>3. a * Mtu \in Nat /\ b * Mtu \in Nat /\ c * Mtu \in Nat
      BY <3>1, PacketNumber
    <3>4. Len(buffer) <= a * Mtu
      BY <2>6
    <3>5. Len(buffer) <= b * Mtu /\ Len(buffer) <= c * Mtu
      <4> HIDE DEF a, b, c
      <4> QED BY <2>4, <3>2, <3>3, <3>4
    <3>6. Len(q) <= pkt_count + 1
      BY <2>4, <2>5, <2>6
    <3> QED BY <3>5, <3>6
  <2>8. Len(buffer') <= BufferSize
    BY <1>1 DEF Load
  <2>9. CASE fsm' = "data" /\ requests' = q /\ pkt_count' = pkt_count + 1
    <3>1. pkt_count' - Len(requests') = pkt_count + 1 - Len(q)
      <4>1. Len(requests') = Len(q)
        BY <2>9
      <4>2. pkt_count' = pkt_count + 1
        BY <2>9
      <4> QED BY <2>4, <4>1, <4>2
    <3>2. Len(buffer') <= (pkt_count' - Len(requests')) * Mtu
      BY <1>1, <2>7, <3>1
    <3> QED BY <2>7, <2>8, <2>9, <3>2 DEF Load
  <2>10. CASE /\ fsm' = "wait" /\ pkt_count' = 0
              /\ \E c \in CrcMsgs : requests' = Append(q, c)
    <3>1. PICK c \in CrcMsgs : requests' = Append(q, c)
      BY <2>10
    <3>2. c \in RequestMsgs
      BY DEF RequestMsgs
    <3>3. Len(requests') = Len(q) + 1 /\ requests'[Len(q) + 1] = c
      BY <3>1, <3>2, AppendIs
    <3>4. CrcNext'
      <4>1. requests' # <<>>
        BY <2>4, <3>3
      <4> QED BY <3>3, <4>1, RequestKinds DEF CrcNext, Last
    <3>5. Len(requests') - 1 = Len(q) /\ Len(q) <= buffer_check_pkt_num
      BY <2>4, <2>7, <3>3
    <3> QED BY <1>1, <2>7, <2>8, <2>10, <3>4, <3>5 DEF Load
  <2> QED BY <2>3, <2>9, <2>10
<1> QED BY <1>2, <1>3

LEMMA DataLoad ==
  ASSUME Types, Wire, Load, Types', ServeData
  PROVE  Load'
<1>1. /\ up /\ requests # <<>> /\ Head(requests) \in DataMsgs
      /\ NextData \in Seq(Bytes) /\ Len(NextData) <= Mtu
      /\ \/ Beyond(NextData) /\ Ignore /\ Taken
         \/ /\ ~Beyond(NextData) /\ (checked \/ ~Full(NextData))
            /\ Collect(NextData) /\ Taken
         \/ ~Beyond(NextData) /\ ~checked /\ WriteData(NextData) /\ Taken
         \/ ~Beyond(NextData) /\ ~checked /\ DataFails(NextData) /\ Gone
  BY ServeDataIs
<1>2. CASE Gone
  <2>1. ~up'
    BY <1>2 DEF Gone, Down
  <2>2. CASE buffer' = <<>>
    BY <2>1, <2>2, LoadOut DEF InSession
  <2> QED BY <2>1, <2>2, <1>1, LoadOut
          DEF InSession, Ignore, server, ram, DataFails, Cleared, Taken
<1>3. CASE Taken
  <2>1. /\ Len(requests') = Len(requests) - 1
        /\ fsm = "wait" => requests' # <<>> /\ Last' = Last /\ Last \in CrcMsgs
    BY <1>1, <1>3, TakenWire
  <2>2. fsm \in {"data", "wait"}
    BY <1>1, NextWrite
  <2>3. InSession
    <3>1. requests = <<First>> => Head(requests) = First
      OBVIOUS
    <3> QED BY <1>1, <2>2, <3>1, FirstIs DEF InSession
  <2>4. UNCHANGED <<fsm, pkt_count, up>>
    BY <1>3 DEF Taken, client
  <2>5. /\ Len(requests) \in Nat \ {0} /\ Len(buffer) \in Nat
        /\ Len(NextData) \in Nat
        /\ pkt_count \in 0 .. buffer_check_pkt_num - 1
        /\ buffer_check_pkt_num \in Nat \ {0}
        /\ BufferSize \in Nat /\ Mtu \in Nat
    <3>1. /\ buffer_check_pkt_num \in Nat \ {0}
          /\ BufferSize \in Nat /\ Mtu \in Nat
      BY PacketNumber, DfuAssumption, LinkAssumption
    <3>2. Len(requests) \in Nat \ {0}
      BY <1>1, TailIs DEF Types, LinkType
    <3>3. Len(buffer) \in Nat /\ Len(NextData) \in Nat
      BY <1>1 DEF Types, ServerType, RamType
    <3> QED BY <3>1, <3>2, <3>3 DEF Types, ClientType
  <2>6. fsm = "wait" => CrcNext /\ CrcNext'
    BY <1>1, <2>1, RequestKinds DEF CrcNext
  <2> DEFINE top == IF fsm = "data" THEN pkt_count ELSE buffer_check_pkt_num + 1
             k == top - Len(requests)
  <2>7. k \in Nat /\ Len(buffer) <= k * Mtu
    <3>1. CASE fsm = "data"
      BY <2>3, <2>5, <3>1 DEF Load
    <3>2. CASE fsm = "wait"
      <4>1. /\ Len(requests) - 1 <= buffer_check_pkt_num
            /\ Len(buffer) <=
                 (buffer_check_pkt_num - (Len(requests) - 1)) * Mtu
        BY <2>3, <2>6, <3>2 DEF Load
      <4>2. buffer_check_pkt_num - (Len(requests) - 1) = k
        BY <2>5, <3>2
      <4> QED BY <2>5, <3>2, <4>1, <4>2
    <3> QED BY <2>2, <3>1, <3>2
  <2>8. /\ top - Len(requests') = k + 1
        /\ k + 1 <= buffer_check_pkt_num
    BY <2>1, <2>2, <2>3, <2>5, <2>7
  <2>9. ASSUME buffer' \in Seq(Bytes), Len(buffer') <= Len(buffer) + Mtu
        PROVE  Load'
    <3>1. Len(buffer') \in Nat
      BY <2>9
    <3>2. k * Mtu \in Nat /\ (k + 1) * Mtu = k * Mtu + Mtu
      BY <2>7, PacketNumber
    <3>3. Len(buffer') <= (k + 1) * Mtu
      BY <2>5, <2>7, <2>9, <3>1, <3>2
    <3>4. Len(buffer') <= BufferSize
      <4>1. (k + 1) * Mtu <= buffer_check_pkt_num * Mtu
        <5>1. k + 1 \in Nat
          BY <2>7
        <5> HIDE DEF k
        <5> QED BY <2>5, <2>8, <5>1, PacketNumber
      <4>2. buffer_check_pkt_num * Mtu \in Nat /\ (k + 1) * Mtu \in Nat
        BY <2>5, <2>7, PacketNumber
      <4> QED BY <2>5, <3>1, <3>3, <4>1, <4>2, PacketNumber
    <3>5. CASE fsm = "data"
      <4>1. pkt_count - Len(requests') = k + 1 /\ Len(requests') <= pkt_count
        BY <2>1, <2>5, <2>7, <3>5
      <4> QED BY <2>4, <3>3, <3>4, <3>5, <4>1 DEF Load
    <3>6. CASE fsm = "wait"
      <4>1. /\ buffer_check_pkt_num - (Len(requests') - 1) = k + 1
            /\ Len(requests') - 1 <= buffer_check_pkt_num
        BY <2>1, <2>5, <2>7, <3>6
      <4> QED BY <2>4, <2>6, <3>3, <3>4, <3>6, <4>1 DEF Load
    <3> QED BY <2>2, <3>5, <3>6
  <2>10. buffer' \in Seq(Bytes)
    BY DEF Types, ServerType, RamType
  <2>11. CASE Ignore
    BY <2>5, <2>9, <2>10, <2>11 DEF Ignore, server, ram
  <2>12. CASE Collect(NextData)
    <3>1. Len(buffer') = Len(buffer) + Len(NextData)
      BY <1>1, <2>12, ConcatProperties
         DEF Collect, Types, ServerType, RamType
    <3> QED BY <1>1, <2>5, <2>9, <2>10, <3>1
  <2>13. CASE WriteData(NextData)
    <3>1. Len(buffer') = 0
      BY <2>13 DEF WriteData
    <3> QED BY <2>5, <2>9, <2>10, <3>1
  <2>14. CASE DataFails(NextData)
    <3>1. Len(buffer') = 0
      BY <2>14 DEF DataFails, Cleared
    <3> QED BY <2>5, <2>9, <2>10, <3>1
  <2> QED BY <1>1, <2>11, <2>12, <2>13, <2>14
<1> QED BY <1>1, <1>2, <1>3

LEMMA LoadStep ==
  ASSUME Types, Wire, Load, Types', Wire', [Next]_vars
  PROVE  Load'
<1>1. CASE UNCHANGED vars
  BY <1>1, LoadSame DEF vars, server, ram, client, link
<1>2. CASE CccdWritten
  BY <1>2, CccdWire, LoadOut DEF CccdWritten, InSession, server, ram
<1>3. CASE Responded
  <2>1. up /\ fsm = "wait" /\ requests = <<>> /\ buffer' = buffer
    BY <1>3, WaitsForResponse DEF Responded, server, ram
  <2>2. CASE cached # NoMsg
    <3>1. cached \in AnswerMsgs /\ HandleCpMsg(cached)
      BY <1>3, <2>1, <2>2 DEF Responded, Types, ClientType
    <3> QED BY <2>1, <3>1, HandledLoad
  <2>3. CASE cached = NoMsg
    <3>1. fsm' = "idle" /\ requests' = <<>>
      BY <1>3, <2>1, <2>3 DEF Responded
    <3>2. buffer' = <<>>
      BY <2>1 DEF Load, InSession, CrcNext
    <3> QED BY <3>1, <3>2, LoadEmpty
  <2> QED BY <2>2, <2>3
<1>4. CASE Notified
  <2>1. up /\ answers # <<>> /\ buffer' = buffer
    BY <1>4 DEF Notified, server, ram
  <2>2. CASE fsm = "idle"
    <3>1. Head(answers) \in AnswerMsgs /\ HandleCpMsg(Head(answers))
      BY <1>4, <2>1, <2>2, TailIs DEF Notified, Types, LinkType
    <3>2. requests = <<>>
      BY <2>1, <2>2, WaitsForResponse
    <3> QED BY <2>1, <2>2, <3>1, <3>2, HandledLoad
  <2>3. CASE fsm # "idle"
    BY <1>4, <2>1, <2>3, LoadSame DEF Notified, SameImage
  <2> QED BY <2>2, <2>3
<1>5. CASE DataSent
  BY <1>5, LoadSame DEF DataSent, server, ram
<1>6. CASE PushImage
  BY <1>6, PushLoad
<1>7. CASE ServeTarget
  <2>1. PICK image : Notify(Msg("target", Newest(image)))
    BY <1>7, ServeTargetIs
  <2>2. /\ up /\ requests # <<>> /\ Head(requests).op = "target"
        /\ buffer' = <<>>
    BY <1>7, ServeTargetIs DEF TargetInfo
  <2> QED BY <2>1, <2>2, AnswerLoad
<1>8. CASE ServeStart
  <2>1. CASE Start /\ Notify(Msg("start", 0))
    BY <1>8, <2>1, ServeStartWire, AnswerLoad DEF Start
  <2>2. CASE StartFails /\ Down
    BY <2>2, LoadOut DEF StartFails, Cleared, Down, InSession
  <2> QED BY <1>8, <2>1, <2>2 DEF ServeStart
<1>9. CASE ServeCheck
  BY <1>9, ServeCheckWire, AnswerLoad DEF ServeCheck, BufferCheckEn
<1>10. CASE ServeCrc
  BY <1>10, ServeCrcWire, AnswerLoad DEF ServeCrc
<1>11. CASE ServeValid
  BY <1>11, ServeValidWire, AnswerLoad DEF ServeValid, ValidFw, ram
<1>12. CASE ServeActivate \/ LoseLink
  BY <1>12, LoadOut DEF ServeActivate, LoseLink, Down, InSession, server, ram
<1>13. CASE ServeReset \/ Reboot
  BY <1>13, LoadOut DEF ServeReset, Reboot, Cleared, Down, InSession
<1>14. CASE ServeData
  BY <1>14, DataLoad
<1>15. CASE Connect
  BY <1>15, LoadOut DEF Connect, InSession, server, ram
<1> QED BY <1>1, <1>2, <1>3, <1>4, <1>5, <1>6, <1>7, <1>8, <1>9, <1>10,
           <1>11, <1>12, <1>13, <1>14, <1>15 DEF Next, ClientStep, Serve

-----------------------------------------------------------------------------
(* The session.  Each side's request or answer says what it knows of the   *)
(* other: from which offset the client sums up and pushes what the server  *)
(* will write there, and that no image that is ready is being written.     *)

NoAnswer == answers = <<>> /\ cached = NoMsg

Fresh == stale = {} => resend = 0

Started ==
  /\ image_length = ImageLength /\ length = ImageLength /\ ~ready
  /\ stale = {} => resend <= curr_offset /\ curr_offset <= ImageLength

AtHeader == Started /\ pushed = Header /\ curr_offset = Header

\* These are the cells of the image from the server's offset on.
FromHere(s) ==
  /\ \A i \in 1 .. Len(s) : s[i] = curr_offset + i - 1
  /\ curr_offset + Len(s) <= ImageLength

Pushing ==
  /\ Started /\ checked
  /\ stale = {} => FromHere(Summed) /\ pushed = curr_offset + Len(Summed)

Asked(r) ==
  /\ r.op = "target" => Fresh
  /\ r.op = "start" => Fresh /\ pushed = Header /\ length = ImageLength
  /\ r.op = "check" => AtHeader
  /\ r.op = "crc" =>
       /\ Started /\ checked
       /\ stale = {} => pkt_count = 0 /\ FromHere(r.sum)

Told(m) ==
  /\ m.op = "target" => Fresh
  /\ m.op = "start" => AtHeader
  /\ m.op = "check" => AtHeader /\ checked
  /\ m.op = "crc" =>
       /\ Started /\ checked /\ m.arg = curr_offset
       /\ stale = {} => pkt_count = 0

Pushes == fsm = "data" \/ (fsm = "idle" /\ burst > 0)
Asks == fsm = "wait" /\ ~response

Session ==
  /\ Len(answers) <= 1
  /\ answers # <<>> => cached = NoMsg /\ Told(Head(answers))
  /\ cached # NoMsg => Told(cached)
  /\ Pushes \/ Asks => NoAnswer
  /\ Pushes => Pushing
  /\ Asks => Asked(Last)

InStep == InSession /\ "message" \notin stale => Session

LEMMA OneAnswer ==
  /\ \A m : Len(<<m>>) = 1 /\ Head(<<m>>) = m /\ <<m>> # <<>>
  /\ Len(<<>>) = 0
OBVIOUS

(* The client handles an answer that is true of the server.                *)
LEMMA HandledSession ==
  ASSUME Types, requests = <<>>, burst = 0,
         NEW m \in AnswerMsgs, Told(m), HandleCpMsg(m),
         answers' = <<>>, cached' = NoMsg, response' = FALSE,
         UNCHANGED <<server, stale>>
  PROVE  Session'
<1>1. NoAnswer' /\ Len(answers') <= 1
  BY OneAnswer DEF NoAnswer
<1>2. /\ UNCHANGED <<curr_offset, image_length, resend, checked, ready>>
      /\ UNCHANGED stale
  BY DEF server, flash, ram
<1>3. \A r \in PlainMsgs :
        Append(requests, r) = <<r>> /\ Len(<<r>>) = 1 /\ <<r>>[1] = r
  BY AppendIs
<1>4. ASSUME NEW r \in PlainMsgs, Request(r), UNCHANGED burst, Asked(r)'
      PROVE  Session'
  <2>1. Last' = r /\ ~Pushes'
    BY <1>3, <1>4 DEF Request, Last, Pushes
  <2>2. Asked(Last)'
    <3>1. Last'.op = r.op /\ (r.op = "crc" => FALSE)
      BY <2>1, RequestKinds
    <3> QED BY <1>4, <2>1, <3>1 DEF Asked
  <2> QED BY <1>1, <2>1, <2>2 DEF Session, NoAnswer
<1>5. ASSUME fsm' = "idle", burst' = 0
      PROVE  Session'
  BY <1>1, <1>5 DEF Session, NoAnswer, Pushes, Asks
<1>6. ASSUME fsm' = "idle", Pushing'
      PROVE  Session'
  BY <1>1, <1>6 DEF Session, NoAnswer, Asks
<1>7. CASE m.op = "target"
  <2>1. HandleTarget(m.arg) /\ UNCHANGED burst
    BY <1>7, HandleIs
  <2>2. Fresh'
    BY <1>2, <1>7 DEF Told, Fresh
  <2>3. CASE m.arg /\ signature = "app"
    <3>1. /\ Msg("target", "patch") \in PlainMsgs
          /\ Msg("target", "patch").op = "target"
      BY DEF PlainMsgs, Msg
    <3> QED BY <1>4, <2>1, <2>2, <2>3, <3>1 DEF HandleTarget, Asked
  <2>4. CASE m.arg /\ signature # "app"
    BY <1>5, <2>1, <2>4 DEF HandleTarget
  <2>5. CASE ~m.arg
    <3>1. /\ Msg("start", signature) \in PlainMsgs
          /\ Msg("start", signature).op = "start"
      BY DEF PlainMsgs, Msg, Types, ClientType
    <3>2. Request(Msg("start", signature)) /\ pushed' = Header
          /\ length' = ImageLength
      BY <2>1, <2>5 DEF HandleTarget
    <3>3. PICK r \in PlainMsgs : r = Msg("start", signature)
      BY <3>1
    <3>4. r.op = "start" /\ Request(r)
      BY <3>1, <3>2, <3>3
    <3> QED BY <1>4, <2>1, <2>2, <3>2, <3>4 DEF Asked
  <2> QED BY <2>3, <2>4, <2>5
<1>8. CASE m.op = "start"
  <2>1. Request(Msg("check", 0)) /\ SameImage
    BY <1>8, HandleIs
  <2>2. Msg("check", 0) \in PlainMsgs /\ Msg("check", 0).op = "check"
    BY DEF PlainMsgs, Msg
  <2>3. AtHeader'
    BY <1>2, <1>8, <2>1 DEF Told, AtHeader, Started, SameImage
  <2> QED BY <1>4, <2>1, <2>2, <2>3 DEF SameImage, Asked
<1>9. CASE m.op = "check"
  <2>1. HandleCheck
    BY <1>9, HandleIs
  <2>2. AtHeader /\ checked
    BY <1>9 DEF Told
  <2>3. Started' /\ checked'
    BY <1>2, <2>1, <2>2 DEF AtHeader, Started, HandleCheck
  <2>4. Summed' = <<>> /\ pushed' = curr_offset' + 0
    BY <1>2, <2>1, <2>2, DfuAssumption
       DEF Summed, HandleCheck, AtHeader
  <2>5. curr_offset' \in Nat
    BY <1>2 DEF Types, ServerType, RamType
  <2>6. Pushing'
    BY <2>3, <2>4, <2>5, OneAnswer DEF Pushing, Started, FromHere
  <2> QED BY <1>6, <2>1, <2>6 DEF HandleCheck
<1>10. CASE m.op = "crc"
  <2>1. HandleCrc(m.arg)
    BY <1>10, HandleIs
  <2>2. Started /\ checked /\ m.arg = curr_offset
        /\ (stale = {} => pkt_count = 0)
    BY <1>10 DEF Told
  <2>3. CASE length > m.arg
    <3>1. /\ fsm' = "idle" /\ pushed' = curr_offset
          /\ UNCHANGED <<length, pkt_count, sum>>
      BY <2>1, <2>2, <2>3 DEF HandleCrc, GoesOnFrom
    <3>2. Started' /\ checked'
      BY <1>2, <2>2, <3>1 DEF Started
    <3>3. curr_offset \in Nat
      BY DEF Types, ServerType, RamType
    <3>4. stale' = {} =>
            FromHere(Summed)' /\ pushed' = curr_offset' + Len(Summed')
      <4>1. SUFFICES ASSUME stale' = {}
                     PROVE  /\ FromHere(Summed)'
                            /\ pushed' = curr_offset' + Len(Summed')
        OBVIOUS
      <4>2. Summed' = <<>>
        BY <1>2, <2>2, <3>1, <4>1 DEF Summed
      <4> QED BY <1>2, <3>1, <3>2, <3>3, <4>1, <4>2, OneAnswer
              DEF Started, FromHere
    <3> QED BY <1>6, <3>1, <3>2, <3>4 DEF Pushing
  <2>4. CASE ~(length > m.arg)
    <3>1. Request(Msg("valid", signature)) /\ UNCHANGED burst
      BY <2>1, <2>4 DEF HandleCrc, GoesOnFrom
    <3>2. /\ Msg("valid", signature) \in PlainMsgs
          /\ Msg("valid", signature).op = "valid"
      BY DEF PlainMsgs, Msg, Types, ClientType
    <3>3. PICK r \in PlainMsgs : r = Msg("valid", signature) /\ r.op = "valid"
      BY <3>2
    <3> QED BY <1>4, <3>1, <3>3 DEF Asked
  <2> QED BY <2>3, <2>4
<1>11. CASE m.op = "valid"
  <2>1. /\ Request(Msg(IF m.arg THEN "activate" ELSE "reset", 0))
        /\ SameImage
    BY <1>11, HandleIs
  <2> DEFINE op == IF m.arg THEN "activate" ELSE "reset"
  <2>2. op \in {"activate", "reset"}
    OBVIOUS
  <2> HIDE DEF op
  <2>3. Msg(op, 0) \in PlainMsgs /\ Msg(op, 0).op \in {"activate", "reset"}
    BY <2>2 DEF PlainMsgs, Msg
  <2>4. PICK r \in PlainMsgs : r = Msg(op, 0) /\ r.op \in {"activate", "reset"}
    BY <2>3
  <2> USE DEF op
  <2> QED BY <1>4, <2>1, <2>4 DEF SameImage, Asked
<1> QED BY <1>7, <1>8, <1>9, <1>10, <1>11, AnswerKinds

(* The server answers the request, the only one, with what is then true.   *)
LEMMA AnswerSession ==
  ASSUME Types, Wire, up, requests # <<>>, Head(requests).op # "data",
         NoAnswer, NEW m, Notify(m), Told(m)'
  PROVE  Session'
<1>1. /\ fsm' = "wait" /\ response' = TRUE /\ cached' = NoMsg
      /\ answers' = <<m>>
  BY NextWrite DEF Notify, client, NoAnswer
<1>2. Head(answers') = m /\ Len(answers') = 1
  BY <1>1, OneAnswer
<1>3. Told(Head(answers))'
  BY <1>2 DEF Told
<1> QED BY <1>1, <1>2, <1>3 DEF Session, Pushes, Asks, NoAnswer

LEMMA PushSession ==
  ASSUME Types, Wire, Session, PushImage
  PROVE  Session'
<1>1. /\ UNCHANGED <<answers, response, cached, length, stale>>
      /\ UNCHANGED <<curr_offset, image_length, resend, checked, ready>>
      /\ burst > 0
  BY DEF PushImage, server, flash, ram, fate
<1>2. CASE ~MayPush
  <2>1. fsm' = "wait" /\ UNCHANGED <<fsm, requests, pushed, pkt_count, sum>>
    BY <1>2 DEF PushImage, MayPush
  <2> QED BY <1>1, <2>1
          DEF Session, Told, Fresh, AtHeader, Started, Pushes, Asks, NoAnswer,
              Asked, FromHere, Last
<1>3. CASE MayPush
  <2>1. fsm \in {"idle", "data"} /\ ~response
    BY <1>1, <1>3 DEF MayPush, Types, ClientType, Wire, Quiet
  <2>2. NoAnswer /\ Pushing
    BY <1>1, <2>1 DEF Session, Pushes
  <2>3. Push
    BY <1>3 DEF PushImage
  <2>4. PICK d \in DataMsgs, q \in Seq(RequestMsgs) :
          /\ d = Msg("data", Packet(PacketSize))
          /\ pushed' = pushed + PacketSize
          /\ sum' = Summed \o d.arg
          /\ \/ /\ fsm' = "data"
                /\ pkt_count' = pkt_count + 1
             \/ /\ fsm' = "wait" /\ pkt_count' = 0
                /\ \E c \in CrcMsgs : c.sum = sum' /\ requests' = Append(q, c)
    BY <2>3, PushIs
  <2>5. Started' /\ checked'
    BY <1>1, <2>2 DEF Pushing, Started
  <2>6. NoAnswer' /\ Len(answers') <= 1
    BY <1>1, <2>2, OneAnswer DEF NoAnswer
  <2>7. stale = {} =>
          FromHere(sum)' /\ pushed' = curr_offset' + Len(sum')
    <3>1. SUFFICES ASSUME stale = {}
                   PROVE  FromHere(sum)' /\ pushed' = curr_offset' + Len(sum')
      OBVIOUS
    <3> DEFINE p == Packet(PacketSize)
    <3>2. /\ FromHere(Summed) /\ pushed = curr_offset + Len(Summed)
          /\ length = ImageLength
      BY <2>2, <3>1 DEF Pushing, Started
    <3>3. Summed \in Seq(Bytes)
      BY EmptySeq DEF Summed, Types, ClientType
    <3>4. /\ curr_offset \in Nat /\ Len(Summed) \in Nat /\ ImageLength \in Nat
          /\ pushed \in Nat
      BY <3>3, DfuAssumption DEF Types, ServerType, RamType, ClientType
    <3>5. pushed <= length
      BY <3>2, <3>4 DEF FromHere
    <3>6. /\ PacketSize \in Nat
          /\ p \in Seq(Bytes) /\ Len(p) = PacketSize
          /\ pushed + PacketSize <= length
          /\ \A i \in 1 .. PacketSize : p[i] = pushed + i - 1
      BY <3>2, <3>5, PacketIs, LinkAssumption
    <3>7. sum' = Summed \o p
      BY <2>4 DEF Msg
    <3> HIDE DEF p
    <3>8. /\ Len(sum') = Len(Summed) + PacketSize /\ Len(sum') \in Nat
          /\ \A i \in 1 .. Len(sum') :
               sum'[i] = IF i <= Len(Summed)
                         THEN Summed[i] ELSE p[i - Len(Summed)]
      <4>1. \A s, t \in Seq(Bytes) :
              /\ Len(s \o t) = Len(s) + Len(t)
              /\ \A i \in 1 .. Len(s \o t) :
                   (s \o t)[i] = IF i <= Len(s) THEN s[i] ELSE t[i - Len(s)]
        BY ConcatProperties
      <4>2. /\ Len(Summed \o p) = Len(Summed) + Len(p)
            /\ \A i \in 1 .. Len(Summed \o p) :
                 (Summed \o p)[i] =
                   IF i <= Len(Summed) THEN Summed[i] ELSE p[i - Len(Summed)]
        BY <3>3, <3>6, <4>1
      <4>3. Len(Summed \o p) \in Nat
        BY <3>4, <3>6, <4>2
      <4> QED BY <3>6, <3>7, <4>2, <4>3
    <3>9. ASSUME NEW i \in 1 .. Len(sum')
          PROVE  sum'[i] = curr_offset + i - 1
      <4>1. CASE i <= Len(Summed)
        <5>1. sum'[i] = Summed[i] /\ i \in 1 .. Len(Summed)
          BY <3>4, <3>8, <4>1
        <5> QED BY <3>2, <5>1 DEF FromHere
      <4>2. CASE ~(i <= Len(Summed))
        <5>1. i - Len(Summed) \in 1 .. PacketSize
          BY <3>4, <3>6, <3>8, <4>2
        <5>2. sum'[i] = p[i - Len(Summed)]
          BY <3>8, <4>2
        <5>3. sum'[i] = pushed + (i - Len(Summed)) - 1
          BY <3>6, <5>1, <5>2
        <5> QED BY <3>2, <3>4, <3>6, <3>8, <5>3
      <4> QED BY <4>1, <4>2
    <3>10. /\ curr_offset + Len(sum') <= ImageLength
           /\ pushed' = curr_offset + Len(sum')
      BY <1>1, <2>4, <3>2, <3>4, <3>6, <3>8
    <3> QED BY <1>1, <3>9, <3>10 DEF FromHere
  <2>8. CASE fsm' = "data" /\ pkt_count' = pkt_count + 1
    <3>1. pkt_count' # 0
      BY <2>8 DEF Types, ClientType
    <3>2. Summed' = sum'
      BY <3>1 DEF Summed
    <3>3. Pushing'
      BY <1>1, <2>5, <2>7, <3>2 DEF Pushing, FromHere
    <3> QED BY <2>6, <2>8, <3>3 DEF Session, NoAnswer, Asks
  <2>9. CASE /\ fsm' = "wait" /\ pkt_count' = 0
             /\ \E c \in CrcMsgs : c.sum = sum' /\ requests' = Append(q, c)
    <3>1. PICK c \in CrcMsgs : c.sum = sum' /\ requests' = Append(q, c)
      BY <2>9
    <3>2. c \in RequestMsgs /\ c.op = "crc"
      BY RequestKinds DEF RequestMsgs
    <3>3. Last' = c
      BY <3>1, <3>2, AppendIs DEF Last
    <3>4. Last'.op = "crc" /\ Last'.sum = sum'
      BY <3>1, <3>2, <3>3
    <3>5. Asked(Last)'
      BY <1>1, <2>5, <2>7, <2>9, <3>4 DEF Asked, FromHere
    <3> QED BY <2>6, <2>9, <3>5 DEF Session, NoAnswer, Pushes
  <2> QED BY <2>4, <2>8, <2>9
<1> QED BY <1>2, <1>3

LEMMA MsgIs == \A o, a : \E m : m = Msg(o, a) /\ m.op = o /\ m.arg = a
<1>1. \A o, a : Msg(o, a).op = o /\ Msg(o, a).arg = a
  BY DEF Msg
<1> QED BY <1>1

(* What the server finds when it checks a buffer in such a session.        *)
LEMMA CrcIs ==
  ASSUME Types, Wire, InStep, ServeCrc, "message" \notin stale
  PROVE  /\ NoAnswer /\ Started /\ checked
         /\ Notify(Msg("crc", curr_offset')) /\ UNCHANGED stale
         /\ stale = {} => pkt_count = 0
         /\ \/ Refuse
            \/ /\ stale = {} => FromHere(buffer)
               /\ WriteBuffer \/ WriteFails
<1>1. /\ up /\ requests # <<>> /\ Head(requests).op = "crc"
      /\ fsm = "wait" /\ ~response /\ Last = Head(requests)
  BY ServeCrcWire
<1>2. requests # <<First>>
  BY <1>1, FirstIs, OneAnswer
<1>3. Session
  BY <1>1, <1>2 DEF InStep, InSession
<1>4. NoAnswer /\ Asked(Head(requests))
  BY <1>1, <1>3 DEF Session, Asks
<1>5. /\ Started /\ checked
      /\ stale = {} => pkt_count = 0 /\ FromHere(Head(requests).sum)
  BY <1>1, <1>4 DEF Asked
<1>6. \/ Refuse
      \/ Head(requests).sum = buffer /\ (WriteBuffer \/ WriteFails)
  BY DEF ServeCrc, BufferCheck, Accepts
<1>7. Head(requests).sum = buffer /\ stale = {} => FromHere(buffer)
  BY <1>5
<1> QED BY <1>4, <1>5, <1>6, <1>7 DEF ServeCrc

(* Where the server goes on is not before the offset to resend from.       *)
LEMMA CrcSession ==
  ASSUME Types, Wire, Types', InStep, ServeCrc, "message" \notin stale
  PROVE  Session'
<1>1. /\ NoAnswer /\ Started /\ checked
      /\ Notify(Msg("crc", curr_offset')) /\ UNCHANGED stale
      /\ stale = {} => pkt_count = 0
  BY CrcIs
<1>2. /\ UNCHANGED <<image_length, checked, length, pkt_count>>
      /\ ready' => ready
      /\ stale = {} => resend' <= curr_offset' /\ curr_offset' <= ImageLength
  <2>1. UNCHANGED <<length, pkt_count>>
    BY <1>1 DEF Notify, client
  <2>2. /\ curr_offset \in Nat /\ resend \in Nat /\ Len(buffer) \in Nat
        /\ ImageLength \in Nat /\ Sector \in Nat /\ buffer \in Seq(Bytes)
        /\ FlashType
    BY DfuAssumption DEF Types, ServerType, RamType
  <2>3. stale = {} => resend <= curr_offset /\ curr_offset <= ImageLength
    BY <1>1 DEF Started
  <2>4. CASE Refuse
    BY <2>1, <2>3, <2>4 DEF Refuse, AnswerFrom, flash
  <2>5. CASE WriteBuffer /\ (stale = {} => FromHere(buffer))
    <3> DEFINE next == curr_offset + Len(buffer)
    <3>1. /\ Update(curr_offset, buffer, TRUE, {}, FALSE)
          /\ resend' = NextResend(next)
          /\ AnswerFrom(next)
      BY <2>5 DEF WriteBuffer
    <3>2. ready' => ready
      BY <2>2, <3>1, UpdateIs
    <3>3. stale = {} => next <= ImageLength /\ resend <= next
      BY <2>2, <2>3, <2>5 DEF FromHere
    <3>4. stale = {} => resend' <= next
      BY <2>2, <3>1, <3>3 DEF NextResend, Ahead
    <3> QED BY <2>1, <3>1, <3>2, <3>3, <3>4 DEF AnswerFrom
  <2>6. CASE WriteFails
    <3>1. PICK again \in {{}, {resend}, Doubtful} :
            Update(curr_offset, buffer, FALSE, again, again # Doubtful)
      BY <2>6 DEF WriteFails
    <3>2. ready' => ready
      BY <2>2, <3>1, UpdateIs
    <3>3. resend' = resend /\ curr_offset' = resend
          /\ UNCHANGED <<image_length, checked>>
      BY <2>6 DEF WriteFails, AnswerFrom, ResumeAt
    <3> QED BY <2>1, <2>2, <2>3, <3>2, <3>3
  <2> QED BY <2>4, <2>5, <2>6, CrcIs
<1>3. Started'
  <2>1. ready' \in BOOLEAN
    BY DEF Types, ServerType, FlashType
  <2> QED BY <1>1, <1>2, <2>1 DEF Started
<1>4. \A m : m = Msg("crc", curr_offset') =>
              m.op = "crc" /\ m.arg = curr_offset'
  BY DEF Msg
<1>5. PICK m : m = Msg("crc", curr_offset')
  OBVIOUS
<1>6. Told(m)'
  BY <1>1, <1>2, <1>3, <1>4, <1>5 DEF Told
<1>7. up /\ requests # <<>> /\ Head(requests).op # "data"
  BY ServeCrcWire
<1>8. Notify(m)
  BY <1>1, <1>5
<1> QED BY <1>1, <1>6, <1>7, <1>8, AnswerSession

(* Any other request in a session.                                         *)
LEMMA RequestIs ==
  ASSUME Types, Wire, InStep, "message" \notin stale, up, requests # <<>>,
         Head(requests).op # "data", requests # <<First>>
  PROVE  NoAnswer /\ Asked(Head(requests))
<1>1. fsm = "wait" /\ ~response /\ Last = Head(requests)
  BY NextWrite
<1>2. Session
  BY <1>1 DEF InStep, InSession
<1> QED BY <1>1, <1>2 DEF Session, Asks

LEMMA TargetSession ==
  ASSUME Types, Wire, InStep, ServeTarget, "message" \notin stale'
  PROVE  Session'
<1>1. PICK image \in {"app", "patch"} :
        /\ Head(requests) = Msg("target", image)
        /\ Notify(Msg("target", Newest(image)))
        /\ stale' = IF image = "app" THEN Leftovers ELSE stale
  BY ServeTargetIs
<1>2. /\ up /\ requests # <<>> /\ Head(requests).op = "target"
      /\ resend' = resend
  BY ServeTargetIs DEF TargetInfo
<1>3. NoAnswer /\ Fresh'
  <2>1. CASE requests = <<First>>
    <3>1. stale' = Leftovers
      <4>1. Msg("target", image) = Msg("target", "app")
        BY <1>1, <2>1, OneAnswer DEF First
      <4>2. image = "app"
        <5>1. Msg("target", image).arg = image /\ Msg("target", "app").arg = "app"
          BY DEF Msg
        <5> QED BY <4>1, <5>1
      <4> QED BY <1>1, <4>2
    <3>2. NoAnswer
      BY <2>1, <3>1 DEF Wire, Leftovers, NoAnswer
    <3> QED BY <1>2, <3>1, <3>2 DEF Leftovers, Fresh
  <2>2. CASE requests # <<First>>
    <3>1. image # "app"
      <4>1. Len(requests) = 1 /\ Head(requests) = requests[1]
        BY <1>2, NextWrite, TailIs DEF Types, LinkType
      <4>2. \A q \in Seq(RequestMsgs) : \A m : Len(q) = 1 /\ q[1] = m => q = <<m>>
        OBVIOUS
      <4>3. requests = <<Head(requests)>>
        BY <4>1, <4>2 DEF Types, LinkType
      <4> QED BY <1>1, <2>2, <4>3 DEF First
    <3>2. stale' = stale
      BY <1>1, <3>1
    <3>3. NoAnswer /\ Asked(Head(requests))
      BY <1>2, <2>2, <3>2, RequestIs
    <3> QED BY <1>2, <3>2, <3>3 DEF Asked, Fresh
  <2> QED BY <2>1, <2>2
<1>4. PICK m : m = Msg("target", Newest(image)) /\ m.op = "target"
  BY MsgIs
<1>5. Told(m)'
  BY <1>3, <1>4 DEF Told
<1> QED BY <1>1, <1>2, <1>3, <1>4, <1>5, AnswerSession

(* START_DFU succeeds only when the old image has lost its mark.           *)
MarkStands == ready => bank[0] # Erased

LEMMA StartSession ==
  ASSUME Types, Wire, Types', InStep, MarkStands, ServeStart, up',
         "message" \notin stale
  PROVE  Session'
<1>1. up /\ requests # <<>> /\ Head(requests).op = "start"
  BY ServeStartWire
<1>2. Start /\ Notify(Msg("start", 0)) /\ UNCHANGED stale
  BY DEF ServeStart, Down
<1>3. requests # <<First>>
  BY <1>1, FirstIs, OneAnswer
<1>4. NoAnswer /\ Asked(Head(requests))
  BY <1>1, <1>3, RequestIs
<1>5. /\ image_length' = ImageLength /\ curr_offset' = Header
      /\ UNCHANGED <<resend, pushed, length>>
  BY <1>2 DEF Start, Notify, client
<1>6. ~ready'
  <2>1. Update(0, Piece(0, Header), TRUE, {}, FALSE) /\ FlashType
    BY <1>2 DEF Start, Types, ServerType
  <2>2. ready' => ready
    BY <2>1, HeaderIs, UpdateIs
  <2>3. ready /\ ready' => FALSE
    BY <2>1, HeaderSpoilsNothing DEF MarkStands
  <2> QED BY <2>2, <2>3
<1>7. AtHeader'
  BY <1>1, <1>2, <1>4, <1>5, <1>6, DfuAssumption
     DEF Asked, Fresh, AtHeader, Started
<1>8. PICK m : m = Msg("start", 0) /\ m.op = "start"
  BY MsgIs
<1>9. Told(m)'
  BY <1>7, <1>8 DEF Told
<1> QED BY <1>1, <1>2, <1>4, <1>8, <1>9, AnswerSession

LEMMA CheckSession ==
  ASSUME Types, Wire, InStep, ServeCheck, "message" \notin stale
  PROVE  Session'
<1>1. up /\ requests # <<>> /\ Head(requests).op = "check"
  BY ServeCheckWire
<1>2. NoAnswer /\ Asked(Head(requests))
  <2>1. requests # <<First>>
    BY <1>1, FirstIs, OneAnswer
  <2> QED BY <1>1, <2>1, RequestIs
<1>3. AtHeader' /\ checked' = TRUE
  BY <1>1, <1>2 DEF ServeCheck, BufferCheckEn, Notify, client, flash, Asked,
                    AtHeader, Started
<1>4. PICK m : m = Msg("check", 0) /\ m.op = "check"
  BY MsgIs
<1>5. Told(m)'
  BY <1>3, <1>4 DEF Told
<1> QED BY <1>1, <1>2, <1>4, <1>5, AnswerSession DEF ServeCheck

LEMMA ValidSession ==
  ASSUME Types, Wire, InStep, ServeValid, "message" \notin stale
  PROVE  Session'
<1>1. up /\ requests # <<>> /\ Head(requests).op = "valid"
  BY ServeValidWire
<1>2. NoAnswer
  <2>1. requests # <<First>>
    BY <1>1, FirstIs, OneAnswer
  <2> QED BY <1>1, <2>1, RequestIs
<1>3. PICK m : m = Msg("valid", SumMatches) /\ m.op = "valid"
  BY MsgIs
<1>4. Told(m)'
  BY <1>3 DEF Told
<1> QED BY <1>1, <1>2, <1>3, <1>4, AnswerSession DEF ServeValid

(* The packets of a session are only collected.                            *)
LEMMA DataIs ==
  ASSUME Types, Wire, InStep, ServeData, "message" \notin stale
  PROVE  /\ Session /\ Taken
         /\ UNCHANGED <<flash, curr_offset, image_length, resend, checked>>
<1>1. /\ up /\ requests # <<>> /\ Head(requests) \in DataMsgs
      /\ \/ Ignore /\ Taken
         \/ Collect(NextData) /\ Taken
         \/ ~checked
  BY ServeDataIs
<1>2. /\ ~response /\ fsm \in {"data", "wait"}
      /\ fsm = "wait" => Last \in CrcMsgs
  BY <1>1, NextWrite, RequestKinds
<1>3. requests # <<First>>
  BY <1>1, FirstIs, OneAnswer
<1>4. Session
  BY <1>1, <1>2, <1>3 DEF InStep, InSession
<1>5. checked
  BY <1>2, <1>4, RequestKinds DEF Session, Pushes, Asks, Asked, Pushing
<1> QED BY <1>1, <1>4, <1>5 DEF Ignore, Collect, server, ram

LEMMA DataSession ==
  ASSUME Types, Wire, InStep, ServeData, "message" \notin stale
  PROVE  Session'
<1>1. /\ Session /\ Taken
      /\ UNCHANGED <<curr_offset, image_length, resend, checked, ready>>
  BY DataIs DEF flash
<1>2. /\ up /\ requests # <<>> /\ Head(requests) \in DataMsgs
  BY ServeDataIs
<1>3. fsm = "wait" => Last' = Last
  BY <1>1, <1>2, TakenWire
<1>4. UNCHANGED <<answers, response, cached, length, stale, fsm, pushed,
                  pkt_count, sum, burst>>
  BY <1>1 DEF Taken, client, fate
<1>5. /\ Pushes' = Pushes /\ Asks' = Asks /\ NoAnswer' = NoAnswer
      /\ Pushing' = Pushing
  BY <1>1, <1>4
     DEF Pushes, Asks, NoAnswer, Pushing, Started, FromHere, Summed
<1>6. Asks => Asked(Last)'
  <2>1. SUFFICES ASSUME Asks PROVE Asked(Last)'
    OBVIOUS
  <2>2. Asked(Last) /\ Last' = Last
    BY <1>1, <1>3, <2>1 DEF Session, Asks
  <2> QED BY <1>1, <1>4, <2>2
          DEF Asked, Fresh, AtHeader, Started, FromHere
<1>7. \A m : Told(m) => Told(m)'
  BY <1>1, <1>4 DEF Told, Fresh, AtHeader, Started
<1> QED BY <1>1, <1>4, <1>5, <1>6, <1>7 DEF Session

LEMMA RespondedSession ==
  ASSUME Types, Wire, InStep, Responded, "message" \notin stale
  PROVE  Session'
<1>1. /\ up /\ response /\ burst = 0 /\ fsm = "wait" /\ requests = <<>>
      /\ response' = FALSE
      /\ UNCHANGED <<server, stale, answers>>
  BY WaitsForResponse DEF Responded, fate
<1>2. Session
  BY <1>1 DEF InStep, InSession
<1>3. CASE cached # NoMsg
  <2>1. /\ cached \in AnswerMsgs /\ HandleCpMsg(cached) /\ cached' = NoMsg
        /\ Told(cached) /\ answers' = <<>>
    BY <1>1, <1>2, <1>3 DEF Responded, Types, ClientType, Session
  <2>2. PICK m \in AnswerMsgs : m = cached
    BY <2>1
  <2>3. Told(m) /\ HandleCpMsg(m)
    BY <2>1, <2>2
  <2> QED BY <1>1, <2>1, <2>3, HandledSession
<1>4. CASE cached = NoMsg
  <2>1. /\ fsm' = "idle" /\ cached' = NoMsg /\ SameImage
    BY <1>1, <1>4 DEF Responded
  <2>2. \A m : Told(m) => Told(m)'
    BY <1>1, <2>1 DEF server, flash, ram, SameImage, Told, Fresh, AtHeader, Started
  <2>3. burst' = 0
    BY <1>1, <2>1 DEF SameImage
  <2> QED BY <1>1, <1>2, <2>1, <2>2, <2>3 DEF Session, Pushes, Asks
<1> QED BY <1>3, <1>4

LEMMA NotifiedSession ==
  ASSUME Types, Wire, InStep, Notified, "message" \notin stale
  PROVE  Session'
<1>1. /\ up /\ answers # <<>> /\ burst = 0 /\ answers' = Tail(answers)
      /\ UNCHANGED <<server, stale, response>>
  BY DEF Notified, fate
<1>2. fsm # "cccd" /\ requests # <<First>>
  BY <1>1 DEF Wire, Quiet
<1>3. Session
  BY <1>1, <1>2 DEF InStep, InSession
<1>4. cached = NoMsg /\ Told(Head(answers)) /\ ~Pushes /\ ~Asks
  BY <1>1, <1>3 DEF Session, NoAnswer
<1>5. /\ Head(answers) \in AnswerMsgs
      /\ Tail(answers) = <<>>
  <2>1. Len(answers) = 1
    <3>1. Len(answers) \in Nat \ {0}
      BY <1>1, TailIs DEF Types, LinkType
    <3>2. Len(answers) <= 1
      BY <1>3 DEF Session
    <3> QED BY <3>1, <3>2
  <2> QED BY <1>1, <2>1, TailIs DEF Types, LinkType
<1>6. CASE fsm = "idle"
  <2>1. requests = <<>> /\ response' = FALSE
    BY <1>1, <1>6 DEF Wire, Types, LinkType
  <2>2. HandleCpMsg(Head(answers)) /\ cached' = NoMsg /\ answers' = <<>>
    BY <1>1, <1>4, <1>5, <1>6 DEF Notified
  <2>3. PICK m \in AnswerMsgs : m = Head(answers)
    BY <1>5
  <2>4. Told(m) /\ HandleCpMsg(m)
    BY <1>4, <2>2, <2>3
  <2> QED BY <1>1, <2>1, <2>2, <2>4, HandledSession
<1>7. CASE fsm # "idle"
  <2>1. /\ cached' = Head(answers) /\ UNCHANGED <<fsm, requests>> /\ SameImage
        /\ answers' = <<>>
    BY <1>1, <1>5, <1>7 DEF Notified
  <2>2. \A m : Told(m) => Told(m)'
    BY <1>1, <2>1 DEF server, flash, ram, SameImage, Told, Fresh, AtHeader, Started
  <2>3. ~Pushes' /\ ~Asks'
    BY <1>1, <1>4, <2>1 DEF Pushes, Asks, SameImage
  <2>4. PICK m : m = Head(answers)
    OBVIOUS
  <2>5. Told(m)' /\ cached' = m
    BY <1>4, <2>1, <2>2, <2>4
  <2>6. Told(cached)'
    BY <2>5 DEF Told
  <2> QED BY <2>1, <2>3, <2>6, OneAnswer DEF Session
<1> QED BY <1>6, <1>7

LEMMA SessionSame ==
  ASSUME Session, Pushes' = Pushes,
         UNCHANGED <<server, stale, answers, cached, fsm, response, requests,
                     pushed, length, pkt_count, sum>>
  PROVE  Session'
<1>1. UNCHANGED <<curr_offset, image_length, resend, checked, ready>>
  BY DEF server, flash, ram
<1>2. \A m : Told(m) => Told(m)'
  BY <1>1 DEF Told, Fresh, AtHeader, Started
<1>3. \A m : Asked(m) => Asked(m)'
  BY <1>1 DEF Asked, Fresh, AtHeader, Started, FromHere
<1>4. Pushing' = Pushing /\ NoAnswer' = NoAnswer /\ Asks' = Asks
  BY <1>1 DEF Pushing, NoAnswer, Asks, Started, FromHere, Summed
<1>5. Asks => Asked(Last)'
  <2>1. SUFFICES ASSUME Asks PROVE Asked(Last)'
    OBVIOUS
  <2>2. PICK r : r = Last
    OBVIOUS
  <2>3. Asked(r)' /\ Last' = r
    BY <1>3, <2>1, <2>2 DEF Session, Last
  <2> QED BY <2>3 DEF Asked
<1>6. /\ answers # <<>> => Told(Head(answers))'
      /\ cached # NoMsg => Told(cached)'
  BY <1>2 DEF Session
<1>7. /\ answers' # <<>> => Told(Head(answers))'
      /\ cached' # NoMsg => Told(cached)'
  BY <1>6
<1> QED BY <1>4, <1>5, <1>7 DEF Session

LEMMA DataSentSession ==
  ASSUME Types, Wire, InStep, DataSent, InSession', "message" \notin stale
  PROVE  Session'
<1>1. UNCHANGED <<server, stale, answers, cached, fsm, response, requests,
                  pushed, length, pkt_count, sum, up>>
  BY DEF DataSent, fate
<1>2. Pushes' = Pushes
  BY <1>1 DEF DataSent, Pushes
<1>3. Session
  BY <1>1 DEF InSession, InStep
<1> QED BY <1>1, <1>2, <1>3, SessionSame

LEMMA InStepStep ==
  ASSUME Types, Wire, InStep, MarkStands, Types', Wire', [Next]_vars
  PROVE  InStep'
<1> SUFFICES ASSUME InSession', "message" \notin stale' PROVE Session'
  BY DEF InStep
<1>1. CASE UNCHANGED vars
  <2>1. UNCHANGED <<server, stale, answers, cached, fsm, response, requests,
                    pushed, length, pkt_count, sum, up, burst>>
    BY <1>1 DEF vars, client, link, fate
  <2>2. Session /\ Pushes' = Pushes
    BY <2>1 DEF InStep, InSession, Pushes
  <2> QED BY <2>1, <2>2, SessionSame
<1>2. CASE CccdWritten
  BY <1>2, CccdWire DEF InSession
<1>3. CASE Responded
  BY <1>3, RespondedSession DEF Responded, fate
<1>4. CASE Notified
  BY <1>4, NotifiedSession DEF Notified, fate
<1>5. CASE DataSent
  BY <1>5, DataSentSession DEF DataSent, fate
<1>6. CASE PushImage
  <2>1. up /\ fsm # "cccd" /\ requests # <<First>> /\ UNCHANGED stale
    BY <1>6 DEF PushImage, Types, ClientType, LinkType, Wire, Quiet, fate
  <2>2. Session
    BY <2>1 DEF InStep, InSession
  <2> QED BY <1>6, <2>2, PushSession
<1>7. CASE ServeTarget
  BY <1>7, TargetSession
<1>8. CASE ServeStart
  <2>1. UNCHANGED stale
    BY <1>8 DEF ServeStart, Restart
  <2> QED BY <1>8, <2>1, StartSession DEF InSession
<1>9. CASE ServeCheck
  BY <1>9, CheckSession DEF ServeCheck
<1>10. CASE ServeCrc
  BY <1>10, CrcSession DEF ServeCrc
<1>11. CASE ServeValid
  BY <1>11, ValidSession DEF ServeValid
<1>12. CASE ServeActivate \/ ServeReset \/ LoseLink \/ Reboot
  BY <1>12 DEF ServeActivate, ServeReset, LoseLink, Reboot, Down, InSession
<1>13. CASE ServeData
  <2>1. UNCHANGED stale
    BY <1>13, ServeDataIs DEF Taken, Gone, Restart, fate
  <2> QED BY <1>13, <2>1, DataSession
<1>14. CASE Connect
  BY <1>14 DEF Connect, InSession
<1> QED BY <1>1, <1>2, <1>3, <1>4, <1>5, <1>6, <1>7, <1>8, <1>9, <1>10,
           <1>11, <1>12, <1>13, <1>14 DEF Next, ClientStep, Serve

-----------------------------------------------------------------------------
(* The steps that change the flash.                                        *)

LEMMA FlashSteps ==
  ASSUME Types, Wire, [Next]_vars
  PROVE  \/ /\ UNCHANGED flash
            /\ curr_offset' = 0 \/ UNCHANGED <<curr_offset, stale>>
         \/ ServeStart \/ ServeCrc \/ ServeValid \/ ServeData
<1>1. CASE UNCHANGED vars
  BY <1>1 DEF vars, server, ram, fate
<1>2. CASE ClientStep
  BY <1>2 DEF ClientStep, CccdWritten, Responded, Notified, DataSent,
              PushImage, server, ram, fate
<1>3. CASE ServeTarget
  BY <1>3, ServeTargetIs DEF TargetInfo
<1>4. CASE ServeCheck
  BY <1>4 DEF ServeCheck, BufferCheckEn
<1>5. CASE ServeActivate \/ LoseLink \/ Connect
  BY <1>5 DEF ServeActivate, LoseLink, Connect, server, ram
<1>6. CASE ServeReset \/ Reboot
  BY <1>6 DEF ServeReset, Reboot, Cleared
<1> QED BY <1>1, <1>2, <1>3, <1>4, <1>5, <1>6 DEF Next, Serve

LEMMA MarkStep ==
  ASSUME Types, Wire, MarkStands, [Next]_vars
  PROVE  MarkStands'
<1>1. FlashType /\ RamType
  BY DEF Types, ServerType
<1>2. ASSUME NEW off \in Nat, NEW data \in Seq(Bytes), NEW ok,
             NEW again \in SUBSET Nat, NEW failing,
             Update(off, data, ok, again, failing)
      PROVE  MarkStands'
  BY <1>1, <1>2, UpdateIs DEF MarkStands
<1>3. CASE UNCHANGED flash
  BY <1>3 DEF flash, MarkStands
<1>4. CASE ServeStart
  <2>1. PICK ok : Update(0, Piece(0, Header), ok, {}, FALSE)
    BY <1>4 DEF ServeStart, Start, StartFails
  <2> QED BY <1>2, <2>1, HeaderIs
<1>5. CASE ServeCrc
  <2>1. CASE Refuse
    BY <1>3, <2>1 DEF Refuse
  <2>2. CASE WriteBuffer
    BY <1>1, <1>2, <2>2 DEF WriteBuffer, RamType
  <2>3. CASE WriteFails
    <3>1. PICK again \in {{}, {resend}, Doubtful} :
            Update(curr_offset, buffer, FALSE, again, again # Doubtful)
      BY <2>3 DEF WriteFails
    <3>2. again \in SUBSET Nat
      BY <1>1, <3>1, DfuAssumption DEF Doubtful, RamType
    <3> QED BY <1>1, <1>2, <3>1, <3>2 DEF RamType
  <2> QED BY <1>5, <2>1, <2>2, <2>3 DEF ServeCrc, BufferCheck
<1>6. CASE ServeValid
  <2>1. SumMatches => bank[0] # Erased
    <3>1. 0 \in Image /\ Erased # 0
      BY DfuAssumption DEF Image
    <3> QED BY <3>1 DEF SumMatches, Whole
  <2> QED BY <1>6, <2>1 DEF ServeValid, ValidFw, MarkStands
<1>7. CASE ServeData
  <2>1. /\ NextData \in Seq(Bytes)
        /\ \/ Ignore \/ Collect(NextData) \/ WriteData(NextData)
           \/ DataFails(NextData)
    BY <1>7, ServeDataIs
  <2>2. buffer \o NextData \in Seq(Bytes) /\ curr_offset \in Nat
    BY <1>1, <2>1, ConcatProperties DEF RamType
  <2>3. CASE Ignore \/ Collect(NextData)
    BY <1>3, <2>3 DEF Ignore, Collect, server
  <2>4. CASE WriteData(NextData) \/ DataFails(NextData)
    <3>1. PICK ok : Update(curr_offset, buffer \o NextData, ok, {}, FALSE)
      BY <2>4 DEF WriteData, DataFails
    <3> QED BY <1>2, <2>2, <3>1
  <2> QED BY <2>1, <2>3, <2>4
<1> QED BY <1>3, <1>4, <1>5, <1>6, <1>7, FlashSteps

(* What a write in a session does: it adds the next cells of the image, or *)
(* it fails and leaves what is before the offset to go on from.            *)
LEMMA PrefixStep ==
  ASSUME Types, Wire, InStep, PrefixWritten, Types', [Next]_vars
  PROVE  PrefixWritten'
<1> SUFFICES ASSUME stale' = {}, NEW o \in Image, o < curr_offset'
             PROVE  bank'[o] = o
  BY DEF PrefixWritten
<1>1. /\ FlashType /\ RamType
      /\ o \in Cell /\ o \in Nat
      /\ curr_offset \in Nat /\ curr_offset' \in Nat
  BY DfuAssumption DEF Types, ServerType, RamType, Image, Cell
<1>2. ASSUME stale = {}, o < curr_offset PROVE bank[o] = o
  BY <1>2 DEF PrefixWritten
<1>3. CASE /\ UNCHANGED flash
           /\ curr_offset' = 0 \/ UNCHANGED <<curr_offset, stale>>
  BY <1>1, <1>2, <1>3 DEF flash
<1>4. CASE ServeStart
  <2>1. CASE Start
    <3>1. Update(0, Piece(0, Header), TRUE, {}, FALSE) /\ curr_offset' = Header
      BY <2>1 DEF Start
    <3>2. o \in 0 .. 0 + Len(Piece(0, Header)) - 1 /\ o - 0 + 1 \in 1 .. Header
      BY <1>1, <3>1, HeaderIs, DfuAssumption
    <3>3. bank'[o] = Marked(0, Piece(0, Header))[o - 0 + 1]
      BY <1>1, <3>1, <3>2, HeaderIs, UpdateIs
    <3>4. bank'[o] = (o - 0 + 1) - 1
      BY <3>2, <3>3, HeaderIs
    <3> QED BY <1>1, <3>4
  <2>2. CASE StartFails
    BY <1>1, <2>2 DEF StartFails, Cleared
  <2> QED BY <1>4, <2>1, <2>2 DEF ServeStart
<1>5. CASE ServeCrc
  <2>1. stale = {}
    BY <1>5 DEF ServeCrc
  <2>2. /\ Started
        /\ \/ Refuse
           \/ FromHere(buffer) /\ (WriteBuffer \/ WriteFails)
    BY <1>5, <2>1, CrcIs
  <2>3. resend <= curr_offset
    BY <2>1, <2>2 DEF Started
  <2>4. CASE Refuse
    BY <1>2, <2>1, <2>4 DEF Refuse, AnswerFrom, flash
  <2>5. CASE FromHere(buffer) /\ WriteBuffer
    <3>1. /\ Update(curr_offset, buffer, TRUE, {}, FALSE)
          /\ curr_offset' = curr_offset + Len(buffer)
      BY <2>5 DEF WriteBuffer, AnswerFrom
    <3>2. buffer \in Seq(Bytes) /\ Len(buffer) \in Nat
      BY <1>1 DEF RamType
    <3>3. CASE o < curr_offset
      <4>1. \A p \in Cell : p < curr_offset => bank'[p] = bank[p]
        BY <1>1, <3>2, <3>1, NothingBefore
      <4> QED BY <1>1, <1>2, <2>1, <3>3, <4>1
    <3>4. CASE ~(o < curr_offset)
      <4>1. /\ o \in curr_offset .. curr_offset + Len(buffer) - 1
            /\ o - curr_offset + 1 \in 1 .. Len(buffer)
        BY <1>1, <3>2, <3>1, <3>4
      <4>2. bank'[o] = Marked(curr_offset, buffer)[o - curr_offset + 1]
        BY <1>1, <3>2, <3>1, <4>1, UpdateIs
      <4>3. Marked(curr_offset, buffer) = buffer
        <5>1. curr_offset = 0 /\ buffer # <<>> => IsHeader(buffer)
          <6>1. buffer # <<>> => 1 \in 1 .. Len(buffer)
            BY <3>2, <4>1
          <6> QED BY <2>5, <6>1 DEF FromHere, IsHeader
        <5> QED BY <1>1, <3>2, <5>1, MarkedIs
      <4>4. buffer[o - curr_offset + 1] = curr_offset + (o - curr_offset + 1) - 1
        BY <2>5, <4>1 DEF FromHere
      <4> QED BY <1>1, <4>2, <4>3, <4>4
    <3> QED BY <3>3, <3>4
  <2>6. CASE WriteFails
    <3>1. PICK again \in {{}, {resend}, Doubtful} :
            Update(curr_offset, buffer, FALSE, again, again # Doubtful)
      BY <2>6 DEF WriteFails
    <3>2. /\ curr_offset' = resend /\ buffer \in Seq(Bytes)
          /\ resend \in Nat /\ Sector \in Nat
      BY <1>1, <2>6, DfuAssumption DEF WriteFails, AnswerFrom, ResumeAt, RamType
    <3>3. \A s \in again : s \in Nat /\ s >= resend
      BY <3>1, <3>2 DEF Doubtful
    <3>4. o < resend /\ o < curr_offset
      BY <1>1, <2>3, <3>2
    <3>5. \A s \in again : o \notin SectorAt(s)
      BY <1>1, <3>2, <3>3, <3>4 DEF SectorAt
    <3>6. bank'[o] = bank[o]
      <4>1. PICK failing : failing = (again # Doubtful)
        OBVIOUS
      <4>2. Update(curr_offset, buffer, FALSE, again, failing)
        BY <3>1, <4>1
      <4>3. \A p \in Cell :
              p < curr_offset /\ (\A s \in again : p \notin SectorAt(s)) =>
                bank'[p] = bank[p]
        BY <1>1, <3>2, <4>2, UpdateIs
      <4> QED BY <1>1, <3>4, <3>5, <4>3
    <3> QED BY <1>2, <2>1, <3>4, <3>6
  <2> QED BY <2>2, <2>4, <2>5, <2>6
<1>6. CASE ServeValid
  BY <1>2, <1>6 DEF ServeValid, ValidFw, ram
<1>7. CASE ServeData
  <2>1. UNCHANGED stale
    BY <1>7, ServeDataIs DEF Taken, Gone, Restart, fate
  <2>2. UNCHANGED <<flash, curr_offset>>
    BY <1>7, <2>1, DataIs
  <2> QED BY <1>2, <2>1, <2>2 DEF flash
<1> QED BY <1>3, <1>4, <1>5, <1>6, <1>7, FlashSteps

-----------------------------------------------------------------------------
(* What holds in every reachable state.                                    *)

Inv == Types /\ Wire /\ Load /\ MarkStands /\ InStep /\ PrefixWritten

LEMMA InvInit == ASSUME Init PROVE Inv
<1>1. Types /\ Wire
  BY TypesInit
<1>2. Load
  BY OneAnswer, DfuAssumption DEF Init, ServerInit, Load, InSession
<1>3. MarkStands /\ InStep /\ PrefixWritten
  BY <1>1 DEF Init, ServerInit, MarkStands, InStep, InSession, PrefixWritten,
              Image
<1> QED BY <1>1, <1>2, <1>3 DEF Inv

LEMMA InvStep == ASSUME Inv, [Next]_vars PROVE Inv'
<1>1. Types' /\ Wire'
  BY TypesStep DEF Inv
<1>2. Load'
  BY <1>1, LoadStep DEF Inv
<1>3. MarkStands'
  BY MarkStep DEF Inv
<1>4. InStep'
  BY <1>1, InStepStep DEF Inv
<1>5. PrefixWritten'
  BY <1>1, PrefixStep DEF Inv
<1> QED BY <1>1, <1>2, <1>3, <1>4, <1>5 DEF Inv

LEMMA InvHolds == Spec => []Inv
<1>1. Init => Inv
  BY InvInit
<1>2. Inv /\ [Next]_vars => Inv'
  BY InvStep
<1> QED BY <1>1, <1>2, PTL DEF Spec

(* The variables have their types, and the buffer of the server, to which  *)
(* dfu_server_handle_data copies without looking at the room that is left, *)
(* never holds more than DFU_TEMP_BUFFER_SIZE.                             *)
THEOREM TypeCorrect == Spec => []DfuTypeOK
<1>1. Inv => DfuTypeOK
  <2> SUFFICES ASSUME Inv PROVE DfuTypeOK
    OBVIOUS
  <2>1. ServerType /\ ClientType /\ LinkType /\ FateType /\ Load
    BY DEF Inv, Types
  <2>2. \A m \in RequestMsgs : m.op \in Requests
    BY RequestKinds DEF RequestMsgs, Requests
  <2>3. \A i \in 1 .. Len(requests) : requests[i].op \in Requests
    BY <2>1, <2>2 DEF LinkType
  <2>4. pkt_count \in Nat
    BY <2>1 DEF ClientType
  <2> QED BY <2>1, <2>3, <2>4
          DEF DfuTypeOK, ServerType, FlashType, RamType, ClientType, LinkType,
              FateType, Load, Bytes
<1> QED BY <1>1, InvHolds, PTL

(* In a session that found nothing of an earlier one, what is before the   *)
(* offset that the server asks for is the image's, whatever the flash does *)
(* and however often it is resumed.                                        *)
THEOREM PrefixIsWritten == Spec => []PrefixWritten
<1>1. Inv => PrefixWritten
  BY DEF Inv
<1> QED BY <1>1, InvHolds, PTL

LEMMA ReadyStep ==
  ASSUME Inv, [Next]_vars, ready => Whole, "message" \notin stale
  PROVE  (ready => Whole)'
<1>1. Types /\ Wire /\ InStep /\ MarkStands /\ FlashType /\ RamType
  BY DEF Inv, Types, ServerType
<1>2. CASE UNCHANGED flash
  BY <1>2 DEF flash, Whole
<1>3. CASE ServeStart
  <2>1. PICK ok : Update(0, Piece(0, Header), ok, {}, FALSE)
    BY <1>3 DEF ServeStart, Start, StartFails
  <2>2. ready' => ready
    BY <1>1, <2>1, HeaderIs, UpdateIs
  <2>3. ready => bank[0] = 0 /\ bank[0] # Erased
    BY <1>1, DfuAssumption DEF Whole, Image, MarkStands
  <2>4. ready' => bank' = bank
    BY <1>1, <2>1, <2>2, <2>3, HeaderSpoilsNothing
  <2> QED BY <2>2, <2>4 DEF Whole
<1>4. CASE ServeCrc
  <2>1. ~ready /\ (Refuse \/ WriteBuffer \/ WriteFails)
    BY <1>1, <1>4, CrcIs DEF Started
  <2>2. ready' => ready
    <3>1. CASE Refuse
      BY <3>1 DEF Refuse, flash
    <3>2. CASE WriteBuffer
      BY <1>1, <3>2, UpdateIs DEF WriteBuffer, RamType
    <3>3. CASE WriteFails
      BY <1>1, <3>3, UpdateIs DEF WriteFails, RamType
    <3> QED BY <2>1, <3>1, <3>2, <3>3
  <2> QED BY <2>1, <2>2
<1>5. CASE ServeValid
  BY <1>5 DEF ServeValid, ValidFw, SumMatches, Whole
<1>6. CASE ServeData
  BY <1>1, <1>2, <1>6, DataIs
<1> QED BY <1>1, <1>2, <1>3, <1>4, <1>5, <1>6, FlashSteps

(* A session that found no message of an earlier one never leaves a header *)
(* that says ready in front of anything but the whole image: no restart,   *)
(* whenever it comes, runs half an update.                                 *)
THEOREM ReadyStaysWhole == Spec => ReadyIsWhole
<1>1. Inv /\ [Next]_vars =>
        [(ready => Whole) /\ "message" \notin stale => (ready => Whole)']_vars
  BY ReadyStep
<1> QED BY <1>1, InvHolds, PTL DEF Spec, ReadyIsWhole

LEMMA BankStep ==
  ASSUME Inv, [Next]_vars, stale = {}, ImageLength < BankSize
  PROVE  neighbour' = neighbour
<1>1. /\ Types /\ Wire /\ InStep /\ FlashType /\ RamType
      /\ curr_offset \in Nat /\ resend \in Nat /\ buffer \in Seq(Bytes)
      /\ Len(buffer) \in Nat
      /\ {Sector, BankSize, ImageLength} \subseteq Nat \ {0}
  BY DfuAssumption DEF Inv, Types, ServerType, RamType
<1>2. CASE UNCHANGED flash
  BY <1>2 DEF flash
<1>3. CASE ServeStart
  <2>1. PICK ok : Update(0, Piece(0, Header), ok, {}, FALSE)
    BY <1>3 DEF ServeStart, Start, StartFails
  <2>2. \A s \in SectorsFor(0, Len(Piece(0, Header))) \cup {} : s < BankSize
    BY <1>1, HeaderIs
  <2> QED BY <1>1, <2>1, <2>2, HeaderIs, UpdateIs
<1>4. CASE ServeCrc
  <2>1. /\ resend <= curr_offset /\ curr_offset <= ImageLength
        /\ \/ Refuse
           \/ FromHere(buffer) /\ (WriteBuffer \/ WriteFails)
    BY <1>1, <1>4, CrcIs DEF Started
  <2>2. FromHere(buffer) =>
          \A s \in SectorsFor(curr_offset, Len(buffer)) : s < BankSize
    BY <1>1, <2>1 DEF SectorsFor, FromHere
  <2>3. CASE Refuse
    BY <1>2, <2>3 DEF Refuse
  <2>4. CASE FromHere(buffer) /\ WriteBuffer
    <3>1. Update(curr_offset, buffer, TRUE, {}, FALSE)
      BY <2>4 DEF WriteBuffer
    <3>2. \A s \in SectorsFor(curr_offset, Len(buffer)) \cup {} : s < BankSize
      BY <2>2, <2>4
    <3> QED BY <1>1, <3>1, <3>2, UpdateIs
  <2>5. CASE FromHere(buffer) /\ WriteFails
    <3>1. PICK again \in {{}, {resend}, Doubtful} :
            Update(curr_offset, buffer, FALSE, again, again # Doubtful)
      BY <2>5 DEF WriteFails
    <3>2. \A s \in again : s < BankSize
      BY <1>1, <2>1, <3>1 DEF Doubtful, Ahead
    <3> QED BY <1>1, <2>2, <2>5, <3>1, <3>2, UpdateIs
  <2> QED BY <2>1, <2>3, <2>4, <2>5
<1>5. CASE ServeValid
  BY <1>5 DEF ServeValid, ValidFw
<1>6. CASE ServeData
  BY <1>1, <1>2, <1>6, DataIs
<1> QED BY <1>1, <1>2, <1>3, <1>4, <1>5, <1>6, FlashSteps

(* Such a session erases nothing that lies behind the bank, if the image   *)
(* leaves room in it.                                                      *)
THEOREM NeighbourIsLeft == Spec => OnlyBankErased
<1>1. Inv /\ [Next]_vars =>
        [stale = {} /\ ImageLength < BankSize => neighbour' = neighbour]_vars
  BY BankStep
<1> QED BY <1>1, InvHolds, PTL DEF Spec, OnlyBankErased
=============================================================================
