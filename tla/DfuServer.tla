------------------------------ MODULE DfuServer ------------------------------
(***************************************************************************)
(* The server of a firmware update (dfu_server.c) and the bank of flash it *)
(* fills (silent_dfu_flash.c).  The image arrives in packets, is collected *)
(* in a buffer, checked against the client's checksum of the buffer,       *)
(* written, and read back; the offset in each answer is where the client   *)
(* goes on.  Lengths and offsets are counted in cells of some bytes; a     *)
(* cell of the image is named by its offset, and a checksum by what it     *)
(* sums.                                                                   *)
(***************************************************************************)
EXTENDS Integers, Sequences

CONSTANTS
  ImageLength,  \* image_length, the header included
  Header,       \* DFU_HEADER_SIZE: what START_DFU writes
  Sector,       \* FMC_SEC_SECTION_LEN, SECTOR_SIZE
  BankSize,     \* get_temp_ota_bank_size_by_img_id
  BufferSize,   \* DFU_TEMP_BUFFER_SIZE
  Erased,       \* a cell after an erase
  Garbage,      \* a cell that holds nothing of the image
  MaxFaults     \* bound: writes and erases that fail

ASSUME DfuAssumption ==
  /\ {ImageLength, Header, Sector, BankSize, BufferSize} \subseteq Nat \ {0}
  /\ Header < ImageLength /\ Header < Sector
  /\ ImageLength <= BankSize
  /\ BankSize % Sector = 0
  /\ BufferSize <= Sector
  /\ Erased \notin Nat /\ Garbage \notin Nat /\ Erased # Garbage
  /\ MaxFaults \in Nat

VARIABLES
  bank,         \* the temporary bank
  ready,        \* its header does not say not_ready
  neighbour,    \* the flash after the bank is as it was
  faults,
  curr_offset,  \* dfu_ctx.curr_offset
  image_length, \* dfu_ctx.image_length, 0 before the first START_DFU
  buffer,       \* g_pOtaTempBufferHead, ota_tmp_buf_used_size
  resend,       \* gSilDfuResendOffset
  checked       \* gSilBufCheckEN

flash == <<bank, ready, neighbour, faults>>
ram == <<curr_offset, image_length, buffer, resend, checked>>
server == <<flash, ram>>

Cell == 0 .. BankSize - 1
Image == 0 .. ImageLength - 1
Contents == Image \cup {Erased, Garbage}

\* The cells of the image from o on, n of them.
Piece(o, n) == [i \in 1 .. n |-> o + i - 1]

Whole == \A o \in Image : bank[o] = o

ServerInit ==
  /\ bank = [o \in Cell |-> Garbage] /\ ready = FALSE
  /\ neighbour = TRUE /\ faults = 0
  /\ curr_offset = 0 /\ image_length = 0 /\ buffer = <<>>
  /\ resend = 0 /\ checked = FALSE

-----------------------------------------------------------------------------
(* Flash.  A sector is named by its first cell; those from BankSize on are *)
(* the neighbour's.                                                        *)

SectorAt(s) == s .. s + Sector - 1

(* sil_dfu_update erases the sector it begins, or the one it ends in when  *)
(* that is another one; nothing looks at the result.                       *)
SectorsFor(off, n) ==
  IF off % Sector = 0 THEN {off}
  ELSE {s \in off + 1 .. off + n : s % Sector = 0}

AfterErase(old, sectors) ==
  [o \in Cell |-> IF \E s \in sectors : o \in SectorAt(s)
                  THEN Erased ELSE old[o]]

(* Programming only clears bits: what is not erased keeps the write from   *)
(* being read back, and so does the header of an image that is ready.      *)
Programmable(old, o, d) == old[o] = Erased \/ (old[o] = d /\ ~(o = 0 /\ ready))

\* How many of the cells can be programmed, one after the other.
Fits(old, off, data) ==
  CHOOSE k \in 0 .. Len(data) :
    /\ \A i \in 1 .. k : Programmable(old, off + i - 1, data[i])
    /\ k < Len(data) => ~Programmable(old, off + k, data[k + 1])

(* The write stops at the first cell that is not read back as written.     *)
AfterWrite(old, off, data, k) ==
  [o \in Cell |->
     CASE o \in off .. off + k - 1 -> data[o - off + 1]
       [] o = off + k /\ k < Len(data) /\ old[o] # data[k + 1] -> Garbage
       [] OTHER -> old[o]]

(* The first word of what goes to offset 0 is marked as not ready, which   *)
(* spoils a word that is not the header's.                                 *)
IsHeader(data) == data # <<>> /\ data[1] = 0

Marked(off, data) ==
  IF off = 0 /\ data # <<>> /\ ~IsHeader(data)
  THEN [data EXCEPT ![1] = Garbage] ELSE data

(* check_dfu_update_image_length: what is not a header has any length.     *)
MustRefuse(off, data) == off + Len(data) > BankSize
MayRefuse(off, data) == MustRefuse(off, data) \/ (off = 0 /\ ~IsHeader(data))

Fault(happens) ==
  /\ happens => faults < MaxFaults
  /\ faults' = IF happens THEN faults + 1 ELSE faults

(* What sil_dfu_update may do: what it leaves in the bank, the sectors it  *)
(* erased, whether it succeeds, and whether the flash let it down.         *)
Outcome(kept, erased, ok, trouble) ==
  [kept |-> kept, erased |-> erased, ok |-> ok, trouble |-> trouble]

Refusals(off, data) ==
  IF MayRefuse(off, data) THEN {Outcome(bank, {}, FALSE, FALSE)} ELSE {}

Written(off, data, erased) ==
  LET blank == AfterErase(bank, erased)
      fits == Fits(blank, off, data)
      failing == {k \in 0 .. fits - 1 : blank[off + k] = Erased}
  IN {Outcome(AfterWrite(blank, off, data, k), erased, k = Len(data),
              k # fits \/ erased # SectorsFor(off, Len(data))) :
        k \in failing \cup {fits}}

Outcomes(off, data) ==
  Refusals(off, data) \cup
  IF MustRefuse(off, data) THEN {}
  ELSE UNION {Written(off, Marked(off, data), erased) :
                erased \in SUBSET SectorsFor(off, Len(data))}

(* sil_dfu_update with the result ok, and the sectors in again erased      *)
(* after it; failing says that one of those resisted.                      *)
Update(off, data, ok, again, failing) ==
  \E out \in Outcomes(off, data) :
    LET gone == out.erased \cup again IN
    /\ out.ok = ok
    /\ bank' = AfterErase(out.kept, again)
    /\ ready' = (ready /\ 0 \notin gone)
    /\ neighbour' = (neighbour /\ \A s \in gone : s < BankSize)
    /\ Fault(out.trouble \/ failing)

-----------------------------------------------------------------------------
(* The requests of the control point.                                      *)

KeepsBuffer ==                                                  \* mutant
  /\ curr_offset' = 0
  /\ UNCHANGED <<flash, image_length, buffer, resend, checked>>
TargetInfo ==
  /\ curr_offset' = 0
  /\ buffer' = <<>>
  /\ UNCHANGED <<flash, image_length, resend, checked>>

(* START_DFU, when the header is written: the buffer and the offset to     *)
(* resend from stay as they are.                                           *)
Start ==
  /\ Update(0, Piece(0, Header), TRUE, {}, FALSE)
  /\ image_length' = ImageLength
  /\ curr_offset' = Header
  /\ UNCHANGED <<buffer, resend, checked>>

Cleared ==
  /\ curr_offset' = 0 /\ image_length' = 0 /\ buffer' = <<>>
  /\ resend' = 0 /\ checked' = FALSE

\* When it is not, the device resets.
StartFails == Update(0, Piece(0, Header), FALSE, {}, FALSE) /\ Cleared

BufferCheckEn ==
  /\ checked' = TRUE
  /\ UNCHANGED <<flash, curr_offset, image_length, buffer, resend>>

(* dfu_server_buffer_check: every answer empties the buffer and names the  *)
(* offset to go on from.                                                   *)
AnswerFrom(offset) ==
  /\ buffer' = <<>>
  /\ curr_offset' = offset
  /\ UNCHANGED <<image_length, checked>>

Accepts(size, sum) ==
  /\ size <= BufferSize
  /\ Len(buffer) = size \/ curr_offset + Len(buffer) = image_length
  /\ sum = buffer

Refuse == AnswerFrom(curr_offset) /\ UNCHANGED <<flash, resend>>

\* Differences of offsets are unsigned: before the resend offset they wrap.
Ahead(offset, n) == offset < resend \/ offset - resend >= n

NextResend(next) == IF Ahead(next, Sector) THEN resend + Sector ELSE resend

WriteBuffer ==
  LET next == curr_offset + Len(buffer) IN
  /\ Update(curr_offset, buffer, TRUE, {}, FALSE)
  /\ resend' = NextResend(next)
  /\ AnswerFrom(next)

(* A buffer that is not read back: the sector at the resend offset is      *)
(* erased and perhaps the one after it, each up to three times, and the    *)
(* client goes back to that offset.                                        *)
ResumeHere(r) == curr_offset                                    \* mutant
ResumeAt(r) == r

BothSectors == {resend, resend + Sector}                        \* mutant
Doubtful ==
  {resend} \cup IF Ahead(curr_offset, Sector + 1) THEN {resend + Sector} ELSE {}

WriteFails ==
  /\ \E again \in {{}, {resend}, Doubtful} :
       Update(curr_offset, buffer, FALSE, again, again # Doubtful)
  /\ UNCHANGED resend
  /\ AnswerFrom(ResumeAt(resend))

BufferCheck(size, sum) ==
  IF Accepts(size, sum) THEN WriteBuffer \/ WriteFails ELSE Refuse

(* VALID_FW: dfu_check_checksum clears the mark of a header it accepts.    *)
EndReached == curr_offset = image_length                        \* mutant
SumMatches == Whole

ValidFw ==
  /\ ready' = (ready \/ SumMatches)
  /\ UNCHANGED <<bank, neighbour, faults, ram>>

-----------------------------------------------------------------------------
(* dfu_server_handle_data                                                  *)

Lesser(a, b) == IF a < b THEN a ELSE b

Beyond(data) == curr_offset + Len(buffer) + Len(data) > image_length

Ignore == UNCHANGED server

Collect(data) ==
  /\ buffer' = buffer \o data
  /\ UNCHANGED <<flash, curr_offset, image_length, resend, checked>>

(* Without the buffer check a full buffer is written at once.              *)
Full(data) ==
  LET used == Len(buffer) + Len(data)
      left == image_length - curr_offset - used
  IN \/ left = 0 \/ used = BufferSize
     \/ used + Lesser(left, Len(data)) > BufferSize

WriteData(data) ==
  /\ Update(curr_offset, buffer \o data, TRUE, {}, FALSE)
  /\ curr_offset' = curr_offset + Len(buffer) + Len(data)
  /\ buffer' = <<>>
  /\ UNCHANGED <<image_length, resend, checked>>

DataFails(data) ==
  Update(curr_offset, buffer \o data, FALSE, {}, FALSE) /\ Cleared

=============================================================================
