--------------------------- MODULE ReportingProofs ---------------------------
(***************************************************************************)
(* Proofs about TxBuffer, its types and that a report replaces the older   *)
(* report of its attribute as long as no other packet spells an attribute, *)
(* and about Reporting above it: that it implements TxBuffer, and that the *)
(* gateway of a quiet device knows the state of its switches.              *)
(***************************************************************************)
EXTENDS Reporting, WellFoundedInduction, TLAPS

-----------------------------------------------------------------------------
(* The loops that look for a slot find the one with the lowest index.      *)
LEMMA LowestIsMember ==
  ASSUME NEW S \in SUBSET Index, S # {}
  PROVE  Lowest(S) \in S /\ \A j \in S : Lowest(S) <= j
<1> DEFINE R == OpToRel(<, Nat)
<1>1. S \subseteq Nat
  BY BufferAssumption DEF Index
<1>2. \A x, y \in Nat : ~ (<<y, x>> \in R) => x <= y
  BY DEF OpToRel
<1>3. IsWellFoundedOn(R, Nat)
  BY NatLessThanWellFounded
<1> HIDE DEF R
<1>4. \E x \in S : \A y \in S : ~ (<<y, x>> \in R)
  BY <1>1, <1>3, WFMin
<1>5. PICK x \in S : \A y \in S : x <= y
  BY <1>4, <1>1, <1>2
<1> QED BY <1>5 DEF Lowest

(* The longest and the shortest ack timeout are among them.                *)
LEMMA LongestType ==
  Longest \in AckPeriods /\ \A n \in AckPeriods : n <= Longest
BY BufferAssumption DEF Longest

LEMMA MaxAgeType ==
  /\ MaxAge \in Nat /\ MaxAge - 1 \in AckPeriods /\ MaxAge > 1
  /\ Longest \in Nat /\ Longest > 0 /\ MaxAge = Longest + 1
<1>1. Longest \in Nat /\ Longest > 0
  BY LongestType, BufferAssumption
<1> QED BY <1>1, LongestType DEF MaxAge

LEMMA ShortestLeast == \A n \in AckPeriods : Shortest <= n /\ Shortest \in Nat
<1> DEFINE R == OpToRel(<, Nat)
<1>1. AckPeriods \subseteq Nat /\ AckPeriods # {}
  BY BufferAssumption
<1>2. \A x, y \in Nat : ~ (<<y, x>> \in R) => x <= y
  BY DEF OpToRel
<1>3. IsWellFoundedOn(R, Nat)
  BY NatLessThanWellFounded
<1> HIDE DEF R
<1>4. \E x \in AckPeriods : \A y \in AckPeriods : ~ (<<y, x>> \in R)
  BY <1>1, <1>3, WFMin
<1>5. PICK x \in AckPeriods : \A y \in AckPeriods : x <= y
  BY <1>4, <1>1, <1>2
<1> QED BY <1>1, <1>5 DEF Shortest

LEMMA FullType == Full \in SUBSET Index
BY DEF Full

(* Every packet finds a slot of the buffer, or none at all.                *)
LEMMA PlacesType ==
  ASSUME NEW p
  PROVE  PlacesFor(p) \in SUBSET Index
BY DEF PlacesFor, SlotsOf, Full

-----------------------------------------------------------------------------
(* Types.                                                                  *)

LEMMA MakeKeepsType ==
  ASSUME BufTypeOK, NEW p \in Packets, NEW needack \in BOOLEAN,
         MakePacket(p, needack)
  PROVE  BufTypeOK'
<1>1. CASE PlacesFor(p) = {}
  BY <1>1 DEF MakePacket, BufTypeOK
<1>2. CASE PlacesFor(p) # {}
  <2> DEFINE i == Lowest(PlacesFor(p))
  <2>1. i \in Index
    BY <1>2, PlacesType, LowestIsMember
  <2>2. TriesFor(needack) \in 1 .. Tries
    BY BufferAssumption DEF TriesFor
  <2>3. [full |-> TRUE, txcnt |-> TriesFor(needack), age |-> 0, pkt |-> p]
          \in Slot
    BY <2>2, MaxAgeType DEF Slot
  <2>4. /\ slots' = [slots EXCEPT ![i] = [full |-> TRUE,
                       txcnt |-> TriesFor(needack), age |-> 0, pkt |-> p]]
        /\ sends' = [sends EXCEPT ![i] =
                       [NoSends EXCEPT !.needack = needack]]
    BY <1>2 DEF MakePacket, Load
  <2>5. [NoSends EXCEPT !.needack = needack] \in Sends
    BY MaxAgeType, BufferAssumption DEF NoSends, Sends
  <2> HIDE DEF i
  <2> QED BY <2>1, <2>3, <2>4, <2>5 DEF MakePacket, BufTypeOK
<1> QED BY <1>1, <1>2

LEMMA OlderType ==
  ASSUME NEW s \in Slot
  PROVE  /\ Older(s) \in Slot
         /\ Older(s).full = s.full /\ Older(s).txcnt = s.txcnt
         /\ s.full => Older(s).pkt = s.pkt
<1> DEFINE Used == [full : {TRUE}, txcnt : 1 .. Tries, age : 0 .. MaxAge,
                    pkt : Packets]
<1>1. CASE s = Free
  BY <1>1 DEF Older, Slot, Free
<1>2. CASE s \in Used
  <2>1. CASE s.age \in 1 .. MaxAge - 1
    <3>1. Older(s) = [s EXCEPT !.age = @ + 1] /\ s.full
      BY <1>2, <2>1 DEF Older
    <3>2. s.age + 1 \in 0 .. MaxAge
      BY <2>1, MaxAgeType
    <3>3. Older(s) \in Used
      BY <1>2, <3>1, <3>2
    <3> QED BY <1>2, <3>1, <3>3 DEF Slot
  <2>2. CASE s.age \notin 1 .. MaxAge - 1
    BY <2>2, <1>2 DEF Older, Slot
  <2> QED BY <2>1, <2>2
<1> QED BY <1>1, <1>2 DEF Slot

LEMMA AfterSendType ==
  ASSUME NEW s \in Slot, s.full
  PROVE  /\ AfterSend(s) \in Slot
         /\ AfterSend(s).full => AfterSend(s).pkt = s.pkt
<1> DEFINE Used == [full : {TRUE}, txcnt : 1 .. Tries, age : 0 .. MaxAge,
                    pkt : Packets]
<1>1. s \in Used
  <2>1. s # Free
    BY DEF Free
  <2> QED BY <2>1 DEF Slot
<1>2. CASE s.txcnt = 1
  BY <1>2 DEF AfterSend, Slot, Free
<1>3. CASE s.txcnt # 1
  <2>1. AfterSend(s) = [s EXCEPT !.txcnt = @ - 1, !.age = 1]
    BY <1>3 DEF AfterSend
  <2>2. s.txcnt - 1 \in 1 .. Tries /\ 1 \in 0 .. MaxAge
    BY <1>1, <1>3, MaxAgeType, BufferAssumption
  <2>3. AfterSend(s) \in Used
    BY <1>1, <2>1, <2>2
  <2> QED BY <1>1, <2>1, <2>3 DEF Slot
<1> QED BY <1>2, <1>3

LEMMA AgedType ==
  ASSUME BufTypeOK
  PROVE  /\ Aged \in [Index -> Slot]
         /\ \A i \in Index : Aged[i].full = slots[i].full
         /\ \A i \in Full : Aged[i].pkt = slots[i].pkt
BY OlderType DEF Aged, BufTypeOK, Full

LEMMA LaterType ==
  ASSUME BufTypeOK, NEW j \in Index
  PROVE  /\ Later(j) \in Sends
         /\ [sends[j] EXCEPT !.sent = OneMore(@), !.since = 0] \in Sends
<1>1. sends[j] \in Sends /\ Longest \in Nat
  BY MaxAgeType DEF BufTypeOK
<1>2. [sends[j] EXCEPT !.sent = OneMore(@), !.since = 0] \in Sends
  <2>1. [sends[j] EXCEPT !.sent = OneMore(@)] \in Sends
    BY <1>1, BufferAssumption DEF Sends, OneMore
  <2>2. \A h \in Sends : [h EXCEPT !.since = 0] \in Sends
    BY <1>1 DEF Sends
  <2> QED BY <2>1, <2>2
<1>3. NoSends \in Sends
  BY <1>1, BufferAssumption DEF NoSends, Sends
<1>4. [sends[j] EXCEPT !.since = IF @ < Longest THEN @ + 1 ELSE @] \in Sends
  BY <1>1 DEF Sends
<1> QED BY <1>2, <1>3, <1>4 DEF Later

(* A send ages the slots and takes a try from one full slot at most.       *)
LEMMA SendEffect ==
  ASSUME BufTypeOK, SendPacket
  PROVE  /\ BufTypeOK'
         /\ \A i \in Index : slots'[i].full =>
              slots[i].full /\ slots'[i].pkt = slots[i].pkt
<1>1. CASE Sendable = {}
  BY <1>1, AgedType, LaterType DEF SendPacket, SendNothing, BufTypeOK, Full
<1>2. CASE Sendable # {}
  <2> DEFINE i == Lowest(Sendable)
  <2>1. i \in Index /\ MaySend(Aged[i])
    BY <1>2, LowestIsMember DEF Sendable
  <2>2. Aged[i] \in Slot /\ Aged[i].full
    BY <2>1, AgedType DEF MaySend, TimedOut
  <2>3. SendFrom(i)
    BY <1>2 DEF SendPacket
  <2>4. maxacktimout' \in AckPeriods
    BY <2>3 DEF SendFrom, BufTypeOK
  <2> HIDE DEF i
  <2>5. sends' \in [Index -> Sends]
    BY <2>1, <2>3, LaterType DEF SendFrom
  <2> QED BY <2>1, <2>2, <2>3, <2>4, <2>5, AgedType, AfterSendType
          DEF SendFrom, BufTypeOK, Full
<1> QED BY <1>1, <1>2

(* An answer frees one slot at most.                                       *)
LEMMA AckEffect ==
  ASSUME BufTypeOK, NEW a, NEW v, AckPacket(a, v)
  PROVE  /\ BufTypeOK'
         /\ \A i \in Index : slots'[i].full => slots'[i] = slots[i]
<1>1. CASE UNCHANGED <<slots, sends>>
  BY <1>1 DEF AckPacket, BufTypeOK
<1>2. CASE ~ UNCHANGED <<slots, sends>>
  <2> DEFINE i == Lowest(SlotsOf(a))
  <2>1. /\ SlotsOf(a) # {} /\ slots' = [slots EXCEPT ![i] = Free]
        /\ sends' = [sends EXCEPT ![i] = NoSends]
    BY <1>2 DEF AckPacket
  <2>2. i \in Index
    BY <2>1, LowestIsMember DEF SlotsOf, Full
  <2>3. NoSends \in Sends
    BY MaxAgeType, BufferAssumption DEF NoSends, Sends
  <2> HIDE DEF i
  <2> QED BY <2>1, <2>2, <2>3 DEF AckPacket, BufTypeOK, Slot, Free
<1> QED BY <1>1, <1>2

LEMMA BufTypeKept == ASSUME BufTypeOK, [BufNext]_bufVars PROVE BufTypeOK'
<1>1. CASE MakeAny
  BY <1>1, MakeKeepsType DEF MakeAny
<1>2. CASE SendPacket
  BY <1>2, SendEffect
<1>3. CASE \E a \in Attrs, v \in Values : AckPacket(a, v)
  BY <1>3, AckEffect
<1>4. CASE UNCHANGED bufVars
  BY <1>4 DEF bufVars, BufTypeOK
<1> QED BY <1>1, <1>2, <1>3, <1>4 DEF BufNext

LEMMA BufInitType == BufInit => BufTypeOK
BY MaxAgeType, LongestType, BufferAssumption
DEF BufInit, BufTypeOK, Slot, NoSends, Sends

(* Every slot is free or holds a packet with tries left, for every depth,  *)
(* number of tries and set of ack timeouts.                                *)
THEOREM BufTypeCorrect == BufSpec => []BufTypeOK
BY BufInitType, BufTypeKept, PTL DEF BufSpec

-----------------------------------------------------------------------------
(* When and how often a packet is sent.                                    *)

LEMMA SlotIs ==
  ASSUME NEW s \in Slot
  PROVE  s.age \in 0 .. MaxAge /\ s.txcnt \in Nat
<1>1. CASE s = Free
  BY <1>1, MaxAgeType DEF Free
<1>2. CASE s # Free
  <2>1. s \in [full : {TRUE}, txcnt : 1 .. Tries, age : 0 .. MaxAge,
               pkt : Packets]
    BY <1>2 DEF Slot
  <2> QED BY <2>1, BufferAssumption
<1> QED BY <1>1, <1>2

LEMMA UsedSlot ==
  ASSUME NEW s \in Slot, s.full
  PROVE  s \in [full : {TRUE}, txcnt : 1 .. Tries, age : 0 .. MaxAge,
                pkt : Packets]
<1>1. s # Free
  BY DEF Free
<1> QED BY <1>1 DEF Slot

LEMMA OlderIs ==
  ASSUME NEW s \in Slot, s.full
  PROVE  Older(s).age = IF s.age \in 1 .. MaxAge - 1 THEN s.age + 1 ELSE s.age
<1>1. s \in [full : {TRUE}, txcnt : 1 .. Tries, age : 0 .. MaxAge,
             pkt : Packets]
  BY UsedSlot
<1> QED BY <1>1 DEF Older

(* What the slot says about the sends of its packet.                       *)
Counted(i) ==
  slots[i].full =>
    /\ slots[i].txcnt + sends[i].sent = Asked(i)
    /\ slots[i].age = IF sends[i].sent = 0 THEN 0 ELSE sends[i].since + 1

Counts == \A i \in Index : Counted(i)

(* The numbers that the two lemmas below compute with.                     *)
LEMMA SlotNumbers ==
  ASSUME BufTypeOK, NEW j \in Index, slots[j].full, Counted(j)
  PROVE  /\ slots[j].txcnt \in 1 .. Tries /\ slots[j].age \in 0 .. MaxAge
         /\ sends[j].sent \in Nat /\ sends[j].since \in 0 .. Longest
         /\ Asked(j) \in Nat
         /\ slots[j].txcnt + sends[j].sent = Asked(j)
         /\ sends[j].sent = 0 => slots[j].age = 0
         /\ sends[j].sent # 0 => slots[j].age = sends[j].since + 1
         /\ Aged[j].full /\ Aged[j].txcnt = slots[j].txcnt
         /\ Aged[j].age = IF slots[j].age \in 1 .. Longest
                          THEN slots[j].age + 1 ELSE slots[j].age
         /\ Aged[j] \in Slot
<1>1. slots[j] \in Slot /\ sends[j] \in Sends /\ Aged[j] = Older(slots[j])
  BY DEF BufTypeOK, Aged
<1>2. slots[j].txcnt \in 1 .. Tries /\ slots[j].age \in 0 .. MaxAge
  BY <1>1, UsedSlot
<1>3. sends[j].sent \in Nat /\ sends[j].since \in 0 .. Longest
  BY <1>1 DEF Sends
<1>4. Asked(j) \in Nat
  BY BufferAssumption DEF Asked
<1>5. /\ slots[j].txcnt + sends[j].sent = Asked(j)
      /\ sends[j].sent = 0 => slots[j].age = 0
      /\ sends[j].sent # 0 => slots[j].age = sends[j].since + 1
  BY DEF Counted
<1>6. Aged[j] \in Slot /\ Aged[j].full /\ Aged[j].txcnt = slots[j].txcnt
  BY <1>1, OlderType
<1>7. Aged[j].age = IF slots[j].age \in 1 .. MaxAge - 1
                    THEN slots[j].age + 1 ELSE slots[j].age
  BY <1>1, OlderIs
<1>8. MaxAge - 1 = Longest
  BY MaxAgeType
<1> QED BY <1>2, <1>3, <1>4, <1>5, <1>6, <1>7, <1>8

(* A period passes over a slot.                                            *)
LEMMA LaterCounts ==
  ASSUME BufTypeOK, NEW j \in Index, Counted(j),
         slots'[j] = Aged[j], sends'[j] = Later(j)
  PROVE  Counted(j)'
<1>1. CASE ~slots[j].full
  BY <1>1, AgedType DEF Counted
<1>2. CASE slots[j].full
  <2>1. /\ sends'[j].sent = sends[j].sent
        /\ sends'[j].needack = sends[j].needack
        /\ sends'[j].since = IF sends[j].since < Longest
                             THEN sends[j].since + 1 ELSE sends[j].since
    BY <1>2 DEF Later, BufTypeOK, Sends
  <2>2. Asked(j)' = Asked(j)
    BY <2>1 DEF Asked
  <2>3. slots'[j].txcnt + sends'[j].sent = Asked(j)'
    BY <1>2, <2>1, <2>2, SlotNumbers
  <2>4. slots'[j].age = IF sends'[j].sent = 0 THEN 0 ELSE sends'[j].since + 1
    <3>1. Longest \in Nat
      BY MaxAgeType
    <3>2. CASE sends[j].sent = 0
      BY <1>2, <2>1, <3>2, SlotNumbers
    <3>3. CASE sends[j].sent # 0
      BY <1>2, <2>1, <3>1, <3>3, SlotNumbers
    <3> QED BY <3>2, <3>3
  <2> QED BY <2>3, <2>4 DEF Counted
<1> QED BY <1>1, <1>2

(* The send that takes a packet from a slot, or its last try.              *)
LEMMA SentCounts ==
  ASSUME BufTypeOK, NEW i \in Index, Counted(i), slots[i].full,
         slots'[i] = AfterSend(Aged[i]),
         sends'[i] = [sends[i] EXCEPT !.sent = OneMore(@), !.since = 0]
  PROVE  /\ Counted(i)'
         /\ Publishes(i) /\ sends[i].sent < Asked(i)
         /\ ~slots'[i].full => sends'[i].sent = Asked(i)
<1>0. sends[i].sent < Tries
  BY SlotNumbers, BufferAssumption DEF Asked
<1>1. /\ sends'[i].sent = sends[i].sent + 1 /\ sends'[i].since = 0
      /\ sends'[i].needack = sends[i].needack
  BY <1>0, BufferAssumption DEF BufTypeOK, Sends, OneMore
<1>2. Asked(i)' = Asked(i)
  BY <1>1 DEF Asked
<1>3. Publishes(i) /\ sends[i].sent < Asked(i)
  BY <1>1, SlotNumbers DEF Publishes
<1>4. CASE Aged[i].txcnt = 1
  <2>1. ~slots'[i].full
    BY <1>4 DEF AfterSend, Free
  <2>2. sends'[i].sent = Asked(i)
    BY <1>1, <1>4, SlotNumbers
  <2> QED BY <1>3, <2>1, <2>2 DEF Counted
<1>5. CASE Aged[i].txcnt # 1
  <2>1. slots'[i] = [Aged[i] EXCEPT !.txcnt = @ - 1, !.age = 1]
    BY <1>5 DEF AfterSend
  <2>2. Aged[i] \in [full : {TRUE}, txcnt : 1 .. Tries, age : 0 .. MaxAge,
                     pkt : Packets]
    BY SlotNumbers, UsedSlot
  <2>3. /\ slots'[i].txcnt = Aged[i].txcnt - 1 /\ slots'[i].age = 1
        /\ slots'[i].full
    BY <2>1, <2>2
  <2>4. Counted(i)'
    BY <1>1, <1>2, <2>3, SlotNumbers DEF Counted
  <2> QED BY <1>3, <2>3, <2>4
<1> QED BY <1>4, <1>5

(* A slot that is sent from was never sent from or has waited long enough. *)
LEMMA SendableWaited ==
  ASSUME BufTypeOK, NEW i \in Index, Counted(i), MaySend(Aged[i])
  PROVE  /\ slots[i].full
         /\ sends[i].sent = 0 \/ sends[i].since + 1 >= Shortest
<1>1. slots[i].full /\ (Aged[i].age = 0 \/ Aged[i].age > maxacktimout)
  BY AgedType DEF MaySend, TimedOut
<1>2. /\ maxacktimout \in Nat /\ Shortest \in Nat
      /\ maxacktimout >= Shortest /\ Longest >= maxacktimout
  BY ShortestLeast, LongestType, BufferAssumption DEF BufTypeOK
<1>3. Longest \in Nat
  BY MaxAgeType
<1>4. ASSUME sends[i].sent # 0 PROVE sends[i].since + 1 >= Shortest
  BY <1>1, <1>2, <1>3, <1>4, SlotNumbers
<1> QED BY <1>1, <1>4

(* A packet that is due may be sent.                                       *)
LEMMA DueIsSendable ==
  ASSUME BufTypeOK, NEW i \in Full, Counted(i), Due(i)
  PROVE  i \in Sendable
<1>0. i \in Index /\ slots[i].full
  BY DEF Full
<1>1. maxacktimout \in Nat /\ maxacktimout <= Longest /\ Longest \in Nat
  BY LongestType, MaxAgeType, BufferAssumption DEF BufTypeOK
<1>2. CASE sends[i].sent = 0
  <2>1. Aged[i].age = 0 /\ Aged[i].full
    BY <1>0, <1>1, <1>2, SlotNumbers
  <2> QED BY <1>0, <2>1 DEF Sendable, MaySend
<1>3. CASE sends[i].sent # 0
  <2>1. sends[i].since + 1 >= Longest
    BY <1>3 DEF Due
  <2>2. Aged[i].age > maxacktimout /\ Aged[i].full
    BY <1>0, <1>1, <1>3, <2>1, SlotNumbers
  <2> QED BY <1>0, <2>2 DEF Sendable, MaySend, TimedOut
<1> QED BY <1>2, <1>3

(* One send period.                                                        *)
LEMMA SendCounts ==
  ASSUME BufTypeOK, Counts, SendPacket
  PROVE  /\ Counts'
         /\ \A i \in Index : Publishes(i) =>
              /\ sends[i].sent < Asked(i)
              /\ sends[i].sent = 0 \/ sends[i].since + 1 >= Shortest
         /\ \A i \in Full :
              /\ slots'[i].full \/ sends'[i].sent = Asked(i)
              /\ Due(i) => \E j \in 0 .. i : Publishes(j)
<1>1. \A j \in Index : Counted(j)
  BY DEF Counts
<1>2. \A j \in Index : sends'[j] = Later(j) => ~Publishes(j)
  BY DEF Later, Publishes, NoSends, BufTypeOK, Sends
<1>3. CASE Sendable = {}
  <2>1. slots' = Aged /\ \A j \in Index : sends'[j] = Later(j)
    BY <1>3 DEF SendPacket, SendNothing
  <2>2. Counts'
    BY <1>1, <2>1, LaterCounts DEF Counts
  <2>3. \A i \in Full : slots'[i].full /\ ~Due(i)
    BY <1>1, <1>3, <2>1, AgedType, DueIsSendable DEF Full
  <2> QED BY <1>2, <2>1, <2>2, <2>3
<1>4. CASE Sendable # {}
  <2>1. PICK k \in Index : /\ MaySend(Aged[k]) /\ SendFrom(k)
                           /\ \A j \in Sendable : k <= j
    BY <1>4, LowestIsMember DEF Sendable, SendPacket
  <2>2. /\ slots'[k] = AfterSend(Aged[k])
        /\ sends'[k] = [sends[k] EXCEPT !.sent = OneMore(@), !.since = 0]
        /\ \A j \in Index \ {k} : slots'[j] = Aged[j] /\ sends'[j] = Later(j)
    BY <2>1, AgedType DEF SendFrom
  <2>3. /\ slots[k].full
        /\ sends[k].sent = 0 \/ sends[k].since + 1 >= Shortest
    BY <1>1, <2>1, SendableWaited
  <2>4. /\ Counted(k)' /\ Publishes(k) /\ sends[k].sent < Asked(k)
        /\ ~slots'[k].full => sends'[k].sent = Asked(k)
    BY <1>1, <2>1, <2>2, <2>3, SentCounts
  <2>5. \A j \in Index \ {k} : Counted(j)' /\ ~Publishes(j)
    BY <1>1, <1>2, <2>2, LaterCounts
  <2>6. Counts'
    BY <2>4, <2>5 DEF Counts
  <2>7. \A i \in Full : slots'[i].full \/ sends'[i].sent = Asked(i)
    BY <2>2, <2>4, AgedType DEF Full
  <2>8. ASSUME NEW i \in Full, Due(i) PROVE \E j \in 0 .. i : Publishes(j)
    <3>1. k <= i
      BY <1>1, <2>1, <2>8, DueIsSendable DEF Full
    <3>2. k \in 0 .. i
      BY <2>1, <3>1, BufferAssumption DEF Index, Full
    <3> QED BY <2>4, <3>2
  <2> QED BY <2>3, <2>4, <2>5, <2>6, <2>7, <2>8
<1> QED BY <1>3, <1>4

(* A new packet and an answer send nothing.                                *)
LEMMA MakeCounts ==
  ASSUME BufTypeOK, Counts, NEW p \in Packets, NEW needack \in BOOLEAN,
         MakePacket(p, needack)
  PROVE  Counts' /\ \A i \in Index : ~Publishes(i)
<1>1. CASE PlacesFor(p) = {}
  BY <1>1 DEF MakePacket, Counts, Counted, Asked, Publishes, BufTypeOK, Sends
<1>2. CASE PlacesFor(p) # {}
  <2>1. PICK k \in Index : Load(k, p, needack)
    BY <1>2, PlacesType, LowestIsMember DEF MakePacket
  <2>2. /\ slots'[k].txcnt = TriesFor(needack) /\ slots'[k].age = 0
        /\ sends'[k].needack = needack /\ sends'[k].sent = 0
        /\ \A j \in Index \ {k} : slots'[j] = slots[j] /\ sends'[j] = sends[j]
    BY <2>1 DEF Load, BufTypeOK, NoSends
  <2>3. Counted(k)'
    BY <2>1, <2>2, BufferAssumption DEF Counted, Asked, TriesFor
  <2>4. \A j \in Index \ {k} : Counted(j)'
    BY <2>2 DEF Counts, Counted, Asked
  <2>5. \A i \in Index : ~Publishes(i)
    BY <2>2 DEF Publishes, BufTypeOK, Sends
  <2> QED BY <2>3, <2>4, <2>5 DEF Counts
<1> QED BY <1>1, <1>2

LEMMA AckCounts ==
  ASSUME BufTypeOK, Counts, NEW a, NEW v, AckPacket(a, v)
  PROVE  Counts' /\ \A i \in Index : ~Publishes(i)
<1>1. CASE UNCHANGED <<slots, sends>>
  BY <1>1 DEF Counts, Counted, Asked, Publishes, BufTypeOK, Sends
<1>2. CASE ~ UNCHANGED <<slots, sends>>
  <2>1. PICK k \in Index : /\ slots' = [slots EXCEPT ![k] = Free]
                           /\ sends' = [sends EXCEPT ![k] = NoSends]
    <3>1. SlotsOf(a) # {} /\ SlotsOf(a) \in SUBSET Index
      BY <1>2 DEF AckPacket, SlotsOf, Full
    <3> QED BY <1>2, <3>1, LowestIsMember DEF AckPacket
  <2>2. /\ ~slots'[k].full /\ sends'[k].sent = 0
        /\ \A j \in Index \ {k} : slots'[j] = slots[j] /\ sends'[j] = sends[j]
    BY <2>1 DEF BufTypeOK, Free, NoSends
  <2>3. Counts'
    BY <2>2 DEF Counts, Counted, Asked
  <2>4. \A i \in Index : ~Publishes(i)
    BY <2>2 DEF Publishes, BufTypeOK, Sends
  <2> QED BY <2>3, <2>4
<1> QED BY <1>1, <1>2

(* Whatever is made and answered, and however the shared deadline moves,   *)
(* no packet is sent again sooner than the shortest ack timeout, none is   *)
(* sent more or less often than asked for unless it is acknowledged, and   *)
(* none that is due is passed over but for a lower slot: for every depth,  *)
(* number of tries and set of timeouts.                                    *)
THEOREM PacedSendsAlways == BufSpec => PacedSends
<1> DEFINE Paced ==
      /\ \A i \in Index : Publishes(i) =>
           /\ sends[i].sent < Asked(i)
           /\ sends[i].sent = 0 \/ sends[i].since + 1 >= Shortest
      /\ SendPacket => \A i \in Full :
           /\ slots'[i].full \/ sends'[i].sent = Asked(i)
           /\ Due(i) => \E j \in 0 .. i : Publishes(j)
<1>1. BufInit => Counts
  BY DEF BufInit, Counts, Counted, Free
<1>2. BufTypeOK /\ Counts /\ [BufNext]_bufVars => Counts' /\ [Paced]_bufVars
  <2> SUFFICES ASSUME BufTypeOK, Counts, [BufNext]_bufVars
               PROVE  Counts' /\ [Paced]_bufVars
    OBVIOUS
  <2>1. CASE SendPacket
    BY <2>1, SendCounts
  <2>2. CASE MakeAny /\ ~SendPacket
    BY <2>2, MakeCounts DEF MakeAny
  <2>3. CASE (\E a \in Attrs, v \in Values : AckPacket(a, v)) /\ ~SendPacket
    BY <2>3, AckCounts
  <2>4. CASE UNCHANGED bufVars
    BY <2>4 DEF bufVars, Counts, Counted, Asked
  <2> QED BY <2>1, <2>2, <2>3, <2>4 DEF BufNext
<1>3. [][Paced]_bufVars => PacedSends
  BY PTL DEF PacedSends
<1> QED BY <1>1, <1>2, <1>3, BufTypeCorrect, PTL DEF BufSpec

-----------------------------------------------------------------------------
(* One report per attribute.                                               *)

(* A report goes where the older one is, everything else where none is.    *)
LEMMA MakeKeepsOne ==
  ASSUME BufTypeOK, OneReportPerAttr, InfoAttrs \subseteq {NoAttr},
         NEW p \in Packets, NEW needack \in BOOLEAN, MakePacket(p, needack)
  PROVE  OneReportPerAttr'
<1>1. CASE PlacesFor(p) = {}
  BY <1>1 DEF MakePacket, OneReportPerAttr, Full
<1>2. CASE PlacesFor(p) # {}
  <2> DEFINE k == Lowest(PlacesFor(p))
  <2>1. k \in PlacesFor(p) /\ k \in Index
    BY <1>2, PlacesType, LowestIsMember
  <2>2. /\ slots'[k].full /\ slots'[k].pkt = p
        /\ \A i \in Index \ {k} : slots'[i] = slots[i]
    BY <1>2, <2>1 DEF MakePacket, Load, BufTypeOK
  <2> HIDE DEF k
  <2>3. \A i \in Full \ {k} :
          ~ (/\ p.kind = "property" /\ slots[i].pkt.kind = "property"
             /\ slots[i].pkt.attr = p.attr)
    <3> SUFFICES ASSUME NEW i \in Full \ {k}, p.kind = "property",
                        slots[i].pkt.kind = "property",
                        slots[i].pkt.attr = p.attr
                 PROVE  FALSE
      OBVIOUS
    <3>1. i \in SlotsOf(p.attr)
      BY DEF SlotsOf
    <3>2. k \in SlotsOf(p.attr) /\ k \in Full
      BY <2>1, <3>1 DEF PlacesFor, SlotsOf
    <3>3. p.attr \in Attrs
      BY DEF Packets, Properties, Infos
    <3>4. slots[k].pkt.kind = "property" /\ slots[k].pkt.attr = p.attr
      <4>1. slots[k].pkt \in Packets /\ slots[k].pkt.attr = p.attr
        <5>1. slots[k].full /\ slots[k] \in Slot /\ slots[k].pkt.attr = p.attr
          BY <3>2 DEF Full, BufTypeOK, SlotsOf
        <5>2. slots[k] # Free
          BY <5>1 DEF Free
        <5> QED BY <5>1, <5>2 DEF Slot
      <4> QED BY <4>1, <3>3, BufferAssumption DEF Packets, Properties, Infos
    <3> QED BY <3>2, <3>4 DEF OneReportPerAttr
  <2> QED BY <2>1, <2>2, <2>3 DEF OneReportPerAttr, Full
<1> QED BY <1>1, <1>2

(* While no other packet spells an attribute, at most one report of each   *)
(* attribute waits, whatever the order of reports, sends and answers       *)
(* (app_skyiot_server.c:607).                                              *)
THEOREM OneReportAlways ==
  ASSUME InfoAttrs \subseteq {NoAttr}
  PROVE  BufSpec => []OneReportPerAttr
<1>1. BufInit => OneReportPerAttr
  BY DEF BufInit, OneReportPerAttr, Full, Free
<1>2. BufTypeOK /\ OneReportPerAttr /\ [BufNext]_bufVars => OneReportPerAttr'
  <2> SUFFICES ASSUME BufTypeOK, OneReportPerAttr, [BufNext]_bufVars
               PROVE  OneReportPerAttr'
    OBVIOUS
  <2>1. CASE MakeAny
    BY <2>1, MakeKeepsOne DEF MakeAny
  <2>2. CASE SendPacket
    BY <2>2, SendEffect DEF OneReportPerAttr, Full
  <2>3. CASE \E a \in Attrs, v \in Values : AckPacket(a, v)
    BY <2>3, AckEffect DEF OneReportPerAttr, Full
  <2>4. CASE UNCHANGED bufVars
    BY <2>4 DEF bufVars, OneReportPerAttr, Full
  <2> QED BY <2>1, <2>2, <2>3, <2>4 DEF BufNext
<1> QED BY <1>1, <1>2, BufTypeCorrect, PTL DEF BufSpec
-----------------------------------------------------------------------------
(* What the reports in the buffer are worth to the gateway.                *)

ReportsOf(a) ==
  {i \in Full : slots[i].pkt.kind = "property" /\ slots[i].pkt.attr = a}

(* Something will still make the gateway hear of a, or was given up, or    *)
(* what is on its way is the value it has or will have.                    *)
Tracked(a) ==
  \/ alive_status = 0
  \/ a \in report_flag
  \/ delayreport
  \/ prov_suc_report
  \/ missed[a]
  \/ /\ \A i \in ReportsOf(a) : slots[i].pkt.val = status[a]
     /\ ReportsOf(a) # {} \/ view[a] = status[a]

IInv ==
  /\ TypeOK
  /\ OneReportPerAttr
  /\ \A a \in Attrs : Tracked(a)

(* A step that leaves the reports of a attribute as they are.              *)
SameReports(a) ==
  /\ ReportsOf(a)' = ReportsOf(a)
  /\ \A i \in ReportsOf(a) : slots'[i].pkt = slots[i].pkt

LEMMA FullSlot ==
  ASSUME BufTypeOK, NEW i \in Full
  PROVE  /\ slots[i].pkt \in Packets
         /\ slots[i].pkt.kind \in {"property", "info"}
         /\ slots[i].pkt.kind = "property" =>
              slots[i].pkt.attr \in Attrs /\ slots[i].pkt.val \in Values
         /\ slots[i].pkt.kind = "info" => slots[i].pkt.attr \in InfoAttrs
<1>1. slots[i] \in Slot /\ slots[i] # Free
  BY DEF Full, BufTypeOK, Free
<1>2. slots[i].pkt \in Packets
  BY <1>1 DEF Slot
<1> QED
  BY <1>2 DEF Packets, Properties, Infos

(* Without packets that spell an attribute the slots of an attribute are   *)
(* those of its reports.                                                   *)
LEMMA SlotsAreReports ==
  ASSUME BufTypeOK, InfoAttrs \subseteq {NoAttr}, NEW a \in Attrs
  PROVE  SlotsOf(a) = ReportsOf(a)
BY FullSlot, BufferAssumption DEF SlotsOf, ReportsOf

(* A new report of a replaces the older one or takes a free slot; when     *)
(* there is none, it is missed.                                            *)
LEMMA MakeReports ==
  ASSUME BufTypeOK, OneReportPerAttr, InfoAttrs \subseteq {NoAttr},
         NEW a \in Attrs, NEW v \in Values, NEW needack \in BOOLEAN,
         missed \in [Attrs -> BOOLEAN], Report(a, v, needack)
  PROVE  /\ BufTypeOK' /\ OneReportPerAttr'
         /\ missed' \in [Attrs -> BOOLEAN]
         /\ \A b \in Attrs \ {a} : SameReports(b) /\ missed'[b] = missed[b]
         /\ missed'[a] \/ /\ ReportsOf(a)' # {}
                          /\ \A i \in ReportsOf(a)' : slots'[i].pkt.val = v
<1> DEFINE p == Property(a, v)
<1>1. p \in Packets /\ p.kind = "property" /\ p.attr = a /\ p.val = v
  BY DEF Property, Packets, Properties
<1>2. MakePacket(p, needack)
  BY DEF Report
<1>3. BufTypeOK' /\ OneReportPerAttr'
  BY <1>1, <1>2, MakeKeepsType, MakeKeepsOne
<1>4. /\ missed' \in [Attrs -> BOOLEAN]
      /\ \A b \in Attrs \ {a} : missed'[b] = missed[b]
      /\ missed'[a] = (PlacesFor(p) = {})
  BY DEF Report
<1> HIDE DEF p
<1>5. CASE PlacesFor(p) = {}
  <2>1. slots' = slots
    BY <1>2, <1>5 DEF MakePacket
  <2> QED
    BY <1>3, <1>4, <1>5, <2>1 DEF SameReports, ReportsOf, Full
<1>6. CASE PlacesFor(p) # {}
  <2> DEFINE k == Lowest(PlacesFor(p))
  <2>1. k \in PlacesFor(p) /\ k \in Index
    BY <1>6, PlacesType, LowestIsMember
  <2>2. /\ slots'[k].full /\ slots'[k].pkt = p
        /\ \A i \in Index \ {k} : slots'[i] = slots[i]
    BY <1>2, <1>6, <2>1 DEF MakePacket, Load, BufTypeOK
  <2> HIDE DEF k
  <2>3. k \in ReportsOf(a)'
    BY <1>1, <2>1, <2>2 DEF ReportsOf, Full
  <2>4. \A i \in ReportsOf(a)' : i = k
    BY <1>3, <2>3 DEF OneReportPerAttr, ReportsOf
  <2>5. \A b \in Attrs \ {a} : k \notin ReportsOf(b)
    BY <1>1, <2>1 DEF PlacesFor, SlotsOf, ReportsOf
  <2>6. ASSUME NEW b \in Attrs \ {a} PROVE SameReports(b)
    BY <1>1, <2>1, <2>2, <2>5 DEF SameReports, ReportsOf, Full
  <2> QED
    BY <1>1, <1>3, <1>4, <2>2, <2>3, <2>4, <2>6
<1> QED
  BY <1>5, <1>6

LEMMA MakeInfoReports ==
  ASSUME BufTypeOK, OneReportPerAttr, InfoAttrs \subseteq {NoAttr},
         Values = {0, 1}, MakeInfo
  PROVE  /\ BufTypeOK' /\ OneReportPerAttr'
         /\ \A b \in Attrs : SameReports(b)
<1>1. PICK t \in InfoAttrs :
        MakePacket([kind |-> "info", attr |-> t, val |-> 0], FALSE)
  BY DEF MakeInfo
<1> DEFINE p == [kind |-> "info", attr |-> t, val |-> 0]
<1>2. p \in Packets /\ p.kind = "info"
  BY DEF Packets, Infos
<1>3. BufTypeOK' /\ OneReportPerAttr'
  BY <1>1, <1>2, MakeKeepsType, MakeKeepsOne
<1>4. CASE PlacesFor(p) = {}
  <2>1. slots' = slots
    BY <1>1, <1>4 DEF MakePacket
  <2> QED
    BY <1>3, <2>1 DEF SameReports, ReportsOf, Full
<1>5. CASE PlacesFor(p) # {}
  <2> DEFINE k == Lowest(PlacesFor(p))
  <2>1. k \in PlacesFor(p) /\ k \in Index
    BY <1>5, PlacesType, LowestIsMember
  <2>2. /\ slots'[k].full /\ slots'[k].pkt = p
        /\ \A i \in Index \ {k} : slots'[i] = slots[i]
    BY <1>1, <1>5, <2>1 DEF MakePacket, Load, BufTypeOK
  <2>3. k \notin Full
    BY <1>2, <2>1 DEF PlacesFor
  <2> HIDE DEF k, p
  <2> QED
    BY <1>2, <1>3, <2>1, <2>2, <2>3 DEF SameReports, ReportsOf, Full
<1> QED
  BY <1>4, <1>5

(* An answer frees the report it confirms, if it does anything.            *)
LEMMA AckReports ==
  ASSUME BufTypeOK, OneReportPerAttr, InfoAttrs \subseteq {NoAttr},
         NEW a \in Attrs, NEW v \in Values, AckPacket(a, v)
  PROVE  /\ BufTypeOK' /\ OneReportPerAttr'
         /\ \A b \in Attrs \ {a} : SameReports(b)
         /\ \/ slots' = slots
            \/ /\ ReportsOf(a)' = {}
               /\ \E i \in ReportsOf(a) : slots[i].pkt.val = v
<1>1. BufTypeOK' /\ OneReportPerAttr'
  BY AckEffect DEF OneReportPerAttr, Full
<1>2. CASE slots' = slots
  BY <1>1, <1>2 DEF SameReports, ReportsOf, Full
<1>3. CASE slots' # slots
  <2> DEFINE k == Lowest(SlotsOf(a))
  <2>1. /\ SlotsOf(a) # {} /\ slots[k].pkt.val = v
        /\ slots' = [slots EXCEPT ![k] = Free]
    BY <1>3 DEF AckPacket, Confirms
  <2>2. SlotsOf(a) \subseteq Index
    BY DEF SlotsOf, Full
  <2>3. k \in SlotsOf(a) /\ k \in Index
    BY <2>1, <2>2, LowestIsMember
  <2> HIDE DEF k
  <2>4. k \in ReportsOf(a)
    BY <2>3, SlotsAreReports
  <2>5. /\ ~slots'[k].full
        /\ \A i \in Index \ {k} : slots'[i] = slots[i]
    BY <2>1, <2>3 DEF BufTypeOK, Free
  <2>6. ReportsOf(a)' = {}
    BY <2>4, <2>5 DEF ReportsOf, Full, OneReportPerAttr
  <2>7. \A b \in Attrs \ {a} : SameReports(b)
    BY <2>4, <2>5 DEF ReportsOf, Full, SameReports
  <2> QED
    BY <1>1, <2>1, <2>4, <2>6, <2>7
<1> QED
  BY <1>2, <1>3

(* A send keeps the reports or ends the tries of the one it takes.         *)
LEMMA SendReports ==
  ASSUME BufTypeOK, OneReportPerAttr, SendPacket
  PROVE  /\ BufTypeOK' /\ OneReportPerAttr'
         /\ Sendable = {} => \A b \in Attrs : SameReports(b)
         /\ Sendable # {} =>
              LET i == Lowest(Sendable)
              IN  /\ i \in Full
                  /\ \A b \in Attrs :
                       i \notin ReportsOf(b) \/ slots'[i].full => SameReports(b)
                  /\ \A b \in Attrs :
                       i \in ReportsOf(b) /\ ~slots'[i].full =>
                         ReportsOf(b)' = {}
<1>1. BufTypeOK' /\ OneReportPerAttr'
  BY SendEffect DEF OneReportPerAttr, Full
<1>2. CASE Sendable = {}
  <2>1. /\ \A i \in Index : slots'[i].full = slots[i].full
        /\ \A i \in Full : slots'[i].pkt = slots[i].pkt
    BY <1>2, AgedType DEF SendPacket, SendNothing
  <2> QED
    BY <1>1, <1>2, <2>1 DEF SameReports, ReportsOf, Full
<1>3. CASE Sendable # {}
  <2> DEFINE k == Lowest(Sendable)
  <2>1. k \in Index /\ MaySend(Aged[k])
    BY <1>3, LowestIsMember DEF Sendable
  <2>2. k \in Full /\ Aged[k] \in Slot /\ Aged[k].full
    BY <2>1, AgedType DEF MaySend, TimedOut, Full
  <2>3. SendFrom(k)
    BY <1>3 DEF SendPacket
  <2> HIDE DEF k
  <2>4. /\ slots'[k] = AfterSend(Aged[k])
        /\ \A i \in Index \ {k} : slots'[i] = Aged[i]
    BY <2>1, <2>3, AgedType DEF SendFrom
  <2>5. /\ \A i \in Index \ {k} : slots'[i].full = slots[i].full
        /\ \A i \in Full \ {k} : slots'[i].pkt = slots[i].pkt
        /\ slots'[k].full => slots'[k].pkt = slots[k].pkt
    BY <2>2, <2>4, AgedType, AfterSendType DEF Full
  <2>6. ASSUME NEW b \in Attrs, k \notin ReportsOf(b) \/ slots'[k].full
        PROVE  SameReports(b)
    <3>1. CASE slots'[k].full
      BY <2>2, <2>5, <3>1 DEF SameReports, ReportsOf, Full
    <3>2. CASE ~slots'[k].full
      BY <2>2, <2>5, <2>6, <3>2 DEF SameReports, ReportsOf, Full
    <3> QED BY <3>1, <3>2
  <2>7. ASSUME NEW b \in Attrs, k \in ReportsOf(b), ~slots'[k].full
        PROVE  ReportsOf(b)' = {}
    BY <2>2, <2>5, <2>7 DEF OneReportPerAttr, ReportsOf, Full
  <2> QED
    BY <1>1, <1>3, <2>2, <2>6, <2>7 DEF k
<1> QED
  BY <1>2, <1>3

(* What leaves the reports of an attribute alone and takes nothing back.   *)
LEMMA TrackedKept ==
  ASSUME NEW b \in Attrs, Tracked(b), SameReports(b), status'[b] = status[b],
         alive_status' = alive_status, b \in report_flag => b \in report_flag',
         delayreport => delayreport', prov_suc_report => prov_suc_report',
         missed[b] => missed'[b], view'[b] = view[b]
  PROVE  Tracked(b)'
BY DEF Tracked, SameReports

LEMMA BufferKept ==
  ASSUME UNCHANGED bufVars
  PROVE  /\ BufTypeOK => BufTypeOK'
         /\ OneReportPerAttr => OneReportPerAttr'
         /\ \A b \in Attrs : SameReports(b)
BY DEF bufVars, BufTypeOK, OneReportPerAttr, SameReports, ReportsOf, Full

-----------------------------------------------------------------------------
(* The main loop and the receive callback use the buffer by its operations *)
(* alone: their specification implements that of the buffer.               *)

LEMMA MakeIs ==
  ASSUME NEW p \in Packets, NEW needack \in BOOLEAN, MakePacket(p, needack)
  PROVE  BufNext
BY DEF BufNext, MakeAny

LEMMA ReportIs ==
  ASSUME NEW a \in Attrs, NEW v \in Values, NEW needack \in BOOLEAN,
         Report(a, v, needack)
  PROVE  BufNext /\ missed' = [missed EXCEPT ![a] =
                                 (PlacesFor(Property(a, v)) = {})]
<1>1. Property(a, v) \in Packets
  BY DEF Property, Packets, Properties
<1> QED BY <1>1, MakeIs DEF Report

LEMMA MakeInfoIs == MakeInfo => BufNext
<1> SUFFICES ASSUME MakeInfo PROVE BufNext
  OBVIOUS
<1>1. PICK t \in InfoAttrs :
        MakePacket([kind |-> "info", attr |-> t, val |-> 0], FALSE)
  BY DEF MakeInfo
<1>2. [kind |-> "info", attr |-> t, val |-> 0] \in Packets
  BY ReportingAssumption DEF Packets, Infos
<1> QED BY <1>1, <1>2, MakeIs

(* What the publication of a packet does to the gateway.                   *)
LEMMA PublishIs ==
  ASSUME TypeOK, Sendable # {}, Publish(Lowest(Sendable))
  PROVE  /\ BufNext
         /\ acks' \in SUBSET Answers
         /\ view' \in [Attrs -> Values \cup {Unheard}]
         /\ missed' \in [Attrs -> BOOLEAN]
<1> DEFINE i == Lowest(Sendable)
<1>1. SendPacket
  BY DEF Publish, SendPacket
<1>2. i \in Full
  <2>1. i \in Sendable /\ i \in Index
    BY LowestIsMember DEF Sendable
  <2>2. Aged[i].full
    BY <2>1 DEF Sendable, MaySend, TimedOut
  <2> QED BY <2>1, <2>2, AgedType DEF TypeOK, Full
<1> HIDE DEF i
<1>3. Publish(i)
  BY DEF i
<1>4. CASE slots[i].pkt.kind # "property"
  BY <1>1, <1>3, <1>4 DEF Publish, BufNext, TypeOK, gateway
<1>5. CASE slots[i].pkt.kind = "property"
  <2> DEFINE p == slots[i].pkt
  <2>1. p.attr \in Attrs /\ p.val \in Values
    BY <1>2, <1>5, FullSlot DEF TypeOK
  <2>2. Delivered(p) \/ Lost(i, p)
    BY <1>3, <1>5 DEF Publish
  <2> HIDE DEF p
  <2>3. [attr |-> p.attr, val |-> p.val] \in Answers
    BY <2>1 DEF Answers
  <2>4. CASE Delivered(p)
    BY <1>1, <2>1, <2>3, <2>4 DEF Delivered, TypeOK, BufNext
  <2>5. CASE Lost(i, p)
    BY <1>1, <2>1, <2>5 DEF Lost, TypeOK, BufNext, gateway
  <2> QED BY <2>2, <2>4, <2>5
<1> QED BY <1>4, <1>5

(* Every step is one of the buffer's or leaves it, and keeps the types.    *)
LEMMA StepUsesBuffer ==
  ASSUME TypeOK, [Next]_vars
  PROVE  [BufNext]_bufVars /\ TypeOK'
<1> USE DEF device, blink, gateway, Online
<1>0. [BufNext]_bufVars => BufTypeOK'
  BY BufTypeKept DEF TypeOK
<1>1. CASE EventPhase
  <2>1. pc' \in Phases
    BY <1>1 DEF EventPhase, Phases
  <2>2. CASE Provisioned
    <3>1. missed' \in [Attrs -> BOOLEAN]
      BY <2>2 DEF Provisioned, TypeOK
    <3> QED BY <1>0, <2>1, <2>2, <3>1 DEF Provisioned, TypeOK
  <2>3. CASE KeepAlive
    BY <1>0, <2>1, <2>3 DEF KeepAlive, TypeOK
  <2>4. ASSUME NEW a \in Attrs, NEW v \in Values, NEW needack \in BOOLEAN,
               UpdateProperty(a, v, needack)
        PROVE  [BufNext]_bufVars /\ TypeOK'
    <3>1. BufNext /\ missed' \in [Attrs -> BOOLEAN]
      BY <2>4, ReportIs DEF UpdateProperty, TypeOK
    <3> QED BY <1>0, <2>1, <2>4, <3>1 DEF UpdateProperty, TypeOK
  <2>5. CASE GetProperty
    BY <1>0, <2>1, <2>5 DEF GetProperty, TypeOK
  <2>6. ASSUME NEW k \in acks, ReportPropertyAck(k)
        PROVE  [BufNext]_bufVars /\ TypeOK'
    <3>1. k.attr \in Attrs /\ k.val \in Values
      BY DEF TypeOK, Answers
    <3>2. BufNext
      BY <2>6, <3>1 DEF ReportPropertyAck, BufNext
    <3>3. missed' \in [Attrs -> BOOLEAN]
      BY <2>6, <3>1 DEF ReportPropertyAck, TypeOK
    <3>4. acks' \in SUBSET Answers
      BY <2>6 DEF ReportPropertyAck, TypeOK
    <3> QED
      BY <1>0, <2>1, <2>6, <3>2, <3>3, <3>4 DEF ReportPropertyAck, TypeOK
  <2>7. CASE NoEvent
    BY <1>0, <2>1, <2>7 DEF NoEvent, TypeOK
  <2> QED BY <1>1, <2>2, <2>3, <2>4, <2>5, <2>6, <2>7 DEF EventPhase
<1>2. CASE KeyPhase
  <2>1. pc' \in Phases
    BY <1>2 DEF KeyPhase, Phases
  <2>2. ASSUME NEW a \in Attrs, ShortPress(a)
        PROVE  [BufNext]_bufVars /\ TypeOK'
    <3>1. status' \in [Attrs -> Values]
      BY <2>2, ReportingAssumption DEF ShortPress, TypeOK
    <3> QED
      BY <1>0, <2>1, <2>2, <3>1 DEF ShortPress, FlagReport, TypeOK
  <2>3. CASE NoEvent
    BY <1>0, <2>1, <2>3 DEF NoEvent, TypeOK
  <2> QED BY <1>2, <2>2, <2>3 DEF KeyPhase
<1>3. CASE OnlinePhase
  <2>1. pc' \in Phases
    BY <1>3 DEF OnlinePhase, Phases
  <2>2. [BufNext]_bufVars
    BY <1>3, MakeInfoIs DEF OnlinePhase, Ping
  <2> QED BY <1>0, <1>3, <2>1, <2>2 DEF OnlinePhase, Offline, TypeOK
<1>4. CASE UploadPhase
  <2>1. pc' \in Phases
    BY <1>4 DEF UploadPhase, Phases
  <2>2. ASSUME NEW a \in Attrs, Upload(a)
        PROVE  [BufNext]_bufVars /\ TypeOK'
    <3>1. status[a] \in Values
      BY DEF TypeOK
    <3>2. BufNext /\ missed' \in [Attrs -> BOOLEAN]
      BY <2>2, <3>1, ReportIs DEF Upload, TypeOK
    <3> QED BY <1>0, <2>1, <2>2, <3>2 DEF Upload, TypeOK
  <2>3. CASE NoEvent
    BY <1>0, <2>1, <2>3 DEF NoEvent, TypeOK
  <2> QED BY <1>4, <2>2, <2>3 DEF UploadPhase
<1>5. CASE SendPhase
  <2>1. pc' \in Phases /\ UNCHANGED <<device, blink>>
    BY <1>5 DEF SendPhase, Phases
  <2>2. CASE Sendable # {} /\ Publish(Lowest(Sendable))
    BY <1>0, <2>1, <2>2, PublishIs DEF TypeOK
  <2>3. CASE Sendable = {} /\ SendNothing /\ UNCHANGED <<gateway, missed>>
    BY <1>0, <2>1, <2>3 DEF TypeOK, BufNext, SendPacket
  <2>4. CASE UNCHANGED <<bufVars, gateway, missed>>
    BY <1>0, <2>1, <2>4 DEF TypeOK
  <2> QED BY <1>5, <2>2, <2>3, <2>4 DEF SendPhase
<1>6. CASE DeviceInfo
  BY <1>0, <1>6, MakeInfoIs DEF DeviceInfo, TypeOK
<1>7. CASE DelayedReport
  BY <1>0, <1>7 DEF DelayedReport, TypeOK
<1>8. CASE BlinkEnds
  <2>1. status' \in [Attrs -> Values]
    BY <1>8, ReportingAssumption DEF BlinkEnds
  <2>2. prov_suc_report' \in BOOLEAN
    BY <1>8 DEF BlinkEnds, TypeOK
  <2> QED BY <1>0, <1>8, <2>1, <2>2 DEF BlinkEnds, TypeOK
<1>9. CASE PushProvisioned
  BY <1>0, <1>9 DEF PushProvisioned, TypeOK
<1>10. CASE UNCHANGED vars
  <2>1. UNCHANGED bufVars
    BY <1>10 DEF vars, bufVars
  <2> QED BY <1>0, <1>10, <2>1 DEF vars, TypeOK
<1> QED
  BY <1>1, <1>2, <1>3, <1>4, <1>5, <1>6, <1>7, <1>8, <1>9, <1>10 DEF Next

LEMMA InitType == Init => TypeOK
BY BufInitType DEF Init, TypeOK, Phases

(* The main loop, the gateway and the network keep their types, whatever   *)
(* the other packets spell.                                                *)
THEOREM TypeCorrect == Spec => []TypeOK
BY InitType, StepUsesBuffer, PTL DEF Spec

(* A device that reports uses the transmit buffer as TxBuffer says:        *)
(* whatever holds of every behaviour of the buffer holds in the main loop  *)
(* with its gateway, its network and the receive callback.                 *)
THEOREM ReportingUsesBuffer == Spec => BufSpec
<1>1. Init => BufInit
  BY DEF Init
<1>2. TypeOK /\ [Next]_vars => [BufNext]_bufVars
  BY StepUsesBuffer
<1> QED BY <1>1, <1>2, TypeCorrect, PTL DEF Spec, BufSpec

(* So the sends of a report are paced in the main loop too                 *)
(* (app_skyiot_server.c:643-698), whatever the gateway answers and when.   *)
THEOREM LoopPacesSends == Spec => PacedSends
BY ReportingUsesBuffer, PacedSendsAlways, PTL

-----------------------------------------------------------------------------
(* The actions, each with the types and the tracking it keeps.             *)

\* What IInv says beyond the types.
Tracking == OneReportPerAttr /\ \A a \in Attrs : Tracked(a)

LEMMA EventKeeps ==
  ASSUME IInv, InfoAttrs \subseteq {NoAttr}, EventPhase
  PROVE  TypeOK' /\ Tracking'
<1> USE DEF IInv, device, blink, gateway, Online
<1>0. pc' \in Phases
  BY DEF EventPhase, Phases
<1>1. CASE Provisioned
  <2>1. BufTypeOK' /\ OneReportPerAttr' /\ \A b \in Attrs : SameReports(b)
    BY <1>1, BufferKept DEF Provisioned, TypeOK
  <2>2. missed' \in [Attrs -> BOOLEAN]
    BY <1>1 DEF Provisioned, TypeOK
  <2>3. TypeOK'
    BY <1>0, <1>1, <2>1, <2>2 DEF Provisioned, TypeOK
  <2>4. ASSUME NEW b \in Attrs PROVE Tracked(b)'
    <3>1. CASE prov_suc_report
      <4>1. b \in report_flag'
        BY <1>1, <3>1 DEF Provisioned
      <4> QED BY <4>1 DEF Tracked
    <3>2. CASE ~prov_suc_report /\ alive_status = 0
      <4>1. missed' = [a \in Attrs |-> TRUE]
        BY <1>1, <3>2 DEF Provisioned
      <4>2. missed'[b]
        BY <4>1
      <4> QED BY <4>2 DEF Tracked
    <3>3. CASE ~prov_suc_report /\ alive_status # 0
      <4>1. missed' = missed /\ b \in report_flag => b \in report_flag'
        BY <1>1, <3>3 DEF Provisioned
      <4>2. alive_status' = alive_status
        BY <1>1, <3>3 DEF Provisioned, TypeOK
      <4>3. missed[b] => missed'[b]
        BY <1>1, <3>3 DEF Provisioned
      <4>4. /\ status' = status /\ view' = view
            /\ delayreport => delayreport'
            /\ prov_suc_report => prov_suc_report'
            /\ b \in report_flag => b \in report_flag'
        BY <1>1, <3>3 DEF Provisioned
      <4> QED BY <2>1, <4>2, <4>3, <4>4, TrackedKept
    <3> QED BY <3>1, <3>2, <3>3
  <2> QED BY <2>1, <2>3, <2>4 DEF Tracking
<1>2. CASE KeepAlive
  <2>1. BufTypeOK' /\ OneReportPerAttr' /\ \A b \in Attrs : SameReports(b)
    BY <1>2, BufferKept DEF KeepAlive, TypeOK
  <2>2. TypeOK'
    BY <1>0, <1>2, <2>1 DEF KeepAlive, TypeOK
  <2>3. ASSUME NEW b \in Attrs PROVE Tracked(b)'
    <3>1. CASE alive_status = 0
      <4>1. delayreport'
        BY <1>2, <3>1 DEF KeepAlive
      <4> QED BY <4>1 DEF Tracked
    <3>2. CASE alive_status # 0
      BY <1>2, <2>1, <3>2, TrackedKept DEF KeepAlive
    <3> QED BY <3>1, <3>2
  <2> QED BY <2>1, <2>2, <2>3 DEF Tracking
<1>3. ASSUME NEW a \in Attrs, NEW v \in Values, NEW needack \in BOOLEAN,
             UpdateProperty(a, v, needack)
      PROVE  TypeOK' /\ Tracking'
  <2>1. Report(a, v, needack)
    BY <1>3 DEF UpdateProperty
  <2>2. /\ BufTypeOK' /\ OneReportPerAttr'
        /\ missed' \in [Attrs -> BOOLEAN]
        /\ \A b \in Attrs \ {a} : SameReports(b) /\ missed'[b] = missed[b]
        /\ missed'[a] \/ /\ ReportsOf(a)' # {}
                         /\ \A i \in ReportsOf(a)' : slots'[i].pkt.val = v
    BY <2>1, MakeReports DEF TypeOK
  <2>3. TypeOK'
    BY <1>0, <1>3, <2>2 DEF UpdateProperty, TypeOK
  <2>4. ASSUME NEW b \in Attrs PROVE Tracked(b)'
    <3>1. CASE alive_status = 0
      BY <1>3, <3>1 DEF UpdateProperty, Tracked
    <3>2. CASE b = a
      <4>1. status'[b] = v
        BY <1>3, <3>2 DEF UpdateProperty, TypeOK
      <4> QED BY <2>2, <3>2, <4>1 DEF Tracked
    <3>3. CASE b # a /\ alive_status # 0
      <4>1. SameReports(b) /\ missed'[b] = missed[b]
        BY <2>2, <3>3
      <4>2. alive_status' = alive_status /\ status'[b] = status[b]
        BY <1>3, <3>3 DEF UpdateProperty, TypeOK
      <4>3. report_flag' = report_flag /\ UNCHANGED <<delayreport,
              prov_suc_report, view>>
        BY <1>3, <3>3 DEF UpdateProperty
      <4> QED BY <4>1, <4>2, <4>3, TrackedKept
    <3> QED BY <3>1, <3>2, <3>3
  <2> QED BY <2>2, <2>3, <2>4 DEF Tracking
<1>4. CASE GetProperty
  <2>1. BufTypeOK' /\ OneReportPerAttr'
    BY <1>4, BufferKept DEF GetProperty, TypeOK
  <2>2. TypeOK'
    BY <1>0, <1>4, <2>1 DEF GetProperty, TypeOK
  <2>3. \A b \in Attrs : Tracked(b)'
    BY <1>4 DEF GetProperty, Tracked
  <2> QED BY <2>1, <2>2, <2>3 DEF Tracking
<1>5. ASSUME NEW k \in acks, ReportPropertyAck(k)
      PROVE  TypeOK' /\ Tracking'
  <2>1. k.attr \in Attrs /\ k.val \in Values
    BY DEF TypeOK, Answers
  <2>2. AckPacket(k.attr, k.val)
    BY <1>5 DEF ReportPropertyAck
  <2>3. /\ BufTypeOK' /\ OneReportPerAttr'
        /\ \A b \in Attrs \ {k.attr} : SameReports(b)
        /\ \/ slots' = slots
           \/ /\ ReportsOf(k.attr)' = {}
              /\ \E i \in ReportsOf(k.attr) : slots[i].pkt.val = k.val
    BY <2>1, <2>2, AckReports DEF TypeOK
  <2> DEFINE gone == /\ slots' # slots
                     /\ k.val = status[k.attr]
                     /\ view[k.attr] # k.val
  <2>4. missed' = [missed EXCEPT ![k.attr] = @ \/ gone]
    BY <1>5 DEF ReportPropertyAck
  <2>5. gone \in BOOLEAN
    OBVIOUS
  <2> HIDE DEF gone
  <2>6. missed' \in [Attrs -> BOOLEAN]
    BY <2>1, <2>4, <2>5 DEF TypeOK
  <2>7. /\ \A b \in Attrs : missed[b] => missed'[b]
        /\ gone => missed'[k.attr]
    BY <2>1, <2>4, <2>5 DEF TypeOK
  <2>8. acks' \in SUBSET Answers
    BY <1>5 DEF ReportPropertyAck, TypeOK
  <2>9. TypeOK'
    BY <1>0, <1>5, <2>3, <2>6, <2>8 DEF ReportPropertyAck, TypeOK
  <2>10. ASSUME NEW b \in Attrs PROVE Tracked(b)'
    <3>1. CASE b # k.attr \/ slots' = slots
      <4>1. SameReports(b)
        BY <2>3, <3>1 DEF SameReports, ReportsOf, Full
      <4> QED
        BY <1>5, <2>7, <4>1, TrackedKept DEF ReportPropertyAck
    <3>2. CASE b = k.attr /\ slots' # slots
      <4>1. /\ ReportsOf(b)' = {}
            /\ \E i \in ReportsOf(b) : slots[i].pkt.val = k.val
        BY <2>3, <3>2
      <4>2. CASE k.val # status[b]
        BY <1>5, <2>7, <4>1, <4>2 DEF ReportPropertyAck, Tracked
      <4>3. CASE k.val = status[b] /\ view[b] = k.val
        BY <1>5, <4>1, <4>3 DEF ReportPropertyAck, Tracked
      <4>4. CASE k.val = status[b] /\ view[b] # k.val
        BY <2>7, <3>2, <4>4 DEF gone, Tracked
      <4> QED BY <4>2, <4>3, <4>4
    <3> QED BY <3>1, <3>2
  <2> QED BY <2>3, <2>9, <2>10 DEF Tracking
<1>6. CASE NoEvent
  <2>1. BufTypeOK' /\ OneReportPerAttr' /\ \A b \in Attrs : SameReports(b)
    BY <1>6, BufferKept DEF NoEvent, TypeOK
  <2> QED
    BY <1>0, <1>6, <2>1, TrackedKept DEF NoEvent, TypeOK, Tracking
<1> QED
  BY <1>1, <1>2, <1>3, <1>4, <1>5, <1>6 DEF EventPhase

LEMMA KeyKeeps ==
  ASSUME IInv, KeyPhase
  PROVE  TypeOK' /\ Tracking'
<1> USE DEF IInv, device, blink, gateway
<1>0. pc' \in Phases
  BY DEF KeyPhase, Phases
<1>1. ASSUME NEW a \in Attrs, ShortPress(a) PROVE TypeOK' /\ Tracking'
  <2>1. BufTypeOK' /\ OneReportPerAttr' /\ \A b \in Attrs : SameReports(b)
    BY <1>1, BufferKept DEF ShortPress, TypeOK
  <2>2. 1 - status[a] \in Values
    BY ReportingAssumption DEF TypeOK
  <2>3. TypeOK'
    BY <1>0, <1>1, <2>1, <2>2 DEF ShortPress, FlagReport, TypeOK
  <2>4. ASSUME NEW b \in Attrs PROVE Tracked(b)'
    <3>1. CASE b = a
      BY <1>1, <3>1 DEF ShortPress, FlagReport, Tracked
    <3>2. CASE b # a
      <4>1. status'[b] = status[b] /\ b \in report_flag => b \in report_flag'
        BY <1>1, <3>2 DEF ShortPress, FlagReport, TypeOK
      <4>2. UNCHANGED <<alive_status, delayreport, prov_suc_report, missed,
                        view>>
        BY <1>1 DEF ShortPress
      <4>3. status'[b] = status[b]
        BY <1>1, <3>2 DEF ShortPress, TypeOK
      <4>4. b \in report_flag => b \in report_flag'
        BY <1>1, <3>2 DEF ShortPress, FlagReport
      <4> QED BY <2>1, <4>2, <4>3, <4>4, TrackedKept
    <3> QED BY <3>1, <3>2
  <2> QED BY <2>1, <2>3, <2>4 DEF Tracking
<1>2. CASE NoEvent
  <2>1. BufTypeOK' /\ OneReportPerAttr' /\ \A b \in Attrs : SameReports(b)
    BY <1>2, BufferKept DEF NoEvent, TypeOK
  <2> QED
    BY <1>0, <1>2, <2>1, TrackedKept DEF KeyPhase, NoEvent, TypeOK, Tracking
<1> QED
  BY <1>1, <1>2 DEF KeyPhase

LEMMA OnlineKeeps ==
  ASSUME IInv, InfoAttrs \subseteq {NoAttr}, OnlinePhase
  PROVE  TypeOK' /\ Tracking'
<1> USE DEF IInv, blink, gateway
<1>0. pc' \in Phases
  BY DEF OnlinePhase, Phases
<1>1. BufTypeOK' /\ OneReportPerAttr' /\ \A b \in Attrs : SameReports(b)
  BY BufferKept, MakeInfoReports, ReportingAssumption
     DEF OnlinePhase, Ping, TypeOK
<1>2. CASE Offline
  BY <1>0, <1>1, <1>2 DEF OnlinePhase, Offline, TypeOK, Tracking, Tracked
<1>3. CASE UNCHANGED <<alive_status, report_flag>>
  BY <1>0, <1>1, <1>3, TrackedKept DEF OnlinePhase, TypeOK, Tracking
<1> QED
  BY <1>2, <1>3 DEF OnlinePhase

LEMMA UploadKeeps ==
  ASSUME IInv, InfoAttrs \subseteq {NoAttr}, UploadPhase
  PROVE  TypeOK' /\ Tracking'
<1> USE DEF IInv, device, blink, gateway
<1>0. pc' \in Phases
  BY DEF UploadPhase, Phases
<1>1. ASSUME NEW a \in Attrs, Upload(a) PROVE TypeOK' /\ Tracking'
  <2>1. Report(a, status[a], TRUE) /\ status[a] \in Values
    BY <1>1 DEF Upload, TypeOK
  <2>2. /\ BufTypeOK' /\ OneReportPerAttr'
        /\ missed' \in [Attrs -> BOOLEAN]
        /\ \A b \in Attrs \ {a} : SameReports(b) /\ missed'[b] = missed[b]
        /\ missed'[a] \/ /\ ReportsOf(a)' # {}
                         /\ \A i \in ReportsOf(a)' :
                              slots'[i].pkt.val = status[a]
    BY <2>1, MakeReports DEF TypeOK
  <2>3. TypeOK'
    BY <1>0, <1>1, <2>2 DEF Upload, TypeOK
  <2>4. ASSUME NEW b \in Attrs PROVE Tracked(b)'
    <3>1. CASE b = a
      BY <1>1, <2>2, <3>1 DEF Upload, Tracked
    <3>2. CASE b # a
      <4>1. SameReports(b) /\ missed'[b] = missed[b]
        BY <2>2, <3>2
      <4>2. b \in report_flag => b \in report_flag'
        BY <1>1, <3>2 DEF Upload
      <4>3. UNCHANGED <<status, alive_status, delayreport, prov_suc_report,
                        view>>
        BY <1>1 DEF Upload
      <4> QED BY <4>1, <4>2, <4>3, TrackedKept
    <3> QED BY <3>1, <3>2
  <2> QED BY <2>2, <2>3, <2>4 DEF Tracking
<1>2. CASE NoEvent
  <2>1. BufTypeOK' /\ OneReportPerAttr' /\ \A b \in Attrs : SameReports(b)
    BY <1>2, BufferKept DEF NoEvent, TypeOK
  <2> QED
    BY <1>0, <1>2, <2>1, TrackedKept DEF NoEvent, TypeOK, Tracking
<1> QED
  BY <1>1, <1>2 DEF UploadPhase

LEMMA SendKeeps ==
  ASSUME IInv, SendPhase
  PROVE  TypeOK' /\ Tracking'
<1> USE DEF IInv, device, blink, gateway
<1>0. /\ pc' \in Phases
      /\ UNCHANGED <<status, report_flag, alive_status, delayreport, prov,
                     prov_suc_report>>
  BY DEF SendPhase, Phases
<1>1. CASE Sendable = {} /\ SendNothing /\ UNCHANGED <<gateway, missed>>
  <2>1. SendPacket
    BY <1>1 DEF SendPacket
  <2>2. BufTypeOK' /\ OneReportPerAttr' /\ \A b \in Attrs : SameReports(b)
    BY <1>1, <2>1, SendReports DEF TypeOK
  <2> QED
    BY <1>0, <1>1, <2>2, TrackedKept DEF TypeOK, Tracking
<1>2. CASE UNCHANGED <<bufVars, gateway, missed>>
  <2>1. BufTypeOK' /\ OneReportPerAttr' /\ \A b \in Attrs : SameReports(b)
    BY <1>2, BufferKept DEF TypeOK
  <2> QED
    BY <1>0, <1>2, <2>1, TrackedKept DEF TypeOK, Tracking
<1>3. CASE Sendable # {} /\ Publish(Lowest(Sendable))
  <2> DEFINE i == Lowest(Sendable)
  <2>1. Publish(i) /\ SendPacket
    BY <1>3 DEF Publish, SendPacket
  <2>2. /\ BufTypeOK' /\ OneReportPerAttr'
        /\ i \in Full
        /\ \A b \in Attrs :
             i \notin ReportsOf(b) \/ slots'[i].full => SameReports(b)
        /\ \A b \in Attrs :
             i \in ReportsOf(b) /\ ~slots'[i].full => ReportsOf(b)' = {}
    BY <1>3, <2>1, SendReports DEF TypeOK
  <2> HIDE DEF i
  <2> DEFINE p == slots[i].pkt
  <2>3. CASE p.kind # "property"
    <3>1. \A b \in Attrs : SameReports(b)
      BY <2>2, <2>3 DEF ReportsOf
    <3>2. UNCHANGED <<gateway, missed>>
      BY <2>1, <2>3 DEF Publish
    <3> QED
      BY <1>0, <2>2, <3>1, <3>2, TrackedKept DEF TypeOK, Tracking
  <2>4. CASE p.kind = "property"
    <3>1. p.attr \in Attrs /\ p.val \in Values
      BY <2>2, <2>4, FullSlot DEF TypeOK
    <3>2. i \in ReportsOf(p.attr)
      BY <2>2, <2>4 DEF ReportsOf
    <3>3. \A b \in Attrs \ {p.attr} : SameReports(b)
      BY <2>2 DEF ReportsOf
    <3>4. CASE Delivered(p)
      <4>1. view' = [view EXCEPT ![p.attr] = p.val] /\ UNCHANGED missed
        BY <3>4 DEF Delivered
      <4>2. acks' \in SUBSET Answers
        BY <3>1, <3>4 DEF Delivered, TypeOK, Answers
      <4>3. TypeOK'
        BY <1>0, <2>2, <3>1, <4>1, <4>2 DEF TypeOK
      <4>4. ASSUME NEW b \in Attrs PROVE Tracked(b)'
        <5>1. CASE b # p.attr
          <6>1. view'[b] = view[b]
            BY <4>1, <5>1 DEF TypeOK
          <6> QED BY <1>0, <3>3, <4>1, <5>1, <6>1, TrackedKept
        <5>2. CASE b = p.attr
          <6>1. view'[b] = p.val
            BY <4>1, <5>2 DEF TypeOK
          <6>2. CASE slots'[i].full
            <7>1. SameReports(b)
              BY <2>2, <6>2
            <7> QED
              BY <1>0, <3>2, <4>1, <5>2, <7>1 DEF Tracked, SameReports
          <6>3. CASE ~slots'[i].full
            <7>1. ReportsOf(b)' = {}
              BY <2>2, <3>2, <5>2, <6>3
            <7> QED
              BY <1>0, <3>2, <4>1, <5>2, <6>1, <7>1 DEF Tracked
          <6> QED BY <6>2, <6>3
        <5> QED BY <5>1, <5>2
      <4> QED BY <2>2, <4>3, <4>4 DEF Tracking
    <3>5. CASE Lost(i, p)
      <4> DEFINE last == ~slots'[i].full
      <4>0. last \in BOOLEAN
        OBVIOUS
      <4>1. /\ missed' = [missed EXCEPT ![p.attr] = @ \/ last]
            /\ UNCHANGED gateway
        BY <3>5 DEF Lost
      <4> HIDE DEF last
      <4>2. missed' \in [Attrs -> BOOLEAN]
        BY <3>1, <4>0, <4>1 DEF TypeOK
      <4>3. /\ \A b \in Attrs : missed[b] => missed'[b]
            /\ last => missed'[p.attr]
        BY <3>1, <4>0, <4>1 DEF TypeOK
      <4>4. TypeOK'
        BY <1>0, <2>2, <4>1, <4>2 DEF TypeOK
      <4>5. ASSUME NEW b \in Attrs PROVE Tracked(b)'
        <5>1. CASE b = p.attr /\ last
          BY <4>3, <5>1 DEF Tracked
        <5>2. CASE b # p.attr \/ ~last
          <6>1. SameReports(b)
            BY <2>2, <3>3, <5>2 DEF last
          <6> QED BY <1>0, <4>1, <4>3, <6>1, TrackedKept
        <5> QED BY <5>1, <5>2
      <4> QED BY <2>2, <4>4, <4>5 DEF Tracking
    <3> QED BY <2>1, <2>4, <3>4, <3>5 DEF Publish
  <2> QED BY <2>3, <2>4
<1> QED
  BY <1>1, <1>2, <1>3 DEF SendPhase

(* The steps of other tasks and between the passes.                        *)
LEMMA OtherKeeps ==
  ASSUME IInv, InfoAttrs \subseteq {NoAttr},
         DelayedReport \/ DeviceInfo \/ BlinkEnds \/ PushProvisioned
  PROVE  TypeOK' /\ Tracking'
<1> USE DEF IInv, device, blink, gateway
<1>1. CASE DelayedReport
  <2>1. BufTypeOK' /\ OneReportPerAttr'
    BY <1>1, BufferKept DEF DelayedReport, TypeOK
  <2> QED
    BY <1>1, <2>1 DEF DelayedReport, TypeOK, Tracking, Tracked
<1>2. CASE DeviceInfo
  <2>1. BufTypeOK' /\ OneReportPerAttr' /\ \A b \in Attrs : SameReports(b)
    BY <1>2, MakeInfoReports, ReportingAssumption DEF DeviceInfo, TypeOK
  <2> QED
    BY <1>2, <2>1, TrackedKept DEF DeviceInfo, TypeOK, Tracking
<1>3. CASE BlinkEnds
  <2>1. BufTypeOK' /\ OneReportPerAttr' /\ \A b \in Attrs : SameReports(b)
    BY <1>3, BufferKept DEF BlinkEnds, TypeOK
  <2>2. /\ prov_suc_report' \in BOOLEAN
        /\ prov_suc_report => prov_suc_report'
        /\ ~prov_suc_report' => \A a \in Attrs : status[a] = 1
    BY <1>3 DEF BlinkEnds, TypeOK
  <2>3. status' = [a \in Attrs |-> 1] /\ 1 \in Values
    BY <1>3, ReportingAssumption DEF BlinkEnds
  <2>4. TypeOK'
    BY <1>3, <2>1, <2>2, <2>3 DEF BlinkEnds, TypeOK
  <2>5. ASSUME NEW b \in Attrs PROVE Tracked(b)'
    <3>1. CASE prov_suc_report'
      BY <3>1 DEF Tracked
    <3>2. CASE ~prov_suc_report'
      BY <1>3, <2>1, <2>2, <2>3, <3>2, TrackedKept DEF BlinkEnds
    <3> QED BY <3>1, <3>2
  <2> QED BY <2>1, <2>4, <2>5 DEF Tracking
<1>4. CASE PushProvisioned
  <2>1. BufTypeOK' /\ OneReportPerAttr' /\ \A b \in Attrs : SameReports(b)
    BY <1>4, BufferKept DEF PushProvisioned, TypeOK
  <2> QED
    BY <1>4, <2>1, TrackedKept DEF PushProvisioned, TypeOK, Tracking
<1> QED
  BY <1>1, <1>2, <1>3, <1>4

LEMMA IInvAlways ==
  ASSUME InfoAttrs \subseteq {NoAttr}
  PROVE  Spec => []IInv
<1>1. Init => IInv
  <2> SUFFICES ASSUME Init PROVE IInv
    OBVIOUS
  <2>1. BufTypeOK /\ OneReportPerAttr
    BY BufInitType DEF Init, BufInit, OneReportPerAttr, Full, Free
  <2>2. TypeOK
    BY <2>1 DEF Init, TypeOK, Phases
  <2> QED BY <2>1, <2>2 DEF Init, IInv, Tracked
<1>2. IInv /\ [Next]_vars => IInv'
  <2> SUFFICES ASSUME IInv, [Next]_vars PROVE TypeOK' /\ Tracking'
    BY DEF IInv, Tracking
  <2>1. CASE UNCHANGED vars
    <3>1. /\ BufTypeOK' /\ OneReportPerAttr'
          /\ \A b \in Attrs : SameReports(b)
      BY <2>1, BufferKept DEF vars, bufVars, IInv, TypeOK
    <3> QED
      BY <2>1, <3>1, TrackedKept DEF vars, IInv, TypeOK, Tracking
  <2> QED
    BY <2>1, EventKeeps, KeyKeeps, OnlineKeeps, UploadKeeps, SendKeeps,
       OtherKeeps DEF Next
<1> QED
  BY <1>1, <1>2, PTL DEF Spec

(* When nothing is on its way and no report of the last change was given   *)
(* up, the gateway knows the state of every switch: for any number of      *)
(* slots and tries, answers at any time and any losses.                    *)
THEOREM InformedAlways ==
  ASSUME InfoAttrs \subseteq {NoAttr}
  PROVE  Spec => []Informed
<1>1. IInv => Informed
  <2> SUFFICES ASSUME IInv, NEW a \in Attrs, Quiet(a), ~missed[a]
               PROVE  view[a] = status[a]
    BY DEF Informed
  <2>1. ReportsOf(a) = {}
    BY FullSlot DEF Quiet, ReportsOf
  <2> QED
    BY <2>1 DEF IInv, Tracked, Quiet
<1> QED
  BY <1>1, IInvAlways, PTL
=============================================================================
