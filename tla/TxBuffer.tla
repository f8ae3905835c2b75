------------------------------ MODULE TxBuffer -------------------------------
(***************************************************************************)
(* The transmit buffer (app_skyiot_server.c:553-743): slots that hold the  *)
(* packets for the gateway until they have been sent often enough or       *)
(* acknowledged.  All of it runs in the app task.  Time is counted in      *)
(* send periods (SEND_MESH_PACKET_PERIOD, 800 ms).                         *)
(***************************************************************************)
EXTENDS Integers

CONSTANTS
  Attrs,       \* attributes: ATTR_CLUSTER_ID_SWT, or _SW1 .. _SW3
  Values,      \* their values
  NoAttr,      \* bytes that are no attribute id
  InfoAttrs,   \* what the attribute bytes of the other packets may spell
  Depth,       \* MAX_TX_BUF_DEEP
  Tries,       \* MAX_RE_TX_CNT
  AckPeriods   \* ack timeouts, 3000 to 4000 ms, in send periods

ASSUME BufferAssumption ==
  /\ NoAttr \notin Attrs
  /\ InfoAttrs \subseteq Attrs \cup {NoAttr}
  /\ Depth \in Nat \ {0}
  /\ Tries \in Nat \ {0}
  /\ AckPeriods \subseteq Nat \ {0}
  /\ \E m \in AckPeriods : \A n \in AckPeriods : n <= m

VARIABLES
  slots,        \* MeshTxAttrStruct
  maxacktimout, \* the ack timeout, the same for all slots
  sends         \* history: what became of the packet that was last made into
                \* each slot: how often it was sent, and the send periods since

bufVars == <<slots, maxacktimout, sends>>

Index == 0 .. Depth - 1

Properties == [kind : {"property"}, attr : Attrs, val : Values]
Infos == [kind : {"info"}, attr : InfoAttrs, val : Values]
Packets == Properties \cup Infos

Property(a, v) == [kind |-> "property", attr |-> a, val |-> v]

Longest == CHOOSE m \in AckPeriods : \A n \in AckPeriods : n <= m

(* age is 0 for txtick = 0, else 1 more than the periods since the send.   *)
MaxAge == 1 + Longest

Free == [full |-> FALSE, txcnt |-> 0, age |-> 0]

Slot == {Free} \cup [full : {TRUE}, txcnt : 1 .. Tries, age : 0 .. MaxAge,
                     pkt : Packets]

(* needack and counts of a packet; none once it is acknowledged.           *)
NoSends == [needack |-> FALSE, sent |-> 0, since |-> 0]
Sends == [needack : BOOLEAN, sent : 0 .. Tries + 1, since : 0 .. Longest]

BufTypeOK ==
  /\ slots \in [Index -> Slot]
  /\ maxacktimout \in AckPeriods
  /\ sends \in [Index -> Sends]

BufInit ==
  /\ slots = [i \in Index |-> Free]
  /\ maxacktimout = Longest
  /\ sends = [i \in Index |-> NoSends]

Full == {i \in Index : slots[i].full}
Lowest(S) == CHOOSE i \in S : \A j \in S : i <= j

-----------------------------------------------------------------------------
(* BleMesh_Vendor_Make_Packet                                              *)

(* The used slots whose attribute bytes spell a.                           *)
NoSlots(a) == {}                                                \* mutant
SlotsOf(a) == {i \in Full : slots[i].pkt.attr = a}

(* A report takes the slot that spells its attribute, anything else the    *)
(* lowest free slot, or none.                                              *)
PlacesFor(p) ==
  IF p.kind = "property" /\ SlotsOf(p.attr) # {} THEN SlotsOf(p.attr)
                                                 ELSE Index \ Full

(* needack decides the tries anew, whatever the slot held before.          *)
OneTryMore(needack) == IF needack THEN Tries + 1 ELSE 1         \* mutant
TriesFor(needack) == IF needack THEN Tries ELSE 1

Load(i, p, needack) ==
  /\ slots' = [slots EXCEPT ![i] = [full |-> TRUE, txcnt |-> TriesFor(needack),
                                    age |-> 0, pkt |-> p]]
  /\ sends' = [sends EXCEPT ![i] = [NoSends EXCEPT !.needack = needack]]

MakePacket(p, needack) ==
  /\ IF PlacesFor(p) # {} THEN Load(Lowest(PlacesFor(p)), p, needack)
                          ELSE UNCHANGED <<slots, sends>>
  /\ UNCHANGED maxacktimout

-----------------------------------------------------------------------------
(* BleMesh_Vendor_Send_Packet, at the end of a send period.                *)

Older(s) == IF s.full /\ s.age \in 1 .. MaxAge - 1
            THEN [s EXCEPT !.age = @ + 1] ELSE s

EverySlot(s) == s.full                                          \* mutant
TimedOut(s) == s.full /\ s.age > maxacktimout
MaySend(s) == s.full /\ (s.age = 0 \/ TimedOut(s))

Aged == [i \in Index |-> Older(slots[i])]
Sendable == {i \in Index : MaySend(Aged[i])}

(* The last try frees the slot: it does not wait for an answer.            *)
KeepsTrying(s) == [s EXCEPT !.age = 1]                          \* mutant
AfterSend(s) ==
  IF s.txcnt = 1 THEN Free ELSE [s EXCEPT !.txcnt = @ - 1, !.age = 1]

(* A period later; a free slot has nothing to count any more.              *)
Later(i) ==
  IF ~slots[i].full THEN NoSends
  ELSE [sends[i] EXCEPT !.since = IF @ < Longest THEN @ + 1 ELSE @]

(* Sends are counted up to one more than anybody may ask for.              *)
OneMore(n) == IF n <= Tries THEN n + 1 ELSE n

SendFrom(i) ==
  /\ slots' = [Aged EXCEPT ![i] = AfterSend(Aged[i])]
  /\ IF TimedOut(Aged[i]) THEN maxacktimout' \in AckPeriods
                          ELSE UNCHANGED maxacktimout
  /\ sends' = [j \in Index |->
                 IF j = i THEN [sends[i] EXCEPT !.sent = OneMore(@),
                                                !.since = 0]
                          ELSE Later(j)]

SendNothing ==
  /\ slots' = Aged
  /\ sends' = [j \in Index |-> Later(j)]
  /\ UNCHANGED maxacktimout

SendPacket ==
  IF Sendable # {} THEN SendFrom(Lowest(Sendable)) ELSE SendNothing

-----------------------------------------------------------------------------
(* BleMesh_Vendor_Ack_Packet: the first slot that spells the attribute is  *)
(* freed if it holds the acknowledged value.                               *)

AnyValue(s, v) == TRUE                                          \* mutant
Confirms(s, v) == s.pkt.val = v

AckPacket(a, v) ==
  /\ IF SlotsOf(a) # {} /\ Confirms(slots[Lowest(SlotsOf(a))], v)
     THEN /\ slots' = [slots EXCEPT ![Lowest(SlotsOf(a))] = Free]
          /\ sends' = [sends EXCEPT ![Lowest(SlotsOf(a))] = NoSends]
     ELSE UNCHANGED <<slots, sends>>
  /\ UNCHANGED maxacktimout

-----------------------------------------------------------------------------
MakeAny == \E p \in Packets, needack \in BOOLEAN : MakePacket(p, needack)

BufNext ==
  \/ MakeAny
  \/ SendPacket
  \/ \E a \in Attrs, v \in Values : AckPacket(a, v)

BufSpec == BufInit /\ [][BufNext]_bufVars

(* The main loop runs every 50 ms as long as the device is awake.          *)
FairBufSpec == BufSpec /\ WF_bufVars(SendPacket)

(* app_skyiot_server.c:607, "reports of the same attribute are updated     *)
(* into one packet": no older value waits beside the newer one, to be sent *)
(* after it.  It holds as long as no other packet spells an attribute.     *)
OneReportPerAttr ==
  \A i, j \in Full :
    /\ slots[i].pkt.kind = "property" /\ slots[j].pkt.kind = "property"
    /\ slots[i].pkt.attr = slots[j].pkt.attr
    => i = j

(* The deadline of a retry is shared by all slots and drawn anew at every  *)
(* retry of any of them.  All the same no packet is sent again sooner than *)
(* the shortest timeout after its last send, also when its slot was used   *)
(* before or the deadline moved in between; it is sent as often as the one *)
(* who made it asked for, unless it is acknowledged; and a packet whose    *)
(* turn it is waits no longer than the longest timeout, but for packets in *)
(* lower slots.                                                            *)
Shortest == CHOOSE m \in AckPeriods : \A n \in AckPeriods : m <= n
Publishes(i) == sends'[i].sent = sends[i].sent + 1
Asked(i) == IF sends[i].needack THEN Tries ELSE 1
Due(i) == sends[i].sent = 0 \/ sends[i].since + 1 >= Longest

PacedSends ==
  [][ /\ \A i \in Index : Publishes(i) =>
           /\ sends[i].sent < Asked(i)
           /\ sends[i].sent = 0 \/ sends[i].since + 1 >= Shortest
      /\ SendPacket => \A i \in Full :
           /\ slots'[i].full \/ sends'[i].sent = Asked(i)
           /\ Due(i) => \E j \in 0 .. i : Publishes(j) ]_bufVars

(* Whatever the gateway answers, the packets of a device that makes no     *)
(* more are all sent and the buffer drains, without which the chip would   *)
(* never sleep (Is_No_ReportMsg).                                          *)
BufferDrains == <>[][~MakeAny]_bufVars => <>[](Full = {})

=============================================================================
