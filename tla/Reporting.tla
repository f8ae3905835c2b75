------------------------------ MODULE Reporting ------------------------------
(***************************************************************************)
(* How the gateway learns the state of the switches: the main loop of a    *)
(* provisioned device (app_skyiot_server.c:1497-1911, 2047-2069) above its *)
(* transmit buffer, a network that loses packets and delays answers, and   *)
(* the gateway.  A pass of the main loop handles one event, a key, the     *)
(* online check, one report and the buffer, in this order; the device info *)
(* answers come from the receive callback between passes, and the end of   *)
(* the provisioning blink from the timer task at any moment.               *)
(***************************************************************************)
EXTENDS TxBuffer, FiniteSets

CONSTANTS
  Unheard,   \* the gateway has not heard of an attribute
  Lossy,     \* whether the network loses packets
  LateAcks,  \* whether an answer may overtake or trail other messages
  MaxMade    \* bound: packets that are no reports, held at one time

ASSUME ReportingAssumption ==
  /\ Values = {0, 1}
  /\ Unheard \notin Values
  /\ Lossy \in BOOLEAN /\ LateAcks \in BOOLEAN
  /\ MaxMade \in Nat

VARIABLES
  pc,           \* how far the pass of the main loop is
  status,       \* mSwitchManager.status
  report_flag,  \* the attributes whose report is due
  alive_status, \* 1 while the gateway is thought to be there
  delayreport,  \* a delayed report of everything is armed
  prov,         \* the provisioning blink: "blink", "lit", "ended", "done"
  prov_suc_report,
  acks,         \* answers of the gateway that are under way
  view,         \* what the gateway last heard of each attribute
  missed        \* history: the report of the latest value never arrived

device == <<status, report_flag, alive_status, delayreport>>
blink == <<prov, prov_suc_report>>
gateway == <<acks, view>>
vars == <<pc, bufVars, status, report_flag, alive_status,
          delayreport, prov, prov_suc_report, acks, view, missed>>

Phases == {"event", "key", "online", "upload", "send"}
Answers == [attr : Attrs, val : Values]

TypeOK ==
  /\ BufTypeOK
  /\ pc \in Phases
  /\ status \in [Attrs -> Values]
  /\ report_flag \in SUBSET Attrs
  /\ alive_status \in {0, 1}
  /\ delayreport \in BOOLEAN
  /\ prov \in {"blink", "lit", "ended", "done"}
  /\ prov_suc_report \in BOOLEAN
  /\ acks \in SUBSET Answers
  /\ view \in [Attrs -> Values \cup {Unheard}]
  /\ missed \in [Attrs -> BOOLEAN]

Init ==
  /\ BufInit
  /\ pc = "event"
  /\ status \in [Attrs -> Values]
  /\ report_flag = {}
  /\ alive_status = 0
  /\ delayreport = FALSE
  /\ prov \in {"blink", "done"}  \* just provisioned, or restarted later
  /\ prov_suc_report = FALSE
  /\ acks = {}
  /\ view = [a \in Attrs |-> Unheard]
  /\ missed = [a \in Attrs |-> FALSE]

-----------------------------------------------------------------------------
(* Making a report: from now on it is this value the gateway should hear.  *)

Report(a, v, needack) ==
  /\ MakePacket(Property(a, v), needack)
  /\ missed' = [missed EXCEPT ![a] = (PlacesFor(Property(a, v)) = {})]

(* Main_Event_Handle, event by event.                                      *)

(* Reset_iotmanager_para, and what the events make of the flags after it.  *)
Online(flags) == alive_status' = 1 /\ report_flag' = flags

(* Without a change at the end of the blink the device does not report but *)
(* waits for the gateway to ask.                                           *)
Provisioned ==
  /\ prov = "ended"
  /\ Online(report_flag \cup (IF prov_suc_report THEN Attrs ELSE {}))
  /\ missed' = IF alive_status = 0 /\ ~prov_suc_report
               THEN [a \in Attrs |-> TRUE] ELSE missed
  /\ prov' = "done" /\ prov_suc_report' = FALSE
  /\ UNCHANGED <<bufVars, status, delayreport, gateway>>

(* The first sign of life of the gateway arms a report of everything.      *)
KeepAlive ==
  /\ IF alive_status = 0 THEN Online({}) /\ delayreport' = TRUE
                         ELSE UNCHANGED device
  /\ UNCHANGED <<bufVars, status, blink, gateway, missed>>

(* seqence_num is 0 when the gateway's counter wraps; then a command is    *)
(* reported with retries, like a change of the device's own.               *)
UpdateProperty(a, v, needack) ==
  /\ Online(IF alive_status = 0 THEN Attrs ELSE report_flag)
  /\ status' = [status EXCEPT ![a] = v]
  /\ Report(a, v, needack)
  /\ UNCHANGED <<delayreport, blink, gateway>>

GetProperty ==
  /\ Online(Attrs)
  /\ UNCHANGED <<bufVars, status, delayreport, blink, gateway, missed>>

(* A stale answer that names the latest value frees the report of it       *)
(* though the gateway has not heard it.                                    *)
ReportPropertyAck(k) ==
  /\ AckPacket(k.attr, k.val)
  /\ acks' \in {acks \ {k}} \cup (IF LateAcks THEN {acks} ELSE {})
  /\ missed' = [missed EXCEPT ![k.attr] =
       @ \/ (slots' # slots /\ k.val = status[k.attr] /\ view[k.attr] # k.val)]
  /\ UNCHANGED <<device, blink, view>>

NoEvent == UNCHANGED <<bufVars, device, blink, gateway, missed>>

(* When answers are prompt they are handled before anything else happens.  *)
NoneWaits == LateAcks \/ acks = {}

EventPhase ==
  /\ pc = "event" /\ pc' = "key"
  /\ \/ NoneWaits /\ Provisioned
     \/ NoneWaits /\ KeepAlive
     \/ \E a \in Attrs, v \in Values, needack \in BOOLEAN :
          NoneWaits /\ UpdateProperty(a, v, needack)
     \/ NoneWaits /\ GetProperty
     \/ \E k \in acks : ReportPropertyAck(k)
     \/ NoneWaits /\ NoEvent

(* The delayed report comes due before the event of a pass is taken.       *)
DelayedReport ==
  /\ pc = "event"
  /\ delayreport
  /\ delayreport' = FALSE
  /\ report_flag' = report_flag \cup Attrs
  /\ UNCHANGED <<pc, bufVars, status, alive_status, blink, gateway, missed>>

(* A short press toggles a switch.                                         *)
FlagReport(a) == report_flag \cup {a}

ShortPress(a) ==
  /\ NoneWaits
  /\ status' = [status EXCEPT ![a] = 1 - @]
  /\ report_flag' = FlagReport(a)
  /\ UNCHANGED <<bufVars, alive_status, delayreport, blink, gateway, missed>>

KeyPhase ==
  /\ pc = "key" /\ pc' = "online"
  /\ (\E a \in Attrs : ShortPress(a)) \/ NoEvent

-----------------------------------------------------------------------------
(* Packets that are no reports: the heartbeat of Main_Check_Online and the *)
(* device info answers of the receive callback.                            *)

OtherPackets == {i \in Full : slots[i].pkt.kind = "info"}

MakeInfo ==
  /\ Cardinality(OtherPackets) < MaxMade
  /\ \E t \in InfoAttrs :
       MakePacket([kind |-> "info", attr |-> t, val |-> 0], FALSE)

DeviceInfo ==
  /\ pc = "event"
  /\ MakeInfo
  /\ UNCHANGED <<pc, device, blink, gateway, missed>>

(* Main_Check_Online: a heartbeat may be due, and the gateway may be gone. *)
(* Its 90 s are longer than the provisioning blink.                        *)
Ping == MakeInfo \/ UNCHANGED bufVars

Offline ==
  /\ alive_status = 1
  /\ prov = "done"
  /\ alive_status' = 0
  /\ report_flag' = {}

OnlinePhase ==
  /\ pc = "online" /\ pc' = "upload"
  /\ Ping
  /\ Offline \/ UNCHANGED <<alive_status, report_flag>>
  /\ UNCHANGED <<status, delayreport, blink, gateway, missed>>

(* Main_Upload_State: one flagged attribute of a device that is online.    *)
Upload(a) ==
  /\ alive_status = 1
  /\ a \in report_flag
  /\ report_flag' = report_flag \ {a}
  /\ Report(a, status[a], TRUE)
  /\ UNCHANGED <<status, alive_status, delayreport, blink, gateway>>

UploadPhase ==
  /\ pc = "upload" /\ pc' = "send"
  /\ \/ \E a \in Attrs : Upload(a)
     \/ (alive_status = 0 \/ report_flag = {}) /\ NoEvent

-----------------------------------------------------------------------------
(* BleMesh_Vendor_Send_Packet: what it publishes reaches the gateway, which *)
(* answers, or is lost.                                                     *)

Delivered(p) ==
  /\ view' = [view EXCEPT ![p.attr] = p.val]
  /\ acks' \in {acks \cup {[attr |-> p.attr, val |-> p.val]}}
               \cup (IF Lossy THEN {acks} ELSE {})
  /\ UNCHANGED missed

Lost(i, p) ==
  /\ Lossy
  /\ missed' = [missed EXCEPT ![p.attr] = @ \/ ~slots'[i].full]
  /\ UNCHANGED gateway

Publish(i) ==
  /\ SendFrom(i)
  /\ IF slots[i].pkt.kind = "property"
     THEN Delivered(slots[i].pkt) \/ Lost(i, slots[i].pkt)
     ELSE UNCHANGED <<gateway, missed>>

(* A pass within the send period does not look at the buffer.              *)
SendPhase ==
  /\ pc = "send" /\ pc' = "event"
  /\ \/ Sendable # {} /\ Publish(Lowest(Sendable))
     \/ Sendable = {} /\ SendNothing /\ UNCHANGED <<gateway, missed>>
     \/ UNCHANGED <<bufVars, gateway, missed>>
  /\ UNCHANGED <<device, blink>>

-----------------------------------------------------------------------------
(* SkyBleMesh_Prov_Success_Timeout_cb in the timer task: after the blink   *)
(* the switches are turned on, and one tick later the event is pushed.     *)
BlinkEnds ==
  /\ prov = "blink" /\ prov' = "lit"
  /\ prov_suc_report' = (prov_suc_report \/ \E a \in Attrs : status[a] # 1)
  /\ status' = [a \in Attrs |-> 1]
  /\ UNCHANGED <<pc, bufVars, report_flag, alive_status, delayreport, gateway,
                 missed>>

PushProvisioned ==
  /\ prov = "lit" /\ prov' = "ended"
  /\ UNCHANGED <<pc, bufVars, device, prov_suc_report, gateway, missed>>

Next ==
  \/ DelayedReport \/ DeviceInfo \/ BlinkEnds \/ PushProvisioned
  \/ EventPhase \/ KeyPhase \/ OnlinePhase \/ UploadPhase \/ SendPhase

Spec == Init /\ [][Next]_vars

-----------------------------------------------------------------------------
(* Nothing about a is on its way to the gateway or waiting to be made.     *)
Quiet(a) ==
  /\ alive_status = 1
  /\ a \notin report_flag
  /\ ~delayreport /\ ~prov_suc_report
  /\ \A i \in Full : slots[i].pkt.kind = "info" \/ slots[i].pkt.attr # a

(* When everything is quiet the gateway knows the state of the switch,     *)
(* unless the report of its last change was missed: on the air with the    *)
(* last try, at a full buffer, by a late answer, or as provisioning wants. *)
Informed == \A a \in Attrs : Quiet(a) /\ ~missed[a] => view[a] = status[a]
=============================================================================
