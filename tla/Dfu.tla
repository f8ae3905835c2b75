--------------------------------- MODULE Dfu ----------------------------------
(***************************************************************************)
(* A firmware update from device to device: the client (dfu_client.c), the *)
(* link, and the server of DfuServer.  A control point request is answered *)
(* twice, by the response to the write and by a notification, in either    *)
(* order; the client handles the notification after the response and keeps *)
(* it until then.  The link may be lost and the server may restart at any  *)
(* time.                                                                   *)
(***************************************************************************)
EXTENDS DfuServer

CONSTANTS
  Mtu,        \* bytes of an image in a packet
  Burst,      \* packets pushed before the first is reported sent
  Credits,    \* packets the stack takes at once
  Newer,      \* the image of which the client holds a newer version
  NoMsg,      \* no message
  MaxLosses   \* bound: links lost and restarts nobody asked for

ASSUME LinkAssumption ==
  /\ {Mtu, Burst, Credits} \subseteq Nat \ {0}
  /\ Mtu <= BufferSize
  /\ Newer \in {"app", "patch"}
  /\ MaxLosses \in Nat

VARIABLES
  signature,  \* dfu_ctx.signature of the client
  pushed,     \* dfu_ctx.curr_offset of the client
  length,     \* dfu_ctx.image_length of the client
  pkt_count,  \* buffer_check_pkt_count
  sum,        \* buffer_check_crc
  fsm,        \* dfu_fsm_write
  cached,     \* CpMsg
  burst,      \* pushes the running handler has still to make
  up,         \* the link
  requests,   \* written by the client and not seen by the server
  answers,    \* notified by the server and not seen by the client
  response,   \* the response to the last request is on its way
  pending,    \* packets not yet reported as sent
  restarting, \* mesh_reboot has been called
  updated,    \* the server runs the new image
  losses,
  stale       \* history: what the session found of an earlier one

client == <<signature, pushed, length, pkt_count, sum, fsm, cached, burst>>
link == <<up, requests, answers, response, pending>>
fate == <<restarting, updated, losses, stale>>
vars == <<server, client, link, fate>>

Msg(op, arg) == [op |-> op, arg |-> arg]

buffer_check_pkt_num == BufferSize \div Mtu

Init ==
  /\ ServerInit
  /\ signature = "app" /\ pushed = 0 /\ length = 0
  /\ pkt_count = 0 /\ sum = <<>>
  /\ fsm = "idle" /\ cached = NoMsg /\ burst = 0
  /\ up = FALSE /\ requests = <<>> /\ answers = <<>>
  /\ response = FALSE /\ pending = 0
  /\ restarting = FALSE /\ updated = FALSE
  /\ losses = 0 /\ stale = {}

-----------------------------------------------------------------------------
(* The client.  A handler runs to its end before the next one.             *)

Request(msg) == requests' = Append(requests, msg) /\ fsm' = "wait"

SameImage == UNCHANGED <<signature, pushed, length, pkt_count, sum, burst>>

(* dfu_client_handle_cp_msg                                                *)
HandleTarget(newest) ==
  IF newest
  THEN /\ IF signature = "app"
          THEN signature' = "patch" /\ Request(Msg("target", "patch"))
          ELSE fsm' = "idle" /\ UNCHANGED <<signature, requests>>
       /\ UNCHANGED <<pushed, length>>
  ELSE /\ Request(Msg("start", signature))
       /\ pushed' = Header
       /\ length' = ImageLength
       /\ UNCHANGED signature

HandleCheck ==
  /\ pkt_count' = 0
  /\ burst' = Burst
  /\ fsm' = "idle"
  /\ UNCHANGED <<signature, pushed, length, sum, requests>>

KeepsItsOffset(offset) == pushed                                \* mutant
GoesOnFrom(offset) == offset

HandleCrc(offset) ==
  /\ pushed' = GoesOnFrom(offset)
  /\ IF length > GoesOnFrom(offset)
     THEN burst' = 1 /\ fsm' = "idle" /\ UNCHANGED requests
     ELSE Request(Msg("valid", signature)) /\ UNCHANGED burst
  /\ UNCHANGED <<signature, length, pkt_count, sum>>

HandleCpMsg(msg) ==
  CASE msg.op = "target" -> HandleTarget(msg.arg)
                            /\ UNCHANGED <<pkt_count, sum, burst>>
    [] msg.op = "start"  -> Request(Msg("check", 0)) /\ SameImage
    [] msg.op = "check"  -> HandleCheck
    [] msg.op = "crc"    -> HandleCrc(msg.arg)
    [] msg.op = "valid"  ->
         Request(Msg(IF msg.arg THEN "activate" ELSE "reset", 0)) /\ SameImage

(* DFU_WRITE_CP_CCCD                                                       *)
CccdWritten ==
  /\ up /\ fsm = "cccd"
  /\ signature' = "app"
  /\ Request(Msg("target", "app"))
  /\ UNCHANGED <<server, fate, pushed, length, pkt_count, sum, cached, burst,
                 up, answers, response, pending>>

(* DFU_WRITE_CP: the packets before a request are reported as sent before  *)
(* the response to it comes.                                               *)
Responded ==
  /\ up /\ response /\ burst = 0 /\ pending = 0
  /\ response' = FALSE
  /\ IF fsm = "wait" /\ cached # NoMsg
     THEN HandleCpMsg(cached)
     ELSE fsm' = (IF fsm = "wait" THEN "idle" ELSE fsm)
          /\ UNCHANGED requests /\ SameImage
  /\ cached' = IF fsm = "wait" THEN NoMsg ELSE cached
  /\ UNCHANGED <<server, fate, up, answers, pending>>

(* DFU_NOTIF_RECEIVE_DFU_CP_NOTIFY                                         *)
Notified ==
  /\ up /\ answers # <<>> /\ burst = 0
  /\ answers' = Tail(answers)
  /\ IF fsm = "idle"
     THEN HandleCpMsg(Head(answers)) /\ UNCHANGED cached
     ELSE cached' = Head(answers) /\ UNCHANGED <<fsm, requests>> /\ SameImage
  /\ UNCHANGED <<server, fate, up, response, pending>>

(* DFU_WRITE_DATA                                                          *)
DataSent ==
  /\ up /\ pending > 0 /\ burst = 0
  /\ pending' = pending - 1
  /\ burst' = IF fsm = "data" /\ length > pushed THEN 1 ELSE 0
  /\ UNCHANGED <<server, fate, signature, pushed, length, pkt_count, sum, fsm,
                 cached, up, requests, answers, response>>

(* dfu_client_push_image.  Past its end the image seems to be without end, *)
(* and a packet the stack has no credit for is lost.                       *)
PacketSize == IF pushed > length THEN Mtu ELSE Lesser(Mtu, length - pushed)

Packet(n) ==
  [i \in 1 .. n |->
     IF pushed + i - 1 \in Image THEN pushed + i - 1 ELSE Garbage]

MayPush == fsm # "wait"

Push ==
  LET n == PacketSize
      data == Packet(n)
      total == (IF pkt_count = 0 THEN <<>> ELSE sum) \o data
      count == pkt_count + 1
      last == count = buffer_check_pkt_num \/ pushed + n = length
      size == (count - 1) * Mtu + n
      crc == [op |-> "crc", arg |-> size, sum |-> total]
      sent == IF pending < Credits THEN <<Msg("data", data)>> ELSE <<>>
  IN /\ pending' = pending + Len(sent)
     /\ requests' = requests \o sent \o (IF last THEN <<crc>> ELSE <<>>)
     /\ fsm' = IF last THEN "wait" ELSE "data"
     /\ pkt_count' = IF last THEN 0 ELSE count
     /\ sum' = total
     /\ pushed' = pushed + n

PushImage ==
  /\ burst > 0
  /\ burst' = burst - 1
  /\ IF MayPush THEN Push
     ELSE UNCHANGED <<pushed, pkt_count, sum, fsm, requests, pending>>
  /\ UNCHANGED <<server, fate, signature, length, cached, up, answers,
                 response>>

-----------------------------------------------------------------------------
(* The server takes the next write.                                        *)

Served(msg) == up /\ requests # <<>> /\ Head(requests) = msg

Notify(msg) ==
  /\ answers' = Append(answers, msg)
  /\ response' = TRUE
  /\ requests' = Tail(requests)
  /\ UNCHANGED <<client, up, pending, restarting, updated, losses>>

(* What a session that begins finds of an earlier one.                     *)
Leftovers ==
  (IF resend # 0 THEN {"offset"} ELSE {})
  \cup (IF cached # NoMsg THEN {"message"} ELSE {})

(* The link goes down with whatever is on it.                              *)
Down ==
  /\ up' = FALSE /\ requests' = <<>> /\ answers' = <<>>
  /\ response' = FALSE /\ pending' = 0
  /\ burst' = 0
  /\ UNCHANGED <<signature, pushed, length, pkt_count, sum, fsm, cached>>

(* A restart runs the new image if the bank holds one that is ready.       *)
Restart ==
  /\ updated' = (updated \/ ready')
  /\ restarting' = FALSE
  /\ UNCHANGED stale

Newest(image) == image # Newer \/ updated

ServeTarget ==
  \E image \in {"app", "patch"} :
    /\ Served(Msg("target", image))
    /\ TargetInfo
    /\ Notify(Msg("target", Newest(image)))
    /\ stale' = IF image = "app" THEN Leftovers ELSE stale

ServeStart ==
  /\ \E image \in {"app", "patch"} : Served(Msg("start", image))
  /\ \/ Start /\ Notify(Msg("start", 0)) /\ UNCHANGED stale
     \/ StartFails /\ Down /\ Restart /\ UNCHANGED losses

ServeCheck ==
  /\ Served(Msg("check", 0))
  /\ BufferCheckEn
  /\ Notify(Msg("check", 0)) /\ UNCHANGED stale

ServeCrc ==
  /\ up /\ requests # <<>> /\ Head(requests).op = "crc"
  /\ BufferCheck(Head(requests).arg, Head(requests).sum)
  /\ Notify(Msg("crc", curr_offset')) /\ UNCHANGED stale

ServeValid ==
  /\ \E image \in {"app", "patch"} : Served(Msg("valid", image))
  /\ ValidFw
  /\ Notify(Msg("valid", SumMatches)) /\ UNCHANGED stale

ServeActivate ==
  /\ Served(Msg("activate", 0))
  /\ Down
  /\ restarting' = TRUE
  /\ UNCHANGED <<server, updated, losses, stale>>

ServeReset ==
  /\ Served(Msg("reset", 0))
  /\ UNCHANGED flash /\ Cleared
  /\ Down /\ Restart /\ UNCHANGED losses

ServeData ==
  /\ up /\ requests # <<>> /\ Head(requests).op = "data"
  /\ LET data == Head(requests).arg
         taken == /\ requests' = Tail(requests)
                  /\ UNCHANGED <<client, up, answers, response, pending, fate>>
     IN CASE Beyond(data) -> Ignore /\ taken
          [] ~Beyond(data) /\ (checked \/ ~Full(data)) -> Collect(data) /\ taken
          [] OTHER -> \/ WriteData(data) /\ taken
                      \/ DataFails(data) /\ Down /\ Restart /\ UNCHANGED losses

Serve ==
  \/ ServeTarget \/ ServeStart \/ ServeCheck \/ ServeCrc
  \/ ServeValid \/ ServeActivate \/ ServeReset \/ ServeData

-----------------------------------------------------------------------------
(* The link and the devices.                                               *)

(* dfu_client_handle_adv_pkt connects to a server with an older image; the *)
(* service is found and its notifications are asked for.                   *)
Connect ==
  /\ ~up /\ ~updated
  /\ restarting => losses < MaxLosses
  /\ losses' = IF restarting THEN losses + 1 ELSE losses
  /\ up' = TRUE
  /\ fsm' = "cccd"
  /\ UNCHANGED <<server, signature, pushed, length, pkt_count, sum, cached,
                 burst, requests, answers, response, pending, restarting,
                 updated, stale>>

LoseLink ==
  /\ up /\ losses < MaxLosses
  /\ losses' = losses + 1
  /\ Down
  /\ UNCHANGED <<server, restarting, updated, stale>>

Reboot ==
  /\ restarting \/ losses < MaxLosses
  /\ losses' = IF restarting THEN losses ELSE losses + 1
  /\ UNCHANGED flash /\ Cleared
  /\ Down /\ Restart

ClientStep == CccdWritten \/ Responded \/ Notified \/ DataSent \/ PushImage

Next == ClientStep \/ Serve \/ Connect \/ LoseLink \/ Reboot

(* Both devices and the link between them go on, and mesh_reboot expires.  *)
Fairness ==
  /\ WF_vars(CccdWritten) /\ WF_vars(Responded) /\ WF_vars(Notified)
  /\ WF_vars(DataSent) /\ WF_vars(PushImage) /\ WF_vars(Serve)
  /\ WF_vars(Connect)
  /\ WF_vars(restarting /\ Reboot)

Spec == Init /\ [][Next]_vars
FairSpec == Spec /\ Fairness

-----------------------------------------------------------------------------
Requests ==
  {"target", "start", "check", "crc", "valid", "activate", "reset", "data"}

(* Types, and the bound of the buffer: dfu_server_handle_data copies       *)
(* without looking at the room that is left.                               *)
DfuTypeOK ==
  /\ bank \in [Cell -> Contents]
  /\ {ready, neighbour, checked, up, response, restarting, updated}
       \subseteq BOOLEAN
  /\ faults \in 0 .. MaxFaults /\ losses \in 0 .. MaxLosses
  /\ {curr_offset, resend, pushed, pkt_count, pending, burst} \subseteq Nat
  /\ {image_length, length} \subseteq {0, ImageLength}
  /\ {buffer, sum} \subseteq Seq(Image \cup {Garbage})
  /\ Len(buffer) <= BufferSize
  /\ fsm \in {"idle", "cccd", "data", "wait"}
  /\ \A i \in 1 .. Len(requests) : requests[i].op \in Requests
  /\ stale \subseteq {"offset", "message"}

(* A session that found no message of an earlier one never leaves a header *)
(* that says ready in front of anything but the whole image: no restart,   *)
(* whenever it comes, runs half an update.                                 *)
ReadyIsWhole ==
  [][(ready => Whole) /\ "message" \notin stale => (ready => Whole)']_vars

(* In a session that found nothing of an earlier one, whatever the flash   *)
(* does, what is before the offset the server asks for is the image's.     *)
PrefixWritten ==
  stale = {} => \A o \in Image : o < curr_offset => bank[o] = o

(* Such a session does not erase what lies behind the bank, if the image   *)
(* leaves room in it: the last write of an image that fills the bank also  *)
(* erases the sector after it.                                             *)
OnlyBankErased ==
  [][stale = {} /\ ImageLength < BankSize => neighbour' = neighbour]_vars

(* The server runs the new image in the end, if the flash and the link     *)
(* fail only so many times and no answer outlives its session.             *)
UpdateArrives == []("message" \notin stale) => <>updated

=============================================================================
