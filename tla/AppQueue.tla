------------------------------ MODULE AppQueue -------------------------------
(***************************************************************************)
(* The two queues of the app task (app_task.c): IO messages wait in one,   *)
(* and for each of them a token waits in the event queue, which the tokens *)
(* of the GAP and of the mesh stack share.  A sender posts the message and *)
(* then its token; the app task receives a token and then, without         *)
(* waiting, a message.                                                     *)
(***************************************************************************)
EXTENDS Integers, Sequences, FiniteSets

CONSTANTS
  Senders,   \* contexts that send IO messages: the timer task, the BT stack
  Msgs,      \* IO messages
  NoMsg,     \* no message
  IoSize,    \* MAX_NUMBER_OF_IO_MESSAGE
  GapSize,   \* MAX_NUMBER_OF_GAP_MESSAGE
  MeshSize   \* MESH_INNER_MSG_NUM

ASSUME QueueAssumption ==
  /\ IsFiniteSet(Senders)
  /\ NoMsg \notin Msgs
  /\ IoSize \in Nat /\ GapSize \in Nat /\ MeshSize \in Nat

VARIABLES
  ioQueue,   \* io_queue_handle
  evtQueue,  \* evt_queue_handle
  owing,     \* senders whose message is queued and whose token is not
  app,       \* where the app task is in its loop
  handled,   \* the message app_handle_io_msg was called with last
  lost       \* history: a message or a token found its queue full

vars == <<ioQueue, evtQueue, owing, app, handled, lost>>

Tokens == {"io", "gap", "mesh"}

(* MAX_NUMBER_OF_EVENT_MESSAGE                                             *)
StackTokensOnly == GapSize + MeshSize                           \* mutant
EvtSize == GapSize + IoSize + MeshSize

TypeOK ==
  /\ ioQueue \in Seq(Msgs) /\ Len(ioQueue) <= IoSize
  /\ evtQueue \in Seq(Tokens)
  /\ owing \in SUBSET Senders
  /\ app \in {"waiting", "token"}
  /\ handled \in Msgs \cup {NoMsg}
  /\ lost \in SUBSET {"message", "token"}

Init ==
  /\ ioQueue = <<>> /\ evtQueue = <<>>
  /\ owing = {}
  /\ app = "waiting"
  /\ handled = NoMsg
  /\ lost = {}

PlacesIn(q, k) == {i \in 1 .. Len(q) : q[i] = k}
PlacesOf(k) == PlacesIn(evtQueue, k)

-----------------------------------------------------------------------------
(* app_send_msg_to_apptask                                                 *)

HasRoom(q) == Len(q) < IoSize

SendMessage(s, msg) ==
  /\ s \notin owing
  /\ IF HasRoom(ioQueue)
     THEN /\ ioQueue' = Append(ioQueue, msg)
          /\ owing' = owing \cup {s}
          /\ UNCHANGED lost
     ELSE /\ lost' = lost \cup {"message"}
          /\ UNCHANGED <<ioQueue, owing>>
  /\ UNCHANGED <<evtQueue, app, handled>>

SendToken(s) ==
  /\ s \in owing
  /\ owing' = owing \ {s}
  /\ IF Len(evtQueue) < EvtSize
     THEN evtQueue' = Append(evtQueue, "io") /\ UNCHANGED lost
     ELSE lost' = lost \cup {"token"} /\ UNCHANGED evtQueue
  /\ UNCHANGED <<ioQueue, app, handled>>

(* The stacks keep to the number of tokens they were given at the start.   *)
GapEvent ==
  /\ Cardinality(PlacesOf("gap")) < GapSize
  /\ evtQueue' = Append(evtQueue, "gap")
  /\ UNCHANGED <<ioQueue, owing, app, handled, lost>>

MeshEvent ==
  /\ Cardinality(PlacesOf("mesh")) < MeshSize
  /\ evtQueue' = Append(evtQueue, "mesh")
  /\ UNCHANGED <<ioQueue, owing, app, handled, lost>>

-----------------------------------------------------------------------------
(* app_main_task                                                           *)

DropsMessages(k) == "waiting"                                   \* mutant
AfterReceipt(k) == IF k = "io" THEN "token" ELSE "waiting"

ReceiveToken ==
  /\ app = "waiting"
  /\ evtQueue # <<>>
  /\ evtQueue' = Tail(evtQueue)
  /\ app' = AfterReceipt(Head(evtQueue))
  /\ UNCHANGED <<ioQueue, owing, handled, lost>>

NextMessage(q) == Head(q)

(* An empty IO queue is tolerated: the token is then gone for nothing.     *)
ReceiveMessage ==
  /\ app = "token"
  /\ IF ioQueue # <<>>
     THEN handled' = NextMessage(ioQueue) /\ ioQueue' = Tail(ioQueue)
     ELSE UNCHANGED <<handled, ioQueue>>
  /\ app' = "waiting"
  /\ UNCHANGED <<evtQueue, owing, lost>>

Send(s) == (\E msg \in Msgs : SendMessage(s, msg)) \/ SendToken(s)
AppStep == ReceiveToken \/ ReceiveMessage
Next == (\E s \in Senders : Send(s)) \/ GapEvent \/ MeshEvent \/ AppStep

(* A sender that has begun to send finishes, and the app task runs.        *)
Fairness == WF_vars(AppStep) /\ \A s \in Senders : WF_vars(SendToken(s))

Spec == Init /\ [][Next]_vars
FairSpec == Spec /\ Fairness

-----------------------------------------------------------------------------
(* app_task.c:51: the event queue has room for every token that can be     *)
(* outstanding, so no message is left in the IO queue without a token.     *)
TokenNeverLost == "token" \notin lost

(* Every queued message has a token, on its way or waiting or in the app   *)
(* task's hands: the app task is never woken for nothing, and never sleeps *)
(* while a message without a token waits.                                  *)
TokenPerMessage ==
  Len(ioQueue) = Cardinality(PlacesOf("io")) + Cardinality(owing)
                   + (IF app = "token" THEN 1 ELSE 0)

(* Both together: a message is never without its token, nor a token        *)
(* without its message, across every interleaving of the two sends.        *)
TokensMatchMessages == TokenNeverLost /\ TokenPerMessage

(* A queued message is handled, whatever the stacks and the other senders  *)
(* do: app_task.c:142-150.                                                 *)
Waits(msg) == \E i \in 1 .. Len(ioQueue) : ioQueue[i] = msg
MessageHandled == \A msg \in Msgs : Waits(msg) ~> handled = msg
=============================================================================
