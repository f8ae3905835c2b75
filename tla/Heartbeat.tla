------------------------------ MODULE Heartbeat ------------------------------
(***************************************************************************)
(* How a switch knows whether its gateway is there: Main_Check_Online and  *)
(* what the main loop and the receive callback do to its counters          *)
(* (app_skyiot_server.c), a network that loses pings, and a gateway that   *)
(* goes and comes back.  The ticks of the code are modelled by their ages, *)
(* which is all that is read of them; an age of GatewayMs or more is       *)
(* GatewayMs.  What the difference of two ticks is worth when the counter  *)
(* wraps is in TickArith.                                                  *)
(***************************************************************************)
EXTENDS Integers

CONSTANTS
  CheckMs,    \* 150: Main_Check_Online does nothing more often
  AliveMs,    \* DEFAULT_SKYIOT_ALIVE_MS
  GatewayMs,  \* DEFAULT_GATEWAY_ALIVE_MS
  Wakeups,    \* DEFAULT_WAKEUP_ALIVE_CNT
  FilterMs,   \* the second in which Pop_Msg_From_FIFO drops a repeat
  LateMs,     \* bound: longest time between two checks
  TripMs,     \* bound: longest time from a ping to its answer
  MaxLost     \* bound: pings lost although the gateway is there

ASSUME HeartbeatAssumption ==
  /\ {CheckMs, AliveMs, GatewayMs, Wakeups, FilterMs, LateMs, TripMs}
       \subseteq Nat \ {0}
  /\ MaxLost \in Nat
  /\ CheckMs <= LateMs
  /\ FilterMs + CheckMs <= AliveMs
  /\ AliveMs + 2 * LateMs + TripMs + FilterMs <= GatewayMs
  /\ AliveMs + CheckMs + Wakeups * LateMs <= GatewayMs

VARIABLES
  alive_status,      \* 1 while the gateway is thought to be there
  alive_wakeup_cnt,
  alivetick,         \* age of the last check
  send_alive_tick,   \* age of the last ping
  recv_alive_tick,   \* age of the last sign of life
  keepalive,         \* an EVENT_TYPE_KEEPALIVE waits in the event FIFO
  air,               \* ages of the pings that are under way
  provisioned,       \* the provisioned event has been handled
  gone,              \* the gateway is not there
  lost,              \* pings lost although it is
  asked,             \* history: pings since the last sign of life
  missed,            \* history: one of those was lost
  lag                \* history: if it was an answer, the age of the last ping

counters == <<alive_status, alive_wakeup_cnt, alivetick, send_alive_tick,
              recv_alive_tick>>
network == <<keepalive, provisioned, air, gone, lost>>
history == <<asked, missed, lag>>
vars == <<counters, network, history>>

Ages == 0 .. GatewayMs
Older(age) == IF age < GatewayMs THEN age + 1 ELSE age

(* SkyBleMesh_App_Init; the ticks are 0, and so is the clock.              *)
Init ==
  /\ alive_status = 0 /\ alive_wakeup_cnt = 0
  /\ alivetick = 0 /\ send_alive_tick = 0 /\ recv_alive_tick = 0
  /\ keepalive = FALSE /\ air = {}
  /\ provisioned \in BOOLEAN /\ gone \in BOOLEAN /\ lost = 0
  /\ asked = 0 /\ missed = FALSE /\ lag = 0

-----------------------------------------------------------------------------
(* A pass of the main loop: Main_Event_Handle takes one event, and then    *)
(* Main_Check_Online looks at what is left.                                *)

(* The check finds the status and the age of the last sign of life.  With  *)
(* the count below its limit it pings an absent gateway each time, and a   *)
(* silent one; else it pings once in AliveMs and begins to count.          *)
GivesUpAsking(status, silence) ==                               \* mutant
  \/ alive_wakeup_cnt < Wakeups /\ (status = 0 \/ silence >= AliveMs)
  \/ alive_wakeup_cnt = Wakeups /\ status = 1 /\ send_alive_tick >= AliveMs
Asks(status, silence) ==
  \/ alive_wakeup_cnt < Wakeups /\ (status = 0 \/ silence >= AliveMs)
  \/ alive_wakeup_cnt = Wakeups /\ send_alive_tick >= AliveMs

CountsOn(status, silence) == alive_wakeup_cnt + 1               \* mutant
AsksOnce(status, silence) ==                                    \* mutant
  IF alive_wakeup_cnt < Wakeups THEN alive_wakeup_cnt + 1 ELSE Wakeups
NextCount(status, silence) ==
  IF alive_wakeup_cnt < Wakeups THEN alive_wakeup_cnt + 1
  ELSE IF Asks(status, silence) THEN 1 ELSE alive_wakeup_cnt

SincePing(silence) == send_alive_tick >= GatewayMs              \* mutant
TooSoon(silence) == silence >= AliveMs                          \* mutant
Silent(silence) == silence >= GatewayMs

(* Going offline sets both ticks to 0, which is GatewayMs ago or more.     *)
Check(status, silence) ==
  LET asks == Asks(status, silence)
      offline == status = 1 /\ Silent(silence)
  IN /\ alive_status' = IF offline THEN 0 ELSE status
     /\ alive_wakeup_cnt' = NextCount(status, silence)
     /\ alivetick' = 0
     /\ send_alive_tick' = IF offline THEN GatewayMs
                           ELSE IF asks THEN 0 ELSE send_alive_tick
     /\ recv_alive_tick' = IF offline THEN GatewayMs ELSE silence
     /\ air' = IF asks THEN air \cup {0} ELSE air

NoCheck(status, silence) ==
  /\ alive_status' = status
  /\ recv_alive_tick' = silence
  /\ UNCHANGED <<alive_wakeup_cnt, alivetick, send_alive_tick, air>>

CheckOnline(status, silence) ==
  IF alivetick >= CheckMs THEN Check(status, silence)
                          ELSE NoCheck(status, silence)

(* An event that counts as a sign of life, and one that does not.          *)
SignOfLife(age) ==
  /\ CheckOnline(1, 0)
  /\ asked' = IF air' # air THEN 1 ELSE 0
  /\ missed' = FALSE
  /\ lag' = age

Nothing ==
  /\ CheckOnline(alive_status, recv_alive_tick)
  /\ asked' = IF air' # air /\ asked < Wakeups THEN asked + 1 ELSE asked
  /\ UNCHANGED <<missed, lag>>

(* A repeated KEEPALIVE is dropped for a second after the one before.      *)
HandleKeepAlive ==
  /\ keepalive /\ keepalive' = FALSE
  /\ \/ SignOfLife(send_alive_tick)
     \/ alive_status = 1 /\ recv_alive_tick < FilterMs /\ Nothing
  /\ UNCHANGED <<provisioned, gone, lost>>

(* The provisioned event calls Reset_iotmanager_para whatever the status.  *)
HandleProvisioned ==
  /\ ~keepalive
  /\ ~provisioned /\ provisioned' = TRUE
  /\ SignOfLife(GatewayMs)
  /\ UNCHANGED <<keepalive, gone, lost>>

(* UPDATE_PROPERTY and GET_PROPERTY do when the device is offline.         *)
HandleCommand ==
  /\ ~keepalive
  /\ ~gone /\ alive_status = 0
  /\ SignOfLife(GatewayMs)
  /\ UNCHANGED <<keepalive, provisioned, gone, lost>>

HandleNothing ==
  /\ ~keepalive
  /\ Nothing
  /\ UNCHANGED <<keepalive, provisioned, gone, lost>>

Pass ==
  HandleKeepAlive \/ HandleProvisioned \/ HandleCommand \/ HandleNothing

-----------------------------------------------------------------------------
(* The network and the gateway.                                            *)

(* The receive callback ends the series of pings before the event of the   *)
(* answer is handled.                                                      *)
Pong(p) ==
  /\ p \in air /\ ~gone
  /\ air' = air \ {p}
  /\ alive_wakeup_cnt' = Wakeups
  /\ keepalive' = TRUE
  /\ UNCHANGED <<alive_status, alivetick, send_alive_tick, recv_alive_tick,
                 provisioned, gone, lost, history>>

Loss(p) ==
  /\ p \in air
  /\ gone \/ lost < MaxLost
  /\ lost' = IF gone THEN lost ELSE lost + 1
  /\ air' = air \ {p}
  /\ missed' = TRUE
  /\ UNCHANGED <<counters, keepalive, provisioned, gone, asked, lag>>

Resolve == \E p \in air : Pong(p) \/ Loss(p)

GatewayGoes ==
  /\ ~gone /\ gone' = TRUE
  /\ UNCHANGED <<counters, keepalive, provisioned, air, lost, history>>

GatewayReturns ==
  /\ gone /\ gone' = FALSE
  /\ UNCHANGED <<counters, keepalive, provisioned, air, lost, history>>

(* Time passes as long as the main loop is not late and no ping is old.    *)
Tick ==
  /\ alivetick < LateMs
  /\ \A p \in air : p < TripMs
  /\ alivetick' = alivetick + 1
  /\ send_alive_tick' = Older(send_alive_tick)
  /\ recv_alive_tick' = Older(recv_alive_tick)
  /\ air' = {p + 1 : p \in air}
  /\ UNCHANGED <<alive_status, alive_wakeup_cnt, keepalive, provisioned, gone,
                 lost, history>>

Next == Pass \/ Resolve \/ GatewayGoes \/ GatewayReturns \/ Tick

(* The main loop runs, time passes and no ping stays under way for ever.   *)
Fairness == WF_vars(Pass) /\ WF_vars(Resolve) /\ WF_vars(Tick)

Spec == Init /\ [][Next]_vars
FairSpec == Spec /\ Fairness

-----------------------------------------------------------------------------
(* Types, and the bounds of the ages.                                      *)
TypeOK ==
  /\ alive_status \in {0, 1}
  /\ alive_wakeup_cnt \in 0 .. Wakeups
  /\ alivetick \in 0 .. LateMs
  /\ {send_alive_tick, recv_alive_tick, lag} \subseteq Ages
  /\ air \subseteq 0 .. TripMs
  /\ {keepalive, provisioned, gone, missed} \subseteq BOOLEAN
  /\ lost \in 0 .. MaxLost
  /\ asked \in 0 .. Wakeups

GoesOffline == alive_status = 1 /\ alive_status' = 0

(* A gateway that answers is not given up, however late its answers come   *)
(* within TripMs and whatever the checks, repeated answers and the filter  *)
(* do to the counters: going offline takes a ping that was lost.           *)
AnswersKeepOnline == [][GoesOffline => missed]_vars

(* When the last sign of life was an answer within CheckMs of the last     *)
(* ping, a silent gateway is asked Wakeups times before it is given up.    *)
PromptIsAskedAgain == [][GoesOffline /\ lag <= CheckMs => asked = Wakeups]_vars

(* app_skyiot_server.c:1837, "by default the ping is sent 3 times; an      *)
(* answer clears the count" (translated): it is asked so often also when   *)
(* its last answer was not that prompt but within the time answers take.   *)
AskedAgain ==
  [][GoesOffline /\ lag <= TripMs + LateMs => asked = Wakeups]_vars

(* A gateway that is gone for good is noticed, and one that is back for    *)
(* good is found again and not given up any more.                          *)
GoneIsNoticed == <>[]gone => <>[](alive_status = 0)
BackIsFound == <>[]~gone => <>[](alive_status = 1)
=============================================================================
