-------------------------------- MODULE Relay --------------------------------
(***************************************************************************)
(* The latching relays of the fire switch (skyswitch.c).                   *)
(*                                                                         *)
(* Every switch has two coil pins.  A command writes the wanted status and *)
(* calls HAL_SwitchLed_Control, which arms a periodic software timer; the  *)
(* timer callback waits for a mains zero crossing or for WaitTicks-1       *)
(* ticks, drives one coil, and on the next tick releases it and stops.     *)
(*                                                                         *)
(* Commands run in the app task (priority 1); timer callbacks run in the   *)
(* higher-priority timer task.  A callback is therefore one atomic action, *)
(* while a command is interruptible between its accesses to shared state.  *)
(***************************************************************************)
EXTENDS Integers

CONSTANTS
  Switches,    \* the switch indexes, SKYSWITC1_ENUM .. SKYSWITC3_ENUM
  WaitTicks    \* TMP_WAIT_ZVD_SIGNAL_CNT, the tick that drives the coil

ASSUME WaitTicksAssumption == WaitTicks \in Nat /\ WaitTicks >= 2

VARIABLES
  status,   \* mSwitchManager->status: the position the program wants
  cnt,      \* enrtecnt of the callback of each switch
  oldzvd,   \* the zero-crossing level the callback saw last
  tmr,      \* SwNOnCtrl_timer: not created, dormant or active
  coil,     \* coil[s]: the positions whose coil pin is SET (1: on, 0: off)
  busy,     \* the swNtmr bit of DlpsCtrlStatu_t: the pulse forbids sleep
  app,      \* where the app task is inside HAL_SwitchLed_Control
  position, \* the contact of the latching relay (hardware)
  stale     \* history: a command came while a coil was driven, and no
            \* pulse has started from released pins since

vars == <<status, cnt, oldzvd, tmr, coil, busy, app, position, stale>>

Level == {0, 1}
AppIdle == [pc |-> "idle"]
AppStates == {AppIdle} \cup [pc : {"called", "held", "start"}, sw : Switches]

Energised == WaitTicks + 1        \* enrtecnt while a coil is driven

TypeOK ==
  /\ status   \in [Switches -> Level]
  /\ cnt      \in [Switches -> 0 .. Energised]
  /\ oldzvd   \in [Switches -> Level]
  /\ tmr      \in [Switches -> {"null", "dormant", "active"}]
  /\ coil     \in [Switches -> SUBSET Level]
  /\ busy     \in [Switches -> BOOLEAN]
  /\ app      \in AppStates
  /\ position \in [Switches -> Level]
  /\ stale    \in [Switches -> BOOLEAN]

-----------------------------------------------------------------------------
(* At power-on the contacts are wherever they were left; the application   *)
(* asks for "on" (SkyBleMesh_Start_Default_Ctrl) before any timer exists.  *)

Init ==
  /\ status   = [s \in Switches |-> 1]
  /\ cnt      = [s \in Switches |-> 0]
  /\ oldzvd   = [s \in Switches |-> 1]
  /\ tmr      = [s \in Switches |-> "null"]
  /\ coil     = [s \in Switches |-> {}]
  /\ busy     = [s \in Switches |-> FALSE]
  /\ app      = AppIdle
  /\ position \in [Switches -> Level]
  /\ stale    = [s \in Switches |-> FALSE]

(* The contact follows the coil when exactly one is driven; with both it   *)
(* may go either way, with none it stays.                                  *)
Contact(pins, old) ==
  IF pins = {} THEN {old} ELSE pins

-----------------------------------------------------------------------------
(* The app task: a command, in the order of its accesses.                  *)

(* Writing mSwitchManager->status, by the event handler or the key handler *)
Command(s, v) ==
  /\ app = AppIdle
  /\ status' = [status EXCEPT ![s] = v]
  /\ stale' = [stale EXCEPT ![s] = @ \/ cnt[s] = Energised]
  /\ app' = [pc |-> "called", sw |-> s]
  /\ UNCHANGED <<cnt, oldzvd, tmr, coil, busy, position>>

(* Switch_RelayN_tmr_ctrl_dlps(false).                                     *)
HoldAwake(s) ==
  /\ app = [pc |-> "called", sw |-> s]
  /\ busy' = [busy EXCEPT ![s] = TRUE]
  /\ app' = [pc |-> "held", sw |-> s]
  /\ UNCHANGED <<status, cnt, oldzvd, tmr, coil, position, stale>>

(* The first command creates the timer and starts it; creation may fail.   *)
CreateTimer(s) ==
  /\ app = [pc |-> "held", sw |-> s]
  /\ tmr[s] = "null"
  /\ \E made \in {"null", "active"} : tmr' = [tmr EXCEPT ![s] = made]
  /\ app' = AppIdle
  /\ UNCHANGED <<status, cnt, oldzvd, coil, busy, position, stale>>

(* plt_timer_is_active: a running pulse is left alone.                     *)
NeverRestarts(s) == FALSE                                       \* mutant
MustStart(s) == tmr[s] # "active"

TestActive(s) ==
  /\ app = [pc |-> "held", sw |-> s]
  /\ tmr[s] # "null"
  /\ app' = IF MustStart(s) THEN [pc |-> "start", sw |-> s] ELSE AppIdle
  /\ UNCHANGED <<status, cnt, oldzvd, tmr, coil, busy, position, stale>>

(* plt_timer_change_period on the dormant timer starts it.                 *)
StartTimer(s) ==
  /\ app = [pc |-> "start", sw |-> s]
  /\ tmr' = [tmr EXCEPT ![s] = "active"]
  /\ app' = AppIdle
  /\ UNCHANGED <<status, cnt, oldzvd, coil, busy, position, stale>>

-----------------------------------------------------------------------------
(* The timer task: HAL_SwNRelay_OnCtl_Timeout_cb.                          *)

Waiting(s) == cnt[s] + 1 < WaitTicks

(* Waiting for the zero crossing: the pin is read, and read again when no  *)
(* falling edge was seen.                                                  *)
WaitZvd(s) ==
  /\ tmr[s] = "active"
  /\ Waiting(s)
  /\ \E z1, z2 \in Level :
       IF z1 # oldzvd[s] /\ oldzvd[s] = 1
       THEN /\ cnt' = [cnt EXCEPT ![s] = WaitTicks - 1]
            /\ UNCHANGED oldzvd
       ELSE /\ cnt' = [cnt EXCEPT ![s] = @ + 1]
            /\ oldzvd' = [oldzvd EXCEPT ![s] = z2]
  /\ UNCHANGED <<status, tmr, coil, busy, app, position, stale>>

(* GPIO_WriteBit on the coil pin that the status of this moment selects.   *)
SetOtherPin(s) == coil[s] \cup {1 - status[s]}                  \* mutant
SetPin(s) == coil[s] \cup {status[s]}

ResetPin(s) == coil[s] \ {status[s]}

Drive(s, pins) ==
  /\ coil' = [coil EXCEPT ![s] = pins]
  /\ \E p \in Contact(pins, position[s]) :
       position' = [position EXCEPT ![s] = p]

(* Count WaitTicks drives the coil and counts one more.                    *)
Energise(s) ==
  /\ tmr[s] = "active"
  /\ cnt[s] + 1 = WaitTicks
  /\ Drive(s, SetPin(s))
  /\ cnt' = [cnt EXCEPT ![s] = Energised]
  /\ stale' = [stale EXCEPT ![s] = @ /\ coil[s] # {}]
  /\ UNCHANGED <<status, oldzvd, tmr, busy, app>>

TimerNotStopped(s) == UNCHANGED tmr                             \* mutant
StopTimer(s) == tmr' = [tmr EXCEPT ![s] = "dormant"]

HoldForgotten(s) == UNCHANGED busy                              \* mutant
AllowSleep(s) == busy' = [busy EXCEPT ![s] = FALSE]

CountKept(s) == UNCHANGED cnt                                   \* mutant
ResetCount(s) == cnt' = [cnt EXCEPT ![s] = 0]

(* The count after it releases the coil, stops the timer and allows sleep. *)
Release(s) ==
  /\ tmr[s] = "active"
  /\ cnt[s] + 1 > WaitTicks
  /\ Drive(s, ResetPin(s))
  /\ StopTimer(s)
  /\ AllowSleep(s)
  /\ ResetCount(s)
  /\ UNCHANGED <<status, oldzvd, app, stale>>

(* The last blink of SkyBleMesh_Prov_Success_Timeout_cb, also in the timer *)
(* task: every switch that is off is switched on, with the same steps as a *)
(* command but uninterrupted, and its status written last.                 *)
ProvisionedOn ==
  LET off == {s \in Switches : status[s] # 1}
  IN /\ off # {}
     /\ \E failed \in SUBSET {s \in off : tmr[s] = "null"} :
          tmr' = [s \in Switches |->
                   IF s \in off \ failed THEN "active" ELSE tmr[s]]
     /\ busy' = [s \in Switches |-> busy[s] \/ s \in off]
     /\ status' = [s \in Switches |-> 1]
     /\ stale' = [s \in Switches |->
                    stale[s] \/ (s \in off /\ cnt[s] = Energised)]
     /\ UNCHANGED <<cnt, oldzvd, coil, app, position>>

-----------------------------------------------------------------------------
AppStep(s) ==
  \/ HoldAwake(s)
  \/ CreateTimer(s)
  \/ TestActive(s)
  \/ StartTimer(s)

Tick(s) ==
  \/ WaitZvd(s)
  \/ Energise(s)
  \/ Release(s)

Next ==
  \/ \E s \in Switches, v \in Level : Command(s, v)
  \/ \E s \in Switches : AppStep(s)
  \/ \E s \in Switches : Tick(s)
  \/ ProvisionedOn

Spec == Init /\ [][Next]_vars

(* The timer task fires every active timer and the app task runs when it   *)
(* is ready; nobody is obliged to send a command.                          *)
Fairness == \A s \in Switches : WF_vars(AppStep(s)) /\ WF_vars(Tick(s))

FairSpec == Spec /\ Fairness

-----------------------------------------------------------------------------
(* Safety.                                                                 *)

(* A pulse that has started counting always has its timer running: no      *)
(* interleaving of a command with the callback strands it half-way, with   *)
(* the coil driven and nobody left to release it.                          *)
PulseHasTimer == \A s \in Switches : cnt[s] # 0 => tmr[s] = "active"

(* Outside the driven tick a coil pin is SET only because a command        *)
(* arrived while a coil was driven; every other interleaving of commands   *)
(* and callbacks (before, around and after the pulse) releases both pins.  *)
LeftoverOnlyFromOverlap ==
  \A s \in Switches : coil[s] # {} /\ cnt[s] # Energised => stale[s]

(* With the same exception both coils of a switch are never driven at once *)
(* and the driven one is the one the program wants.                        *)
DrivesTheStatus ==
  \A s \in Switches :
    cnt[s] = Energised /\ ~stale[s] => coil[s] = {status[s]}

(* Both together: unless a command overlapped a driven coil, the pins of a *)
(* switch are SET exactly during the driven tick, and for its status only. *)
CoilIsWanted == LeftoverOnlyFromOverlap /\ DrivesTheStatus

(* The program knows where the contact is: once the pulse of a switch is   *)
(* over and no command is under way, the contact is at the status that is  *)
(* reported to the gateway, unless a command overlapped a driven coil.     *)
AtRest(s) == tmr[s] = "dormant" /\ (app = AppIdle \/ app.sw # s)

ContactIsStatus ==
  \A s \in Switches : AtRest(s) /\ ~stale[s] => position[s] = status[s]

-----------------------------------------------------------------------------
(* Liveness.                                                               *)

(* Every pulse ends, however commands interleave with it.                  *)
PulseEnds ==
  \A s \in Switches : tmr[s] = "active" ~> tmr[s] = "dormant"

(* The sleep hold of a relay whose timer exists is always let go, so a     *)
(* relay alone cannot keep the chip awake forever.                         *)
HoldLetGo ==
  \A s \in Switches : busy[s] /\ tmr[s] # "null" ~> ~busy[s]

-----------------------------------------------------------------------------
(* What a comment of the source says, and the code does not do.            *)

(* skyswitch.c:295, "0~4: tmr count, 5: on, 6: off": the count after "on"  *)
(* switches the coil off.                                                  *)
OffAfterOn ==
  [][\A s \in Switches :
       cnt[s] = Energised /\ cnt'[s] = 0 => coil'[s] = {}]_vars
=============================================================================
