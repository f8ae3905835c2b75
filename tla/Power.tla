------------------------------- MODULE Power -------------------------------
(***************************************************************************)
(* When the chip sleeps (app_skyiot_dlps.c, app_skyiot_server.c:1247-1293, *)
(* 2096-2133).  Two 50 ms timers send messages to the app task, one that   *)
(* runs the main loop and the key scan and one that asks whether the chip  *)
(* may sleep.  The answer is a word of hold bits; at zero the idle hook    *)
(* enters DLPS.  Before that the app task has stopped both timers: only    *)
(* waking up starts them again.                                            *)
(*                                                                         *)
(* The timer task has the higher priority: its callbacks run at any moment *)
(* of a pass of the main loop, and a callback is one step.                 *)
(***************************************************************************)
EXTENDS KeyScan, Sequences, FiniteSets

CONSTANTS
  StartTicks, \* the 100 ticks after a reset without sleep checks
  QueueSize   \* MAX_NUMBER_OF_IO_MESSAGE

ASSUME PowerAssumption == StartTicks \in Nat /\ QueueSize \in Nat

VARIABLES
  bits,       \* DlpsCtrlStatu_t, the bits that are set
  main,       \* the main loop timer runs
  dlps,       \* the timer of the sleep check exists
  startdelay,
  turn,       \* the timer that expires next
  queue,      \* timer messages to the app task
  app,        \* idle, or in a pass, inside the command of an event or a key
  hold,       \* the one-shot timer that ends the hold after a boot
  pulse,      \* the relay timer runs
  due,        \* a report is due: SkyBleMesh_Is_No_ReportMsg is false
  event,      \* a received command is in the event FIFO
  provisioned,
  pins,       \* the keys that are down
  asleep,
  unheld,     \* history: the relay timer ended inside a command, after the
              \* command had taken its hold and before it tested the timer
  late        \* history: a sleep check was still queued when the timers were
              \* stopped, and the chip has not slept since

timers == <<main, dlps, startdelay, turn, hold>>
world == <<event, provisioned, pins, asleep>>
history == <<unheld, late>>
vars == <<keyVars, bits, timers, queue, app, pulse, due, world, history>>

Bits == {"dlpstmr", "io", "unprov", "report", "swtmr"}
Msgs == {"main", "dlps", "unprov"}

TypeOK ==
  /\ KeyTypeOK
  /\ bits \in SUBSET Bits
  /\ main \in BOOLEAN /\ dlps \in BOOLEAN
  /\ startdelay \in 0 .. StartTicks
  /\ turn \in {"main", "dlps"}
  /\ queue \in Seq(Msgs) /\ Len(queue) <= QueueSize
  /\ app \in {"idle", "event", "key"}
  /\ hold \in {"none", "timer", "sent", "refused"}
  /\ pulse \in BOOLEAN /\ due \in BOOLEAN
  /\ event \in BOOLEAN /\ provisioned \in BOOLEAN
  /\ pins \in SUBSET Keys
  /\ asleep \in BOOLEAN
  /\ unheld \in BOOLEAN /\ late \in BOOLEAN

(* After driver_init and the start of app_main_task: the switch has been   *)
(* turned on, and an unprovisioned device holds the chip awake to be found.*)
Init ==
  /\ KeyInit
  /\ provisioned \in BOOLEAN
  /\ hold = IF provisioned THEN "none" ELSE "timer"
  /\ bits = {"dlpstmr", "swtmr"}
              \cup (IF provisioned THEN {} ELSE {"unprov"})
  /\ main = TRUE /\ dlps = TRUE
  /\ startdelay = StartTicks /\ turn = "main"
  /\ queue = <<>> /\ app = "idle"
  /\ pulse = TRUE
  /\ due = FALSE /\ event = FALSE
  /\ pins = {}
  /\ asleep = FALSE
  /\ unheld = FALSE /\ late = FALSE

-----------------------------------------------------------------------------
(* The timer task.  The two periodic timers have one period and are always *)
(* started together, the main loop's first, so that they expire in turn.   *)

(* app_send_msg_to_apptask: a full queue refuses the message, and nobody   *)
(* looks at the result.                                                    *)
HasRoom == Len(queue) < QueueSize
Post(m) == queue' = IF HasRoom THEN Append(queue, m) ELSE queue

MainTick ==
  /\ ~asleep /\ main /\ turn = "main" /\ turn' = "dlps"
  /\ Post("main")
  /\ UNCHANGED <<keyVars, bits, main, dlps, startdelay, hold, app, pulse, due,
                 world, history>>

DlpsTick ==
  /\ ~asleep /\ dlps /\ turn = "dlps" /\ turn' = "main"
  /\ IF startdelay > 0
     THEN startdelay' = startdelay - 1 /\ UNCHANGED queue
     ELSE Post("dlps") /\ UNCHANGED startdelay
  /\ UNCHANGED <<keyVars, bits, main, dlps, hold, app, pulse, due, world,
                 history>>

(* SkyBleMesh_Unprov_Timeout_cb                                            *)
HoldExpires ==
  /\ ~asleep /\ hold = "timer"
  /\ hold' = IF HasRoom THEN "sent" ELSE "refused"
  /\ Post("unprov")
  /\ UNCHANGED <<keyVars, bits, main, dlps, startdelay, turn, app, pulse, due,
                 world, history>>

(* The last tick of the relay timer: it stops the timer and lets go of the *)
(* hold, whoever has taken it.                                             *)
RelayEnds ==
  /\ ~asleep /\ pulse /\ pulse' = FALSE
  /\ bits' = bits \ {"swtmr"}
  /\ unheld' = (app # "idle")
  /\ UNCHANGED <<keyVars, timers, queue, app, due, world, late>>

-----------------------------------------------------------------------------
(* The app task: SkyBleMesh_Handle_SwTmr_msg.                              *)

Receive(m) ==
  /\ ~asleep /\ app = "idle" /\ queue # <<>> /\ Head(queue) = m
  /\ queue' = Tail(queue)

(* A pass of the main loop handles one event and then the key message: a   *)
(* received command may switch the relay, a short press does.  The reset   *)
(* that follows a long press is not modelled here.                         *)
MaySwitch == event
MustSwitch == keymsg.mode = "short"

(* HAL_SwitchLed_Control: first the hold,                                  *)
TakeHold(why) ==
  /\ bits' = bits \cup {"swtmr"}
  /\ unheld' = FALSE
  /\ app' = why

(* then the timer, which is started unless it runs.                        *)
StartPulse == pulse' = TRUE

(* The end of a pass, with the scan of the keys.  A provisioned device may *)
(* be left with a report that is due, of a switch, a heartbeat, an answer. *)
EndPass ==
  /\ app' = "idle"
  /\ due' \in (IF provisioned THEN BOOLEAN ELSE {FALSE})
  /\ Scan(pins)
  /\ UNCHANGED <<bits, unheld>>

HandleMain ==
  /\ Receive("main")
  /\ \/ MaySwitch /\ TakeHold("event") /\ UNCHANGED <<keyVars, due>>
     \/ MustSwitch /\ TakeHold("key") /\ UNCHANGED <<keyVars, due>>
     \/ ~MustSwitch /\ EndPass
  /\ event' = FALSE
  /\ UNCHANGED <<timers, pulse, provisioned, pins, asleep, late>>

Command ==
  /\ app # "idle" /\ StartPulse
  /\ IF app = "event" /\ MustSwitch
     THEN TakeHold("key") /\ UNCHANGED <<keyVars, due>>
     ELSE EndPass
  /\ UNCHANGED <<timers, queue, world, late>>

(* SkyBleMesh_EnterDlps_TmrCnt_Handle: the bits it reads from the device,  *)
(* and the stop of both timers once nothing but its own bit is left.       *)
Reread(held) ==
  (held \ {"report", "io"}) \cup (IF due THEN {"report"} ELSE {})
                            \cup (IF Is_Relese(pins) THEN {} ELSE {"io"})

IgnoresHold(held) == held \ {"unprov"} = {"dlpstmr"}             \* mutant
JustWaiting(held) == held = {"dlpstmr"}

Queued(m) == \E i \in 1 .. Len(queue) : queue[i] = m

HandleDlps ==
  /\ Receive("dlps")
  /\ IF JustWaiting(Reread(bits))
     THEN /\ main' = FALSE /\ dlps' = FALSE
          /\ bits' = Reread(bits) \ {"dlpstmr"}
          /\ late' = Queued("dlps")'
     ELSE bits' = Reread(bits) /\ UNCHANGED <<main, dlps, late>>
  /\ UNCHANGED <<keyVars, startdelay, turn, hold, app, pulse, due, world,
                 unheld>>

HandleUnprov ==
  /\ Receive("unprov") /\ hold' = "none"
  /\ bits' = bits \ {"unprov"}
  /\ UNCHANGED <<keyVars, main, dlps, startdelay, turn, app, pulse, due, world,
                 history>>

-----------------------------------------------------------------------------
(* Sleeping and waking.                                                    *)

(* app_dlps_check_cb, asked by the idle hook when the app task has nothing *)
(* to do.                                                                  *)
IgnoresRelay == bits \subseteq {"swtmr"}                        \* mutant
MaySleep == bits = {}

Sleep ==
  /\ ~asleep /\ queue = <<>> /\ app = "idle" /\ MaySleep
  /\ asleep' = TRUE /\ late' = FALSE
  /\ UNCHANGED <<keyVars, bits, timers, queue, app, pulse, due, event,
                 provisioned, pins, unheld>>

(* SkyBleMesh_ExitDlps_cfg: a wake-up interrupt of a key holds the chip.   *)
StaysDeleted == dlps' = FALSE                                   \* mutant
Recreates == dlps' = TRUE
StaysStopped == main' = FALSE                                   \* mutant
Restarts == main' = TRUE

WakeUp(why) ==
  /\ asleep /\ asleep' = FALSE
  /\ Restarts /\ Recreates /\ turn' = "main"
  /\ bits' = bits \cup {"dlpstmr"} \cup why
  /\ UNCHANGED <<keyVars, startdelay, hold, queue, app, pulse, due, event,
                 provisioned, pins, history>>

WakeByKey == pins # {} /\ WakeUp({"io"})
WakeByRadio == WakeUp({})

(* The BT stack hears a command while the chip is awake.                   *)
Hear ==
  /\ ~asleep /\ provisioned /\ event' = TRUE
  /\ UNCHANGED <<keyVars, bits, timers, queue, app, pulse, due, provisioned,
                 pins, asleep, history>>

MoveKeys ==
  /\ \E p \in SUBSET Keys : pins' = p /\ p # pins
  /\ UNCHANGED <<keyVars, bits, timers, queue, app, pulse, due, event,
                 provisioned, asleep, history>>

TimerTask == MainTick \/ DlpsTick \/ HoldExpires \/ RelayEnds
AppTask == HandleMain \/ Command \/ HandleDlps \/ HandleUnprov
Next ==
  \/ TimerTask \/ AppTask
  \/ Sleep \/ WakeByKey \/ WakeByRadio
  \/ Hear \/ MoveKeys

Spec == Init /\ [][Next]_vars

(* Timers run out, the app task handles its messages, an idle chip sleeps, *)
(* a pressed key wakes it, and so does the scan of a provisioned device.   *)
FairSpec ==
  /\ Spec
  /\ WF_vars(MainTick) /\ WF_vars(DlpsTick) /\ WF_vars(HoldExpires)
  /\ WF_vars(RelayEnds)
  /\ WF_vars(AppTask)
  /\ WF_vars(Sleep) /\ WF_vars(WakeByKey)
  /\ WF_vars(provisioned /\ WakeByRadio)

-----------------------------------------------------------------------------
(* With both timers stopped nothing reads the keys or asks for sleep, so   *)
(* only a bit that someone else clears may hold the chip awake: otherwise  *)
(* the switch is dead until its power is cut.  That happens only when the  *)
(* app task was so far behind that a second sleep check waited behind the  *)
(* one that stopped the timers.                                            *)
AwakeRuns == ~asleep /\ ~main => bits \subseteq {"swtmr"} \/ late

(* Asleep, nobody is waited for, the timers that the wake-up must start    *)
(* anew are really stopped, and no coil is driven: except by the pulse of  *)
(* a command that lost its hold to the end of the pulse before, between    *)
(* taking the hold and testing the timer (skyswitch.c:445-453).            *)
SleepIsQuiet ==
  asleep => /\ pulse => unheld
            /\ hold # "timer" /\ ~main /\ ~dlps
            /\ queue = <<>> /\ app = "idle"

(* Dead: awake without timers, and no message left to change that.         *)
Stranded ==
  /\ ~asleep /\ ~main /\ ~dlps /\ queue = <<>>
  /\ ~(bits \subseteq {"swtmr"})

(* The app task catches up now and then, however far it falls behind.      *)
CatchesUp == []<>(queue = <<>>)

(* A device that is left alone goes back to sleep, again and again, unless *)
(* it is stranded or the message that ends its first hold was refused.     *)
LeftAlone == pins = {} /\ ~due /\ ~event
SleepsAgain ==
  CatchesUp /\ <>[]LeftAlone =>
    []<>asleep \/ <>Stranded \/ <>(hold = "refused")

(* Keys that go down, asleep or awake, become a message to the main loop   *)
(* unless one of them is let go or another one joins them, or the device   *)
(* is stranded.                                                            *)
PressSeen ==
  CatchesUp =>
    \A p \in SUBSET Keys \ {{}} :
      keystatus = "init" /\ pins = p
        ~> keymsg # NoMsg \/ pins # p \/ Stranded

(* A command that was received is handled, also when the chip went to      *)
(* sleep before: the sleep check does not look at the event FIFO.          *)
CommandHandled == CatchesUp => (event ~> ~event \/ Stranded)
=============================================================================
