----------------------------- MODULE PowerProofs -----------------------------
(***************************************************************************)
(* The key scanner in the running device: what its messages say of the     *)
(* keys, for any set of keys, any length of a long press, and whatever the *)
(* sleep check makes of the scans.  Then sleep itself, for a queue of any  *)
(* size and an app task that is as far behind as it likes.                 *)
(***************************************************************************)
EXTENDS Power, SequenceTheorems, TLAPS

(* How far a press has got and how long the scans have seen its keys: the  *)
(* run may be one scan older than the press, since the scan that ends the  *)
(* press before does not begin a new one.                                  *)
Fresh == run.on => run.n = 1
Pressed ==
  /\ run.on /\ run.keys = oldkeypress
  /\ run.n \in 1 .. 2 /\ presstime = 0
Confirmed ==
  /\ run.on /\ run.keys = oldkeypress
  /\ run.n >= presstime + 2
  /\ presstime < MaxPress => run.n <= presstime + 3
Released ==
  /\ ~run.on /\ run.keys = oldkeypress
  /\ run.n >= 2
  /\ presstime < MaxPress => run.n <= LongRun

RunMatches ==
  /\ keystatus = "init" => Fresh
  /\ keystatus = "press" => Pressed
  /\ keystatus = "confirm" => Confirmed
  /\ keystatus = "release" => Released

KeyInv == KeyTypeOK /\ RunMatches

ScanStep == \E p \in SUBSET Keys : Scan(p)

-----------------------------------------------------------------------------
(* The history of a run keeps its type.                                    *)
LEMMA RunWithType ==
  ASSUME KeyTypeOK, NEW p \in SUBSET Keys
  PROVE  RunWith(p) \in [keys : SUBSET Keys, n : 0 .. RunBound, on : BOOLEAN]
<1>1. run \in [keys : SUBSET Keys, n : 0 .. RunBound, on : BOOLEAN]
  BY DEF KeyTypeOK
<1>2. RunBound \in Nat /\ RunBound >= 1
  BY KeyAssumption DEF RunBound, LongRun
<1>3. CASE p = {}
  BY <1>1, <1>3 DEF RunWith
<1>4. CASE p # {} /\ run.on /\ run.keys = p
  BY <1>1, <1>2, <1>4 DEF RunWith
<1>5. CASE p # {} /\ ~(run.on /\ run.keys = p)
  BY <1>1, <1>2, <1>5 DEF RunWith
<1> QED
  BY <1>3, <1>4, <1>5

(* What a scan makes of the history: the run pauses, goes on or begins.    *)
LEMMA RunWithIs ==
  ASSUME KeyTypeOK, NEW p \in SUBSET Keys
  PROVE  /\ p = {} => /\ ~RunWith(p).on
                      /\ RunWith(p).keys = run.keys /\ RunWith(p).n = run.n
         /\ p # {} /\ run.on /\ run.keys = p =>
              /\ RunWith(p).on /\ RunWith(p).keys = p
              /\ RunWith(p).n = IF run.n = RunBound THEN run.n ELSE run.n + 1
         /\ p # {} /\ ~(run.on /\ run.keys = p) =>
              RunWith(p) = [keys |-> p, n |-> 1, on |-> TRUE]
BY DEF RunWith, KeyTypeOK

(* At the start nothing is pressed.                                       *)
LEMMA KeyInitInv == KeyInit => KeyInv
BY KeyAssumption
DEF KeyInit, KeyInv, KeyTypeOK, RunMatches, Fresh, RunBound, LongRun

(* A scan keeps the types.                                                 *)
LEMMA ScanType ==
  ASSUME KeyInv, NEW p \in SUBSET Keys, Scan(p)
  PROVE  KeyTypeOK'
<1>1. run' \in [keys : SUBSET Keys, n : 0 .. RunBound, on : BOOLEAN]
  BY RunWithType DEF KeyInv, Scan
<1>2. CASE ScanInit(p)
  BY <1>1, <1>2, KeyAssumption DEF KeyInv, KeyTypeOK, ScanInit
<1>3. CASE ScanPress(p)
  BY <1>1, <1>3, KeyAssumption DEF KeyInv, KeyTypeOK, ScanPress
<1>4. CASE ScanConfirm(p)
  <2>1. presstime' \in 0 .. MaxPress
    BY <1>4, KeyAssumption DEF KeyInv, KeyTypeOK, ScanConfirm, Counted
  <2>2. keymsg' \in Messages \cup {NoMsg}
    BY <1>4 DEF KeyInv, KeyTypeOK, ScanConfirm, Messages
  <2> QED
    BY <1>1, <1>4, <2>1, <2>2 DEF KeyInv, KeyTypeOK, ScanConfirm
<1>5. CASE ScanRelease
  <2>1. keymsg' \in Messages \cup {NoMsg}
    BY <1>5 DEF KeyInv, KeyTypeOK, ScanRelease, Messages
  <2> QED
    BY <1>1, <1>5, <2>1, KeyAssumption DEF KeyInv, KeyTypeOK, ScanRelease
<1> QED
  BY <1>2, <1>3, <1>4, <1>5 DEF Scan

(* A scan keeps the match between the press and the run.                   *)
LEMMA ScanMatches ==
  ASSUME KeyInv, NEW p \in SUBSET Keys, Scan(p)
  PROVE  RunMatches'
<1> USE KeyAssumption DEF LongRun, RunBound
<1>1. run' = RunWith(p)
  BY DEF Scan
<1>2. KeyTypeOK /\ RunMatches
  BY DEF KeyInv
<1>3. run.n \in 0 .. RunBound /\ presstime \in 0 .. MaxPress
  BY <1>2 DEF KeyTypeOK
<1>4. CASE ScanInit(p)
  <2>1. run.on => run.n = 1
    BY <1>2, <1>4 DEF RunMatches, Fresh, ScanInit
  <2>2. CASE p = {}
    BY <1>1, <1>2, <1>4, <2>2, RunWithIs DEF ScanInit, RunMatches, Fresh
  <2>3. CASE p # {}
    <3>1. run'.on /\ run'.keys = p /\ run'.n \in 1 .. 2
      BY <1>1, <1>2, <1>3, <2>1, <2>3, RunWithIs
    <3> QED
      BY <1>4, <2>3, <3>1 DEF ScanInit, RunMatches, Pressed
  <2> QED
    BY <2>2, <2>3
<1>5. CASE ScanPress(p)
  <2>1. Pressed
    BY <1>2, <1>5 DEF RunMatches, ScanPress
  <2>2. CASE SamePress(p)
    <3>1. run'.on /\ run'.keys = p /\ run'.n = run.n + 1
      BY <1>1, <1>2, <2>1, <2>2, RunWithIs DEF Pressed, SamePress
    <3>2. presstime' = presstime /\ oldkeypress' = p /\ keystatus' = "confirm"
      BY <1>5, <2>2 DEF ScanPress, SamePress
    <3> QED
      BY <3>1, <3>2, <2>1, <1>3 DEF RunMatches, Confirmed, Pressed
  <2>3. CASE ~SamePress(p)
    <3>1. run'.on => run'.n = 1
      BY <1>1, <1>2, <2>1, <2>3, RunWithIs DEF Pressed, SamePress
    <3> QED
      BY <1>5, <2>3, <3>1 DEF ScanPress, RunMatches, Fresh
  <2> QED
    BY <2>2, <2>3
<1>6. CASE ScanConfirm(p)
  <2>1. Confirmed
    BY <1>2, <1>6 DEF RunMatches, ScanConfirm
  <2>2. CASE SamePress(p)
    <3>1. /\ run'.on /\ run'.keys = p
          /\ run'.n = IF run.n = RunBound THEN run.n ELSE run.n + 1
      BY <1>1, <1>2, <2>1, <2>2, RunWithIs DEF Confirmed, SamePress
    <3>2. /\ presstime' = Counted /\ oldkeypress' = p
          /\ keystatus' = "confirm"
      BY <1>6, <2>2 DEF ScanConfirm, SamePress
    <3> QED
      BY <3>1, <3>2, <2>1, <1>3 DEF RunMatches, Confirmed, Counted
  <2>3. CASE p = {}
    <3>1. ~run'.on /\ run'.keys = run.keys /\ run'.n = run.n
      BY <1>1, <1>2, <2>3, RunWithIs
    <3>2. /\ presstime' = presstime /\ oldkeypress' = oldkeypress
          /\ keystatus' = "release"
      BY <1>6, <2>3 DEF ScanConfirm, SamePress
    <3> QED
      BY <3>1, <3>2, <2>1, <1>3 DEF RunMatches, Confirmed, Released
  <2>4. CASE p # {} /\ ~SamePress(p)
    <3>1. run'.on => run'.n = 1
      BY <1>1, <1>2, <2>1, <2>4, RunWithIs DEF Confirmed, SamePress
    <3> QED
      BY <1>6, <2>4, <3>1 DEF ScanConfirm, RunMatches, Fresh
  <2> QED
    BY <2>2, <2>3, <2>4
<1>7. CASE ScanRelease
  <2>1. Released
    BY <1>2, <1>7 DEF RunMatches, ScanRelease
  <2>2. run'.on => run'.n = 1
    BY <1>1, <1>2, <2>1, RunWithIs DEF Released
  <2> QED
    BY <1>7, <2>2 DEF ScanRelease, RunMatches, Fresh
<1> QED
  BY <1>4, <1>5, <1>6, <1>7 DEF Scan

-----------------------------------------------------------------------------
(* Every step of the device scans the keys or leaves the scanner alone.    *)
LEMMA StepScans ==
  ASSUME pins \in SUBSET Keys, [Next]_vars
  PROVE  [ScanStep]_keyVars /\ pins' \in SUBSET Keys
<1> USE DEF timers, world
<1>1. CASE HandleMain \/ Command
  <2>1. pins' = pins
    BY <1>1 DEF HandleMain, Command
  <2>2. Scan(pins) \/ UNCHANGED keyVars
    BY <1>1 DEF HandleMain, Command, EndPass
  <2> QED
    BY <2>1, <2>2 DEF ScanStep
<1>2. CASE HandleDlps \/ HandleUnprov \/ TimerTask
  BY <1>2 DEF HandleDlps, HandleUnprov, TimerTask, MainTick, DlpsTick,
              HoldExpires, RelayEnds
<1>3. CASE Sleep \/ WakeByKey \/ WakeByRadio \/ Hear
  BY <1>3 DEF Sleep, WakeByKey, WakeByRadio, WakeUp, Hear
<1>4. CASE MoveKeys
  BY <1>4 DEF MoveKeys
<1>5. CASE UNCHANGED vars
  BY <1>5 DEF vars
<1> QED
  BY <1>1, <1>2, <1>3, <1>4, <1>5 DEF Next, AppTask

(* Scans, and steps that do not scan, keep the invariant.                  *)
LEMMA StepKeepsKeys ==
  ASSUME KeyInv, [ScanStep]_keyVars
  PROVE  KeyInv'
<1>1. CASE ScanStep
  BY <1>1, ScanType, ScanMatches DEF ScanStep, KeyInv
<1>2. CASE UNCHANGED keyVars
  BY <1>2 DEF keyVars, KeyInv, KeyTypeOK, RunMatches, Fresh, Pressed,
              Confirmed, Released
<1> QED
  BY <1>1, <1>2

(* The scanner's types and its match hold in every state of the device.    *)
THEOREM KeysAlways == Spec => [](KeyInv /\ pins \in SUBSET Keys)
<1>1. Init => KeyInv /\ pins \in SUBSET Keys
  BY KeyInitInv DEF Init
<1>2. KeyInv /\ pins \in SUBSET Keys /\ [Next]_vars
        => (KeyInv /\ pins \in SUBSET Keys)'
  BY StepScans, StepKeepsKeys
<1> QED
  BY <1>1, <1>2, PTL DEF Spec

(* A key message names keys that were really held, a short press for two   *)
(* scans in a row and then let go, a long press for the whole time of it.  *)
THEOREM MessageAlwaysPress == Spec => MessageIsPress
<1>1. ASSUME KeyInv, [ScanStep]_keyVars
      PROVE  [ keymsg' # keymsg /\ keymsg' # NoMsg =>
                 \/ keymsg' = Short(run.keys) /\ run.n >= 2 /\ ~run.on
                 \/ /\ keymsg' = Long(run'.keys)
                    /\ run'.n >= LongRun /\ run'.on ]_keyVars
  <2> SUFFICES ASSUME ScanStep, keymsg' # NoMsg
               PROVE  \/ keymsg' = Short(run.keys) /\ run.n >= 2 /\ ~run.on
                      \/ /\ keymsg' = Long(run'.keys)
                         /\ run'.n >= LongRun /\ run'.on
    BY <1>1
  <2>1. PICK p \in SUBSET Keys : Scan(p)
    BY DEF ScanStep
  <2>2. KeyTypeOK /\ RunMatches /\ RunMatches'
    BY <1>1, <2>1, ScanMatches DEF KeyInv
  <2>3. CASE ScanConfirm(p)
    <3>1. /\ keymsg' = Long(oldkeypress) /\ oldkeypress' = oldkeypress
          /\ presstime' = MaxPress /\ keystatus' = "confirm"
      BY <2>3 DEF ScanConfirm
    <3>2. Confirmed'
      BY <2>2, <3>1 DEF RunMatches
    <3> QED
      BY <3>1, <3>2, KeyAssumption DEF Confirmed, LongRun
  <2>4. CASE ScanRelease
    BY <2>2, <2>4 DEF ScanRelease, RunMatches, Released
  <2> QED
    BY <2>1, <2>3, <2>4 DEF Scan, ScanInit, ScanPress
<1>2. KeyInv /\ pins \in SUBSET Keys /\ [Next]_vars
        => [ keymsg' # keymsg /\ keymsg' # NoMsg =>
               \/ keymsg' = Short(run.keys) /\ run.n >= 2 /\ ~run.on
               \/ keymsg' = Long(run'.keys) /\ run'.n >= LongRun /\ run'.on
           ]_keyVars
  BY <1>1, StepScans
<1> QED
  BY <1>2, KeysAlways, PTL DEF Spec, MessageIsPress

(* Letting go after a long press does not also report a short one.         *)
THEOREM AlwaysShortXorLong == Spec => ShortXorLong
<1>1. ASSUME KeyInv, [ScanStep]_keyVars
      PROVE  [ keymsg' # keymsg /\ keymsg'.mode = "short"
                 => run.n <= LongRun ]_keyVars
  <2> SUFFICES ASSUME ScanStep, keymsg'.mode = "short"
               PROVE  run.n <= LongRun
    BY <1>1
  <2>1. PICK p \in SUBSET Keys : Scan(p)
    BY DEF ScanStep
  <2>2. keymsg' # NoMsg
    BY DEF NoMsg
  <2>3. ~ScanConfirm(p)
    BY <2>2 DEF ScanConfirm, Long
  <2>4. ScanRelease
    BY <2>1, <2>2, <2>3 DEF Scan, ScanInit, ScanPress
  <2>5. Released /\ presstime < MaxPress
    BY <1>1, <2>2, <2>4 DEF ScanRelease, WasShort, KeyInv, RunMatches
  <2> QED
    BY <2>5 DEF Released
<1>2. KeyInv /\ pins \in SUBSET Keys /\ [Next]_vars
        => [ keymsg' # keymsg /\ keymsg'.mode = "short"
               => run.n <= LongRun ]_keyVars
  BY <1>1, StepScans
<1> QED
  BY <1>2, KeysAlways, PTL DEF Spec, ShortXorLong
-----------------------------------------------------------------------------
(* Sleep.  The two timers live and die together and the bit of the sleep   *)
(* check is set exactly while they do.  A pulse, and a command that is     *)
(* about to start one, have their bit unless a pulse that ended in between *)
(* took it away; the hold after a boot has its own.  A chip that sleeps    *)
(* has no bit, no message and no pass under way.                           *)
Shape ==
  /\ bits \in SUBSET Bits
  /\ queue \in Seq(Msgs)
  /\ hold \in {"none", "timer", "sent", "refused"}
  /\ app \in {"idle", "event", "key"}

Linked ==
  /\ main <=> "dlpstmr" \in bits
  /\ dlps <=> "dlpstmr" \in bits
  /\ pulse \/ app # "idle" => "swtmr" \in bits \/ unheld
  /\ hold = "timer" => "unprov" \in bits

SleepsEmpty == asleep => bits = {} /\ queue = <<>> /\ app = "idle"

PowerInv == Shape /\ Linked /\ SleepsEmpty

(* What a sleep check makes of the bits.                                   *)
LEMMA RereadKeeps ==
  ASSUME Shape
  PROVE  /\ Reread(bits) \in SUBSET Bits
         /\ \A b \in {"dlpstmr", "swtmr", "unprov"} :
              b \in Reread(bits) <=> b \in bits
BY DEF Shape, Reread, Bits

(* Receiving leaves a queue of messages.                                   *)
LEMMA ReceiveType ==
  ASSUME Shape, NEW m, Receive(m)
  PROVE  /\ queue' \in Seq(Msgs) /\ queue # <<>> /\ Head(queue) = m
         /\ queue' = Tail(queue) /\ ~asleep /\ app = "idle"
BY HeadTailProperties DEF Shape, Receive

(* So does posting, to a queue with room or without.                       *)
LEMMA PostType ==
  ASSUME Shape, NEW m \in Msgs, Post(m)
  PROVE  queue' \in Seq(Msgs)
BY AppendProperties DEF Shape, Post

(* Every step keeps the links between timers, bits and sleep.              *)
LEMMA PowerStep ==
  ASSUME PowerInv, [Next]_vars
  PROVE  PowerInv'
<1> USE DEF timers, world, history
<1>1. Shape /\ Linked /\ SleepsEmpty
  BY DEF PowerInv
<1>2. CASE MainTick
  <2>1. queue' \in Seq(Msgs)
    BY <1>1, <1>2, PostType DEF MainTick, Msgs
  <2> QED
    BY <1>1, <1>2, <2>1
    DEF MainTick, PowerInv, Shape, Linked, SleepsEmpty
<1>3. CASE DlpsTick
  <2>1. queue' \in Seq(Msgs)
    BY <1>1, <1>3, PostType DEF Shape, DlpsTick, Msgs
  <2> QED
    BY <1>1, <1>3, <2>1
    DEF DlpsTick, PowerInv, Shape, Linked, SleepsEmpty
<1>4. CASE HoldExpires
  <2>1. queue' \in Seq(Msgs)
    BY <1>1, <1>4, PostType DEF HoldExpires, Msgs
  <2> QED
    BY <1>1, <1>4, <2>1
    DEF HoldExpires, PowerInv, Shape, Linked, SleepsEmpty
<1>5. CASE RelayEnds
  BY <1>1, <1>5 DEF RelayEnds, PowerInv, Shape, Linked, SleepsEmpty
<1>6. CASE HandleMain
  <2>1. queue' \in Seq(Msgs) /\ ~asleep /\ app = "idle"
    BY <1>1, <1>6, ReceiveType DEF HandleMain
  <2>2. /\ main' = main /\ dlps' = dlps /\ hold' = hold /\ pulse' = pulse
        /\ asleep' = asleep
    BY <1>6 DEF HandleMain
  <2>3. CASE TakeHold("event") \/ TakeHold("key")
    BY <1>1, <2>1, <2>2, <2>3
    DEF TakeHold, PowerInv, Shape, Linked, SleepsEmpty, Bits
  <2>4. CASE EndPass
    BY <1>1, <2>1, <2>2, <2>4
    DEF EndPass, PowerInv, Shape, Linked, SleepsEmpty
  <2> QED
    BY <1>6, <2>3, <2>4 DEF HandleMain
<1>7. CASE Command
  <2>1. /\ main' = main /\ dlps' = dlps /\ hold' = hold /\ queue' = queue
        /\ asleep' = asleep /\ app # "idle"
    BY <1>7 DEF Command
  <2>2. CASE TakeHold("key")
    BY <1>1, <2>1, <2>2
    DEF TakeHold, PowerInv, Shape, Linked, SleepsEmpty, Bits
  <2>3. CASE EndPass
    BY <1>1, <2>1, <2>3
    DEF EndPass, PowerInv, Shape, Linked, SleepsEmpty
  <2> QED
    BY <1>7, <2>2, <2>3 DEF Command
<1>8. CASE HandleDlps
  <2>1. queue' \in Seq(Msgs) /\ ~asleep /\ app = "idle"
    BY <1>1, <1>8, ReceiveType DEF HandleDlps
  <2>2. /\ pulse' = pulse /\ hold' = hold /\ asleep' = asleep
        /\ app' = app /\ unheld' = unheld
    BY <1>8 DEF HandleDlps
  <2>3. CASE JustWaiting(Reread(bits))
    <3>1. Reread(bits) = {"dlpstmr"}
      BY <2>3 DEF JustWaiting
    <3>2. main' = FALSE /\ dlps' = FALSE /\ bits' = {}
      BY <1>8, <2>3, <3>1 DEF HandleDlps
    <3>3. (pulse => unheld) /\ hold # "timer"
      BY <1>1, <3>1, RereadKeeps DEF Linked
    <3> QED
      BY <1>1, <2>1, <2>2, <3>2, <3>3
      DEF PowerInv, Shape, Linked, SleepsEmpty
  <2>4. CASE ~JustWaiting(Reread(bits))
    <3>1. bits' = Reread(bits) /\ main' = main /\ dlps' = dlps
      BY <1>8, <2>4 DEF HandleDlps
    <3> QED
      BY <1>1, <2>1, <2>2, <3>1, RereadKeeps
      DEF PowerInv, Shape, Linked, SleepsEmpty
  <2> QED
    BY <2>3, <2>4
<1>9. CASE HandleUnprov
  <2>1. queue' \in Seq(Msgs) /\ ~asleep
    BY <1>1, <1>9, ReceiveType DEF HandleUnprov
  <2> QED
    BY <1>1, <1>9, <2>1
    DEF HandleUnprov, PowerInv, Shape, Linked, SleepsEmpty
<1>10. CASE Sleep
  BY <1>1, <1>10 DEF Sleep, MaySleep, PowerInv, Shape, Linked, SleepsEmpty
<1>11. CASE WakeByKey \/ WakeByRadio
  <2>1. PICK why \in {{"io"}, {}} : WakeUp(why)
    BY <1>11 DEF WakeByKey, WakeByRadio
  <2>2. /\ main' = TRUE /\ dlps' = TRUE /\ asleep' = FALSE
        /\ bits' = {"dlpstmr"} \cup why
        /\ UNCHANGED <<hold, queue, app, pulse, unheld>>
    BY <1>1, <2>1 DEF WakeUp, Restarts, Recreates, SleepsEmpty
  <2>3. (pulse \/ app # "idle" => unheld) /\ hold # "timer"
    BY <1>1, <2>1 DEF WakeUp, Linked, SleepsEmpty
  <2> QED
    BY <1>1, <2>2, <2>3 DEF PowerInv, Shape, Linked, SleepsEmpty, Bits
<1>12. CASE Hear \/ MoveKeys \/ UNCHANGED vars
  BY <1>1, <1>12
  DEF Hear, MoveKeys, vars, PowerInv, Shape, Linked, SleepsEmpty
<1> QED
  BY <1>2, <1>3, <1>4, <1>5, <1>6, <1>7, <1>8, <1>9, <1>10, <1>11, <1>12
  DEF Next, TimerTask, AppTask

LEMMA PowerAlways == Spec => []PowerInv
<1>1. Init => PowerInv
  BY DEF Init, PowerInv, Shape, Linked, SleepsEmpty, Bits, Msgs
<1>2. PowerInv /\ [Next]_vars => PowerInv'
  BY PowerStep
<1> QED
  BY <1>1, <1>2, PTL DEF Spec

(* Asleep, nobody is waited for, both timers are stopped, and a pulse runs *)
(* only if it lost its hold to the end of the one before, however late the *)
(* app task handles its messages.                                          *)
THEOREM SleepAlwaysQuiet == Spec => []SleepIsQuiet
<1>1. PowerInv => SleepIsQuiet
  BY DEF PowerInv, Linked, SleepsEmpty, SleepIsQuiet
<1> QED
  BY <1>1, PowerAlways, PTL

-----------------------------------------------------------------------------
(* Awake.  Once the timers are stopped, no bit but that of a pulse can be  *)
(* set again, unless a sleep check is left in the queue.                   *)
StoppedIsIdle ==
  ~main /\ ~late => bits \subseteq {"swtmr"} /\ ~Queued("dlps")

AwakeInv == PowerInv /\ StoppedIsIdle

(* Posting a message of another kind brings no sleep check.                *)
LEMMA PostKeeps ==
  ASSUME Shape, NEW m \in Msgs, Post(m), m # "dlps", ~Queued("dlps")
  PROVE  ~Queued("dlps")'
<1>1. CASE HasRoom
  <2>1. /\ Len(queue) \in Nat /\ Len(queue') = Len(queue) + 1
        /\ \A i \in 1 .. Len(queue) : queue'[i] = queue[i]
        /\ queue'[Len(queue) + 1] = m
    BY <1>1, AppendProperties DEF Shape, Post
  <2> QED
    BY <2>1 DEF Queued
<1>2. CASE ~HasRoom
  BY <1>2 DEF Post, Queued
<1> QED
  BY <1>1, <1>2

(* Nor does receiving one, and a queue without a check gives out none.     *)
LEMMA ReceiveKeeps ==
  ASSUME Shape, NEW m, Receive(m), ~Queued("dlps")
  PROVE  m # "dlps" /\ ~Queued("dlps")'
<1>1. /\ queue' = Tail(queue) /\ queue # <<>> /\ queue \in Seq(Msgs)
      /\ Head(queue) = m
  BY DEF Shape, Receive
<1>2. /\ Len(queue) \in Nat /\ Len(queue) >= 1
      /\ Len(queue') = Len(queue) - 1
      /\ \A i \in 1 .. Len(queue') : queue'[i] = queue[i + 1]
      /\ queue[1] = m
  BY <1>1, HeadTailProperties, EmptySeq
<1> QED
  BY <1>2 DEF Queued

(* Every step keeps a stopped device free of bits and of checks.           *)
LEMMA AwakeStep ==
  ASSUME AwakeInv, [Next]_vars
  PROVE  StoppedIsIdle'
<1> USE DEF timers, world, history
<1>1. Shape /\ Linked /\ SleepsEmpty /\ StoppedIsIdle
  BY DEF AwakeInv, PowerInv
<1>2. CASE MainTick
  BY <1>1, <1>2 DEF MainTick, StoppedIsIdle
<1>3. CASE DlpsTick
  <2>1. main /\ main' = main
    BY <1>1, <1>3 DEF DlpsTick, Linked
  <2> QED
    BY <2>1 DEF StoppedIsIdle
<1>4. CASE HoldExpires
  <2>1. /\ main' = main /\ bits' = bits /\ late' = late /\ Post("unprov")
        /\ "unprov" \in Msgs
    BY <1>4 DEF HoldExpires, Msgs
  <2> QED
    BY <1>1, <2>1, PostKeeps DEF StoppedIsIdle
<1>5. CASE RelayEnds
  BY <1>1, <1>5 DEF RelayEnds, StoppedIsIdle, Queued
<1>6. CASE HandleMain
  <2>1. Receive("main") /\ main' = main /\ late' = late
    BY <1>6 DEF HandleMain
  <2>2. bits' = bits \/ bits' = bits \cup {"swtmr"}
    BY <1>6 DEF HandleMain, TakeHold, EndPass
  <2> QED
    BY <1>1, <2>1, <2>2, ReceiveKeeps DEF StoppedIsIdle
<1>7. CASE Command
  <2>1. queue' = queue /\ main' = main /\ late' = late
    BY <1>7 DEF Command
  <2>2. bits' = bits \/ bits' = bits \cup {"swtmr"}
    BY <1>7 DEF Command, TakeHold, EndPass
  <2> QED
    BY <1>1, <2>1, <2>2 DEF StoppedIsIdle, Queued
<1>8. CASE HandleDlps
  <2>1. Receive("dlps")
    BY <1>8 DEF HandleDlps
  <2>2. CASE JustWaiting(Reread(bits))
    <3>1. bits' = {} /\ late' = Queued("dlps")'
      BY <1>8, <2>2 DEF HandleDlps, JustWaiting
    <3> QED
      BY <3>1 DEF StoppedIsIdle
  <2>3. CASE ~JustWaiting(Reread(bits))
    <3>1. main' = main /\ late' = late
      BY <1>8, <2>3 DEF HandleDlps
    <3>2. main \/ late
      BY <1>1, <2>1, ReceiveKeeps DEF StoppedIsIdle
    <3> QED
      BY <3>1, <3>2 DEF StoppedIsIdle
  <2> QED
    BY <2>2, <2>3
<1>9. CASE HandleUnprov
  <2>1. /\ Receive("unprov") /\ main' = main /\ late' = late
        /\ bits' = bits \ {"unprov"}
    BY <1>9 DEF HandleUnprov
  <2> QED
    BY <1>1, <2>1, ReceiveKeeps DEF StoppedIsIdle
<1>10. CASE Sleep
  <2>1. bits' = {} /\ queue' = <<>>
    BY <1>10 DEF Sleep, MaySleep
  <2>2. ~Queued("dlps")'
    BY <2>1 DEF Queued
  <2> QED
    BY <2>1, <2>2 DEF StoppedIsIdle
<1>11. CASE WakeByKey \/ WakeByRadio
  BY <1>11 DEF WakeByKey, WakeByRadio, WakeUp, Restarts, StoppedIsIdle
<1>12. CASE Hear \/ MoveKeys \/ UNCHANGED vars
  BY <1>1, <1>12 DEF Hear, MoveKeys, vars, StoppedIsIdle, Queued
<1> QED
  BY <1>2, <1>3, <1>4, <1>5, <1>6, <1>7, <1>8, <1>9, <1>10, <1>11, <1>12
  DEF Next, TimerTask, AppTask

(* A device whose timers are stopped is held awake by a relay pulse only,  *)
(* which ends by itself, unless a second sleep check was in the queue when *)
(* the first one stopped them.                                             *)
THEOREM AwakeAlwaysRuns == Spec => []AwakeRuns
<1>1. Init => AwakeInv
  BY DEF Init, AwakeInv, PowerInv, Shape, Linked, SleepsEmpty, Bits, Msgs,
         StoppedIsIdle
<1>2. AwakeInv /\ [Next]_vars => AwakeInv'
  BY PowerStep, AwakeStep DEF AwakeInv
<1>3. AwakeInv => AwakeRuns
  BY DEF AwakeInv, StoppedIsIdle, AwakeRuns
<1> QED
  BY <1>1, <1>2, <1>3, PTL DEF Spec

-----------------------------------------------------------------------------
(* The types of the device, its queue's length included.                   *)

TypeInv ==
  /\ KeyTypeOK /\ pins \in SUBSET Keys
  /\ Shape /\ Len(queue) <= QueueSize
  /\ main \in BOOLEAN /\ dlps \in BOOLEAN
  /\ startdelay \in 0 .. StartTicks
  /\ turn \in {"main", "dlps"}
  /\ pulse \in BOOLEAN /\ due \in BOOLEAN
  /\ event \in BOOLEAN /\ provisioned \in BOOLEAN
  /\ asleep \in BOOLEAN
  /\ unheld \in BOOLEAN /\ late \in BOOLEAN

(* A message that finds no room is refused.                                *)
LEMMA PostFits ==
  ASSUME Shape, Len(queue) <= QueueSize, NEW m \in Msgs, Post(m)
  PROVE  Len(queue') <= QueueSize
BY AppendProperties, PowerAssumption DEF Shape, Post, HasRoom

(* Taking a message makes room.                                            *)
LEMMA ReceiveFits ==
  ASSUME Shape, Len(queue) <= QueueSize, NEW m, Receive(m)
  PROVE  Len(queue') <= QueueSize
BY HeadTailProperties, EmptySeq, PowerAssumption DEF Shape, Receive

LEMMA TypeStep ==
  ASSUME TypeInv, KeyTypeOK', pins' \in SUBSET Keys, Shape', [Next]_vars
  PROVE  TypeInv'
<1> USE DEF timers, world, history
<1>1. Shape /\ Len(queue) <= QueueSize
  BY DEF TypeInv
<1>2. CASE MainTick
  <2>1. Len(queue') <= QueueSize
    BY <1>1, <1>2, PostFits DEF MainTick, Msgs
  <2> QED
    BY <1>2, <2>1 DEF MainTick, TypeInv
<1>3. CASE DlpsTick
  <2>1. Len(queue') <= QueueSize
    BY <1>1, <1>3, PostFits DEF DlpsTick, Msgs
  <2>2. startdelay' \in 0 .. StartTicks
    BY <1>3, PowerAssumption DEF DlpsTick, TypeInv
  <2> QED
    BY <1>3, <2>1, <2>2 DEF DlpsTick, TypeInv
<1>4. CASE HoldExpires
  <2>1. Len(queue') <= QueueSize
    BY <1>1, <1>4, PostFits DEF HoldExpires, Msgs
  <2> QED
    BY <1>4, <2>1 DEF HoldExpires, TypeInv
<1>5. CASE RelayEnds
  BY <1>5 DEF RelayEnds, TypeInv
<1>6. CASE HandleMain
  <2>1. Len(queue') <= QueueSize
    BY <1>1, <1>6, ReceiveFits DEF HandleMain
  <2>2. due' \in BOOLEAN /\ unheld' \in BOOLEAN
    BY <1>6 DEF HandleMain, TakeHold, EndPass, TypeInv
  <2> QED
    BY <1>6, <2>1, <2>2 DEF HandleMain, TypeInv
<1>7. CASE Command
  <2>1. due' \in BOOLEAN /\ unheld' \in BOOLEAN
    BY <1>7 DEF Command, TakeHold, EndPass, TypeInv
  <2> QED
    BY <1>7, <2>1 DEF Command, StartPulse, TypeInv
<1>8. CASE HandleDlps
  <2>1. Len(queue') <= QueueSize
    BY <1>1, <1>8, ReceiveFits DEF HandleDlps
  <2>2. main' \in BOOLEAN /\ dlps' \in BOOLEAN /\ late' \in BOOLEAN
    BY <1>8 DEF HandleDlps, Queued, TypeInv
  <2> QED
    BY <1>8, <2>1, <2>2 DEF HandleDlps, TypeInv
<1>9. CASE HandleUnprov
  <2>1. Len(queue') <= QueueSize
    BY <1>1, <1>9, ReceiveFits DEF HandleUnprov
  <2> QED
    BY <1>9, <2>1 DEF HandleUnprov, TypeInv
<1>10. CASE Sleep
  BY <1>10 DEF Sleep, TypeInv
<1>11. CASE WakeByKey \/ WakeByRadio
  BY <1>11
  DEF WakeByKey, WakeByRadio, WakeUp, Restarts, Recreates, TypeInv
<1>12. CASE Hear
  BY <1>12 DEF Hear, TypeInv
<1>13. CASE MoveKeys
  BY <1>13 DEF MoveKeys, TypeInv
<1>14. CASE UNCHANGED vars
  BY <1>14 DEF vars, TypeInv
<1> QED
  BY <1>2, <1>3, <1>4, <1>5, <1>6, <1>7, <1>8, <1>9, <1>10, <1>11, <1>12,
     <1>13, <1>14
  DEF Next, TimerTask, AppTask

(* The device keeps its types, and the app task's queue its size.          *)
THEOREM TypeCorrect == Spec => []TypeOK
<1>1. Init => TypeInv
  <2> SUFFICES ASSUME Init PROVE TypeInv
    OBVIOUS
  <2>1. KeyTypeOK
    BY KeyInitInv DEF Init, KeyInv
  <2>2. startdelay \in 0 .. StartTicks
    BY PowerAssumption DEF Init
  <2>3. Shape /\ Len(queue) <= QueueSize
    BY PowerAssumption DEF Init, Shape, Bits, Msgs
  <2> QED
    BY <2>1, <2>2, <2>3 DEF Init, TypeInv
<1>2. /\ TypeInv /\ [Next]_vars
      /\ (KeyInv /\ pins \in SUBSET Keys)' /\ PowerInv'
      => TypeInv'
  BY TypeStep DEF KeyInv, PowerInv
<1>3. TypeInv => TypeOK
  BY DEF TypeInv, Shape, TypeOK
<1> QED
  BY <1>1, <1>2, <1>3, KeysAlways, PowerAlways, PTL DEF Spec
=============================================================================
