---------------------------- MODULE PairingProofs ----------------------------
(***************************************************************************)
(* For every number of power cuts and long presses: the types of Pairing,  *)
(* that the config in flash is the state of the program whenever it is not *)
(* being saved, and that a long press comes up in pairing mode.            *)
(***************************************************************************)
EXTENDS Pairing, TLAPS

(* Nothing runs while the device is off or boots.                          *)
OffIsOff ==
  pc \notin Running =>
    ~beacon /\ ~link /\ ~unprov /\ ~changescan /\ queue = <<>>

(* Each one-shot timer is armed, or its message waits, or, for the one of  *)
(* provisioning, a provisioner may still come: at most two in all.         *)
MayJoin == link \/ (beacon /\ node = "unprov")
One(b) == IF b THEN 1 ELSE 0
FewMessages ==
  Len(queue) + One(unprov) + One(changescan) + One(MayJoin) <= 2

(* What a standing request for pairing mode means before the reset.        *)
RequestStands ==
  asked =>
    /\ pc # "boot save" /\ node = "unprov" /\ ~link /\ ~beacon
    /\ pc \in Running => state = "55"
    /\ pc = "off" => cfg = "55"
    /\ resetting => pc = "run"

(* The parts of the type invariant that need no counting.                  *)
Messages == {"unprov", "prov"}
FlatNames ==
  /\ node \in {"prov", "unprov"}
  /\ cfg \in {"55", "FF", "bad"}
  /\ state \in {"55", "FF"}
  /\ pc \in {"off", "boot save"} \cup Running
  /\ blink \in {"none", "blink", "lit"}
FlatFlags ==
  /\ prov \in BOOLEAN /\ beacon \in BOOLEAN /\ link \in BOOLEAN
  /\ unprov \in BOOLEAN /\ changescan \in BOOLEAN
  /\ resetting \in BOOLEAN /\ held \in BOOLEAN
  /\ asked \in BOOLEAN
FlatType == FlatNames /\ FlatFlags
CountType == cuts \in 0 .. MaxCuts /\ presses \in 0 .. MaxPresses
QueueType == queue \in Seq(Messages)

Inv ==
  /\ FlatType /\ CountType /\ QueueType
  /\ OffIsOff /\ FewMessages /\ ConfigIsSaved /\ RequestStands

-----------------------------------------------------------------------------
(* The parts of the invariant, one by one.                                 *)

LEMMA InitInv == Init => Inv
<1> SUFFICES ASSUME Init PROVE Inv
  OBVIOUS
<1> USE DEF Init, Running, Saving
<1>1. FlatType
  BY Zenon DEF FlatType, FlatNames, FlatFlags
<1>2. CountType
  BY PairingAssumption DEF CountType
<1>3. OffIsOff /\ ConfigIsSaved /\ RequestStands
  BY DEF OffIsOff, ConfigIsSaved, RequestStands
<1>4. QueueType
  BY DEF QueueType
<1>5. FewMessages
  <2>1. One(unprov) = 0 /\ One(changescan) = 0 /\ One(MayJoin) = 0
    BY DEF One, MayJoin
  <2>2. Len(queue) = 0
    OBVIOUS
  <2> QED
    BY <2>1, <2>2 DEF FewMessages
<1> QED
  BY <1>1, <1>2, <1>3, <1>4, <1>5 DEF Inv

LEMMA FlatNamesStep == FlatNames /\ [Next]_vars => FlatNames'
<1> SUFFICES ASSUME FlatNames, [Next]_vars PROVE FlatNames'
  OBVIOUS
<1> USE DEF FlatNames, Running, Saving, radio, oneshots
<1>1. CASE Boot
  BY <1>1 DEF Boot, StartDrivers
<1>2. CASE BootBad
  BY <1>2 DEF BootBad
<1>3. CASE BootSaved
  BY <1>3 DEF BootSaved, StartDrivers
<1>4. CASE StackReady
  BY <1>4 DEF StackReady
<1>5. CASE HandleUnprov
  BY <1>5 DEF HandleUnprov, Received, EndPairing, SaveThen, Released
<1>6. CASE HandleProv
  BY <1>6 DEF HandleProv, Received, EndPairing, SaveThen
<1>7. CASE Saved
  BY <1>7 DEF Saved
<1>8. CASE LinkOpen
  BY <1>8 DEF LinkOpen
<1>9. CASE LinkFails
  BY <1>9 DEF LinkFails
<1>10. CASE Complete
  BY <1>10 DEF Complete, Started
<1>11. CASE UnprovTimeout
  BY <1>11 DEF UnprovTimeout, OneShot
<1>12. CASE ChangeScanTimeout
  BY <1>12 DEF ChangeScanTimeout
<1>13. CASE BlinkTick
  BY <1>13 DEF BlinkTick
<1>14. CASE ShortPress
  BY <1>14 DEF ShortPress, EndPairing, SaveThen
<1>15. CASE LongPress
  BY <1>15 DEF LongPress, AskedState
<1>16. CASE PowerCut
  BY <1>16 DEF PowerCut, TurnOff, Flashed
<1>17. CASE Reset
  BY <1>17 DEF Reset, TurnOff, Flashed
<1>18. CASE UNCHANGED vars
  BY <1>18 DEF vars
<1> QED
  BY <1>1, <1>2, <1>3, <1>4, <1>5, <1>6, <1>7, <1>8, <1>9, <1>10,
     <1>11, <1>12, <1>13, <1>14, <1>15, <1>16, <1>17, <1>18
     DEF Next, BootStep, AppStep

LEMMA FlatFlagsStep == FlatFlags /\ [Next]_vars => FlatFlags'
<1> SUFFICES ASSUME FlatFlags, [Next]_vars PROVE FlatFlags'
  OBVIOUS
<1> USE DEF FlatFlags, Running, Saving, radio, oneshots
<1>1. CASE Boot
  BY <1>1 DEF Boot, StartDrivers
<1>2. CASE BootBad
  BY <1>2 DEF BootBad
<1>3. CASE BootSaved
  BY <1>3 DEF BootSaved, StartDrivers
<1>4. CASE StackReady
  BY <1>4 DEF StackReady
<1>5. CASE HandleUnprov
  BY <1>5 DEF HandleUnprov, Received, EndPairing, SaveThen, Released
<1>6. CASE HandleProv
  BY <1>6 DEF HandleProv, Received, EndPairing, SaveThen
<1>7. CASE Saved
  BY <1>7 DEF Saved
<1>8. CASE LinkOpen
  BY <1>8 DEF LinkOpen
<1>9. CASE LinkFails
  BY <1>9 DEF LinkFails
<1>10. CASE Complete
  BY <1>10 DEF Complete, Started
<1>11. CASE UnprovTimeout
  BY <1>11 DEF UnprovTimeout, OneShot
<1>12. CASE ChangeScanTimeout
  BY <1>12 DEF ChangeScanTimeout
<1>13. CASE BlinkTick
  BY <1>13 DEF BlinkTick
<1>14. CASE ShortPress
  BY <1>14 DEF ShortPress, EndPairing, SaveThen
<1>15. CASE LongPress
  BY <1>15 DEF LongPress, AskedState
<1>16. CASE PowerCut
  BY <1>16 DEF PowerCut, TurnOff, Flashed
<1>17. CASE Reset
  BY <1>17 DEF Reset, TurnOff, Flashed
<1>18. CASE UNCHANGED vars
  BY <1>18 DEF vars
<1> QED
  BY <1>1, <1>2, <1>3, <1>4, <1>5, <1>6, <1>7, <1>8, <1>9, <1>10,
     <1>11, <1>12, <1>13, <1>14, <1>15, <1>16, <1>17, <1>18
     DEF Next, BootStep, AppStep

LEMMA FlatStep == FlatType /\ [Next]_vars => FlatType'
BY FlatNamesStep, FlatFlagsStep DEF FlatType

LEMMA CountStep == CountType /\ [Next]_vars => CountType'
<1> SUFFICES ASSUME CountType, [Next]_vars PROVE CountType'
  OBVIOUS
<1>1. CASE PowerCut
  <2>1. cuts < MaxCuts /\ cuts' = cuts + 1 /\ presses' = presses
    BY <1>1 DEF PowerCut, TurnOff
  <2> QED
    BY <2>1, PairingAssumption DEF CountType
<1>2. CASE LongPress
  <2>1. presses < MaxPresses /\ presses' = presses + 1 /\ cuts' = cuts
    BY <1>2 DEF LongPress
  <2> QED
    BY <2>1, PairingAssumption DEF CountType
<1>3. CASE ~PowerCut /\ ~LongPress
  <2>1. UNCHANGED <<cuts, presses>>
    BY <1>3
     DEF BootStep, AppStep, Next, Boot, BootBad, BootSaved,
         StackReady, HandleUnprov, HandleProv, Saved, LinkOpen,
         LinkFails, Complete, UnprovTimeout, ChangeScanTimeout,
         BlinkTick, ShortPress, Reset, StartDrivers, Received,
         EndPairing, SaveThen, Released, Started, OneShot, TurnOff,
         Flashed, vars, radio, oneshots
  <2> QED
    BY <2>1 DEF CountType
<1> QED
  BY <1>1, <1>2, <1>3

(* What a step may do to the queue.                                        *)
LEMMA QueueMoves ==
  ASSUME [Next]_vars
  PROVE  \/ queue' = queue \/ queue' = <<>>
         \/ queue' = Append(queue, "unprov") \/ queue' = Append(queue, "prov")
         \/ queue # <<>> /\ queue' = Tail(queue)
  BY DEF BootStep, AppStep, Next, Boot, BootBad, BootSaved,
         StackReady, HandleUnprov, HandleProv, Saved, LinkOpen,
         LinkFails, Complete, UnprovTimeout, ChangeScanTimeout,
         BlinkTick, ShortPress, LongPress, PowerCut, Reset,
         StartDrivers, Received, EndPairing, SaveThen, Released,
         Started, OneShot, AskedState, TurnOff, Flashed, vars, radio,
         oneshots

LEMMA QueueStep == QueueType /\ [Next]_vars => QueueType'
<1> SUFFICES ASSUME QueueType, [Next]_vars PROVE QueueType'
  OBVIOUS
<1> USE DEF QueueType, Messages
<1>1. CASE queue' = queue
  BY <1>1, Zenon
<1>4. CASE queue' = <<>>
  BY <1>4
<1>2. CASE queue' = Append(queue, "unprov") \/ queue' = Append(queue, "prov")
  BY <1>2
<1>3. CASE queue # <<>> /\ queue' = Tail(queue)
  BY <1>3
<1> QED
  BY <1>1, <1>2, <1>3, <1>4, QueueMoves

LEMMA OffStep == OffIsOff /\ [Next]_vars => OffIsOff'
<1> SUFFICES ASSUME OffIsOff, [Next]_vars PROVE OffIsOff'
  OBVIOUS
<1> USE DEF OffIsOff, Running, Saving, radio, oneshots
<1>1. CASE Boot
  BY <1>1 DEF Boot, StartDrivers
<1>2. CASE BootBad
  BY <1>2 DEF BootBad
<1>3. CASE BootSaved
  BY <1>3 DEF BootSaved, StartDrivers
<1>4. CASE StackReady
  BY <1>4 DEF StackReady
<1>5. CASE HandleUnprov
  BY <1>5 DEF HandleUnprov, Received, EndPairing, SaveThen, Released
<1>6. CASE HandleProv
  BY <1>6 DEF HandleProv, Received, EndPairing, SaveThen
<1>7. CASE Saved
  BY <1>7 DEF Saved
<1>8. CASE LinkOpen
  BY <1>8 DEF LinkOpen
<1>9. CASE LinkFails
  BY <1>9 DEF LinkFails
<1>10. CASE Complete
  BY <1>10 DEF Complete, Started
<1>11. CASE UnprovTimeout
  BY <1>11 DEF UnprovTimeout, OneShot
<1>12. CASE ChangeScanTimeout
  BY <1>12 DEF ChangeScanTimeout
<1>13. CASE BlinkTick
  BY <1>13 DEF BlinkTick
<1>14. CASE ShortPress
  BY <1>14 DEF ShortPress, EndPairing, SaveThen
<1>15. CASE LongPress
  BY <1>15 DEF LongPress, AskedState
<1>16. CASE PowerCut
  BY <1>16 DEF PowerCut, TurnOff, Flashed
<1>17. CASE Reset
  BY <1>17 DEF Reset, TurnOff, Flashed
<1>18. CASE UNCHANGED vars
  BY <1>18 DEF vars
<1> QED
  BY <1>1, <1>2, <1>3, <1>4, <1>5, <1>6, <1>7, <1>8, <1>9, <1>10,
     <1>11, <1>12, <1>13, <1>14, <1>15, <1>16, <1>17, <1>18
     DEF Next, BootStep, AppStep

LEMMA SavedStep == ConfigIsSaved /\ [Next]_vars => ConfigIsSaved'
<1> SUFFICES ASSUME ConfigIsSaved, [Next]_vars PROVE ConfigIsSaved'
  OBVIOUS
<1> USE DEF ConfigIsSaved, Running, Saving, radio, oneshots
<1>1. CASE Boot
  BY <1>1 DEF Boot, StartDrivers
<1>2. CASE BootBad
  BY <1>2 DEF BootBad
<1>3. CASE BootSaved
  BY <1>3 DEF BootSaved, StartDrivers
<1>4. CASE StackReady
  BY <1>4 DEF StackReady
<1>5. CASE HandleUnprov
  BY <1>5 DEF HandleUnprov, Received, EndPairing, SaveThen, Released
<1>6. CASE HandleProv
  BY <1>6 DEF HandleProv, Received, EndPairing, SaveThen
<1>7. CASE Saved
  BY <1>7 DEF Saved
<1>8. CASE LinkOpen
  BY <1>8 DEF LinkOpen
<1>9. CASE LinkFails
  BY <1>9 DEF LinkFails
<1>10. CASE Complete
  BY <1>10 DEF Complete, Started
<1>11. CASE UnprovTimeout
  BY <1>11 DEF UnprovTimeout, OneShot
<1>12. CASE ChangeScanTimeout
  BY <1>12 DEF ChangeScanTimeout
<1>13. CASE BlinkTick
  BY <1>13 DEF BlinkTick
<1>14. CASE ShortPress
  BY <1>14 DEF ShortPress, EndPairing, SaveThen
<1>15. CASE LongPress
  BY <1>15 DEF LongPress, AskedState
<1>16. CASE PowerCut
  BY <1>16 DEF PowerCut, TurnOff, Flashed
<1>17. CASE Reset
  BY <1>17 DEF Reset, TurnOff, Flashed
<1>18. CASE UNCHANGED vars
  BY <1>18 DEF vars
<1> QED
  BY <1>1, <1>2, <1>3, <1>4, <1>5, <1>6, <1>7, <1>8, <1>9, <1>10,
     <1>11, <1>12, <1>13, <1>14, <1>15, <1>16, <1>17, <1>18
     DEF Next, BootStep, AppStep

LEMMA RequestStep ==
  FlatType /\ OffIsOff /\ ConfigIsSaved /\ RequestStands /\ [Next]_vars
    => RequestStands'
<1> SUFFICES ASSUME FlatType, OffIsOff, ConfigIsSaved, RequestStands,
                    [Next]_vars
             PROVE  RequestStands'
  OBVIOUS
<1> USE DEF FlatType, FlatNames, FlatFlags, OffIsOff, ConfigIsSaved,
            RequestStands, Running, Saving, radio, oneshots
<1>1. CASE Boot
  BY <1>1 DEF Boot, StartDrivers
<1>2. CASE BootBad
  BY <1>2 DEF BootBad
<1>3. CASE BootSaved
  BY <1>3 DEF BootSaved, StartDrivers
<1>4. CASE StackReady
  BY <1>4 DEF StackReady
<1>5. CASE HandleUnprov
  BY <1>5 DEF HandleUnprov, Received, EndPairing, SaveThen, Released
<1>6. CASE HandleProv
  BY <1>6 DEF HandleProv, Received, EndPairing, SaveThen
<1>7. CASE Saved
  BY <1>7 DEF Saved
<1>8. CASE LinkOpen
  BY <1>8 DEF LinkOpen
<1>9. CASE LinkFails
  BY <1>9 DEF LinkFails
<1>10. CASE Complete
  BY <1>10 DEF Complete, Started
<1>11. CASE UnprovTimeout
  BY <1>11 DEF UnprovTimeout, OneShot
<1>12. CASE ChangeScanTimeout
  BY <1>12 DEF ChangeScanTimeout
<1>13. CASE BlinkTick
  BY <1>13 DEF BlinkTick
<1>14. CASE ShortPress
  BY <1>14 DEF ShortPress, EndPairing, SaveThen
<1>15. CASE LongPress
  BY <1>15 DEF LongPress, AskedState
<1>16. CASE PowerCut
  BY <1>16 DEF PowerCut, TurnOff, Flashed
<1>17. CASE Reset
  BY <1>17 DEF Reset, TurnOff, Flashed
<1>18. CASE UNCHANGED vars
  BY <1>18 DEF vars
<1> QED
  BY <1>1, <1>2, <1>3, <1>4, <1>5, <1>6, <1>7, <1>8, <1>9, <1>10,
     <1>11, <1>12, <1>13, <1>14, <1>15, <1>16, <1>17, <1>18
     DEF Next, BootStep, AppStep

LEMMA OneIs == ASSUME NEW b \in BOOLEAN PROVE One(b) \in {0, 1}
  BY DEF One

LEMMA OneMono ==
  ASSUME NEW a \in BOOLEAN, NEW b \in BOOLEAN, b => a PROVE One(b) <= One(a)
  BY DEF One

LEMMA FewStep ==
  FlatType /\ QueueType /\ OffIsOff /\ FewMessages /\ [Next]_vars
    => FewMessages'
<1> SUFFICES ASSUME FlatType, QueueType, OffIsOff, FewMessages, [Next]_vars
             PROVE  FewMessages'
  OBVIOUS
<1>1. FlatType' /\ QueueType'
  BY FlatStep, QueueStep
<1>2. /\ Len(queue) \in Nat /\ Len(queue)' \in Nat
      /\ MayJoin \in BOOLEAN /\ MayJoin' \in BOOLEAN
  BY <1>1 DEF QueueType, Messages, MayJoin
<1>3. /\ One(unprov) \in {0, 1} /\ One(changescan) \in {0, 1}
      /\ One(MayJoin) \in {0, 1}
      /\ One(unprov') \in {0, 1} /\ One(changescan') \in {0, 1}
      /\ One(MayJoin') \in {0, 1}
  BY <1>1, <1>2, OneIs, Zenon DEF FlatType, FlatNames, FlatFlags
<1> DEFINE Fewer == /\ unprov' => unprov
                    /\ changescan' => changescan
                    /\ MayJoin' => MayJoin
<1>4. Fewer /\ Len(queue') <= Len(queue) => FewMessages'
  <2> SUFFICES ASSUME Fewer, Len(queue') <= Len(queue) PROVE FewMessages'
    OBVIOUS
  <2>4. One(unprov') <= One(unprov)
    <3>1. CASE unprov
      <4>1. One(unprov) = 1
        BY <3>1 DEF One
      <4> QED
        BY <4>1, <1>3
    <3>2. CASE ~unprov
      <4>1. ~unprov'
        BY <3>2, Zenon
      <4>2. One(unprov) = 0
        BY <3>2, Zenon DEF One
      <4>3. One(unprov') = 0
        BY <4>1, Zenon DEF One
      <4> QED
        BY <4>2, <4>3
    <3> QED
      BY <3>1, <3>2
  <2>5. One(changescan') <= One(changescan)
    <3>1. CASE changescan
      <4>1. One(changescan) = 1
        BY <3>1 DEF One
      <4> QED
        BY <4>1, <1>3
    <3>2. CASE ~changescan
      <4>1. ~changescan'
        BY <3>2, Zenon
      <4>2. One(changescan) = 0
        BY <3>2, Zenon DEF One
      <4>3. One(changescan') = 0
        BY <4>1, Zenon DEF One
      <4> QED
        BY <4>2, <4>3
    <3> QED
      BY <3>1, <3>2
  <2>6. One(MayJoin') <= One(MayJoin)
    BY <1>2, OneMono, Zenon
  <2>1. /\ One(unprov') <= One(unprov) /\ One(changescan') <= One(changescan)
        /\ One(MayJoin') <= One(MayJoin)
    BY <2>4, <2>5, <2>6
  <2>2. Len(queue') <= Len(queue)
    OBVIOUS
  <2> HIDE DEF Fewer
  <2> QED
    BY <2>1, <2>2, <1>2, <1>3 DEF FewMessages
<1>5. Fewer /\ queue' = queue => FewMessages'
  <2>1. queue' = queue => Len(queue') <= Len(queue)
    BY <1>2
  <2> QED
    BY <2>1, <1>4, Zenon
<1> HIDE DEF Fewer
<1>6. CASE BootBad \/ Saved \/ BlinkTick \/ UNCHANGED vars
  <2>1. CASE BootBad
    <3>1. Fewer /\ queue' = queue
      BY <2>1 DEF BootBad, OffIsOff, Running, Saving, radio, oneshots,
                  MayJoin, Fewer
    <3> QED
      BY <3>1, <1>5, Zenon
  <2>2. CASE Saved
    <3>1. Fewer /\ queue' = queue
      BY <2>2 DEF Saved, radio, oneshots, MayJoin, Fewer
    <3> QED
      BY <3>1, <1>5, Zenon
  <2>3. CASE BlinkTick
    <3>1. Fewer /\ queue' = queue
      BY <2>3 DEF BlinkTick, radio, oneshots, MayJoin, Fewer
    <3> QED
      BY <3>1, <1>5, Zenon
  <2>4. CASE UNCHANGED vars
    <3>1. Fewer /\ queue' = queue
      BY <2>4 DEF vars, radio, oneshots, MayJoin, Fewer
    <3> QED
      BY <3>1, <1>5, Zenon
  <2> QED
    BY <1>6, <2>1, <2>2, <2>3, <2>4
<1>13. CASE StackReady \/ LinkOpen \/ LinkFails \/ ShortPress \/ LongPress
  <2>1. CASE StackReady
    <3>1. Fewer /\ queue' = queue
      BY <2>1 DEF StackReady, oneshots, MayJoin, Fewer
    <3> QED
      BY <3>1, <1>5, Zenon
  <2>2. CASE LinkOpen
    <3>1. Fewer /\ queue' = queue
      BY <2>2 DEF LinkOpen, oneshots, MayJoin, Fewer
    <3> QED
      BY <3>1, <1>5, Zenon
  <2>3. CASE LinkFails
    <3>1. Fewer /\ queue' = queue
      BY <2>3 DEF LinkFails, oneshots, MayJoin, Fewer
    <3> QED
      BY <3>1, <1>5, Zenon
  <2>4. CASE ShortPress
    <3>1. Fewer /\ queue' = queue
      BY <2>4 DEF ShortPress, EndPairing, MayJoin, Fewer
    <3> QED
      BY <3>1, <1>5, Zenon
  <2>5. CASE LongPress
    <3>1. Fewer /\ queue' = queue
      BY <2>5 DEF LongPress, oneshots, MayJoin, Fewer
    <3> QED
      BY <3>1, <1>5, Zenon
  <2> QED
    BY <1>13, <2>1, <2>2, <2>3, <2>4, <2>5
<1>7. CASE HandleUnprov \/ HandleProv
  <2>1. Fewer
    <3>1. CASE HandleUnprov
      BY <3>1 DEF HandleUnprov, EndPairing, MayJoin, Fewer
    <3>2. CASE HandleProv
      BY <3>2 DEF HandleProv, EndPairing, MayJoin, Fewer
    <3> QED
      BY <1>7, <3>1, <3>2
  <2>2. queue # <<>> /\ queue' = Tail(queue)
    BY <1>7 DEF HandleUnprov, HandleProv, Received
  <2>3. Len(queue') <= Len(queue)
    BY <2>2 DEF QueueType, Messages
  <2> QED
    BY <2>1, <2>3, <1>4, Zenon
<1>8. CASE Boot \/ BootSaved
  <2>1. queue' = <<>> /\ ~(unprov' /\ changescan')
    BY <1>8 DEF Boot, BootSaved, StartDrivers, OffIsOff, Running, Saving
  <2>2. One(unprov') + One(changescan') <= 1
    BY <2>1 DEF One
  <2>3. Len(queue') = 0
    BY <2>1
  <2> QED
    BY <2>2, <2>3, <1>3 DEF FewMessages
<1>9. CASE Complete
  <2>1. /\ MayJoin /\ ~MayJoin' /\ ~unprov' /\ changescan'
        /\ queue' = queue
    BY <1>9 DEF Complete, Started, MayJoin
  <2>2. /\ One(MayJoin) = 1 /\ One(MayJoin') = 0
        /\ One(unprov') = 0 /\ One(changescan') = 1
    BY <2>1 DEF One
  <2>3. Len(queue') = Len(queue)
    BY <2>1
  <2> QED
    BY <2>2, <2>3, <1>2, <1>3 DEF FewMessages
<1>10. CASE UnprovTimeout
  <2>1. /\ unprov /\ ~unprov' /\ changescan' = changescan
        /\ MayJoin' = MayJoin /\ queue' = Append(queue, "unprov")
    BY <1>10 DEF UnprovTimeout, OneShot, MayJoin, radio
  <2>2. One(unprov) = 1 /\ One(unprov') = 0
    BY <2>1 DEF One
  <2>3. One(changescan') = One(changescan) /\ One(MayJoin') = One(MayJoin)
    BY <2>1, Zenon
  <2>4. Len(queue') = Len(queue) + 1
    BY <2>1 DEF QueueType, Messages
  <2> QED
    BY <2>2, <2>3, <2>4, <1>2, <1>3 DEF FewMessages
<1>11. CASE ChangeScanTimeout
  <2>1. /\ changescan /\ ~changescan' /\ unprov' = unprov
        /\ MayJoin' = MayJoin /\ queue' = Append(queue, "prov")
    BY <1>11 DEF ChangeScanTimeout, MayJoin, radio
  <2>2. One(changescan) = 1 /\ One(changescan') = 0
    BY <2>1 DEF One
  <2>3. One(unprov') = One(unprov) /\ One(MayJoin') = One(MayJoin)
    BY <2>1, Zenon
  <2>4. Len(queue') = Len(queue) + 1
    BY <2>1 DEF QueueType, Messages
  <2> QED
    BY <2>2, <2>3, <2>4, <1>2, <1>3 DEF FewMessages
<1>12. CASE PowerCut \/ Reset
  <2>1. ~unprov' /\ ~changescan' /\ ~MayJoin' /\ queue' = <<>>
    BY <1>12 DEF PowerCut, Reset, TurnOff, MayJoin
  <2>2. One(unprov') = 0 /\ One(changescan') = 0 /\ One(MayJoin') = 0
    BY <2>1 DEF One
  <2>3. Len(queue') = 0
    BY <2>1
  <2> QED
    BY <2>2, <2>3 DEF FewMessages
<1> QED
  BY <1>6, <1>7, <1>8, <1>9, <1>10, <1>11, <1>12, <1>13
     DEF Next, BootStep, AppStep

-----------------------------------------------------------------------------
LEMMA InvIsInvariant == Spec => []Inv
<1>1. Inv /\ [Next]_vars => Inv'
  BY FlatStep, CountStep, QueueStep, OffStep, FewStep, SavedStep, RequestStep
     DEF Inv
<1> QED
  BY InitInv, <1>1, PTL DEF Spec

(* The types of every variable; no more than two messages of the one-shot  *)
(* timers ever wait for the app task.                                      *)
THEOREM TypeCorrect == Spec => []TypeOK
<1>1. Inv => TypeOK
  <2> SUFFICES ASSUME Inv PROVE TypeOK
    OBVIOUS
  <2>1. Len(queue) <= 2
    <3>1. Len(queue) \in Nat /\ MayJoin \in BOOLEAN
      BY DEF Inv, QueueType, Messages, MayJoin
    <3>2. /\ One(unprov) \in {0, 1} /\ One(changescan) \in {0, 1}
          /\ One(MayJoin) \in {0, 1}
      BY <3>1, OneIs, Zenon DEF Inv, FlatType, FlatNames, FlatFlags
    <3> QED
      BY <3>1, <3>2 DEF Inv, FewMessages
  <2> QED
    BY <2>1, Zenon DEF Inv, TypeOK, FlatType, FlatNames, FlatFlags, CountType, QueueType, Messages
<1> QED
  BY <1>1, InvIsInvariant, PTL

(* Whenever the config is not being saved, the flash holds the state of    *)
(* the program: a power cut there costs nothing that was decided.          *)
THEOREM ConfigAlwaysSaved == Spec => []ConfigIsSaved
<1>1. Inv => ConfigIsSaved
  BY DEF Inv
<1> QED
  BY <1>1, InvIsInvariant, PTL

(* A long press comes up in pairing mode with an empty node, unless the    *)
(* mode was ended before the reset.                                        *)
THEOREM LongPressAlwaysPairs == Spec => []LongPressPairs
<1>1. Inv => LongPressPairs
  BY DEF Inv, RequestStands, LongPressPairs
<1> QED
  BY <1>1, InvIsInvariant, PTL
=============================================================================
