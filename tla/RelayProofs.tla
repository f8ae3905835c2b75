----------------------------- MODULE RelayProofs -----------------------------
(* Proofs about Relay for any set of switches and any WaitTicks >= 2.      *)
(*                                                                         *)
(* The safety properties are not inductive one by one: that the contact is *)
(* at the status after a pulse needs what the drive did to it (Driven),    *)
(* which needs both pins released before the pulse (Leftover), which needs *)
(* the count of every pulse to be owned by a running timer.  Sound is      *)
(* their conjunction for one switch.                                       *)
EXTENDS Relay, TLAPS

Driven(t) ==
  cnt[t] = Energised /\ ~stale[t] =>
    coil[t] = {status[t]} /\ position[t] = status[t]

Sound(t) ==
  /\ cnt[t] # WaitTicks
  /\ cnt[t] # 0 => tmr[t] = "active"
  /\ coil[t] # {} /\ cnt[t] # Energised => stale[t]
  /\ Driven(t)
  /\ AtRest(t) /\ ~stale[t] => position[t] = status[t]

IInv == TypeOK /\ \A t \in Switches : Sound(t)

(* The initial states satisfy the inductive invariant.                     *)
LEMMA InitIInv == Init => IInv
<1> SUFFICES ASSUME Init PROVE IInv
  OBVIOUS
<1>1. TypeOK
  BY WaitTicksAssumption DEF Init, TypeOK, Level, Energised, AppStates
<1>2. ASSUME NEW t \in Switches PROVE Sound(t)
  BY WaitTicksAssumption DEF Init, Sound, Driven, AtRest, Energised
<1> QED
  BY <1>1, <1>2 DEF IInv

(* Where the app task can be: idle, or inside a command for one switch.    *)
LEMMA AppShape ==
  ASSUME NEW s \in Switches, NEW pc \in {"called", "held", "start"}
  PROVE  /\ [pc |-> pc, sw |-> s] \in AppStates
         /\ [pc |-> pc, sw |-> s].sw = s
         /\ AppIdle \in AppStates
BY DEF AppStates

LEMMA CommandIInv ==
  ASSUME IInv, NEW s \in Switches, NEW v \in Level, Command(s, v)
  PROVE  IInv'
<1>1. TypeOK'
  BY AppShape DEF IInv, TypeOK, Command
<1>2. ASSUME NEW t \in Switches PROVE Sound(t)'
  <2>1. CASE t = s
    <3>1. ~AtRest(s)'
      BY AppShape DEF Command, AtRest, AppIdle
    <3> QED
      BY <2>1, <3>1 DEF IInv, TypeOK, Sound, Driven, Command
  <2>2. CASE t # s
    <3>1. AtRest(t)' => AtRest(t)
      BY DEF Command, AtRest
    <3> QED
      BY <2>2, <3>1 DEF IInv, TypeOK, Sound, Driven, Command
  <2> QED
    BY <2>1, <2>2
<1> QED
  BY <1>1, <1>2 DEF IInv

LEMMA AppStepIInv ==
  ASSUME IInv, NEW s \in Switches, AppStep(s)
  PROVE  IInv'
<1>1. TypeOK'
  <2> USE AppShape DEF IInv, TypeOK
  <2>1. CASE HoldAwake(s)
    BY <2>1 DEF HoldAwake
  <2>2. CASE CreateTimer(s)
    <3>1. PICK made \in {"null", "active"} : tmr' = [tmr EXCEPT ![s] = made]
      BY <2>2 DEF CreateTimer
    <3> QED
      BY <2>2, <3>1 DEF CreateTimer
  <2>3. CASE TestActive(s)
    BY <2>3 DEF TestActive
  <2>4. CASE StartTimer(s)
    BY <2>4 DEF StartTimer
  <2> QED
    BY <2>1, <2>2, <2>3, <2>4 DEF AppStep
<1>2. ASSUME NEW t \in Switches, AtRest(t)' PROVE AtRest(t)
  BY <1>2, AppShape
  DEF IInv, TypeOK, AppStep, HoldAwake, CreateTimer, TestActive, StartTimer,
      MustStart, AtRest, AppIdle
<1>3. ASSUME NEW t \in Switches, tmr[t] = "active" PROVE tmr'[t] = "active"
  BY <1>3
  DEF IInv, TypeOK, AppStep, HoldAwake, CreateTimer, TestActive, StartTimer
<1>4. UNCHANGED <<status, cnt, coil, position, stale>>
  BY DEF AppStep, HoldAwake, CreateTimer, TestActive, StartTimer
<1> QED
  BY <1>1, <1>2, <1>3, <1>4 DEF IInv, Sound, Driven

LEMMA WaitZvdIInv ==
  ASSUME IInv, NEW s \in Switches, WaitZvd(s)
  PROVE  IInv'
<1>1. TypeOK'
  BY WaitTicksAssumption DEF IInv, TypeOK, WaitZvd, Waiting, Level, Energised
<1>2. cnt'[s] < WaitTicks /\ \A t \in Switches : t # s => cnt'[t] = cnt[t]
  BY WaitTicksAssumption DEF IInv, TypeOK, WaitZvd, Waiting, Level, Energised
<1>3. UNCHANGED <<status, tmr, coil, app, position, stale>> /\ tmr[s] = "active"
  BY DEF WaitZvd
<1>4. cnt[s] \in Int /\ cnt'[s] \in Int /\ cnt[s] < WaitTicks
  BY <1>1, WaitTicksAssumption DEF IInv, TypeOK, WaitZvd, Waiting, Energised
<1>5. ASSUME NEW t \in Switches PROVE Sound(t)'
  BY <1>2, <1>3, <1>4, WaitTicksAssumption
  DEF IInv, Sound, Driven, AtRest, Energised
<1> QED
  BY <1>1, <1>5 DEF IInv

LEMMA EnergiseIInv ==
  ASSUME IInv, NEW s \in Switches, Energise(s)
  PROVE  IInv'
<1> USE DEF Energise, Drive
<1>1. TypeOK'
  <2>1. PICK p \in Contact(SetPin(s), position[s]) :
          position' = [position EXCEPT ![s] = p]
    OBVIOUS
  <2>2. SetPin(s) \in SUBSET Level /\ p \in Level
    BY <2>1 DEF IInv, TypeOK, SetPin, Contact
  <2> QED
    BY <2>1, <2>2, WaitTicksAssumption DEF IInv, TypeOK, Energised
<1>2. ASSUME NEW t \in Switches, t # s PROVE Sound(t)'
  BY <1>2 DEF IInv, TypeOK, Sound, Driven, AtRest
<1>3. Driven(s)'
  <2>1. SUFFICES ASSUME ~stale'[s]
                 PROVE  coil'[s] = {status[s]} /\ position'[s] = status[s]
    BY DEF Driven
  <2>2. coil[s] = {}
    BY <2>1, WaitTicksAssumption DEF IInv, TypeOK, Sound, Energised
  <2> QED
    BY <2>2 DEF IInv, TypeOK, SetPin, Contact
<1>4. Sound(s)'
  BY <1>3, WaitTicksAssumption DEF IInv, TypeOK, Sound, AtRest, Energised
<1> QED
  BY <1>1, <1>2, <1>4 DEF IInv

LEMMA ReleaseIInv ==
  ASSUME IInv, NEW s \in Switches, Release(s)
  PROVE  IInv'
<1> USE DEF Release, Drive, StopTimer, AllowSleep, ResetCount
<1>1. TypeOK'
  <2>1. PICK p \in Contact(ResetPin(s), position[s]) :
          position' = [position EXCEPT ![s] = p]
    OBVIOUS
  <2>2. ResetPin(s) \in SUBSET Level /\ p \in Level
    BY <2>1 DEF IInv, TypeOK, ResetPin, Contact
  <2> QED
    BY <2>1, <2>2, WaitTicksAssumption DEF IInv, TypeOK, Energised
<1>2. ASSUME NEW t \in Switches, t # s PROVE Sound(t)'
  BY <1>2 DEF IInv, TypeOK, Sound, Driven, AtRest
<1>3. cnt[s] = Energised
  BY WaitTicksAssumption DEF IInv, TypeOK, Sound, Energised
<1>4. ASSUME ~stale[s] PROVE coil'[s] = {} /\ position'[s] = status[s]
  BY <1>3, <1>4 DEF IInv, TypeOK, Sound, Driven, ResetPin, Contact
<1>5. Sound(s)'
  BY <1>4, WaitTicksAssumption DEF IInv, TypeOK, Sound, Driven, Energised
<1> QED
  BY <1>1, <1>2, <1>5 DEF IInv

LEMMA ProvisionedIInv ==
  ASSUME IInv, ProvisionedOn
  PROVE  IInv'
<1>1. TypeOK'
  BY DEF IInv, TypeOK, ProvisionedOn, Level
<1>2. ASSUME NEW t \in Switches PROVE Sound(t)'
  <2>1. CASE status[t] = 1
    BY <2>1 DEF IInv, TypeOK, Sound, Driven, AtRest, ProvisionedOn
  <2>2. CASE status[t] # 1
    <3>1. tmr'[t] # "dormant"
      BY <2>2 DEF IInv, TypeOK, ProvisionedOn
    <3>2. tmr[t] = "active" => tmr'[t] = "active"
      BY <2>2 DEF IInv, TypeOK, ProvisionedOn
    <3>3. stale'[t] = (stale[t] \/ cnt[t] = Energised)
      BY <2>2 DEF ProvisionedOn
    <3>4. UNCHANGED <<cnt, coil, position>>
      BY DEF ProvisionedOn
    <3> QED
      BY <3>1, <3>2, <3>3, <3>4 DEF IInv, Sound, Driven, AtRest
  <2> QED
    BY <2>1, <2>2
<1> QED
  BY <1>1, <1>2 DEF IInv

(* The inductive invariant holds in every reachable state.                 *)
THEOREM Invariance == Spec => []IInv
<1>1. IInv /\ UNCHANGED vars => IInv'
  BY DEF IInv, TypeOK, Sound, Driven, AtRest, vars
<1>2. ASSUME IInv, Next PROVE IInv'
  BY <1>2, CommandIInv, AppStepIInv, WaitZvdIInv, EnergiseIInv, ReleaseIInv,
     ProvisionedIInv DEF Next, Tick
<1> QED
  BY InitIInv, <1>1, <1>2, PTL DEF Spec

(* Every variable keeps its type (skyswitch.c:281-539).                    *)
THEOREM TypeCorrect == Spec => []TypeOK
BY Invariance, PTL DEF IInv

(* A counting pulse always has its timer: no command strands a coil.       *)
THEOREM PulseHasTimerAlways == Spec => []PulseHasTimer
<1>1. IInv => PulseHasTimer
  BY DEF IInv, Sound, PulseHasTimer
<1> QED
  BY <1>1, Invariance, PTL

(* A coil left SET after its pulse is always the trace of a command that   *)
(* arrived while a coil was driven; without such a command a pulse drives  *)
(* the wanted coil, and only it.                                           *)
THEOREM CoilIsAlwaysWanted == Spec => []CoilIsWanted
<1>1. IInv => LeftoverOnlyFromOverlap
  BY DEF IInv, Sound, LeftoverOnlyFromOverlap
<1>2. IInv => DrivesTheStatus
  BY DEF IInv, Sound, Driven, DrivesTheStatus
<1> QED
  BY <1>1, <1>2, Invariance, PTL DEF CoilIsWanted

(* Without such a command the contact is at the reported status whenever   *)
(* the switch is at rest.                                                  *)
THEOREM ContactIsStatusAlways == Spec => []ContactIsStatus
<1>1. IInv => ContactIsStatus
  BY DEF IInv, Sound, ContactIsStatus
<1> QED
  BY <1>1, Invariance, PTL
=============================================================================
