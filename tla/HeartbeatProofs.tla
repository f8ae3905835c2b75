--------------------------- MODULE HeartbeatProofs ---------------------------
(* Proofs about Heartbeat, for all intervals and counts that satisfy its   *)
(* assumption: types, that a gateway which answers is never given up, and  *)
(* that after a prompt answer it is asked Wakeups times before.            *)
EXTENDS Heartbeat, TLAPS

-----------------------------------------------------------------------------
(* Invariants.                                                             *)

(* What keeps a gateway that answers: the silence is bounded by the check  *)
(* that has to ping, by the oldest ping under way, or by the answer that   *)
(* waits to be handled.                                                    *)
Answered ==
  alive_status = 1 /\ ~missed =>
    /\ air = {} /\ ~keepalive =>
         /\ recv_alive_tick <= send_alive_tick + FilterMs
         /\ recv_alive_tick < AliveMs + FilterMs + alivetick
    /\ air # {} /\ ~keepalive =>
         \E p \in air : recv_alive_tick < p + AliveMs + FilterMs + LateMs
    /\ keepalive =>
         recv_alive_tick < TripMs + AliveMs + FilterMs + LateMs + alivetick

(* What makes every check of a series ping: after a prompt answer the ages *)
(* of the ping and of the silence differ by no more than CheckMs.          *)
InSeries ==
  /\ AliveMs <= recv_alive_tick + CheckMs
  /\ recv_alive_tick - alivetick + (Wakeups - asked) * LateMs < GatewayMs
  /\ ~keepalive =>
       /\ alive_wakeup_cnt = asked
       /\ alivetick <= send_alive_tick
       /\ send_alive_tick <= recv_alive_tick
       /\ AliveMs <= recv_alive_tick
            \/ AliveMs + send_alive_tick <= recv_alive_tick + CheckMs

(* No ping under way is younger than the last one.                         *)
Youngest ==
  send_alive_tick = GatewayMs \/ \A p \in air : send_alive_tick <= p

Prompt ==
  /\ keepalive => alive_wakeup_cnt = Wakeups
  /\ alive_status = 1 /\ lag <= CheckMs =>
       /\ asked = 0 =>
            /\ alive_wakeup_cnt = Wakeups
            /\ recv_alive_tick <= send_alive_tick
            /\ send_alive_tick <= recv_alive_tick + CheckMs
            /\ send_alive_tick < AliveMs + CheckMs + alivetick
       /\ asked > 0 /\ asked < Wakeups => InSeries

-----------------------------------------------------------------------------
(* Types.                                                                  *)

LEMMA Constants ==
  /\ CheckMs \in Nat /\ AliveMs \in Nat /\ GatewayMs \in Nat /\ Wakeups \in Nat
  /\ FilterMs \in Nat /\ LateMs \in Nat /\ TripMs \in Nat /\ MaxLost \in Nat
  /\ CheckMs > 0 /\ AliveMs > 0 /\ GatewayMs > 0 /\ Wakeups > 0
  /\ FilterMs > 0 /\ LateMs > 0 /\ TripMs > 0
  /\ CheckMs <= LateMs
  /\ FilterMs + CheckMs <= AliveMs
  /\ AliveMs + LateMs + LateMs + TripMs + FilterMs <= GatewayMs
BY HeartbeatAssumption

LEMMA OlderIs ==
  ASSUME NEW age \in Ages
  PROVE  Older(age) \in Ages /\ (age = GatewayMs \/ Older(age) = age + 1)
BY Constants DEF Older, Ages

LEMMA InitType == Init => TypeOK
<1> SUFFICES ASSUME Init PROVE TypeOK
  OBVIOUS
<1>1. {keepalive, provisioned, gone, missed} \subseteq BOOLEAN
  BY DEF Init
<1>2. /\ 0 \in Ages /\ 0 \in 0 .. Wakeups /\ 0 \in 0 .. LateMs
      /\ 0 \in 0 .. MaxLost
  BY Constants DEF Ages
<1> QED
  BY <1>1, <1>2 DEF Init, TypeOK

LEMMA CheckType ==
  ASSUME TypeOK, NEW status \in {0, 1}, NEW silence \in Ages,
         CheckOnline(status, silence)
  PROVE  /\ alive_status' \in {0, 1}
         /\ alive_wakeup_cnt' \in 0 .. Wakeups
         /\ alivetick' \in 0 .. LateMs
         /\ send_alive_tick' \in Ages
         /\ recv_alive_tick' \in Ages
         /\ air' \in SUBSET (0 .. TripMs)
<1>1. CASE alivetick >= CheckMs
  <2>1. Check(status, silence)
    BY <1>1 DEF CheckOnline
  <2>2. NextCount(status, silence) \in 0 .. Wakeups
    BY Constants DEF TypeOK, NextCount
  <2>3. /\ 0 \in Ages /\ GatewayMs \in Ages
        /\ 0 \in 0 .. LateMs /\ 0 \in 0 .. TripMs
    BY Constants DEF Ages
  <2> QED
    BY <2>1, <2>2, <2>3 DEF Check, TypeOK
<1>2. CASE ~(alivetick >= CheckMs)
  BY <1>2 DEF CheckOnline, NoCheck, TypeOK
<1> QED
  BY <1>1, <1>2

LEMMA SignType ==
  ASSUME TypeOK, NEW age \in Ages, SignOfLife(age),
         UNCHANGED <<gone, lost>>, provisioned' \in BOOLEAN,
         keepalive' \in BOOLEAN
  PROVE  TypeOK'
<1>1. 0 \in Ages /\ 1 \in 0 .. Wakeups /\ 0 \in 0 .. Wakeups
  BY Constants DEF Ages
<1>2. CheckOnline(1, 0) /\ asked' \in {0, 1} /\ missed' = FALSE /\ lag' = age
  BY DEF SignOfLife
<1> QED
  BY <1>1, <1>2, CheckType DEF TypeOK

LEMMA NothingType ==
  ASSUME TypeOK, Nothing, UNCHANGED <<gone, lost>>,
         provisioned' \in BOOLEAN, keepalive' \in BOOLEAN
  PROVE  TypeOK'
<1>1. asked' \in 0 .. Wakeups
  BY Constants DEF TypeOK, Nothing
<1>2. CheckOnline(alive_status, recv_alive_tick) /\ UNCHANGED <<missed, lag>>
  BY DEF Nothing
<1> QED
  BY <1>1, <1>2, CheckType DEF TypeOK

LEMMA TypeStep == TypeOK /\ [Next]_vars => TypeOK'
<1> SUFFICES ASSUME TypeOK, [Next]_vars PROVE TypeOK'
  OBVIOUS
<1>1. send_alive_tick \in Ages /\ GatewayMs \in Ages
  BY Constants DEF TypeOK, Ages
<1>2. CASE HandleKeepAlive
  BY <1>1, <1>2, SignType, NothingType DEF HandleKeepAlive, TypeOK
<1>3. CASE HandleProvisioned
  BY <1>1, <1>3, SignType DEF HandleProvisioned, TypeOK
<1>4. CASE HandleCommand
  BY <1>1, <1>4, SignType DEF HandleCommand, TypeOK
<1>5. CASE HandleNothing
  BY <1>5, NothingType DEF HandleNothing, TypeOK
<1>6. CASE Resolve
  <2>1. ASSUME NEW p \in air, Pong(p) PROVE TypeOK'
    <3>1. Wakeups \in 0 .. Wakeups
      BY Constants
    <3> QED
      BY <2>1, <3>1 DEF Pong, history, TypeOK
  <2>2. ASSUME NEW p \in air, Loss(p) PROVE TypeOK'
    <3>1. lost' \in 0 .. MaxLost
      BY <2>2, Constants DEF Loss, TypeOK
    <3> QED
      BY <2>2, <3>1 DEF Loss, counters, TypeOK
  <2> QED
    BY <1>6, <2>1, <2>2 DEF Resolve
<1>7. CASE GatewayGoes \/ GatewayReturns
  BY <1>7 DEF GatewayGoes, GatewayReturns, counters, history, TypeOK
<1>8. CASE Tick
  <2>1. alivetick' \in 0 .. LateMs
    BY <1>8, Constants DEF Tick, TypeOK
  <2>2. send_alive_tick' \in Ages /\ recv_alive_tick' \in Ages
    BY <1>8, OlderIs DEF Tick, TypeOK
  <2>3. air' \subseteq 0 .. TripMs
    BY <1>8, Constants DEF Tick, TypeOK
  <2> QED
    BY <1>8, <2>1, <2>2, <2>3 DEF Tick, history, TypeOK
<1>9. CASE UNCHANGED vars
  BY <1>9 DEF vars, counters, network, history, TypeOK
<1> QED
  BY <1>2, <1>3, <1>4, <1>5, <1>6, <1>7, <1>8, <1>9 DEF Next, Pass

(* The ages and counters keep their ranges: the count never passes its     *)
(* limit, which the check takes for granted.                               *)
THEOREM TypeCorrect == Spec => []TypeOK
BY InitType, TypeStep, PTL DEF Spec
-----------------------------------------------------------------------------
(* A gateway that answers.                                                 *)

LEMMA InitAnswered == Init => Answered
BY DEF Init, Answered

(* A check of a device that is online and was heard of so long ago either  *)
(* pings, or the last ping is not old and so the silence is not long.      *)
LEMMA NothingAnswered ==
  ASSUME TypeOK, Answered, Nothing, alive_status' = 1, ~missed',
         ~keepalive', keepalive => recv_alive_tick < FilterMs
  PROVE  Answered'
<1>1. alive_status = 1 /\ ~missed
  <2>1. alive_status = 1
    BY DEF Nothing, CheckOnline, Check, NoCheck
  <2>2. ~missed
    BY DEF Nothing
  <2> QED
    BY <2>1, <2>2
<1>2. /\ recv_alive_tick \in Nat /\ send_alive_tick \in Nat
      /\ alivetick \in Nat /\ alivetick <= LateMs
      /\ air \subseteq Nat /\ alive_wakeup_cnt \in Nat
      /\ alive_wakeup_cnt <= Wakeups
  BY Constants DEF TypeOK, Ages
<1>3. air = {} => /\ recv_alive_tick <= send_alive_tick + FilterMs
                  /\ recv_alive_tick < AliveMs + FilterMs + alivetick
  <2>1. CASE keepalive
    BY <1>2, <2>1, Constants
  <2>2. CASE ~keepalive
    BY <1>1, <2>2 DEF Answered
  <2> QED
    BY <2>1, <2>2
<1>4. air # {} =>
        \E p \in air : recv_alive_tick < p + AliveMs + FilterMs + LateMs
  <2>1. CASE keepalive
    <3> SUFFICES ASSUME air # {}
                 PROVE  \E p \in air :
                          recv_alive_tick < p + AliveMs + FilterMs + LateMs
      OBVIOUS
    <3>1. PICK p \in air : TRUE
      OBVIOUS
    <3>2. recv_alive_tick < p + AliveMs + FilterMs + LateMs
      BY <1>2, <2>1, <3>1, Constants
    <3> QED
      BY <3>2
  <2>2. CASE ~keepalive
    BY <1>1, <2>2 DEF Answered
  <2> QED
    BY <2>1, <2>2
<1>5. CASE NoCheck(alive_status, recv_alive_tick)
  <2>1. UNCHANGED <<recv_alive_tick, send_alive_tick, alivetick, air>>
    BY <1>5 DEF NoCheck
  <2> QED
    BY <1>3, <1>4, <2>1 DEF Answered
<1>6. CASE Check(alive_status, recv_alive_tick)
  <2>1. recv_alive_tick' = recv_alive_tick /\ alivetick' = 0
    BY <1>6 DEF Check
  <2>2. CASE Asks(alive_status, recv_alive_tick)
    <3>1. air' = air \cup {0}
      BY <1>6, <2>2 DEF Check
    <3>2. \E p \in air' : recv_alive_tick' < p + AliveMs + FilterMs + LateMs
      <4>1. CASE air = {}
        <5>1. recv_alive_tick < 0 + AliveMs + FilterMs + LateMs
          BY <1>2, <1>3, <4>1, Constants
        <5> QED
          BY <2>1, <3>1, <5>1
      <4>2. CASE air # {}
        BY <1>4, <2>1, <3>1, <4>2
      <4> QED
        BY <4>1, <4>2
    <3> QED
      BY <3>1, <3>2 DEF Answered
  <2>3. CASE ~Asks(alive_status, recv_alive_tick)
    <3>1. air' = air /\ send_alive_tick' = send_alive_tick
      BY <1>6, <2>3 DEF Check
    <3>2. recv_alive_tick < AliveMs \/ send_alive_tick < AliveMs
      BY <1>2, <2>3, Constants DEF Asks
    <3>3. air = {} => recv_alive_tick' < AliveMs + FilterMs + alivetick'
      BY <1>2, <1>3, <2>1, <3>2, Constants
    <3> QED
      BY <1>3, <1>4, <2>1, <3>1, <3>3 DEF Answered
  <2> QED
    BY <2>2, <2>3
<1> QED
  BY <1>5, <1>6 DEF Nothing, CheckOnline

LEMMA SignAnswered ==
  ASSUME TypeOK, TypeOK', NEW age, SignOfLife(age), ~keepalive'
  PROVE  Answered'
<1>1. recv_alive_tick' = 0
  <2>1. CheckOnline(1, 0)
    BY DEF SignOfLife
  <2>2. ~Silent(0)
    BY Constants DEF Silent
  <2> QED
    BY <2>1, <2>2 DEF CheckOnline, Check, NoCheck
<1>2. send_alive_tick' \in Nat /\ alivetick' \in Nat /\ air' \subseteq Nat
  BY Constants DEF TypeOK, Ages
<1>3. /\ recv_alive_tick' <= send_alive_tick' + FilterMs
      /\ recv_alive_tick' < AliveMs + FilterMs + alivetick'
  <2>1. \A s, t \in Nat : 0 <= s + FilterMs /\ 0 < AliveMs + FilterMs + t
    BY Constants
  <2> QED
    BY <1>1, <1>2, <2>1
<1>4. ASSUME NEW p \in air'
      PROVE  recv_alive_tick' < p + AliveMs + FilterMs + LateMs
  <2>1. p \in Nat
    BY <1>2
  <2> QED
    BY <1>1, <2>1, Constants
<1> QED
  BY <1>3, <1>4 DEF Answered

LEMMA AnsweredStep ==
  TypeOK /\ Answered /\ [Next]_vars => Answered'
<1> SUFFICES ASSUME TypeOK, Answered, [Next]_vars,
                    alive_status' = 1, ~missed'
             PROVE  Answered'
  BY DEF Answered
<1>0. TypeOK'
  BY TypeStep
<1>1. CASE HandleKeepAlive
  BY <1>0, <1>1, NothingAnswered, SignAnswered DEF HandleKeepAlive
<1>2. CASE HandleProvisioned
  BY <1>0, <1>2, SignAnswered DEF HandleProvisioned
<1>3. CASE HandleCommand
  BY <1>0, <1>3, SignAnswered DEF HandleCommand
<1>4. CASE HandleNothing
  BY <1>4, NothingAnswered DEF HandleNothing
<1>5. ASSUME NEW q \in air, Pong(q) PROVE Answered'
  <2>1. alive_status = 1 /\ ~missed /\ keepalive'
    BY <1>5 DEF Pong, history
  <2>2. UNCHANGED <<recv_alive_tick, alivetick>>
    BY <1>5 DEF Pong
  <2>3. /\ recv_alive_tick \in Nat /\ alivetick \in Nat
        /\ \A p \in air : p \in Nat /\ p <= TripMs
    BY Constants DEF TypeOK, Ages
  <2>4. recv_alive_tick < TripMs + AliveMs + FilterMs + LateMs + alivetick
    <3>1. CASE keepalive
      BY <2>1, <3>1 DEF Answered
    <3>2. CASE ~keepalive
      <4>1. PICK p \in air : recv_alive_tick < p + AliveMs + FilterMs + LateMs
        BY <2>1, <3>2 DEF Answered
      <4> QED
        BY <2>3, <4>1, Constants
    <3> QED
      BY <3>1, <3>2
  <2> QED
    BY <2>1, <2>2, <2>4 DEF Answered
<1>6. ASSUME NEW q \in air, Loss(q) PROVE Answered'
  BY <1>6 DEF Loss
<1>7. CASE GatewayGoes \/ GatewayReturns
  BY <1>7 DEF GatewayGoes, GatewayReturns, counters, history, Answered
<1>8. CASE Tick
  <2>1. /\ alive_status = 1 /\ ~missed /\ keepalive' = keepalive
        /\ air' = {p + 1 : p \in air}
        /\ alivetick' = alivetick + 1
    BY <1>8 DEF Tick, history
  <2>2. /\ recv_alive_tick \in Nat /\ send_alive_tick \in Nat
        /\ alivetick \in Nat /\ air \subseteq Nat
    BY Constants DEF TypeOK, Ages
  <2>3. recv_alive_tick' \in Nat /\ recv_alive_tick' <= recv_alive_tick + 1
    BY <1>8, OlderIs, Constants DEF Tick, TypeOK, Ages, Older
  <2>4. /\ send_alive_tick' = send_alive_tick + 1
        \/ send_alive_tick' = GatewayMs
    BY <1>8, OlderIs DEF Tick, TypeOK, Older
  <2>5. recv_alive_tick' <= GatewayMs
    BY <1>0, Constants DEF TypeOK, Ages
  <2>6. ASSUME air' = {}, ~keepalive'
        PROVE  /\ recv_alive_tick' <= send_alive_tick' + FilterMs
               /\ recv_alive_tick' < AliveMs + FilterMs + alivetick'
    <3>1. air = {} /\ ~keepalive
      BY <2>1, <2>6
    <3>2. /\ recv_alive_tick <= send_alive_tick + FilterMs
          /\ recv_alive_tick < AliveMs + FilterMs + alivetick
      BY <2>1, <3>1 DEF Answered
    <3> QED
      BY <2>1, <2>2, <2>3, <2>4, <2>5, <3>2, Constants
  <2>7. ASSUME air' # {}, ~keepalive'
        PROVE  \E p \in air' :
                 recv_alive_tick' < p + AliveMs + FilterMs + LateMs
    <3>1. PICK p \in air : recv_alive_tick < p + AliveMs + FilterMs + LateMs
      BY <2>1, <2>7 DEF Answered
    <3>2. recv_alive_tick' < (p + 1) + AliveMs + FilterMs + LateMs
      BY <2>2, <2>3, <3>1, Constants
    <3>3. p + 1 \in air'
      BY <2>1
    <3> QED
      BY <3>2, <3>3
  <2>8. ASSUME keepalive'
        PROVE  recv_alive_tick' <
                 TripMs + AliveMs + FilterMs + LateMs + alivetick'
    <3>1. recv_alive_tick < TripMs + AliveMs + FilterMs + LateMs + alivetick
      BY <2>1, <2>8 DEF Answered
    <3> QED
      BY <2>1, <2>2, <2>3, <3>1, Constants
  <2> QED
    BY <2>6, <2>7, <2>8 DEF Answered
<1>9. CASE UNCHANGED vars
  BY <1>9 DEF vars, counters, network, history, Answered
<1> QED
  BY <1>1, <1>2, <1>3, <1>4, <1>5, <1>6, <1>7, <1>8, <1>9
  DEF Next, Pass, Resolve

LEMMA AnsweredCorrect == Spec => []Answered
<1>1. TypeOK /\ Answered /\ [Next]_vars => TypeOK' /\ Answered'
  BY TypeStep, AnsweredStep
<1> QED
  BY <1>1, InitType, InitAnswered, PTL DEF Spec

(* Only a check goes offline, after GatewayMs of silence, and not in the   *)
(* pass that handles an answer.                                            *)
LEMMA OfflineIsSilence ==
  ASSUME TypeOK, [Next]_vars, GoesOffline
  PROVE  /\ Nothing
         /\ Check(alive_status, recv_alive_tick)
         /\ recv_alive_tick >= GatewayMs
         /\ ~keepalive
<1>1. alive_status = 1 /\ alive_status' = 0
  BY DEF GoesOffline
<1>2. ASSUME NEW age, SignOfLife(age) PROVE FALSE
  <2>1. ~Silent(0)
    BY Constants DEF Silent
  <2> QED
    BY <1>1, <1>2, <2>1 DEF SignOfLife, CheckOnline, Check, NoCheck
<1>3. ASSUME Nothing
      PROVE  /\ Check(alive_status, recv_alive_tick)
             /\ recv_alive_tick >= GatewayMs
  BY <1>1, <1>3 DEF Nothing, CheckOnline, Check, NoCheck, Silent
<1>4. CASE HandleKeepAlive
  <2>1. CASE Nothing /\ recv_alive_tick < FilterMs
    BY <1>3, <2>1, Constants DEF TypeOK, Ages
  <2> QED
    BY <1>2, <1>4, <2>1 DEF HandleKeepAlive
<1>5. CASE HandleProvisioned \/ HandleCommand
  BY <1>2, <1>5 DEF HandleProvisioned, HandleCommand
<1>6. CASE HandleNothing
  BY <1>3, <1>6 DEF HandleNothing
<1>7. ~Resolve /\ ~GatewayGoes /\ ~GatewayReturns /\ ~Tick
  BY <1>1 DEF Resolve, Pong, Loss, GatewayGoes, GatewayReturns, Tick, counters
<1>8. ~UNCHANGED vars
  BY <1>1 DEF vars, counters
<1> QED
  BY <1>4, <1>5, <1>6, <1>7, <1>8 DEF Next, Pass

LEMMA AnswersStep ==
  TypeOK /\ Answered /\ [Next]_vars => (GoesOffline => missed)
<1> SUFFICES ASSUME TypeOK, Answered, [Next]_vars, GoesOffline, ~missed
             PROVE  FALSE
  OBVIOUS
<1>1. recv_alive_tick >= GatewayMs /\ ~keepalive /\ alive_status = 1
  BY OfflineIsSilence DEF GoesOffline
<1>2. /\ recv_alive_tick \in Nat /\ alivetick \in Nat /\ alivetick <= LateMs
      /\ \A p \in air : p \in Nat /\ p <= TripMs
  BY Constants DEF TypeOK, Ages
<1>3. CASE air = {}
  <2>1. recv_alive_tick < AliveMs + FilterMs + alivetick
    BY <1>1, <1>3 DEF Answered
  <2> QED
    BY <1>1, <1>2, <2>1, Constants
<1>4. CASE air # {}
  <2>1. PICK p \in air : recv_alive_tick < p + AliveMs + FilterMs + LateMs
    BY <1>1, <1>4 DEF Answered
  <2> QED
    BY <1>1, <1>2, <2>1, Constants
<1> QED
  BY <1>3, <1>4

(* A gateway none of whose pings was lost since the last sign of life is   *)
(* never given up, for all intervals that leave room for one answer.       *)
THEOREM AnswersAlwaysKeepOnline == Spec => AnswersKeepOnline
<1>1. TypeOK /\ Answered /\ [Next]_vars => [GoesOffline => missed]_vars
  BY AnswersStep
<1> QED
  BY <1>1, TypeCorrect, AnsweredCorrect, PTL DEF Spec, AnswersKeepOnline

-----------------------------------------------------------------------------
(* A gateway that falls silent after a prompt answer.                      *)

LEMMA SeriesFits ==
  /\ AliveMs + CheckMs + Wakeups * LateMs <= GatewayMs
  /\ \A d \in Nat \ {0} : d * LateMs \in Nat /\ LateMs <= d * LateMs
  /\ \A d \in Nat \ {0} : (d - 1) * LateMs = d * LateMs - LateMs
<1>1. AliveMs + CheckMs + Wakeups * LateMs <= GatewayMs
  BY HeartbeatAssumption
<1>2. ASSUME NEW d \in Nat \ {0}
      PROVE  /\ d * LateMs \in Nat
             /\ LateMs <= d * LateMs
             /\ (d - 1) * LateMs = d * LateMs - LateMs
  <2>1. d * LateMs \in Nat /\ (d - 1) * LateMs \in Nat
    BY Constants
  <2>2. (d - 1) * LateMs = d * LateMs - LateMs
    BY Constants
  <2>3. LateMs <= d * LateMs
    BY <2>1, <2>2, Constants
  <2> QED
    BY <2>1, <2>2, <2>3
<1> QED
  BY <1>1, <1>2

LEMMA YoungestStep ==
  TypeOK /\ Youngest /\ [Next]_vars => Youngest'
<1> SUFFICES ASSUME TypeOK, Youngest, [Next]_vars PROVE Youngest'
  OBVIOUS
<1>1. ASSUME NEW status, NEW silence, CheckOnline(status, silence)
      PROVE  Youngest'
  <2>1. CASE send_alive_tick' = send_alive_tick /\ air' = air
    BY <2>1 DEF Youngest
  <2>2. CASE send_alive_tick' = 0 /\ air' = air \cup {0}
    <3>1. \A p \in air' : 0 <= p
      BY <2>2 DEF TypeOK
    <3> QED
      BY <2>2, <3>1 DEF Youngest
  <2>3. CASE send_alive_tick' = GatewayMs
    BY <2>3 DEF Youngest
  <2> QED
    BY <1>1, <2>1, <2>2, <2>3 DEF CheckOnline, Check, NoCheck
<1>2. CASE Pass
  BY <1>1, <1>2 DEF Pass, HandleKeepAlive, HandleProvisioned, HandleCommand,
    HandleNothing, SignOfLife, Nothing
<1>3. ASSUME NEW q \in air, Pong(q) \/ Loss(q) PROVE Youngest'
  <2>1. air' \subseteq air /\ send_alive_tick' = send_alive_tick
    BY <1>3 DEF Pong, Loss, counters
  <2> QED
    BY <2>1 DEF Youngest
<1>4. CASE GatewayGoes \/ GatewayReturns \/ UNCHANGED vars
  BY <1>4 DEF GatewayGoes, GatewayReturns, vars, counters, network, Youngest
<1>5. CASE Tick
  <2>1. send_alive_tick' = Older(send_alive_tick) /\ air' = {p + 1 : p \in air}
    BY <1>5 DEF Tick
  <2>2. send_alive_tick \in Ages /\ air \subseteq Nat
    BY Constants DEF TypeOK
  <2>3. CASE send_alive_tick = GatewayMs
    BY <2>1, <2>3, Constants DEF Older, Youngest
  <2>4. CASE send_alive_tick # GatewayMs
    <3>1. send_alive_tick' = send_alive_tick + 1
      BY <2>1, <2>2, <2>4, OlderIs
    <3>2. \A p \in air : send_alive_tick + 1 <= p + 1
      BY <2>2, <2>4, Constants DEF Youngest, Ages
    <3> QED
      BY <2>1, <3>1, <3>2 DEF Youngest
  <2> QED
    BY <2>3, <2>4
<1> QED
  BY <1>2, <1>3, <1>4, <1>5 DEF Next, Resolve

(* Before the first ping the ages have not reached their limit, and in a   *)
(* series the silence has not.                                             *)
LEMMA PromptAges ==
  ASSUME TypeOK, Prompt, alive_status = 1, lag <= CheckMs, asked < Wakeups
  PROVE  /\ asked = 0 => send_alive_tick < GatewayMs
         /\ recv_alive_tick < GatewayMs
         /\ asked > 0 => /\ recv_alive_tick - alivetick + LateMs < GatewayMs
                         /\ ~keepalive => send_alive_tick < GatewayMs
<1>1. /\ recv_alive_tick \in Nat /\ send_alive_tick \in Nat
      /\ alivetick \in Nat /\ alivetick <= LateMs
      /\ asked \in Nat /\ asked < Wakeups
  BY Constants DEF TypeOK, Ages
<1>2. CASE asked = 0
  BY <1>1, <1>2, Constants DEF Prompt
<1>3. CASE asked > 0
  <2>1. InSeries
    BY <1>3 DEF Prompt
  <2>2. /\ (Wakeups - asked) * LateMs \in Nat
        /\ LateMs <= (Wakeups - asked) * LateMs
    <3>1. Wakeups - asked \in Nat \ {0}
      BY <1>1, Constants
    <3> QED
      BY <3>1, SeriesFits
  <2>3. recv_alive_tick - alivetick + (Wakeups - asked) * LateMs < GatewayMs
    BY <2>1 DEF InSeries
  <2>4. recv_alive_tick - alivetick + LateMs < GatewayMs
    <3>1. \A d \in Nat :
            LateMs <= d /\ recv_alive_tick - alivetick + d < GatewayMs
              => recv_alive_tick - alivetick + LateMs < GatewayMs
      BY <1>1, Constants
    <3> QED
      BY <2>2, <2>3, <3>1
  <2>5. recv_alive_tick < GatewayMs
    BY <1>1, <2>4, Constants
  <2>6. ~keepalive => send_alive_tick <= recv_alive_tick
    BY <2>1 DEF InSeries
  <2> QED
    BY <1>1, <1>3, <2>4, <2>5, <2>6, Constants
<1> QED
  BY <1>1, <1>2, <1>3, Constants

(* A sign of life begins anew; only a prompt answer has a small lag.       *)
LEMMA SignPrompt ==
  ASSUME TypeOK, Prompt, SignOfLife(GatewayMs), ~keepalive'
  PROVE  Prompt'
BY Constants DEF SignOfLife, Prompt

LEMMA AnswerPrompt ==
  ASSUME TypeOK, Prompt, keepalive, SignOfLife(send_alive_tick), ~keepalive'
  PROVE  Prompt'
<1> SUFFICES ASSUME send_alive_tick <= CheckMs PROVE Prompt'
  BY DEF SignOfLife, Prompt
<1>1. alive_wakeup_cnt = Wakeups
  BY DEF Prompt
<1>2. send_alive_tick \in Nat /\ alivetick \in Nat
  BY Constants DEF TypeOK, Ages
<1>3. ~Asks(1, 0) /\ ~Silent(0)
  BY <1>1, <1>2, Constants DEF Asks, Silent
<1>4. /\ alive_wakeup_cnt' = Wakeups
      /\ send_alive_tick' = send_alive_tick
      /\ recv_alive_tick' = 0
      /\ air' = air
      /\ alivetick' \in Nat
  <2>1. CASE Check(1, 0)
    BY <1>1, <1>3, <2>1, Constants DEF Check, NextCount
  <2>2. CASE NoCheck(1, 0)
    BY <1>1, <1>2, <2>2 DEF NoCheck
  <2> QED
    BY <2>1, <2>2 DEF SignOfLife, CheckOnline
<1>5. asked' = 0
  BY <1>4 DEF SignOfLife
<1>6. /\ recv_alive_tick' <= send_alive_tick'
      /\ send_alive_tick' <= recv_alive_tick' + CheckMs
      /\ send_alive_tick' < AliveMs + CheckMs + alivetick'
  <2>1. \A t \in Nat : /\ 0 <= send_alive_tick
                       /\ send_alive_tick <= 0 + CheckMs
                       /\ send_alive_tick < AliveMs + CheckMs + t
    BY <1>2, Constants
  <2> QED
    BY <1>4, <2>1
<1> QED
  BY <1>4, <1>5, <1>6 DEF Prompt

(* An answer that is dropped as a repeat comes too early for a ping.       *)
LEMMA RepeatPrompt ==
  ASSUME TypeOK, Prompt, keepalive, alive_status = 1,
         recv_alive_tick < FilterMs, Nothing, ~keepalive'
  PROVE  Prompt'
<1> SUFFICES ASSUME lag <= CheckMs, asked < Wakeups PROVE Prompt'
  <2>1. asked \in Nat /\ lag \in Nat /\ lag' = lag
    BY Constants DEF TypeOK, Ages, Nothing
  <2>2. ~(asked < Wakeups) => asked' # 0 /\ ~(asked' < Wakeups)
    BY <2>1, Constants DEF Nothing
  <2> QED
    BY <2>1, <2>2 DEF Prompt
<1>1. alive_wakeup_cnt = Wakeups
  BY DEF Prompt
<1>2. /\ recv_alive_tick \in Nat /\ send_alive_tick \in Nat
      /\ alivetick \in Nat /\ asked \in Nat
  BY Constants DEF TypeOK, Ages
<1>3. asked = 0
  <2>1. ~(AliveMs <= recv_alive_tick + CheckMs)
    BY <1>2, Constants
  <2> QED
    BY <1>2, <2>1 DEF Prompt, InSeries
<1>4. /\ recv_alive_tick <= send_alive_tick
      /\ send_alive_tick <= recv_alive_tick + CheckMs
  BY <1>3 DEF Prompt
<1>5. send_alive_tick < AliveMs
  BY <1>2, <1>4, Constants
<1>6. ~Asks(alive_status, recv_alive_tick) /\ ~Silent(recv_alive_tick)
  BY <1>1, <1>2, <1>5, Constants DEF Asks, Silent
<1>7. /\ alive_wakeup_cnt' = Wakeups
      /\ UNCHANGED <<send_alive_tick, recv_alive_tick, air>>
      /\ alivetick' \in Nat
  <2>1. CASE Check(alive_status, recv_alive_tick)
    BY <1>1, <1>6, <2>1, Constants DEF Check, NextCount
  <2>2. CASE NoCheck(alive_status, recv_alive_tick)
    BY <1>1, <1>2, <2>2 DEF NoCheck
  <2> QED
    BY <2>1, <2>2 DEF Nothing, CheckOnline
<1>8. asked' = 0
  BY <1>3, <1>7 DEF Nothing
<1>9. send_alive_tick' < AliveMs + CheckMs + alivetick'
  <2>1. \A t \in Nat : send_alive_tick < AliveMs + CheckMs + t
    BY <1>2, <1>5, Constants
  <2> QED
    BY <1>7, <2>1
<1> QED
  BY <1>4, <1>7, <1>8, <1>9 DEF Prompt

(* A check that pings adds to the series: Youngest sees to it that no      *)
(* other ping of age 0 hides the new one from the count.                   *)
LEMMA FirstPing ==
  ASSUME TypeOK, Prompt, Youngest, Nothing, ~keepalive, ~keepalive',
         alive_status = 1, lag <= CheckMs, asked = 0
  PROVE  Prompt'
<1>1. /\ recv_alive_tick \in Nat /\ send_alive_tick \in Nat
      /\ alivetick \in Nat /\ alivetick <= LateMs
  BY Constants DEF TypeOK, Ages
<1>2. /\ alive_wakeup_cnt = Wakeups
      /\ recv_alive_tick <= send_alive_tick
      /\ send_alive_tick <= recv_alive_tick + CheckMs
      /\ send_alive_tick < AliveMs + CheckMs + alivetick
  BY DEF Prompt
<1>3. send_alive_tick < GatewayMs /\ ~Silent(recv_alive_tick)
  BY <1>1, <1>2, Constants DEF Silent
<1>4. CASE NoCheck(alive_status, recv_alive_tick)
  <2>1. UNCHANGED <<alive_wakeup_cnt, alivetick, send_alive_tick,
                    recv_alive_tick, air>>
    BY <1>4 DEF NoCheck
  <2>2. asked' = 0
    BY <2>1 DEF Nothing
  <2> QED
    BY <1>2, <2>1, <2>2 DEF Prompt
<1>5. CASE Check(alive_status, recv_alive_tick) /\ send_alive_tick < AliveMs
  <2>1. ~Asks(alive_status, recv_alive_tick)
    BY <1>1, <1>2, <1>5, Constants DEF Asks
  <2>2. /\ alive_wakeup_cnt' = Wakeups /\ alivetick' = 0
        /\ UNCHANGED <<send_alive_tick, recv_alive_tick, air>>
    BY <1>2, <1>3, <1>5, <2>1, Constants DEF Check, NextCount
  <2>3. asked' = 0
    BY <2>2 DEF Nothing
  <2>4. send_alive_tick' < AliveMs + CheckMs + alivetick'
    <3>1. send_alive_tick < AliveMs + CheckMs + 0
      BY <1>1, <1>5, Constants
    <3> QED
      BY <2>2, <3>1
  <2> QED
    BY <1>2, <2>2, <2>3, <2>4 DEF Prompt
<1>6. CASE Check(alive_status, recv_alive_tick) /\ ~(send_alive_tick < AliveMs)
  <2>1. Asks(alive_status, recv_alive_tick)
    BY <1>1, <1>2, <1>6, Constants DEF Asks
  <2>2. /\ alive_wakeup_cnt' = 1 /\ alivetick' = 0 /\ send_alive_tick' = 0
        /\ recv_alive_tick' = recv_alive_tick /\ air' = air \cup {0}
    BY <1>2, <1>3, <1>6, <2>1, Constants DEF Check, NextCount
  <2>3. 0 \notin air
    BY <1>1, <1>3, <1>6, Constants DEF Youngest
  <2>4. asked' = 1
    BY <2>2, <2>3, Constants DEF Nothing
  <2>5. AliveMs <= recv_alive_tick + CheckMs
    BY <1>1, <1>2, <1>6, Constants
  <2>6. ASSUME 1 < Wakeups
        PROVE  recv_alive_tick - 0 + (Wakeups - 1) * LateMs < GatewayMs
    <3>1. /\ Wakeups * LateMs \in Nat
          /\ (Wakeups - 1) * LateMs = Wakeups * LateMs - LateMs
      BY SeriesFits, Constants
    <3>2. \A w \in Nat : AliveMs + CheckMs + w <= GatewayMs
                           => recv_alive_tick - 0 + (w - LateMs) < GatewayMs
      BY <1>1, <1>2, Constants
    <3> QED
      BY <3>1, <3>2, SeriesFits
  <2>7. asked' < Wakeups => InSeries'
    <3>1. /\ 0 <= recv_alive_tick /\ 0 <= 0
          /\ AliveMs + 0 <= recv_alive_tick + CheckMs
      BY <1>1, <2>5, Constants
    <3> QED
      BY <2>2, <2>4, <2>5, <2>6, <3>1 DEF InSeries
  <2> QED
    BY <2>4, <2>7 DEF Prompt
<1> QED
  BY <1>4, <1>5, <1>6 DEF Nothing, CheckOnline

LEMMA NextPing ==
  ASSUME TypeOK, Prompt, Youngest, Nothing, ~keepalive, ~keepalive',
         alive_status = 1, lag <= CheckMs, asked > 0, asked < Wakeups
  PROVE  Prompt'
<1>1. /\ recv_alive_tick \in Nat /\ send_alive_tick \in Nat /\ asked \in Nat
      /\ alivetick \in Nat /\ alivetick <= LateMs
  BY Constants DEF TypeOK, Ages
<1>2. InSeries
  BY DEF Prompt
<1>3. /\ alive_wakeup_cnt = asked
      /\ alivetick <= send_alive_tick
      /\ send_alive_tick <= recv_alive_tick
      /\ AliveMs <= recv_alive_tick
           \/ AliveMs + send_alive_tick <= recv_alive_tick + CheckMs
  BY <1>2 DEF InSeries
<1>4. send_alive_tick < GatewayMs /\ ~Silent(recv_alive_tick)
  <2>1. recv_alive_tick < GatewayMs /\ send_alive_tick < GatewayMs
    BY PromptAges
  <2> QED
    BY <1>1, <2>1, Constants DEF Silent
<1>5. CASE alivetick < CheckMs
  <2>1. UNCHANGED <<alive_wakeup_cnt, alivetick, send_alive_tick,
                    recv_alive_tick, air>>
    BY <1>1, <1>5, Constants DEF Nothing, CheckOnline, NoCheck
  <2>2. asked' = asked
    BY <2>1 DEF Nothing
  <2> QED
    BY <1>1, <1>2, <2>1, <2>2, Constants DEF Prompt, InSeries
<1>6. CASE ~(alivetick < CheckMs)
  <2>1. AliveMs <= recv_alive_tick
    BY <1>1, <1>3, <1>6, Constants
  <2>2. Check(alive_status, recv_alive_tick)
    BY <1>1, <1>6, Constants DEF Nothing, CheckOnline
  <2>3. Asks(alive_status, recv_alive_tick)
    BY <1>3, <2>1 DEF Asks
  <2>4. /\ alive_wakeup_cnt' = asked + 1 /\ alivetick' = 0
        /\ send_alive_tick' = 0 /\ recv_alive_tick' = recv_alive_tick
        /\ air' = air \cup {0}
    BY <1>3, <1>4, <2>2, <2>3 DEF Check, NextCount
  <2>5. 0 \notin air
    BY <1>1, <1>3, <1>4, <1>6, Constants DEF Youngest
  <2>6. asked' = asked + 1
    BY <2>4, <2>5 DEF Nothing
  <2>7. ASSUME asked + 1 < Wakeups
        PROVE  recv_alive_tick - 0 + (Wakeups - (asked + 1)) * LateMs
                 < GatewayMs
    <3>1. /\ Wakeups - asked \in Nat \ {0}
          /\ Wakeups - (asked + 1) = Wakeups - asked - 1
      BY <1>1, Constants
    <3>2. /\ (Wakeups - asked) * LateMs \in Nat
          /\ (Wakeups - (asked + 1)) * LateMs =
               (Wakeups - asked) * LateMs - LateMs
      BY <3>1, SeriesFits
    <3>3. recv_alive_tick - alivetick + (Wakeups - asked) * LateMs < GatewayMs
      BY <1>2 DEF InSeries
    <3>4. \A w \in Nat : recv_alive_tick - alivetick + w < GatewayMs
                           => recv_alive_tick - 0 + (w - LateMs) < GatewayMs
      BY <1>1, Constants
    <3> QED
      BY <3>2, <3>3, <3>4
  <2>8. asked' < Wakeups => InSeries'
    <3>1. 0 <= recv_alive_tick /\ 0 <= 0 /\ AliveMs <= recv_alive_tick + CheckMs
      BY <1>1, <2>1, Constants
    <3> QED
      BY <2>1, <2>4, <2>6, <2>7, <3>1 DEF InSeries
  <2>9. asked' > 0
    BY <1>1, <2>6
  <2> QED
    BY <2>6, <2>8, <2>9, <1>1 DEF Prompt
<1> QED
  BY <1>5, <1>6

LEMMA NothingPrompt ==
  ASSUME TypeOK, Prompt, Youngest, Nothing, ~keepalive, ~keepalive'
  PROVE  Prompt'
<1> SUFFICES ASSUME alive_status' = 1, lag <= CheckMs, asked < Wakeups
             PROVE  Prompt'
  <2>1. asked \in Nat /\ lag' = lag
    BY Constants DEF TypeOK, Nothing
  <2>2. ~(asked < Wakeups) => asked' # 0 /\ ~(asked' < Wakeups)
    BY <2>1, Constants DEF Nothing
  <2> QED
    BY <2>1, <2>2 DEF Prompt
<1>1. alive_status = 1
  BY DEF Nothing, CheckOnline, Check, NoCheck
<1>2. asked = 0 \/ asked > 0
  BY Constants DEF TypeOK
<1> QED
  BY <1>1, <1>2, FirstPing, NextPing

LEMMA TickPrompt ==
  ASSUME TypeOK, Prompt, Tick
  PROVE  Prompt'
<1>1. UNCHANGED <<alive_status, alive_wakeup_cnt, keepalive, asked, lag>>
  BY DEF Tick, history
<1> SUFFICES ASSUME alive_status = 1, lag <= CheckMs, asked < Wakeups
             PROVE  Prompt'
  BY <1>1, Constants DEF Prompt, TypeOK
<1>2. /\ recv_alive_tick \in Nat /\ send_alive_tick \in Nat /\ asked \in Nat
      /\ alivetick \in Nat /\ alivetick' = alivetick + 1
  BY Constants DEF TypeOK, Ages, Tick
<1>3. recv_alive_tick' = recv_alive_tick + 1
  <2>1. recv_alive_tick < GatewayMs
    BY PromptAges
  <2> QED
    BY <2>1 DEF Tick, Older
<1>4. send_alive_tick < GatewayMs => send_alive_tick' = send_alive_tick + 1
  BY DEF Tick, Older
<1>5. CASE asked = 0
  <2>1. send_alive_tick' = send_alive_tick + 1
    BY <1>4, <1>5, PromptAges
  <2>2. /\ alive_wakeup_cnt = Wakeups
        /\ recv_alive_tick <= send_alive_tick
        /\ send_alive_tick <= recv_alive_tick + CheckMs
        /\ send_alive_tick < AliveMs + CheckMs + alivetick
    BY <1>5 DEF Prompt
  <2>3. /\ recv_alive_tick + 1 <= send_alive_tick + 1
        /\ send_alive_tick + 1 <= recv_alive_tick + 1 + CheckMs
        /\ send_alive_tick + 1 < AliveMs + CheckMs + (alivetick + 1)
    BY <1>2, <2>2, Constants
  <2> QED
    BY <1>1, <1>2, <1>3, <1>5, <2>1, <2>2, <2>3 DEF Prompt
<1>6. CASE asked > 0
  <2>1. InSeries
    BY <1>6 DEF Prompt
  <2>2. AliveMs <= recv_alive_tick + 1 + CheckMs
    BY <1>2, <2>1, Constants DEF InSeries
  <2>3. recv_alive_tick + 1 - (alivetick + 1) + (Wakeups - asked) * LateMs
          < GatewayMs
    <3>1. recv_alive_tick - alivetick + (Wakeups - asked) * LateMs < GatewayMs
      BY <2>1 DEF InSeries
    <3>2. recv_alive_tick + 1 - (alivetick + 1) = recv_alive_tick - alivetick
      BY <1>2
    <3> QED
      BY <3>1, <3>2
  <2>4. ASSUME ~keepalive
        PROVE  /\ alive_wakeup_cnt = asked
               /\ send_alive_tick' = send_alive_tick + 1
               /\ alivetick + 1 <= send_alive_tick + 1
               /\ send_alive_tick + 1 <= recv_alive_tick + 1
               /\ AliveMs <= recv_alive_tick + 1
                    \/ AliveMs + (send_alive_tick + 1)
                         <= recv_alive_tick + 1 + CheckMs
    <3>1. /\ alive_wakeup_cnt = asked
          /\ alivetick <= send_alive_tick
          /\ send_alive_tick <= recv_alive_tick
          /\ AliveMs <= recv_alive_tick
               \/ AliveMs + send_alive_tick <= recv_alive_tick + CheckMs
      BY <2>1, <2>4 DEF InSeries
    <3>2. send_alive_tick' = send_alive_tick + 1
      BY <1>4, <1>6, <2>4, PromptAges
    <3> QED
      BY <1>2, <3>1, <3>2, Constants
  <2>5. InSeries'
    BY <1>1, <1>2, <1>3, <2>2, <2>3, <2>4 DEF InSeries
  <2>6. (keepalive => alive_wakeup_cnt = Wakeups) /\ asked # 0
    BY <1>2, <1>6 DEF Prompt
  <2> QED
    BY <1>1, <2>5, <2>6 DEF Prompt
<1> QED
  BY <1>2, <1>5, <1>6

LEMMA PromptStep ==
  TypeOK /\ Prompt /\ Youngest /\ [Next]_vars => Prompt'
<1> SUFFICES ASSUME TypeOK, Prompt, Youngest, [Next]_vars PROVE Prompt'
  OBVIOUS
<1>1. CASE HandleKeepAlive
  BY <1>1, AnswerPrompt, RepeatPrompt DEF HandleKeepAlive
<1>2. CASE HandleProvisioned
  BY <1>2, SignPrompt DEF HandleProvisioned
<1>3. CASE HandleCommand
  BY <1>3, SignPrompt DEF HandleCommand
<1>4. CASE HandleNothing
  BY <1>4, NothingPrompt DEF HandleNothing
<1>5. ASSUME NEW q \in air, Pong(q) PROVE Prompt'
  BY <1>5 DEF Pong, history, Prompt, InSeries
<1>6. ASSUME NEW q \in air, Loss(q) PROVE Prompt'
  BY <1>6 DEF Loss, counters, Prompt, InSeries
<1>7. CASE GatewayGoes \/ GatewayReturns \/ UNCHANGED vars
  BY <1>7 DEF GatewayGoes, GatewayReturns, vars, counters, network, history,
    Prompt, InSeries
<1>8. CASE Tick
  BY <1>8, TickPrompt
<1> QED
  BY <1>1, <1>2, <1>3, <1>4, <1>5, <1>6, <1>7, <1>8 DEF Next, Pass, Resolve

LEMMA PromptCorrect == Spec => [](Prompt /\ Youngest)
<1>1. Init => Prompt /\ Youngest
  BY Constants DEF Init, Prompt, Youngest
<1>2. TypeOK /\ Prompt /\ Youngest /\ [Next]_vars
        => TypeOK' /\ Prompt' /\ Youngest'
  BY TypeStep, PromptStep, YoungestStep
<1> QED
  BY <1>1, <1>2, InitType, PTL DEF Spec

(* After a prompt answer a silent gateway is asked Wakeups times before it *)
(* is given up, however late within LateMs the checks are.                 *)
THEOREM PromptAlwaysAskedAgain == Spec => PromptIsAskedAgain
<1>1. TypeOK /\ Prompt /\ [Next]_vars
        => [GoesOffline /\ lag <= CheckMs => asked = Wakeups]_vars
  <2> SUFFICES ASSUME TypeOK, Prompt, [Next]_vars, GoesOffline, lag <= CheckMs
               PROVE  asked = Wakeups
    OBVIOUS
  <2>1. recv_alive_tick >= GatewayMs /\ alive_status = 1
    BY OfflineIsSilence DEF GoesOffline
  <2>2. recv_alive_tick \in Nat /\ asked \in Nat /\ asked <= Wakeups
    BY Constants DEF TypeOK, Ages
  <2>3. ~(asked < Wakeups)
    <3> SUFFICES ASSUME asked < Wakeups PROVE FALSE
      OBVIOUS
    <3>1. recv_alive_tick < GatewayMs
      BY <2>1, PromptAges
    <3> QED
      BY <2>1, <2>2, <3>1, Constants
  <2> QED
    BY <2>2, <2>3, Constants
<1> QED
  BY <1>1, TypeCorrect, PromptCorrect, PTL DEF Spec, PromptIsAskedAgain

=============================================================================
