------------------------------ MODULE EventFifo ------------------------------
(***************************************************************************)
(* The main message FIFO (app_skyiot_server.c:352-421): a ring buffer      *)
(* between the mesh receive callback and the main loop, and the duplicate  *)
(* filter at its exit.  Receive callback and main loop both run in the app *)
(* task; the last tick of the provisioning timer pushes one event from the *)
(* timer task, which preempts the app task.                                *)
(***************************************************************************)
EXTENDS TickArith, Sequences

CONSTANTS
  Filtered,    \* events subject to the duplicate filter, as whole records
  Provisioned, \* EVENT_TYPE_PROVISIONED, pushed by the timer task
  NoEvent,     \* no event, the zeroed checksameeven
  Depth,       \* MAIN_MSG_FIFO_DEEP
  Window,      \* the 1000 ms of the duplicate filter
  Preemption   \* whether the timer task may interrupt a push or a pop

Events == Filtered \cup {Provisioned}

ASSUME FifoAssumption ==
  /\ Provisioned \notin Filtered
  /\ NoEvent \notin Events
  /\ Depth \in Nat /\ Depth >= 2
  /\ Window \in Nat \ {0}
  /\ Preemption \in BOOLEAN

VARIABLES
  slots, head, tail, \* MainMsg_fifo.even_t, .head, .tail
  app,                \* where the app task is inside a push or a pop
  got,                \* what the last pop returned
  checksameeven,      \* the event the filter compares with
  oldtick,            \* when it was accepted, 0 when it was forgotten
  tick,               \* HAL_GetTickCount
  prov,               \* history of the Provisioned event
  last,               \* history: the filtered event accepted last
  age                 \* history: time since each event was accepted

fifo == <<slots, head, tail>>
filter == <<checksameeven, oldtick>>
history == <<prov, last, age>>
vars == <<slots, head, tail, app, got, checksameeven, oldtick, tick, prov,
          last, age>>

Index == 0 .. Depth - 1
LongAgo == Window + TickMod    \* ages are counted up to this bound

AppIdle == [pc |-> "idle"]
AppStates ==
  {AppIdle} \cup [pc : {"addressed"}, e : Filtered, at : Index]
            \cup [pc : {"copied", "advanced", "popped"}]

TypeOK ==
  /\ slots \in [Index -> Events \cup {NoEvent}]
  /\ head \in Index /\ tail \in Index
  /\ app \in AppStates
  /\ got \in Events \cup {NoEvent}
  /\ checksameeven \in Filtered \cup {NoEvent}
  /\ oldtick \in Ticks /\ tick \in Ticks
  /\ prov \in {"none", "owed", "done"}
  /\ last \in Filtered \cup {NoEvent}
  /\ age \in [Filtered -> 0 .. LongAgo]

Init ==
  /\ slots = [i \in Index |-> NoEvent]
  /\ head = 0 /\ tail = 0
  /\ app = AppIdle
  /\ got = NoEvent
  /\ checksameeven = NoEvent /\ oldtick = 0
  /\ tick \in Ticks
  /\ prov = "none"
  /\ last = NoEvent
  /\ age = [e \in Filtered |-> LongAgo]

(* (i + 1) % MAIN_MSG_FIFO_DEEP                                            *)
Succ(i) == IF i = Depth - 1 THEN 0 ELSE i + 1

-----------------------------------------------------------------------------
(* Push_Msg_Into_FIFO in the app task, access by access.                   *)

PushAddress(e) ==
  /\ app = AppIdle
  /\ app' = [pc |-> "addressed", e |-> e, at |-> head]
  /\ UNCHANGED <<fifo, got, filter, tick, history>>

PushCopy ==
  /\ app.pc = "addressed"
  /\ slots' = [slots EXCEPT ![app.at] = app.e]
  /\ app' = [pc |-> "copied"]
  /\ UNCHANGED <<head, tail, got, filter, tick, history>>

(* A head that meets the tail has overwritten the ring's last free slot:   *)
(* the oldest event is given up.                                           *)
Forgets(h) == h = tail /\ slots[tail] = Provisioned

PushHead ==
  /\ app.pc = "copied"
  /\ head' = Succ(head)
  /\ prov' = IF Forgets(head') THEN "done" ELSE prov
  /\ app' = [pc |-> "advanced"]
  /\ UNCHANGED <<slots, tail, got, filter, tick, last, age>>

KeepTail(h) == tail                                             \* mutant
TailAfterPush(h) == IF h = tail THEN Succ(tail) ELSE tail

PushTail ==
  /\ app.pc = "advanced"
  /\ tail' = TailAfterPush(head)
  /\ app' = AppIdle
  /\ UNCHANGED <<slots, head, got, filter, tick, history>>

(* The same function as one step of the timer task, for the event that     *)
(* ends the provisioning blink.                                            *)
TimerPush ==
  /\ Preemption \/ app = AppIdle
  /\ prov = "none"
  /\ slots' = [slots EXCEPT ![head] = Provisioned]
  /\ head' = Succ(head)
  /\ tail' = TailAfterPush(head')
  /\ prov' = "owed"
  /\ UNCHANGED <<app, got, filter, tick, last, age>>

-----------------------------------------------------------------------------
(* Pop_Msg_From_FIFO, called once by every main loop.                      *)

(* Forgetting the last accepted event when it is old enough.               *)
ExpiresAtOnce(check, since) ==                                  \* mutant
  check # NoEvent
NeverExpires(check, since) == FALSE                             \* mutant
Expired(check, since) ==
  /\ check # NoEvent
  /\ since # 0
  /\ TickDiff(since, tick) >= Window

Expire ==
  IF Expired(checksameeven, oldtick)
  THEN checksameeven' = NoEvent /\ oldtick' = 0
  ELSE UNCHANGED filter

PopEmpty ==
  /\ app = AppIdle
  /\ head = tail
  /\ got' = NoEvent
  /\ Expire
  /\ UNCHANGED <<fifo, app, tick, history>>

(* The oldest event passes unless it is filtered and equals the last one.  *)
PopPass(e) ==
  /\ e \notin Filtered \/ e # checksameeven
  /\ got' = e
  /\ IF e \in Filtered
     THEN /\ checksameeven' = e /\ oldtick' = tick
          /\ last' = e /\ age' = [age EXCEPT ![e] = 0]
     ELSE UNCHANGED <<checksameeven, oldtick, last, age>>
  /\ prov' = IF e = Provisioned THEN "done" ELSE prov

PopDrop(e) ==
  /\ e \in Filtered /\ e = checksameeven
  /\ got' = NoEvent
  /\ UNCHANGED <<filter, history>>

PopCopy ==
  /\ app = AppIdle
  /\ head # tail
  /\ PopPass(slots[tail]) \/ PopDrop(slots[tail])
  /\ app' = [pc |-> "popped"]
  /\ UNCHANGED <<fifo, tick>>

TailAfterPop == Succ(tail)

PopTail ==
  /\ app.pc = "popped"
  /\ tail' = TailAfterPop
  /\ Expire
  /\ app' = AppIdle
  /\ UNCHANGED <<slots, head, got, tick, history>>

-----------------------------------------------------------------------------
Elapse ==
  /\ tick' = NextTick(tick)
  /\ age' = [e \in Filtered |-> IF age[e] = LongAgo THEN LongAgo
                                ELSE age[e] + 1]
  /\ UNCHANGED <<fifo, app, got, filter, prov, last>>

Push == (\E e \in Filtered : PushAddress(e)) \/ PushCopy \/ PushHead \/ PushTail
Pop == PopEmpty \/ PopCopy \/ PopTail
Next == Push \/ TimerPush \/ Pop \/ Elapse

Spec == Init /\ [][Next]_vars

-----------------------------------------------------------------------------
(* The ring as a queue.  Between the two index updates of a push into a    *)
(* full ring the indexes meet; the oldest event is then already gone.      *)

FirstIndex == IF app.pc = "advanced" /\ head = tail THEN Succ(tail) ELSE tail

Count == IF head >= FirstIndex THEN head - FirstIndex
                               ELSE head + Depth - FirstIndex

Slot(i) == IF i < Depth THEN i ELSE i - Depth

Content == [i \in 1 .. Count |-> slots[Slot(FirstIndex + i - 1)]]

Abstract == INSTANCE EventQueue WITH queue <- Content, Capacity <- Depth - 1

(* Unless the timer task interrupts a push or a pop, the ring              *)
(* is a queue of Depth - 1 events that forgets the oldest: nothing is      *)
(* reordered, repeated or lost in any other way.                           *)
RingIsQueue == Abstract!Spec

(* app_skyiot_server.c:1112, "after the blink ... trigger the provisioning *)
(* success event": the event the timer task pushed stays in the ring until *)
(* a pop returns it or a full ring gives it up.                            *)
ProvisionedTriggered ==
  prov = "owed" => \E i \in 1 .. Count : Content[i] = Provisioned

(* Of two equal events accepted one after the other the second came at     *)
(* least a window later: an immediate retransmission is not executed       *)
(* twice.                                                                  *)
RepeatsAreApart ==
  [][ PopCopy /\ got' \in Filtered /\ got' = last => age[got'] >= Window ]_vars

(* The tick at which an event was accepted, by its age.                    *)
AcceptedAt(e) == IF age[e] <= tick THEN tick - age[e]
                                   ELSE tick + TickMod - age[e]

(* The filter does not outlive its window, also across a wrap of the tick: *)
(* when a pop has seen an accepted event become older than the window (and *)
(* the one tick HAL_CalculateTickDiff may be short), the filter has        *)
(* forgotten it, unless it was accepted at tick 0, which the code reads as *)
(* "never", or a whole turn of the tick has hidden its age.                *)
FilterForgets ==
  [][ PopTail \/ PopEmpty =>
        \A e \in Filtered :
          age[e] > Window /\ age[e] < TickMod /\ AcceptedAt(e) # 0
            => checksameeven' # e ]_vars
=============================================================================
