--------------------------- MODULE EventFifoProofs ---------------------------
(* Proofs about EventFifo for any ring depth, window and tick width.       *)
(*                                                                         *)
(* The refinement follows from Sound: while a push is under way the head   *)
(* has not moved past the slot it writes, so the slot lies outside the     *)
(* content and becomes its last element when the head moves.  What is said *)
(* of the duplicate filter follows from Spacing and Dated.                 *)
EXTENDS EventFifo, SequenceTheorems, TLAPS

Items == Events \cup {NoEvent}

Sound ==
  /\ app.pc = "addressed" => app.at = head
  /\ app.pc = "copied" => slots[head] \in Events
  /\ app.pc = "popped" => head # tail

IInv == TypeOK /\ Sound

(* The tick difference is what has passed, but for one millisecond when    *)
(* the counter has wrapped in between.                                     *)
THEOREM TickDiffExact ==
  ASSUME NEW from \in Ticks, NEW to \in Ticks
  PROVE  /\ to >= from => TickDiff(from, to) = Elapsed(from, to)
         /\ to < from  => TickDiff(from, to) = Elapsed(from, to) - 1
         /\ TickDiff(from, to) \in Ticks
BY TickModAssumption DEF Ticks, TickDiff, Elapsed

LEMMA SuccType == ASSUME NEW i \in Index PROVE Succ(i) \in Index /\ Succ(i) # i
BY FifoAssumption DEF Succ, Index

LEMMA TickType ==
  ASSUME NEW t \in Ticks PROVE NextTick(t) \in Ticks /\ 0 \in Ticks
BY TickModAssumption DEF NextTick, Ticks

(* Where the app task can be.                                              *)
LEMMA AppShape ==
  /\ AppIdle \in AppStates /\ AppIdle.pc = "idle"
  /\ \A pc \in {"copied", "advanced", "popped"} :
       [pc |-> pc] \in AppStates /\ [pc |-> pc].pc = pc
  /\ \A e \in Filtered, i \in Index :
       /\ [pc |-> "addressed", e |-> e, at |-> i] \in AppStates
       /\ [pc |-> "addressed", e |-> e, at |-> i].pc = "addressed"
       /\ [pc |-> "addressed", e |-> e, at |-> i].at = i
  /\ \A a \in AppStates :
       /\ a.pc = "addressed" => a.e \in Filtered /\ a.at \in Index
       /\ a.pc = "idle" => a = AppIdle
BY DEF AppStates, AppIdle

(* The initial states satisfy the inductive invariant.                     *)
LEMMA InitIInv == Init => IInv
<1> SUFFICES ASSUME Init PROVE IInv
  OBVIOUS
<1>1. 0 \in Index
  BY FifoAssumption DEF Index
<1>2. LongAgo \in 0 .. LongAgo
  BY FifoAssumption, TickModAssumption DEF LongAgo
<1>3. TypeOK
  BY <1>1, <1>2, AppShape, TickType, TickModAssumption, FifoAssumption
  DEF Init, TypeOK, Ticks
<1> QED
  BY <1>3, AppShape DEF IInv, Sound, Init

(* Expiring keeps the filter's types.                                      *)
LEMMA ExpireType ==
  ASSUME TypeOK, Expire
  PROVE  checksameeven' \in Filtered \cup {NoEvent} /\ oldtick' \in Ticks
BY TickType DEF TypeOK, Expire, filter

(* Every step keeps the types, with preemption too.                        *)
LEMMA NextType == ASSUME TypeOK, [Next]_vars PROVE TypeOK'
<1> USE DEF fifo, filter, history
<1>1. ASSUME NEW e \in Filtered, PushAddress(e) PROVE TypeOK'
  BY <1>1, AppShape DEF TypeOK, PushAddress
<1>2. CASE PushCopy
  BY <1>2, AppShape DEF TypeOK, PushCopy, Events
<1>3. CASE PushHead
  BY <1>3, AppShape, SuccType DEF TypeOK, PushHead
<1>4. CASE PushTail
  BY <1>4, AppShape, SuccType DEF TypeOK, PushTail, TailAfterPush
<1>5. CASE TimerPush
  BY <1>5, SuccType DEF TypeOK, TimerPush, TailAfterPush, Events
<1>6. CASE PopEmpty
  BY <1>6, ExpireType DEF TypeOK, PopEmpty
<1>7. CASE PopCopy
  <2> DEFINE e == slots[tail]
  <2>1. e \in Items
    BY DEF TypeOK, Items
  <2>2. 0 \in 0 .. LongAgo
    BY FifoAssumption, TickModAssumption DEF LongAgo
  <2>3. CASE PopPass(e)
    BY <1>7, <2>1, <2>2, <2>3, AppShape DEF TypeOK, PopCopy, PopPass, Items
  <2>4. CASE PopDrop(e)
    BY <1>7, <2>4, AppShape DEF TypeOK, PopCopy, PopDrop
  <2> QED
    BY <1>7, <2>3, <2>4 DEF PopCopy
<1>8. CASE PopTail
  BY <1>8, AppShape, SuccType, ExpireType DEF TypeOK, PopTail, TailAfterPop
<1>9. CASE Elapse
  <2>1. \A n \in 0 .. LongAgo : n # LongAgo => n + 1 \in 0 .. LongAgo
    BY FifoAssumption, TickModAssumption DEF LongAgo
  <2>2. age' \in [Filtered -> 0 .. LongAgo]
    BY <1>9, <2>1 DEF TypeOK, Elapse
  <2> QED
    BY <1>9, <2>2, TickType DEF TypeOK, Elapse
<1>10. CASE UNCHANGED vars
  BY <1>10 DEF TypeOK, vars
<1> QED
  BY <1>1, <1>2, <1>3, <1>4, <1>5, <1>6, <1>7, <1>8, <1>9, <1>10
  DEF Next, Push, Pop

(* Every step of a system without preemption keeps the invariant.          *)
LEMMA NextIInv ==
  ASSUME IInv, ~Preemption, [Next]_vars
  PROVE  IInv'
<1> USE DEF fifo, filter, history
<1>1. TypeOK /\ TypeOK'
  BY NextType DEF IInv
<1>2. ASSUME NEW e \in Filtered, PushAddress(e) PROVE Sound'
  BY <1>1, <1>2, AppShape DEF TypeOK, Sound, PushAddress
<1>3. CASE PushCopy
  BY <1>1, <1>3, AppShape DEF IInv, TypeOK, Sound, PushCopy, Events
<1>4. CASE PushHead \/ PushTail \/ PopTail \/ PopEmpty
  BY <1>1, <1>4, AppShape
  DEF IInv, Sound, PushHead, PushTail, PopTail, PopEmpty
<1>5. CASE TimerPush
  BY <1>1, <1>5, AppShape DEF IInv, Sound, TimerPush
<1>6. CASE PopCopy
  <2>1. app'.pc = "popped" /\ head' = head /\ tail' = tail /\ head # tail
    BY <1>6, AppShape DEF PopCopy
  <2> QED
    BY <1>1, <2>1 DEF IInv, Sound
<1>7. CASE Elapse \/ UNCHANGED vars
  BY <1>1, <1>7 DEF IInv, Sound, Elapse, vars
<1> QED
  BY <1>1, <1>2, <1>3, <1>4, <1>5, <1>6, <1>7 DEF IInv, Next, Push, Pop

(* Type correctness of the ring and of the duplicate filter, whoever       *)
(* interrupts whom.                                                        *)
THEOREM TypeCorrect == Spec => []TypeOK
<1>1. Init => TypeOK
  BY InitIInv DEF IInv
<1>2. TypeOK /\ [Next]_vars => TypeOK'
  BY NextType
<1> QED
  BY <1>1, <1>2, PTL DEF Spec

(* Without preemption the variables keep their types and a push always     *)
(* writes the slot at the head.                                            *)
THEOREM SoundAlways == ~Preemption => (Spec => []IInv)
<1> SUFFICES ASSUME ~Preemption PROVE Spec => []IInv
  OBVIOUS
<1>1. Init => IInv
  BY InitIInv
<1>2. IInv /\ [Next]_vars => IInv'
  BY NextIInv
<1> QED
  BY <1>1, <1>2, PTL DEF Spec

-----------------------------------------------------------------------------
(* The content of the ring.                                                *)

ContentShape ==
  /\ Content \in Seq(Items)
  /\ Len(Content) = Count
  /\ Count \in 0 .. Depth - 1
  /\ FirstIndex \in Index
  /\ \A i \in 1 .. Count : /\ Slot(FirstIndex + i - 1) \in Index
                           /\ Content[i] = slots[Slot(FirstIndex + i - 1)]

LEMMA ContentType == TypeOK => ContentShape
<1> SUFFICES ASSUME TypeOK PROVE ContentShape
  OBVIOUS
<1>1. FirstIndex \in Index
  BY SuccType DEF TypeOK, FirstIndex
<1>2. Count \in 0 .. Depth - 1
  BY <1>1, FifoAssumption DEF TypeOK, Count, Index
<1>3. \A i \in 1 .. Count : Slot(FirstIndex + i - 1) \in Index
  BY <1>1, <1>2, FifoAssumption DEF Slot, Index
<1>4. \A i \in 1 .. Count : slots[Slot(FirstIndex + i - 1)] \in Items
  BY <1>3 DEF TypeOK, Items
<1>5. Count \in Nat
  BY <1>2, FifoAssumption
<1>6. Content \in [1 .. Count -> Items]
  BY <1>4 DEF Content
<1>7. Content \in Seq(Items) /\ Len(Content) = Count
  BY <1>5, <1>6
<1> QED
  BY <1>1, <1>2, <1>3, <1>7 DEF Content, ContentShape

LEMMA ContentTypeNext == TypeOK' => ContentShape'
BY ContentType, PTL

(* A content that keeps its places is the same content.                    *)
LEMMA SameContent ==
  ASSUME TypeOK, TypeOK', FirstIndex' = FirstIndex, Count' = Count,
         \A i \in 1 .. Count :
           slots'[Slot(FirstIndex + i - 1)] = slots[Slot(FirstIndex + i - 1)]
  PROVE  Content' = Content
<1>1. Content' = [i \in 1 .. Count |-> slots'[Slot(FirstIndex + i - 1)]]
  BY DEF Content, Slot
<1> QED
  BY <1>1 DEF Content

-----------------------------------------------------------------------------
(* The refinement, step by step.                                           *)

(* Moving the head past a slot outside the content appends that slot.      *)
LEMMA HeadMovesPuts ==
  ASSUME IInv, IInv', NEW e \in Events,
         app.pc \in {"copied", "idle"},
         head' = Succ(head), slots' = [slots EXCEPT ![head] = e],
         \/ tail' = tail /\ app'.pc = "advanced"
         \/ app'.pc = "idle" /\ tail' = TailAfterPush(head')
  PROVE  Abstract!Put(e)
<1>1. TypeOK /\ TypeOK'
  BY DEF IInv
<1>2. FirstIndex = tail
  BY DEF FirstIndex
<1>3. FirstIndex' = IF head' = tail THEN Succ(tail) ELSE tail
  <2>1. FirstIndex' = IF app'.pc = "advanced" /\ head' = tail'
                      THEN Succ(tail') ELSE tail'
    BY DEF FirstIndex, Succ
  <2>2. head' = tail => head' # Succ(tail)
    BY <1>1, SuccType DEF TypeOK
  <2> QED
    BY <2>1, <2>2 DEF TailAfterPush
<1>4. Count' = IF head' >= FirstIndex' THEN head' - FirstIndex'
                                       ELSE head' + Depth - FirstIndex'
  BY DEF Count
<1>5. Count < Depth - 1 => Count' = Count + 1 /\ FirstIndex' = FirstIndex
  BY <1>1, <1>2, <1>3, <1>4, FifoAssumption DEF TypeOK, Count, Index, Succ
<1>6. Count = Depth - 1 => Count' = Count /\ FirstIndex' = Succ(FirstIndex)
  BY <1>1, <1>2, <1>3, <1>4, FifoAssumption DEF TypeOK, Count, Index, Succ
<1>7. \A i \in 1 .. Count : Slot(FirstIndex + i - 1) # head
  BY <1>1, <1>2, FifoAssumption DEF TypeOK, Count, Index, Slot
<1>8. Slot(FirstIndex + Count) = head
  BY <1>1, <1>2, FifoAssumption DEF TypeOK, Count, Index, Slot
<1>9. /\ Content \in Seq(Items) /\ Len(Content) = Count
      /\ Content' \in Seq(Items) /\ Len(Content') = Count'
      /\ Count \in 0 .. Depth - 1
  BY <1>1, ContentType, ContentTypeNext DEF ContentShape, Items
<1>10. e \in Items
  BY DEF Items
<1>11. ASSUME NEW i \in 1 .. Count'
       PROVE  Content'[i] = slots'[Slot(FirstIndex' + i - 1)]
  BY <1>11 DEF Content, Slot
<1>12. CASE Count < Depth - 1
  <2>1. ASSUME NEW i \in 1 .. Count'
        PROVE  Content'[i] = Append(Content, e)[i]
    <3>1. CASE i = Count + 1
      BY <1>1, <1>5, <1>8, <1>9, <1>11, <1>12, <3>1 DEF TypeOK
    <3>2. CASE i # Count + 1
      <4>1. i \in 1 .. Count
        BY <1>5, <1>9, <1>12, <3>2
      <4>2. Content[i] = slots[Slot(FirstIndex + i - 1)]
        BY <1>1, <4>1, ContentType DEF ContentShape
      <4>3. slots'[Slot(FirstIndex + i - 1)] = slots[Slot(FirstIndex + i - 1)]
        BY <1>1, <1>7, <4>1, ContentType DEF ContentShape, TypeOK
      <4> QED
        BY <1>5, <1>9, <1>10, <1>11, <1>12, <4>1, <4>2, <4>3
    <3> QED
      BY <3>1, <3>2
  <2>2. Content' = Append(Content, e)
    BY <1>5, <1>9, <1>10, <1>12, <2>1, SeqEqual
  <2> QED
    BY <1>9, <1>12, <2>2 DEF Abstract!Put
<1>13. CASE Count = Depth - 1
  <2>1. Content # <<>>
    BY <1>9, <1>13, FifoAssumption
  <2>2. /\ Tail(Content) \in Seq(Items)
        /\ Len(Tail(Content)) = Count - 1
        /\ \A i \in 1 .. Count - 1 : Tail(Content)[i] = Content[i + 1]
    BY <1>9, <2>1, HeadTailProperties
  <2>3. /\ Append(Tail(Content), e) \in Seq(Items)
        /\ Len(Append(Tail(Content), e)) = Count
    BY <1>9, <1>10, <1>13, <2>2, FifoAssumption
  <2>4. ASSUME NEW i \in 1 .. Count
        PROVE  Content'[i] = Append(Tail(Content), e)[i]
    <3>1. Slot(FirstIndex' + i - 1) = Slot(FirstIndex + i)
      BY <1>1, <1>2, <1>6, <1>9, <1>13, FifoAssumption
      DEF Slot, Succ, TypeOK, Index
    <3>2. Content'[i] = slots'[Slot(FirstIndex + i)]
      BY <1>6, <1>11, <1>13, <3>1
    <3>3. CASE i = Count
      BY <1>1, <1>8, <1>9, <2>2, <3>2, <3>3 DEF TypeOK
    <3>4. CASE i # Count
      <4>1. i + 1 \in 1 .. Count /\ i \in 1 .. Count - 1
        BY <1>9, <3>4
      <4>2. (i + 1) - 1 = i
        OBVIOUS
      <4>3. Slot(FirstIndex + i) \in Index /\ Slot(FirstIndex + i) # head
        BY <1>1, <1>2, <4>1, FifoAssumption DEF TypeOK, Count, Index, Slot
      <4>4. Content[i + 1] = slots[Slot(FirstIndex + i)]
        BY <1>1, <1>2, <4>1 DEF Content, Count, TypeOK, Index
      <4>5. slots'[Slot(FirstIndex + i)] = slots[Slot(FirstIndex + i)]
        BY <1>1, <4>3 DEF TypeOK
      <4> QED
        BY <1>9, <2>2, <3>2, <4>1, <4>4, <4>5
    <3> QED
      BY <3>3, <3>4
  <2>5. Content' = Append(Tail(Content), e)
    BY <1>6, <1>9, <1>13, <2>3, <2>4, SeqEqual
  <2> QED
    BY <1>9, <1>13, <2>5 DEF Abstract!Put
<1> QED
  BY <1>9, <1>12, <1>13, FifoAssumption

(* Moving the tail past the oldest slot takes the first element.           *)
LEMMA TailMovesTakes ==
  ASSUME IInv, IInv', PopTail
  PROVE  Abstract!Take
<1>1. TypeOK /\ TypeOK'
  BY DEF IInv
<1>2. FirstIndex = tail /\ FirstIndex' = Succ(tail)
  BY <1>1, AppShape DEF PopTail, FirstIndex, TailAfterPop, Succ
<1>3. head # tail /\ head' = head /\ slots' = slots
  BY DEF IInv, Sound, PopTail
<1>4. Count' = IF head >= Succ(tail) THEN head - Succ(tail)
                                     ELSE head + Depth - Succ(tail)
  BY <1>2, <1>3 DEF Count
<1>5. Count > 0 /\ Count' = Count - 1
  BY <1>1, <1>2, <1>3, <1>4, FifoAssumption DEF TypeOK, Count, Index, Succ
<1>6. ContentShape /\ ContentShape'
  BY <1>1, ContentType, ContentTypeNext
<1>7. Content # <<>>
  BY <1>5, <1>6, FifoAssumption DEF ContentShape
<1>8. /\ Tail(Content) \in Seq(Items)
      /\ Len(Tail(Content)) = Count - 1
      /\ \A i \in 1 .. Count - 1 : Tail(Content)[i] = Content[i + 1]
  BY <1>6, <1>7, HeadTailProperties DEF ContentShape
<1>9. ASSUME NEW i \in 1 .. Count'
      PROVE  Content'[i] = Tail(Content)[i]
  <2>1. Content'[i] = slots[Slot(Succ(tail) + i - 1)]
    BY <1>2, <1>3 DEF Content, Slot
  <2>2. Slot(Succ(tail) + i - 1) = Slot(tail + i)
    <3>1. i \in 1 .. Depth - 1 /\ tail \in 0 .. Depth - 1
      BY <1>1, <1>5, <1>6, FifoAssumption DEF TypeOK, Index, ContentShape
    <3> QED
      BY <3>1, FifoAssumption DEF Slot, Succ
  <2>3. Content[i + 1] = slots[Slot(tail + i)]
    BY <1>1, <1>2, <1>5, <1>6 DEF Content, TypeOK, Index, ContentShape
  <2> QED
    BY <1>5, <1>8, <2>1, <2>2, <2>3
<1>10. Content' = Tail(Content)
  BY <1>5, <1>6, <1>8, <1>9, SeqEqual DEF ContentShape
<1> QED
  BY <1>7, <1>10 DEF Abstract!Take

(* Writing outside the content, or finishing a push, changes no content.   *)
LEMMA PushCopyKeeps ==
  ASSUME IInv, IInv', PushCopy
  PROVE  Content' = Content
<1>1. TypeOK /\ TypeOK' /\ app.at = head
  BY DEF IInv, Sound, PushCopy
<1>2. FirstIndex = tail /\ FirstIndex' = tail /\ Count' = Count
  BY AppShape DEF PushCopy, FirstIndex, Count, Succ
<1>3. \A i \in 1 .. Count : /\ Slot(tail + i - 1) # head
                            /\ Slot(tail + i - 1) \in Index
  BY <1>1, <1>2, FifoAssumption DEF TypeOK, Count, Index, Slot
<1>4. \A i \in 1 .. Count :
        slots'[Slot(tail + i - 1)] = slots[Slot(tail + i - 1)]
  BY <1>1, <1>3 DEF PushCopy, TypeOK
<1> QED
  BY <1>1, <1>2, <1>4, SameContent

LEMMA PushTailKeeps ==
  ASSUME IInv, IInv', PushTail
  PROVE  Content' = Content
<1>1. TypeOK /\ TypeOK'
  BY DEF IInv
<1>2. FirstIndex' = FirstIndex /\ Count' = Count /\ slots' = slots
  BY <1>1, AppShape, SuccType
  DEF PushTail, FirstIndex, Count, TailAfterPush, TypeOK, Succ
<1> QED
  BY <1>1, <1>2, SameContent

(* Every step maps to a step of the queue or changes nothing in it.        *)
LEMMA StepSimulates ==
  ASSUME IInv, IInv', ~Preemption, [Next]_vars
  PROVE  [Abstract!Next]_Content
<1> USE DEF fifo, filter, history
<1>1. ASSUME NEW e \in Filtered, PushAddress(e) PROVE Content' = Content
  <2>1. FirstIndex' = FirstIndex /\ Count' = Count /\ slots' = slots
    BY <1>1, AppShape DEF PushAddress, FirstIndex, Count, Succ
  <2> QED
    BY <2>1, SameContent DEF IInv
<1>2. CASE PushHead
  <2>1. slots' = [slots EXCEPT ![head] = slots[head]] /\ slots[head] \in Events
    BY <1>2 DEF PushHead, IInv, Sound, TypeOK
  <2>2. app.pc = "copied" /\ app'.pc = "advanced"
    BY <1>2, AppShape DEF PushHead
  <2>3. Abstract!Put(slots[head])
    BY <1>2, <2>1, <2>2, HeadMovesPuts DEF PushHead
  <2> QED
    BY <2>1, <2>3 DEF Abstract!Next
<1>3. CASE TimerPush
  <2>1. Provisioned \in Events /\ app.pc = "idle" /\ app'.pc = "idle"
    BY <1>3, AppShape DEF TimerPush, Events
  <2>2. Abstract!Put(Provisioned)
    BY <1>3, <2>1, HeadMovesPuts DEF TimerPush
  <2> QED
    BY <2>1, <2>2 DEF Abstract!Next
<1>4. CASE PopEmpty \/ Elapse \/ UNCHANGED vars
  BY <1>4, SameContent
  DEF PopEmpty, Elapse, vars, FirstIndex, Count, Succ, IInv
<1>5. CASE PopCopy
  <2>1. FirstIndex' = FirstIndex /\ Count' = Count /\ slots' = slots
    BY <1>5, AppShape DEF PopCopy, FirstIndex, Count, Succ
  <2> QED
    BY <2>1, SameContent DEF IInv
<1> QED
  BY <1>1, <1>2, <1>3, <1>4, <1>5, PushCopyKeeps, PushTailKeeps,
     TailMovesTakes DEF Next, Push, Pop, Abstract!Next

(* Without preemption the ring is the queue of Depth - 1 events that       *)
(* forgets its oldest.                                                     *)
THEOREM RingIsQueueAlways == ~Preemption => (Spec => RingIsQueue)
<1> SUFFICES ASSUME ~Preemption PROVE Spec => RingIsQueue
  OBVIOUS
<1>1. Init => Content = <<>>
  <2> SUFFICES ASSUME Init PROVE Content = <<>>
    OBVIOUS
  <2>1. FirstIndex = 0 /\ Count = 0
    BY AppShape DEF Init, FirstIndex, Count
  <2>2. TypeOK
    BY InitIInv DEF IInv
  <2> QED
    BY <2>1, <2>2, ContentType, EmptySeq DEF ContentShape
<1>2. IInv /\ IInv' /\ [Next]_vars => [Abstract!Next]_Content
  BY StepSimulates
<1> QED
  BY <1>1, <1>2, SoundAlways, PTL
  DEF Spec, RingIsQueue, Abstract!Spec, Abstract!Init

-----------------------------------------------------------------------------
(* The event that ends the provisioning.                                   *)

Holds(q, e) == \E i \in 1 .. Len(q) : q[i] = e

(* While it is owed it is in the ring, and not in the slot that a pop has  *)
(* already read.                                                           *)
Owed ==
  prov = "owed" =>
    Holds(Content, Provisioned)
    /\ (app.pc = "popped" => slots[tail] # Provisioned)

LEMMA PutHolds ==
  ASSUME NEW q \in Seq(Items), NEW e \in Items, NEW o \in Items,
         o = e \/ Holds(q, o)
  PROVE  /\ Holds(Append(q, e), o)
         /\ q # <<>> /\ (o = e \/ q[1] # o) => Holds(Append(Tail(q), e), o)
<1>1. Holds(Append(q, e), o)
  <2>1. /\ Len(Append(q, e)) = Len(q) + 1 /\ Append(q, e)[Len(q) + 1] = e
        /\ \A i \in 1 .. Len(q) : Append(q, e)[i] = q[i]
    OBVIOUS
  <2>2. CASE o = e
    <3>1. Len(q) + 1 \in 1 .. Len(Append(q, e))
      BY <2>1
    <3> QED BY <2>1, <2>2, <3>1 DEF Holds
  <2>3. CASE Holds(q, o)
    <3>1. PICK i \in 1 .. Len(q) : q[i] = o
      BY <2>3 DEF Holds
    <3>2. i \in 1 .. Len(Append(q, e))
      BY <2>1
    <3> QED BY <2>1, <3>1, <3>2 DEF Holds
  <2> QED BY <2>2, <2>3
<1>2. ASSUME q # <<>>, o = e \/ q[1] # o
      PROVE  Holds(Append(Tail(q), e), o)
  <2>1. /\ Tail(q) \in Seq(Items) /\ Len(Tail(q)) = Len(q) - 1
        /\ \A i \in 1 .. Len(q) - 1 : Tail(q)[i] = q[i + 1]
    BY <1>2, HeadTailProperties
  <2>2. /\ Len(Append(Tail(q), e)) = Len(q)
        /\ Append(Tail(q), e)[Len(q)] = e
        /\ \A i \in 1 .. Len(q) - 1 : Append(Tail(q), e)[i] = q[i + 1]
    BY <2>1
  <2>3. CASE o = e
    <3>1. Len(q) \in 1 .. Len(q)
      BY <1>2
    <3> QED BY <2>2, <2>3, <3>1 DEF Holds
  <2>4. CASE o # e
    <3>1. PICK i \in 1 .. Len(q) : q[i] = o
      BY <2>4 DEF Holds
    <3>2. i - 1 \in 1 .. Len(q) - 1 /\ (i - 1) + 1 = i
      BY <1>2, <2>4, <3>1
    <3>3. Append(Tail(q), e)[i - 1] = o
      BY <2>2, <3>1, <3>2
    <3>4. i - 1 \in 1 .. Len(Append(Tail(q), e))
      BY <2>2, <3>2
    <3> QED BY <3>3, <3>4 DEF Holds
  <2> QED BY <2>3, <2>4
<1> QED BY <1>1, <1>2

(* The oldest element is the slot at the tail.                             *)
LEMMA OldestSlot ==
  ASSUME TypeOK, FirstIndex = tail, Content # <<>>
  PROVE  Content[1] = slots[tail]
<1>1. Count \in 1 .. Depth - 1
  BY ContentType, EmptySeq, FifoAssumption DEF ContentShape
<1>2. Content[1] = slots[Slot(FirstIndex + 1 - 1)]
  BY <1>1, FifoAssumption DEF Content
<1> QED
  BY <1>2, FifoAssumption DEF Slot, TypeOK, Index

LEMMA StepKeepsOwed ==
  ASSUME IInv, IInv', Owed, ~Preemption, [Next]_vars
  PROVE  Owed'
<1> USE DEF fifo, filter, history
<1>1. TypeOK /\ TypeOK' /\ Content \in Seq(Items) /\ Content' \in Seq(Items)
      /\ Len(Content) = Count /\ Count \in 0 .. Depth - 1
      /\ Provisioned \in Items
  BY ContentType, ContentTypeNext DEF IInv, ContentShape, Items, Events
<1>2. CASE PushHead
  <2>1. slots' = [slots EXCEPT ![head] = slots[head]] /\ slots[head] \in Events
    BY <1>2 DEF PushHead, IInv, Sound, TypeOK
  <2>2. app.pc = "copied" /\ app'.pc = "advanced"
    BY <1>2, AppShape DEF PushHead
  <2>3. Abstract!Put(slots[head])
    BY <1>2, <2>1, <2>2, HeadMovesPuts DEF PushHead
  <2>4. SUFFICES ASSUME prov' = "owed" PROVE Holds(Content, Provisioned)'
    BY <2>2 DEF Owed
  <2>5. prov = "owed" /\ ~ (head' = tail /\ slots[tail] = Provisioned)
    BY <1>2, <2>4 DEF PushHead, Forgets
  <2>6. Holds(Content, Provisioned)
    BY <2>5 DEF Owed
  <2>7. CASE Len(Content) < Depth - 1
    <3>1. Content' = Append(Content, slots[head])
      BY <2>3, <2>7 DEF Abstract!Put
    <3> QED
      BY <1>1, <2>1, <2>6, <3>1, PutHolds DEF Items, Holds
  <2>8. CASE ~ (Len(Content) < Depth - 1)
    <3>1. Content' = Append(Tail(Content), slots[head])
      BY <2>3, <2>8 DEF Abstract!Put
    <3>2. FirstIndex = tail
      BY <2>2 DEF FirstIndex
    <3>3. head' = tail
      BY <1>1, <1>2, <2>8, <3>2, FifoAssumption
      DEF PushHead, Count, TypeOK, Index, Succ
    <3>4. Content # <<>>
      BY <1>1, <2>8, FifoAssumption
    <3>5. Content[1] # Provisioned
      BY <1>1, <2>5, <3>2, <3>3, <3>4, OldestSlot
    <3>6. Holds(Append(Tail(Content), slots[head]), Provisioned)
      BY <1>1, <2>1, <2>6, <3>4, <3>5, PutHolds DEF Items
    <3> QED
      BY <3>1, <3>6 DEF Holds
  <2> QED BY <2>7, <2>8
<1>3. CASE TimerPush
  <2>1. Provisioned \in Events /\ app.pc = "idle" /\ app'.pc = "idle"
    BY <1>3, AppShape DEF TimerPush, Events
  <2>2. Abstract!Put(Provisioned)
    BY <1>3, <2>1, HeadMovesPuts DEF TimerPush
  <2>3. Content' = Append(Content, Provisioned)
        \/ /\ Content' = Append(Tail(Content), Provisioned)
           /\ Content # <<>>
    BY <1>1, <2>2, FifoAssumption DEF Abstract!Put
  <2>4. Holds(Append(Content, Provisioned), Provisioned)
        /\ (Content # <<>> =>
              Holds(Append(Tail(Content), Provisioned), Provisioned))
    BY <1>1, PutHolds
  <2>5. Holds(Content, Provisioned)'
    BY <2>3, <2>4 DEF Holds
  <2> QED
    BY <2>1, <2>5 DEF Owed
<1>4. CASE PopTail
  <2>1. Abstract!Take /\ app'.pc = "idle"
    BY <1>4, TailMovesTakes, AppShape DEF PopTail
  <2>2. SUFFICES ASSUME prov' = "owed" PROVE Holds(Content, Provisioned)'
    BY <2>1 DEF Owed
  <2>3. /\ Holds(Content, Provisioned) /\ slots[tail] # Provisioned
        /\ FirstIndex = tail
    BY <1>4, <2>2 DEF PopTail, Owed, FirstIndex
  <2>4. Content # <<>> /\ Content' = Tail(Content)
    BY <2>1 DEF Abstract!Take
  <2>5. PICK i \in 1 .. Len(Content) : Content[i] = Provisioned
    BY <2>3 DEF Holds
  <2>6. i # 1
    BY <1>1, <2>3, <2>4, <2>5, OldestSlot
  <2>7. /\ Len(Tail(Content)) = Len(Content) - 1
        /\ \A j \in 1 .. Len(Content) - 1 : Tail(Content)[j] = Content[j + 1]
    BY <1>1, <2>4, HeadTailProperties
  <2>8. i - 1 \in 1 .. Len(Tail(Content)) /\ Tail(Content)[i - 1] = Provisioned
    BY <1>1, <2>5, <2>6, <2>7
  <2> QED
    BY <2>4, <2>8 DEF Holds
<1>5. CASE PopCopy
  <2>1. FirstIndex' = FirstIndex /\ Count' = Count /\ slots' = slots
        /\ tail' = tail
    BY <1>5, AppShape DEF PopCopy, FirstIndex, Count, Succ
  <2>2. Content' = Content
    BY <1>1, <2>1, SameContent
  <2>3. prov' = "owed" => prov = "owed" /\ slots[tail] # Provisioned
    BY <1>5, FifoAssumption DEF PopCopy, PopPass, PopDrop
  <2> QED
    BY <2>1, <2>2, <2>3 DEF Owed, Holds
<1>6. ASSUME NEW e \in Filtered, PushAddress(e) PROVE Owed'
  <2>1. FirstIndex' = FirstIndex /\ Count' = Count /\ slots' = slots
        /\ app'.pc = "addressed" /\ prov' = prov
    BY <1>6, AppShape DEF PushAddress, FirstIndex, Count, Succ
  <2>2. Content' = Content
    BY <1>1, <2>1, SameContent
  <2> QED
    BY <2>1, <2>2 DEF Owed, Holds
<1>7. CASE PushCopy \/ PushTail
  <2>1. Content' = Content /\ prov' = prov /\ app'.pc # "popped"
    BY <1>7, PushCopyKeeps, PushTailKeeps, AppShape DEF PushCopy, PushTail
  <2> QED
    BY <2>1 DEF Owed, Holds
<1>8. CASE PopEmpty \/ Elapse \/ UNCHANGED vars
  <2>1. /\ FirstIndex' = FirstIndex /\ Count' = Count /\ slots' = slots
        /\ tail' = tail /\ app' = app /\ prov' = prov
    BY <1>8 DEF PopEmpty, Elapse, vars, FirstIndex, Count, Succ
  <2>2. Content' = Content
    BY <1>1, <2>1, SameContent
  <2> QED
    BY <2>1, <2>2 DEF Owed, Holds
<1> QED
  BY <1>2, <1>3, <1>4, <1>5, <1>6, <1>7, <1>8 DEF Next, Push, Pop

(* The event that ends the provisioning is in the ring until a pop returns *)
(* it or a full ring gives it up (app_skyiot_server.c:1112), for any depth *)
(* and any traffic, if the timer task does not interrupt a push or a pop.  *)
THEOREM ProvisionedAlwaysTriggered ==
  ~Preemption => (Spec => []ProvisionedTriggered)
<1> SUFFICES ASSUME ~Preemption PROVE Spec => []ProvisionedTriggered
  OBVIOUS
<1>1. Init => Owed
  BY DEF Init, Owed
<1>2. IInv /\ IInv' /\ Owed /\ [Next]_vars => Owed'
  BY StepKeepsOwed
<1>3. IInv /\ Owed => ProvisionedTriggered
  BY ContentType
  DEF IInv, Owed, Holds, ProvisionedTriggered, ContentShape
<1> QED
  BY <1>1, <1>2, <1>3, SoundAlways, PTL DEF Spec

-----------------------------------------------------------------------------
(* The duplicate filter, which reads the ring but never the indexes: what  *)
(* follows holds with preemption too.                                      *)

(* The filter remembers the event accepted last or has forgotten it, and   *)
(* that after a window; what it remembers is at least as old as the tick   *)
(* difference says.                                                        *)
Spacing ==
  /\ checksameeven \in {NoEvent, last}
  /\ last \in Filtered /\ last # checksameeven => age[last] >= Window
  /\ checksameeven # NoEvent /\ oldtick # 0 =>
       \/ age[checksameeven] = LongAgo
       \/ age[checksameeven] >= TickDiff(oldtick, tick)

Apart == TypeOK /\ Spacing

LEMMA NothingFiltered == NoEvent \notin Filtered
BY FifoAssumption DEF Events

(* A tick adds one to the difference at most, also where it wraps.         *)
LEMMA DiffGrows ==
  ASSUME NEW from \in Ticks, NEW to \in Ticks, from # 0
  PROVE  /\ TickDiff(from, to) \in Nat
         /\ TickDiff(from, NextTick(to)) \in Nat
         /\ TickDiff(from, NextTick(to)) <= TickDiff(from, to) + 1
         /\ TickDiff(from, from) = 0
BY TickModAssumption DEF Ticks, TickDiff, NextTick

LEMMA AgeGrows ==
  ASSUME TypeOK, Elapse, NEW e \in Filtered
  PROVE  /\ age[e] \in 0 .. LongAgo /\ age'[e] \in 0 .. LongAgo
         /\ age[e] = LongAgo => age'[e] = LongAgo
         /\ age[e] # LongAgo => age'[e] = age[e] + 1
<1>1. \A n \in 0 .. LongAgo : n # LongAgo => n + 1 \in 0 .. LongAgo
  BY FifoAssumption, TickModAssumption DEF LongAgo
<1> QED
  BY <1>1 DEF TypeOK, Elapse

(* What an accepted event does to the filter.                              *)
LEMMA Accepted ==
  ASSUME TypeOK, PopCopy
  PROVE  \/ /\ UNCHANGED <<checksameeven, oldtick, last, age, tick>>
            /\ got' \notin Filtered
         \/ \E e \in Filtered :
              /\ e # checksameeven /\ got' = e
              /\ checksameeven' = e /\ oldtick' = tick /\ tick' = tick
              /\ last' = e /\ age' = [age EXCEPT ![e] = 0]
<1> DEFINE e == slots[tail]
<1>1. CASE PopPass(e) /\ e \in Filtered
  BY <1>1 DEF PopCopy, PopPass
<1>2. CASE PopPass(e) /\ e \notin Filtered
  BY <1>2 DEF PopCopy, PopPass
<1>3. CASE PopDrop(e)
  BY <1>3, NothingFiltered DEF PopCopy, PopDrop, filter, history
<1> QED
  BY <1>1, <1>2, <1>3 DEF PopCopy

(* The steps that leave the filter alone.                                  *)
LEMMA FilterAlone ==
  ASSUME Push \/ TimerPush \/ UNCHANGED vars
  PROVE  UNCHANGED <<checksameeven, oldtick, last, age, tick>>
BY DEF Push, PushAddress, PushCopy, PushHead, PushTail, TimerPush, vars,
       filter, history, fifo

LEMMA ExpireForgets ==
  ASSUME PopEmpty \/ PopTail
  PROVE  /\ UNCHANGED <<last, age, tick>>
         /\ Expired(checksameeven, oldtick) =>
              checksameeven' = NoEvent /\ oldtick' = 0
         /\ ~ Expired(checksameeven, oldtick) =>
              UNCHANGED <<checksameeven, oldtick>>
BY DEF PopEmpty, PopTail, Expire, filter, history

LEMMA InitApart == Init => Apart
<1> SUFFICES ASSUME Init PROVE Apart
  OBVIOUS
<1>1. TypeOK
  BY InitIInv DEF IInv
<1>2. Spacing
  BY NothingFiltered DEF Init, Spacing
<1> QED
  BY <1>1, <1>2 DEF Apart

LEMMA SpacingKept ==
  ASSUME Apart, [Next]_vars
  PROVE  Spacing'
<1>1. TypeOK /\ Spacing /\ TypeOK'
  BY NextType DEF Apart
<1>2. CASE Push \/ TimerPush \/ UNCHANGED vars
  BY <1>1, <1>2, FilterAlone DEF Spacing
<1>3. CASE PopCopy
  <2>1. CASE UNCHANGED <<checksameeven, oldtick, last, age, tick>>
    BY <1>1, <2>1 DEF Spacing
  <2>2. CASE \E e \in Filtered :
               /\ e # checksameeven /\ got' = e
               /\ checksameeven' = e /\ oldtick' = tick /\ tick' = tick
               /\ last' = e /\ age' = [age EXCEPT ![e] = 0]
    <3>1. checksameeven' = last' /\ last' \in Filtered
          /\ age'[checksameeven'] = 0
      BY <1>1, <2>2 DEF TypeOK
    <3>2. oldtick' # 0 => TickDiff(oldtick', tick') = 0
      BY <1>1, <2>2, DiffGrows DEF TypeOK
    <3> QED
      BY <3>1, <3>2 DEF Spacing
  <2> QED
    BY <1>1, <1>3, <2>1, <2>2, Accepted
<1>4. CASE PopEmpty \/ PopTail
  <2>1. CASE ~ Expired(checksameeven, oldtick)
    BY <1>1, <1>4, <2>1, ExpireForgets DEF Spacing
  <2>2. CASE Expired(checksameeven, oldtick)
    <3>1. /\ checksameeven' = NoEvent /\ last' = last /\ age' = age
          /\ checksameeven # NoEvent /\ oldtick # 0
          /\ TickDiff(oldtick, tick) >= Window
      BY <1>4, <2>2, ExpireForgets DEF Expired
    <3>2. last = checksameeven /\ last \in Filtered
      BY <1>1, <3>1 DEF Spacing, TypeOK
    <3>3. age[last] = LongAgo \/ age[last] >= TickDiff(oldtick, tick)
      BY <1>1, <3>1, <3>2 DEF Spacing
    <3>4. age[last] \in Nat /\ TickDiff(oldtick, tick) \in Nat
      BY <1>1, <3>1, <3>2, DiffGrows, FifoAssumption
      DEF TypeOK, LongAgo
    <3>5. age[last] >= Window
      BY <3>1, <3>3, <3>4, FifoAssumption, TickModAssumption DEF LongAgo
    <3> QED
      BY <3>1, <3>5 DEF Spacing
  <2> QED
    BY <2>1, <2>2
<1>5. CASE Elapse
  <2>1. UNCHANGED <<checksameeven, oldtick, last>> /\ tick' = NextTick(tick)
    BY <1>5 DEF Elapse, filter
  <2>2. ASSUME last \in Filtered, last # checksameeven
        PROVE  age'[last] >= Window
    <3>1. age[last] >= Window
      BY <1>1, <2>2 DEF Spacing
    <3> QED
      BY <1>1, <1>5, <2>2, <3>1, AgeGrows, FifoAssumption DEF LongAgo
  <2>3. ASSUME checksameeven # NoEvent, oldtick # 0
        PROVE  \/ age'[checksameeven] = LongAgo
               \/ age'[checksameeven] >= TickDiff(oldtick, tick')
    <3>1. checksameeven \in Filtered
      BY <1>1, <2>3 DEF TypeOK
    <3>2. \/ age[checksameeven] = LongAgo
          \/ age[checksameeven] >= TickDiff(oldtick, tick)
      BY <1>1, <2>3 DEF Spacing
    <3>3. /\ TickDiff(oldtick, tick) \in Nat
          /\ TickDiff(oldtick, tick') \in Nat
          /\ TickDiff(oldtick, tick') <= TickDiff(oldtick, tick) + 1
      BY <1>1, <2>1, <2>3, DiffGrows DEF TypeOK
    <3> QED
      BY <1>1, <1>5, <3>1, <3>2, <3>3, AgeGrows, FifoAssumption DEF LongAgo
  <2> QED
    BY <1>1, <2>1, <2>2, <2>3 DEF Spacing
<1> QED
  BY <1>2, <1>3, <1>4, <1>5 DEF Next, Pop

(* Two equal events accepted one after the other are a window apart        *)
(* (app_skyiot_server.c:379, 402), for any traffic, with preemption and    *)
(* across wraps of the tick.                                               *)
THEOREM RepeatsAlwaysApart == Spec => RepeatsAreApart
<1>1. Init => Apart
  BY InitApart
<1>2. Apart /\ [Next]_vars => Apart'
  BY NextType, SpacingKept DEF Apart
<1>3. Apart => (PopCopy /\ got' \in Filtered /\ got' = last
                  => age[got'] >= Window)
  BY Accepted DEF Apart, Spacing
<1>4. Apart /\ [Next]_vars =>
        [PopCopy /\ got' \in Filtered /\ got' = last
           => age[got'] >= Window]_vars
  BY <1>3
<1> QED
  BY <1>1, <1>2, <1>4, PTL DEF Spec, RepeatsAreApart

(* Until a whole turn of the tick hides it, the age of what the filter     *)
(* remembers says at which tick it was accepted.                           *)
Dated ==
  checksameeven # NoEvent /\ age[checksameeven] < TickMod
    => oldtick = AcceptedAt(checksameeven)

(* A tick makes everything one older, also where it wraps.                 *)
LEMMA SameDate ==
  ASSUME TypeOK, Elapse, NEW e \in Filtered, age'[e] < TickMod
  PROVE  age[e] < TickMod /\ AcceptedAt(e)' = AcceptedAt(e)
<1>1. /\ age[e] \in Nat /\ age'[e] \in Nat /\ LongAgo >= TickMod
      /\ LongAgo \in Nat
  BY AgeGrows, FifoAssumption, TickModAssumption DEF LongAgo
<1>2. age'[e] = age[e] + 1
  BY <1>1, AgeGrows, TickModAssumption
<1>3. tick \in 0 .. TickMod - 1 /\ tick' = NextTick(tick)
  BY DEF TypeOK, Ticks, Elapse
<1> QED
  BY <1>1, <1>2, <1>3, TickModAssumption DEF AcceptedAt, NextTick

LEMMA DatedKept ==
  ASSUME TypeOK, Dated, [Next]_vars
  PROVE  Dated'
<1>1. CASE Push \/ TimerPush \/ UNCHANGED vars
  BY <1>1, FilterAlone DEF Dated, AcceptedAt
<1>2. CASE PopCopy
  <2>1. CASE UNCHANGED <<checksameeven, oldtick, last, age, tick>>
    BY <2>1 DEF Dated, AcceptedAt
  <2>2. CASE \E e \in Filtered :
               /\ e # checksameeven /\ got' = e
               /\ checksameeven' = e /\ oldtick' = tick /\ tick' = tick
               /\ last' = e /\ age' = [age EXCEPT ![e] = 0]
    <3>1. age'[checksameeven'] = 0 /\ oldtick' = tick /\ tick' = tick
      BY <2>2 DEF TypeOK
    <3>2. tick \in Nat
      BY TickModAssumption DEF TypeOK, Ticks
    <3> QED
      BY <3>1, <3>2 DEF Dated, AcceptedAt
  <2> QED
    BY <1>2, <2>1, <2>2, Accepted
<1>3. CASE PopEmpty \/ PopTail
  BY <1>3, ExpireForgets DEF Dated, AcceptedAt
<1>4. CASE Elapse
  <2>1. UNCHANGED <<checksameeven, oldtick>>
    BY <1>4 DEF Elapse, filter
  <2>2. ASSUME checksameeven # NoEvent, age'[checksameeven] < TickMod
        PROVE  oldtick = AcceptedAt(checksameeven)'
    <3>1. PICK e \in Filtered : e = checksameeven
      BY <2>2 DEF TypeOK
    <3>2. age[e] < TickMod /\ AcceptedAt(e)' = AcceptedAt(e)
      BY <1>4, <2>2, <3>1, SameDate
    <3> QED
      BY <2>1, <2>2, <3>1, <3>2 DEF Dated, AcceptedAt
  <2> QED
    BY <2>1, <2>2 DEF Dated
<1> QED
  BY <1>1, <1>2, <1>3, <1>4 DEF Next, Pop

(* What has passed since the date, less one across a wrap.                 *)
LEMMA DatedDiff ==
  ASSUME TypeOK, NEW e \in Filtered, age[e] < TickMod
  PROVE  /\ TickDiff(AcceptedAt(e), tick) \in {age[e] - 1, age[e]}
         /\ age[e] \in Nat
<1>1. age[e] \in Nat
  BY FifoAssumption, TickModAssumption DEF TypeOK, LongAgo
<1>2. tick \in 0 .. TickMod - 1
  BY DEF TypeOK, Ticks
<1> QED
  BY <1>1, <1>2, TickModAssumption DEF AcceptedAt, TickDiff

(* The filter does not outlive its window (app_skyiot_server.c:402-416),   *)
(* for any traffic, with preemption and across wraps of the tick.          *)
THEOREM FilterAlwaysForgets == Spec => FilterForgets
<1>1. Init => TypeOK /\ Dated
  BY InitApart DEF Apart, Init, Dated
<1>2. TypeOK /\ Dated /\ [Next]_vars => (TypeOK /\ Dated)'
  BY NextType, DatedKept
<1>3. ASSUME TypeOK, Dated, PopTail \/ PopEmpty,
             NEW e \in Filtered,
             age[e] > Window, age[e] < TickMod, AcceptedAt(e) # 0
      PROVE  checksameeven' # e
  <2>1. CASE checksameeven # e
    BY <1>3, <2>1, ExpireForgets, NothingFiltered
  <2>2. CASE checksameeven = e
    <3>1. checksameeven # NoEvent
      BY <2>2, NothingFiltered
    <3>2. oldtick = AcceptedAt(e)
      BY <1>3, <2>2, <3>1 DEF Dated
    <3>3. TickDiff(oldtick, tick) >= Window
      BY <1>3, <3>2, DatedDiff, FifoAssumption
    <3>4. Expired(checksameeven, oldtick)
      BY <1>3, <3>1, <3>2, <3>3 DEF Expired
    <3> QED
      BY <1>3, <3>4, ExpireForgets, NothingFiltered
  <2> QED
    BY <2>1, <2>2
<1>4. TypeOK /\ Dated /\ [Next]_vars =>
        [PopTail \/ PopEmpty =>
           \A e \in Filtered :
             age[e] > Window /\ age[e] < TickMod /\ AcceptedAt(e) # 0
               => checksameeven' # e]_vars
  BY <1>3
<1> QED
  BY <1>1, <1>2, <1>4, PTL DEF Spec, FilterForgets
=============================================================================
