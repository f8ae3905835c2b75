--------------------------- MODULE AppQueueProofs ----------------------------
(* Proofs about AppQueue for any senders and any queue sizes.              *)
(*                                                                         *)
(* That no token is lost needs a count of the tokens in the event queue:   *)
(* those of the stacks are bounded by what the stacks were promised, those *)
(* of IO messages by TokenPerMessage, and a sender that still owes its     *)
(* token is not among them.                                                *)
EXTENDS AppQueue, SequenceTheorems, FiniteSetTheorems, TLAPS

IInv ==
  /\ TypeOK
  /\ TokenNeverLost
  /\ TokenPerMessage
  /\ Cardinality(PlacesOf("gap")) <= GapSize
  /\ Cardinality(PlacesOf("mesh")) <= MeshSize

-----------------------------------------------------------------------------
(* Counting the places of a token in a queue.                              *)

LEMMA PlacesFinite ==
  ASSUME NEW q \in Seq(Tokens), NEW k
  PROVE  IsFiniteSet(PlacesIn(q, k)) /\ Cardinality(PlacesIn(q, k)) \in Nat
<1>1. IsFiniteSet(1 .. Len(q))
  BY FS_Interval, LenProperties
<1>2. PlacesIn(q, k) \in SUBSET (1 .. Len(q))
  BY DEF PlacesIn
<1>3. IsFiniteSet(PlacesIn(q, k))
  BY <1>1, <1>2, FS_Subset
<1> QED
  BY <1>3, FS_CardinalityType

(* Appending a token adds one place to its kind and none to another.       *)
LEMMA PlacesAppend ==
  ASSUME NEW q \in Seq(Tokens), NEW t \in Tokens, NEW k
  PROVE  Cardinality(PlacesIn(Append(q, t), k)) =
           Cardinality(PlacesIn(q, k)) + (IF t = k THEN 1 ELSE 0)
<1>1. /\ Append(q, t) \in Seq(Tokens)
      /\ Len(Append(q, t)) = Len(q) + 1
      /\ Append(q, t)[Len(q) + 1] = t
      /\ \A i \in 1 .. Len(q) : Append(q, t)[i] = q[i]
      /\ Len(q) \in Nat
  OBVIOUS
<1>2. CASE t = k
  <2>1. PlacesIn(Append(q, t), k) = PlacesIn(q, k) \cup {Len(q) + 1}
    BY <1>1, <1>2 DEF PlacesIn
  <2>2. Len(q) + 1 \notin PlacesIn(q, k)
    BY <1>1 DEF PlacesIn
  <2> QED
    BY <1>2, <2>1, <2>2, PlacesFinite, FS_AddElement
<1>3. CASE t # k
  <2>1. PlacesIn(Append(q, t), k) = PlacesIn(q, k)
    BY <1>1, <1>3 DEF PlacesIn
  <2> QED
    BY <1>3, <2>1, PlacesFinite
<1> QED
  BY <1>2, <1>3

(* Taking the head removes one place of its kind and none of another.      *)
LEMMA PlacesTail ==
  ASSUME NEW q \in Seq(Tokens), q # <<>>, NEW k
  PROVE  Cardinality(PlacesIn(Tail(q), k)) =
           Cardinality(PlacesIn(q, k)) - (IF Head(q) = k THEN 1 ELSE 0)
<1> DEFINE P == PlacesIn(q, k)
           R == P \ {1}
           T == PlacesIn(Tail(q), k)
<1>1. /\ Len(q) \in Nat \ {0}
      /\ Tail(q) \in Seq(Tokens)
      /\ Len(Tail(q)) = Len(q) - 1
      /\ \A i \in 1 .. Len(q) - 1 : Tail(q)[i] = q[i + 1]
      /\ Head(q) = q[1]
  BY HeadTailProperties, EmptySeq
<1>2. IsFiniteSet(R) /\ Cardinality(R) = Cardinality(P)
                                           - (IF Head(q) = k THEN 1 ELSE 0)
  <2>1. 1 \in P <=> Head(q) = k
    BY <1>1 DEF PlacesIn
  <2>2. IsFiniteSet(P) /\ Cardinality(P) \in Nat
    BY PlacesFinite
  <2> HIDE DEF P
  <2>3. /\ IsFiniteSet(P \ {1})
        /\ Cardinality(P \ {1}) =
             IF 1 \in P THEN Cardinality(P) - 1 ELSE Cardinality(P)
    BY <2>2, FS_RemoveElement
  <2> QED
    BY <2>1, <2>2, <2>3
<1>3. Cardinality(T) = Cardinality(R)
  <2> DEFINE f == [i \in R |-> i - 1]
  <2>1. R = {i \in 2 .. Len(q) : q[i] = k}
    BY <1>1 DEF PlacesIn
  <2>2. T = {i \in 1 .. Len(q) - 1 : q[i + 1] = k}
    BY <1>1 DEF PlacesIn
  <2>3. \A i \in R : i - 1 \in T
    BY <1>1, <2>1, <2>2
  <2>4. \A i \in T : i + 1 \in R /\ f[i + 1] = i
    BY <1>1, <2>1, <2>2
  <2>5. \A i, j \in R : f[i] = f[j] => i = j
    BY <2>1
  <2>6. f \in Bijection(R, T)
    <3>1. f \in [R -> T]
      BY <2>3
    <3>2. \A i \in T : \E j \in R : f[j] = i
      BY <2>4
    <3> HIDE DEF f, R, T
    <3>3. f \in Injection(R, T)
      BY <2>5, <3>1 DEF Injection, IsInjective
    <3>4. f \in Surjection(R, T)
      BY <3>1, <3>2 DEF Surjection
    <3> QED
      BY <3>3, <3>4 DEF Bijection
  <2>7. ExistsBijection(R, T)
    BY <2>6 DEF ExistsBijection
  <2> QED
    BY <1>2, <2>7, FS_Bijection
<1> QED
  BY <1>2, <1>3

LEMMA CountDisjoint ==
  ASSUME NEW A, NEW B, IsFiniteSet(A), IsFiniteSet(B), A \cap B = {}
  PROVE  /\ IsFiniteSet(A \cup B)
         /\ Cardinality(A \cup B) = Cardinality(A) + Cardinality(B)
<1>1. /\ IsFiniteSet(A \cup B)
      /\ Cardinality(A \cup B) =
           Cardinality(A) + Cardinality(B) - Cardinality(A \cap B)
  BY FS_Union
<1>2. Cardinality(A \cap B) = 0
  BY FS_EmptySet
<1>3. Cardinality(A) \in Nat /\ Cardinality(B) \in Nat
  BY FS_CardinalityType
<1> QED
  BY <1>1, <1>2, <1>3

(* A queue is as long as its three kinds of token together.              *)
LEMMA PlacesPartition ==
  ASSUME NEW q \in Seq(Tokens)
  PROVE  Len(q) = Cardinality(PlacesIn(q, "io"))
                    + Cardinality(PlacesIn(q, "gap"))
                    + Cardinality(PlacesIn(q, "mesh"))
<1> DEFINE I == PlacesIn(q, "io")
           G == PlacesIn(q, "gap")
           M == PlacesIn(q, "mesh")
<1>1. IsFiniteSet(I) /\ IsFiniteSet(G) /\ IsFiniteSet(M)
  BY PlacesFinite
<1>2. Cardinality(I \cup G) = Cardinality(I) + Cardinality(G)
      /\ IsFiniteSet(I \cup G)
  <2>1. I \cap G = {}
    BY DEF PlacesIn
  <2> HIDE DEF I, G, M
  <2> QED
    BY <1>1, <2>1, CountDisjoint
<1>3. Cardinality((I \cup G) \cup M) = Cardinality(I \cup G) + Cardinality(M)
  <2>1. (I \cup G) \cap M = {}
    BY DEF PlacesIn
  <2> HIDE DEF I, G, M
  <2> QED
    BY <1>1, <1>2, <2>1, CountDisjoint
<1>4. (I \cup G) \cup M = 1 .. Len(q)
  <2>1. \A i \in 1 .. Len(q) : q[i] \in Tokens
    BY ElementOfSeq
  <2> QED
    BY <2>1 DEF PlacesIn, Tokens
<1>5. Cardinality(1 .. Len(q)) = Len(q)
  <2>1. Len(q) \in Nat
    OBVIOUS
  <2>2. Cardinality(1 .. Len(q)) = IF 1 > Len(q) THEN 0 ELSE Len(q) - 1 + 1
    BY <2>1, FS_Interval
  <2> QED
    BY <2>1, <2>2
<1> QED
  BY <1>2, <1>3, <1>4, <1>5

(* The senders that owe a token can be counted.                            *)
LEMMA OwingFinite ==
  ASSUME TypeOK PROVE IsFiniteSet(owing) /\ Cardinality(owing) \in Nat
BY QueueAssumption, FS_Subset, FS_CardinalityType DEF TypeOK

-----------------------------------------------------------------------------
(* The inductive invariant.                                                *)

LEMMA InitIInv == Init => IInv
<1> SUFFICES ASSUME Init PROVE IInv
  OBVIOUS
<1>1. TypeOK
  BY QueueAssumption DEF Init, TypeOK
<1>2. \A k : PlacesOf(k) = {}
  BY DEF Init, PlacesOf, PlacesIn
<1>3. Cardinality({}) = 0
  BY FS_EmptySet
<1>4. TokenPerMessage
  BY <1>2, <1>3 DEF Init, TokenPerMessage
<1>5. \A k : Cardinality(PlacesOf(k)) = 0
  BY <1>2, <1>3
<1>6. TokenNeverLost
  BY DEF Init, TokenNeverLost
<1> QED
  BY <1>1, <1>4, <1>5, <1>6, QueueAssumption DEF IInv

LEMMA SendMessageIInv ==
  ASSUME IInv, NEW s \in Senders, NEW msg \in Msgs, SendMessage(s, msg)
  PROVE  IInv'
<1> USE DEF IInv, SendMessage, PlacesOf
<1>1. CASE HasRoom(ioQueue)
  <2>1. Cardinality(owing') = Cardinality(owing) + 1
    BY <1>1, OwingFinite, FS_AddElement
  <2>2. TypeOK'
    <3>1. /\ ioQueue' \in Seq(Msgs)
          /\ Len(ioQueue') = Len(ioQueue) + 1
          /\ Len(ioQueue) \in Nat
      BY <1>1 DEF TypeOK
    <3>2. Len(ioQueue') <= IoSize
      BY <1>1, <3>1, QueueAssumption DEF HasRoom
    <3> QED
      BY <1>1, <3>1, <3>2 DEF TypeOK
  <2>3. TokenPerMessage'
    <3>1. Len(ioQueue') = Len(ioQueue) + 1
      BY <1>1 DEF TypeOK
    <3> QED
      BY <2>1, <3>1, OwingFinite, PlacesFinite DEF TypeOK, TokenPerMessage
  <2> QED
    BY <1>1, <2>2, <2>3 DEF TokenNeverLost
<1>2. CASE ~HasRoom(ioQueue)
  BY <1>2 DEF TypeOK, TokenNeverLost, TokenPerMessage
<1> QED
  BY <1>1, <1>2

LEMMA SendTokenIInv ==
  ASSUME IInv, NEW s \in Senders, SendToken(s)
  PROVE  IInv'
<1> USE DEF IInv, SendToken, PlacesOf
<1>1. Cardinality(owing') = Cardinality(owing) - 1 /\ Cardinality(owing) > 0
  <2>1. Cardinality(owing') = Cardinality(owing) - 1
    BY OwingFinite, FS_RemoveElement
  <2>2. Cardinality(owing') \in Nat
    BY OwingFinite, FS_RemoveElement, FS_CardinalityType
  <2> QED
    BY <2>1, <2>2, OwingFinite
<1>2. Len(evtQueue) < EvtSize
  <2>1. Cardinality(PlacesIn(evtQueue, "io")) < IoSize
    BY <1>1, OwingFinite, PlacesFinite, QueueAssumption
    DEF TypeOK, TokenPerMessage
  <2> QED
    BY <2>1, PlacesPartition, PlacesFinite, QueueAssumption
    DEF TypeOK, EvtSize
<1>3. evtQueue' = Append(evtQueue, "io") /\ lost' = lost
  BY <1>2
<1>4. /\ Cardinality(PlacesIn(evtQueue', "io"))
           = Cardinality(PlacesIn(evtQueue, "io")) + 1
      /\ \A k \in {"gap", "mesh"} : Cardinality(PlacesIn(evtQueue', k))
                                  = Cardinality(PlacesIn(evtQueue, k))
  <2>1. evtQueue \in Seq(Tokens) /\ "io" \in Tokens
    BY DEF TypeOK, Tokens
  <2>2. \A k : Cardinality(PlacesIn(evtQueue', k)) =
                Cardinality(PlacesIn(evtQueue, k)) + (IF "io" = k THEN 1 ELSE 0)
    BY <1>3, <2>1, PlacesAppend
  <2>3. \A k : Cardinality(PlacesIn(evtQueue, k)) \in Nat
    BY <2>1, PlacesFinite
  <2> QED
    BY <2>2, <2>3
<1>5. TypeOK'
  BY <1>3 DEF TypeOK, Tokens
<1>6. TokenPerMessage'
  BY <1>1, <1>4, OwingFinite, PlacesFinite DEF TypeOK, TokenPerMessage
<1> QED
  BY <1>3, <1>4, <1>5, <1>6 DEF TokenNeverLost

LEMMA StackIInv ==
  ASSUME IInv, GapEvent \/ MeshEvent
  PROVE  IInv'
<1> USE DEF IInv, GapEvent, MeshEvent, PlacesOf
<1>1. TypeOK'
  <2>1. evtQueue \in Seq(Tokens) /\ "gap" \in Tokens /\ "mesh" \in Tokens
    BY DEF TypeOK, Tokens
  <2>2. evtQueue' \in Seq(Tokens)
    BY <2>1
  <2> QED
    BY <2>2 DEF TypeOK
<1>2. \A k \in Tokens :
        Cardinality(PlacesIn(evtQueue', k)) = Cardinality(PlacesIn(evtQueue, k))
          + (IF GapEvent THEN IF k = "gap" THEN 1 ELSE 0
                         ELSE IF k = "mesh" THEN 1 ELSE 0)
  <2> HIDE DEF IInv, PlacesOf
  <2>1. evtQueue \in Seq(Tokens) /\ "gap" \in Tokens /\ "mesh" \in Tokens
    BY DEF IInv, TypeOK, Tokens
  <2>2. CASE GapEvent
    <3>1. evtQueue' = Append(evtQueue, "gap")
      BY <2>2
    <3> HIDE DEF GapEvent
    <3> QED
      BY <2>1, <2>2, <3>1, PlacesAppend
  <2>3. CASE ~GapEvent
    <3>1. evtQueue' = Append(evtQueue, "mesh")
      BY <2>3
    <3> HIDE DEF GapEvent
    <3> QED
      BY <2>1, <2>3, <3>1, PlacesAppend
  <2> QED
    BY <2>2, <2>3
<1> HIDE DEF GapEvent, MeshEvent
<1>3. TokenPerMessage'
  BY <1>2, PlacesFinite DEF GapEvent, MeshEvent, TypeOK, Tokens, TokenPerMessage
<1>4. /\ Cardinality(PlacesIn(evtQueue', "gap")) <= GapSize
      /\ Cardinality(PlacesIn(evtQueue', "mesh")) <= MeshSize
  BY <1>2, PlacesFinite, QueueAssumption
  DEF GapEvent, MeshEvent, TypeOK, Tokens
<1> QED
  BY <1>1, <1>3, <1>4 DEF GapEvent, MeshEvent, TokenNeverLost

LEMMA ReceiveTokenIInv ==
  ASSUME IInv, ReceiveToken
  PROVE  IInv'
<1> USE DEF IInv, ReceiveToken, PlacesOf
<1> DEFINE k == Head(evtQueue)
<1>1. evtQueue \in Seq(Tokens) /\ evtQueue # <<>>
  BY DEF TypeOK
<1>2. k \in Tokens /\ evtQueue' \in Seq(Tokens)
  BY <1>1, HeadTailProperties
<1>3. TypeOK'
  BY <1>2 DEF TypeOK, AfterReceipt
<1>4. \A t : Cardinality(PlacesIn(evtQueue', t)) =
             Cardinality(PlacesIn(evtQueue, t)) - (IF k = t THEN 1 ELSE 0)
  BY <1>1, PlacesTail
<1>5. \A t : Cardinality(PlacesIn(evtQueue, t)) \in Nat
  BY <1>1, PlacesFinite
<1> HIDE DEF k
<1>6. TokenPerMessage'
  <2>1. Len(ioQueue) = Cardinality(PlacesIn(evtQueue, "io"))
                         + Cardinality(owing)
    BY <1>5, OwingFinite DEF TokenPerMessage
  <2> QED
    BY <1>4, <1>5, <2>1, OwingFinite
    DEF TypeOK, TokenPerMessage, AfterReceipt, k
<1>7. /\ Cardinality(PlacesIn(evtQueue', "gap")) <= GapSize
      /\ Cardinality(PlacesIn(evtQueue', "mesh")) <= MeshSize
  BY <1>4, <1>5, QueueAssumption
<1> QED
  BY <1>3, <1>6, <1>7 DEF TokenNeverLost

(* The token in the app task's hands stands for a message that is there.   *)
LEMMA MessageIsThere ==
  ASSUME IInv, ReceiveMessage
  PROVE  ioQueue # <<>>
<1>1. Cardinality(PlacesOf("io")) \in Nat /\ Cardinality(owing) \in Nat
  BY OwingFinite, PlacesFinite DEF IInv, TypeOK, PlacesOf
<1>2. Len(ioQueue) > 0
  BY <1>1 DEF IInv, TokenPerMessage, ReceiveMessage
<1> QED
  BY <1>2 DEF IInv, TypeOK

LEMMA ReceiveMessageIInv ==
  ASSUME IInv, ReceiveMessage
  PROVE  IInv'
<1> USE DEF IInv, ReceiveMessage, PlacesOf
<1>1. /\ ioQueue \in Seq(Msgs) /\ ioQueue # <<>>
      /\ ioQueue' = Tail(ioQueue)
      /\ handled' = Head(ioQueue)
  BY MessageIsThere DEF TypeOK, NextMessage
<1>2. /\ Head(ioQueue) \in Msgs
      /\ ioQueue' \in Seq(Msgs)
      /\ Len(ioQueue') = Len(ioQueue) - 1
      /\ Len(ioQueue) \in Nat
  BY <1>1, HeadTailProperties, LenProperties
<1>3. TypeOK'
  BY <1>1, <1>2, QueueAssumption DEF TypeOK
<1>4. TokenPerMessage'
  BY <1>2, OwingFinite, PlacesFinite DEF TypeOK, TokenPerMessage
<1> QED
  BY <1>3, <1>4 DEF TokenNeverLost

LEMMA StutterIInv ==
  ASSUME IInv, UNCHANGED vars
  PROVE  IInv'
BY DEF IInv, TypeOK, TokenNeverLost, TokenPerMessage, PlacesOf, PlacesIn, vars

LEMMA NextIInv == IInv /\ [Next]_vars => IInv'
BY SendMessageIInv, SendTokenIInv, StackIInv, ReceiveTokenIInv,
   ReceiveMessageIInv, StutterIInv DEF Next, Send, AppStep

LEMMA Inductive == Spec => []IInv
BY InitIInv, NextIInv, PTL DEF Spec

-----------------------------------------------------------------------------
(* The queues keep their types and the IO queue its bound, for any sizes.  *)
THEOREM TypeCorrect == Spec => []TypeOK
<1>1. IInv => TypeOK
  BY DEF IInv
<1> QED
  BY <1>1, Inductive, PTL

(* The size given to the event queue in app_task.c:51 is enough, whatever  *)
(* the senders and the stacks do: no token is ever refused, and tokens and *)
(* messages stay paired across every interleaving of senders.              *)
THEOREM TokensAlwaysMatch == Spec => []TokensMatchMessages
<1>1. IInv => TokensMatchMessages
  BY DEF IInv, TokensMatchMessages
<1> QED
  BY <1>1, Inductive, PTL
=============================================================================
