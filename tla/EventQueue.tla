----------------------------- MODULE EventQueue ------------------------------
(* What the main message FIFO promises: a queue of at most Capacity events *)
(* that are taken in the order they came, and that forgets the oldest one  *)
(* when a new one does not fit.                                            *)
EXTENDS Integers, Sequences

CONSTANTS Events, Capacity

VARIABLE queue

Init == queue = <<>>

Put(e) ==
  queue' = IF Len(queue) < Capacity THEN Append(queue, e)
                                    ELSE Append(Tail(queue), e)

Take == queue # <<>> /\ queue' = Tail(queue)

Next == (\E e \in Events : Put(e)) \/ Take

Spec == Init /\ [][Next]_queue
=============================================================================
