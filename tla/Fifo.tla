-------------------------------- MODULE Fifo --------------------------------
(***************************************************************************)
(* What a Lock_free_queue promises: a bounded first-in first-out queue,    *)
(* whose push and pop may also refuse and change nothing.                  *)
(***************************************************************************)
EXTENDS Naturals, Sequences

CONSTANTS Readers, Values,
          None,       \* a reader that has popped nothing yet
          Capacity

VARIABLES queue,
          popped   \* the value each reader popped last

FifoInit == queue = <<>> /\ popped = [r \in Readers |-> None]

Push(v) == /\ Len(queue) < Capacity
           /\ queue' = Append(queue, v)
           /\ UNCHANGED popped

Pop(r) == /\ queue # <<>>
          /\ popped' = [popped EXCEPT ![r] = Head(queue)]
          /\ queue' = Tail(queue)

FifoNext == (\E v \in Values : Push(v)) \/ (\E r \in Readers : Pop(r))
FifoSpec == FifoInit /\ [][FifoNext]_<<queue, popped>>

=============================================================================
