------------------------------- MODULE Logger -------------------------------
(***************************************************************************)
(* tiny::log: a bounded ring that any thread pushes to without waiting     *)
(* (Vyukov's: a sequence number per cell says whose the cell is), and a    *)
(* thread that drains it to the sinks, a batch at a time.                  *)
(*                                                                         *)
(* Records are told apart by who wrote them.  TINY_PLATFORM_THREADS is     *)
(* taken as defined, so the logger's own thread is the only one that pops, *)
(* and its destructor once that thread has been joined.                    *)
(***************************************************************************)
EXTENDS Integers, SequencesExt

CONSTANTS Writers,
          None,
          Slots,        \* ring_slots, two or more
          Burst,        \* records in a batch: what 32 KiB hold
          MaxRecords    \* bound: records written in all

VARIABLES enqueue, dequeue,  \* _enqueue, _dequeue
          seq, cells,        \* per cell, its sequence number and its record
          pc, at,            \* a thread's program counter and `pos`
          dropped, reported, \* _dropped, _reported_drops
          batch,             \* _batch
          written,           \* what the sinks have been given
          stop,              \* _stop, and then "joined" and "closed"
          target,            \* flush's `target`
          flushed,           \* history: how many records a flush has vouched for
          owed,              \* history: records not yet written when it was stopped
          claimed            \* history: the writers, in the order of their claims

ring == <<enqueue, dequeue, seq, cells, claimed>>
flushing == <<target, flushed, owed>>
vars == <<ring, pc, at, dropped, reported, batch, written, stop, flushing>>

Drainer == "drainer"
Flusher == "flusher"
Threads == Writers \cup {Drainer, Flusher}

Cell(p) == p % Slots

Init ==
    /\ enqueue = 0 /\ dequeue = 0
    /\ seq = [i \in 0 .. Slots - 1 |-> i]
    /\ cells = [i \in 0 .. Slots - 1 |-> None]
    /\ pc = [t \in Threads |-> "idle"] /\ at = [t \in Threads |-> 0]
    /\ dropped = 0 /\ reported = 0
    /\ batch = <<>> /\ written = <<>> /\ claimed = <<>>
    /\ stop = "no" /\ target = 0 /\ flushed = 0 /\ owed = 0

Goto(t, label) == pc' = [pc EXCEPT ![t] = label]

-----------------------------------------------------------------------------
(* submit, on any thread.                                                    *)

PushBegin(w) ==
    /\ pc[w] = "idle" /\ enqueue + dropped < MaxRecords /\ stop = "no"
    /\ at' = [at EXCEPT ![w] = enqueue]
    /\ Goto(w, "look")
    /\ UNCHANGED <<ring, dropped, reported, batch, written, stop, flushing>>

\* Mutant: a cell is free when its sequence number is not yet this position's.
PushLookBehind(w) ==
    /\ pc[w] = "look"
    /\ LET diff == seq[Cell(at[w])] - at[w]
       IN \/ diff <= 0 /\ Goto(w, "claim") /\ UNCHANGED at
          \/ diff > 0 /\ at' = [at EXCEPT ![w] = enqueue] /\ UNCHANGED pc
    /\ UNCHANGED <<ring, dropped, reported, batch, written, stop, flushing>>

\* What the cell says: it is this position's, the ring is full, or another thread
\* has moved on.
PushLook(w) ==
    /\ pc[w] = "look"
    /\ LET diff == seq[Cell(at[w])] - at[w]
       IN \/ diff = 0 /\ Goto(w, "claim") /\ UNCHANGED at
          \/ diff < 0 /\ Goto(w, "drop") /\ UNCHANGED at
          \/ diff > 0 /\ at' = [at EXCEPT ![w] = enqueue] /\ UNCHANGED pc
    /\ UNCHANGED <<ring, dropped, reported, batch, written, stop, flushing>>

\* The record is refused, and counted.
Drop(w) ==
    /\ pc[w] = "drop"
    /\ dropped' = dropped + 1
    /\ Goto(w, "idle")
    /\ UNCHANGED <<ring, at, reported, batch, written, stop, flushing>>

PushClaim(w) ==
    /\ pc[w] = "claim" /\ enqueue = at[w]
    /\ enqueue' = enqueue + 1
    /\ claimed' = Append(claimed, w)
    /\ Goto(w, "write")
    /\ UNCHANGED <<dequeue, seq, cells, at, dropped, reported, batch, written, stop, flushing>>

\* Another thread claimed it, or the weak exchange failed for no reason.
PushClaimFails(w) ==
    /\ pc[w] = "claim"
    /\ at' = [at EXCEPT ![w] = enqueue]
    /\ Goto(w, "look")
    /\ UNCHANGED <<ring, dropped, reported, batch, written, stop, flushing>>

\* The copy of the record, which ends with the store of the cell's sequence number.
PushWrite(w) ==
    /\ pc[w] = "write"
    /\ cells' = [cells EXCEPT ![Cell(at[w])] = w]
    /\ seq' = [seq EXCEPT ![Cell(at[w])] = at[w] + 1]
    /\ Goto(w, "idle")
    /\ UNCHANGED <<enqueue, dequeue, claimed, at, dropped, reported, batch, written, stop, flushing>>

-----------------------------------------------------------------------------
(* _run, on the logger's thread, and _drain.                                 *)

\* Woken, or 20 ms later.
DrainBegin ==
    /\ pc[Drainer] = "idle" /\ stop = "no"
    /\ at' = [at EXCEPT ![Drainer] = dequeue]
    /\ Goto(Drainer, "look")
    /\ UNCHANGED <<ring, dropped, reported, batch, written, stop, flushing>>

\* pop: nobody else pops, so the cell is the next one's or it is not ready.
PopLook ==
    /\ pc[Drainer] = "look"
    /\ Goto(Drainer, IF seq[Cell(at[Drainer])] = at[Drainer] + 1 THEN "claim" ELSE "emit")
    /\ UNCHANGED <<ring, at, dropped, reported, batch, written, stop, flushing>>

PopClaim ==
    /\ pc[Drainer] = "claim"
    /\ dequeue' = dequeue + 1
    /\ Goto(Drainer, "read")
    /\ UNCHANGED <<enqueue, seq, cells, claimed, at, dropped, reported, batch, written, stop, flushing>>

\* The record joins the batch, whose size bounds the burst.
PopRead ==
    /\ pc[Drainer] = "read"
    /\ batch' = Append(batch, cells[Cell(at[Drainer])])
    /\ seq' = [seq EXCEPT ![Cell(at[Drainer])] = at[Drainer] + Slots]
    /\ at' = [at EXCEPT ![Drainer] = dequeue]
    /\ Goto(Drainer, IF Len(batch') >= Burst THEN "emit" ELSE "look")
    /\ UNCHANGED <<enqueue, dequeue, cells, claimed, dropped, reported, written, stop, flushing>>

\* The batch reaches the sinks, and then the notice of what was dropped.
Emit ==
    /\ pc[Drainer] = "emit"
    /\ written' = written \o batch
    /\ batch' = <<>>
    /\ reported' = dropped
    /\ Goto(Drainer, "idle")
    /\ stop' = IF stop = "joined" THEN "closed" ELSE stop
    /\ UNCHANGED <<ring, at, dropped, flushing>>

-----------------------------------------------------------------------------
(* flush, on a thread that is not the logger's.                              *)

FlushBegin ==
    /\ pc[Flusher] = "idle" /\ stop = "no"
    /\ target' = enqueue
    /\ Goto(Flusher, "wait")
    /\ UNCHANGED <<ring, at, dropped, reported, batch, written, stop, flushed, owed>>

FlushReturns ==
    /\ pc[Flusher] = "wait" /\ dequeue >= target
    /\ flushed' = target
    /\ Goto(Flusher, "idle")
    /\ UNCHANGED <<ring, at, dropped, reported, batch, written, stop, target, owed>>

\* 200 attempts: a flush must never become a hang.
FlushGivesUp ==
    /\ pc[Flusher] = "wait" /\ dequeue < target
    /\ Goto(Flusher, "idle")
    /\ UNCHANGED <<ring, at, dropped, reported, batch, written, stop, flushing>>

-----------------------------------------------------------------------------
(* ~Logger, at the end of the process, when no thread is logging any more.   *)

Stop ==
    /\ stop = "no" /\ \A t \in Writers \cup {Flusher} : pc[t] = "idle"
    /\ stop' = "stopping"
    /\ owed' = Len(claimed) - Len(written)
    /\ UNCHANGED <<ring, pc, at, dropped, reported, batch, written, target, flushed>>

\* The logger's thread is over, and what landed after its last drain is drained
\* here: one batch of it.
Join ==
    /\ stop = "stopping" /\ pc[Drainer] = "idle"
    /\ stop' = "joined"
    /\ at' = [at EXCEPT ![Drainer] = dequeue]
    /\ Goto(Drainer, "look")
    /\ UNCHANGED <<ring, dropped, reported, batch, written, flushing>>

Closed == stop = "closed" /\ UNCHANGED vars

-----------------------------------------------------------------------------
Pushing(w) == PushLook(w) \/ Drop(w) \/ PushClaim(w) \/ PushClaimFails(w) \/ PushWrite(w)
Draining == DrainBegin \/ PopLook \/ PopClaim \/ PopRead \/ Emit
Flushing == FlushBegin \/ FlushReturns \/ FlushGivesUp

Next == (\E w \in Writers : PushBegin(w) \/ Pushing(w)) \/ Draining \/ Flushing
        \/ Stop \/ Join \/ Closed

Spec == Init /\ [][Next]_vars

\* The logger's thread wakes every 20 ms, and a thread inside submit runs on.
Fairness == /\ WF_vars(Draining)
            /\ \A w \in Writers : WF_vars(Pushing(w)) /\ SF_vars(PushClaim(w))
FairSpec == Spec /\ Fairness

-----------------------------------------------------------------------------
TypeOK ==
    /\ enqueue \in Nat /\ dequeue \in Nat
    /\ seq \in [0 .. Slots - 1 -> Nat]
    /\ cells \in [0 .. Slots - 1 -> Writers \cup {None}]
    /\ pc \in [Threads -> {"idle", "look", "drop", "claim", "write", "read", "emit", "wait"}]
    /\ at \in [Threads -> Nat]
    /\ dropped \in Nat /\ reported \in 0 .. dropped
    /\ batch \in Seq(Writers) /\ Len(batch) <= Burst
    /\ written \in Seq(Writers) /\ claimed \in Seq(Writers)
    /\ stop \in {"no", "stopping", "joined", "closed"}
    /\ target \in Nat /\ flushed \in Nat /\ owed \in Nat

\* One thread at a time copies into, or out of, a cell.
CellsExclusive ==
    \A t, u \in Threads :
        pc[t] \in {"write", "read"} /\ pc[u] \in {"write", "read"} /\ t # u => Cell(at[t]) # Cell(at[u])

\* The trace is in order: what the sinks have, and what is on its way to them, are
\* the records in the order their threads claimed their places, none twice, none
\* missing in between.
InOrder == IsPrefix(written \o batch, claimed)

\* Once the threads fall silent every record accepted is written, and every record
\* refused has been told of in the trace itself.
AllTold == [](stop = "no") => <>[](written = claimed /\ reported = dropped)

\* The process ends without losing the last records, unless they are more than
\* one batch: the destructor's drain stops where every drain does.
ClosesComplete == stop = "closed" /\ owed <= Burst => written = claimed /\ reported = dropped

\* What flush() has vouched for is written, or in the drainer's hands: in the batch it formats, or in the
\* cell it copies.
FlushReaches == flushed <= Len(written) + Len(batch) + (IF pc[Drainer] = "read" THEN 1 ELSE 0)

=============================================================================
