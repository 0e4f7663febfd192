------------------------------ MODULE ByteRing ------------------------------
(***************************************************************************)
(* Byte_ring, whose far end reaches it by a copy of bytes only.  Cells are  *)
(* the 8 bytes everything is padded to: an entry is its header's cell and    *)
(* its payload's.  Three paths:                                              *)
(*   returns   AAX's algorithm pushes, the Direct Data timer reads from afar *)
(*   inbound   the timer writes a batch from afar, the algorithm drains      *)
(*   split     web's processor pushes, the pump moves each entry to the ring *)
(*             of its kind, the controller's two threads drain those         *)
(* Positions are free-running counts.                                        *)
(***************************************************************************)
EXTENDS Naturals, Sequences, SequencesExt

CONSTANTS Capacity,    \* cells of a ring
          Kinds,       \* of entries; in the split path also the name of the ring each goes to
          Sizes,       \* cells of a payload
          MaxEntries   \* bound: entries the producer tries

VARIABLES
    path,
    data, write, read,   \* the rings: their cells, write_pos, read_pos
    filling,             \* per ring, what its producer is doing
    draining,            \* per ring, what its consumer is doing
    tried,               \* entries tried so far
    pushed,              \* history: the entries the producer committed, each at the ring whose consumer is to have it
    heard                \* history: per ring, the entries its consumer was called with

Rings == {"near"} \cup Kinds
Idle == [busy |-> FALSE]
Cell == 0 .. MaxEntries
Entry == [id : 1 .. MaxEntries, kind : Kinds, size : Sizes]
NoEntry == [id |-> 0]
ringVars == <<path, data, write, read, filling, draining, tried, pushed, heard>>

Total(e) == 1 + e.size

\* Cells are told apart by whose they are: the header is the entry itself, a payload's cell its number.
CellOf(e, i) == [id |-> e.id, entry |-> IF i = 0 THEN <<e>> ELSE <<>>]
Unwritten == [id |-> 0, entry |-> <<>>]

Init ==
    /\ path \in {"returns", "inbound", "split"}
    /\ data = [r \in Rings |-> [c \in 0 .. Capacity - 1 |-> Unwritten]]
    /\ write = [r \in Rings |-> 0] /\ read = [r \in Rings |-> 0]
    /\ filling = [r \in Rings |-> Idle] /\ draining = [r \in Rings |-> Idle]
    /\ tried = 0 /\ pushed = [r \in Rings |-> <<>>] /\ heard = pushed

-----------------------------------------------------------------------------
(* A producer: the room is judged by read_pos as it was loaded, the cells     *)
(* are copied one by one, write_pos moves last.                               *)

Fits(from, r, e) == (from - r) + Total(e) <= Capacity

\* The next entry of ring r, after those this producer wrote and has not published yet.
Begin(r, e) ==
    LET from == IF filling[r].busy THEN filling[r].from ELSE write[r]
        loaded == IF filling[r].busy THEN filling[r].read ELSE read[r]
    IN /\ Fits(from, loaded, e)
       /\ filling' = [filling EXCEPT ![r] = [busy |-> TRUE, from |-> from, read |-> loaded, entry |-> e, at |-> 0,
                                             batch |-> IF @.busy THEN @.batch ELSE <<>>]]

\* _write_wrapped.
WriteCell(r) ==
    LET f == filling[r] IN
    /\ f.busy /\ f.entry # NoEntry
    /\ data' = [data EXCEPT ![r][(f.from + f.at) % Capacity] = CellOf(f.entry, f.at)]
    /\ filling' = [filling EXCEPT ![r] = IF f.at + 1 < Total(f.entry) THEN [f EXCEPT !.at = @ + 1]
                                         ELSE [f EXCEPT !.from = @ + Total(f.entry), !.entry = NoEntry,
                                                        !.batch = Append(@, f.entry)]]
    /\ UNCHANGED <<path, write, read, draining, tried, pushed, heard>>

\* The algorithm, the processor module, or the timer's first entry or next; what does not fit is refused.
Push(e) ==
    /\ tried < MaxEntries /\ (path # "split" => e.kind = "main") /\ e.id = tried + 1 /\ tried' = e.id
    /\ (filling["near"].busy => path = "inbound" /\ filling["near"].entry = NoEntry)
    /\ Begin("near", e) \/ (~filling["near"].busy /\ ~Fits(write["near"], read["near"], e) /\ UNCHANGED filling)
    /\ UNCHANGED <<path, data, write, read, draining, pushed, heard>>

\* The ring whose consumer is to have an entry.
End(e) == IF path = "split" THEN e.kind ELSE "near"

Commit(r) ==
    LET f == filling[r]
        d == draining["near"]
    IN
    /\ f.busy /\ f.entry = NoEntry
    /\ write' = [write EXCEPT ![r] = f.from]
    /\ filling' = [filling EXCEPT ![r] = Idle]
    \* In the split path a batch is one entry.
    /\ pushed' = IF r = "near" THEN [pushed EXCEPT ![End(f.batch[1])] = @ \o f.batch] ELSE pushed
    \* The pump's push returned true: its source moves past the entry.
    /\ draining' = IF r = "near" THEN draining
                   ELSE [draining EXCEPT !["near"] = [d EXCEPT !.at = @ + Total(f.batch[1]), !.cells = <<>>]]
    /\ UNCHANGED <<path, data, read, tried, heard>>

-----------------------------------------------------------------------------
(* A consumer: everything below write_pos as it was loaded, then read_pos.   *)

DrainBegin(r) ==
    /\ ~draining[r].busy /\ read[r] # write[r]
    /\ draining' = [draining EXCEPT ![r] = [busy |-> TRUE, limit |-> write[r], at |-> read[r], cells |-> <<>>]]
    /\ UNCHANGED <<path, data, write, read, filling, tried, pushed, heard>>

\* A wakeup that finds nothing pending.
Quiet(r) == ~draining[r].busy /\ read[r] = write[r] /\ UNCHANGED ringVars

\* The header's cell says how many follow.
Whole(cells) == cells # <<>> /\ (cells[1].entry = <<>> \/ Len(cells) = Total(cells[1].entry[1]))

\* _read_wrapped.
ReadCell(r) ==
    LET d == draining[r] IN
    /\ d.busy /\ d.at < d.limit /\ ~Whole(d.cells)
    /\ draining' = [draining EXCEPT ![r].cells = Append(@, data[r][(d.at + Len(d.cells)) % Capacity])]
    /\ UNCHANGED <<path, data, write, read, filling, tried, pushed, heard>>

\* What the copied cells amount to: the entry they are all of, or nothing that was ever pushed.
Heard(cells) == IF cells[1].entry # <<>> /\ \A i \in 1 .. Len(cells) : cells[i].id = cells[1].entry[1].id
                THEN cells[1].entry[1] ELSE NoEntry

Moving(r) == path = "split" /\ r = "near"

\* drain's callback, or a whole entry reframed for the data model.
Handle(r) ==
    LET d == draining[r] IN
    /\ d.busy /\ Whole(d.cells) /\ ~Moving(r)
    /\ heard' = [heard EXCEPT ![r] = Append(@, Heard(d.cells))]
    /\ draining' = [draining EXCEPT ![r] = [d EXCEPT !.at = @ + Len(d.cells), !.cells = <<>>]]
    /\ UNCHANGED <<path, data, write, read, filling, tried, pushed>>

Reclaim(r) ==
    /\ read' = [read EXCEPT ![r] = draining[r].at]
    /\ draining' = [draining EXCEPT ![r] = Idle]
    /\ UNCHANGED <<path, data, write, filling, tried, pushed, heard>>

DrainEnd(r) == draining[r].busy /\ draining[r].at = draining[r].limit /\ Reclaim(r)

\* The pump's callback is a push into the ring of the entry's kind.
Move ==
    LET d == draining["near"] IN
    /\ path = "split" /\ d.busy /\ Whole(d.cells) /\ Heard(d.cells) # NoEntry
    /\ \A k \in Kinds : ~filling[k].busy
    /\ Begin(Heard(d.cells).kind, Heard(d.cells))
    /\ UNCHANGED <<path, data, write, read, draining, tried, pushed, heard>>

\* It does not fit: it stays in the source, and so does everything behind it, whatever its kind.
Backpressure ==
    LET d == draining["near"] IN
    /\ path = "split" /\ d.busy /\ Whole(d.cells) /\ Heard(d.cells) # NoEntry
    /\ \A k \in Kinds : ~filling[k].busy
    /\ LET e == Heard(d.cells) IN ~Fits(write[e.kind], read[e.kind], e)
    /\ Reclaim("near")

-----------------------------------------------------------------------------
Fills == \E r \in Rings : WriteCell(r) \/ Commit(r)
Drains(r) == DrainBegin(r) \/ ReadCell(r) \/ Handle(r) \/ DrainEnd(r)
Pumps == Move \/ Backpressure
Next == (\E e \in Entry : Push(e)) \/ Fills \/ (\E r \in Rings : Drains(r) \/ Quiet(r)) \/ Pumps

TypeOK ==
    /\ \A r \in Rings : read[r] <= write[r] /\ write[r] - read[r] <= Capacity
    /\ tried \in 0 .. MaxEntries /\ \A r \in Rings : \A i \in 1 .. Len(pushed[r]) : pushed[r][i] \in Entry
    /\ \A r \in Rings : draining[r].busy => draining[r].at \in read[r] .. write[r]

Ends == IF path = "split" THEN Kinds ELSE {"near"}

\* Nothing unread is overwritten, whoever is slow: what a consumer is called with is what was pushed for it, whole,
\* once each and in the order pushed.
WholeInOrder == \A r \in Ends : IsPrefix(heard[r], pushed[r])

\* Whatever a ring or the pump held back for want of room comes through.
AllHeard == \A r \in Ends : heard[r] = pushed[r]

=============================================================================
