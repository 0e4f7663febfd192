------------------------------ MODULE MC_Store ------------------------------
(* Two cells; the processor writes only the first, so that a patch can meet  *)
(* a write of the processor's inside and outside its footprint.  What a      *)
(* patch does to the document and what a reader sees of it are explored in   *)
(* two scenarios: many patches and no reader, or few patches and a reader.   *)
EXTENDS Store

CONSTANTS c1, c2, x, y

Doc(in1, in2) == [c \in {c1, c2} |-> IF c = c1 THEN in1 ELSE in2]

Patching(moves, policies, seqs, seens) ==
    {[op |-> "patch", expected |-> m[1], desired |-> m[2], seq |-> s, apply |-> p, seen |-> n] :
        m \in moves, p \in policies, s \in seqs, n \in seens}

\* A gesture moves one cell, of the blank document or of one the processor has
\* written to since.
OneCell == {<<Doc(x, x), Doc(y, x)>>, <<Doc(x, x), Doc(x, y)>>,
            <<Doc(y, x), Doc(x, x)>>, <<Doc(y, x), Doc(y, y)>>}
Loads == {[op |-> "reset", desired |-> Doc(y, y), seq |-> 0, apply |-> "Overwrite"]}

Several == Patching(OneCell, {"Merge", "Retry"}, 1 .. MaxSeq, Seqs) \cup Loads
Few == Patching({<<Doc(x, x), Doc(x, y)>>}, {"Overwrite", "Merge"}, {1}, {0}) \cup Loads

MCRequests == Several \cup Few
MCWrites == {<<c1, y>>, <<c1, x>>}
Once == {<<c1, y>>}

VARIABLE scenario

MCInit == Init /\ scenario \in {"patches", "readers"}

MCNext ==
    \/ Acquire /\ UNCHANGED scenario
    \/ /\ \E w \in IF scenario = "patches" THEN Writes ELSE Once : Mutate(w[1], w[2])
       /\ UNCHANGED scenario
    \/ Publish /\ UNCHANGED scenario
    \/ /\ Request /\ UNCHANGED scenario
       /\ request' \in IF scenario = "patches" THEN Several ELSE Few
    \/ Fill /\ UNCHANGED scenario
    \/ scenario = "readers" /\ Reader /\ UNCHANGED scenario

MCSpec == MCInit /\ [][MCNext]_<<vars, scenario>> /\ Fairness

=============================================================================
