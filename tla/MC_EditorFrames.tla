--------------------------- MODULE MC_EditorFrames ---------------------------
(* What is done in a behaviour, and how often: a small editor session each.  *)
EXTENDS EditorFrames

CONSTANTS p, q

MCOps == {"start", "set", "end", "begin", "finish", "undo", "redo", "edit", "commit", "look",
          "load", "open", "write"}

Plan(counts) == [op \in MCOps |-> IF op \in DOMAIN counts THEN counts[op] ELSE 0]

\* Touches and sets in any order, the window closing on them.
Touching == [start |-> 2, set |-> 1, end |-> 1, begin |-> 1, open |-> 1]
\* Transactions over edits the processor has not confirmed, or refuses.
Waiting == [set |-> 2, begin |-> 2, finish |-> 2, edit |-> 1, open |-> 1]
Refused == [set |-> 1, begin |-> 1, finish |-> 1, edit |-> 2, write |-> 1, open |-> 1]
\* Undo and redo.
Replaying == [set |-> 1, edit |-> 1, commit |-> 1, undo |-> 2, redo |-> 1, open |-> 1]
\* More state than the budget holds.
Trimming == [set |-> 1, look |-> 3, undo |-> 1, redo |-> 1, open |-> 1]
\* Loads at any time.
Reloading == [set |-> 1, edit |-> 1, begin |-> 1, load |-> 2, open |-> 1]

MCLoads == {{p}, {"View"}, {p, "Document"}}

AllPlans == {Plan(c) : c \in {Touching, Waiting, Refused, Replaying, Trimming, Reloading}}
Transactions == {Plan(Waiting)}

\* The stacks, the open step and the held one are well formed and within their budget, and the host sees one touch and
\* one release for each parameter, whatever the order of the calls.
FramesSound == TypeOK /\ HostSeesGestures

=============================================================================
