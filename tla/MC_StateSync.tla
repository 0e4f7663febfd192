---------------------------- MODULE MC_StateSync ----------------------------
(* A cell's contents are the writes it has seen, oldest first, and a gesture  *)
(* adds itself to the cell it edits: it reads before it writes, like a `+=`.  *)
(* What is lost, or done twice, shows.                                        *)
EXTENDS StateSync, SequencesExt

CONSTANTS c1, c2, g1, g2, g3, preset, w1, w2, loadedDoc

Target == g1 :> c1 @@ g2 :> c2 @@ g3 :> c1 @@ w1 :> c1 @@ w2 :> c2
Ids == {g1, g2, g3, preset, w1, w2, loadedDoc}
Cells == {c1, c2}
MCDocs == [Cells -> Seq(Ids)]
Blanks == [c \in Cells |-> <<>>]
Loaded == [c \in Cells |-> <<loadedDoc>>]

\* A preset replaces the document.
MCEffect(id, doc) == IF id = preset THEN [c \in Cells |-> <<id>>] ELSE [doc EXCEPT ![Target[id]] = Append(@, id)]

Retrying(gestures, writes) ==
    [policy |-> [g \in gestures |-> "Retry"], writes |-> writes, loads |-> {}, resends |-> {}]

TwoAuthors == {Retrying({g1, g2, g3}, {w1}), Retrying({g1, g2}, {w1, w2})}
Mixed == [policy |-> g1 :> "Retry" @@ g2 :> "Merge" @@ preset :> "Overwrite", writes |-> {w1},
          loads |-> {}, resends |-> {}]
Loading == {[Retrying(gestures, writes) EXCEPT !.loads = {Loaded}] :
                <<gestures, writes>> \in {<<{g1}, {w1}>>, <<{g1, g2}, {}>>}}
Resending == [Retrying({g1, g2}, {w1}) EXCEPT !.resends = {Loaded}]

AllPlans == TwoAuthors \cup Loading \cup {Mixed, Resending}
LoadedOnly == {[Retrying({}, {w1}) EXCEPT !.loads = {Loaded}]}

\* With Retry, no write of either side's is lost, and none is made twice by a re-run of what had landed,
\* not even in the editor's view: what a cell of the processor's document has seen only grows, each write
\* once, whoever writes it and however late the editor hears.
NothingLost ==
    [][(plan \in TwoAuthors) => \A c \in Cells : /\ IsPrefix(proc.value[c], proc'.value[c])
                                                 /\ IsInjective(proc'.value[c]) /\ IsInjective(view'[c])]_vars

\* Without a load, both sides hold the same document in the end; and with Retry alone,
\* every edit the user sees is confirmed.  (An overwrite sent before a rejection
\* lands after its gestures were rewound: they stay pending, with nothing to send.)
ConvergesUnloaded == /\ plan.loads = {} => <>[](view = proc.value)
                     /\ plan.loads = {} /\ plan # Mixed => Converges

=============================================================================
