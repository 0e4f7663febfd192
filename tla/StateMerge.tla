----------------------------- MODULE StateMerge -----------------------------
(***************************************************************************)
(* state_merge.hpp and the policies of state_store.hpp.  A document is a   *)
(* function from cells (the byte regions the program edits as a unit) to   *)
(* contents; a patch is a pair {base, next} of documents and touches only  *)
(* the cells in which they differ.                                         *)
(***************************************************************************)

\* The patch's footprint: what `merge` writes.
Moved(base, next) == {c \in DOMAIN base : base[c] # next[c]}

\* merge(dst, base, next): only what moved is written.
Merge(dst, base, next) ==
    [c \in DOMAIN dst |-> IF c \in Moved(base, next) THEN next[c] ELSE dst[c]]

\* drift(dst, base, next) != 0: someone else has moved a byte of the footprint since `base`.
Drifted(dst, base, next) == \E c \in Moved(base, next) : dst[c] # base[c]

Applies == {"Overwrite", "Merge", "Retry"}

\* Two patches in one message: Overwrite absorbs everything, otherwise Retry wins over Merge.
Stricter(a, b) == IF "Overwrite" \in {a, b} THEN "Overwrite"
                  ELSE IF "Retry" \in {a, b} THEN "Retry" ELSE "Merge"

=============================================================================
