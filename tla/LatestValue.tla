---------------------------- MODULE LatestValue ----------------------------
(***************************************************************************)
(* What a "reader sees the latest value" port promises, whatever buffers   *)
(* and flags stand behind it: the writer replaces one whole value, the     *)
(* reader takes the whole value current at that moment, and that is what   *)
(* its caller gets, even if another is published in between.               *)
(* Data_port in both directions and the triple buffer of state::Store are  *)
(* shown to implement it.                                                  *)
(***************************************************************************)
CONSTANTS Values,   \* what a writer may publish
          Initial   \* what the port holds before the first write

VARIABLES latest,   \* the last value published
          taken,    \* the value the reader took last
          out       \* what the reader's caller was given last

lvvars == <<latest, taken, out>>

LVInit == latest = Initial /\ taken = Initial /\ out = Initial

Publish == /\ latest' \in Values
           /\ UNCHANGED <<taken, out>>

Take == /\ taken' = latest
        /\ UNCHANGED <<latest, out>>

Deliver == /\ out' = taken
           /\ UNCHANGED <<latest, taken>>

LVNext == Publish \/ Take \/ Deliver

LVSpec == LVInit /\ [][LVNext]_lvvars

=============================================================================
