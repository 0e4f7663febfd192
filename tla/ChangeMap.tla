----------------------------- MODULE ChangeMap -----------------------------
(***************************************************************************)
(* What Change_set promises: the newest value per address, a batch as a    *)
(* unit, and everything owed delivered at once.                            *)
(***************************************************************************)
CONSTANTS Addresses,
          None,      \* no change for this address
          Batches    \* what may be pushed

VARIABLES owed,   \* the changes not yet consumed
          heard   \* the value each address had when it was last delivered

Nothing == [a \in Addresses |-> None]

\* `new` written over `old`.
Over(old, new) == [a \in Addresses |-> IF new[a] # None THEN new[a] ELSE old[a]]

CMInit == owed = Nothing /\ heard = Nothing

Push == /\ \E batch \in Batches : owed' = Over(owed, batch)
        /\ heard' = heard

Consume == /\ heard' = Over(heard, owed)
           /\ owed' = Nothing

CMNext == Push \/ Consume
CMSpec == CMInit /\ [][CMNext]_<<owed, heard>>

=============================================================================
