-------------------------- MODULE MigrationHistory --------------------------
(***************************************************************************)
(* What the migration tools promise: the schema is the result of a history *)
(* of migrations, the tracking table records exactly that history, and a   *)
(* tool either extends the history at its end or reverts its latest entry. *)
(***************************************************************************)
EXTENDS Naturals, Sequences

VARIABLES
    history,      \* migrations in effect, in the order they were applied
    record        \* migrations the tracking table names, in the same order

historyVars == <<history, record>>

HistoryInit == history = <<>> /\ record = history

Extend ==
    /\ Len(history') > Len(history)
    /\ SubSeq(history', 1, Len(history)) = history
    /\ record' = history'

RevertLatest ==
    /\ history # <<>>
    /\ history' = SubSeq(history, 1, Len(history) - 1)
    /\ record' = history'

HistorySpec == HistoryInit /\ [][Extend \/ RevertLatest]_historyVars

=============================================================================
