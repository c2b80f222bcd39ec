-------------------------- MODULE MCLedgerSchema --------------------------
(* LedgerSchema on a small instance. *)
EXTENDS LedgerSchema, TLC

\* One leg either way, or two that already cancel.
MCBatches == {<<1, 1>>, <<1, -1>>, <<2, 0>>}

\* The lists ledger.Post and ledger.Once name.
MCAsks == {{TxnCheck, QueueCheck}, {KeyCheck}}

Symmetry == Permutations(Sessions) \cup Permutations(Txns)
=============================================================================
