-------------------------- MODULE MCLedgerCalls --------------------------
(* LedgerCalls on a small instance. *)
EXTENDS LedgerCalls, TLC

CONSTANTS whole, lame

MCBatches == {<<1, 1>>, <<1, -1>>}

\* One request balances, the other does not.
MCLegsOf == (whole :> <<<<1, 1>>, <<1, -1>>>>) @@ (lame :> <<<<1, 1>>>>)

\* The lists Post and Once name, and the caller's ALL.
MCAsks == {{TxnCheck, QueueCheck}, {KeyCheck}, Constraints}

Symmetry == Permutations(Txns) \cup Permutations(Sessions)
=============================================================================
