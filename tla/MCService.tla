----------------------------- MODULE MCService -----------------------------
(* Service on a small instance: ticks of five seconds. *)
EXTENDS Service

\* Nothing set, a flag past the drain over a zero variable, and a refusal.
MCSettings ==
    {[flag |-> 0, env |-> Unset], [flag |-> 4, env |-> 0], [flag |-> 0, env |-> 0],
     [flag |-> 0, env |-> Unreadable], [flag |-> -1, env |-> 3]}
=============================================================================
