------------------------------- MODULE MCBook -------------------------------
(* Book on a small instance: two-bit amounts, three legs to an entry. *)
EXTENDS Book

CONSTANTS p1, p2

MCMinMinor == -2

MCAccounts == {"cash", "bank", "euro"}
MCCurrencies == {"GBP", "EUR"}

\* The bank and the euro account may still be to open.
MCCharts ==
    {[cash |-> "GBP", bank |-> b, euro |-> None] : b \in {"GBP", None}}

Leg(a, n) == [account |-> a, amount_minor |-> n, undefined |-> FALSE]
Body(c, legs) == [currency |-> c, postings |-> legs, undefined |-> FALSE]
Sent(v) == [json |-> TRUE, keyed |-> TRUE, stream |-> "value", after |-> "nothing", value |-> v]

Paid == Sent(Body("GBP", <<Leg("cash", 1), Leg("bank", -1)>>))

\* Two legs on one account, and a partial sum past the largest amount.
Split == Sent(Body("GBP", <<Leg("cash", 1), Leg("cash", 1), Leg("bank", -2)>>))

\* What the schema refuses, and what wraps to nothing in two bits.
Unsound == {Sent(Body("GBP", legs)) : legs \in
    {<<>>, Null, <<Leg("cash", -2), Leg("bank", -2)>>, <<Leg("cash", 1), Leg("euro", -1)>>,
     <<Leg("cash", 1), Leg("safe", -1)>>, <<Leg("euro", 1), Leg("safe", -1)>>, <<Leg("cash", 1), Leg("bank", Null)>>}}
    \cup {Sent(Body(Absent, <<Leg("cash", 1), Leg("bank", -1)>>))}

\* What is not read, or not all of it.
Misread == {Sent(Body("GBP", <<Leg("cash", 2), Leg("bank", -2)>>)),
            Sent(Body(Wrong, <<Leg("cash", 2), Null, Leg(Wrong, 1)>>)),
            Sent([Body("GBP", Wrong) EXCEPT !.undefined = TRUE]),
            Sent(Body("GBP", <<Leg("cash", 1), Leg("bank", -1), Leg(Wrong, Wrong)>>)),
            Sent(Body("GBP", <<Leg("cash", 1), Leg("bank", 1), Leg("bank", -2), Leg(Wrong, 1)>>)),
            Sent(Null),
            [Paid EXCEPT !.json = FALSE], [Paid EXCEPT !.keyed = FALSE],
            [Paid EXCEPT !.stream = "oversized"], [Paid EXCEPT !.stream = "garbled"],
            [Paid EXCEPT !.after = "another"], [Paid EXCEPT !.after = "padding"]}

MCRequestsOf == [p \in {p1, p2} |->
    IF p = p1 THEN {Paid, Split} \cup Unsound \cup Misread ELSE {Split, Paid}]
=============================================================================
