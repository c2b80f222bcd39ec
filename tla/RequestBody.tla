---------------------------- MODULE RequestBody ----------------------------
(***************************************************************************)
(* internal/ledgerhttp/decode.go and the head of postTransaction: what a   *)
(* POST /v1/transactions is refused for before the ledger is asked, and    *)
(* what entry it is read as.                                               *)
(*                                                                         *)
(* A body is its bytes as the json reader meets them (stream, after) and   *)
(* the value in them.  A field holds something of the field's type, json   *)
(* of another shape (Wrong), null, or is Absent.                           *)
(***************************************************************************)
EXTENDS Integers, Sequences

CONSTANTS
    MaxPostings,         \* the legs one entry may carry
    MinMinor, MaxMinor,  \* what a bigint, and an int64, can hold
    Absent,              \* a field the body does not have
    Null,                \* json null
    Wrong                \* json that is not the field's shape

ASSUME WidthAssumption == MaxPostings \in Nat /\ MinMinor \in Int /\ MaxMinor \in Int

Odd == {Absent, Null, Wrong}

\* What the fields an entry leaves out are read as: Go's zero values.
NoName == ""

\* The bytes: "value" is one json value inside the ceiling, after which come "nothing",
\* "another" value, or "padding" past the ceiling.
Unreadables == {"oversized", "empty", "garbled", "cutShort"}

LegBodies == [account : STRING \cup Odd, amount_minor : Int \cup Odd, undefined : BOOLEAN]

Bodies == [currency : STRING \cup Odd, postings : Seq(LegBodies \cup {Null, Wrong}) \cup Odd,
           undefined : BOOLEAN]

Requests == [json : BOOLEAN, keyed : BOOLEAN, stream : {"value"} \cup Unreadables,
             after : {"nothing", "another", "padding"}, value : Bodies \cup {Null, Wrong}]

ASSUME OddAssumption ==
    /\ Absent \notin {Null, Wrong} /\ Null # Wrong
    /\ \A v \in Odd : v \notin LegBodies /\ v \notin Seq(LegBodies \cup {Null, Wrong})

-----------------------------------------------------------------------------
(* readValue and the readers under it: every fault there is.                *)

\* json.Unmarshal reads null into anything, and leaves the zero value.
Unfit(v) == v = Wrong

\* Mutant: any number will do.
AnyNumber(v) == Unfit(v)

\* A number past an int64 is no int64.
UnfitAmount(v) == Unfit(v) \/ (v \notin {Absent, Null, Wrong} /\ v \notin MinMinor..MaxMinor)

Fault(bad, path) == IF bad THEN {path} ELSE {}

\* readObject on one leg, which null does not satisfy.
LegFaults(leg, i) ==
    IF leg \in {Null, Wrong}
    THEN {<<"postings", i>>}
    ELSE Fault(Unfit(leg.account), <<"postings", i, "account">>)
         \cup Fault(UnfitAmount(leg.amount_minor), <<"postings", i, "amount_minor">>)
         \cup Fault(leg.undefined, <<"postings", i, "undefined">>)

\* readArray reads no further than the endpoint takes.
ReadLegs(items) == IF Len(items) > MaxPostings THEN MaxPostings ELSE Len(items)

ArrayFaults(items) ==
    IF items \in {Absent, Null}
    THEN {}
    ELSE IF items = Wrong
    THEN {<<"postings">>}
    ELSE UNION {LegFaults(items[i], i) : i \in 1..ReadLegs(items)}

\* Mutant: the reader stops at the first fault it meets.
FirstFault(b) ==
    IF Unfit(b.currency)
    THEN {<<"currency">>}
    ELSE IF ArrayFaults(b.postings) # {}
    THEN {CHOOSE path \in ArrayFaults(b.postings) : TRUE}
    ELSE Fault(b.undefined, <<"undefined">>)

\* readObject on the body: the struct's fields in its order, then undefined names.
BodyFaults(b) ==
    Fault(Unfit(b.currency), <<"currency">>)
    \cup ArrayFaults(b.postings)
    \cup Fault(b.undefined, <<"undefined">>)

-----------------------------------------------------------------------------
(* The first refusal.                                                      *)

Postings(b) == IF b.postings \in {Absent, Null} THEN <<>> ELSE b.postings

Refused(status, why, faults) == [status |-> status, why |-> why, faults |-> faults]

\* Mutant: postTransaction does not count.
Uncounted(b) == FALSE

TooMany(b) == Len(Postings(b)) > MaxPostings

\* declaredJSON, the key, decode, the count.
Verdict(r) ==
    IF ~r.json                         THEN Refused(415, "notDeclared", {})
    ELSE IF ~r.keyed                   THEN Refused(400, "noKey", {})
    ELSE IF r.stream = "oversized"     THEN Refused(413, "oversized", {})
    ELSE IF r.stream \in Unreadables   THEN Refused(400, "unreadable", {})
    ELSE IF r.after # "nothing"        THEN Refused(400, "moreThanOneValue", {})
    ELSE IF r.value \in {Null, Wrong}  THEN Refused(400, "notAnObject", {})
    ELSE IF BodyFaults(r.value) # {} THEN Refused(400, "fields", BodyFaults(r.value))
    ELSE IF TooMany(r.value)           THEN Refused(422, "tooManyPostings", {})
    ELSE Refused(0, "read", {})

OrZero(v, zero) == IF v \in {Absent, Null} THEN zero ELSE v

\* The entry a body is read as.
EntryIn(b) ==
    [currency |-> OrZero(b.currency, NoName),
     legs     |-> [i \in 1..Len(Postings(b)) |->
                      [account |-> OrZero(Postings(b)[i].account, NoName),
                       amount  |-> OrZero(Postings(b)[i].amount_minor, 0)]]]
=============================================================================
