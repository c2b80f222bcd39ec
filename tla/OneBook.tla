------------------------------ MODULE OneBook ------------------------------
(***************************************************************************)
(* What the reads promise: there is one book, entries go into it whole and *)
(* stay, each in one currency that its accounts hold and adding up to      *)
(* nothing, and every answer is about the book as it stood at one moment   *)
(* between the question and the answer.                                    *)
(*                                                                         *)
(* The sides of a trial balance are equal here by definition.              *)
(***************************************************************************)
EXTENDS Integers, Sequences, FiniteSets, Functions

CONSTANTS Accounts, Currencies, Ids, Readers, Questions, Nothing

VARIABLES
    holds,    \* the currency of each account opened, or Nothing
    entries,  \* the entry under each id, or Nothing
    asked,    \* what each reader has asked, or Nothing
    moment,   \* the book a reader's answer is about
    answer    \* what it was answered, or Nothing

bookVars == <<holds, entries, asked, moment, answer>>

Book == [holds |-> holds, entries |-> entries]

Opened(b) == {a \in Accounts : b.holds[a] # Nothing}
Entered(b) == {t \in Ids : b.entries[t] # Nothing}

LegSum(legs) == SumFunction([i \in DOMAIN legs |-> legs[i].amount])

Sound(e) ==
    /\ Len(e.legs) >= 2
    /\ LegSum(e.legs) = 0
    /\ \A i \in 1..Len(e.legs) : e.legs[i].amount # 0 /\ holds[e.legs[i].account] = e.currency

\* The legs in a book: an entry and a place in it.
LegsIn(b) == UNION {{t} \X DOMAIN b.entries[t].legs : t \in Entered(b)}
LegAt(b, l) == b.entries[l[1]].legs[l[2]]
Total(b, ls) == SumFunction([l \in ls |-> LegAt(b, l).amount])

Balance(b, a) ==
    LET on == {l \in LegsIn(b) : LegAt(b, l).account = a}
    IN  [sum |-> Total(b, on), postings |-> Cardinality(on)]

Trial(b, c) ==
    LET of == {l \in LegsIn(b) : b.entries[l[1]].currency = c}
        side == Total(b, {l \in of : LegAt(b, l).amount > 0})
    IN  [debits   |-> side, credits |-> side, net |-> 0,
         accounts |-> Cardinality({a \in Opened(b) : b.holds[a] = c}),
         postings |-> Cardinality(of)]

\* What a question has for an answer in book b.
Answer(b, q) ==
    CASE q.of = "entry"   -> IF q.which \in Entered(b) THEN b.entries[q.which] ELSE [missing |-> "transaction"]
      [] q.of = "account" -> IF q.which \in Opened(b) THEN Balance(b, q.which) ELSE [missing |-> "account"]
      [] q.of = "list"    -> [a \in Opened(b) |-> Balance(b, a)]
      [] q.of = "trial"   -> [c \in {b.holds[a] : a \in Opened(b)} |-> Trial(b, c)]

BookInit ==
    /\ holds \in [Accounts -> Currencies \cup {Nothing}]
    /\ entries = [t \in Ids |-> Nothing]
    /\ asked = [r \in Readers |-> Nothing]
    /\ moment = [r \in Readers |-> Nothing]
    /\ answer = [r \in Readers |-> Nothing]

Opens(a, c) ==
    /\ holds[a] = Nothing
    /\ holds' = [holds EXCEPT ![a] = c]
    /\ UNCHANGED <<entries, asked, moment, answer>>

\* Entries are whole when they appear, and nothing changes them.
Enters(t) ==
    /\ entries[t] = Nothing
    /\ entries'[t] # Nothing
    /\ Sound(entries'[t])
    /\ \A o \in Ids \ {t} : entries'[o] = entries[o]
    /\ UNCHANGED <<holds, asked, moment, answer>>

Asks(r, q) ==
    /\ asked[r] = Nothing
    /\ asked' = [asked EXCEPT ![r] = q]
    /\ UNCHANGED <<holds, entries, moment, answer>>

Looks(r) ==
    /\ asked[r] # Nothing
    /\ moment[r] = Nothing
    /\ moment' = [moment EXCEPT ![r] = Book]
    /\ UNCHANGED <<holds, entries, asked, answer>>

Answers(r) ==
    /\ moment[r] # Nothing
    /\ answer[r] = Nothing
    /\ answer' = [answer EXCEPT ![r] = Answer(moment[r], asked[r])]
    /\ UNCHANGED <<holds, entries, asked, moment>>

BookNext ==
    \/ \E a \in Accounts, c \in Currencies : Opens(a, c)
    \/ \E t \in Ids : Enters(t)
    \/ \E r \in Readers : Looks(r) \/ Answers(r) \/ \E q \in Questions : Asks(r, q)

BookSpec == BookInit /\ [][BookNext]_bookVars
=============================================================================
