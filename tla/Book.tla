------------------------------- MODULE Book --------------------------------
(***************************************************************************)
(* Money, from the body of a POST /v1/transactions to the reads of it:     *)
(* Post's legs one INSERT at a time with their accounts, currencies and    *)
(* amounts, what each refusal says, and EntryOf, BalanceOf, Balances and   *)
(* TrialBalance against a book others are writing.                         *)
(*                                                                         *)
(* Keys, savepoints and deadlines are RetryContract's and LedgerCalls'.    *)
(* An entry's id is its poster.                                            *)
(***************************************************************************)
EXTENDS RequestBody, FiniteSets, Functions

CONSTANTS
    Accounts, Currencies,
    Posters,      \* one POST /v1/transactions each
    Readers,      \* one question each
    RequestsOf,   \* the requests each poster may send
    Charts,       \* the accounts there may be to begin with
    None

LegRefusals == [status : {422}, why : {"noSuchAccount", "rejected", "otherCurrency"},
                leg : Nat, says : Currencies \cup {None}]

\* What a reader may be told or see.
Entries == [currency : Currencies, legs : Seq([account : Accounts, amount : Int])]

ASSUME NoneAssumption ==
    /\ None \notin Currencies /\ None \notin LegRefusals /\ None \notin Entries
    /\ None \notin [chart : [Accounts -> Currencies \cup {None}], head : [Posters -> Currencies \cup {None}],
                    postings : SUBSET [id : Nat, txn : Posters, account : Accounts,
                                       currency : Currencies, amount : Int]]
    /\ None \notin [holds : [Accounts -> Currencies \cup {None}], entries : [Posters -> Entries \cup {None}]]
\* The CHECK on accounts.code bounds its length and its alphabet.
ASSUME AccountsAssumption == IsFiniteSet(Accounts)
ASSUME ChartAssumption == Charts \subseteq [Accounts -> Currencies \cup {None}]
ASSUME RequestAssumption == \A p \in Posters : RequestsOf[p] \subseteq Requests

Levels == {"repeatable read", "read committed"}

\* Pool.Read is at repeatable read; the replay of a POST is inside Pool.Write.
Questions ==
    [of : {"entry"}, which : Posters, level : Levels]
    \cup [of : {"account"}, which : Accounts, level : {"repeatable read"}]
    \cup [of : {"list", "trial"}, which : {None}, level : {"repeatable read"}]

VARIABLES
    chart,     \* accounts: the currency of each, or None
    head,      \* transactions: the currency of each, or None
    postings,  \* the committed legs
    nextId,    \* the identity sequence of postings.id
    request,   \* what each poster sends
    pc,        \* how far its handler is
    wrote,     \* its uncommitted legs
    reply,     \* what it was answered
    asked, moment, answer  \* each reader's question, the tables at its first statement, its answer

writeVars == <<chart, head, postings, nextId, request, pc, wrote, reply>>
readVars == <<asked, moment, answer>>
vars == <<writeVars, readVars>>

Tables == [chart |-> chart, head |-> head, postings |-> postings]

Rows == [id : Nat, txn : Posters, account : Accounts, currency : Currencies,
         amount : MinMinor..MaxMinor]

Stages == {"sent", "begun", "legs", "asked", "explaining", "answered"}

Created == [status |-> 201, why |-> "created"]
NotReached == [status |-> 503, why |-> "notReached"]

\* What p may be answered.
IsReply(p, said) ==
    \/ said \in {None, Verdict(request[p]), Created, NotReached}
    \/ /\ said.why = "unbalanced"
       /\ said \in [status : {422}, why : {"unbalanced"}, leg : {0}, says : Int]
    \/ said.why # "unbalanced" /\ said \in LegRefusals

BalanceRows == [sum : Int, postings : Nat]
TrialRows == [debits : Int, credits : Int, net : Int, accounts : Nat, postings : Nat]

\* And what a reader that asked q may be.
IsAnswer(q, said) ==
    \/ q.of = "entry" /\ said \in Entries \cup [missing : {"transaction"}]
    \/ q.of = "account" /\ said \in BalanceRows \cup [missing : {"account"}]
    \/ q.of = "list" /\ \E opened \in SUBSET Accounts : said \in [opened -> BalanceRows]
    \/ q.of = "trial" /\ \E held \in SUBSET Currencies : said \in [held -> TrialRows]

TypeOK ==
    /\ chart \in [Accounts -> Currencies \cup {None}]
    /\ head \in [Posters -> Currencies \cup {None}]
    /\ postings \subseteq Rows
    /\ nextId \in Nat
    /\ \A p \in Posters : request[p] \in RequestsOf[p]
    /\ pc \in [Posters -> Stages]
    /\ \A p \in Posters : wrote[p] \subseteq Rows /\ IsReply(p, reply[p])
    /\ asked \in [Readers -> Questions \cup {None}]
    /\ \A r \in Readers : moment[r] # None =>
        moment[r] \in [chart : [Accounts -> Currencies \cup {None}],
                      head : [Posters -> Currencies \cup {None}], postings : SUBSET Rows]
    /\ \A r \in Readers : answer[r] # None => IsAnswer(asked[r], answer[r])

Init ==
    /\ chart \in Charts
    /\ head = [p \in Posters |-> None]
    /\ postings = {}
    /\ nextId = 1
    /\ request \in {f \in [Posters -> UNION {RequestsOf[p] : p \in Posters}] :
                        \A p \in Posters : f[p] \in RequestsOf[p]}
    /\ pc = [p \in Posters |-> "sent"]
    /\ wrote = [p \in Posters |-> {}]
    /\ reply = [p \in Posters |-> None]
    /\ asked = [r \in Readers |-> None]
    /\ moment = [r \in Readers |-> None]
    /\ answer = [r \in Readers |-> None]

-----------------------------------------------------------------------------
(* Sums.                                                                   *)

Amounts(rows) == SumFunction([row \in rows |-> row.amount])

\* Mutant: a bigint that wraps.
NetInBigint(e) ==
    ((SumFunction([i \in DOMAIN e.legs |-> e.legs[i].amount]) - MinMinor)
        % (MaxMinor - MinMinor + 1)) + MinMinor

\* Entry.net and transactionRequest.net, in Minor.
Net(e) == SumFunction([i \in DOMAIN e.legs |-> e.legs[i].amount])

\* Mutant: sum(amount_minor)::bigint that wraps.
BalancedInBigint(rows) == rows # {} /\ Amounts(rows) % (MaxMinor - MinMinor + 1) = 0

\* assert_transaction_balances, in numeric.
Balanced(rows) == rows # {} /\ Amounts(rows) = 0

-----------------------------------------------------------------------------
(* POST /v1/transactions.                                                  *)

Entry(p) == EntryIn(request[p].value)

\* A refusal rolls back; what it says is about the request and the chart.
RollsBack(p, stage, said) ==
    /\ pc' = [pc EXCEPT ![p] = stage]
    /\ reply' = [reply EXCEPT ![p] = said]
    /\ wrote' = [wrote EXCEPT ![p] = {}]
    /\ UNCHANGED <<chart, head, postings>>

Replies(p, said) == RollsBack(p, "answered", said)

\* says: the currency the account holds, or the net.
LedgerRefused(why, leg, says) == [status |-> 422, why |-> why, leg |-> leg, says |-> says]

Decodes(p) ==
    /\ pc[p] = "sent"
    /\ LET v == Verdict(request[p])
       IN IF v.status # 0
          THEN Replies(p, v)
          ELSE pc' = [pc EXCEPT ![p] = "begun"] /\ UNCHANGED <<chart, head, postings, wrote, reply>>
    /\ UNCHANGED <<nextId, request, readVars>>

\* INSERT INTO transactions: the currency's CHECK.
InsertsHead(p) ==
    /\ pc[p] = "begun"
    /\ IF Entry(p).currency \in Currencies
       THEN pc' = [pc EXCEPT ![p] = "legs"] /\ UNCHANGED <<chart, head, postings, wrote, reply>>
       ELSE Replies(p, LedgerRefused("rejected", 0, None))
    /\ UNCHANGED <<nextId, request, readVars>>

\* Mutant: a leg carries its entry's currency and no key holds it to its account's.
CrossesCurrencies(leg, currency) == FALSE

\* FOREIGN KEY (transaction_id, currency): the leg carries its account's currency.
OtherCurrency(leg, currency) == chart[leg.account] # currency

\* The first rule the INSERT of a leg breaks: NOT NULL on the account the LEFT JOIN did
\* not find, CHECK, then the foreign keys.
LegRefusal(leg, i, currency) ==
    IF leg.account \notin Accounts \/ chart[leg.account] = None
    THEN LedgerRefused("noSuchAccount", i, None)
    ELSE IF leg.amount = 0
    THEN LedgerRefused("rejected", i, None)
    ELSE IF OtherCurrency(leg, currency)
    THEN LedgerRefused("otherCurrency", i, None)
    ELSE None

\* explain looks again, once the savepoint is back, at an account of another currency.
Stage(refusal) == IF refusal.why = "otherCurrency" THEN "explaining" ELSE "answered"

\* An id is drawn whether or not the row stays.
InsertsLeg(p) ==
    LET i == Cardinality(wrote[p]) + 1
        leg == Entry(p).legs[i]
        refusal == LegRefusal(leg, i, Entry(p).currency)
    IN  /\ pc[p] = "legs" /\ i <= Len(Entry(p).legs)
        /\ nextId' = nextId + 1
        /\ IF refusal # None
           THEN RollsBack(p, Stage(refusal), refusal)
           ELSE /\ wrote' = [wrote EXCEPT ![p] = @ \cup {[id |-> nextId, txn |-> p,
                        account |-> leg.account, currency |-> chart[leg.account], amount |-> leg.amount]}]
                /\ UNCHANGED <<chart, head, postings, pc, reply>>
        /\ UNCHANGED <<request, readVars>>

\* SET CONSTRAINTS ... IMMEDIATE.
AsksBalance(p) ==
    /\ pc[p] = "legs"
    /\ Cardinality(wrote[p]) = Len(Entry(p).legs)
    /\ IF Balanced(wrote[p])
       THEN pc' = [pc EXCEPT ![p] = "asked"] /\ UNCHANGED <<chart, head, postings, wrote, reply>>
       ELSE Replies(p, LedgerRefused("unbalanced", 0, Net(Entry(p))))
    /\ UNCHANGED <<nextId, request, readVars>>

\* classify's default: any other error of the server's, a statement_timeout among them, is
\* a refusal of what was being written or asked.
RefusedOtherwise(p) ==
    LET i == Cardinality(wrote[p]) + 1
        leg == IF pc[p] = "legs" /\ i <= Len(Entry(p).legs) THEN i ELSE 0
    IN  /\ pc[p] \in {"begun", "legs"}
        /\ Replies(p, LedgerRefused("rejected", leg, None))
        /\ UNCHANGED <<nextId, request, readVars>>

\* explain's SELECT: what the account holds, or, when it fails, the refusal as it was.
Explains(p) ==
    /\ pc[p] = "explaining"
    /\ \E says \in {chart[Entry(p).legs[reply[p].leg].account], None} :
        Replies(p, LedgerRefused("otherCurrency", reply[p].leg, says))
    /\ UNCHANGED <<nextId, request, readVars>>

\* COMMIT, and 201 with the request's own postings.
Commits(p) ==
    /\ pc[p] = "asked"
    /\ head' = [head EXCEPT ![p] = Entry(p).currency]
    /\ postings' = postings \cup wrote[p]
    /\ wrote' = [wrote EXCEPT ![p] = {}]
    /\ pc' = [pc EXCEPT ![p] = "answered"]
    /\ reply' = [reply EXCEPT ![p] = Created]
    /\ UNCHANGED <<chart, nextId, request, readVars>>

\* Whatever cuts a handler short before its COMMIT.
GivesUp(p) ==
    /\ pc[p] \in {"begun", "legs", "asked", "explaining"}
    /\ Replies(p, NotReached)
    /\ UNCHANGED <<nextId, request, readVars>>

\* POST /v1/accounts, committed.
OpensAccount(a, c) ==
    /\ chart[a] = None
    /\ chart' = [chart EXCEPT ![a] = c]
    /\ UNCHANGED <<head, postings, nextId, request, pc, wrote, reply, readVars>>

-----------------------------------------------------------------------------
(* What the reads compute from tables t.                                   *)

LegsOfEntry(t, p) == {row \in t.postings : row.txn = p}

\* Mutant: ORDER BY p.amount_minor, p.id.
InAmountOrder(rows) ==
    [i \in 1..Cardinality(rows) |-> CHOOSE row \in rows :
        Cardinality({o \in rows : o.amount < row.amount \/ (o.amount = row.amount /\ o.id <= row.id)}) = i]

\* ORDER BY p.id: the i-th row is the one that i ids are at or before.
InWrittenOrder(rows) ==
    [i \in 1..Cardinality(rows) |->
        CHOOSE row \in rows : Cardinality({o \in rows : o.id <= row.id}) = i]

\* EntryOf: the header from one statement, the legs from the next.
EntryOf(headers, legs, p) ==
    IF headers.head[p] = None
    THEN [missing |-> "transaction"]
    ELSE LET rows == InWrittenOrder(LegsOfEntry(legs, p))
         IN  [currency |-> headers.head[p],
              legs     |-> [i \in DOMAIN rows |->
                               [account |-> rows[i].account, amount |-> rows[i].amount]]]

Opened(t) == {a \in Accounts : t.chart[a] # None}

\* account_balances.
AccountBalance(t, a) ==
    LET rows == {row \in t.postings : row.account = a}
    IN  [sum |-> Amounts(rows), postings |-> Cardinality(rows)]

BalanceOf(t, a) ==
    IF a \in Opened(t) THEN AccountBalance(t, a) ELSE [missing |-> "account"]

Balances(t) == [a \in Opened(t) |-> AccountBalance(t, a)]

\* One row of TrialBalance: grouped by the account's currency, not the posting's.
TrialRow(t, c) ==
    LET of == {a \in Opened(t) : t.chart[a] = c}
        rows == {row \in t.postings : row.account \in of}
    IN  [debits   |-> Amounts({row \in rows : row.amount > 0}),
         credits  |-> -Amounts({row \in rows : row.amount < 0}),
         net      |-> Amounts(rows),
         accounts |-> Cardinality(of),
         postings |-> Cardinality(rows)]

TrialBalance(t) == [c \in {t.chart[a] : a \in Opened(t)} |-> TrialRow(t, c)]

-----------------------------------------------------------------------------
(* The reads.                                                              *)

\* A replay reads back an entry whose committed key it has just met.
Asks(r, q) ==
    /\ asked[r] = None
    /\ q.level = "read committed" => head[q.which] # None
    /\ asked' = [asked EXCEPT ![r] = q]
    /\ UNCHANGED <<writeVars, moment, answer>>

\* The first statement, which takes a repeatable-read transaction's snapshot.
Looks(r) ==
    /\ asked[r] # None
    /\ moment[r] = None
    /\ moment' = [moment EXCEPT ![r] = Tables]
    /\ UNCHANGED <<writeVars, asked, answer>>

\* What a later statement reads.
Seen(r) == IF asked[r].level = "repeatable read" THEN moment[r] ELSE Tables

Answers(r) ==
    LET q == asked[r] IN
    /\ moment[r] # None
    /\ answer[r] = None
    /\ answer' = [answer EXCEPT ![r] =
            CASE q.of = "entry"   -> EntryOf(moment[r], Seen(r), q.which)
              [] q.of = "account" -> BalanceOf(moment[r], q.which)
              [] q.of = "list"    -> Balances(Seen(r))
              [] q.of = "trial"   -> TrialBalance(moment[r])]
    /\ UNCHANGED <<writeVars, asked, moment>>

Next ==
    \/ \E p \in Posters :
        \/ Decodes(p) \/ InsertsHead(p) \/ InsertsLeg(p) \/ AsksBalance(p) \/ Commits(p)
        \/ RefusedOtherwise(p) \/ Explains(p) \/ GivesUp(p)
    \/ \E a \in Accounts, c \in Currencies : OpensAccount(a, c)
    \/ \E r \in Readers : Looks(r) \/ Answers(r) \/ \E q \in Questions : Asks(r, q)

Spec == Init /\ [][Next]_vars

-----------------------------------------------------------------------------
(* Properties.                                                             *)

\* The entries the tables hold.
EntriesIn(t) ==
    [p \in Posters |-> IF t.head[p] = None THEN None ELSE EntryOf(t, t, p)]

Promise == INSTANCE OneBook WITH
    Ids     <- Posters,
    Nothing <- None,
    holds   <- chart,
    entries <- EntriesIn(Tables),
    moment  <- [r \in Readers |-> IF moment[r] = None THEN None
                                  ELSE [holds |-> moment[r].chart, entries |-> EntriesIn(moment[r])]]

\* Legs, ids and accounts in tables add up to whole entries in one book, and every read,
\* the replay's two statements at read committed included, answers from one moment of it.
ReadsTellOfOneBook == Promise!BookSpec

\* No leg crosses currencies, so no entry can move money from one into another.
PostingsKeepToOneCurrency ==
    \A row \in postings : row.currency = chart[row.account] /\ row.currency = head[row.txn]

\* A 201 echoes the request; a read of the entry answers the same legs in the same order.
CreatedIsReadBack ==
    \A p \in Posters :
        pc[p] = "answered" /\ reply[p].status = 201 => EntryOf(Tables, Tables, p) = Entry(p)

\* "the transaction does not balance" never says it nets to 0, and says what it nets to,
\* whatever the legs sum to.
UnbalancedSaysHowFar ==
    \A p \in Posters :
        pc[p] = "answered" /\ reply[p].why = "unbalanced" =>
            /\ reply[p].says = 0 => Entry(p).legs = <<>>
            /\ reply[p].says = Promise!LegSum(Entry(p).legs)

\* A leg is refused for itself: those before it could be written, and any currency the
\* refusal says its account holds is the one it holds, and not the entry's.
TheLegRefusedIsAtFault ==
    \A p \in Posters :
        pc[p] = "answered" /\ reply[p].status = 422 /\ reply[p].why \in {"noSuchAccount", "rejected", "otherCurrency"} =>
            LET e == Entry(p) IN
            /\ \A j \in 1..reply[p].leg - 1 :
                e.legs[j].amount # 0 /\ chart[e.legs[j].account] = e.currency
            /\ reply[p].why = "otherCurrency" /\ reply[p].says # None =>
                reply[p].says = chart[e.legs[reply[p].leg].account] /\ reply[p].says # e.currency

\* What reaches the ledger was read whole: the legs past the count, which the decoder
\* does not look at, never get there.
NothingUnreadIsPosted ==
    \A p \in Posters :
        pc[p] \in {"begun", "legs", "asked"} =>
            LET b == request[p].value IN
            ~Unfit(b.currency) /\ \A i \in 1..Len(Postings(b)) : LegFaults(Postings(b)[i], i) = {}

\* A field, a leg and a body with whatever a refusal named put right or left out.
Left(v, path, faults) == IF path \in faults THEN Absent ELSE v

MendedLeg(leg, i, faults) ==
    IF <<"postings", i>> \in faults
    THEN [account |-> Absent, amount_minor |-> Absent, undefined |-> FALSE]
    ELSE IF leg \in {Null, Wrong}
    THEN leg
    ELSE [account      |-> Left(leg.account, <<"postings", i, "account">>, faults),
          amount_minor |-> Left(leg.amount_minor, <<"postings", i, "amount_minor">>, faults),
          undefined    |-> leg.undefined /\ <<"postings", i, "undefined">> \notin faults]

Mended(b, faults) ==
    LET legs == Left(b.postings, <<"postings">>, faults)
    IN  [currency  |-> Left(b.currency, <<"currency">>, faults),
         undefined |-> b.undefined /\ <<"undefined">> \notin faults,
         postings  |-> IF legs \in Odd THEN legs
                       ELSE [i \in 1..Len(legs) |-> MendedLeg(legs[i], i, faults)]]

\* "so a client mends a body in one pass": no fault shows only once the named ones are gone.
OnePassMendsABody ==
    \A p \in Posters :
        pc[p] = "answered" /\ reply[p].why = "fields" =>
            BodyFaults(Mended(request[p].value, reply[p].faults)) = {}
=============================================================================
