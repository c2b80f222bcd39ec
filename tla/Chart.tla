------------------------------- MODULE Chart -------------------------------
(***************************************************************************)
(* The chart of accounts: POST /v1/accounts opening accounts while GET     *)
(* /v1/accounts is walked page by page.  Each page is a read of its own,   *)
(* on its own snapshot, and the `next` address carries nothing but the     *)
(* filter, the page size and the last code answered.  An open carries no   *)
(* idempotency key: the code is unique, and whoever comes second is told.  *)
(*                                                                         *)
(* Codes are numbers, in the order the index on code keeps them; a filter  *)
(* on currency and kind is a group of accounts.  An account is named for   *)
(* the request that opened it.                                             *)
(***************************************************************************)
EXTENDS Integers, FiniteSets

CONSTANTS
    Codes,      \* account codes, in their order
    Groups,     \* what a filter on currency and kind tells apart
    Openers,    \* requests to open an account
    Unfit,      \* openers asking for what a CHECK or the kind's enum refuses
    Walkers,    \* clients listing the accounts
    Sizes,      \* page sizes a client may ask for
    Starts,     \* codes a client may begin past, 0 for the start of the chart
    All,        \* no filter
    None        \* no account

Wants == [code : Codes, group : Groups]
Walks == [filter : Groups \cup {All}, size : Sizes, after : Codes \cup {0},
          more : BOOLEAN]

ASSUME ChartAssumption ==
    /\ Codes \subseteq Nat \ {0} /\ IsFiniteSet(Codes)
    /\ Sizes \subseteq Nat \ {0}
    /\ Starts \subseteq Codes \cup {0}
    /\ Unfit \subseteq Openers
    /\ All \notin Groups
    /\ None \notin Openers \cup Wants \cup Walks

VARIABLES
    chart,      \* the committed account under each code
    want,       \* what each opener asked for
    stage,      \* where each opener's handler stands
    row,        \* the opener's row as the server has it
    told,       \* what each opener was answered
    walk,       \* each walker: its filter, page size and cursor, or none
    answered,   \* whether each walk has answered each code never, once or more (2)
    due         \* the codes there were to answer when the walk began

openVars == <<chart, want, stage, row, told>>
walkVars == <<walk, answered, due>>
vars == <<chart, want, stage, row, told, walk, answered, due>>

TypeOK ==
    /\ chart \in [Codes -> Openers \cup {None}]
    /\ want \in [Openers -> Wants \cup {None}]
    /\ stage \in [Openers -> {"unsent", "inserting", "reading", "in flight", "finished"}]
    /\ row \in [Openers -> {"none", "held", "commit", "kept"}]
    /\ told \in [Openers -> {"nothing", "created", "exists", "rejected", "unsure"}]
    /\ walk \in [Walkers -> Walks \cup {None}]
    /\ answered \in [Walkers -> [Codes -> 0..2]]
    /\ due \in [Walkers -> SUBSET Codes]

Init ==
    /\ chart = [c \in Codes |-> None]
    /\ want = [o \in Openers |-> None]
    /\ stage = [o \in Openers |-> "unsent"]
    /\ row = [o \in Openers |-> "none"]
    /\ told = [o \in Openers |-> "nothing"]
    /\ walk = [w \in Walkers |-> None]
    /\ answered = [w \in Walkers |-> [c \in Codes |-> 0]]
    /\ due = [w \in Walkers |-> {}]

-----------------------------------------------------------------------------
(* Opening an account.                                                     *)

Ask(o, q) ==
    /\ stage[o] = "unsent"
    /\ want' = [want EXCEPT ![o] = q]
    /\ stage' = [stage EXCEPT ![o] = "inserting"]
    /\ UNCHANGED <<chart, row, told, walkVars>>

Code(o) == want[o].code

\* Mutant: the code is not unique until it is committed.
NeverWaits(o) == FALSE

\* Another transaction's uncommitted row: the INSERT waits on the index on code.
Waits(o) ==
    \E p \in Openers \ {o} : row[p] \in {"held", "commit"} /\ Code(p) = Code(o)

Finish(o, status) ==
    /\ stage' = [stage EXCEPT ![o] = "finished"]
    /\ told' = [told EXCEPT ![o] = status]

Insert(o) ==
    /\ stage[o] = "inserting"
    /\ o \notin Unfit
    /\ chart[Code(o)] = None
    /\ ~Waits(o)
    /\ row' = [row EXCEPT ![o] = "held"]
    /\ stage' = [stage EXCEPT ![o] = "reading"]
    /\ UNCHANGED <<chart, want, told, walkVars>>

\* classifyOpen: 23505 is ErrAccountExists and a 409.
InsertDuplicate(o) ==
    /\ stage[o] = "inserting"
    /\ o \notin Unfit
    /\ chart[Code(o)] # None
    /\ Finish(o, "exists")
    /\ UNCHANGED <<chart, want, row, walkVars>>

\* Any other refusal is ErrRejected or ErrUnknownKind and a 422: a CHECK, the enum,
\* and lock_timeout too.
InsertRejected(o) ==
    /\ stage[o] = "inserting"
    /\ o \in Unfit \/ Waits(o)
    /\ Finish(o, "rejected")
    /\ UNCHANGED <<chart, want, row, walkVars>>

\* BalanceOf reads the new account back in the same transaction; then COMMIT.
ReadBack(o) ==
    /\ stage[o] = "reading"
    /\ row[o] = "held"
    /\ row' = [row EXCEPT ![o] = "commit"]
    /\ stage' = [stage EXCEPT ![o] = "in flight"]
    /\ UNCHANGED <<chart, want, told, walkVars>>

ServerCommits(o) ==
    /\ row[o] = "commit"
    /\ row' = [row EXCEPT ![o] = "kept"]
    /\ chart' = [chart EXCEPT ![Code(o)] = o]
    /\ UNCHANGED <<want, stage, told, walkVars>>

Opened(o) ==
    /\ stage[o] = "in flight"
    /\ row[o] = "kept"
    /\ Finish(o, "created")
    /\ UNCHANGED <<chart, want, row, walkVars>>

\* A spent budget or a lost connection: a 503 or a 500, with the row left to the server.
GiveUp(o) ==
    /\ stage[o] \in {"inserting", "reading", "in flight"}
    /\ Finish(o, "unsure")
    /\ UNCHANGED <<chart, want, row, walkVars>>

ServerRollsBack(o) ==
    /\ row[o] \in {"held", "commit"}
    /\ row' = [row EXCEPT ![o] = "none"]
    /\ UNCHANGED <<chart, want, stage, told, walkVars>>

-----------------------------------------------------------------------------
(* Listing the accounts.                                                   *)

\* The WHERE clause on currency and kind; an unasked filter is every account.
Matches(c, filter) ==
    chart[c] # None /\ (filter = All \/ want[chart[c]].group = filter)

\* Mutant: the cursor is answered again.
FromCursor(c, after) == c >= after

\* code > $3, and an unasked cursor is every code.
Past(c, after) == c > after

Matched(filter, after) == {c \in Codes : Matches(c, filter) /\ Past(c, after)}

\* ORDER BY code LIMIT n.
First(S, n) == {c \in S : Cardinality({d \in S : d < c}) < n}

Last(S) == CHOOSE c \in S : \A d \in S : d <= c

\* Mutant: the limit is the page, so a full page never knows of another.
OnlyThePage(filter, after, size) == First(Matched(filter, after), size)

\* One row past the page, so the answer knows whether there is another.
Rows(filter, after, size) == First(Matched(filter, after), size + 1)

\* Mutant: the cursor is taken before the rows are cut to the page.
CursorPastPage(rows, size, after) == IF rows = {} THEN after ELSE Last(rows)

\* nextPage: the last row of the page answered.
Cursor(rows, size, after) ==
    IF rows = {} THEN after ELSE Last(First(rows, size))

\* Answers one page and leaves the walk at its `next`, where there is one.
AnswerPage(w, filter, size, after) ==
    LET rows == Rows(filter, after, size)
        page == First(rows, size)
    IN  /\ answered' = [answered EXCEPT ![w] =
                [c \in Codes |-> IF c \in page /\ @[c] < 2 THEN @[c] + 1 ELSE @[c]]]
        /\ walk' = [walk EXCEPT ![w] =
                [filter |-> filter, size |-> size,
                 after |-> Cursor(rows, size, after),
                 more |-> Cardinality(rows) > size]]

\* The first page, from the start of the chart or past any code the client names.
StartWalk(w, filter, size, after) ==
    /\ walk[w] = None
    /\ due' = [due EXCEPT ![w] = Matched(filter, after)]
    /\ AnswerPage(w, filter, size, after)
    /\ UNCHANGED openVars

Walking(w) == walk[w] # None /\ walk[w].more

FollowNext(w) ==
    /\ Walking(w)
    /\ AnswerPage(w, walk[w].filter, walk[w].size, walk[w].after)
    /\ UNCHANGED <<due, openVars>>

-----------------------------------------------------------------------------

Next ==
    \/ \E o \in Openers :
        \/ \E q \in Wants : Ask(o, q)
        \/ Insert(o) \/ InsertDuplicate(o) \/ InsertRejected(o)
        \/ ReadBack(o) \/ Opened(o) \/ GiveUp(o)
        \/ ServerCommits(o) \/ ServerRollsBack(o)
    \/ \E w \in Walkers :
        \/ \E f \in Groups \cup {All}, n \in Sizes, c \in Starts :
            StartWalk(w, f, n, c)
        \/ FollowNext(w)

Spec == Init /\ [][Next]_vars

\* A client that walks follows every `next` it is given.
FairSpec == Spec /\ \A w \in Walkers : WF_vars(FollowNext(w))

-----------------------------------------------------------------------------
(* Properties.                                                             *)

\* A 201 is the opener's own account and a 409 is somebody else's, however the two
\* raced and whatever was left behind by requests cut off.
OneOpenerPerCode ==
    \A o \in Openers :
        /\ told[o] = "created" => chart[Code(o)] = o
        /\ told[o] = "exists" => chart[Code(o)] \notin {None, o}
        /\ told[o] = "rejected" => chart[Code(o)] # o

\* "A seek and not a walk": no account is answered twice in a walk, though every page
\* reads a chart others are opening accounts in.
NoAccountAnsweredTwice ==
    \A w \in Walkers, c \in Codes : answered[w][c] <= 1

\* A walk that ends has answered every account there was when it began, whatever its
\* page size and wherever the accounts opened since fell.
WalkMissesNothing ==
    \A w \in Walkers :
        walk[w] # None /\ ~walk[w].more => \A c \in due[w] : answered[w][c] = 1

\* Every `next` followed leads to an end.
EveryWalkEnds == \A w \in Walkers : <>[]~Walking(w)

-----------------------------------------------------------------------------
(* The inductive invariant the proofs use.                                 *)

\* An uncommitted row has its code to itself, and an answer fits what became of the row.
OpenerOK(o) ==
    /\ stage[o] = "unsent" <=> want[o] = None
    /\ stage[o] = "finished" <=> told[o] # "nothing"
    /\ stage[o] \in {"unsent", "inserting"} => row[o] = "none"
    /\ row[o] = "commit" => stage[o] \in {"in flight", "finished"}
    /\ row[o] \in {"held", "commit"} => chart[Code(o)] = None /\ ~Waits(o)
    /\ row[o] = "kept" => chart[Code(o)] = o
    /\ told[o] = "created" => row[o] = "kept"
    /\ told[o] \in {"exists", "rejected"} => row[o] = "none"
    /\ told[o] = "exists" => chart[Code(o)] # None

AccountOK(c) ==
    chart[c] # None =>
        /\ want[chart[c]] # None
        /\ Code(chart[c]) = c
        /\ row[chart[c]] = "kept"

\* A walk has answered each code up to its cursor at most once, each due one exactly
\* once, and nothing past it.
WalkOK(w) ==
    \A c \in Codes :
        IF walk[w] = None
        THEN answered[w][c] = 0
        ELSE /\ answered[w][c] <= 1
             /\ Past(c, walk[w].after) => answered[w][c] = 0
             /\ c \in due[w] => Matches(c, walk[w].filter)
             /\ c \in due[w] /\ (walk[w].more => ~Past(c, walk[w].after)) =>
                 answered[w][c] = 1

IInv ==
    /\ TypeOK
    /\ \A o \in Openers : OpenerOK(o)
    /\ \A c \in Codes : AccountOK(c)
    /\ \A w \in Walkers : WalkOK(w)

-----------------------------------------------------------------------------
(* What the documents say and a run refutes.                               *)

\* DESIGN: "an account opened during a walk is either past the cursor and answered or
\* behind it and already answered".
OpenedDuringAWalkIsAnswered ==
    \A w \in Walkers, c \in Codes :
        Walking(w) /\ Matches(c, walk[w].filter) /\ ~Past(c, walk[w].after) =>
            answered[w][c] = 1
=============================================================================
