# Pacioli, specified

Pacioli is a double-entry ledger: a Go HTTP service over one PostgreSQL
database. It has no state of its own between requests; everything it promises
rests on what its SQL schema refuses, on the order in which a request's
statements, its deadline and its commit can happen, and on what the client may
conclude from the answer. This directory holds TLA+ modules of those parts,
TLC configurations that check them on small instances, and TLAPS proofs of
their safety properties for instances of any size.

## The system's parts

| Part | State | Operations | What is hard | What makes it correct |
| --- | --- | --- | --- | --- |
| Schema (`internal/schema/0001_ledger.sql`) | accounts, entries, legs, the queue of balance checks, idempotency keys | deferred constraint triggers, append-only triggers, the final-record trigger | checks that fire later than the rows they check, after savepoints, early asks and other sessions' commits | what is committed balances; the queue is empty between transactions; a committed key names a committed entry, for good; honest work is never refused |
| `ledger.Once`, `ledger.Post` | the caller's transaction: savepoints, constraint modes | reserve, write, settle, replay, refuse | the key as a lock: a duplicate waits, then finds a row, nothing, or a timeout | at most one entry per key; a replay answers the first entry |
| Pool and HTTP writes (`ledgerhttp.Pool`, `postTransaction`, `refuse`, `Deadline`) | connections lent, a context per request, an error per handler | take a connection, begin, commit, roll back, answer | budget, client, connection and server may each go at any stage, and the deadline may answer first | no answer is false; whatever was cut off lets go |
| Chart (`ledger.Open`, `openAccount`, `ledger.Balances`, `accounts`) | accounts; nothing kept for a walk but its `next` | open, list a page | opening while others list and open | one opener per code; a walk answers each account once and ends |
| Reads (`Pool.Read`, `EntryOf`, `BalanceOf`, `Balances`, `TrialBalance`, `minor.go`) | none | several statements on one snapshot; sums | commits between the statements; a replay reads at READ COMMITTED; sums wider than a column | an answer is of one moment of one book; a created entry reads back as it was sent; each currency's sides are equal |
| Request decoding (`decode.go`) | none | read, name every fault, refuse | the order of the refusals; legs that are carried and not read | a refusal names all there is to mend; nothing unread is posted |
| Server life cycle (`cmd/pacioli`, `schema.Apply`, `deploy/`) | flags, listener, two replicas | settle the configuration, apply the schema, serve, drain | two replicas starting at once; a drain shorter than a request | the schema is applied once, and nothing is served without it; a clean exit has cut nothing off |
| Negative controls, test database, docs link | none | | | development only |

A request takes a connection (`Pool`), runs `Once` around `Post` in one
transaction at READ COMMITTED, whose statements the schema's triggers check, and
commits; `refuse` turns the error it is left with into a status, unless
`http.TimeoutHandler` has answered by then. Requests meet only in the database
and in the pool's queue. There are no callbacks beyond the closures passed to
`Once` and `Pool.Write`, and no messages between replicas.

## Modules

| Module | Models | Lines of code it stands for |
| --- | --- | --- |
| `LedgerSchema` | the tables and triggers, against sessions that issue statements in any order | `0001_ledger.sql`, and the `SET CONSTRAINTS` of `ledger.go` |
| `LedgerCalls` | `Once` and `Post` statement by statement, several calls in one transaction; shown to implement `LedgerSchema` | `idempotency.go`, `ledger.go` |
| `RetryPromise` | what POST /v1/transactions promises a client that retries: an abstract specification | the contract of `Once` and the statuses of `refuse` |
| `RetryContract` | one POST /v1/transactions per attempt, from the request to the answer; shown to implement `RetryPromise` | `idempotency.go`, `Post`, `Pool`, `Deadline`, `postTransaction`, `refuse`, the ceilings of `serve.go` |
| `Chart` | opening accounts and walking the list of them | `accounts.go` of both packages, `Balances`, `accounts`, `nextPage` |
| `RequestBody` | what a body is refused for, in which order, and the entry it is read as (operators only) | `decode.go`, the head of `postTransaction` |
| `OneBook` | what the reads promise: whole entries in one book, answers of one moment: an abstract specification | the contract of `EntryOf`, `BalanceOf`, `Balances`, `TrialBalance` |
| `Book` | amounts, accounts and currencies from a body (it EXTENDS `RequestBody`) through the legs to the reads; shown to implement `OneBook` | `ledger.go` with its refusals, `balance.go`, `entry.go`, `Pool.Read`, the read handlers, the keys and the view of `0001_ledger.sql` |
| `Service` | replicas of `pacioli serve`, from start to exit | `serve.go`, `schema.go`, `Deadline`, `deploy/` |
| `*_proofs` | the theorems about `LedgerSchema`, `LedgerCalls`, `RetryContract`, `Chart`, `Book` (with the reads in `BookReads_proofs`), `Service` | |
| `SumLemmas` | what sums over finite sets come to, for `Book`'s theorems | |
| `MC*` | sets, batches, requests and symmetry for TLC | |

**LedgerSchema.** `db` is the committed tables. A session's uncommitted
transaction is its `work`: new rows, the deferred events still to fire (`due`
for `transactions_must_balance`, `qdue` for `balance_checks_must_balance`,
`kdue` for `idempotency_keys_must_be_settled`) and the constraints
`SET CONSTRAINTS` has made immediate. A savepoint keeps a copy of all of it,
because PostgreSQL restores all of it. `EndStatement` fires the events of
immediate constraints after each statement, `Commit` the rest. A session may
issue any legal statement next, so whatever order `Once` and `Post` use is one
of the behaviours, and so is every order they do not use. A leg is reduced to what
`assert_transaction_balances` reads: how many there are and what they sum to.
The two facts a leg's own columns guarantee (`amount_minor <> 0`, an existing
entry) are `BatchAssumption` and the guard of `InsertPostings`. What a CHECK, a
foreign key, `reject_mutation` or a cancelled statement does is
`StatementRefused`: the transaction is aborted until it rolls back.

Two things the sessions do not do, because no statement of the program does
them: write `balance_checks` themselves, and delete a committed key (the schema
allows that, for an expiry that does not exist yet). Entry ids are fresh, as
`gen_random_uuid` makes them.

**RetryContract.** `pc` is the handler's stage, named for the call it is in;
`session` is the transaction as the server sees it, which goes on when the
handler no longer looks; `holds` is the set of attempts with an uncommitted row
in `idempotency_keys`; `book` and `record` are committed. A retry is one more
attempt with the same key and body, whether or not the first has ended. At any
stage the context may end (`BudgetEnds`, then `CutOff`), the connection may be
lost, and the server may roll back; a COMMIT in flight may still be applied.
`err` is the set of errors joined into the one the handler is left with, since
`refuse` asks for them one after another and in an order. A stage's statements
are one step: what may happen between them is LedgerCalls' business.

**LedgerCalls.** It EXTENDS `LedgerSchema`, and every statement of a call is one
of that module's actions. What it adds is `at`, the statement that comes next;
`name`, since SQL goes back to a savepoint by name and a second one of a name
hides the first; and `outcome`, since `Once` treats 23505 apart from every other
error. Each statement may be refused or cut short, and `Sends` says which
statement the error goes to: `Post`'s rollback, `Once`'s, or the caller, as each
`if err != nil` does. The caller begins at READ COMMITTED, may make its checks
immediate first, makes calls one after another whatever they return, and
commits or rolls back. `Pool.Write` makes one call; the comments of `Post` and
`Once` promise a usable transaction to any caller, so the module has both.
`before` is a history variable: the work as the call found it.

**Chart.** Codes are numbers in index order, and a filter on currency and kind is
a group. An opener's uncommitted row makes others with its code wait. A walk is the
filter, size and cursor that the `next` address carries, and nothing else.

**RequestBody and Book.** A body is its bytes as the json reader meets them (one
value, another after it, padding, too much, none) and the value's fields, each
holding something of its type, json of another shape, null or nothing
(`Requests`). `Verdict` is the first refusal, `BodyFaults` every fault
`readObject` and `readArray` name, a set of paths, `EntryIn` what a body that
passes is read as, Go's zero values included. One field (`currency`) stands for
the strings and the timestamp, which differ in wording only. In `Book` a poster's
legs go in one INSERT at a time (`InsertsLeg`), each taking the currency of the
account it found and an id from the sequence; `LegRefusal` is the rule it broke,
and `Explains` the second look, a statement of its own after the rollback, which
may fail and add nothing. `RefusedOtherwise` is `classify`'s default: any other
error of the server's, a `statement_timeout` among them, is a refusal of the leg
or the entry it met. `AsksBalance` is the early check, in `numeric`, with
`Entry.net` for what the refusal says; `Commits` makes the whole entry visible.
`InWrittenOrder` is `ORDER BY p.id`: the i-th row is the one that i ids are at or
before, of rows whose ids all differ. A read is a question, a first statement that
takes the snapshot (`Looks`), and the rest (`Answers`), which a replay makes at
READ COMMITTED and everything else at REPEATABLE READ. Keys, savepoints and
deadlines are left to the modules above.

**Service.** `phase` is how far a process is, `tx` its transaction in
`schema.Apply` as the server sees it; a process that dies leaves its transaction
to `Left`, which still holds the lock until the server notices. `conn` is a
client's connection as `net/http` sees it: a request may be on its way, being
read, at work, or answered and not yet taken by its client; the budget of
`Deadline` starts when the header is read, the answer can only go out once the
body is in, and a client that does not read it keeps the connection up to
`-write-timeout`. Time passes in ticks, and whatever is due happens before the
next. `Shutdown` is modelled by its contract: it closes idle connections, gives
new ones a moment, waits for the rest and gives up at the end of the drain.
`setting` is one of the six durations, `-request-timeout`, read as `firstDuration`
reads it; the others the drain meets (`Header`, `Read`, `Write`) are constants.

## Runs

| Run | Shows | Instance and why it is enough |
| --- | --- | --- |
| `schema_entries` | what is committed balances, queue rows never outlive a transaction, `IInv` | 2 sessions, 1 entry, no keys, 1 savepoint each, at most 4 legs in batches of +1, -1 and a cancelling pair: an entry completed in two batches, legs added later by the other session, each half out of balance |
| `schema_keys` | committed keys name entries for good; honest work passes | 2 sessions racing for 1 key with 2 fingerprints, 1 entry, 1 savepoint |
| `retry` | one entry per key, truthful answers, the replay finds its row, refinement of `RetryPromise`, `IInv` | 3 attempts with 1 key, 2 bodies of which one may be refused, 2 connections, 1 attempt that may be interrupted: a first attempt, its retry and a reuse of the key, overlapping in any way |
| `retry_live` | every request ends, and lets go of its connection and its key | 2 attempts that may both be interrupted, 1 connection, a well-formed and a malformed key |
| `chart` | one opener per code, no account twice or missed, walks end, `IInv` | 3 openers, 3 codes, 2 groups, 1 walker, page size 1: a full page with nothing after it and with one account after it, and accounts opened behind, past and between the pages of a walk; a longer page would need all 3 codes opened before it has a second one |
| `calls` | refused calls leave no trace and answered ones stand, COMMIT has nothing left to refuse, refinement of `LedgerSchema` | 2 sessions, 1 key, 1 entry, a request that balances and one that does not, legs one at a time, 3 savepoints: a nested `Once` and `Post`, and a second call after a refused one, while another session holds or has settled the key |
| `book` | no leg crosses currencies, echoes and refusals are true, nothing unread is posted, refinement of `OneBook` | two-bit amounts (-2 to 1), so that the sum of two legs leaves the column; 3 legs to an entry; a poster with 22 bodies, one for each refusal and each way of being sound, beside one with 2 sound bodies; an account that may be opened meanwhile and one in another currency; 1 reader with every question |
| `service` | one replica applies the schema, none serves without it, what a drain cuts off, every replica comes up and goes when told, `IInv` | 2 replicas, 1 connection with any number of requests, 2 faults, five ways of setting the budget; ticks of 5 s: 3 for a request and for a drain, 2 for a header, 6 for a body, 9 for a write, so that every order of these deadlines that the defaults allow comes up, and a budget of 4 that outlives the drain |
| `not_reached`, `bad_key`, `cancelled_fault`, `opened_behind` | sentences of the comments and documents that the code does not keep; see below | |

Bounds that are not in the code: `Depth` (savepoints open at once; one call of the
program uses two), `MaxLegs` (legs per entry in the schema's runs), `Frail` (which
attempts may be interrupted) and `MaxFaults` (processes killed, connections lost,
ports taken). `MaxPostings`, `MinMinor` and `MaxMinor` are in the code, and larger
there. Every one of these is a constant the theorems leave free, so the bounds
limit the runs and not the proofs. `Chart` counts how often a walk has answered an
account up to "more than once", all its properties tell apart. Deadlock is not
checked: a finite set of attempts, openers, walkers, posters or connections may
have nothing left to do. That nobody waits for ever is `EverythingIsLetGo`
instead.

**Fairness.** `RetryContract` is weakly fair to each handler's next step, since
goroutines run: the two waits in it are bounded by `lock_timeout` and by
`Pool.Acquire`, so waiting is never the only thing a handler can do. It is
weakly fair to the server's processing of a COMMIT it has received, and to the
end of a transaction whose handler is finished, which
`idle_in_transaction_session_timeout` and the closing of the connection bring
about. It assumes nothing of the client and never that a budget lasts.
`Chart` assumes only that the client follows the `next` it is given. `Service` is
weakly fair to a process's next step, to its restart by the deployment, to its
exit, to the database coming up and to the server's ending what nobody waits for,
to the ends of handlers and timers, and to time. It assumes nothing of clients: a
header or a body may never come and a response may never be read, which is what the
read and write deadlines and the drain are for.
That each replica comes up rests on `MaxFaults` being finite, and on no other
assumption about when the faults happen; a replica whose `lock_timeout` runs out
is started again, and there is no fairness for that timeout.

## Where the documents and the code part

* `not_reached`: a 503 "nothing was written" (`ledgerhttp.go:179` and `:190`) can
  be given to a request whose COMMIT was in flight and is then applied. The
  retry it invites is safe all the same: `OneEntryPerKey` and `KeepsThePromise`
  hold with it, which is why `RetryPromise` counts this answer among the unsure.
* `bad_key`: a retry that waits out `lock_timeout` behind its own first attempt
  is told 422, that the ledger will not hold its key (`idempotency.go:182`).
* `cancelled_fault`: a budget that ends just before COMMIT leaves
  `sql.ErrTxDone`, which is answered 500 and logged (`ledgerhttp.go:118`).
* `opened_behind`: an account opened behind a walk's cursor is not answered by
  that walk (`docs/DESIGN.md:813` says it already was).

Seven more were met in the code, and are described here and not run:

* `after` with a code no account holds "is an empty answer" (`balance.go:77`);
  the query makes it a place in the order (`balance.go:120`). `Chart` models the
  query.
* A body with one value inside the ceiling and padding past it is answered 400,
  more than one value, and not 413 (`decode.go:49` against `docs/DESIGN.md:1030`),
  since any error but EOF there is taken for a second value. The request with
  `after = "padding"` in the `book` run is answered so.
* "A refused entry leaves tx usable" (`ledger.go:113`) is so unless `explain`'s
  lookup is cut short, after which the transaction is aborted again and the
  refusal is returned all the same. `Once` rolls back once more, so its own
  promise holds: `RefusedOnceLeavesTheTransactionUsable`. The 422 then does not say
  which currency the account holds.
* An entry of too many legs with a faulty field is answered 400 for the field;
  the count is refused only once nothing else is wrong with the body.
* `-request-timeout 0` is not refused (`README.md:318` says it is): a flag of zero
  cannot be told from a flag not given (`serve.go:179`), and the environment or
  the default decides.
* A connection that took longer than `-acquire-timeout` to dial is answered as "a
  full queue" (`ledgerhttp.go:71`), with the `Retry-After` of one.
* `-write-timeout` "can only fire as a backstop" (`docs/DESIGN.md:527`), once the read
  and request budgets "have been missed" (`README.md:311`). It also closes the
  connection of a request that missed neither, when its client stops reading the
  response. In a drain it is the longer of the two (`serve.go:40` and `:49`), so the
  drain gives up first, on a request already answered: `cut answering` in `Service`.

## Proofs

TLAPS checks the eight modules with theorems; no fact is assumed but the modules'
named assumptions on their constants (`BatchAssumption`, `AskAssumption`,
`BoundAssumption`, `NullAssumption` of `LedgerSchema`; `CallsAssumption`;
`NoneAssumption` and `ContractAssumption` of `RetryContract`; `ChartAssumption` of
`Chart`; `WidthAssumption` and `OddAssumption` of `RequestBody`; `NoneAssumption`,
`AccountsAssumption`, `ChartAssumption` and `RequestAssumption` of `Book`;
`ServiceAssumption`), which TLC evaluates on every run. `OddAssumption` says that
json of another shape, null and nothing are three things and none of them a leg or
an array of legs, `NoneAssumption` that no answer, entry or table is the value for
"none", `RequestAssumption` that posters send `Requests`: any body, legs of any
length, amounts of any width, and `AccountsAssumption` that there are finitely
many account codes, whose length and alphabet the schema bounds.

*LedgerSchema.* `BookBalances` is not inductive: nothing in it says why a commit
should balance. `IInv` adds the reason, for uncommitted work and for every saved
copy of it: what is wrong has an event pending (`EntriesCaught`, `KeysCaught`),
a savepoint's copy is covered by the current work (so that rolling back to it
cannot bring back another session's row), sessions' rows are disjoint
(`Apart`), and a snapshot is of tables that passed. The lemmas follow the code:
what a statement may leave behind (`StatementStep`), that each action leaves
just that, and that COMMIT, the only step to write the tables (`OnlyCommitWrites`),
merges work that has passed. From `IInv`: `BookAlwaysBalances`,
`QueueIsAlwaysEmpty`, `KeysAlwaysNameTransactions`, `HonestWorkAlwaysPasses`,
and, as an action property, `KeyRecordsStayFinal`.

*RetryContract.* `IInv` says, attempt by attempt, that handler, transaction and
answer agree: what a stage implies of the session and the held key
(`SessionOK`, `HoldOK`), what an error implies was not written (`HandlerOK`),
what a finished handler may answer with (`EntryOK`, `AnswerOK`). `LocalStep`
reduces every step that commits nothing to the one attempt that takes it.
`ThePromiseIsKept` then maps every step to a step of `RetryPromise` or a stutter,
the variables of the promise being variables of the contract.

*Chart.* `IInv` says of each opener that its stage agrees with the account its
code holds (`OpenerOK`), of each account that an opener put it there
(`AccountOK`), and of each walk that every account it matched from the start and
that lies before its cursor has been counted once, and none beyond it
(`WalkOK`). `SmallestOf` and `LastOf` find the least and greatest of a finite set
of codes; `PageFacts` derives from them what a page is: the first accounts past
the cursor, nothing between them missing, and a cursor only when something
follows. Opening accounts only adds to the table, which is why walks survive it
(`WalksKept`). From `IInv`: `AlwaysOneOpenerPerCode`, `NeverAnsweredTwice` and
`WalksMissNothing`, for any number of codes, openers and walkers. `WalksMoveOn` is the
part of `EveryWalkEnds` that needs no fairness: a `next` is always past the one
before it, and codes are finite.

*LedgerCalls.* `CallsInv` is `LedgerSchema`'s `IInv` and, for each statement of a
call: which savepoints are open, under which name and over which work
(`StackOK`, `BackOK`: a rollback by name goes back to the work in `before`),
what of the call's work is still unchecked (`PendingOK`) and which constraints
are immediate (`DeferredOK`). One lemma per statement shows that it keeps this
and is an action of `LedgerSchema` or leaves its variables alone; so
`CallsImplementTheSchema`, by which `CallsKeepTheBooks` and `CallsKeepTheKeys` have the
schema's theorems for the calls as well. Also from it: `RefusedCallsNeverLeaveATrace`,
`RefusedOnceIsUsable`, `NothingIsLeftForCommit` and `ChecksAreAlwaysHandedBack`.

What a call answers rests on which legs are whose, of which `CallsInv` says
nothing. `WholeInv` does: a session has legs under its own entries only
(`OwnLegs`); as many are in, at each statement of a call, as the call has sent
(`PointOK`); and whatever a settled key names, in the tables, in a session's work or
in a savepoint's copy of it, has as many legs as the request under that key
(`RowWhole`). The copies are in it because a rollback brings them back; an entry
still getting its legs is named by no key, which is why a leg more makes no named
entry too long. A session that commits adds legs to no entry another session
holds or that is in the tables already (`MergeAddsNone`, from `Apart`), so what the
others have been answered stands (`CommitKeepsOthers`). From it:
`AnsweredCallsAlwaysStand`.

*Book.* `PostingsKeepToOneCurrency` speaks of committed legs only. `BookInv` says as
much of those a poster has not committed yet, that they are the first of its
request and that each could be written (`WroteOK`, `Fit`), and that a refusal is
true of its request and of the chart as it stands (`Due`), before the second look and
after it. Accounts are only ever
opened, so nothing said of one stops being so. From it:
`PostingsAlwaysKeepToOneCurrency` and `TheLegRefusedIsAlwaysAtFault`.

`LegsInv`, on top of it, is of whole entries. A list of a set of rows (`Lists`) is
one that takes their ids in increasing order; a poster's rows are listed as the
legs of its request, as far as it has come, and since the sequence never goes back
the next leg goes to the end. A committed entry's rows are listed as all its legs,
and they balance (`Holds`, `TablesOK`); the same is so of every snapshot a reader has
taken. A list is unique, and `InWrittenOrder` makes
it (`EntryIsListed`), so what is read back is what was sent. From it:
`CreatedIsAlwaysReadBack`, `UnbalancedAlwaysSaysHowFar`, and with
lemmas on what a body's faults are, `NothingUnreadIsEverPosted` and
`OnePassAlwaysMendsABody`.

`ReadsAlwaysTellOfOneBook` is the refinement: the book `OneBook` speaks of is the
tables read as entries (`BookOf`), a poster's commit puts one whole entry in, and an
answer is `OneBook`'s about the book the reader's first statement met. The rows of
`postings` and the places in the book's entries correspond one to one
(`RowsAreLegs`), so a balance, a side of the trial balance or a count over one is
the same over the other. `BookAlwaysTypeOK` is in the same module, because the type of an
answer rests on that of the entries it is made of: `AnswersInv` adds that a reader was
answered what it asked, and after it had looked, and a sum of legs is an integer
(`AmountsInt`) however wide.

*SumLemmas.* A sum over a finite set is defined by recursion, in the order CHOOSE
takes the elements in. The library's induction over finite sets takes an operator
and cannot be cited; `SmallestPart` is used in its place (a smallest part without
the property, from the well-foundedness of strict inclusion). From it: a sum is an
integer, splits over two disjoint parts, does not change under a bijection, and is
the number of elements when each counts one.

*Service.* `IInv` says that the advisory lock is held by one session, which may be
that of a process already gone (`OneAtATime`); that a replica past the lock knows
whether the tables are there (`StartOK`); and that a connection is open only on a
process that is up, at work no longer than its budget, and cut off only by a
process that gave up (`CarryOK`). What `DrainsCutOnlyLateWork` promises is of
handlers: one at work when the signal came has ended before a drain no shorter
than its budget does. It does not promise that the client has the answer by then.
From it: `ReplicasNeverCollide`, `SchemaIsAppliedByOne`, `ListenersHaveTheSchema`,
`QuietStopsAreClean` and `DrainsCutOnlyLateWork`.

Only model-checked: `EverythingIsLetGo`, `EveryWalkEnds`, `EveryReplicaComesUp` and
`EverySignalIsObeyed`, since liveness is out of the prover's reach. Every invariant,
action property and refinement that a passing run checks is a theorem. What
TLC's runs add to those is that the interesting cases happen, the mutants that
break each property, and the four sentences the code does not keep. Type
correctness of the modules whose runs do not name it is proved as well
(`TypeCorrect`, `CallsTypeCorrect`, and as a part of each `IInv`).

## Plan

The order the modules were written in, each composed with those before it, was
`LedgerSchema`; `RetryPromise` and `RetryContract`; `Chart`; `LedgerCalls` over
`LedgerSchema`; `RequestBody`, `OneBook` and `Book`; `Service`. All are done. What
would come next: the refusals of malformed queries in `accounts` and of a
malformed account; `-idle-timeout` and the length of `-acquire-timeout`, once something
rests on them; the
count of `MaxPostings` against the schema's own rows in one module.

## Not modelled

* The negative controls (`tools/controls`), the test database (`internal/testdb`)
  and the documentation link: tools and support, no part of the running system.
* The text of json: what is well formed is left to `encoding/json`, and the wording
  and remaining fields of refusals, logging, usage and subcommands to the tests.
* Refusals of malformed queries and kinds, which read no state.
* A database that loses its tables while the service runs. `Service` assumes a
  durable one; the compose file's is on a `tmpfs`, and a replica does not apply
  the schema again until it is restarted.
* The races inside `net/http`: `Shutdown` closing a connection it has just counted
  idle, on which a request arrives at that moment. `Service` has the contract of
  `Shutdown`, and a request on its way (`waiting`) is not one it has begun.
* `-idle-timeout`, on which no property rests.
* A `-request-timeout` longer than the drain is modelled; `OnlyLateWorkIsCut` says
  nothing of it, since the drain then gives up on work begun in time.

PostgreSQL, `database/sql` and `net/http` are modelled as `src/` uses them; the
map marks them external.
