---------------------------- MODULE LedgerSchema ----------------------------
(***************************************************************************)
(* internal/schema/0001_ledger.sql: the rules the database itself keeps,   *)
(* against any number of sessions that insert entries, legs and            *)
(* idempotency keys in any order, at either isolation level, with          *)
(* savepoints, and with the deferred checks asked early, late or not at    *)
(* all.                                                                    *)
(*                                                                         *)
(* A session's uncommitted rows are a delta (its "work") over the          *)
(* committed tables.  A savepoint keeps a copy of the work, the pending    *)
(* trigger events and the constraint modes included: rolling back to it    *)
(* restores all three, as PostgreSQL does.                                 *)
(*                                                                         *)
(* A leg is abstracted to what the check reads of it: how many legs an     *)
(* entry has and what they sum to.                                         *)
(***************************************************************************)
EXTENDS Integers

CONSTANTS
    Sessions,   \* database sessions, each running one transaction at a time
    Txns,       \* ids a row of transactions may get
    Keys,       \* idempotency keys
    Hashes,     \* request fingerprints
    Batches,    \* <<number of legs, their sum>> one INSERT INTO postings may carry
    Asks,       \* the lists of constraints a SET CONSTRAINTS may name
    Depth,      \* bound: savepoints open at once in a session
    MaxLegs,    \* bound: legs an entry has, committed or not
    NoTxn,      \* a NULL transaction_id
    NoKey       \* no row under a key

KeyRows == [hash : Hashes, txn : Txns \cup {NoTxn}]

TxnCheck   == "transactions_must_balance"
QueueCheck == "balance_checks_must_balance"
KeyCheck   == "idempotency_keys_must_be_settled"
Constraints == {TxnCheck, QueueCheck, KeyCheck}

\* amount_minor <> 0: a single leg never sums to zero.
ASSUME BatchAssumption ==
    /\ Batches \subseteq (Nat \ {0}) \X Int
    /\ \A b \in Batches : b[1] = 1 => b[2] # 0

ASSUME AskAssumption == Asks \subseteq SUBSET Constraints

ASSUME BoundAssumption == Depth \in Nat /\ MaxLegs \in Nat

ASSUME NullAssumption == NoTxn \notin Txns /\ NoKey \notin KeyRows

VARIABLES
    db,      \* the committed tables
    st,      \* each session: no transaction, one open, or one that must roll back
    level,   \* the isolation level of each session's transaction
    snap,    \* the tables as a repeatable-read session's snapshot holds them
    work,    \* each session's uncommitted rows, pending events and modes
    saved,   \* the work each savepoint would restore
    depth    \* how many savepoints each session has open

vars == <<db, st, level, snap, work, saved, depth>>

Levels == {"read committed", "repeatable read"}

Tables == [txns  : SUBSET Txns,
           legs  : [Txns -> Nat],
           net   : [Txns -> Int],
           queue : SUBSET Txns,
           keys  : [Keys -> KeyRows \cup {NoKey}]]

\* due, qdue, kdue: rows whose deferred trigger event has yet to fire.
\* touched: keys this transaction inserted, whether or not it gave them up.
\* immediate: the constraints SET CONSTRAINTS has made immediate.
Work == [txns      : SUBSET Txns,
         legs      : [Txns -> Nat],
         net       : [Txns -> Int],
         queue     : SUBSET Txns,
         keys      : [Keys -> KeyRows \cup {NoKey}],
         touched   : SUBSET Keys,
         due       : SUBSET Txns,
         qdue      : SUBSET Txns,
         kdue      : SUBSET Keys,
         immediate : SUBSET Constraints]

NoRows == [txns |-> {}, legs |-> [t \in Txns |-> 0], net |-> [t \in Txns |-> 0],
           queue |-> {}, keys |-> [k \in Keys |-> NoKey]]

NoWork == [txns |-> {}, legs |-> [t \in Txns |-> 0], net |-> [t \in Txns |-> 0],
           queue |-> {}, keys |-> [k \in Keys |-> NoKey], touched |-> {},
           due |-> {}, qdue |-> {}, kdue |-> {}, immediate |-> {}]

TypeOK ==
    /\ db \in Tables
    /\ st \in [Sessions -> {"idle", "open", "aborted"}]
    /\ level \in [Sessions -> Levels]
    /\ snap \in [Sessions -> Tables]
    /\ work \in [Sessions -> Work]
    /\ saved \in [Sessions -> [1..Depth -> Work]]
    /\ depth \in [Sessions -> 0..Depth]

Init ==
    /\ db = NoRows
    /\ st = [s \in Sessions |-> "idle"]
    /\ level = [s \in Sessions |-> "read committed"]
    /\ snap = [s \in Sessions |-> NoRows]
    /\ work = [s \in Sessions |-> NoWork]
    /\ saved = [s \in Sessions |-> [d \in 1..Depth |-> NoWork]]
    /\ depth = [s \in Sessions |-> 0]

-----------------------------------------------------------------------------
(* What a statement of a session reads.                                    *)

\* READ COMMITTED reads what is committed now; REPEATABLE READ its snapshot.
Seen(s) == IF level[s] = "repeatable read" THEN snap[s] ELSE db

KeyRow(tables, w, k) == IF w.keys[k] # NoKey THEN w.keys[k] ELSE tables.keys[k]

\* Mutant: an entry with no legs nets to zero and passes.
BalancedWithoutLegs(tables, w, t) == tables.net[t] + w.net[t] = 0

\* assert_transaction_balances: LB001 for an entry with no legs or legs that do not cancel.
Balanced(tables, w, t) ==
    /\ tables.legs[t] + w.legs[t] # 0
    /\ tables.net[t] + w.net[t] = 0

\* Mutant: the deferred trigger is gone.
SettledUnasked(tables, w, k) == TRUE

\* Mutant: the trigger refuses a row it cannot read back.
SettledOrNothing(tables, w, k) ==
    KeyRow(tables, w, k) # NoKey /\ KeyRow(tables, w, k).txn # NoTxn

\* idempotency_key_names_a_transaction: it reads the row back, so a reservation
\* given up passes and one settled since passes; LB003 for one left unsettled.
Settled(tables, w, k) ==
    KeyRow(tables, w, k) # NoKey => KeyRow(tables, w, k).txn # NoTxn

\* Every pending event of the constraints in C would pass.
Passes(tables, w, C) ==
    /\ TxnCheck \in C => \A t \in w.due : Balanced(tables, w, t)
    /\ QueueCheck \in C => \A t \in w.qdue : Balanced(tables, w, t)
    /\ KeyCheck \in C => \A k \in w.kdue : Settled(tables, w, k)

\* Mutant: the check leaves its row behind.
QueueKept(w) == w.queue

\* queued_balance_check deletes the row it fired on.
QueueAfterCheck(w) == w.queue \ w.qdue

\* The events of C have fired.
Fired(w, C) ==
    [w EXCEPT !.due   = IF TxnCheck \in C THEN {} ELSE @,
              !.queue = IF QueueCheck \in C THEN QueueAfterCheck(w) ELSE @,
              !.qdue  = IF QueueCheck \in C THEN {} ELSE @,
              !.kdue  = IF KeyCheck \in C THEN {} ELSE @]

-----------------------------------------------------------------------------
(* How a statement ends.                                                   *)

\* An error undoes the statement's (sub)transaction at once and leaves the
\* session refusing everything but a rollback.
Refuse(s) ==
    /\ st' = [st EXCEPT ![s] = "aborted"]
    /\ work' = [work EXCEPT ![s] = IF depth[s] = 0 THEN NoWork ELSE saved[s][depth[s]]]
    /\ UNCHANGED <<db, level, snap, saved, depth>>

\* A statement that left w behind fires the events of the immediate constraints.
EndStatement(s, w) ==
    IF Passes(Seen(s), w, w.immediate)
    THEN /\ work' = [work EXCEPT ![s] = Fired(w, w.immediate)]
         /\ UNCHANGED <<db, st, level, snap, saved, depth>>
    ELSE Refuse(s)

EndTransaction(s) ==
    /\ st' = [st EXCEPT ![s] = "idle"]
    /\ level' = [level EXCEPT ![s] = "read committed"]
    /\ snap' = [snap EXCEPT ![s] = NoRows]
    /\ work' = [work EXCEPT ![s] = NoWork]
    /\ saved' = [saved EXCEPT ![s] = [d \in 1..Depth |-> NoWork]]
    /\ depth' = [depth EXCEPT ![s] = 0]

-----------------------------------------------------------------------------
(* Transactions and savepoints.                                            *)

\* BEGIN and the snapshot its first statement takes.
Begin(s, l) ==
    /\ st[s] = "idle"
    /\ st' = [st EXCEPT ![s] = "open"]
    /\ level' = [level EXCEPT ![s] = l]
    /\ snap' = [snap EXCEPT ![s] = IF l = "repeatable read" THEN db ELSE NoRows]
    /\ UNCHANGED <<db, work, saved, depth>>

Savepoint(s) ==
    /\ st[s] = "open"
    /\ depth[s] < Depth
    /\ depth' = [depth EXCEPT ![s] = @ + 1]
    /\ saved' = [saved EXCEPT ![s][depth[s] + 1] = work[s]]
    /\ UNCHANGED <<db, st, level, snap, work>>

\* The savepoint itself survives, the ones after it do not.
RollbackTo(s, d) ==
    /\ st[s] \in {"open", "aborted"}
    /\ d \in 1..depth[s]
    /\ st' = [st EXCEPT ![s] = "open"]
    /\ work' = [work EXCEPT ![s] = saved[s][d]]
    /\ saved' = [saved EXCEPT ![s] = [i \in 1..Depth |-> IF i <= d THEN @[i] ELSE NoWork]]
    /\ depth' = [depth EXCEPT ![s] = d]
    /\ UNCHANGED <<db, level, snap>>

Release(s, d) ==
    /\ st[s] = "open"
    /\ d \in 1..depth[s]
    /\ saved' = [saved EXCEPT ![s] = [i \in 1..Depth |-> IF i < d THEN @[i] ELSE NoWork]]
    /\ depth' = [depth EXCEPT ![s] = d - 1]
    /\ UNCHANGED <<db, st, level, snap, work>>

\* Any statement may be refused: a CHECK, a foreign or unique key, reject_mutation
\* (LB002) for every UPDATE, DELETE and TRUNCATE of entries and legs,
\* idempotency_record_is_final (LB004), a cancel, a deadlock.
StatementRefused(s) == st[s] = "open" /\ Refuse(s)

\* SET CONSTRAINTS ... IMMEDIATE asks now what is pending.
SetImmediate(s, C) ==
    /\ st[s] = "open"
    /\ EndStatement(s, [work[s] EXCEPT !.immediate = @ \cup C])

SetDeferred(s, C) ==
    /\ st[s] = "open"
    /\ EndStatement(s, [work[s] EXCEPT !.immediate = @ \ C])

-----------------------------------------------------------------------------
(* Entries and legs.                                                       *)

\* gen_random_uuid never answers an id that is held anywhere.
Fresh(t) == t \notin db.txns /\ \A s \in Sessions : t \notin work[s].txns

InsertTransaction(s, t) ==
    /\ st[s] = "open"
    /\ Fresh(t)
    /\ EndStatement(s, [work[s] EXCEPT !.txns = @ \cup {t}, !.due = @ \cup {t}])

\* queue_a_balance_check: ON CONFLICT DO NOTHING, so a row already there, committed or
\* this session's own, queues nothing and no event fires for it.
QueueCheckOf(w, t) ==
    IF t \in db.queue \cup w.queue
    THEN w
    ELSE [w EXCEPT !.queue = @ \cup {t}, !.qdue = @ \cup {t}]

\* Legs may be added to an entry long committed.  The insert into balance_checks
\* waits for any other session that queued the same entry and has not ended.
InsertPostings(s, t, b) ==
    /\ st[s] = "open"
    /\ t \in Seen(s).txns \cup work[s].txns
    /\ \A o \in Sessions \ {s} : work[o].legs[t] = 0
    /\ db.legs[t] + work[s].legs[t] + b[1] <= MaxLegs
    /\ EndStatement(s, QueueCheckOf([work[s] EXCEPT !.legs[t] = @ + b[1],
                                                    !.net[t]  = @ + b[2]], t))

-----------------------------------------------------------------------------
(* Idempotency keys.                                                       *)

\* The primary key: an insert waits for another session's row under the key.
NobodyElseHolds(s, k) == \A o \in Sessions \ {s} : k \notin work[o].touched

ReserveKey(s, k, h) ==
    /\ st[s] = "open"
    /\ NobodyElseHolds(s, k)
    /\ db.keys[k] = NoKey
    /\ work[s].keys[k] = NoKey
    /\ EndStatement(s, [work[s] EXCEPT !.keys[k] = [hash |-> h, txn |-> NoTxn],
                                       !.touched = @ \cup {k},
                                       !.kdue = @ \cup {k}])

\* Mutant: the trigger is gone.
MayUpdateAnything(old, h) == TRUE

\* idempotency_record_is_final lets through only an unsettled row and the same fingerprint.
MayUpdate(old, h) == old.txn = NoTxn /\ h = old.hash

\* UPDATE idempotency_keys, to an entry the session can see or to NULL again.
UpdateKey(s, k, h, t) ==
    /\ st[s] = "open"
    /\ NobodyElseHolds(s, k)
    /\ KeyRow(Seen(s), work[s], k) # NoKey
    /\ MayUpdate(KeyRow(Seen(s), work[s], k), h)
    /\ t \in Seen(s).txns \cup work[s].txns \cup {NoTxn}
    /\ EndStatement(s, [work[s] EXCEPT !.keys[k] = [hash |-> h, txn |-> t],
                                       !.touched = @ \cup {k},
                                       !.kdue = @ \cup {k}])

\* A reservation given up.  No statement of the program deletes a committed key.
GiveUpKey(s, k) ==
    /\ st[s] = "open"
    /\ work[s].keys[k] # NoKey
    /\ EndStatement(s, [work[s] EXCEPT !.keys[k] = NoKey])

-----------------------------------------------------------------------------
(* The end of a transaction.                                               *)

\* What the tables hold once w is committed.
Merge(tables, w) ==
    [txns  |-> tables.txns \cup w.txns,
     legs  |-> [t \in Txns |-> tables.legs[t] + w.legs[t]],
     net   |-> [t \in Txns |-> tables.net[t] + w.net[t]],
     queue |-> tables.queue \cup w.queue,
     keys  |-> [k \in Keys |-> KeyRow(tables, w, k)]]

\* COMMIT fires every event still pending; one that raises rolls everything back.
Commit(s) ==
    /\ st[s] = "open"
    /\ EndTransaction(s)
    /\ IF Passes(Seen(s), work[s], Constraints)
       THEN db' = Merge(db, Fired(work[s], Constraints))
       ELSE UNCHANGED db

\* ROLLBACK, COMMIT of an aborted transaction, a lost connection, a server restart.
Rollback(s) ==
    /\ st[s] # "idle"
    /\ EndTransaction(s)
    /\ UNCHANGED db

Next ==
    \E s \in Sessions :
        \/ \E l \in Levels : Begin(s, l)
        \/ Savepoint(s)
        \/ \E d \in 1..Depth : RollbackTo(s, d) \/ Release(s, d)
        \/ StatementRefused(s)
        \/ \E C \in Asks : SetImmediate(s, C) \/ SetDeferred(s, C)
        \/ \E t \in Txns : InsertTransaction(s, t)
        \/ \E t \in Txns, b \in Batches : InsertPostings(s, t, b)
        \/ \E k \in Keys, h \in Hashes : ReserveKey(s, k, h)
        \/ \E k \in Keys, h \in Hashes, t \in Txns \cup {NoTxn} : UpdateKey(s, k, h, t)
        \/ \E k \in Keys : GiveUpKey(s, k)
        \/ Commit(s)
        \/ Rollback(s)

Spec == Init /\ [][Next]_vars

-----------------------------------------------------------------------------
(* Properties.                                                             *)

\* Every committed entry has at least two legs and they cancel, and no leg belongs to
\* no entry: "a transaction needs at least two postings summing to zero", whatever
\* order the legs, the early checks, the rollbacks and the other sessions came in.
BookBalances ==
    \A t \in Txns :
        /\ db.net[t] = 0
        /\ IF t \in db.txns THEN db.legs[t] >= 2 ELSE db.legs[t] = 0

\* balance_checks: "nothing here outlives its transaction".  A row that did would make
\* every later leg of its entry go unchecked.
NoCheckOutlivesItsTransaction == db.queue = {}

\* A committed key names a committed transaction: the answer a retry is given exists.
KeysNameTransactions ==
    \A k \in Keys : db.keys[k] # NoKey => db.keys[k].txn \in db.txns

\* The first result under a key is the only result: no commit, update or race of two
\* sessions changes a committed record.
KeyRecordsAreFinal ==
    [][\A k \in Keys : db.keys[k] # NoKey => db'.keys[k] = db.keys[k]]_vars

\* Work whose entries cancel and whose keys are settled or given up.
Honest(w) ==
    /\ \A t \in Txns : w.net[t] = 0
    /\ \A t \in w.txns : w.legs[t] > 0
    /\ \A k \in Keys : w.keys[k] # NoKey => w.keys[k].txn # NoTxn

\* The checks refuse nothing they should not: honest work passes at COMMIT and at any
\* early ask, at either isolation level, whatever the other sessions committed meanwhile.
HonestWorkPasses ==
    \A s \in Sessions :
        st[s] = "open" /\ Honest(work[s]) => Passes(Seen(s), work[s], Constraints)

-----------------------------------------------------------------------------
(* The inductive invariant the proofs use.                                 *)

\* Tables every check has passed on.
TablesOK(tables) ==
    /\ \A t \in Txns :
        /\ tables.net[t] = 0
        /\ IF t \in tables.txns THEN tables.legs[t] >= 2 ELSE tables.legs[t] = 0
    /\ tables.queue = {}
    /\ \A k \in Keys : tables.keys[k] # NoKey => tables.keys[k].txn \in tables.txns

\* Whatever is still wrong with uncommitted work has an event pending to catch it.
EntriesCaught(tables, w) ==
    /\ w.due \subseteq w.txns
    /\ w.txns \cap tables.txns = {}
    /\ w.queue \subseteq w.qdue
    /\ \A t \in Txns :
        /\ w.legs[t] = 0 => w.net[t] = 0 /\ t \notin w.qdue
        /\ w.legs[t] = 1 => w.net[t] # 0
        /\ w.net[t] # 0 => t \in w.qdue
        /\ w.legs[t] # 0 => t \in tables.txns \cup w.txns
        /\ t \in w.txns => t \in w.due \/ w.legs[t] # 0

KeysCaught(tables, w) ==
    \A k \in Keys :
        w.keys[k] # NoKey =>
            /\ k \in w.touched
            /\ tables.keys[k] = NoKey
            /\ w.keys[k].txn = NoTxn => k \in w.kdue
            /\ w.keys[k].txn # NoTxn => w.keys[k].txn \in tables.txns \cup w.txns

WorkOK(tables, w) == EntriesCaught(tables, w) /\ KeysCaught(tables, w)

\* Work w holds every row and key that the earlier work v does.
Covers(w, v) == v.txns \subseteq w.txns /\ v.touched \subseteq w.touched

\* No two sessions hold the same new entry or the same key.
Apart(w, v) == w.txns \cap v.txns = {} /\ w.touched \cap v.touched = {}

SnapshotOK(s) == TablesOK(snap[s]) /\ snap[s].txns \subseteq db.txns

SavepointsOK(s) ==
    \A d \in 1..depth[s] :
        /\ WorkOK(db, saved[s][d])
        /\ Covers(work[s], saved[s][d])
        /\ \A e \in d..depth[s] : Covers(saved[s][e], saved[s][d])

\* Uncommitted and saved work alike is caught, snapshots are of checked tables, and
\* sessions never hold one another's rows.
IInv ==
    /\ TypeOK
    /\ TablesOK(db)
    /\ \A s \in Sessions : SnapshotOK(s) /\ WorkOK(db, work[s]) /\ SavepointsOK(s)
    /\ \A s, o \in Sessions : s # o => Apart(work[s], work[o])
=============================================================================
