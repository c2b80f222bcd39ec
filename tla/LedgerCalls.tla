---------------------------- MODULE LedgerCalls ----------------------------
(***************************************************************************)
(* internal/ledger: Once and Post, statement by statement, inside a        *)
(* caller's transaction at READ COMMITTED.  Every statement is one of      *)
(* LedgerSchema's, and any of them may be refused; what this module adds   *)
(* is which comes next, which savepoint an error goes back to, and what    *)
(* the caller is left holding.                                             *)
(*                                                                         *)
(* Pool.Write makes one call in a transaction; the library promises its    *)
(* callers a usable transaction after a refusal, so a caller here may go   *)
(* on to another call, or may have asked for early checks before it.       *)
(***************************************************************************)
EXTENDS LedgerSchema, Sequences

CONSTANT LegsOf   \* the legs of each request, one batch for each statement

\* A leg is a statement of its own.
ASSUME CallsAssumption ==
    /\ LegsOf \in [Hashes -> Seq({b \in Batches : b[1] = 1})]
    /\ \A h \in Hashes : Len(LegsOf[h]) <= MaxLegs
    /\ {{TxnCheck, QueueCheck}, {KeyCheck}, Constraints} \subseteq Asks

VARIABLES
    at,       \* the statement a session's call sends next, or "caller"
    call,     \* the call: its function, key, request, entry and legs sent
    name,     \* the names of the open savepoints
    outcome,  \* what the call has come to so far
    before    \* history: the work the call began with

callVars == <<at, call, name, outcome, before>>
allVars == <<vars, callVars>>

Labels == {"caller", "once:savepoint", "once:defer", "reserve", "settle", "once:ask",
           "once:redefer", "once:release", "once:rollback", "replay", "replay:release",
           "post:savepoint", "post:defer", "insert", "legs", "ask", "post:redefer",
           "post:release", "post:rollback", "explain"}

\* "taken": the reservation met 23505.  "refused": by a rule of the schema, or on a
\* statement one might have refused.  "failed": any other statement was cut short.
Outcomes == {"done", "taken", "replayed", "reused", "gone", "unsettled", "refused", "failed"}

Calls == [fn : {"once", "post"}, key : Keys, hash : Hashes, txn : Txns \cup {NoTxn}, sent : 0..MaxLegs]

NoCall == [fn |-> "none", key |-> NoKey, hash |-> NoKey, txn |-> NoTxn, sent |-> 0]
NoNames == [d \in 1..Depth |-> "none"]

CallsTypeOK ==
    /\ TypeOK
    /\ at \in [Sessions -> Labels]
    /\ call \in [Sessions -> Calls \cup {NoCall}]
    /\ name \in [Sessions -> [1..Depth -> {"none", "once", "post"}]]
    /\ outcome \in [Sessions -> Outcomes]
    /\ before \in [Sessions -> Work]

CallsInit ==
    /\ Init
    /\ at = [s \in Sessions |-> "caller"]
    /\ call = [s \in Sessions |-> NoCall]
    /\ name = [s \in Sessions |-> NoNames]
    /\ outcome = [s \in Sessions |-> "done"]
    /\ before = [s \in Sessions |-> NoWork]

-----------------------------------------------------------------------------
(* How a statement of a call ends.                                         *)

\* A second SAVEPOINT of the same name hides the first.
Last(s, n) ==
    CHOOSE d \in 1..depth[s] : name[s][d] = n /\ \A e \in d+1..depth[s] : name[s][e] # n

\* The statements a rule of the schema can refuse; the others fail only if cut short.
Refusable == {"reserve", "insert", "legs", "ask", "settle", "once:ask"}

\* The statement sent at "here" goes on to "next", or its error to "handler".
Sends(s, here, Statement, next, handler) ==
    /\ at[s] = here
    /\ Statement \/ StatementRefused(s)
    /\ at' = [at EXCEPT ![s] = IF st'[s] = "open" THEN next ELSE handler]
    /\ outcome' = [outcome EXCEPT ![s] = IF st'[s] = "open" THEN @
                                         ELSE IF here \in Refusable THEN "refused"
                                         ELSE "failed"]
    /\ UNCHANGED before

\* SAVEPOINT n.
Saves(s, here, n, next, handler) ==
    /\ Sends(s, here, Savepoint(s), next, handler)
    /\ name' = [name EXCEPT ![s] = [d \in 1..Depth |-> IF d = depth[s] + 1 THEN n ELSE @[d]]]
    /\ UNCHANGED call

Goes(s, here, Statement, next, handler) ==
    Sends(s, here, Statement, next, handler) /\ UNCHANGED <<call, name>>

\* RELEASE SAVEPOINT n.
Releases(s, here, n, next, handler) ==
    /\ Sends(s, here, Release(s, Last(s, n)), next, handler)
    /\ name' = [name EXCEPT ![s] = [d \in 1..Depth |-> IF d <= depth'[s] THEN @[d] ELSE "none"]]
    /\ UNCHANGED call

\* ROLLBACK TO SAVEPOINT n keeps n itself open.
GoesBackTo(s, here, n, next) ==
    /\ at[s] = here
    /\ RollbackTo(s, Last(s, n))
    /\ at' = [at EXCEPT ![s] = next]
    /\ name' = [name EXCEPT ![s] = [d \in 1..Depth |-> IF d <= depth'[s] THEN @[d] ELSE "none"]]
    /\ UNCHANGED <<call, outcome, before>>

-----------------------------------------------------------------------------
(* Post.                                                                   *)

\* balanceConstraints; settledConstraint is KeyCheck.
BalanceChecks == {TxnCheck, QueueCheck}

\* Where an error of Post goes: to Once, which rolls back, or to the caller.
Raised(s) == IF call[s].fn = "once" THEN "once:rollback" ELSE "caller"

PostSaves(s) == Saves(s, "post:savepoint", "post", "post:defer", Raised(s))

\* An earlier SET CONSTRAINTS could have left these immediate.
PostDefers(s) ==
    Goes(s, "post:defer", SetDeferred(s, BalanceChecks), "insert", "post:rollback")

NextLeg(s, sent) == IF sent < Len(LegsOf[call[s].hash]) THEN "legs" ELSE "ask"

InsertsEntry(s) ==
    \E t \in Txns :
        /\ Sends(s, "insert", InsertTransaction(s, t), NextLeg(s, 0), "post:rollback")
        /\ call' = IF st'[s] = "open" THEN [call EXCEPT ![s].txn = t] ELSE call
        /\ UNCHANGED name

InsertsLeg(s) ==
    LET sent == call[s].sent + 1 IN
    /\ at[s] = "legs"
    /\ Sends(s, "legs", InsertPostings(s, call[s].txn, LegsOf[call[s].hash][sent]),
             NextLeg(s, sent), "post:rollback")
    /\ call' = IF st'[s] = "open" THEN [call EXCEPT ![s].sent = sent] ELSE call
    /\ UNCHANGED name

\* Mutant: the balance is left to COMMIT.
AsksLater(s) == Goes(s, "ask", SetDeferred(s, BalanceChecks), "post:redefer", "post:rollback")

\* Ask now, not at COMMIT.
AsksNow(s) == Goes(s, "ask", SetImmediate(s, BalanceChecks), "post:redefer", "post:rollback")

\* Mutant: the checks stay immediate.
PostLeavesThemImmediate(s) ==
    Goes(s, "post:redefer", SetImmediate(s, BalanceChecks), "post:release", "post:rollback")

PostRedefers(s) ==
    Goes(s, "post:redefer", SetDeferred(s, BalanceChecks), "post:release", "post:rollback")

PostReleases(s) ==
    Releases(s, "post:release", "post",
             IF call[s].fn = "once" THEN "settle" ELSE "caller", Raised(s))

PostRollsBack(s) == GoesBackTo(s, "post:rollback", "post", "explain")

\* Only a currency mismatch is looked up again.  A lookup that fails answers the
\* refusal all the same, over a transaction that is aborted once more.
Explains(s) ==
    /\ at[s] = "explain"
    /\ UNCHANGED vars \/ StatementRefused(s)
    /\ at' = [at EXCEPT ![s] = Raised(s)]
    /\ UNCHANGED <<call, name, outcome, before>>

-----------------------------------------------------------------------------
(* Once.                                                                   *)

OnceSaves(s) == Saves(s, "once:savepoint", "once", "once:defer", "caller")

OnceDefers(s) == Goes(s, "once:defer", SetDeferred(s, {KeyCheck}), "reserve", "caller")

\* Mutant: an upsert, which neither waits for the holder nor minds the row.
Upserts(s) ==
    /\ at[s] = "reserve"
    /\ st[s] = "open"
    /\ EndStatement(s, [work[s] EXCEPT !.keys[call[s].key] = [hash |-> call[s].hash, txn |-> NoTxn],
                                       !.kdue = @ \cup {call[s].key}])
    /\ at' = [at EXCEPT ![s] = "post:savepoint"]
    /\ UNCHANGED <<call, name, outcome, before>>

Reserves(s) ==
    Goes(s, "reserve", ReserveKey(s, call[s].key, call[s].hash), "post:savepoint", "once:rollback")

\* 23505: a committed row, or one this transaction holds already.
MeetsTheKey(s) ==
    /\ at[s] = "reserve"
    /\ st[s] = "open"
    /\ NobodyElseHolds(s, call[s].key)
    /\ KeyRow(Seen(s), work[s], call[s].key) # NoKey
    /\ Refuse(s)
    /\ at' = [at EXCEPT ![s] = "once:rollback"]
    /\ outcome' = [outcome EXCEPT ![s] = "taken"]
    /\ UNCHANGED <<call, name, before>>

\* Mutant: an error returned without going back to the savepoint.
SettlesOrReturns(s) ==
    Goes(s, "settle", UpdateKey(s, call[s].key, call[s].hash, call[s].txn),
         "once:ask", "caller")

Settles(s) ==
    Goes(s, "settle", UpdateKey(s, call[s].key, call[s].hash, call[s].txn),
         "once:ask", "once:rollback")

OnceAsks(s) == Goes(s, "once:ask", SetImmediate(s, {KeyCheck}), "once:redefer", "once:rollback")

OnceRedefers(s) ==
    Goes(s, "once:redefer", SetDeferred(s, {KeyCheck}), "once:release", "caller")

OnceReleases(s) == Releases(s, "once:release", "once", "caller", "caller")

\* Mutant: Once goes back to Post's savepoint.
RollsBackToPost(s) ==
    GoesBackTo(s, "once:rollback", IF \E d \in 1..depth[s] : name[s][d] = "post" THEN "post" ELSE "once",
               IF outcome[s] = "taken" THEN "replay" ELSE "caller")

\* rollbackToOnce, after which a refused claim replays and any other error returns.
OnceRollsBack(s) ==
    GoesBackTo(s, "once:rollback", "once", IF outcome[s] = "taken" THEN "replay" ELSE "caller")

\* Mutant: any request under the key is given its entry.
FoundWhateverTheHash(row, h) ==
    IF row = NoKey THEN "gone" ELSE IF row.txn = NoTxn THEN "unsettled" ELSE "replayed"

Found(row, h) ==
    IF row = NoKey          THEN "gone"
    ELSE IF row.hash # h    THEN "reused"
    ELSE IF row.txn = NoTxn THEN "unsettled"
    ELSE "replayed"

Replays(s) ==
    /\ at[s] = "replay"
    /\ LET row == KeyRow(Seen(s), work[s], call[s].key)
           found == Found(row, call[s].hash)
       IN \/ /\ st[s] = "open"
             /\ UNCHANGED vars
             /\ at' = [at EXCEPT ![s] = "replay:release"]
             /\ outcome' = [outcome EXCEPT ![s] = found]
             /\ call' = IF found = "replayed" THEN [call EXCEPT ![s].txn = row.txn] ELSE call
          \/ /\ StatementRefused(s)
             /\ at' = [at EXCEPT ![s] = "caller"]
             /\ outcome' = [outcome EXCEPT ![s] = "failed"]
             /\ UNCHANGED call
    /\ UNCHANGED <<name, before>>

ReplayReleases(s) ==
    Releases(s, "replay:release", "once", "caller", "caller")

-----------------------------------------------------------------------------
(* The caller.                                                             *)

\* The last call is over and done with.
Forgets(s) ==
    /\ call' = [call EXCEPT ![s] = NoCall]
    /\ outcome' = [outcome EXCEPT ![s] = "done"]
    /\ before' = [before EXCEPT ![s] = NoWork]

CallerBegins(s) ==
    /\ at[s] = "caller"
    /\ Begin(s, "read committed")
    /\ UNCHANGED callVars

\* Bounded by the savepoints left: a refused call leaves one behind.
Enters(s, f, k, h) ==
    /\ at[s] = "caller"
    /\ st[s] = "open"
    /\ depth[s] + 2 <= Depth
    /\ at' = [at EXCEPT ![s] = IF f = "once" THEN "once:savepoint" ELSE "post:savepoint"]
    /\ call' = [call EXCEPT ![s] = [fn |-> f, key |-> k, hash |-> h, txn |-> NoTxn, sent |-> 0]]
    /\ outcome' = [outcome EXCEPT ![s] = "done"]
    /\ before' = [before EXCEPT ![s] = work[s]]
    /\ UNCHANGED <<vars, name>>

\* SET CONSTRAINTS ALL IMMEDIATE before the first call, which the calls may find in force.
CallerAsks(s) ==
    /\ at[s] = "caller"
    /\ call[s] = NoCall
    /\ SetImmediate(s, Constraints)
    /\ UNCHANGED callVars

CallerEnds(s) ==
    /\ at[s] = "caller"
    /\ Commit(s) \/ Rollback(s)
    /\ Forgets(s)
    /\ name' = [name EXCEPT ![s] = NoNames]
    /\ UNCHANGED at

\* The connection or the server goes in the middle of a call.
ConnectionLost(s) ==
    /\ at[s] # "caller"
    /\ Rollback(s)
    /\ at' = [at EXCEPT ![s] = "caller"]
    /\ Forgets(s)
    /\ name' = [name EXCEPT ![s] = NoNames]

PostStep(s) ==
    \/ PostSaves(s) \/ PostDefers(s) \/ InsertsEntry(s) \/ InsertsLeg(s) \/ AsksNow(s)
    \/ PostRedefers(s) \/ PostReleases(s) \/ PostRollsBack(s) \/ Explains(s)

OnceStep(s) ==
    \/ OnceSaves(s) \/ OnceDefers(s) \/ Reserves(s) \/ MeetsTheKey(s) \/ Settles(s)
    \/ OnceAsks(s) \/ OnceRedefers(s) \/ OnceReleases(s) \/ OnceRollsBack(s)
    \/ Replays(s) \/ ReplayReleases(s)

CallerStep(s) ==
    \/ CallerBegins(s) \/ CallerAsks(s) \/ CallerEnds(s) \/ ConnectionLost(s)
    \/ \E f \in {"once", "post"}, k \in Keys, h \in Hashes : Enters(s, f, k, h)

CallsNext == \E s \in Sessions : PostStep(s) \/ OnceStep(s) \/ CallerStep(s)

CallsSpec == CallsInit /\ [][CallsNext]_allVars

-----------------------------------------------------------------------------
(* Properties.                                                             *)

Returned(s) == at[s] = "caller" /\ st[s] = "open"

\* Whatever Once and Post do is something the schema was checked against: the waits, the
\* savepoints and the modes included.
CallsKeepTheSchema == Spec

\* A call that made no entry leaves nothing behind: rows, pending checks and constraint
\* modes are the ones it found, whichever statement of it went wrong.
RefusedCallsLeaveNoTrace ==
    \A s \in Sessions : Returned(s) /\ outcome[s] # "done" => work[s] = before[s]

\* "The caller's transaction is left usable either way", Once says of its refusals.  Post
\* on its own cannot promise as much: explain's lookup may be cut short after the rollback.
RefusedOnceLeavesTheTransactionUsable ==
    \A s \in Sessions :
        at[s] = "caller" /\ call[s].fn = "once" /\ outcome[s] \in {"refused", "reused", "replayed"}
            => st[s] = "open"

\* Between calls nothing is left for COMMIT to refuse: whatever order calls succeeded,
\* failed and were replayed in, an unbalanced entry or an unsettled key failed its call.
NothingLeftForCommit ==
    \A s \in Sessions : Returned(s) => Passes(Seen(s), work[s], Constraints)

\* The entry a call answers is there, whole, and under the key the caller claimed.
AnsweredCallsStand ==
    \A s \in Sessions :
        LET t == call[s].txn IN
        Returned(s) /\ t # NoTxn /\ outcome[s] \in {"done", "replayed"} =>
            /\ t \in db.txns \cup work[s].txns
            /\ db.legs[t] + work[s].legs[t] = Len(LegsOf[call[s].hash])
            /\ call[s].fn = "once" =>
                KeyRow(db, work[s], call[s].key) = [hash |-> call[s].hash, txn |-> t]

\* A call that succeeds hands its constraints back deferred, so the next call's rows
\* are not checked before they are all there.
ChecksAreHandedBackDeferred ==
    \A s \in Sessions :
        Returned(s) /\ outcome[s] = "done" /\ call[s].txn # NoTxn =>
            /\ work[s].immediate \cap BalanceChecks = {}
            /\ call[s].fn = "once" => KeyCheck \notin work[s].immediate
=============================================================================
