---------------------------- MODULE RetryContract ----------------------------
(***************************************************************************)
(* POST /v1/transactions from the request to the answer: a connection out  *)
(* of the pool, ledger.Once around ledger.Post in one transaction, the     *)
(* commit, the status the error is turned into, and the deadline that may  *)
(* answer first.  Any step may find the request's budget spent, the client *)
(* gone or the connection lost; the server ends what was left behind in    *)
(* its own time.  Attempts run concurrently and may share a key, so a      *)
(* retry is one more attempt, whether or not its first has ended.          *)
(*                                                                         *)
(* LedgerSchema models what the tables refuse; here an attempt's whole     *)
(* uncommitted work is the key it holds, and an entry is named for the     *)
(* attempt that wrote it.                                                  *)
(***************************************************************************)
EXTENDS RetryPromise, Naturals, FiniteSets

CONSTANTS
    Refusable,  \* bodies the ledger may refuse: unbalanced, an account not opened yet
    Malformed,  \* keys idempotency_keys_key_shape refuses
    PoolSize,   \* connections the pool lends at once
    Frail       \* bound: attempts whose budget may end or connection be lost

ASSUME ContractAssumption ==
    /\ Refusable \subseteq Bodies
    /\ Malformed \subseteq Keys
    /\ PoolSize \in Nat \ {0}
    /\ Frail \subseteq Attempts
    /\ None \notin Requests

VARIABLES
    pc,         \* where each attempt's handler stands
    budget,     \* the request's context: live, out of time, or its client gone
    session,    \* the attempt's transaction as the server sees it
    holds,      \* attempts whose uncommitted reservation is in idempotency_keys
    seen,       \* the records a repeatable-read snapshot shows the attempt
    err,        \* the errors joined into the one the handler was left with
    entry,      \* the transaction id Once returned
    book        \* committed entries, each named for the attempt that wrote it

handlerVars == <<pc, err, entry>>
serverVars  == <<session, holds, seen, book, record>>
vars == <<request, record, answer, pc, budget, session, holds, seen, err, entry, book>>

\* The stages of Pool.Write that run on a connection, in the order they are reached.
Statements == {"beginning", "reserving", "replaying", "posting", "settling"}
OnConnection == Statements \cup {"closing", "committing", "in flight"}

Errors == {"busy", "context", "bad conn", "lost", "tx done",
           "reused", "bad key", "refused", "gone"}

\* Mutant: the write begins at the isolation the reads do.
IsolationOfReads == "repeatable read"

\* The isolation Pool.Write begins at.
Isolation == "read committed"

Records == [Keys -> Attempts \cup {None}]

TypeOK ==
    /\ request \in [Attempts -> Requests \cup {None}]
    /\ record \in Records
    /\ answer \in [Attempts -> Answers \cup {None}]
    /\ pc \in [Attempts -> {"unsent", "waiting", "finished"} \cup OnConnection]
    /\ budget \in [Attempts -> {"live", "out", "gone"}]
    /\ session \in [Attempts -> {"none", "open", "commit", "committed", "rolled back"}]
    /\ holds \subseteq Attempts
    /\ seen \in [Attempts -> Records \cup {None}]
    /\ err \in [Attempts -> SUBSET Errors]
    /\ entry \in [Attempts -> Attempts \cup {None}]
    /\ book \subseteq Attempts

Init ==
    /\ PromiseInit
    /\ pc = [a \in Attempts |-> "unsent"]
    /\ budget = [a \in Attempts |-> "live"]
    /\ session = [a \in Attempts |-> "none"]
    /\ holds = {}
    /\ seen = [a \in Attempts |-> None]
    /\ err = [a \in Attempts |-> {}]
    /\ entry = [a \in Attempts |-> None]
    /\ book = {}

-----------------------------------------------------------------------------
(* The request and the pool.                                               *)

Send(a, q) ==
    /\ Ask(a, q)
    /\ pc' = [pc EXCEPT ![a] = "waiting"]
    /\ UNCHANGED <<budget, session, holds, seen, err, entry, book>>

Goto(a, stage) == pc' = [pc EXCEPT ![a] = stage]

\* The handler is left with these errors joined into one.
Fail(a, stage, errors) ==
    /\ Goto(a, stage)
    /\ err' = [err EXCEPT ![a] = errors]
    /\ UNCHANGED entry

Lent == {a \in Attempts : pc[a] \in OnConnection}

Acquire(a) ==
    /\ pc[a] = "waiting"
    /\ budget[a] = "live"
    /\ Cardinality(Lent) < PoolSize
    /\ Goto(a, "beginning")
    /\ UNCHANGED <<request, answer, budget, serverVars, err, entry>>

\* OverloadError: Acquire passed first, whether the queue was full or the dial slow.
Overloaded(a) ==
    /\ pc[a] = "waiting"
    /\ budget[a] = "live"
    /\ Fail(a, "finished", {"busy"})
    /\ UNCHANGED <<request, answer, budget, serverVars>>

-----------------------------------------------------------------------------
(* The statements of ledger.Once and ledger.Post, each on a live request   *)
(* and a transaction the server still holds open.                          *)

Working(a, stage) == pc[a] = stage /\ budget[a] = "live" /\ session[a] = "open"

Uninvolved == UNCHANGED <<request, answer, budget>>

\* BEGIN, SAVEPOINT ledger_once, SET CONSTRAINTS ... DEFERRED.
Begin(a) ==
    /\ pc[a] = "beginning" /\ budget[a] = "live" /\ session[a] = "none"
    /\ session' = [session EXCEPT ![a] = "open"]
    /\ seen' = [seen EXCEPT ![a] = IF Isolation = "read committed" THEN @ ELSE record]
    /\ Goto(a, "reserving")
    /\ Uninvolved /\ UNCHANGED <<record, holds, err, entry, book>>

\* Mutant: the key is not unique until it is committed.
NeverBlocked(a) == FALSE

\* Another transaction holds the key: the INSERT waits on the primary key.
Blocked(a) == \E o \in holds \ {a} : KeyOf(o) = KeyOf(a)

\* badKey: whatever the server refused the reservation for, but for a duplicate.
KeyRefused(a) ==
    /\ Fail(a, "closing", {"bad key"})
    /\ Uninvolved /\ UNCHANGED serverVars

ReserveRefused(a) ==
    /\ Working(a, "reserving")
    /\ KeyOf(a) \in Malformed
    /\ KeyRefused(a)

\* lock_timeout, after waiting on a key another transaction holds.
LockTimeout(a) ==
    /\ Working(a, "reserving")
    /\ KeyOf(a) \notin Malformed
    /\ Blocked(a)
    /\ KeyRefused(a)

\* Mutant: ON CONFLICT DO NOTHING, and the write goes on.
DuplicateIgnored(a) ==
    /\ Working(a, "reserving")
    /\ record[KeyOf(a)] # None
    /\ Goto(a, "posting")
    /\ Uninvolved /\ UNCHANGED <<serverVars, err, entry>>

\* 23505, once whoever held the key has committed.
ReserveDuplicate(a) ==
    /\ Working(a, "reserving")
    /\ record[KeyOf(a)] # None
    /\ Goto(a, "replaying")
    /\ Uninvolved /\ UNCHANGED <<serverVars, err, entry>>

Reserve(a) ==
    /\ Working(a, "reserving")
    /\ KeyOf(a) \notin Malformed
    /\ record[KeyOf(a)] = None
    /\ ~Blocked(a)
    /\ holds' = holds \cup {a}
    /\ Goto(a, "posting")
    /\ Uninvolved /\ UNCHANGED <<record, session, seen, err, entry, book>>

\* READ COMMITTED reads what is committed now.
Visible(a) == IF Isolation = "read committed" THEN record ELSE seen[a]

\* Mutant: the fingerprints are not compared.
ReplayAnything(a) ==
    /\ Working(a, "replaying")
    /\ Goto(a, "committing")
    /\ entry' = [entry EXCEPT ![a] = record[KeyOf(a)]]
    /\ Uninvolved /\ UNCHANGED <<serverVars, err>>

\* replay compares the fingerprints; EntryOf then reads the entry back.
Replay(a) ==
    LET kept == Visible(a)[KeyOf(a)] IN
    /\ Working(a, "replaying")
    /\ CASE kept = None -> Fail(a, "closing", {"gone"})
         [] kept # None /\ BodyOf(kept) # BodyOf(a) -> Fail(a, "closing", {"reused"})
         [] OTHER -> /\ Goto(a, "committing")
                     /\ entry' = [entry EXCEPT ![a] = kept]
                     /\ UNCHANGED err
    /\ Uninvolved /\ UNCHANGED serverVars

Post(a) ==
    /\ Working(a, "posting")
    /\ Goto(a, "settling")
    /\ Uninvolved /\ UNCHANGED <<serverVars, err, entry>>

\* Both savepoints are rolled back to, and the reservation with them.
PostRefused(a) ==
    /\ Working(a, "posting")
    /\ BodyOf(a) \in Refusable
    /\ holds' = holds \ {a}
    /\ Fail(a, "closing", {"refused"})
    /\ Uninvolved /\ UNCHANGED <<record, session, seen, book>>

\* Mutant: the id the work returned is lost.
SettleUnnamed(a) ==
    /\ Working(a, "settling")
    /\ Goto(a, "committing")
    /\ Uninvolved /\ UNCHANGED <<serverVars, err, entry>>

\* The UPDATE, the early ask and the release.
Settle(a) ==
    /\ Working(a, "settling")
    /\ Goto(a, "committing")
    /\ entry' = [entry EXCEPT ![a] = a]
    /\ Uninvolved /\ UNCHANGED <<serverVars, err>>

-----------------------------------------------------------------------------
(* The end of Pool.Write.                                                  *)

\* f failed: tx.Rollback.
Close(a) ==
    /\ Working(a, "closing")
    /\ session' = [session EXCEPT ![a] = "rolled back"]
    /\ holds' = holds \ {a}
    /\ Goto(a, "finished")
    /\ Uninvolved /\ UNCHANGED <<record, seen, err, entry, book>>

SendCommit(a) ==
    /\ Working(a, "committing")
    /\ session' = [session EXCEPT ![a] = "commit"]
    /\ Goto(a, "in flight")
    /\ Uninvolved /\ UNCHANGED <<record, holds, seen, err, entry, book>>

CommitAnswered(a) ==
    /\ pc[a] = "in flight"
    /\ session[a] = "committed"
    /\ Goto(a, "finished")
    /\ Uninvolved /\ UNCHANGED <<serverVars, err, entry>>

-----------------------------------------------------------------------------
(* Interruptions.  What the server holds of the attempt stays until it     *)
(* notices.                                                                *)

\* What a context that ended leaves at each stage.  database/sql rolls back by
\* itself, so a later Commit may find sql.ErrTxDone instead of the context's error.
CutOffErrors(a) ==
    CASE pc[a] = "closing"    -> {err[a], err[a] \cup {"context"}}
      [] pc[a] = "committing" -> {{"context"}, {"tx done"}}
      [] OTHER                -> {{"context"}}

CutOff(a) ==
    /\ pc[a] \in {"waiting"} \cup OnConnection
    /\ budget[a] # "live"
    /\ \E errors \in CutOffErrors(a) : Fail(a, "finished", errors)
    /\ Uninvolved /\ UNCHANGED serverVars

\* What a lost connection leaves: driver.ErrBadConn only where something was still tried
\* on the closed connection: BEGIN, a savepoint, its release or the rollback to it.
LostErrors(a) ==
    CASE pc[a] = "closing" -> {err[a] \cup {"lost"}, err[a] \cup {"lost", "bad conn"}}
      [] pc[a] \in {"reserving", "posting"} -> {{"lost", "bad conn"}}
      [] pc[a] \in {"beginning", "replaying", "settling"} -> {{"lost"}, {"lost", "bad conn"}}
      [] OTHER -> {{"lost"}}

ConnectionLost(a) ==
    /\ a \in Frail
    /\ pc[a] \in OnConnection
    /\ \E errors \in LostErrors(a) : Fail(a, "finished", errors)
    /\ Uninvolved /\ UNCHANGED serverVars

\* The request timeout, or a client that went away.
BudgetEnds(a, why) ==
    /\ a \in Frail
    /\ request[a] # None
    /\ answer[a] = None
    /\ budget[a] = "live"
    /\ why \in {"out", "gone"}
    /\ budget' = [budget EXCEPT ![a] = why]
    /\ UNCHANGED <<request, answer, serverVars, handlerVars>>

-----------------------------------------------------------------------------
(* The server, which goes on whether or not anyone waits for it.           *)

ServerCommits(a) ==
    /\ session[a] = "commit"
    /\ session' = [session EXCEPT ![a] = "committed"]
    /\ IF a \in holds
       THEN /\ book' = book \cup {a}
            /\ record' = [record EXCEPT ![KeyOf(a)] = a]
       ELSE UNCHANGED <<book, record>>
    /\ holds' = holds \ {a}
    /\ UNCHANGED <<request, answer, budget, seen, handlerVars>>

\* A restart, a terminated backend, idle_in_transaction_session_timeout, a
\* transaction whose client has gone.
ServerRollsBack(a) ==
    /\ a \in Frail
    /\ session[a] \in {"open", "commit"}
    /\ session' = [session EXCEPT ![a] = "rolled back"]
    /\ holds' = holds \ {a}
    /\ UNCHANGED <<request, answer, budget, record, seen, book, handlerVars>>

-----------------------------------------------------------------------------
(* The answer.                                                             *)

\* Mutant: whatever has no name of its own is taken for a refusal.
RefusalByDefault(errors) ==
    IF "busy" \in errors THEN "busy"
    ELSE IF errors \cap {"context", "bad conn"} # {} THEN "not reached"
    ELSE "refused"

\* refuse, which asks notReached first.
Refusal(errors) ==
    IF "busy" \in errors THEN "busy"
    ELSE IF errors \cap {"context", "bad conn"} # {} THEN "not reached"
    ELSE IF "reused" \in errors THEN "reused"
    ELSE IF "bad key" \in errors THEN "bad key"
    ELSE IF "refused" \in errors THEN "refused"
    ELSE "internal"

Response(a) ==
    IF err[a] = {}
    THEN [status |-> "created", entry |-> entry[a]]
    ELSE [status |-> Refusal(err[a]), entry |-> None]

Tells(a, r) ==
    /\ answer[a] = None
    /\ answer' = [answer EXCEPT ![a] = r]
    /\ UNCHANGED <<request, budget, serverVars, handlerVars>>

\* http.TimeoutHandler picks either when the handler and the deadline are both done.
HandlerAnswers(a) ==
    /\ pc[a] = "finished"
    /\ budget[a] # "gone"
    /\ Tells(a, Response(a))

DeadlineAnswers(a) ==
    /\ budget[a] = "out"
    /\ Tells(a, [status |-> "too late", entry |-> None])

-----------------------------------------------------------------------------

\* What the handler does next of itself; a transaction the server has ended
\* is found out by the next statement.
Proceeds(a) ==
    \/ Acquire(a) \/ Overloaded(a)
    \/ Begin(a)
    \/ ReserveRefused(a) \/ LockTimeout(a) \/ ReserveDuplicate(a) \/ Reserve(a)
    \/ Replay(a)
    \/ Post(a) \/ PostRefused(a) \/ Settle(a)
    \/ Close(a) \/ SendCommit(a) \/ CommitAnswered(a)
    \/ CutOff(a)
    \/ session[a] = "rolled back" /\ ConnectionLost(a)

Answered(a) == HandlerAnswers(a) \/ DeadlineAnswers(a)

\* Mutant: no idle_in_transaction_session_timeout.
AbandonedStays(a) == FALSE

\* A transaction nobody waits on any more.
AbandonedEnds(a) == pc[a] = "finished" /\ ServerRollsBack(a)

Next ==
    \E a \in Attempts :
        \/ \E q \in Requests : Send(a, q)
        \/ Proceeds(a)
        \/ ConnectionLost(a)
        \/ \E why \in {"out", "gone"} : BudgetEnds(a, why)
        \/ ServerCommits(a)
        \/ ServerRollsBack(a)
        \/ Answered(a)

Spec == Init /\ [][Next]_vars

\* Goroutines run; lock_timeout and Acquire bound the two waits; a commit received is
\* applied; idle_in_transaction_session_timeout ends what was abandoned.
Fairness ==
    \A a \in Attempts :
        /\ WF_vars(Proceeds(a))
        /\ WF_vars(ServerCommits(a))
        /\ WF_vars(AbandonedEnds(a))
        /\ WF_vars(Answered(a))

FairSpec == Spec /\ Fairness

-----------------------------------------------------------------------------
(* Properties.                                                             *)

\* An entry and the record under its key are committed together or not at all, and a
\* key has one entry: however many attempts share it and wherever they are cut off.
OneEntryPerKey ==
    /\ \A a \in book : record[KeyOf(a)] = a
    /\ \A k \in Keys : record[k] # None => record[k] \in book /\ KeyOf(record[k]) = k

\* A 201 names an entry in the book, written for the same key and the same body: a
\* commit seen, or a record of one.
CreatedIsHeld ==
    \A a \in Attempts :
        answer[a] # None /\ answer[a].status = "created" =>
            /\ answer[a].entry \in book
            /\ request[answer[a].entry] = request[a]

\* A 409, a 422 or a busy 503 is never given to a request that was written, nor is such
\* a request written later.
RefusedIsNeverWritten ==
    \A a \in book : answer[a] # None => answer[a].status \notin Refusals

\* replay: "unreachable while nothing deletes these rows".  The reservation was refused
\* by a row, so the read that follows sees it.
ReplayFindsTheRow == \A a \in Attempts : "gone" \notin err[a]

\* What a client can tell from outside is what RetryPromise allows.
KeepsThePromise == PromiseSpec

\* Whatever interrupts it, a request comes to its end: answered or its client gone, its
\* connection back in the pool, and its key free for the next attempt.
EverythingIsLetGo ==
    \A a \in Attempts :
        request[a] # None ~>
            /\ pc[a] = "finished"
            /\ a \notin holds
            /\ answer[a] # None \/ budget[a] = "gone"

-----------------------------------------------------------------------------
(* The inductive invariant the proofs use.                                 *)

\* Errors only a refused request is left with; none of these may follow a write.
Definite == {"busy", "reused", "bad key", "refused", "gone"}

\* What a handler has been left with, by where it stands.
HandlerOK(a) ==
    /\ pc[a] = "unsent" <=> request[a] = None
    /\ budget[a] # "live" => request[a] # None
    /\ err[a] # {} => pc[a] \in {"closing", "finished"}
    /\ pc[a] = "closing" => err[a] \cap Definite # {}
    /\ err[a] \cap Definite # {} => a \notin book \cup holds
    /\ "gone" \notin err[a]
    /\ "reused" \in err[a] =>
        record[KeyOf(a)] # None /\ BodyOf(record[KeyOf(a)]) # BodyOf(a)
    /\ pc[a] = "replaying" => record[KeyOf(a)] # None

\* The server's side of an attempt, by where its handler stands.
SessionOK(a) ==
    /\ pc[a] \in {"unsent", "waiting", "beginning"} => session[a] = "none"
    /\ session[a] \in {"none", "rolled back"} => a \notin holds \cup book
    /\ session[a] = "open" => a \notin book /\ pc[a] # "in flight"
    /\ session[a] = "commit" => a \notin book
    /\ session[a] = "committed" => a \notin holds
    /\ session[a] \in {"commit", "committed"} => pc[a] \in {"in flight", "finished"}
    /\ pc[a] \in {"reserving", "replaying"} => a \notin holds
    /\ pc[a] \in {"posting", "settling"} /\ session[a] = "open" => a \in holds
    /\ pc[a] = "in flight" => session[a] # "none"

\* A held key is free in the committed table and in every other transaction.
HoldOK(a) ==
    a \in holds =>
        /\ request[a] # None
        /\ record[KeyOf(a)] = None
        /\ ~Blocked(a)

\* The entry an attempt is to answer with is in the book, or its own and held.
EntryOK(a) ==
    /\ pc[a] \in {"committing", "in flight"} /\ session[a] # "rolled back" =>
        /\ entry[a] # None
        /\ request[entry[a]] = request[a]
        /\ entry[a] \in book \/ (entry[a] = a /\ a \in holds)
    /\ pc[a] = "finished" /\ err[a] = {} =>
        /\ session[a] = "committed"
        /\ entry[a] \in book
        /\ request[entry[a]] = request[a]

AnswerOK(a) ==
    /\ answer[a] # None => request[a] # None
    /\ answer[a] # None /\ answer[a].status # "too late" =>
        pc[a] = "finished" /\ answer[a] = Response(a)

AttemptOK(a) ==
    HandlerOK(a) /\ SessionOK(a) /\ HoldOK(a) /\ EntryOK(a) /\ AnswerOK(a)

\* Every attempt's handler, transaction and answer agree on what it wrote.
IInv == TypeOK /\ OneEntryPerKey /\ \A a \in Attempts : AttemptOK(a)

-----------------------------------------------------------------------------
(* Claims of the documents that the runs refute.                           *)

\* cancelled's comment: "in every case nothing was written".
NotReachedIsNotWritten ==
    \A a \in book : answer[a] # None => answer[a].status # "not reached"

\* ErrBadKey "means the ledger will not hold the key as it was given".
BadKeyIsMalformed ==
    \A a \in Attempts :
        answer[a] # None /\ answer[a].status = "bad key" => KeyOf(a) \in Malformed

\* DESIGN: "a cancelled request is a refusal, not a fault": the handler never answers 500
\* for a request that only ran out of budget.
CancelledIsNotAFault ==
    \A a \in Attempts :
        pc[a] = "finished" /\ err[a] # {} /\ "lost" \notin err[a] =>
            Refusal(err[a]) # "internal"
=============================================================================
