------------------------------ MODULE Service ------------------------------
(***************************************************************************)
(* pacioli serve, from exec to exit, for replicas on one database: the     *)
(* deadlines settled, the one dial, schema.Apply under its advisory lock,  *)
(* the listener, the signal and the drain.  A replica that exits is        *)
(* started again, as the deployment does, unless it was told to go.        *)
(*                                                                         *)
(* What net/http does with a connection, and the server with a transaction *)
(* whose client has gone, is external.  Time passes in ticks: whatever is  *)
(* due happens before the next, in any order.                              *)
(***************************************************************************)
EXTENDS Integers, FiniteSets

CONSTANTS
    Replicas,
    Conns,       \* client connections, each made once
    Settings,    \* what -request-timeout and its variable may be set to
    Unset,       \* a variable that is not in the environment
    Unreadable,  \* one that is no duration
    Default,     \* requestGrace
    Header,      \* readHeaderGrace
    Read,        \* readGrace
    Write,       \* writeGrace, from the header on
    Drain,       \* drainGrace
    Fresh,       \* how long Shutdown waits for a new connection's first header
    Left,        \* the session of a process that is gone
    Nobody,
    MaxFaults    \* bound: processes killed, connections lost, ports taken

ASSUME ServiceAssumption ==
    /\ {Default, Header, Read, Write, Drain, Fresh} \subseteq Nat \ {0}
    /\ MaxFaults \in Nat
    /\ Left \notin Replicas
    /\ Nobody \notin Replicas
    /\ Settings \subseteq [flag : Int, env : Int \cup {Unset, Unreadable}]

VARIABLES
    setting,   \* what the replicas are given
    database,  \* whether it can be reached
    schema,    \* whether the ledger's tables are committed
    tx,        \* each session's transaction in schema.Apply
    claims,    \* how often a replica has logged "schema applied"
    collided,  \* replicas whose DDL met the tables of another
    phase,     \* how far each process is
    signalled, \* processes told to go
    left,      \* ticks each drain has lasted
    conn,      \* where each client connection stands
    faults

installVars == <<database, schema, tx, claims, collided>>
vars == <<setting, installVars, phase, signalled, left, conn, faults>>

Sessions == Replicas \cup {Left}

\* Up to the COMMIT, every step is a call under the signal's context.
Calling == {"dialling", "locking", "probing", "applying", "applied", "present", "in flight"}
Starting == Calling \cup {"installed"}
Up == {"listening", "draining"}
Gone == {"stopped", "gave up", "failed"}

\* A request on it that is not done with.
Active == {"reading", "working", "answering"}

Open == {"new", "idle"} \cup Active

Cut == {"cut reading", "cut working", "cut answering"}

States == {"none", "closed"} \cup Cut \cup Open

Connections == [at : Replicas \cup {Nobody}, state : States, age : Nat, waiting : BOOLEAN]

NoConn == [at |-> Nobody, state |-> "none", age |-> 0, waiting |-> FALSE]

-----------------------------------------------------------------------------
(* firstDuration: the flag, then the environment, then the default.        *)

Refused == 0

\* positive.
Positive(d) == IF d > 0 THEN d ELSE Refused

\* A flag of zero cannot be told from one that was not given.
Settled(s) ==
    CASE s.flag # 0                            -> Positive(s.flag)
      [] s.flag = 0 /\ s.env = Unset           -> Default
      [] s.flag = 0 /\ s.env = Unreadable      -> Refused
      [] OTHER                                 -> Positive(s.env)

Request == Settled(setting)

-----------------------------------------------------------------------------

TypeOK ==
    /\ setting \in Settings
    /\ database \in {"absent", "there"}
    /\ schema \in BOOLEAN
    /\ tx \in [Sessions -> {"none", "locked", "tables", "commit"}]
    /\ claims \in Nat
    /\ collided \subseteq Replicas
    /\ phase \in [Replicas -> {"down"} \cup Starting \cup Up \cup Gone]
    /\ signalled \subseteq Replicas
    /\ left \in [Replicas -> 0..Drain]
    /\ conn \in [Conns -> Connections]
    /\ faults \in 0..MaxFaults

Init ==
    /\ setting \in Settings
    /\ database = "absent"
    /\ schema = FALSE
    /\ tx = [s \in Sessions |-> "none"]
    /\ claims = 0
    /\ collided = {}
    /\ phase = [r \in Replicas |-> "down"]
    /\ signalled = {}
    /\ left = [r \in Replicas |-> 0]
    /\ conn = [c \in Conns |-> NoConn]
    /\ faults = 0

Goto(r, p) == phase' = [phase EXCEPT ![r] = p]

\* What stays as it is while r starts.
Elsewhere == UNCHANGED <<setting, signalled, left, conn, faults>>

\* The process exits; the server has yet to notice what it was in the middle of.
Dies(r) ==
    /\ Goto(r, "failed")
    /\ tx' = IF tx[r] = "none" THEN tx ELSE [tx EXCEPT ![r] = "none", ![Left] = tx[r]]
    /\ conn' = [c \in Conns |->
                    IF conn[c].at = r /\ conn[c].state \in Open
                    THEN [conn[c] EXCEPT !.state = "closed"] ELSE conn[c]]
    /\ UNCHANGED <<setting, database, schema, claims, signalled, left>>

-----------------------------------------------------------------------------
(* Starting.                                                               *)

\* parseServe, which refuses with a usage error.
Configures(r) ==
    /\ phase[r] = "down"
    /\ Goto(r, IF Request = Refused THEN "failed" ELSE "dialling")
    /\ Elsewhere /\ UNCHANGED installVars

Calls(r, p) == phase[r] = p /\ r \notin signalled

\* open, and BEGIN.
Dials(r) ==
    /\ Calls(r, "dialling")
    /\ database = "there"
    /\ Goto(r, "locking")
    /\ Elsewhere /\ UNCHANGED installVars

\* The one ping, for connectGrace at most.
DialFails(r) ==
    /\ phase[r] = "dialling"
    /\ database = "absent"
    /\ Dies(r)
    /\ UNCHANGED <<collided, faults>>

\* Mutant: pg_advisory_xact_lock_shared.
LockShared(r) == TRUE

LockFree(r) == \A s \in Sessions \ {r} : tx[s] = "none"

Locks(r) ==
    /\ Calls(r, "locking")
    /\ LockFree(r)
    /\ tx' = [tx EXCEPT ![r] = "locked"]
    /\ Goto(r, "probing")
    /\ Elsewhere /\ UNCHANGED <<database, schema, claims, collided>>

\* lock_timeout.
LockTimesOut(r) ==
    /\ phase[r] = "locking"
    /\ ~LockFree(r)
    /\ Dies(r)
    /\ UNCHANGED <<collided, faults>>

\* to_regclass('public.postings').
Probes(r) ==
    /\ Calls(r, "probing")
    /\ Goto(r, IF schema THEN "present" ELSE "applying")
    /\ Elsewhere /\ UNCHANGED installVars

\* CREATE with no IF NOT EXISTS.
Collides(r) == schema \/ \E s \in Sessions \ {r} : tx[s] \in {"tables", "commit"}

Applies(r) ==
    /\ Calls(r, "applying") /\ UNCHANGED faults
    /\ IF Collides(r)
       THEN Dies(r) /\ collided' = collided \cup {r}
       ELSE /\ Goto(r, "applied")
            /\ tx' = [tx EXCEPT ![r] = "tables"]
            /\ UNCHANGED <<setting, database, schema, claims, collided, signalled, left, conn>>

\* Mutant: pg_advisory_lock, which the pooled connection goes on holding.
SessionLock == "locked"

\* The lock goes with the transaction.
Released == "none"

\* The COMMIT of a transaction that found the tables.
CommitsNothing(r) ==
    /\ Calls(r, "present")
    /\ tx' = [tx EXCEPT ![r] = Released]
    /\ Goto(r, "installed")
    /\ Elsewhere /\ UNCHANGED <<database, schema, claims, collided>>

SendsCommit(r) ==
    /\ Calls(r, "applied")
    /\ tx' = [tx EXCEPT ![r] = "commit"]
    /\ Goto(r, "in flight")
    /\ Elsewhere /\ UNCHANGED <<database, schema, claims, collided>>

\* Mutant: the error of tx.Commit is dropped.
CommitUnasked(r) == TRUE

Committed(r) == tx[r] # "commit"

CommitAnswered(r) ==
    /\ phase[r] = "in flight"
    /\ Committed(r)
    /\ claims' = claims + 1
    /\ Goto(r, "installed")
    /\ Elsewhere /\ UNCHANGED <<database, schema, tx, collided>>

\* net.Listen, which asks no context.
Listens(r) ==
    /\ phase[r] = "installed"
    /\ Goto(r, "listening")
    /\ Elsewhere /\ UNCHANGED installVars

\* A context that is done fails the call it is passed to.
CutOff(r) ==
    /\ r \in signalled
    /\ phase[r] \in Calling
    /\ Dies(r)
    /\ UNCHANGED <<collided, faults>>

\* Killed, or its connection lost, or its port taken, or Serve failed.
Breaks(r) ==
    /\ faults < MaxFaults
    /\ phase[r] \in Starting \cup Up
    /\ faults' = faults + 1
    /\ Dies(r)
    /\ UNCHANGED collided

\* The deployment starts it again.
Restarts(r) ==
    /\ phase[r] = "failed"
    /\ r \notin signalled
    /\ Goto(r, "down")
    /\ Elsewhere /\ UNCHANGED installVars

-----------------------------------------------------------------------------
(* The database.                                                           *)

DatabaseComes ==
    /\ database = "absent"
    /\ database' = "there"
    /\ UNCHANGED <<schema, tx, claims, collided, phase>> /\ Elsewhere

ServerCommits(s) ==
    /\ tx[s] = "commit"
    /\ tx' = [tx EXCEPT ![s] = Released]
    /\ schema' = TRUE
    /\ UNCHANGED <<database, claims, collided, phase>> /\ Elsewhere

\* A rollback nobody asked for: the client has gone.
ServerRollsBack ==
    /\ tx[Left] # "none"
    /\ tx' = [tx EXCEPT ![Left] = "none"]
    /\ UNCHANGED <<database, schema, claims, collided, phase>> /\ Elsewhere

-----------------------------------------------------------------------------
(* Connections.                                                            *)

\* What stays as it is while connections change.
Outside == UNCHANGED <<setting, installVars, phase, signalled, left, faults>>

Moves(c, state) == conn' = [conn EXCEPT ![c].state = state]

Connects(c, r) ==
    /\ conn[c].state = "none"
    /\ phase[r] = "listening"
    /\ conn' = [conn EXCEPT ![c] = [NoConn EXCEPT !.at = r, !.state = "new"]]
    /\ Outside

\* On its way: the server has not read it.
Sends(c) ==
    /\ conn[c].state \in {"new", "idle"}
    /\ ~conn[c].waiting
    /\ conn' = [conn EXCEPT ![c].waiting = TRUE]
    /\ Outside

\* The header is read, and the budget starts.
Begins(c) ==
    /\ conn[c].state \in {"new", "idle"}
    /\ conn[c].waiting
    /\ conn' = [conn EXCEPT ![c].state = "reading", ![c].age = 0]
    /\ Outside

\* Mutant: the handler is mounted as it was given.
NoBudget(c) == FALSE

\* Deadline's budget, which Go cannot answer for until the body is in.
OutOfBudget(c) == conn[c].age >= Request

BodyArrives(c) ==
    /\ conn[c].state = "reading"
    /\ Moves(c, IF OutOfBudget(c) THEN "answering" ELSE "working")
    /\ Outside

\* The handler ends, or Deadline answers for it.
Answers(c) ==
    /\ conn[c].state = "working"
    /\ Moves(c, "answering")
    /\ Outside

\* The client has taken the response, as it need not.  Either may close the connection
\* then; Shutdown turns keep-alives off.
HandsOver(c) ==
    /\ conn[c].state = "answering"
    /\ conn[c].age < Write
    /\ \E state \in {"closed"} \cup (IF phase[conn[c].at] = "draining" THEN {} ELSE {"idle"}) :
        conn' = [conn EXCEPT ![c].state = state, ![c].age = 0, ![c].waiting = FALSE]
    /\ Outside

TimedOut(c) ==
    \/ conn[c].state = "new" /\ conn[c].age >= Header
    \/ conn[c].state = "reading" /\ conn[c].age >= Read
    \/ conn[c].state = "answering" /\ conn[c].age >= Write

\* A body that never came is answered all the same, as one that cannot be read.
TimesOut(c) ==
    /\ TimedOut(c)
    /\ Moves(c, IF conn[c].state = "reading" THEN "answering" ELSE "closed")
    /\ Outside

-----------------------------------------------------------------------------
(* The signal and the drain.                                               *)

Signal(r) ==
    /\ phase[r] \in Starting \cup Up
    /\ signalled' = signalled \cup {r}
    /\ UNCHANGED <<setting, installVars, phase, left, conn, faults>>

\* Mutant: nothing selects on ctx.Done.
Deaf(r) == FALSE

Told(r) == r \in signalled

StartsDrain(r) ==
    /\ phase[r] = "listening"
    /\ Told(r)
    /\ Goto(r, "draining")
    /\ UNCHANGED <<setting, installVars, signalled, left, conn, faults>>

\* Shutdown takes a connection with no request on it for idle, but gives a new one a
\* moment to send its first.
CountsIdle(c) ==
    conn[c].state = "idle" \/ (conn[c].state = "new" /\ conn[c].age >= Fresh)

ClosesIdle(c) ==
    /\ conn[c].at # Nobody
    /\ phase[conn[c].at] = "draining"
    /\ CountsIdle(c)
    /\ Moves(c, "closed")
    /\ Outside

\* The process exits on top of what it has not answered.
Exits(r, p) ==
    /\ Goto(r, p)
    /\ conn' = [c \in Conns |->
            IF conn[c].at # r THEN conn[c]
            ELSE CASE conn[c].state \in {"new", "idle"} -> [conn[c] EXCEPT !.state = "closed"]
                   [] conn[c].state = "reading"        -> [conn[c] EXCEPT !.state = "cut reading"]
                   [] conn[c].state = "working"        -> [conn[c] EXCEPT !.state = "cut working"]
                   [] conn[c].state = "answering"      -> [conn[c] EXCEPT !.state = "cut answering"]
                   [] OTHER                            -> conn[c]]
    /\ UNCHANGED <<setting, installVars, signalled, left, faults>>

\* Mutant: Close in place of Shutdown.
ClosedAtOnce(r) == TRUE

Quiescent(r) == \A c \in Conns : conn[c].at = r => conn[c].state \notin Open

\* serveOn returns nil.
Stops(r) ==
    /\ phase[r] = "draining"
    /\ Quiescent(r)
    /\ Exits(r, "stopped")

\* Mutant: no drainGrace.
NeverOver(r) == FALSE

DrainIsOver(r) == left[r] >= Drain

\* Shutdown returns its context's error, and so does serveOn.
GivesUp(r) ==
    /\ phase[r] = "draining"
    /\ DrainIsOver(r)
    /\ Exits(r, "gave up")

-----------------------------------------------------------------------------
(* Time.                                                                   *)

Due ==
    \/ \E r \in Replicas :
        \/ phase[r] = "listening" /\ Told(r)
        \/ phase[r] = "draining" /\ (DrainIsOver(r) \/ Quiescent(r))
    \/ \E c \in Conns :
        \/ TimedOut(c)
        \/ conn[c].state = "working" /\ OutOfBudget(c)
        \/ conn[c].at # Nobody /\ phase[conn[c].at] = "draining" /\ CountsIdle(c)

Tick ==
    /\ ~Due
    /\ conn' = [c \in Conns |-> IF conn[c].state \in {"new"} \cup Active
                                THEN [conn[c] EXCEPT !.age = @ + 1] ELSE conn[c]]
    /\ left' = [r \in Replicas |-> left[r] + IF phase[r] = "draining" THEN 1 ELSE 0]
    /\ UNCHANGED <<setting, installVars, phase, signalled, faults>>

-----------------------------------------------------------------------------

Starts(r) ==
    \/ Configures(r) \/ Dials(r) \/ DialFails(r) \/ Locks(r) \/ Probes(r) \/ Applies(r)
    \/ CommitsNothing(r) \/ SendsCommit(r) \/ CommitAnswered(r) \/ Listens(r)
    \/ CutOff(r) \/ Restarts(r)

Ends(r) == StartsDrain(r) \/ Stops(r) \/ GivesUp(r)

Carries(c) == Answers(c) \/ TimesOut(c) \/ ClosesIdle(c)

Settles == ServerRollsBack \/ \E s \in Sessions : ServerCommits(s)

Next ==
    \/ \E r \in Replicas :
        Starts(r) \/ LockTimesOut(r) \/ Breaks(r) \/ Signal(r) \/ Ends(r)
    \/ \E c \in Conns :
        Sends(c) \/ Begins(c) \/ BodyArrives(c) \/ HandsOver(c) \/ Carries(c)
        \/ \E r \in Replicas : Connects(c, r)
    \/ DatabaseComes \/ Settles \/ Tick

Spec == Init /\ [][Next]_vars

\* A process runs and is started again; the database comes, and ends what nobody waits
\* for; time passes, and timers fire.
FairSpec ==
    /\ Spec
    /\ \A r \in Replicas : WF_vars(Starts(r)) /\ WF_vars(Ends(r))
    /\ \A c \in Conns : WF_vars(Carries(c))
    /\ WF_vars(DatabaseComes) /\ WF_vars(Settles) /\ WF_vars(Tick)

-----------------------------------------------------------------------------
(* Properties.                                                             *)

\* "It is safe to call concurrently": no replica finds another's tables under its DDL,
\* whatever was killed while it held the lock.
NoReplicaCollides == collided = {}

\* A replica reports that it applied the schema only if it did, and one at most did.
AppliedByOne == claims <= 1 /\ (claims = 1 => schema)

\* Nothing is served off an empty database, though a COMMIT may be answered or not and
\* the process restarted between any two steps.
ServingHasTheSchema == \A r \in Replicas : phase[r] \in Up => schema

\* Draining is required: a process that exits 0 has cut off no request it had begun.
QuietStopCutsNothing ==
    \A c \in Conns :
        conn[c].state \in Cut => phase[conn[c].at] # "stopped"

\* A drain gives up on no handler that was at work when the signal came, as long as a
\* request has no longer than a drain has: what it cuts is still arriving, was begun
\* since, or is answered and has not been taken by its client (which -write-timeout
\* bounds, past the end of the drain).
OnlyLateWorkIsCut ==
    Request <= Drain =>
        \A c \in Conns : conn[c].state = "cut working" => conn[c].age <= left[conn[c].at]

\* "The restart is the dependency ordering": every replica comes up, whoever applies the
\* schema and whatever breaks meanwhile.
EveryReplicaComesUp ==
    Request # Refused => \A r \in Replicas : <>(phase[r] = "listening" \/ r \in signalled)

\* A process told to go goes.
EverySignalIsObeyed == \A r \in Replicas : r \in signalled ~> phase[r] \in Gone

-----------------------------------------------------------------------------
(* The inductive invariant the proofs use.                                 *)

\* The lock is one session's, and a replica past it knows whether the tables are there.
OneAtATime ==
    /\ \A s, t \in Sessions : s # t => tx[s] = "none" \/ tx[t] = "none"
    /\ \A r, q \in Replicas : phase[r] = "in flight" /\ phase[q] = "in flight" => r = q
    /\ \A s \in Sessions : tx[s] \in {"tables", "commit"} => ~schema

StartOK(r) ==
    /\ phase[r] \in {"probing", "applying", "present"} => tx[r] = "locked"
    /\ phase[r] = "applied" => tx[r] = "tables"
    /\ phase[r] = "in flight" => claims = 0 /\ (tx[r] = "commit" \/ (tx[r] = "none" /\ schema))
    /\ phase[r] \notin {"probing", "applying", "present", "applied", "in flight"} => tx[r] = "none"
    /\ phase[r] = "applying" => ~schema
    /\ phase[r] \in {"present", "installed"} \cup Up => schema

\* A connection is open on a process that is up, and cut by one that gave up.
CarryOK(c) ==
    /\ conn[c].state \in Open => conn[c].at \in Replicas /\ phase[conn[c].at] \in Up
    /\ conn[c].state \in Cut =>
        conn[c].at \in Replicas /\ phase[conn[c].at] = "gave up"
    /\ conn[c].state = "working" => conn[c].age <= Request
    /\ conn[c].state = "cut working" /\ Request <= Drain => conn[c].age <= left[conn[c].at]

IInv ==
    /\ TypeOK
    /\ NoReplicaCollides /\ AppliedByOne /\ OneAtATime
    /\ \A r \in Replicas : StartOK(r)
    /\ \A c \in Conns : CarryOK(c)
=============================================================================
