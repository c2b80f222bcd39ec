---------------------------- MODULE RetryPromise ----------------------------
(***************************************************************************)
(* What POST /v1/transactions promises a client that retries, stated over  *)
(* requests, answers and the records kept under idempotency keys, with     *)
(* nothing said of connections, transactions or timeouts.                  *)
(***************************************************************************)
CONSTANTS
    Attempts,   \* requests sent; a retry is another attempt with the same key and body
    Keys,       \* idempotency keys
    Bodies,     \* request bodies, told apart as their fingerprints are
    None        \* nothing yet

ASSUME NoneAssumption == None \notin Attempts

VARIABLES
    request,    \* what each attempt asked, once sent
    record,     \* the attempt whose entry each key names
    answer      \* what each attempt was told

promiseVars == <<request, record, answer>>

Requests == [key : Keys, body : Bodies]

\* A refusal commits the ledger to never writing what was asked.
Refusals == {"busy", "reused", "bad key", "refused"}

\* An answer that tells the client only to ask again.
Unsure == {"not reached", "too late", "internal"}

Answers == [status : {"created"}, entry : Attempts]
           \cup [status : Refusals \cup Unsure, entry : {None}]

KeyOf(a)  == request[a].key
BodyOf(a) == request[a].body

PromiseInit ==
    /\ request = [a \in Attempts |-> None]
    /\ record = [k \in Keys |-> None]
    /\ answer = [a \in Attempts |-> None]

Ask(a, q) ==
    /\ request[a] = None
    /\ request' = [request EXCEPT ![a] = q]
    /\ UNCHANGED <<record, answer>>

\* The first attempt to be written takes the key for good; one refused never does.
Record(a) ==
    /\ request[a] # None
    /\ record[KeyOf(a)] = None
    /\ answer[a] = None \/ answer[a].status \in Unsure
    /\ record' = [record EXCEPT ![KeyOf(a)] = a]
    /\ UNCHANGED <<request, answer>>

\* What an attempt may be told, given what its key names.
Truthful(a, r) ==
    LET kept == record[KeyOf(a)] IN
    /\ r.status = "created" => kept = r.entry /\ BodyOf(kept) = BodyOf(a)
    /\ r.status = "reused"  => kept # None /\ BodyOf(kept) # BodyOf(a)
    /\ r.status \in Refusals => kept # a

Tell(a, r) ==
    /\ request[a] # None
    /\ answer[a] = None
    /\ Truthful(a, r)
    /\ answer' = [answer EXCEPT ![a] = r]
    /\ UNCHANGED <<request, record>>

PromiseNext ==
    \E a \in Attempts :
        \/ \E q \in Requests : Ask(a, q)
        \/ Record(a)
        \/ \E r \in Answers : Tell(a, r)

PromiseSpec == PromiseInit /\ [][PromiseNext]_promiseVars
=============================================================================
