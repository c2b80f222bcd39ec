------------------------ MODULE RetryContract_proofs ------------------------
(***************************************************************************)
(* RetryContract keeps its invariant, its safety properties and the        *)
(* promise of RetryPromise for any number of attempts, keys and bodies and *)
(* any pool.  IInv says that the handler, the transaction and the answer   *)
(* of each attempt agree; most steps are one attempt's own and commit      *)
(* nothing, so LocalStep leaves only that attempt to look at.  A commit is *)
(* the step that changes what the others see.                              *)
(***************************************************************************)
EXTENDS RetryContract, TLAPS

\* A step of attempt a alone, which commits nothing.
Local(a) ==
    /\ UNCHANGED <<request, record, book>>
    /\ holds' \ {a} = holds \ {a}
    /\ \A b \in Attempts \ {a} :
        /\ pc'[b] = pc[b] /\ err'[b] = err[b] /\ entry'[b] = entry[b]
        /\ session'[b] = session[b] /\ answer'[b] = answer[b] /\ budget'[b] = budget[b]

\* Such a step disturbs nobody else, so the rest of the invariant is a's own.
LEMMA LocalStep ==
    ASSUME IInv, NEW a \in Attempts, Local(a), TypeOK', AttemptOK(a)'
    PROVE  IInv'
  <1> SUFFICES ASSUME NEW b \in Attempts, b # a
               PROVE  AttemptOK(b)'
    BY DEF IInv, Local, OneEntryPerKey, KeyOf
  <1> AttemptOK(b) /\ b \in holds' <=> b \in holds
    BY DEF IInv, Local
  <1> USE DEF Local
  <1>1. HandlerOK(b)'
    BY DEF IInv, AttemptOK, HandlerOK, KeyOf, BodyOf
  <1>2. SessionOK(b)'
    BY DEF IInv, AttemptOK, SessionOK
  <1>3. HoldOK(b)'
    BY DEF IInv, AttemptOK, HoldOK, Blocked, KeyOf
  <1>4. EntryOK(b)'
    BY DEF IInv, AttemptOK, EntryOK
  <1>5. AnswerOK(b)'
    BY DEF IInv, AttemptOK, AnswerOK, Response
  <1> QED  BY <1>1, <1>2, <1>3, <1>4, <1>5 DEF AttemptOK

\* Whatever is in the book was asked for.
LEMMA BookRequested ==
    ASSUME IInv, NEW a \in book
    PROVE  a \in Attempts /\ request[a] \in Requests
  <1>1. a \in Attempts /\ HandlerOK(a) /\ SessionOK(a)
    BY DEF IInv, TypeOK, AttemptOK
  <1>2. session[a] # "none"
    BY <1>1 DEF SessionOK
  <1>3. request[a] # None
    BY <1>1, <1>2 DEF HandlerOK, SessionOK
  <1> QED  BY <1>1, <1>3 DEF IInv, TypeOK

\* A connection is lent before the attempt has a transaction.
LEMMA AcquireStep ==
    ASSUME IInv, NEW a \in Attempts, Acquire(a)
    PROVE  IInv'
  <1>1. TypeOK' /\ Local(a)
    <2> USE DEF Acquire, Goto, handlerVars, serverVars
    <2>1. TypeOK'
      BY DEF IInv, TypeOK, Records, Statements, OnConnection, Errors
    <2>2. Local(a)
      BY DEF IInv, TypeOK, Local
    <2> QED  BY <2>1, <2>2
  <1>2. /\ pc[a] = "waiting" /\ pc'[a] = "beginning"
        /\ UNCHANGED <<request, record, book, answer, budget, session, holds, err, entry>>
    BY DEF IInv, TypeOK, Acquire, Goto, handlerVars, serverVars
  <1>3. HandlerOK(a) /\ SessionOK(a) /\ HoldOK(a) /\ EntryOK(a) /\ AnswerOK(a)
    BY DEF IInv, AttemptOK
  <1>4. HandlerOK(a)' /\ SessionOK(a)'
    BY <1>2, <1>3 DEF HandlerOK, SessionOK, HoldOK, KeyOf, BodyOf, Definite
  <1>5. HoldOK(a)' /\ EntryOK(a)' /\ AnswerOK(a)'
    BY <1>2, <1>3 DEF HandlerOK, SessionOK, HoldOK, EntryOK, AnswerOK, Response, Blocked, KeyOf
  <1> QED  BY <1>1, <1>4, <1>5, LocalStep DEF AttemptOK

\* Turned away by the pool, an attempt has written nothing.
LEMMA OverloadedStep ==
    ASSUME IInv, NEW a \in Attempts, Overloaded(a)
    PROVE  IInv'
  <1>1. TypeOK' /\ Local(a)
    <2> USE DEF Overloaded, Fail, Goto, handlerVars, serverVars
    <2>1. TypeOK'
      BY DEF IInv, TypeOK, Records, Statements, OnConnection, Errors
    <2>2. Local(a)
      BY DEF IInv, TypeOK, Local
    <2> QED  BY <2>1, <2>2
  <1>2. /\ pc[a] = "waiting" /\ pc'[a] = "finished" /\ err'[a] = {"busy"}
        /\ UNCHANGED <<request, record, book, answer, budget, session, holds, entry>>
    BY DEF IInv, TypeOK, Overloaded, Fail, Goto, handlerVars, serverVars
  <1>3. HandlerOK(a) /\ SessionOK(a) /\ HoldOK(a) /\ EntryOK(a) /\ AnswerOK(a)
    BY DEF IInv, AttemptOK
  <1>4. HandlerOK(a)' /\ SessionOK(a)'
    BY <1>2, <1>3 DEF HandlerOK, SessionOK, HoldOK, KeyOf, BodyOf, Definite
  <1>5. HoldOK(a)' /\ EntryOK(a)' /\ AnswerOK(a)'
    BY <1>2, <1>3 DEF HandlerOK, SessionOK, HoldOK, EntryOK, AnswerOK, Response, Blocked, KeyOf
  <1> QED  BY <1>1, <1>4, <1>5, LocalStep DEF AttemptOK

\* A transaction begins holding no key.
LEMMA BeginStep ==
    ASSUME IInv, NEW a \in Attempts, Begin(a)
    PROVE  IInv'
  <1>1. TypeOK' /\ Local(a)
    <2> USE DEF Begin, Goto, Uninvolved, handlerVars, serverVars
    <2>1. TypeOK'
      BY DEF IInv, TypeOK, Records, Statements, OnConnection, Errors
    <2>2. Local(a)
      BY DEF IInv, TypeOK, Local
    <2> QED  BY <2>1, <2>2
  <1>2. /\ pc[a] = "beginning" /\ pc'[a] = "reserving" /\ session'[a] = "open"
        /\ UNCHANGED <<request, record, book, answer, budget, holds, err, entry>>
    BY DEF IInv, TypeOK, Begin, Goto, Uninvolved, handlerVars, serverVars
  <1>3. HandlerOK(a) /\ SessionOK(a) /\ HoldOK(a) /\ EntryOK(a) /\ AnswerOK(a)
    BY DEF IInv, AttemptOK
  <1>4. HandlerOK(a)' /\ SessionOK(a)'
    BY <1>2, <1>3 DEF HandlerOK, SessionOK, HoldOK, KeyOf, BodyOf, Definite
  <1>5. HoldOK(a)' /\ EntryOK(a)' /\ AnswerOK(a)'
    BY <1>2, <1>3 DEF HandlerOK, SessionOK, HoldOK, EntryOK, AnswerOK, Response, Blocked, KeyOf
  <1> QED  BY <1>1, <1>4, <1>5, LocalStep DEF AttemptOK

\* A key refused for its shape leaves no reservation.
LEMMA ReserveRefusedStep ==
    ASSUME IInv, NEW a \in Attempts, ReserveRefused(a)
    PROVE  IInv'
  <1>1. TypeOK' /\ Local(a)
    <2> USE DEF ReserveRefused, Working, Goto, Uninvolved, KeyRefused, Fail, handlerVars, serverVars
    <2>1. TypeOK'
      BY DEF IInv, TypeOK, Records, Statements, OnConnection, Errors
    <2>2. Local(a)
      BY DEF IInv, TypeOK, Local
    <2> QED  BY <2>1, <2>2
  <1>2. /\ pc[a] = "reserving" /\ pc'[a] = "closing" /\ session[a] = "open" /\ err'[a] = {"bad key"}
        /\ UNCHANGED <<request, record, book, answer, budget, session, holds, entry>>
    BY DEF IInv, TypeOK, ReserveRefused, Working, Goto, Uninvolved, KeyRefused, Fail, handlerVars, serverVars
  <1>3. HandlerOK(a) /\ SessionOK(a) /\ HoldOK(a) /\ EntryOK(a) /\ AnswerOK(a)
    BY DEF IInv, AttemptOK
  <1>4. HandlerOK(a)' /\ SessionOK(a)'
    BY <1>2, <1>3 DEF HandlerOK, SessionOK, HoldOK, KeyOf, BodyOf, Definite
  <1>5. HoldOK(a)' /\ EntryOK(a)' /\ AnswerOK(a)'
    BY <1>2, <1>3 DEF HandlerOK, SessionOK, HoldOK, EntryOK, AnswerOK, Response, Blocked, KeyOf
  <1> QED  BY <1>1, <1>4, <1>5, LocalStep DEF AttemptOK

\* Nor does one whose wait for the key ran out.
LEMMA LockTimeoutStep ==
    ASSUME IInv, NEW a \in Attempts, LockTimeout(a)
    PROVE  IInv'
  <1>1. TypeOK' /\ Local(a)
    <2> USE DEF LockTimeout, Working, Goto, Uninvolved, KeyRefused, Fail, handlerVars, serverVars
    <2>1. TypeOK'
      BY DEF IInv, TypeOK, Records, Statements, OnConnection, Errors
    <2>2. Local(a)
      BY DEF IInv, TypeOK, Local
    <2> QED  BY <2>1, <2>2
  <1>2. /\ pc[a] = "reserving" /\ pc'[a] = "closing" /\ session[a] = "open" /\ err'[a] = {"bad key"}
        /\ UNCHANGED <<request, record, book, answer, budget, session, holds, entry>>
    BY DEF IInv, TypeOK, LockTimeout, Working, Goto, Uninvolved, KeyRefused, Fail, handlerVars, serverVars
  <1>3. HandlerOK(a) /\ SessionOK(a) /\ HoldOK(a) /\ EntryOK(a) /\ AnswerOK(a)
    BY DEF IInv, AttemptOK
  <1>4. HandlerOK(a)' /\ SessionOK(a)'
    BY <1>2, <1>3 DEF HandlerOK, SessionOK, HoldOK, KeyOf, BodyOf, Definite
  <1>5. HoldOK(a)' /\ EntryOK(a)' /\ AnswerOK(a)'
    BY <1>2, <1>3 DEF HandlerOK, SessionOK, HoldOK, EntryOK, AnswerOK, Response, Blocked, KeyOf
  <1> QED  BY <1>1, <1>4, <1>5, LocalStep DEF AttemptOK

\* The row the reservation collided with is committed.
LEMMA ReserveDuplicateStep ==
    ASSUME IInv, NEW a \in Attempts, ReserveDuplicate(a)
    PROVE  IInv'
  <1>1. TypeOK' /\ Local(a)
    <2> USE DEF ReserveDuplicate, Working, Goto, Uninvolved, handlerVars, serverVars
    <2>1. TypeOK'
      BY DEF IInv, TypeOK, Records, Statements, OnConnection, Errors
    <2>2. Local(a)
      BY DEF IInv, TypeOK, Local
    <2> QED  BY <2>1, <2>2
  <1>2. /\ pc[a] = "reserving" /\ pc'[a] = "replaying" /\ record[KeyOf(a)] # None
        /\ UNCHANGED <<request, record, book, answer, budget, session, holds, err, entry>>
    BY DEF IInv, TypeOK, ReserveDuplicate, Working, Goto, Uninvolved, handlerVars, serverVars
  <1>3. HandlerOK(a) /\ SessionOK(a) /\ HoldOK(a) /\ EntryOK(a) /\ AnswerOK(a)
    BY DEF IInv, AttemptOK
  <1>4. HandlerOK(a)' /\ SessionOK(a)'
    BY <1>2, <1>3 DEF HandlerOK, SessionOK, HoldOK, KeyOf, BodyOf, Definite
  <1>5. HoldOK(a)' /\ EntryOK(a)' /\ AnswerOK(a)'
    BY <1>2, <1>3 DEF HandlerOK, SessionOK, HoldOK, EntryOK, AnswerOK, Response, Blocked, KeyOf
  <1> QED  BY <1>1, <1>4, <1>5, LocalStep DEF AttemptOK

\* A key is taken only while no row and no other transaction holds it.
LEMMA ReserveStep ==
    ASSUME IInv, NEW a \in Attempts, Reserve(a)
    PROVE  IInv'
  <1>1. TypeOK' /\ Local(a)
    <2> USE DEF Reserve, Working, Goto, Uninvolved, handlerVars, serverVars
    <2>1. TypeOK'
      BY DEF IInv, TypeOK, Records, Statements, OnConnection, Errors
    <2>2. Local(a)
      BY DEF IInv, TypeOK, Local
    <2> QED  BY <2>1, <2>2
  <1>2. /\ pc[a] = "reserving" /\ pc'[a] = "posting" /\ session[a] = "open"
        /\ record[KeyOf(a)] = None /\ ~Blocked(a) /\ holds' = holds \cup {a}
        /\ UNCHANGED <<request, record, book, answer, budget, session, err, entry>>
    BY DEF IInv, TypeOK, Reserve, Working, Goto, Uninvolved, handlerVars, serverVars
  <1>3. HandlerOK(a) /\ SessionOK(a) /\ HoldOK(a) /\ EntryOK(a) /\ AnswerOK(a)
    BY DEF IInv, AttemptOK
  <1>4. HandlerOK(a)' /\ SessionOK(a)'
    BY <1>2, <1>3 DEF HandlerOK, SessionOK, HoldOK, KeyOf, BodyOf, Definite
  <1>5. HoldOK(a)' /\ EntryOK(a)' /\ AnswerOK(a)'
    BY <1>2, <1>3 DEF HandlerOK, SessionOK, HoldOK, EntryOK, AnswerOK, Response, Blocked, KeyOf
  <1> QED  BY <1>1, <1>4, <1>5, LocalStep DEF AttemptOK

\* A replay answers with the entry under its own key and body, or refuses.
LEMMA ReplayStep ==
    ASSUME IInv, NEW a \in Attempts, Replay(a)
    PROVE  IInv'
  <1> DEFINE kept == record[KeyOf(a)]
  <1> USE NoneAssumption DEF Working, Goto, Uninvolved, handlerVars, serverVars
  <1>1. /\ pc[a] = "replaying" /\ session[a] = "open"
        /\ UNCHANGED <<request, answer, budget, session, holds, seen, book, record>>
    BY DEF Replay
  <1>2. kept # None /\ KeyOf(a) \in Keys
    <2>1. kept # None /\ request[a] # None
      BY <1>1 DEF IInv, AttemptOK, HandlerOK
    <2>2. request[a] \in Requests
      BY <2>1 DEF IInv, TypeOK
    <2> QED  BY <2>1, <2>2 DEF KeyOf, Requests
  <1>3. kept \in book /\ KeyOf(kept) = KeyOf(a) /\ kept \in Attempts
    BY <1>2 DEF IInv, OneEntryPerKey, TypeOK
  <1>4. a \notin book /\ a \notin holds /\ request[a] # None /\ err[a] = {}
    BY <1>1 DEF IInv, AttemptOK, HandlerOK, SessionOK
  <1>5. answer[a] # None => answer[a].status = "too late"
    BY <1>1 DEF IInv, AttemptOK, AnswerOK
  <1>6. \/ BodyOf(kept) # BodyOf(a) /\ Fail(a, "closing", {"reused"})
        \/ /\ BodyOf(kept) = BodyOf(a) /\ pc' = [pc EXCEPT ![a] = "committing"]
           /\ entry' = [entry EXCEPT ![a] = kept] /\ err' = err
    BY <1>2 DEF Replay, Visible, Isolation
  <1>7. CASE BodyOf(kept) # BodyOf(a) /\ Fail(a, "closing", {"reused"})
    <2> USE DEF Fail
    <2>1. TypeOK'
      BY <1>1, <1>7 DEF IInv, TypeOK, OnConnection, Errors
    <2>2. pc'[a] = "closing" /\ err'[a] = {"reused"}
      BY <1>7 DEF IInv, TypeOK
    <2>3. AttemptOK(a)'
      BY <1>1, <1>2, <1>4, <1>5, <1>7, <2>2
      DEF AttemptOK, HandlerOK, SessionOK, HoldOK, EntryOK, AnswerOK, KeyOf, BodyOf, Definite
    <2>4. Local(a)
      BY <1>1, <1>7 DEF IInv, TypeOK, Local
    <2> QED  BY <2>1, <2>3, <2>4, LocalStep
  <1>8. CASE /\ BodyOf(kept) = BodyOf(a) /\ pc' = [pc EXCEPT ![a] = "committing"]
             /\ entry' = [entry EXCEPT ![a] = kept] /\ err' = err
    <2>1. TypeOK'
      BY <1>1, <1>3, <1>8 DEF IInv, TypeOK, OnConnection
    <2>2. pc'[a] = "committing" /\ err'[a] = {} /\ entry'[a] = kept
      BY <1>4, <1>8 DEF IInv, TypeOK
    <2>3. request[kept] = request[a]
      <3>1. request[kept] \in Requests
        BY <1>3, BookRequested
      <3>2. request[a] \in Requests
        BY <1>4 DEF IInv, TypeOK
      <3> QED  BY <1>3, <1>8, <3>1, <3>2 DEF Requests, KeyOf, BodyOf
    <2>4. AttemptOK(a)'
      BY <1>1, <1>3, <1>4, <1>5, <2>2, <2>3
      DEF AttemptOK, HandlerOK, SessionOK, HoldOK, EntryOK, AnswerOK
    <2>5. Local(a)
      BY <1>1, <1>8 DEF IInv, TypeOK, Local
    <2> QED  BY <2>1, <2>4, <2>5, LocalStep
  <1> QED  BY <1>6, <1>7, <1>8

\* The work goes on under the key it holds.
LEMMA PostStep ==
    ASSUME IInv, NEW a \in Attempts, Post(a)
    PROVE  IInv'
  <1>1. TypeOK' /\ Local(a)
    <2> USE DEF Post, Working, Goto, Uninvolved, handlerVars, serverVars
    <2>1. TypeOK'
      BY DEF IInv, TypeOK, Records, Statements, OnConnection, Errors
    <2>2. Local(a)
      BY DEF IInv, TypeOK, Local
    <2> QED  BY <2>1, <2>2
  <1>2. /\ pc[a] = "posting" /\ pc'[a] = "settling"
        /\ UNCHANGED <<request, record, book, answer, budget, session, holds, err, entry>>
    BY DEF IInv, TypeOK, Post, Working, Goto, Uninvolved, handlerVars, serverVars
  <1>3. HandlerOK(a) /\ SessionOK(a) /\ HoldOK(a) /\ EntryOK(a) /\ AnswerOK(a)
    BY DEF IInv, AttemptOK
  <1>4. HandlerOK(a)' /\ SessionOK(a)'
    BY <1>2, <1>3 DEF HandlerOK, SessionOK, HoldOK, KeyOf, BodyOf, Definite
  <1>5. HoldOK(a)' /\ EntryOK(a)' /\ AnswerOK(a)'
    BY <1>2, <1>3 DEF HandlerOK, SessionOK, HoldOK, EntryOK, AnswerOK, Response, Blocked, KeyOf
  <1> QED  BY <1>1, <1>4, <1>5, LocalStep DEF AttemptOK

\* Refused work gives its key up.
LEMMA PostRefusedStep ==
    ASSUME IInv, NEW a \in Attempts, PostRefused(a)
    PROVE  IInv'
  <1>1. TypeOK' /\ Local(a)
    <2> USE DEF PostRefused, Working, Goto, Uninvolved, Fail, handlerVars, serverVars
    <2>1. TypeOK'
      BY DEF IInv, TypeOK, Records, Statements, OnConnection, Errors
    <2>2. Local(a)
      BY DEF IInv, TypeOK, Local
    <2> QED  BY <2>1, <2>2
  <1>2. /\ pc[a] = "posting" /\ pc'[a] = "closing" /\ session[a] = "open"
        /\ err'[a] = {"refused"} /\ holds' = holds \ {a}
        /\ UNCHANGED <<request, record, book, answer, budget, session, entry>>
    BY DEF IInv, TypeOK, PostRefused, Working, Goto, Uninvolved, Fail, handlerVars, serverVars
  <1>3. HandlerOK(a) /\ SessionOK(a) /\ HoldOK(a) /\ EntryOK(a) /\ AnswerOK(a)
    BY DEF IInv, AttemptOK
  <1>4. HandlerOK(a)' /\ SessionOK(a)'
    BY <1>2, <1>3 DEF HandlerOK, SessionOK, HoldOK, KeyOf, BodyOf, Definite
  <1>5. HoldOK(a)' /\ EntryOK(a)' /\ AnswerOK(a)'
    BY <1>2, <1>3 DEF HandlerOK, SessionOK, HoldOK, EntryOK, AnswerOK, Response, Blocked, KeyOf
  <1> QED  BY <1>1, <1>4, <1>5, LocalStep DEF AttemptOK

\* A settled attempt answers with its own entry, still held.
LEMMA SettleStep ==
    ASSUME IInv, NEW a \in Attempts, Settle(a)
    PROVE  IInv'
  <1>1. TypeOK' /\ Local(a)
    <2> USE DEF Settle, Working, Goto, Uninvolved, handlerVars, serverVars
    <2>1. TypeOK'
      BY DEF IInv, TypeOK, Records, Statements, OnConnection, Errors
    <2>2. Local(a)
      BY DEF IInv, TypeOK, Local
    <2> QED  BY <2>1, <2>2
  <1>2. /\ pc[a] = "settling" /\ pc'[a] = "committing" /\ session[a] = "open"
        /\ entry'[a] = a
        /\ UNCHANGED <<request, record, book, answer, budget, session, holds, err>>
    BY DEF IInv, TypeOK, Settle, Working, Goto, Uninvolved, handlerVars, serverVars
  <1>3. HandlerOK(a) /\ SessionOK(a) /\ HoldOK(a) /\ EntryOK(a) /\ AnswerOK(a)
    BY DEF IInv, AttemptOK
  <1>4. HandlerOK(a)' /\ SessionOK(a)'
    BY <1>2, <1>3 DEF HandlerOK, SessionOK, HoldOK, KeyOf, BodyOf, Definite
  <1>5. HoldOK(a)' /\ EntryOK(a)' /\ AnswerOK(a)'
    BY <1>2, <1>3, NoneAssumption DEF HandlerOK, SessionOK, HoldOK, EntryOK, AnswerOK, Response, Blocked, KeyOf
  <1> QED  BY <1>1, <1>4, <1>5, LocalStep DEF AttemptOK

\* A rollback lets the key go.
LEMMA CloseStep ==
    ASSUME IInv, NEW a \in Attempts, Close(a)
    PROVE  IInv'
  <1>1. TypeOK' /\ Local(a)
    <2> USE DEF Close, Working, Goto, Uninvolved, handlerVars, serverVars
    <2>1. TypeOK'
      BY DEF IInv, TypeOK, Records, Statements, OnConnection, Errors
    <2>2. Local(a)
      BY DEF IInv, TypeOK, Local
    <2> QED  BY <2>1, <2>2
  <1>2. /\ pc[a] = "closing" /\ pc'[a] = "finished" /\ session[a] = "open"
        /\ session'[a] = "rolled back" /\ holds' = holds \ {a}
        /\ UNCHANGED <<request, record, book, answer, budget, err, entry>>
    BY DEF IInv, TypeOK, Close, Working, Goto, Uninvolved, handlerVars, serverVars
  <1>3. HandlerOK(a) /\ SessionOK(a) /\ HoldOK(a) /\ EntryOK(a) /\ AnswerOK(a)
    BY DEF IInv, AttemptOK
  <1>4. HandlerOK(a)' /\ SessionOK(a)'
    BY <1>2, <1>3 DEF HandlerOK, SessionOK, HoldOK, KeyOf, BodyOf, Definite
  <1>5. HoldOK(a)' /\ EntryOK(a)' /\ AnswerOK(a)'
    BY <1>2, <1>3 DEF HandlerOK, SessionOK, HoldOK, EntryOK, AnswerOK, Response, Blocked, KeyOf
  <1> QED  BY <1>1, <1>4, <1>5, LocalStep DEF AttemptOK

\* COMMIT is sent with the entry named.
LEMMA SendCommitStep ==
    ASSUME IInv, NEW a \in Attempts, SendCommit(a)
    PROVE  IInv'
  <1>1. TypeOK' /\ Local(a)
    <2> USE DEF SendCommit, Working, Goto, Uninvolved, handlerVars, serverVars
    <2>1. TypeOK'
      BY DEF IInv, TypeOK, Records, Statements, OnConnection, Errors
    <2>2. Local(a)
      BY DEF IInv, TypeOK, Local
    <2> QED  BY <2>1, <2>2
  <1>2. /\ pc[a] = "committing" /\ pc'[a] = "in flight"
        /\ session[a] = "open" /\ session'[a] = "commit"
        /\ UNCHANGED <<request, record, book, answer, budget, holds, err, entry>>
    BY DEF IInv, TypeOK, SendCommit, Working, Goto, Uninvolved, handlerVars, serverVars
  <1>3. HandlerOK(a) /\ SessionOK(a) /\ HoldOK(a) /\ EntryOK(a) /\ AnswerOK(a)
    BY DEF IInv, AttemptOK
  <1>4. HandlerOK(a)' /\ SessionOK(a)'
    BY <1>2, <1>3 DEF HandlerOK, SessionOK, HoldOK, KeyOf, BodyOf, Definite
  <1>5. HoldOK(a)' /\ EntryOK(a)' /\ AnswerOK(a)'
    BY <1>2, <1>3 DEF HandlerOK, SessionOK, HoldOK, EntryOK, AnswerOK, Response, Blocked, KeyOf
  <1> QED  BY <1>1, <1>4, <1>5, LocalStep DEF AttemptOK

\* A COMMIT the server answered is one it applied.
LEMMA CommitAnsweredStep ==
    ASSUME IInv, NEW a \in Attempts, CommitAnswered(a)
    PROVE  IInv'
  <1>1. TypeOK' /\ Local(a)
    <2> USE DEF CommitAnswered, Goto, Uninvolved, handlerVars, serverVars
    <2>1. TypeOK'
      BY DEF IInv, TypeOK, Records, Statements, OnConnection, Errors
    <2>2. Local(a)
      BY DEF IInv, TypeOK, Local
    <2> QED  BY <2>1, <2>2
  <1>2. /\ pc[a] = "in flight" /\ pc'[a] = "finished" /\ session[a] = "committed"
        /\ UNCHANGED <<request, record, book, answer, budget, session, holds, err, entry>>
    BY DEF IInv, TypeOK, CommitAnswered, Goto, Uninvolved, handlerVars, serverVars
  <1>3. HandlerOK(a) /\ SessionOK(a) /\ HoldOK(a) /\ EntryOK(a) /\ AnswerOK(a)
    BY DEF IInv, AttemptOK
  <1>4. HandlerOK(a)' /\ SessionOK(a)'
    BY <1>2, <1>3 DEF HandlerOK, SessionOK, HoldOK, KeyOf, BodyOf, Definite
  <1>5. HoldOK(a)' /\ EntryOK(a)' /\ AnswerOK(a)'
    BY <1>2, <1>3 DEF HandlerOK, SessionOK, HoldOK, EntryOK, AnswerOK, Response, Blocked, KeyOf
  <1> QED  BY <1>1, <1>4, <1>5, LocalStep DEF AttemptOK

\* An interruption adds nothing definite to what the handler was left with.
LEMMA InterruptedStep ==
    ASSUME IInv, NEW a \in Attempts, NEW errors \in SUBSET Errors,
           pc[a] \in {"waiting"} \cup OnConnection,
           errors # {}, errors \cap Definite = err[a] \cap Definite,
           Fail(a, "finished", errors), Uninvolved, UNCHANGED serverVars
    PROVE  IInv'
  <1> USE NoneAssumption DEF Fail, Goto, Uninvolved, serverVars
  <1>1. TypeOK'
    BY DEF IInv, TypeOK, Records, Statements, OnConnection, Errors
  <1>2. /\ pc'[a] = "finished" /\ err'[a] = errors
        /\ pc[a] # "unsent" /\ pc[a] # "finished"
    BY DEF IInv, TypeOK, OnConnection, Statements
  <1>3. HandlerOK(a)'
    <2>1. \A e \in Definite : e \in errors <=> e \in err[a]
      OBVIOUS
    <2>2. "gone" \notin errors /\ ("reused" \in errors <=> "reused" \in err[a])
      BY <2>1 DEF Definite, IInv, AttemptOK, HandlerOK
    <2> QED  BY <1>2, <2>2 DEF IInv, AttemptOK, HandlerOK, KeyOf, BodyOf
  <1>4. SessionOK(a)'
    BY <1>2 DEF IInv, AttemptOK, SessionOK
  <1>5. HoldOK(a)'
    BY DEF IInv, AttemptOK, HoldOK, Blocked, KeyOf
  <1>6. EntryOK(a)'
    BY <1>2 DEF EntryOK
  <1>7. AnswerOK(a)'
    BY <1>2 DEF IInv, AttemptOK, AnswerOK
  <1>8. Local(a)
    BY DEF IInv, TypeOK, Local
  <1> QED  BY <1>1, <1>3, <1>4, <1>5, <1>6, <1>7, <1>8, LocalStep DEF AttemptOK

\* A context that ends is such a stop.
LEMMA CutOffStep ==
    ASSUME IInv, NEW a \in Attempts, CutOff(a)
    PROVE  IInv'
  <1>1. PICK errors \in CutOffErrors(a) : Fail(a, "finished", errors)
    BY DEF CutOff
  <1>2. pc[a] # "closing" => err[a] = {}
    BY DEF IInv, AttemptOK, HandlerOK, CutOff, OnConnection, Statements
  <1>3. err[a] \in SUBSET Errors
    BY DEF IInv, TypeOK
  <1>4. /\ errors \in SUBSET Errors /\ errors # {}
        /\ errors \cap Definite = err[a] \cap Definite
    <2>1. CASE pc[a] = "closing"
      <3>1. errors \in {err[a], err[a] \cup {"context"}}
        BY <1>1, <2>1 DEF CutOffErrors
      <3>2. err[a] # {}
        BY <2>1 DEF IInv, AttemptOK, HandlerOK
      <3> QED  BY <1>3, <3>1, <3>2 DEF Errors, Definite
    <2>2. CASE pc[a] # "closing"
      <3>1. errors \in {{"context"}, {"tx done"}}
        BY <1>1, <2>2 DEF CutOffErrors
      <3> QED  BY <1>2, <2>2, <3>1 DEF Errors, Definite
    <2> QED  BY <2>1, <2>2
  <1> QED  BY <1>1, <1>4, InterruptedStep DEF CutOff

\* So is a connection that is lost.
LEMMA ConnectionLostStep ==
    ASSUME IInv, NEW a \in Attempts, ConnectionLost(a)
    PROVE  IInv'
  <1>1. PICK errors \in LostErrors(a) : Fail(a, "finished", errors)
    BY DEF ConnectionLost
  <1>2. pc[a] # "closing" => err[a] = {}
    BY DEF IInv, AttemptOK, HandlerOK, ConnectionLost, OnConnection, Statements
  <1>3. err[a] \in SUBSET Errors
    BY DEF IInv, TypeOK
  <1>4. /\ errors \in SUBSET Errors /\ errors # {}
        /\ errors \cap Definite = err[a] \cap Definite
    <2>1. CASE pc[a] = "closing"
      <3>1. errors \in {err[a] \cup {"lost"}, err[a] \cup {"lost", "bad conn"}}
        BY <1>1, <2>1 DEF LostErrors
      <3> QED  BY <1>3, <3>1 DEF Errors, Definite
    <2>2. CASE pc[a] # "closing"
      <3>1. errors \in {{"lost"}, {"lost", "bad conn"}}
        BY <1>1, <2>2 DEF LostErrors
      <3> QED  BY <1>2, <2>2, <3>1 DEF Errors, Definite
    <2> QED  BY <2>1, <2>2
  <1> QED  BY <1>1, <1>4, InterruptedStep DEF ConnectionLost

\* A budget ends without touching the handler or the server.
LEMMA BudgetEndsStep ==
    ASSUME IInv, NEW a \in Attempts, NEW why \in {"out", "gone"}, BudgetEnds(a, why)
    PROVE  IInv'
  <1>1. TypeOK' /\ Local(a)
    <2> USE DEF BudgetEnds, handlerVars, serverVars
    <2>1. TypeOK'
      BY DEF IInv, TypeOK, Records, Statements, OnConnection, Errors
    <2>2. Local(a)
      BY DEF IInv, TypeOK, Local
    <2> QED  BY <2>1, <2>2
  <1>2. /\ request[a] # None /\ budget'[a] # "live"
        /\ UNCHANGED <<request, record, book, answer, pc, session, holds, err, entry>>
    BY DEF IInv, TypeOK, BudgetEnds, handlerVars, serverVars
  <1>3. HandlerOK(a) /\ SessionOK(a) /\ HoldOK(a) /\ EntryOK(a) /\ AnswerOK(a)
    BY DEF IInv, AttemptOK
  <1>4. HandlerOK(a)' /\ SessionOK(a)'
    BY <1>2, <1>3 DEF HandlerOK, SessionOK, HoldOK, KeyOf, BodyOf, Definite
  <1>5. HoldOK(a)' /\ EntryOK(a)' /\ AnswerOK(a)'
    BY <1>2, <1>3 DEF HandlerOK, SessionOK, HoldOK, EntryOK, AnswerOK, Response, Blocked, KeyOf
  <1> QED  BY <1>1, <1>4, <1>5, LocalStep DEF AttemptOK

\* Whatever the server rolls back was never in the book.
LEMMA ServerRollsBackStep ==
    ASSUME IInv, NEW a \in Attempts, ServerRollsBack(a)
    PROVE  IInv'
  <1>1. TypeOK' /\ Local(a)
    <2> USE DEF ServerRollsBack, handlerVars, serverVars
    <2>1. TypeOK'
      BY DEF IInv, TypeOK, Records, Statements, OnConnection, Errors
    <2>2. Local(a)
      BY DEF IInv, TypeOK, Local
    <2> QED  BY <2>1, <2>2
  <1>2. /\ session[a] \in {"open", "commit"} /\ session'[a] = "rolled back"
        /\ holds' = holds \ {a}
        /\ UNCHANGED <<request, record, book, answer, pc, budget, err, entry>>
    BY DEF IInv, TypeOK, ServerRollsBack, handlerVars, serverVars
  <1>3. HandlerOK(a) /\ SessionOK(a) /\ HoldOK(a) /\ EntryOK(a) /\ AnswerOK(a)
    BY DEF IInv, AttemptOK
  <1>4. HandlerOK(a)' /\ SessionOK(a)'
    BY <1>2, <1>3 DEF HandlerOK, SessionOK, HoldOK, KeyOf, BodyOf, Definite
  <1>5. HoldOK(a)' /\ EntryOK(a)' /\ AnswerOK(a)'
    BY <1>2, <1>3 DEF HandlerOK, SessionOK, HoldOK, EntryOK, AnswerOK, Response, Blocked, KeyOf
  <1> QED  BY <1>1, <1>4, <1>5, LocalStep DEF AttemptOK

\* Whatever an attempt is told, the record is of the kind a client is sent.
LEMMA ResponseType ==
    ASSUME IInv, NEW a \in Attempts, pc[a] = "finished"
    PROVE  Response(a) \in Answers
  <1>1. CASE err[a] = {}
    <2>1. entry[a] \in Attempts
      BY <1>1 DEF IInv, TypeOK, AttemptOK, EntryOK
    <2> QED  BY <1>1, <2>1 DEF Response, Answers
  <1>2. CASE err[a] # {}
    <2>1. Refusal(err[a]) \in Refusals \cup Unsure
      BY DEF Refusal, Refusals, Unsure
    <2> QED  BY <1>2, <2>1 DEF Response, Answers
  <1> QED  BY <1>1, <1>2

\* An answer given to an attempt disturbs nothing but that.
LEMMA TellsStep ==
    ASSUME IInv, NEW a \in Attempts, NEW r \in Answers, Tells(a, r), request[a] # None,
           r.status = "too late" \/ (pc[a] = "finished" /\ r = Response(a))
    PROVE  IInv'
  <1> USE NoneAssumption DEF Tells, handlerVars, serverVars
  <1>1. TypeOK'
    BY DEF IInv, TypeOK
  <1>2. answer'[a] = r
    BY DEF IInv, TypeOK
  <1>3. AttemptOK(a)'
    <2>1. HandlerOK(a)' /\ SessionOK(a)' /\ EntryOK(a)'
      BY DEF IInv, AttemptOK, HandlerOK, SessionOK, EntryOK, KeyOf, BodyOf
    <2>2. HoldOK(a)'
      BY DEF IInv, AttemptOK, HoldOK, KeyOf, Blocked
    <2>3. AnswerOK(a)'
      BY <1>2 DEF AnswerOK, Response
    <2> QED  BY <2>1, <2>2, <2>3 DEF AttemptOK
  <1>4. Local(a)
    BY DEF IInv, TypeOK, Local
  <1> QED  BY <1>1, <1>3, <1>4, LocalStep

\* The handler answers as it was left.
LEMMA HandlerAnswersStep ==
    ASSUME IInv, NEW a \in Attempts, HandlerAnswers(a)
    PROVE  IInv'
  <1>1. request[a] # None
    BY DEF HandlerAnswers, IInv, AttemptOK, HandlerOK
  <1> QED  BY <1>1, ResponseType, TellsStep DEF HandlerAnswers

\* The deadline answers for a request that was sent.
LEMMA DeadlineAnswersStep ==
    ASSUME IInv, NEW a \in Attempts, DeadlineAnswers(a)
    PROVE  IInv'
  <1> DEFINE late == [status |-> "too late", entry |-> None]
  <1>1. late \in Answers
    BY DEF Answers, Unsure
  <1>2. request[a] # None
    BY DEF DeadlineAnswers, IInv, AttemptOK, HandlerOK
  <1> QED  BY <1>1, <1>2, TellsStep DEF DeadlineAnswers

\* A request sent is the only thing that changes, and nobody had asked it before.
LEMMA SendStep ==
    ASSUME IInv, NEW a \in Attempts, NEW q \in Requests, Send(a, q)
    PROVE  IInv'
  <1> USE NoneAssumption, ContractAssumption DEF Send, Ask
  <1>1. TypeOK'
    BY DEF IInv, TypeOK
  <1>2. /\ request[a] = None /\ request'[a] = q /\ q # None
        /\ pc[a] = "unsent" /\ pc'[a] = "waiting"
    <2>1. request[a] = None /\ q # None
      OBVIOUS
    <2>2. pc[a] = "unsent"
      BY <2>1 DEF IInv, AttemptOK, HandlerOK
    <2> QED  BY <2>1, <2>2 DEF IInv, TypeOK
  <1>3. \A b \in Attempts \ {a} : request'[b] = request[b] /\ pc'[b] = pc[b]
    BY DEF IInv, TypeOK
  <1>4. a \notin book /\ a \notin holds /\ answer[a] = None /\ err[a] = {}
    BY <1>2 DEF IInv, AttemptOK, HandlerOK, SessionOK, AnswerOK
  <1>5. \A k \in Keys : record[k] # a
    BY <1>4 DEF IInv, OneEntryPerKey
  <1>6. OneEntryPerKey'
    <2>1. \A b \in book : request'[b] = request[b]
      BY <1>3, <1>4 DEF IInv, TypeOK
    <2> QED  BY <2>1 DEF IInv, OneEntryPerKey, KeyOf
  <1>7. AttemptOK(a)'
    BY <1>2, <1>4 DEF IInv, AttemptOK, HandlerOK, SessionOK, HoldOK, EntryOK, AnswerOK
  <1>8. ASSUME NEW b \in Attempts \ {a}
        PROVE  AttemptOK(b)'
    <2>1. AttemptOK(b)
      BY DEF IInv
    <2>2. HandlerOK(b)'
      <3>1. request[b] # None => KeyOf(b) \in Keys
        BY DEF IInv, TypeOK, KeyOf, Requests
      <3>2. pc[b] = "replaying" \/ err[b] # {} => request[b] # None
        BY <2>1 DEF AttemptOK, HandlerOK
      <3>3. record[KeyOf(b)] # None /\ KeyOf(b) \in Keys =>
                record[KeyOf(b)] \in Attempts \ {a}
        BY <1>5 DEF IInv, TypeOK, Records
      <3> QED  BY <1>3, <2>1, <3>1, <3>2, <3>3 DEF AttemptOK, HandlerOK, KeyOf, BodyOf
    <2>3. SessionOK(b)'
      BY <1>3, <2>1 DEF AttemptOK, SessionOK
    <2>4. HoldOK(b)'
      BY <1>3, <1>4, <2>1 DEF IInv, TypeOK, AttemptOK, HoldOK, Blocked, KeyOf
    <2>5. EntryOK(b)'
      <3>1. entry[b] \in book => entry[b] # a /\ entry[b] \in Attempts
        BY <1>4 DEF IInv, TypeOK
      <3> QED  BY <1>3, <2>1, <3>1 DEF AttemptOK, EntryOK
    <2>6. AnswerOK(b)'
      BY <1>3, <2>1 DEF AttemptOK, AnswerOK, Response
    <2> QED  BY <2>2, <2>3, <2>4, <2>5, <2>6 DEF AttemptOK
  <1> QED  BY <1>1, <1>6, <1>7, <1>8 DEF IInv

\* A commit: what the attempt held becomes the record of its key.
LEMMA ServerCommitsStep ==
    ASSUME IInv, NEW a \in Attempts, ServerCommits(a)
    PROVE  IInv'
  <1> USE NoneAssumption DEF ServerCommits, handlerVars
  <1>1. /\ session[a] = "commit" /\ session'[a] = "committed"
        /\ holds' = holds \ {a}
        /\ \A b \in Attempts \ {a} : session'[b] = session[b]
    BY DEF IInv, TypeOK
  <1>2. CASE a \notin holds
    <2>1. TypeOK'
      BY <1>2 DEF IInv, TypeOK
    <2>2. AttemptOK(a)'
      <3>1. AttemptOK(a) /\ UNCHANGED <<request, record, book, holds, pc, err, entry, answer, budget>>
        BY <1>2 DEF IInv
      <3>2. HandlerOK(a)' /\ HoldOK(a)' /\ AnswerOK(a)'
        BY <1>2, <3>1 DEF AttemptOK, HandlerOK, HoldOK, AnswerOK, Response, KeyOf, BodyOf
      <3>3. SessionOK(a)' /\ EntryOK(a)'
        BY <1>1, <1>2, <3>1 DEF AttemptOK, SessionOK, EntryOK
      <3> QED  BY <3>2, <3>3 DEF AttemptOK
    <2>3. Local(a)
      BY <1>1, <1>2 DEF Local
    <2> QED  BY <2>1, <2>2, <2>3, LocalStep
  <1>3. CASE a \in holds
    <2> DEFINE k == KeyOf(a)
    <2>1. k \in Keys /\ record[k] = None /\ ~Blocked(a) /\ request[a] # None
      <3>1. record[k] = None /\ ~Blocked(a) /\ request[a] # None
        BY <1>3 DEF IInv, AttemptOK, HoldOK
      <3>2. request[a] \in Requests
        BY <3>1 DEF IInv, TypeOK
      <3> QED  BY <3>1, <3>2 DEF KeyOf, Requests
    <2>2. /\ record' = [record EXCEPT ![k] = a] /\ book' = book \cup {a}
          /\ record'[k] = a
      BY <1>3, <2>1 DEF IInv, TypeOK, Records
    <2>3. TypeOK'
      BY <2>2 DEF IInv, TypeOK, Records
    <2>4. \A j \in Keys : record[j] # None => record'[j] = record[j]
      BY <2>1, <2>2 DEF IInv, TypeOK, Records
    <2>5. OneEntryPerKey'
      <3>1. \A b \in book : KeyOf(b) \in Keys /\ KeyOf(b) # k
        <4>1. \A b \in book : KeyOf(b) \in Keys
          BY BookRequested DEF KeyOf, Requests
        <4>2. \A b \in book : record[KeyOf(b)] = b
          BY DEF IInv, OneEntryPerKey
        <4>3. \A b \in book : b # None
          BY BookRequested, NoneAssumption
        <4> HIDE DEF k
        <4> QED  BY <2>1, <4>1, <4>2, <4>3
      <3> QED  BY <2>1, <2>2, <3>1 DEF IInv, OneEntryPerKey, TypeOK, Records, KeyOf
    <2>6. AttemptOK(a)'
      BY <1>1, <1>3, <2>2, <2>4
      DEF IInv, AttemptOK, HandlerOK, SessionOK, HoldOK, EntryOK, AnswerOK, Response
    <2>7. ASSUME NEW b \in Attempts \ {a}
          PROVE  AttemptOK(b)'
      <3>1. AttemptOK(b) /\ (b \in holds' <=> b \in holds) /\ (b \in book' <=> b \in book)
        BY <1>1, <2>2 DEF IInv
      <3>2. request[b] # None => KeyOf(b) \in Keys
        BY DEF IInv, TypeOK, KeyOf, Requests
      <3>3. pc[b] = "replaying" \/ err[b] # {} => request[b] # None
        BY <3>1 DEF AttemptOK, HandlerOK
      <3>4. HandlerOK(b)'
        BY <2>4, <3>1, <3>2, <3>3 DEF AttemptOK, HandlerOK, KeyOf, BodyOf
      <3>5. SessionOK(b)'
        BY <1>1, <3>1 DEF AttemptOK, SessionOK
      <3>6. HoldOK(b)'
        <4>1. b \in holds => KeyOf(b) # k
          BY <2>1 DEF Blocked
        <4>2. b \in holds => record'[KeyOf(b)] = None
          <5>1. b \in holds => record[KeyOf(b)] = None /\ KeyOf(b) \in Keys
            BY <3>1, <3>2 DEF AttemptOK, HoldOK
          <5>2. \A j \in Keys \ {k} : record'[j] = record[j]
            BY <2>1, <2>2 DEF IInv, TypeOK, Records
          <5> QED  BY <4>1, <5>1, <5>2
        <4>3. b \in holds => request[b] # None /\ ~Blocked(b)
          BY <3>1 DEF AttemptOK, HoldOK
        <4>4. ~Blocked(b) => ~Blocked(b)'
          BY <1>1 DEF Blocked, KeyOf
        <4> QED  BY <3>1, <4>2, <4>3, <4>4 DEF HoldOK, KeyOf
      <3>7. EntryOK(b)'
        BY <1>1, <2>2, <3>1 DEF AttemptOK, EntryOK
      <3>8. AnswerOK(b)'
        BY <3>1 DEF AttemptOK, AnswerOK, Response
      <3> QED  BY <3>4, <3>5, <3>6, <3>7, <3>8 DEF AttemptOK
    <2> QED  BY <2>3, <2>5, <2>6, <2>7 DEF IInv
  <1> QED  BY <1>2, <1>3

\* At first nothing was asked and nothing is kept.
LEMMA InitIInv == Init => IInv
  <1> SUFFICES ASSUME Init PROVE IInv
    OBVIOUS
  <1> USE DEF Init, PromiseInit
  <1>1. TypeOK
    BY DEF TypeOK, Records
  <1>2. OneEntryPerKey
    BY DEF OneEntryPerKey
  <1>3. ASSUME NEW a \in Attempts
        PROVE  AttemptOK(a)
    BY DEF AttemptOK, HandlerOK, SessionOK, HoldOK, EntryOK, AnswerOK
  <1> QED  BY <1>1, <1>2, <1>3 DEF IInv

\* A stuttering step changes nothing.
LEMMA StutterStep == IInv /\ UNCHANGED vars => IInv'
  <1> SUFFICES ASSUME IInv, UNCHANGED vars PROVE IInv'
    OBVIOUS
  <1> USE DEF vars
  <1>1. TypeOK' /\ OneEntryPerKey'
    BY DEF IInv, TypeOK, OneEntryPerKey, KeyOf
  <1>2. ASSUME NEW a \in Attempts
        PROVE  AttemptOK(a)'
    <2>1. HandlerOK(a)' /\ SessionOK(a)' /\ EntryOK(a)'
      BY DEF IInv, AttemptOK, HandlerOK, SessionOK, EntryOK, KeyOf, BodyOf
    <2>2. HoldOK(a)'
      BY DEF IInv, AttemptOK, HoldOK, KeyOf, Blocked
    <2>3. AnswerOK(a)'
      BY DEF IInv, AttemptOK, AnswerOK, Response
    <2> QED  BY <2>1, <2>2, <2>3 DEF AttemptOK
  <1> QED  BY <1>1, <1>2 DEF IInv

\* Whatever the handler does next keeps the invariant.
LEMMA ProceedsStep ==
    ASSUME IInv, NEW a \in Attempts, Proceeds(a)
    PROVE  IInv'
  BY AcquireStep, OverloadedStep, BeginStep, ReserveRefusedStep, LockTimeoutStep,
     ReserveDuplicateStep, ReserveStep, ReplayStep, PostStep, PostRefusedStep, SettleStep,
     CloseStep, SendCommitStep, CommitAnsweredStep, CutOffStep, ConnectionLostStep
  DEF Proceeds

\* The invariant is inductive.
LEMMA NextStep == IInv /\ [Next]_vars => IInv'
  <1> SUFFICES ASSUME IInv, Next PROVE IInv'
    BY StutterStep
  <1> PICK a \in Attempts :
        \/ \E q \in Requests : Send(a, q)
        \/ Proceeds(a)
        \/ ConnectionLost(a)
        \/ \E why \in {"out", "gone"} : BudgetEnds(a, why)
        \/ ServerCommits(a)
        \/ ServerRollsBack(a)
        \/ Answered(a)
    BY DEF Next
  <1>1. CASE \E q \in Requests : Send(a, q)
    BY <1>1, SendStep
  <1>2. CASE Proceeds(a)
    BY <1>2, ProceedsStep
  <1>3. CASE ConnectionLost(a)
    BY <1>3, ConnectionLostStep
  <1>4. CASE \E why \in {"out", "gone"} : BudgetEnds(a, why)
    BY <1>4, BudgetEndsStep
  <1>5. CASE ServerCommits(a)
    BY <1>5, ServerCommitsStep
  <1>6. CASE ServerRollsBack(a)
    BY <1>6, ServerRollsBackStep
  <1>7. CASE Answered(a)
    BY <1>7, HandlerAnswersStep, DeadlineAnswersStep DEF Answered
  <1> QED  BY <1>1, <1>2, <1>3, <1>4, <1>5, <1>6, <1>7

-----------------------------------------------------------------------------
(* The theorems.                                                           *)

\* Handlers, transactions and answers agree in every reachable state, for any number of
\* attempts, keys and bodies and any size of pool.
THEOREM Invariance == Spec => []IInv
  BY InitIInv, NextStep, PTL DEF Spec

\* An entry and its key's record are committed together, and a key has one entry.
THEOREM AlwaysOneEntryPerKey == Spec => []OneEntryPerKey
  <1>1. IInv => OneEntryPerKey
    BY DEF IInv
  <1> QED  BY <1>1, Invariance, PTL

\* A 201 names an entry in the book, written for the same key and body.
THEOREM CreatedIsAlwaysHeld == Spec => []CreatedIsHeld
  <1>1. IInv => CreatedIsHeld
    <2> SUFFICES ASSUME IInv, NEW a \in Attempts, answer[a] # None,
                        answer[a].status = "created"
                 PROVE  answer[a].entry \in book /\ request[answer[a].entry] = request[a]
      BY DEF CreatedIsHeld
    <2>1. pc[a] = "finished" /\ answer[a] = Response(a)
      BY DEF IInv, AttemptOK, AnswerOK
    <2>2. err[a] = {} /\ answer[a].entry = entry[a]
      <3>1. Refusal(err[a]) # "created"
        BY DEF Refusal
      <3> QED  BY <2>1, <3>1 DEF Response
    <2> QED  BY <2>1, <2>2 DEF IInv, AttemptOK, EntryOK
  <1> QED  BY <1>1, Invariance, PTL

\* What a refusal says of the error behind it.
LEMMA RefusalOf ==
    ASSUME NEW a \in Attempts, Response(a).status \in Refusals
    PROVE  err[a] \cap Definite # {} /\ (Response(a).status = "reused" => "reused" \in err[a])
  BY DEF Response, Refusal, Refusals, Definite

\* A request answered with a refusal is not in the book and never will be.
THEOREM RefusedIsNeverEverWritten == Spec => []RefusedIsNeverWritten
  <1>1. IInv => RefusedIsNeverWritten
    <2> SUFFICES ASSUME IInv, NEW a \in book, answer[a] # None,
                        answer[a].status \in Refusals
                 PROVE  FALSE
      BY DEF RefusedIsNeverWritten
    <2>1. a \in Attempts
      BY DEF IInv, TypeOK
    <2>2. answer[a] = Response(a)
      BY <2>1 DEF IInv, AttemptOK, AnswerOK, Refusals
    <2>3. err[a] \cap Definite # {}
      BY <2>1, <2>2, RefusalOf
    <2> QED  BY <2>1, <2>3 DEF IInv, AttemptOK, HandlerOK
  <1> QED  BY <1>1, Invariance, PTL

\* replay always finds the row its reservation was refused by.
THEOREM ReplayAlwaysFindsTheRow == Spec => []ReplayFindsTheRow
  <1>1. IInv => ReplayFindsTheRow
    BY DEF IInv, AttemptOK, HandlerOK, ReplayFindsTheRow
  <1> QED  BY <1>1, Invariance, PTL

-----------------------------------------------------------------------------
(* RetryContract implements RetryPromise.                                  *)

\* The answer a finished handler gives is a truthful one.
LEMMA ResponseIsTruthful ==
    ASSUME IInv, NEW a \in Attempts, pc[a] = "finished"
    PROVE  Truthful(a, Response(a))
  <1> DEFINE kept == record[KeyOf(a)]
  <1>1. request[a] # None /\ KeyOf(a) \in Keys
    <2>1. request[a] # None
      BY DEF IInv, AttemptOK, HandlerOK
    <2>2. request[a] \in Requests
      BY <2>1 DEF IInv, TypeOK
    <2> QED  BY <2>1, <2>2 DEF KeyOf, Requests
  <1>2. CASE err[a] = {}
    <2>1. entry[a] \in book /\ request[entry[a]] = request[a]
      BY <1>2 DEF IInv, AttemptOK, EntryOK
    <2>2. kept = entry[a] /\ BodyOf(kept) = BodyOf(a)
      BY <2>1 DEF IInv, OneEntryPerKey, KeyOf, BodyOf
    <2> QED  BY <1>2, <2>2 DEF Truthful, Response, Refusals
  <1>3. CASE err[a] # {}
    <2>1. Response(a).status # "created"
      BY <1>3 DEF Response, Refusal
    <2>2. ASSUME Response(a).status \in Refusals
          PROVE  /\ kept # a
                 /\ Response(a).status = "reused" => kept # None /\ BodyOf(kept) # BodyOf(a)
      <3>1. /\ err[a] \cap Definite # {}
            /\ Response(a).status = "reused" => "reused" \in err[a]
        BY <2>2, RefusalOf
      <3>2. a \notin book
        BY <3>1 DEF IInv, AttemptOK, HandlerOK
      <3>3. kept # a
        BY <1>1, <3>2, NoneAssumption DEF IInv, OneEntryPerKey
      <3> QED  BY <3>1, <3>3 DEF IInv, AttemptOK, HandlerOK
    <2> QED  BY <2>1, <2>2 DEF Truthful, Refusals
  <1> QED  BY <1>2, <1>3

\* The commit of what an attempt holds is the promise's Record.
LEMMA CommitRecords ==
    ASSUME IInv, NEW a \in Attempts, ServerCommits(a)
    PROVE  Record(a) \/ UNCHANGED promiseVars
  <1>1. CASE a \notin holds
    BY <1>1 DEF ServerCommits, promiseVars
  <1>2. CASE a \in holds
    <2>1. request[a] # None /\ record[KeyOf(a)] = None
      BY <1>2 DEF IInv, AttemptOK, HoldOK
    <2>2. ASSUME answer[a] # None, answer[a].status # "too late"
          PROVE  answer[a].status \in Unsure
      <3>1. pc[a] = "finished" /\ answer[a] = Response(a)
        BY <2>2 DEF IInv, AttemptOK, AnswerOK
      <3>2. err[a] # {}
        BY <3>1 DEF ServerCommits, IInv, AttemptOK, EntryOK
      <3>3. err[a] \cap Definite = {}
        BY <1>2 DEF IInv, AttemptOK, HandlerOK
      <3>4. \A e \in Definite : e \notin err[a]
        BY <3>3
      <3>5. Refusal(err[a]) \in Unsure
        BY <3>4 DEF Refusal, Definite, Unsure
      <3> QED  BY <3>1, <3>2, <3>5 DEF Response
    <2> QED  BY <1>2, <2>1, <2>2 DEF ServerCommits, Record, Unsure
  <1> QED  BY <1>1, <1>2

\* Every step is one of the promise's, or changes nothing a client could tell.
LEMMA StepRefines == IInv /\ [Next]_vars => [PromiseNext]_promiseVars
  <1> SUFFICES ASSUME IInv, Next PROVE PromiseNext \/ UNCHANGED promiseVars
    BY DEF vars, promiseVars
  <1> PICK a \in Attempts :
        \/ \E q \in Requests : Send(a, q)
        \/ Proceeds(a)
        \/ ConnectionLost(a)
        \/ \E why \in {"out", "gone"} : BudgetEnds(a, why)
        \/ ServerCommits(a)
        \/ ServerRollsBack(a)
        \/ Answered(a)
    BY DEF Next
  <1>1. CASE \E q \in Requests : Send(a, q)
    BY <1>1 DEF Send, PromiseNext
  <1>2. CASE Proceeds(a) \/ ConnectionLost(a) \/ ServerRollsBack(a)
    <2>1. UNCHANGED <<request, record, answer>>
      BY <1>2 DEF Proceeds, Acquire, Overloaded, Begin, ReserveRefused, LockTimeout,
         KeyRefused, ReserveDuplicate, Reserve, Replay, Post, PostRefused, Settle, Close,
         SendCommit, CommitAnswered, CutOff, ConnectionLost, ServerRollsBack, Uninvolved,
         serverVars
    <2> QED  BY <2>1 DEF promiseVars
  <1>3. CASE \E why \in {"out", "gone"} : BudgetEnds(a, why)
    BY <1>3 DEF BudgetEnds, serverVars, promiseVars
  <1>4. CASE ServerCommits(a)
    BY <1>4, CommitRecords DEF PromiseNext
  <1>5. CASE HandlerAnswers(a)
    <2>1. request[a] # None
      BY <1>5 DEF HandlerAnswers, IInv, AttemptOK, HandlerOK
    <2>2. Tell(a, Response(a)) /\ Response(a) \in Answers
      BY <1>5, <2>1, ResponseType, ResponseIsTruthful
      DEF HandlerAnswers, Tells, Tell, serverVars
    <2> QED  BY <2>2 DEF PromiseNext
  <1>6. CASE DeadlineAnswers(a)
    <2> DEFINE late == [status |-> "too late", entry |-> None]
    <2>1. request[a] # None
      BY <1>6 DEF DeadlineAnswers, IInv, AttemptOK, HandlerOK
    <2>2. Truthful(a, late) /\ late \in Answers
      BY DEF Truthful, Refusals, Answers, Unsure
    <2>3. Tell(a, late)
      BY <1>6, <2>1, <2>2 DEF DeadlineAnswers, Tells, Tell, serverVars
    <2> QED  BY <2>2, <2>3 DEF PromiseNext
  <1> QED  BY <1>1, <1>2, <1>3, <1>4, <1>5, <1>6 DEF Answered

\* Whatever happens to the connections, transactions and budgets, a client sees what
\* RetryPromise allows.
THEOREM ThePromiseIsKept == Spec => KeepsThePromise
  <1>1. Init => PromiseInit
    BY DEF Init
  <1> QED  BY <1>1, StepRefines, Invariance, PTL DEF Spec, KeepsThePromise, PromiseSpec
=============================================================================
