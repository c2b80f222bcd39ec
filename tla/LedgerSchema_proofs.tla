------------------------ MODULE LedgerSchema_proofs ------------------------
(***************************************************************************)
(* LedgerSchema's safety properties hold for any number of sessions,       *)
(* entries, keys and savepoints.  IInv is shown inductive: a lemma says    *)
(* what a statement may leave behind (StatementStep), one per action says  *)
(* that it leaves just that, and Commit is the one place where the         *)
(* committed tables change (CommitStep).                                   *)
(***************************************************************************)
EXTENDS LedgerSchema, TLAPS

-----------------------------------------------------------------------------
(* Facts about the operators.                                              *)

\* What no transaction has written is caught trivially, over any tables.
LEMMA NoWorkOK ==
    ASSUME NEW tables
    PROVE  WorkOK(tables, NoWork)
  BY DEF WorkOK, EntriesCaught, KeysCaught, NoWork

\* Empty tables pass every check.
LEMMA NoRowsOK == TablesOK(NoRows) /\ NoRows \in Tables
  BY DEF TablesOK, NoRows, Tables

\* A transaction that has written nothing.
LEMMA NoWorkType == NoWork \in Work
  BY DEF NoWork, Work

\* What a session reads is checked tables, none newer than the committed ones.
LEMMA SeenOK ==
    ASSUME IInv, NEW s \in Sessions
    PROVE  /\ Seen(s) \in Tables
           /\ TablesOK(Seen(s))
           /\ Seen(s).txns \subseteq db.txns
  BY DEF IInv, TypeOK, Seen, SnapshotOK

\* Firing events keeps the types.
LEMMA FiredType ==
    ASSUME NEW w \in Work, NEW C
    PROVE  Fired(w, C) \in Work
  BY DEF Fired, Work, QueueAfterCheck

\* Firing touches only pending events and the queue.
LEMMA FiredFields ==
    ASSUME NEW w \in Work, NEW C
    PROVE  LET f == Fired(w, C) IN
           /\ f.txns = w.txns /\ f.legs = w.legs /\ f.net = w.net
           /\ f.keys = w.keys /\ f.touched = w.touched
           /\ f.due = IF TxnCheck \in C THEN {} ELSE w.due
           /\ f.qdue = IF QueueCheck \in C THEN {} ELSE w.qdue
           /\ f.kdue = IF KeyCheck \in C THEN {} ELSE w.kdue
           /\ f.queue = IF QueueCheck \in C THEN w.queue \ w.qdue ELSE w.queue
  BY DEF Fired, Work, QueueAfterCheck

\* Events that passed may be dropped: what they watched is no longer wrong.
LEMMA FiredOK ==
    ASSUME NEW committed \in Tables, NEW seen \in Tables, TablesOK(seen),
           seen.txns \subseteq committed.txns,
           NEW w \in Work, WorkOK(committed, w), NEW C, Passes(seen, w, C)
    PROVE  WorkOK(committed, Fired(w, C))
  <1> DEFINE f == Fired(w, C)
  <1>1. /\ f.txns = w.txns /\ f.legs = w.legs /\ f.net = w.net
        /\ f.keys = w.keys /\ f.touched = w.touched
        /\ f.due = IF TxnCheck \in C THEN {} ELSE w.due
        /\ f.qdue = IF QueueCheck \in C THEN {} ELSE w.qdue
        /\ f.kdue = IF KeyCheck \in C THEN {} ELSE w.kdue
        /\ f.queue = IF QueueCheck \in C THEN w.queue \ w.qdue ELSE w.queue
    <2>1. w \in Work
      OBVIOUS
    <2> QED  BY ONLY <2>1, FiredFields
  <1> HIDE DEF f
  <1>2. EntriesCaught(committed, w) /\ KeysCaught(committed, w)
    BY DEF WorkOK
  <1>3. \A t \in Txns : t \in w.txns => seen.legs[t] = 0
    BY <1>2 DEF TablesOK, EntriesCaught
  <1>4. \A t \in Txns : seen.net[t] = 0 /\ seen.legs[t] \in Nat
                        /\ w.legs[t] \in Nat /\ w.net[t] \in Int
    BY DEF TablesOK, Tables, Work
  <1>5. TxnCheck \in C => \A t \in Txns : t \in w.due => w.legs[t] # 0
    BY <1>2, <1>3, <1>4 DEF Passes, Balanced, EntriesCaught
  <1>6. QueueCheck \in C => \A t \in Txns : t \in w.qdue => w.net[t] = 0
    BY <1>4 DEF Passes, Balanced
  <1>7. EntriesCaught(committed, f)
    BY <1>1, <1>2, <1>5, <1>6 DEF EntriesCaught
  <1>8. KeyCheck \in C => \A k \in Keys :
            w.keys[k] # NoKey /\ k \in w.kdue => w.keys[k].txn # NoTxn
    BY DEF Passes, Settled, KeyRow
  <1>9. KeysCaught(committed, f)
    BY <1>1, <1>2, <1>8 DEF KeysCaught
  <1> QED
    BY <1>7, <1>9 DEF WorkOK, f

-----------------------------------------------------------------------------
(* What a step of one session must leave behind.                           *)

\* Savepoints are judged by the committed tables, which most steps leave alone.
LEMMA SavepointsKept ==
    ASSUME NEW s \in Sessions, UNCHANGED db,
           \A d \in 1..depth'[s] :
              /\ WorkOK(db, saved'[s][d])
              /\ Covers(work'[s], saved'[s][d])
              /\ \A e \in d..depth'[s] : Covers(saved'[s][e], saved'[s][d])
    PROVE  SavepointsOK(s)'
  <1>1. \A w : WorkOK(db', w) <=> WorkOK(db, w)
    OBVIOUS
  <1> QED BY <1>1 DEF SavepointsOK, Covers, WorkOK, EntriesCaught, KeysCaught

\* A step that leaves the committed tables and every other session alone, and this
\* session's own work caught and apart, keeps the invariant.
LEMMA SessionStep ==
    ASSUME IInv, NEW s \in Sessions, TypeOK', UNCHANGED db,
           \A o \in Sessions \ {s} :
              /\ work'[o] = work[o] /\ saved'[o] = saved[o]
              /\ depth'[o] = depth[o] /\ snap'[o] = snap[o]
              /\ Apart(work'[s], work[o]),
           WorkOK(db, work'[s]), SnapshotOK(s)', SavepointsOK(s)'
    PROVE  IInv'
  <1>1. TablesOK(db)'
    BY DEF IInv, TablesOK
  <1>2. ASSUME NEW o \in Sessions
        PROVE  (SnapshotOK(o) /\ WorkOK(db, work[o]) /\ SavepointsOK(o))'
    <2>1. CASE o = s
      BY <2>1 DEF WorkOK, EntriesCaught, KeysCaught
    <2>2. CASE o # s
      <3>1. SnapshotOK(o) /\ WorkOK(db, work[o]) /\ SavepointsOK(o)
        BY DEF IInv
      <3>2. SnapshotOK(o)'
        BY <2>2, <3>1 DEF SnapshotOK, TablesOK
      <3>3. SavepointsOK(o)'
        BY <2>2, <3>1, SavepointsKept DEF SavepointsOK
      <3>4. WorkOK(db, work[o])'
        BY <2>2, <3>1 DEF WorkOK, EntriesCaught, KeysCaught
      <3> QED BY <3>2, <3>3, <3>4
    <2> QED BY <2>1, <2>2
  <1>3. ASSUME NEW p \in Sessions, NEW o \in Sessions, p # o
        PROVE  Apart(work[p], work[o])'
    <2>1. CASE p = s
      BY <1>3, <2>1
    <2>2. CASE o = s
      BY <1>3, <2>2 DEF Apart
    <2>3. CASE p # s /\ o # s
      BY <1>3, <2>3 DEF IInv, Apart
    <2> QED BY <2>1, <2>2, <2>3
  <1> QED
    BY <1>1, <1>2, <1>3 DEF IInv

\* An error falls back to the innermost savepoint, or to nothing.
LEMMA RefuseStep ==
    ASSUME IInv, NEW s \in Sessions, Refuse(s)
    PROVE  IInv'
  <1> DEFINE w == IF depth[s] = 0 THEN NoWork ELSE saved[s][depth[s]]
  <1>1. TypeOK /\ SavepointsOK(s) /\ SnapshotOK(s) /\ WorkOK(db, work[s])
    BY DEF IInv
  <1>2. depth[s] \in 0..Depth /\ depth[s] \in Nat /\ (depth[s] # 0 => depth[s] \in 1..depth[s])
    BY <1>1, BoundAssumption DEF TypeOK
  <1>3. w \in Work
    <2>1. depth[s] # 0 => depth[s] \in 1..Depth
      BY <1>2, BoundAssumption
    <2> QED BY <1>1, <2>1, NoWorkType DEF TypeOK
  <1>4. WorkOK(db, w) /\ Covers(work[s], w)
    <2>1. CASE depth[s] = 0
      BY <2>1, NoWorkOK DEF Covers, NoWork
    <2>2. CASE depth[s] # 0
      BY <1>1, <1>2, <2>2 DEF SavepointsOK
    <2> QED BY <2>1, <2>2
  <1>5. \A d \in 1..depth[s] : Covers(w, saved[s][d])
    BY <1>1, <1>2 DEF SavepointsOK
  <1> HIDE DEF w
  <1>6. /\ st' = [st EXCEPT ![s] = "aborted"] /\ work' = [work EXCEPT ![s] = w]
        /\ UNCHANGED <<db, level, snap, saved, depth>>
    BY DEF Refuse, w
  <1>7. TypeOK'
    BY <1>1, <1>3, <1>6 DEF TypeOK
  <1>8. work'[s] = w /\ \A o \in Sessions \ {s} : work'[o] = work[o]
    BY <1>1, <1>6 DEF TypeOK
  <1>9. \A o \in Sessions \ {s} : Apart(w, work[o])
    BY <1>4 DEF IInv, Covers, Apart
  <1>10. SnapshotOK(s)'
    BY <1>1, <1>6 DEF SnapshotOK, TablesOK
  <1>11. SavepointsOK(s)'
    BY <1>1, <1>5, <1>6, <1>8, SavepointsKept DEF SavepointsOK
  <1> QED
    BY <1>4, <1>6, <1>7, <1>8, <1>9, <1>10, <1>11, SessionStep

\* A statement may end with any work that is caught, covers what the session had and
\* stays apart from the other sessions.
LEMMA StatementStep ==
    ASSUME IInv, NEW s \in Sessions, NEW w \in Work, WorkOK(db, w),
           Covers(w, work[s]), \A o \in Sessions \ {s} : Apart(w, work[o]),
           EndStatement(s, w)
    PROVE  IInv'
  <1>1. CASE ~Passes(Seen(s), w, w.immediate)
    BY <1>1, RefuseStep DEF EndStatement
  <1>2. CASE Passes(Seen(s), w, w.immediate)
    <2> DEFINE f == Fired(w, w.immediate)
    <2>1. f \in Work /\ f.txns = w.txns /\ f.touched = w.touched
      BY FiredType, FiredFields
    <2>2. WorkOK(db, f)
      <3>1. db \in Tables
        BY DEF IInv, TypeOK
      <3> QED BY <1>2, <3>1, SeenOK, FiredOK
    <2>3. work' = [work EXCEPT ![s] = f] /\ UNCHANGED <<db, st, level, snap, saved, depth>>
      BY <1>2 DEF EndStatement
    <2> HIDE DEF f
    <2>4. TypeOK'
      BY <2>1, <2>3 DEF IInv, TypeOK
    <2>5. work'[s] = f /\ \A o \in Sessions \ {s} : work'[o] = work[o]
      BY <2>3 DEF IInv, TypeOK
    <2>6. \A o \in Sessions \ {s} : Apart(f, work[o])
      BY <2>1 DEF Apart
    <2>7. SnapshotOK(s)'
      BY <2>3 DEF IInv, SnapshotOK, TablesOK
    <2>8. SavepointsOK(s)'
      <3>1. SavepointsOK(s)
        BY DEF IInv
      <3> QED
        BY <2>1, <2>3, <2>5, <3>1, SavepointsKept DEF SavepointsOK, Covers
    <2> QED
      BY <2>2, <2>3, <2>4, <2>5, <2>6, <2>7, <2>8, SessionStep
  <1> QED BY <1>1, <1>2

-----------------------------------------------------------------------------
(* The statements.                                                         *)

\* SET CONSTRAINTS changes no row.
LEMMA SetConstraintsStep ==
    ASSUME IInv, NEW s \in Sessions, NEW C \in SUBSET Constraints,
           SetImmediate(s, C) \/ SetDeferred(s, C)
    PROVE  IInv'
  <1>1. ASSUME NEW imm \in SUBSET Constraints,
               EndStatement(s, [work[s] EXCEPT !.immediate = imm])
        PROVE  IInv'
    <2> DEFINE w == [work[s] EXCEPT !.immediate = imm]
    <2>1. work[s] \in Work /\ WorkOK(db, work[s])
      BY DEF IInv, TypeOK
    <2>2. w \in Work
      BY <2>1 DEF Work
    <2>3. WorkOK(db, w) /\ Covers(w, work[s])
      BY <2>1 DEF Work, WorkOK, EntriesCaught, KeysCaught, Covers
    <2>4. \A o \in Sessions \ {s} : Apart(w, work[o])
      BY <2>1 DEF Work, Apart, IInv
    <2> HIDE DEF w
    <2> QED BY <1>1, <2>2, <2>3, <2>4, StatementStep DEF w
  <1>2. CASE SetImmediate(s, C)
    <2>1. work[s].immediate \cup C \in SUBSET Constraints
      BY DEF IInv, TypeOK, Work
    <2> QED BY <1>1, <1>2, <2>1 DEF SetImmediate
  <1>3. CASE SetDeferred(s, C)
    <2>1. work[s].immediate \ C \in SUBSET Constraints
      BY DEF IInv, TypeOK, Work
    <2> QED BY <1>1, <1>3, <2>1 DEF SetDeferred
  <1> QED BY <1>2, <1>3

\* A new entry is watched by transactions_must_balance until that fires.
LEMMA InsertTransactionStep ==
    ASSUME IInv, NEW s \in Sessions, NEW t \in Txns, InsertTransaction(s, t)
    PROVE  IInv'
  <1> DEFINE w == [work[s] EXCEPT !.txns = @ \cup {t}, !.due = @ \cup {t}]
  <1>1. work[s] \in Work /\ WorkOK(db, work[s])
    BY DEF IInv, TypeOK
  <1>2. w \in Work
    BY <1>1 DEF Work
  <1>3. Fresh(t)
    BY DEF InsertTransaction
  <1>4. WorkOK(db, w)
    <2>1. EntriesCaught(db, w)
      BY <1>1, <1>3 DEF Work, WorkOK, EntriesCaught, Fresh
    <2>2. KeysCaught(db, w)
      BY <1>1 DEF Work, WorkOK, KeysCaught
    <2> QED BY <2>1, <2>2 DEF WorkOK
  <1>5. Covers(w, work[s])
    BY <1>1 DEF Work, Covers
  <1>6. \A o \in Sessions \ {s} : Apart(w, work[o])
    BY <1>1, <1>3 DEF Work, Apart, IInv, Fresh
  <1>7. EndStatement(s, w)
    BY DEF InsertTransaction
  <1> HIDE DEF w
  <1> QED BY <1>2, <1>4, <1>5, <1>6, <1>7, StatementStep

\* Legs are watched by balance_checks_must_balance: their entry is in the queue, with
\* an event pending, or is put there with one.
LEMMA InsertPostingsStep ==
    ASSUME IInv, NEW s \in Sessions, NEW t \in Txns, NEW b \in Batches,
           InsertPostings(s, t, b)
    PROVE  IInv'
  <1> DEFINE v == [work[s] EXCEPT !.legs[t] = @ + b[1], !.net[t] = @ + b[2]]
             w == QueueCheckOf(v, t)
  <1>1. work[s] \in Work /\ WorkOK(db, work[s]) /\ db \in Tables /\ TablesOK(db)
    BY DEF IInv, TypeOK
  <1>2. b[1] \in Nat /\ b[1] # 0 /\ b[2] \in Int /\ (b[1] = 1 => b[2] # 0)
    BY BatchAssumption
  <1>a. /\ [work[s].legs EXCEPT ![t] = @ + b[1]] \in [Txns -> Nat]
        /\ [work[s].net EXCEPT ![t] = @ + b[2]] \in [Txns -> Int]
    BY <1>1, <1>2 DEF Work
  <1>3. /\ v.txns = work[s].txns /\ v.queue = work[s].queue /\ v.keys = work[s].keys
        /\ v.touched = work[s].touched /\ v.due = work[s].due
        /\ v.qdue = work[s].qdue /\ v.kdue = work[s].kdue
        /\ v.immediate = work[s].immediate
        /\ v.legs = [work[s].legs EXCEPT ![t] = @ + b[1]]
        /\ v.net = [work[s].net EXCEPT ![t] = @ + b[2]]
    BY <1>1 DEF Work
  <1>b. v \in Work
    BY <1>1, <1>a DEF Work
  <1> HIDE DEF v
  <1>c. w = IF t \in v.queue
            THEN v
            ELSE [v EXCEPT !.queue = @ \cup {t}, !.qdue = @ \cup {t}]
    BY <1>1 DEF QueueCheckOf, TablesOK
  <1> HIDE DEF w
  <1>4. /\ w \in Work
        /\ w.txns = v.txns /\ w.keys = v.keys /\ w.touched = v.touched
        /\ w.due = v.due /\ w.kdue = v.kdue /\ w.legs = v.legs /\ w.net = v.net
        /\ w.queue = v.queue \cup {t}
        /\ w.qdue = IF t \in v.queue THEN v.qdue ELSE v.qdue \cup {t}
    BY <1>b, <1>c DEF Work
  <1>5. t \in db.txns \cup work[s].txns
    BY SeenOK DEF InsertPostings
  <1>6. work[s].queue \subseteq work[s].qdue
    BY <1>1 DEF WorkOK, EntriesCaught
  <1>7. w.qdue = v.qdue \cup {t}
    BY <1>3, <1>4, <1>6
  <1>8. EntriesCaught(db, w)
    <2>1. /\ w.due \subseteq w.txns
          /\ w.txns \cap db.txns = {}
          /\ w.queue \subseteq w.qdue
      BY <1>1, <1>3, <1>4, <1>7 DEF WorkOK, EntriesCaught
    <2>2. ASSUME NEW u \in Txns
          PROVE  /\ w.legs[u] = 0 => w.net[u] = 0 /\ u \notin w.qdue
                 /\ w.legs[u] = 1 => w.net[u] # 0
                 /\ w.net[u] # 0 => u \in w.qdue
                 /\ w.legs[u] # 0 => u \in db.txns \cup w.txns
                 /\ u \in w.txns => u \in w.due \/ w.legs[u] # 0
      <3>1. CASE u = t
        <4>1. w.legs[t] = work[s].legs[t] + b[1] /\ w.net[t] = work[s].net[t] + b[2]
          BY <1>1, <1>3, <1>4 DEF Work
        <4>2. work[s].legs[t] \in Nat /\ work[s].net[t] \in Int
              /\ (work[s].legs[t] = 0 => work[s].net[t] = 0)
          BY <1>1 DEF Work, WorkOK, EntriesCaught
        <4>3. w.legs[t] # 0 /\ (w.legs[t] = 1 => w.net[t] # 0)
          BY <1>2, <4>1, <4>2
        <4>4. t \in w.qdue /\ t \in db.txns \cup w.txns
          BY <1>3, <1>4, <1>5, <1>7
        <4> QED BY <3>1, <4>3, <4>4
      <3>2. CASE u # t
        <4>1. w.legs[u] = work[s].legs[u] /\ w.net[u] = work[s].net[u]
          BY <1>1, <1>3, <1>4, <3>2 DEF Work
        <4> QED BY <1>1, <1>3, <1>4, <1>7, <3>2, <4>1 DEF WorkOK, EntriesCaught
      <3> QED BY <3>1, <3>2
    <2> QED BY <2>1, <2>2 DEF EntriesCaught
  <1>9. KeysCaught(db, w)
    BY <1>1, <1>3, <1>4 DEF WorkOK, KeysCaught
  <1>10. Covers(w, work[s])
    BY <1>3, <1>4 DEF Covers
  <1>11. \A o \in Sessions \ {s} : Apart(w, work[o])
    BY <1>3, <1>4 DEF Apart, IInv
  <1>12. EndStatement(s, w)
    BY DEF InsertPostings, w, v
  <1> QED BY <1>4, <1>8, <1>9, <1>10, <1>11, <1>12, StatementStep DEF WorkOK

\* What an insert or update of a key leaves behind, the row it leaves being settled
\* against an entry the session can see or pending its check.
LEMMA KeyWrittenStep ==
    ASSUME IInv, NEW s \in Sessions, NEW k \in Keys, NEW row \in KeyRows,
           NobodyElseHolds(s, k), db.keys[k] = NoKey,
           row.txn # NoTxn => row.txn \in db.txns \cup work[s].txns,
           EndStatement(s, [work[s] EXCEPT !.keys[k] = row,
                                           !.touched = @ \cup {k},
                                           !.kdue = @ \cup {k}])
    PROVE  IInv'
  <1> DEFINE w == [work[s] EXCEPT !.keys[k] = row, !.touched = @ \cup {k},
                                  !.kdue = @ \cup {k}]
  <1>1. work[s] \in Work /\ WorkOK(db, work[s])
    BY DEF IInv, TypeOK
  <1>2. /\ w.txns = work[s].txns /\ w.legs = work[s].legs /\ w.net = work[s].net
        /\ w.queue = work[s].queue /\ w.due = work[s].due /\ w.qdue = work[s].qdue
        /\ w.keys = [work[s].keys EXCEPT ![k] = row]
        /\ w.touched = work[s].touched \cup {k} /\ w.kdue = work[s].kdue \cup {k}
    BY <1>1 DEF Work
  <1>3. w \in Work
    <2>1. [work[s].keys EXCEPT ![k] = row] \in [Keys -> KeyRows \cup {NoKey}]
      BY <1>1 DEF Work
    <2> QED BY <1>1, <2>1 DEF Work
  <1>4. EndStatement(s, w)
    OBVIOUS
  <1> HIDE DEF w
  <1>5. EntriesCaught(db, w)
    BY <1>1, <1>2 DEF WorkOK, EntriesCaught
  <1>6. KeysCaught(db, w)
    BY <1>1, <1>2 DEF WorkOK, KeysCaught, Work
  <1>7. Covers(w, work[s])
    BY <1>2 DEF Covers
  <1>8. \A o \in Sessions \ {s} : Apart(w, work[o])
    <2>1. ASSUME NEW o \in Sessions \ {s}
          PROVE  Apart(work[s], work[o]) /\ k \notin work[o].touched
      BY DEF IInv, NobodyElseHolds
    <2> QED  BY <1>2, <2>1 DEF Apart
  <1> QED BY <1>3, <1>4, <1>5, <1>6, <1>7, <1>8, StatementStep DEF WorkOK

\* A reservation leaves an unsettled row and the event that will find it.
LEMMA ReserveKeyStep ==
    ASSUME IInv, NEW s \in Sessions, NEW k \in Keys, NEW h \in Hashes, ReserveKey(s, k, h)
    PROVE  IInv'
  <1>1. [hash |-> h, txn |-> NoTxn] \in KeyRows
    BY DEF KeyRows
  <1> QED BY <1>1, KeyWrittenStep DEF ReserveKey

\* Only a reservation of the session's own is unsettled, so only that can be updated.
LEMMA UpdateKeyStep ==
    ASSUME IInv, NEW s \in Sessions, NEW k \in Keys, NEW h \in Hashes,
           NEW t \in Txns \cup {NoTxn}, UpdateKey(s, k, h, t)
    PROVE  IInv'
  <1>1. [hash |-> h, txn |-> t] \in KeyRows
    BY DEF KeyRows
  <1>2. t # NoTxn => t \in db.txns \cup work[s].txns
    BY SeenOK DEF UpdateKey
  <1>3. work[s].keys[k] # NoKey
    <2>1. Seen(s).keys[k] # NoKey => Seen(s).keys[k].txn \in Txns
      BY SeenOK DEF TablesOK, Tables
    <2> QED
      BY <2>1, NullAssumption DEF UpdateKey, KeyRow, MayUpdate
  <1>4. db.keys[k] = NoKey
    BY <1>3 DEF IInv, WorkOK, KeysCaught
  <1> QED BY <1>1, <1>2, <1>4, KeyWrittenStep DEF UpdateKey

\* A row given up leaves its event, which finds nothing.
LEMMA GiveUpKeyStep ==
    ASSUME IInv, NEW s \in Sessions, NEW k \in Keys, GiveUpKey(s, k)
    PROVE  IInv'
  <1> DEFINE w == [work[s] EXCEPT !.keys[k] = NoKey]
  <1>1. work[s] \in Work /\ WorkOK(db, work[s])
    BY DEF IInv, TypeOK
  <1>2. /\ w.txns = work[s].txns /\ w.legs = work[s].legs /\ w.net = work[s].net
        /\ w.queue = work[s].queue /\ w.due = work[s].due /\ w.qdue = work[s].qdue
        /\ w.keys = [work[s].keys EXCEPT ![k] = NoKey]
        /\ w.touched = work[s].touched /\ w.kdue = work[s].kdue
    BY <1>1 DEF Work
  <1>3. w \in Work
    <2>1. [work[s].keys EXCEPT ![k] = NoKey] \in [Keys -> KeyRows \cup {NoKey}]
      BY <1>1 DEF Work
    <2> QED BY <1>1, <2>1 DEF Work
  <1>4. EndStatement(s, w)
    BY DEF GiveUpKey
  <1> HIDE DEF w
  <1>5. EntriesCaught(db, w)
    BY <1>1, <1>2 DEF WorkOK, EntriesCaught
  <1>6. KeysCaught(db, w)
    BY <1>1, <1>2 DEF WorkOK, KeysCaught, Work
  <1>7. Covers(w, work[s])
    BY <1>2 DEF Covers
  <1>8. \A o \in Sessions \ {s} : Apart(w, work[o])
    BY <1>2 DEF Apart, IInv
  <1> QED BY <1>3, <1>4, <1>5, <1>6, <1>7, <1>8, StatementStep DEF WorkOK

-----------------------------------------------------------------------------
(* Transactions and savepoints.                                            *)

\* A repeatable-read snapshot is of committed tables, so of checked ones.
LEMMA BeginStep ==
    ASSUME IInv, NEW s \in Sessions, NEW l \in Levels, Begin(s, l)
    PROVE  IInv'
  <1>1. TypeOK /\ WorkOK(db, work[s]) /\ SavepointsOK(s) /\ TablesOK(db)
    BY DEF IInv
  <1>2. TypeOK'
    BY <1>1, NoRowsOK DEF Begin, TypeOK
  <1>3. SnapshotOK(s)'
    <2>1. TablesOK(db) /\ snap'[s] \in {db, NoRows} /\ db' = db
      BY <1>1 DEF Begin, TypeOK
    <2>2. NoRows.txns = {}
      BY DEF NoRows
    <2>3. TablesOK(snap'[s]) /\ snap'[s].txns \subseteq db.txns
      BY <2>1, <2>2, NoRowsOK
    <2> QED BY <2>1, <2>3 DEF SnapshotOK, TablesOK
  <1>4. SavepointsOK(s)'
    <2>1. db' = db /\ work' = work /\ saved' = saved /\ depth' = depth
      BY DEF Begin
    <2> QED BY <1>1, <2>1, SavepointsKept DEF SavepointsOK
  <1>5. \A o \in Sessions \ {s} : snap'[o] = snap[o] /\ Apart(work'[s], work[o])
    BY <1>1 DEF Begin, TypeOK, IInv
  <1> QED
    BY <1>1, <1>2, <1>3, <1>4, <1>5, SessionStep DEF Begin

\* The work a savepoint copies is caught already.
LEMMA SavepointStep ==
    ASSUME IInv, NEW s \in Sessions, Savepoint(s)
    PROVE  IInv'
  <1>1. TypeOK /\ WorkOK(db, work[s]) /\ SavepointsOK(s) /\ SnapshotOK(s)
    BY DEF IInv
  <1>2. depth[s] \in Nat /\ depth[s] + 1 \in 1..Depth
    BY <1>1, BoundAssumption DEF Savepoint, TypeOK
  <1>3. TypeOK'
    BY <1>1, <1>2 DEF Savepoint, TypeOK
  <1>4. /\ depth'[s] = depth[s] + 1
        /\ \A d \in 1..depth[s] : saved'[s][d] = saved[s][d]
        /\ saved'[s][depth[s] + 1] = work[s]
    <2>1. \A d \in 1..depth[s] : d \in 1..Depth /\ d # depth[s] + 1
      BY <1>2, BoundAssumption
    <2>2. /\ depth'[s] = depth[s] + 1
          /\ saved'[s] = [saved[s] EXCEPT ![depth[s] + 1] = work[s]]
      BY <1>1 DEF Savepoint, TypeOK
    <2>3. saved[s] \in [1..Depth -> Work]
      BY <1>1 DEF TypeOK
    <2> QED BY <1>2, <2>1, <2>2, <2>3
  <1>5. \A o \in Sessions \ {s} :
            depth'[o] = depth[o] /\ saved'[o] = saved[o] /\ Apart(work'[s], work[o])
    BY <1>1 DEF Savepoint, TypeOK, IInv
  <1>6. SavepointsOK(s)'
    <2>1. SUFFICES ASSUME NEW d \in 1..depth'[s]
                   PROVE  /\ WorkOK(db, saved'[s][d])
                          /\ Covers(work[s], saved'[s][d])
                          /\ \A e \in d..depth'[s] : Covers(saved'[s][e], saved'[s][d])
      BY SavepointsKept DEF Savepoint
    <2>2. CASE d = depth[s] + 1
      BY <1>1, <1>2, <1>4, <2>2 DEF Covers
    <2>3. CASE d \in 1..depth[s]
      <3>1. WorkOK(db, saved[s][d]) /\ Covers(work[s], saved[s][d])
            /\ \A e \in d..depth[s] : Covers(saved[s][e], saved[s][d])
        BY <1>1, <2>3 DEF SavepointsOK
      <3>2. ASSUME NEW e \in d..depth'[s]
            PROVE  Covers(saved'[s][e], saved'[s][d])
        <4>1. e \in d..depth[s] \/ e = depth[s] + 1
          BY <1>2, <1>4, <2>3
        <4> QED BY <1>2, <1>4, <2>3, <3>1, <4>1
      <3> QED BY <1>4, <2>3, <3>1, <3>2
    <2> QED BY <1>2, <1>4, <2>2, <2>3
  <1>7. SnapshotOK(s)'
    BY <1>1 DEF Savepoint, SnapshotOK, TablesOK
  <1> QED
    BY <1>1, <1>3, <1>5, <1>6, <1>7, SessionStep DEF Savepoint

\* What a savepoint restores was caught when it was copied, pending events and all.
LEMMA RollbackToStep ==
    ASSUME IInv, NEW s \in Sessions, NEW d \in 1..Depth, RollbackTo(s, d)
    PROVE  IInv'
  <1>1. TypeOK /\ SavepointsOK(s) /\ SnapshotOK(s)
    BY DEF IInv
  <1>2. depth[s] \in Nat /\ d \in 1..depth[s] /\ d \in 0..Depth
    BY <1>1, BoundAssumption DEF RollbackTo, TypeOK
  <1>3. WorkOK(db, saved[s][d]) /\ Covers(work[s], saved[s][d])
    BY <1>1, <1>2 DEF SavepointsOK
  <1>4. [i \in 1..Depth |-> IF i <= d THEN saved[s][i] ELSE NoWork] \in [1..Depth -> Work]
    <2>1. \A i \in 1..Depth : saved[s][i] \in Work
      BY <1>1 DEF TypeOK
    <2> QED  BY <2>1, NoWorkType
  <1>5. TypeOK'
    BY <1>1, <1>2, <1>4 DEF RollbackTo, TypeOK
  <1>6. depth'[s] = d /\ work'[s] = saved[s][d] /\ \A e \in 1..d : saved'[s][e] = saved[s][e]
    <2>1. \A e \in 1..d : e \in 1..Depth /\ e <= d
      BY <1>2, BoundAssumption
    <2>2. /\ depth'[s] = d /\ work'[s] = saved[s][d]
          /\ saved'[s] = [i \in 1..Depth |-> IF i <= d THEN saved[s][i] ELSE NoWork]
      BY <1>1 DEF RollbackTo, TypeOK
    <2> QED BY <2>1, <2>2
  <1>7. \A o \in Sessions \ {s} : depth'[o] = depth[o] /\ saved'[o] = saved[o] /\ work'[o] = work[o]
    BY <1>1 DEF RollbackTo, TypeOK
  <1>8. \A o \in Sessions \ {s} : Apart(work'[s], work[o])
    BY <1>3, <1>6 DEF IInv, Apart, Covers
  <1>9. SavepointsOK(s)'
    <2>0. db' = db
      BY DEF RollbackTo
    <2>1. SUFFICES ASSUME NEW e \in 1..d
                   PROVE  /\ WorkOK(db, saved'[s][e])
                          /\ Covers(saved[s][d], saved'[s][e])
                          /\ \A i \in e..d : Covers(saved'[s][i], saved'[s][e])
      BY <1>6, <2>0, SavepointsKept
    <2>2. WorkOK(db, saved[s][e]) /\ \A i \in e..depth[s] : Covers(saved[s][i], saved[s][e])
      BY <1>1, <1>2 DEF SavepointsOK
    <2> QED BY <1>2, <1>6, <2>2
  <1>10. SnapshotOK(s)'
    BY <1>1 DEF RollbackTo, SnapshotOK, TablesOK
  <1> QED
    BY <1>3, <1>5, <1>6, <1>7, <1>8, <1>9, <1>10, SessionStep DEF RollbackTo

\* The savepoints that are left were good before.
LEMMA ReleaseStep ==
    ASSUME IInv, NEW s \in Sessions, NEW d \in 1..Depth, Release(s, d)
    PROVE  IInv'
  <1>1. TypeOK /\ WorkOK(db, work[s]) /\ SavepointsOK(s) /\ SnapshotOK(s)
    BY DEF IInv
  <1>2. depth[s] \in Nat /\ d \in 1..depth[s] /\ d - 1 \in 0..Depth
    BY <1>1, BoundAssumption DEF Release, TypeOK
  <1>3. [i \in 1..Depth |-> IF i < d THEN saved[s][i] ELSE NoWork] \in [1..Depth -> Work]
    <2>1. \A i \in 1..Depth : saved[s][i] \in Work
      BY <1>1 DEF TypeOK
    <2> QED  BY <2>1, NoWorkType
  <1>4. TypeOK'
    BY <1>1, <1>2, <1>3 DEF Release, TypeOK
  <1>5. depth'[s] = d - 1 /\ \A e \in 1..(d - 1) : saved'[s][e] = saved[s][e]
    <2>1. \A e \in 1..(d - 1) : e \in 1..Depth /\ e < d
      BY <1>2, BoundAssumption
    <2>2. depth'[s] = d - 1
          /\ saved'[s] = [i \in 1..Depth |-> IF i < d THEN saved[s][i] ELSE NoWork]
      BY <1>1 DEF Release, TypeOK
    <2> QED BY <2>1, <2>2
  <1>6. \A o \in Sessions \ {s} :
            depth'[o] = depth[o] /\ saved'[o] = saved[o] /\ Apart(work'[s], work[o])
    BY <1>1 DEF Release, TypeOK, IInv
  <1>7. SavepointsOK(s)'
    <2>0. db' = db /\ work' = work
      BY DEF Release
    <2>1. SUFFICES ASSUME NEW e \in 1..(d - 1)
                   PROVE  /\ WorkOK(db, saved'[s][e])
                          /\ Covers(work[s], saved'[s][e])
                          /\ \A i \in e..(d - 1) : Covers(saved'[s][i], saved'[s][e])
      BY <1>5, <2>0, SavepointsKept
    <2>2. WorkOK(db, saved[s][e]) /\ Covers(work[s], saved[s][e])
          /\ \A i \in e..depth[s] : Covers(saved[s][i], saved[s][e])
      BY <1>1, <1>2 DEF SavepointsOK
    <2> QED BY <1>2, <1>5, <2>2
  <1>8. SnapshotOK(s)'
    BY <1>1 DEF Release, SnapshotOK, TablesOK
  <1> QED
    BY <1>1, <1>4, <1>6, <1>7, <1>8, SessionStep DEF Release

-----------------------------------------------------------------------------
(* The end of a transaction.                                               *)

\* Work with nothing pending is right: committing it keeps the tables checked.
LEMMA MergeOK ==
    ASSUME NEW tables \in Tables, TablesOK(tables),
           NEW w \in Work, WorkOK(tables, w), w.due = {}, w.qdue = {}, w.kdue = {}
    PROVE  Merge(tables, w) \in Tables /\ TablesOK(Merge(tables, w))
  <1> DEFINE m == Merge(tables, w)
  <1>1. /\ m.txns = tables.txns \cup w.txns
        /\ m.legs = [t \in Txns |-> tables.legs[t] + w.legs[t]]
        /\ m.net = [t \in Txns |-> tables.net[t] + w.net[t]]
        /\ m.queue = tables.queue \cup w.queue
        /\ m.keys = [k \in Keys |-> KeyRow(tables, w, k)]
    BY DEF Merge
  <1>2. m \in Tables
    BY DEF Merge, KeyRow, Tables, Work
  <1> HIDE DEF m
  <1>3. ASSUME NEW t \in Txns
        PROVE  m.net[t] = 0 /\ IF t \in m.txns THEN m.legs[t] >= 2 ELSE m.legs[t] = 0
    <2>1. /\ w.legs[t] \in Nat /\ w.net[t] = 0 /\ w.legs[t] # 1
          /\ t \in w.txns => w.legs[t] # 0
          /\ w.legs[t] # 0 => t \in tables.txns \cup w.txns
          /\ t \in w.txns => t \notin tables.txns
      BY DEF WorkOK, EntriesCaught, Work
    <2>2. /\ tables.legs[t] \in Nat /\ tables.net[t] = 0
          /\ IF t \in tables.txns THEN tables.legs[t] >= 2 ELSE tables.legs[t] = 0
      BY DEF TablesOK, Tables
    <2>3. m.legs[t] = tables.legs[t] + w.legs[t] /\ m.net[t] = tables.net[t] + w.net[t]
      BY <1>1
    <2> QED BY <1>1, <2>1, <2>2, <2>3
  <1>4. m.queue = {}
    BY <1>1 DEF TablesOK, WorkOK, EntriesCaught
  <1>5. \A k \in Keys : m.keys[k] # NoKey => m.keys[k].txn \in m.txns
    BY <1>1 DEF KeyRow, TablesOK, WorkOK, KeysCaught
  <1> QED
    BY <1>2, <1>3, <1>4, <1>5 DEF TablesOK, m

\* Work apart from what was committed stays caught.
LEMMA OthersOK ==
    ASSUME NEW tables \in Tables, NEW w \in Work, WorkOK(tables, w),
           NEW v \in Work, WorkOK(tables, v), Apart(w, v)
    PROVE  WorkOK(Merge(tables, w), v)
  <1>1. /\ Merge(tables, w).txns = tables.txns \cup w.txns
        /\ \A k \in Keys : Merge(tables, w).keys[k] = KeyRow(tables, w, k)
    BY DEF Merge
  <1>2. EntriesCaught(Merge(tables, w), v)
    BY <1>1 DEF WorkOK, EntriesCaught, Apart
  <1>3. KeysCaught(Merge(tables, w), v)
    BY <1>1 DEF WorkOK, KeysCaught, Apart, KeyRow
  <1> QED BY <1>2, <1>3 DEF WorkOK

\* A committed record stays as it is: nobody can hold another row under its key.
LEMMA MergeKeepsRecords ==
    ASSUME NEW tables \in Tables, NEW w \in Work, WorkOK(tables, w),
           NEW k \in Keys, tables.keys[k] # NoKey
    PROVE  Merge(tables, w).keys[k] = tables.keys[k]
  BY DEF Merge, KeyRow, WorkOK, KeysCaught

\* The session that ends holds nothing; what it committed is checked, and the work of
\* the others is still apart from it.
LEMMA EndStep ==
    ASSUME IInv, NEW s \in Sessions, EndTransaction(s),
           db' \in Tables, TablesOK(db'), db.txns \subseteq db'.txns,
           \A o \in Sessions \ {s} : \A v \in Work :
              WorkOK(db, v) /\ Covers(work[o], v) => WorkOK(db', v)
    PROVE  IInv'
  <1>1. TypeOK
    BY DEF IInv
  <1>2. TypeOK'
    <2>1. "read committed" \in Levels /\ 0 \in 0..Depth
      BY BoundAssumption DEF Levels
    <2>2. [d \in 1..Depth |-> NoWork] \in [1..Depth -> Work]
      BY NoWorkType
    <2> QED
      BY <1>1, <2>1, <2>2, NoRowsOK, NoWorkType DEF EndTransaction, TypeOK
  <1>3. /\ work'[s] = NoWork /\ depth'[s] = 0 /\ snap'[s] = NoRows
        /\ \A o \in Sessions \ {s} : /\ work'[o] = work[o] /\ depth'[o] = depth[o]
                                     /\ snap'[o] = snap[o] /\ saved'[o] = saved[o]
    BY <1>1 DEF EndTransaction, TypeOK
  <1>4. ASSUME NEW o \in Sessions
        PROVE  (SnapshotOK(o) /\ WorkOK(db, work[o]) /\ SavepointsOK(o))'
    <2>1. CASE o = s
      <3>1. SnapshotOK(o)'
        BY <1>3, <2>1, NoRowsOK DEF SnapshotOK, TablesOK, NoRows
      <3>2. SavepointsOK(o)'
        BY <1>3, <2>1 DEF SavepointsOK
      <3>3. WorkOK(db, work[o])'
        BY <1>3, <2>1, NoWorkOK DEF WorkOK, EntriesCaught, KeysCaught
      <3> QED BY <3>1, <3>2, <3>3
    <2>2. CASE o # s
      <3>1. SnapshotOK(o) /\ WorkOK(db, work[o]) /\ SavepointsOK(o) /\ work[o] \in Work
        BY <1>1 DEF IInv, TypeOK
      <3>2. SnapshotOK(o)'
        BY <1>3, <2>2, <3>1 DEF SnapshotOK, TablesOK
      <3>3. WorkOK(db, work[o])'
        <4>1. Covers(work[o], work[o])
          BY DEF Covers
        <4>2. WorkOK(db', work[o])
          BY <2>2, <3>1, <4>1
        <4> QED BY <1>3, <2>2, <4>2
      <3>4. SavepointsOK(o)'
        <4>1. ASSUME NEW d \in 1..depth[o]
              PROVE  WorkOK(db', saved[o][d])
          <5>1. depth[o] \in 0..Depth
            BY <1>1 DEF TypeOK
          <5>2. d \in 1..Depth
            BY <5>1, BoundAssumption
          <5>3. saved[o][d] \in Work
            BY <1>1, <5>2 DEF TypeOK
          <5> QED BY <2>2, <3>1, <5>3 DEF SavepointsOK
        <4>2. /\ depth'[o] = depth[o] /\ saved'[o] = saved[o] /\ work'[o] = work[o]
          BY <1>3, <2>2
        <4>3. \A d \in 1..depth[o] :
                 /\ Covers(work[o], saved[o][d])
                 /\ \A e \in d..depth[o] : Covers(saved[o][e], saved[o][d])
          BY <3>1 DEF SavepointsOK
        <4> HIDE DEF WorkOK
        <4> QED BY <4>1, <4>2, <4>3 DEF SavepointsOK, Covers
      <3> QED BY <3>2, <3>3, <3>4
    <2> QED BY <2>1, <2>2
  <1>5. ASSUME NEW p \in Sessions, NEW o \in Sessions, p # o
        PROVE  Apart(work[p], work[o])'
    <2>1. CASE p = s \/ o = s
      BY <1>3, <1>5, <2>1 DEF Apart, NoWork
    <2>2. CASE p # s /\ o # s
      BY <1>3, <1>5, <2>2 DEF IInv, Apart
    <2> QED BY <2>1, <2>2
  <1>6. TablesOK(db)'
    BY DEF TablesOK
  <1> QED
    BY <1>2, <1>4, <1>5, <1>6 DEF IInv

\* A rollback leaves the committed tables alone.
LEMMA RollbackStep ==
    ASSUME IInv, NEW s \in Sessions, Rollback(s)
    PROVE  IInv'
  <1>1. db' = db /\ EndTransaction(s)
    BY DEF Rollback
  <1>2. db \in Tables /\ TablesOK(db)
    BY DEF IInv, TypeOK
  <1> QED BY <1>1, <1>2, EndStep

\* What COMMIT merges once every pending event has passed.
LEMMA CommitFacts ==
    ASSUME IInv, NEW s \in Sessions, Passes(Seen(s), work[s], Constraints)
    PROVE  LET f == Fired(work[s], Constraints) IN
           /\ f \in Work /\ WorkOK(db, f)
           /\ f.due = {} /\ f.qdue = {} /\ f.kdue = {}
           /\ f.txns = work[s].txns /\ f.touched = work[s].touched
  <1>1. db \in Tables /\ work[s] \in Work /\ WorkOK(db, work[s])
    BY DEF IInv, TypeOK
  <1>2. TxnCheck \in Constraints /\ QueueCheck \in Constraints /\ KeyCheck \in Constraints
    BY DEF Constraints
  <1> QED
    BY <1>1, <1>2, SeenOK, FiredType, FiredFields, FiredOK

\* COMMIT fires what is pending, so what it merges is right.
LEMMA CommitStep ==
    ASSUME IInv, NEW s \in Sessions, Commit(s)
    PROVE  IInv'
  <1>1. db \in Tables /\ TablesOK(db) /\ EndTransaction(s)
    BY DEF IInv, TypeOK, Commit
  <1>2. CASE ~Passes(Seen(s), work[s], Constraints)
    BY <1>1, <1>2, EndStep DEF Commit
  <1>3. CASE Passes(Seen(s), work[s], Constraints)
    <2> DEFINE f == Fired(work[s], Constraints)
    <2>1. /\ f \in Work /\ WorkOK(db, f)
          /\ f.due = {} /\ f.qdue = {} /\ f.kdue = {}
          /\ f.txns = work[s].txns /\ f.touched = work[s].touched
      BY <1>3, CommitFacts
    <2>2. db' = Merge(db, f)
      BY <1>3 DEF Commit
    <2> HIDE DEF f
    <2>3. db' \in Tables /\ TablesOK(db')
      BY <1>1, <2>1, <2>2, MergeOK
    <2>4. db.txns \subseteq db'.txns
      BY <2>2 DEF Merge
    <2>5. ASSUME NEW o \in Sessions \ {s}, NEW v \in Work,
                 WorkOK(db, v), Covers(work[o], v)
          PROVE  WorkOK(db', v)
      <3>1. Apart(work[s], work[o])
        BY DEF IInv
      <3>2. Apart(f, v)
        BY <2>1, <2>5, <3>1 DEF Apart, Covers
      <3> QED BY <1>1, <2>1, <2>2, <2>5, <3>2, OthersOK
    <2> QED BY <1>1, <2>3, <2>4, <2>5, EndStep
  <1> QED BY <1>2, <1>3

-----------------------------------------------------------------------------
(* The theorems.                                                           *)

\* At first nothing is written and nobody is in a transaction.
LEMMA InitIInv == Init => IInv
  <1> SUFFICES ASSUME Init PROVE IInv
    OBVIOUS
  <1>1. TypeOK
    <2>1. "read committed" \in Levels /\ 0 \in 0..Depth
      BY BoundAssumption DEF Levels
    <2>2. [d \in 1..Depth |-> NoWork] \in [1..Depth -> Work]
      BY NoWorkType
    <2> QED
      BY <2>1, <2>2, NoRowsOK, NoWorkType DEF Init, TypeOK
  <1>2. TablesOK(db) /\ \A s \in Sessions : SnapshotOK(s)
    BY NoRowsOK DEF Init, SnapshotOK
  <1>3. ASSUME NEW s \in Sessions
        PROVE  WorkOK(db, work[s]) /\ SavepointsOK(s)
    <2>1. work[s] = NoWork /\ depth[s] = 0
      BY DEF Init
    <2> QED BY <2>1, NoWorkOK DEF SavepointsOK
  <1>4. \A s, o \in Sessions : Apart(work[s], work[o])
    BY DEF Init, Apart, NoWork
  <1> QED BY <1>1, <1>2, <1>3, <1>4 DEF IInv

\* The invariant is inductive.
LEMMA NextIInv == IInv /\ [Next]_vars => IInv'
  <1> SUFFICES ASSUME IInv, [Next]_vars PROVE IInv'
    OBVIOUS
  <1>1. CASE UNCHANGED vars
    <2> USE <1>1 DEF vars
    <2>1. TypeOK' /\ TablesOK(db)'
      BY DEF IInv, TypeOK, TablesOK
    <2>2. \A s \in Sessions : SnapshotOK(s)'
      BY DEF IInv, SnapshotOK, TablesOK
    <2>3. \A s \in Sessions : WorkOK(db, work[s])'
      BY DEF IInv, WorkOK, EntriesCaught, KeysCaught
    <2>4. \A s \in Sessions : SavepointsOK(s)'
      <3> SUFFICES ASSUME NEW s \in Sessions
                   PROVE  SavepointsOK(s)'
        OBVIOUS
      <3>1. SavepointsOK(s)
        BY DEF IInv
      <3>2. \A w : WorkOK(db, w)' <=> WorkOK(db, w)
        BY DEF WorkOK, EntriesCaught, KeysCaught
      <3>3. \A v, w : Covers(v, w)' <=> Covers(v, w)
        BY DEF Covers
      <3> QED  BY <3>1, <3>2, <3>3 DEF SavepointsOK
    <2>5. \A s, o \in Sessions : s # o => Apart(work[s], work[o])'
      BY DEF IInv, Apart
    <2> QED  BY <2>1, <2>2, <2>3, <2>4, <2>5 DEF IInv
  <1>2. ASSUME NEW s \in Sessions, NEW l \in Levels, Begin(s, l) PROVE IInv'
    BY <1>2, BeginStep
  <1>3. ASSUME NEW s \in Sessions, Savepoint(s) PROVE IInv'
    BY <1>3, SavepointStep
  <1>4. ASSUME NEW s \in Sessions, NEW d \in 1..Depth, RollbackTo(s, d) \/ Release(s, d)
        PROVE IInv'
    BY <1>4, RollbackToStep, ReleaseStep
  <1>5. ASSUME NEW s \in Sessions, StatementRefused(s) PROVE IInv'
    BY <1>5, RefuseStep DEF StatementRefused
  <1>6. ASSUME NEW s \in Sessions, NEW C \in Asks, SetImmediate(s, C) \/ SetDeferred(s, C)
        PROVE IInv'
    BY <1>6, AskAssumption, SetConstraintsStep
  <1>7. ASSUME NEW s \in Sessions, NEW t \in Txns, InsertTransaction(s, t) PROVE IInv'
    BY <1>7, InsertTransactionStep
  <1>8. ASSUME NEW s \in Sessions, NEW t \in Txns, NEW b \in Batches, InsertPostings(s, t, b)
        PROVE IInv'
    BY <1>8, InsertPostingsStep
  <1>9. ASSUME NEW s \in Sessions, NEW k \in Keys, NEW h \in Hashes, ReserveKey(s, k, h)
        PROVE IInv'
    BY <1>9, ReserveKeyStep
  <1>10. ASSUME NEW s \in Sessions, NEW k \in Keys, NEW h \in Hashes,
                NEW t \in Txns \cup {NoTxn}, UpdateKey(s, k, h, t)
         PROVE IInv'
    BY <1>10, UpdateKeyStep
  <1>11. ASSUME NEW s \in Sessions, NEW k \in Keys, GiveUpKey(s, k) PROVE IInv'
    BY <1>11, GiveUpKeyStep
  <1>12. ASSUME NEW s \in Sessions, Commit(s) PROVE IInv'
    BY <1>12, CommitStep
  <1>13. ASSUME NEW s \in Sessions, Rollback(s) PROVE IInv'
    BY <1>13, RollbackStep
  <1> QED
    BY <1>1, <1>2, <1>3, <1>4, <1>5, <1>6, <1>7, <1>8, <1>9, <1>10, <1>11, <1>12, <1>13
       DEF Next

\* The inductive invariant holds of every behaviour: whatever is wrong with work not yet
\* committed has an event pending that will refuse it.
THEOREM Invariance == Spec => []IInv
  BY InitIInv, NextIInv, PTL DEF Spec

\* Type correctness of the tables, the sessions and their savepoints.
THEOREM TypeCorrect == Spec => []TypeOK
  <1>1. IInv => TypeOK
    BY DEF IInv
  <1> QED BY <1>1, Invariance, PTL

\* assert_transaction_balances and its two triggers: no order of statements, early asks,
\* rollbacks and sessions commits an entry that does not cancel.
THEOREM BookAlwaysBalances == Spec => []BookBalances
  <1>1. IInv => BookBalances
    BY DEF IInv, TablesOK, BookBalances
  <1> QED BY <1>1, Invariance, PTL

\* queued_balance_check: balance_checks is empty in every committed state.
THEOREM QueueIsAlwaysEmpty == Spec => []NoCheckOutlivesItsTransaction
  <1>1. IInv => NoCheckOutlivesItsTransaction
    BY DEF IInv, TablesOK, NoCheckOutlivesItsTransaction
  <1> QED BY <1>1, Invariance, PTL

\* idempotency_key_names_a_transaction: a committed key names a committed entry.
THEOREM KeysAlwaysNameTransactions == Spec => []KeysNameTransactions
  <1>1. IInv => KeysNameTransactions
    BY DEF IInv, TablesOK, KeysNameTransactions
  <1> QED BY <1>1, Invariance, PTL

\* The deferred checks never refuse work that is right, at either isolation level.
THEOREM HonestWorkAlwaysPasses == Spec => []HonestWorkPasses
  <1>1. ASSUME IInv, NEW s \in Sessions, Honest(work[s])
        PROVE  Passes(Seen(s), work[s], Constraints)
    <2>1. /\ work[s] \in Work /\ WorkOK(db, work[s])
          /\ Seen(s) \in Tables /\ TablesOK(Seen(s))
      BY <1>1, SeenOK DEF IInv, TypeOK
    <2>2. ASSUME NEW t \in Txns, work[s].legs[t] # 0
          PROVE  Balanced(Seen(s), work[s], t)
      <3>1. /\ Seen(s).legs[t] \in Nat /\ work[s].legs[t] \in Nat
            /\ Seen(s).net[t] = 0 /\ work[s].net[t] = 0
        BY <1>1, <2>1 DEF TablesOK, Tables, Work, Honest
      <3> QED BY <2>2, <3>1 DEF Balanced
    <2>3. \A t \in work[s].due : t \in Txns /\ work[s].legs[t] # 0
      BY <1>1, <2>1 DEF WorkOK, EntriesCaught, Honest, Work
    <2>4. \A t \in work[s].qdue : t \in Txns /\ work[s].legs[t] # 0
      BY <2>1 DEF WorkOK, EntriesCaught, Work
    <2>5. \A k \in work[s].kdue : Settled(Seen(s), work[s], k)
      BY <1>1, <2>1, NullAssumption DEF Settled, KeyRow, Honest, TablesOK, Tables, Work
    <2> QED BY <2>2, <2>3, <2>4, <2>5 DEF Passes
  <1>2. IInv => HonestWorkPasses
    BY <1>1 DEF HonestWorkPasses
  <1> QED BY <1>2, Invariance, PTL

\* The committed tables change at COMMIT and nowhere else.
LEMMA OnlyCommitWrites ==
    ASSUME Next, ~ \E s \in Sessions : Commit(s)
    PROVE  db' = db
  <1>1. \A s \in Sessions : Refuse(s) => db' = db
    BY DEF Refuse
  <1>2. \A s \in Sessions : \A w : EndStatement(s, w) => db' = db
    BY <1>1 DEF EndStatement
  <1>3. ASSUME NEW s \in Sessions, NEW t \in Txns,
               InsertTransaction(s, t) \/ \E b \in Batches : InsertPostings(s, t, b)
        PROVE  db' = db
    BY <1>2, <1>3 DEF InsertTransaction, InsertPostings
  <1>4. ASSUME NEW s \in Sessions, NEW k \in Keys,
               \/ GiveUpKey(s, k)
               \/ \E h \in Hashes : ReserveKey(s, k, h)
               \/ \E h \in Hashes, t \in Txns \cup {NoTxn} : UpdateKey(s, k, h, t)
        PROVE  db' = db
    BY <1>2, <1>4 DEF GiveUpKey, ReserveKey, UpdateKey
  <1>5. ASSUME NEW s \in Sessions, NEW C \in Asks, SetImmediate(s, C) \/ SetDeferred(s, C)
        PROVE  db' = db
    BY <1>2, <1>5 DEF SetImmediate, SetDeferred
  <1>6. ASSUME NEW s \in Sessions,
               \/ \E l \in Levels : Begin(s, l)
               \/ Savepoint(s)
               \/ \E d \in 1..Depth : RollbackTo(s, d) \/ Release(s, d)
               \/ StatementRefused(s)
               \/ Rollback(s)
        PROVE  db' = db
    BY <1>1, <1>6 DEF Begin, Savepoint, RollbackTo, Release, StatementRefused, Rollback
  <1> QED BY <1>3, <1>4, <1>5, <1>6 DEF Next

\* The first result under a key is the only result.
THEOREM KeyRecordsStayFinal == Spec => KeyRecordsAreFinal
  <1> DEFINE Keeps == \A k \in Keys : db.keys[k] # NoKey => db'.keys[k] = db.keys[k]
  <1>1. ASSUME IInv, [Next]_vars
        PROVE  [Keeps]_vars
    <2>1. ASSUME NEW s \in Sessions, Commit(s)
          PROVE  Keeps
      <3>1. CASE ~Passes(Seen(s), work[s], Constraints)
        BY <2>1, <3>1 DEF Commit
      <3>2. CASE Passes(Seen(s), work[s], Constraints)
        <4>1. db' = Merge(db, Fired(work[s], Constraints))
          BY <2>1, <3>2 DEF Commit
        <4>2. db \in Tables
          BY <1>1 DEF IInv, TypeOK
        <4> QED BY <1>1, <3>2, <4>1, <4>2, CommitFacts, MergeKeepsRecords
      <3> QED BY <3>1, <3>2
    <2>2. db' = db => Keeps
      OBVIOUS
    <2>3. Next => Keeps
      BY <2>1, <2>2, OnlyCommitWrites
    <2> QED BY <1>1, <2>3
  <1>2. IInv /\ [Next]_vars => [Keeps]_vars
    BY <1>1
  <1> QED BY <1>2, Invariance, PTL DEF Spec, KeyRecordsAreFinal
=============================================================================
