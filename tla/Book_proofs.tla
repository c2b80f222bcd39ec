----------------------------- MODULE Book_proofs -----------------------------
(***************************************************************************)
(* What posters write and are told, for any accounts, posters, requests    *)
(* and any interleaving of them.                                           *)
(*                                                                         *)
(* BookInv is of the foreign keys: a leg, committed or not, is in its      *)
(* account's currency and in its entry's, and a refused leg is the one at  *)
(* fault.  The ids drawn are new, so that the next leg to insert is the    *)
(* one after those already in.                                             *)
(*                                                                         *)
(* LegsInv, on top of it, is of entries: each is read whole before it is   *)
(* posted, its legs go in as they were sent, in the order of their ids,    *)
(* and the tables, as they are and as any reader has seen them, hold whole *)
(* entries that balance, and nothing besides.                              *)
(***************************************************************************)
EXTENDS Book, SumLemmas, SequenceTheorems

\* What a refusal of one leg may say.
LegWhys == {"noSuchAccount", "rejected", "otherCurrency"}

\* Where a poster has something to say to its client, or has said it.
Replied == {"explaining", "answered"}

\* A leg that could be written under an entry in currency c.
Fit(leg, c) ==
    /\ leg.account \in Accounts /\ leg.amount # 0
    /\ c \in Currencies /\ chart[leg.account] = c

Inserted(p) == 1..Cardinality(wrote[p])

\* What a poster has inserted so far.
WroteOK(p) ==
    /\ IsFiniteSet(wrote[p])
    /\ \A row \in wrote[p] :
        /\ row.id \in Nat /\ row.id < nextId /\ row.txn = p
        /\ row.account \in Accounts /\ row.currency \in Currencies
        /\ row.currency = chart[row.account] /\ row.currency = Entry(p).currency
    /\ pc[p] \in {"legs", "asked"} => Entry(p).currency \in Currencies
    /\ pc[p] \notin {"legs", "asked"} => wrote[p] = {}
    /\ pc[p] = "legs" => \A j \in Inserted(p) : Fit(Entry(p).legs[j], Entry(p).currency)

\* Only a poster that is done has legs in the table.
RowOK(row) ==
    /\ row.txn \in Posters /\ pc[row.txn] = "answered"
    /\ row.account \in Accounts /\ row.currency \in Currencies
    /\ row.currency = chart[row.account] /\ row.currency = head[row.txn]

\* What said says of a leg of p's is so.
Due(p, said) ==
    said.status = 422 /\ said.why \in LegWhys =>
        /\ \A j \in 1..said.leg - 1 : Fit(Entry(p).legs[j], Entry(p).currency)
        /\ said.why = "otherCurrency" =>
            LET a == Entry(p).legs[said.leg].account IN
            /\ a \in Accounts /\ chart[a] # None /\ chart[a] # Entry(p).currency
            /\ said.says \in {None, chart[a]}

\* A refusal of a leg is about the chart as it still stands, so that explain's second look
\* finds the account the first found.
ToExplain(said) == said.status = 422 /\ said.why = "otherCurrency" /\ said.leg \in Nat

ReplyOK(p) ==
    /\ pc[p] \in Replied => Due(p, reply[p])
    /\ pc[p] = "explaining" => ToExplain(reply[p])

BookInv ==
    /\ chart \in [Accounts -> Currencies \cup {None}]
    /\ nextId \in Nat
    /\ pc \in [Posters -> Stages]
    /\ DOMAIN wrote = Posters /\ DOMAIN reply = Posters /\ DOMAIN head = Posters
    /\ \A p \in Posters : WroteOK(p) /\ ReplyOK(p)
    /\ \A row \in postings : RowOK(row)

-----------------------------------------------------------------------------
(* Facts about the operators.                                              *)

\* None of the refusals of a body is one of a leg.
LEMMA VerdictIsNoLegs ==
    ASSUME NEW r
    PROVE  Verdict(r).why \notin LegWhys
  BY DEF Verdict, Refused, LegWhys

LEMMA LedgerRefusedFields ==
    ASSUME NEW why, NEW leg, NEW says, NEW said, said = LedgerRefused(why, leg, says)
    PROVE  said.status = 422 /\ said.why = why /\ said.leg = leg /\ said.says = says
  BY DEF LedgerRefused

LEMMA LegRefusalType ==
    ASSUME NEW why \in LegWhys, NEW leg \in Nat, NEW says \in Currencies \cup {None}
    PROVE  LedgerRefused(why, leg, says) \in LegRefusals
  BY DEF LedgerRefused, LegRefusals, LegWhys

\* A leg LegRefusal lets through could be written.
LEMMA UnrefusedIsFit ==
    ASSUME NEW leg, NEW i, NEW c \in Currencies,
           chart \in [Accounts -> Currencies \cup {None}], i \in Nat, LegRefusal(leg, i, c) = None
    PROVE  Fit(leg, c)
  <1>1. \A why \in LegWhys, says \in Currencies \cup {None} : LedgerRefused(why, i, says) # None
    BY NoneAssumption DEF LedgerRefused, LegRefusals, LegWhys
  <1>2. leg.account \in Accounts /\ chart[leg.account] # None
    BY <1>1 DEF LegRefusal, LegWhys
  <1>3. chart[leg.account] \in Currencies \cup {None}
    BY <1>2
  <1>4. leg.amount # 0
    BY <1>1, <1>2 DEF LegRefusal, LegWhys
  <1>5. chart[leg.account] = c
    BY <1>1, <1>2, <1>3, <1>4 DEF LegRefusal, LegWhys, OtherCurrency
  <1> QED  BY <1>2, <1>4, <1>5 DEF Fit

\* One it does not is the leg it names, and its account's currency is another.
LEMMA RefusalIsDue ==
    ASSUME NEW leg, NEW i, NEW c, LegRefusal(leg, i, c) # None
    PROVE  \E why \in LegWhys :
            /\ LegRefusal(leg, i, c) = LedgerRefused(why, i, None)
            /\ why = "otherCurrency" =>
                leg.account \in Accounts /\ chart[leg.account] # None /\ chart[leg.account] # c
  BY DEF LegRefusal, OtherCurrency, LegWhys

LEMMA NextIdType == ASSUME NEW n \in Nat, NEW m, m \in {n, n + 1} PROVE m \in Nat
  OBVIOUS

-----------------------------------------------------------------------------
(* What a step leaves alone.                                               *)

\* A poster that did nothing while the chart stood and ids were drawn.
LEMMA PosterStays ==
    ASSUME NEW p \in Posters, WroteOK(p), ReplyOK(p), nextId \in Nat, nextId' \in {nextId, nextId + 1},
           chart' = chart, request' = request,
           wrote'[p] = wrote[p], pc'[p] = pc[p], reply'[p] = reply[p]
    PROVE  WroteOK(p)' /\ ReplyOK(p)'
  <1>1. Entry(p)' = Entry(p)
    BY DEF Entry
  <1>2. \A leg, c : Fit(leg, c)' <=> Fit(leg, c)
    BY DEF Fit
  <1>3. \A n \in Nat : n < nextId => n < nextId'
    OBVIOUS
  <1>4. WroteOK(p)'
    BY <1>1, <1>2, <1>3 DEF WroteOK, Inserted
  <1>5. ReplyOK(p)'
    BY <1>1, <1>2 DEF ReplyOK, Due
  <1> QED  BY <1>4, <1>5

\* A committed leg while the chart stands and its poster stays done.
LEMMA RowsStay ==
    ASSUME BookInv, chart' = chart, head' = head,
           \A p \in Posters : pc[p] = "answered" => pc'[p] = "answered"
    PROVE  \A row \in postings : RowOK(row)'
  BY DEF BookInv, RowOK

\* A poster is answered, by its own transaction's rollback.
LEMMA RollsBackStep ==
    ASSUME BookInv, NEW p \in Posters, pc[p] # "answered",
           NEW stage \in Replied, NEW said, RollsBack(p, stage, said),
           nextId' \in {nextId, nextId + 1}, request' = request,
           Due(p, said), stage = "explaining" => ToExplain(said)
    PROVE  BookInv'
  <1>1. /\ pc' = [pc EXCEPT ![p] = stage] /\ reply' = [reply EXCEPT ![p] = said]
        /\ wrote' = [wrote EXCEPT ![p] = {}] /\ UNCHANGED <<chart, head, postings>>
    BY DEF RollsBack
  <1>2. nextId \in Nat /\ nextId' \in Nat
    <2>1. nextId \in Nat
      BY DEF BookInv
    <2> QED  BY <2>1, NextIdType
  <1>3. pc'[p] = stage /\ reply'[p] = said /\ wrote'[p] = {} /\ Entry(p)' = Entry(p)
    BY <1>1 DEF BookInv, Entry
  <1>4. \A leg, c : Fit(leg, c)' <=> Fit(leg, c)
    BY <1>1 DEF Fit
  <1>5. WroteOK(p)'
    BY <1>3, FS_EmptySet DEF WroteOK, Replied
  <1>6. ReplyOK(p)'
    <2>1. Due(p, said)'
      BY <1>1, <1>3, <1>4 DEF Due
    <2>2. ToExplain(said)' <=> ToExplain(said)
      BY DEF ToExplain
    <2> QED  BY <1>3, <2>1, <2>2 DEF ReplyOK
  <1>7. ASSUME NEW q \in Posters \ {p}
        PROVE  WroteOK(q)' /\ ReplyOK(q)'
    <2>1. wrote'[q] = wrote[q] /\ pc'[q] = pc[q] /\ reply'[q] = reply[q]
      BY <1>1 DEF BookInv
    <2> QED  BY <1>1, <1>2, <2>1, PosterStays DEF BookInv
  <1>8. \A row \in postings' : RowOK(row)'
    BY <1>1, RowsStay DEF BookInv
  <1>9. /\ pc' \in [Posters -> Stages]
        /\ DOMAIN wrote' = Posters /\ DOMAIN reply' = Posters /\ DOMAIN head' = Posters
        /\ chart' \in [Accounts -> Currencies \cup {None}]
    BY <1>1 DEF BookInv, Stages, Replied
  <1> QED  BY <1>2, <1>5, <1>6, <1>7, <1>8, <1>9 DEF BookInv

LEMMA RepliesStep ==
    ASSUME BookInv, NEW p \in Posters, pc[p] # "answered", NEW said, Replies(p, said),
           nextId' \in {nextId, nextId + 1}, request' = request,
           Due(p, said)
    PROVE  BookInv'
  <1>1. RollsBack(p, "answered", said) /\ "answered" \in Replied
    BY DEF Replies, Replied
  <1> QED  BY <1>1, RollsBackStep

\* A poster goes on with the legs it has.
LEMMA GoesOnStep ==
    ASSUME BookInv, NEW p \in Posters, NEW next \in {"begun", "legs", "asked"},
           pc' = [pc EXCEPT ![p] = next], UNCHANGED <<chart, head, postings, nextId, request, wrote, reply>>,
           \/ pc[p] = "sent" /\ next = "begun"
           \/ pc[p] = "begun" /\ next = "legs" /\ Entry(p).currency \in Currencies
           \/ pc[p] = "legs" /\ next = "asked"
    PROVE  BookInv'
  <1>1. pc'[p] = next /\ pc'[p] \notin Replied /\ pc[p] # "answered" /\ Entry(p)' = Entry(p)
    BY DEF BookInv, Entry, Replied
  <1>2. WroteOK(p)'
    <2>1. WroteOK(p)
      BY DEF BookInv
    <2>2. wrote[p] = {} => Inserted(p) = {}
      BY FS_EmptySet DEF Inserted
    <2> QED  BY <1>1, <2>1, <2>2 DEF WroteOK, Inserted
  <1>3. ReplyOK(p)'
    BY <1>1 DEF ReplyOK, Replied
  <1>4. ASSUME NEW q \in Posters \ {p}
        PROVE  WroteOK(q)' /\ ReplyOK(q)'
    <2>1. wrote'[q] = wrote[q] /\ pc'[q] = pc[q] /\ reply'[q] = reply[q]
      BY DEF BookInv
    <2> QED  BY <2>1, PosterStays DEF BookInv
  <1>5. \A row \in postings' : RowOK(row)'
    BY <1>1, RowsStay DEF BookInv, Replied
  <1>6. pc' \in [Posters -> Stages]
    BY DEF BookInv, Stages
  <1> QED  BY <1>2, <1>3, <1>4, <1>5, <1>6 DEF BookInv

-----------------------------------------------------------------------------
(* The steps of a poster.                                                  *)

LEMMA DecodesStep ==
    ASSUME BookInv, NEW p \in Posters, Decodes(p)
    PROVE  BookInv'
  <1> DEFINE v == Verdict(request[p])
  <1>1. pc[p] = "sent" /\ nextId' = nextId /\ request' = request
    BY DEF Decodes
  <1>2. CASE v.status # 0
    <2>1. Replies(p, v)
      BY <1>2 DEF Decodes
    <2>2. v.why \notin LegWhys
      BY VerdictIsNoLegs
    <2> HIDE DEF v
    <2>3. Due(p, v)
      BY <2>2 DEF Due
    <2> QED  BY <1>1, <2>1, <2>3, RepliesStep
  <1>3. CASE v.status = 0
    <2>1. pc' = [pc EXCEPT ![p] = "begun"] /\ UNCHANGED <<chart, head, postings, wrote, reply>>
      BY <1>3 DEF Decodes
    <2> QED  BY <1>1, <2>1, GoesOnStep
  <1> QED  BY <1>2, <1>3

LEMMA InsertsHeadStep ==
    ASSUME BookInv, NEW p \in Posters, InsertsHead(p)
    PROVE  BookInv'
  <1> DEFINE said == LedgerRefused("rejected", 0, None)
  <1>1. pc[p] = "begun" /\ nextId' = nextId /\ request' = request
    BY DEF InsertsHead
  <1>2. CASE Entry(p).currency \in Currencies
    BY <1>1, <1>2, GoesOnStep DEF InsertsHead
  <1>3. CASE Entry(p).currency \notin Currencies
    <2>1. Replies(p, said)
      BY <1>3 DEF InsertsHead
    <2>2. said.leg = 0 /\ said.why = "rejected"
      BY LedgerRefusedFields
    <2> HIDE DEF said
    <2>3. Due(p, said)
      BY <2>2 DEF Due
    <2> QED  BY <1>1, <2>1, <2>3, RepliesStep
  <1> QED  BY <1>2, <1>3

\* The row a leg becomes is in its account's currency, which is its entry's.
LEMMA InsertsLegStep ==
    ASSUME BookInv, NEW p \in Posters, InsertsLeg(p)
    PROVE  BookInv'
  <1> DEFINE i == Cardinality(wrote[p]) + 1
             leg == Entry(p).legs[i]
             c == Entry(p).currency
             refusal == LegRefusal(leg, i, c)
             row == [id |-> nextId, txn |-> p, account |-> leg.account,
                     currency |-> chart[leg.account], amount |-> leg.amount]
  <1>1. /\ pc[p] = "legs" /\ nextId' = nextId + 1 /\ request' = request
        /\ nextId \in Nat /\ WroteOK(p) /\ c \in Currencies
        /\ chart \in [Accounts -> Currencies \cup {None}]
    BY DEF InsertsLeg, BookInv, WroteOK
  <1>2. Cardinality(wrote[p]) \in Nat /\ i \in Nat /\ IsFiniteSet(wrote[p])
    BY <1>1, FS_CardinalityType DEF WroteOK
  <1>3. \A j \in 1..i-1 : Fit(Entry(p).legs[j], c)
    BY <1>1, <1>2 DEF WroteOK, Inserted
  <1>4. CASE refusal # None
    <2>1. RollsBack(p, Stage(refusal), refusal)
      BY <1>4 DEF InsertsLeg
    <2> HIDE DEF leg, i, c
    <2>2. PICK why \in LegWhys :
            /\ refusal = LedgerRefused(why, i, None)
            /\ why = "otherCurrency" =>
                leg.account \in Accounts /\ chart[leg.account] # None /\ chart[leg.account] # c
      BY <1>4, RefusalIsDue
    <2> HIDE DEF refusal
    <2>3. Entry(p).legs[i] = leg /\ Entry(p).currency = c
      BY DEF leg, c
    <2>4. refusal.status = 422 /\ refusal.why = why /\ refusal.leg = i /\ refusal.says = None
      BY <2>2, LedgerRefusedFields
    <2>5. Due(p, refusal)
      BY <1>3, <2>2, <2>3, <2>4 DEF Due
    <2>6. Stage(refusal) \in Replied /\ (Stage(refusal) = "explaining" => ToExplain(refusal))
      BY <1>2, <2>4 DEF Stage, Replied, ToExplain
    <2> QED  BY <1>1, <2>1, <2>5, <2>6, RollsBackStep
  <1>5. CASE refusal = None
    <2>1. wrote' = [wrote EXCEPT ![p] = @ \cup {row}] /\ UNCHANGED <<chart, head, postings, pc, reply>>
      BY <1>5 DEF InsertsLeg
    <2>2. Fit(leg, c)
      <3> HIDE DEF leg, i, c
      <3> QED  BY <1>1, <1>2, <1>5, UnrefusedIsFit
    <2>3. /\ row.id = nextId /\ row.txn = p /\ row.account = leg.account
          /\ row.currency = chart[leg.account]
      OBVIOUS
    <2>4. wrote'[p] = wrote[p] \cup {row}
      BY <2>1 DEF BookInv
    <2> HIDE DEF row, refusal
    <2>5. row \notin wrote[p]
      BY <1>1, <2>3 DEF WroteOK
    <2>6. IsFiniteSet(wrote'[p]) /\ Cardinality(wrote'[p]) = i
      BY <1>2, <2>4, <2>5, FS_AddElement
    <2>7. Entry(p)' = Entry(p) /\ \A l, d : Fit(l, d)' <=> Fit(l, d)
      BY <1>1, <2>1 DEF Entry, Fit
    <2>8. \A j \in 1..i : Fit(Entry(p).legs[j], c)
      BY <1>2, <1>3, <2>2
    <2>9. \A x \in wrote'[p] :
            /\ x.id \in Nat /\ x.id < nextId' /\ x.txn = p
            /\ x.account \in Accounts /\ x.currency \in Currencies
            /\ x.currency = chart[x.account] /\ x.currency = c
      <3>1. ASSUME NEW x \in wrote[p]
            PROVE  /\ x.id \in Nat /\ x.id < nextId' /\ x.txn = p
                   /\ x.account \in Accounts /\ x.currency \in Currencies
                   /\ x.currency = chart[x.account] /\ x.currency = c
        BY <1>1 DEF WroteOK
      <3>2. row.id \in Nat /\ row.id < nextId'
        BY <1>1, <2>3
      <3>3. row.account \in Accounts /\ row.currency = c /\ row.currency = chart[row.account]
        BY <2>2, <2>3 DEF Fit
      <3> QED  BY <1>1, <2>3, <2>4, <3>1, <3>2, <3>3
    <2>10. WroteOK(p)'
      BY <1>1, <2>1, <2>6, <2>7, <2>8, <2>9 DEF WroteOK, Inserted
    <2>11. ReplyOK(p)'
      BY <1>1, <2>1 DEF ReplyOK, Replied
    <2>12. ASSUME NEW q \in Posters \ {p}
           PROVE  WroteOK(q)' /\ ReplyOK(q)'
      <3>1. wrote'[q] = wrote[q] /\ pc'[q] = pc[q] /\ reply'[q] = reply[q]
        BY <2>1 DEF BookInv
      <3> QED  BY <1>1, <2>1, <3>1, PosterStays DEF BookInv
    <2>13. \A x \in postings' : RowOK(x)'
      BY <2>1, RowsStay
    <2>14. DOMAIN wrote' = Posters /\ nextId' \in Nat
      BY <1>1, <2>1 DEF BookInv
    <2> QED  BY <2>1, <2>10, <2>11, <2>12, <2>13, <2>14 DEF BookInv
  <1> QED  BY <1>4, <1>5

LEMMA AsksBalanceStep ==
    ASSUME BookInv, NEW p \in Posters, AsksBalance(p)
    PROVE  BookInv'
  <1> DEFINE said == LedgerRefused("unbalanced", 0, Net(Entry(p)))
  <1>1. pc[p] = "legs" /\ nextId' = nextId /\ request' = request
    BY DEF AsksBalance
  <1>2. CASE Balanced(wrote[p])
    BY <1>1, <1>2, GoesOnStep DEF AsksBalance
  <1>3. CASE ~Balanced(wrote[p])
    <2>1. Replies(p, said)
      BY <1>3 DEF AsksBalance
    <2>2. said.why = "unbalanced"
      BY LedgerRefusedFields
    <2> HIDE DEF said
    <2>3. Due(p, said)
      BY <2>2 DEF Due, LegWhys
    <2> QED  BY <1>1, <2>1, <2>3, RepliesStep
  <1> QED  BY <1>2, <1>3

\* COMMIT: the legs and their entry's currency together.
LEMMA CommitsStep ==
    ASSUME BookInv, NEW p \in Posters, Commits(p)
    PROVE  BookInv'
  <1>1. /\ pc[p] = "asked" /\ head' = [head EXCEPT ![p] = Entry(p).currency]
        /\ postings' = postings \cup wrote[p] /\ wrote' = [wrote EXCEPT ![p] = {}]
        /\ pc' = [pc EXCEPT ![p] = "answered"]
        /\ reply' = [reply EXCEPT ![p] = Created]
        /\ UNCHANGED <<chart, nextId, request>>
    BY DEF Commits
  <1>2. /\ pc'[p] = "answered" /\ wrote'[p] = {} /\ reply'[p].status = 201
        /\ head'[p] = Entry(p).currency
    BY <1>1 DEF BookInv, Created
  <1>3. WroteOK(p)' /\ ReplyOK(p)'
    BY <1>2, FS_EmptySet DEF WroteOK, ReplyOK, Due
  <1>4. ASSUME NEW q \in Posters \ {p}
        PROVE  WroteOK(q)' /\ ReplyOK(q)' /\ pc'[q] = pc[q] /\ head'[q] = head[q]
    <2>1. wrote'[q] = wrote[q] /\ pc'[q] = pc[q] /\ reply'[q] = reply[q] /\ head'[q] = head[q]
      BY <1>1 DEF BookInv
    <2> QED  BY <1>1, <2>1, PosterStays DEF BookInv
  <1>5. ASSUME NEW row \in postings'
        PROVE  RowOK(row)'
    <2>1. CASE row \in postings
      <3>1. RowOK(row) /\ row.txn # p
        BY <1>1, <2>1 DEF BookInv, RowOK
      <3> QED  BY <1>1, <1>4, <3>1 DEF RowOK
    <2>2. CASE row \in wrote[p]
      BY <1>1, <1>2, <2>2 DEF BookInv, WroteOK, RowOK
    <2> QED  BY <1>1, <2>1, <2>2
  <1>6. /\ pc' \in [Posters -> Stages]
        /\ DOMAIN wrote' = Posters /\ DOMAIN reply' = Posters /\ DOMAIN head' = Posters
        /\ chart' \in [Accounts -> Currencies \cup {None}] /\ nextId' \in Nat
    BY <1>1 DEF BookInv, Stages
  <1> QED  BY <1>3, <1>4, <1>5, <1>6 DEF BookInv

LEMMA RefusedOtherwiseStep ==
    ASSUME BookInv, NEW p \in Posters, RefusedOtherwise(p)
    PROVE  BookInv'
  <1> DEFINE i == Cardinality(wrote[p]) + 1
             leg == IF pc[p] = "legs" /\ i <= Len(Entry(p).legs) THEN i ELSE 0
             said == LedgerRefused("rejected", leg, None)
  <1>1. pc[p] # "answered" /\ nextId' = nextId /\ request' = request /\ Replies(p, said)
    BY DEF RefusedOtherwise
  <1>2. \A j \in 1..leg - 1 : Fit(Entry(p).legs[j], Entry(p).currency)
    <2>1. WroteOK(p)
      BY DEF BookInv
    <2>2. Cardinality(wrote[p]) \in Nat
      BY <2>1, FS_CardinalityType DEF WroteOK
    <2> QED  BY <2>1, <2>2 DEF WroteOK, Inserted
  <1> HIDE DEF leg
  <1>3. said.leg = leg /\ said.why = "rejected"
    BY LedgerRefusedFields
  <1> HIDE DEF said
  <1>4. Due(p, said)
    BY <1>2, <1>3 DEF Due
  <1> QED  BY <1>1, <1>4, RepliesStep

\* The second look finds what the key found.
LEMMA ExplainsStep ==
    ASSUME BookInv, NEW p \in Posters, Explains(p)
    PROVE  BookInv'
  <1> DEFINE held == chart[Entry(p).legs[reply[p].leg].account]
  <1>1. pc[p] = "explaining" /\ nextId' = nextId /\ request' = request
    BY DEF Explains
  <1>2. PICK says \in {held, None} : Replies(p, LedgerRefused("otherCurrency", reply[p].leg, says))
    BY DEF Explains
  <1> DEFINE said == LedgerRefused("otherCurrency", reply[p].leg, says)
  <1>3. Due(p, reply[p]) /\ ToExplain(reply[p])
    BY <1>1 DEF BookInv, ReplyOK, Replied
  <1>4. said.status = 422 /\ said.why = "otherCurrency" /\ said.leg = reply[p].leg /\ said.says = says
    BY LedgerRefusedFields
  <1>5. Replies(p, said)
    BY <1>2
  <1> HIDE DEF said
  <1>6. Due(p, said)
    BY <1>2, <1>3, <1>4 DEF Due, ToExplain, LegWhys
  <1> QED  BY <1>1, <1>5, <1>6, RepliesStep

LEMMA GivesUpStep ==
    ASSUME BookInv, NEW p \in Posters, GivesUp(p)
    PROVE  BookInv'
  <1>1. pc[p] # "answered" /\ nextId' = nextId /\ request' = request /\ Replies(p, NotReached)
    BY DEF GivesUp
  <1>2. Due(p, NotReached)
    BY DEF Due, LegWhys, NotReached
  <1> QED  BY <1>1, <1>2, RepliesStep

\* A new account is none that a leg is on.
LEMMA OpensAccountStep ==
    ASSUME BookInv, NEW a \in Accounts, NEW c \in Currencies, OpensAccount(a, c)
    PROVE  BookInv'
  <1>1. /\ chart[a] = None /\ chart' = [chart EXCEPT ![a] = c]
        /\ UNCHANGED <<head, postings, nextId, request, pc, wrote, reply>>
        /\ chart \in [Accounts -> Currencies \cup {None}]
    BY DEF OpensAccount, BookInv
  <1>2. \A b \in Accounts : chart[b] # None => chart'[b] = chart[b]
    BY <1>1
  <1>3. \A leg, d : Fit(leg, d) => Fit(leg, d)'
    BY <1>2, NoneAssumption DEF Fit
  <1>4. ASSUME NEW p \in Posters
        PROVE  WroteOK(p)' /\ ReplyOK(p)'
    <2>1. WroteOK(p) /\ ReplyOK(p) /\ Entry(p)' = Entry(p)
      BY <1>1 DEF BookInv, Entry
    <2>2. WroteOK(p)'
      <3>1. \A row \in wrote[p] : chart'[row.account] = chart[row.account]
        BY <1>2, <2>1, NoneAssumption DEF WroteOK
      <3> QED  BY <1>1, <1>3, <2>1, <3>1 DEF WroteOK, Inserted
    <2>3. ReplyOK(p)'
      <3>1. reply'[p] = reply[p] /\ pc'[p] = pc[p]
        BY <1>1
      <3>2. \A said : Due(p, said) => Due(p, said)'
        BY <1>2, <1>3, <2>1, NoneAssumption DEF Due
      <3> QED  BY <2>1, <3>1, <3>2 DEF ReplyOK
    <2> QED  BY <2>2, <2>3
  <1>5. \A row \in postings' : RowOK(row)'
    BY <1>1, <1>2, NoneAssumption DEF BookInv, RowOK
  <1>6. chart' \in [Accounts -> Currencies \cup {None}]
    BY <1>1
  <1> QED  BY <1>1, <1>4, <1>5, <1>6 DEF BookInv

\* Reads write nothing.
LEMMA ReadsStep ==
    ASSUME BookInv, UNCHANGED writeVars
    PROVE  BookInv'
  <1>1. UNCHANGED <<chart, head, postings, nextId, request, pc, wrote, reply>>
    BY DEF writeVars
  <1>2. \A p \in Posters : WroteOK(p)' /\ ReplyOK(p)'
    BY <1>1, PosterStays DEF BookInv
  <1>3. \A row \in postings' : RowOK(row)'
    BY <1>1, RowsStay
  <1> QED  BY <1>1, <1>2, <1>3 DEF BookInv

-----------------------------------------------------------------------------
(* The foreign keys.                                                       *)

LEMMA InitBookInv == Init => BookInv
  <1> SUFFICES ASSUME Init PROVE BookInv
    OBVIOUS
  <1>1. chart \in [Accounts -> Currencies \cup {None}] /\ nextId \in Nat /\ postings = {}
    BY ChartAssumption DEF Init
  <1>2. ASSUME NEW p \in Posters
        PROVE  WroteOK(p) /\ ReplyOK(p)
    BY FS_EmptySet DEF Init, WroteOK, ReplyOK, Replied
  <1>3. /\ pc \in [Posters -> Stages]
        /\ DOMAIN wrote = Posters /\ DOMAIN reply = Posters /\ DOMAIN head = Posters
    BY DEF Init, Stages
  <1> QED  BY <1>1, <1>2, <1>3 DEF BookInv

LEMMA NextBookInv == BookInv /\ [Next]_vars => BookInv'
  <1> SUFFICES ASSUME BookInv, [Next]_vars PROVE BookInv'
    OBVIOUS
  <1>1. CASE UNCHANGED vars
    BY <1>1, ReadsStep DEF vars
  <1>2. ASSUME NEW p \in Posters,
               \/ Decodes(p) \/ InsertsHead(p) \/ InsertsLeg(p) \/ AsksBalance(p) \/ Commits(p)
               \/ RefusedOtherwise(p) \/ Explains(p) \/ GivesUp(p)
        PROVE  BookInv'
    BY <1>2, DecodesStep, InsertsHeadStep, InsertsLegStep, AsksBalanceStep, CommitsStep,
       RefusedOtherwiseStep, ExplainsStep, GivesUpStep
  <1>3. ASSUME NEW a \in Accounts, NEW c \in Currencies, OpensAccount(a, c)
        PROVE  BookInv'
    BY <1>3, OpensAccountStep
  <1>4. ASSUME NEW r \in Readers, Looks(r) \/ Answers(r) \/ \E q \in Questions : Asks(r, q)
        PROVE  BookInv'
    <2>1. UNCHANGED writeVars
      BY <1>4 DEF Looks, Answers, Asks
    <2> QED  BY <2>1, ReadsStep
  <1> QED  BY <1>1, <1>2, <1>3, <1>4 DEF Next

LEMMA BookInvariance == Spec => []BookInv
  BY InitBookInv, NextBookInv, PTL DEF Spec

\* The two foreign keys: a committed leg is in the currency of its account and of its
\* entry, whichever accounts were opened and entries posted meanwhile.
THEOREM PostingsAlwaysKeepToOneCurrency == Spec => []PostingsKeepToOneCurrency
  <1>1. BookInv => PostingsKeepToOneCurrency
    BY DEF BookInv, RowOK, PostingsKeepToOneCurrency
  <1> QED  BY <1>1, BookInvariance, PTL

\* explain: the leg a refusal names is the first that could not be written, and the
\* currency it says the account holds is the one the account still holds.
THEOREM TheLegRefusedIsAlwaysAtFault == Spec => []TheLegRefusedIsAtFault
  <1>1. BookInv => TheLegRefusedIsAtFault
    <2> SUFFICES ASSUME BookInv, NEW p \in Posters,
                        pc[p] = "answered", reply[p].status = 422, reply[p].why \in LegWhys
                 PROVE  /\ \A j \in 1..reply[p].leg - 1 :
                            Entry(p).legs[j].amount # 0 /\ chart[Entry(p).legs[j].account] = Entry(p).currency
                        /\ reply[p].why = "otherCurrency" /\ reply[p].says # None =>
                            /\ reply[p].says = chart[Entry(p).legs[reply[p].leg].account]
                            /\ reply[p].says # Entry(p).currency
      BY DEF TheLegRefusedIsAtFault, LegWhys
    <2>1. ReplyOK(p)
      BY DEF BookInv
    <2> QED  BY <2>1 DEF ReplyOK, Replied, Due, Fit
  <1> QED  BY <1>1, BookInvariance, PTL

-----------------------------------------------------------------------------
(* Entries.                                                                *)

\* A request that is read, as an entry.
IsRead(r) == r \in Requests /\ Verdict(r).status = 0

Numbered(rows) == IsFiniteSet(rows) /\ \A row \in rows : row.id \in Nat

Priced(legs) ==
    /\ Len(legs) \in Nat /\ DOMAIN legs = 1..Len(legs)
    /\ \A i \in 1..Len(legs) : legs[i].amount \in Int

-----------------------------------------------------------------------------
(* What a body is read as.                                                 *)

LEMMA ReadStatus ==
    ASSUME NEW r \in Requests, Verdict(r).status = 0
    PROVE  r.value \in Bodies /\ BodyFaults(r.value) = {} /\ ~TooMany(r.value)
  <1>1. \A s, w, f : Refused(s, w, f).status = s
    BY DEF Refused
  <1>2. r.value \in Bodies \cup {Null, Wrong}
    BY DEF Requests
  <1> QED  BY <1>1, <1>2 DEF Verdict

\* What a body is refused for.
LEMMA FieldsRefused ==
    ASSUME NEW r \in Requests, Verdict(r).why = "fields"
    PROVE  r.value \in Bodies /\ Verdict(r).faults = BodyFaults(r.value)
  <1>1. \A s, w, f : Refused(s, w, f).why = w /\ Refused(s, w, f).faults = f
    BY DEF Refused
  <1>2. r.value \in Bodies \cup {Null, Wrong}
    BY DEF Requests
  <1> QED  BY <1>1, <1>2 DEF Verdict

\* A verdict is never a ledger's.
LEMMA VerdictWhys ==
    ASSUME NEW r
    PROVE  Verdict(r).status \notin {201} /\ Verdict(r).why \notin {"unbalanced"}
  <1>1. \A s \in {0, 400, 413, 415, 422} : \A w, f : Refused(s, w, f).status \notin {201}
    BY DEF Refused
  <1>2. \A s, f : \A w \in {"notDeclared", "noKey", "oversized", "unreadable", "moreThanOneValue",
                           "notAnObject", "fields", "tooManyPostings", "read"} :
            Refused(s, w, f).why \notin {"unbalanced"}
    BY DEF Refused
  <1>3. Verdict(r).status \notin {201}
    BY <1>1 DEF Verdict
  <1>4. Verdict(r).why \notin {"unbalanced"}
    BY <1>2 DEF Verdict
  <1> QED  BY <1>3, <1>4

\* A body without faults that carries no more legs than are read has legs without faults.
LEMMA FaultlessLegs ==
    ASSUME NEW b \in Bodies, BodyFaults(b) = {}, ~TooMany(b)
    PROVE  /\ ~Unfit(b.currency)
           /\ Postings(b) \in Seq(LegBodies \cup {Null, Wrong})
           /\ \A i \in 1..Len(Postings(b)) : LegFaults(Postings(b)[i], i) = {}
  <1>1. ~Unfit(b.currency) /\ ArrayFaults(b.postings) = {}
    BY DEF BodyFaults, Fault
  <1>2. CASE b.postings \in {Absent, Null}
    BY <1>1, <1>2 DEF Postings
  <1>3. CASE b.postings \notin {Absent, Null}
    <2>1. b.postings # Wrong
      BY <1>1, <1>3 DEF ArrayFaults
    <2>2. b.postings \in Seq(LegBodies \cup {Null, Wrong}) /\ Postings(b) = b.postings
      BY <1>3, <2>1 DEF Bodies, Odd, Postings
    <2>3. ReadLegs(b.postings) = Len(b.postings)
      BY <2>2, WidthAssumption DEF TooMany, ReadLegs
    <2>4. UNION {LegFaults(b.postings[i], i) : i \in 1..Len(b.postings)} = {}
      BY <1>1, <1>3, <2>1, <2>3 DEF ArrayFaults
    <2>5. ASSUME NEW i \in 1..Len(b.postings)
          PROVE  LegFaults(b.postings[i], i) = {}
      BY <2>4
    <2> QED  BY <1>1, <2>2, <2>5
  <1> QED  BY <1>2, <1>3

LEMMA FaultlessAmount ==
    ASSUME NEW leg, NEW i, LegFaults(leg, i) = {}
    PROVE  LET n == OrZero(leg.amount_minor, 0)
           IN  n \in Int /\ (n # 0 => n \in MinMinor..MaxMinor)
  <1>1. ~UnfitAmount(leg.amount_minor)
    BY DEF LegFaults, Fault
  <1>2. CASE leg.amount_minor \in {Absent, Null}
    BY <1>2 DEF OrZero
  <1>3. CASE leg.amount_minor \notin {Absent, Null}
    <2>1. leg.amount_minor \in MinMinor..MaxMinor
      BY <1>1, <1>3 DEF UnfitAmount, Unfit
    <2> QED  BY <1>3, <2>1, WidthAssumption DEF OrZero
  <1> QED  BY <1>2, <1>3

\* The legs of an entry that is read.
LEMMA EntryLegs ==
    ASSUME NEW r, IsRead(r), NEW e, e = EntryIn(r.value)
    PROVE  /\ Priced(e.legs)
           /\ \A i \in 1..Len(e.legs) : e.legs[i].amount # 0 => e.legs[i].amount \in MinMinor..MaxMinor
           /\ e = [currency |-> e.currency,
                   legs     |-> [i \in 1..Len(e.legs) |->
                                    [account |-> e.legs[i].account, amount |-> e.legs[i].amount]]]
  <1> DEFINE b == r.value
             n == Len(Postings(b))
             legs == [i \in 1..n |-> [account |-> OrZero(Postings(b)[i].account, NoName),
                                      amount  |-> OrZero(Postings(b)[i].amount_minor, 0)]]
  <1>1. b \in Bodies /\ BodyFaults(b) = {} /\ ~TooMany(b)
    BY ReadStatus DEF IsRead
  <1>2. Postings(b) \in Seq(LegBodies \cup {Null, Wrong})
        /\ \A i \in 1..n : LegFaults(Postings(b)[i], i) = {}
    <2> HIDE DEF b
    <2> QED  BY <1>1, FaultlessLegs
  <1>3. n \in Nat
    BY <1>2
  <1>4. e = [currency |-> OrZero(b.currency, NoName), legs |-> legs]
    BY DEF EntryIn
  <1>5. e.legs = legs /\ DOMAIN legs = 1..n
    BY <1>4
  <1>6. ASSUME NEW i \in 1..n
        PROVE  /\ legs[i] = [account |-> legs[i].account, amount |-> legs[i].amount]
               /\ legs[i].amount \in Int
               /\ legs[i].amount # 0 => legs[i].amount \in MinMinor..MaxMinor
    <2>1. legs[i].amount = OrZero(Postings(b)[i].amount_minor, 0)
      OBVIOUS
    <2>2. legs[i] = [account |-> legs[i].account, amount |-> legs[i].amount]
      OBVIOUS
    <2> HIDE DEF legs, n, b
    <2> QED  BY <1>2, <2>1, <2>2, FaultlessAmount
  <1>7. Len(legs) = n
    <2>1. \E any : legs \in [1..n -> any]
      <3>1. legs \in [1..n -> {legs[i] : i \in 1..n}]
        OBVIOUS
      <3> QED  BY <3>1
    <2> HIDE DEF legs, n
    <2> QED  BY <1>3, <2>1
  <1>8. legs = [i \in 1..n |-> legs[i]]
    OBVIOUS
  <1>9. legs = [i \in 1..n |-> [account |-> legs[i].account, amount |-> legs[i].amount]]
    <2> HIDE DEF legs, n, b
    <2> QED  BY <1>6, <1>8
  <1> HIDE DEF legs, n, b
  <1> QED  BY <1>3, <1>4, <1>5, <1>6, <1>7, <1>9 DEF Priced

-----------------------------------------------------------------------------
(* The legs under an id, in the order they were written.                   *)

\* s lists rows in the order of their ids, and they are the first of legs in theirs.
Lists(s, rows, legs) ==
    /\ s \in [1..Cardinality(rows) -> rows]
    /\ \A row \in rows : \E i \in 1..Cardinality(rows) : s[i] = row
    /\ \A i, j \in 1..Cardinality(rows) : i < j => s[i].id < s[j].id
    /\ \A i \in 1..Cardinality(rows) : s[i].account = legs[i].account /\ s[i].amount = legs[i].amount

\* rows are the first of legs.
Begins(rows, legs) ==
    /\ Cardinality(rows) <= Len(legs)
    /\ \E s \in [1..Cardinality(rows) -> rows] : Lists(s, rows, legs)

\* rows are legs, and balance.
IsWhole(rows, legs) ==
    /\ Cardinality(rows) = Len(legs) /\ Begins(rows, legs)
    /\ Balanced(rows)

\* The ids at or before the i-th row's are the first i.
LEMMA PlaceInList ==
    ASSUME NEW rows, Numbered(rows), NEW legs, NEW s, Lists(s, rows, legs), NEW i \in 1..Cardinality(rows)
    PROVE  Cardinality({o \in rows : o.id <= s[i].id}) = i
  <1> DEFINE n == Cardinality(rows)
             before == {o \in rows : o.id <= s[i].id}
             f == [j \in 1..i |-> s[j]]
  <1>1. n \in Nat /\ i \in 1..n /\ s \in [1..n -> rows]
    BY FS_CardinalityType DEF Lists, Numbered
  <1>2. \A j, k \in 1..n : j < k => s[j].id < s[k].id
    BY DEF Lists
  <1>3. \A j \in 1..n : s[j] \in rows /\ s[j].id \in Nat
    BY <1>1 DEF Numbered
  <1>4. \A o \in rows : \E j \in 1..n : s[j] = o
    BY DEF Lists
  <1> HIDE DEF n
  <1>5. \A j \in 1..i : f[j] \in before
    <2> SUFFICES ASSUME NEW j \in 1..i PROVE s[j] \in before
      OBVIOUS
    <2>1. j \in 1..n /\ (j = i \/ j < i)
      BY <1>1
    <2> QED  BY <1>1, <1>2, <1>3, <2>1
  <1>6. \A o \in before : \E j \in 1..i : f[j] = o
    <2> SUFFICES ASSUME NEW o \in before PROVE \E j \in 1..i : s[j] = o
      OBVIOUS
    <2>1. PICK j \in 1..n : s[j] = o
      BY <1>4
    <2>2. ~(i < j)
      BY <1>1, <1>2, <1>3, <2>1
    <2> QED  BY <1>1, <2>1, <2>2
  <1>7. \A j, k \in 1..i : f[j] = f[k] => j = k
    <2> SUFFICES ASSUME NEW j \in 1..i, NEW k \in 1..i, s[j] = s[k] PROVE j = k
      OBVIOUS
    <2>1. j \in 1..n /\ k \in 1..n
      BY <1>1
    <2>2. ~(s[j].id < s[k].id) /\ ~(s[k].id < s[j].id)
      BY <1>3, <2>1
    <2> QED  BY <1>1, <1>2, <2>1, <2>2
  <1>8. f \in Bijection(1..i, before)
    <2>1. f \in [1..i -> before]
      BY <1>5
    <2> HIDE DEF f, before
    <2> QED  BY <1>6, <1>7, <2>1 DEF Bijection, Injection, Surjection, IsInjective
  <1>9. IsFiniteSet(1..i) /\ Cardinality(1..i) = i
    BY <1>1, FS_Interval
  <1> HIDE DEF f, before
  <1>10. Cardinality(before) = Cardinality(1..i)
    BY <1>8, <1>9, FS_Bijection DEF ExistsBijection
  <1> QED  BY <1>9, <1>10 DEF before

\* ORDER BY p.id finds the order they were inserted in.
LEMMA ListIsWrittenOrder ==
    ASSUME NEW rows, Numbered(rows), NEW legs, NEW s, Lists(s, rows, legs)
    PROVE  InWrittenOrder(rows) = s
  <1> DEFINE n == Cardinality(rows)
             Place(row) == Cardinality({o \in rows : o.id <= row.id})
  <1>1. s \in [1..n -> rows]
    BY DEF Lists
  <1>2. \A i \in 1..n : Place(s[i]) = i
    BY PlaceInList
  <1>3. ASSUME NEW i \in 1..n
        PROVE  (CHOOSE row \in rows : Place(row) = i) = s[i]
    <2> HIDE DEF Place
    <2>1. s[i] \in rows /\ Place(s[i]) = i
      BY <1>1, <1>2
    <2>2. ASSUME NEW row \in rows, Place(row) = i
          PROVE  row = s[i]
      <3>1. PICK j \in 1..n : s[j] = row
        BY DEF Lists
      <3> QED  BY <1>2, <2>2, <3>1
    <2> QED  BY <2>1, <2>2
  <1>4. InWrittenOrder(rows) = [i \in 1..n |-> CHOOSE row \in rows : Place(row) = i]
    BY DEF InWrittenOrder
  <1>5. s = [i \in 1..n |-> s[i]]
    BY <1>1
  <1> HIDE DEF n, Place
  <1> QED  BY <1>3, <1>4, <1>5

\* The next leg goes to the end.
LEMMA ListGrows ==
    ASSUME NEW rows, IsFiniteSet(rows), NEW legs, Begins(rows, legs), NEW row,
           \A o \in rows : o.id \in Nat /\ o.id < row.id, row.id \in Nat,
           Len(legs) \in Nat, Cardinality(rows) + 1 <= Len(legs),
           row.account = legs[Cardinality(rows) + 1].account,
           row.amount = legs[Cardinality(rows) + 1].amount
    PROVE  Begins(rows \cup {row}, legs)
  <1> DEFINE n == Cardinality(rows)
             more == rows \cup {row}
  <1>1. PICK s \in [1..n -> rows] : Lists(s, rows, legs)
    BY DEF Begins
  <1> DEFINE t == [i \in 1..n + 1 |-> IF i = n + 1 THEN row ELSE s[i]]
  <1>2. n \in Nat
    BY FS_CardinalityType
  <1>3. row \notin rows
    OBVIOUS
  <1>4. Cardinality(more) = n + 1
    BY <1>3, FS_AddElement
  <1>5. \A i \in 1..n : t[i] = s[i] /\ s[i] \in rows /\ i \in 1..n + 1
    BY <1>2
  <1>6. t[n + 1] = row /\ n + 1 \in 1..n + 1
    BY <1>2
  <1>7. \A i \in 1..n + 1 : i \in 1..n \/ i = n + 1
    BY <1>2
  <1>8. /\ \A o \in rows : \E i \in 1..n : s[i] = o
        /\ \A i, j \in 1..n : i < j => s[i].id < s[j].id
        /\ \A i \in 1..n : s[i].account = legs[i].account /\ s[i].amount = legs[i].amount
    BY <1>1 DEF Lists
  <1>9. t \in [1..n + 1 -> more]
    <2>1. \A i \in 1..n + 1 : t[i] \in more
      <3> HIDE DEF n, t
      <3> QED  BY <1>5, <1>6, <1>7
    <2>2. DOMAIN t = 1..n + 1 /\ t = [i \in 1..n + 1 |-> t[i]]
      OBVIOUS
    <2> HIDE DEF t, n, more
    <2> QED  BY <2>1, <2>2
  <1> HIDE DEF t, n
  <1>10. \A o \in more : \E i \in 1..n + 1 : t[i] = o
    <2>1. ASSUME NEW o \in rows
          PROVE  \E i \in 1..n + 1 : t[i] = o
      BY <1>5, <1>8
    <2> QED  BY <1>6, <2>1
  <1>11. ASSUME NEW i \in 1..n + 1, NEW j \in 1..n + 1, i < j
         PROVE  t[i].id < t[j].id
    <2>1. i \in 1..n
      BY <1>2, <1>11
    <2>2. CASE j \in 1..n
      BY <1>5, <1>8, <1>11, <2>1, <2>2
    <2>3. CASE j = n + 1
      BY <1>5, <1>6, <2>1, <2>3
    <2> QED  BY <1>7, <2>2, <2>3
  <1>12. \A i \in 1..n + 1 : t[i].account = legs[i].account /\ t[i].amount = legs[i].amount
    <2>1. row.account = legs[n + 1].account /\ row.amount = legs[n + 1].amount
      BY DEF n
    <2> QED  BY <1>5, <1>6, <1>7, <1>8, <2>1
  <1>13. Lists(t, more, legs)
    <2> HIDE DEF more
    <2> QED  BY <1>4, <1>9, <1>10, <1>11, <1>12 DEF Lists
  <1>14. n + 1 <= Len(legs)
    BY DEF n
  <1> HIDE DEF more
  <1>15. Begins(more, legs)
    BY <1>4, <1>9, <1>13, <1>14 DEF Begins
  <1> QED  BY <1>15 DEF more

LEMMA ListIsBijection ==
    ASSUME NEW rows, Numbered(rows), NEW legs, NEW s, Lists(s, rows, legs)
    PROVE  s \in Bijection(1..Cardinality(rows), rows)
  <1> DEFINE n == Cardinality(rows)
  <1>1. s \in [1..n -> rows] /\ \A row \in rows : \E i \in 1..n : s[i] = row
    BY DEF Lists
  <1>2. \A i, j \in 1..n : s[i] = s[j] => i = j
    <2>1. \A i \in 1..n : Cardinality({o \in rows : o.id <= s[i].id}) = i
      BY PlaceInList
    <2> QED  BY <2>1
  <1> HIDE DEF n
  <1>3. s \in Injection(1..n, rows) /\ s \in Surjection(1..n, rows)
    BY <1>1, <1>2 DEF Injection, IsInjective, Surjection
  <1> QED  BY <1>3 DEF Bijection, n

\* Rows that are legs come to what the legs do.
LEMMA ListSum ==
    ASSUME NEW rows, Numbered(rows), NEW e, Begins(rows, e.legs), Priced(e.legs),
           Cardinality(rows) = Len(e.legs)
    PROVE  Amounts(rows) = Net(e)
  <1> DEFINE n == Cardinality(rows)
             places == 1..n
             f == [row \in rows |-> row.amount]
             g == [i \in DOMAIN e.legs |-> e.legs[i].amount]
  <1>1. PICK s : Lists(s, rows, e.legs)
    BY DEF Begins
  <1>2. IsFiniteSet(places)
    <2>1. n \in Nat
      BY FS_CardinalityType DEF Numbered
    <2> HIDE DEF n
    <2> QED  BY <2>1, FS_Interval
  <1>3. DOMAIN g = places /\ DOMAIN f = rows
    BY DEF Priced
  <1>4. \A i \in places : g[i] = f[s[i]] /\ g[i] \in Int
    <2>1. \A i \in places : s[i].amount = e.legs[i].amount /\ s[i] \in rows
      BY <1>1 DEF Lists
    <2> QED  BY <1>3, <2>1 DEF Priced
  <1>5. s \in Bijection(places, rows)
    BY <1>1, ListIsBijection
  <1>6. Amounts(rows) = SumFunctionOnSet(f, rows) /\ Net(e) = SumFunctionOnSet(g, places)
    <2>1. Amounts(rows) = SumFunction(f) /\ Net(e) = SumFunction(g)
      BY DEF Amounts, Net
    <2> HIDE DEF f, g, places
    <2> QED  BY <1>3, <2>1 DEF SumFunction
  <1> HIDE DEF f, g, n, places
  <1>7. SumFunctionOnSet(g, places) = SumFunctionOnSet(f, rows)
    BY <1>2, <1>4, <1>5, SumImage
  <1> QED  BY <1>6, <1>7

LEMMA NetInt ==
    ASSUME NEW e, Priced(e.legs)
    PROVE  Net(e) \in Int
  <1> DEFINE places == 1..Len(e.legs)
             g == [i \in DOMAIN e.legs |-> e.legs[i].amount]
  <1>1. IsFiniteSet(places) /\ DOMAIN g = places /\ \A i \in places : g[i] \in Int
    BY FS_Interval DEF Priced
  <1>2. Net(e) = SumFunction(g)
    BY DEF Net
  <1> HIDE DEF g, places
  <1> QED  BY <1>1, <1>2, SumInt DEF SumFunction

\* No rows are the first of any legs.
LEMMA NoneBegin ==
    ASSUME NEW legs, Priced(legs)
    PROVE  Begins({}, legs)
  <1> DEFINE s == [i \in 1..0 |-> i]
  <1>1. Cardinality({}) = 0
    BY FS_EmptySet
  <1>2. s \in [1..0 -> {}] /\ \A i \in 1..0 : FALSE
    OBVIOUS
  <1> HIDE DEF s
  <1>3. Lists(s, {}, legs)
    BY <1>1, <1>2 DEF Lists
  <1>4. s \in [1..Cardinality({}) -> {}]
    BY <1>1, <1>2
  <1>5. Cardinality({}) <= Len(legs)
    BY <1>1 DEF Priced
  <1> QED  BY <1>3, <1>4, <1>5 DEF Begins

-----------------------------------------------------------------------------
(* The invariant.                                                          *)

IsRow(row) == row \in Rows /\ row.amount # 0

\* Under p the tables have the whole entry that r is read as.
Holds(t, p, r) ==
    /\ IsRead(r)
    /\ t.head[p] = EntryIn(r.value).currency
    /\ IsWhole(LegsOfEntry(t, p), EntryIn(r.value).legs)

\* Tables that hold whole entries, as their posters sent them, and nothing besides.
TablesOK(t, sent) ==
    /\ t \in [chart : [Accounts -> Currencies \cup {None}], head : [Posters -> Currencies \cup {None}],
              postings : SUBSET Rows]
    /\ IsFiniteSet(t.postings)
    /\ \A row \in t.postings :
        IsRow(row) /\ row.currency = t.chart[row.account] /\ row.currency = t.head[row.txn]
    /\ \A p \in Posters : t.head[p] # None => Holds(t, p, sent[p])

\* What a poster has in hand.
PosterOK(p) ==
    /\ request[p] \in RequestsOf[p] /\ request[p] \in Requests
    /\ \A row \in wrote[p] : IsRow(row)
    /\ pc[p] \in {"begun", "legs", "asked"} => IsRead(request[p])
    /\ pc[p] = "legs" => Begins(wrote[p], Entry(p).legs)
    /\ pc[p] = "asked" => IsWhole(wrote[p], Entry(p).legs)
    /\ pc[p] # "answered" => head[p] = None

\* What a poster is told is so.
SaysSo(p, said) ==
    /\ IsReply(p, said)
    /\ said.why = "unbalanced" =>
        said.says = Net(Entry(p)) /\ (said.says = 0 => Entry(p).legs = <<>>)
    /\ said.why = "fields" =>
        said.faults = BodyFaults(request[p].value) /\ request[p].value \in Bodies

ToldOK(p) ==
    /\ pc[p] \in Replied => SaysSo(p, reply[p]) /\ (reply[p].status = 201 => head[p] # None)
    /\ pc[p] \notin Replied => reply[p] = None

\* What a reader has seen is still there.
StillThere(t) ==
    \A p \in Posters : t.head[p] # None =>
        head[p] = t.head[p] /\ LegsOfEntry(t, p) = LegsOfEntry(Tables, p)

MomentOK(r) ==
    moment[r] # None =>
        asked[r] # None /\ TablesOK(moment[r], request) /\ StillThere(moment[r])

LegsInv ==
    /\ TablesOK(Tables, request)
    /\ \A p \in Posters : PosterOK(p) /\ ToldOK(p)
    /\ asked \in [Readers -> Questions \cup {None}]
    /\ DOMAIN moment = Readers /\ DOMAIN answer = Readers
    /\ \A r \in Readers : MomentOK(r)

-----------------------------------------------------------------------------
(* What a step leaves alone.                                               *)

LEMMA PosterKeeps ==
    ASSUME NEW p \in Posters, PosterOK(p), ToldOK(p), request' = request, head'[p] = head[p],
           wrote'[p] = wrote[p], pc'[p] = pc[p], reply'[p] = reply[p]
    PROVE  PosterOK(p)' /\ ToldOK(p)'
  <1>1. Entry(p)' = Entry(p)
    BY DEF Entry
  <1>2. PosterOK(p)'
    BY <1>1 DEF PosterOK
  <1>3. SaysSo(p, reply[p]) => SaysSo(p, reply[p])'
    BY <1>1 DEF SaysSo, IsReply
  <1> QED  BY <1>2, <1>3 DEF ToldOK

\* Entries that stay are still there for whoever has seen them.
LEMMA ReadersKeep ==
    ASSUME LegsInv, request' = request, UNCHANGED readVars,
           \A p \in Posters : head[p] # None =>
                head'[p] = head[p] /\ LegsOfEntry(Tables, p)' = LegsOfEntry(Tables, p)
    PROVE  /\ \A r \in Readers : MomentOK(r)'
           /\ asked' \in [Readers -> Questions \cup {None}]
           /\ DOMAIN moment' = Readers /\ DOMAIN answer' = Readers
  <1>1. asked' = asked /\ moment' = moment /\ answer' = answer
    BY DEF readVars
  <1>2. ASSUME NEW r \in Readers
        PROVE  MomentOK(r)'
    <2>1. MomentOK(r)
      BY DEF LegsInv
    <2>2. CASE moment[r] = None
      BY <1>1, <2>1, <2>2 DEF MomentOK
    <2>3. CASE moment[r] # None
      <3>1. TablesOK(moment[r], request)' /\ StillThere(moment[r]) /\ asked[r] # None
        BY <1>1, <2>1, <2>3 DEF MomentOK
      <3>2. StillThere(moment[r])'
        BY <1>1, <3>1 DEF StillThere
      <3> QED  BY <1>1, <2>1, <3>1, <3>2 DEF MomentOK
    <2> QED  BY <2>2, <2>3
  <1> QED  BY <1>1, <1>2 DEF LegsInv

\* The tables stay, whatever the posters do.
LEMMA TablesKeep ==
    ASSUME LegsInv, request' = request, UNCHANGED <<chart, head, postings>>, UNCHANGED readVars
    PROVE  /\ TablesOK(Tables, request)'
           /\ \A r \in Readers : MomentOK(r)'
           /\ asked' \in [Readers -> Questions \cup {None}]
           /\ DOMAIN moment' = Readers /\ DOMAIN answer' = Readers
  <1>1. Tables' = Tables
    BY DEF Tables
  <1>2. TablesOK(Tables, request)'
    BY <1>1 DEF LegsInv
  <1>3. \A p \in Posters : LegsOfEntry(Tables, p)' = LegsOfEntry(Tables, p)
    BY <1>1 DEF LegsOfEntry
  <1> QED  BY <1>2, <1>3, ReadersKeep

\* One poster goes on, or is answered by a rollback, the rest being as they were.
LEMMA OnePosterSteps ==
    ASSUME BookInv, LegsInv, NEW p \in Posters, request' = request,
           UNCHANGED <<chart, head, postings>>, UNCHANGED readVars,
           \A q \in Posters \ {p} : wrote'[q] = wrote[q] /\ pc'[q] = pc[q] /\ reply'[q] = reply[q],
           PosterOK(p)', ToldOK(p)'
    PROVE  LegsInv'
  <1>1. ASSUME NEW q \in Posters \ {p}
        PROVE  PosterOK(q)' /\ ToldOK(q)'
    BY PosterKeeps DEF LegsInv
  <1> QED  BY <1>1, TablesKeep DEF LegsInv

LEMMA RollsBackKeeps ==
    ASSUME BookInv, LegsInv, NEW p \in Posters, pc[p] # "answered",
           NEW stage \in Replied, NEW said, RollsBack(p, stage, said),
           request' = request, UNCHANGED readVars, SaysSo(p, said), said.status # 201
    PROVE  LegsInv'
  <1>1. /\ pc' = [pc EXCEPT ![p] = stage] /\ reply' = [reply EXCEPT ![p] = said]
        /\ wrote' = [wrote EXCEPT ![p] = {}] /\ UNCHANGED <<chart, head, postings>>
    BY DEF RollsBack
  <1>2. pc'[p] = stage /\ reply'[p] = said /\ wrote'[p] = {}
    BY <1>1 DEF BookInv
  <1>3. \A q \in Posters \ {p} : wrote'[q] = wrote[q] /\ pc'[q] = pc[q] /\ reply'[q] = reply[q]
    BY <1>1 DEF BookInv
  <1>4. PosterOK(p)'
    <2>1. request[p] \in RequestsOf[p] /\ request[p] \in Requests /\ head[p] = None
      BY DEF LegsInv, PosterOK
    <2> QED  BY <1>1, <1>2, <2>1 DEF PosterOK, Replied
  <1>5. ToldOK(p)'
    <2>1. SaysSo(p, said)'
      BY DEF SaysSo, IsReply, Entry
    <2>2. SaysSo(p, reply[p])'
      BY <1>2, <2>1 DEF SaysSo, IsReply
    <2> QED  BY <1>2, <2>2 DEF ToldOK
  <1> QED  BY <1>1, <1>3, <1>4, <1>5, OnePosterSteps

LEMMA RepliesKeeps ==
    ASSUME BookInv, LegsInv, NEW p \in Posters, pc[p] # "answered", NEW said, Replies(p, said),
           request' = request, UNCHANGED readVars, SaysSo(p, said), said.status # 201
    PROVE  LegsInv'
  <1>1. RollsBack(p, "answered", said) /\ "answered" \in Replied
    BY DEF Replies, Replied
  <1> QED  BY <1>1, RollsBackKeeps

\* A refusal of a leg, or of the head, is no verdict and no balance's.
LEMMA RefusalSaysSo ==
    ASSUME NEW p, NEW why \in LegWhys, NEW leg \in Nat, NEW says \in Currencies \cup {None},
           NEW said, said = LedgerRefused(why, leg, says)
    PROVE  SaysSo(p, said) /\ said.status # 201
  <1>1. said \in LegRefusals /\ said.status = 422 /\ said.why \in LegWhys
    BY LegRefusalType, LedgerRefusedFields
  <1> QED  BY <1>1 DEF SaysSo, IsReply, LegWhys

LEMMA GoesOnKeeps ==
    ASSUME BookInv, LegsInv, NEW p \in Posters, NEW next \in {"begun", "legs", "asked"},
           pc' = [pc EXCEPT ![p] = next], pc[p] \notin Replied,
           UNCHANGED <<chart, head, postings, request, wrote, reply>>, UNCHANGED readVars,
           IsRead(request[p]),
           next = "legs" => Begins(wrote[p], Entry(p).legs),
           next = "asked" => IsWhole(wrote[p], Entry(p).legs)
    PROVE  LegsInv'
  <1>1. pc'[p] = next /\ next \notin Replied
    BY DEF BookInv, Replied
  <1>2. \A q \in Posters \ {p} : wrote'[q] = wrote[q] /\ pc'[q] = pc[q] /\ reply'[q] = reply[q]
    BY DEF BookInv
  <1>3. PosterOK(p) /\ Entry(p)' = Entry(p) /\ reply[p] = None
    BY DEF LegsInv, ToldOK, Entry
  <1>4. PosterOK(p)'
    BY <1>1, <1>3 DEF PosterOK, Replied
  <1>5. ToldOK(p)'
    BY <1>1, <1>3 DEF ToldOK
  <1> QED  BY <1>2, <1>4, <1>5, OnePosterSteps

-----------------------------------------------------------------------------
(* The steps of a poster.                                                  *)

LEMMA DecodesKeeps ==
    ASSUME BookInv, LegsInv, NEW p \in Posters, Decodes(p)
    PROVE  LegsInv'
  <1> DEFINE v == Verdict(request[p])
  <1>1. /\ pc[p] = "sent" /\ pc[p] \notin Replied /\ request' = request
        /\ UNCHANGED readVars /\ request[p] \in Requests
    BY DEF Decodes, LegsInv, PosterOK, Replied
  <1>2. CASE v.status # 0
    <2>1. Replies(p, v)
      BY <1>2 DEF Decodes
    <2>2. v.status \notin {201} /\ v.why \notin {"unbalanced"}
      BY VerdictWhys
    <2>3. v.why = "fields" => v.faults = BodyFaults(request[p].value) /\ request[p].value \in Bodies
      BY <1>1, FieldsRefused
    <2>4. IsReply(p, v)
      BY DEF IsReply
    <2> HIDE DEF v
    <2>5. SaysSo(p, v)
      BY <2>2, <2>3, <2>4 DEF SaysSo
    <2> QED  BY <1>1, <2>1, <2>2, <2>5, RepliesKeeps
  <1>3. CASE v.status = 0
    <2>1. pc' = [pc EXCEPT ![p] = "begun"] /\ UNCHANGED <<chart, head, postings, wrote, reply>>
      BY <1>3 DEF Decodes
    <2>2. IsRead(request[p])
      BY <1>1, <1>3 DEF IsRead
    <2> QED  BY <1>1, <2>1, <2>2, GoesOnKeeps
  <1> QED  BY <1>2, <1>3

LEMMA InsertsHeadKeeps ==
    ASSUME BookInv, LegsInv, NEW p \in Posters, InsertsHead(p)
    PROVE  LegsInv'
  <1> DEFINE said == LedgerRefused("rejected", 0, None)
  <1>1. pc[p] = "begun" /\ pc[p] \notin Replied /\ request' = request /\ UNCHANGED readVars
    BY DEF InsertsHead, Replied
  <1>2. CASE Entry(p).currency \in Currencies
    <2>1. pc' = [pc EXCEPT ![p] = "legs"] /\ UNCHANGED <<chart, head, postings, wrote, reply>>
      BY <1>2 DEF InsertsHead
    <2>2. IsRead(request[p]) /\ wrote[p] = {}
      BY <1>1 DEF LegsInv, PosterOK, BookInv, WroteOK
    <2>3. Begins({}, Entry(p).legs)
      BY <2>2, EntryLegs, NoneBegin DEF Entry
    <2> QED  BY <1>1, <2>1, <2>2, <2>3, GoesOnKeeps
  <1>3. CASE Entry(p).currency \notin Currencies
    <2>1. Replies(p, said)
      BY <1>3 DEF InsertsHead
    <2>2. "rejected" \in LegWhys /\ 0 \in Nat
      BY DEF LegWhys
    <2>3. SaysSo(p, said) /\ said.status # 201
      BY <2>2, RefusalSaysSo
    <2> HIDE DEF said
    <2> QED  BY <1>1, <2>1, <2>3, RepliesKeeps
  <1> QED  BY <1>2, <1>3

\* The row a leg becomes goes after those already in.
LEMMA InsertsLegKeeps ==
    ASSUME BookInv, LegsInv, NEW p \in Posters, InsertsLeg(p)
    PROVE  LegsInv'
  <1> DEFINE i == Cardinality(wrote[p]) + 1
             leg == Entry(p).legs[i]
             c == Entry(p).currency
             refusal == LegRefusal(leg, i, c)
             row == [id |-> nextId, txn |-> p, account |-> leg.account,
                     currency |-> chart[leg.account], amount |-> leg.amount]
  <1>1. /\ pc[p] = "legs" /\ i <= Len(Entry(p).legs)
        /\ nextId' = nextId + 1 /\ request' = request /\ UNCHANGED readVars
    BY DEF InsertsLeg
  <1>2. /\ nextId \in Nat /\ WroteOK(p) /\ c \in Currencies /\ IsFiniteSet(wrote[p])
        /\ chart \in [Accounts -> Currencies \cup {None}]
    BY <1>1 DEF BookInv, WroteOK
  <1>3. /\ IsRead(request[p]) /\ Begins(wrote[p], Entry(p).legs) /\ PosterOK(p)
        /\ \A x \in wrote[p] : IsRow(x)
    BY <1>1 DEF LegsInv, PosterOK
  <1>4. CASE refusal # None
    <2>1. RollsBack(p, Stage(refusal), refusal)
      BY <1>4 DEF InsertsLeg
    <2>2. i \in Nat
      BY <1>2, FS_CardinalityType
    <2> HIDE DEF leg, i, c
    <2>3. PICK why \in LegWhys : refusal = LedgerRefused(why, i, None)
      BY <1>4, RefusalIsDue
    <2> HIDE DEF refusal
    <2>4. SaysSo(p, refusal) /\ refusal.status # 201
      BY <2>2, <2>3, RefusalSaysSo
    <2>5. Stage(refusal) \in Replied
      BY DEF Stage, Replied
    <2> QED  BY <1>1, <2>1, <2>4, <2>5, RollsBackKeeps
  <1>5. CASE refusal = None
    <2>1. wrote' = [wrote EXCEPT ![p] = @ \cup {row}] /\ UNCHANGED <<chart, head, postings, pc, reply>>
      BY <1>5 DEF InsertsLeg
    <2>2. Cardinality(wrote[p]) \in Nat
      BY <1>2, FS_CardinalityType
    <2>3. Fit(leg, c)
      <3>1. i \in Nat
        BY <2>2
      <3> HIDE DEF leg, i, c
      <3> QED  BY <1>2, <1>5, <3>1, UnrefusedIsFit
    <2>4. /\ row.id = nextId /\ row.account = leg.account /\ row.amount = leg.amount
          /\ row = [id |-> nextId, txn |-> p, account |-> leg.account,
                    currency |-> chart[leg.account], amount |-> leg.amount]
      OBVIOUS
    <2>5. wrote'[p] = wrote[p] \cup {row}
      BY <2>1 DEF BookInv
    <2>6. Priced(Entry(p).legs)
          /\ \A j \in 1..Len(Entry(p).legs) :
                Entry(p).legs[j].amount # 0 => Entry(p).legs[j].amount \in MinMinor..MaxMinor
      BY <1>3, EntryLegs DEF Entry
    <2>7. leg.amount \in MinMinor..MaxMinor /\ leg.amount # 0
      <3>1. i \in 1..Len(Entry(p).legs)
        BY <1>1, <2>2, <2>6 DEF Priced
      <3> HIDE DEF i
      <3> QED  BY <2>3, <2>6, <3>1 DEF Fit
    <2> HIDE DEF row, refusal
    <2>8. IsRow(row)
      BY <1>2, <2>3, <2>4, <2>7 DEF IsRow, Rows, Fit
    <2>9. Begins(wrote[p] \cup {row}, Entry(p).legs)
      <3>1. \A o \in wrote[p] : o.id \in Nat /\ o.id < row.id
        BY <1>2, <2>4 DEF WroteOK
      <3> QED  BY <1>1, <1>2, <1>3, <2>4, <2>6, <3>1, ListGrows DEF Priced
    <2>10. PosterOK(p)'
      <3>1. Entry(p)' = Entry(p)
        BY <1>1 DEF Entry
      <3>2. \A x \in wrote'[p] : IsRow(x)
        BY <1>3, <2>5, <2>8
      <3> QED  BY <1>1, <1>3, <2>1, <2>5, <2>9, <3>1, <3>2 DEF PosterOK
    <2>11. ToldOK(p)'
      <3>1. ToldOK(p)
        BY DEF LegsInv
      <3> QED  BY <1>1, <2>1, <3>1 DEF ToldOK, Replied
    <2>12. \A q \in Posters \ {p} : wrote'[q] = wrote[q] /\ pc'[q] = pc[q] /\ reply'[q] = reply[q]
      BY <2>1 DEF BookInv
    <2> QED  BY <1>1, <2>1, <2>10, <2>11, <2>12, OnePosterSteps
  <1> QED  BY <1>4, <1>5

\* Legs that come to something, or none at all, and what is said of them.
LEMMA AsksBalanceKeeps ==
    ASSUME BookInv, LegsInv, NEW p \in Posters, AsksBalance(p)
    PROVE  LegsInv'
  <1> DEFINE e == Entry(p)
             said == LedgerRefused("unbalanced", 0, Net(e))
  <1>1. /\ pc[p] = "legs" /\ pc[p] \notin Replied /\ request' = request /\ UNCHANGED readVars
        /\ Cardinality(wrote[p]) = Len(e.legs)
    BY DEF AsksBalance, Replied
  <1>2. IsRead(request[p]) /\ Begins(wrote[p], e.legs) /\ IsFiniteSet(wrote[p])
        /\ Numbered(wrote[p])
    BY <1>1 DEF LegsInv, PosterOK, BookInv, WroteOK, Numbered
  <1>3. Priced(e.legs) /\ e.legs = [i \in 1..Len(e.legs) |->
                                        [account |-> e.legs[i].account, amount |-> e.legs[i].amount]]
    <2>1. e = EntryIn(request[p].value)
      BY DEF Entry
    <2> HIDE DEF e
    <2>2. Priced(e.legs) /\ e = [currency |-> e.currency,
                   legs     |-> [i \in 1..Len(e.legs) |->
                                    [account |-> e.legs[i].account, amount |-> e.legs[i].amount]]]
      BY <1>2, <2>1, EntryLegs
    <2> QED  BY <2>2
  <1>4. CASE Balanced(wrote[p])
    <2>1. pc' = [pc EXCEPT ![p] = "asked"] /\ UNCHANGED <<chart, head, postings, wrote, reply>>
      BY <1>4 DEF AsksBalance
    <2>2. IsWhole(wrote[p], e.legs)
      BY <1>1, <1>2, <1>4 DEF IsWhole
    <2> QED  BY <1>1, <1>2, <2>1, <2>2, GoesOnKeeps
  <1>5. CASE ~Balanced(wrote[p])
    <2>1. Replies(p, said)
      BY <1>5 DEF AsksBalance
    <2>2. said.status = 422 /\ said.why = "unbalanced" /\ said.says = Net(e)
      BY LedgerRefusedFields
    <2> HIDE DEF said, e
    <2>3. Amounts(wrote[p]) = Net(e)
      BY <1>1, <1>2, <1>3, ListSum
    <2>4. Net(e) = 0 => wrote[p] = {}
      BY <1>5, <2>3 DEF Balanced
    <2>5. wrote[p] = {} => Len(e.legs) = 0
      BY <1>1, FS_EmptySet
    <2>6. Len(e.legs) = 0 => e.legs = <<>>
      BY <1>3
    <2>7. IsReply(p, said)
      <3>1. Net(e) \in Int
        BY <1>3, NetInt
      <3> QED  BY <3>1 DEF IsReply, said, LedgerRefused
    <2>8. SaysSo(p, said)
      BY <2>2, <2>4, <2>5, <2>6, <2>7 DEF SaysSo, e
    <2> QED  BY <1>1, <2>1, <2>2, <2>8, RepliesKeeps
  <1> QED  BY <1>4, <1>5

LEMMA RefusedOtherwiseKeeps ==
    ASSUME BookInv, LegsInv, NEW p \in Posters, RefusedOtherwise(p)
    PROVE  LegsInv'
  <1> DEFINE i == Cardinality(wrote[p]) + 1
             leg == IF pc[p] = "legs" /\ i <= Len(Entry(p).legs) THEN i ELSE 0
             said == LedgerRefused("rejected", leg, None)
  <1>1. pc[p] # "answered" /\ request' = request /\ UNCHANGED readVars /\ Replies(p, said)
    BY DEF RefusedOtherwise
  <1>2. leg \in Nat
    <2>1. Cardinality(wrote[p]) \in Nat
      BY FS_CardinalityType DEF BookInv, WroteOK
    <2> QED  BY <2>1
  <1> HIDE DEF leg
  <1>3. SaysSo(p, said) /\ said.status # 201
    BY <1>2, RefusalSaysSo DEF LegWhys
  <1> HIDE DEF said
  <1> QED  BY <1>1, <1>3, RepliesKeeps

LEMMA ExplainsKeeps ==
    ASSUME BookInv, LegsInv, NEW p \in Posters, Explains(p)
    PROVE  LegsInv'
  <1> DEFINE a == Entry(p).legs[reply[p].leg].account
             held == chart[a]
  <1>1. pc[p] = "explaining" /\ request' = request /\ UNCHANGED readVars
    BY DEF Explains
  <1>2. PICK says \in {held, None} : Replies(p, LedgerRefused("otherCurrency", reply[p].leg, says))
    BY DEF Explains
  <1> DEFINE said == LedgerRefused("otherCurrency", reply[p].leg, says)
  <1>3. Due(p, reply[p]) /\ ToExplain(reply[p])
    BY <1>1 DEF BookInv, ReplyOK, Replied
  <1>4. a \in Accounts /\ reply[p].leg \in Nat
    BY <1>3 DEF Due, ToExplain, LegWhys
  <1> HIDE DEF a
  <1>5. says \in Currencies \cup {None}
    BY <1>2, <1>4 DEF BookInv
  <1>6. "otherCurrency" \in LegWhys
    BY DEF LegWhys
  <1>7. SaysSo(p, said) /\ said.status # 201
    BY <1>4, <1>5, <1>6, RefusalSaysSo
  <1>8. Replies(p, said)
    BY <1>2
  <1> HIDE DEF said
  <1> QED  BY <1>1, <1>7, <1>8, RepliesKeeps

LEMMA GivesUpKeeps ==
    ASSUME BookInv, LegsInv, NEW p \in Posters, GivesUp(p)
    PROVE  LegsInv'
  <1>1. pc[p] # "answered" /\ request' = request /\ UNCHANGED readVars /\ Replies(p, NotReached)
    BY DEF GivesUp
  <1>2. SaysSo(p, NotReached) /\ NotReached.status # 201
    <2>1. IsReply(p, NotReached)
      BY DEF IsReply
    <2> QED  BY <2>1 DEF SaysSo, NotReached
  <1> QED  BY <1>1, <1>2, RepliesKeeps

\* COMMIT: all of the legs, under an id nothing was under.
LEMMA CommitsKeeps ==
    ASSUME BookInv, LegsInv, NEW p \in Posters, Commits(p)
    PROVE  LegsInv'
  <1> DEFINE e == Entry(p)
  <1>1. /\ pc[p] = "asked" /\ head' = [head EXCEPT ![p] = e.currency]
        /\ postings' = postings \cup wrote[p] /\ wrote' = [wrote EXCEPT ![p] = {}]
        /\ pc' = [pc EXCEPT ![p] = "answered"]
        /\ reply' = [reply EXCEPT ![p] = Created]
        /\ UNCHANGED <<chart, nextId, request>> /\ UNCHANGED readVars
    BY DEF Commits
  <1>2. /\ head[p] = None /\ IsRead(request[p]) /\ IsWhole(wrote[p], e.legs)
        /\ \A row \in wrote[p] : IsRow(row)
        /\ request[p] \in RequestsOf[p] /\ request[p] \in Requests
    BY <1>1 DEF LegsInv, PosterOK
  <1>3. /\ IsFiniteSet(wrote[p]) /\ e.currency \in Currencies
        /\ \A row \in wrote[p] : row.txn = p /\ row.currency = chart[row.account] /\ row.currency = e.currency
    BY <1>1 DEF BookInv, WroteOK
  <1>4. /\ head \in [Posters -> Currencies \cup {None}] /\ postings \subseteq Rows
        /\ chart \in [Accounts -> Currencies \cup {None}] /\ IsFiniteSet(postings)
        /\ \A row \in postings :
            IsRow(row) /\ row.currency = chart[row.account] /\ row.currency = head[row.txn]
        /\ \A q \in Posters : head[q] # None => Holds(Tables, q, request[q])
    BY DEF LegsInv, TablesOK, Tables
  <1>5. \A row \in postings : row.txn \in Posters \ {p}
    BY <1>1 DEF BookInv, RowOK
  <1>6. head'[p] = e.currency /\ \A q \in Posters \ {p} : head'[q] = head[q]
    BY <1>1, <1>4
  <1>7. LegsOfEntry(Tables, p)' = wrote[p]
    BY <1>1, <1>3, <1>5 DEF LegsOfEntry, Tables
  <1>8. \A q \in Posters \ {p} : LegsOfEntry(Tables, q)' = LegsOfEntry(Tables, q)
    BY <1>1, <1>3 DEF LegsOfEntry, Tables
  <1>9. TablesOK(Tables, request)'
    <2>1. Tables' \in [chart : [Accounts -> Currencies \cup {None}], head : [Posters -> Currencies \cup {None}],
                       postings : SUBSET Rows]
      <3>1. head' \in [Posters -> Currencies \cup {None}]
        BY <1>1, <1>3, <1>4
      <3>2. postings' \subseteq Rows
        BY <1>1, <1>2, <1>4 DEF IsRow
      <3> QED  BY <1>1, <1>4, <3>1, <3>2 DEF Tables
    <2>2. IsFiniteSet(postings')
      BY <1>1, <1>3, <1>4, FS_Union
    <2>3. ASSUME NEW row \in postings'
          PROVE  IsRow(row) /\ row.currency = chart'[row.account] /\ row.currency = head'[row.txn]
      <3>1. CASE row \in wrote[p]
        BY <1>1, <1>2, <1>3, <1>6, <3>1
      <3>2. CASE row \in postings
        BY <1>1, <1>4, <1>5, <1>6, <3>2
      <3> QED  BY <1>1, <3>1, <3>2
    <2>4. ASSUME NEW q \in Posters, head'[q] # None
          PROVE  Holds(Tables, q, request[q])'
      <3>1. Tables'.head = head'
        BY DEF Tables
      <3>2. CASE q = p
        BY <1>1, <1>2, <1>6, <1>7, <3>1, <3>2 DEF Holds, Entry
      <3>3. CASE q # p
        <4>1. Holds(Tables, q, request[q])
          BY <1>4, <1>6, <2>4, <3>3
        <4>2. Tables'.head[q] = Tables.head[q]
          BY <1>6, <3>1, <3>3 DEF Tables
        <4> QED  BY <1>1, <1>8, <3>3, <4>1, <4>2 DEF Holds
      <3> QED  BY <3>2, <3>3
    <2>5. Tables'.head = head' /\ Tables'.postings = postings' /\ Tables'.chart = chart'
      BY DEF Tables
    <2> QED  BY <2>1, <2>2, <2>3, <2>4, <2>5 DEF TablesOK
  <1>10. PosterOK(p)' /\ ToldOK(p)'
    <2>1. /\ pc'[p] = "answered" /\ wrote'[p] = {}
          /\ reply'[p] = Created /\ head'[p] # None
      BY <1>1, <1>3, <1>6, NoneAssumption DEF BookInv
    <2>2. Created.why = "created" /\ IsReply(p, reply[p])'
      BY <2>1 DEF Created, IsReply
    <2> QED  BY <1>1, <1>2, <2>1, <2>2 DEF PosterOK, ToldOK, SaysSo, Replied
  <1>11. ASSUME NEW q \in Posters \ {p}
         PROVE  PosterOK(q)' /\ ToldOK(q)'
    <2>1. wrote'[q] = wrote[q] /\ pc'[q] = pc[q] /\ reply'[q] = reply[q]
      BY <1>1 DEF BookInv
    <2> QED  BY <1>1, <1>6, <2>1, PosterKeeps DEF LegsInv
  <1>12. \A q \in Posters : head[q] # None =>
            head'[q] = head[q] /\ LegsOfEntry(Tables, q)' = LegsOfEntry(Tables, q)
    BY <1>2, <1>6, <1>8
  <1> QED  BY <1>1, <1>9, <1>10, <1>11, <1>12, ReadersKeep DEF LegsInv

\* A new account is none that a leg is on.
LEMMA OpensAccountKeeps ==
    ASSUME BookInv, LegsInv, NEW a \in Accounts, NEW c \in Currencies, OpensAccount(a, c)
    PROVE  LegsInv'
  <1>1. /\ chart[a] = None /\ chart' = [chart EXCEPT ![a] = c]
        /\ UNCHANGED <<head, postings, nextId, request, pc, wrote, reply>> /\ UNCHANGED readVars
    BY DEF OpensAccount
  <1>2. /\ head \in [Posters -> Currencies \cup {None}] /\ postings \subseteq Rows
        /\ chart \in [Accounts -> Currencies \cup {None}] /\ IsFiniteSet(postings)
        /\ \A row \in postings :
            IsRow(row) /\ row.currency = chart[row.account] /\ row.currency = head[row.txn]
        /\ \A q \in Posters : head[q] # None => Holds(Tables, q, request[q])
    BY DEF LegsInv, TablesOK, Tables
  <1>3. \A q \in Posters : LegsOfEntry(Tables, q)' = LegsOfEntry(Tables, q)
    BY <1>1 DEF LegsOfEntry, Tables
  <1>4. TablesOK(Tables, request)'
    <2>1. Tables'.head = head /\ Tables'.postings = postings /\ Tables'.chart = chart'
          /\ Tables.head = head
      BY <1>1 DEF Tables
    <2>2. Tables' \in [chart : [Accounts -> Currencies \cup {None}], head : [Posters -> Currencies \cup {None}],
                       postings : SUBSET Rows]
      BY <1>1, <1>2 DEF Tables
    <2>3. \A row \in postings : row.currency = chart'[row.account]
      <3>1. \A row \in postings : row.account \in Accounts /\ row.currency \in Currencies
        BY <1>2 DEF Rows
      <3> QED  BY <1>1, <1>2, <3>1, NoneAssumption
    <2>4. \A q \in Posters : head[q] # None => Holds(Tables, q, request[q])'
      BY <1>1, <1>2, <1>3, <2>1 DEF Holds
    <2> QED  BY <1>1, <1>2, <2>1, <2>2, <2>3, <2>4 DEF TablesOK
  <1>5. ASSUME NEW q \in Posters
        PROVE  PosterOK(q)' /\ ToldOK(q)'
    BY <1>1, PosterKeeps DEF LegsInv
  <1> QED  BY <1>1, <1>3, <1>4, <1>5, ReadersKeep DEF LegsInv

-----------------------------------------------------------------------------
(* The steps of a reader, and the invariant.                               *)

LEMMA ReaderKeeps ==
    ASSUME BookInv, LegsInv, NEW r \in Readers,
           Looks(r) \/ Answers(r) \/ \E q \in Questions : Asks(r, q)
    PROVE  LegsInv'
  <1>1. UNCHANGED <<chart, head, postings, nextId, request, pc, wrote, reply>>
    BY DEF Looks, Answers, Asks, writeVars
  <1>2. Tables' = Tables
    BY <1>1 DEF Tables
  <1>3. TablesOK(Tables, request) /\ TablesOK(Tables, request)'
    BY <1>1, <1>2 DEF LegsInv
  <1>4. \A p \in Posters : PosterOK(p)' /\ ToldOK(p)'
    BY <1>1, PosterKeeps DEF LegsInv
  <1>5. \A t : StillThere(t) => StillThere(t)'
    BY <1>1, <1>2 DEF StillThere
  <1>6. ASSUME NEW o \in Readers, asked'[o] = asked[o], moment'[o] = moment[o]
        PROVE  MomentOK(o)'
    <2>1. MomentOK(o)
      BY DEF LegsInv
    <2>2. StillThere(moment[o]) => StillThere(moment[o])'
      BY <1>1, <1>2, <1>6 DEF StillThere
    <2> QED  BY <1>1, <1>6, <2>1, <2>2 DEF MomentOK
  <1>7. /\ MomentOK(r) /\ asked \in [Readers -> Questions \cup {None}]
        /\ DOMAIN moment = Readers /\ DOMAIN answer = Readers
    BY DEF LegsInv
  <1>8. CASE Looks(r)
    <2>1. asked[r] # None /\ moment' = [moment EXCEPT ![r] = Tables] /\ UNCHANGED <<asked, answer>>
      BY <1>8 DEF Looks
    <2>2. MomentOK(r)'
      <3>1. moment'[r] = Tables'
        BY <1>2, <1>7, <2>1
      <3>2. StillThere(moment[r])'
        BY <3>1 DEF StillThere, Tables
      <3>3. TablesOK(moment[r], request)'
        BY <1>3, <3>1
      <3> QED  BY <1>7, <2>1, <3>2, <3>3 DEF MomentOK
    <2> QED  BY <1>3, <1>4, <1>6, <1>7, <2>1, <2>2 DEF LegsInv
  <1>9. CASE Answers(r)
    <2>1. UNCHANGED <<asked, moment>> /\ DOMAIN answer' = Readers
      BY <1>7, <1>9 DEF Answers
    <2> QED  BY <1>3, <1>4, <1>6, <1>7, <2>1 DEF LegsInv
  <1>10. ASSUME NEW q \in Questions, Asks(r, q)
         PROVE  LegsInv'
    <2>1. asked[r] = None /\ asked' = [asked EXCEPT ![r] = q] /\ UNCHANGED <<moment, answer>>
      BY <1>10 DEF Asks
    <2>2. MomentOK(r)'
      BY <1>7, <2>1 DEF MomentOK
    <2> QED  BY <1>3, <1>4, <1>6, <1>7, <2>1, <2>2 DEF LegsInv
  <1> QED  BY <1>8, <1>9, <1>10

LEMMA InitLegsInv == Init => LegsInv
  <1> SUFFICES ASSUME Init PROVE LegsInv
    OBVIOUS
  <1>1. TablesOK(Tables, request)
    <2>1. Tables.head = head /\ Tables.postings = {} /\ Tables.chart = chart
      BY DEF Init, Tables
    <2>2. Tables \in [chart : [Accounts -> Currencies \cup {None}], head : [Posters -> Currencies \cup {None}],
                      postings : SUBSET Rows]
      BY ChartAssumption DEF Init, Tables
    <2>3. \A p \in Posters : head[p] = None
      BY DEF Init
    <2> QED  BY <2>1, <2>2, <2>3, FS_EmptySet DEF TablesOK
  <1>2. ASSUME NEW p \in Posters
        PROVE  PosterOK(p) /\ ToldOK(p)
    <2>1. /\ pc[p] = "sent" /\ wrote[p] = {} /\ head[p] = None /\ reply[p] = None
          /\ request[p] \in RequestsOf[p]
      BY DEF Init
    <2>2. request[p] \in Requests
      BY <2>1, RequestAssumption
    <2> QED  BY <2>1, <2>2 DEF PosterOK, ToldOK, Replied
  <1>3. \A r \in Readers : MomentOK(r)
    BY DEF Init, MomentOK
  <1> QED  BY <1>1, <1>2, <1>3 DEF Init, LegsInv

LEMMA NextLegsInv == BookInv /\ LegsInv /\ [Next]_vars => LegsInv'
  <1> SUFFICES ASSUME BookInv, LegsInv, [Next]_vars PROVE LegsInv'
    OBVIOUS
  <1>1. CASE UNCHANGED vars
    <2>1. UNCHANGED <<chart, head, postings, nextId, request, pc, wrote, reply>> /\ UNCHANGED readVars
      BY <1>1 DEF vars, writeVars
    <2>2. \A p \in Posters : PosterOK(p)' /\ ToldOK(p)'
      BY <2>1, PosterKeeps DEF LegsInv
    <2> QED  BY <2>1, <2>2, TablesKeep DEF LegsInv
  <1>2. ASSUME NEW p \in Posters,
               \/ Decodes(p) \/ InsertsHead(p) \/ InsertsLeg(p) \/ AsksBalance(p) \/ Commits(p)
               \/ RefusedOtherwise(p) \/ Explains(p) \/ GivesUp(p)
        PROVE  LegsInv'
    BY <1>2, DecodesKeeps, InsertsHeadKeeps, InsertsLegKeeps, AsksBalanceKeeps, CommitsKeeps,
       RefusedOtherwiseKeeps, ExplainsKeeps, GivesUpKeeps
  <1>3. ASSUME NEW a \in Accounts, NEW c \in Currencies, OpensAccount(a, c)
        PROVE  LegsInv'
    BY <1>3, OpensAccountKeeps
  <1>4. ASSUME NEW r \in Readers, Looks(r) \/ Answers(r) \/ \E q \in Questions : Asks(r, q)
        PROVE  LegsInv'
    BY <1>4, ReaderKeeps
  <1> QED  BY <1>1, <1>2, <1>3, <1>4 DEF Next

LEMMA LegsInvariance == Spec => [](BookInv /\ LegsInv)
  BY InitBookInv, NextBookInv, InitLegsInv, NextLegsInv, PTL DEF Spec

-----------------------------------------------------------------------------
(* What the invariant says of posters.                                     *)

\* An entry in the tables reads back as what was sent.
LEMMA ReadsBack ==
    ASSUME NEW headers, NEW t, NEW p \in Posters, NEW r, IsRead(r),
           headers.head[p] # None, headers.head[p] = EntryIn(r.value).currency,
           Numbered(LegsOfEntry(t, p)), IsWhole(LegsOfEntry(t, p), EntryIn(r.value).legs)
    PROVE  EntryOf(headers, t, p) = EntryIn(r.value)
  <1> DEFINE rows == LegsOfEntry(t, p)
             e == EntryIn(r.value)
  <1>1. PICK s : Lists(s, rows, e.legs)
    BY DEF IsWhole, Begins
  <1>2. InWrittenOrder(rows) = s
    BY <1>1, ListIsWrittenOrder
  <1>3. Cardinality(rows) = Len(e.legs)
    BY DEF IsWhole
  <1>4. DOMAIN s = 1..Len(e.legs)
        /\ \A i \in 1..Len(e.legs) : s[i].account = e.legs[i].account /\ s[i].amount = e.legs[i].amount
    BY <1>1, <1>3 DEF Lists
  <1>5. e = [currency |-> e.currency,
             legs     |-> [i \in 1..Len(e.legs) |->
                              [account |-> e.legs[i].account, amount |-> e.legs[i].amount]]]
    <2> HIDE DEF e
    <2> QED  BY EntryLegs DEF e
  <1>6. EntryOf(headers, t, p) =
            [currency |-> e.currency,
             legs     |-> [i \in DOMAIN s |-> [account |-> s[i].account, amount |-> s[i].amount]]]
    BY <1>2 DEF EntryOf
  <1>7. [i \in DOMAIN s |-> [account |-> s[i].account, amount |-> s[i].amount]]
            = [i \in 1..Len(e.legs) |-> [account |-> e.legs[i].account, amount |-> e.legs[i].amount]]
    <2> HIDE DEF e
    <2> QED  BY <1>4
  <1> HIDE DEF e
  <1> QED  BY <1>5, <1>6, <1>7 DEF e

LEMMA TablesNumbered ==
    ASSUME NEW t, NEW sent, TablesOK(t, sent), NEW p
    PROVE  Numbered(LegsOfEntry(t, p))
  <1>1. IsFiniteSet(t.postings) /\ LegsOfEntry(t, p) \subseteq t.postings
    BY DEF TablesOK, LegsOfEntry
  <1>2. \A row \in t.postings : row.id \in Nat
    BY DEF TablesOK, IsRow, Rows
  <1> QED  BY <1>1, <1>2, FS_Subset DEF Numbered

LEMMA TablesReadBack ==
    ASSUME NEW t, NEW sent, TablesOK(t, sent), NEW p \in Posters, t.head[p] # None
    PROVE  EntryOf(t, t, p) = EntryIn(sent[p].value)
  <1>1. Holds(t, p, sent[p])
    BY DEF TablesOK
  <1> QED  BY <1>1, TablesNumbered, ReadsBack DEF Holds

LEMMA MendedLegIsLeg ==
    ASSUME NEW leg \in LegBodies \cup {Null, Wrong}, NEW i, NEW all
    PROVE  MendedLeg(leg, i, all) \in LegBodies \cup {Null, Wrong}
  <1>1. Absent \in Odd
    BY DEF Odd
  <1>2. CASE <<"postings", i>> \in all
    BY <1>1, <1>2 DEF MendedLeg, LegBodies
  <1>3. CASE <<"postings", i>> \notin all /\ leg \in {Null, Wrong}
    BY <1>3 DEF MendedLeg
  <1>4. CASE <<"postings", i>> \notin all /\ leg \notin {Null, Wrong}
    <2>1. leg.account \in STRING \cup Odd /\ leg.amount_minor \in Int \cup Odd
      BY <1>4 DEF LegBodies
    <2>2. \A v, path : Left(v, path, all) = v \/ Left(v, path, all) = Absent
      BY DEF Left
    <2>3. \E a \in STRING \cup Odd, n \in Int \cup Odd, u \in BOOLEAN :
            MendedLeg(leg, i, all) = [account |-> a, amount_minor |-> n, undefined |-> u]
      <3>1. Left(leg.account, <<"postings", i, "account">>, all) \in STRING \cup Odd
        BY <1>1, <2>1, <2>2
      <3>2. Left(leg.amount_minor, <<"postings", i, "amount_minor">>, all) \in Int \cup Odd
        BY <1>1, <2>1, <2>2
      <3>3. (leg.undefined /\ <<"postings", i, "undefined">> \notin all) \in BOOLEAN
        OBVIOUS
      <3> QED  BY <1>4, <3>1, <3>2, <3>3 DEF MendedLeg
    <2> QED  BY <2>3 DEF LegBodies
  <1> QED  BY <1>2, <1>3, <1>4

\* A leg whose faults are named has none once it is mended.
LEMMA MendedLegIsFaultless ==
    ASSUME NEW leg \in LegBodies \cup {Null, Wrong}, NEW i, NEW all, LegFaults(leg, i) \subseteq all
    PROVE  LegFaults(MendedLeg(leg, i, all), i) = {}
  <1> DEFINE m == MendedLeg(leg, i, all)
  <1>1. /\ Absent # Wrong /\ Absent # Null /\ Null # Wrong /\ Absent \in Odd
        /\ Null \notin LegBodies /\ Wrong \notin LegBodies
    BY OddAssumption DEF Odd
  <1>2. CASE <<"postings", i>> \in all
    <2>1. m = [account |-> Absent, amount_minor |-> Absent, undefined |-> FALSE]
      BY <1>2 DEF MendedLeg
    <2> HIDE DEF m
    <2>2. m \in LegBodies
      BY <1>1, <2>1 DEF LegBodies
    <2>3. m.account = Absent /\ m.amount_minor = Absent /\ ~m.undefined /\ m \notin {Null, Wrong}
      BY <1>1, <2>1, <2>2
    <2>4. ~Unfit(m.account) /\ ~UnfitAmount(m.amount_minor)
      BY <1>1, <2>3 DEF Unfit, UnfitAmount
    <2>5. LegFaults(m, i) = {}
      BY <2>3, <2>4 DEF LegFaults, Fault
    <2> QED  BY <2>5 DEF m
  <1>3. CASE <<"postings", i>> \notin all
    <2>1. leg \notin {Null, Wrong} /\ leg \in LegBodies
      BY <1>3 DEF LegFaults
    <2>2. m = [account      |-> Left(leg.account, <<"postings", i, "account">>, all),
               amount_minor |-> Left(leg.amount_minor, <<"postings", i, "amount_minor">>, all),
               undefined    |-> leg.undefined /\ <<"postings", i, "undefined">> \notin all]
      BY <1>3, <2>1 DEF MendedLeg
    <2>3. /\ Unfit(leg.account) => <<"postings", i, "account">> \in all
          /\ UnfitAmount(leg.amount_minor) => <<"postings", i, "amount_minor">> \in all
          /\ leg.undefined => <<"postings", i, "undefined">> \in all
      BY <2>1 DEF LegFaults, Fault
    <2>4. leg.account \in STRING \cup Odd /\ leg.amount_minor \in Int \cup Odd /\ leg.undefined \in BOOLEAN
      BY <2>1 DEF LegBodies
    <2> HIDE DEF m
    <2>5. m.account = Absent \/ (m.account = leg.account /\ ~Unfit(leg.account))
      BY <2>2, <2>3 DEF Left
    <2>6. m.amount_minor = Absent \/ (m.amount_minor = leg.amount_minor /\ ~UnfitAmount(leg.amount_minor))
      BY <2>2, <2>3 DEF Left
    <2>7. m.undefined = FALSE
      BY <2>2, <2>3
    <2>8. m = [account |-> m.account, amount_minor |-> m.amount_minor, undefined |-> m.undefined]
      BY <2>2
    <2>9. m \in LegBodies
      BY <1>1, <2>4, <2>5, <2>6, <2>7, <2>8 DEF LegBodies
    <2>10. ~Unfit(m.account) /\ ~UnfitAmount(m.amount_minor) /\ m \notin {Null, Wrong}
      BY <1>1, <2>5, <2>6, <2>9 DEF Unfit, UnfitAmount
    <2>11. LegFaults(m, i) = {}
      BY <2>7, <2>10 DEF LegFaults, Fault
    <2> QED  BY <2>11 DEF m
  <1> QED  BY <1>2, <1>3

\* One pass: with every named field put right or left out, nothing is left to name.
LEMMA MendedIsFaultless ==
    ASSUME NEW b \in Bodies
    PROVE  BodyFaults(Mended(b, BodyFaults(b))) = {}
  <1> DEFINE all == BodyFaults(b)
             m == Mended(b, all)
             legs == Left(b.postings, <<"postings">>, all)
  <1>1. Absent # Wrong /\ Absent # Null /\ Null # Wrong /\ Absent \in Odd
    BY OddAssumption DEF Odd
  <1>2. ~Unfit(m.currency)
    <2>1. m.currency = Left(b.currency, <<"currency">>, all)
      BY DEF Mended
    <2>2. Unfit(b.currency) => <<"currency">> \in all
      BY DEF BodyFaults, Fault
    <2> HIDE DEF m, all
    <2> QED  BY <1>1, <2>1, <2>2 DEF Unfit, Left
  <1>3. m.undefined = FALSE
    <2>1. m.undefined = (b.undefined /\ <<"undefined">> \notin all)
      BY DEF Mended
    <2>2. b.undefined => <<"undefined">> \in all
      BY DEF BodyFaults, Fault
    <2> HIDE DEF m, all
    <2> QED  BY <2>1, <2>2
  <1>4. b.postings = Wrong => <<"postings">> \in all
    BY <1>1 DEF BodyFaults, ArrayFaults
  <1>5. ArrayFaults(m.postings) = {}
    <2>1. CASE legs \in Odd
      <3>1. m.postings = legs
        BY <2>1 DEF Mended
      <3>2. legs # Wrong
        BY <1>1, <1>4 DEF Left
      <3> HIDE DEF legs, m
      <3> QED  BY <2>1, <3>1, <3>2 DEF ArrayFaults, Odd
    <2>2. CASE legs \notin Odd
      <3>1. legs = b.postings
        BY <1>1, <2>2 DEF Left
      <3>2. legs \in Seq(LegBodies \cup {Null, Wrong})
        BY <2>2, <3>1 DEF Bodies
      <3> DEFINE n == Len(legs)
                 mended == [i \in 1..n |-> MendedLeg(legs[i], i, all)]
                 read == ReadLegs(legs)
      <3>3. m.postings = mended
        BY <2>2 DEF Mended
      <3>4. ArrayFaults(legs) \subseteq all
        BY <3>1 DEF BodyFaults
      <3> HIDE DEF legs, m, all
      <3>5. n \in Nat /\ \A i \in 1..n : legs[i] \in LegBodies \cup {Null, Wrong}
        BY <3>2
      <3>6. read \in Nat /\ read <= n
        BY <3>5, WidthAssumption DEF ReadLegs
      <3>7. ArrayFaults(legs) = UNION {LegFaults(legs[i], i) : i \in 1..read}
        BY <2>2 DEF ArrayFaults, Odd
      <3> HIDE DEF n, read
      <3>8. \A i \in 1..read : i \in 1..n /\ LegFaults(legs[i], i) \subseteq all
        BY <3>4, <3>5, <3>6, <3>7
      <3>9. ASSUME NEW i \in 1..read
            PROVE  LegFaults(mended[i], i) = {}
        <4>1. mended[i] = MendedLeg(legs[i], i, all)
          BY <3>8
        <4> HIDE DEF mended
        <4> QED  BY <3>5, <3>8, <4>1, MendedLegIsFaultless
      <3>10. mended \in [1..n -> LegBodies \cup {Null, Wrong}]
        BY <3>5, MendedLegIsLeg
      <3> HIDE DEF mended
      <3>11. mended \in Seq(LegBodies \cup {Null, Wrong}) /\ Len(mended) = n
        BY <3>5, <3>10
      <3>12. mended \notin Odd /\ mended \notin {Absent, Null} /\ mended # Wrong
        BY <3>11, OddAssumption DEF Odd
      <3>13. ReadLegs(mended) = read
        BY <3>11 DEF ReadLegs, read, n
      <3>14. ArrayFaults(mended) = UNION {LegFaults(mended[i], i) : i \in 1..read}
        BY <3>12, <3>13 DEF ArrayFaults
      <3>15. UNION {LegFaults(mended[i], i) : i \in 1..read} = {}
        BY <3>9
      <3> QED  BY <3>3, <3>14, <3>15
    <2> QED  BY <2>1, <2>2
  <1> HIDE DEF m
  <1> QED  BY <1>2, <1>3, <1>5 DEF BodyFaults, Fault, m

\* OneBook's sums are Book's.
LEMMA PromiseSums ==
    ASSUME NEW f
    PROVE  Promise!SumFunction(f) = SumFunction(f)
  BY DEF SumFunction, SumFunctionOnSet, FoldFunctionOnSet, MapThenFoldSet,
         Promise!SumFunction, Promise!SumFunctionOnSet, Promise!FoldFunctionOnSet, Promise!MapThenFoldSet

\* postTransaction: a 201 echoes what was sent, and EntryOf reads the same legs back, in
\* the same order, whatever ids other posters drew in between.
THEOREM CreatedIsAlwaysReadBack == Spec => []CreatedIsReadBack
  <1>1. BookInv /\ LegsInv => CreatedIsReadBack
    <2> SUFFICES ASSUME LegsInv, NEW p \in Posters, pc[p] = "answered", reply[p].status = 201
                 PROVE  EntryOf(Tables, Tables, p) = Entry(p)
      BY DEF CreatedIsReadBack
    <2>1. Tables.head[p] # None
      BY DEF LegsInv, ToldOK, Replied, Tables
    <2>2. TablesOK(Tables, request)
      BY DEF LegsInv
    <2> QED  BY <2>1, <2>2, TablesReadBack DEF Entry
  <1> QED  BY <1>1, LegsInvariance, PTL

\* unbalanced: what the refusal says the entry nets to is what its legs sum to, in
\* integers wider than any leg, and it is 0 only of no legs.
THEOREM UnbalancedAlwaysSaysHowFar == Spec => []UnbalancedSaysHowFar
  <1>1. BookInv /\ LegsInv => UnbalancedSaysHowFar
    <2> SUFFICES ASSUME LegsInv, NEW p \in Posters, pc[p] = "answered", reply[p].why = "unbalanced"
                 PROVE  /\ reply[p].says = 0 => Entry(p).legs = <<>>
                        /\ reply[p].says = Promise!LegSum(Entry(p).legs)
      BY DEF UnbalancedSaysHowFar
    <2>1. SaysSo(p, reply[p])
      BY DEF LegsInv, ToldOK, Replied
    <2>2. Net(Entry(p)) = Promise!LegSum(Entry(p).legs)
      BY PromiseSums DEF Net, Promise!LegSum
    <2> QED  BY <2>1, <2>2 DEF SaysSo
  <1> QED  BY <1>1, LegsInvariance, PTL

\* readArray and the count: of what reaches the ledger every leg was looked at.
THEOREM NothingUnreadIsEverPosted == Spec => []NothingUnreadIsPosted
  <1>1. BookInv /\ LegsInv => NothingUnreadIsPosted
    <2> SUFFICES ASSUME LegsInv, NEW p \in Posters, pc[p] \in {"begun", "legs", "asked"}
                 PROVE  LET b == request[p].value IN
                        ~Unfit(b.currency)
                        /\ \A i \in 1..Len(Postings(b)) : LegFaults(Postings(b)[i], i) = {}
      BY DEF NothingUnreadIsPosted
    <2>1. IsRead(request[p])
      BY DEF LegsInv, PosterOK
    <2> QED  BY <2>1, ReadStatus, FaultlessLegs DEF IsRead
  <1> QED  BY <1>1, LegsInvariance, PTL

\* refuseFields: the faults named are all there are.
THEOREM OnePassAlwaysMendsABody == Spec => []OnePassMendsABody
  <1>1. BookInv /\ LegsInv => OnePassMendsABody
    <2> SUFFICES ASSUME LegsInv, NEW p \in Posters, pc[p] = "answered", reply[p].why = "fields"
                 PROVE  BodyFaults(Mended(request[p].value, reply[p].faults)) = {}
      BY DEF OnePassMendsABody
    <2>1. SaysSo(p, reply[p])
      BY DEF LegsInv, ToldOK, Replied
    <2> QED  BY <2>1, MendedIsFaultless DEF SaysSo
  <1> QED  BY <1>1, LegsInvariance, PTL
=============================================================================
