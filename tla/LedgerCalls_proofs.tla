------------------------- MODULE LedgerCalls_proofs -------------------------
(***************************************************************************)
(* Once and Post, for any number of sessions, keys, entries and            *)
(* savepoints: every statement they send is one the schema's own theorems  *)
(* are about, and whatever they are refused they hand the caller back the  *)
(* work it had, and whatever they answer is there.                         *)
(*                                                                         *)
(* CallsInv says which savepoints a call has open at each of its           *)
(* statements and what they would restore: Once's holds the work the call  *)
(* began with, and inside Once Post's is the one on top of it.  WholeInv   *)
(* says how many of an entry's legs are in at each of them, and that what  *)
(* a key names is whole.                                                   *)
(***************************************************************************)
EXTENDS LedgerCalls, LedgerSchema_proofs

\* The statements a call goes on from: nothing has gone wrong so far.
Forward == {"once:savepoint", "once:defer", "reserve", "settle", "once:ask", "once:redefer",
            "once:release", "post:savepoint", "post:defer", "insert", "legs", "ask",
            "post:redefer", "post:release"}

\* The statements before the first leg.
Early == {"once:savepoint", "once:defer", "reserve", "post:savepoint", "post:defer", "insert"}

\* The statements an error goes through on its way to the caller.
Backward == {"once:rollback", "replay", "replay:release", "post:rollback", "explain"}

UnderOnce == {"once:defer", "reserve", "settle", "once:ask", "once:redefer", "once:release",
              "replay", "replay:release"}

UnderPost == {"post:defer", "insert", "legs", "ask", "post:redefer", "post:release",
              "post:rollback", "explain"}

OnlyOnce == UnderOnce \cup {"once:savepoint", "once:rollback"}

\* The innermost savepoint is n and restores the work the call began with.
Top(s, n) ==
    /\ depth[s] \in 1..Depth
    /\ name[s][depth[s]] = n
    /\ saved[s][depth[s]] = before[s]

\* The innermost savepoint is Post's, and Once's is the one outside it.
Nested(s) ==
    /\ depth[s] \in 2..Depth
    /\ name[s][depth[s]] = "post"
    /\ name[s][depth[s] - 1] = "once"
    /\ saved[s][depth[s] - 1] = before[s]

StackOK(s) ==
    /\ at[s] = "once:savepoint" => work[s] = before[s]
    /\ at[s] = "post:savepoint" /\ call[s].fn = "post" => work[s] = before[s]
    /\ at[s] \in UnderOnce => Top(s, "once")
    /\ at[s] = "post:savepoint" /\ call[s].fn = "once" => Top(s, "once")
    /\ at[s] \in UnderPost => IF call[s].fn = "once" THEN Nested(s) ELSE Top(s, "post")
    /\ at[s] = "once:rollback" => Top(s, "once") \/ Nested(s)

ShapeOK(s) ==
    /\ call[s] \in Calls \/ (at[s] = "caller" /\ call[s] = NoCall /\ outcome[s] = "done")
    /\ at[s] \in OnlyOnce => call[s].fn = "once"
    /\ at[s] \in Early => call[s].sent = 0
    /\ at[s] = "legs" => call[s].txn \in Txns /\ call[s].sent < Len(LegsOf[call[s].hash])
    /\ at[s] \in Forward => st[s] = "open" /\ outcome[s] = "done"
    /\ at[s] \in Backward => outcome[s] # "done"
    /\ st[s] = "idle" =>
        at[s] = "caller" /\ call[s] = NoCall /\ outcome[s] = "done" /\ work[s] = NoWork

Quiet(w) == w.due = {} /\ w.qdue = {} /\ w.kdue = {}

\* Post has asked; Once has asked.
PostAsked == {"post:redefer", "post:release", "settle", "once:ask", "once:redefer", "once:release"}
OnceAsked == {"once:redefer", "once:release"}

PendingOK(s) ==
    /\ at[s] = "caller" /\ st[s] = "open" => Quiet(work[s])
    /\ at[s] # "caller" => Quiet(before[s])
    /\ at[s] \in Forward /\ call[s].fn = "post" => work[s].kdue = {}
    /\ at[s] \in PostAsked => work[s].due = {} /\ work[s].qdue = {}
    /\ at[s] \in OnceAsked => work[s].kdue = {}

BackOK(s) ==
    /\ at[s] = "caller" /\ st[s] = "open" /\ outcome[s] # "done" => work[s] = before[s]
    /\ at[s] \in {"replay", "replay:release"} => work[s] = before[s]
    /\ at[s] = "explain" /\ call[s].fn = "post" => work[s] = before[s]
    /\ at[s] = "caller" /\ call[s].fn = "once" /\ outcome[s] \in {"refused", "reused", "replayed"}
        => st[s] = "open"

DeferredOK(s) ==
    /\ at[s] \in PostAsked \ {"post:redefer"} => work[s].immediate \cap BalanceChecks = {}
    /\ at[s] = "once:release" => KeyCheck \notin work[s].immediate
    /\ at[s] = "caller" /\ st[s] = "open" /\ outcome[s] = "done" /\ call[s].txn # NoTxn =>
        /\ work[s].immediate \cap BalanceChecks = {}
        /\ call[s].fn = "once" => KeyCheck \notin work[s].immediate

CallOK(s) == ShapeOK(s) /\ StackOK(s) /\ PendingOK(s) /\ BackOK(s) /\ DeferredOK(s)

\* What this module's variables hold.
CallVarsOK ==
    /\ at \in [Sessions -> Labels]
    /\ call \in [Sessions -> Calls \cup {NoCall}]
    /\ name \in [Sessions -> [1..Depth -> {"none", "once", "post"}]]
    /\ outcome \in [Sessions -> Outcomes]
    /\ before \in [Sessions -> Work]

CallsInv == IInv /\ CallVarsOK /\ \A s \in Sessions : CallOK(s)

-----------------------------------------------------------------------------
(* What the statements do to a session.                                    *)

\* What a step of s leaves alone of the other sessions.
OthersStay(s) ==
    \A o \in Sessions \ {s} :
        /\ at'[o] = at[o] /\ call'[o] = call[o] /\ name'[o] = name[o]
        /\ outcome'[o] = outcome[o] /\ before'[o] = before[o]
        /\ st'[o] = st[o] /\ work'[o] = work[o] /\ saved'[o] = saved[o] /\ depth'[o] = depth[o]

\* A session nothing of which changed is as well off as it was.
LEMMA StaysOK ==
    ASSUME NEW o \in Sessions, CallOK(o),
           at'[o] = at[o], call'[o] = call[o], name'[o] = name[o],
           outcome'[o] = outcome[o], before'[o] = before[o],
           st'[o] = st[o], work'[o] = work[o], saved'[o] = saved[o], depth'[o] = depth[o]
    PROVE  CallOK(o)'
  <1>1. ShapeOK(o)'
    BY DEF CallOK, ShapeOK
  <1>2. StackOK(o)'
    BY DEF CallOK, StackOK, Top, Nested
  <1>3. PendingOK(o)'
    BY DEF CallOK, PendingOK, Quiet
  <1>4. BackOK(o)'
    BY DEF CallOK, BackOK
  <1>5. DeferredOK(o)'
    BY DEF CallOK, DeferredOK
  <1> QED  BY <1>1, <1>2, <1>3, <1>4, <1>5 DEF CallOK

\* Firing leaves the modes as they are, and pending only what was pending.
LEMMA FiringLeaves ==
    ASSUME NEW w \in Work, NEW C
    PROVE  LET f == Fired(w, C) IN
           /\ f.immediate = w.immediate
           /\ f.due = {} \/ f.due = w.due
           /\ f.qdue = {} \/ f.qdue = w.qdue
           /\ f.kdue = {} \/ f.kdue = w.kdue
           /\ TxnCheck \in C => f.due = {}
           /\ QueueCheck \in C => f.qdue = {}
           /\ KeyCheck \in C => f.kdue = {}
  BY DEF Fired, Work

\* A statement that is refused aborts, one that is not fires what is immediate; neither
\* touches a savepoint.
LEMMA StatementEnds ==
    ASSUME TypeOK, NEW s \in Sessions, NEW w, st[s] = "open",
           EndStatement(s, w) \/ Refuse(s)
    PROVE  /\ saved' = saved /\ depth' = depth
           /\ \A o \in Sessions \ {s} : st'[o] = st[o] /\ work'[o] = work[o]
           /\ \/ st'[s] = "aborted"
              \/ st'[s] = "open" /\ work'[s] = Fired(w, w.immediate)
  <1>1. CASE Refuse(s)
    BY <1>1 DEF Refuse, TypeOK
  <1>2. CASE EndStatement(s, w) /\ ~Passes(Seen(s), w, w.immediate)
    BY <1>1, <1>2 DEF EndStatement
  <1>3. CASE EndStatement(s, w) /\ Passes(Seen(s), w, w.immediate)
    BY <1>3 DEF EndStatement, TypeOK
  <1> QED  BY <1>1, <1>2, <1>3

-----------------------------------------------------------------------------
(* A call goes on, or its error goes back.                                 *)

\* What a step of a call leaves of the calls.
CallsKept(s) == CallVarsOK' /\ CallOK(s)' /\ OthersStay(s)

\* The last statement left f of the session's work, and "next" is what comes next.
Ready(c, next, f) ==
    /\ c \in Calls
    /\ next \in Early => c.sent = 0
    /\ next = "legs" => c.txn \in Txns /\ c.sent < Len(LegsOf[c.hash])
    /\ c.fn = "post" => f.kdue = {}
    /\ next \in PostAsked => f.due = {} /\ f.qdue = {}
    /\ next \in OnceAsked => f.kdue = {}
    /\ next \in PostAsked \ {"post:redefer"} => f.immediate \cap BalanceChecks = {}
    /\ next = "once:release" => KeyCheck \notin f.immediate

\* The stack of savepoints that "here" and "next" are under is the same one.
SameStack(here, next, handler) ==
    \/ /\ here \in UnderOnce \cap Forward
       /\ next \in (UnderOnce \cap Forward) \cup {"post:savepoint"}
       /\ handler = "once:rollback" \/ (handler = "caller" /\ here \notin Refusable)
    \/ /\ here \in UnderPost \cap Forward
       /\ next \in UnderPost \cap Forward
       /\ handler = "post:rollback"

\* Sends, for a statement that touches no savepoint and leaves c of the call.
Moved(s, here, next, handler) ==
    /\ at[s] = here
    /\ at' = [at EXCEPT ![s] = IF st'[s] = "open" THEN next ELSE handler]
    /\ outcome' = [outcome EXCEPT ![s] = IF st'[s] = "open" THEN @
                                         ELSE IF here \in Refusable THEN "refused"
                                         ELSE "failed"]
    /\ UNCHANGED <<before, name>>

\* Savepoints nobody touched restore what they did.
LEMMA StackStays ==
    ASSUME NEW s, saved' = saved, depth' = depth, name' = name, before' = before
    PROVE  /\ \A n : Top(s, n)' <=> Top(s, n)
           /\ Nested(s)' <=> Nested(s)
  BY DEF Top, Nested

\* The ten statements of Post and Once that write rows or set modes.
LEMMA GoesOn ==
    ASSUME CallsInv, NEW s \in Sessions, NEW w, NEW here, NEW next, NEW handler,
           Moved(s, here, next, handler), SameStack(here, next, handler),
           EndStatement(s, w) \/ Refuse(s),
           NEW c \in Calls, c.fn = call[s].fn,
           call' = [call EXCEPT ![s] = IF st'[s] = "open" THEN c ELSE @],
           Ready(c, next, Fired(w, w.immediate))
    PROVE  CallsKept(s)
  <1>1. /\ TypeOK /\ CallVarsOK /\ ShapeOK(s) /\ StackOK(s) /\ PendingOK(s)
        /\ at[s] = here /\ here \in Forward /\ here # "caller"
        /\ st[s] = "open" /\ outcome[s] = "done" /\ call[s] \in Calls
    BY DEF CallsInv, IInv, CallOK, ShapeOK, Moved, SameStack, Forward
  <1>2. /\ saved' = saved /\ depth' = depth
        /\ \A o \in Sessions \ {s} : st'[o] = st[o] /\ work'[o] = work[o]
        /\ \/ st'[s] = "aborted"
           \/ st'[s] = "open" /\ work'[s] = Fired(w, w.immediate)
    BY <1>1, StatementEnds
  <1>3. next \in Labels /\ handler \in Labels
    BY DEF SameStack, UnderOnce, UnderPost, Labels, Forward
  <1>4. CallVarsOK'
    <2>1. at' \in [Sessions -> Labels]
      BY <1>1, <1>3 DEF CallVarsOK, Moved
    <2>2. call' \in [Sessions -> Calls \cup {NoCall}]
      BY <1>1 DEF CallVarsOK
    <2>3. outcome' \in [Sessions -> Outcomes]
      BY <1>1 DEF CallVarsOK, Moved, Outcomes
    <2> QED  BY <1>1, <2>1, <2>2, <2>3 DEF CallVarsOK, Moved
  <1>5. OthersStay(s)
    BY <1>1, <1>2 DEF OthersStay, CallVarsOK, Moved
  <1>6. /\ at'[s] = IF st'[s] = "open" THEN next ELSE handler
        /\ outcome'[s] = IF st'[s] = "open" THEN "done"
                         ELSE IF here \in Refusable THEN "refused" ELSE "failed"
        /\ call'[s] = IF st'[s] = "open" THEN c ELSE call[s]
        /\ call'[s] \in Calls /\ call'[s].fn = call[s].fn
        /\ before'[s] = before[s] /\ Quiet(before[s])
    BY <1>1 DEF CallVarsOK, Moved, PendingOK
  <1>7. st'[s] # "idle"
    BY <1>2, <1>3, <1>6 DEF Labels
  <1>8. here \in UnderOnce => call[s].fn = "once"
    BY <1>1 DEF ShapeOK, OnlyOnce
  <1>9. CASE st'[s] = "open"
    <2>1. next \in Forward /\ next # "caller"
      BY DEF SameStack, Forward
    <2>2. ShapeOK(s)'
      BY <1>6, <1>7, <1>8, <1>9, <2>1
         DEF ShapeOK, Ready, SameStack, OnlyOnce, UnderOnce, UnderPost, Forward, Backward
    <2>3. StackOK(s)'
      BY <1>1, <1>2, <1>6, <1>8, <1>9, StackStays
         DEF StackOK, SameStack, UnderOnce, UnderPost, Forward, Moved
    <2>4. PendingOK(s)' /\ DeferredOK(s)'
      BY <1>2, <1>6, <1>9, <2>1 DEF PendingOK, DeferredOK, Ready
    <2>5. BackOK(s)'
      BY <1>6, <1>9, <2>1 DEF BackOK, Forward
    <2> QED  BY <1>4, <1>5, <2>2, <2>3, <2>4, <2>5 DEF CallsKept, CallOK
  <1>10. CASE st'[s] = "aborted"
    <2>1. handler \in {"once:rollback", "post:rollback", "caller"} /\ at'[s] = handler
      BY <1>6, <1>10 DEF SameStack
    <2>2. outcome'[s] \in {"refused", "failed"} /\ (handler = "caller" => outcome'[s] = "failed")
      BY <1>1, <1>6, <1>10 DEF SameStack, Forward, UnderPost, UnderOnce
    <2>3. handler = "once:rollback" => call[s].fn = "once"
      BY <1>1, <1>8 DEF SameStack
    <2>4. ShapeOK(s)'
      BY <1>6, <1>10, <2>1, <2>2, <2>3 DEF ShapeOK, OnlyOnce, UnderOnce, Forward, Backward, Early
    <2>5. StackOK(s)'
      <3>1. CASE handler = "once:rollback"
        BY <1>1, <1>2, <1>6, <2>1, <3>1, StackStays DEF StackOK, SameStack, UnderOnce, UnderPost, Moved
      <3>2. CASE handler = "post:rollback"
        BY <1>1, <1>2, <1>6, <2>1, <3>2, StackStays DEF StackOK, SameStack, UnderOnce, UnderPost, Moved
      <3>3. CASE handler = "caller"
        BY <2>1, <3>3 DEF StackOK, UnderOnce, UnderPost
      <3> QED  BY <2>1, <3>1, <3>2, <3>3
    <2>6. PendingOK(s)' /\ DeferredOK(s)'
      BY <1>6, <1>10, <2>1 DEF PendingOK, DeferredOK, Forward, PostAsked, OnceAsked
    <2>7. BackOK(s)'
      BY <1>10, <2>1, <2>2 DEF BackOK
    <2> QED  BY <1>4, <1>5, <2>4, <2>5, <2>6, <2>7 DEF CallsKept, CallOK
  <1> QED  BY <1>2, <1>9, <1>10

\* What a session in the middle of a call is known to be.
LEMMA InACall ==
    ASSUME CallsInv, NEW s \in Sessions, at[s] # "caller"
    PROVE  /\ call[s] \in Calls /\ work[s] \in Work /\ CallOK(s) /\ TypeOK /\ CallVarsOK
           /\ call' = call => call' = [call EXCEPT ![s] = IF st'[s] = "open" THEN call[s] ELSE @]
  BY DEF CallsInv, IInv, TypeOK, CallOK, ShapeOK, CallVarsOK

\* SET CONSTRAINTS sets modes and may fire what is pending.
LEMMA ModesSet ==
    ASSUME NEW v \in Work, NEW imm \in SUBSET Constraints
    PROVE  LET w == [v EXCEPT !.immediate = imm]
               f == Fired(w, w.immediate) IN
           /\ f.immediate = imm
           /\ f.due = {} \/ f.due = v.due
           /\ f.qdue = {} \/ f.qdue = v.qdue
           /\ f.kdue = {} \/ f.kdue = v.kdue
           /\ TxnCheck \in imm => f.due = {}
           /\ QueueCheck \in imm => f.qdue = {}
           /\ KeyCheck \in imm => f.kdue = {}
  <1> DEFINE w == [v EXCEPT !.immediate = imm]
  <1>1. /\ w \in Work /\ w.immediate = imm
        /\ w.due = v.due /\ w.qdue = v.qdue /\ w.kdue = v.kdue
    BY DEF Work
  <1> QED  BY <1>1, FiringLeaves

LEMMA PostDefersStep ==
    ASSUME CallsInv, NEW s \in Sessions, PostDefers(s)
    PROVE  CallsKept(s)
  <1> DEFINE imm == work[s].immediate \ BalanceChecks
             w == [work[s] EXCEPT !.immediate = imm]
  <1>1. at[s] = "post:defer"
    BY DEF PostDefers, Goes, Sends
  <1>2. /\ call[s] \in Calls /\ work[s] \in Work /\ PendingOK(s) /\ imm \in SUBSET Constraints
        /\ call[s].sent = 0
    BY <1>1, InACall DEF CallOK, ShapeOK, Early, Work
  <1>3. EndStatement(s, w) \/ Refuse(s)
    BY DEF PostDefers, Goes, Sends, SetDeferred, StatementRefused
  <1>4. Moved(s, "post:defer", "insert", "post:rollback")
    BY DEF PostDefers, Goes, Sends, Moved
  <1>5. Ready(call[s], "insert", Fired(w, w.immediate))
    BY <1>1, <1>2, ModesSet DEF Ready, PendingOK, PostAsked, OnceAsked, Forward, Early
  <1>6. SameStack("post:defer", "insert", "post:rollback")
    BY DEF SameStack, UnderPost, Forward
  <1>7. call' = [call EXCEPT ![s] = IF st'[s] = "open" THEN call[s] ELSE @]
    BY <1>1, InACall DEF PostDefers, Goes
  <1> QED  BY <1>2, <1>3, <1>4, <1>5, <1>6, <1>7, GoesOn

LEMMA AsksNowStep ==
    ASSUME CallsInv, NEW s \in Sessions, AsksNow(s)
    PROVE  CallsKept(s)
  <1> DEFINE imm == work[s].immediate \cup BalanceChecks
             w == [work[s] EXCEPT !.immediate = imm]
  <1>1. at[s] = "ask"
    BY DEF AsksNow, Goes, Sends
  <1>2. call[s] \in Calls /\ work[s] \in Work /\ PendingOK(s) /\ imm \in SUBSET Constraints
    BY <1>1, InACall DEF CallOK, Work, BalanceChecks, Constraints
  <1>3. EndStatement(s, w) \/ Refuse(s)
    BY DEF AsksNow, Goes, Sends, SetImmediate, StatementRefused
  <1>4. Moved(s, "ask", "post:redefer", "post:rollback")
    BY DEF AsksNow, Goes, Sends, Moved
  <1>5. Ready(call[s], "post:redefer", Fired(w, w.immediate))
    <2>1. TxnCheck \in imm /\ QueueCheck \in imm
      BY DEF BalanceChecks
    <2>2. call[s].fn = "post" => work[s].kdue = {}
      BY <1>1, <1>2 DEF PendingOK, Forward
    <2> HIDE DEF imm
    <2> QED  BY <1>2, <2>1, <2>2, ModesSet DEF Ready, PostAsked, OnceAsked, Early
  <1>6. SameStack("ask", "post:redefer", "post:rollback")
    BY DEF SameStack, UnderPost, Forward
  <1>7. call' = [call EXCEPT ![s] = IF st'[s] = "open" THEN call[s] ELSE @]
    BY <1>1, InACall DEF AsksNow, Goes
  <1> QED  BY <1>2, <1>3, <1>4, <1>5, <1>6, <1>7, GoesOn

LEMMA PostRedefersStep ==
    ASSUME CallsInv, NEW s \in Sessions, PostRedefers(s)
    PROVE  CallsKept(s)
  <1> DEFINE imm == work[s].immediate \ BalanceChecks
             w == [work[s] EXCEPT !.immediate = imm]
  <1>1. at[s] = "post:redefer"
    BY DEF PostRedefers, Goes, Sends
  <1>2. call[s] \in Calls /\ work[s] \in Work /\ PendingOK(s) /\ imm \in SUBSET Constraints
    BY <1>1, InACall DEF CallOK, Work
  <1>3. EndStatement(s, w) \/ Refuse(s)
    BY DEF PostRedefers, Goes, Sends, SetDeferred, StatementRefused
  <1>4. Moved(s, "post:redefer", "post:release", "post:rollback")
    BY DEF PostRedefers, Goes, Sends, Moved
  <1>5. Ready(call[s], "post:release", Fired(w, w.immediate))
    <2>1. imm \cap BalanceChecks = {}
      OBVIOUS
    <2>2. /\ call[s].fn = "post" => work[s].kdue = {}
          /\ work[s].due = {} /\ work[s].qdue = {}
      BY <1>1, <1>2 DEF PendingOK, Forward, PostAsked
    <2> HIDE DEF imm
    <2> QED  BY <1>2, <2>1, <2>2, ModesSet DEF Ready, PostAsked, OnceAsked, Early
  <1>6. SameStack("post:redefer", "post:release", "post:rollback")
    BY DEF SameStack, UnderPost, Forward
  <1>7. call' = [call EXCEPT ![s] = IF st'[s] = "open" THEN call[s] ELSE @]
    BY <1>1, InACall DEF PostRedefers, Goes
  <1> QED  BY <1>2, <1>3, <1>4, <1>5, <1>6, <1>7, GoesOn

LEMMA OnceDefersStep ==
    ASSUME CallsInv, NEW s \in Sessions, OnceDefers(s)
    PROVE  CallsKept(s)
  <1> DEFINE imm == work[s].immediate \ {KeyCheck}
             w == [work[s] EXCEPT !.immediate = imm]
  <1>1. at[s] = "once:defer"
    BY DEF OnceDefers, Goes, Sends
  <1>2. /\ call[s] \in Calls /\ work[s] \in Work /\ imm \in SUBSET Constraints
        /\ call[s].fn = "once" /\ call[s].sent = 0
    BY <1>1, InACall DEF CallOK, ShapeOK, OnlyOnce, UnderOnce, Early, Work
  <1>3. EndStatement(s, w) \/ Refuse(s)
    BY DEF OnceDefers, Goes, Sends, SetDeferred, StatementRefused
  <1>4. Moved(s, "once:defer", "reserve", "caller")
    BY DEF OnceDefers, Goes, Sends, Moved
  <1>5. Ready(call[s], "reserve", Fired(w, w.immediate))
    BY <1>2 DEF Ready, PostAsked, OnceAsked, Early
  <1>6. SameStack("once:defer", "reserve", "caller")
    BY DEF SameStack, UnderOnce, Forward, Refusable
  <1>7. call' = [call EXCEPT ![s] = IF st'[s] = "open" THEN call[s] ELSE @]
    BY <1>1, InACall DEF OnceDefers, Goes
  <1> QED  BY <1>2, <1>3, <1>4, <1>5, <1>6, <1>7, GoesOn

LEMMA OnceAsksStep ==
    ASSUME CallsInv, NEW s \in Sessions, OnceAsks(s)
    PROVE  CallsKept(s)
  <1> DEFINE imm == work[s].immediate \cup {KeyCheck}
             w == [work[s] EXCEPT !.immediate = imm]
  <1>1. at[s] = "once:ask"
    BY DEF OnceAsks, Goes, Sends
  <1>2. /\ call[s] \in Calls /\ work[s] \in Work /\ PendingOK(s) /\ DeferredOK(s)
        /\ imm \in SUBSET Constraints /\ call[s].fn = "once"
    BY <1>1, InACall DEF CallOK, ShapeOK, OnlyOnce, UnderOnce, Work, Constraints
  <1>3. EndStatement(s, w) \/ Refuse(s)
    BY DEF OnceAsks, Goes, Sends, SetImmediate, StatementRefused
  <1>4. Moved(s, "once:ask", "once:redefer", "once:rollback")
    BY DEF OnceAsks, Goes, Sends, Moved
  <1>5. imm \cap BalanceChecks = {}
    BY <1>1, <1>2 DEF DeferredOK, PostAsked, BalanceChecks, KeyCheck, TxnCheck, QueueCheck
  <1>6. Ready(call[s], "once:redefer", Fired(w, w.immediate))
    <2>1. work[s].due = {} /\ work[s].qdue = {} /\ KeyCheck \in imm
      BY <1>1, <1>2 DEF PendingOK, PostAsked
    <2> HIDE DEF imm
    <2> QED  BY <1>2, <1>5, <2>1, ModesSet DEF Ready, PostAsked, OnceAsked, Early
  <1>7. SameStack("once:ask", "once:redefer", "once:rollback")
    BY DEF SameStack, UnderOnce, Forward
  <1>8. call' = [call EXCEPT ![s] = IF st'[s] = "open" THEN call[s] ELSE @]
    BY <1>1, InACall DEF OnceAsks, Goes
  <1> QED  BY <1>2, <1>3, <1>4, <1>6, <1>7, <1>8, GoesOn

LEMMA OnceRedefersStep ==
    ASSUME CallsInv, NEW s \in Sessions, OnceRedefers(s)
    PROVE  CallsKept(s)
  <1> DEFINE imm == work[s].immediate \ {KeyCheck}
             w == [work[s] EXCEPT !.immediate = imm]
  <1>1. at[s] = "once:redefer"
    BY DEF OnceRedefers, Goes, Sends
  <1>2. /\ call[s] \in Calls /\ work[s] \in Work /\ PendingOK(s) /\ DeferredOK(s)
        /\ imm \in SUBSET Constraints /\ call[s].fn = "once"
    BY <1>1, InACall DEF CallOK, ShapeOK, OnlyOnce, UnderOnce, Work
  <1>3. EndStatement(s, w) \/ Refuse(s)
    BY DEF OnceRedefers, Goes, Sends, SetDeferred, StatementRefused
  <1>4. Moved(s, "once:redefer", "once:release", "caller")
    BY DEF OnceRedefers, Goes, Sends, Moved
  <1>5. imm \cap BalanceChecks = {} /\ KeyCheck \notin imm
    BY <1>1, <1>2 DEF DeferredOK, PostAsked
  <1>6. Ready(call[s], "once:release", Fired(w, w.immediate))
    <2>1. work[s].due = {} /\ work[s].qdue = {} /\ work[s].kdue = {}
      BY <1>1, <1>2 DEF PendingOK, PostAsked, OnceAsked
    <2> HIDE DEF imm
    <2> QED  BY <1>2, <1>5, <2>1, ModesSet DEF Ready, PostAsked, OnceAsked, Early
  <1>7. SameStack("once:redefer", "once:release", "caller")
    BY DEF SameStack, UnderOnce, Forward, Refusable
  <1>8. call' = [call EXCEPT ![s] = IF st'[s] = "open" THEN call[s] ELSE @]
    BY <1>1, InACall DEF OnceRedefers, Goes
  <1> QED  BY <1>2, <1>3, <1>4, <1>6, <1>7, <1>8, GoesOn

\* An INSERT INTO transactions leaves the keys and the modes as they are.
LEMMA InsertsEntryStep ==
    ASSUME CallsInv, NEW s \in Sessions, InsertsEntry(s)
    PROVE  CallsKept(s)
  <1>1. at[s] = "insert"
    BY DEF InsertsEntry, Sends
  <1>2. /\ call[s] \in Calls /\ work[s] \in Work /\ PendingOK(s) /\ CallVarsOK
        /\ call[s].sent = 0
    BY <1>1, InACall DEF CallOK, ShapeOK, Early
  <1>3. PICK t \in Txns :
            /\ Sends(s, "insert", InsertTransaction(s, t), NextLeg(s, 0), "post:rollback")
            /\ call' = IF st'[s] = "open" THEN [call EXCEPT ![s].txn = t] ELSE call
            /\ UNCHANGED name
    BY DEF InsertsEntry
  <1> DEFINE w == [work[s] EXCEPT !.txns = @ \cup {t}, !.due = @ \cup {t}]
             c == [call[s] EXCEPT !.txn = t]
             next == NextLeg(s, 0)
  <1>4. EndStatement(s, w) \/ Refuse(s)
    BY <1>3 DEF Sends, InsertTransaction, StatementRefused
  <1>5. Moved(s, "insert", next, "post:rollback")
    BY <1>3 DEF Sends, Moved
  <1>6. c \in Calls /\ c.fn = call[s].fn /\ c.txn = t /\ c.sent = call[s].sent /\ c.hash = call[s].hash
    BY <1>2 DEF Calls
  <1>7. Ready(c, next, Fired(w, w.immediate))
    <2>1. w \in Work /\ w.kdue = work[s].kdue
      BY <1>2 DEF Work
    <2>2. call[s].fn = "post" => work[s].kdue = {}
      BY <1>1, <1>2 DEF PendingOK, Forward
    <2>3. next = "legs" => c.sent < Len(LegsOf[c.hash])
      BY <1>2, <1>6 DEF NextLeg
    <2>4. next \in {"legs", "ask"}
      BY DEF NextLeg
    <2> HIDE DEF w, c, next
    <2> QED  BY <1>6, <2>1, <2>2, <2>3, <2>4, FiringLeaves DEF Ready, PostAsked, OnceAsked, Early
  <1>8. SameStack("insert", next, "post:rollback")
    BY DEF SameStack, UnderPost, Forward, NextLeg
  <1>9. call' = [call EXCEPT ![s] = IF st'[s] = "open" THEN c ELSE @]
    BY <1>2, <1>3 DEF CallVarsOK
  <1> HIDE DEF w, c, next
  <1> QED  BY <1>4, <1>5, <1>6, <1>7, <1>8, <1>9, GoesOn

\* So does an INSERT INTO postings.
LEMMA InsertsLegStep ==
    ASSUME CallsInv, NEW s \in Sessions, InsertsLeg(s)
    PROVE  CallsKept(s)
  <1> DEFINE sent == call[s].sent + 1
             t == call[s].txn
             b == LegsOf[call[s].hash][sent]
             v == [work[s] EXCEPT !.legs[t] = @ + b[1], !.net[t] = @ + b[2]]
             w == QueueCheckOf(v, t)
             c == [call[s] EXCEPT !.sent = sent]
             next == NextLeg(s, sent)
  <1>1. at[s] = "legs"
    BY DEF InsertsLeg
  <1>2. /\ call[s] \in Calls /\ work[s] \in Work /\ PendingOK(s) /\ CallVarsOK
        /\ t \in Txns /\ call[s].sent < Len(LegsOf[call[s].hash])
    BY <1>1, InACall DEF CallOK, ShapeOK
  <1>3. EndStatement(s, w) \/ Refuse(s)
    BY DEF InsertsLeg, Sends, InsertPostings, StatementRefused
  <1>4. Moved(s, "legs", next, "post:rollback")
    BY DEF InsertsLeg, Sends, Moved
  <1>5. sent \in 0..MaxLegs /\ sent \in 1..Len(LegsOf[call[s].hash])
    <2>1. /\ call[s].sent \in 0..MaxLegs /\ call[s].hash \in Hashes
          /\ Len(LegsOf[call[s].hash]) <= MaxLegs /\ LegsOf[call[s].hash] \in Seq({x \in Batches : x[1] = 1})
      BY <1>2, CallsAssumption DEF Calls, KeyRows
    <2>2. Len(LegsOf[call[s].hash]) \in Nat /\ MaxLegs \in Nat
      BY <2>1, BoundAssumption
    <2> QED  BY <1>2, <2>1, <2>2
  <1>6. c \in Calls /\ c.fn = call[s].fn /\ c.txn = t /\ c.sent = sent /\ c.hash = call[s].hash
    BY <1>2, <1>5 DEF Calls
  <1>7. Ready(c, next, Fired(w, w.immediate))
    <2>1. b \in Batches
      <3>1. LegsOf[call[s].hash] \in Seq({x \in Batches : x[1] = 1})
        BY <1>2, CallsAssumption DEF Calls
      <3>2. b \in {x \in Batches : x[1] = 1}
        BY <1>5, <3>1
      <3> QED  BY <3>2
    <2>2. b[1] \in Nat /\ b[2] \in Int
      BY <2>1, BatchAssumption
    <2> HIDE DEF b, t
    <2>a. work[s].legs \in [Txns -> Nat] /\ work[s].net \in [Txns -> Int] /\ t \in Txns
      BY <1>2 DEF Work
    <2>c. /\ [work[s].legs EXCEPT ![t] = @ + b[1]] \in [Txns -> Nat]
          /\ [work[s].net EXCEPT ![t] = @ + b[2]] \in [Txns -> Int]
      BY <2>2, <2>a
    <2>3. v \in Work /\ v.kdue = work[s].kdue
      BY <1>2, <2>c DEF Work
    <2> HIDE DEF v
    <2>b. w = v \/ w = [v EXCEPT !.queue = @ \cup {t}, !.qdue = @ \cup {t}]
      BY DEF QueueCheckOf
    <2> HIDE DEF w
    <2>4. w \in Work /\ w.kdue = v.kdue
      <3>1. CASE w = v
        BY <2>3, <3>1
      <3>2. CASE w = [v EXCEPT !.queue = @ \cup {t}, !.qdue = @ \cup {t}]
        BY <2>3, <2>a, <3>2 DEF Work
      <3> QED  BY <2>b, <3>1, <3>2
    <2>5. call[s].fn = "post" => work[s].kdue = {}
      BY <1>1, <1>2 DEF PendingOK, Forward
    <2>6. next = "legs" => c.sent < Len(LegsOf[c.hash])
      BY <1>6 DEF NextLeg
    <2>7. next \in {"legs", "ask"}
      BY DEF NextLeg
    <2> HIDE DEF c, next
    <2> QED  BY <1>2, <1>6, <2>3, <2>4, <2>5, <2>6, <2>7, FiringLeaves DEF Ready, PostAsked, OnceAsked, Early
  <1>8. SameStack("legs", next, "post:rollback")
    BY DEF SameStack, UnderPost, Forward, NextLeg
  <1>9. call' = [call EXCEPT ![s] = IF st'[s] = "open" THEN c ELSE @]
    BY <1>2 DEF CallVarsOK, InsertsLeg
  <1> HIDE DEF w, c, next
  <1> QED  BY <1>3, <1>4, <1>6, <1>7, <1>8, <1>9, GoesOn

LEMMA ReservesStep ==
    ASSUME CallsInv, NEW s \in Sessions, Reserves(s)
    PROVE  CallsKept(s)
  <1> DEFINE w == [work[s] EXCEPT !.keys[call[s].key] = [hash |-> call[s].hash, txn |-> NoTxn],
                                  !.touched = @ \cup {call[s].key},
                                  !.kdue = @ \cup {call[s].key}]
  <1>1. at[s] = "reserve"
    BY DEF Reserves, Goes, Sends
  <1>2. call[s] \in Calls /\ call[s].fn = "once" /\ call[s].sent = 0
    BY <1>1, InACall DEF CallOK, ShapeOK, OnlyOnce, UnderOnce, Early
  <1>3. EndStatement(s, w) \/ Refuse(s)
    BY DEF Reserves, Goes, Sends, ReserveKey, StatementRefused
  <1>4. Moved(s, "reserve", "post:savepoint", "once:rollback")
    BY DEF Reserves, Goes, Sends, Moved
  <1>5. Ready(call[s], "post:savepoint", Fired(w, w.immediate))
    BY <1>2 DEF Ready, PostAsked, OnceAsked, Early
  <1>6. SameStack("reserve", "post:savepoint", "once:rollback")
    BY DEF SameStack, UnderOnce, Forward
  <1>7. call' = [call EXCEPT ![s] = IF st'[s] = "open" THEN call[s] ELSE @]
    BY <1>1, InACall DEF Reserves, Goes
  <1> HIDE DEF w
  <1> QED  BY <1>2, <1>3, <1>4, <1>5, <1>6, <1>7, GoesOn

\* The key is settled after Post has asked, so nothing of the entry is pending.
LEMMA SettlesStep ==
    ASSUME CallsInv, NEW s \in Sessions, Settles(s)
    PROVE  CallsKept(s)
  <1> DEFINE k == call[s].key
             w == [work[s] EXCEPT !.keys[k] = [hash |-> call[s].hash, txn |-> call[s].txn],
                                  !.touched = @ \cup {k},
                                  !.kdue = @ \cup {k}]
  <1>1. at[s] = "settle"
    BY DEF Settles, Goes, Sends
  <1>2. /\ call[s] \in Calls /\ call[s].fn = "once" /\ work[s] \in Work
        /\ PendingOK(s) /\ DeferredOK(s)
    BY <1>1, InACall DEF CallOK, ShapeOK, OnlyOnce, UnderOnce
  <1>3. EndStatement(s, w) \/ Refuse(s)
    BY DEF Settles, Goes, Sends, UpdateKey, StatementRefused
  <1>4. Moved(s, "settle", "once:ask", "once:rollback")
    BY DEF Settles, Goes, Sends, Moved
  <1>5. Ready(call[s], "once:ask", Fired(w, w.immediate))
    <2>1. k \in Keys /\ [hash |-> call[s].hash, txn |-> call[s].txn] \in KeyRows
      BY <1>2 DEF Calls, KeyRows
    <2>2. /\ w \in Work /\ w.immediate = work[s].immediate
          /\ w.due = work[s].due /\ w.qdue = work[s].qdue
      BY <1>2, <2>1 DEF Work
    <2>3. /\ work[s].due = {} /\ work[s].qdue = {}
          /\ work[s].immediate \cap BalanceChecks = {}
      BY <1>1, <1>2 DEF PendingOK, DeferredOK, PostAsked
    <2> HIDE DEF w
    <2> QED  BY <1>2, <2>2, <2>3, FiringLeaves DEF Ready, PostAsked, OnceAsked, Early
  <1>6. SameStack("settle", "once:ask", "once:rollback")
    BY DEF SameStack, UnderOnce, Forward
  <1>7. call' = [call EXCEPT ![s] = IF st'[s] = "open" THEN call[s] ELSE @]
    BY <1>1, InACall DEF Settles, Goes
  <1> HIDE DEF w
  <1> QED  BY <1>2, <1>3, <1>4, <1>5, <1>6, <1>7, GoesOn

-----------------------------------------------------------------------------
(* Savepoints.                                                             *)

\* The savepoint a name stands for is the last one that has it.
LEMMA LastIsTop ==
    ASSUME NEW s \in Sessions, NEW n, depth[s] \in 1..Depth, name[s][depth[s]] = n
    PROVE  Last(s, n) = depth[s]
  <1> DEFINE P(d) == name[s][d] = n /\ \A e \in d+1..depth[s] : name[s][e] # n
  <1>1. depth[s] \in Int /\ depth[s] \in 1..depth[s] /\ depth[s]+1..depth[s] = {}
    BY BoundAssumption
  <1>2. P(depth[s])
    BY <1>1
  <1>3. ASSUME NEW d \in 1..depth[s], P(d)
        PROVE  d = depth[s]
    <2>1. d # depth[s] => depth[s] \in d+1..depth[s]
      BY <1>1
    <2> QED  BY <1>3, <2>1
  <1> HIDE DEF P
  <1>4. Last(s, n) = CHOOSE d \in 1..depth[s] : P(d)
    BY DEF Last, P
  <1> QED  BY <1>1, <1>2, <1>3, <1>4

LEMMA LastIsOutside ==
    ASSUME NEW s \in Sessions, Nested(s)
    PROVE  Last(s, "once") = depth[s] - 1
  <1> DEFINE n == "once"
             P(d) == name[s][d] = n /\ \A e \in d+1..depth[s] : name[s][e] # n
  <1>1. depth[s] \in Int /\ depth[s] - 1 \in 1..depth[s] /\ depth[s] - 1 + 1..depth[s] = {depth[s]}
    BY BoundAssumption DEF Nested
  <1>2. P(depth[s] - 1)
    BY <1>1 DEF Nested
  <1>3. ASSUME NEW d \in 1..depth[s], P(d)
        PROVE  d = depth[s] - 1
    <2>1. d # depth[s]
      BY <1>3 DEF Nested
    <2>2. d # depth[s] /\ d # depth[s] - 1 => depth[s] - 1 \in d+1..depth[s]
      BY <1>1
    <2> QED  BY <1>3, <2>1, <2>2 DEF Nested
  <1> HIDE DEF P
  <1>4. Last(s, n) = CHOOSE d \in 1..depth[s] : P(d)
    BY DEF Last, P
  <1> QED  BY <1>1, <1>2, <1>3, <1>4

\* SAVEPOINT keeps a copy of the work on top of the ones there are.
LEMMA SavepointDoes ==
    ASSUME TypeOK, NEW s \in Sessions, Savepoint(s)
    PROVE  /\ \A o \in Sessions \ {s} : saved'[o] = saved[o] /\ depth'[o] = depth[o]
           /\ st' = st /\ work' = work /\ depth[s] \in Nat
           /\ depth'[s] = depth[s] + 1 /\ depth[s] + 1 \in 1..Depth
           /\ saved'[s][depth[s] + 1] = work[s]
           /\ \A d \in 1..depth[s] : saved'[s][d] = saved[s][d]
  <1>1. depth[s] \in Nat /\ Depth \in Nat /\ depth[s] + 1 \in 1..Depth /\ depth[s] <= Depth
    BY BoundAssumption DEF TypeOK, Savepoint
  <1>2. saved[s] \in [1..Depth -> Work] /\ saved'[s] = [saved[s] EXCEPT ![depth[s] + 1] = work[s]]
    BY DEF TypeOK, Savepoint
  <1>3. \A d \in 1..depth[s] : saved'[s][d] = saved[s][d]
    BY <1>1, <1>2
  <1>4. saved'[s][depth[s] + 1] = work[s]
    BY <1>1, <1>2
  <1> QED  BY <1>1, <1>3, <1>4 DEF TypeOK, Savepoint

\* RELEASE drops it, ROLLBACK TO goes back to the work it kept.
LEMMA ReleaseDoes ==
    ASSUME TypeOK, NEW s \in Sessions, NEW d, Release(s, d)
    PROVE  /\ \A o \in Sessions \ {s} : saved'[o] = saved[o] /\ depth'[o] = depth[o]
           /\ st' = st /\ work' = work
           /\ depth'[s] = d - 1 /\ d \in 1..Depth
           /\ \A i \in 1..d-1 : saved'[s][i] = saved[s][i]
  <1>1. depth[s] \in 0..Depth /\ Depth \in Nat /\ d \in 1..depth[s]
    BY BoundAssumption DEF TypeOK, Release
  <1>2. saved'[s] = [i \in 1..Depth |-> IF i < d THEN saved[s][i] ELSE NoWork]
    BY DEF TypeOK, Release
  <1>3. d \in 1..Depth /\ \A i \in 1..d-1 : i \in 1..Depth /\ i < d
    BY <1>1
  <1>4. \A i \in 1..d-1 : saved'[s][i] = saved[s][i]
    BY <1>2, <1>3
  <1> QED  BY <1>3, <1>4 DEF TypeOK, Release

LEMMA RollbackDoes ==
    ASSUME TypeOK, NEW s \in Sessions, NEW d, RollbackTo(s, d)
    PROVE  /\ \A o \in Sessions \ {s} :
                /\ st'[o] = st[o] /\ work'[o] = work[o]
                /\ saved'[o] = saved[o] /\ depth'[o] = depth[o]
           /\ st'[s] = "open" /\ work'[s] = saved[s][d]
           /\ depth'[s] = d /\ d \in 1..Depth
           /\ saved'[s][d] = saved[s][d]
  <1>1. depth[s] \in 0..Depth /\ Depth \in Nat /\ d \in 1..depth[s]
    BY BoundAssumption DEF TypeOK, RollbackTo
  <1>2. saved'[s] = [i \in 1..Depth |-> IF i <= d THEN saved[s][i] ELSE NoWork]
    BY DEF TypeOK, RollbackTo
  <1>3. d \in 1..Depth /\ d <= d
    BY <1>1
  <1>4. saved'[s][d] = saved[s][d]
    BY <1>2, <1>3
  <1> QED  BY <1>3, <1>4 DEF TypeOK, RollbackTo

\* A refused statement ends in an aborted transaction and nothing else.
LEMMA RefusalDoes ==
    ASSUME TypeOK, NEW s \in Sessions, Refuse(s)
    PROVE  /\ saved' = saved /\ depth' = depth /\ st'[s] = "aborted"
           /\ \A o \in Sessions \ {s} : st'[o] = st[o] /\ work'[o] = work[o]
  BY DEF TypeOK, Refuse

\* The names a statement may leave: the open savepoints keep theirs.
NamesStay(s) ==
    /\ name' \in [Sessions -> [1..Depth -> {"none", "once", "post"}]]
    /\ \A o \in Sessions \ {s} : name'[o] = name[o]
    /\ \A i \in 1..depth[s] : name'[s][i] = name[s][i]

\* A statement of a call that only fails if it is cut short.
LEMMA FailsBack ==
    ASSUME CallsInv, NEW s \in Sessions, at[s] # "caller", Refuse(s), NamesStay(s),
           NEW handler \in {"caller", "once:rollback"}, NEW out \in Outcomes \ {"done"},
           at' = [at EXCEPT ![s] = handler], outcome' = [outcome EXCEPT ![s] = out],
           UNCHANGED <<call, before>>,
           handler = "caller" => out = "failed" \/ call[s].fn = "post",
           handler = "once:rollback" => call[s].fn = "once" /\ (Top(s, "once") \/ Nested(s))
    PROVE  CallsKept(s)
  <1>1. TypeOK /\ CallVarsOK /\ call[s] \in Calls /\ PendingOK(s)
    BY InACall DEF CallOK
  <1>2. /\ saved' = saved /\ depth' = depth /\ st'[s] = "aborted"
        /\ \A o \in Sessions \ {s} : st'[o] = st[o] /\ work'[o] = work[o]
    BY <1>1, RefusalDoes
  <1>3. CallVarsOK'
    BY <1>1 DEF CallVarsOK, NamesStay, Labels
  <1>4. OthersStay(s)
    BY <1>1, <1>2 DEF OthersStay, CallVarsOK, NamesStay
  <1>5. at'[s] = handler /\ outcome'[s] = out
    BY <1>1 DEF CallVarsOK
  <1>6. ShapeOK(s)'
    BY <1>1, <1>2, <1>5 DEF ShapeOK, OnlyOnce, UnderOnce, Forward, Backward, Early
  <1>7. depth[s] \in 1..Depth => depth[s] \in 1..depth[s]
    BY BoundAssumption
  <1>8. depth[s] \in 2..Depth => depth[s] - 1 \in 1..depth[s] /\ depth[s] \in 1..depth[s]
    BY BoundAssumption
  <1>9. Top(s, "once") => Top(s, "once")'
    BY <1>2, <1>7 DEF Top, NamesStay
  <1>10. Nested(s) => Nested(s)'
    BY <1>2, <1>8 DEF Nested, NamesStay
  <1>11. StackOK(s)'
    BY <1>5, <1>9, <1>10 DEF StackOK, UnderOnce, UnderPost
  <1>12. PendingOK(s)' /\ DeferredOK(s)'
    BY <1>1, <1>2, <1>5 DEF PendingOK, DeferredOK, Forward, PostAsked, OnceAsked
  <1>13. BackOK(s)'
    BY <1>2, <1>5 DEF BackOK
  <1> QED  BY <1>3, <1>4, <1>6, <1>11, <1>12, <1>13 DEF CallsKept, CallOK

\* SAVEPOINT n names the slot above the ones there are.
LEMMA SavesNames ==
    ASSUME TypeOK, CallVarsOK, NEW s \in Sessions, NEW n \in {"once", "post"},
           name' = [name EXCEPT ![s] = [d \in 1..Depth |-> IF d = depth[s] + 1 THEN n ELSE @[d]]]
    PROVE  NamesStay(s) /\ (depth[s] + 1 \in 1..Depth => name'[s][depth[s] + 1] = n)
  <1>1. depth[s] \in 0..Depth /\ Depth \in Nat
    BY BoundAssumption DEF TypeOK
  <1>2. name[s] \in [1..Depth -> {"none", "once", "post"}]
    BY DEF CallVarsOK
  <1>3. name'[s] = [d \in 1..Depth |-> IF d = depth[s] + 1 THEN n ELSE name[s][d]]
    BY DEF CallVarsOK
  <1>4. name'[s] \in [1..Depth -> {"none", "once", "post"}]
    BY <1>2, <1>3
  <1>5. name' \in [Sessions -> [1..Depth -> {"none", "once", "post"}]]
    BY <1>3, <1>4 DEF CallVarsOK
  <1>6. \A i \in 1..depth[s] : i \in 1..Depth /\ i # depth[s] + 1
    BY <1>1
  <1> QED  BY <1>3, <1>5, <1>6 DEF NamesStay, CallVarsOK

\* RELEASE and ROLLBACK TO forget the names above the ones they leave.
LEMMA DropsNames ==
    ASSUME TypeOK, CallVarsOK, NEW s \in Sessions, depth'[s] \in 0..depth[s],
           name' = [name EXCEPT ![s] = [d \in 1..Depth |-> IF d <= depth'[s] THEN @[d] ELSE "none"]]
    PROVE  /\ name' \in [Sessions -> [1..Depth -> {"none", "once", "post"}]]
           /\ \A o \in Sessions \ {s} : name'[o] = name[o]
           /\ \A i \in 1..depth'[s] : name'[s][i] = name[s][i]
  <1>1. depth[s] \in 0..Depth /\ Depth \in Nat
    BY BoundAssumption DEF TypeOK
  <1>2. name[s] \in [1..Depth -> {"none", "once", "post"}]
    BY DEF CallVarsOK
  <1>3. name'[s] = [d \in 1..Depth |-> IF d <= depth'[s] THEN name[s][d] ELSE "none"]
    BY DEF CallVarsOK
  <1>4. name'[s] \in [1..Depth -> {"none", "once", "post"}]
    BY <1>2, <1>3
  <1>5. name' \in [Sessions -> [1..Depth -> {"none", "once", "post"}]]
    BY <1>3, <1>4 DEF CallVarsOK
  <1>6. \A i \in 1..depth'[s] : i \in 1..Depth /\ i <= depth'[s]
    BY <1>1
  <1> QED  BY <1>3, <1>5, <1>6 DEF CallVarsOK

LEMMA PostSavesStep ==
    ASSUME CallsInv, NEW s \in Sessions, PostSaves(s)
    PROVE  CallsKept(s)
  <1>1. at[s] = "post:savepoint" /\ UNCHANGED <<call, before>>
    BY DEF PostSaves, Saves, Sends
  <1>2. TypeOK /\ CallVarsOK /\ call[s] \in Calls /\ ShapeOK(s) /\ StackOK(s) /\ PendingOK(s)
    BY <1>1, InACall DEF CallOK
  <1>3. NamesStay(s) /\ (depth[s] + 1 \in 1..Depth => name'[s][depth[s] + 1] = "post")
    BY <1>2, SavesNames DEF PostSaves, Saves
  <1>4. CASE Refuse(s)
    <2>1. st'[s] = "aborted"
      BY <1>2, <1>4, RefusalDoes
    <2>2. at' = [at EXCEPT ![s] = Raised(s)] /\ outcome' = [outcome EXCEPT ![s] = "failed"]
      BY <2>1 DEF PostSaves, Saves, Sends, Refusable
    <2>3. call[s].fn = "once" => Top(s, "once")
      BY <1>1, <1>2 DEF StackOK
    <2> QED  BY <1>1, <1>3, <1>4, <2>2, <2>3, FailsBack DEF Raised, Outcomes
  <1>5. CASE Savepoint(s)
    <2>1. /\ \A o \in Sessions \ {s} : saved'[o] = saved[o] /\ depth'[o] = depth[o]
          /\ st' = st /\ work' = work /\ depth[s] \in Nat
          /\ depth'[s] = depth[s] + 1 /\ depth[s] + 1 \in 1..Depth
          /\ saved'[s][depth[s] + 1] = work[s]
          /\ \A d \in 1..depth[s] : saved'[s][d] = saved[s][d]
      BY <1>2, <1>5, SavepointDoes
    <2>2. st'[s] = "open" /\ outcome[s] = "done" /\ call[s].sent = 0
      BY <1>1, <1>2, <2>1 DEF ShapeOK, Forward, Early
    <2>3. at' = [at EXCEPT ![s] = "post:defer"] /\ outcome' = outcome
      BY <1>2, <2>2 DEF PostSaves, Saves, Sends, CallVarsOK
    <2>4. at'[s] = "post:defer"
      BY <1>2, <2>3 DEF CallVarsOK
    <2>5. CallVarsOK'
      BY <1>1, <1>2, <1>3, <2>3 DEF CallVarsOK, NamesStay, Labels
    <2>6. OthersStay(s)
      BY <1>1, <1>2, <1>3, <2>1, <2>3 DEF OthersStay, CallVarsOK, NamesStay
    <2>7. ShapeOK(s)'
      BY <1>1, <1>2, <2>2, <2>3, <2>4 DEF ShapeOK, OnlyOnce, UnderOnce, Forward, Backward, Early
    <2>8. StackOK(s)'
      <3>1. CASE call[s].fn = "once"
        <4>1. Top(s, "once")
          BY <1>1, <1>2, <3>1 DEF StackOK
        <4>2. depth'[s] \in 2..Depth /\ depth'[s] - 1 = depth[s] /\ depth[s] \in 1..depth[s]
          BY <2>1, <4>1, BoundAssumption DEF Top
        <4>3. Nested(s)'
          BY <1>1, <1>3, <2>1, <4>1, <4>2 DEF Top, Nested, NamesStay
        <4> QED  BY <1>1, <2>4, <3>1, <4>3 DEF StackOK, UnderOnce, UnderPost
      <3>2. CASE call[s].fn = "post"
        <4>1. work[s] = before[s]
          BY <1>1, <1>2, <3>2 DEF StackOK
        <4>2. Top(s, "post")'
          BY <1>1, <1>3, <2>1, <4>1 DEF Top
        <4> QED  BY <1>1, <2>4, <3>2, <4>2 DEF StackOK, UnderOnce, UnderPost
      <3> QED  BY <1>2, <3>1, <3>2 DEF Calls
    <2>9. PendingOK(s)' /\ DeferredOK(s)'
      BY <1>1, <1>2, <2>1, <2>4 DEF PendingOK, DeferredOK, Forward, PostAsked, OnceAsked
    <2>10. BackOK(s)'
      BY <2>4 DEF BackOK
    <2> QED  BY <2>5, <2>6, <2>7, <2>8, <2>9, <2>10 DEF CallsKept, CallOK
  <1> QED  BY <1>4, <1>5 DEF PostSaves, Saves, Sends, StatementRefused

LEMMA OnceSavesStep ==
    ASSUME CallsInv, NEW s \in Sessions, OnceSaves(s)
    PROVE  CallsKept(s)
  <1>1. at[s] = "once:savepoint" /\ UNCHANGED <<call, before>>
    BY DEF OnceSaves, Saves, Sends
  <1>2. /\ TypeOK /\ CallVarsOK /\ call[s] \in Calls /\ ShapeOK(s) /\ StackOK(s) /\ PendingOK(s)
        /\ call[s].fn = "once"
    BY <1>1, InACall DEF CallOK, ShapeOK, OnlyOnce
  <1>3. NamesStay(s) /\ (depth[s] + 1 \in 1..Depth => name'[s][depth[s] + 1] = "once")
    BY <1>2, SavesNames DEF OnceSaves, Saves
  <1>4. CASE Refuse(s)
    <2>1. st'[s] = "aborted"
      BY <1>2, <1>4, RefusalDoes
    <2>2. at' = [at EXCEPT ![s] = "caller"] /\ outcome' = [outcome EXCEPT ![s] = "failed"]
      BY <2>1 DEF OnceSaves, Saves, Sends, Refusable
    <2> QED  BY <1>1, <1>3, <1>4, <2>2, FailsBack DEF Outcomes
  <1>5. CASE Savepoint(s)
    <2>1. /\ \A o \in Sessions \ {s} : saved'[o] = saved[o] /\ depth'[o] = depth[o]
          /\ st' = st /\ work' = work /\ depth[s] \in Nat
          /\ depth'[s] = depth[s] + 1 /\ depth[s] + 1 \in 1..Depth
          /\ saved'[s][depth[s] + 1] = work[s]
      BY <1>2, <1>5, SavepointDoes
    <2>2. st'[s] = "open" /\ outcome[s] = "done" /\ call[s].sent = 0
      BY <1>1, <1>2, <2>1 DEF ShapeOK, Forward, Early
    <2>3. at' = [at EXCEPT ![s] = "once:defer"] /\ outcome' = outcome
      BY <1>2, <2>2 DEF OnceSaves, Saves, Sends, CallVarsOK
    <2>4. at'[s] = "once:defer"
      BY <1>2, <2>3 DEF CallVarsOK
    <2>5. CallVarsOK'
      BY <1>1, <1>2, <1>3, <2>3 DEF CallVarsOK, NamesStay, Labels
    <2>6. OthersStay(s)
      BY <1>1, <1>2, <1>3, <2>1, <2>3 DEF OthersStay, CallVarsOK, NamesStay
    <2>7. ShapeOK(s)'
      BY <1>1, <1>2, <2>2, <2>3, <2>4 DEF ShapeOK, OnlyOnce, UnderOnce, Forward, Backward, Early
    <2>8. StackOK(s)'
      <3>1. work[s] = before[s]
        BY <1>1, <1>2 DEF StackOK
      <3>2. Top(s, "once")'
        BY <1>1, <1>3, <2>1, <3>1 DEF Top
      <3> QED  BY <1>1, <2>4, <3>2 DEF StackOK, UnderOnce, UnderPost
    <2>9. PendingOK(s)' /\ DeferredOK(s)'
      BY <1>1, <1>2, <2>4 DEF PendingOK, DeferredOK, Forward, PostAsked, OnceAsked
    <2>10. BackOK(s)'
      BY <2>4 DEF BackOK
    <2> QED  BY <2>5, <2>6, <2>7, <2>8, <2>9, <2>10 DEF CallsKept, CallOK
  <1> QED  BY <1>4, <1>5 DEF OnceSaves, Saves, Sends, StatementRefused

\* RELEASE of the savepoint on top.
LEMMA ReleasesTop ==
    ASSUME CallsInv, NEW s \in Sessions, NEW here, NEW n \in {"once", "post"}, NEW next, NEW handler,
           here # "caller", Releases(s, here, n, next, handler), Top(s, n) \/ (n = "post" /\ Nested(s))
    PROVE  /\ at[s] = here /\ UNCHANGED <<call, before>>
           /\ \/ /\ Refuse(s) /\ NamesStay(s)
                 /\ at' = [at EXCEPT ![s] = handler]
                 /\ outcome' = [outcome EXCEPT ![s] = IF here \in Refusable THEN "refused" ELSE "failed"]
              \/ /\ \A o \in Sessions \ {s} :
                        saved'[o] = saved[o] /\ depth'[o] = depth[o] /\ name'[o] = name[o]
                 /\ name' \in [Sessions -> [1..Depth -> {"none", "once", "post"}]]
                 /\ st' = st /\ work' = work /\ st[s] = "open"
                 /\ depth'[s] = depth[s] - 1
                 /\ \A i \in 1..depth[s] - 1 : saved'[s][i] = saved[s][i] /\ name'[s][i] = name[s][i]
                 /\ at' = [at EXCEPT ![s] = next] /\ outcome' = outcome
  <1>1. at[s] = here /\ UNCHANGED <<call, before>>
    BY DEF Releases, Sends
  <1>2. TypeOK /\ CallVarsOK
    BY <1>1, InACall
  <1>3. depth[s] \in 1..Depth /\ name[s][depth[s]] = n /\ depth[s] \in Nat
    BY BoundAssumption DEF Top, Nested
  <1>4. Last(s, n) = depth[s]
    BY <1>3, LastIsTop
  <1>5. CASE Refuse(s)
    <2>1. st'[s] = "aborted" /\ depth' = depth
      BY <1>2, <1>5, RefusalDoes
    <2>2. /\ at' = [at EXCEPT ![s] = handler]
          /\ outcome' = [outcome EXCEPT ![s] = IF here \in Refusable THEN "refused" ELSE "failed"]
      BY <2>1 DEF Releases, Sends
    <2>3. depth'[s] \in 0..depth[s] /\ depth'[s] = depth[s]
      BY <1>3, <2>1
    <2>4. NamesStay(s)
      BY <1>2, <2>3, DropsNames DEF Releases, NamesStay
    <2> QED  BY <1>1, <1>5, <2>2, <2>4
  <1>6. CASE Release(s, Last(s, n))
    <2>1. /\ \A o \in Sessions \ {s} : saved'[o] = saved[o] /\ depth'[o] = depth[o]
          /\ st' = st /\ work' = work
          /\ depth'[s] = depth[s] - 1
          /\ \A i \in 1..depth[s] - 1 : saved'[s][i] = saved[s][i]
      BY <1>2, <1>4, <1>6, ReleaseDoes
    <2>2. st[s] = "open"
      BY <1>6 DEF Release
    <2>3. depth'[s] \in 0..depth[s]
      BY <1>3, <2>1
    <2>4. /\ name' \in [Sessions -> [1..Depth -> {"none", "once", "post"}]]
          /\ \A o \in Sessions \ {s} : name'[o] = name[o]
          /\ \A i \in 1..depth[s] - 1 : name'[s][i] = name[s][i]
      BY <1>2, <2>1, <2>3, DropsNames DEF Releases
    <2>5. at' = [at EXCEPT ![s] = next] /\ outcome' = outcome
      BY <1>2, <2>1, <2>2 DEF Releases, Sends, CallVarsOK
    <2> QED  BY <1>1, <2>1, <2>2, <2>4, <2>5
  <1> QED  BY <1>5, <1>6 DEF Releases, Sends, StatementRefused

\* Once goes on to settle the key, or Post answers.
LEMMA PostReleasesStep ==
    ASSUME CallsInv, NEW s \in Sessions, PostReleases(s)
    PROVE  CallsKept(s)
  <1> DEFINE next == IF call[s].fn = "once" THEN "settle" ELSE "caller"
  <1>1. at[s] = "post:release"
    BY DEF PostReleases, Releases, Sends
  <1>2. /\ TypeOK /\ CallVarsOK /\ call[s] \in Calls /\ CallOK(s) /\ outcome[s] = "done"
        /\ ShapeOK(s) /\ StackOK(s) /\ PendingOK(s) /\ DeferredOK(s)
    BY <1>1, InACall DEF CallOK, ShapeOK, Forward
  <1>3. IF call[s].fn = "once" THEN Nested(s) ELSE Top(s, "post")
    BY <1>1, <1>2 DEF StackOK, UnderPost
  <1>4. /\ UNCHANGED <<call, before>>
        /\ \/ /\ Refuse(s) /\ NamesStay(s)
              /\ at' = [at EXCEPT ![s] = Raised(s)]
              /\ outcome' = [outcome EXCEPT ![s] = "failed"]
           \/ /\ \A o \in Sessions \ {s} :
                     saved'[o] = saved[o] /\ depth'[o] = depth[o] /\ name'[o] = name[o]
              /\ name' \in [Sessions -> [1..Depth -> {"none", "once", "post"}]]
              /\ st' = st /\ work' = work /\ st[s] = "open"
              /\ depth'[s] = depth[s] - 1
              /\ \A i \in 1..depth[s] - 1 : saved'[s][i] = saved[s][i] /\ name'[s][i] = name[s][i]
              /\ at' = [at EXCEPT ![s] = next] /\ outcome' = outcome
    <2> DEFINE handler == Raised(s)
               here == "post:release"
               n == "post"
    <2>1. Releases(s, here, n, next, handler)
      BY DEF PostReleases
    <2>2. here # "caller" /\ n \in {"once", "post"} /\ here \notin Refusable
      BY DEF Refusable
    <2>3. Top(s, n) \/ (n = "post" /\ Nested(s))
      BY <1>3
    <2> HIDE DEF next, handler, here, n
    <2>4. (IF here \in Refusable THEN "refused" ELSE "failed") = "failed"
      BY <2>2
    <2>5. QED  BY <2>1, <2>2, <2>3, <2>4, ReleasesTop DEF handler
  <1>5. CASE Refuse(s) /\ NamesStay(s) /\ at' = [at EXCEPT ![s] = Raised(s)]
             /\ outcome' = [outcome EXCEPT ![s] = "failed"]
    BY <1>1, <1>2, <1>3, <1>4, <1>5, FailsBack DEF Raised, Calls, Outcomes
  <1>6. CASE ~(Refuse(s) /\ NamesStay(s) /\ at' = [at EXCEPT ![s] = Raised(s)]
               /\ outcome' = [outcome EXCEPT ![s] = "failed"])
    <2>1. CallVarsOK'
      BY <1>2, <1>4, <1>6 DEF CallVarsOK, Labels
    <2>2. OthersStay(s)
      BY <1>2, <1>4, <1>6 DEF OthersStay, CallVarsOK
    <2>3. at'[s] = next /\ call[s].fn \in {"once", "post"}
      BY <1>2, <1>4, <1>6 DEF CallVarsOK, Calls
    <2>4. ShapeOK(s)'
      BY <1>2, <1>4, <1>6, <2>3 DEF ShapeOK, OnlyOnce, UnderOnce, Forward, Backward, Early
    <2>5. StackOK(s)'
      <3>1. CASE call[s].fn = "once"
        <4>1. depth[s] - 1 \in 1..Depth /\ depth[s] - 1 \in 1..depth[s] - 1
          BY <1>3, <3>1, BoundAssumption DEF Nested
        <4>2. Top(s, "once")'
          BY <1>3, <1>4, <1>6, <3>1, <4>1 DEF Top, Nested
        <4> QED  BY <2>3, <3>1, <4>2 DEF StackOK, UnderOnce, UnderPost
      <3>2. CASE call[s].fn = "post"
        BY <2>3, <3>2 DEF StackOK, UnderOnce, UnderPost
      <3> QED  BY <2>3, <3>1, <3>2
    <2>6. /\ work[s].due = {} /\ work[s].qdue = {} /\ work[s].immediate \cap BalanceChecks = {}
          /\ call[s].fn = "post" => work[s].kdue = {}
      BY <1>1, <1>2 DEF PendingOK, DeferredOK, PostAsked, Forward
    <2>7. PendingOK(s)' /\ DeferredOK(s)'
      BY <1>1, <1>2, <1>4, <1>6, <2>3, <2>6
         DEF PendingOK, DeferredOK, Forward, PostAsked, OnceAsked, Quiet
    <2>8. BackOK(s)'
      BY <1>2, <1>4, <1>6, <2>3 DEF BackOK
    <2> QED  BY <2>1, <2>2, <2>4, <2>5, <2>7, <2>8 DEF CallsKept, CallOK
  <1> QED  BY <1>5, <1>6

\* Once answers, having posted or having replayed.
LEMMA OnceReleasesStep ==
    ASSUME CallsInv, NEW s \in Sessions, OnceReleases(s) \/ ReplayReleases(s)
    PROVE  CallsKept(s)
  <1>1. at[s] \in {"once:release", "replay:release"}
    BY DEF OnceReleases, ReplayReleases, Releases, Sends
  <1>2. /\ TypeOK /\ CallVarsOK /\ call[s] \in Calls /\ call[s].fn = "once" /\ Top(s, "once")
        /\ ShapeOK(s) /\ PendingOK(s) /\ BackOK(s) /\ DeferredOK(s)
    BY <1>1, InACall DEF CallOK, ShapeOK, StackOK, OnlyOnce, UnderOnce
  <1>3. /\ UNCHANGED <<call, before>>
        /\ \/ /\ Refuse(s) /\ NamesStay(s)
              /\ at' = [at EXCEPT ![s] = "caller"]
              /\ outcome' = [outcome EXCEPT ![s] = "failed"]
           \/ /\ \A o \in Sessions \ {s} :
                     saved'[o] = saved[o] /\ depth'[o] = depth[o] /\ name'[o] = name[o]
              /\ name' \in [Sessions -> [1..Depth -> {"none", "once", "post"}]]
              /\ st' = st /\ work' = work /\ st[s] = "open"
              /\ at' = [at EXCEPT ![s] = "caller"] /\ outcome' = outcome
    <2> DEFINE here == at[s]
               n == "once"
               next == "caller"
    <2>1. Releases(s, here, n, next, next)
      BY <1>1 DEF OnceReleases, ReplayReleases, Releases, Sends
    <2>2. here # "caller" /\ n \in {"once", "post"} /\ here \notin Refusable
      BY <1>1 DEF Refusable
    <2>3. Top(s, n) \/ (n = "post" /\ Nested(s))
      BY <1>2
    <2> HIDE DEF next, here, n
    <2>4. (IF here \in Refusable THEN "refused" ELSE "failed") = "failed"
      BY <2>2
    <2>5. QED  BY <2>1, <2>2, <2>3, <2>4, ReleasesTop DEF next
  <1>4. CASE Refuse(s) /\ NamesStay(s) /\ at' = [at EXCEPT ![s] = "caller"]
             /\ outcome' = [outcome EXCEPT ![s] = "failed"]
    BY <1>1, <1>3, <1>4, FailsBack DEF Outcomes
  <1>5. CASE ~(Refuse(s) /\ NamesStay(s) /\ at' = [at EXCEPT ![s] = "caller"]
               /\ outcome' = [outcome EXCEPT ![s] = "failed"])
    <2>1. CallVarsOK'
      BY <1>2, <1>3, <1>5 DEF CallVarsOK, Labels
    <2>2. OthersStay(s)
      BY <1>2, <1>3, <1>5 DEF OthersStay, CallVarsOK
    <2>3. at'[s] = "caller" /\ st'[s] = "open"
      BY <1>2, <1>3, <1>5 DEF CallVarsOK
    <2>4. ShapeOK(s)'
      BY <1>2, <1>3, <2>3 DEF ShapeOK, OnlyOnce, UnderOnce, Forward, Backward, Early
    <2>5. StackOK(s)'
      BY <2>3 DEF StackOK, UnderOnce, UnderPost
    <2>6. CASE at[s] = "once:release"
      <3>1. outcome[s] = "done" /\ Quiet(work[s])
        BY <1>2, <2>6 DEF ShapeOK, PendingOK, Forward, PostAsked, OnceAsked, Quiet
      <3>2. work[s].immediate \cap BalanceChecks = {} /\ KeyCheck \notin work[s].immediate
        BY <1>2, <2>6 DEF DeferredOK, PostAsked
      <3>3. PendingOK(s)' /\ DeferredOK(s)' /\ BackOK(s)'
        BY <1>3, <1>5, <2>3, <3>1, <3>2
           DEF PendingOK, DeferredOK, BackOK, Forward, PostAsked, OnceAsked, Quiet
      <3> QED  BY <2>1, <2>2, <2>4, <2>5, <3>3 DEF CallsKept, CallOK
    <2>7. CASE at[s] = "replay:release"
      <3>1. outcome[s] # "done" /\ work[s] = before[s] /\ Quiet(before[s])
        BY <1>2, <2>7 DEF ShapeOK, BackOK, PendingOK, Backward
      <3>2. PendingOK(s)' /\ DeferredOK(s)' /\ BackOK(s)'
        BY <1>3, <1>5, <2>3, <3>1
           DEF PendingOK, DeferredOK, BackOK, Forward, PostAsked, OnceAsked, Quiet
      <3> QED  BY <2>1, <2>2, <2>4, <2>5, <3>2 DEF CallsKept, CallOK
    <2> QED  BY <1>1, <2>6, <2>7
  <1> QED  BY <1>4, <1>5

\* ROLLBACK TO a savepoint that keeps the work the call began with.
LEMMA GoesBackStep ==
    ASSUME CallsInv, NEW s \in Sessions, NEW d, Last(s, IF at[s] = "post:rollback" THEN "post" ELSE "once") = d,
           d \in 1..depth[s], RollbackTo(s, d), UNCHANGED <<call, outcome, before>>,
           name' = [name EXCEPT ![s] = [i \in 1..Depth |-> IF i <= depth'[s] THEN @[i] ELSE "none"]],
           NEW next, at' = [at EXCEPT ![s] = next],
           \/ /\ at[s] = "post:rollback" /\ next = "explain" /\ d = depth[s]
           \/ /\ at[s] = "once:rollback" /\ next \in {"replay", "caller"}
              /\ name[s][d] = "once" /\ saved[s][d] = before[s]
    PROVE  CallsKept(s)
  <1>1. /\ TypeOK /\ CallVarsOK /\ call[s] \in Calls /\ outcome[s] # "done"
        /\ ShapeOK(s) /\ StackOK(s) /\ PendingOK(s) /\ at[s] # "caller"
    BY InACall DEF CallOK, ShapeOK, Backward
  <1>2. /\ \A o \in Sessions \ {s} :
                /\ st'[o] = st[o] /\ work'[o] = work[o]
                /\ saved'[o] = saved[o] /\ depth'[o] = depth[o]
        /\ st'[s] = "open" /\ work'[s] = saved[s][d]
        /\ depth'[s] = d /\ d \in 1..Depth
        /\ saved'[s][d] = saved[s][d]
    BY <1>1, RollbackDoes
  <1>3. depth[s] \in Nat /\ depth'[s] \in 0..depth[s]
    BY <1>1, <1>2, BoundAssumption DEF TypeOK
  <1>4. /\ name' \in [Sessions -> [1..Depth -> {"none", "once", "post"}]]
        /\ \A o \in Sessions \ {s} : name'[o] = name[o]
        /\ \A i \in 1..d : name'[s][i] = name[s][i]
    <2>1. /\ name' \in [Sessions -> [1..Depth -> {"none", "once", "post"}]]
          /\ \A o \in Sessions \ {s} : name'[o] = name[o]
          /\ \A i \in 1..depth'[s] : name'[s][i] = name[s][i]
      BY <1>1, <1>3, DropsNames
    <2> QED  BY <1>2, <2>1
  <1>5. at'[s] = next /\ next \in Labels
    BY <1>1 DEF CallVarsOK, Labels
  <1>6. CallVarsOK'
    BY <1>1, <1>4, <1>5 DEF CallVarsOK
  <1>7. OthersStay(s)
    BY <1>1, <1>2, <1>4 DEF OthersStay, CallVarsOK
  <1>8. ShapeOK(s)'
    BY <1>1, <1>2, <1>5 DEF ShapeOK, OnlyOnce, UnderOnce, Forward, Backward, Early
  <1>9. PendingOK(s)' /\ DeferredOK(s)'
    <2>1. next = "caller" => work'[s] = before[s]
      BY <1>2
    <2> QED  BY <1>1, <1>5, <2>1 DEF PendingOK, DeferredOK, Forward, PostAsked, OnceAsked
  <1>10. CASE at[s] = "post:rollback"
    <2>1. next = "explain" /\ d \in 1..d
      BY <1>2, <1>10, BoundAssumption
    <2>2. CASE call[s].fn = "once"
      <3>1. Nested(s) /\ d = depth[s]
        BY <1>1, <1>10, <2>2 DEF StackOK, UnderPost
      <3>2. d - 1 \in 1..d /\ d - 1 \in 1..Depth /\ d - 1 <= d
        BY <1>2, <3>1, BoundAssumption DEF Nested
      <3>3. saved'[s] = [i \in 1..Depth |-> IF i <= d THEN saved[s][i] ELSE NoWork]
        BY <1>1 DEF RollbackTo, TypeOK
      <3>4. saved'[s][d - 1] = saved[s][d - 1]
        BY <3>2, <3>3
      <3>5. Nested(s)'
        BY <1>2, <1>4, <2>1, <3>1, <3>2, <3>4 DEF Nested
      <3>6. StackOK(s)' /\ BackOK(s)'
        BY <1>5, <2>1, <2>2, <3>5 DEF StackOK, BackOK, UnderOnce, UnderPost
      <3> QED  BY <1>6, <1>7, <1>8, <1>9, <3>6 DEF CallsKept, CallOK
    <2>3. CASE call[s].fn = "post"
      <3>1. Top(s, "post") /\ d = depth[s]
        BY <1>1, <1>10, <2>3 DEF StackOK, UnderPost
      <3>2. Top(s, "post")' /\ work'[s] = before[s]
        BY <1>2, <1>4, <2>1, <3>1 DEF Top
      <3>3. StackOK(s)' /\ BackOK(s)'
        BY <1>5, <2>1, <2>3, <3>2 DEF StackOK, BackOK, UnderOnce, UnderPost
      <3> QED  BY <1>6, <1>7, <1>8, <1>9, <3>3 DEF CallsKept, CallOK
    <2> QED  BY <1>1, <2>2, <2>3 DEF Calls
  <1>11. CASE at[s] = "once:rollback"
    <2>1. d \in 1..d /\ work'[s] = before[s] /\ next \in {"replay", "caller"}
      BY <1>2, <1>11, BoundAssumption
    <2>2. Top(s, "once")'
      BY <1>2, <1>4, <1>11, <2>1 DEF Top
    <2>3. StackOK(s)' /\ BackOK(s)'
      BY <1>2, <1>5, <2>1, <2>2 DEF StackOK, BackOK, UnderOnce, UnderPost
    <2> QED  BY <1>6, <1>7, <1>8, <1>9, <2>3 DEF CallsKept, CallOK
  <1> QED  BY <1>10, <1>11

LEMMA PostRollsBackStep ==
    ASSUME CallsInv, NEW s \in Sessions, PostRollsBack(s)
    PROVE  CallsKept(s)
  <1>1. at[s] = "post:rollback"
    BY DEF PostRollsBack, GoesBackTo
  <1>2. /\ TypeOK /\ call[s] \in Calls
        /\ IF call[s].fn = "once" THEN Nested(s) ELSE Top(s, "post")
    BY <1>1, InACall DEF CallOK, StackOK, UnderPost
  <1>3. depth[s] \in 1..Depth /\ name[s][depth[s]] = "post"
    BY <1>2, BoundAssumption DEF Top, Nested
  <1>4. Last(s, "post") = depth[s]
    BY <1>3, LastIsTop
  <1>5. RollbackTo(s, depth[s]) /\ depth[s] \in 1..depth[s]
    BY <1>4 DEF PostRollsBack, GoesBackTo, RollbackTo
  <1> QED
    BY <1>1, <1>4, <1>5, GoesBackStep DEF PostRollsBack, GoesBackTo

\* rollbackToOnce finds Once's savepoint, whether or not Post's is still open in it.
LEMMA OnceRollsBackStep ==
    ASSUME CallsInv, NEW s \in Sessions, OnceRollsBack(s)
    PROVE  CallsKept(s)
  <1> DEFINE d == Last(s, "once")
             next == IF outcome[s] = "taken" THEN "replay" ELSE "caller"
  <1>1. at[s] = "once:rollback" /\ RollbackTo(s, d)
    BY DEF OnceRollsBack, GoesBackTo
  <1>2. Top(s, "once") \/ Nested(s)
    BY <1>1, InACall DEF CallOK, StackOK
  <1>3. d \in 1..depth[s] /\ name[s][d] = "once" /\ saved[s][d] = before[s]
    <2>1. CASE Top(s, "once")
      BY <1>1, <2>1, LastIsTop DEF Top, RollbackTo
    <2>2. CASE Nested(s)
      BY <1>1, <2>2, LastIsOutside DEF Nested, RollbackTo
    <2> QED  BY <1>2, <2>1, <2>2
  <1>4. /\ UNCHANGED <<call, outcome, before>>
        /\ name' = [name EXCEPT ![s] = [i \in 1..Depth |-> IF i <= depth'[s] THEN @[i] ELSE "none"]]
        /\ at' = [at EXCEPT ![s] = next] /\ next \in {"replay", "caller"}
    BY DEF OnceRollsBack, GoesBackTo
  <1>5. Last(s, IF at[s] = "post:rollback" THEN "post" ELSE "once") = d
    BY <1>1
  <1> HIDE DEF d, next
  <1> QED  BY <1>1, <1>3, <1>4, <1>5, GoesBackStep

-----------------------------------------------------------------------------
(* A key that is taken, and the answer it has.                             *)

LEMMA MeetsTheKeyStep ==
    ASSUME CallsInv, NEW s \in Sessions, MeetsTheKey(s)
    PROVE  CallsKept(s)
  <1>1. /\ at[s] = "reserve" /\ Refuse(s) /\ UNCHANGED <<call, before, name>>
        /\ at' = [at EXCEPT ![s] = "once:rollback"]
        /\ outcome' = [outcome EXCEPT ![s] = "taken"]
    BY DEF MeetsTheKey
  <1>2. CallVarsOK /\ call[s].fn = "once" /\ Top(s, "once")
    BY <1>1, InACall DEF CallOK, ShapeOK, StackOK, OnlyOnce, UnderOnce
  <1>3. NamesStay(s)
    BY <1>1, <1>2 DEF NamesStay, CallVarsOK
  <1> QED  BY <1>1, <1>2, <1>3, FailsBack DEF Outcomes

\* A replay reads, and keeps the work the rollback restored.
LEMMA ReplaysStep ==
    ASSUME CallsInv, NEW s \in Sessions, Replays(s)
    PROVE  CallsKept(s)
  <1> DEFINE row == KeyRow(Seen(s), work[s], call[s].key)
             found == Found(row, call[s].hash)
  <1>1. at[s] = "replay" /\ UNCHANGED <<name, before>>
    BY DEF Replays
  <1>2. /\ TypeOK /\ CallVarsOK /\ call[s] \in Calls /\ call[s].fn = "once" /\ Top(s, "once")
        /\ ShapeOK(s) /\ BackOK(s) /\ PendingOK(s) /\ work[s] = before[s]
    BY <1>1, InACall DEF CallOK, ShapeOK, StackOK, BackOK, OnlyOnce, UnderOnce
  <1>3. CASE StatementRefused(s) /\ at' = [at EXCEPT ![s] = "caller"]
             /\ outcome' = [outcome EXCEPT ![s] = "failed"] /\ UNCHANGED call
    <2>1. NamesStay(s)
      BY <1>1, <1>2 DEF NamesStay, CallVarsOK
    <2> QED  BY <1>1, <1>3, <2>1, FailsBack DEF StatementRefused, Outcomes
  <1>4. CASE /\ st[s] = "open" /\ UNCHANGED vars
             /\ at' = [at EXCEPT ![s] = "replay:release"]
             /\ outcome' = [outcome EXCEPT ![s] = found]
             /\ call' = IF found = "replayed" THEN [call EXCEPT ![s].txn = row.txn] ELSE call
    <2>1. found \in {"gone", "reused", "unsettled", "replayed"}
      BY DEF Found
    <2>2. found = "replayed" => row.txn \in Txns \cup {NoTxn}
      <3>1. found = "replayed" => row # NoKey
        BY DEF Found
      <3>2. row \in KeyRows \cup {NoKey}
        BY <1>2, SeenOK DEF KeyRow, Tables, Work, TypeOK, CallsInv, Calls
      <3> QED  BY <3>1, <3>2 DEF KeyRows
    <2>3. call' = [call EXCEPT ![s] = IF found = "replayed" THEN [@ EXCEPT !.txn = row.txn] ELSE @]
      BY <1>2, <1>4 DEF CallVarsOK
    <2> HIDE DEF found, row
    <2>4. call'[s] \in Calls /\ call'[s].fn = "once"
      BY <1>2, <2>2, <2>3 DEF CallVarsOK, Calls
    <2>5. CallVarsOK'
      BY <1>1, <1>2, <1>4, <2>1, <2>3, <2>4 DEF CallVarsOK, Labels, Outcomes
    <2>6. OthersStay(s)
      BY <1>1, <1>2, <1>4, <2>3 DEF OthersStay, CallVarsOK, vars
    <2>7. at'[s] = "replay:release" /\ outcome'[s] = found /\ outcome'[s] # "done"
      BY <1>2, <1>4, <2>1 DEF CallVarsOK
    <2>8. ShapeOK(s)'
      BY <1>4, <2>4, <2>7 DEF ShapeOK, OnlyOnce, UnderOnce, Forward, Backward, Early, vars
    <2>9. Top(s, "once")'
      BY <1>1, <1>2, <1>4 DEF Top, vars
    <2>10. StackOK(s)' /\ BackOK(s)'
      BY <1>1, <1>2, <1>4, <2>7, <2>9 DEF StackOK, BackOK, UnderOnce, UnderPost, vars
    <2>11. PendingOK(s)' /\ DeferredOK(s)'
      BY <1>1, <1>2, <2>7 DEF PendingOK, DeferredOK, Forward, PostAsked, OnceAsked
    <2> QED  BY <2>5, <2>6, <2>8, <2>10, <2>11 DEF CallsKept, CallOK
  <1> QED  BY <1>3, <1>4 DEF Replays

\* explain reads; cut short, it leaves the transaction aborted.
LEMMA ExplainsStep ==
    ASSUME CallsInv, NEW s \in Sessions, Explains(s)
    PROVE  CallsKept(s)
  <1>1. at[s] = "explain" /\ UNCHANGED <<call, name, outcome, before>>
        /\ at' = [at EXCEPT ![s] = Raised(s)]
    BY DEF Explains
  <1>2. /\ TypeOK /\ CallVarsOK /\ call[s] \in Calls /\ outcome[s] \in Outcomes \ {"done"}
        /\ ShapeOK(s) /\ BackOK(s) /\ PendingOK(s)
        /\ call[s].fn = "once" => Nested(s)
        /\ call[s].fn = "post" => work[s] = before[s]
    BY <1>1, InACall DEF CallOK, ShapeOK, StackOK, BackOK, UnderPost, Backward, CallVarsOK
  <1>3. NamesStay(s)
    BY <1>1, <1>2 DEF NamesStay, CallVarsOK
  <1>4. Raised(s) \in {"caller", "once:rollback"} /\ (Raised(s) = "once:rollback" <=> call[s].fn = "once")
    BY DEF Raised
  <1>5. call[s].fn \in {"once", "post"}
    BY <1>2 DEF Calls
  <1>6. CASE StatementRefused(s)
    <2>1. outcome' = [outcome EXCEPT ![s] = outcome[s]]
      BY <1>1, <1>2 DEF CallVarsOK
    <2> HIDE DEF Raised
    <2> QED  BY <1>1, <1>2, <1>3, <1>4, <1>5, <1>6, <2>1, FailsBack DEF StatementRefused
  <1>7. CASE UNCHANGED vars
    <2>1. CallVarsOK'
      BY <1>1, <1>2, <1>4 DEF CallVarsOK, Labels
    <2>2. OthersStay(s)
      BY <1>1, <1>2, <1>7 DEF OthersStay, CallVarsOK, vars
    <2>3. at'[s] = Raised(s)
      BY <1>1, <1>2 DEF CallVarsOK
    <2>4. st[s] # "idle"
      BY <1>1, <1>2 DEF ShapeOK
    <2>5. ShapeOK(s)'
      BY <1>1, <1>2, <1>4, <1>7, <2>3, <2>4
         DEF ShapeOK, OnlyOnce, UnderOnce, Forward, Backward, Early, vars
    <2>6. Nested(s) => Nested(s)'
      BY <1>1, <1>7 DEF Nested, vars
    <2>7. StackOK(s)'
      BY <1>1, <1>2, <1>4, <2>3, <2>6 DEF StackOK, UnderOnce, UnderPost
    <2>8. PendingOK(s)' /\ DeferredOK(s)'
      BY <1>1, <1>2, <1>4, <1>5, <1>7, <2>3
         DEF PendingOK, DeferredOK, Forward, PostAsked, OnceAsked, vars
    <2>9. BackOK(s)'
      BY <1>1, <1>2, <1>4, <1>5, <1>7, <2>3 DEF BackOK, vars
    <2> QED  BY <2>1, <2>2, <2>5, <2>7, <2>8, <2>9 DEF CallsKept, CallOK
  <1> QED  BY <1>6, <1>7 DEF Explains

-----------------------------------------------------------------------------
(* The caller.                                                             *)

\* Between calls a session has nothing but what is pending and whether it is open.
LEMMA AtTheCaller ==
    ASSUME NEW s \in Sessions, at'[s] = "caller", st'[s] # "idle", outcome'[s] = "done",
           call'[s] = NoCall, st'[s] = "open" => Quiet(work'[s])
    PROVE  CallOK(s)'
  <1>1. ShapeOK(s)' /\ StackOK(s)' /\ PendingOK(s)'
    BY DEF ShapeOK, StackOK, PendingOK, OnlyOnce, UnderOnce, UnderPost, Forward, Backward, Early,
           PostAsked, OnceAsked
  <1>2. BackOK(s)' /\ DeferredOK(s)'
    BY DEF BackOK, DeferredOK, PostAsked, NoCall
  <1> QED  BY <1>1, <1>2 DEF CallOK

LEMMA CallerBeginsStep ==
    ASSUME CallsInv, NEW s \in Sessions, CallerBegins(s)
    PROVE  CallsKept(s)
  <1>1. /\ TypeOK /\ CallVarsOK /\ at[s] = "caller" /\ st[s] = "idle"
        /\ call[s] = NoCall /\ outcome[s] = "done" /\ work[s] = NoWork
    BY DEF CallsInv, IInv, CallOK, ShapeOK, CallerBegins, Begin
  <1>2. UNCHANGED callVars /\ st'[s] = "open" /\ work' = work
    BY <1>1 DEF CallerBegins, Begin, TypeOK
  <1>3. CallVarsOK'
    BY <1>1, <1>2 DEF CallVarsOK, callVars
  <1>4. OthersStay(s)
    BY <1>1, <1>2 DEF OthersStay, callVars, CallerBegins, Begin, TypeOK
  <1>5. Quiet(work'[s])
    BY <1>1, <1>2 DEF Quiet, NoWork
  <1> QED  BY <1>1, <1>2, <1>3, <1>4, <1>5, AtTheCaller DEF CallsKept, callVars

LEMMA CallerAsksStep ==
    ASSUME CallsInv, NEW s \in Sessions, CallerAsks(s)
    PROVE  CallsKept(s)
  <1> DEFINE imm == work[s].immediate \cup Constraints
             w == [work[s] EXCEPT !.immediate = imm]
  <1>1. /\ TypeOK /\ CallVarsOK /\ at[s] = "caller" /\ st[s] = "open" /\ work[s] \in Work
        /\ call[s] = NoCall /\ outcome[s] = "done" /\ Quiet(work[s])
    <2>1. NoCall \notin Calls
      BY DEF NoCall, Calls
    <2> QED
      BY <2>1 DEF CallsInv, IInv, TypeOK, CallOK, ShapeOK, PendingOK, CallerAsks, SetImmediate
  <1>2. EndStatement(s, w) /\ UNCHANGED callVars
    BY DEF CallerAsks, SetImmediate
  <1>3. /\ saved' = saved /\ depth' = depth
        /\ \A o \in Sessions \ {s} : st'[o] = st[o] /\ work'[o] = work[o]
        /\ \/ st'[s] = "aborted"
           \/ st'[s] = "open" /\ work'[s] = Fired(w, w.immediate)
    BY <1>1, <1>2, StatementEnds
  <1>4. imm \in SUBSET Constraints
    BY <1>1 DEF Work
  <1>5. Quiet(Fired(w, w.immediate))
    BY <1>1, <1>4, ModesSet DEF Quiet
  <1> HIDE DEF w
  <1>6. CallVarsOK' /\ OthersStay(s)
    BY <1>1, <1>2, <1>3 DEF CallVarsOK, OthersStay, callVars
  <1>7. CallOK(s)'
    BY <1>1, <1>2, <1>3, <1>5, AtTheCaller DEF callVars
  <1> QED  BY <1>6, <1>7 DEF CallsKept

\* The transaction ends, between calls or in the middle of one.
LEMMA EndsStep ==
    ASSUME CallsInv, NEW s \in Sessions, CallerEnds(s) \/ ConnectionLost(s)
    PROVE  CallsKept(s)
  <1>1. TypeOK /\ CallVarsOK
    BY DEF CallsInv, IInv
  <1>2. EndTransaction(s)
    BY DEF CallerEnds, ConnectionLost, Commit, Rollback
  <1>3. /\ st'[s] = "idle" /\ work'[s] = NoWork
        /\ \A o \in Sessions \ {s} :
              st'[o] = st[o] /\ work'[o] = work[o] /\ saved'[o] = saved[o] /\ depth'[o] = depth[o]
    BY <1>1, <1>2 DEF EndTransaction, TypeOK
  <1>4. at' = [at EXCEPT ![s] = "caller"]
    BY <1>1 DEF CallerEnds, ConnectionLost, CallVarsOK
  <1>5. name' = [name EXCEPT ![s] = NoNames] /\ Forgets(s)
    BY DEF CallerEnds, ConnectionLost
  <1>6. NoNames \in [1..Depth -> {"none", "once", "post"}]
    BY DEF NoNames
  <1>7. CallVarsOK'
    BY <1>1, <1>4, <1>5, <1>6, NoWorkType DEF CallVarsOK, Forgets, Labels, Outcomes
  <1>8. OthersStay(s)
    BY <1>1, <1>3, <1>4, <1>5 DEF OthersStay, CallVarsOK, Forgets
  <1>9. at'[s] = "caller" /\ call'[s] = NoCall /\ outcome'[s] = "done"
    BY <1>1, <1>4, <1>5 DEF CallVarsOK, Forgets
  <1>10. ShapeOK(s)' /\ StackOK(s)' /\ PendingOK(s)'
    BY <1>3, <1>9
       DEF ShapeOK, StackOK, PendingOK, OnlyOnce, UnderOnce, UnderPost, Forward, Backward, Early,
           PostAsked, OnceAsked
  <1>11. BackOK(s)' /\ DeferredOK(s)'
    BY <1>3, <1>9 DEF BackOK, DeferredOK, PostAsked
  <1> QED  BY <1>7, <1>8, <1>10, <1>11 DEF CallsKept, CallOK

\* A call begins with the work the caller has.
LEMMA EntersStep ==
    ASSUME CallsInv, NEW s \in Sessions, NEW f \in {"once", "post"}, NEW k \in Keys,
           NEW h \in Hashes, Enters(s, f, k, h)
    PROVE  CallsKept(s)
  <1> DEFINE c == [fn |-> f, key |-> k, hash |-> h, txn |-> NoTxn, sent |-> 0]
             next == IF f = "once" THEN "once:savepoint" ELSE "post:savepoint"
  <1>1. /\ TypeOK /\ CallVarsOK /\ at[s] = "caller" /\ st[s] = "open" /\ work[s] \in Work
        /\ Quiet(work[s]) /\ UNCHANGED <<vars, name>>
    BY DEF CallsInv, IInv, TypeOK, CallOK, PendingOK, Enters
  <1>2. c \in Calls /\ c.fn = f /\ c.sent = 0 /\ c.txn = NoTxn
    <2>1. 0 \in 0..MaxLegs
      BY BoundAssumption
    <2> QED  BY <2>1 DEF Calls
  <1>3. /\ at' = [at EXCEPT ![s] = next] /\ call' = [call EXCEPT ![s] = c]
        /\ outcome' = [outcome EXCEPT ![s] = "done"] /\ before' = [before EXCEPT ![s] = work[s]]
    BY DEF Enters
  <1> HIDE DEF c
  <1>4. CallVarsOK'
    BY <1>1, <1>2, <1>3 DEF CallVarsOK, Labels, Outcomes
  <1>5. OthersStay(s)
    BY <1>1, <1>3 DEF OthersStay, CallVarsOK, vars
  <1>6. /\ at'[s] = next /\ call'[s] = c /\ outcome'[s] = "done" /\ before'[s] = work[s]
        /\ st'[s] = "open" /\ work'[s] = work[s]
    BY <1>1, <1>3 DEF CallVarsOK, vars
  <1>7. ShapeOK(s)'
    BY <1>2, <1>6 DEF ShapeOK, OnlyOnce, UnderOnce, Forward, Backward, Early
  <1>8. StackOK(s)' /\ BackOK(s)'
    BY <1>2, <1>6 DEF StackOK, BackOK, UnderOnce, UnderPost
  <1>9. PendingOK(s)' /\ DeferredOK(s)'
    BY <1>1, <1>2, <1>6 DEF PendingOK, DeferredOK, Forward, PostAsked, OnceAsked, Quiet
  <1> QED  BY <1>4, <1>5, <1>7, <1>8, <1>9 DEF CallsKept, CallOK

-----------------------------------------------------------------------------
(* The calls implement the schema's specification.                         *)

\* Each statement of Post is one of the schema's, or changes nothing of it.
LEMMA PostIsNext ==
    ASSUME CallsInv, NEW s \in Sessions, PostStep(s)
    PROVE  [Next]_vars
  <1>1. TypeOK /\ BalanceChecks \in Asks
    BY CallsAssumption DEF CallsInv, IInv, BalanceChecks
  <1>2. StatementRefused(s) \/ Savepoint(s) => Next
    BY DEF Next
  <1>3. CASE PostSaves(s)
    BY <1>2, <1>3 DEF PostSaves, Saves, Sends
  <1>4. ASSUME SetDeferred(s, BalanceChecks) \/ SetImmediate(s, BalanceChecks)
        PROVE  Next
    BY <1>1, <1>4 DEF Next
  <1>5. CASE PostDefers(s) \/ AsksNow(s) \/ PostRedefers(s)
    BY <1>2, <1>4, <1>5 DEF PostDefers, AsksNow, PostRedefers, Goes, Sends
  <1>6. CASE InsertsEntry(s)
    <2>1. ASSUME NEW t \in Txns, InsertTransaction(s, t)
          PROVE  Next
      BY <2>1 DEF Next
    <2> QED  BY <1>2, <1>6, <2>1 DEF InsertsEntry, Sends
  <1>7. CASE InsertsLeg(s)
    <2> DEFINE h == call[s].hash
               b == LegsOf[h][call[s].sent + 1]
    <2>1. /\ call[s] \in Calls /\ call[s].txn \in Txns /\ call[s].sent < Len(LegsOf[h])
          /\ call[s].sent \in 0..MaxLegs /\ h \in Hashes
      BY <1>7, InACall DEF InsertsLeg, CallOK, ShapeOK, Calls
    <2>2. LegsOf[h] \in Seq({x \in Batches : x[1] = 1})
      BY <2>1, CallsAssumption
    <2>3. call[s].sent + 1 \in 1..Len(LegsOf[h])
      BY <2>1, <2>2, BoundAssumption
    <2>4. b \in {x \in Batches : x[1] = 1}
      BY <2>2, <2>3
    <2>5. InsertPostings(s, call[s].txn, b) \/ StatementRefused(s)
      BY <1>7 DEF InsertsLeg, Sends
    <2> HIDE DEF b
    <2> QED  BY <1>2, <2>1, <2>4, <2>5 DEF Next
  <1>8. ASSUME NEW d, d \in 1..depth[s], Release(s, d) \/ RollbackTo(s, d)
        PROVE  Next
    <2>1. d \in 1..Depth
      BY <1>1, <1>8, BoundAssumption DEF TypeOK
    <2> QED  BY <1>8, <2>1 DEF Next
  <1>9. CASE PostReleases(s)
    BY <1>2, <1>8, <1>9 DEF PostReleases, Releases, Sends, Release
  <1>10. CASE PostRollsBack(s)
    BY <1>8, <1>10 DEF PostRollsBack, GoesBackTo, RollbackTo
  <1>11. CASE Explains(s)
    BY <1>2, <1>11 DEF Explains
  <1> QED  BY <1>3, <1>5, <1>6, <1>7, <1>9, <1>10, <1>11 DEF PostStep

\* So is each of Once's.
LEMMA OnceIsNext ==
    ASSUME CallsInv, NEW s \in Sessions, OnceStep(s)
    PROVE  [Next]_vars
  <1>1. TypeOK /\ {KeyCheck} \in Asks
    BY CallsAssumption DEF CallsInv, IInv
  <1>2. StatementRefused(s) \/ Savepoint(s) => Next
    BY DEF Next
  <1>3. ASSUME SetDeferred(s, {KeyCheck}) \/ SetImmediate(s, {KeyCheck})
        PROVE  Next
    BY <1>1, <1>3 DEF Next
  <1>4. ASSUME NEW d, d \in 1..depth[s], Release(s, d) \/ RollbackTo(s, d)
        PROVE  Next
    <2>1. d \in 1..Depth
      BY <1>1, <1>4, BoundAssumption DEF TypeOK
    <2> QED  BY <1>4, <2>1 DEF Next
  <1>5. at[s] # "caller" => call[s].key \in Keys /\ call[s].hash \in Hashes /\ call[s].txn \in Txns \cup {NoTxn}
    BY InACall DEF Calls
  <1>6. CASE OnceSaves(s)
    BY <1>2, <1>6 DEF OnceSaves, Saves, Sends
  <1>7. CASE OnceDefers(s) \/ OnceAsks(s) \/ OnceRedefers(s)
    BY <1>2, <1>3, <1>7 DEF OnceDefers, OnceAsks, OnceRedefers, Goes, Sends
  <1>8. CASE Reserves(s)
    <2>1. ASSUME NEW k \in Keys, NEW h \in Hashes, ReserveKey(s, k, h)
          PROVE  Next
      BY <2>1 DEF Next
    <2> QED  BY <1>2, <1>5, <1>8, <2>1 DEF Reserves, Goes, Sends
  <1>9. CASE MeetsTheKey(s)
    BY <1>2, <1>9 DEF MeetsTheKey, StatementRefused
  <1>10. CASE Settles(s)
    <2>1. ASSUME NEW k \in Keys, NEW h \in Hashes, NEW t \in Txns \cup {NoTxn}, UpdateKey(s, k, h, t)
          PROVE  Next
      BY <2>1 DEF Next
    <2> QED  BY <1>2, <1>5, <1>10, <2>1 DEF Settles, Goes, Sends
  <1>11. CASE OnceReleases(s) \/ ReplayReleases(s)
    BY <1>2, <1>4, <1>11 DEF OnceReleases, ReplayReleases, Releases, Sends, Release
  <1>12. CASE OnceRollsBack(s)
    BY <1>4, <1>12 DEF OnceRollsBack, GoesBackTo, RollbackTo
  <1>13. CASE Replays(s)
    BY <1>2, <1>13 DEF Replays
  <1> QED
    BY <1>6, <1>7, <1>8, <1>9, <1>10, <1>11, <1>12, <1>13 DEF OnceStep

LEMMA CallerIsNext ==
    ASSUME NEW s \in Sessions, CallerStep(s)
    PROVE  [Next]_vars
  <1>1. CASE CallerBegins(s)
    BY <1>1 DEF CallerBegins, Next, Levels
  <1>2. CASE CallerAsks(s)
    BY <1>2, CallsAssumption DEF CallerAsks, Next
  <1>3. CASE CallerEnds(s) \/ ConnectionLost(s)
    BY <1>3 DEF CallerEnds, ConnectionLost, Next
  <1>4. ASSUME NEW f \in {"once", "post"}, NEW k \in Keys, NEW h \in Hashes, Enters(s, f, k, h)
        PROVE  UNCHANGED vars
    BY <1>4 DEF Enters
  <1> QED  BY <1>1, <1>2, <1>3, <1>4 DEF CallerStep

-----------------------------------------------------------------------------
(* The theorems.                                                           *)

LEMMA InitCallsInv == CallsInit => CallsInv
  <1> SUFFICES ASSUME CallsInit PROVE CallsInv
    OBVIOUS
  <1>1. IInv
    BY InitIInv DEF CallsInit
  <1>2. NoNames \in [1..Depth -> {"none", "once", "post"}]
    BY DEF NoNames
  <1>3. CallVarsOK
    BY <1>2, NoWorkType DEF CallsInit, CallVarsOK, Labels, Outcomes
  <1>4. ASSUME NEW s \in Sessions
        PROVE  CallOK(s)
    <2>1. /\ at[s] = "caller" /\ call[s] = NoCall /\ outcome[s] = "done"
          /\ st[s] = "idle" /\ work[s] = NoWork
      BY DEF CallsInit, Init
    <2>2. ShapeOK(s) /\ StackOK(s) /\ PendingOK(s)
      BY <2>1 DEF ShapeOK, StackOK, PendingOK, OnlyOnce, UnderOnce, UnderPost, Forward, Backward,
                  Early, PostAsked, OnceAsked
    <2>3. BackOK(s) /\ DeferredOK(s)
      BY <2>1 DEF BackOK, DeferredOK, PostAsked
    <2> QED  BY <2>2, <2>3 DEF CallOK
  <1> QED  BY <1>1, <1>3, <1>4 DEF CallsInv

\* A step of a call keeps what its session rests on, and leaves the others alone.
LEMMA StepKept ==
    ASSUME CallsInv, NEW s \in Sessions, PostStep(s) \/ OnceStep(s) \/ CallerStep(s)
    PROVE  CallsKept(s)
  <1>1. CASE PostStep(s)
    BY <1>1, PostSavesStep, PostDefersStep, InsertsEntryStep, InsertsLegStep, AsksNowStep,
       PostRedefersStep, PostReleasesStep, PostRollsBackStep, ExplainsStep DEF PostStep
  <1>2. CASE OnceStep(s)
    BY <1>2, OnceSavesStep, OnceDefersStep, ReservesStep, MeetsTheKeyStep, SettlesStep,
       OnceAsksStep, OnceRedefersStep, OnceReleasesStep, OnceRollsBackStep, ReplaysStep
       DEF OnceStep
  <1>3. CASE CallerStep(s)
    BY <1>3, CallerBeginsStep, CallerAsksStep, EndsStep, EntersStep DEF CallerStep
  <1> QED  BY <1>1, <1>2, <1>3

\* Every step of a call keeps what the calls rest on, and is a step the schema allows.
LEMMA NextCallsInv ==
    ASSUME CallsInv, [CallsNext]_allVars
    PROVE  CallsInv' /\ [Next]_vars
  <1>1. CASE UNCHANGED allVars
    <2>1. UNCHANGED vars /\ UNCHANGED callVars
      BY <1>1 DEF allVars
    <2>2. IInv'
      BY <2>1, NextIInv DEF CallsInv
    <2>3. CallVarsOK'
      BY <2>1 DEF CallsInv, CallVarsOK, callVars
    <2>4. \A s \in Sessions : CallOK(s)'
      BY <2>1, StaysOK DEF CallsInv, callVars, vars
    <2> QED  BY <2>1, <2>2, <2>3, <2>4 DEF CallsInv
  <1>2. ASSUME NEW s \in Sessions, PostStep(s) \/ OnceStep(s) \/ CallerStep(s)
        PROVE  CallsInv' /\ [Next]_vars
    <2>1. CallsKept(s)
      BY <1>2, StepKept
    <2>2. [Next]_vars
      BY <1>2, PostIsNext, OnceIsNext, CallerIsNext
    <2>3. IInv'
      BY <2>2, NextIInv DEF CallsInv
    <2>4. ASSUME NEW o \in Sessions \ {s}
          PROVE  CallOK(o)'
      BY <2>1, StaysOK DEF CallsInv, CallsKept, OthersStay
    <2> QED  BY <2>1, <2>2, <2>3, <2>4 DEF CallsInv, CallsKept
  <1> QED  BY <1>1, <1>2 DEF CallsNext

LEMMA CallsInvariance == CallsSpec => []CallsInv
  BY InitCallsInv, NextCallsInv, PTL DEF CallsSpec

\* Once and Post do nothing to the tables that the schema's own theorems do not cover:
\* whatever they send, and wherever it fails, is a behaviour of LedgerSchema.
THEOREM CallsImplementTheSchema == CallsSpec => CallsKeepTheSchema
  <1>1. CallsInit => Init
    BY DEF CallsInit
  <1> QED  BY <1>1, NextCallsInv, CallsInvariance, PTL DEF CallsSpec, CallsKeepTheSchema, Spec

\* So the books the calls keep balance.
THEOREM CallsKeepTheBooks == CallsSpec => []BookBalances
  BY CallsImplementTheSchema, BookAlwaysBalances DEF CallsKeepTheSchema

\* And what they answer under a key is the answer for good.
THEOREM CallsKeepTheKeys == CallsSpec => KeyRecordsAreFinal /\ []KeysNameTransactions
  BY CallsImplementTheSchema, KeyRecordsStayFinal, KeysAlwaysNameTransactions DEF CallsKeepTheSchema

\* Type correctness of the calls.
THEOREM CallsTypeCorrect == CallsSpec => []CallsTypeOK
  <1>1. CallsInv => CallsTypeOK
    BY DEF CallsInv, IInv, CallVarsOK, CallsTypeOK
  <1> QED  BY <1>1, CallsInvariance, PTL

\* Post's and Once's rollbacks: rows, pending checks and modes are the caller's own again.
THEOREM RefusedCallsNeverLeaveATrace == CallsSpec => []RefusedCallsLeaveNoTrace
  <1>1. CallsInv => RefusedCallsLeaveNoTrace
    BY DEF CallsInv, CallOK, BackOK, RefusedCallsLeaveNoTrace, Returned
  <1> QED  BY <1>1, CallsInvariance, PTL

\* "The caller's transaction is left usable either way."
THEOREM RefusedOnceIsUsable == CallsSpec => []RefusedOnceLeavesTheTransactionUsable
  <1>1. CallsInv => RefusedOnceLeavesTheTransactionUsable
    BY DEF CallsInv, CallOK, BackOK, RefusedOnceLeavesTheTransactionUsable
  <1> QED  BY <1>1, CallsInvariance, PTL

\* Between calls no check is pending, so COMMIT has nothing to refuse.
THEOREM NothingIsLeftForCommit == CallsSpec => []NothingLeftForCommit
  <1>1. CallsInv => NothingLeftForCommit
    BY DEF CallsInv, CallOK, PendingOK, Quiet, Passes, NothingLeftForCommit, Returned
  <1> QED  BY <1>1, CallsInvariance, PTL

\* SET CONSTRAINTS ... DEFERRED before the release: the modes of a call that succeeds.
THEOREM ChecksAreAlwaysHandedBack == CallsSpec => []ChecksAreHandedBackDeferred
  <1>1. CallsInv => ChecksAreHandedBackDeferred
    BY DEF CallsInv, CallOK, DeferredOK, ChecksAreHandedBackDeferred, Returned
  <1> QED  BY <1>1, CallsInvariance, PTL

-----------------------------------------------------------------------------
(* What a call answers stands.                                             *)
(*                                                                         *)
(* CallsInv says nothing of which legs are whose.  WholeInv does: legs are *)
(* only ever added to an entry of one's own, and whatever a key names, in  *)
(* the tables, in a session's work or at a savepoint, has as many legs as  *)
(* the request under the key.                                              *)

\* No legs but those of its own entries.
OwnLegs(w) == \A t \in Txns : w.legs[t] # 0 => t \in w.txns

\* A settled key names a whole entry.
RowWhole(tables, w, row) ==
    row # NoKey /\ row.txn # NoTxn =>
        tables.legs[row.txn] + w.legs[row.txn] = Len(LegsOf[row.hash])

WholeWork(tables, w) == OwnLegs(w) /\ \A k \in Keys : RowWhole(tables, w, w.keys[k])

WholeTables(tables) ==
    \A k \in Keys : tables.keys[k] # NoKey =>
        tables.legs[tables.keys[k].txn] = Len(LegsOf[tables.keys[k].hash])

\* What call c has answered is there, whole, and under the key claimed.
Stands(tables, w, c) ==
    /\ c.txn \in tables.txns \cup w.txns
    /\ tables.legs[c.txn] + w.legs[c.txn] = Len(LegsOf[c.hash])
    /\ c.fn = "once" => KeyRow(tables, w, c.key) = [hash |-> c.hash, txn |-> c.txn]

\* Every leg is in; the key is settled.
Posted == {"ask", "post:redefer", "post:release", "settle", "once:ask", "once:redefer", "once:release"}
Claimed == {"once:ask", "once:redefer", "once:release"}

\* How much of the call's entry is in at each of its statements.
PointOK(s) ==
    /\ at[s] \in Posted \cup {"legs"} =>
        call[s].txn \in work[s].txns /\ work[s].legs[call[s].txn] = call[s].sent
    /\ at[s] = "legs" =>
        \A k \in Keys : work[s].keys[k] # NoKey => work[s].keys[k].txn # call[s].txn
    /\ at[s] \in Posted => call[s].sent = Len(LegsOf[call[s].hash])
    /\ at[s] \in Claimed => work[s].keys[call[s].key] = [hash |-> call[s].hash, txn |-> call[s].txn]
    /\ at[s] \in {"once:rollback", "post:rollback", "explain", "replay"} => outcome[s] # "replayed"
    /\ at[s] = "replay:release" /\ outcome[s] = "replayed" => Stands(db, work[s], call[s])
    /\ Returned(s) /\ call[s].txn # NoTxn /\ outcome[s] \in {"done", "replayed"} =>
        Stands(db, work[s], call[s])

SessionWhole(s) ==
    /\ level[s] = "read committed"
    /\ WholeWork(db, work[s])
    /\ \A d \in 1..depth[s] : WholeWork(db, saved[s][d])
    /\ PointOK(s)

WholeInv == WholeTables(db) /\ \A s \in Sessions : SessionWhole(s)

\* Only the entries, the legs and the keys matter.
SameRows(w, v) == w.txns = v.txns /\ w.legs = v.legs /\ w.keys = v.keys

LEMMA SameRowsWhole ==
    ASSUME NEW tables, NEW w, NEW v, SameRows(w, v)
    PROVE  /\ WholeWork(tables, v) => WholeWork(tables, w)
           /\ \A c : Stands(tables, v, c) => Stands(tables, w, c)
  BY DEF SameRows, WholeWork, OwnLegs, RowWhole, Stands, KeyRow

LEMMA FiredSameRows ==
    ASSUME NEW w \in Work, NEW C
    PROVE  SameRows(Fired(w, C), w)
  BY FiredFields DEF SameRows

LEMMA NoWorkWhole ==
    ASSUME NEW tables
    PROVE  WholeWork(tables, NoWork)
  BY DEF WholeWork, OwnLegs, RowWhole, NoWork

\* A step of s that leaves the committed tables alone.
LEMMA WholeStep ==
    ASSUME CallsInv, WholeInv, NEW s \in Sessions, db' = db, OthersStay(s),
           level'[s] = "read committed", \A o \in Sessions \ {s} : level'[o] = level[o],
           WholeWork(db, work'[s]), \A d \in 1..depth'[s] : WholeWork(db, saved'[s][d]),
           PointOK(s)'
    PROVE  WholeInv'
  <1>1. WholeTables(db)'
    BY DEF WholeInv
  <1>2. SessionWhole(s)'
    BY DEF SessionWhole
  <1>3. ASSUME NEW o \in Sessions \ {s}
        PROVE  SessionWhole(o)'
    <2>1. SessionWhole(o)
      BY DEF WholeInv
    <2>2. /\ at'[o] = at[o] /\ call'[o] = call[o] /\ outcome'[o] = outcome[o]
          /\ st'[o] = st[o] /\ work'[o] = work[o] /\ saved'[o] = saved[o] /\ depth'[o] = depth[o]
          /\ level'[o] = level[o]
      BY DEF OthersStay
    <2>3. PointOK(o)'
      BY <2>1, <2>2 DEF SessionWhole, PointOK, Returned
    <2> QED  BY <2>1, <2>2, <2>3 DEF SessionWhole
  <1> QED  BY <1>1, <1>2, <1>3 DEF WholeInv

\* What a session goes back to is as whole as what it had.
LEMMA RefuseWhole ==
    ASSUME TypeOK, NEW s \in Sessions, SessionWhole(s), Refuse(s)
    PROVE  /\ db' = db /\ level' = level /\ saved' = saved /\ depth' = depth
           /\ st'[s] = "aborted" /\ WholeWork(db, work'[s])
  <1>1. work'[s] = IF depth[s] = 0 THEN NoWork ELSE saved[s][depth[s]]
    BY DEF Refuse, TypeOK
  <1>2. depth[s] # 0 => depth[s] \in 1..depth[s]
    BY BoundAssumption DEF TypeOK
  <1>3. WholeWork(db, work'[s])
    BY <1>1, <1>2, NoWorkWhole DEF SessionWhole
  <1> QED  BY <1>3 DEF Refuse, TypeOK

\* Where a statement that is refused goes says nothing of an entry.
Down(s) ==
    /\ at'[s] \in {"once:rollback", "post:rollback", "caller"}
    /\ outcome'[s] # "replayed"

LEMMA DownIsOK ==
    ASSUME NEW s, st'[s] = "aborted", Down(s)
    PROVE  PointOK(s)'
  BY DEF PointOK, Down, Returned, Posted, Claimed

LEMMA StatementWhole ==
    ASSUME CallsInv, WholeInv, NEW s \in Sessions, NEW w \in Work, WholeWork(db, w),
           EndStatement(s, w) \/ Refuse(s), OthersStay(s),
           st'[s] = "aborted" => Down(s),
           st'[s] # "aborted" /\ SameRows(work'[s], w) => PointOK(s)'
    PROVE  WholeInv'
  <1>1. TypeOK /\ SessionWhole(s) /\ \A o \in Sessions : level[o] = "read committed"
    BY DEF CallsInv, IInv, WholeInv, SessionWhole
  <1>2. CASE Refuse(s)
    <2>1. /\ db' = db /\ level' = level /\ saved' = saved /\ depth' = depth
          /\ st'[s] = "aborted" /\ WholeWork(db, work'[s])
      BY <1>1, <1>2, RefuseWhole
    <2>2. PointOK(s)'
      BY <2>1, DownIsOK
    <2>3. \A d \in 1..depth'[s] : WholeWork(db, saved'[s][d])
      BY <1>1, <2>1 DEF SessionWhole
    <2> QED  BY <1>1, <2>1, <2>2, <2>3, WholeStep
  <1>3. CASE ~Refuse(s)
    <2>1. /\ work' = [work EXCEPT ![s] = Fired(w, w.immediate)]
          /\ UNCHANGED <<db, st, level, saved, depth>>
      BY <1>3 DEF EndStatement
    <2>2. work'[s] = Fired(w, w.immediate)
      BY <1>1, <2>1 DEF TypeOK
    <2>3. SameRows(work'[s], w)
      BY <2>2, FiredSameRows
    <2>4. WholeWork(db, work'[s])
      BY <2>3, SameRowsWhole
    <2>5. \A d \in 1..depth'[s] : WholeWork(db, saved'[s][d])
      BY <1>1, <2>1 DEF SessionWhole
    <2>6. CASE st'[s] = "aborted"
      BY <1>1, <2>1, <2>4, <2>5, <2>6, DownIsOK, WholeStep
    <2>7. CASE st'[s] # "aborted"
      BY <1>1, <2>1, <2>3, <2>4, <2>5, <2>7, WholeStep
    <2> QED  BY <2>6, <2>7
  <1> QED  BY <1>2, <1>3

\* A statement of a call, and what is known where it is sent.
LEMMA SentWhole ==
    ASSUME CallsInv, WholeInv, NEW s \in Sessions, at[s] \in Forward
    PROVE  /\ TypeOK /\ CallVarsOK /\ work[s] \in Work /\ WorkOK(db, work[s])
           /\ SessionWhole(s) /\ WholeWork(db, work[s]) /\ PointOK(s)
           /\ call[s] \in Calls /\ ShapeOK(s) /\ outcome[s] = "done"
           /\ level[s] = "read committed" /\ Seen(s) = db
           /\ db \in Tables /\ TablesOK(db)
  <1>1. at[s] # "caller"
    BY DEF Forward
  <1>2. /\ TypeOK /\ WorkOK(db, work[s]) /\ SessionWhole(s) /\ TablesOK(db)
        /\ ShapeOK(s) /\ CallVarsOK
    BY DEF CallsInv, IInv, WholeInv, CallOK
  <1>3. level[s] = "read committed"
    BY <1>2 DEF SessionWhole
  <1>4. Seen(s) = db
    BY <1>3 DEF Seen
  <1> QED  BY <1>1, <1>2, <1>3, <1>4 DEF SessionWhole, ShapeOK, TypeOK

\* SET CONSTRAINTS leaves the rows to themselves.
LEMMA ModesWhole ==
    ASSUME CallsInv, WholeInv, NEW s \in Sessions, NEW C \in SUBSET Constraints,
           NEW here \in {"post:defer", "ask", "post:redefer", "once:defer", "once:ask", "once:redefer"},
           NEW next \in {"insert", "post:redefer", "post:release", "reserve", "once:redefer", "once:release"},
           NEW handler \in {"post:rollback", "once:rollback", "caller"},
           \/ Goes(s, here, SetDeferred(s, C), next, handler)
           \/ Goes(s, here, SetImmediate(s, C), next, handler),
           next \in Posted => here \in Posted, next \in Claimed => here \in Claimed,
           OthersStay(s)
    PROVE  WholeInv'
  <1>1. at[s] = here /\ here \in Forward
    BY DEF Goes, Sends, Forward
  <1>2. /\ TypeOK /\ CallVarsOK /\ work[s] \in Work /\ WholeWork(db, work[s]) /\ PointOK(s)
        /\ outcome[s] = "done"
    BY <1>1, SentWhole
  <1>3. PICK imm \in SUBSET Constraints :
            EndStatement(s, [work[s] EXCEPT !.immediate = imm]) \/ Refuse(s)
    <2>1. /\ work[s].immediate \cup C \in SUBSET Constraints
          /\ work[s].immediate \ C \in SUBSET Constraints
      BY <1>2 DEF Work
    <2>2. \/ EndStatement(s, [work[s] EXCEPT !.immediate = work[s].immediate \cup C])
          \/ EndStatement(s, [work[s] EXCEPT !.immediate = work[s].immediate \ C])
          \/ Refuse(s)
      BY DEF Goes, Sends, SetDeferred, SetImmediate, StatementRefused
    <2> QED  BY <2>1, <2>2
  <1> DEFINE w == [work[s] EXCEPT !.immediate = imm]
  <1>4. w \in Work /\ SameRows(w, work[s])
    BY <1>2 DEF Work, SameRows
  <1>5. WholeWork(db, w)
    BY <1>2, <1>4, SameRowsWhole
  <1>6. /\ at'[s] = IF st'[s] = "open" THEN next ELSE handler
        /\ outcome'[s] = IF st'[s] = "open" THEN "done"
                         ELSE IF here \in Refusable THEN "refused" ELSE "failed"
        /\ call' = call
    BY <1>1, <1>2 DEF Goes, Sends, CallVarsOK
  <1>7. st'[s] = "aborted" => Down(s)
    BY <1>6 DEF Down
  <1>8. st[s] = "open"
    BY <1>1, SentWhole DEF ShapeOK
  <1>9. st'[s] # "aborted" => st'[s] = "open"
    BY <1>2, <1>3, <1>8, StatementEnds
  <1>10. ASSUME st'[s] # "aborted", SameRows(work'[s], w)
         PROVE  PointOK(s)'
    <2>1. SameRows(work'[s], work[s])
      BY <1>4, <1>10 DEF SameRows
    <2> HIDE DEF w
    <2> QED  BY <1>1, <1>2, <1>6, <1>9, <1>10, <2>1 DEF PointOK, Posted, Claimed, SameRows, Returned
  <1> HIDE DEF w
  <1> QED  BY <1>3, <1>4, <1>5, <1>7, <1>10, StatementWhole DEF w

LEMMA AsksWhole ==
    ASSUME CallsInv, WholeInv, NEW s \in Sessions, OthersStay(s),
           \/ PostDefers(s) \/ AsksNow(s) \/ PostRedefers(s)
           \/ OnceDefers(s) \/ OnceAsks(s) \/ OnceRedefers(s)
    PROVE  WholeInv'
  <1>1. BalanceChecks \in SUBSET Constraints /\ {KeyCheck} \in SUBSET Constraints
    BY DEF BalanceChecks, Constraints
  <1>2. CASE PostDefers(s)
    BY <1>1, <1>2, ModesWhole DEF PostDefers, Posted, Claimed
  <1>3. CASE AsksNow(s)
    BY <1>1, <1>3, ModesWhole DEF AsksNow, Posted, Claimed
  <1>4. CASE PostRedefers(s)
    BY <1>1, <1>4, ModesWhole DEF PostRedefers, Posted, Claimed
  <1>5. CASE OnceDefers(s)
    BY <1>1, <1>5, ModesWhole DEF OnceDefers, Posted, Claimed
  <1>6. CASE OnceAsks(s)
    BY <1>1, <1>6, ModesWhole DEF OnceAsks, Posted, Claimed
  <1>7. CASE OnceRedefers(s)
    BY <1>1, <1>7, ModesWhole DEF OnceRedefers, Posted, Claimed
  <1> QED  BY <1>2, <1>3, <1>4, <1>5, <1>6, <1>7

\* What a request has is a number of legs.
LEMMA LegsCounted ==
    ASSUME NEW c \in Calls
    PROVE  Len(LegsOf[c.hash]) \in Nat /\ c.sent \in Nat
  <1>1. c.hash \in Hashes /\ c.sent \in 0..MaxLegs
    BY DEF Calls
  <1>2. LegsOf[c.hash] \in Seq({b \in Batches : b[1] = 1})
    BY <1>1, CallsAssumption
  <1> QED  BY <1>1, <1>2, BoundAssumption

\* A new entry has no legs, and no key names it.
LEMMA EntryWhole ==
    ASSUME CallsInv, WholeInv, NEW s \in Sessions, OthersStay(s), InsertsEntry(s)
    PROVE  WholeInv'
  <1>1. at[s] = "insert" /\ at[s] \in Forward
    BY DEF InsertsEntry, Sends, Forward
  <1>2. /\ TypeOK /\ CallVarsOK /\ work[s] \in Work /\ WholeWork(db, work[s])
        /\ WorkOK(db, work[s]) /\ call[s] \in Calls /\ outcome[s] = "done" /\ st[s] = "open"
        /\ call[s].sent = 0
    BY <1>1, SentWhole DEF ShapeOK, Early
  <1>3. PICK t \in Txns :
            /\ Sends(s, "insert", InsertTransaction(s, t), NextLeg(s, 0), "post:rollback")
            /\ call' = IF st'[s] = "open" THEN [call EXCEPT ![s].txn = t] ELSE call
    BY DEF InsertsEntry
  <1> DEFINE w == [work[s] EXCEPT !.txns = @ \cup {t}, !.due = @ \cup {t}]
             next == NextLeg(s, 0)
  <1>4. (EndStatement(s, w) /\ Fresh(t)) \/ Refuse(s)
    BY <1>3 DEF Sends, InsertTransaction, StatementRefused
  <1>5. /\ w \in Work /\ w.txns = work[s].txns \cup {t} /\ w.legs = work[s].legs
        /\ w.keys = work[s].keys
    BY <1>2 DEF Work
  <1>6. WholeWork(db, w)
    BY <1>2, <1>5 DEF WholeWork, OwnLegs, RowWhole
  <1>7. /\ at'[s] = IF st'[s] = "open" THEN next ELSE "post:rollback"
        /\ outcome'[s] = IF st'[s] = "open" THEN "done" ELSE "refused"
    BY <1>2, <1>3 DEF Sends, CallVarsOK, Refusable
  <1>8. st'[s] = "aborted" => Down(s)
    BY <1>7 DEF Down
  <1>9. st'[s] # "aborted" => st'[s] = "open" /\ ~Refuse(s)
    BY <1>2, <1>4, StatementEnds, RefusalDoes
  <1>10. ASSUME st'[s] # "aborted", SameRows(work'[s], w)
         PROVE  PointOK(s)'
    <2>1. /\ call'[s].txn = t /\ call'[s].sent = 0 /\ call'[s].hash = call[s].hash
      BY <1>2, <1>3, <1>9, <1>10 DEF CallVarsOK, Calls
    <2>2. t \notin db.txns \cup work[s].txns
      BY <1>4, <1>9, <1>10 DEF Fresh
    <2>3. w.legs[t] = 0
      BY <1>2, <1>5, <2>2 DEF WholeWork, OwnLegs, Work
    <2>4. \A k \in Keys : w.keys[k] # NoKey => w.keys[k].txn # t
      BY <1>2, <1>5, <2>2, NullAssumption DEF WorkOK, KeysCaught
    <2>5. next = "ask" => Len(LegsOf[call[s].hash]) = 0
      BY <1>2, LegsCounted DEF NextLeg
    <2>6. at'[s] = next /\ next \in {"legs", "ask"}
      BY <1>7, <1>9, <1>10 DEF NextLeg
    <2>7. work'[s].txns = w.txns /\ work'[s].legs = w.legs /\ work'[s].keys = w.keys
      BY <1>10 DEF SameRows
    <2> HIDE DEF w, next
    <2> QED  BY <1>5, <2>1, <2>3, <2>4, <2>5, <2>6, <2>7 DEF PointOK, Posted, Claimed, Returned
  <1>11. EndStatement(s, w) \/ Refuse(s)
    BY <1>4
  <1> HIDE DEF w
  <1> QED  BY <1>2, <1>5, <1>6, <1>8, <1>10, <1>11, StatementWhole

\* One leg more, of an entry no key names yet.
LEMMA LegWhole ==
    ASSUME CallsInv, WholeInv, NEW s \in Sessions, OthersStay(s), InsertsLeg(s)
    PROVE  WholeInv'
  <1> DEFINE sent == call[s].sent + 1
             t == call[s].txn
             b == LegsOf[call[s].hash][sent]
             v == [work[s] EXCEPT !.legs[t] = @ + b[1], !.net[t] = @ + b[2]]
             w == QueueCheckOf(v, t)
             next == NextLeg(s, sent)
  <1>1. at[s] = "legs" /\ at[s] \in Forward
    BY DEF InsertsLeg, Forward
  <1>2. /\ TypeOK /\ CallVarsOK /\ work[s] \in Work /\ WholeWork(db, work[s]) /\ PointOK(s)
        /\ call[s] \in Calls /\ outcome[s] = "done" /\ st[s] = "open"
        /\ t \in Txns /\ call[s].sent < Len(LegsOf[call[s].hash])
    BY <1>1, SentWhole DEF ShapeOK
  <1>3. EndStatement(s, w) \/ Refuse(s)
    BY DEF InsertsLeg, Sends, InsertPostings, StatementRefused
  <1>4. /\ t \in work[s].txns /\ work[s].legs[t] = call[s].sent
        /\ \A k \in Keys : work[s].keys[k] # NoKey => work[s].keys[k].txn # t
    BY <1>1, <1>2 DEF PointOK
  <1>5. sent \in 1..Len(LegsOf[call[s].hash]) /\ Len(LegsOf[call[s].hash]) \in Nat
    BY <1>2, LegsCounted
  <1>6. b \in Batches /\ b[1] = 1 /\ b[2] \in Int
    <2>1. LegsOf[call[s].hash] \in Seq({x \in Batches : x[1] = 1})
      BY <1>2, CallsAssumption DEF Calls
    <2>2. b \in {x \in Batches : x[1] = 1}
      BY <1>5, <2>1
    <2> QED  BY <2>2, BatchAssumption
  <1>7. /\ w \in Work /\ w.txns = work[s].txns /\ w.keys = work[s].keys
        /\ w.legs = [work[s].legs EXCEPT ![t] = @ + 1]
    <2> HIDE DEF b, t
    <2>1. /\ [work[s].legs EXCEPT ![t] = @ + b[1]] \in [Txns -> Nat]
          /\ [work[s].net EXCEPT ![t] = @ + b[2]] \in [Txns -> Int]
      BY <1>2, <1>6 DEF Work
    <2>2. /\ v \in Work /\ v.txns = work[s].txns /\ v.keys = work[s].keys
          /\ v.legs = [work[s].legs EXCEPT ![t] = @ + 1]
      BY <1>2, <1>6, <2>1 DEF Work
    <2> HIDE DEF v
    <2>3. w = v \/ w = [v EXCEPT !.queue = @ \cup {t}, !.qdue = @ \cup {t}]
      BY DEF QueueCheckOf
    <2> HIDE DEF w
    <2>4. CASE w = v
      BY <2>2, <2>4
    <2>5. CASE w = [v EXCEPT !.queue = @ \cup {t}, !.qdue = @ \cup {t}]
      <3>1. /\ w.txns = v.txns /\ w.keys = v.keys /\ w.legs = v.legs
            /\ w \in Work
        BY <1>2, <2>2, <2>5 DEF Work
      <3> QED  BY <2>2, <3>1
    <2> QED  BY <2>3, <2>4, <2>5
  <1> HIDE DEF v, w
  <1>8. w.legs[t] = sent /\ \A o \in Txns \ {t} : w.legs[o] = work[s].legs[o]
    <2>1. work[s].legs \in [Txns -> Nat]
      BY <1>2 DEF Work
    <2> QED  BY <1>2, <1>4, <1>7, <2>1
  <1>9. WholeWork(db, w)
    <2>1. OwnLegs(w)
      BY <1>2, <1>4, <1>7, <1>8 DEF WholeWork, OwnLegs
    <2>2. ASSUME NEW k \in Keys
          PROVE  RowWhole(db, w, w.keys[k])
      <3>1. RowWhole(db, work[s], work[s].keys[k]) /\ work[s].keys[k] \in KeyRows \cup {NoKey}
        BY <1>2 DEF WholeWork, Work
      <3>2. work[s].keys[k] # NoKey /\ work[s].keys[k].txn # NoTxn =>
                work[s].keys[k].txn \in Txns \ {t}
        BY <1>4, <3>1 DEF KeyRows
      <3> QED  BY <1>7, <1>8, <3>1, <3>2 DEF RowWhole
    <2> QED  BY <2>1, <2>2 DEF WholeWork
  <1>10. /\ at'[s] = IF st'[s] = "open" THEN next ELSE "post:rollback"
         /\ outcome'[s] = IF st'[s] = "open" THEN "done" ELSE "refused"
    BY <1>2 DEF InsertsLeg, Sends, CallVarsOK, Refusable
  <1>11. st'[s] = "aborted" => Down(s)
    BY <1>10 DEF Down
  <1>12. st'[s] # "aborted" => st'[s] = "open"
    BY <1>2, <1>3, StatementEnds
  <1>13. ASSUME st'[s] # "aborted", SameRows(work'[s], w)
         PROVE  PointOK(s)'
    <2>1. call'[s].txn = t /\ call'[s].sent = sent /\ call'[s].hash = call[s].hash
      BY <1>2, <1>12, <1>13 DEF InsertsLeg, CallVarsOK, Calls
    <2>2. next = "ask" => sent = Len(LegsOf[call[s].hash])
      BY <1>5 DEF NextLeg
    <2>3. at'[s] = next /\ next \in {"legs", "ask"}
      BY <1>10, <1>12, <1>13 DEF NextLeg
    <2>4. work'[s].txns = w.txns /\ work'[s].legs = w.legs /\ work'[s].keys = w.keys
      BY <1>13 DEF SameRows
    <2> HIDE DEF next, t, sent
    <2> QED  BY <1>4, <1>7, <1>8, <2>1, <2>2, <2>3, <2>4 DEF PointOK, Posted, Claimed, Returned
  <1> QED  BY <1>2, <1>3, <1>7, <1>9, <1>11, <1>13, StatementWhole

\* A reservation is not settled; what settles it is whole.
LEMMA ReserveWhole ==
    ASSUME CallsInv, WholeInv, NEW s \in Sessions, OthersStay(s), Reserves(s)
    PROVE  WholeInv'
  <1> DEFINE k == call[s].key
             row == [hash |-> call[s].hash, txn |-> NoTxn]
             w == [work[s] EXCEPT !.keys[k] = row,
                                  !.touched = @ \cup {k},
                                  !.kdue = @ \cup {k}]
  <1>1. at[s] = "reserve" /\ at[s] \in Forward
    BY DEF Reserves, Goes, Sends, Forward
  <1>2. /\ TypeOK /\ CallVarsOK /\ work[s] \in Work /\ WholeWork(db, work[s])
        /\ call[s] \in Calls /\ outcome[s] = "done" /\ st[s] = "open"
    BY <1>1, SentWhole DEF ShapeOK
  <1>3. EndStatement(s, w) \/ Refuse(s)
    BY DEF Reserves, Goes, Sends, ReserveKey, StatementRefused
  <1>4. /\ w \in Work /\ w.txns = work[s].txns /\ w.legs = work[s].legs
        /\ \A o \in Keys : w.keys[o] = row \/ w.keys[o] = work[s].keys[o]
    <2>1. k \in Keys /\ row \in KeyRows
      BY <1>2 DEF Calls, KeyRows
    <2> HIDE DEF row, k
    <2> QED  BY <1>2, <2>1 DEF Work
  <1>5. WholeWork(db, w)
    BY <1>2, <1>4 DEF WholeWork, OwnLegs, RowWhole
  <1>6. /\ at'[s] = IF st'[s] = "open" THEN "post:savepoint" ELSE "once:rollback"
        /\ outcome'[s] = IF st'[s] = "open" THEN "done" ELSE "refused"
    BY <1>2 DEF Reserves, Goes, Sends, CallVarsOK, Refusable
  <1>7. st'[s] = "aborted" => Down(s)
    BY <1>6 DEF Down
  <1>8. st'[s] # "aborted" => st'[s] = "open"
    BY <1>2, <1>3, StatementEnds
  <1>9. st'[s] # "aborted" => PointOK(s)'
    BY <1>6, <1>8 DEF PointOK, Posted, Claimed, Returned
  <1> HIDE DEF w
  <1> QED  BY <1>2, <1>3, <1>4, <1>5, <1>7, <1>9, StatementWhole

LEMMA SettleWhole ==
    ASSUME CallsInv, WholeInv, NEW s \in Sessions, OthersStay(s), Settles(s)
    PROVE  WholeInv'
  <1> DEFINE k == call[s].key
             t == call[s].txn
             row == [hash |-> call[s].hash, txn |-> t]
             w == [work[s] EXCEPT !.keys[k] = row,
                                  !.touched = @ \cup {k},
                                  !.kdue = @ \cup {k}]
  <1>1. at[s] = "settle" /\ at[s] \in Forward
    BY DEF Settles, Goes, Sends, Forward
  <1>2. /\ TypeOK /\ CallVarsOK /\ work[s] \in Work /\ WholeWork(db, work[s]) /\ PointOK(s)
        /\ WorkOK(db, work[s]) /\ TablesOK(db) /\ db \in Tables
        /\ call[s] \in Calls /\ outcome[s] = "done" /\ st[s] = "open"
    BY <1>1, SentWhole DEF ShapeOK
  <1>3. EndStatement(s, w) \/ Refuse(s)
    BY DEF Settles, Goes, Sends, UpdateKey, StatementRefused
  <1>4. /\ t \in work[s].txns /\ work[s].legs[t] = call[s].sent
        /\ call[s].sent = Len(LegsOf[call[s].hash])
    BY <1>1, <1>2 DEF PointOK, Posted
  <1>5. k \in Keys /\ row \in KeyRows
    BY <1>2 DEF Calls, KeyRows
  <1>6. /\ w \in Work /\ w.txns = work[s].txns /\ w.legs = work[s].legs
        /\ w.keys[k] = row /\ \A o \in Keys : w.keys[o] = row \/ w.keys[o] = work[s].keys[o]
    <2> HIDE DEF row, k
    <2> QED  BY <1>2, <1>5 DEF Work
  <1>7. RowWhole(db, w, row)
    <2>1. db.legs[t] = 0
      BY <1>2, <1>4 DEF WorkOK, EntriesCaught, TablesOK, Work
    <2>2. call[s].sent \in Nat
      BY <1>2, LegsCounted
    <2>3. row.txn = t /\ row.hash = call[s].hash /\ w.legs[t] = call[s].sent
      BY <1>4, <1>6
    <2> HIDE DEF row, t, w
    <2> QED  BY <1>4, <2>1, <2>2, <2>3 DEF RowWhole
  <1>8. WholeWork(db, w)
    <2> HIDE DEF row, w
    <2> QED  BY <1>2, <1>6, <1>7 DEF WholeWork, OwnLegs, RowWhole
  <1>9. /\ at'[s] = IF st'[s] = "open" THEN "once:ask" ELSE "once:rollback"
        /\ outcome'[s] = IF st'[s] = "open" THEN "done" ELSE "refused"
        /\ call' = call
    BY <1>2 DEF Settles, Goes, Sends, CallVarsOK, Refusable
  <1>10. st'[s] = "aborted" => Down(s)
    BY <1>9 DEF Down
  <1>11. st'[s] # "aborted" => st'[s] = "open"
    BY <1>2, <1>3, StatementEnds
  <1>12. ASSUME st'[s] # "aborted", SameRows(work'[s], w)
         PROVE  PointOK(s)'
    <2>1. work'[s].txns = work[s].txns /\ work'[s].legs = work[s].legs /\ work'[s].keys[k] = row
      BY <1>6, <1>12 DEF SameRows
    <2> QED  BY <1>4, <1>9, <1>11, <1>12, <2>1 DEF PointOK, Posted, Claimed, Returned
  <1> HIDE DEF w
  <1> QED  BY <1>2, <1>3, <1>6, <1>8, <1>10, <1>12, StatementWhole

LEMMA MeetsWhole ==
    ASSUME CallsInv, WholeInv, NEW s \in Sessions, OthersStay(s), MeetsTheKey(s)
    PROVE  WholeInv'
  <1>1. at[s] = "reserve" /\ at[s] \in Forward /\ Refuse(s)
    BY DEF MeetsTheKey, Forward
  <1>2. /\ TypeOK /\ CallVarsOK /\ work[s] \in Work /\ WholeWork(db, work[s]) /\ st[s] = "open"
    BY <1>1, SentWhole DEF ShapeOK
  <1>3. Down(s)
    BY <1>2 DEF MeetsTheKey, CallVarsOK, Down
  <1>4. st'[s] = "aborted"
    BY <1>1, <1>2, RefusalDoes
  <1> QED  BY <1>1, <1>2, <1>3, <1>4, StatementWhole

\* A statement that is refused, whatever it was.
LEMMA RefusedWhole ==
    ASSUME CallsInv, WholeInv, NEW s \in Sessions, OthersStay(s), st[s] = "open", Refuse(s), Down(s)
    PROVE  WholeInv'
  <1>1. work[s] \in Work /\ WholeWork(db, work[s]) /\ TypeOK
    BY DEF CallsInv, IInv, TypeOK, WholeInv, SessionWhole
  <1>2. st'[s] = "aborted"
    BY <1>1, RefusalDoes
  <1> QED  BY <1>1, <1>2, StatementWhole

LEMMA SavesWhole ==
    ASSUME CallsInv, WholeInv, NEW s \in Sessions, OthersStay(s), PostSaves(s) \/ OnceSaves(s)
    PROVE  WholeInv'
  <1>1. /\ TypeOK /\ CallVarsOK /\ SessionWhole(s) /\ \A o \in Sessions : level[o] = "read committed"
    BY DEF CallsInv, IInv, WholeInv, SessionWhole
  <1>2. /\ Savepoint(s) \/ (st[s] = "open" /\ Refuse(s))
        /\ at'[s] \in IF st'[s] = "open" THEN {"post:defer", "once:defer"} ELSE {"once:rollback", "caller"}
        /\ st'[s] # "open" => outcome'[s] \in {"refused", "failed"}
    BY <1>1 DEF PostSaves, OnceSaves, Saves, Sends, CallVarsOK, StatementRefused, Raised
  <1>3. CASE Savepoint(s)
    <2>1. /\ db' = db /\ level' = level /\ st'[s] = "open" /\ work' = work
      BY <1>3 DEF Savepoint
    <2>2. \A d \in 1..depth'[s] : d = depth[s] + 1 \/ d \in 1..depth[s]
      <3>1. depth[s] \in Nat /\ depth'[s] = depth[s] + 1
        BY <1>1, <1>3, SavepointDoes
      <3> QED  BY <3>1
    <2>3. \A d \in 1..depth'[s] : WholeWork(db, saved'[s][d])
      BY <1>1, <1>3, <2>2, SavepointDoes DEF SessionWhole
    <2>4. PointOK(s)'
      BY <1>2, <2>1 DEF PointOK, Posted, Claimed, Returned
    <2> QED  BY <1>1, <2>1, <2>3, <2>4, WholeStep DEF SessionWhole
  <1>4. CASE st[s] = "open" /\ Refuse(s)
    <2>1. st'[s] = "aborted"
      BY <1>1, <1>4, RefusalDoes
    <2>2. Down(s)
      BY <1>2, <2>1 DEF Down
    <2> QED  BY <1>4, <2>2, RefusedWhole
  <1> QED  BY <1>2, <1>3, <1>4

\* A savepoint released takes nothing of the work with it.
LEMMA ReleaseWhole ==
    ASSUME CallsInv, WholeInv, NEW s \in Sessions, OthersStay(s), NEW d, Release(s, d), PointOK(s)'
    PROVE  WholeInv'
  <1>1. /\ TypeOK /\ SessionWhole(s) /\ \A o \in Sessions : level[o] = "read committed"
    BY DEF CallsInv, IInv, WholeInv, SessionWhole
  <1>2. db' = db /\ level' = level /\ work' = work
    BY DEF Release
  <1>3. \A i \in 1..depth'[s] : i \in 1..d-1 /\ i \in 1..depth[s]
    <2>1. depth'[s] = d - 1 /\ d \in 1..depth[s] /\ depth[s] \in 0..Depth /\ Depth \in Nat
      BY <1>1, ReleaseDoes, BoundAssumption DEF Release, TypeOK
    <2> QED  BY <2>1
  <1>4. \A i \in 1..depth'[s] : WholeWork(db, saved'[s][i])
    BY <1>1, <1>3, ReleaseDoes DEF SessionWhole
  <1> QED  BY <1>1, <1>2, <1>4, WholeStep DEF SessionWhole

\* What is all in, and claimed where there is a key, is an answer that stands.
LEMMA PostedStands ==
    ASSUME CallsInv, WholeInv, NEW s \in Sessions, at[s] \in Posted,
           call[s].fn = "once" => at[s] \in Claimed
    PROVE  Stands(db, work[s], call[s])
  <1>1. at[s] \in Forward
    BY DEF Posted, Forward
  <1>2. /\ WorkOK(db, work[s]) /\ TablesOK(db) /\ PointOK(s) /\ call[s] \in Calls /\ work[s] \in Work
    BY <1>1, SentWhole
  <1>3. /\ call[s].txn \in work[s].txns /\ work[s].legs[call[s].txn] = Len(LegsOf[call[s].hash])
    BY <1>2 DEF PointOK
  <1>4. db.legs[call[s].txn] = 0
    BY <1>2, <1>3 DEF WorkOK, EntriesCaught, TablesOK, Work
  <1>5. Len(LegsOf[call[s].hash]) \in Nat
    BY <1>2, LegsCounted
  <1>6. call[s].fn = "once" =>
            KeyRow(db, work[s], call[s].key) = [hash |-> call[s].hash, txn |-> call[s].txn]
    <2>1. SUFFICES ASSUME call[s].fn = "once"
                   PROVE  KeyRow(db, work[s], call[s].key) = [hash |-> call[s].hash, txn |-> call[s].txn]
      OBVIOUS
    <2>2. work[s].keys[call[s].key] = [hash |-> call[s].hash, txn |-> call[s].txn]
      BY <1>2, <2>1 DEF PointOK
    <2>3. [hash |-> call[s].hash, txn |-> call[s].txn] \in KeyRows
      BY <1>2 DEF Calls, KeyRows
    <2> QED  BY <2>2, <2>3, NullAssumption DEF KeyRow
  <1> QED  BY <1>3, <1>4, <1>5, <1>6 DEF Stands

LEMMA ReleasesWhole ==
    ASSUME CallsInv, WholeInv, NEW s \in Sessions, OthersStay(s),
           PostReleases(s) \/ OnceReleases(s) \/ ReplayReleases(s)
    PROVE  WholeInv'
  <1> DEFINE next == IF at[s] = "post:release" /\ call[s].fn = "once" THEN "settle" ELSE "caller"
  <1>1. /\ TypeOK /\ CallVarsOK /\ PointOK(s) /\ ShapeOK(s)
    BY DEF CallsInv, IInv, CallOK, WholeInv, SessionWhole
  <1>2. /\ at[s] \in {"post:release", "once:release", "replay:release"}
        /\ (\E d : Release(s, d)) \/ (st[s] = "open" /\ Refuse(s))
        /\ at'[s] = IF st'[s] = "open" THEN next
                    ELSE IF at[s] = "post:release" THEN Raised(s) ELSE "caller"
        /\ st'[s] # "open" => outcome'[s] = "failed"
        /\ st'[s] = "open" => outcome'[s] = outcome[s]
        /\ call' = call
    BY <1>1 DEF PostReleases, OnceReleases, ReplayReleases, Releases, Sends, CallVarsOK,
                StatementRefused, Refusable
  <1>3. CASE \E d : Release(s, d)
    <2>1. PICK d : Release(s, d)
      BY <1>3
    <2>2. st' = st /\ st[s] = "open" /\ work' = work /\ db' = db
      BY <2>1 DEF Release
    <2>3. CASE next = "settle"
      <3>1. at[s] = "post:release" /\ at'[s] = "settle"
        BY <1>2, <2>2, <2>3
      <3>2. PointOK(s)'
        BY <1>1, <1>2, <2>2, <3>1 DEF PointOK, Posted, Claimed, Returned
      <3> QED  BY <2>1, <3>2, ReleaseWhole
    <2>4. CASE next = "caller"
      <3>1. at'[s] = "caller" /\ outcome'[s] = outcome[s]
        BY <1>2, <2>2, <2>4
      <3>2. at[s] # "replay:release" => at[s] \in Posted /\ (call[s].fn = "once" => at[s] \in Claimed)
        BY <1>2, <2>4 DEF Posted, Claimed
      <3>3. at[s] = "replay:release" => outcome[s] # "done"
        BY <1>1 DEF ShapeOK, Backward
      <3>4. outcome[s] \in {"done", "replayed"} => Stands(db, work[s], call[s])
        BY <1>1, <3>2, <3>3, PostedStands DEF PointOK
      <3>5. PointOK(s)'
        BY <1>2, <2>2, <3>1, <3>4 DEF PointOK, Posted, Claimed, Returned
      <3> QED  BY <2>1, <3>5, ReleaseWhole
    <2> QED  BY <2>3, <2>4
  <1>4. CASE st[s] = "open" /\ Refuse(s)
    <2>1. st'[s] = "aborted"
      BY <1>1, <1>4, RefusalDoes
    <2>2. Down(s)
      BY <1>2, <2>1 DEF Down, Raised
    <2> QED  BY <1>4, <2>2, RefusedWhole
  <1> QED  BY <1>2, <1>3, <1>4

\* ROLLBACK TO goes back to work that was whole.
LEMMA BackWhole ==
    ASSUME CallsInv, WholeInv, NEW s \in Sessions, OthersStay(s), PostRollsBack(s) \/ OnceRollsBack(s)
    PROVE  WholeInv'
  <1>1. /\ TypeOK /\ CallVarsOK /\ PointOK(s) /\ ShapeOK(s) /\ SessionWhole(s)
        /\ \A o \in Sessions : level[o] = "read committed"
    BY DEF CallsInv, IInv, CallOK, WholeInv, SessionWhole
  <1>2. /\ at[s] \in {"post:rollback", "once:rollback"}
        /\ \E d : RollbackTo(s, d)
        /\ at'[s] \in {"explain", "replay", "caller"} /\ outcome' = outcome /\ call' = call
    BY <1>1 DEF PostRollsBack, OnceRollsBack, GoesBackTo, CallVarsOK
  <1>3. PICK d : RollbackTo(s, d)
    BY <1>2
  <1>4. /\ db' = db /\ level' = level /\ depth'[s] = d /\ work'[s] = saved[s][d]
        /\ d \in 1..depth[s] /\ depth[s] \in 0..Depth /\ Depth \in Nat
        /\ saved'[s] = [i \in 1..Depth |-> IF i <= d THEN saved[s][i] ELSE NoWork]
    BY <1>1, <1>3, BoundAssumption DEF RollbackTo, TypeOK
  <1>5. \A i \in 1..depth'[s] : i \in 1..depth[s] /\ saved'[s][i] = saved[s][i]
    BY <1>4
  <1>6. outcome'[s] \notin {"done", "replayed"}
    BY <1>1, <1>2 DEF PointOK, ShapeOK, Backward
  <1>7. PointOK(s)'
    BY <1>2, <1>6 DEF PointOK, Posted, Claimed, Returned
  <1> QED  BY <1>1, <1>4, <1>5, <1>7, WholeStep DEF SessionWhole

\* explain only looks, and says what it was going to.
LEMMA ExplainsWhole ==
    ASSUME CallsInv, WholeInv, NEW s \in Sessions, OthersStay(s), Explains(s)
    PROVE  WholeInv'
  <1>1. /\ TypeOK /\ CallVarsOK /\ PointOK(s) /\ ShapeOK(s) /\ SessionWhole(s)
        /\ \A o \in Sessions : level[o] = "read committed"
    BY DEF CallsInv, IInv, CallOK, WholeInv, SessionWhole
  <1>2. /\ at[s] = "explain" /\ at'[s] \in {"once:rollback", "caller"}
        /\ UNCHANGED vars \/ (st[s] = "open" /\ Refuse(s))
        /\ outcome' = outcome /\ call' = call
    BY <1>1 DEF Explains, StatementRefused, Raised, CallVarsOK
  <1>3. outcome'[s] \notin {"done", "replayed"}
    BY <1>1, <1>2 DEF PointOK, ShapeOK, Backward
  <1>4. CASE UNCHANGED vars
    <2>1. PointOK(s)'
      BY <1>2, <1>3 DEF PointOK, Posted, Claimed, Returned
    <2> QED  BY <1>1, <1>4, <2>1, WholeStep DEF SessionWhole, vars
  <1>5. CASE st[s] = "open" /\ Refuse(s)
    BY <1>2, <1>3, <1>5, RefusedWhole DEF Down
  <1> QED  BY <1>2, <1>4, <1>5

\* What is found settled under a key, committed or the transaction's own, stands.
LEMMA FoundStands ==
    ASSUME CallsInv, WholeInv, NEW s \in Sessions, NEW k \in Keys, NEW row,
           row = KeyRow(db, work[s], k), row # NoKey, row.txn # NoTxn,
           NEW c, c.key = k, c.hash = row.hash, c.txn = row.txn
    PROVE  Stands(db, work[s], c)
  <1>1. /\ work[s] \in Work /\ db \in Tables /\ TablesOK(db) /\ WorkOK(db, work[s])
        /\ WholeWork(db, work[s]) /\ WholeTables(db)
    BY DEF CallsInv, IInv, TypeOK, WholeInv, SessionWhole
  <1>2. row \in KeyRows
    BY <1>1 DEF KeyRow, Work, Tables
  <1>3. row = [hash |-> c.hash, txn |-> c.txn]
    BY <1>2 DEF KeyRows
  <1>4. CASE work[s].keys[k] # NoKey
    <2>1. row = work[s].keys[k]
      BY <1>4 DEF KeyRow
    <2>2. row.txn \in db.txns \cup work[s].txns
      BY <1>1, <1>4, <2>1 DEF WorkOK, KeysCaught
    <2>3. db.legs[row.txn] + work[s].legs[row.txn] = Len(LegsOf[row.hash])
      BY <1>1, <1>4, <2>1 DEF WholeWork, RowWhole
    <2> QED  BY <1>3, <2>2, <2>3 DEF Stands
  <1>5. CASE work[s].keys[k] = NoKey
    <2>1. row = db.keys[k]
      BY <1>5 DEF KeyRow
    <2>2. row.txn \in db.txns /\ db.legs[row.txn] = Len(LegsOf[row.hash])
      BY <1>1, <2>1 DEF TablesOK, WholeTables
    <2>3. row.txn \in Txns /\ work[s].legs[row.txn] = 0
      BY <1>1, <2>2 DEF WorkOK, EntriesCaught, WholeWork, OwnLegs, Tables
    <2>4. db.legs[row.txn] \in Nat
      BY <1>1, <2>3 DEF Tables
    <2> QED  BY <1>3, <2>2, <2>3, <2>4 DEF Stands
  <1> QED  BY <1>4, <1>5

LEMMA ReplaysWhole ==
    ASSUME CallsInv, WholeInv, NEW s \in Sessions, OthersStay(s), Replays(s)
    PROVE  WholeInv'
  <1> DEFINE k == call[s].key
             row == KeyRow(Seen(s), work[s], k)
             found == Found(row, call[s].hash)
  <1>1. at[s] = "replay" /\ at[s] # "caller"
    BY DEF Replays
  <1>2. /\ TypeOK /\ CallVarsOK /\ SessionWhole(s) /\ call[s] \in Calls
        /\ \A o \in Sessions : level[o] = "read committed"
    BY <1>1 DEF CallsInv, IInv, CallOK, ShapeOK, WholeInv, SessionWhole
  <1>3. Seen(s) = db
    BY <1>2 DEF Seen
  <1>4. CASE /\ UNCHANGED vars
             /\ at' = [at EXCEPT ![s] = "replay:release"]
             /\ outcome' = [outcome EXCEPT ![s] = found]
             /\ call' = IF found = "replayed" THEN [call EXCEPT ![s].txn = row.txn] ELSE call
    <2>1. at'[s] = "replay:release" /\ outcome'[s] = found
      BY <1>2, <1>4 DEF CallVarsOK
    <2>2. found = "replayed" => Stands(db, work[s], call'[s])
      <3> SUFFICES ASSUME found = "replayed"
                   PROVE  Stands(db, work[s], call'[s])
        OBVIOUS
      <3>1. row # NoKey /\ row.hash = call[s].hash /\ row.txn # NoTxn
        BY DEF Found
      <3>2. call'[s].key = k /\ call'[s].hash = row.hash /\ call'[s].txn = row.txn
        BY <1>2, <1>4, <3>1 DEF CallVarsOK, Calls
      <3>3. k \in Keys /\ row = KeyRow(db, work[s], k)
        BY <1>2, <1>3 DEF Calls
      <3> HIDE DEF row, k, found
      <3> QED  BY <3>1, <3>2, <3>3, FoundStands
    <2>3. PointOK(s)'
      BY <1>4, <2>1, <2>2 DEF PointOK, Posted, Claimed, Returned, vars
    <2> HIDE DEF found, row
    <2> QED  BY <1>2, <1>4, <2>3, WholeStep DEF SessionWhole, vars
  <1>5. CASE StatementRefused(s) /\ at' = [at EXCEPT ![s] = "caller"]
             /\ outcome' = [outcome EXCEPT ![s] = "failed"]
    <2>1. Down(s)
      BY <1>2, <1>5 DEF Down, CallVarsOK
    <2> QED  BY <1>5, <2>1, RefusedWhole DEF StatementRefused
  <1> QED  BY <1>4, <1>5 DEF Replays

-----------------------------------------------------------------------------
(* The caller's own steps.                                                 *)

LEMMA CallerWhole ==
    ASSUME CallsInv, WholeInv, NEW s \in Sessions, OthersStay(s), CallerBegins(s)
    PROVE  WholeInv'
  <1>1. /\ TypeOK /\ CallVarsOK /\ ShapeOK(s) /\ SessionWhole(s)
        /\ \A o \in Sessions : level[o] = "read committed"
    BY DEF CallsInv, IInv, CallOK, WholeInv, SessionWhole
  <1>2. /\ db' = db /\ work' = work /\ saved' = saved /\ depth' = depth
        /\ level' = [level EXCEPT ![s] = "read committed"]
        /\ st[s] = "idle" /\ at[s] = "caller" /\ at' = at /\ call' = call
    BY DEF CallerBegins, Begin, callVars
  <1>3. level'[s] = "read committed" /\ \A o \in Sessions : level'[o] = level[o]
    BY <1>1, <1>2 DEF TypeOK
  <1>4. call'[s].txn = NoTxn
    <2>1. call'[s] = NoCall
      BY <1>1, <1>2 DEF ShapeOK
    <2> QED  BY <2>1 DEF NoCall
  <1>5. PointOK(s)'
    BY <1>2, <1>4 DEF PointOK, Posted, Claimed, Returned
  <1> QED  BY <1>1, <1>2, <1>3, <1>5, WholeStep DEF SessionWhole

LEMMA CallerAsksWhole ==
    ASSUME CallsInv, WholeInv, NEW s \in Sessions, OthersStay(s), CallerAsks(s)
    PROVE  WholeInv'
  <1> DEFINE w == [work[s] EXCEPT !.immediate = @ \cup Constraints]
  <1>1. /\ TypeOK /\ CallVarsOK /\ ShapeOK(s) /\ WholeWork(db, work[s]) /\ work[s] \in Work
    BY DEF CallsInv, IInv, CallOK, WholeInv, SessionWhole, TypeOK
  <1>2. /\ at'[s] = "caller" /\ call'[s] = NoCall /\ outcome'[s] = "done" /\ st[s] = "open"
        /\ EndStatement(s, w)
    <2>1. NoCall \notin Calls
      BY DEF NoCall, Calls
    <2> QED  BY <1>1, <2>1 DEF CallerAsks, SetImmediate, callVars, ShapeOK
  <1>3. w \in Work /\ SameRows(w, work[s])
    BY <1>1 DEF Work, SameRows
  <1>4. WholeWork(db, w)
    BY <1>1, <1>3, SameRowsWhole
  <1>5. PointOK(s)' /\ Down(s)
    BY <1>2 DEF PointOK, Down, Posted, Claimed, Returned, NoCall
  <1> HIDE DEF w
  <1> QED  BY <1>2, <1>3, <1>4, <1>5, StatementWhole

LEMMA EntersWhole ==
    ASSUME CallsInv, WholeInv, NEW s \in Sessions, OthersStay(s),
           NEW f \in {"once", "post"}, NEW k \in Keys, NEW h \in Hashes, Enters(s, f, k, h)
    PROVE  WholeInv'
  <1>1. /\ TypeOK /\ CallVarsOK /\ SessionWhole(s) /\ \A o \in Sessions : level[o] = "read committed"
    BY DEF CallsInv, IInv, WholeInv, SessionWhole
  <1>2. at'[s] \in {"once:savepoint", "post:savepoint"} /\ UNCHANGED vars
    BY <1>1 DEF Enters, CallVarsOK
  <1>3. PointOK(s)'
    BY <1>2 DEF PointOK, Posted, Claimed, Returned
  <1> QED  BY <1>1, <1>2, <1>3, WholeStep DEF SessionWhole, vars

-----------------------------------------------------------------------------
(* The end of the caller's transaction.                                    *)

\* What is committed adds no leg to an entry somebody else holds, or to one already there.
LEMMA MergeAddsNone ==
    ASSUME NEW tables \in Tables, NEW f \in Work, WorkOK(tables, f), OwnLegs(f),
           NEW v \in Work, Apart(f, v), NEW t \in tables.txns \cup v.txns
    PROVE  t \in Txns /\ f.legs[t] = 0 /\ Merge(tables, f).legs[t] = tables.legs[t]
  <1>1. t \in Txns
    BY DEF Tables, Work
  <1>2. t \notin f.txns
    BY DEF WorkOK, EntriesCaught, Apart
  <1>3. f.legs[t] = 0 /\ tables.legs[t] \in Nat
    BY <1>1, <1>2 DEF OwnLegs, Tables
  <1>4. Merge(tables, f).legs[t] = tables.legs[t] + f.legs[t]
    BY <1>1 DEF Merge
  <1> QED  BY <1>1, <1>3, <1>4

\* Work apart from what is committed is as whole over the new tables.
LEMMA MergeKeepsWork ==
    ASSUME NEW tables \in Tables, NEW f \in Work, WorkOK(tables, f), OwnLegs(f),
           NEW v \in Work, Apart(f, v), WorkOK(tables, v), WholeWork(tables, v)
    PROVE  WholeWork(Merge(tables, f), v)
  <1> SUFFICES ASSUME NEW k \in Keys, v.keys[k] # NoKey, v.keys[k].txn # NoTxn
               PROVE  Merge(tables, f).legs[v.keys[k].txn] + v.legs[v.keys[k].txn]
                        = Len(LegsOf[v.keys[k].hash])
    BY DEF WholeWork, RowWhole
  <1>1. v.keys[k].txn \in tables.txns \cup v.txns
    BY DEF WorkOK, KeysCaught
  <1>2. Merge(tables, f).legs[v.keys[k].txn] = tables.legs[v.keys[k].txn]
    BY <1>1, MergeAddsNone
  <1> QED  BY <1>2 DEF WholeWork, RowWhole

\* And what a call has answered over such work stands over the new tables.
LEMMA MergeKeepsAnswers ==
    ASSUME NEW tables \in Tables, NEW f \in Work, WorkOK(tables, f), OwnLegs(f),
           NEW v \in Work, Apart(f, v), NEW c \in Calls, Stands(tables, v, c)
    PROVE  Stands(Merge(tables, f), v, c)
  <1>1. c.txn \in tables.txns \cup v.txns
    BY DEF Stands
  <1>2. /\ c.txn \in Txns /\ Merge(tables, f).legs[c.txn] = tables.legs[c.txn]
    BY <1>1, MergeAddsNone
  <1>3. Merge(tables, f).txns = tables.txns \cup f.txns
    BY DEF Merge
  <1>4. c.key \in Keys /\ [hash |-> c.hash, txn |-> c.txn] \in KeyRows
    BY <1>2 DEF Calls, KeyRows
  <1>5. v.keys[c.key] = NoKey /\ tables.keys[c.key] # NoKey =>
            Merge(tables, f).keys[c.key] = tables.keys[c.key]
    BY <1>4, MergeKeepsRecords
  <1>6. c.fn = "once" => KeyRow(Merge(tables, f), v, c.key) = KeyRow(tables, v, c.key)
    BY <1>4, <1>5, NullAssumption DEF Stands, KeyRow
  <1> QED  BY <1>1, <1>2, <1>3, <1>6 DEF Stands

\* A key is committed with its entry, and the entry with its legs.
LEMMA MergeIsWhole ==
    ASSUME NEW tables \in Tables, TablesOK(tables), WholeTables(tables),
           NEW f \in Work, WorkOK(tables, f), f.kdue = {}, WholeWork(tables, f)
    PROVE  WholeTables(Merge(tables, f))
  <1> SUFFICES ASSUME NEW k \in Keys, KeyRow(tables, f, k) # NoKey
               PROVE  Merge(tables, f).legs[KeyRow(tables, f, k).txn]
                        = Len(LegsOf[KeyRow(tables, f, k).hash])
    BY DEF WholeTables, Merge
  <1>1. CASE f.keys[k] # NoKey
    <2>1. f.keys[k].txn # NoTxn /\ f.keys[k].txn \in Txns /\ KeyRow(tables, f, k) = f.keys[k]
      BY <1>1 DEF WorkOK, KeysCaught, Work, KeyRow, KeyRows
    <2>2. Merge(tables, f).legs[f.keys[k].txn] = tables.legs[f.keys[k].txn] + f.legs[f.keys[k].txn]
      BY <2>1 DEF Merge
    <2> QED  BY <1>1, <2>1, <2>2 DEF WholeWork, RowWhole
  <1>2. CASE f.keys[k] = NoKey
    <2>1. KeyRow(tables, f, k) = tables.keys[k] /\ tables.keys[k] # NoKey
      BY <1>2 DEF KeyRow
    <2>2. tables.keys[k].txn \in tables.txns
      BY <2>1 DEF TablesOK
    <2>3. OwnLegs(f) /\ NoWork \in Work /\ Apart(f, NoWork)
      BY NoWorkType DEF WholeWork, Apart, NoWork
    <2>4. Merge(tables, f).legs[tables.keys[k].txn] = tables.legs[tables.keys[k].txn]
      BY <2>2, <2>3, MergeAddsNone
    <2> QED  BY <2>1, <2>4 DEF WholeTables
  <1> QED  BY <1>1, <1>2

\* A commit leaves every other session as whole as it was.
LEMMA CommitKeepsOthers ==
    ASSUME CallsInv, WholeInv, NEW s \in Sessions, NEW o \in Sessions \ {s}, OthersStay(s),
           level'[o] = level[o],
           NEW f \in Work, WorkOK(db, f), OwnLegs(f),
           f.txns = work[s].txns, f.touched = work[s].touched, db' = Merge(db, f)
    PROVE  SessionWhole(o)'
  <1>1. /\ TypeOK /\ CallVarsOK /\ db \in Tables /\ ShapeOK(o) /\ SessionWhole(o)
        /\ work[o] \in Work /\ WorkOK(db, work[o]) /\ SavepointsOK(o)
    BY DEF CallsInv, IInv, TypeOK, CallOK, WholeInv
  <1>2. /\ at'[o] = at[o] /\ call'[o] = call[o] /\ outcome'[o] = outcome[o] /\ st'[o] = st[o]
        /\ work'[o] = work[o] /\ saved'[o] = saved[o] /\ depth'[o] = depth[o]
    BY DEF OthersStay
  <1>3. Apart(work[s], work[o])
    BY DEF CallsInv, IInv
  <1>4. Apart(f, work[o])
    BY <1>3 DEF Apart
  <1>5. WholeWork(db', work[o])
    BY <1>1, <1>4, MergeKeepsWork DEF SessionWhole
  <1>6. ASSUME NEW d \in 1..depth[o]
        PROVE  WholeWork(db', saved[o][d])
    <2>1. d \in 1..Depth
      BY <1>1, BoundAssumption DEF TypeOK
    <2>2. saved[o][d] \in Work /\ WorkOK(db, saved[o][d]) /\ WholeWork(db, saved[o][d])
      BY <1>1, <2>1 DEF TypeOK, SavepointsOK, SessionWhole
    <2>3. Apart(f, saved[o][d])
      BY <1>1, <1>4 DEF SavepointsOK, Covers, Apart
    <2> QED  BY <1>1, <2>2, <2>3, MergeKeepsWork
  <1>7. Stands(db, work[o], call[o]) /\ call[o] \in Calls => Stands(db', work[o], call[o])
    BY <1>1, <1>4, MergeKeepsAnswers
  <1>8. call[o] \notin Calls => at[o] = "caller" /\ call[o].txn = NoTxn
    BY <1>1 DEF ShapeOK, NoCall
  <1>9. PointOK(o)'
    BY <1>1, <1>2, <1>7, <1>8 DEF SessionWhole, PointOK, Returned, Posted, Claimed
  <1> QED  BY <1>1, <1>2, <1>5, <1>6, <1>9 DEF SessionWhole

LEMMA EndsWhole ==
    ASSUME CallsInv, WholeInv, NEW s \in Sessions, OthersStay(s), CallerEnds(s) \/ ConnectionLost(s)
    PROVE  WholeInv'
  <1>1. /\ IInv /\ TypeOK /\ CallVarsOK /\ db \in Tables /\ TablesOK(db) /\ WholeTables(db)
        /\ \A o \in Sessions : level[o] = "read committed"
    BY DEF CallsInv, IInv, TypeOK, WholeInv, SessionWhole
  <1>2. EndTransaction(s) /\ Forgets(s)
    BY DEF CallerEnds, ConnectionLost, Commit, Rollback
  <1>3. level'[s] = "read committed" /\ \A o \in Sessions \ {s} : level'[o] = level[o]
    BY <1>1, <1>2 DEF EndTransaction, TypeOK
  <1>4. work'[s] = NoWork /\ depth'[s] = 0
    BY <1>1, <1>2 DEF EndTransaction, TypeOK
  <1>5. at'[s] = "caller" /\ call'[s] = NoCall /\ outcome'[s] = "done"
    BY <1>1, <1>2 DEF CallerEnds, ConnectionLost, CallVarsOK, Forgets
  <1>6. PointOK(s)'
    <2>1. call'[s].txn = NoTxn
      BY <1>5 DEF NoCall
    <2> QED  BY <1>5, <2>1 DEF PointOK, Posted, Claimed, Returned
  <1>7. CASE db' = db
    <2>1. WholeWork(db, work'[s]) /\ \A d \in 1..depth'[s] : WholeWork(db, saved'[s][d])
      BY <1>4, NoWorkWhole
    <2> QED  BY <1>3, <1>6, <1>7, <2>1, WholeStep
  <1>8. CASE Passes(Seen(s), work[s], Constraints) /\ db' = Merge(db, Fired(work[s], Constraints))
    <2> DEFINE f == Fired(work[s], Constraints)
    <2>1. /\ f \in Work /\ WorkOK(db, f) /\ f.kdue = {}
          /\ f.txns = work[s].txns /\ f.touched = work[s].touched
      BY <1>1, <1>8, CommitFacts
    <2>2. WholeWork(db, f)
      <3>1. work[s] \in Work /\ WholeWork(db, work[s])
        BY <1>1 DEF TypeOK, WholeInv, SessionWhole
      <3>2. SameRows(f, work[s])
        BY <3>1, FiredSameRows
      <3> HIDE DEF f
      <3> QED  BY <3>1, <3>2, SameRowsWhole
    <2>3. db' = Merge(db, f)
      BY <1>8
    <2> HIDE DEF f
    <2>4. OwnLegs(f)
      BY <2>2 DEF WholeWork
    <2>5. WholeTables(db)'
      <3>1. WholeTables(db')
        BY <1>1, <2>1, <2>2, <2>3, MergeIsWhole
      <3> QED  BY <3>1 DEF WholeTables
    <2>6. SessionWhole(s)'
      <3>1. WholeWork(db', work'[s]) /\ \A d \in 1..depth'[s] : WholeWork(db', saved'[s][d])
        BY <1>4, NoWorkWhole
      <3> QED  BY <1>3, <1>6, <3>1 DEF SessionWhole
    <2>7. \A o \in Sessions \ {s} : SessionWhole(o)'
      BY <1>3, <2>1, <2>3, <2>4, CommitKeepsOthers
    <2> QED  BY <2>5, <2>6, <2>7 DEF WholeInv
  <1> QED  BY <1>7, <1>8 DEF CallerEnds, ConnectionLost, Commit, Rollback

-----------------------------------------------------------------------------
(* The theorem.                                                            *)

LEMMA InitWhole == CallsInit => WholeInv
  <1> SUFFICES ASSUME CallsInit PROVE WholeInv
    OBVIOUS
  <1>1. WholeTables(db)
    BY DEF CallsInit, Init, WholeTables, NoRows
  <1>2. ASSUME NEW s \in Sessions
        PROVE  SessionWhole(s)
    <2>1. level[s] = "read committed"
      BY DEF CallsInit, Init
    <2>2. at[s] = "caller" /\ outcome[s] = "done" /\ st[s] = "idle" /\ work[s] = NoWork /\ depth[s] = 0
      BY DEF CallsInit, Init
    <2>3. WholeWork(db, work[s]) /\ \A d \in 1..depth[s] : WholeWork(db, saved[s][d])
      BY <2>2, NoWorkWhole
    <2>4. PointOK(s)
      BY <2>2 DEF PointOK, Posted, Claimed, Returned
    <2> QED  BY <2>1, <2>3, <2>4 DEF SessionWhole
  <1> QED  BY <1>1, <1>2 DEF WholeInv

\* Every step keeps whole what is whole.
LEMMA NextWhole ==
    ASSUME CallsInv, WholeInv, [CallsNext]_allVars
    PROVE  WholeInv'
  <1>1. CASE UNCHANGED allVars
    <2>1. /\ UNCHANGED <<db, st, level, work, saved, depth>> /\ UNCHANGED <<at, call, outcome>>
      BY <1>1 DEF allVars, vars, callVars
    <2>2. \A s \in Sessions : PointOK(s) => PointOK(s)'
      BY <2>1 DEF PointOK, Returned
    <2> QED  BY <2>1, <2>2 DEF WholeInv, SessionWhole
  <1>2. ASSUME NEW s \in Sessions, PostStep(s) \/ OnceStep(s) \/ CallerStep(s)
        PROVE  WholeInv'
    <2>1. OthersStay(s)
      BY <1>2, StepKept DEF CallsKept
    <2>2. CASE PostStep(s)
      BY <2>1, <2>2, SavesWhole, AsksWhole, EntryWhole, LegWhole, ReleasesWhole, BackWhole,
         ExplainsWhole DEF PostStep
    <2>3. CASE OnceStep(s)
      BY <2>1, <2>3, SavesWhole, AsksWhole, ReserveWhole, MeetsWhole, SettleWhole, ReleasesWhole,
         BackWhole, ReplaysWhole DEF OnceStep
    <2>4. CASE CallerStep(s)
      BY <2>1, <2>4, CallerWhole, CallerAsksWhole, EndsWhole, EntersWhole DEF CallerStep
    <2> QED  BY <1>2, <2>2, <2>3, <2>4
  <1> QED  BY <1>1, <1>2 DEF CallsNext

LEMMA WholeInvariance == CallsSpec => []WholeInv
  BY InitWhole, NextWhole, CallsInvariance, PTL DEF CallsSpec

\* What Once and Post return: the entry a caller is answered is there with every leg it was
\* asked for, its own or found under the key, and the key the caller claimed names it.  No
\* later statement, rollback or commit of another session takes any of it away.
THEOREM AnsweredCallsAlwaysStand == CallsSpec => []AnsweredCallsStand
  <1>1. WholeInv => AnsweredCallsStand
    BY DEF WholeInv, SessionWhole, PointOK, Stands, AnsweredCallsStand
  <1> QED  BY <1>1, WholeInvariance, PTL
=============================================================================
