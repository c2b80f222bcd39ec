--------------------------- MODULE Service_proofs ---------------------------
(***************************************************************************)
(* Service keeps its safety properties for any replicas, any connections   *)
(* and any deadlines.  Three parts that hardly touch: the types, the       *)
(* installation (InstallStep: who may have tables, and who knows of them)  *)
(* and the connections (CarryStep: when an open one can be cut).           *)
(***************************************************************************)
EXTENDS Service, TLAPS

\* A deadline that was settled is a number of ticks.
LEMMA RequestIsNat ==
    ASSUME setting \in Settings
    PROVE  Request \in Nat
  <1>1. setting.flag \in Int /\ setting.env \in Int \cup {Unset, Unreadable}
    BY ServiceAssumption
  <1>2. \A d \in Int : Positive(d) \in Nat
    BY DEF Positive, Refused
  <1>3. Refused \in Nat /\ Default \in Nat
    BY ServiceAssumption DEF Refused
  <1>4. CASE setting.flag # 0
    BY <1>1, <1>2, <1>4 DEF Request, Settled
  <1>5. CASE setting.flag = 0 /\ setting.env = Unset
    BY <1>3, <1>5 DEF Request, Settled
  <1>6. CASE setting.flag = 0 /\ setting.env = Unreadable
    BY <1>3, <1>6 DEF Request, Settled
  <1>7. CASE setting.flag = 0 /\ setting.env \notin {Unset, Unreadable}
    BY <1>1, <1>2, <1>7 DEF Request, Settled
  <1> QED  BY <1>4, <1>5, <1>6, <1>7

-----------------------------------------------------------------------------
(* Types.                                                                  *)

LEMMA TypeInit == Init => TypeOK
  <1> SUFFICES ASSUME Init  PROVE TypeOK
    OBVIOUS
  <1>1. left \in [Replicas -> 0..Drain] /\ faults \in 0..MaxFaults /\ claims \in Nat
    BY ServiceAssumption DEF Init
  <1>2. conn \in [Conns -> Connections]
    <2>1. NoConn \in Connections
      BY DEF NoConn, Connections, States
    <2> QED  BY <2>1 DEF Init
  <1>3. phase \in [Replicas -> {"down"} \cup Starting \cup Up \cup Gone]
    BY DEF Init
  <1> QED  BY <1>1, <1>2, <1>3 DEF Init, TypeOK, Sessions

\* What a field is set to is what the rest goes on with.
LEMMA ConnFields ==
    ASSUME NEW k \in Connections
    PROVE  /\ \A x \in States : [k EXCEPT !.state = x] \in Connections
           /\ \A n \in Nat : [k EXCEPT !.age = n] \in Connections
           /\ \A b \in BOOLEAN : [k EXCEPT !.waiting = b] \in Connections
           /\ \A x \in States, n \in Nat :
                [[k EXCEPT !.state = x] EXCEPT !.age = n] \in Connections
           /\ \A x \in States, b \in BOOLEAN :
                [[k EXCEPT !.state = x] EXCEPT !.waiting = b] \in Connections
           /\ \A x \in States, n \in Nat, b \in BOOLEAN :
                [[[k EXCEPT !.state = x] EXCEPT !.age = n] EXCEPT !.waiting = b] \in Connections
  BY DEF Connections

\* A process that dies leaves well-formed sessions and connections.
LEMMA TypeDies ==
    ASSUME TypeOK, NEW r \in Replicas, Dies(r), collided' \subseteq Replicas,
           faults' \in 0..MaxFaults
    PROVE  TypeOK'
  <1>1. conn' \in [Conns -> Connections]
    <2>1. "closed" \in States
      BY DEF States
    <2> QED  BY <2>1, ConnFields DEF Dies, TypeOK
  <1>2. tx' \in [Sessions -> {"none", "locked", "tables", "commit"}]
    BY DEF Dies, TypeOK, Sessions
  <1>3. phase' \in [Replicas -> {"down"} \cup Starting \cup Up \cup Gone]
    BY DEF Dies, Goto, TypeOK, Gone
  <1> QED  BY <1>1, <1>2, <1>3 DEF Dies, TypeOK

\* The steps of one replica that leave the connections alone.
LEMMA TypeStart ==
    ASSUME TypeOK, NEW r \in Replicas, Starts(r)
    PROVE  TypeOK'
  <1> USE DEF Goto, Elsewhere, Calls, installVars, Sessions, Starting, Calling, Up, Gone
  <1>1. CASE Configures(r) \/ Dials(r) \/ Probes(r) \/ Listens(r) \/ Restarts(r)
    BY <1>1 DEF TypeOK, Configures, Dials, Probes, Listens, Restarts
  <1>2. CASE DialFails(r) \/ CutOff(r)
    BY <1>2, TypeDies DEF TypeOK, DialFails, CutOff
  <1>3. CASE Locks(r) \/ CommitsNothing(r) \/ SendsCommit(r)
    BY <1>3 DEF TypeOK, Locks, CommitsNothing, SendsCommit, Released
  <1>4. CASE Applies(r)
    <2>1. CASE Collides(r)
      BY <1>4, <2>1, TypeDies DEF TypeOK, Applies
    <2>2. CASE ~Collides(r)
      BY <1>4, <2>2 DEF TypeOK, Applies
    <2> QED  BY <2>1, <2>2
  <1>5. CASE CommitAnswered(r)
    <2>1. claims' \in Nat
      <3>1. claims \in Nat
        BY DEF TypeOK
      <3>2. claims' = claims + 1
        BY <1>5 DEF CommitAnswered
      <3> QED  BY <3>1, <3>2
    <2>2. phase' \in [Replicas -> {"down"} \cup Starting \cup Up \cup Gone]
      BY <1>5 DEF TypeOK, CommitAnswered
    <2> QED  BY <1>5, <2>1, <2>2 DEF TypeOK, CommitAnswered
  <1> QED  BY <1>1, <1>2, <1>3, <1>4, <1>5 DEF Starts

LEMMA TypeCarry ==
    ASSUME TypeOK, NEW c \in Conns,
           Sends(c) \/ Begins(c) \/ BodyArrives(c) \/ HandsOver(c) \/ Carries(c)
    PROVE  TypeOK'
  <1>1. conn' \in [Conns -> Connections]
    <2> DEFINE k == conn[c]
    <2>0. k \in Connections /\ conn \in [Conns -> Connections]
      BY DEF TypeOK
    <2>1. ASSUME NEW k1 \in Connections, conn' = [conn EXCEPT ![c] = k1]
          PROVE  conn' \in [Conns -> Connections]
      BY <2>0, <2>1
    <2>2. {"reading", "working", "answering", "idle", "closed"} \subseteq States
      BY DEF States, Open, Active
    <2> USE <2>0, <2>2, ConnFields
    <2>3. CASE Sends(c)
      BY <2>3, <2>1 DEF Sends
    <2>4. CASE Begins(c)
      BY <2>4, <2>1 DEF Begins
    <2>5. CASE HandsOver(c)
      <3>1. PICK x \in {"closed", "idle"} :
                conn' = [conn EXCEPT ![c].state = x, ![c].age = 0, ![c].waiting = FALSE]
        BY <2>5 DEF HandsOver
      <3>2. x \in States
        OBVIOUS
      <3> QED  BY <3>1, <3>2, <2>1
    <2>6. ASSUME NEW x \in States, Moves(c, x)
          PROVE  conn' \in [Conns -> Connections]
      BY <2>1, <2>6 DEF Moves
    <2> QED
      BY <2>3, <2>4, <2>5, <2>6 DEF BodyArrives, Carries, Answers, TimesOut, ClosesIdle
  <1>2. UNCHANGED <<setting, installVars, phase, signalled, left, faults>>
    BY DEF Sends, Begins, BodyArrives, HandsOver, Carries, Answers, TimesOut, ClosesIdle, Outside
  <1> QED  BY <1>1, <1>2 DEF TypeOK, installVars

LEMMA TypeStep == TypeOK /\ [Next]_vars => TypeOK'
  <1> SUFFICES ASSUME TypeOK, [Next]_vars  PROVE TypeOK'
    OBVIOUS
  <1>1. ASSUME NEW r \in Replicas, Starts(r)
        PROVE  TypeOK'
    BY <1>1, TypeStart
  <1>2. ASSUME NEW r \in Replicas, LockTimesOut(r) \/ Breaks(r)
        PROVE  TypeOK'
    <2>1. CASE LockTimesOut(r)
      BY <2>1, TypeDies DEF TypeOK, LockTimesOut
    <2>2. CASE Breaks(r)
      <3>1. faults' \in 0..MaxFaults
        BY <2>2, ServiceAssumption DEF TypeOK, Breaks
      <3> QED  BY <2>2, <3>1, TypeDies DEF TypeOK, Breaks
    <2> QED  BY <1>2, <2>1, <2>2
  <1>3. ASSUME NEW r \in Replicas, Signal(r) \/ StartsDrain(r)
        PROVE  TypeOK'
    BY <1>3 DEF TypeOK, Signal, StartsDrain, Goto, installVars, Up
  <1>4. ASSUME NEW r \in Replicas, Stops(r) \/ GivesUp(r)
        PROVE  TypeOK'
    <2>1. PICK p \in Gone : Exits(r, p)
      BY <1>4 DEF Stops, GivesUp, Gone
    <2>2. conn' \in [Conns -> Connections]
      <3> SUFFICES ASSUME NEW c \in Conns
                   PROVE  conn'[c] \in Connections
        BY <2>1 DEF Exits
      <3>1. conn[c] \in Connections
        BY DEF TypeOK
      <3>2. {"closed", "cut reading", "cut working", "cut answering"} \subseteq States
        BY DEF States, Cut
      <3>3. conn'[c] = conn[c] \/ \E x \in States : conn'[c] = [conn[c] EXCEPT !.state = x]
        BY <2>1, <3>2 DEF Exits
      <3> QED  BY <3>1, <3>3, ConnFields
    <2> QED  BY <2>1, <2>2 DEF TypeOK, Exits, Goto, installVars
  <1>5. ASSUME NEW c \in Conns, Sends(c) \/ Begins(c) \/ BodyArrives(c) \/ HandsOver(c) \/ Carries(c)
        PROVE  TypeOK'
    BY <1>5, TypeCarry
  <1>6. ASSUME NEW c \in Conns, NEW r \in Replicas, Connects(c, r)
        PROVE  TypeOK'
    <2>1. [NoConn EXCEPT !.at = r, !.state = "new"] \in Connections
      BY DEF NoConn, Connections, States, Open
    <2> QED  BY <1>6, <2>1 DEF TypeOK, Connects, Outside, installVars
  <1>7. CASE DatabaseComes
    BY <1>7 DEF TypeOK, DatabaseComes, Elsewhere
  <1>8. ASSUME NEW s \in Sessions, ServerCommits(s)
        PROVE  TypeOK'
    BY <1>8 DEF TypeOK, ServerCommits, Released, Elsewhere
  <1>9. CASE ServerRollsBack
    BY <1>9 DEF TypeOK, ServerRollsBack, Elsewhere
  <1>10. CASE Tick
    <2>1. left' \in [Replicas -> 0..Drain]
      <3>1. ASSUME NEW r \in Replicas
            PROVE  left'[r] \in 0..Drain
        <4>1. left[r] \in 0..Drain /\ Drain \in Nat
          BY ServiceAssumption DEF TypeOK
        <4>2. phase[r] = "draining" => ~(left[r] >= Drain)
          BY <1>10 DEF Tick, Due, DrainIsOver
        <4>3. left'[r] = left[r] + (IF phase[r] = "draining" THEN 1 ELSE 0)
          BY <1>10 DEF Tick
        <4> QED  BY <4>1, <4>2, <4>3
      <3> QED  BY <1>10, <3>1 DEF Tick
    <2>2. conn' \in [Conns -> Connections]
      <3>1. ASSUME NEW c \in Conns
            PROVE  conn'[c] \in Connections
        <4>1. conn[c] \in Connections /\ conn[c].age \in Nat
          BY DEF TypeOK, Connections
        <4>2. conn'[c] = conn[c] \/ conn'[c] = [conn[c] EXCEPT !.age = conn[c].age + 1]
          BY <1>10 DEF Tick
        <4>3. conn[c].age + 1 \in Nat
          BY <4>1
        <4>4. [conn[c] EXCEPT !.age = conn[c].age + 1] \in Connections
          BY <4>1, <4>3, ConnFields
        <4> QED  BY <4>1, <4>2, <4>4
      <3> QED  BY <1>10, <3>1 DEF Tick
    <2> QED  BY <1>10, <2>1, <2>2 DEF TypeOK, Tick, installVars
  <1>11. CASE UNCHANGED vars
    BY <1>11 DEF TypeOK, vars, installVars
  <1> QED
    BY <1>1, <1>2, <1>3, <1>4, <1>5, <1>6, <1>7, <1>8, <1>9, <1>10, <1>11 DEF Next, Ends, Settles

-----------------------------------------------------------------------------
(* The installation.                                                       *)

InstallOK ==
    /\ NoReplicaCollides /\ AppliedByOne /\ OneAtATime
    /\ \A r \in Replicas : StartOK(r)

LEMMA InstallInit == Init => InstallOK
  BY DEF Init, Sessions, InstallOK, NoReplicaCollides, AppliedByOne, OneAtATime, StartOK, Up

\* A process may die at any point: what it had becomes the session nobody waits on.
LEMMA InstallDies ==
    ASSUME TypeOK, InstallOK, NEW r \in Replicas, phase[r] \in Starting \cup Up,
           Dies(r), UNCHANGED collided
    PROVE  InstallOK'
  <1> USE DEF InstallOK, OneAtATime, TypeOK, Sessions, Dies, Goto
  <1>1. \A q \in Replicas : tx'[q] = IF q = r THEN "none" ELSE tx[q]
    BY ServiceAssumption
  <1>2. tx'[Left] = IF tx[r] = "none" THEN tx[Left] ELSE tx[r]
    BY ServiceAssumption
  <1>3. NoReplicaCollides' /\ AppliedByOne'
    BY DEF NoReplicaCollides, AppliedByOne
  <1>4. OneAtATime'
    <2>1. \A s \in Sessions : tx'[s] = "none" \/ tx'[s] = tx[s] \/ (s = Left /\ tx'[s] = tx[r])
      BY <1>1, <1>2
    <2>2. tx'[r] = "none" /\ Left \notin Replicas
      BY <1>1, ServiceAssumption
    <2>3. \A s, t \in Sessions : s # t => tx'[s] = "none" \/ tx'[t] = "none"
      BY <2>1, <2>2
    <2>4. \A q, p \in Replicas : phase'[q] = "in flight" /\ phase'[p] = "in flight" => q = p
      OBVIOUS
    <2>5. \A s \in Sessions : tx'[s] \in {"tables", "commit"} => ~schema'
      BY <2>1
    <2> QED  BY <2>3, <2>4, <2>5
  <1>5. ASSUME NEW q \in Replicas
        PROVE  StartOK(q)'
    BY <1>1 DEF StartOK, Up
  <1> QED  BY <1>3, <1>4, <1>5

LEMMA InstallStart ==
    ASSUME TypeOK, InstallOK, NEW r \in Replicas, Starts(r)
    PROVE  InstallOK'
  <1> USE DEF InstallOK, Goto, Elsewhere, Calls, installVars
  <1>1. \A s \in Sessions \ {r} : tx[r] # "none" => tx[s] = "none"
    BY DEF OneAtATime, Sessions
  <1>2. CASE Configures(r) \/ Dials(r) \/ Probes(r) \/ Listens(r) \/ Restarts(r)
    <2>0. /\ UNCHANGED <<schema, tx, claims, collided>>
          /\ phase' = [phase EXCEPT ![r] = phase'[r]]
          /\ phase'[r] # "in flight"
      BY <1>2 DEF Configures, Dials, Probes, Listens, Restarts, TypeOK
    <2>1. NoReplicaCollides' /\ AppliedByOne' /\ OneAtATime'
      BY <2>0 DEF NoReplicaCollides, AppliedByOne, OneAtATime, TypeOK
    <2>2. ASSUME NEW q \in Replicas
          PROVE  StartOK(q)'
      <3>1. CASE q # r
        BY <2>0, <3>1 DEF StartOK, TypeOK
      <3>2. CASE q = r
        <4> USE DEF StartOK, TypeOK, Up
        <4>1. CASE Configures(r)
          BY <2>0, <3>2, <4>1 DEF Configures
        <4>2. CASE Dials(r)
          BY <2>0, <3>2, <4>2 DEF Dials
        <4>3. CASE Restarts(r)
          BY <2>0, <3>2, <4>3 DEF Restarts
        <4>4. CASE Probes(r)
          <5>1. tx[r] = "locked" /\ phase' = [phase EXCEPT ![r] = IF schema THEN "present" ELSE "applying"]
            BY <4>4 DEF Probes
          <5>2. CASE schema
            BY <2>0, <3>2, <5>1, <5>2
          <5>3. CASE ~schema
            BY <2>0, <3>2, <5>1, <5>3
          <5> QED  BY <5>2, <5>3
        <4>5. CASE Listens(r)
          <5>1. schema /\ tx[r] = "none"
            BY <4>5 DEF Listens
          <5> QED  BY <2>0, <3>2, <4>5, <5>1 DEF Listens
        <4> QED  BY <1>2, <4>1, <4>2, <4>3, <4>4, <4>5
      <3> QED  BY <3>1, <3>2
    <2> QED  BY <2>1, <2>2
  <1>3. CASE DialFails(r) \/ CutOff(r)
    BY <1>3, InstallDies DEF DialFails, CutOff, Starting, Calling
  <1>4. CASE Locks(r)
    <2>1. NoReplicaCollides' /\ AppliedByOne' /\ OneAtATime'
      BY <1>4 DEF Locks, LockFree, NoReplicaCollides, AppliedByOne, OneAtATime, TypeOK, Sessions
    <2>2. ASSUME NEW q \in Replicas
          PROVE  StartOK(q)'
      BY <1>4 DEF Locks, StartOK, TypeOK, Sessions, Up
    <2> QED  BY <2>1, <2>2
  <1>5. CASE Applies(r)
    <2>1. tx[r] = "locked" /\ ~schema
      BY <1>5 DEF Applies, StartOK
    <2>2. ~Collides(r)
      BY <1>1, <2>1 DEF Collides
    <2>3. /\ phase' = [phase EXCEPT ![r] = "applied"]
          /\ tx' = [tx EXCEPT ![r] = "tables"]
          /\ UNCHANGED <<schema, claims, collided>>
      BY <1>5, <2>2 DEF Applies
    <2>4. NoReplicaCollides' /\ AppliedByOne' /\ OneAtATime'
      BY <1>1, <2>1, <2>3 DEF NoReplicaCollides, AppliedByOne, OneAtATime, TypeOK, Sessions
    <2>5. ASSUME NEW q \in Replicas
          PROVE  StartOK(q)'
      BY <2>1, <2>3 DEF StartOK, TypeOK, Sessions, Up
    <2> QED  BY <2>4, <2>5
  <1>6. CASE CommitsNothing(r)
    <2>1. NoReplicaCollides' /\ AppliedByOne' /\ OneAtATime'
      BY <1>6 DEF CommitsNothing, Released, NoReplicaCollides, AppliedByOne, OneAtATime, TypeOK,
                  Sessions
    <2>2. ASSUME NEW q \in Replicas
          PROVE  StartOK(q)'
      BY <1>6 DEF CommitsNothing, Released, StartOK, TypeOK, Sessions, Up
    <2> QED  BY <2>1, <2>2
  <1>7. CASE SendsCommit(r)
    <2>1. tx[r] = "tables" /\ ~schema /\ claims = 0
      <3>1. tx[r] = "tables" /\ ~schema
        BY <1>7 DEF SendsCommit, StartOK, OneAtATime, Sessions
      <3>2. claims \in Nat /\ claims <= 1 /\ claims # 1
        BY <3>1 DEF AppliedByOne, TypeOK
      <3> QED  BY <3>1, <3>2
    <2>2. \A q \in Replicas : phase[q] # "in flight"
      BY <1>1, <2>1 DEF StartOK, Sessions
    <2>3. NoReplicaCollides' /\ AppliedByOne' /\ OneAtATime'
      BY <1>1, <1>7, <2>1, <2>2
      DEF SendsCommit, NoReplicaCollides, AppliedByOne, OneAtATime, TypeOK, Sessions
    <2>4. ASSUME NEW q \in Replicas
          PROVE  StartOK(q)'
      BY <1>7, <2>1 DEF SendsCommit, StartOK, TypeOK, Sessions, Up
    <2> QED  BY <2>3, <2>4
  <1>8. CASE CommitAnswered(r)
    <2>1. claims = 0 /\ tx[r] = "none" /\ schema
      BY <1>8 DEF CommitAnswered, Committed, StartOK
    <2>2. \A q \in Replicas \ {r} : phase[q] # "in flight"
      BY <1>8 DEF CommitAnswered, OneAtATime
    <2>3. NoReplicaCollides' /\ AppliedByOne' /\ OneAtATime'
      <3>1. claims' = claims + 1 /\ UNCHANGED schema
        BY <1>8 DEF CommitAnswered
      <3>2. AppliedByOne'
        <4>1. claims' = 1
          BY <2>1, <3>1
        <4> QED  BY <2>1, <3>1, <4>1 DEF AppliedByOne
      <3> QED  BY <1>8, <3>2 DEF CommitAnswered, NoReplicaCollides, OneAtATime, TypeOK
    <2>4. ASSUME NEW q \in Replicas
          PROVE  StartOK(q)'
      BY <1>8, <2>1, <2>2 DEF CommitAnswered, StartOK, TypeOK, Up
    <2> QED  BY <2>3, <2>4
  <1> QED  BY <1>2, <1>3, <1>4, <1>5, <1>6, <1>7, <1>8 DEF Starts

LEMMA InstallStep == TypeOK /\ InstallOK /\ [Next]_vars => InstallOK'
  <1> SUFFICES ASSUME TypeOK, InstallOK, [Next]_vars  PROVE InstallOK'
    OBVIOUS
  <1>1. ASSUME NEW r \in Replicas, Starts(r)
        PROVE  InstallOK'
    BY <1>1, InstallStart
  <1>2. ASSUME NEW r \in Replicas, LockTimesOut(r) \/ Breaks(r)
        PROVE  InstallOK'
    BY <1>2, InstallDies DEF LockTimesOut, Breaks, Starting, Calling
  <1>3. ASSUME NEW r \in Replicas, Ends(r)
        PROVE  InstallOK'
    <2>1. /\ UNCHANGED installVars
          /\ \A q \in Replicas : phase'[q] = phase[q] \/ (phase[q] \in Up /\ phase'[q] \in Up \cup Gone)
      BY <1>3 DEF Ends, StartsDrain, Stops, GivesUp, Exits, Goto, TypeOK, Up, Gone
    <2>2. NoReplicaCollides' /\ AppliedByOne' /\ OneAtATime'
      BY <2>1 DEF installVars, InstallOK, NoReplicaCollides, AppliedByOne, OneAtATime, Up, Gone
    <2>3. ASSUME NEW q \in Replicas
          PROVE  StartOK(q)'
      BY <2>1 DEF installVars, InstallOK, StartOK, Up, Gone
    <2> QED  BY <2>2, <2>3 DEF InstallOK
  <1>4. ASSUME NEW s \in Sessions, ServerCommits(s)
        PROVE  InstallOK'
    <2> USE DEF ServerCommits, Released, Elsewhere
    <2>1. \A t \in Sessions : tx'[t] = "none"
      BY <1>4 DEF InstallOK, OneAtATime, TypeOK
    <2>2. \A t \in Sessions \ {s} : tx[t] = "none"
      BY <1>4 DEF InstallOK, OneAtATime
    <2>3. NoReplicaCollides' /\ AppliedByOne' /\ OneAtATime'
      BY <1>4, <2>1 DEF InstallOK, NoReplicaCollides, AppliedByOne, OneAtATime
    <2>4. ASSUME NEW q \in Replicas
          PROVE  StartOK(q)'
      <3>1. phase[q] \notin {"probing", "applying", "present", "applied"}
        BY <1>4, <2>2 DEF InstallOK, StartOK, Sessions
      <3> QED  BY <1>4, <2>1, <3>1 DEF InstallOK, StartOK, Sessions, Up
    <2> QED  BY <2>3, <2>4 DEF InstallOK
  <1>5. CASE ServerRollsBack
    <2>1. \A r \in Replicas : tx'[r] = tx[r]
      BY <1>5, ServiceAssumption DEF ServerRollsBack, TypeOK, Sessions
    <2>2. NoReplicaCollides' /\ AppliedByOne' /\ OneAtATime'
      BY <1>5 DEF ServerRollsBack, Elsewhere, InstallOK, NoReplicaCollides, AppliedByOne,
                  OneAtATime, TypeOK, Sessions
    <2>3. ASSUME NEW q \in Replicas
          PROVE  StartOK(q)'
      BY <1>5, <2>1 DEF ServerRollsBack, InstallOK, StartOK
    <2> QED  BY <2>2, <2>3 DEF InstallOK
  <1>6. CASE UNCHANGED <<schema, tx, claims, collided, phase>>
    <2>1. NoReplicaCollides' /\ AppliedByOne' /\ OneAtATime'
      BY <1>6 DEF InstallOK, NoReplicaCollides, AppliedByOne, OneAtATime
    <2>2. ASSUME NEW q \in Replicas
          PROVE  StartOK(q)'
      BY <1>6 DEF InstallOK, StartOK
    <2> QED  BY <2>1, <2>2 DEF InstallOK
  <1>7. ASSUME NEW c \in Conns, Sends(c) \/ Begins(c) \/ BodyArrives(c) \/ HandsOver(c) \/ Carries(c)
        PROVE  UNCHANGED <<schema, tx, claims, collided, phase>>
    BY <1>7 DEF Sends, Begins, BodyArrives, HandsOver, Carries, Answers, TimesOut, ClosesIdle, Outside,
                installVars
  <1>8. ASSUME NEW c \in Conns, NEW r \in Replicas, Connects(c, r)
        PROVE  UNCHANGED <<schema, tx, claims, collided, phase>>
    BY <1>8 DEF Connects, Outside, installVars
  <1>9. ASSUME (\E r \in Replicas : Signal(r)) \/ DatabaseComes \/ Tick \/ UNCHANGED vars
        PROVE  UNCHANGED <<schema, tx, claims, collided, phase>>
    BY <1>9 DEF Signal, DatabaseComes, Tick, vars, installVars
  <1> QED
    BY <1>1, <1>2, <1>3, <1>4, <1>5, <1>6, <1>7, <1>8, <1>9 DEF Next, Settles

-----------------------------------------------------------------------------
(* The connections.                                                        *)

AllCarried == \A c \in Conns : CarryOK(c)

LEMMA CarryInit == Init => AllCarried
  <1> SUFFICES ASSUME Init, NEW c \in Conns  PROVE CarryOK(c)
    BY DEF AllCarried
  <1>1. conn[c].state = "none"
    BY DEF Init, NoConn
  <1> QED  BY <1>1 DEF CarryOK, Open, Active, Cut

\* All a connection asks of a step that leaves it alone.
LEMMA CarryAlone ==
    ASSUME AllCarried, NEW c \in Conns, conn'[c] = conn[c], setting' = setting,
           conn[c].state \in Open => phase'[conn[c].at] \in Up,
           conn[c].state \in Cut =>
                phase'[conn[c].at] = "gave up" /\ left'[conn[c].at] = left[conn[c].at]
    PROVE  CarryOK(c)'
  <1>1. Request' = Request
    BY DEF Request
  <1>2. CarryOK(c)
    BY DEF AllCarried
  <1>3. /\ conn'[c].state = "working" => conn'[c].age <= Request'
        /\ conn'[c].state = "cut working" /\ Request' <= Drain =>
                conn'[c].age <= left'[conn'[c].at]
    BY <1>1, <1>2 DEF CarryOK, Cut
  <1>4. /\ conn'[c].state \in Open => conn'[c].at \in Replicas /\ phase'[conn'[c].at] \in Up
        /\ conn'[c].state \in Cut => conn'[c].at \in Replicas /\ phase'[conn'[c].at] = "gave up"
    BY <1>2 DEF CarryOK
  <1> QED  BY <1>3, <1>4 DEF CarryOK

\* A replica moves among the phases a connection can see, and no connection is its own.
LEMMA CarryPhase ==
    ASSUME TypeOK, AllCarried, NEW r \in Replicas,
           phase' = [phase EXCEPT ![r] = phase'[r]],
           phase[r] # "gave up", phase[r] \in Up => phase'[r] \in Up,
           UNCHANGED <<setting, left, conn>>
    PROVE  AllCarried'
  <1> SUFFICES ASSUME NEW c \in Conns
               PROVE  CarryOK(c)'
    BY DEF AllCarried
  <1>1. CarryOK(c)
    BY DEF AllCarried
  <1>2. \A q \in Replicas : phase[q] \in Up => phase'[q] \in Up
    BY DEF TypeOK
  <1>3. \A q \in Replicas : phase[q] = "gave up" => phase'[q] = "gave up"
    BY DEF TypeOK
  <1> QED  BY <1>1, <1>2, <1>3, CarryAlone DEF CarryOK

\* A process that dies closes what was open on it and cuts nothing.
LEMMA CarryDies ==
    ASSUME TypeOK, AllCarried, NEW r \in Replicas, phase[r] \in Starting \cup Up, Dies(r)
    PROVE  AllCarried'
  <1> SUFFICES ASSUME NEW c \in Conns
               PROVE  CarryOK(c)'
    BY DEF AllCarried
  <1>1. CarryOK(c)
    BY DEF AllCarried
  <1>2. CASE conn[c].at = r /\ conn[c].state \in Open
    <2>1. conn'[c].state = "closed"
      BY <1>2 DEF Dies, TypeOK, Connections
    <2> QED  BY <2>1 DEF CarryOK, Open, Active, Cut
  <1>3. CASE ~(conn[c].at = r /\ conn[c].state \in Open)
    <2>1. conn'[c] = conn[c] /\ UNCHANGED <<setting, left>>
      BY <1>3 DEF Dies
    <2>2. phase' = [phase EXCEPT ![r] = "failed"] /\ phase[r] # "gave up"
      BY DEF Dies, Goto, Starting, Calling, Up
    <2> QED  BY <1>1, <1>3, <2>1, <2>2, CarryAlone DEF CarryOK, TypeOK
  <1> QED  BY <1>2, <1>3

\* What is left of a drain is a number of ticks, and none added changes none.
LEMMA LeftIsNat ==
    ASSUME TypeOK, NEW r \in Replicas
    PROVE  left[r] \in Nat /\ left[r] + 0 = left[r]
  <1>1. left \in [Replicas -> 0..Drain]
    BY DEF TypeOK
  <1>2. Drain \in Nat
    BY ServiceAssumption
  <1>3. left[r] \in 0..Drain
    BY <1>1
  <1>4. \A n \in 0..Drain : n \in Nat /\ n + 0 = n
    BY <1>2
  <1> QED  BY <1>3, <1>4

\* Three comparisons in a row.
LEMMA Chain ==
    ASSUME NEW a \in Nat, NEW b \in Nat, NEW d \in Nat, NEW e \in Nat, a <= b, b <= d, d <= e
    PROVE  a <= e
  OBVIOUS

\* A drain that gives up has lasted longer than any request its budget began before it.
LEMMA CarryExits ==
    ASSUME TypeOK, AllCarried, NEW r \in Replicas, Stops(r) \/ GivesUp(r)
    PROVE  AllCarried'
  <1> SUFFICES ASSUME NEW c \in Conns
               PROVE  CarryOK(c)'
    BY DEF AllCarried
  <1>0. PICK p \in {"stopped", "gave up"} : Exits(r, p)
    BY DEF Stops, GivesUp
  <1>1. CarryOK(c) /\ phase[r] = "draining" /\ conn[c] \in Connections
    BY DEF AllCarried, Stops, GivesUp, TypeOK
  <1>2. /\ phase' = [phase EXCEPT ![r] = p]
        /\ UNCHANGED <<setting, left>>
    BY <1>0 DEF Exits, Goto
  <1>3. CASE conn[c].at # r \/ conn[c].state \notin Open
    <2>1. conn'[c] = conn[c]
      BY <1>0, <1>3 DEF Exits, Open, Active
    <2> QED  BY <1>1, <1>2, <1>3, <2>1, CarryAlone DEF CarryOK, TypeOK
  <1>4. CASE conn[c].at = r /\ conn[c].state \in {"new", "idle"}
    <2>1. conn'[c] = [conn[c] EXCEPT !.state = "closed"]
      BY <1>0, <1>4 DEF Exits
    <2>2. conn'[c].state = "closed"
      BY <1>1, <2>1 DEF Connections
    <2> QED  BY <2>2 DEF CarryOK, Open, Active, Cut
  <1>5. CASE conn[c].at = r /\ conn[c].state \in Active
    <2>1. GivesUp(r)
      BY <1>5 DEF Stops, Quiescent, Open
    <2>2. phase'[r] = "gave up" /\ left'[r] = left[r] /\ left[r] >= Drain
      BY <2>1 DEF GivesUp, DrainIsOver, Exits, Goto, TypeOK
    <2>3. ASSUME NEW x \in {"cut reading", "cut answering"}, conn'[c] = [conn[c] EXCEPT !.state = x]
          PROVE  CarryOK(c)'
      <3>1. conn'[c].state = x /\ conn'[c].at = r
        BY <1>1, <1>5, <2>3 DEF Connections
      <3> QED  BY <2>2, <3>1 DEF CarryOK, Open, Active, Cut
    <2>4. CASE conn[c].state = "reading"
      BY <1>0, <1>5, <2>3, <2>4 DEF Exits
    <2>5. CASE conn[c].state = "answering"
      BY <1>0, <1>5, <2>3, <2>5 DEF Exits
    <2>6. CASE conn[c].state = "working"
      <3>1. conn'[c] = [conn[c] EXCEPT !.state = "cut working"]
        BY <1>0, <1>5, <2>6 DEF Exits
      <3>2. conn'[c].state = "cut working" /\ conn'[c].at = r /\ conn'[c].age = conn[c].age
        BY <1>1, <1>5, <3>1 DEF Connections
      <3>3. conn[c].age <= Request /\ Request' = Request
        BY <1>1, <1>2, <2>6 DEF CarryOK, Request
      <3>4. Request <= Drain => conn[c].age <= left[r]
        <4>1. conn[c].age \in Nat /\ Request \in Nat
          BY <1>1, RequestIsNat DEF TypeOK, Connections
        <4>2. Drain \in Nat
          BY ServiceAssumption
        <4>3. left[r] \in Nat
          BY LeftIsNat
        <4>4. conn[c].age <= Request /\ Drain <= left[r]
          BY <2>2, <3>3, <4>2, <4>3
        <4> QED  BY <4>1, <4>2, <4>3, <4>4, Chain
      <3> QED  BY <2>2, <3>2, <3>3, <3>4 DEF CarryOK, Open, Active, Cut
    <2> QED  BY <1>5, <2>4, <2>5, <2>6 DEF Active
  <1> QED  BY <1>3, <1>4, <1>5 DEF Open

\* A connection that moves of itself is open on the same process, or closed.
LEMMA CarryMoves ==
    ASSUME TypeOK, AllCarried, NEW c \in Conns,
           Sends(c) \/ Begins(c) \/ BodyArrives(c) \/ HandsOver(c) \/ Carries(c)
    PROVE  AllCarried'
  <1>1. UNCHANGED <<setting, phase, left>>
    BY DEF Sends, Begins, BodyArrives, HandsOver, Carries, Answers, TimesOut, ClosesIdle, Outside
  <1>2. /\ conn[c] \in Connections /\ CarryOK(c) /\ conn[c].state \in Open
        /\ conn[c].at \in Replicas /\ phase[conn[c].at] \in Up
    <2>1. conn[c] \in Connections /\ CarryOK(c)
      BY DEF TypeOK, AllCarried
    <2>2. conn[c].state \in Open
      BY DEF Open, Active, Sends, Begins, BodyArrives, HandsOver, Carries, Answers, TimesOut,
             TimedOut, ClosesIdle, CountsIdle
    <2> QED  BY <2>1, <2>2 DEF CarryOK
  <1>3. \A d \in Conns \ {c} : conn'[d] = conn[d]
    BY DEF TypeOK, Sends, Begins, BodyArrives, HandsOver, Carries, Answers, TimesOut, ClosesIdle, Moves
  <1>4. /\ conn'[c].at = conn[c].at
        /\ conn'[c].state \in Open \cup {"closed"}
        /\ conn'[c].state = "working" => conn'[c].age = conn[c].age
    <2> USE <1>2 DEF TypeOK, Connections, Open, Active
    <2>1. CASE Sends(c)
      BY <2>1 DEF Sends
    <2>2. CASE Begins(c)
      BY <2>2 DEF Begins
    <2>3. CASE HandsOver(c)
      <3>1. PICK x \in {"closed", "idle"} :
                conn' = [conn EXCEPT ![c].state = x, ![c].age = 0, ![c].waiting = FALSE]
        BY <2>3 DEF HandsOver
      <3> QED  BY <3>1
    <2>4. ASSUME NEW x \in Active \cup {"closed"}, Moves(c, x)
          PROVE  /\ conn'[c].at = conn[c].at /\ conn'[c].age = conn[c].age
                 /\ conn'[c].state \in Open \cup {"closed"}
      BY <2>4 DEF Moves
    <2> QED
      BY <2>1, <2>2, <2>3, <2>4 DEF BodyArrives, Carries, Answers, TimesOut, ClosesIdle
  <1>5. conn'[c].state = "working" => conn[c].age <= Request
    <2>1. CASE conn[c].state = "working"
      BY <1>2, <2>1 DEF CarryOK
    <2>2. CASE conn'[c].state = "working" /\ conn[c].state # "working"
      <3>1. conn'[c].state \in {"idle", "closed", "reading", "answering", conn[c].state} \/ BodyArrives(c)
        <4> USE <1>2 DEF TypeOK, Connections
        <4>1. CASE Sends(c) \/ Begins(c)
          BY <4>1 DEF Sends, Begins
        <4>2. CASE HandsOver(c)
          <5>1. PICK x \in {"closed", "idle"} :
                    conn' = [conn EXCEPT ![c].state = x, ![c].age = 0, ![c].waiting = FALSE]
            BY <4>2 DEF HandsOver
          <5> QED  BY <5>1
        <4>3. CASE Answers(c) \/ TimesOut(c) \/ ClosesIdle(c)
          BY <4>3 DEF Answers, TimesOut, ClosesIdle, Moves
        <4> QED  BY <4>1, <4>2, <4>3 DEF Carries
      <3>2. BodyArrives(c)
        BY <2>2, <3>1
      <3>3. ~OutOfBudget(c)
        BY <1>2, <2>2, <3>2 DEF BodyArrives, Moves, TypeOK, Connections
      <3>4. conn[c].age \in Nat /\ Request \in Nat
        BY <1>2, RequestIsNat DEF TypeOK, Connections
      <3> QED  BY <3>3, <3>4 DEF OutOfBudget
    <2> QED  BY <2>1, <2>2
  <1>6. CarryOK(c)'
    <2>1. Request' = Request
      BY <1>1 DEF Request
    <2> QED  BY <1>1, <1>2, <1>4, <1>5, <2>1 DEF CarryOK, Open, Active, Cut
  <1>7. ASSUME NEW d \in Conns \ {c}
        PROVE  CarryOK(d)'
    BY <1>1, <1>3, CarryAlone DEF AllCarried, CarryOK
  <1> QED  BY <1>6, <1>7 DEF AllCarried

\* Time goes on only while every request at work has budget left.
LEMMA CarryTick ==
    ASSUME TypeOK, AllCarried, Tick
    PROVE  AllCarried'
  <1> SUFFICES ASSUME NEW c \in Conns
               PROVE  CarryOK(c)'
    BY DEF AllCarried
  <1>1. CarryOK(c) /\ conn[c] \in Connections /\ UNCHANGED <<setting, phase>>
    BY DEF AllCarried, TypeOK, Tick
  <1>2. \A r \in Replicas : phase[r] = "gave up" => left'[r] = left[r]
    <2> SUFFICES ASSUME NEW r \in Replicas, phase[r] = "gave up"
                 PROVE  left'[r] = left[r]
      OBVIOUS
    <2>1. left'[r] = left[r] + 0
      BY DEF Tick
    <2> QED  BY <2>1, LeftIsNat
  <1>3. CASE conn[c].state \in {"new"} \cup Active
    <2>1. conn'[c] = [conn[c] EXCEPT !.age = conn[c].age + 1]
      BY <1>3 DEF Tick
    <2>2. conn'[c].at = conn[c].at /\ conn'[c].state = conn[c].state /\ conn'[c].age = conn[c].age + 1
      BY <1>1, <2>1 DEF Connections
    <2>3. conn[c].state = "working" => conn[c].age + 1 <= Request
      <3>1. conn[c].state = "working" => ~(conn[c].age >= Request)
        BY DEF Tick, Due, OutOfBudget
      <3>2. conn[c].age \in Nat /\ Request \in Nat
        BY <1>1, RequestIsNat DEF TypeOK, Connections
      <3> QED  BY <3>1, <3>2
    <2>4. Request' = Request
      BY <1>1 DEF Request
    <2> QED  BY <1>1, <1>3, <2>2, <2>3, <2>4 DEF CarryOK, Open, Active, Cut
  <1>4. CASE conn[c].state \notin {"new"} \cup Active
    <2>1. conn'[c] = conn[c]
      BY <1>4 DEF Tick
    <2> QED  BY <1>1, <1>2, <2>1, CarryAlone DEF CarryOK
  <1> QED  BY <1>3, <1>4

LEMMA CarryStep == TypeOK /\ AllCarried /\ [Next]_vars => AllCarried'
  <1> SUFFICES ASSUME TypeOK, AllCarried, [Next]_vars  PROVE AllCarried'
    OBVIOUS
  <1>1. ASSUME NEW r \in Replicas, Starts(r)
        PROVE  AllCarried'
    <2>1. CASE DialFails(r) \/ CutOff(r)
      BY <2>1, CarryDies DEF DialFails, CutOff, Starting, Calling
    <2>2. CASE Applies(r) /\ Collides(r)
      BY <2>2, CarryDies DEF Applies, Calls, Starting, Calling
    <2>3. CASE \/ Configures(r) \/ Dials(r) \/ Locks(r) \/ Probes(r) \/ (Applies(r) /\ ~Collides(r))
               \/ CommitsNothing(r) \/ SendsCommit(r) \/ CommitAnswered(r) \/ Listens(r)
               \/ Restarts(r)
      <3>1. UNCHANGED <<setting, left, conn>> /\ phase[r] \notin Up \cup {"gave up"}
        BY <2>3 DEF Configures, Dials, Locks, Probes, Applies, CommitsNothing, SendsCommit,
             CommitAnswered, Listens, Restarts, Calls, Elsewhere, Up
      <3>2. \E p : phase' = [phase EXCEPT ![r] = p]
        BY <2>3 DEF Configures, Dials, Locks, Probes, Applies, CommitsNothing, SendsCommit,
             CommitAnswered, Listens, Restarts, Goto
      <3>3. phase' = [phase EXCEPT ![r] = phase'[r]]
        BY <3>2 DEF TypeOK
      <3> QED  BY <3>1, <3>3, CarryPhase
    <2> QED  BY <1>1, <2>1, <2>2, <2>3 DEF Starts
  <1>2. ASSUME NEW r \in Replicas, LockTimesOut(r) \/ Breaks(r)
        PROVE  AllCarried'
    BY <1>2, CarryDies DEF LockTimesOut, Breaks, Starting, Calling
  <1>3. ASSUME NEW r \in Replicas, StartsDrain(r)
        PROVE  AllCarried'
    <2>1. phase' = [phase EXCEPT ![r] = phase'[r]] /\ phase'[r] = "draining"
      BY <1>3 DEF StartsDrain, Goto, TypeOK
    <2> QED  BY <1>3, <2>1, CarryPhase DEF StartsDrain, Up
  <1>4. ASSUME NEW r \in Replicas, Stops(r) \/ GivesUp(r)
        PROVE  AllCarried'
    BY <1>4, CarryExits
  <1>5. ASSUME NEW c \in Conns, Sends(c) \/ Begins(c) \/ BodyArrives(c) \/ HandsOver(c) \/ Carries(c)
        PROVE  AllCarried'
    BY <1>5, CarryMoves
  <1>6. ASSUME NEW c \in Conns, NEW r \in Replicas, Connects(c, r)
        PROVE  AllCarried'
    <2>1. conn' = [conn EXCEPT ![c] = [NoConn EXCEPT !.at = r, !.state = "new"]]
      BY <1>6 DEF Connects
    <2>2. UNCHANGED <<setting, phase, left>> /\ phase[r] \in Up
      BY <1>6 DEF Connects, Outside, Up
    <2>3. CarryOK(c)'
      <3>1. conn'[c].at = r /\ conn'[c].state = "new"
        BY <2>1 DEF TypeOK, NoConn
      <3> QED  BY <2>2, <3>1 DEF CarryOK, Cut
    <2>4. ASSUME NEW d \in Conns \ {c}
          PROVE  CarryOK(d)'
      BY <2>1, <2>2, CarryAlone DEF AllCarried, CarryOK, TypeOK
    <2> QED  BY <2>3, <2>4 DEF AllCarried
  <1>7. CASE Tick
    BY <1>7, CarryTick
  <1>8. CASE UNCHANGED <<setting, phase, left, conn>>
    <2> SUFFICES ASSUME NEW c \in Conns
                 PROVE  CarryOK(c)'
      BY DEF AllCarried
    <2> QED  BY <1>8, CarryAlone DEF AllCarried, CarryOK
  <1>9. ASSUME \/ \E r \in Replicas : Signal(r)
               \/ DatabaseComes \/ ServerRollsBack \/ UNCHANGED vars
               \/ \E s \in Sessions : ServerCommits(s)
        PROVE  UNCHANGED <<setting, phase, left, conn>>
    BY <1>9 DEF Signal, DatabaseComes, ServerRollsBack, ServerCommits, Elsewhere, vars
  <1> QED
    BY <1>1, <1>2, <1>3, <1>4, <1>5, <1>6, <1>7, <1>8, <1>9 DEF Next, Ends, Settles

-----------------------------------------------------------------------------
(* The theorems.                                                           *)

\* The invariant holds from the first process started to the last one drained.
THEOREM ServiceKeepsItsInvariant == Spec => []IInv
  <1>1. Init => IInv
    BY TypeInit, InstallInit, CarryInit DEF IInv, InstallOK, AllCarried
  <1>2. IInv /\ [Next]_vars => IInv'
    BY TypeStep, InstallStep, CarryStep DEF IInv, InstallOK, AllCarried
  <1> QED  BY <1>1, <1>2, PTL DEF Spec

\* However many replicas start on an empty database, and whichever of them is killed
\* while it holds the lock, none meets another's tables (schema.Apply's lock and probe).
THEOREM ReplicasNeverCollide == Spec => []NoReplicaCollides
  <1>1. IInv => NoReplicaCollides
    BY DEF IInv
  <1> QED  BY <1>1, ServiceKeepsItsInvariant, PTL

\* The schema is reported applied once, by the replica that did it (Apply's result).
THEOREM SchemaIsAppliedByOne == Spec => []AppliedByOne
  <1>1. IInv => AppliedByOne
    BY DEF IInv
  <1> QED  BY <1>1, ServiceKeepsItsInvariant, PTL

\* A listener has the tables behind it (serve: Apply before net.Listen).
THEOREM ListenersHaveTheSchema == Spec => []ServingHasTheSchema
  <1>1. IInv => ServingHasTheSchema
    BY DEF IInv, StartOK, ServingHasTheSchema, Up
  <1> QED  BY <1>1, ServiceKeepsItsInvariant, PTL

\* A process that exits 0 has cut off no request it began (serveOn and drain).
THEOREM QuietStopsAreClean == Spec => []QuietStopCutsNothing
  <1>1. IInv => QuietStopCutsNothing
    BY DEF IInv, CarryOK, QuietStopCutsNothing
  <1> QED  BY <1>1, ServiceKeepsItsInvariant, PTL

\* A drain no shorter than a request's budget gives up on no handler that was at work when
\* the signal came (drainGrace against requestGrace); a request it cuts is still arriving,
\* begun since, or answered and not yet taken by its client.
THEOREM DrainsCutOnlyLateWork == Spec => []OnlyLateWorkIsCut
  <1>1. IInv => OnlyLateWorkIsCut
    BY DEF IInv, CarryOK, Cut, OnlyLateWorkIsCut
  <1> QED  BY <1>1, ServiceKeepsItsInvariant, PTL
=============================================================================
