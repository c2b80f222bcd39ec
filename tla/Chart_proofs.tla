---------------------------- MODULE Chart_proofs ----------------------------
(***************************************************************************)
(* Chart keeps its invariant and its safety properties for any chart, any  *)
(* openers and any walkers.  The first section is about a page: what       *)
(* First, Last, Rows and Cursor make of a finite set of codes (PageFacts). *)
(* The rest is the invariant: openers and walkers share only the chart,    *)
(* and all a walk needs of it is that no account leaves it (Grows).        *)
(***************************************************************************)
EXTENDS Chart, FiniteSetTheorems, WellFoundedInduction, TLAPS

-----------------------------------------------------------------------------
(* A page of a finite set of codes.                                        *)

\* A set of codes and its parts are finite.
LEMMA CodesFinite ==
    ASSUME NEW S \in SUBSET Codes
    PROVE  /\ S \subseteq Nat
           /\ IsFiniteSet(S)
           /\ Cardinality(S) \in Nat
  BY ChartAssumption, FS_Subset, FS_CardinalityType

\* A part that leaves something out is smaller.
LEMMA SmallerPart ==
    ASSUME NEW S \in SUBSET Codes, NEW T \in SUBSET S, NEW c \in S, c \notin T
    PROVE  Cardinality(T) < Cardinality(S)
  BY CodesFinite, FS_Subset

\* Among sets of codes one has none of the others for a part.
LEMMA SmallestOf ==
    ASSUME NEW T \in SUBSET SUBSET Codes, T # {}
    PROVE  \E x \in T : \A y \in T : y \subseteq x => y = x
  <1> DEFINE R == StrictSubsetOrdering(Codes)
  <1>1. IsWellFoundedOn(R, FiniteSubsetsOf(Codes))
    BY FS_StrictSubsetOrderingWellFounded
  <1>2. T \subseteq FiniteSubsetsOf(Codes)
    BY CodesFinite DEF FiniteSubsetsOf
  <1>3. PICK x \in T : \A y \in T : ~ (<<y, x>> \in R)
    <2> HIDE DEF R
    <2> QED  BY <1>1, <1>2, WFMin
  <1>4. ASSUME NEW y \in T, y \subseteq x, y # x
        PROVE  FALSE
    <2>1. <<y, x>> \in R
      BY <1>4 DEF StrictSubsetOrdering
    <2> HIDE DEF R
    <2> QED  BY <1>3, <2>1
  <1> QED  BY <1>4

\* Any codes have a last one: the one with the fewest codes above it.
LEMMA LastOf ==
    ASSUME NEW S \in SUBSET Codes, S # {}
    PROVE  Last(S) \in S /\ \A d \in S : d <= Last(S)
  <1> DEFINE Above(c) == {d \in S : d > c}
  <1>1. PICK c \in S : \A d \in S : Above(d) \subseteq Above(c) => Above(d) = Above(c)
    <2> DEFINE T == {Above(c) : c \in S}
    <2>1. T \in SUBSET SUBSET Codes /\ T # {}
      OBVIOUS
    <2>2. PICK x \in T : \A y \in T : y \subseteq x => y = x
      <3> HIDE DEF T
      <3> QED  BY <2>1, SmallestOf
    <2>3. PICK c \in S : x = Above(c)
      BY <2>2
    <2>4. \A d \in S : Above(d) \in T
      OBVIOUS
    <2> HIDE DEF T, Above
    <2> QED  BY <2>2, <2>3, <2>4
  <1>2. ASSUME NEW d \in S, ~ (d <= c)
        PROVE  FALSE
    <2>1. c \in Nat /\ d \in Nat /\ d > c
      BY <1>2, CodesFinite
    <2>2. ASSUME NEW e \in Above(d)
          PROVE  e \in Above(c)
      <3>1. e \in S /\ e \in Nat
        BY CodesFinite
      <3> QED  BY <2>1, <3>1
    <2>3. d \in Above(c) /\ d \notin Above(d)
      BY <2>1
    <2> QED  BY <1>1, <2>2, <2>3
  <1> QED  BY <1>2 DEF Last

\* And a first one.
LEMMA LeastOf ==
    ASSUME NEW S \in SUBSET Codes, S # {}
    PROVE  \E c \in S : \A d \in S : c <= d
  <1> DEFINE Below(c) == {d \in S : d < c}
  <1>1. PICK c \in S : \A d \in S : Below(d) \subseteq Below(c) => Below(d) = Below(c)
    <2> DEFINE T == {Below(c) : c \in S}
    <2>1. T \in SUBSET SUBSET Codes /\ T # {}
      OBVIOUS
    <2>2. PICK x \in T : \A y \in T : y \subseteq x => y = x
      <3> HIDE DEF T
      <3> QED  BY <2>1, SmallestOf
    <2>3. PICK c \in S : x = Below(c)
      BY <2>2
    <2>4. \A d \in S : Below(d) \in T
      OBVIOUS
    <2> HIDE DEF T, Below
    <2> QED  BY <2>2, <2>3, <2>4
  <1>2. ASSUME NEW d \in S, ~ (c <= d)
        PROVE  FALSE
    <2>1. c \in Nat /\ d \in Nat /\ d < c
      BY <1>2, CodesFinite
    <2>2. ASSUME NEW e \in Below(d)
          PROVE  e \in Below(c)
      <3>1. e \in S /\ e \in Nat
        BY CodesFinite
      <3> QED  BY <2>1, <3>1
    <2>3. d \in Below(c) /\ d \notin Below(d)
      BY <2>1
    <2> QED  BY <1>1, <2>2, <2>3
  <1> QED  BY <1>2

\* A limit keeps a part of the codes, and all of them that come before one it keeps.
LEMMA FirstIsPrefix ==
    ASSUME NEW S \in SUBSET Codes, NEW n \in Nat
    PROVE  /\ First(S, n) \in SUBSET S
           /\ \A c \in First(S, n), d \in S : d < c => d \in First(S, n)
  <1> SUFFICES ASSUME NEW c \in First(S, n), NEW d \in S, d < c
               PROVE  d \in First(S, n)
    BY DEF First
  <1> DEFINE Below(x) == {e \in S : e < x}
  <1>1. c \in S /\ Cardinality(Below(c)) < n
    BY DEF First
  <1>2. Below(d) \subseteq Below(c)
    BY <1>1, CodesFinite
  <1>3. Cardinality(Below(d)) <= Cardinality(Below(c)) /\ Cardinality(Below(d)) \in Nat
        /\ Cardinality(Below(c)) \in Nat
    <2>1. Below(c) \in SUBSET Codes /\ Below(d) \in SUBSET Codes
      OBVIOUS
    <2> HIDE DEF Below
    <2> QED  BY <1>2, <2>1, CodesFinite, FS_Subset
  <1>4. Cardinality(Below(d)) < n
    BY <1>1, <1>3
  <1> QED  BY <1>4 DEF First

\* Whatever the limit, the least code is within it.
LEMMA FirstIsSome ==
    ASSUME NEW S \in SUBSET Codes, S # {}, NEW n \in Nat \ {0}
    PROVE  First(S, n) # {}
  <1>1. PICK c \in S : \A d \in S : c <= d
    BY CodesFinite, LeastOf
  <1>2. {d \in S : d < c} = {}
    BY <1>1, CodesFinite
  <1> QED  BY <1>2, FS_EmptySet DEF First

\* A limit the codes do not fill is no limit.
LEMMA FirstIsAll ==
    ASSUME NEW S \in SUBSET Codes, NEW n \in Nat, Cardinality(S) <= n
    PROVE  First(S, n) = S
  <1> SUFFICES ASSUME NEW c \in S
               PROVE  Cardinality({d \in S : d < c}) < n
    BY DEF First
  <1> DEFINE B == {d \in S : d < c}
  <1>1. B \in SUBSET S /\ c \notin B
    BY CodesFinite
  <1> HIDE DEF B
  <1>2. Cardinality(B) < Cardinality(S) /\ Cardinality(B) \in Nat /\ Cardinality(S) \in Nat
    BY <1>1, SmallerPart, CodesFinite
  <1>3. Cardinality(B) < n
    BY <1>2
  <1> QED  BY <1>3 DEF B

\* Asked for one more than there are, the answer is all there are.
LEMMA FirstShort ==
    ASSUME NEW S \in SUBSET Codes, NEW n \in Nat, Cardinality(First(S, n + 1)) <= n
    PROVE  First(S, n + 1) = S
  <1> DEFINE F == First(S, n + 1)
             Out == S \ F
  <1>1. F \in SUBSET S
    BY FirstIsPrefix
  <1> SUFFICES ASSUME Out # {}
               PROVE  FALSE
    BY <1>1
  <1>2. Out \in SUBSET Codes
    OBVIOUS
  <1>3. PICK c \in Out : \A d \in Out : c <= d
    <2> HIDE DEF Out
    <2> QED  BY <1>2, CodesFinite, LeastOf
  <1> DEFINE B == {d \in S : d < c}
  <1>4. B \in SUBSET F
    BY <1>3, CodesFinite
  <1>5. Cardinality(B) <= Cardinality(F) /\ Cardinality(B) \in Nat /\ Cardinality(F) \in Nat
    <2>1. F \in SUBSET Codes
      BY <1>1
    <2> HIDE DEF F, B
    <2> QED  BY <1>4, <2>1, CodesFinite, FS_Subset
  <1>6. Cardinality(B) < n + 1
    BY <1>5
  <1>7. c \in F
    BY <1>6 DEF First
  <1> QED  BY <1>7

\* A page answers codes past the cursor, all of them up to the next cursor, and all
\* there are when there is no more.
LEMMA PageFacts ==
    ASSUME NEW filter, NEW size \in Sizes, NEW after \in Codes \cup {0}
    PROVE  LET rows == Rows(filter, after, size)
               page == First(rows, size)
               next == Cursor(rows, size, after)
           IN  /\ page \subseteq Matched(filter, after)
               /\ next \in Codes \cup {0}
               /\ \A c \in Codes : Past(c, next) => Past(c, after) /\ c \notin page
               /\ \A c \in Matched(filter, after) : ~Past(c, next) => c \in page
               /\ Cardinality(rows) <= size => page = Matched(filter, after)
               /\ rows # {} => next > after
  <1> DEFINE M == Matched(filter, after)
             rows == Rows(filter, after, size)
             page == First(rows, size)
             next == Cursor(rows, size, after)
  <1>1. size \in Nat \ {0} /\ size + 1 \in Nat \ {0} /\ after \in Nat
    BY ChartAssumption
  <1>2. M \in SUBSET Codes /\ \A c \in M : Past(c, after)
    BY DEF Matched
  <1>3. /\ rows = First(M, size + 1)
        /\ rows \in SUBSET M
        /\ \A c \in rows, d \in M : d < c => d \in rows
    BY <1>1, <1>2, FirstIsPrefix DEF Rows
  <1>4. /\ page \in SUBSET rows
        /\ \A c \in page, d \in rows : d < c => d \in page
    BY <1>1, <1>2, <1>3, FirstIsPrefix
  <1>5. page = {} => rows = {} /\ M = {}
    BY <1>1, <1>2, <1>3, FirstIsSome
  <1>6. Cardinality(rows) <= size => page = M
    BY <1>1, <1>2, <1>3, FirstShort, FirstIsAll
  <1>7. CASE rows = {}
    BY <1>3, <1>4, <1>5, <1>6, <1>7 DEF Cursor
  <1>8. CASE rows # {}
    <2>1. page # {} /\ page \in SUBSET Codes
      BY <1>2, <1>3, <1>4, <1>5, <1>8
    <2>2. next = Last(page)
      BY <1>8 DEF Cursor
    <2>3. next \in page /\ \A d \in page : d <= next
      BY <2>1, <2>2, LastOf
    <2>4. next \in Nat /\ next > after
      BY <1>1, <1>2, <1>3, <1>4, <2>1, <2>3, CodesFinite DEF Past
    <2>5. ASSUME NEW c \in Codes, Past(c, next)
          PROVE  Past(c, after) /\ c \notin page
      BY <1>1, <2>3, <2>4, <2>5, CodesFinite DEF Past
    <2>6. ASSUME NEW c \in M, ~Past(c, next)
          PROVE  c \in page
      <3>1. c \in Nat /\ c <= next
        BY <1>2, <2>4, <2>6, CodesFinite DEF Past
      <3> QED  BY <1>3, <1>4, <2>3, <2>4, <3>1
    <2> QED  BY <1>2, <1>3, <1>4, <1>6, <2>1, <2>3, <2>4, <2>5, <2>6
  <1> QED  BY <1>7, <1>8

-----------------------------------------------------------------------------
(* Openers.                                                                *)

\* What an account looks like to a filter once it is in the chart, it looks like for good.
Grows ==
    \A c \in Codes, f \in Groups \cup {All} : Matches(c, f) => Matches(c, f)'

\* Walks are disturbed by nothing an opener does but the loss of an account.
LEMMA WalksKept ==
    ASSUME IInv, Grows, UNCHANGED walkVars, NEW w \in Walkers
    PROVE  WalkOK(w)'
  <1>1. walk[w] # None => walk[w].filter \in Groups \cup {All}
    BY DEF IInv, TypeOK, Walks
  <1> QED  BY <1>1 DEF IInv, WalkOK, Grows, Past, walkVars

\* Only this opener's handler, row and answer change.
Alone(o) ==
    /\ UNCHANGED <<chart, want, walkVars>>
    /\ \A p \in Openers \ {o} :
        stage'[p] = stage[p] /\ row'[p] = row[p] /\ told'[p] = told[p]

\* Such a step takes no code, so the rest of the invariant is the opener's own.
LEMMA AloneStep ==
    ASSUME IInv, NEW o \in Openers, Alone(o), TypeOK', OpenerOK(o)',
           row'[o] \in {"held", "commit"} => row[o] \in {"held", "commit"},
           row[o] = "kept" => row'[o] = "kept"
    PROVE  IInv'
  <1>1. ASSUME NEW p \in Openers \ {o}
        PROVE  OpenerOK(p)'
    <2>1. OpenerOK(p) /\ stage'[p] = stage[p] /\ row'[p] = row[p] /\ told'[p] = told[p]
      BY DEF IInv, Alone
    <2>2. chart' = chart /\ want' = want /\ Code(p)' = Code(p)
      BY DEF Alone, Code
    <2>3. Waits(p)' => Waits(p)
      BY <2>2 DEF Alone, Waits, Code
    <2> QED  BY <2>1, <2>2, <2>3 DEF OpenerOK
  <1>2. ASSUME NEW c \in Codes
        PROVE  AccountOK(c)'
    <2>1. AccountOK(c) /\ chart' = chart /\ want' = want
      BY DEF IInv, Alone
    <2>2. chart[c] # None => row[chart[c]] = "kept" /\ chart[c] \in Openers
      <3>1. chart[c] \in Openers \cup {None}
        BY DEF IInv, TypeOK
      <3> QED  BY <2>1, <3>1 DEF AccountOK
    <2> QED  BY <2>1, <2>2 DEF Alone, AccountOK, Code
  <1>3. Grows
    BY DEF Grows, Matches, Alone
  <1>4. UNCHANGED walkVars
    BY DEF Alone
  <1> QED  BY <1>1, <1>2, <1>3, <1>4, WalksKept DEF IInv

\* A handler that gave up keeps what became of its row to the server.
LEMMA FinishesStep ==
    ASSUME IInv, NEW o \in Openers,
           InsertDuplicate(o) \/ InsertRejected(o) \/ Opened(o) \/ GiveUp(o)
    PROVE  IInv'
  <1> USE DEF InsertDuplicate, InsertRejected, Opened, GiveUp, Finish
  <1>1. TypeOK'
    BY DEF IInv, TypeOK, walkVars
  <1>2. Alone(o) /\ row'[o] = row[o]
    BY DEF Alone, IInv, TypeOK
  <1>3. OpenerOK(o)'
    <2>1. OpenerOK(o) /\ stage[o] # "unsent" /\ stage'[o] = "finished"
      BY DEF IInv, TypeOK
    <2>2. /\ told'[o] # "nothing"
          /\ told'[o] = "created" => row[o] = "kept"
          /\ told'[o] \in {"exists", "rejected"} => row[o] = "none"
          /\ told'[o] = "exists" => chart[Code(o)] # None
      BY <2>1 DEF IInv, TypeOK, OpenerOK
    <2>3. chart' = chart /\ want' = want /\ row' = row /\ (Waits(o)' <=> Waits(o))
      BY DEF Waits, Code
    <2> QED  BY <1>2, <2>1, <2>2, <2>3 DEF OpenerOK, Code
  <1> QED  BY <1>1, <1>2, <1>3, AloneStep

\* The read-back sends COMMIT with the row still held.
LEMMA ReadBackStep ==
    ASSUME IInv, NEW o \in Openers, ReadBack(o)
    PROVE  IInv'
  <1> USE DEF ReadBack
  <1>1. TypeOK'
    BY DEF IInv, TypeOK, walkVars
  <1>2. Alone(o) /\ row'[o] = "commit"
    BY DEF Alone, IInv, TypeOK
  <1>3. OpenerOK(o)'
    BY DEF IInv, TypeOK, OpenerOK, Waits, Code
  <1> QED  BY <1>1, <1>2, <1>3, AloneStep

\* What the server rolls back was never in the chart.
LEMMA ServerRollsBackStep ==
    ASSUME IInv, NEW o \in Openers, ServerRollsBack(o)
    PROVE  IInv'
  <1> USE DEF ServerRollsBack
  <1>1. TypeOK'
    BY DEF IInv, TypeOK, walkVars
  <1>2. Alone(o) /\ row'[o] = "none" /\ row[o] # "kept"
    BY DEF Alone, IInv, TypeOK
  <1>3. OpenerOK(o)'
    BY DEF IInv, TypeOK, OpenerOK, Waits, Code
  <1> QED  BY <1>1, <1>2, <1>3, AloneStep

\* A row is for a code that was asked, and an account is somebody's.
LEMMA RowAsked ==
    ASSUME IInv
    PROVE  /\ \A o \in Openers : stage[o] # "unsent" => want[o] \in Wants /\ Code(o) \in Codes
           /\ \A o \in Openers : row[o] # "none" => stage[o] # "unsent"
           /\ \A c \in Codes : chart[c] # None => chart[c] \in Openers
  <1>1. ASSUME NEW o \in Openers, stage[o] # "unsent"
        PROVE  want[o] \in Wants /\ Code(o) \in Codes
    <2>1. want[o] # None /\ want[o] \in Wants \cup {None}
      BY <1>1 DEF IInv, TypeOK, OpenerOK
    <2> QED  BY <2>1 DEF Wants, Code
  <1>2. ASSUME NEW o \in Openers, row[o] # "none"
        PROVE  stage[o] # "unsent"
    BY <1>2 DEF IInv, OpenerOK
  <1>3. ASSUME NEW c \in Codes, chart[c] # None
        PROVE  chart[c] \in Openers
    BY <1>3 DEF IInv, TypeOK
  <1> QED  BY <1>1, <1>2, <1>3

\* A new request has no row and no account.
LEMMA AskStep ==
    ASSUME IInv, NEW o \in Openers, NEW q \in Wants, Ask(o, q)
    PROVE  IInv'
  <1> USE DEF Ask
  <1>1. TypeOK'
    BY DEF IInv, TypeOK, walkVars
  <1>2. want[o] = None /\ row[o] = "none"
    BY DEF IInv, OpenerOK
  <1>3. \A c \in Codes : chart[c] # o
    BY <1>2, ChartAssumption DEF IInv, AccountOK, TypeOK
  <1>4. q # None
    BY ChartAssumption
  <1>5. ASSUME NEW p \in Openers
        PROVE  OpenerOK(p)'
    BY <1>2, <1>3, <1>4 DEF IInv, TypeOK, OpenerOK, Waits, Code
  <1>6. ASSUME NEW c \in Codes
        PROVE  AccountOK(c)'
    <2>1. chart[c] # None => chart[c] \in Openers \ {o}
      BY <1>3, RowAsked
    <2>2. chart[c] # None => want'[chart[c]] = want[chart[c]]
      BY <2>1 DEF IInv, TypeOK
    <2> QED  BY <2>2 DEF IInv, AccountOK, Code
  <1>7. Grows
    BY <1>3 DEF Grows, Matches, IInv, TypeOK
  <1> QED  BY <1>1, <1>5, <1>6, <1>7, WalksKept DEF IInv

\* A row is inserted where the chart has none and nobody else holds one.
LEMMA InsertStep ==
    ASSUME IInv, NEW o \in Openers, Insert(o)
    PROVE  IInv'
  <1> USE DEF Insert
  <1>1. TypeOK'
    BY DEF IInv, TypeOK, walkVars
  <1>2. OpenerOK(o)'
    BY DEF IInv, TypeOK, OpenerOK, Waits, Code
  <1>3. ASSUME NEW p \in Openers \ {o}
        PROVE  OpenerOK(p)'
    <2>1. OpenerOK(p)
      BY DEF IInv
    <2>2. /\ chart[Code(o)] = None /\ ~Waits(o)
          /\ stage'[p] = stage[p] /\ row'[p] = row[p]
          /\ UNCHANGED <<chart, want, told>>
      BY DEF IInv, TypeOK
    <2>3. row[p] \in {"held", "commit"} => Code(p) # Code(o)
      BY <2>2 DEF Waits
    <2>4. \A q \in Openers \ {o} : row'[q] = row[q]
      BY DEF IInv, TypeOK
    <2>5. row[p] \in {"held", "commit"} /\ Waits(p)' => Waits(p)
      BY <2>2, <2>3, <2>4 DEF Waits, Code
    <2> QED  BY <2>1, <2>2, <2>5 DEF OpenerOK, Code
  <1>4. ASSUME NEW c \in Codes
        PROVE  AccountOK(c)'
    <2>1. row[o] # "kept"
      BY DEF IInv, OpenerOK
    <2>2. chart[c] # None => row'[chart[c]] = row[chart[c]]
      BY <2>1, RowAsked DEF IInv, TypeOK, AccountOK
    <2> QED  BY <2>2 DEF IInv, AccountOK, Code
  <1>5. Grows
    BY DEF Grows, Matches
  <1> QED  BY <1>1, <1>2, <1>3, <1>4, <1>5, WalksKept DEF IInv

\* A commit puts the account where there was none.
LEMMA ServerCommitsStep ==
    ASSUME IInv, NEW o \in Openers, ServerCommits(o)
    PROVE  IInv'
  <1> USE DEF ServerCommits
  <1>1. want[o] \in Wants /\ Code(o) \in Codes /\ chart[Code(o)] = None /\ ~Waits(o)
    BY RowAsked DEF IInv, OpenerOK
  <1>2. TypeOK'
    BY <1>1 DEF IInv, TypeOK, walkVars
  <1>3. OpenerOK(o)'
    <2>1. OpenerOK(o) /\ row[o] = "commit" /\ row'[o] = "kept" /\ chart'[Code(o)] = o
      BY <1>1 DEF IInv, TypeOK
    <2>2. o # None /\ UNCHANGED <<want, stage, told>>
      BY ChartAssumption
    <2> QED  BY <2>1, <2>2 DEF OpenerOK, Code
  <1>4. ASSUME NEW p \in Openers \ {o}
        PROVE  OpenerOK(p)'
    <2>1. OpenerOK(p) /\ row'[p] = row[p] /\ Code(p)' = Code(p)
      BY DEF IInv, TypeOK, Code
    <2>2. row[p] \in {"held", "commit"} => Code(p) # Code(o)
      BY <1>1 DEF Waits
    <2>3. /\ row[p] # "none" => Code(p) \in Codes
          /\ told[p] = "exists" => Code(p) \in Codes
      BY RowAsked DEF IInv, OpenerOK
    <2>4. o # None /\ \A c \in Codes : chart'[c] = IF c = Code(o) THEN o ELSE chart[c]
      BY <1>1, ChartAssumption DEF IInv, TypeOK
    <2>5. /\ row[p] \in {"held", "commit"} => chart'[Code(p)] = chart[Code(p)]
          /\ row[p] = "kept" => chart'[Code(p)] = p
          /\ told[p] = "exists" => chart'[Code(p)] # None
      <3>1. /\ row[p] = "kept" => chart[Code(p)] = p /\ p # None
            /\ told[p] = "exists" => chart[Code(p)] # None
        BY ChartAssumption, <2>1 DEF OpenerOK
      <3> QED  BY <1>1, <2>2, <2>3, <2>4, <3>1
    <2>6. Waits(p)' => Waits(p)
      BY DEF IInv, TypeOK, Waits, Code
    <2> QED  BY <2>1, <2>5, <2>6 DEF OpenerOK, Code
  <1>5. ASSUME NEW c \in Codes
        PROVE  AccountOK(c)'
    <2>1. CASE c = Code(o)
      <3>1. chart'[c] = o /\ row'[o] = "kept" /\ want'[o] = want[o]
        BY <2>1 DEF IInv, TypeOK
      <3>2. want[o] # None
        BY <1>1, ChartAssumption
      <3> QED  BY <2>1, <3>1, <3>2 DEF AccountOK, Code
    <2>2. CASE c # Code(o)
      <3>1. chart'[c] = chart[c]
        BY <2>2 DEF IInv, TypeOK
      <3>2. chart[c] # None => row'[chart[c]] = "kept"
        BY RowAsked DEF IInv, TypeOK, AccountOK
      <3> QED  BY <3>1, <3>2 DEF IInv, AccountOK, Code
    <2> QED  BY <2>1, <2>2
  <1>6. Grows
    BY <1>1 DEF Grows, Matches, IInv, TypeOK
  <1> QED  BY <1>2, <1>3, <1>4, <1>5, <1>6, WalksKept DEF IInv

-----------------------------------------------------------------------------
(* Walkers.                                                                *)

\* Where a walk about to answer the page past this cursor stands.
Ready(w, filter, after) ==
    \A c \in Codes :
        /\ answered[w][c] <= 1
        /\ Past(c, after) => answered[w][c] = 0
        /\ c \in due'[w] => Matches(c, filter)
        /\ c \in due'[w] /\ ~Past(c, after) => answered[w][c] = 1

\* What leaves the openers and the chart alone leaves what is said of them.
LEMMA OpenersKept ==
    ASSUME IInv, UNCHANGED openVars
    PROVE  (\A o \in Openers : OpenerOK(o)') /\ (\A c \in Codes : AccountOK(c)')
  <1>1. ASSUME NEW o \in Openers
        PROVE  OpenerOK(o)'
    <2>1. OpenerOK(o) /\ (Waits(o)' <=> Waits(o)) /\ Code(o)' = Code(o)
      BY DEF IInv, Waits, Code, openVars
    <2> QED  BY <2>1 DEF OpenerOK, openVars
  <1>2. ASSUME NEW c \in Codes
        PROVE  AccountOK(c)'
    BY DEF IInv, AccountOK, Code, openVars
  <1> QED  BY <1>1, <1>2

\* A page answers what is next to answer, once, and moves the cursor past it.
LEMMA PageStep ==
    ASSUME IInv, NEW w \in Walkers,
           NEW filter \in Groups \cup {All}, NEW size \in Sizes, NEW after \in Codes \cup {0},
           Ready(w, filter, after), AnswerPage(w, filter, size, after),
           UNCHANGED openVars,
           due' \in [Walkers -> SUBSET Codes],
           \A v \in Walkers \ {w} : due'[v] = due[v]
    PROVE  IInv'
  <1> DEFINE rows == Rows(filter, after, size)
             page == First(rows, size)
             next == Cursor(rows, size, after)
             more == Cardinality(rows) > size
  <1>1. /\ page \subseteq Matched(filter, after)
        /\ next \in Codes \cup {0}
        /\ \A c \in Codes : Past(c, next) => Past(c, after) /\ c \notin page
        /\ \A c \in Matched(filter, after) : ~Past(c, next) => c \in page
        /\ Cardinality(rows) <= size => page = Matched(filter, after)
    BY PageFacts
  <1>2. /\ answered' = [answered EXCEPT ![w] =
              [c \in Codes |-> IF c \in page /\ @[c] < 2 THEN @[c] + 1 ELSE @[c]]]
        /\ walk' = [walk EXCEPT ![w] =
              [filter |-> filter, size |-> size, after |-> next, more |-> more]]
    BY DEF AnswerPage
  <1>3. more \in BOOLEAN /\ (~more => Cardinality(rows) <= size)
    <2>1. rows \in SUBSET Codes /\ size \in Nat
      <3>1. Matched(filter, after) \in SUBSET Codes
        BY DEF Matched
      <3>2. size \in Nat /\ size + 1 \in Nat
        BY ChartAssumption
      <3> QED  BY <3>1, <3>2, FirstIsPrefix DEF Rows
    <2> HIDE DEF rows
    <2> QED  BY <2>1, CodesFinite
  <1> HIDE DEF rows, page, next, more
  <1>4. /\ \A c \in Codes : answered'[w][c] = IF c \in page THEN 1 ELSE answered[w][c]
        /\ answered' \in [Walkers -> [Codes -> 0..2]]
        /\ \A v \in Walkers \ {w} : answered'[v] = answered[v]
    <2>1. answered[w] \in [Codes -> 0..2]
      BY DEF IInv, TypeOK
    <2>2. \A c \in page : c \in Codes /\ answered[w][c] = 0
      BY <1>1 DEF Ready, Matched
    <2>3. [c \in Codes |-> IF c \in page /\ answered[w][c] < 2
                            THEN answered[w][c] + 1 ELSE answered[w][c]] \in [Codes -> 0..2]
      BY <2>1, <2>2
    <2>4. answered' = [answered EXCEPT ![w] =
              [c \in Codes |-> IF c \in page /\ answered[w][c] < 2
                               THEN answered[w][c] + 1 ELSE answered[w][c]]]
      BY <1>2
    <2>5. /\ answered' \in [Walkers -> [Codes -> 0..2]]
          /\ \A v \in Walkers \ {w} : answered'[v] = answered[v]
          /\ answered'[w] = [c \in Codes |-> IF c \in page /\ answered[w][c] < 2
                                             THEN answered[w][c] + 1 ELSE answered[w][c]]
      BY <2>3, <2>4 DEF IInv, TypeOK
    <2> QED  BY <2>2, <2>5
  <1>5. /\ walk'[w] = [filter |-> filter, size |-> size, after |-> next, more |-> more]
        /\ walk'[w] \in Walks
        /\ walk' \in [Walkers -> Walks \cup {None}]
        /\ \A v \in Walkers \ {w} : walk'[v] = walk[v]
    <2>1. [filter |-> filter, size |-> size, after |-> next, more |-> more] \in Walks
      BY <1>1, <1>3 DEF Walks
    <2> QED  BY <1>2, <2>1 DEF IInv, TypeOK
  <1>6. TypeOK'
    BY <1>4, <1>5 DEF IInv, TypeOK, openVars
  <1>7. \A c, f : Matches(c, f)' <=> Matches(c, f)
    BY DEF Matches, openVars
  <1>8. WalkOK(w)'
    <2>1. walk'[w] # None
      BY <1>5, ChartAssumption
    <2>2. ASSUME NEW c \in Codes
          PROVE  /\ answered'[w][c] <= 1
                 /\ Past(c, next) => answered'[w][c] = 0
                 /\ c \in due'[w] => Matches(c, filter)
                 /\ c \in due'[w] /\ (more => ~Past(c, next)) => answered'[w][c] = 1
      <3>1. c \in due'[w] /\ Past(c, after) => c \in Matched(filter, after)
        BY DEF Ready, Matched
      <3>2. c \in due'[w] /\ (more => ~Past(c, next)) /\ Past(c, after) => c \in page
        BY <1>1, <1>3, <3>1
      <3> QED  BY <1>1, <1>4, <3>2 DEF Ready
    <2> QED  BY <1>5, <1>7, <2>1, <2>2 DEF WalkOK, Past
  <1>9. ASSUME NEW v \in Walkers \ {w}
        PROVE  WalkOK(v)'
    <2>1. WalkOK(v) /\ walk'[v] = walk[v] /\ answered'[v] = answered[v] /\ due'[v] = due[v]
      BY <1>4, <1>5 DEF IInv
    <2> QED  BY <1>7, <2>1 DEF WalkOK, Past
  <1>10. (\A o \in Openers : OpenerOK(o)') /\ (\A c \in Codes : AccountOK(c)')
    BY OpenersKept
  <1> QED  BY <1>6, <1>8, <1>9, <1>10 DEF IInv

\* A walk begins with everything past its cursor to answer.
LEMMA StartWalkStep ==
    ASSUME IInv, NEW w \in Walkers,
           NEW filter \in Groups \cup {All}, NEW size \in Sizes, NEW after \in Starts,
           StartWalk(w, filter, size, after)
    PROVE  IInv'
  <1>1. after \in Codes \cup {0}
    BY ChartAssumption
  <1>2. /\ due'[w] = Matched(filter, after)
        /\ due' \in [Walkers -> SUBSET Codes]
        /\ \A v \in Walkers \ {w} : due'[v] = due[v]
    BY DEF StartWalk, IInv, TypeOK, Matched
  <1>3. \A c \in Codes : answered[w][c] = 0
    BY DEF StartWalk, IInv, WalkOK
  <1>4. Ready(w, filter, after)
    BY <1>2, <1>3 DEF Ready, Matched
  <1> QED  BY <1>1, <1>2, <1>4, PageStep DEF StartWalk

\* A walk goes on where its last page ended.
LEMMA FollowNextStep ==
    ASSUME IInv, NEW w \in Walkers, FollowNext(w)
    PROVE  IInv'
  <1>1. walk[w] \in Walks /\ walk[w].more
    BY DEF FollowNext, Walking, IInv, TypeOK
  <1>2. /\ walk[w].filter \in Groups \cup {All} /\ walk[w].size \in Sizes
        /\ walk[w].after \in Codes \cup {0} /\ walk[w] # None
    BY <1>1, ChartAssumption DEF Walks
  <1>3. due' = due /\ due \in [Walkers -> SUBSET Codes]
    BY DEF FollowNext, IInv, TypeOK
  <1>4. Ready(w, walk[w].filter, walk[w].after)
    BY <1>1, <1>2, <1>3 DEF Ready, IInv, WalkOK
  <1> QED  BY <1>2, <1>3, <1>4, PageStep DEF FollowNext

-----------------------------------------------------------------------------
(* The theorems.                                                           *)

\* At first there are no accounts and no walks.
LEMMA InitIInv == Init => IInv
  BY ChartAssumption DEF Init, IInv, TypeOK, OpenerOK, AccountOK, WalkOK

\* The invariant is inductive.
LEMMA NextIInv == IInv /\ [Next]_vars => IInv'
  <1> SUFFICES ASSUME IInv, [Next]_vars
               PROVE  IInv'
    OBVIOUS
  <1>1. ASSUME NEW o \in Openers, NEW q \in Wants, Ask(o, q)
        PROVE  IInv'
    BY <1>1, AskStep
  <1>2. ASSUME NEW o \in Openers, Insert(o)
        PROVE  IInv'
    BY <1>2, InsertStep
  <1>3. ASSUME NEW o \in Openers,
               InsertDuplicate(o) \/ InsertRejected(o) \/ Opened(o) \/ GiveUp(o)
        PROVE  IInv'
    BY <1>3, FinishesStep
  <1>4. ASSUME NEW o \in Openers, ReadBack(o)
        PROVE  IInv'
    BY <1>4, ReadBackStep
  <1>5. ASSUME NEW o \in Openers, ServerCommits(o)
        PROVE  IInv'
    BY <1>5, ServerCommitsStep
  <1>6. ASSUME NEW o \in Openers, ServerRollsBack(o)
        PROVE  IInv'
    BY <1>6, ServerRollsBackStep
  <1>7. ASSUME NEW w \in Walkers, NEW f \in Groups \cup {All}, NEW n \in Sizes,
               NEW c \in Starts, StartWalk(w, f, n, c)
        PROVE  IInv'
    BY <1>7, StartWalkStep
  <1>8. ASSUME NEW w \in Walkers, FollowNext(w)
        PROVE  IInv'
    BY <1>8, FollowNextStep
  <1>9. CASE UNCHANGED vars
    <2>1. UNCHANGED openVars /\ UNCHANGED walkVars
      BY <1>9 DEF vars, openVars, walkVars
    <2>2. TypeOK'
      BY <2>1 DEF IInv, TypeOK, openVars, walkVars
    <2>3. Grows
      BY <2>1 DEF Grows, Matches, openVars
    <2> QED  BY <2>1, <2>2, <2>3, OpenersKept, WalksKept DEF IInv
  <1> QED
    BY <1>1, <1>2, <1>3, <1>4, <1>5, <1>6, <1>7, <1>8, <1>9 DEF Next

\* Openers, accounts and walks agree with one another in every reachable state.
THEOREM Invariance == Spec => []IInv
  BY InitIInv, NextIInv, PTL DEF Spec

\* A 201 is the opener's own account and a 409 somebody else's, for any openers of any
\* codes, whichever of them are cut off.
THEOREM AlwaysOneOpenerPerCode == Spec => []OneOpenerPerCode
  <1>1. IInv => OneOpenerPerCode
    <2> SUFFICES ASSUME IInv, NEW o \in Openers
                 PROVE  /\ told[o] = "created" => chart[Code(o)] = o
                        /\ told[o] = "exists" => chart[Code(o)] \notin {None, o}
                        /\ told[o] = "rejected" => chart[Code(o)] # o
      BY DEF OneOpenerPerCode
    <2>1. OpenerOK(o)
      BY DEF IInv
    <2>2. told[o] \in {"exists", "rejected"} => Code(o) \in Codes /\ row[o] = "none"
      BY <2>1, RowAsked DEF OpenerOK
    <2>3. told[o] \in {"exists", "rejected"} => chart[Code(o)] # o
      BY <2>2, ChartAssumption DEF IInv, AccountOK
    <2> QED  BY <2>1, <2>3 DEF OpenerOK
  <1> QED  BY <1>1, Invariance, PTL

\* No account is answered twice in a walk, for any chart, page size and openers.
THEOREM NeverAnsweredTwice == Spec => []NoAccountAnsweredTwice
  <1>1. IInv => NoAccountAnsweredTwice
    BY DEF IInv, WalkOK, NoAccountAnsweredTwice
  <1> QED  BY <1>1, Invariance, PTL

\* A walk that ends has answered every account there was when it began.
THEOREM WalksMissNothing == Spec => []WalkMissesNothing
  <1>1. IInv => WalkMissesNothing
    BY DEF IInv, TypeOK, WalkOK, WalkMissesNothing
  <1> QED  BY <1>1, Invariance, PTL

\* A `next` address is past the one it was answered to, so a chart of finitely many codes
\* is walked in finitely many pages however many accounts are opened in between.
EveryPageMovesOn ==
    [][\A w \in Walkers :
        Walking(w) /\ walk'[w] # walk[w] /\ walk'[w].more => walk'[w].after > walk[w].after]_vars

\* nextPage: no walk goes back or stands still.
THEOREM WalksMoveOn == Spec => EveryPageMovesOn
  <1>1. ASSUME IInv, [Next]_vars, NEW w \in Walkers,
               Walking(w), walk'[w] # walk[w], walk'[w].more
        PROVE  walk'[w].after > walk[w].after
    <2>1. walk[w] \in Walks /\ walk \in [Walkers -> Walks \cup {None}]
      BY <1>1 DEF IInv, TypeOK, Walking
    <2>2. FollowNext(w)
      <3>1. ~UNCHANGED walkVars
        BY <1>1 DEF walkVars
      <3>2. PICK v \in Walkers :
                \/ \E f \in Groups \cup {All}, n \in Sizes, c \in Starts : StartWalk(v, f, n, c)
                \/ FollowNext(v)
        BY <1>1, <3>1 DEF Next, vars, walkVars, Ask, Insert, InsertDuplicate, InsertRejected,
                          ReadBack, Opened, GiveUp, ServerCommits, ServerRollsBack
      <3>3. v = w
        BY <1>1, <2>1, <3>2 DEF StartWalk, FollowNext, AnswerPage
      <3> QED  BY <1>1, <3>2, <3>3 DEF StartWalk, Walking
    <2> DEFINE rows == Rows(walk[w].filter, walk[w].after, walk[w].size)
               next == Cursor(rows, walk[w].size, walk[w].after)
    <2>3. walk'[w].after = next /\ walk'[w].more = (Cardinality(rows) > walk[w].size)
      BY <2>1, <2>2 DEF FollowNext, AnswerPage
    <2>4. walk[w].size \in Sizes /\ walk[w].after \in Codes \cup {0} /\ walk[w].size \in Nat
      BY <2>1, ChartAssumption DEF Walks
    <2>5. rows # {}
      <3>1. Cardinality(rows) > walk[w].size
        BY <1>1, <2>3
      <3> HIDE DEF rows
      <3>2. Cardinality({}) = 0
        BY FS_EmptySet
      <3> QED  BY <2>4, <3>1, <3>2
    <2>6. rows # {} => next > walk[w].after
      BY <2>4, PageFacts
    <2> HIDE DEF rows, next
    <2> QED  BY <2>3, <2>5, <2>6
  <1>2. IInv /\ [Next]_vars =>
            \A w \in Walkers :
                Walking(w) /\ walk'[w] # walk[w] /\ walk'[w].more => walk'[w].after > walk[w].after
    BY <1>1
  <1> QED  BY <1>2, Invariance, PTL DEF Spec, EveryPageMovesOn
=============================================================================
