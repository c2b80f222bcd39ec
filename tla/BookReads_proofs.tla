-------------------------- MODULE BookReads_proofs --------------------------
(***************************************************************************)
(* The reads implement OneBook: for any accounts, posters, readers,        *)
(* requests and any interleaving of them, every answer is what OneBook     *)
(* answers about the book as it stood at the reader's first statement, and *)
(* entries go into that book whole.                                        *)
(*                                                                         *)
(* The rows of the postings table and the places in the book's entries     *)
(* correspond one to one (RowsAreLegs), so a sum or a count of some is the *)
(* sum or the count of the others.                                         *)
(***************************************************************************)
EXTENDS Book_proofs

LEMMA PromiseCounts ==
    ASSUME NEW S
    PROVE  Promise!Cardinality(S) = Cardinality(S)
  BY DEF Cardinality, Promise!Cardinality

\* The book that tables t are.
BookOf(t) == [holds |-> t.chart, entries |-> EntriesIn(t)]

\* Where a row is in it.
Place(t, row) == <<row.txn, Cardinality({o \in LegsOfEntry(t, row.txn) : o.id <= row.id})>>

-----------------------------------------------------------------------------
(* Rows and places.                                                        *)

\* The tables list an entry's rows.
LEMMA EntryIsListed ==
    ASSUME NEW t, NEW sent, TablesOK(t, sent), NEW p \in Posters, t.head[p] # None,
           NEW e, e = EntryIn(sent[p].value)
    PROVE  /\ \E s : Lists(s, LegsOfEntry(t, p), e.legs)
           /\ Cardinality(LegsOfEntry(t, p)) = Len(e.legs)
           /\ Balanced(LegsOfEntry(t, p))
           /\ e.currency = t.head[p] /\ Priced(e.legs)
  <1>1. Holds(t, p, sent[p])
    BY DEF TablesOK
  <1> QED  BY <1>1, EntryLegs DEF Holds, IsWhole, Begins

\* A row is at its place.
LEMMA RowHasPlace ==
    ASSUME NEW t, NEW sent, TablesOK(t, sent), NEW row \in t.postings
    PROVE  /\ row.txn \in Posters /\ t.head[row.txn] # None
           /\ \A e : e = EntryIn(sent[row.txn].value) =>
                /\ Place(t, row)[2] \in 1..Len(e.legs)
                /\ e.legs[Place(t, row)[2]].account = row.account
                /\ e.legs[Place(t, row)[2]].amount = row.amount
                /\ e.currency = row.currency
  <1> DEFINE p == row.txn
             rows == LegsOfEntry(t, p)
  <1>1. p \in Posters /\ t.head[p] = row.currency /\ row.currency \in Currencies
    BY DEF TablesOK, IsRow, Rows
  <1>2. t.head[p] # None
    BY <1>1, NoneAssumption
  <1>3. row \in rows
    BY DEF LegsOfEntry
  <1> SUFFICES ASSUME NEW e, e = EntryIn(sent[p].value)
               PROVE  /\ Place(t, row)[2] \in 1..Len(e.legs)
                      /\ e.legs[Place(t, row)[2]].account = row.account
                      /\ e.legs[Place(t, row)[2]].amount = row.amount
                      /\ e.currency = row.currency
    BY <1>1, <1>2
  <1>4. /\ \E s : Lists(s, rows, e.legs)
        /\ Cardinality(rows) = Len(e.legs)
        /\ e.currency = t.head[p]
    <2> HIDE DEF p, rows
    <2> QED  BY <1>1, <1>2, EntryIsListed DEF rows
  <1>5. PICK s : Lists(s, rows, e.legs)
    BY <1>4
  <1>6. Numbered(rows)
    BY TablesNumbered
  <1>7. PICK i \in 1..Cardinality(rows) : s[i] = row
    BY <1>3, <1>5 DEF Lists
  <1>8. Cardinality({o \in rows : o.id <= s[i].id}) = i
    BY <1>5, <1>6, <1>7, PlaceInList
  <1>9. Place(t, row)[2] = i
    BY <1>7, <1>8 DEF Place
  <1>10. s[i].account = e.legs[i].account /\ s[i].amount = e.legs[i].amount
    BY <1>5, <1>7 DEF Lists
  <1> HIDE DEF rows, p
  <1> QED  BY <1>1, <1>4, <1>7, <1>9, <1>10

\* Two rows are not at one place.
LEMMA PlacesDiffer ==
    ASSUME NEW t, NEW sent, TablesOK(t, sent), NEW x \in t.postings, NEW y \in t.postings,
           Place(t, x) = Place(t, y)
    PROVE  x = y
  <1> DEFINE p == x.txn
             rows == LegsOfEntry(t, p)
             e == EntryIn(sent[p].value)
  <1>1. y.txn = p /\ x \in rows /\ y \in rows
    BY DEF Place, LegsOfEntry
  <1>2. p \in Posters /\ t.head[p] # None
    BY RowHasPlace
  <1>3. PICK s : Lists(s, rows, e.legs)
    <2> HIDE DEF p, e
    <2> QED  BY <1>2, EntryIsListed DEF e
  <1>4. Numbered(rows)
    BY TablesNumbered
  <1>5. PICK i \in 1..Cardinality(rows), j \in 1..Cardinality(rows) : s[i] = x /\ s[j] = y
    BY <1>1, <1>3 DEF Lists
  <1>6. /\ Cardinality({o \in rows : o.id <= s[i].id}) = i
        /\ Cardinality({o \in rows : o.id <= s[j].id}) = j
    BY <1>3, <1>4, <1>5, PlaceInList
  <1>7. i = j
    BY <1>1, <1>5, <1>6 DEF Place
  <1> QED  BY <1>5, <1>7

\* Every place has a row.
LEMMA PlaceHasRow ==
    ASSUME NEW t, NEW sent, TablesOK(t, sent), NEW p \in Posters, t.head[p] # None,
           NEW i \in 1..Len(EntryIn(sent[p].value).legs)
    PROVE  \E row \in t.postings : Place(t, row) = <<p, i>>
  <1> DEFINE rows == LegsOfEntry(t, p)
             e == EntryIn(sent[p].value)
  <1>1. PICK s : Lists(s, rows, e.legs)
    BY EntryIsListed
  <1>2. i \in 1..Cardinality(rows)
    BY EntryIsListed
  <1>3. Numbered(rows)
    BY TablesNumbered
  <1>4. s[i] \in t.postings /\ s[i].txn = p
    BY <1>1, <1>2 DEF Lists, LegsOfEntry
  <1>5. Cardinality({o \in rows : o.id <= s[i].id}) = i
    BY <1>1, <1>2, <1>3, PlaceInList
  <1>6. Place(t, s[i]) = <<p, i>>
    BY <1>4, <1>5 DEF Place
  <1> QED  BY <1>4, <1>6

-----------------------------------------------------------------------------
(* The book.                                                               *)

\* An entry that is read back is an entry, and so not None.
LEMMA EntryIsEntry ==
    ASSUME NEW t, NEW sent, TablesOK(t, sent), NEW p \in Posters, t.head[p] # None
    PROVE  EntryIn(sent[p].value) \in Entries
  <1> DEFINE e == EntryIn(sent[p].value)
             rows == LegsOfEntry(t, p)
  <1>1. IsRead(sent[p]) /\ t.head[p] = e.currency /\ t.head[p] \in Currencies
    BY DEF TablesOK, Holds
  <1>2. /\ Priced(e.legs)
        /\ e = [currency |-> e.currency,
                legs     |-> [i \in 1..Len(e.legs) |->
                                [account |-> e.legs[i].account, amount |-> e.legs[i].amount]]]
    <2> HIDE DEF e
    <2> QED  BY <1>1, EntryLegs DEF e
  <1>3. PICK s : Lists(s, rows, e.legs)
    BY EntryIsListed
  <1>4. Cardinality(rows) = Len(e.legs)
    BY EntryIsListed
  <1>5. \A row \in rows : row.account \in Accounts
    BY DEF LegsOfEntry, TablesOK, IsRow, Rows
  <1> HIDE DEF e, rows
  <1>6. \A i \in 1..Len(e.legs) : e.legs[i].account \in Accounts /\ e.legs[i].amount \in Int
    <2>1. \A i \in 1..Len(e.legs) : s[i] \in rows /\ s[i].account = e.legs[i].account
      BY <1>3, <1>4 DEF Lists
    <2> QED  BY <1>2, <1>5, <2>1 DEF Priced
  <1>7. e.legs \in [1..Len(e.legs) -> [account : Accounts, amount : Int]] /\ Len(e.legs) \in Nat
    <2>1. e.legs = [i \in 1..Len(e.legs) |->
                                [account |-> e.legs[i].account, amount |-> e.legs[i].amount]]
      BY <1>2
    <2> QED  BY <1>2, <1>6, <2>1 DEF Priced
  <1>8. e.legs \in Seq([account : Accounts, amount : Int])
    BY <1>7, SeqDef
  <1>9. e \in Entries
    BY <1>1, <1>2, <1>8 DEF Entries
  <1> QED  BY <1>9 DEF e

LEMMA EntriesOfBook ==
    ASSUME NEW t, NEW sent, TablesOK(t, sent), NEW b, b = BookOf(t)
    PROVE  /\ b.holds = t.chart
           /\ b.entries = EntriesIn(t)
           /\ \A p \in Posters :
                /\ t.head[p] = None => b.entries[p] = None
                /\ t.head[p] # None =>
                    /\ b.entries[p] = EntryIn(sent[p].value)
                    /\ b.entries[p] # None /\ b.entries[p] \in Entries
           /\ Promise!Entered(b) = {p \in Posters : t.head[p] # None}
           /\ Promise!Opened(b) = Opened(t)
  <1>1. b.holds = t.chart /\ b.entries = EntriesIn(t)
    BY DEF BookOf
  <1>2. ASSUME NEW p \in Posters, t.head[p] # None
        PROVE  /\ b.entries[p] = EntryIn(sent[p].value)
               /\ b.entries[p] # None /\ b.entries[p] \in Entries
    <2>1. b.entries[p] = EntryOf(t, t, p)
      BY <1>1, <1>2 DEF EntriesIn
    <2>2. EntryOf(t, t, p) = EntryIn(sent[p].value)
      BY <1>2, TablesReadBack
    <2>3. EntryIn(sent[p].value) \in Entries
      BY <1>2, EntryIsEntry
    <2> QED  BY <2>1, <2>2, <2>3, NoneAssumption
  <1>3. ASSUME NEW p \in Posters, t.head[p] = None
        PROVE  b.entries[p] = None
    BY <1>1, <1>3 DEF EntriesIn
  <1>4. Promise!Entered(b) = {p \in Posters : t.head[p] # None}
    BY <1>2, <1>3 DEF Promise!Entered
  <1>5. Promise!Opened(b) = Opened(t)
    BY <1>1 DEF Promise!Opened, Opened
  <1> QED  BY <1>1, <1>2, <1>3, <1>4, <1>5

\* A leg of the book is a place in one of its entries.
LEMMA LegsOfBook ==
    ASSUME NEW t, NEW sent, TablesOK(t, sent), NEW b, b = BookOf(t)
    PROVE  /\ \A l \in Promise!LegsIn(b) :
                \E p \in Posters : \E i \in 1..Len(EntryIn(sent[p].value).legs) :
                    t.head[p] # None /\ l = <<p, i>>
           /\ \A p \in Posters : \A i \in 1..Len(EntryIn(sent[p].value).legs) :
                t.head[p] # None => <<p, i>> \in Promise!LegsIn(b)
  <1>1. \A p \in Posters : t.head[p] # None =>
            DOMAIN b.entries[p].legs = 1..Len(EntryIn(sent[p].value).legs)
    BY EntriesOfBook, EntryIsListed DEF Priced
  <1>2. Promise!Entered(b) = {p \in Posters : t.head[p] # None}
    BY EntriesOfBook
  <1>3. Promise!LegsIn(b) =
            UNION {{p} \X DOMAIN b.entries[p].legs : p \in {q \in Posters : t.head[q] # None}}
    BY <1>2 DEF Promise!LegsIn
  <1>4. ASSUME NEW l \in Promise!LegsIn(b)
        PROVE  \E p \in Posters : \E i \in 1..Len(EntryIn(sent[p].value).legs) :
                    t.head[p] # None /\ l = <<p, i>>
    <2>1. PICK p \in Posters : t.head[p] # None /\ l \in {p} \X DOMAIN b.entries[p].legs
      BY <1>3, <1>4
    <2>2. PICK i \in DOMAIN b.entries[p].legs : l = <<p, i>>
      BY <2>1
    <2> QED  BY <1>1, <2>1, <2>2
  <1>5. ASSUME NEW p \in Posters, NEW i \in 1..Len(EntryIn(sent[p].value).legs), t.head[p] # None
        PROVE  <<p, i>> \in Promise!LegsIn(b)
    <2>1. <<p, i>> \in {p} \X DOMAIN b.entries[p].legs
      BY <1>1, <1>5
    <2> QED  BY <1>3, <1>5, <2>1
  <1> QED  BY <1>4, <1>5

\* What the book has at a row's place is the row.
LEMMA RowInBook ==
    ASSUME NEW t, NEW sent, TablesOK(t, sent), NEW b, b = BookOf(t), NEW row \in t.postings
    PROVE  /\ Place(t, row) \in Promise!LegsIn(b)
           /\ Promise!LegAt(b, Place(t, row)).account = row.account
           /\ Promise!LegAt(b, Place(t, row)).amount = row.amount
           /\ b.entries[Place(t, row)[1]].currency = row.currency
  <1> DEFINE p == row.txn
             i == Place(t, row)[2]
             e == EntryIn(sent[p].value)
  <1>1. Place(t, row) = <<p, i>>
    BY DEF Place
  <1>2. /\ p \in Posters /\ t.head[p] # None
        /\ i \in 1..Len(e.legs)
        /\ e.legs[i].account = row.account /\ e.legs[i].amount = row.amount
        /\ e.currency = row.currency
    BY RowHasPlace
  <1>3. b.entries[p] = e
    BY <1>2, EntriesOfBook
  <1>4. <<p, i>> \in Promise!LegsIn(b)
    BY <1>2, LegsOfBook
  <1>5. Promise!LegAt(b, <<p, i>>) = e.legs[i]
    BY <1>3 DEF Promise!LegAt
  <1> HIDE DEF p, i, e
  <1>6. <<p, i>>[1] = p
    OBVIOUS
  <1> QED  BY <1>1, <1>2, <1>3, <1>4, <1>5, <1>6

LEMMA BookInRows ==
    ASSUME NEW t, NEW sent, TablesOK(t, sent), NEW b, b = BookOf(t), NEW l \in Promise!LegsIn(b)
    PROVE  \E row \in t.postings : Place(t, row) = l
  BY LegsOfBook, PlaceHasRow

\* Rows and legs that are each other's.
Matches(t, rows, ls) ==
    /\ rows \subseteq t.postings
    /\ ls \subseteq Promise!LegsIn(BookOf(t))
    /\ \A row \in t.postings : row \in rows <=> Place(t, row) \in ls

LEMMA RowsAreLegs ==
    ASSUME NEW t, NEW sent, TablesOK(t, sent), NEW rows, NEW ls, Matches(t, rows, ls),
           NEW b, b = BookOf(t)
    PROVE  /\ Promise!Total(b, ls) = Amounts(rows)
           /\ Promise!Cardinality(ls) = Cardinality(rows)
  <1> DEFINE placed == [row \in rows |-> Place(t, row)]
             g == [row \in rows |-> row.amount]
             f == [l \in ls |-> Promise!LegAt(b, l).amount]
  <1>1. /\ rows \subseteq t.postings /\ ls \subseteq Promise!LegsIn(b)
        /\ \A row \in t.postings : row \in rows <=> Place(t, row) \in ls
    BY DEF Matches
  <1>2. IsFiniteSet(rows)
    <2>1. IsFiniteSet(t.postings)
      BY DEF TablesOK
    <2> QED  BY <1>1, <2>1, FS_Subset
  <1>3. placed \in Bijection(rows, ls)
    <2>1. placed \in [rows -> ls]
      BY <1>1
    <2>2. \A x, y \in rows : placed[x] = placed[y] => x = y
      BY <1>1, PlacesDiffer
    <2>3. \A l \in ls : \E x \in rows : placed[x] = l
      BY <1>1, BookInRows
    <2> HIDE DEF placed
    <2> QED  BY <2>1, <2>2, <2>3 DEF Bijection, Injection, Surjection, IsInjective
  <1>4. \A x \in rows : g[x] = f[placed[x]] /\ g[x] \in Int
    <2> SUFFICES ASSUME NEW x \in rows
                 PROVE  g[x] = f[placed[x]] /\ g[x] \in Int
      OBVIOUS
    <2>1. x \in t.postings /\ Place(t, x) \in ls
      BY <1>1
    <2>2. Promise!LegAt(b, Place(t, x)).amount = x.amount
      BY <2>1, RowInBook
    <2>3. x.amount \in Int
      BY <2>1, WidthAssumption DEF TablesOK, IsRow, Rows
    <2> QED  BY <2>1, <2>2, <2>3
  <1>5. DOMAIN g = rows /\ DOMAIN f = ls
    OBVIOUS
  <1>6. Promise!Total(b, ls) = Promise!SumFunction(f) /\ Amounts(rows) = SumFunction(g)
    BY DEF Promise!Total, Amounts
  <1> HIDE DEF placed, g, f
  <1>7. SumFunctionOnSet(g, rows) = SumFunctionOnSet(f, ls)
    BY <1>2, <1>3, <1>4, SumImage
  <1>8. SumFunction(g) = SumFunction(f)
    BY <1>5, <1>7 DEF SumFunction
  <1>9. Cardinality(ls) = Cardinality(rows)
    BY <1>2, <1>3, FS_Bijection DEF ExistsBijection
  <1> QED  BY <1>6, <1>8, <1>9, PromiseSums, PromiseCounts

-----------------------------------------------------------------------------
(* Balances and trial balances.                                            *)

LEMMA AmountsOn ==
    ASSUME NEW f, NEW rows, IsFiniteSet(rows), \A row \in rows : f[row] = row.amount
    PROVE  Amounts(rows) = SumFunctionOnSet(f, rows)
  <1> DEFINE g == [row \in rows |-> row.amount]
  <1>1. \A row \in rows : g[row] = f[row]
    OBVIOUS
  <1>2. DOMAIN g = rows /\ Amounts(rows) = SumFunction(g)
    BY DEF Amounts
  <1> HIDE DEF g
  <1>3. SumFunctionOnSet(g, rows) = SumFunctionOnSet(f, rows)
    BY <1>1, SumSame
  <1> QED  BY <1>2, <1>3 DEF SumFunction

\* In each currency the rows add up to nothing: they are whole entries'.
LEMMA CurrencyNets ==
    ASSUME NEW t, NEW sent, TablesOK(t, sent), NEW c,
           NEW rows, rows = {row \in t.postings : row.currency = c}
    PROVE  IsFiniteSet(rows) /\ Amounts(rows) = 0
  <1> DEFINE f == [row \in t.postings |-> row.amount]
             S == {row.txn : row \in rows}
             part == [p \in S |-> {row \in rows : row.txn = p}]
             g == [p \in S |-> 0]
             txns == [row \in rows |-> row.txn]
  <1>1. IsFiniteSet(rows)
    BY FS_Subset DEF TablesOK
  <1>2. IsFiniteSet(S)
    <2>1. txns \in Surjection(rows, S)
      BY DEF Surjection
    <2> HIDE DEF txns, S
    <2> QED  BY <1>1, <2>1, FS_Surjection DEF ExistsSurjection
  <1>3. \A row \in t.postings : f[row] = row.amount /\ f[row] \in Int
    BY WidthAssumption DEF TablesOK, IsRow, Rows
  <1>4. ASSUME NEW p \in S
        PROVE  IsFiniteSet(part[p]) /\ g[p] = SumFunctionOnSet(f, part[p])
    <2>1. PICK row \in rows : row.txn = p
      BY <1>4
    <2>2. p \in Posters /\ t.head[p] = c /\ t.head[p] # None
      BY <2>1, RowHasPlace DEF TablesOK
    <2>3. part[p] = LegsOfEntry(t, p)
      BY <2>2 DEF TablesOK, LegsOfEntry
    <2>4. Amounts(part[p]) = 0
      <3>1. Balanced(LegsOfEntry(t, p))
        <4> HIDE DEF S, part, f, g
        <4> QED  BY <2>2, EntryIsListed
      <3> QED  BY <2>3, <3>1 DEF Balanced
    <2>5. part[p] \subseteq rows
      OBVIOUS
    <2>6. IsFiniteSet(part[p])
      BY <1>1, <2>5, FS_Subset
    <2>7. g[p] = 0 /\ part[p] \subseteq t.postings
      BY <2>5
    <2> HIDE DEF part, f, g, S
    <2> QED  BY <1>3, <2>4, <2>6, <2>7, AmountsOn
  <1>5. part \in [S -> SUBSET rows] /\ \A x \in rows : \E p \in S : x \in part[p]
    OBVIOUS
  <1>6. \A p, q \in S : p # q => part[p] \cap part[q] = {}
    OBVIOUS
  <1>7. \A x \in rows : f[x] \in Int /\ f[x] = x.amount
    BY <1>3
  <1>8. \A p \in S : g[p] = 0
    OBVIOUS
  <1> HIDE DEF f, S, part, g, txns
  <1>9. SumFunctionOnSet(g, S) = SumFunctionOnSet(f, rows)
    BY <1>2, <1>4, <1>5, <1>6, <1>7, SumParts
  <1>10. SumFunctionOnSet(g, S) = 0
    BY <1>2, <1>8, SumZero
  <1>11. Amounts(rows) = SumFunctionOnSet(f, rows)
    BY <1>1, <1>7, AmountsOn
  <1> QED  BY <1>1, <1>9, <1>10, <1>11

\* The two sides of rows that add up to nothing are equal.
LEMMA SidesMeet ==
    ASSUME NEW rows, IsFiniteSet(rows), Amounts(rows) = 0,
           \A row \in rows : row.amount \in Int /\ row.amount # 0
    PROVE  -Amounts({row \in rows : row.amount < 0}) = Amounts({row \in rows : row.amount > 0})
  <1> DEFINE f == [row \in rows |-> row.amount]
             D == {row \in rows : row.amount > 0}
             C == {row \in rows : row.amount < 0}
  <1>1. \A row \in rows : f[row] = row.amount /\ f[row] \in Int
    OBVIOUS
  <1>2. D \cup C = rows /\ D \cap C = {} /\ D \subseteq rows /\ C \subseteq rows
    OBVIOUS
  <1>3. IsFiniteSet(D) /\ IsFiniteSet(C)
    <2> HIDE DEF D, C
    <2> QED  BY <1>2, FS_Subset
  <1> SUFFICES -Amounts(C) = Amounts(D)
    OBVIOUS
  <1> HIDE DEF f, D, C
  <1>4. /\ Amounts(rows) = SumFunctionOnSet(f, rows)
        /\ Amounts(D) = SumFunctionOnSet(f, D) /\ Amounts(C) = SumFunctionOnSet(f, C)
    BY <1>1, <1>2, <1>3, AmountsOn
  <1>5. SumFunctionOnSet(f, D \cup C) = SumFunctionOnSet(f, D) + SumFunctionOnSet(f, C)
    BY <1>1, <1>2, <1>3, SumSplit
  <1>6. SumFunctionOnSet(f, D) \in Int /\ SumFunctionOnSet(f, C) \in Int
    BY <1>1, <1>2, <1>3, SumInt
  <1> QED  BY <1>2, <1>4, <1>5, <1>6

\* An account's balance is its legs'.
LEMMA BalanceIsPromised ==
    ASSUME NEW t, NEW sent, TablesOK(t, sent), NEW a
    PROVE  AccountBalance(t, a) = Promise!Balance(BookOf(t), a)
  <1> DEFINE b == BookOf(t)
             rows == {row \in t.postings : row.account = a}
             ls == {l \in Promise!LegsIn(b) : Promise!LegAt(b, l).account = a}
  <1>1. Matches(t, rows, ls)
    <2>1. \A row \in t.postings : /\ Place(t, row) \in Promise!LegsIn(b)
                                  /\ Promise!LegAt(b, Place(t, row)).account = row.account
      BY RowInBook
    <2> QED  BY <2>1 DEF Matches
  <1>2. /\ AccountBalance(t, a) = [sum |-> Amounts(rows), postings |-> Cardinality(rows)]
        /\ Promise!Balance(b, a) = [sum |-> Promise!Total(b, ls), postings |-> Promise!Cardinality(ls)]
    BY DEF AccountBalance, Promise!Balance
  <1>3. Promise!Total(b, ls) = Amounts(rows) /\ Promise!Cardinality(ls) = Cardinality(rows)
    <2> HIDE DEF rows, ls
    <2> QED  BY <1>1, RowsAreLegs
  <1> QED  BY <1>2, <1>3

\* A row of the trial balance is its currency's legs.
LEMMA TrialIsPromised ==
    ASSUME NEW t, NEW sent, TablesOK(t, sent), NEW c, c # None
    PROVE  TrialRow(t, c) = Promise!Trial(BookOf(t), c)
  <1> DEFINE b == BookOf(t)
             of == {a \in Opened(t) : t.chart[a] = c}
             rows == {row \in t.postings : row.account \in of}
             D == {row \in rows : row.amount > 0}
             C == {row \in rows : row.amount < 0}
             ls == {l \in Promise!LegsIn(b) : b.entries[l[1]].currency = c}
             ds == {l \in ls : Promise!LegAt(b, l).amount > 0}
  <1>1. \A row \in t.postings :
            row.account \in Accounts /\ row.currency = t.chart[row.account]
            /\ row.amount \in Int /\ row.amount # 0
    BY WidthAssumption DEF TablesOK, IsRow, Rows
  <1>2. rows = {row \in t.postings : row.currency = c}
    BY <1>1 DEF Opened
  <1>3. \A row \in t.postings : /\ Place(t, row) \in Promise!LegsIn(b)
                                /\ Promise!LegAt(b, Place(t, row)).amount = row.amount
                                /\ b.entries[Place(t, row)[1]].currency = row.currency
    BY RowInBook
  <1>4. Matches(t, rows, ls)
    <2> HIDE DEF rows
    <2> QED  BY <1>2, <1>3 DEF Matches
  <1>5. Matches(t, D, ds)
    <2>1. D = {row \in t.postings : row.currency = c /\ row.amount > 0}
      BY <1>2
    <2>2. ds \subseteq Promise!LegsIn(b)
      OBVIOUS
    <2>3. \A row \in t.postings : Place(t, row) \in ds <=> row.currency = c /\ row.amount > 0
      BY <1>3
    <2> HIDE DEF D, ds
    <2> QED  BY <2>1, <2>2, <2>3 DEF Matches
  <1>6. IsFiniteSet(rows) /\ Amounts(rows) = 0
    <2> HIDE DEF rows
    <2> QED  BY <1>2, CurrencyNets
  <1>7. -Amounts(C) = Amounts(D)
    <2>1. \A row \in rows : row.amount \in Int /\ row.amount # 0
      BY <1>1
    <2> HIDE DEF rows
    <2> QED  BY <1>6, <2>1, SidesMeet
  <1>8. of = {a \in Promise!Opened(b) : b.holds[a] = c}
    BY EntriesOfBook
  <1>9. TrialRow(t, c) = [debits |-> Amounts(D), credits |-> -Amounts(C), net |-> Amounts(rows),
                          accounts |-> Cardinality(of), postings |-> Cardinality(rows)]
    BY DEF TrialRow
  <1>10. Promise!Trial(b, c) =
            [debits |-> Promise!Total(b, ds), credits |-> Promise!Total(b, ds), net |-> 0,
             accounts |-> Promise!Cardinality(of), postings |-> Promise!Cardinality(ls)]
    BY <1>8 DEF Promise!Trial
  <1> HIDE DEF of, rows, D, C, ls, ds
  <1>11. Promise!Total(b, ds) = Amounts(D)
    BY <1>5, RowsAreLegs
  <1>12. Promise!Cardinality(ls) = Cardinality(rows)
    BY <1>4, RowsAreLegs
  <1> QED  BY <1>6, <1>7, <1>9, <1>10, <1>11, <1>12, PromiseCounts

-----------------------------------------------------------------------------
(* Answers.                                                                *)

\* A reader asked something, and what it has seen is whole entries.
LEMMA ReaderHasSeen ==
    ASSUME LegsInv, NEW r \in Readers, moment[r] # None
    PROVE  /\ TablesOK(moment[r], request)
           /\ asked[r] \in Questions /\ asked[r] # None
           /\ asked[r].of \in {"entry", "account", "list", "trial"}
           /\ asked[r].of = "entry" => asked[r].which \in Posters
           /\ asked[r].of # "entry" => asked[r].level = "repeatable read"
           /\ asked[r].level \in Levels
  <1>1. asked[r] # None /\ TablesOK(moment[r], request)
    BY DEF LegsInv, MomentOK
  <1>2. asked[r] \in Questions
    BY <1>1 DEF LegsInv
  <1> QED  BY <1>1, <1>2 DEF Questions, Levels

\* The replay's second statement, at read committed, finds the legs its first would have.
LEMMA SecondLookIsFirst ==
    ASSUME LegsInv, NEW r \in Readers, moment[r] # None, NEW p \in Posters
    PROVE  EntryOf(moment[r], Seen(r), p) = EntryOf(moment[r], moment[r], p)
  <1>1. CASE asked[r].level = "repeatable read"
    BY <1>1 DEF Seen
  <1>2. CASE asked[r].level # "repeatable read" /\ moment[r].head[p] # None
    <2>1. LegsOfEntry(moment[r], p) = LegsOfEntry(Tables, p)
      BY <1>2 DEF LegsInv, MomentOK, StillThere
    <2>2. Seen(r) = Tables
      BY <1>2 DEF Seen
    <2> QED  BY <2>1, <2>2 DEF EntryOf
  <1>3. CASE moment[r].head[p] = None
    BY <1>3 DEF EntryOf
  <1> QED  BY <1>1, <1>2, <1>3

\* What the program computes.
Computed(r) ==
    CASE asked[r].of = "entry"   -> EntryOf(moment[r], Seen(r), asked[r].which)
      [] asked[r].of = "account" -> BalanceOf(moment[r], asked[r].which)
      [] asked[r].of = "list"    -> Balances(Seen(r))
      [] asked[r].of = "trial"   -> TrialBalance(moment[r])

LEMMA AnswerIsPromised ==
    ASSUME LegsInv, NEW r \in Readers, moment[r] # None
    PROVE  Computed(r) = Promise!Answer(BookOf(moment[r]), asked[r])
  <1> DEFINE t == moment[r]
             q == asked[r]
             b == BookOf(t)
  <1>1. /\ TablesOK(t, request)
        /\ q.of \in {"entry", "account", "list", "trial"}
        /\ q.of = "entry" => q.which \in Posters
        /\ q.of # "entry" => q.level = "repeatable read"
    BY ReaderHasSeen
  <1>2. b.holds = t.chart /\ Promise!Opened(b) = Opened(t)
    BY <1>1, EntriesOfBook
  <1>3. \A a : AccountBalance(t, a) = Promise!Balance(b, a)
    BY <1>1, BalanceIsPromised
  <1>4. CASE q.of = "entry"
    <2>1. Computed(r) = EntryOf(t, Seen(r), q.which)
      BY <1>4, Zenon DEF Computed
    <2>2. Promise!Answer(b, q) = IF q.which \in Promise!Entered(b) THEN b.entries[q.which]
                                 ELSE [missing |-> "transaction"]
      BY <1>4, Zenon DEF Promise!Answer
    <2>3. EntryOf(t, Seen(r), q.which) = EntryOf(t, t, q.which)
      BY <1>1, <1>4, SecondLookIsFirst
    <2>4. Promise!Entered(b) = {p \in Posters : t.head[p] # None}
      BY <1>1, EntriesOfBook
    <2>5. CASE t.head[q.which] # None
      <3>1. b.entries[q.which] = EntryOf(t, t, q.which)
        BY <1>1, <1>4, <2>5 DEF BookOf, EntriesIn
      <3> QED  BY <1>1, <1>4, <2>1, <2>2, <2>3, <2>4, <2>5, <3>1
    <2>6. CASE t.head[q.which] = None
      <3>1. EntryOf(t, t, q.which) = [missing |-> "transaction"]
        BY <2>6 DEF EntryOf
      <3> QED  BY <2>1, <2>2, <2>3, <2>4, <2>6, <3>1
    <2> QED  BY <2>5, <2>6
  <1>5. CASE q.of = "account"
    <2>1. Computed(r) = BalanceOf(t, q.which)
      BY <1>5, Zenon DEF Computed
    <2>2. Promise!Answer(b, q) = IF q.which \in Promise!Opened(b) THEN Promise!Balance(b, q.which)
                                 ELSE [missing |-> "account"]
      BY <1>5, Zenon DEF Promise!Answer
    <2> QED  BY <1>2, <1>3, <2>1, <2>2 DEF BalanceOf
  <1>6. CASE q.of = "list"
    <2>1. Computed(r) = Balances(Seen(r))
      BY <1>6, Zenon DEF Computed
    <2>2. Promise!Answer(b, q) = [a \in Promise!Opened(b) |-> Promise!Balance(b, a)]
      BY <1>6, Zenon DEF Promise!Answer
    <2>3. Seen(r) = t
      BY <1>1, <1>6 DEF Seen
    <2> QED  BY <1>2, <1>3, <2>1, <2>2, <2>3 DEF Balances
  <1>7. CASE q.of = "trial"
    <2>1. Computed(r) = TrialBalance(t)
      BY <1>7, Zenon DEF Computed
    <2>2. Promise!Answer(b, q) =
            [c \in {b.holds[a] : a \in Promise!Opened(b)} |-> Promise!Trial(b, c)]
      BY <1>7, Zenon DEF Promise!Answer
    <2> DEFINE C == {t.chart[a] : a \in Opened(t)}
    <2>3. \A c \in C : TrialRow(t, c) = Promise!Trial(b, c)
      <3> SUFFICES ASSUME NEW a \in Opened(t)
                   PROVE  TrialRow(t, t.chart[a]) = Promise!Trial(b, t.chart[a])
        OBVIOUS
      <3>1. t.chart[a] # None
        BY DEF Opened
      <3> QED  BY <1>1, <3>1, TrialIsPromised
    <2>4. {b.holds[a] : a \in Promise!Opened(b)} = C
      BY <1>2
    <2>5. TrialBalance(t) = [c \in C |-> TrialRow(t, c)]
      BY DEF TrialBalance
    <2>6. Promise!Answer(b, q) = [c \in C |-> Promise!Trial(b, c)]
      BY <2>2, <2>4
    <2>7. [c \in C |-> TrialRow(t, c)] = [c \in C |-> Promise!Trial(b, c)]
      <3> HIDE DEF C, t, b
      <3> QED  BY <2>3
    <2> QED  BY <2>1, <2>5, <2>6, <2>7
  <1> QED  BY <1>1, <1>4, <1>5, <1>6, <1>7

-----------------------------------------------------------------------------
(* What an answer is.                                                      *)

\* Some of a table's rows come to an integer.
LEMMA AmountsInt ==
    ASSUME NEW t, NEW sent, TablesOK(t, sent), NEW rows \in SUBSET t.postings
    PROVE  Amounts(rows) \in Int /\ Cardinality(rows) \in Nat
  <1> DEFINE f == [row \in rows |-> row.amount]
  <1>1. IsFiniteSet(rows)
    BY FS_Subset DEF TablesOK
  <1>2. \A row \in rows : f[row] = row.amount /\ f[row] \in Int
    BY WidthAssumption DEF TablesOK, IsRow, Rows
  <1> HIDE DEF f
  <1>3. Amounts(rows) = SumFunctionOnSet(f, rows)
    BY <1>1, <1>2, AmountsOn
  <1> QED  BY <1>1, <1>2, <1>3, SumInt, FS_CardinalityType

LEMMA BalanceType ==
    ASSUME NEW t, NEW sent, TablesOK(t, sent), NEW a
    PROVE  AccountBalance(t, a) \in BalanceRows
  <1> DEFINE rows == {row \in t.postings : row.account = a}
  <1>1. rows \in SUBSET t.postings
    OBVIOUS
  <1>2. AccountBalance(t, a) = [sum |-> Amounts(rows), postings |-> Cardinality(rows)]
    BY DEF AccountBalance
  <1> HIDE DEF rows
  <1> QED  BY <1>1, <1>2, AmountsInt DEF BalanceRows

LEMMA TrialType ==
    ASSUME NEW t, NEW sent, TablesOK(t, sent), NEW c
    PROVE  TrialRow(t, c) \in TrialRows
  <1> DEFINE of == {a \in Opened(t) : t.chart[a] = c}
             rows == {row \in t.postings : row.account \in of}
             D == {row \in rows : row.amount > 0}
             C == {row \in rows : row.amount < 0}
  <1>1. rows \in SUBSET t.postings /\ D \in SUBSET t.postings /\ C \in SUBSET t.postings
    OBVIOUS
  <1>2. IsFiniteSet(of)
    <2>1. of \subseteq Accounts
      BY DEF Opened
    <2> HIDE DEF of
    <2> QED  BY <2>1, AccountsAssumption, FS_Subset
  <1>3. TrialRow(t, c) = [debits |-> Amounts(D), credits |-> -Amounts(C), net |-> Amounts(rows),
                          accounts |-> Cardinality(of), postings |-> Cardinality(rows)]
    BY DEF TrialRow
  <1> HIDE DEF of, rows, D, C
  <1>4. Amounts(D) \in Int /\ Amounts(C) \in Int /\ Amounts(rows) \in Int /\ Cardinality(rows) \in Nat
    BY <1>1, AmountsInt
  <1>5. Cardinality(of) \in Nat
    BY <1>2, FS_CardinalityType
  <1> QED  BY <1>3, <1>4, <1>5 DEF TrialRows

\* What the program computes is an answer to what was asked.
LEMMA AnswerType ==
    ASSUME LegsInv, NEW r \in Readers, moment[r] # None
    PROVE  IsAnswer(asked[r], Computed(r))
  <1> DEFINE t == moment[r]
             q == asked[r]
             a == Computed(r)
  <1>1. /\ TablesOK(t, request)
        /\ q.of \in {"entry", "account", "list", "trial"}
        /\ q.of = "entry" => q.which \in Posters
        /\ q.of # "entry" => q.level = "repeatable read"
    BY ReaderHasSeen
  <1>2. Opened(t) \subseteq Accounts /\ \A x \in Opened(t) : t.chart[x] \in Currencies
    BY <1>1 DEF Opened, TablesOK
  <1>3. CASE q.of = "entry"
    <2>1. a = EntryOf(t, Seen(r), q.which)
      BY <1>3, Zenon DEF Computed
    <2>2. EntryOf(t, Seen(r), q.which) = EntryOf(t, t, q.which)
      BY <1>1, <1>3, SecondLookIsFirst
    <2>3. CASE t.head[q.which] # None
      <3>1. EntryOf(t, t, q.which) \in Entries
        BY <1>1, <1>3, <2>3, TablesReadBack, EntryIsEntry
      <3> QED  BY <1>3, <2>1, <2>2, <3>1 DEF IsAnswer
    <2>4. CASE t.head[q.which] = None
      <3>1. EntryOf(t, t, q.which) = [missing |-> "transaction"]
        BY <2>4 DEF EntryOf
      <3>2. a \in [missing : {"transaction"}]
        BY <2>1, <2>2, <3>1
      <3> QED  BY <1>3, <3>2 DEF IsAnswer
    <2> QED  BY <2>3, <2>4
  <1>4. CASE q.of = "account"
    <2>1. a = BalanceOf(t, q.which)
      BY <1>4, Zenon DEF Computed
    <2>2. a \in BalanceRows \cup [missing : {"account"}]
      <3>1. AccountBalance(t, q.which) \in BalanceRows
        BY <1>1, BalanceType
      <3>2. a = IF q.which \in Opened(t) THEN AccountBalance(t, q.which) ELSE [missing |-> "account"]
        BY <2>1 DEF BalanceOf
      <3> HIDE DEF a, t, q
      <3> QED  BY <3>1, <3>2
    <2> QED  BY <1>4, <2>2 DEF IsAnswer
  <1>5. CASE q.of = "list"
    <2>1. a = Balances(Seen(r))
      BY <1>5, Zenon DEF Computed
    <2>2. Seen(r) = t
      BY <1>1, <1>5 DEF Seen
    <2>3. a \in [Opened(t) -> BalanceRows]
      BY <1>1, <2>1, <2>2, BalanceType DEF Balances
    <2> QED  BY <1>2, <1>5, <2>3 DEF IsAnswer
  <1>6. CASE q.of = "trial"
    <2> DEFINE C == {t.chart[x] : x \in Opened(t)}
    <2>1. a = TrialBalance(t)
      BY <1>6, Zenon DEF Computed
    <2>2. TrialBalance(t) = [c \in C |-> TrialRow(t, c)]
      BY DEF TrialBalance
    <2>3. C \in SUBSET Currencies
      BY <1>2
    <2> HIDE DEF C
    <2>4. a \in [C -> TrialRows]
      BY <1>1, <2>1, <2>2, TrialType
    <2> QED  BY <1>6, <2>3, <2>4 DEF IsAnswer
  <1> QED  BY <1>1, <1>3, <1>4, <1>5, <1>6

-----------------------------------------------------------------------------
(* The tables' entries as writers come and go.                             *)

\* Entries whose rows stay stay.
LEMMA EntryStays ==
    ASSUME NEW t, NEW u, NEW p \in Posters, u.head[p] = t.head[p],
           LegsOfEntry(u, p) = LegsOfEntry(t, p)
    PROVE  EntriesIn(u)[p] = EntriesIn(t)[p]
  BY DEF EntriesIn, EntryOf

\* An entry in the tables is sound: two legs or more, none of them 0, that come to
\* nothing, on accounts in its currency.
LEMMA EntryIsSound ==
    ASSUME NEW t, NEW sent, TablesOK(t, sent), NEW p \in Posters, t.head[p] # None,
           NEW e, e = EntryIn(sent[p].value)
    PROVE  /\ Len(e.legs) >= 2
           /\ Promise!LegSum(e.legs) = 0
           /\ \A i \in 1..Len(e.legs) : e.legs[i].amount # 0 /\ t.chart[e.legs[i].account] = e.currency
  <1> DEFINE rows == LegsOfEntry(t, p)
             g == [i \in DOMAIN e.legs |-> e.legs[i].amount]
  <1>1. /\ Cardinality(rows) = Len(e.legs)
        /\ rows # {} /\ Amounts(rows) = 0
        /\ e.currency = t.head[p] /\ Priced(e.legs)
    BY EntryIsListed DEF Balanced
  <1>2. PICK s : Lists(s, rows, e.legs)
    BY EntryIsListed
  <1>3. Numbered(rows)
    BY TablesNumbered
  <1>4. \A row \in rows : row.amount # 0 /\ t.chart[row.account] = t.head[p]
    BY DEF LegsOfEntry, TablesOK, IsRow
  <1>5. Begins(rows, e.legs)
    BY EntryIsListed DEF TablesOK, Holds, IsWhole
  <1> HIDE DEF rows
  <1>6. \A i \in 1..Len(e.legs) : e.legs[i].amount # 0 /\ t.chart[e.legs[i].account] = e.currency
    <2>1. \A i \in 1..Len(e.legs) :
            s[i] \in rows /\ s[i].amount = e.legs[i].amount /\ s[i].account = e.legs[i].account
      BY <1>1, <1>2 DEF Lists
    <2> QED  BY <1>1, <1>4, <2>1
  <1>7. Net(e) = 0
    BY <1>1, <1>3, <1>5, ListSum
  <1>8. Net(e) = SumFunction(g) /\ Promise!LegSum(e.legs) = Promise!SumFunction(g)
    BY DEF Net, Promise!LegSum
  <1>9. Len(e.legs) # 0
    BY <1>1, <1>3, FS_EmptySet DEF Numbered
  <1>10. Len(e.legs) # 1
    <2> SUFFICES ASSUME Len(e.legs) = 1
                 PROVE  FALSE
      OBVIOUS
    <2>1. DOMAIN g = {1} /\ g[1] = e.legs[1].amount /\ g[1] \in Int
      BY <1>1 DEF Priced
    <2> HIDE DEF g
    <2>2. SumFunction(g) = g[1]
      BY <2>1, SumOne DEF SumFunction
    <2> QED  BY <1>6, <1>7, <1>8, <2>1, <2>2
  <1> HIDE DEF g
  <1>11. Len(e.legs) >= 2
    <2>1. Len(e.legs) \in Nat
      BY <1>1 DEF Priced
    <2>2. \A n \in Nat : n # 0 /\ n # 1 => n >= 2
      OBVIOUS
    <2> QED  BY <1>9, <1>10, <2>1, <2>2
  <1>12. Promise!LegSum(e.legs) = 0
    BY <1>7, <1>8, PromiseSums
  <1> QED  BY <1>6, <1>11, <1>12

\* COMMIT: a whole entry appears, and no other changes.
LEMMA CommitEnters ==
    ASSUME BookInv, LegsInv, NEW p \in Posters, Commits(p)
    PROVE  /\ EntriesIn(Tables)[p] = None
           /\ EntriesIn(Tables')[p] # None
           /\ Promise!Sound(EntriesIn(Tables')[p])
           /\ \A o \in Posters \ {p} : EntriesIn(Tables')[o] = EntriesIn(Tables)[o]
           /\ UNCHANGED <<chart, readVars>>
  <1> DEFINE u == Tables'
  <1>1. pc[p] = "asked" /\ head[p] = None /\ Entry(p).currency \in Currencies
        /\ \A row \in wrote[p] : row.txn = p
    BY DEF Commits, LegsInv, PosterOK, BookInv, WroteOK
  <1>2. /\ head' = [head EXCEPT ![p] = Entry(p).currency] /\ postings' = postings \cup wrote[p]
        /\ UNCHANGED <<chart, request>> /\ UNCHANGED readVars
    BY DEF Commits
  <1>3. TablesOK(u, request)
    <2>1. LegsInv'
      BY CommitsKeeps
    <2> QED  BY <1>2, <2>1 DEF LegsInv
  <1>4. u.head = head' /\ u.chart = chart /\ u.postings = postings'
        /\ Tables.head = head /\ Tables.chart = chart /\ Tables.postings = postings
    BY <1>2 DEF Tables
  <1>5. u.head[p] # None /\ \A o \in Posters \ {p} : u.head[o] = Tables.head[o]
    <2>1. head \in [Posters -> Currencies \cup {None}]
      BY DEF LegsInv, TablesOK, Tables
    <2> QED  BY <1>1, <1>2, <1>4, <2>1, NoneAssumption
  <1>6. \A o \in Posters \ {p} : LegsOfEntry(u, o) = LegsOfEntry(Tables, o)
    BY <1>1, <1>2, <1>4 DEF LegsOfEntry
  <1> HIDE DEF u
  <1>7. EntriesIn(Tables)[p] = None
    BY <1>1, <1>4 DEF EntriesIn
  <1>8. /\ EntriesIn(u)[p] = EntryIn(request[p].value) /\ EntriesIn(u)[p] # None
    <2>1. BookOf(u).entries = EntriesIn(u)
      BY DEF BookOf
    <2> QED  BY <1>3, <1>5, <2>1, EntriesOfBook
  <1>9. Promise!Sound(EntryIn(request[p].value))
    BY <1>3, <1>4, <1>5, EntryIsSound DEF Promise!Sound
  <1>10. \A o \in Posters \ {p} : EntriesIn(u)[o] = EntriesIn(Tables)[o]
    BY <1>5, <1>6, EntryStays
  <1> QED  BY <1>2, <1>7, <1>8, <1>9, <1>10 DEF u

-----------------------------------------------------------------------------
(* Every step is OneBook's.                                                *)

\* The book each reader's answer is about.
SeenBy == [r \in Readers |-> IF moment[r] = None THEN None
                             ELSE [holds |-> moment[r].chart, entries |-> EntriesIn(moment[r])]]

\* A book is not None, and so a reader that has looked is seen to have.
LEMMA SeenIsSeen ==
    ASSUME NEW t, NEW sent, TablesOK(t, sent)
    PROVE  BookOf(t) # None /\ t # None
  <1>1. t \in [chart : [Accounts -> Currencies \cup {None}], head : [Posters -> Currencies \cup {None}],
               postings : SUBSET Rows]
    BY DEF TablesOK
  <1>2. t # None
    <2>1. Rows \subseteq [id : Nat, txn : Posters, account : Accounts,
                          currency : Currencies, amount : Int]
      BY WidthAssumption DEF Rows
    <2> QED  BY <1>1, <2>1, NoneAssumption
  <1>3. EntriesIn(t) \in [Posters -> Entries \cup {None}]
    <2>1. \A p \in Posters : EntriesIn(t)[p] \in Entries \cup {None}
      <3>1. BookOf(t).entries = EntriesIn(t)
        BY DEF BookOf
      <3> QED  BY <3>1, EntriesOfBook
    <2>2. EntriesIn(t) = [p \in Posters |-> EntriesIn(t)[p]]
      BY DEF EntriesIn
    <2> QED  BY <2>1, <2>2
  <1>4. BookOf(t) \in [holds : [Accounts -> Currencies \cup {None}], entries : [Posters -> Entries \cup {None}]]
    BY <1>1, <1>3 DEF BookOf
  <1> QED  BY <1>2, <1>4, NoneAssumption

LEMMA ReadsStart == Init => Promise!BookInit
  <1> SUFFICES ASSUME Init PROVE Promise!BookInit
    OBVIOUS
  <1>1. /\ chart \in Charts /\ head = [p \in Posters |-> None]
        /\ asked = [r \in Readers |-> None] /\ moment = [r \in Readers |-> None]
        /\ answer = [r \in Readers |-> None]
    BY DEF Init
  <1>2. chart \in [Accounts -> Currencies \cup {None}]
    BY <1>1, ChartAssumption
  <1>3. EntriesIn(Tables) = [t \in Posters |-> None]
    BY <1>1 DEF EntriesIn, Tables
  <1>4. SeenBy = [r \in Readers |-> None]
    BY <1>1 DEF SeenBy
  <1> QED  BY <1>1, <1>2, <1>3, <1>4 DEF Promise!BookInit, SeenBy

\* A step that leaves the tables and the readers alone is none of OneBook's.
LEMMA TablesStutter ==
    ASSUME UNCHANGED <<chart, head, postings>>, UNCHANGED readVars
    PROVE  UNCHANGED Promise!bookVars
  <1>1. Tables' = Tables /\ chart' = chart /\ asked' = asked /\ moment' = moment /\ answer' = answer
    BY DEF Tables, readVars
  <1>2. EntriesIn(Tables)' = EntriesIn(Tables)
    BY <1>1
  <1> QED  BY <1>1, <1>2 DEF Promise!bookVars

LEMMA PosterReads ==
    ASSUME BookInv, LegsInv, NEW p \in Posters,
           \/ Decodes(p) \/ InsertsHead(p) \/ InsertsLeg(p) \/ AsksBalance(p)
           \/ RefusedOtherwise(p) \/ Explains(p) \/ GivesUp(p)
    PROVE  UNCHANGED Promise!bookVars
  <1>1. UNCHANGED <<chart, head, postings>> /\ UNCHANGED readVars
    BY DEF Decodes, InsertsHead, InsertsLeg, AsksBalance, RefusedOtherwise, Explains, GivesUp,
           Replies, RollsBack
  <1> QED  BY <1>1, TablesStutter

LEMMA CommitReads ==
    ASSUME BookInv, LegsInv, NEW p \in Posters, Commits(p)
    PROVE  Promise!Enters(p)
  <1>1. UNCHANGED <<chart, asked, moment, answer>>
    BY CommitEnters DEF readVars
  <1>2. SeenBy' = SeenBy
    BY <1>1 DEF SeenBy
  <1>3. EntriesIn(Tables)' = EntriesIn(Tables')
    OBVIOUS
  <1> QED  BY <1>1, <1>2, <1>3, CommitEnters DEF Promise!Enters, SeenBy

LEMMA OpensReads ==
    ASSUME LegsInv, NEW a \in Accounts, NEW c \in Currencies, OpensAccount(a, c)
    PROVE  Promise!Opens(a, c)
  <1>1. /\ chart[a] = None /\ chart' = [chart EXCEPT ![a] = c]
        /\ UNCHANGED <<head, postings, asked, moment, answer>>
    BY DEF OpensAccount, readVars
  <1>2. Tables'.head = Tables.head /\ Tables'.postings = Tables.postings
    BY <1>1 DEF Tables
  <1>3. EntriesIn(Tables)' = EntriesIn(Tables)
    BY <1>2 DEF EntriesIn, EntryOf, LegsOfEntry
  <1>4. SeenBy' = SeenBy
    BY <1>1 DEF SeenBy
  <1> QED  BY <1>1, <1>3, <1>4 DEF Promise!Opens, SeenBy

\* What a reader does leaves the book alone.
LEMMA ReaderLeavesBook ==
    ASSUME UNCHANGED writeVars
    PROVE  UNCHANGED <<chart, Tables, EntriesIn(Tables)>>
  BY DEF writeVars, Tables

LEMMA AsksReads ==
    ASSUME NEW r \in Readers, NEW q \in Questions, Asks(r, q)
    PROVE  Promise!Asks(r, q)
  <1>1. /\ asked[r] = None /\ asked' = [asked EXCEPT ![r] = q]
        /\ UNCHANGED <<moment, answer>> /\ UNCHANGED writeVars
    BY DEF Asks
  <1>2. SeenBy' = SeenBy
    BY <1>1 DEF SeenBy
  <1> QED  BY <1>1, <1>2, ReaderLeavesBook DEF Promise!Asks, SeenBy

LEMMA LooksReads ==
    ASSUME LegsInv, NEW r \in Readers, Looks(r)
    PROVE  Promise!Looks(r)
  <1>1. /\ asked[r] # None /\ moment[r] = None /\ moment' = [moment EXCEPT ![r] = Tables]
        /\ UNCHANGED <<asked, answer>> /\ UNCHANGED writeVars
    BY DEF Looks
  <1>2. DOMAIN moment = Readers /\ TablesOK(Tables, request)
    BY DEF LegsInv
  <1>3. Tables # None
    BY <1>2, SeenIsSeen
  <1>4. SeenBy' = [SeenBy EXCEPT ![r] = [holds |-> chart, entries |-> EntriesIn(Tables)]]
    <2>1. moment'[r] = Tables /\ \A o \in Readers \ {r} : moment'[o] = moment[o]
      BY <1>1, <1>2
    <2>2. Tables.chart = chart
      BY DEF Tables
    <2>3. \A o \in Readers : SeenBy'[o] = [SeenBy EXCEPT ![r] = [holds |-> chart, entries |-> EntriesIn(Tables)]][o]
      BY <1>3, <2>1, <2>2 DEF SeenBy
    <2>4. SeenBy' = [o \in Readers |-> SeenBy'[o]] /\ DOMAIN SeenBy = Readers
      BY DEF SeenBy
    <2> QED  BY <2>3, <2>4
  <1>5. SeenBy[r] = None
    BY <1>1 DEF SeenBy
  <1> QED  BY <1>1, <1>4, <1>5, ReaderLeavesBook DEF Promise!Looks, Promise!Book, SeenBy

LEMMA AnswersReads ==
    ASSUME LegsInv, NEW r \in Readers, Answers(r)
    PROVE  Promise!Answers(r)
  <1>1. /\ moment[r] # None /\ answer[r] = None
        /\ UNCHANGED <<asked, moment>> /\ UNCHANGED writeVars
    BY DEF Answers
  <1>2. answer' = [answer EXCEPT ![r] = Computed(r)]
    BY Zenon DEF Answers, Computed
  <1>3. Computed(r) = Promise!Answer(BookOf(moment[r]), asked[r])
    BY <1>1, AnswerIsPromised
  <1>4. SeenBy[r] = BookOf(moment[r])
    BY <1>1 DEF SeenBy, BookOf
  <1>5. SeenBy[r] # None
    BY <1>1, <1>4, ReaderHasSeen, SeenIsSeen
  <1>6. SeenBy' = SeenBy
    BY <1>1 DEF SeenBy
  <1> QED  BY <1>1, <1>2, <1>3, <1>4, <1>5, <1>6, ReaderLeavesBook DEF Promise!Answers, SeenBy

LEMMA StepIsPromised ==
    ASSUME BookInv, LegsInv, [Next]_vars
    PROVE  [Promise!BookNext]_Promise!bookVars
  <1>1. CASE \E p \in Posters : Commits(p)
    <2>1. PICK p \in Posters : Commits(p)
      BY <1>1
    <2>2. Promise!Enters(p)
      BY <2>1, CommitReads
    <2> QED  BY <2>2 DEF Promise!BookNext
  <1>2. CASE \E p \in Posters : \/ Decodes(p) \/ InsertsHead(p) \/ InsertsLeg(p) \/ AsksBalance(p)
                                \/ RefusedOtherwise(p) \/ Explains(p) \/ GivesUp(p)
    BY <1>2, PosterReads
  <1>3. CASE \E a \in Accounts, c \in Currencies : OpensAccount(a, c)
    BY <1>3, OpensReads DEF Promise!BookNext
  <1>4. CASE \E r \in Readers : Looks(r)
    BY <1>4, LooksReads DEF Promise!BookNext
  <1>5. CASE \E r \in Readers : Answers(r)
    BY <1>5, AnswersReads DEF Promise!BookNext
  <1>6. CASE \E r \in Readers : \E q \in Questions : Asks(r, q)
    BY <1>6, AsksReads DEF Promise!BookNext
  <1>7. CASE UNCHANGED vars
    BY <1>7, TablesStutter DEF vars, writeVars
  <1> QED  BY <1>1, <1>2, <1>3, <1>4, <1>5, <1>6, <1>7 DEF Next

-----------------------------------------------------------------------------
(* The types.                                                              *)

\* A reader was answered what it asked, and after it had looked.
AnswersInv ==
    \A r \in Readers : answer[r] # None => moment[r] # None /\ IsAnswer(asked[r], answer[r])

LEMMA InitAnswersInv == Init => AnswersInv
  BY DEF Init, AnswersInv

LEMMA NextAnswersInv == LegsInv /\ AnswersInv /\ [Next]_vars => AnswersInv'
  <1> SUFFICES ASSUME LegsInv, AnswersInv, [Next]_vars PROVE AnswersInv'
    OBVIOUS
  <1>1. CASE UNCHANGED readVars
    BY <1>1 DEF AnswersInv, readVars
  <1>2. ASSUME NEW r \in Readers, NEW q \in Questions, Asks(r, q)
        PROVE  AnswersInv'
    <2>1. asked[r] = None /\ asked' = [asked EXCEPT ![r] = q] /\ UNCHANGED <<moment, answer>>
      BY <1>2 DEF Asks
    <2>2. moment[r] = None
      BY <2>1 DEF LegsInv, MomentOK
    <2> QED  BY <2>1, <2>2 DEF AnswersInv
  <1>3. ASSUME NEW r \in Readers, Looks(r)
        PROVE  AnswersInv'
    <2>1. moment[r] = None /\ moment' = [moment EXCEPT ![r] = Tables] /\ UNCHANGED <<asked, answer>>
      BY <1>3 DEF Looks
    <2> QED  BY <2>1 DEF AnswersInv
  <1>4. ASSUME NEW r \in Readers, Answers(r)
        PROVE  AnswersInv'
    <2>1. moment[r] # None /\ answer[r] = None /\ UNCHANGED <<asked, moment>>
      BY <1>4 DEF Answers
    <2>2. answer' = [answer EXCEPT ![r] = Computed(r)]
      BY <1>4, Zenon DEF Answers, Computed
    <2>3. IsAnswer(asked[r], Computed(r))
      BY <2>1, AnswerType
    <2>4. \A o \in Readers : answer'[o] = IF o = r THEN Computed(r) ELSE answer[o]
      BY <2>2 DEF LegsInv
    <2> QED  BY <2>1, <2>3, <2>4 DEF AnswersInv
  <1>5. CASE \E p \in Posters : \/ Decodes(p) \/ InsertsHead(p) \/ InsertsLeg(p) \/ AsksBalance(p)
                                \/ Commits(p) \/ RefusedOtherwise(p) \/ Explains(p) \/ GivesUp(p)
    <2>1. UNCHANGED readVars
      BY <1>5 DEF Decodes, InsertsHead, InsertsLeg, AsksBalance, Commits, RefusedOtherwise, Explains, GivesUp
    <2> QED  BY <1>1, <2>1
  <1>6. CASE \E a \in Accounts, c \in Currencies : OpensAccount(a, c)
    BY <1>1, <1>6 DEF OpensAccount, readVars
  <1>7. CASE UNCHANGED vars
    BY <1>1, <1>7 DEF vars
  <1> QED  BY <1>2, <1>3, <1>4, <1>5, <1>6, <1>7 DEF Next

\* The types of the tables, of what posters send, write and are answered (refuse), and of
\* what readers ask, see and are answered (BalanceOf, Balances, TrialBalance, EntryOf).
THEOREM BookAlwaysTypeOK == Spec => []TypeOK
  <1>1. BookInv /\ LegsInv /\ AnswersInv => TypeOK
    <2> SUFFICES ASSUME BookInv, LegsInv, AnswersInv PROVE TypeOK
      OBVIOUS
    <2>1. /\ chart \in [Accounts -> Currencies \cup {None}]
          /\ head \in [Posters -> Currencies \cup {None}] /\ postings \subseteq Rows
      BY DEF LegsInv, TablesOK, Tables
    <2>2. \A p \in Posters : request[p] \in RequestsOf[p] /\ wrote[p] \subseteq Rows
      BY DEF LegsInv, PosterOK, IsRow
    <2>3. nextId \in Nat /\ pc \in [Posters -> Stages]
      BY DEF BookInv
    <2>4. \A p \in Posters : IsReply(p, reply[p])
      BY DEF LegsInv, ToldOK, SaysSo, IsReply
    <2>5. asked \in [Readers -> Questions \cup {None}]
      BY DEF LegsInv
    <2>6. \A r \in Readers : moment[r] # None =>
            moment[r] \in [chart : [Accounts -> Currencies \cup {None}],
                          head : [Posters -> Currencies \cup {None}], postings : SUBSET Rows]
      BY DEF LegsInv, MomentOK, TablesOK
    <2>7. \A r \in Readers : answer[r] # None => IsAnswer(asked[r], answer[r])
      BY DEF AnswersInv
    <2> QED  BY <2>1, <2>2, <2>3, <2>4, <2>5, <2>6, <2>7 DEF TypeOK
  <1>2. Spec => []AnswersInv
    <2>1. BookInv /\ LegsInv /\ AnswersInv /\ [Next]_vars => AnswersInv'
      BY NextAnswersInv
    <2> QED  BY <2>1, InitAnswersInv, LegsInvariance, PTL DEF Spec
  <1> QED  BY <1>1, <1>2, LegsInvariance, PTL

\* The snapshot of Pool.Read and the order of EntryOf's two statements: whatever is posted,
\* opened and read in between, every answer is OneBook's about the book at one moment, and
\* entries appear in it whole, balanced and for good.
THEOREM ReadsAlwaysTellOfOneBook == Spec => ReadsTellOfOneBook
  <1>1. Spec => Promise!BookInit
    BY ReadsStart DEF Spec
  <1>2. Spec => [][Promise!BookNext]_Promise!bookVars
    <2>1. BookInv /\ LegsInv /\ [Next]_vars => [Promise!BookNext]_Promise!bookVars
      BY StepIsPromised
    <2> QED  BY <2>1, LegsInvariance, PTL DEF Spec
  <1> QED  BY <1>1, <1>2 DEF ReadsTellOfOneBook, Promise!BookSpec
=============================================================================
