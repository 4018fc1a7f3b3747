------------------------------ MODULE TuiProofs ------------------------------
(***************************************************************************)
(* Theorems about Tui, for any feeds, keys and terminal heights.           *)
(***************************************************************************)
EXTENDS Tui, FoldProofs

(* Sorted sequences.                                                       *)

StrictOrder(R, S) ==
    /\ \A x \in S : <<x, x>> \notin R
    /\ \A x, y, z \in S : <<x, y>> \in R /\ <<y, z>> \in R => <<x, z>> \in R
    /\ \A x, y \in S : x # y => <<x, y>> \in R \/ <<y, x>> \in R

\* The members of S before x.
Lower(S, R, x) == {y \in S : <<y, x>> \in R}

\* In a finite ordered set, each number below the size of the set is the number
\* of members before exactly one member.
LEMMA Ranks ==
  ASSUME NEW S, IsFiniteSet(S), NEW R, StrictOrder(R, S)
  PROVE  /\ \A x \in S : Cardinality(Lower(S, R, x)) \in 0 .. Cardinality(S) - 1
         /\ \A x, y \in S : <<x, y>> \in R <=>
               Cardinality(Lower(S, R, x)) < Cardinality(Lower(S, R, y))
         /\ \A k \in 0 .. Cardinality(S) - 1 :
               \E x \in S : Cardinality(Lower(S, R, x)) = k
<1> DEFINE N == Cardinality(S)
           rank == [x \in S |-> Cardinality(Lower(S, R, x))]
<1>0. N \in Nat
  BY FS_CardinalityType
<1>1. ASSUME NEW x \in S
      PROVE  /\ Lower(S, R, x) \in SUBSET (S \ {x}) /\ IsFiniteSet(Lower(S, R, x))
             /\ rank[x] = Cardinality(Lower(S, R, x)) /\ rank[x] \in 0 .. N - 1
  <2>1. Lower(S, R, x) \in SUBSET (S \ {x})
    BY DEF Lower, StrictOrder
  <2>2. IsFiniteSet(S \ {x}) /\ Cardinality(S \ {x}) = N - 1
    BY FS_RemoveElement
  <2>3. IsFiniteSet(Lower(S, R, x)) /\ Cardinality(Lower(S, R, x)) =< N - 1
    BY <2>1, <2>2, FS_Subset
  <2>4. Cardinality(Lower(S, R, x)) \in Nat
    BY <2>3, FS_CardinalityType
  <2> QED
    BY <1>0, <2>1, <2>3, <2>4
<1>2. ASSUME NEW x \in S, NEW y \in S, <<x, y>> \in R
      PROVE  rank[x] < rank[y]
  <2>1. Lower(S, R, x) \in SUBSET Lower(S, R, y)
    BY <1>2 DEF Lower, StrictOrder
  <2>2. x \in Lower(S, R, y) /\ x \notin Lower(S, R, x)
    BY <1>2 DEF Lower, StrictOrder
  <2>3. Cardinality(Lower(S, R, x)) =< Cardinality(Lower(S, R, y))
        /\ Cardinality(Lower(S, R, x)) # Cardinality(Lower(S, R, y))
    BY <1>1, <2>1, <2>2, FS_Subset
  <2>4. rank[x] \in Nat /\ rank[y] \in Nat
    BY <1>0, <1>1
  <2> QED
    BY <1>1, <2>3, <2>4
<1>3. ASSUME NEW x \in S, NEW y \in S, rank[x] < rank[y]
      PROVE  <<x, y>> \in R
  <2>1. x # y
    BY <1>0, <1>1, <1>3
  <2>2. <<x, y>> \in R \/ <<y, x>> \in R
    BY <2>1 DEF StrictOrder
  <2>3. ~ (rank[y] < rank[x])
    BY <1>0, <1>1, <1>3
  <2> QED
    BY <1>2, <2>2, <2>3
<1>4. rank \in Injection(S, 0 .. N - 1)
  <2>1. rank \in [S -> 0 .. N - 1]
    BY <1>1
  <2>2. ASSUME NEW x \in S, NEW y \in S, rank[x] = rank[y] PROVE x = y
    <3>1. ~ (rank[x] < rank[y]) /\ ~ (rank[y] < rank[x])
      BY <1>0, <1>1, <2>2
    <3> QED
      BY <1>2, <3>1 DEF StrictOrder
  <2> QED
    BY <2>1, <2>2 DEF Injection, IsInjective
<1>5. IsFiniteSet(0 .. N - 1) /\ Cardinality(0 .. N - 1) = N
  BY <1>0, FS_Interval
<1>6. rank \in Surjection(S, 0 .. N - 1)
  <2> HIDE DEF rank
  <2> QED
    BY <1>4, <1>5, FS_Injection
<1>7. ASSUME NEW k \in 0 .. N - 1 PROVE \E x \in S : Cardinality(Lower(S, R, x)) = k
  BY <1>1, <1>6 DEF Surjection
<1>8. \A x, y \in S : <<x, y>> \in R <=>
         Cardinality(Lower(S, R, x)) < Cardinality(Lower(S, R, y))
  BY <1>1, <1>2, <1>3
<1> QED
  BY <1>1, <1>7, <1>8

\* s has every member of S once, in the order R.
Lists(s, S, R) ==
    /\ s \in Seq(S)
    /\ \A x \in S : \E n \in 1 .. Len(s) : s[n] = x
    /\ \A m, n \in 1 .. Len(s) : m < n <=> <<s[m], s[n]>> \in R

\* Sorted does.
LEMMA SortedList ==
  ASSUME NEW S, IsFiniteSet(S), NEW R, StrictOrder(R, S)
  PROVE  /\ Lists(Sorted(S, R), S, R)
         /\ Len(Sorted(S, R)) = Cardinality(S) /\ Cardinality(S) \in Nat
         /\ \A n \in 1 .. Cardinality(S) :
               Cardinality(Lower(S, R, Sorted(S, R)[n])) = n - 1
<1> DEFINE N == Cardinality(S)
<1>0. N \in Nat
  BY FS_CardinalityType
<1>1. ASSUME NEW n \in 1 .. N
      PROVE  /\ Sorted(S, R)[n] \in S
             /\ Cardinality(Lower(S, R, Sorted(S, R)[n])) = n - 1
  <2>1. n - 1 \in 0 .. N - 1
    BY <1>0
  <2>2. PICK x \in S : Cardinality(Lower(S, R, x)) = n - 1
    BY <2>1, Ranks
  <2>3. Sorted(S, R)[n] = CHOOSE y \in S : Cardinality(Lower(S, R, y)) = n - 1
    BY DEF Sorted, Lower
  <2> QED
    BY <2>2, <2>3
<1>2. Sorted(S, R) \in [1 .. N -> S]
  <2> DEFINE nth(n) == CHOOSE x \in S : Cardinality({y \in S : <<y, x>> \in R}) = n - 1
  <2>1. Sorted(S, R) = [n \in 1 .. N |-> nth(n)]
    BY DEF Sorted
  <2> HIDE DEF nth
  <2>2. \A n \in 1 .. N : nth(n) \in S
    BY <1>1, <2>1
  <2> QED
    BY <2>1, <2>2
<1>3. Sorted(S, R) \in Seq(S) /\ Len(Sorted(S, R)) = N
  BY <1>0, <1>2
<1>4. ASSUME NEW m \in 1 .. N, NEW n \in 1 .. N
      PROVE  m < n <=> <<Sorted(S, R)[m], Sorted(S, R)[n]>> \in R
  <2>1. <<Sorted(S, R)[m], Sorted(S, R)[n]>> \in R <=> m - 1 < n - 1
    BY <1>1, Ranks
  <2> QED
    BY <1>0, <2>1
<1>5. ASSUME NEW x \in S PROVE \E n \in 1 .. N : Sorted(S, R)[n] = x
  <2> DEFINE k == Cardinality(Lower(S, R, x)) + 1
  <2>1. k - 1 = Cardinality(Lower(S, R, x)) /\ k \in 1 .. N
    BY <1>0, Ranks
  <2> HIDE DEF k
  <2> DEFINE y == Sorted(S, R)[k]
  <2>2. y \in S /\ Cardinality(Lower(S, R, y)) = Cardinality(Lower(S, R, x))
    BY <1>1, <2>1
  <2> HIDE DEF y
  <2>3. ~ (<<x, y>> \in R) /\ ~ (<<y, x>> \in R)
    <3>1. Cardinality(Lower(S, R, x)) \in Int
      BY <1>0, Ranks
    <3> QED
      BY <2>2, <3>1, Ranks
  <2>4. x = y
    BY <2>2, <2>3 DEF StrictOrder
  <2> QED
    BY <2>1, <2>4 DEF y
<1> QED
  BY <1>0, <1>1, <1>3, <1>4, <1>5 DEF Lists

\* There is one way to list the members of S in order.
LEMMA SortedUnique ==
  ASSUME NEW S, IsFiniteSet(S), NEW R, StrictOrder(R, S),
         NEW s, Lists(s, S, R)
  PROVE  s = Sorted(S, R)
<1> DEFINE N == Len(s)
<1>0. /\ N \in Nat /\ s \in [1 .. N -> S] /\ \A n \in 1 .. N : s[n] \in S
      /\ s \in Seq(S)
      /\ \A x \in S : \E n \in 1 .. N : s[n] = x
  BY DEF Lists
<1>1. \A m, n \in 1 .. N : m < n <=> <<s[m], s[n]>> \in R
  BY DEF Lists
<1>2. ASSUME NEW m \in 1 .. N, NEW n \in 1 .. N, s[m] = s[n] PROVE m = n
  <2>1. <<s[m], s[n]>> \notin R /\ <<s[n], s[m]>> \notin R
    BY <1>0, <1>2 DEF StrictOrder
  <2>2. ~ (m < n) /\ ~ (n < m)
    BY <1>1, <2>1
  <2> QED
    BY <1>0, <2>2
<1>3. Cardinality(S) = N
  <2>1. s \in Bijection(1 .. N, S)
    BY <1>0, <1>2 DEF Bijection, Injection, Surjection, IsInjective
  <2>2. ExistsBijection(1 .. N, S)
    BY <2>1 DEF ExistsBijection
  <2> QED
    BY <1>0, <2>2, FS_CountingElements
<1>4. ASSUME NEW n \in 1 .. N PROVE Cardinality(Lower(S, R, s[n])) = n - 1
  <2> DEFINE T == Lower(S, R, s[n])
             f == [k \in 1 .. n - 1 |-> s[k]]
  <2>1. ASSUME NEW k \in 1 .. n - 1 PROVE k \in 1 .. N /\ s[k] \in T
    <3>1. k \in 1 .. N /\ k < n
      BY <1>0
    <3> QED
      BY <1>0, <1>1, <3>1 DEF Lower
  <2>2. ASSUME NEW x \in T PROVE \E k \in 1 .. n - 1 : f[k] = x
    <3>1. x \in S /\ <<x, s[n]>> \in R
      BY DEF Lower
    <3>2. PICK k \in 1 .. N : s[k] = x
      BY <1>0, <3>1
    <3>3. k < n
      BY <1>1, <3>1, <3>2
    <3>4. k \in 1 .. n - 1
      BY <1>0, <3>3
    <3> QED
      BY <3>2, <3>4
  <2>3. f \in Bijection(1 .. n - 1, T)
    <3> HIDE DEF T
    <3>1. f \in [1 .. n - 1 -> T]
      BY <2>1
    <3>2. \A j, k \in 1 .. n - 1 : f[j] = f[k] => j = k
      BY <1>2, <2>1
    <3> QED
      BY <2>2, <3>1, <3>2 DEF Bijection, Injection, Surjection, IsInjective
  <2>4. ExistsBijection(1 .. n - 1, T)
    BY <2>3 DEF ExistsBijection
  <2>5. n - 1 \in Nat
    BY <1>0
  <2> QED
    BY <2>4, <2>5, FS_CountingElements
<1>5. ASSUME NEW n \in 1 .. N PROVE s[n] = Sorted(S, R)[n]
  <2> DEFINE x == s[n]
             y == Sorted(S, R)[n]
  <2>1. x \in S /\ Cardinality(Lower(S, R, x)) = n - 1
    BY <1>0, <1>4
  <2>2. y \in S /\ Cardinality(Lower(S, R, y)) = n - 1
    <3>1. Lists(Sorted(S, R), S, R) /\ Len(Sorted(S, R)) = N
      BY <1>3, SortedList
    <3>2. y \in S
      BY <3>1 DEF Lists
    <3>3. \A k \in 1 .. N : Cardinality(Lower(S, R, Sorted(S, R)[k])) = k - 1
      BY <1>3, SortedList
    <3> QED
      BY <3>2, <3>3
  <2> HIDE DEF x, y
  <2>3. ~ (<<x, y>> \in R) /\ ~ (<<y, x>> \in R)
    <3>1. ~ (n - 1 < n - 1)
      BY <1>0
    <3>2. \A v, w \in S : <<v, w>> \in R <=>
             Cardinality(Lower(S, R, v)) < Cardinality(Lower(S, R, w))
      BY Ranks
    <3> QED
      BY <2>1, <2>2, <3>1, <3>2
  <2>4. x = y
    BY <2>1, <2>2, <2>3 DEF StrictOrder
  <2> QED
    BY <2>4 DEF x, y
<1>6. Sorted(S, R) \in [1 .. N -> S]
  <2>1. Sorted(S, R) \in Seq(S) /\ Len(Sorted(S, R)) = N
    BY <1>3, SortedList DEF Lists
  <2> QED
    BY <2>1
<1> QED
  <2>1. s \in [1 .. N -> S]
    BY <1>0
  <2> DEFINE z == Sorted(S, R)
  <2>2. z \in [1 .. N -> S] /\ \A n \in 1 .. N : s[n] = z[n]
    BY <1>5, <1>6
  <2> HIDE DEF N, z
  <2>3. s = z
    <3>1. s = [n \in 1 .. N |-> s[n]]
      BY ONLY <2>1
    <3>2. z = [n \in 1 .. N |-> z[n]]
      BY ONLY <2>2
    <3>3. [n \in 1 .. N |-> s[n]] = [n \in 1 .. N |-> z[n]]
      BY ONLY <2>2
    <3> QED
      BY ONLY <3>1, <3>2, <3>3
  <2> QED
    BY <2>3 DEF z

-----------------------------------------------------------------------------
(* The orders of the UI.                                                   *)

\* Symbols compare like words.
LEMMA BeforeOrder ==
  ASSUME NEW s \in StockSymbol, NEW t \in StockSymbol, NEW u \in StockSymbol
  PROVE  /\ ~ Before(s, s)
         /\ Before(s, t) /\ Before(t, u) => Before(s, u)
         /\ s # t => Before(s, t) \/ Before(t, s)
<1>0. /\ DOMAIN s = 1 .. 8 /\ DOMAIN t = 1 .. 8 /\ DOMAIN u = 1 .. 8
      /\ \A n \in 1 .. 8 : s[n] \in Nat /\ t[n] \in Nat /\ u[n] \in Nat
  <2>1. 0 .. 255 \subseteq Nat
    OBVIOUS
  <2>2. \A w \in StockSymbol : DOMAIN w = 1 .. 8 /\ \A n \in 1 .. 8 : w[n] \in 0 .. 255
    BY DEF StockSymbol
  <2> QED
    BY <2>1, <2>2
<1>1. ~ Before(s, s)
  BY <1>0 DEF Before
<1>2. ASSUME Before(s, t), Before(t, u) PROVE Before(s, u)
  <2>1. PICK m \in 1 .. 8 : s[m] < t[m] /\ \A k \in 1 .. m - 1 : s[k] = t[k]
    BY <1>0, <1>2 DEF Before
  <2>2. PICK n \in 1 .. 8 : t[n] < u[n] /\ \A k \in 1 .. n - 1 : t[k] = u[k]
    BY <1>0, <1>2 DEF Before
  <2>3. CASE m =< n
    <3>1. s[m] < u[m]
      BY <1>0, <2>1, <2>2, <2>3
    <3>2. \A k \in 1 .. m - 1 : s[k] = u[k]
      BY <2>1, <2>2, <2>3
    <3> QED
      BY <1>0, <3>1, <3>2 DEF Before
  <2>4. CASE n < m
    <3>1. s[n] < u[n]
      BY <1>0, <2>1, <2>2, <2>4
    <3>2. \A k \in 1 .. n - 1 : s[k] = u[k]
      BY <2>1, <2>2, <2>4
    <3> QED
      BY <1>0, <3>1, <3>2 DEF Before
  <2> QED
    BY <2>3, <2>4
<1>3. ASSUME s # t PROVE Before(s, t) \/ Before(t, s)
  <2> DEFINE D == {n \in 1 .. 8 : s[n] # t[n]}
  <2>1. D \subseteq Nat /\ D # {}
    BY <1>3 DEF StockSymbol
  <2>2. PICK n \in D : \A k \in D : n =< k
    <3> HIDE DEF D
    <3> QED
      BY <2>1, LeastNatural
  <2>3. ASSUME NEW k \in 1 .. n - 1 PROVE s[k] = t[k]
    <3>1. k \in 1 .. 8 /\ ~ (n =< k)
      OBVIOUS
    <3> QED
      BY <2>2, <3>1
  <2>4. n \in 1 .. 8 /\ (s[n] < t[n] \/ t[n] < s[n])
    BY <1>0
  <2> QED
    BY <1>0, <2>3, <2>4 DEF Before
<1> QED
  BY <1>1, <1>2, <1>3

\* A set of entries, one for each of its locates.
IsTable(S) ==
    /\ IsFiniteSet(S)
    /\ \A e \in S : e.symbol \in StockSymbol /\ e.locate \in Nat
    /\ \A e, f \in S : e.locate = f.locate => e = f

EntryOrder(S) == {ef \in S \X S : EntryBefore(ef[1], ef[2])}

\* Symbols, and locates among equal symbols, order a table strictly.
LEMMA EntriesOrdered ==
  ASSUME NEW S, IsTable(S)
  PROVE  StrictOrder(EntryOrder(S), S)
<1>0. \A e, f \in S : <<e, f>> \in EntryOrder(S) <=> EntryBefore(e, f)
  BY DEF EntryOrder
<1>1. ASSUME NEW e \in S PROVE ~ EntryBefore(e, e)
  BY BeforeOrder DEF EntryBefore, IsTable
<1>2. ASSUME NEW e \in S, NEW f \in S, NEW g \in S,
             EntryBefore(e, f), EntryBefore(f, g)
      PROVE  EntryBefore(e, g)
  <2>1. /\ e.symbol \in StockSymbol /\ f.symbol \in StockSymbol /\ g.symbol \in StockSymbol
        /\ e.locate \in Nat /\ f.locate \in Nat /\ g.locate \in Nat
    BY DEF IsTable
  <2>2. Before(e.symbol, f.symbol) /\ Before(f.symbol, g.symbol)
           => Before(e.symbol, g.symbol)
    BY <2>1, BeforeOrder
  <2>3. e.locate < f.locate /\ f.locate < g.locate => e.locate < g.locate
    BY <2>1
  <2> QED
    BY <1>2, <2>2, <2>3 DEF EntryBefore
<1>3. ASSUME NEW e \in S, NEW f \in S, e # f
      PROVE  EntryBefore(e, f) \/ EntryBefore(f, e)
  <2>1. /\ e.symbol \in StockSymbol /\ f.symbol \in StockSymbol
        /\ e.locate \in Nat /\ f.locate \in Nat /\ e.locate # f.locate
    BY <1>3 DEF IsTable
  <2>2. e.symbol # f.symbol => Before(e.symbol, f.symbol) \/ Before(f.symbol, e.symbol)
    BY <2>1, BeforeOrder
  <2>3. e.locate < f.locate \/ f.locate < e.locate
    BY <2>1
  <2> QED
    BY <2>2, <2>3 DEF EntryBefore
<1> QED
  BY <1>0, <1>1, <1>2, <1>3 DEF StrictOrder

\* sort_by_key lists every entry once, in order.
LEMMA SortEntriesList ==
  ASSUME NEW S, IsTable(S)
  PROVE  Lists(SortEntries(S), S, EntryOrder(S))
<1>1. SortEntries(S) = Sorted(S, EntryOrder(S))
  BY DEF SortEntries, EntryOrder
<1>2. IsFiniteSet(S) /\ StrictOrder(EntryOrder(S), S)
  BY EntriesOrdered DEF IsTable
<1> QED
  BY <1>1, <1>2, SortedList

\* Positions come in ascending order, each once.
LessThan(S) == {mn \in S \X S : mn[1] < mn[2]}

\* Ascending lists a finite set of numbers.
LEMMA AscendingList ==
  ASSUME NEW S, IsFiniteSet(S), S \subseteq Int
  PROVE  Lists(Ascending(S), S, LessThan(S))
<1>1. Ascending(S) = Sorted(S, LessThan(S))
  BY DEF Ascending, LessThan
<1>2. \A x, y \in S : <<x, y>> \in LessThan(S) <=> x < y
  BY DEF LessThan
<1>3. StrictOrder(LessThan(S), S)
  BY <1>2 DEF StrictOrder
<1> QED
  BY <1>1, <1>3, SortedList

-----------------------------------------------------------------------------
(* The handler beside the UI.                                              *)

IsOrder(o) ==
    /\ o = [id |-> o.id, side |-> o.side, price |-> o.price, qty |-> o.qty]
    /\ o.price \in Int

IsBook(b) ==
    /\ b = [id \in DOMAIN b |-> b[id]]
    /\ IsFiniteSet(DOMAIN b)
    /\ \A id \in DOMAIN b : IsOrder(b[id])

IsEntry(e) ==
    /\ e = [symbol |-> e.symbol, book |-> e.book]
    /\ e.symbol \in StockSymbol
    /\ IsBook(e.book)

\* The entries of a VecRegistry lie inside its Vecs.
IsRegistry(r) ==
    /\ r = [kind |-> "vec", slots |-> r.slots, entries |-> r.entries]
    /\ r.slots \in Nat
    /\ r.entries = [l \in DOMAIN r.entries |-> r.entries[l]]
    /\ DOMAIN r.entries \subseteq 0 .. r.slots - 1
    /\ \A l \in DOMAIN r.entries : IsEntry(r.entries[l])

IsHandler(h) ==
    /\ h = [registry |-> h.registry, stats |-> h.stats, tick |-> h.tick,
            panicked |-> h.panicked]
    /\ IsRegistry(h.registry)
    /\ h.stats \in [HandlerStats -> Nat]

SameSymbols(r, s) ==
    /\ Registered(s) = Registered(r)
    /\ \A l \in Registered(r) : s.entries[l].symbol = r.entries[l].symbol

\* What the UI relies on when a message turns h into g: locates stay, and the
\* count of directory messages says whether the table of symbols may differ.
Follows(h, g) ==
    /\ IsHandler(g)
    /\ Registered(h.registry) \subseteq Registered(g.registry)
    /\ \/ g.stats["stock_directory_msgs"] = h.stats["stock_directory_msgs"] + 1
       \/ /\ g.stats["stock_directory_msgs"] = h.stats["stock_directory_msgs"]
          /\ SameSymbols(h.registry, g.registry)

\* A book with an order more is a book.
LEMMA InsertOrder ==
  ASSUME NEW b, IsBook(b), NEW o, IsOrder(o), NEW id
  PROVE  IsBook(Insert(b, id, o))
<1>1. DOMAIN Insert(b, id, o) = DOMAIN b \cup {id}
  BY DEF Insert
<1>2. IsFiniteSet(DOMAIN b \cup {id})
  BY FS_AddElement DEF IsBook
<1>3. \A x \in DOMAIN b \cup {id} : Insert(b, id, o)[x] = IF x = id THEN o ELSE b[x]
  BY DEF Insert
<1>4. Insert(b, id, o) = [x \in DOMAIN Insert(b, id, o) |-> Insert(b, id, o)[x]]
  BY DEF Insert
<1> QED
  BY <1>1, <1>2, <1>3, <1>4 DEF IsBook

\* A book with an order less is a book.
LEMMA WithoutOrder ==
  ASSUME NEW b, IsBook(b), NEW id
  PROVE  IsBook(Without(b, id))
<1>1. DOMAIN Without(b, id) = DOMAIN b \ {id}
  BY DEF Without, Restrict
<1>2. IsFiniteSet(DOMAIN b \ {id})
  BY FS_RemoveElement DEF IsBook
<1>3. \A x \in DOMAIN b \ {id} : Without(b, id)[x] = b[x]
  BY DEF Without, Restrict
<1>4. Without(b, id) = [x \in DOMAIN Without(b, id) |-> Without(b, id)[x]]
  BY DEF Without, Restrict
<1> QED
  BY <1>1, <1>2, <1>3, <1>4 DEF IsBook

\* The calls leave a book behind, whether they succeed or not.
LEMMA CallsKeepBooks ==
  ASSUME NEW b, IsBook(b), NEW id, NEW qty
  PROVE  /\ IsBook(Failed(b).book)
         /\ IsBook(BookTake(b, id, qty).book)
         /\ IsBook(BookDelete(b, id).book)
         /\ \A o : IsOrder(o) => IsBook(BookAdd(b, o).book)
         /\ \A new_id : \A price \in Int :
               IsBook(BookReplace(b, id, new_id, price, qty).book)
<1>1. \A c : Failed(c).book = c /\ Done(c).book = c
  BY DEF Failed, Done
<1>2. ASSUME NEW c, IsBook(c), NEW o, IsOrder(o) PROVE IsBook(BookAdd(c, o).book)
  <2>1. CASE o.id \in DOMAIN c
    BY <1>1, <1>2, <2>1 DEF BookAdd
  <2>2. CASE o.id \notin DOMAIN c
    BY <1>1, <1>2, <2>2, InsertOrder DEF BookAdd
  <2> QED
    BY <2>1, <2>2
<1>3. IsBook(BookDelete(b, id).book)
  <2>1. CASE id \in DOMAIN b
    BY <1>1, <2>1, WithoutOrder DEF BookDelete
  <2>2. CASE id \notin DOMAIN b
    BY <1>1, <2>2 DEF BookDelete
  <2> QED
    BY <2>1, <2>2
<1>4. IsBook(BookTake(b, id, qty).book)
  <2>1. CASE id \notin DOMAIN b
    BY <1>1, <2>1 DEF BookTake
  <2>2. CASE id \in DOMAIN b /\ qty > b[id].qty
    BY <1>1, <2>2 DEF BookTake
  <2>3. CASE id \in DOMAIN b /\ ~ (qty > b[id].qty) /\ qty = b[id].qty
    BY <1>1, <2>3, WithoutOrder DEF BookTake
  <2>4. CASE id \in DOMAIN b /\ ~ (qty > b[id].qty) /\ qty # b[id].qty
    <3> DEFINE left == [b[id] EXCEPT !.qty = @ - qty]
               c == [b EXCEPT ![id] = left]
    <3>1. BookTake(b, id, qty).book = c
      BY <1>1, <2>4 DEF BookTake
    <3>2. IsOrder(left)
      <4>1. b[id] = [id |-> b[id].id, side |-> b[id].side, price |-> b[id].price,
                     qty |-> b[id].qty] /\ b[id].price \in Int
        BY <2>4 DEF IsBook, IsOrder
      <4>2. left = [id |-> b[id].id, side |-> b[id].side, price |-> b[id].price,
                    qty |-> b[id].qty - qty]
        BY <4>1
      <4> HIDE DEF left
      <4> QED
        BY <4>1, <4>2 DEF IsOrder
    <3> HIDE DEF left
    <3>3. DOMAIN c = DOMAIN b /\ \A x \in DOMAIN b : c[x] = IF x = id THEN left ELSE b[x]
      OBVIOUS
    <3>4. c = [x \in DOMAIN c |-> c[x]]
      OBVIOUS
    <3> HIDE DEF c
    <3>5. IsBook(c)
      BY <3>2, <3>3, <3>4 DEF IsBook
    <3> QED
      BY <3>1, <3>5
  <2> QED
    BY <2>1, <2>2, <2>3, <2>4
<1>5. ASSUME NEW new_id, NEW price \in Int
      PROVE  IsBook(BookReplace(b, id, new_id, price, qty).book)
  <2>1. CASE id \in DOMAIN b
    <3> DEFINE o == [id |-> new_id, side |-> b[id].side, price |-> price, qty |-> qty]
    <3>1. IsOrder(o)
      BY DEF IsOrder
    <3>2. IsBook(Without(b, id))
      BY WithoutOrder
    <3>3. IsBook(BookAdd(Without(b, id), o).book)
      <4> HIDE DEF o
      <4> QED
        BY <1>2, <3>1, <3>2
    <3> QED
      BY <2>1, <3>3 DEF BookReplace
  <2>2. CASE id \notin DOMAIN b
    BY <1>1, <2>2 DEF BookReplace
  <2> QED
    BY <2>1, <2>2
<1> QED
  BY <1>1, <1>2, <1>3, <1>4, <1>5

\* A count changes one counter.
LEMMA Counted ==
  ASSUME NEW h, IsHandler(h), NEW c \in HandlerStats
  PROVE  /\ IsHandler(Count(h, c))
         /\ Count(h, c).registry = h.registry
         /\ Count(h, c).stats = [h.stats EXCEPT ![c] = @ + 1]
<1>1. Count(h, c) = [registry |-> h.registry, stats |-> [h.stats EXCEPT ![c] = @ + 1],
                     tick |-> h.tick, panicked |-> h.panicked]
  BY DEF Count, IsHandler
<1>2. [h.stats EXCEPT ![c] = @ + 1] \in [HandlerStats -> Nat]
  BY DEF IsHandler
<1> QED
  BY <1>1, <1>2 DEF IsHandler

\* Writing a book back leaves locates and symbols alone.
LEMMA SetBookKeeps ==
  ASSUME NEW r, IsRegistry(r), NEW l \in Registered(r), NEW b, IsBook(b)
  PROVE  IsRegistry(SetBook(r, l, b)) /\ SameSymbols(r, SetBook(r, l, b))
<1> DEFINE e == [symbol |-> r.entries[l].symbol, book |-> b]
           f == [r.entries EXCEPT ![l] = e]
<1>1. l \in DOMAIN r.entries /\ IsEntry(r.entries[l])
  BY DEF Registered, IsRegistry
<1>2. IsEntry(e) /\ e.symbol = r.entries[l].symbol
  BY <1>1 DEF IsEntry
<1>3. [r.entries[l] EXCEPT !.book = b] = e
  BY <1>1 DEF IsEntry
<1>4. SetBook(r, l, b) = [kind |-> "vec", slots |-> r.slots, entries |-> f]
  <2>1. SetBook(r, l, b) =
          [r EXCEPT !.entries = [r.entries EXCEPT ![l] = [r.entries[l] EXCEPT !.book = b]]]
    BY DEF SetBook
  <2>2. SetBook(r, l, b) = [r EXCEPT !.entries = f]
    BY <1>3, <2>1
  <2> HIDE DEF f
  <2> QED
    BY <2>2 DEF IsRegistry
<1> HIDE DEF e
<1>5. /\ f = [x \in DOMAIN f |-> f[x]] /\ DOMAIN f = DOMAIN r.entries
      /\ \A x \in DOMAIN r.entries : f[x] = IF x = l THEN e ELSE r.entries[x]
  OBVIOUS
<1> HIDE DEF f
<1>6. \A x \in DOMAIN f : IsEntry(f[x]) /\ f[x].symbol = r.entries[x].symbol
  BY <1>2, <1>5 DEF IsRegistry
<1>7. SetBook(r, l, b).slots = r.slots /\ SetBook(r, l, b).entries = f
  BY <1>4
<1>8. SameSymbols(r, SetBook(r, l, b))
  BY <1>5, <1>6, <1>7 DEF SameSymbols, Registered
<1>9. r.slots \in Nat /\ DOMAIN f \subseteq 0 .. r.slots - 1
  BY <1>5 DEF IsRegistry
<1>10. IsRegistry(SetBook(r, l, b))
  BY <1>4, <1>5, <1>6, <1>7, <1>9 DEF IsRegistry
<1> QED
  BY <1>8, <1>10

\* The callers of get_mut change neither the table nor its counter.
LEMMA WithBookFollows ==
  ASSUME NEW h, IsHandler(h), NEW l, NEW called,
         l \in Registered(h.registry) => IsBook(called.book),
         NEW c \in HandlerStats \ {"stock_directory_msgs"}
  PROVE  Follows(h, WithBook(h, l, called, c))
<1> DEFINE kept == [h EXCEPT !.registry = SetBook(@, l, called.book)]
           dir == "stock_directory_msgs"
<1>0. dir \in HandlerStats /\ "skipped_locate" \in HandlerStats \ {dir}
  BY DEF HandlerStats
<1>1. SameSymbols(h.registry, h.registry)
  BY DEF SameSymbols
<1>2. ASSUME NEW g, IsHandler(g), g.stats = h.stats, SameSymbols(h.registry, g.registry),
             NEW d \in HandlerStats \ {dir}
      PROVE  Follows(h, g) /\ Follows(h, Count(g, d))
  <2>1. Follows(h, g)
    BY <1>2 DEF Follows, SameSymbols
  <2>2. /\ IsHandler(Count(g, d)) /\ Count(g, d).registry = g.registry
        /\ Count(g, d).stats = [g.stats EXCEPT ![d] = @ + 1]
    BY <1>2, Counted
  <2>3. h.stats \in [HandlerStats -> Nat]
    BY DEF IsHandler
  <2>4. Count(g, d).stats[dir] = h.stats[dir]
    BY <1>0, <1>2, <2>2, <2>3
  <2> QED
    BY <1>2, <2>1, <2>2, <2>4 DEF Follows, SameSymbols
<1>3. CASE l \notin Registered(h.registry)
  BY <1>0, <1>1, <1>2, <1>3 DEF WithBook
<1>4. CASE l \in Registered(h.registry)
  <2>1. /\ IsRegistry(SetBook(h.registry, l, called.book))
        /\ SameSymbols(h.registry, SetBook(h.registry, l, called.book))
    BY <1>4, SetBookKeeps DEF IsHandler
  <2>2. kept = [registry |-> SetBook(h.registry, l, called.book), stats |-> h.stats,
                tick |-> h.tick, panicked |-> h.panicked]
    BY DEF IsHandler
  <2>3. WithBook(h, l, called, c) = IF called.ok THEN Count(kept, c) ELSE kept
    BY <1>4 DEF WithBook
  <2> HIDE DEF kept
  <2>4. kept.registry = SetBook(h.registry, l, called.book) /\ kept.stats = h.stats
    BY <2>2
  <2>5. IsHandler(kept)
    BY <2>1, <2>2 DEF IsHandler
  <2>6. Follows(h, kept) /\ Follows(h, Count(kept, c))
    BY <1>2, <2>1, <2>4, <2>5
  <2> QED
    BY <2>3, <2>6
<1> QED
  BY <1>3, <1>4

\* A directory message is counted, whether it registers, panics or is ignored;
\* the resize of a register that panics drops nothing.
LEMMA DirectoryFollows ==
  ASSUME NEW h, IsHandler(h), NEW msg, msg.stock_locate \in Nat, msg.stock \in StockSymbol
  PROVE  Follows(h, on_stock_directory(h, msg))
<1> DEFINE dir == "stock_directory_msgs"
           k == Count(h, dir)
           l == msg.stock_locate
           r == h.registry
<1>0. dir \in HandlerStats
  BY DEF HandlerStats
<1>1. /\ IsHandler(k) /\ k.registry = r
      /\ k.stats[dir] = h.stats[dir] + 1
  <2>1. h.stats \in [HandlerStats -> Nat]
    BY DEF IsHandler
  <2>2. IsHandler(k) /\ k.registry = r /\ k.stats = [h.stats EXCEPT ![dir] = @ + 1]
    BY <1>0, Counted
  <2> HIDE DEF k
  <2> QED
    BY <1>0, <2>1, <2>2
<1>2. IsRegistry(r)
  BY DEF IsHandler
<1> HIDE DEF k
<1>3. CASE ~ Watched(msg.stock)
  <2>1. on_stock_directory(h, msg) = k
    BY <1>3 DEF on_stock_directory, k
  <2> QED
    BY <1>1, <2>1 DEF Follows
<1>4. CASE Watched(msg.stock) /\ RegisterPanics(r, l)
  <2> DEFINE f == Restrict(r.entries, {x \in DOMAIN r.entries : x < l})
             g == [registry |-> Resize(r, l), stats |-> k.stats, tick |-> k.tick,
                   panicked |-> TRUE]
  <2>1. on_stock_directory(h, msg) = g
    <3>1. on_stock_directory(h, msg) =
             [k EXCEPT !.registry = Resize(@, l), !.panicked = TRUE]
      BY <1>4 DEF on_stock_directory, k
    <3> QED
      BY <1>1, <3>1 DEF IsHandler
  <2>2. Resize(r, l) = [kind |-> "vec", slots |-> l, entries |-> f]
    <3>1. Resize(r, l) = [r EXCEPT !.slots = l, !.entries = f]
      BY DEF Resize
    <3> HIDE DEF f, l, r
    <3>2. r = [kind |-> "vec", slots |-> r.slots, entries |-> r.entries]
      BY <1>2 DEF IsRegistry
    <3> DEFINE q == [r EXCEPT !.slots = l, !.entries = f]
    <3>3. q.kind = "vec" /\ q.slots = l /\ q.entries = f
      BY ONLY <3>2
    <3>4. q = [x \in {"kind", "slots", "entries"} |-> q[x]]
      BY ONLY <3>2
    <3> HIDE DEF q
    <3>5. q = [kind |-> q.kind, slots |-> q.slots, entries |-> q.entries]
      BY ONLY <3>4
    <3> QED
      BY <3>1, <3>3, <3>5 DEF q
  <2>3. r.slots =< l /\ r.slots \in Nat
    BY <1>2, <1>4 DEF RegisterPanics, IsRegistry
  <2>4. {x \in DOMAIN r.entries : x < l} = DOMAIN r.entries
    BY <1>2, <2>3 DEF IsRegistry
  <2>5. f = r.entries
    BY <1>2, <2>4 DEF IsRegistry, Restrict
  <2>6. IsRegistry(Resize(r, l)) /\ Resize(r, l).entries = r.entries
    <3>1. Resize(r, l) = [kind |-> "vec", slots |-> l, entries |-> r.entries]
      BY <2>2, <2>5
    <3>2. DOMAIN r.entries \subseteq 0 .. l - 1
      BY <1>2, <2>3 DEF IsRegistry
    <3> QED
      BY <1>2, <3>1, <3>2 DEF IsRegistry
  <2>7. IsHandler(g)
    BY <1>1, <2>6 DEF IsHandler
  <2> QED
    BY <1>1, <2>1, <2>6, <2>7 DEF Follows, Registered
<1>5. CASE Watched(msg.stock) /\ ~ RegisterPanics(r, l)
  <2> DEFINE e == [symbol |-> msg.stock, book |-> NoEntries]
             f == Insert(r.entries, l, e)
             g == [registry |-> Register(r, l, msg.stock), stats |-> k.stats,
                   tick |-> k.tick, panicked |-> k.panicked]
  <2>1. on_stock_directory(h, msg) = g
    <3>1. on_stock_directory(h, msg) = [k EXCEPT !.registry = Register(@, l, msg.stock)]
      BY <1>5 DEF on_stock_directory, k
    <3> QED
      BY <1>1, <3>1 DEF IsHandler
  <2>2. Register(r, l, msg.stock) = [kind |-> "vec", slots |-> r.slots, entries |-> f]
    BY <1>2 DEF Register, IsRegistry
  <2>3. IsBook(NoEntries)
    <3>1. DOMAIN NoEntries = {} /\ NoEntries = [x \in DOMAIN NoEntries |-> NoEntries[x]]
      BY DEF NoEntries
    <3> QED
      BY <3>1, FS_EmptySet DEF IsBook
  <2>4. IsEntry(e)
    BY <2>3 DEF IsEntry
  <2> HIDE DEF e
  <2>5. /\ DOMAIN f = DOMAIN r.entries \cup {l} /\ f = [x \in DOMAIN f |-> f[x]]
        /\ \A x \in DOMAIN f : f[x] = IF x = l THEN e ELSE r.entries[x]
    BY DEF Insert
  <2> HIDE DEF f
  <2>6. r.slots \in Nat /\ l < r.slots
    BY <1>2, <1>5 DEF RegisterPanics, IsRegistry
  <2>7. DOMAIN f \subseteq 0 .. r.slots - 1
    BY <1>2, <2>5, <2>6 DEF IsRegistry
  <2>8. \A x \in DOMAIN f : IsEntry(f[x])
    BY <1>2, <2>4, <2>5 DEF IsRegistry
  <2>9. IsRegistry(Register(r, l, msg.stock)) /\ Register(r, l, msg.stock).entries = f
    BY <2>2, <2>5, <2>6, <2>7, <2>8 DEF IsRegistry
  <2>10. IsHandler(g)
    BY <1>1, <2>9 DEF IsHandler
  <2> QED
    BY <1>1, <2>1, <2>5, <2>9, <2>10 DEF Follows, Registered
<1> QED
  BY <1>3, <1>4, <1>5

\* Whatever message a handler is given, the UI can rely on Follows.
LEMMA ApplyFollows ==
  ASSUME NEW h, IsHandler(h), NEW msg, WellFormed(msg)
  PROVE  Follows(h, Apply(h, msg))
<1> DEFINE b == BookOf(h, msg.stock_locate)
           Covered(called) == msg.stock_locate \in Registered(h.registry) => IsBook(called.book)
<1>0. msg.stock_locate \in Registered(h.registry) => IsBook(b)
  BY DEF IsHandler, IsRegistry, IsEntry, Registered, BookOf
<1>1. HandlerStats \ {"stock_directory_msgs"} =
        {"orders_added", "orders_executed", "orders_cancelled", "orders_deleted",
         "orders_replaced", "skipped_locate"}
  BY DEF HandlerStats
<1>2. ASSUME NEW called, Covered(called), NEW c \in HandlerStats \ {"stock_directory_msgs"}
      PROVE  Follows(h, WithBook(h, msg.stock_locate, called, c))
  BY <1>2, WithBookFollows
<1> HIDE DEF b
<1>3. ASSUME msg.price \in Nat PROVE Follows(h, apply_add_order(h, msg))
  <2> DEFINE indicator == BuySellIndicator(msg.buy_sell_indicator)
             order == [id |-> msg.order_reference_number, side |-> parse_side(indicator),
                       price |-> msg.price, qty |-> msg.shares]
             called == IF indicator = "Unknown" THEN Failed(b) ELSE BookAdd(b, order)
  <2>1. IsOrder(order)
    BY <1>3 DEF IsOrder
  <2>2. apply_add_order(h, msg) = WithBook(h, msg.stock_locate, called, "orders_added")
    BY DEF apply_add_order, b
  <2> HIDE DEF order, indicator
  <2>3. Covered(called)
    BY <1>0, <2>1, CallsKeepBooks
  <2> HIDE DEF called, Covered
  <2> QED
    BY <1>1, <1>2, <2>2, <2>3
<1>4. Follows(h, on_order_executed(h, msg))
  <2> DEFINE called == BookTake(b, msg.order_reference_number, msg.executed_shares)
  <2>1. Covered(called)
    BY <1>0, CallsKeepBooks
  <2>2. on_order_executed(h, msg) = WithBook(h, msg.stock_locate, called, "orders_executed")
    BY DEF on_order_executed, b
  <2> HIDE DEF called, Covered
  <2> QED
    BY <1>1, <1>2, <2>1, <2>2
<1>5. Follows(h, on_order_cancel(h, msg))
  <2> DEFINE called == BookTake(b, msg.order_reference_number, msg.cancelled_shares)
  <2>1. Covered(called)
    BY <1>0, CallsKeepBooks
  <2>2. on_order_cancel(h, msg) = WithBook(h, msg.stock_locate, called, "orders_cancelled")
    BY DEF on_order_cancel, b
  <2> HIDE DEF called, Covered
  <2> QED
    BY <1>1, <1>2, <2>1, <2>2
<1>6. Follows(h, on_order_delete(h, msg))
  <2> DEFINE called == BookDelete(b, msg.order_reference_number)
  <2>1. Covered(called)
    BY <1>0, CallsKeepBooks
  <2>2. on_order_delete(h, msg) = WithBook(h, msg.stock_locate, called, "orders_deleted")
    BY DEF on_order_delete, b
  <2> HIDE DEF called, Covered
  <2> QED
    BY <1>1, <1>2, <2>1, <2>2
<1>7. ASSUME msg.price \in Nat PROVE Follows(h, on_order_replace(h, msg))
  <2> DEFINE called == BookReplace(b, msg.original_order_reference_number,
                                   msg.new_order_reference_number, msg.price, msg.shares)
  <2>1. Covered(called)
    <3>1. msg.price \in Int
      BY <1>7
    <3> QED
      BY <1>0, <3>1, CallsKeepBooks
  <2>2. on_order_replace(h, msg) = WithBook(h, msg.stock_locate, called, "orders_replaced")
    BY DEF on_order_replace, b
  <2> HIDE DEF called, Covered
  <2> QED
    BY <1>1, <1>2, <2>1, <2>2
<1>8. msg.tag = StockDirectory.TAG => Follows(h, on_stock_directory(h, msg))
  BY DirectoryFollows DEF WellFormed
<1>9. msg.tag \in {AddOrderNoMPIDAttribution.TAG, AddOrderWithMPIDAttribution.TAG,
                   OrderReplace.TAG} => msg.price \in Nat
  BY DEF WellFormed
<1>10. Follows(h, h)
  BY DEF Follows, SameSymbols
<1> HIDE DEF Covered
<1> QED
  BY <1>3, <1>4, <1>5, <1>6, <1>7, <1>8, <1>9, <1>10 DEF Apply

-----------------------------------------------------------------------------
(* Refresh.                                                                *)

Row == [locate : Nat, symbol : StockSymbol]

AppType ==
    [symbols : Seq(Row), filtered : Seq(Nat), selected : Nat \cup {None}, offset : Nat,
     filter : Seq(Nat), mode : {"Normal", "Filter"}, selected_locate : Nat \cup {None},
     last_directory_msgs : Nat, last_filter : Seq(Nat) \cup {None}]

\* The table of symbols as it should be now.
Table(h) == {[locate |-> e.locate, symbol |-> e.symbol] : e \in Entries(h.registry)}

Hits(symbols, filter) == {n \in DOMAIN symbols : Matches(symbols[n].symbol, filter)}

\* The caches are current as far as the counter and the filter they were built
\* with tell.
Cached(a, h) ==
    /\ a.last_directory_msgs =< h.stats["stock_directory_msgs"]
    /\ a.last_directory_msgs = h.stats["stock_directory_msgs"] =>
          a.symbols = SortEntries(Table(h))
    /\ a.filtered = Ascending(Hits(a.symbols, a.last_filter))

\* The positions of a list that match are listed in ascending order.
LEMMA HitsListed ==
  ASSUME NEW symbols \in Seq(Row), NEW filter
  PROVE  /\ IsFiniteSet(Hits(symbols, filter))
         /\ Hits(symbols, filter) \subseteq 1 .. Len(symbols)
         /\ Lists(Ascending(Hits(symbols, filter)), Hits(symbols, filter),
                  LessThan(Hits(symbols, filter)))
         /\ Ascending(Hits(symbols, filter)) \in Seq(Nat)
<1> DEFINE H == Hits(symbols, filter)
<1>1. Len(symbols) \in Nat /\ DOMAIN symbols = 1 .. Len(symbols)
  OBVIOUS
<1>2. H \in SUBSET (1 .. Len(symbols))
  BY <1>1 DEF Hits
<1>3. IsFiniteSet(1 .. Len(symbols))
  BY <1>1, FS_Interval
<1> HIDE DEF H
<1>4. IsFiniteSet(H)
  BY <1>2, <1>3, FS_Subset
<1>5. H \subseteq Nat /\ H \subseteq Int
  BY <1>1, <1>2
<1>6. Lists(Ascending(H), H, LessThan(H))
  BY <1>4, <1>5, AscendingList
<1>7. Ascending(H) \in Seq(Nat)
  <2> DEFINE s == Ascending(H)
  <2>1. s \in Seq(H)
    BY <1>6 DEF Lists
  <2> HIDE DEF s
  <2>2. Len(s) \in Nat /\ s \in [1 .. Len(s) -> H]
    BY ONLY <2>1
  <2>3. s \in [1 .. Len(s) -> Nat]
    BY ONLY <1>5, <2>2
  <2>4. s \in Seq(Nat)
    BY ONLY <2>2, <2>3
  <2> QED
    BY <2>4 DEF s
<1> QED
  BY <1>2, <1>4, <1>6, <1>7 DEF H

\* The entries of a registry, with their books or without.
LEMMA TablesSorted ==
  ASSUME NEW h, IsHandler(h)
  PROVE  /\ IsTable(Entries(h.registry))
         /\ IsTable(Table(h)) /\ Table(h) \subseteq Row
         /\ \A e \in Table(h) : /\ e.locate \in Registered(h.registry)
                                /\ e.symbol = h.registry.entries[e.locate].symbol
         /\ \A l \in Registered(h.registry) :
               [locate |-> l, symbol |-> h.registry.entries[l].symbol] \in Table(h)
<1> DEFINE r == h.registry
           L == Registered(r)
           full == [l \in L |-> [locate |-> l, symbol |-> r.entries[l].symbol,
                                 book |-> r.entries[l].book]]
           short == [l \in L |-> [locate |-> l, symbol |-> r.entries[l].symbol]]
<1>1. /\ r.slots \in Nat /\ L \in SUBSET (0 .. r.slots - 1)
      /\ \A l \in L : r.entries[l].symbol \in StockSymbol
  BY DEF IsHandler, IsRegistry, IsEntry, Registered
<1>2. IsFiniteSet(L) /\ L \subseteq Nat
  <2>1. r.slots - 1 \in Int
    BY <1>1
  <2>2. IsFiniteSet(0 .. r.slots - 1)
    BY <2>1, FS_Interval
  <2> QED
    BY <1>1, <2>2, FS_Subset
<1>3. Entries(r) = {full[l] : l \in L}
  BY DEF Entries
<1>4. \A l \in L : /\ full[l].locate = l /\ full[l].symbol = r.entries[l].symbol
                   /\ short[l].locate = l /\ short[l].symbol = r.entries[l].symbol
                   /\ short[l] = [locate |-> l, symbol |-> r.entries[l].symbol]
                   /\ short[l] \in Row
  BY <1>1, <1>2 DEF Row
<1>5. Table(h) = {[locate |-> e.locate, symbol |-> e.symbol] : e \in Entries(r)}
  BY DEF Table
<1> HIDE DEF full, short, L, r
<1>6. Table(h) = {short[l] : l \in L}
  <2>1. ASSUME NEW x \in Table(h) PROVE \E l \in L : x = short[l]
    <3>1. PICK e \in Entries(r) : x = [locate |-> e.locate, symbol |-> e.symbol]
      BY <1>5
    <3>2. PICK l \in L : e = full[l]
      BY <1>3
    <3> QED
      BY <1>4, <3>1, <3>2
  <2>2. ASSUME NEW l \in L PROVE short[l] \in Table(h)
    <3>1. full[l] \in Entries(r)
      BY <1>3
    <3>2. short[l] = [locate |-> full[l].locate, symbol |-> full[l].symbol]
      BY <1>4
    <3> QED
      BY <1>5, <3>1, <3>2
  <2> QED
    BY <2>1, <2>2
<1>7. IsFiniteSet({full[l] : l \in L}) /\ IsFiniteSet({short[l] : l \in L})
  BY <1>2, ImageFinite
<1>8. IsTable(Entries(r))
  <2>1. ASSUME NEW e \in Entries(r)
        PROVE  /\ e.locate \in L /\ e = full[e.locate]
               /\ e.symbol \in StockSymbol /\ e.locate \in Nat
    <3>1. PICK l \in L : e = full[l]
      BY <1>3
    <3>2. e.locate = l /\ e.symbol = r.entries[l].symbol
      BY <1>4, <3>1
    <3>3. r.entries[l].symbol \in StockSymbol
      BY <1>1 DEF L, r
    <3> QED
      BY <1>2, <3>1, <3>2, <3>3
  <2>2. \A e, f \in Entries(r) : e.locate = f.locate => e = f
    BY <2>1
  <2>3. IsFiniteSet(Entries(r))
    BY <1>3, <1>7
  <2> QED
    BY <2>1, <2>2, <2>3 DEF IsTable
<1>9. ASSUME NEW e \in Table(h) PROVE e.locate \in L /\ e = short[e.locate]
  <2>1. PICK l \in L : e = short[l]
    BY <1>6
  <2>2. e.locate = l
    BY <1>4, <2>1
  <2> QED
    BY <2>1, <2>2
<1>10. IsTable(Table(h)) /\ Table(h) \subseteq Row
  <2>1. Table(h) \subseteq Row
    BY <1>4, <1>6
  <2>2. IsFiniteSet(Table(h))
    BY <1>6, <1>7
  <2>3. \A e \in Table(h) : e.symbol \in StockSymbol /\ e.locate \in Nat
    BY <2>1 DEF Row
  <2> QED
    BY <1>9, <2>1, <2>2, <2>3 DEF IsTable
<1>11. \A e \in Table(h) : e.locate \in L /\ e.symbol = r.entries[e.locate].symbol
  BY <1>4, <1>9
<1>12. \A l \in L : [locate |-> l, symbol |-> r.entries[l].symbol] \in Table(h)
  BY <1>4, <1>6
<1> QED
  BY <1>8, <1>10, <1>11, <1>12 DEF L, r

\* After the first stage of refresh the lists are those of now.
LEMMA ListsRefreshed ==
  ASSUME NEW h, IsHandler(h), NEW a \in AppType, Cached(a, h)
  PROVE  /\ RefreshLists(a, h) \in AppType
         /\ RefreshLists(a, h).symbols = SortEntries(Table(h))
         /\ RefreshLists(a, h).filtered =
               Ascending(Hits(RefreshLists(a, h).symbols, a.filter))
         /\ RefreshLists(a, h).last_directory_msgs = h.stats["stock_directory_msgs"]
         /\ RefreshLists(a, h).last_filter = a.filter
         /\ RefreshLists(a, h).selected = a.selected
         /\ RefreshLists(a, h).offset = a.offset
         /\ RefreshLists(a, h).filter = a.filter
         /\ RefreshLists(a, h).mode = a.mode
         /\ RefreshLists(a, h).selected_locate = a.selected_locate
<1> DEFINE count == h.stats["stock_directory_msgs"]
           changed == h.stats.stock_directory_msgs # a.last_directory_msgs
           symbols == IF changed THEN SortEntries(Table(h)) ELSE a.symbols
           hits == Hits(symbols, a.filter)
           filtered == IF ~changed /\ a.last_filter = a.filter THEN a.filtered
                       ELSE Ascending(hits)
           b == [a EXCEPT !.symbols = symbols, !.filtered = filtered,
                          !.last_directory_msgs = h.stats.stock_directory_msgs,
                          !.last_filter = a.filter]
<1>1. RefreshLists(a, h) = b
  BY DEF RefreshLists, Table, Hits
<1>2. count \in Nat /\ h.stats.stock_directory_msgs = count
  BY DEF IsHandler, HandlerStats
<1>3. symbols = SortEntries(Table(h))
  BY DEF Cached
<1>4. symbols \in Seq(Row)
  <2>1. SortEntries(Table(h)) \in Seq(Table(h)) /\ Table(h) \subseteq Row
    BY TablesSorted, SortEntriesList DEF Lists
  <2> QED
    BY <1>3, <2>1
<1>5. filtered = Ascending(hits)
  BY DEF Cached
<1>6. Ascending(hits) \in Seq(Nat)
  <2> HIDE DEF symbols
  <2> QED
    BY <1>4, HitsListed
<1> HIDE DEF symbols, filtered, changed, hits
<1>7. b \in AppType
  BY <1>2, <1>4, <1>5, <1>6 DEF AppType
<1>8. /\ b.symbols = symbols /\ b.filtered = filtered
      /\ b.last_directory_msgs = count /\ b.last_filter = a.filter
      /\ b.selected = a.selected /\ b.offset = a.offset /\ b.filter = a.filter
      /\ b.mode = a.mode /\ b.selected_locate = a.selected_locate
  BY <1>2 DEF AppType
<1> HIDE DEF b
<1>9. b.filtered = Ascending(Hits(b.symbols, a.filter))
  BY <1>5, <1>8 DEF hits
<1> QED
  BY <1>1, <1>3, <1>7, <1>8, <1>9

\* Max is the library's, a choice: here by cases.
LEMMA MaxOfTwo ==
  ASSUME NEW x \in Int, NEW y \in Int
  PROVE  Max({x, y}) = IF x >= y THEN x ELSE y
BY DEF Max

\* Min is the library's, a choice: here by cases.
LEMMA MinOfTwo ==
  ASSUME NEW x \in Int, NEW y \in Int
  PROVE  Min({x, y}) = IF x =< y THEN x ELSE y
BY DEF Min

\* The index points into the table.
InTable(a) == \A n \in 1 .. Len(a.filtered) : a.filtered[n] \in 1 .. Len(a.symbols)

Positions(a) == 0 .. Len(a.filtered) - 1

\* Every position of the filtered list has an entry of the table.
LEMMA RowAt ==
  ASSUME NEW a \in AppType, InTable(a), NEW p \in Positions(a)
  PROVE  SymbolAt(a, p) \in Row
<1>1. a.filtered \in Seq(Nat) /\ a.symbols \in Seq(Row)
  BY DEF AppType
<1>2. p + 1 \in 1 .. Len(a.filtered)
  BY <1>1 DEF Positions
<1>3. a.filtered[p + 1] \in 1 .. Len(a.symbols)
  BY <1>2 DEF InTable
<1> QED
  BY <1>1, <1>3 DEF SymbolAt

\* The second stage of refresh: the selection is on its locate if that is still
\* listed, otherwise on the first row, if there is one.
LEMMA Reconciled ==
  ASSUME NEW a \in AppType, InTable(a), NEW b, b = Reconcile(a)
  PROVE  /\ b \in AppType
         /\ b.symbols = a.symbols /\ b.filtered = a.filtered /\ b.filter = a.filter
         /\ b.mode = a.mode /\ b.last_directory_msgs = a.last_directory_msgs
         /\ b.last_filter = a.last_filter
         /\ b.selected = None \/ b.selected \in Positions(a)
         /\ b.selected = None <=> a.filtered = <<>>
         /\ b.selected # None => b.selected_locate = SymbolAt(a, b.selected).locate
         /\ b.selected = None => b.selected_locate = None
         /\ (\E p \in Positions(a) : SymbolAt(a, p).locate = a.selected_locate)
               => b.selected_locate = a.selected_locate
<1> DEFINE same == {p \in 0 .. Len(a.filtered) - 1 : SymbolAt(a, p).locate = a.selected_locate}
           selected == IF same # {} THEN Min(same)
                       ELSE IF a.filtered = <<>> THEN None ELSE 0
           offset == IF selected = None THEN 0 ELSE a.offset
           locate == IF selected = None THEN None ELSE SymbolAt(a, selected).locate
<1>1. a.filtered \in Seq(Nat) /\ Len(a.filtered) \in Nat /\ a.offset \in Nat
  BY DEF AppType
<1>2. same \subseteq Positions(a) /\ Positions(a) \subseteq Nat
  BY <1>1 DEF Positions
<1>3. same # {} => Min(same) \in same
  <2> SUFFICES ASSUME same # {} PROVE Min(same) \in same
    OBVIOUS
  <2> HIDE DEF same
  <2>1. PICK x \in same : \A y \in same : x =< y
    BY <1>2, LeastNatural
  <2> QED
    BY <2>1 DEF Min
<1>4. a.filtered # <<>> => 0 \in Positions(a)
  BY <1>1 DEF Positions
<1>5. None \notin Positions(a)
  BY <1>2, TuiAssumption
<1>6. a.filtered = <<>> => same = {}
  BY <1>1
<1>7. /\ selected = None \/ selected \in Positions(a)
      /\ selected = None <=> a.filtered = <<>>
      /\ same # {} => selected \in same
  BY <1>2, <1>3, <1>4, <1>5, <1>6
<1>8. same # {} => SymbolAt(a, selected).locate = a.selected_locate
  BY <1>7
<1>9. same # {} => selected # None
  BY <1>2, <1>5, <1>7
<1>10. b = [a EXCEPT !.selected = selected, !.offset = offset, !.selected_locate = locate]
  BY DEF Reconcile
<1>11. (\E p \in Positions(a) : SymbolAt(a, p).locate = a.selected_locate) => same # {}
  BY DEF Positions
<1> HIDE DEF selected, same
<1>12. selected \in Nat \cup {None} /\ offset \in Nat /\ locate \in Nat \cup {None}
  <2>1. selected # None => SymbolAt(a, selected).locate \in Nat
    BY <1>7, RowAt DEF Row
  <2> QED
    BY <1>1, <1>2, <1>7, <2>1
<1>13. same # {} => locate = a.selected_locate
  BY <1>8, <1>9
<1>14. /\ selected # None => locate = SymbolAt(a, selected).locate
       /\ selected = None => locate = None
  OBVIOUS
<1> HIDE DEF offset, locate
<1>15. b \in AppType
  BY <1>10, <1>12 DEF AppType
<1>16. /\ b.symbols = a.symbols /\ b.filtered = a.filtered /\ b.filter = a.filter
       /\ b.mode = a.mode /\ b.last_directory_msgs = a.last_directory_msgs
       /\ b.last_filter = a.last_filter /\ b.selected = selected
       /\ b.selected_locate = locate
  BY <1>10 DEF AppType
<1> QED
  BY <1>7, <1>11, <1>13, <1>14, <1>15, <1>16

\* The third stage: the window is inside the list, full if the list is long
\* enough, and the selection is in it if it has a row.
LEMMA Scrolled ==
  ASSUME NEW a \in AppType, NEW height \in Nat,
         a.selected = None \/ a.selected \in Positions(a),
         NEW b, b = Scroll(a, height)
  PROVE  /\ b \in AppType
         /\ b.symbols = a.symbols /\ b.filtered = a.filtered /\ b.filter = a.filter
         /\ b.mode = a.mode /\ b.last_directory_msgs = a.last_directory_msgs
         /\ b.last_filter = a.last_filter /\ b.selected = a.selected
         /\ b.selected_locate = a.selected_locate
         /\ b.offset \in 0 .. Len(a.filtered)
         /\ b.offset = 0 \/ b.offset =< Len(a.filtered) - height
         /\ a.selected # None /\ height > 0 =>
               b.offset =< a.selected /\ a.selected < b.offset + height
<1> DEFINE sel == a.selected
           off == a.offset
           len == Len(a.filtered)
           into == IF sel = None THEN off
                   ELSE IF sel < off THEN sel
                   ELSE IF height > 0 /\ sel >= off + height
                   THEN sel + 1 - height
                   ELSE off
           offset == Min({into, Max({0, len - height})})
<1>1. len \in Nat /\ off \in Nat /\ (sel = None \/ sel \in 0 .. len - 1)
  <2>1. a.filtered \in Seq(Nat)
    BY DEF AppType
  <2> QED
    BY <2>1 DEF AppType, Positions
<1>2. b = [a EXCEPT !.offset = offset]
  BY DEF Scroll
<1> HIDE DEF sel, off, len
<1>3. into \in Nat
  BY <1>1
<1>4. Max({0, len - height}) = IF 0 >= len - height THEN 0 ELSE len - height
  <2>1. len - height \in Int
    BY <1>1
  <2> QED
    BY <2>1, MaxOfTwo
<1> DEFINE most == Max({0, len - height})
<1> HIDE DEF most
<1>5. most = IF 0 >= len - height THEN 0 ELSE len - height
  BY <1>4 DEF most
<1>6. most \in Nat /\ most =< len
  BY <1>1, <1>5
<1>7. offset = IF into =< most THEN into ELSE most
  <2> HIDE DEF into
  <2> QED
    BY <1>3, <1>6, MinOfTwo DEF most
<1>8. offset \in 0 .. len /\ (offset = 0 \/ offset =< len - height)
  <2> HIDE DEF into, offset
  <2> QED
    BY <1>1, <1>3, <1>5, <1>6, <1>7
<1>9. ASSUME sel # None, height > 0 PROVE offset =< sel /\ sel < offset + height
  <2>1. sel \in 0 .. len - 1
    BY <1>1, <1>9
  <2>2. into =< sel /\ sel < into + height
    BY <1>1, <1>9, <2>1
  <2> HIDE DEF into, offset
  <2>3. CASE into =< most
    BY <1>7, <2>2, <2>3
  <2>4. CASE ~ (into =< most)
    BY <1>1, <1>3, <1>5, <1>6, <1>7, <1>9, <2>1, <2>2, <2>4
  <2> QED
    BY <2>3, <2>4
<1>10. offset \in Nat
  BY <1>1, <1>8
<1> HIDE DEF offset
<1>11. b \in AppType
  BY <1>2, <1>10 DEF AppType
<1>12. /\ b.symbols = a.symbols /\ b.filtered = a.filtered /\ b.filter = a.filter
       /\ b.mode = a.mode /\ b.last_directory_msgs = a.last_directory_msgs
       /\ b.last_filter = a.last_filter /\ b.selected = a.selected
       /\ b.selected_locate = a.selected_locate /\ b.offset = offset
  BY <1>2 DEF AppType
<1> QED
  BY <1>8, <1>9, <1>11, <1>12 DEF sel, len

\* An index that is cached points into its table.
LEMMA CachedInTable ==
  ASSUME NEW a \in AppType, NEW filter, a.filtered = Ascending(Hits(a.symbols, filter))
  PROVE  /\ InTable(a)
         /\ \A n \in 1 .. Len(a.filtered) : a.filtered[n] \in Hits(a.symbols, filter)
<1>1. a.symbols \in Seq(Row)
  BY DEF AppType
<1>2. /\ Hits(a.symbols, filter) \subseteq 1 .. Len(a.symbols)
      /\ Lists(a.filtered, Hits(a.symbols, filter), LessThan(Hits(a.symbols, filter)))
  BY <1>1, HitsListed
<1>3. a.filtered \in Seq(Hits(a.symbols, filter))
  BY <1>2 DEF Lists
<1>4. \A n \in 1 .. Len(a.filtered) : a.filtered[n] \in Hits(a.symbols, filter)
  BY <1>3
<1> QED
  BY <1>2, <1>4 DEF InTable

\* A refreshed App, of which b was made from a.
LEMMA RefreshFacts ==
  ASSUME NEW h, IsHandler(h), NEW a \in AppType, Cached(a, h),
         NEW v, v.list_height \in Nat, NEW b, b = refresh(a, v, h)
  PROVE  /\ b \in AppType
         /\ b.symbols = SortEntries(Table(h))
         /\ b.filtered = Ascending(Hits(b.symbols, a.filter))
         /\ b.last_directory_msgs = h.stats["stock_directory_msgs"]
         /\ b.last_filter = a.filter /\ b.filter = a.filter
         /\ InTable(b)
         /\ b.selected = None \/ b.selected \in Positions(b)
         /\ b.selected = None <=> b.filtered = <<>>
         /\ b.selected # None => b.selected_locate = SymbolAt(b, b.selected).locate
         /\ b.selected = None => b.selected_locate = None
         /\ (\E p \in Positions(b) : SymbolAt(b, p).locate = a.selected_locate)
               => b.selected_locate = a.selected_locate
         /\ b.offset \in 0 .. Len(b.filtered)
         /\ b.offset = 0 \/ b.offset =< Len(b.filtered) - v.list_height
         /\ b.selected # None /\ v.list_height > 0 =>
               b.offset =< b.selected /\ b.selected < b.offset + v.list_height
<1> DEFINE x == RefreshLists(a, h)
           y == Reconcile(x)
<1>1. /\ x \in AppType /\ x.symbols = SortEntries(Table(h))
      /\ x.filtered = Ascending(Hits(x.symbols, a.filter))
      /\ x.last_directory_msgs = h.stats["stock_directory_msgs"]
      /\ x.last_filter = a.filter /\ x.filter = a.filter
      /\ x.selected_locate = a.selected_locate
  BY ListsRefreshed
<1>2. b = Scroll(y, v.list_height)
  BY DEF refresh
<1> HIDE DEF x
<1>3. InTable(x)
  BY <1>1, CachedInTable
<1>4. /\ y \in AppType
      /\ y.symbols = x.symbols /\ y.filtered = x.filtered /\ y.filter = x.filter
      /\ y.mode = x.mode /\ y.last_directory_msgs = x.last_directory_msgs
      /\ y.last_filter = x.last_filter
      /\ y.selected = None \/ y.selected \in Positions(x)
      /\ y.selected = None <=> x.filtered = <<>>
      /\ y.selected # None => y.selected_locate = SymbolAt(x, y.selected).locate
      /\ y.selected = None => y.selected_locate = None
      /\ (\E p \in Positions(x) : SymbolAt(x, p).locate = x.selected_locate)
            => y.selected_locate = x.selected_locate
  BY <1>1, <1>3, Reconciled
<1> HIDE DEF y
<1>5. y.selected = None \/ y.selected \in Positions(y)
  BY <1>4 DEF Positions
<1>6. /\ b \in AppType
      /\ b.symbols = y.symbols /\ b.filtered = y.filtered /\ b.filter = y.filter
      /\ b.mode = y.mode /\ b.last_directory_msgs = y.last_directory_msgs
      /\ b.last_filter = y.last_filter /\ b.selected = y.selected
      /\ b.selected_locate = y.selected_locate
      /\ b.offset \in 0 .. Len(y.filtered)
      /\ b.offset = 0 \/ b.offset =< Len(y.filtered) - v.list_height
      /\ y.selected # None /\ v.list_height > 0 =>
            b.offset =< y.selected /\ y.selected < b.offset + v.list_height
  BY <1>2, <1>4, <1>5, Scrolled
<1>7. Positions(b) = Positions(x) /\ \A p : SymbolAt(b, p) = SymbolAt(x, p)
  BY <1>4, <1>6 DEF Positions, SymbolAt
<1>8. InTable(b)
  BY <1>3, <1>4, <1>6 DEF InTable
<1> QED
  BY <1>1, <1>4, <1>6, <1>7, <1>8

\* viewport_for subtracts with saturation.
LEMMA ViewportType ==
  ASSUME NEW height \in Nat
  PROVE  viewport_for(height).list_height \in Nat /\ viewport_for(height).ladder_rows \in Nat
<1> DEFINE body == Max({0, height - 6})
<1>1. body \in Nat
  BY MaxOfTwo
<1> HIDE DEF body
<1>2. Max({0, body - 2}) \in Nat /\ Max({0, body - 4}) \in Nat
  BY <1>1, MaxOfTwo
<1> QED
  BY <1>2 DEF viewport_for, body

-----------------------------------------------------------------------------
(* The inductive invariant.                                                *)

\* What is still to come can be handled.
Fed == {msg \in UNION {ToSet(f) : f \in Feeds} : WellFormed(msg)}

\* The caches say how old they are, the selection and the window are inside the
\* list, and the table's locates have books.
TuiInv ==
    /\ IsHandler(handler)
    /\ feed \in Seq(Fed)
    /\ app \in AppType
    /\ Cached(app, handler)
    /\ app.selected = None \/ app.selected \in Positions(app)
    /\ app.offset =< Len(app.filtered)
    /\ Len(app.filter) <= MaxFilter
    /\ \A n \in 1 .. Len(app.symbols) :
          app.symbols[n].locate \in Registered(handler.registry)
    /\ running \in BOOLEAN

\* The UI starts with empty lists and an empty registry.
LEMMA TuiInit == Init => TuiInv
<1> SUFFICES ASSUME Init PROVE TuiInv
  OBVIOUS
<1>1. feed \in Seq(Fed)
  BY FeedsAssumption DEF Init, Fed
<1>2. /\ handler.registry = NewRegistry("vec") /\ handler.stats = [c \in HandlerStats |-> 0]
      /\ handler = [registry |-> handler.registry, stats |-> handler.stats,
                    tick |-> handler.tick, panicked |-> handler.panicked]
  BY DEF Init, NewHandler
<1>3. DOMAIN NoEntries = {} /\ NoEntries = [x \in DOMAIN NoEntries |-> NoEntries[x]]
  BY DEF NoEntries
<1>4. IsRegistry(NewRegistry("vec")) /\ NewRegistry("vec").entries = NoEntries
  <2>1. NewRegistry("vec") = [kind |-> "vec", slots |-> MaxCapacity, entries |-> NoEntries]
    BY DEF NewRegistry
  <2> QED
    BY <1>3, <2>1, MaxCapacityAssumption DEF IsRegistry
<1>5. IsHandler(handler)
  BY <1>2, <1>4 DEF IsHandler
<1>6. /\ app.symbols = <<>> /\ app.filtered = <<>> /\ app.selected = None
      /\ app.offset = 0 /\ app.filter = <<>> /\ app.last_directory_msgs = 0
      /\ app \in AppType
  BY DEF Init, NewApp, AppType
<1>7. Hits(app.symbols, app.last_filter) = {}
  BY <1>6 DEF Hits
<1>8. Ascending({}) = <<>>
  <2>1. Lists(Ascending({}), {}, LessThan({}))
    BY AscendingList, FS_EmptySet
  <2>2. Ascending({}) \in Seq({})
    BY <2>1 DEF Lists
  <2> QED
    BY <2>2
<1>9. Table(handler) = {}
  BY <1>2, <1>3, <1>4 DEF Table, Entries, Registered
<1>10. SortEntries({}) = <<>>
  <2>1. IsTable({})
    BY FS_EmptySet DEF IsTable
  <2>2. SortEntries({}) \in Seq({})
    BY <2>1, SortEntriesList DEF Lists
  <2> QED
    BY <2>2
<1>11. handler.stats["stock_directory_msgs"] = 0
  BY <1>2 DEF HandlerStats
<1>12. Cached(app, handler)
  <2>1. app.filtered = Ascending(Hits(app.symbols, app.last_filter))
    BY <1>6, <1>7, <1>8
  <2>2. app.symbols = SortEntries(Table(handler))
    BY <1>6, <1>9, <1>10
  <2>3. app.last_directory_msgs =< handler.stats["stock_directory_msgs"]
    BY <1>6, <1>11
  <2> QED
    BY <2>1, <2>2, <2>3 DEF Cached
<1>13. running \in BOOLEAN
  BY DEF Init
<1> QED
  BY <1>1, <1>5, <1>6, <1>12, <1>13, TuiAssumption DEF TuiInv

\* A message leaves the caches as old as they say.
LEMMA TuiHandleMessage ==
  ASSUME TuiInv, HandleMessage
  PROVE  TuiInv'
<1>1. feed \in Seq(Fed) /\ feed # <<>>
  BY DEF TuiInv, HandleMessage
<1>2. feed' \in Seq(Fed) /\ Head(feed) \in Fed
  BY <1>1 DEF HandleMessage
<1>3. WellFormed(Head(feed))
  BY <1>2 DEF Fed
<1>4. /\ IsHandler(Ticked(handler)) /\ Ticked(handler).registry = handler.registry
      /\ Ticked(handler).stats = handler.stats
  <2> DEFINE g == Ticked(handler)
  <2>1. /\ g.registry = handler.registry /\ g.stats = handler.stats
        /\ g = [registry |-> g.registry, stats |-> g.stats, tick |-> g.tick,
                panicked |-> g.panicked]
    BY DEF TuiInv, IsHandler, Ticked
  <2> HIDE DEF g
  <2>2. IsHandler(g)
    BY <2>1 DEF TuiInv, IsHandler
  <2> QED
    BY <2>1, <2>2 DEF g
<1>5. Follows(Ticked(handler), handler')
  BY <1>3, <1>4, ApplyFollows DEF HandleMessage
<1>6. Follows(handler, handler')
  BY <1>4, <1>5 DEF Follows
<1>7. /\ handler.stats["stock_directory_msgs"] \in Nat
      /\ app.last_directory_msgs \in Nat
  BY DEF TuiInv, IsHandler, HandlerStats, AppType
<1>8. SameSymbols(handler.registry, handler'.registry) => Table(handler') = Table(handler)
  <2> SUFFICES ASSUME SameSymbols(handler.registry, handler'.registry)
               PROVE  Table(handler') = Table(handler)
    OBVIOUS
  <2>1. ASSUME NEW h, IsHandler(h)
        PROVE  Table(h) = {[locate |-> l, symbol |-> h.registry.entries[l].symbol] :
                              l \in Registered(h.registry)}
    <3>1. \A e \in Table(h) : /\ e \in Row /\ e.locate \in Registered(h.registry)
                              /\ e.symbol = h.registry.entries[e.locate].symbol
      BY <2>1, TablesSorted
    <3>2. \A e \in Row : e = [locate |-> e.locate, symbol |-> e.symbol]
      BY DEF Row
    <3>3. \A l \in Registered(h.registry) :
             [locate |-> l, symbol |-> h.registry.entries[l].symbol] \in Table(h)
      BY <2>1, TablesSorted
    <3> QED
      BY <3>1, <3>2, <3>3
  <2>2. IsHandler(handler) /\ IsHandler(handler')
    BY <1>6 DEF TuiInv, Follows
  <2> QED
    BY <2>1, <2>2 DEF SameSymbols
<1>9. UNCHANGED <<app, running>>
  BY DEF HandleMessage
<1>10. Cached(app, handler')
  BY <1>6, <1>7, <1>8 DEF TuiInv, Cached, Follows
<1>11. \A n \in 1 .. Len(app.symbols) :
          app.symbols[n].locate \in Registered(handler'.registry)
  BY <1>6 DEF TuiInv, Follows
<1> QED
  BY <1>2, <1>6, <1>9, <1>10, <1>11 DEF TuiInv, Follows, Cached, Positions

\* A frame brings the caches up to date.
LEMMA TuiFrame ==
  ASSUME TuiInv, NEW height \in Heights, Frame(height)
  PROVE  TuiInv'
<1>1. viewport_for(height).list_height \in Nat
  BY ViewportType, TuiAssumption
<1>2. /\ app' = refresh(app, viewport_for(height), handler)
      /\ UNCHANGED <<feed, handler, running>>
  BY DEF Frame
<1>3. /\ app' \in AppType
      /\ app'.symbols = SortEntries(Table(handler))
      /\ app'.filtered = Ascending(Hits(app'.symbols, app.filter))
      /\ app'.last_directory_msgs = handler.stats["stock_directory_msgs"]
      /\ app'.last_filter = app.filter /\ app'.filter = app.filter
      /\ app'.selected = None \/ app'.selected \in Positions(app')
      /\ app'.offset \in 0 .. Len(app'.filtered)
  BY <1>1, <1>2, RefreshFacts DEF TuiInv
<1>4. handler.stats["stock_directory_msgs"] \in Nat
  BY DEF TuiInv, IsHandler, HandlerStats
<1>5. Cached(app', handler)
  BY <1>3, <1>4 DEF Cached
<1>6. \A n \in 1 .. Len(app'.symbols) :
         app'.symbols[n].locate \in Registered(handler.registry)
  <2>1. IsHandler(handler)
    BY DEF TuiInv
  <2>2. app'.symbols \in Seq(Table(handler))
    BY <1>3, <2>1, TablesSorted, SortEntriesList DEF Lists
  <2>3. \A n \in 1 .. Len(app'.symbols) : app'.symbols[n] \in Table(handler)
    BY <2>2
  <2>4. \A e \in Table(handler) : e.locate \in Registered(handler.registry)
    BY <2>1, TablesSorted
  <2> QED
    BY <2>3, <2>4
<1>7. app'.offset =< Len(app'.filtered)
  BY <1>3
<1> QED
  BY <1>2, <1>3, <1>5, <1>6, <1>7 DEF TuiInv, Cached, Positions

\* The lists, and how old they are, are the same in a and b.
SameLists(a, b) ==
    /\ b.symbols = a.symbols /\ b.filtered = a.filtered /\ b.offset = a.offset
    /\ b.last_directory_msgs = a.last_directory_msgs /\ b.last_filter = a.last_filter

\* A key that moves the selection moves it to a row of the list or not at all.
LEMMA Moved ==
  ASSUME NEW a \in AppType, InTable(a), a.selected = None \/ a.selected \in Positions(a)
  PROVE  \A position \in Int :
            LET b == move_to(a, position) IN
            /\ b \in AppType /\ SameLists(a, b) /\ b.filter = a.filter
            /\ b.selected = None \/ b.selected \in Positions(a)
<1> SUFFICES ASSUME NEW position \in Int, NEW b, b = move_to(a, position)
             PROVE  /\ b \in AppType /\ SameLists(a, b) /\ b.filter = a.filter
                    /\ b.selected = None \/ b.selected \in Positions(a)
  OBVIOUS
<1>1. CASE position \in Positions(a)
  <2> DEFINE locate == SymbolAt(a, position).locate
  <2>1. locate \in Nat
    BY <1>1, RowAt DEF Row
  <2>2. b = [a EXCEPT !.selected = position, !.selected_locate = locate]
    BY <1>1 DEF move_to, Positions
  <2>3. position \in Nat
    <3>1. Len(a.filtered) \in Nat
      BY DEF AppType
    <3> QED
      BY <1>1, <3>1 DEF Positions
  <2> HIDE DEF locate
  <2>4. b \in AppType
    BY <2>1, <2>2, <2>3 DEF AppType
  <2>5. SameLists(a, b) /\ b.filter = a.filter /\ b.selected = position
    BY <2>2 DEF AppType, SameLists
  <2> QED
    BY <1>1, <2>4, <2>5
<1>2. CASE position \notin Positions(a)
  <2>1. b = a
    BY <1>2 DEF move_to, Positions
  <2> QED
    BY <2>1 DEF SameLists
<1> QED
  BY <1>1, <1>2

\* In normal mode, keys move the selection within the filtered list.
LEMMA KeysNormal ==
  ASSUME NEW a \in AppType, InTable(a), a.selected = None \/ a.selected \in Positions(a),
         NEW key, NEW b, b = handle_key_normal(a, key)
  PROVE  /\ b \in AppType /\ SameLists(a, b)
         /\ b.selected = None \/ b.selected \in Positions(a)
<1> DEFINE Fine(c) == /\ c \in AppType /\ SameLists(a, c)
                      /\ c.selected = None \/ c.selected \in Positions(a)
<1>0. Len(a.filtered) \in Nat
  BY DEF AppType
<1>1. Fine(a)
  BY DEF SameLists
<1>2. \A position \in Int : Fine(move_to(a, position))
  BY Moved
<1>3. ASSUME NEW delta \in Int PROVE Fine(move_selection(a, delta))
  <2> DEFINE cur == IF a.selected = None THEN 0 ELSE a.selected
             low == Min({cur + delta, Len(a.filtered) - 1})
             to == Max({0, low})
  <2>1. cur \in Nat
    BY DEF AppType
  <2>2. cur + delta \in Int /\ Len(a.filtered) - 1 \in Int
    BY <1>0, <2>1
  <2>3. low \in Int
    <3> HIDE DEF cur
    <3> QED
      BY <2>2, MinOfTwo
  <2>4. to \in Int
    <3> HIDE DEF low
    <3> QED
      BY <2>3, MaxOfTwo
  <2>5. move_selection(a, delta) = IF a.filtered = <<>> THEN a ELSE move_to(a, to)
    BY DEF move_selection
  <2> HIDE DEF to, Fine
  <2> QED
    BY <1>1, <1>2, <2>4, <2>5
<1>4. Fine([a EXCEPT !.mode = "Filter"])
  <2> DEFINE c == [a EXCEPT !.mode = "Filter"]
  <2>1. c \in AppType /\ SameLists(a, c) /\ c.selected = a.selected
    BY DEF AppType, SameLists
  <2> HIDE DEF c
  <2> QED
    BY <2>1 DEF c
<1>5. Len(a.filtered) - 1 \in Int
  BY <1>0
<1> HIDE DEF Fine
<1>6. Fine(b)
  BY <1>1, <1>2, <1>3, <1>4, <1>5 DEF handle_key_normal
<1> QED
  BY <1>6 DEF Fine

\* In filter mode, keys change the filter and nothing that depends on it yet.
LEMMA KeysFilter ==
  ASSUME NEW a \in AppType, NEW key, key.char \in Nat, NEW b, b = handle_key_filter(a, key)
  PROVE  b \in AppType /\ SameLists(a, b) /\ b.selected = a.selected
<1> DEFINE Fine(c) == c \in AppType /\ SameLists(a, c) /\ c.selected = a.selected
<1>1. a.filter \in Seq(Nat)
  BY DEF AppType
<1>2. ASSUME NEW filter \in Seq(Nat)
      PROVE  /\ Fine([a EXCEPT !.filter = filter])
             /\ Fine([a EXCEPT !.filter = filter, !.mode = "Normal"])
  <2>1. Fine([a EXCEPT !.filter = filter])
    <3> DEFINE c == [a EXCEPT !.filter = filter]
    <3>1. c \in AppType /\ SameLists(a, c) /\ c.selected = a.selected
      BY DEF AppType, SameLists
    <3> HIDE DEF c
    <3> QED
      BY <3>1 DEF c
  <2>2. Fine([a EXCEPT !.filter = filter, !.mode = "Normal"])
    <3> DEFINE c == [a EXCEPT !.filter = filter, !.mode = "Normal"]
    <3>1. c \in AppType /\ SameLists(a, c) /\ c.selected = a.selected
      BY DEF AppType, SameLists
    <3> HIDE DEF c
    <3> QED
      BY <3>1 DEF c
  <2> QED
    BY <2>1, <2>2
<1>3. Fine([a EXCEPT !.mode = "Normal"])
  <2> DEFINE c == [a EXCEPT !.mode = "Normal"]
  <2>1. c \in AppType /\ SameLists(a, c) /\ c.selected = a.selected
    BY DEF AppType, SameLists
  <2> HIDE DEF c
  <2> QED
    BY <2>1 DEF c
<1>4. Fine(a)
  BY DEF SameLists
<1>5. <<>> \in Seq(Nat) /\ (IF a.filter = <<>> THEN a.filter ELSE Front(a.filter)) \in Seq(Nat)
  BY <1>1 DEF Front
<1>6. Append(a.filter, to_uppercase(key.char)) \in Seq(Nat)
  <2>1. to_uppercase(key.char) \in Nat
    BY DEF to_uppercase
  <2> QED
    BY <1>1, <2>1
<1> HIDE DEF Fine
<1>7. Fine(b)
  BY <1>2, <1>3, <1>4, <1>5, <1>6 DEF handle_key_filter
<1> QED
  BY <1>7 DEF Fine

\* Keys act on the lists of the last frame.
LEMMA TuiPressKey ==
  ASSUME TuiInv, NEW key \in Keys, PressKey(key)
  PROVE  TuiInv'
<1>1. /\ app \in AppType /\ (app.selected = None \/ app.selected \in Positions(app))
      /\ InTable(app)
  <2>1. app.filtered = Ascending(Hits(app.symbols, app.last_filter))
    BY DEF TuiInv, Cached
  <2> QED
    BY <2>1, CachedInTable DEF TuiInv
<1>2. /\ app' \in AppType /\ SameLists(app, app')
      /\ app'.selected = None \/ app'.selected \in Positions(app)
  <2>1. CASE app.mode = "Normal"
    BY <1>1, <2>1, KeysNormal DEF PressKey
  <2>2. CASE app.mode # "Normal"
    BY <1>1, <2>2, KeysFilter, TuiAssumption DEF PressKey
  <2> QED
    BY <2>1, <2>2
<1>3. UNCHANGED <<feed, handler, running>> /\ Len(app'.filter) <= MaxFilter
  BY DEF PressKey
<1>4. app'.selected = None \/ app'.selected \in Positions(app')
  BY <1>2 DEF Positions, SameLists
<1> QED
  BY <1>2, <1>3, <1>4 DEF TuiInv, SameLists, Cached, Positions

\* Every message, frame and key keeps TuiInv.
LEMMA TuiStep == TuiInv /\ [Next]_vars => TuiInv'
<1> SUFFICES ASSUME TuiInv, [Next]_vars PROVE TuiInv'
  OBVIOUS
<1>1. CASE HandleMessage
  BY <1>1, TuiHandleMessage
<1>2. ASSUME NEW height \in Heights, Frame(height) PROVE TuiInv'
  BY <1>2, TuiFrame
<1>3. ASSUME NEW key \in Keys, PressKey(key) PROVE TuiInv'
  BY <1>3, TuiPressKey
<1>4. ASSUME NEW key \in Keys, QuitKey(key) PROVE TuiInv'
  BY <1>4 DEF QuitKey, TuiInv, Cached, Positions
<1>5. CASE UNCHANGED vars
  BY <1>5 DEF vars, TuiInv, Cached, Positions
<1> QED
  BY <1>1, <1>2, <1>3, <1>4, <1>5 DEF Next

\* TuiInv holds whatever keys, messages and frames come in whatever order.
THEOREM TuiInvariance == Spec => []TuiInv
  BY TuiInit, TuiStep, PTL DEF Spec

\* app.rs indexes `symbols' and `filtered' without a check: every index is
\* inside them at all times.
THEOREM TuiTypeCorrect == Spec => []TuiTypeOK
<1>1. TuiInv => TuiTypeOK
  <2> SUFFICES ASSUME TuiInv PROVE TuiTypeOK
    OBVIOUS
  <2>1. /\ app.symbols \in Seq(Row) /\ app.filtered \in Seq(Nat) /\ app.offset \in Nat
        /\ app.mode \in {"Normal", "Filter"}
    BY DEF TuiInv, AppType
  <2>2. InTable(app)
    <3>1. app.filtered = Ascending(Hits(app.symbols, app.last_filter))
      BY DEF TuiInv, Cached
    <3> QED
      BY <3>1, CachedInTable DEF TuiInv
  <2>3. DOMAIN app.symbols = 1 .. Len(app.symbols) /\ DOMAIN app.filtered = 1 .. Len(app.filtered)
    BY <2>1
  <2>4. app.offset \in 0 .. Len(app.filtered)
    BY <2>1 DEF TuiInv
  <2> QED
    BY <2>1, <2>2, <2>3, <2>4 DEF TuiInv, TuiTypeOK, InTable, Positions
<1> QED
  BY <1>1, TuiInvariance, PTL

-----------------------------------------------------------------------------
(* What a frame shows.                                                     *)

\* The entry of a locate, with its book.
FullEntry(h, l) ==
    [locate |-> l, symbol |-> h.registry.entries[l].symbol, book |-> h.registry.entries[l].book]

\* A refreshed list has the matching rows of the table, in order.
LEMMA ListShows ==
  ASSUME NEW h, IsHandler(h), NEW b \in AppType, b.symbols = SortEntries(Table(h)),
         NEW filter, b.filtered = Ascending(Hits(b.symbols, filter))
  PROVE  /\ \A p \in Positions(b) : /\ SymbolAt(b, p) \in Table(h)
                                     /\ Matches(SymbolAt(b, p).symbol, filter)
         /\ \A e \in Table(h) : Matches(e.symbol, filter) =>
               \E p \in Positions(b) : SymbolAt(b, p) = e
         /\ \A p, q \in Positions(b) :
               p < q <=> EntryBefore(SymbolAt(b, p), SymbolAt(b, q))
<1> DEFINE T == Table(h)
           H == Hits(b.symbols, filter)
           s == b.symbols
           f == b.filtered
<1>1. Lists(s, T, EntryOrder(T)) /\ s \in Seq(Row) /\ f \in Seq(Nat)
  <2>1. IsTable(T)
    BY TablesSorted
  <2> QED
    BY <2>1, SortEntriesList DEF AppType
<1>2. Lists(f, H, LessThan(H)) /\ H \subseteq 1 .. Len(s)
  BY <1>1, HitsListed
<1>3. \A n \in H : n \in 1 .. Len(s) /\ Matches(s[n].symbol, filter)
  BY <1>2 DEF Hits
<1>4. \A n \in 1 .. Len(s) : Matches(s[n].symbol, filter) => n \in H
  BY <1>1 DEF Hits
<1>5. \A p : SymbolAt(b, p) = s[f[p + 1]]
  BY DEF SymbolAt
<1>6. Len(f) \in Nat /\ Len(s) \in Nat /\ Positions(b) = 0 .. Len(f) - 1
  BY <1>1 DEF Positions
<1>7. /\ \A n \in 1 .. Len(s) : s[n] \in T
      /\ \A e \in T : \E n \in 1 .. Len(s) : s[n] = e
      /\ \A m, n \in 1 .. Len(s) : m < n <=> <<s[m], s[n]>> \in EntryOrder(T)
  BY <1>1 DEF Lists
<1>8. /\ \A n \in 1 .. Len(f) : f[n] \in H
      /\ \A x \in H : \E n \in 1 .. Len(f) : f[n] = x
      /\ \A m, n \in 1 .. Len(f) : m < n <=> <<f[m], f[n]>> \in LessThan(H)
  <2> HIDE DEF H, f
  <2>1. f \in Seq(H)
    BY <1>2 DEF Lists
  <2>2. \A n \in 1 .. Len(f) : f[n] \in H
    BY ONLY <2>1
  <2> QED
    BY <1>2, <2>2 DEF Lists
<1> HIDE DEF T, H, s, f
<1>9. ASSUME NEW p \in Positions(b)
      PROVE  p + 1 \in 1 .. Len(f) /\ f[p + 1] \in H /\ f[p + 1] \in 1 .. Len(s)
  <2>1. p + 1 \in 1 .. Len(f)
    BY <1>6
  <2> QED
    BY <1>3, <1>8, <2>1
<1>10. ASSUME NEW p \in Positions(b)
       PROVE  SymbolAt(b, p) \in T /\ Matches(SymbolAt(b, p).symbol, filter)
  BY <1>3, <1>5, <1>7, <1>9
<1>11. ASSUME NEW e \in T, Matches(e.symbol, filter)
       PROVE  \E p \in Positions(b) : SymbolAt(b, p) = e
  <2>1. PICK n \in 1 .. Len(s) : s[n] = e
    BY <1>7
  <2>2. n \in H
    BY <1>4, <1>11, <2>1
  <2>3. PICK k \in 1 .. Len(f) : f[k] = n
    BY <1>8, <2>2
  <2>4. k - 1 \in Positions(b) /\ (k - 1) + 1 = k
    BY <1>6
  <2>5. SymbolAt(b, k - 1) = e
    BY <1>5, <2>1, <2>3, <2>4
  <2> QED
    BY <2>4, <2>5
<1>12. ASSUME NEW p \in Positions(b), NEW q \in Positions(b)
       PROVE  p < q <=> EntryBefore(SymbolAt(b, p), SymbolAt(b, q))
  <2>1. p < q <=> p + 1 < q + 1
    BY <1>6
  <2>2. p + 1 < q + 1 <=> <<f[p + 1], f[q + 1]>> \in LessThan(H)
    BY <1>8, <1>9
  <2>3. <<f[p + 1], f[q + 1]>> \in LessThan(H) <=> f[p + 1] < f[q + 1]
    BY <1>9 DEF LessThan
  <2>4. f[p + 1] < f[q + 1] <=> <<s[f[p + 1]], s[f[q + 1]]>> \in EntryOrder(T)
    BY <1>7, <1>9
  <2>5. <<s[f[p + 1]], s[f[q + 1]]>> \in EntryOrder(T)
           <=> EntryBefore(s[f[p + 1]], s[f[q + 1]])
    BY <1>7, <1>9 DEF EntryOrder
  <2> QED
    BY <1>5, <2>1, <2>2, <2>3, <2>4, <2>5
<1> QED
  BY <1>10, <1>11, <1>12 DEF T

\* Listed has the entries of the table's matching rows.
LEMMA ListedRows ==
  ASSUME IsHandler(handler)
  PROVE  /\ \A e \in Listed : /\ e.locate \in Registered(handler.registry)
                              /\ e = FullEntry(handler, e.locate)
                              /\ [locate |-> e.locate, symbol |-> e.symbol] \in Table(handler)
                              /\ Matches(e.symbol, app.filter)
         /\ \A e \in Table(handler) :
               Matches(e.symbol, app.filter) => FullEntry(handler, e.locate) \in Listed
<1>1. Entries(handler.registry) =
        {FullEntry(handler, l) : l \in Registered(handler.registry)}
  BY DEF Entries, FullEntry
<1>2. \A l : /\ FullEntry(handler, l).locate = l
             /\ FullEntry(handler, l).symbol = handler.registry.entries[l].symbol
  BY DEF FullEntry
<1>3. ASSUME NEW e \in Listed
      PROVE  /\ e.locate \in Registered(handler.registry)
             /\ e = FullEntry(handler, e.locate)
             /\ [locate |-> e.locate, symbol |-> e.symbol] \in Table(handler)
             /\ Matches(e.symbol, app.filter)
  <2>1. e \in Entries(handler.registry) /\ Matches(e.symbol, app.filter)
    BY DEF Listed
  <2>2. PICK l \in Registered(handler.registry) : e = FullEntry(handler, l)
    BY <1>1, <2>1
  <2>3. e.locate = l
    BY <1>2, <2>2
  <2>4. [locate |-> e.locate, symbol |-> e.symbol] \in Table(handler)
    BY <2>1 DEF Table
  <2> QED
    BY <2>1, <2>2, <2>3, <2>4
<1>4. ASSUME NEW e \in Table(handler), Matches(e.symbol, app.filter)
      PROVE  FullEntry(handler, e.locate) \in Listed
  <2>1. /\ e.locate \in Registered(handler.registry)
        /\ e.symbol = handler.registry.entries[e.locate].symbol
    BY TablesSorted
  <2>2. FullEntry(handler, e.locate) \in Entries(handler.registry)
    BY <1>1, <2>1
  <2>3. FullEntry(handler, e.locate).symbol = e.symbol
    BY <1>2, <2>1
  <2> QED
    BY <1>4, <2>2, <2>3 DEF Listed
<1> QED
  BY <1>3, <1>4

\* Reconciliation in App::refresh: a frame leaves the selection on its locate
\* while that is listed.
THEOREM SelectionSticksHolds == Spec => []SelectionSticks
<1>1. TuiInv => SelectionSticks
  <2> SUFFICES ASSUME TuiInv, NEW height \in Heights, NEW e \in Listed,
                      app.selected_locate = e.locate
               PROVE  Refreshed(height).selected_locate = app.selected_locate
    BY DEF SelectionSticks
  <2> DEFINE v == viewport_for(height)
  <2>1. v.list_height \in Nat
    BY ViewportType, TuiAssumption
  <2>2. IsHandler(handler) /\ app \in AppType /\ Cached(app, handler)
    BY DEF TuiInv
  <2> HIDE DEF v
  <2>3. PICK b : b = refresh(app, v, handler)
    OBVIOUS
  <2>4. /\ b \in AppType /\ b.symbols = SortEntries(Table(handler))
        /\ b.filtered = Ascending(Hits(b.symbols, app.filter))
        /\ (\E p \in Positions(b) : SymbolAt(b, p).locate = app.selected_locate)
               => b.selected_locate = app.selected_locate
    BY <2>1, <2>2, <2>3, RefreshFacts
  <2> DEFINE row == [locate |-> e.locate, symbol |-> e.symbol]
  <2>5. row \in Table(handler) /\ Matches(e.symbol, app.filter)
    BY <2>2, ListedRows
  <2>6. row.locate = e.locate /\ row.symbol = e.symbol
    OBVIOUS
  <2> HIDE DEF row
  <2>7. \E p \in Positions(b) : SymbolAt(b, p) = row
    BY <2>2, <2>4, <2>5, <2>6, ListShows
  <2>8. b.selected_locate = app.selected_locate
    BY <2>4, <2>6, <2>7
  <2> QED
    BY <2>3, <2>8 DEF Refreshed, v
<1> QED
  BY <1>1, TuiInvariance, PTL

\* The full list, each row with the numbers of its book.
LEMMA ListedInOrder ==
  ASSUME IsHandler(handler), NEW b \in AppType, b.symbols = SortEntries(Table(handler)),
         b.filtered = Ascending(Hits(b.symbols, app.filter))
  PROVE  SortEntries(Listed) =
            [n \in 1 .. Len(b.filtered) |-> FullEntry(handler, SymbolAt(b, n - 1).locate)]
<1> DEFINE w == [n \in 1 .. Len(b.filtered) |-> FullEntry(handler, SymbolAt(b, n - 1).locate)]
           L == Listed
           At(n) == SymbolAt(b, n - 1)
<1>1. Len(b.filtered) \in Nat /\ \A n \in 1 .. Len(b.filtered) : n - 1 \in Positions(b)
  BY DEF AppType, Positions
<1>2. ASSUME NEW n \in 1 .. Len(b.filtered)
      PROVE  /\ At(n) \in Table(handler) /\ Matches(At(n).symbol, app.filter)
             /\ w[n] \in L /\ w[n].locate = At(n).locate /\ w[n].symbol = At(n).symbol
  <2>1. At(n) \in Table(handler) /\ Matches(At(n).symbol, app.filter)
    BY <1>1, ListShows
  <2>2. At(n).symbol = handler.registry.entries[At(n).locate].symbol
    BY <2>1, TablesSorted
  <2>3. w[n] = FullEntry(handler, At(n).locate)
    OBVIOUS
  <2>4. w[n] \in L
    BY <2>1, <2>3, ListedRows
  <2> QED
    BY <2>1, <2>2, <2>3, <2>4 DEF FullEntry
<1>3. w \in [1 .. Len(b.filtered) -> L] /\ w \in Seq(L) /\ Len(w) = Len(b.filtered)
  <2>1. w \in [1 .. Len(b.filtered) -> L]
    BY <1>2
  <2> HIDE DEF w, L
  <2> QED
    BY <1>1, <2>1
<1>4. IsTable(L)
  <2>1. IsTable(Entries(handler.registry)) /\ L \in SUBSET Entries(handler.registry)
    BY TablesSorted DEF Listed
  <2>2. IsFiniteSet(L)
    BY <2>1, FS_Subset DEF IsTable
  <2> HIDE DEF L
  <2> QED
    BY <2>1, <2>2 DEF IsTable
<1>5. ASSUME NEW e \in L PROVE \E n \in 1 .. Len(w) : w[n] = e
  <2> DEFINE row == [locate |-> e.locate, symbol |-> e.symbol]
  <2>1. row \in Table(handler) /\ Matches(e.symbol, app.filter) /\ e = FullEntry(handler, e.locate)
    BY ListedRows
  <2>2. row.locate = e.locate /\ row.symbol = e.symbol
    OBVIOUS
  <2> HIDE DEF row
  <2>3. PICK p \in Positions(b) : SymbolAt(b, p) = row
    BY <2>1, <2>2, ListShows
  <2>4. p + 1 \in 1 .. Len(b.filtered) /\ (p + 1) - 1 = p
    BY <1>1 DEF Positions
  <2>5. w[p + 1] = FullEntry(handler, SymbolAt(b, p).locate)
    BY <2>4
  <2> QED
    BY <1>3, <2>1, <2>2, <2>3, <2>4, <2>5
<1>6. ASSUME NEW m \in 1 .. Len(w), NEW n \in 1 .. Len(w)
      PROVE  m < n <=> <<w[m], w[n]>> \in EntryOrder(L)
  <2>1. m \in 1 .. Len(b.filtered) /\ n \in 1 .. Len(b.filtered)
    BY <1>3
  <2>2. m - 1 < n - 1 <=> EntryBefore(At(m), At(n))
    BY <1>1, <2>1, ListShows
  <2>3. EntryBefore(At(m), At(n)) <=> EntryBefore(w[m], w[n])
    <3>1. /\ w[m].locate = At(m).locate /\ w[m].symbol = At(m).symbol
          /\ w[n].locate = At(n).locate /\ w[n].symbol = At(n).symbol
      BY <1>2, <2>1
    <3> HIDE DEF w, At
    <3> QED
      BY <3>1 DEF EntryBefore
  <2>4. w[m] \in L /\ w[n] \in L
    BY <1>2, <2>1
  <2>5. <<w[m], w[n]>> \in EntryOrder(L) <=> EntryBefore(w[m], w[n])
    <3> HIDE DEF w, L
    <3> QED
      BY <2>4 DEF EntryOrder
  <2>6. m < n <=> m - 1 < n - 1
    BY <1>1, <2>1
  <2> QED
    BY <2>2, <2>3, <2>5, <2>6
<1> HIDE DEF w, L
<1>7. Lists(w, L, EntryOrder(L))
  BY <1>3, <1>5, <1>6 DEF Lists
<1>8. StrictOrder(EntryOrder(L), L) /\ IsFiniteSet(L)
  BY <1>4, EntriesOrdered DEF IsTable
<1>9. w = Sorted(L, EntryOrder(L))
  BY <1>7, <1>8, SortedUnique
<1>10. SortEntries(L) = Sorted(L, EntryOrder(L))
  BY DEF SortEntries, EntryOrder
<1> QED
  BY <1>9, <1>10 DEF w, L

\* The rows of a frame: from the offset on, as many as there is room for.
LEMMA RowsShown ==
  ASSUME TuiInv, NEW height \in Heights, NEW b, b = Refreshed(height),
         NEW room, room = viewport_for(height).list_height
  PROVE  LET rows == Screen(height).rows
             count == IF Len(b.filtered) =< room THEN Len(b.filtered) ELSE room
         IN /\ rows = [n \in 1 .. count |->
                           RowOf(FullEntry(handler, SymbolAt(b, b.offset + n - 1).locate))]
            /\ Len(rows) = count /\ b.offset + count =< Len(b.filtered)
            /\ count \in Nat
<1> DEFINE len == Len(b.filtered)
           off == b.offset
           rows == visible_rows(b, room, handler)
           count == IF len =< room THEN len ELSE room
           Shown(n) == SymbolAt(b, off + n - 1)
<1>1. room \in Nat
  BY ViewportType, TuiAssumption
<1>2. IsHandler(handler) /\ app \in AppType /\ Cached(app, handler)
  BY DEF TuiInv
<1>3. /\ b \in AppType /\ b.symbols = SortEntries(Table(handler))
      /\ b.filtered = Ascending(Hits(b.symbols, app.filter))
      /\ off \in 0 .. len /\ (off = 0 \/ off =< len - room)
  BY <1>1, <1>2, RefreshFacts DEF Refreshed
<1>4. len \in Nat
  BY <1>3 DEF AppType
<1>5. Screen(height).rows = rows
  BY DEF Screen, draw
<1>6. Min({len - off, room}) = count /\ off + count =< len /\ count \in Nat
  <2>1. len - off \in Int
    BY <1>3, <1>4
  <2>2. Min({len - off, room}) = IF len - off =< room THEN len - off ELSE room
    BY <1>1, <2>1, MinOfTwo
  <2> HIDE DEF len, off
  <2> QED
    BY <1>1, <1>3, <1>4, <2>2
<1>7. rows = [n \in 1 .. count |-> VisibleRow(Shown(n), handler)]
  BY <1>6 DEF visible_rows
<1>8. ASSUME NEW n \in 1 .. count
      PROVE  VisibleRow(Shown(n), handler) = RowOf(FullEntry(handler, Shown(n).locate))
  <2>1. off + n - 1 \in Positions(b)
    BY <1>3, <1>4, <1>6 DEF Positions
  <2>2. Shown(n) \in Table(handler)
    BY <1>2, <1>3, <2>1, ListShows
  <2>3. Shown(n).symbol = handler.registry.entries[Shown(n).locate].symbol
    BY <1>2, <2>2, TablesSorted
  <2> HIDE DEF Shown
  <2> QED
    BY <2>3 DEF VisibleRow, RowOf, FullEntry
<1>9. rows = [n \in 1 .. count |-> RowOf(FullEntry(handler, Shown(n).locate))]
  BY <1>7, <1>8
<1>10. Len(rows) = count
  <2> HIDE DEF count, rows, Shown
  <2> QED
    BY <1>6, <1>9
<1> HIDE DEF rows
<1> QED
  BY <1>5, <1>6, <1>9, <1>10

\* The window of a list, place by place.
LEMMA Window ==
  ASSUME NEW S, NEW s \in Seq(S), NEW off \in Nat, NEW count \in Nat, off + count =< Len(s)
  PROVE  SubSeq(s, off + 1, off + count) = [n \in 1 .. count |-> s[off + n]]
<1> DEFINE t == SubSeq(s, off + 1, off + count)
<1>1. Len(t) = count
  OBVIOUS
<1>2. t \in Seq(S)
  OBVIOUS
<1>3. ASSUME NEW n \in 1 .. count PROVE t[n] = s[off + n]
  OBVIOUS
<1> HIDE DEF t
<1>4. t = [n \in 1 .. count |-> t[n]]
  BY ONLY <1>1, <1>2
<1>5. [n \in 1 .. count |-> t[n]] = [n \in 1 .. count |-> s[off + n]]
  BY ONLY <1>3
<1> QED
  BY <1>4, <1>5 DEF t

\* App::refresh and ui.rs: a frame shows a window of the matching symbols, in
\* order and with the numbers of now, however old the caches were.
THEOREM ScreenTruthfulHolds == Spec => []ScreenTruthful
<1>1. TuiInv => ScreenTruthful
  <2> SUFFICES ASSUME TuiInv PROVE ScreenTruthful
    OBVIOUS
  <2> DEFINE sorted == SortEntries(Listed)
             rows == [n \in DOMAIN sorted |-> RowOf(sorted[n])]
  <2> SUFFICES ASSUME NEW height \in Heights
               PROVE  /\ Screen(height).count = Len(rows)
                      /\ Len(Screen(height).rows) =
                            Min({Screen(height).viewport.list_height, Len(rows)})
                      /\ \E skip \in 0 .. Len(rows) :
                            Screen(height).rows =
                              SubSeq(rows, skip + 1, skip + Len(Screen(height).rows))
    BY Zenon DEF ScreenTruthful
  <2> DEFINE v == viewport_for(height)
             room == v.list_height
             b == Refreshed(height)
             shown == Screen(height).rows
             len == Len(b.filtered)
             off == b.offset
             count == IF len =< room THEN len ELSE room
             Full(n) == FullEntry(handler, SymbolAt(b, n - 1).locate)
  <2>1. room \in Nat
    BY ViewportType, TuiAssumption
  <2>2. IsHandler(handler) /\ app \in AppType /\ Cached(app, handler)
    BY DEF TuiInv
  <2>3. /\ b \in AppType /\ b.symbols = SortEntries(Table(handler))
        /\ b.filtered = Ascending(Hits(b.symbols, app.filter))
        /\ off \in 0 .. len
    BY <2>1, <2>2, RefreshFacts DEF Refreshed
  <2>4. len \in Nat
    BY <2>3 DEF AppType
  <2>5. sorted = [n \in 1 .. len |-> Full(n)]
    BY <2>2, <2>3, ListedInOrder
  <2>6. rows = [n \in 1 .. len |-> RowOf(Full(n))]
    <3> HIDE DEF sorted, len, Full
    <3>1. DOMAIN sorted = 1 .. len /\ \A n \in 1 .. len : sorted[n] = Full(n)
      BY <2>5
    <3> QED
      BY <3>1
  <2>7. /\ shown = [n \in 1 .. count |->
                       RowOf(FullEntry(handler, SymbolAt(b, off + n - 1).locate))]
        /\ Len(shown) = count /\ off + count =< len /\ count \in Nat
    BY RowsShown
  <2>8. Screen(height).count = len /\ Screen(height).viewport.list_height = room
    BY DEF Screen, draw
  <2>9. Len(rows) = len /\ rows \in Seq({RowOf(Full(n)) : n \in 1 .. len})
    <3> HIDE DEF rows, len, Full
    <3> QED
      BY <2>4, <2>6
  <2>10. Min({room, len}) = count
    <3> HIDE DEF room, len
    <3> QED
      BY <2>1, <2>4, MinOfTwo
  <2>11. shown = SubSeq(rows, off + 1, off + Len(shown))
    <3>1. \A n \in 1 .. count : off + n \in 1 .. len /\ (off + n) - 1 = off + n - 1
      BY <2>3, <2>4, <2>7
    <3>2. SubSeq(rows, off + 1, off + count) = [n \in 1 .. count |-> rows[off + n]]
      <4> HIDE DEF rows, count, off, len, Full
      <4>1. off \in Nat /\ count \in Nat /\ off + count =< Len(rows)
        BY <2>3, <2>4, <2>7, <2>9
      <4> QED
        BY <2>9, <4>1, Window
    <3>3. \A n \in 1 .. count :
             rows[off + n] = RowOf(FullEntry(handler, SymbolAt(b, off + n - 1).locate))
      <4> HIDE DEF rows, count, off, len, b
      <4> QED
        BY <2>6, <3>1
    <3> HIDE DEF rows, count, off, b, shown
    <3> QED
      BY <2>7, <3>2, <3>3
  <2> HIDE DEF rows, shown, len, off, count, room
  <2> QED
    BY <2>3, <2>7, <2>8, <2>9, <2>10, <2>11 DEF shown
<1> QED
  BY <1>1, TuiInvariance, PTL

\* list_state, the renderer's checked_sub and the depth panel: where there is a
\* row to show, the selected symbol's row is on the screen and highlighted, and
\* the depth is that symbol's.
THEOREM SelectionVisibleHolds == Spec => []SelectionVisible
<1>1. TuiInv => SelectionVisible
  <2> SUFFICES ASSUME TuiInv, NEW height \in Heights, Listed # {},
                      Screen(height).viewport.list_height > 0
               PROVE  LET screen == Screen(height)
                          locate == Refreshed(height).selected_locate
                      IN /\ locate \in Registered(handler.registry)
                         /\ screen.highlighted \in 0 .. Len(screen.rows) - 1
                         /\ screen.rows[screen.highlighted + 1] =
                               RowOf(handler.registry.entries[locate])
                         /\ screen.depth_of = handler.registry.entries[locate].symbol
    BY DEF SelectionVisible
  <2> DEFINE v == viewport_for(height)
             room == v.list_height
             b == Refreshed(height)
             locate == b.selected_locate
             shown == Screen(height).rows
             len == Len(b.filtered)
             off == b.offset
             sel == b.selected
             count == IF len =< room THEN len ELSE room
  <2>1. room \in Nat /\ room > 0
    <3>1. Screen(height).viewport.list_height = room
      BY DEF Screen, draw
    <3>2. room \in Nat
      BY ViewportType, TuiAssumption
    <3> QED
      BY <3>1, <3>2
  <2>2. IsHandler(handler) /\ app \in AppType /\ Cached(app, handler)
    BY DEF TuiInv
  <2>3. /\ b \in AppType /\ b.symbols = SortEntries(Table(handler))
        /\ b.filtered = Ascending(Hits(b.symbols, app.filter))
        /\ sel = None \/ sel \in Positions(b)
        /\ sel = None <=> b.filtered = <<>>
        /\ sel # None => locate = SymbolAt(b, sel).locate
        /\ off \in 0 .. len
        /\ sel # None => off =< sel /\ sel < off + room
    BY <2>1, <2>2, RefreshFacts DEF Refreshed
  <2>4. len \in Nat /\ Positions(b) = 0 .. len - 1
    BY <2>3 DEF AppType, Positions
  <2>5. sel # None
    <3>1. PICK e : e \in Listed
      OBVIOUS
    <3> DEFINE row == [locate |-> e.locate, symbol |-> e.symbol]
    <3>2. row \in Table(handler) /\ Matches(e.symbol, app.filter)
      BY <2>2, <3>1, ListedRows
    <3>3. row.symbol = e.symbol
      OBVIOUS
    <3> HIDE DEF row
    <3>4. \E p \in Positions(b) : SymbolAt(b, p) = row
      BY <2>2, <2>3, <3>2, <3>3, ListShows
    <3>5. len # 0
      BY <2>4, <3>4
    <3> QED
      BY <2>3, <3>5
  <2>6. sel \in 0 .. len - 1 /\ off =< sel /\ sel < off + room
    BY <2>3, <2>4, <2>5
  <2>7. /\ shown = [n \in 1 .. count |->
                       RowOf(FullEntry(handler, SymbolAt(b, off + n - 1).locate))]
        /\ Len(shown) = count /\ off + count =< len /\ count \in Nat
    BY RowsShown
  <2>8. Screen(height).highlighted = sel - off
    <3>1. Screen(height).highlighted = IF sel = None \/ sel < off THEN None ELSE sel - off
      BY DEF Screen, draw
    <3>2. ~ (sel < off)
      BY <2>3, <2>4, <2>6
    <3> QED
      BY <2>5, <3>1, <3>2
  <2>9. sel - off \in 0 .. count - 1
    <3>1. CASE len =< room
      <4>1. off = 0
        BY <2>3, <2>4, <2>7, <3>1
      <4> QED
        BY <2>6, <3>1, <4>1
    <3>2. CASE ~ (len =< room)
      BY <2>1, <2>3, <2>4, <2>6, <3>2
    <3> QED
      BY <3>1, <3>2
  <2>10. /\ locate \in Registered(handler.registry)
         /\ SymbolAt(b, sel).symbol = handler.registry.entries[locate].symbol
    <3>1. SymbolAt(b, sel) \in Table(handler)
      BY <2>2, <2>3, <2>4, <2>6, ListShows
    <3> QED
      BY <2>2, <2>3, <2>5, <3>1, TablesSorted
  <2>11. shown[(sel - off) + 1] = RowOf(handler.registry.entries[locate])
    <3>1. (sel - off) + 1 \in 1 .. count /\ off + ((sel - off) + 1) - 1 = sel
      BY <2>3, <2>4, <2>6, <2>7, <2>9
    <3>2. shown[(sel - off) + 1] = RowOf(FullEntry(handler, locate))
      <4> HIDE DEF shown, count, off, sel, locate, b
      <4> QED
        BY <2>3, <2>5, <2>7, <3>1
    <3>3. RowOf(FullEntry(handler, locate)) = RowOf(handler.registry.entries[locate])
      BY DEF RowOf, FullEntry
    <3> QED
      BY <3>2, <3>3
  <2>12. Screen(height).depth_of = SymbolAt(b, sel).symbol
    BY <2>5 DEF Screen, draw
  <2> HIDE DEF shown, count, off, sel
  <2> QED
    BY <2>7, <2>8, <2>9, <2>10, <2>11, <2>12 DEF shown
<1> QED
  BY <1>1, TuiInvariance, PTL

-----------------------------------------------------------------------------
(* The ladder.                                                             *)

\* Levels, or rows, of different prices.
IsLevels(L) ==
    /\ IsFiniteSet(L)
    /\ \A x \in L : x.price \in Int
    /\ \A x, y \in L : x.price = y.price => x = y

Higher(L) == {xy \in L \X L : xy[1].price > xy[2].price}
Cheaper(L) == {xy \in L \X L : xy[1].price < xy[2].price}

\* Levels have different prices, so sorting by price lists them all.
LEMMA LevelsByPrice ==
  ASSUME NEW L, IsLevels(L)
  PROVE  /\ StrictOrder(Higher(L), L) /\ StrictOrder(Cheaper(L), L)
         /\ HighToLow(L) = Sorted(L, Higher(L)) /\ Lists(HighToLow(L), L, Higher(L))
         /\ LowToHigh(L) = Sorted(L, Cheaper(L)) /\ Lists(LowToHigh(L), L, Cheaper(L))
<1>1. \A x, y \in L : /\ <<x, y>> \in Higher(L) <=> x.price > y.price
                      /\ <<x, y>> \in Cheaper(L) <=> x.price < y.price
  BY DEF Higher, Cheaper
<1>2. StrictOrder(Higher(L), L)
  BY <1>1 DEF StrictOrder, IsLevels
<1>3. StrictOrder(Cheaper(L), L)
  BY <1>1 DEF StrictOrder, IsLevels
<1>4. HighToLow(L) = Sorted(L, Higher(L)) /\ LowToHigh(L) = Sorted(L, Cheaper(L))
  BY DEF HighToLow, LowToHigh, Higher, Cheaper
<1> QED
  BY <1>2, <1>3, <1>4, SortedList DEF IsLevels

\* take(n) of a sequence: its first members, at most n.
LEMMA TakeFirst ==
  ASSUME NEW S, NEW s \in Seq(S), NEW n \in Nat
  PROVE  LET count == IF n =< Len(s) THEN n ELSE Len(s) IN
         /\ Take(s, n) \in Seq(S) /\ Len(Take(s, n)) = count
         /\ \A i \in 1 .. count : Take(s, n)[i] = s[i]
<1> DEFINE count == IF n =< Len(s) THEN n ELSE Len(s)
<1>1. Len(s) \in Nat /\ count \in Nat /\ count =< Len(s)
  OBVIOUS
<1>2. Take(s, n) = SubSeq(s, 1, count)
  <2>1. Min({n, Len(s)}) = count
    BY <1>1, MinOfTwo
  <2> QED
    BY <2>1 DEF Take
<1> HIDE DEF count
<1>3. SubSeq(s, 1, count) \in Seq(S) /\ Len(SubSeq(s, 1, count)) = count
  BY <1>1
<1>4. ASSUME NEW i \in 1 .. count PROVE SubSeq(s, 1, count)[i] = s[i]
  BY <1>1
<1> QED
  BY <1>2, <1>3, <1>4 DEF count

\* The levels of a book's side have different prices.
LEMMA SideOfBook ==
  ASSUME NEW b, IsBook(b), NEW side
  PROVE  IsLevels(SideLevels(b, side))
<1> DEFINE I == {x \in DOMAIN b : b[x].side = side}
           f == [id \in I |-> b[id].price]
           P == {f[id] : id \in I}
           g == [p \in P |-> [price |-> p, qty |-> TotalQty(b, side, p)]]
<1>1. IsFiniteSet(I) /\ \A id \in I : f[id] \in Int
  <2>1. IsFiniteSet(DOMAIN b) /\ I \in SUBSET DOMAIN b /\ \A id \in DOMAIN b : b[id].price \in Int
    BY DEF IsBook, IsOrder
  <2>2. IsFiniteSet(I)
    BY <2>1, FS_Subset
  <2> QED
    BY <2>1, <2>2
<1>2. SideLevels(b, side) = {g[p] : p \in P}
  <2>1. {b[id].price : id \in I} = P
    OBVIOUS
  <2>2. SideLevels(b, side) =
           {[price |-> p, qty |-> TotalQty(b, side, p)] : p \in {b[id].price : id \in I}}
    BY DEF SideLevels
  <2> HIDE DEF P, I
  <2> QED
    BY <2>1, <2>2
<1> HIDE DEF I, f
<1>3. IsFiniteSet(P) /\ P \subseteq Int
  BY <1>1, ImageFinite
<1> HIDE DEF P
<1>4. \A p \in P : g[p].price = p
  OBVIOUS
<1> HIDE DEF g
<1>5. IsFiniteSet({g[p] : p \in P})
  BY <1>3, ImageFinite
<1> QED
  BY <1>2, <1>3, <1>4, <1>5 DEF IsLevels

LadderPrices(depth) == {level.price : level \in ToSet(depth.bids) \cup ToSet(depth.asks)}

LadderRow(depth, p) ==
    [price |-> p, bid |-> LevelAt(depth.bids, p), ask |-> LevelAt(depth.asks, p)]

LadderSet(depth) == {LadderRow(depth, p) : p \in LadderPrices(depth)}

\* The rows before they are cut.
LEMMA LadderRows ==
  ASSUME NEW B, NEW A, \A x \in B \cup A : x.price \in Int,
         NEW depth, depth.bids \in Seq(B), depth.asks \in Seq(A)
  PROVE  /\ IsLevels(LadderSet(depth))
         /\ \A p \in LadderPrices(depth) :
               \/ \E i \in 1 .. Len(depth.bids) : depth.bids[i].price = p
               \/ \E i \in 1 .. Len(depth.asks) : depth.asks[i].price = p
         /\ \A i \in 1 .. Len(depth.bids) : depth.bids[i].price \in LadderPrices(depth)
         /\ \A i \in 1 .. Len(depth.asks) : depth.asks[i].price \in LadderPrices(depth)
<1> DEFINE bids == depth.bids
           asks == depth.asks
           P == LadderPrices(depth)
           nb == Len(bids)
           na == Len(asks)
           f == [i \in 1 .. nb |-> bids[i].price]
           g == [i \in 1 .. na |-> asks[i].price]
           r == [p \in P |-> LadderRow(depth, p)]
<1>1. /\ nb \in Nat /\ na \in Nat /\ DOMAIN bids = 1 .. nb /\ DOMAIN asks = 1 .. na
      /\ \A i \in 1 .. nb : bids[i].price \in Int
      /\ \A i \in 1 .. na : asks[i].price \in Int
  OBVIOUS
<1>2. P = {f[i] : i \in 1 .. nb} \cup {g[i] : i \in 1 .. na}
  <2>1. /\ \A x : x \in ToSet(bids) <=> \E i \in 1 .. nb : x = bids[i]
        /\ \A x : x \in ToSet(asks) <=> \E i \in 1 .. na : x = asks[i]
    <3> HIDE DEF bids, asks, nb, na
    <3> QED
      BY <1>1 DEF ToSet
  <2>2. P = {x.price : x \in ToSet(bids) \cup ToSet(asks)}
    BY DEF LadderPrices
  <2>3. /\ \A i \in 1 .. nb : f[i] = bids[i].price
        /\ \A i \in 1 .. na : g[i] = asks[i].price
    OBVIOUS
  <2> HIDE DEF P, bids, asks, nb, na, f, g
  <2> QED
    BY <2>1, <2>2, <2>3
<1>3. \A p \in P : r[p] = LadderRow(depth, p) /\ r[p].price = p
  BY DEF LadderRow
<1>4. LadderSet(depth) = {r[p] : p \in P}
  BY DEF LadderSet
<1> HIDE DEF P, r
<1>5. IsFiniteSet(P) /\ P \subseteq Int
  <2>1. IsFiniteSet(1 .. nb) /\ IsFiniteSet(1 .. na)
    BY <1>1, FS_Interval
  <2>2. IsFiniteSet({f[i] : i \in 1 .. nb}) /\ IsFiniteSet({g[i] : i \in 1 .. na})
    <3> HIDE DEF f, g
    <3> QED
      BY <2>1, ImageFinite
  <2>3. IsFiniteSet(P)
    <3> HIDE DEF f, g
    <3> QED
      BY <1>2, <2>2, FS_Union
  <2> QED
    BY <1>1, <1>2, <2>3
<1>6. IsFiniteSet({r[p] : p \in P})
  BY <1>5, ImageFinite
<1>7. IsLevels(LadderSet(depth))
  BY <1>3, <1>4, <1>5, <1>6 DEF IsLevels
<1>8. /\ \A p \in P : \/ \E i \in 1 .. nb : bids[i].price = p
                     \/ \E i \in 1 .. na : asks[i].price = p
      /\ \A i \in 1 .. nb : bids[i].price \in P
      /\ \A i \in 1 .. na : asks[i].price \in P
  BY <1>2
<1> QED
  BY <1>7, <1>8 DEF P

\* build_ladder merges both sides, sorts them and cuts them to the rows.
LEMMA LadderIsCut ==
  ASSUME NEW depth, NEW rows
  PROVE  build_ladder(depth, rows) = Take(HighToLow(LadderSet(depth)), rows)
BY DEF build_ladder, LadderSet, LadderPrices, LadderRow

\* The only level of a side at its best price is the best one.
LEMMA OneLevel ==
  ASSUME NEW L, IsLevels(L), NEW s \in Seq(L), Len(s) >= 1
  PROVE  LevelAt(s, s[1].price) = {s[1].qty}
<1>1. Len(s) \in Nat /\ DOMAIN s = 1 .. Len(s) /\ 1 \in 1 .. Len(s)
      /\ \A i \in 1 .. Len(s) : s[i] \in L
  OBVIOUS
<1>2. \A x : x \in ToSet(s) <=> \E i \in 1 .. Len(s) : x = s[i]
  BY <1>1 DEF ToSet
<1>3. {x \in ToSet(s) : x.price = s[1].price} = {s[1]}
  BY <1>1, <1>2 DEF IsLevels
<1> QED
  BY <1>3 DEF LevelAt

\* A ladder that has a row for the first level of either side.
TouchRows(ladder, bid, ask) ==
  /\ \E n \in DOMAIN ladder : ladder[n].price = bid.price /\ ladder[n].bid = {bid.qty}
  /\ \E n \in DOMAIN ladder : ladder[n].price = ask.price /\ ladder[n].ask = {ask.qty}

\* At least as many rows as a side has levels in the depth, and one more: a row
\* that no bid is above is among those shown.
LEMMA TouchShown ==
  ASSUME NEW B, IsLevels(B), NEW A, IsLevels(A),
         NEW rows \in Nat, NEW k \in Nat, k >= 1, k + 1 =< rows,
         HighToLow(B) # <<>>, LowToHigh(A) # <<>>,
         HighToLow(B)[1].price < LowToHigh(A)[1].price,
         NEW depth, depth.bids = Take(HighToLow(B), k), depth.asks = Take(LowToHigh(A), k)
  PROVE  TouchRows(build_ladder(depth, rows), HighToLow(B)[1], LowToHigh(A)[1])
<1> DEFINE hb == HighToLow(B)
           la == LowToHigh(A)
           bids == Take(hb, k)
           asks == Take(la, k)
           na == Len(asks)
           S == LadderSet(depth)
           list == HighToLow(S)
           f == [j \in 1 .. na |-> LadderRow(depth, asks[j].price)]
           ladder == build_ladder(depth, rows)
<1>1. k \in Nat /\ k >= 1 /\ k + 1 =< rows
  OBVIOUS
<1>2. /\ Lists(hb, B, Higher(B)) /\ Lists(la, A, Cheaper(A))
      /\ hb \in Seq(B) /\ la \in Seq(A)
  BY LevelsByPrice DEF Lists
<1>3. /\ Len(hb) \in Nat /\ Len(hb) >= 1 /\ Len(la) \in Nat /\ Len(la) >= 1
      /\ \A i \in 1 .. Len(hb) : hb[i] \in B /\ hb[i].price \in Int
      /\ \A i \in 1 .. Len(la) : la[i] \in A /\ la[i].price \in Int
  <2> HIDE DEF hb, la
  <2>1. hb # <<>> /\ la # <<>>
    BY DEF hb, la
  <2> QED
    BY <1>2, <2>1 DEF IsLevels
<1>4. \A i \in 1 .. Len(hb) : hb[i].price =< hb[1].price
  <2> SUFFICES ASSUME NEW i \in 1 .. Len(hb), i # 1 PROVE hb[i].price =< hb[1].price
    BY <1>3
  <2>1. <<hb[1], hb[i]>> \in Higher(B)
    <3> HIDE DEF hb
    <3>1. 1 \in 1 .. Len(hb) /\ 1 < i
      BY <1>3
    <3> QED
      BY <1>2, <3>1 DEF Lists
  <2>2. hb[1].price > hb[i].price
    BY <2>1 DEF Higher
  <2> QED
    BY <1>3, <2>2
<1>5. /\ bids \in Seq(B) /\ Len(bids) = (IF k =< Len(hb) THEN k ELSE Len(hb))
      /\ \A i \in 1 .. Len(bids) : i \in 1 .. Len(hb) /\ bids[i] = hb[i]
  <2> HIDE DEF hb
  <2> QED
    BY <1>1, <1>2, <1>3, TakeFirst
<1>6. /\ asks \in Seq(A) /\ na = (IF k =< Len(la) THEN k ELSE Len(la))
      /\ \A i \in 1 .. na : i \in 1 .. Len(la) /\ asks[i] = la[i]
  <2> HIDE DEF la
  <2> QED
    BY <1>1, <1>2, <1>3, TakeFirst
<1> HIDE DEF hb, la
<1>7. depth.bids = bids /\ depth.asks = asks
  BY DEF hb, la
<1>8. /\ Len(bids) >= 1 /\ 1 \in 1 .. Len(bids) /\ na \in Nat /\ 1 \in 1 .. na /\ na =< k
      /\ bids[1] = hb[1] /\ asks[1] = la[1]
  BY <1>1, <1>3, <1>5, <1>6
<1> HIDE DEF bids, asks, na
<1>9. /\ IsLevels(S)
      /\ \A p \in LadderPrices(depth) : \/ \E i \in 1 .. Len(bids) : bids[i].price = p
                                       \/ \E i \in 1 .. na : asks[i].price = p
      /\ hb[1].price \in LadderPrices(depth) /\ la[1].price \in LadderPrices(depth)
  <2>1. \A x \in B \cup A : x.price \in Int
    BY DEF IsLevels
  <2>2. depth.bids \in Seq(B) /\ depth.asks \in Seq(A)
    BY <1>5, <1>6, <1>7
  <2>3. /\ IsLevels(LadderSet(depth))
        /\ \A p \in LadderPrices(depth) :
              \/ \E i \in 1 .. Len(depth.bids) : depth.bids[i].price = p
              \/ \E i \in 1 .. Len(depth.asks) : depth.asks[i].price = p
        /\ \A i \in 1 .. Len(depth.bids) : depth.bids[i].price \in LadderPrices(depth)
        /\ \A i \in 1 .. Len(depth.asks) : depth.asks[i].price \in LadderPrices(depth)
    BY ONLY <2>1, <2>2, LadderRows
  <2>4. na = Len(asks)
    BY DEF na
  <2> QED
    BY ONLY <1>7, <1>8, <2>3, <2>4
<1>10. /\ list = Sorted(S, Higher(S)) /\ Lists(list, S, Higher(S)) /\ list \in Seq(S)
       /\ StrictOrder(Higher(S), S) /\ IsFiniteSet(S) /\ Len(list) \in Nat
       /\ Len(list) = Cardinality(S)
       /\ \A n \in 1 .. Len(list) : Cardinality(Lower(S, Higher(S), list[n])) = n - 1
  <2> HIDE DEF S
  <2>1. /\ list = Sorted(S, Higher(S)) /\ Lists(list, S, Higher(S))
        /\ StrictOrder(Higher(S), S) /\ IsFiniteSet(S)
    BY <1>9, LevelsByPrice DEF IsLevels
  <2> HIDE DEF list
  <2>2. list \in Seq(S) /\ Len(list) \in Nat
    BY <2>1 DEF Lists
  <2>3. /\ Len(list) = Cardinality(S)
        /\ \A n \in 1 .. Cardinality(S) : Cardinality(Lower(S, Higher(S), list[n])) = n - 1
    BY <2>1, SortedList
  <2> QED
    BY <2>1, <2>2, <2>3
<1>11. ladder = Take(list, rows)
  BY LadderIsCut
<1> HIDE DEF ladder
<1>12. ASSUME NEW p \in LadderPrices(depth), p >= hb[1].price, p \in Int
       PROVE  \E n \in DOMAIN ladder : ladder[n] = LadderRow(depth, p)
  <2> DEFINE r == LadderRow(depth, p)
             low == Lower(S, Higher(S), r)
  <2>1. r \in S /\ r.price = p
    BY DEF LadderSet, LadderRow
  <2>2. ASSUME NEW x \in low PROVE \E j \in 1 .. na : f[j] = x
    <3>1. x \in S /\ x.price > p
      BY <2>1 DEF Lower, Higher
    <3>2. PICK q \in LadderPrices(depth) : x = LadderRow(depth, q)
      BY <3>1 DEF LadderSet
    <3>3. x.price = q
      BY <3>2 DEF LadderRow
    <3>4. ~ \E i \in 1 .. Len(bids) : bids[i].price = q
      <4> SUFFICES ASSUME NEW i \in 1 .. Len(bids), bids[i].price = q PROVE FALSE
        OBVIOUS
      <4>1. i \in 1 .. Len(hb) /\ q = hb[i].price
        BY <1>5
      <4>2. q =< hb[1].price /\ hb[1].price \in Int /\ q \in Int
        BY <1>3, <1>4, <4>1
      <4>3. q > p
        BY <3>1, <3>3
      <4> QED
        BY <1>12, <4>2, <4>3
    <3>5. PICK j \in 1 .. na : asks[j].price = q
      BY <1>9, <3>4
    <3> QED
      BY <3>2, <3>5
  <2>3. IsFiniteSet(low) /\ Cardinality(low) \in Nat /\ Cardinality(low) =< na
    <3> DEFINE T == {f[j] : j \in 1 .. na}
    <3>1. f \in Surjection(1 .. na, T)
      BY DEF Surjection
    <3> HIDE DEF f
    <3>2. ExistsSurjection(1 .. na, T)
      BY <3>1 DEF ExistsSurjection
    <3>3. IsFiniteSet(1 .. na)
      BY <1>8, FS_Interval
    <3>4. IsFiniteSet(T) /\ Cardinality(T) =< na
      BY <1>8, <3>2, <3>3, FS_SurjCardinalityBound, ImageFinite
    <3>5. low \in SUBSET T
      BY <2>2
    <3>6. IsFiniteSet(low) /\ Cardinality(low) =< Cardinality(T)
      BY <3>4, <3>5, FS_Subset
    <3>7. Cardinality(low) \in Nat /\ Cardinality(T) \in Nat
      BY <3>4, <3>6, FS_CardinalityType
    <3> QED
      BY <1>8, <3>4, <3>6, <3>7
  <2> HIDE DEF S, list, r
  <2>4. PICK n \in 1 .. Len(list) : list[n] = r
    BY <1>10, <2>1 DEF Lists
  <2>5. Cardinality(low) = n - 1
    BY <1>10, <2>4
  <2>6. n =< rows
    <3> HIDE DEF low
    <3> QED
      BY <1>1, <1>8, <1>10, <2>3, <2>5
  <2> DEFINE count == IF rows =< Len(list) THEN rows ELSE Len(list)
  <2>7. /\ ladder \in Seq(S) /\ Len(ladder) = count
        /\ \A i \in 1 .. count : ladder[i] = list[i]
    <3>1. /\ Take(list, rows) \in Seq(S) /\ Len(Take(list, rows)) = count
          /\ \A i \in 1 .. count : Take(list, rows)[i] = list[i]
      <4>1. list \in Seq(S) /\ rows \in Nat
        BY <1>10
      <4> QED
        BY ONLY <4>1, TakeFirst
    <3> QED
      BY ONLY <1>11, <3>1
  <2>8. n \in 1 .. count
    BY <1>10, <2>6
  <2>9. n \in DOMAIN ladder /\ ladder[n] = r
    BY <2>4, <2>7, <2>8
  <2> QED
    BY <2>9 DEF r
<1>13. /\ LadderRow(depth, hb[1].price).price = hb[1].price
       /\ LadderRow(depth, hb[1].price).bid = {hb[1].qty}
  <2>1. LevelAt(bids, bids[1].price) = {bids[1].qty}
    BY <1>5, <1>8, OneLevel
  <2> QED
    BY <1>7, <1>8, <2>1 DEF LadderRow
<1>14. /\ LadderRow(depth, la[1].price).price = la[1].price
       /\ LadderRow(depth, la[1].price).ask = {la[1].qty}
  <2>1. LevelAt(asks, asks[1].price) = {asks[1].qty}
    <3>1. Len(asks) >= 1 /\ asks \in Seq(A)
      BY <1>6, <1>8 DEF na
    <3> QED
      BY ONLY IsLevels(A), <3>1, OneLevel
  <2> QED
    BY <1>7, <1>8, <2>1 DEF LadderRow
<1>15. /\ hb[1].price \in Int /\ la[1].price \in Int
       /\ hb[1].price >= hb[1].price /\ la[1].price >= hb[1].price
  <2>1. hb[1].price < la[1].price
    BY DEF hb, la
  <2> QED
    BY <1>3, <2>1
<1>16. /\ \E n \in DOMAIN ladder : ladder[n] = LadderRow(depth, hb[1].price)
       /\ \E n \in DOMAIN ladder : ladder[n] = LadderRow(depth, la[1].price)
  BY <1>9, <1>12, <1>15
<1> QED
  BY <1>13, <1>14, <1>16 DEF hb, la, ladder, TouchRows

\* build_ladder cuts the merged levels to the height of the panel: the rows it
\* keeps include both touch prices of a book that is not crossed.
THEOREM LadderShowsTouchHolds == Spec => []LadderShowsTouch
<1>1. TuiInv => LadderShowsTouch
  <2> SUFFICES ASSUME TuiInv, NEW height \in Heights
               PROVE  LET screen == Screen(height)
                          locate == Refreshed(height).selected_locate
                          top == Depth(handler.registry.entries[locate].book, 1)
                          Rows(price) ==
                            {screen.ladder[n] : n \in {i \in DOMAIN screen.ladder :
                                                          screen.ladder[i].price = price}}
                      IN /\ Len(screen.ladder) <= screen.viewport.ladder_rows
                         /\ (/\ screen.viewport.ladder_rows >= 2 /\ locate # None
                             /\ top.bids # <<>> /\ top.asks # <<>>
                             /\ top.bids[1].price < top.asks[1].price)
                            => /\ \E row \in Rows(top.bids[1].price) :
                                    row.bid = {top.bids[1].qty}
                               /\ \E row \in Rows(top.asks[1].price) :
                                    row.ask = {top.asks[1].qty}
    BY DEF LadderShowsTouch
  <2> DEFINE v == viewport_for(height)
             rows == v.ladder_rows
             b == Refreshed(height)
             locate == b.selected_locate
             book == handler.registry.entries[locate].book
             top == Depth(book, 1)
             k == (rows + 1) \div 2
             depth == ladder_depth(b, rows, handler)
             ladder == build_ladder(depth, rows)
             B == SideLevels(book, "Bid")
             A == SideLevels(book, "Ask")
  <2>1. rows \in Nat /\ v.list_height \in Nat
    BY ViewportType, TuiAssumption
  <2>2. Screen(height).ladder = ladder /\ Screen(height).viewport = v
    BY DEF Screen, draw
  <2>3. IsHandler(handler) /\ app \in AppType /\ Cached(app, handler)
    BY DEF TuiInv
  <2>4. /\ b \in AppType /\ b.symbols = SortEntries(Table(handler))
        /\ b.filtered = Ascending(Hits(b.symbols, app.filter))
        /\ b.selected = None \/ b.selected \in Positions(b)
        /\ b.selected # None => locate = SymbolAt(b, b.selected).locate
        /\ b.selected = None => locate = None
    BY <2>1, <2>3, RefreshFacts DEF Refreshed
  <2>5. locate # None => IsLevels(B) /\ IsLevels(A)
    <3> SUFFICES ASSUME locate # None PROVE IsLevels(B) /\ IsLevels(A)
      OBVIOUS
    <3>1. SymbolAt(b, b.selected) \in Table(handler) /\ locate = SymbolAt(b, b.selected).locate
      BY <2>3, <2>4, ListShows
    <3>2. locate \in Registered(handler.registry)
      BY <2>3, <3>1, TablesSorted
    <3>3. IsBook(book)
      BY <2>3, <3>2 DEF IsHandler, IsRegistry, IsEntry, Registered
    <3> QED
      BY <3>3, SideOfBook
  <2>6. depth = IF locate = None \/ rows = 0 THEN [bids |-> <<>>, asks |-> <<>>]
                ELSE [bids |-> Take(HighToLow(B), k), asks |-> Take(LowToHigh(A), k)]
    BY DEF ladder_depth, Depth
  <2>7. k \in Nat
    BY <2>1
  <2> HIDE DEF v, rows, b, book, k, depth
  <2>8. \E X, Y : /\ \A x \in X \cup Y : x.price \in Int
                  /\ depth.bids \in Seq(X) /\ depth.asks \in Seq(Y)
    <3>1. CASE locate = None \/ rows = 0
      <4>1. depth.bids = <<>> /\ depth.asks = <<>>
        BY <2>6, <3>1
      <4>2. <<>> \in Seq({}) /\ \A x \in {} \cup {} : x.price \in Int
        OBVIOUS
      <4> QED
        BY <4>1, <4>2
    <3>2. CASE locate # None /\ rows # 0
      <4> HIDE DEF B, A
      <4>1. depth.bids = Take(HighToLow(B), k) /\ depth.asks = Take(LowToHigh(A), k)
        BY <2>6, <3>2
      <4>2. HighToLow(B) \in Seq(B) /\ LowToHigh(A) \in Seq(A)
        BY <2>5, <3>2, LevelsByPrice DEF Lists
      <4>3. Take(HighToLow(B), k) \in Seq(B) /\ Take(LowToHigh(A), k) \in Seq(A)
        BY <2>7, <4>2, TakeFirst
      <4>4. \A x \in B \cup A : x.price \in Int
        BY <2>5, <3>2 DEF IsLevels
      <4> QED
        BY <4>1, <4>3, <4>4
    <3> QED
      BY <3>1, <3>2
  <2>9. Len(ladder) =< rows
    <3>1. IsLevels(LadderSet(depth))
      BY <2>8, LadderRows
    <3> DEFINE L == LadderSet(depth)
    <3> HIDE DEF L
    <3>2. HighToLow(L) \in Seq(L)
      BY <3>1, LevelsByPrice DEF Lists, L
    <3>3. ladder = Take(HighToLow(L), rows)
      BY LadderIsCut DEF L
    <3>4. Len(ladder) = IF rows =< Len(HighToLow(L)) THEN rows ELSE Len(HighToLow(L))
      <4> HIDE DEF ladder
      <4> QED
        BY <2>1, <3>2, <3>3, TakeFirst
    <3>5. Len(HighToLow(L)) \in Nat
      BY <3>2
    <3> QED
      BY <2>1, <3>4, <3>5
  <2>10. ASSUME rows >= 2, locate # None, top.bids # <<>>, top.asks # <<>>,
                top.bids[1].price < top.asks[1].price
         PROVE  /\ \E n \in DOMAIN ladder : /\ ladder[n].price = top.bids[1].price
                                           /\ ladder[n].bid = {top.bids[1].qty}
                /\ \E n \in DOMAIN ladder : /\ ladder[n].price = top.asks[1].price
                                           /\ ladder[n].ask = {top.asks[1].qty}
    <3> HIDE DEF ladder
    <3>1. top.bids = Take(HighToLow(B), 1) /\ top.asks = Take(LowToHigh(A), 1)
      BY DEF Depth
    <3>2. IsLevels(B) /\ IsLevels(A)
      BY <2>5, <2>10
    <3> HIDE DEF B, A, top
    <3>3. HighToLow(B) \in Seq(B) /\ LowToHigh(A) \in Seq(A)
      BY <3>2, LevelsByPrice DEF Lists
    <3>4. ASSUME NEW S, NEW s \in Seq(S), Take(s, 1) # <<>>
          PROVE  s # <<>> /\ Take(s, 1)[1] = s[1]
      <4>1. /\ Take(s, 1) \in Seq(S)
            /\ Len(Take(s, 1)) = IF 1 =< Len(s) THEN 1 ELSE Len(s)
            /\ \A i \in 1 .. (IF 1 =< Len(s) THEN 1 ELSE Len(s)) : Take(s, 1)[i] = s[i]
        BY TakeFirst
      <4>2. 1 =< Len(s)
        BY <3>4, <4>1
      <4> QED
        BY <4>1, <4>2
    <3>5. /\ HighToLow(B) # <<>> /\ top.bids[1] = HighToLow(B)[1]
          /\ LowToHigh(A) # <<>> /\ top.asks[1] = LowToHigh(A)[1]
      BY <2>10, <3>1, <3>3, <3>4
    <3>6. depth = [bids |-> Take(HighToLow(B), k), asks |-> Take(LowToHigh(A), k)]
      BY <2>1, <2>6, <2>10
    <3>7. HighToLow(B)[1].price < LowToHigh(A)[1].price
      BY <2>10, <3>5
    <3>8. TouchRows(ladder, HighToLow(B)[1], LowToHigh(A)[1])
      <4>1. ladder = build_ladder(depth, rows)
        BY DEF ladder
      <4>2. k \in Nat /\ k >= 1 /\ k + 1 =< rows /\ rows \in Nat
        BY <2>1, <2>10 DEF k
      <4>3. depth.bids = Take(HighToLow(B), k) /\ depth.asks = Take(LowToHigh(A), k)
        BY <3>6
      <4> QED
        BY ONLY <3>2, <3>5, <3>7, <4>1, <4>2, <4>3, TouchShown
    <3> QED
      BY <3>5, <3>8 DEF TouchRows
  <2> HIDE DEF ladder, top, locate
  <2> QED
    BY <2>2, <2>9, <2>10 DEF v, rows, top, locate, b, book
<1> QED
  BY <1>1, TuiInvariance, PTL
=============================================================================
