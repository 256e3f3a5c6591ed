-------------------------- MODULE NgnBalanceProofs --------------------------
(****************************************************************************)
(* Lemmas about NgnBalance, for any items, prices and deposit, that the     *)
(* proofs about purchases and cash-outs rest on.                            *)
(****************************************************************************)
EXTENDS NgnBalance, SumLemmas

\* The least and the greatest of a few numbers.
LEMMA MinOfThree ==
  ASSUME NEW x \in Int, NEW y \in Int, NEW z \in Int
  PROVE  /\ Min({x, y, z}) \in {x, y, z}
         /\ Min({x, y, z}) <= x /\ Min({x, y, z}) <= y /\ Min({x, y, z}) <= z
<1>1. \E m \in {x, y, z} : \A n \in {x, y, z} : m <= n
  OBVIOUS
<1> QED
  BY <1>1 DEF Min

LEMMA MaxOfTwo ==
  ASSUME NEW x \in Int
  PROVE  Max({0, x}) \in Nat
<1>1. \E m \in {0, x} : \A n \in {0, x} : m >= n
  OBVIOUS
<1>2. Max({0, x}) \in {0, x} /\ Max({0, x}) >= 0
  BY <1>1 DEF Max
<1> QED
  BY <1>2

\* A turn of the loop keeps the sums well typed and touches no entry.
LEMMA AddedType ==
  ASSUME NEW b \in Books, NEW i \in Item, NEW kind \in Kind
  PROVE  Added(b, i, kind) \in Books /\ Added(b, i, kind).posted = b.posted
<1> DEFINE p == Price[i]
           drawn == Min({b.own[i], b.held, p})
           less == Max({0, b.held - p})
           rest == Max({0, b.own[i] - p})
<1>1. p \in Nat /\ b.own[i] \in Nat /\ b.held \in Nat /\ b.taken[i] \in Int
  BY BalanceAssumption DEF Books
<1>2. drawn \in Int /\ 0 <= drawn /\ drawn <= b.own[i] /\ drawn <= b.held
  <2> HIDE DEF p
  <2>1. p \in Int /\ b.own[i] \in Int /\ b.held \in Int
    BY <1>1
  <2>2. /\ drawn \in {b.own[i], b.held, p}
        /\ drawn <= b.own[i] /\ drawn <= b.held
    BY <2>1, MinOfThree, Zenon
  <2> HIDE DEF drawn
  <2> QED
    BY <1>1, <2>2
<1>3. less \in Nat /\ rest \in Nat
  <2>1. b.held - p \in Int /\ b.own[i] - p \in Int
    BY <1>1
  <2> QED
    BY <2>1, MaxOfTwo
<1>4. Added(b, i, kind) =
        CASE kind = "hold" -> [b EXCEPT !.taken[i] = @ + p, !.held = @ + p, !.own[i] = @ + p]
          [] kind = "hold_release" -> [b EXCEPT !.taken[i] = @ - p, !.held = less, !.own[i] = rest]
          [] kind = "debit_transfer" ->
               [b EXCEPT !.taken[i] = @ + (p - drawn), !.held = @ - drawn, !.own[i] = @ - drawn]
          [] OTHER -> [b EXCEPT !.taken[i] = @ - p]
  BY Zenon DEF Added
<1> HIDE DEF drawn, less, rest, p
<1> DEFINE Shape(taken, held, own) == [taken |-> [b.taken EXCEPT ![i] = taken], held |-> held,
                                        own |-> [b.own EXCEPT ![i] = own], posted |-> b.posted]
<1>5. ASSUME NEW taken \in Int, NEW held \in Nat, NEW own \in Nat
      PROVE  Shape(taken, held, own) \in Books /\ Shape(taken, held, own).posted = b.posted
  BY DEF Books
<1>6. CASE kind = "hold"
  <2>1. Added(b, i, kind) = Shape(b.taken[i] + p, b.held + p, b.own[i] + p)
    BY <1>4, <1>6 DEF Books
  <2> QED
    BY <1>1, <1>5, <2>1
<1>7. CASE kind = "hold_release"
  <2>1. Added(b, i, kind) = Shape(b.taken[i] - p, less, rest)
    BY <1>4, <1>7 DEF Books
  <2> QED
    BY <1>1, <1>3, <1>5, <2>1
<1>8. CASE kind = "debit_transfer"
  <2>1. Added(b, i, kind) = Shape(b.taken[i] + (p - drawn), b.held - drawn, b.own[i] - drawn)
    BY <1>4, <1>8 DEF Books
  <2>2. b.held - drawn \in Nat /\ b.own[i] - drawn \in Nat /\ b.taken[i] + (p - drawn) \in Int
    BY <1>1, <1>2
  <2> QED
    BY <1>5, <2>1, <2>2
<1>9. CASE kind = "credit_available"
  BY <1>1, <1>4, <1>9 DEF Books
<1> QED
  BY <1>6, <1>7, <1>8, <1>9 DEF Kind

\* An entry is added to those there are.
LEMMA EntersType ==
  ASSUME book \in Books, NEW i \in Item, NEW kind \in Kind, Enters(i, kind)
  PROVE  book' \in Books /\ book'.posted = book.posted \cup {<<i, kind>>}
<1>1. Added(book, i, kind) \in Books /\ Added(book, i, kind).posted = book.posted
  BY AddedType
<1>2. <<i, kind>> \in Leg
  BY DEF Leg
<1> QED
  BY <1>1, <1>2 DEF Enters, Books

LEMMA PostsType ==
  ASSUME book \in Books, NEW i \in Item, NEW kind \in Kind, Posts(i, kind)
  PROVE  book' \in Books /\ book'.posted = book.posted \cup {<<i, kind>>}
<1>1. CASE <<i, kind>> \in book.posted
  BY <1>1 DEF Posts
<1>2. CASE <<i, kind>> \notin book.posted
  BY <1>2, EntersType DEF Posts
<1> QED
  BY <1>1, <1>2

\* An entry moves the account of its own item alone, whatever it draws on.
LEMMA EntryIsOfOne ==
  ASSUME book \in Books, NEW i \in Item, NEW kind \in Kind, Enters(i, kind), NEW j \in Item, j # i
  PROVE  /\ book'.taken[j] = book.taken[j] /\ book'.own[j] = book.own[j]
         /\ \A other : <<j, other>> \in book'.posted <=> <<j, other>> \in book.posted
<1>1. book'.posted = book.posted \cup {<<i, kind>>}
  BY EntersType
<1>2. \E taken, own : /\ book'.taken = [book.taken EXCEPT ![i] = taken]
                      /\ book'.own = [book.own EXCEPT ![i] = own] \/ book'.own = book.own
  <2> DEFINE p == Price[i]
             drawn == Min({book.own[i], book.held, p})
             less == Max({0, book.held - p})
             rest == Max({0, book.own[i] - p})
  <2>1. Added(book, i, kind) =
          CASE kind = "hold" -> [book EXCEPT !.taken[i] = @ + p, !.held = @ + p, !.own[i] = @ + p]
            [] kind = "hold_release" -> [book EXCEPT !.taken[i] = @ - p, !.held = less, !.own[i] = rest]
            [] kind = "debit_transfer" ->
                 [book EXCEPT !.taken[i] = @ + (p - drawn), !.held = @ - drawn, !.own[i] = @ - drawn]
            [] OTHER -> [book EXCEPT !.taken[i] = @ - p]
    BY Zenon DEF Added
  <2>2. book' = [Added(book, i, kind) EXCEPT !.posted = @ \cup {<<i, kind>>}]
    BY DEF Enters
  <2> HIDE DEF p, drawn, less, rest
  <2>3. CASE kind = "hold"
    <3>1. /\ book'.taken = [book.taken EXCEPT ![i] = book.taken[i] + p]
          /\ book'.own = [book.own EXCEPT ![i] = book.own[i] + p]
      BY <2>1, <2>2, <2>3 DEF Books
    <3> QED
      BY <3>1
  <2>4. CASE kind = "hold_release"
    <3>1. /\ book'.taken = [book.taken EXCEPT ![i] = book.taken[i] - p]
          /\ book'.own = [book.own EXCEPT ![i] = rest]
      BY <2>1, <2>2, <2>4 DEF Books
    <3> QED
      BY <3>1
  <2>5. CASE kind = "debit_transfer"
    <3>1. /\ book'.taken = [book.taken EXCEPT ![i] = book.taken[i] + (p - drawn)]
          /\ book'.own = [book.own EXCEPT ![i] = book.own[i] - drawn]
      BY <2>1, <2>2, <2>5 DEF Books
    <3> QED
      BY <3>1
  <2>6. CASE kind = "credit_available"
    BY <2>1, <2>2, <2>6 DEF Books
  <2> QED
    BY <2>3, <2>4, <2>5, <2>6 DEF Kind
<1> QED
  BY <1>1, <1>2 DEF Books

\* What it does to that account, whatever hold it draws on.
LEMMA EntryTakes ==
  ASSUME book \in Books, NEW i \in Item, NEW kind \in Kind, Enters(i, kind)
  PROVE  /\ kind = "hold" => book'.taken[i] = book.taken[i] + Price[i]
         /\ kind \in {"hold_release", "credit_available"} => book'.taken[i] = book.taken[i] - Price[i]
         /\ kind = "debit_transfer" => book'.taken[i] >= book.taken[i]
<1> DEFINE p == Price[i]
           drawn == Min({book.own[i], book.held, p})
<1>1. p \in Nat /\ book.own[i] \in Nat /\ book.held \in Nat /\ book.taken[i] \in Int
  BY BalanceAssumption DEF Books
<1>2. book'.taken = Added(book, i, kind).taken
  <2>1. Added(book, i, kind) \in Books
    BY AddedType
  <2> QED
    BY <2>1 DEF Enters, Books
<1>3. drawn \in Int /\ drawn <= p
  <2>1. p \in Int /\ book.own[i] \in Int /\ book.held \in Int
    BY <1>1
  <2> HIDE DEF p
  <2>2. drawn \in {book.own[i], book.held, p} /\ drawn <= p
    BY <2>1, MinOfThree, Zenon
  <2> HIDE DEF drawn
  <2> QED
    BY <1>1, <2>2
<1> HIDE DEF drawn
<1>4. CASE kind = "hold"
  <2>1. book'.taken = [book.taken EXCEPT ![i] = @ + p]
    BY <1>2, <1>4 DEF Added, Books
  <2> QED
    BY <1>4, <2>1 DEF Books
<1>5. CASE kind \in {"hold_release", "credit_available"}
  <2>1. book'.taken = [book.taken EXCEPT ![i] = @ - p]
    BY <1>2, <1>5 DEF Added, Books
  <2> QED
    BY <1>5, <2>1 DEF Books
<1>6. CASE kind = "debit_transfer"
  <2>1. book'.taken = [book.taken EXCEPT ![i] = @ + (p - drawn)]
    BY <1>2, <1>6 DEF Added, drawn, Books
  <2>2. book'.taken[i] = book.taken[i] + (p - drawn)
    BY <2>1 DEF Books
  <2> QED
    BY <1>1, <1>3, <1>6, <2>2
<1> QED
  BY <1>4, <1>5, <1>6 DEF Kind

\* The journal starts empty.
LEMMA BookInit == BalanceInit => BalanceTypeOK /\ book.posted = {}
BY DEF BalanceInit, NewBook, NewRecord, Books, Records, Reservation, BalanceTypeOK

------------------------------------------------------------------------------
\* The loop keeps one number for what is held and one for the hold of each item.
HoldsTracked == book.held = SumFunctionOnSet(book.own, Item)

\* Then every hold is covered by what is held.
LEMMA HeldCovers ==
  ASSUME book \in Books, HoldsTracked
  PROVE  \A i \in Item : book.own[i] <= book.held
BY BalanceAssumption, SumBounds DEF HoldsTracked, Books

\* What is held follows a change of the hold of one item.
LEMMA HeldFollows ==
  ASSUME book \in Books, HoldsTracked, NEW i \in Item, NEW n \in Nat,
         book'.own = [book.own EXCEPT ![i] = n],
         book'.held = book.held - book.own[i] + n
  PROVE  HoldsTracked'
<1> DEFINE f == book.own
           g == book'.own
<1>1. /\ \A j \in Item : f[j] \in Int /\ g[j] \in Int
      /\ \A j \in Item \ {i} : f[j] = g[j]
      /\ g[i] = n /\ IsFiniteSet(Item)
  BY BalanceAssumption DEF Books
<1>2. book'.held = SumFunctionOnSet(f, Item) - f[i] + g[i]
  BY <1>1 DEF HoldsTracked
<1> HIDE DEF f, g
<1>3. SumFunctionOnSet(g, Item) = SumFunctionOnSet(f, Item) - f[i] + g[i]
  BY <1>1, SumChange
<1> QED
  BY <1>2, <1>3 DEF HoldsTracked, g

\* A hold is taken and tracked.
LEMMA HoldEntry ==
  ASSUME book \in Books, HoldsTracked, NEW i \in Item, Enters(i, "hold")
  PROVE  /\ book'.taken = [book.taken EXCEPT ![i] = @ + Price[i]]
         /\ book'.own = [book.own EXCEPT ![i] = @ + Price[i]]
         /\ HoldsTracked'
<1> DEFINE n == book.own[i] + Price[i]
<1>1. Price[i] \in Nat /\ book.own[i] \in Nat /\ n \in Nat /\ book.held \in Nat
  BY BalanceAssumption DEF Books
<1>2. /\ book'.taken = [book.taken EXCEPT ![i] = @ + Price[i]]
      /\ book'.own = [book.own EXCEPT ![i] = n]
      /\ book'.held = book.held + Price[i]
  BY DEF Enters, Added, Books
<1>3. book'.held = book.held - book.own[i] + n
  BY <1>1, <1>2
<1> HIDE DEF n
<1>4. HoldsTracked'
  BY <1>1, <1>2, <1>3, HeldFollows
<1> QED
  BY <1>2, <1>4 DEF n

\* The release of a hold that is still whole gives all of it back, and draws on
\* no other.
LEMMA ReleaseEntry ==
  ASSUME book \in Books, HoldsTracked, NEW i \in Item, book.own[i] = Price[i],
         Enters(i, "hold_release")
  PROVE  /\ book'.taken = [book.taken EXCEPT ![i] = @ - Price[i]]
         /\ book'.own = [book.own EXCEPT ![i] = 0]
         /\ HoldsTracked'
<1>1. Price[i] \in Nat /\ book.own[i] \in Nat /\ book.held \in Nat /\ Price[i] <= book.held
  BY BalanceAssumption, HeldCovers DEF Books
<1>2. Max({0, book.own[i] - Price[i]}) = 0
  <2>1. book.own[i] - Price[i] = 0
    BY <1>1
  <2> QED
    BY <2>1 DEF Max
<1>3. Max({0, book.held - Price[i]}) = book.held - Price[i]
  <2> DEFINE rest == book.held - Price[i]
  <2>1. rest \in Int /\ 0 <= rest
    BY <1>1
  <2> HIDE DEF rest
  <2>2. Max({0, rest}) = rest
    BY <2>1 DEF Max
  <2> QED
    BY <2>2 DEF rest
<1>4. Added(book, i, "hold_release") =
        [book EXCEPT !.taken[i] = @ - Price[i], !.held = Max({0, @ - Price[i]}),
                     !.own[i] = Max({0, @ - Price[i]})]
  BY DEF Added
<1>5. /\ book'.taken = [book.taken EXCEPT ![i] = @ - Price[i]]
      /\ book'.own = [book.own EXCEPT ![i] = Max({0, book.own[i] - Price[i]})]
      /\ book'.held = Max({0, book.held - Price[i]})
  BY <1>4 DEF Enters, Books
<1>6. book'.own = [book.own EXCEPT ![i] = 0] /\ book'.held = book.held - book.own[i] + 0
  BY <1>1, <1>2, <1>3, <1>5
<1> QED
  BY <1>5, <1>6, HeldFollows

\* The debit of an item whose hold is whole draws on that hold alone: it takes
\* nothing more.
LEMMA DebitEntry ==
  ASSUME book \in Books, HoldsTracked, NEW i \in Item, book.own[i] = Price[i],
         Enters(i, "debit_transfer")
  PROVE  /\ book'.taken = book.taken
         /\ book'.own = [book.own EXCEPT ![i] = 0]
         /\ HoldsTracked'
<1> DEFINE p == Price[i]
           drawn == Min({book.own[i], book.held, p})
<1>1. p \in Nat /\ book.own[i] = p /\ book.held \in Nat /\ p <= book.held /\ book.taken[i] \in Int
  BY BalanceAssumption, HeldCovers DEF Books
<1>2. drawn = p
  <2>1. p \in Int /\ book.held \in Int /\ book.own[i] \in Int
    BY <1>1
  <2> HIDE DEF p
  <2>2. drawn \in {book.own[i], book.held, p} /\ drawn <= p
    BY <2>1, MinOfThree, Zenon
  <2> HIDE DEF drawn
  <2> QED
    BY <1>1, <2>2
<1>3. Added(book, i, "debit_transfer") =
        [book EXCEPT !.taken[i] = @ + (p - drawn), !.held = @ - drawn, !.own[i] = @ - drawn]
  BY Zenon DEF Added
<1> HIDE DEF drawn, p
<1>4. /\ book'.taken = [book.taken EXCEPT ![i] = @ + (p - p)]
      /\ book'.own = [book.own EXCEPT ![i] = @ - p]
      /\ book'.held = book.held - p
  BY <1>2, <1>3 DEF Enters, Books
<1>5. /\ book'.taken = book.taken
      /\ book'.own = [book.own EXCEPT ![i] = 0]
      /\ book'.held = book.held - book.own[i] + 0
  BY <1>1, <1>4 DEF Books
<1> QED
  BY <1>5, HeldFollows

\* A credit touches no hold.
LEMMA CreditEntry ==
  ASSUME book \in Books, HoldsTracked, NEW i \in Item, Enters(i, "credit_available")
  PROVE  /\ book'.taken = [book.taken EXCEPT ![i] = @ - Price[i]]
         /\ book'.own = book.own
         /\ HoldsTracked'
BY DEF Enters, Added, Books, HoldsTracked
=============================================================================
