----------------------------- MODULE ShelfProofs -----------------------------
(***************************************************************************)
(* What readers of the catalogue are shown, what happens to a book that    *)
(* was deleted, that rows refer to what there is and ISBNs are unique,     *)
(* that a slug opens one book, and what the queries compute.               *)
(***************************************************************************)
EXTENDS Bookshelf, SumFacts, FiniteSetTheorems, SequenceTheorems, TLAPS

(* --------------------------------- Lists -------------------------------- *)

Below(S, R, x) == {y \in S : <<y, x>> \in R}

IsOrder(R, S) ==
    /\ \A x \in S : <<x, x>> \notin R
    /\ \A x, y, z \in S : <<x, y>> \in R /\ <<y, z>> \in R => <<x, z>> \in R
    /\ \A x, y \in S : x # y => <<x, y>> \in R \/ <<y, x>> \in R

\* The elements of a finite set in an order have different ranks, less than their
\* number.
LEMMA Ranks ==
    ASSUME NEW S, NEW R, IsFiniteSet(S), IsOrder(R, S)
    PROVE  /\ \A x \in S : Cardinality(Below(S, R, x)) \in 0..Cardinality(S) - 1
           /\ \A x, y \in S : Cardinality(Below(S, R, x)) = Cardinality(Below(S, R, y)) => x = y
<1>1. \A x \in S : IsFiniteSet(Below(S, R, x)) /\ Cardinality(Below(S, R, x)) < Cardinality(S)
    <2> TAKE x \in S
    <2>1. Below(S, R, x) \in SUBSET S /\ Below(S, R, x) # S
        BY DEF Below, IsOrder
    <2>2. /\ IsFiniteSet(Below(S, R, x)) /\ Cardinality(Below(S, R, x)) <= Cardinality(S)
          /\ Cardinality(S) # Cardinality(Below(S, R, x))
        BY <2>1, FS_Subset
    <2> QED BY <2>2, FS_CardinalityType
<1>2. Cardinality(S) \in Nat /\ \A x \in S : Cardinality(Below(S, R, x)) \in Nat
    BY <1>1, FS_CardinalityType
<1>3. \A x, y \in S : <<x, y>> \in R => Cardinality(Below(S, R, x)) < Cardinality(Below(S, R, y))
    <2> SUFFICES ASSUME NEW x \in S, NEW y \in S, <<x, y>> \in R
                 PROVE  Cardinality(Below(S, R, x)) < Cardinality(Below(S, R, y))
        OBVIOUS
    <2>1. Below(S, R, x) \in SUBSET Below(S, R, y)
        BY DEF Below, IsOrder
    <2>2. x \in Below(S, R, y) /\ x \notin Below(S, R, x)
        BY DEF Below, IsOrder
    <2>3. Cardinality(Below(S, R, x)) <= Cardinality(Below(S, R, y))
        BY <1>1, <2>1, FS_Subset
    <2>4. Cardinality(Below(S, R, x)) # Cardinality(Below(S, R, y))
        BY <1>1, <2>1, <2>2, FS_Subset
    <2> QED BY <1>2, <2>3, <2>4
<1>4. \A x, y \in S : Cardinality(Below(S, R, x)) = Cardinality(Below(S, R, y)) => x = y
    <2> SUFFICES ASSUME NEW x \in S, NEW y \in S, x # y
                 PROVE  Cardinality(Below(S, R, x)) # Cardinality(Below(S, R, y))
        OBVIOUS
    <2>1. <<x, y>> \in R \/ <<y, x>> \in R
        BY DEF IsOrder
    <2> QED BY <1>2, <1>3, <2>1
<1> QED BY <1>1, <1>2, <1>4

\* Every rank is the rank of an element.
LEMMA RanksAreTaken ==
    ASSUME NEW S, NEW R, IsFiniteSet(S), IsOrder(R, S), NEW n \in 1..Cardinality(S)
    PROVE  \E x \in S : Cardinality(Below(S, R, x)) = n - 1
<1> SUFFICES ASSUME \A x \in S : Cardinality(Below(S, R, x)) # n - 1
             PROVE  FALSE
    OBVIOUS
<1> DEFINE rank == [x \in S |-> Cardinality(Below(S, R, x))]
           T == 0..Cardinality(S) - 1
<1>1. Cardinality(S) \in Nat
    BY FS_CardinalityType
<1>2. IsFiniteSet(T) /\ Cardinality(T) = Cardinality(S) /\ n - 1 \in T
    <2>1. \A a, b \in Int : IsFiniteSet(a..b) /\ Cardinality(a..b) = IF a > b THEN 0 ELSE b - a + 1
        BY FS_Interval
    <2>2. 0 \in Int /\ Cardinality(S) - 1 \in Int /\ n - 1 \in T
        BY <1>1
    <2>3. IsFiniteSet(T) /\ Cardinality(T) = IF 0 > Cardinality(S) - 1 THEN 0 ELSE Cardinality(S) - 1 - 0 + 1
        BY <2>1, <2>2, Zenon
    <2> QED BY <1>1, <2>2, <2>3
<1>3. IsFiniteSet(T \ {n - 1}) /\ Cardinality(T \ {n - 1}) < Cardinality(S)
    <2>1. /\ IsFiniteSet(T \ {n - 1})
          /\ Cardinality(T \ {n - 1}) = Cardinality(T) - 1
        <3> HIDE DEF T
        <3> QED BY <1>2, FS_RemoveElement
    <2> QED BY <1>1, <1>2, <2>1
<1>4. rank \in [S -> T \ {n - 1}]
    <2>1. \A x \in S : Cardinality(Below(S, R, x)) \in T
        BY Ranks
    <2> QED BY <2>1
<1>5. \E x, y \in S : x # y /\ rank[x] = rank[y]
    <2> HIDE DEF rank, T
    <2> QED BY <1>3, <1>4, FS_PigeonHole
<1>6. \A x, y \in S : rank[x] = rank[y] => x = y
    <2>1. \A x, y \in S : Cardinality(Below(S, R, x)) = Cardinality(Below(S, R, y)) => x = y
        BY Ranks
    <2> QED BY <2>1
<1> QED BY <1>5, <1>6


\* OldestFirst puts the n-th smallest number at place n, each number once.
LEMMA Oldest ==
    ASSUME NEW S \in SUBSET Nat, IsFiniteSet(S)
    PROVE  /\ OldestFirst(S) \in Seq(S)
           /\ Len(OldestFirst(S)) = Cardinality(S)
           /\ \A n \in 1..Cardinality(S) :
                 /\ OldestFirst(S)[n] \in S
                 /\ Cardinality({y \in S : y < OldestFirst(S)[n]}) = n - 1
           /\ \A x, y \in S : Cardinality({z \in S : z < x}) = Cardinality({z \in S : z < y}) => x = y
<1> DEFINE R == {p \in S \X S : p[1] < p[2]}
<1>1. IsOrder(R, S)
    BY DEF IsOrder
<1>2. \A x \in S : Below(S, R, x) = {y \in S : y < x}
    BY DEF Below
<1>3. \A n \in 1..Cardinality(S) : \E x \in S : Cardinality(Below(S, R, x)) = n - 1
    <2> HIDE DEF R
    <2> QED BY <1>1, RanksAreTaken
<1>4. \A n \in 1..Cardinality(S) : \E x \in S : Cardinality({y \in S : y < x}) = n - 1
    BY <1>2, <1>3
<1>5. \A x, y \in S : Cardinality(Below(S, R, x)) = Cardinality(Below(S, R, y)) => x = y
    <2> HIDE DEF R
    <2> QED BY <1>1, Ranks
<1>6. \A x, y \in S : Cardinality({z \in S : z < x}) = Cardinality({z \in S : z < y}) => x = y
    BY <1>2, <1>5
<1>7. \A n \in 1..Cardinality(S) :
          /\ OldestFirst(S)[n] \in S
          /\ Cardinality({y \in S : y < OldestFirst(S)[n]}) = n - 1
    <2> TAKE n \in 1..Cardinality(S)
    <2>1. OldestFirst(S)[n] = CHOOSE x \in S : Cardinality({y \in S : y < x}) = n - 1
        BY DEF OldestFirst, Sorted
    <2> QED BY <1>4, <2>1
<1>8. Cardinality(S) \in Nat
    BY FS_CardinalityType
<1>9. OldestFirst(S) \in [1..Cardinality(S) -> S]
    <2>1. OldestFirst(S) = [n \in 1..Cardinality(S) |-> CHOOSE x \in S : Cardinality({y \in S : y < x}) = n - 1]
        BY Zenon DEF OldestFirst, Sorted
    <2> QED BY <1>7, <2>1
<1> QED BY <1>6, <1>7, <1>8, <1>9

\* The newest first is a sequence of the books.
LEMMA Newest ==
    ASSUME NEW S \in SUBSET Nat, IsFiniteSet(S)
    PROVE  NewestFirst(S) \in Seq(S)
<1> DEFINE R == {p \in S \X S : p[1] > p[2]}
<1>1. IsOrder(R, S)
    BY DEF IsOrder
<1>2. \A x \in S : Below(S, R, x) = {y \in S : y > x}
    BY DEF Below
<1>3. \A n \in 1..Cardinality(S) : \E x \in S : Cardinality(Below(S, R, x)) = n - 1
    <2> HIDE DEF R
    <2> QED BY <1>1, RanksAreTaken
<1>4. \A n \in 1..Cardinality(S) : \E x \in S : Cardinality({y \in S : y > x}) = n - 1
    BY <1>2, <1>3
<1>5. \A n \in 1..Cardinality(S) : NewestFirst(S)[n] \in S
    <2> TAKE n \in 1..Cardinality(S)
    <2>1. NewestFirst(S)[n] = CHOOSE x \in S : Cardinality({y \in S : y > x}) = n - 1
        BY DEF NewestFirst, Sorted
    <2> QED BY <1>4, <2>1
<1>6. Cardinality(S) \in Nat
    BY FS_CardinalityType
<1>7. NewestFirst(S) \in [1..Cardinality(S) -> S]
    <2>1. NewestFirst(S) = [n \in 1..Cardinality(S) |-> CHOOSE x \in S : Cardinality({y \in S : y > x}) = n - 1]
        BY Zenon DEF NewestFirst, Sorted
    <2> QED BY <1>5, <2>1
<1> QED BY <1>6, <1>7

\* A page of a list has nothing that is not in the list.
LEMMA Taken ==
    ASSUME NEW S, NEW rows \in Seq(S), NEW n \in Nat
    PROVE  Take(rows, n) \in Seq(S)
BY DEF Take

\* A page of rows has rows on it.
LEMMA OnAPage ==
    ASSUME NEW S, NEW rows \in Seq(S), NEW page \in Nat \ {0}
    PROVE  PageOf(rows, page) \in Seq(S)
<1>1. PageSize \in Nat
    BY CatalogueConstants
<1>2. page * PageSize \in Nat /\ (page - 1) * PageSize \in Nat
    BY <1>1
<1> DEFINE taken == Take(rows, page * PageSize)
<1>3. taken \in Seq(S)
    BY <1>2, Taken
<1>4. SubSeq(taken, (page - 1) * PageSize + 1, Len(taken)) \in Seq(S)
    <2> DEFINE first == (page - 1) * PageSize + 1
    <2>1. first \in Int /\ first >= 1
        BY <1>2
    <2>2. Len(taken) \in Int /\ \A i \in 1..Len(taken) : taken[i] \in S
        <3> HIDE DEF taken
        <3> QED BY <1>3
    <2>3. \A i \in first..Len(taken) : taken[i] \in S
        <3> HIDE DEF taken, first
        <3> QED BY <2>1, <2>2
    <2>4. SubSeq(taken, first, Len(taken)) \in Seq(S)
        <3> HIDE DEF taken, first
        <3> QED BY <2>1, <2>2, <2>3, SubSeqProperties
    <2> QED BY <2>4
<1> QED BY <1>4 DEF PageOf


(* ------------------------------ The invariant --------------------------- *)

\* A row of the table of books, and what it says of the book's life.
IsBook(x) ==
    /\ x = [publisher |-> x.publisher, authors |-> x.authors, categories |-> x.categories,
            variants |-> x.variants, active |-> x.active, deleted |-> x.deleted,
            deletedAt |-> x.deletedAt, pageCount |-> x.pageCount, rev |-> x.rev, texts |-> x.texts]
    /\ x.deleted \in BOOLEAN /\ x.rev \in Nat /\ x.deletedAt \in Nat
    /\ DOMAIN x.texts = Languages

IsSeq(s) == s \in Seq(Range(s))

BooksInv ==
    /\ IsSeq(books) /\ IsSeq(audits) /\ now \in Nat
    /\ \A b \in DOMAIN books : IsBook(books[b]) /\ books[b].deletedAt <= now

\* Where a reader is that has not been answered, and where an admin.
Looking == {"init", "data", "query", "alike", "cards", "rows", "ids", "store"}

Busy == {"publisher", "find", "authors", "open", "create", "translate", "update", "delete", "bump"}

Ended == {"idle", "served", "refused", "done", "error"}

IsReading(q) ==
    /\ q = [kind |-> "read", pc |-> q.pc, ns |-> q.ns, word |-> q.word, v |-> q.v,
            floor |-> q.floor, since |-> q.since, found |-> q.found]
    /\ q.v \in Nat /\ q.floor \in Nat /\ q.since \in 0..now
    /\ q.pc = "init" => q.v = 0 /\ q.floor = 0
    /\ q.ns.of = "list" => q.ns.number \in Nat \ {0}
    /\ q.ns.of = "detail" /\ q.ns \notin rewound => q.v <= Version(q.ns) /\ q.floor <= Due(q.ns)

With(q, pc, seen) == [kind |-> q.kind, pc |-> pc, book |-> q.book, body |-> q.body, seen |-> seen]

IsWorking(q) == q = With(q, q.pc, q.seen)

\* What an announcement says is true of the book.
Announces(q) ==
    q.pc = "bump" => /\ q.book \in DOMAIN books /\ q.body \in Nat /\ q.body <= books[q.book].rev

VisitOk(r) ==
    /\ visit[r].pc \in Looking \union Busy \union Ended
    /\ visit[r].pc \in Looking => IsReading(visit[r])
    /\ visit[r].pc \in Busy => IsWorking(visit[r]) /\ Announces(visit[r])

VisitInv ==
    /\ DOMAIN visit = Visits /\ visit = [r \in Visits |-> visit[r]]
    /\ \A r \in Visits : VisitOk(r)

\* The versions, and what has been announced of a book.
VersionInv ==
    /\ \A ns \in DOMAIN version : version[ns] \in Nat \ {0}
    /\ \A ns \in DOMAIN due :
          /\ ns \in DOMAIN version /\ due[ns] \in Nat
          /\ ns.of = "detail" => ns.book \in DOMAIN books /\ due[ns] <= books[ns.book].rev

\* A page under a key is as new as it was announced before the version of the key
\* was given up, and as its readers may expect.
IsFresh(key, page) ==
    key[1].of = "detail" /\ key[1] \notin rewound =>
        /\ page.rev \in Nat /\ key[2] \in 0..Version(key[1])
        /\ key[2] = Version(key[1]) => page.rev >= Due(key[1])
        /\ \A r \in Visits : visit[r].pc \in Looking /\ KeyOf(r) = key => page.rev >= visit[r].floor

ServedFresh(r) ==
    /\ visit[r].pc = "store" => IsFresh(KeyOf(r), visit[r].found)
    /\ visit[r].pc = "served" /\ visit[r].ns.of = "detail" /\ visit[r].ns \notin rewound =>
          visit[r].page.rev >= visit[r].floor

FreshInv ==
    /\ \A key \in DOMAIN data : IsFresh(key, data[key].page)
    /\ \A r \in Visits : ServedFresh(r)

\* The books a page shows.
ShownOn(ns, page) ==
    CASE ns.of \in {"home", "list"} -> {c.book : c \in Range(page.cards)}
      [] ns.of \in {"detail", "slug"} -> {page.book} \union {c.book : c \in Range(page.recommend)}
      [] OTHER -> {}

\* The books of S that are deleted were not at the time t.
AliveAt(S, t) == S \subseteq DOMAIN books /\ \A b \in S : books[b].deleted => t <= books[b].deletedAt

IsDetail(page) ==
    page = [book |-> page.book, rev |-> page.rev, slug |-> page.slug, prices |-> page.prices,
            recommend |-> page.recommend]

\* What a page shows was not deleted when its request began to query; once it is
\* stored, it is not used longer than that and a lifetime.
CachedAlive(key) ==
    /\ data[key].lag \in Nat /\ data[key].until \in Nat
    /\ key[1].of # "stats" => data[key].until <= now + TTL
    /\ AliveAt(ShownOn(key[1], data[key].page), data[key].until - TTL - data[key].lag)

ServedAlive(r) ==
    /\ visit[r].pc \in {"alike", "cards"} =>
          IsDetail(visit[r].found.page) /\ AliveAt({visit[r].found.page.book}, visit[r].since)
    /\ visit[r].pc = "cards" => IsSeq(visit[r].found.ids)
    /\ visit[r].pc = "store" => AliveAt(ShownOn(visit[r].ns, visit[r].found), visit[r].since)
    /\ visit[r].pc = "served" =>
          /\ visit[r].at \in 0..now /\ visit[r].lag \in Nat
          /\ AliveAt(ShownOn(visit[r].ns, visit[r].page), visit[r].at - TTL - visit[r].lag)

DeletedInv ==
    /\ \A key \in DOMAIN data : CachedAlive(key)
    /\ \A r \in Visits : ServedAlive(r)

\* What updateBook and deleteBook had read goes on where the rows of the book ended,
\* and is what the book is but for new translations, unless there are newer rows.
SeenInv ==
    \A r \in Visits : visit[r].pc \in {"update", "delete"} =>
        LET b == visit[r].book
            seen == visit[r].seen
        IN  /\ b \in DOMAIN books /\ ~seen.before.deleted
            /\ seen.rows \in 0..Len(RowsOf(b))
            /\ seen.rows = Len(RowsOf(b)) =>
                  GoesOn(b, RowsOf(b), Len(RowsOf(b)), seen.before) /\ HasTexts(Snapshot(b), seen.before)

\* The books that were there are there, and the rows are about books that are and
\* tell what became of them.
HistoryInv ==
    /\ \A i \in DOMAIN audits : audits[i].book \in DOMAIN books
    /\ DOMAIN InitialBooks \subseteq DOMAIN books
    /\ AuditChain

ShelfInv == BooksInv /\ VisitInv /\ VersionInv /\ FreshInv /\ DeletedInv /\ SeenInv /\ HistoryInv


(* ------------------------------ What pages show ------------------------- *)

Alive == {b \in DOMAIN books : ~books[b].deleted}

\* Books are finitely many numbers.
LEMMA SomeBooks ==
    ASSUME BooksInv, NEW S \in SUBSET DOMAIN books
    PROVE  IsFiniteSet(S) /\ S \in SUBSET Nat
<1>1. Len(books) \in Nat /\ DOMAIN books = 1..Len(books)
    BY DEF BooksInv, IsSeq
<1>2. IsFiniteSet(DOMAIN books)
    BY <1>1, FS_Interval
<1> QED BY <1>1, <1>2, FS_Subset

\* The cards of a list show the books of the list.
LEMMA CardsShow ==
    ASSUME NEW S, NEW rows \in Seq(S), NEW cards, DOMAIN cards = DOMAIN rows,
           \A i \in DOMAIN rows : cards[i].book = rows[i]
    PROVE  {c.book : c \in Range(cards)} \subseteq S
BY DEF Range

\* What may be shown is not deleted.
LEMMA VisibleIsAlive ==
    ASSUME NEW b \in DOMAIN books, IsVisible(b)
    PROVE  b \in Alive
BY DEF IsVisible, Alive

\* The home page shows no deleted book, however it was shuffled.
LEMMA HomeShows ==
    ASSUME BooksInv, NEW l, NEW rows \in Shuffled(FindCatalogHomeBooks(l), PageSize)
    PROVE  {c.book : c \in Range([i \in DOMAIN rows |-> HomeCard(rows[i], l)])} \subseteq Alive
<1> DEFINE V == {b \in DOMAIN books : IsListed(b, l, 0)}
           all == FindCatalogHomeBooks(l)
<1>1. V \in SUBSET DOMAIN books /\ V \subseteq Alive
    BY VisibleIsAlive DEF IsListed
<1>2. V \in SUBSET Nat /\ IsFiniteSet(V)
    <2> HIDE DEF V
    <2> QED BY <1>1, SomeBooks
<1>3. OldestFirst(V) \in Seq(V)
    <2> HIDE DEF V
    <2> QED BY <1>2, Oldest
<1>4. all \in Seq(V)
    <2>1. 5 * PageSize \in Nat
        BY CatalogueConstants
    <2>2. Take(OldestFirst(V), 5 * PageSize) \in Seq(V)
        <3> HIDE DEF V
        <3> QED BY <1>3, <2>1, Taken
    <2> QED BY <2>2 DEF FindCatalogHomeBooks
<1>5. PICK T \in SUBSET Range(all) : rows = OldestFirst(T)
    <2> HIDE DEF all
    <2>1. rows \in Shuffled(all, PageSize)
        BY DEF all
    <2> QED BY <2>1, Zenon DEF Shuffled
<1>6. T \in SUBSET V
    <2> HIDE DEF V, all
    <2> QED BY <1>4 DEF Range
<1>7. rows \in Seq(T)
    <2>1. T \in SUBSET Nat /\ IsFiniteSet(T)
        BY <1>2, <1>6, FS_Subset
    <2> QED BY <1>5, <2>1, Oldest
<1>8. \A i \in DOMAIN rows : HomeCard(rows[i], l).book = rows[i]
    BY DEF HomeCard, CardOf
<1> DEFINE cards == [i \in DOMAIN rows |-> HomeCard(rows[i], l)]
<1>9. DOMAIN cards = DOMAIN rows /\ \A i \in DOMAIN rows : cards[i].book = rows[i]
    BY <1>8
<1>10. {c.book : c \in Range(cards)} \subseteq T
    <2> HIDE DEF cards
    <2> QED BY <1>7, <1>9, CardsShow
<1> QED BY <1>1, <1>6, <1>10

\* Neither does a list.
LEMMA ListShows ==
    ASSUME BooksInv, NEW l, NEW c, NEW page \in Nat \ {0}, NEW total
    PROVE  {d.book : d \in Range(ListPage(FindBooksForList(l, c, page), l, total).cards)} \subseteq Alive
<1> DEFINE V == {b \in DOMAIN books : IsListed(b, l, c)}
           rows == FindBooksForList(l, c, page)
           cards == [i \in DOMAIN rows |-> ListCard(rows[i], l)]
<1>1. V \in SUBSET DOMAIN books /\ V \subseteq Alive
    BY VisibleIsAlive DEF IsListed
<1>2. rows \in Seq(V)
    <2>1. V \in SUBSET Nat /\ IsFiniteSet(V)
        <3> HIDE DEF V
        <3> QED BY <1>1, SomeBooks
    <2>2. PageOf(NewestFirst(V), page) \in Seq(V)
        <3> HIDE DEF V
        <3>1. NewestFirst(V) \in Seq(V)
            BY <2>1, Newest
        <3> QED BY <3>1, OnAPage
    <2> QED BY <2>2 DEF FindBooksForList
<1>3. ListPage(rows, l, total).cards = cards
    BY DEF ListPage
<1>4. DOMAIN cards = DOMAIN rows /\ \A i \in DOMAIN rows : cards[i].book = rows[i]
    BY DEF ListCard, CardOf
<1>5. {d.book : d \in Range(cards)} \subseteq V
    <2> HIDE DEF V, rows, cards
    <2> QED BY <1>2, <1>4, CardsShow
<1> QED BY <1>1, <1>3, <1>5

\* Books found by their ids are not deleted.
LEMMA FoundById ==
    ASSUME BooksInv, NEW ids
    PROVE  FindBooksByIds(ids) \in Seq(Alive)
<1> DEFINE V == {b \in DOMAIN books : b \in Range(ids) /\ IsVisible(b)}
<1>1. V \in SUBSET DOMAIN books /\ V \subseteq Alive
    BY VisibleIsAlive
<1>2. Take(OldestFirst(V), ByIdsLimit) \in Seq(V)
    <2>1. V \in SUBSET Nat /\ IsFiniteSet(V)
        <3> HIDE DEF V
        <3> QED BY <1>1, SomeBooks
    <2>2. ByIdsLimit \in Nat
        BY CatalogueConstants
    <2> HIDE DEF V
    <2>3. OldestFirst(V) \in Seq(V)
        BY <2>1, Oldest
    <2> QED BY <2>2, <2>3, Taken
<1>3. FindBooksByIds(ids) \in Seq(V)
    BY <1>2 DEF FindBooksByIds
<1> HIDE DEF V
<1> QED BY <1>1, <1>3

\* Cards show the rows they are made of.
LEMMA DearCardsShow ==
    ASSUME NEW S, NEW rows \in Seq(S), NEW l
    PROVE  {c.book : c \in Range(DearCards(rows, l))} \subseteq S
<1>1. DOMAIN DearCards(rows, l) = DOMAIN rows /\ \A i \in DOMAIN rows : DearCards(rows, l)[i].book = rows[i]
    BY DEF DearCards, CardOf
<1> QED BY <1>1, CardsShow

\* The recommendations of a page are not deleted when they are queried.
LEMMA PickedShow ==
    ASSUME BooksInv, NEW ids, IsSeq(ids), NEW l
    PROVE  {c.book : c \in Range(PickCards(ids, l))} \subseteq Alive
<1> DEFINE rows == Range(FindBooksByIds(ids))
           places == {i \in DOMAIN ids : ids[i] \in rows}
           kept == OldestFirst(places)
<1>1. rows \subseteq Alive
    BY FoundById DEF Range
<1>2. places \in SUBSET Nat /\ IsFiniteSet(places)
    <2>1. Len(ids) \in Nat /\ DOMAIN ids = 1..Len(ids)
        BY DEF IsSeq
    <2>2. IsFiniteSet(DOMAIN ids)
        BY <2>1, FS_Interval
    <2> HIDE DEF rows
    <2>3. places \in SUBSET DOMAIN ids
        OBVIOUS
    <2> HIDE DEF places
    <2> QED BY <2>1, <2>2, <2>3, FS_Subset
<1>3. kept \in Seq(places)
    <2> HIDE DEF places
    <2> QED BY <1>2, Oldest
<1>4. Kept(ids, places) \in Seq(rows)
    <2>1. Kept(ids, places) = [n \in DOMAIN kept |-> ids[kept[n]]]
        BY DEF Kept
    <2>2. DOMAIN kept = 1..Len(kept) /\ Len(kept) \in Nat /\ \A n \in DOMAIN kept : kept[n] \in places
        <3> HIDE DEF kept
        <3> QED BY <1>3
    <2>3. \A n \in DOMAIN kept : ids[kept[n]] \in rows
        <3> HIDE DEF kept, rows
        <3> QED BY <2>2
    <2> HIDE DEF kept, rows, places
    <2>4. Kept(ids, places) \in [1..Len(kept) -> rows]
        BY <2>1, <2>2, <2>3
    <2> QED BY <2>2, <2>4
<1>5. PickCards(ids, l) = DearCards(Kept(ids, places), l)
    BY DEF PickCards
<1> HIDE DEF places, rows
<1> QED BY <1>1, <1>4, <1>5, DearCardsShow


\* The first of some rows is one of them.
LEMMA FirstIsIn ==
    ASSUME NEW S \in SUBSET Nat, IsFiniteSet(S), S # {}
    PROVE  FirstOf(S) \in S
<1>1. Cardinality(S) \in Nat /\ Cardinality(S) # 0
    BY FS_CardinalityType, FS_EmptySet
<1> DEFINE x == OldestFirst(S)[1]
<1>2. x \in S /\ Cardinality({y \in S : y < x}) = 0
    <2>1. 1 \in 1..Cardinality(S) /\ 1 - 1 = 0
        BY <1>1
    <2>2. \A n \in 1..Cardinality(S) :
              /\ OldestFirst(S)[n] \in S
              /\ Cardinality({y \in S : y < OldestFirst(S)[n]}) = n - 1
        BY Oldest
    <2> QED BY <2>1, <2>2
<1> HIDE DEF x
<1>3. IsFiniteSet({y \in S : y < x})
    <2>1. {y \in S : y < x} \in SUBSET S
        OBVIOUS
    <2> QED BY <2>1, FS_Subset
<1>4. {y \in S : y < x} = {}
    BY <1>2, <1>3, FS_EmptySet
<1>5. \A a \in S : x <= a
    BY <1>2, <1>4
<1> QED BY <1>2, <1>5 DEF FirstOf

\* A slug opens no deleted book.
LEMMA BySlugIsAlive ==
    ASSUME BooksInv, NEW slug, NEW l, FindBookDetailBySlug(slug, l) # 0
    PROVE  FindBookDetailBySlug(slug, l) \in Alive
<1> DEFINE V == {b \in DOMAIN books : IsVisible(b) /\ IsTranslated(b, l) /\ books[b].texts[l].slug = slug}
<1>1. V \in SUBSET DOMAIN books /\ V \subseteq Alive
    BY VisibleIsAlive
<1>2. FindBookDetailBySlug(slug, l) = FirstOf(V)
    BY DEF FindBookDetailBySlug
<1> HIDE DEF V
<1>3. V # {}
    BY <1>2 DEF FirstOf
<1>4. V \in SUBSET Nat /\ IsFiniteSet(V)
    BY <1>1, SomeBooks
<1> QED BY <1>1, <1>2, <1>3, <1>4, FirstIsIn

\* What is not deleted now has not been deleted at any time.
LEMMA AliveSuits ==
    ASSUME NEW S \in SUBSET Alive, NEW t
    PROVE  AliveAt(S, t)
BY DEF AliveAt, Alive

\* The ids to recommend are a sequence.
LEMMA RecommendedIsSeq ==
    ASSUME BooksInv, NEW b, NEW cats
    PROVE  IsSeq(RecommendIds(b, cats))
<1> DEFINE V == FindBookAlikeCategory(b, cats)
           s == ClosestFirst(b, cats)
<1>1. Cardinality(V) \in Nat
    <2>1. V \in SUBSET DOMAIN books
        BY DEF FindBookAlikeCategory
    <2> QED BY <2>1, SomeBooks, FS_CardinalityType
<1>2. DOMAIN s = 1..Cardinality(V) /\ s = [n \in DOMAIN s |-> s[n]]
    <2> DEFINE Closer(x, y) == IsCloser(x, y, cats) \/ (~IsCloser(y, x, cats) /\ x < y)
               Nth(n) == CHOOSE x \in V : Cardinality({y \in V : Closer(y, x)}) = n - 1
    <2>1. s = [n \in 1..Cardinality(V) |-> Nth(n)]
        BY DEF ClosestFirst, Sorted
    <2> HIDE DEF s, Nth, V
    <2> QED BY <2>1
<1>3. RecommendIds(b, cats) = Take(s, MaxRecommended)
    BY DEF RecommendIds
<1>4. MaxRecommended \in Nat
    BY CatalogueConstants
<1> HIDE DEF s, V
<1>5. s \in Seq(Range(s))
    <2>1. s \in [1..Cardinality(V) -> Range(s)]
        BY <1>2 DEF Range
    <2> QED BY <1>1, <2>1
<1> DEFINE t == Take(s, MaxRecommended)
<1>6. t \in Seq(Range(s))
    BY <1>4, <1>5, Taken
<1> HIDE DEF t
<1>7. t \in Seq(Range(t))
    BY <1>6 DEF Range
<1> QED BY <1>3, <1>7 DEF IsSeq, t

(* ------------------------------ The factories --------------------------- *)

\* A request goes on with what it has found.
Goes(r, pc, found) ==
    /\ visit' = [visit EXCEPT ![r] = [visit[r] EXCEPT !.pc = pc, !.found = found]]
    /\ pc \in {"alike", "cards", "rows", "ids", "store"}
    /\ pc \in {"alike", "cards"} =>
          IsDetail(found.page) /\ AliveAt({found.page.book}, visit[r].since)
    /\ pc = "cards" => IsSeq(found.ids)
    /\ pc = "store" => AliveAt(ShownOn(visit[r].ns, found), visit[r].since)
    /\ visit[r].ns.of = "detail" =>
          pc = "store" /\ visit[r].ns.book \in DOMAIN books /\ found.rev = books[visit[r].ns.book].rev

Goner(r) == visit' = [visit EXCEPT ![r] = [kind |-> "read", pc |-> "refused", ns |-> visit[r].ns]]

\* A query of a page ends the request or goes on with what is true of its result.
LEMMA FactoryMoves ==
    ASSUME BooksInv, VisitInv, DeletedInv, NEW r \in Visits, Factory(r)
    PROVE  /\ visit[r].pc \in Looking \ {"init", "store"}
           /\ Goner(r) \/ \E pc, found : Goes(r, pc, found)
<1> DEFINE q == visit[r]
           ns == visit[r].ns
<1> USE DEF Asks, Looking
<1>0. q.pc \in Looking => IsReading(q)
    BY DEF VisitInv, VisitOk
<1>1. CASE QueryHome(r)
    <2>1. PICK rows \in Shuffled(FindCatalogHomeBooks(Lang(r)), PageSize) :
              Found(r, "store", [cards |-> [i \in DOMAIN rows |-> HomeCard(rows[i], Lang(r))]])
        BY <1>1 DEF QueryHome
    <2> DEFINE cards == [i \in DOMAIN rows |-> HomeCard(rows[i], Lang(r))]
               found == [cards |-> cards]
    <2>2. {c.book : c \in Range(cards)} \in SUBSET Alive
        BY HomeShows
    <2>3. found.cards = cards /\ ns.of = "home" /\ q.pc = "query"
        BY <1>1 DEF QueryHome
    <2>4. ShownOn(ns, found) = {c.book : c \in Range(cards)}
        <3> HIDE DEF cards, found
        <3> QED BY <2>3 DEF ShownOn
    <2>5. AliveAt(ShownOn(ns, found), q.since)
        <3> HIDE DEF cards, found
        <3> QED BY <2>2, <2>4, AliveSuits
    <2>6. Goes(r, "store", found)
        <3>1. Found(r, "store", found)
            BY <2>1
        <3> HIDE DEF found
        <3> QED BY <2>3, <2>5, <3>1 DEF Goes, Found, Goto
    <2> QED BY <2>3, <2>6
<1>2. CASE QueryCategories(r)
    <2> DEFINE found == [tree |-> CategoryTree(FindActiveCategories(Lang(r)))]
    <2>1. Found(r, "store", found) /\ ns.of = "categories" /\ q.pc = "query"
        BY <1>2 DEF QueryCategories
    <2> HIDE DEF found
    <2>2. ShownOn(ns, found) = {}
        BY <2>1 DEF ShownOn
    <2>3. AliveAt(ShownOn(ns, found), q.since)
        BY <2>2 DEF AliveAt
    <2>4. Goes(r, "store", found)
        BY <2>1, <2>3 DEF Goes, Found, Goto
    <2> QED BY <2>1, <2>4
<1>3. CASE QueryDetail(r)
    <2> DEFINE b == FindBookDetailById(ns.book)
               found == DetailPage(b, Lang(r), << >>)
    <2>1. ns.of = "detail" /\ q.pc = "query" /\ IF b = 0 THEN Missing(r) ELSE Found(r, "store", found)
        BY <1>3 DEF QueryDetail
    <2>2. CASE b = 0
        BY <2>1, <2>2 DEF Missing, Goner, Goto
    <2>3. CASE b # 0
        <3>1. ns.book = b /\ b \in Alive
            BY <2>3, VisibleIsAlive DEF FindBookDetailById
        <3>2. found.book = b /\ found.recommend = << >> /\ found.rev = books[b].rev
            BY DEF DetailPage
        <3>3. Found(r, "store", found)
            BY <2>1, <2>3
        <3> HIDE DEF b, found
        <3>4. ShownOn(ns, found) = {b}
            BY <2>1, <3>2 DEF ShownOn, Range
        <3>5. AliveAt(ShownOn(ns, found), q.since)
            BY <3>1, <3>4, AliveSuits
        <3>6. Goes(r, "store", found)
            BY <2>1, <3>1, <3>2, <3>3, <3>5 DEF Goes, Found, Goto, Alive
        <3> QED BY <2>1, <3>6
    <2> QED BY <2>2, <2>3
<1>4. CASE QuerySlug(r)
    <2> DEFINE b == FindBookDetailBySlug(ns.slug, Lang(r))
               found == [page |-> DetailPage(b, Lang(r), << >>), cats |-> books[b].categories]
    <2>1. ns.of = "slug" /\ q.pc = "query" /\ IF b = 0 THEN Missing(r) ELSE Found(r, "alike", found)
        BY <1>4 DEF QuerySlug
    <2>2. CASE b = 0
        BY <2>1, <2>2 DEF Missing, Goner, Goto
    <2>3. CASE b # 0
        <3>1. b \in Alive
            BY SMTT(30), <2>3, BySlugIsAlive
        <3>2. found.page.book = b /\ IsDetail(found.page)
            BY DEF DetailPage, IsDetail
        <3>3. Found(r, "alike", found)
            BY <2>1, <2>3
        <3> HIDE DEF b, found
        <3>4. AliveAt({found.page.book}, q.since)
            BY <3>1, <3>2, AliveSuits
        <3>5. Goes(r, "alike", found)
            BY <2>1, <3>2, <3>3, <3>4 DEF Goes, Found, Goto
        <3> QED BY <2>1, <3>5
    <2> QED BY <2>2, <2>3
<1>5. CASE QueryAlike(r)
    <2> DEFINE ids == RecommendIds(q.found.page.book, q.found.cats)
               found == [page |-> q.found.page, ids |-> ids]
    <2>1. ns.of = "slug" /\ q.pc = "alike" /\ Found(r, "cards", found)
        BY <1>5 DEF QueryAlike
    <2>2. IsDetail(q.found.page) /\ AliveAt({q.found.page.book}, q.since)
        BY <2>1 DEF DeletedInv, ServedAlive
    <2>3. IsSeq(ids)
        BY RecommendedIsSeq
    <2>4. found.page = q.found.page /\ found.ids = ids
        OBVIOUS
    <2> HIDE DEF ids, found
    <2>5. Goes(r, "cards", found)
        BY <2>1, <2>2, <2>3, <2>4 DEF Goes, Found, Goto
    <2> QED BY <2>1, <2>5
<1>6. CASE QueryCards(r)
    <2> DEFINE cards == PickCards(q.found.ids, Lang(r))
               page == q.found.page
               found == [page EXCEPT !.recommend = cards]
    <2>1. ns.of = "slug" /\ q.pc = "cards" /\ Found(r, "store", found)
        BY <1>6 DEF QueryCards
    <2>2. IsDetail(page) /\ AliveAt({page.book}, q.since) /\ IsSeq(q.found.ids)
        BY <2>1 DEF DeletedInv, ServedAlive
    <2>3. {c.book : c \in Range(cards)} \subseteq Alive
        BY <2>2, PickedShow
    <2>4. found.book = page.book /\ found.recommend = cards
        <3> HIDE DEF cards, page
        <3> QED BY <2>2 DEF IsDetail
    <2> HIDE DEF cards, found
    <2>5. ShownOn(ns, found) = {page.book} \union {c.book : c \in Range(cards)}
        BY <2>1, <2>4 DEF ShownOn
    <2>6. AliveAt(ShownOn(ns, found), q.since)
        BY <2>2, <2>3, <2>5 DEF AliveAt, Alive
    <2>7. Goes(r, "store", found)
        BY <2>1, <2>6 DEF Goes, Found, Goto
    <2> QED BY <2>1, <2>7

<1>7. CASE QueryList(r)
    <2> DEFINE total == CountBooksForList(Lang(r), 0)
               c == FindCategoryBySlug(ns.category, Lang(r))
               found == ListPage(FindBooksForList(Lang(r), 0, ns.number), Lang(r), total)
    <2>1. /\ ns.of = "list" /\ q.pc = "query"
          /\ \/ Found(r, "store", found) \/ Missing(r) \/ Found(r, "rows", [category |-> c])
        BY ZenonT(30), <1>7 DEF QueryList, ListAll
    <2>2. CASE Found(r, "store", found)
        <3>1. {d.book : d \in Range(found.cards)} \in SUBSET Alive
            BY <1>0, <2>1, ListShows DEF IsReading
        <3> HIDE DEF found
        <3>2. ShownOn(ns, found) = {d.book : d \in Range(found.cards)}
            BY <2>1 DEF ShownOn
        <3>3. AliveAt(ShownOn(ns, found), q.since)
            BY <3>1, <3>2, AliveSuits
        <3>4. Goes(r, "store", found)
            BY <2>1, <2>2, <3>3 DEF Goes, Found, Goto
        <3> QED BY <2>1, <3>4
    <2>3. CASE Missing(r)
        BY <2>1, <2>3 DEF Missing, Goner, Goto
    <2>4. CASE Found(r, "rows", [category |-> c])
        <3>1. Goes(r, "rows", [category |-> c])
            BY <2>1, <2>4 DEF Goes, Found, Goto
        <3> QED BY <2>1, <3>1
    <2> QED BY <2>1, <2>2, <2>3, <2>4
<1>8. CASE QueryCategory(r)
    <2> DEFINE c == q.found.category
               total == CountBooksForList(Lang(r), c)
               found == ListPage(FindBooksForList(Lang(r), c, ns.number), Lang(r), total)
               ids == [ids |-> FindBookIncludeCategory(Lang(r), c, q.word, ns.number),
                       total |-> CountBookIncludeCategory(Lang(r), c, q.word)]
    <2>1. /\ ns.of = "list" /\ q.pc = "rows"
          /\ Found(r, "store", found) \/ Found(r, "ids", ids)
        BY ZenonT(30), <1>8 DEF QueryCategory
    <2>2. CASE Found(r, "store", found)
        <3>1. {d.book : d \in Range(found.cards)} \in SUBSET Alive
            BY <1>0, <2>1, ListShows DEF IsReading
        <3> HIDE DEF found
        <3>2. ShownOn(ns, found) = {d.book : d \in Range(found.cards)}
            BY <2>1 DEF ShownOn
        <3>3. AliveAt(ShownOn(ns, found), q.since)
            BY <3>1, <3>2, AliveSuits
        <3>4. Goes(r, "store", found)
            BY <2>1, <2>2, <3>3 DEF Goes, Found, Goto
        <3> QED BY <2>1, <3>4
    <2>3. CASE Found(r, "ids", ids)
        <3> HIDE DEF ids
        <3>1. Goes(r, "ids", ids)
            BY <2>1, <2>3 DEF Goes, Found, Goto
        <3> QED BY <2>1, <3>1
    <2> QED BY <2>1, <2>2, <2>3
<1>9. CASE QueryIds(r)
    <2> DEFINE rows == FindBooksByIds(q.found.ids)
               cards == DearCards(rows, Lang(r))
               found == [cards |-> cards, total |-> q.found.total]
    <2>1. ns.of = "list" /\ q.pc = "ids" /\ Found(r, "store", found)
        BY <1>9 DEF QueryIds
    <2>2. {d.book : d \in Range(cards)} \in SUBSET Alive
        <3>1. rows \in Seq(Alive)
            BY FoundById
        <3> HIDE DEF rows
        <3> QED BY <3>1, DearCardsShow
    <2>3. found.cards = cards
        OBVIOUS
    <2> HIDE DEF cards, found
    <2>4. ShownOn(ns, found) = {d.book : d \in Range(cards)}
        BY <2>1, <2>3 DEF ShownOn
    <2>5. AliveAt(ShownOn(ns, found), q.since)
        BY <2>2, <2>4, AliveSuits
    <2>6. Goes(r, "store", found)
        BY <2>1, <2>5 DEF Goes, Found, Goto
    <2> QED BY <2>1, <2>6
<1>10. CASE QueryStats(r)
    <2>1. ns.of = "stats" /\ q.pc = "query" /\ Found(r, "store", Stats)
        BY <1>10 DEF QueryStats
    <2>2. ShownOn(ns, Stats) = {}
        BY <2>1 DEF ShownOn
    <2>3. AliveAt(ShownOn(ns, Stats), q.since)
        BY <2>2 DEF AliveAt
    <2>4. Goes(r, "store", Stats)
        BY <2>1, <2>3 DEF Goes, Found, Goto
    <2> QED BY <2>1, <2>4
<1> QED BY <1>1, <1>2, <1>3, <1>4, <1>5, <1>6, <1>7, <1>8, <1>9, <1>10 DEF Factory


(* ------------------------------ The admins ------------------------------ *)

\* A book whose columns and texts a step leaves alone, but for new translations.
Same(b) ==
    /\ IsBook(books'[b])
    /\ books'[b].active = books[b].active /\ books'[b].pageCount = books[b].pageCount
    /\ books'[b].deleted = books[b].deleted /\ books'[b].deletedAt = books[b].deletedAt
    /\ books'[b].rev >= books[b].rev /\ HasTexts(books'[b], books[b])

Translates(r, b) == visit[r].pc = "translate" /\ visit[r].book = b

\* Rows are added or changed, in what is not audited, and a book is translated.
Changed(r) ==
    /\ audits' = audits
    /\ IsSeq(books') /\ Len(books') >= Len(books)
    /\ \A b \in DOMAIN books : Same(b) /\ (books'[b].texts = books[b].texts \/ Translates(r, b))
    /\ \A b \in DOMAIN books' \ DOMAIN books :
          /\ IsBook(books'[b])
          /\ books'[b].active = FALSE /\ books'[b].deleted = FALSE
          /\ books'[b].deletedAt = 0 /\ books'[b].pageCount = 0

\* A book is updated or deleted, with an audit row.
Audited(r) ==
    LET b == visit[r].book
        after(texts) == [active |-> books'[b].active, deleted |-> books'[b].deleted,
                         pageCount |-> books'[b].pageCount, texts |-> texts]
    IN  /\ visit[r].pc \in {"update", "delete"} /\ b \in DOMAIN books
        /\ IsSeq(books') /\ Len(books') = Len(books)
        /\ \A a \in DOMAIN books \ {b} : Same(a) /\ books'[a].texts = books[a].texts
        /\ IsBook(books'[b]) /\ books'[b].rev >= books[b].rev
        /\ \/ books'[b].deleted = books[b].deleted /\ books'[b].deletedAt = books[b].deletedAt
           \/ books'[b].deleted /\ books'[b].deletedAt = now
        /\ \/ audits' = Audit(r, after(books'[b].texts))
           \/ audits' = Audit(r, after(visit[r].seen.before.texts)) /\ books'[b].texts = books[b].texts

BooksMove(r) == UNCHANGED <<books, audits>> \/ Changed(r) \/ Audited(r)

\* An admin is answered or goes on, knowing what is true.
AdminGoes(r, x) ==
    /\ visit' = [visit EXCEPT ![r] = x]
    /\ x.pc \in {"done", "error", "refused"} \union Busy
    /\ x.pc \in Busy => IsWorking(x)
    /\ x.pc = "bump" => x.book \in DOMAIN books' /\ x.body \in Nat /\ x.body <= books'[x.book].rev
    /\ x.pc \in {"update", "delete", "translate"} =>
          /\ UNCHANGED <<books, audits>>
          /\ x.book \in DOMAIN books /\ ~books[x.book].deleted
    /\ x.pc \in {"update", "delete"} =>
          x.seen = [before |-> Snapshot(x.book), rows |-> Len(RowsOf(x.book))]

Bumped(r) == \E l : visit[r].pc = "bump" /\ Bump(DetailKey(visit[r].book, l), visit[r].body)

AdminMove(r) ==
    /\ visit[r].pc \in Busy \union {"idle"}
    /\ \E x : AdminGoes(r, x)
    /\ \/ BooksMove(r) /\ UNCHANGED <<version, due>>
       \/ UNCHANGED <<books, audits>> /\ Bumped(r)
    /\ UNCHANGED <<data, rewound, now>>

\* A request that is answered is done.
LEMMA EndGoes ==
    ASSUME NEW r \in Visits, NEW answer \in {"done", "error", "refused"}, End(r, answer)
    PROVE  \E x : AdminGoes(r, x)
<1> DEFINE x == [kind |-> "admin", pc |-> answer]
<1>1. visit' = [visit EXCEPT ![r] = x] /\ x.pc = answer
    BY DEF End, Goto
<1> HIDE DEF x
<1>2. AdminGoes(r, x)
    BY <1>1 DEF AdminGoes, Busy
<1> QED BY <1>2

\* A request goes on to a step before which it need not know anything.
LEMMA WorkGoes ==
    ASSUME NEW r \in Visits, NEW x, Goto(r, x), IsWorking(x),
           x.pc \in Busy \ {"bump", "update", "delete", "translate"}
    PROVE  \E y : AdminGoes(r, y)
<1>1. AdminGoes(r, x)
    BY DEF AdminGoes, Goto, Busy
<1> QED BY <1>1

\* The record of an admin request keeps what it is given.
LEMMA WorkingWorks ==
    ASSUME NEW kind, NEW pc, NEW book, NEW body, NEW seen
    PROVE  /\ IsWorking(Working(kind, pc, book, body, seen))
           /\ Working(kind, pc, book, body, seen).pc = pc
           /\ Working(kind, pc, book, body, seen).book = book
           /\ Working(kind, pc, book, body, seen).body = body
           /\ Working(kind, pc, book, body, seen).seen = seen
BY DEF Working, IsWorking, With

\* What a request of an admin remembers can be changed.
LEMMA WithWorks ==
    ASSUME NEW q, NEW pc, NEW seen
    PROVE  /\ IsWorking(With(q, pc, seen)) /\ With(q, pc, seen).pc = pc
           /\ With(q, pc, seen).book = q.book /\ With(q, pc, seen).body = q.body
BY DEF With, IsWorking

\* The calls that find or create names change no book.
LEMMA NameMoves ==
    ASSUME VisitInv, NEW r \in Visits, NEW body, NEW kind,
           \/ FindPublisher(r, kind, body) \/ FindAuthor(r, body)
           \/ UpsertPublisher(r) \/ FindAuthors(r) \/ UpsertAuthors(r) \/ OpenBook(r)
    PROVE  AdminMove(r)
<1> DEFINE q == visit[r]
<1>0. /\ UNCHANGED <<books, audits, version, data, rewound, due, now>>
      /\ q.pc \in Busy \union {"idle"}
      /\ q.pc \in Busy => IsWorking(q)
    BY DEF VisitInv, VisitOk, Busy, FindPublisher, FindAuthor, UpsertPublisher, FindAuthors, UpsertAuthors,
           OpenBook, tables, Cached
<1> SUFFICES \E x : AdminGoes(r, x)
    BY <1>0 DEF AdminMove, BooksMove
<1>1. CASE FindPublisher(r, kind, body)
    <2>1. Goto(r, Working(kind, "publisher", 0, body, {body.publisher} \cap publishers))
        BY <1>1 DEF FindPublisher
    <2> QED BY <2>1, WorkingWorks, WorkGoes DEF Busy
<1>2. CASE FindAuthor(r, body)
    <2>1. Goto(r, Working("author", "authors", 0, body, BylineNames(body) \cap authors))
        BY <1>2 DEF FindAuthor
    <2> QED BY <2>1, WorkingWorks, WorkGoes DEF Busy
<1>3. CASE UpsertPublisher(r)
    <2>1. End(r, "error") \/ End(r, "done") \/ Goto(r, [q EXCEPT !.pc = "find"])
        BY <1>3 DEF UpsertPublisher
    <2>2. IsWorking(q)
        BY <1>0, <1>3 DEF UpsertPublisher, Busy
    <2>3. [q EXCEPT !.pc = "find"] = With(q, "find", q.seen)
        BY <2>2 DEF IsWorking, With
    <2> QED BY <2>1, <2>3, EndGoes, WithWorks, WorkGoes DEF Busy
<1>4. CASE FindAuthors(r)
    <2> DEFINE seen == BylineNames(visit[r].body) \cap authors
    <2>1. PICK x : x = [q EXCEPT !.pc = "authors", !.seen = seen]
        OBVIOUS
    <2>2. Goto(r, x)
        BY <1>4, <2>1 DEF FindAuthors
    <2>3. IsWorking(q)
        BY <1>0, <1>4 DEF FindAuthors, Busy
    <2> HIDE DEF seen, q
    <2>4. x = With(q, "authors", seen)
        BY <2>1, <2>3 DEF IsWorking, With
    <2> QED BY <2>2, <2>4, WithWorks, WorkGoes DEF Busy
<1>5. CASE UpsertAuthors(r)
    <2>1. End(r, "error") \/ End(r, "done") \/ Goto(r, [q EXCEPT !.pc = "open"])
        BY <1>5 DEF UpsertAuthors
    <2>2. IsWorking(q)
        BY <1>0, <1>5 DEF UpsertAuthors, Busy
    <2>3. [q EXCEPT !.pc = "open"] = With(q, "open", q.seen)
        BY <2>2 DEF IsWorking, With
    <2> QED BY <2>1, <2>3, EndGoes, WithWorks, WorkGoes DEF Busy
<1>6. CASE OpenBook(r)
    <2> DEFINE slug == BuildUniqueSlug(q.body.lang, BaseSlug(q.body.title, Len(books) + 1))
               seen == [slug |-> slug, count |-> CountTexts]
    <2>1. PICK x : x = [q EXCEPT !.pc = "create", !.seen = seen]
        OBVIOUS
    <2>2. Goto(r, x)
        BY <1>6, <2>1 DEF OpenBook
    <2>3. IsWorking(q)
        BY <1>0, <1>6 DEF OpenBook, Busy
    <2> HIDE DEF seen, q
    <2>4. x = With(q, "create", seen)
        BY <2>1, <2>3 DEF IsWorking, With
    <2> QED BY <2>2, <2>4, WithWorks, WorkGoes DEF Busy
<1> QED BY <1>1, <1>2, <1>3, <1>4, <1>5, <1>6


\* A table whose rows are replaced one by one is a table.
LEMMA MappedIsSeq ==
    ASSUME NEW s, IsSeq(s), NEW t, DOMAIN t = DOMAIN s, t = [i \in DOMAIN t |-> t[i]]
    PROVE  IsSeq(t) /\ Len(t) = Len(s)
<1>1. Len(s) \in Nat /\ DOMAIN s = 1..Len(s)
    BY DEF IsSeq
<1>2. t \in [1..Len(s) -> Range(t)]
    BY <1>1 DEF Range
<1>3. t \in Seq(Range(t))
    BY <1>1, <1>2
<1> QED BY <1>1, <1>3 DEF IsSeq

\* A sequence with one more at its end.
LEMMA AppendIsSeq ==
    ASSUME NEW s, IsSeq(s), NEW x
    PROVE  /\ IsSeq(Append(s, x)) /\ Len(Append(s, x)) = Len(s) + 1
           /\ \A i \in DOMAIN s : Append(s, x)[i] = s[i]
           /\ Append(s, x)[Len(s) + 1] = x
           /\ DOMAIN s = 1..Len(s) /\ DOMAIN Append(s, x) = 1..Len(s) + 1 /\ Len(s) \in Nat
<1> DEFINE S == Range(s) \union {x}
           t == Append(s, x)
<1>1. s \in Seq(S) /\ x \in S
    BY DEF IsSeq
<1>2. t \in Seq(S) /\ Len(t) = Len(s) + 1 /\ t[Len(s) + 1] = x /\ \A i \in 1..Len(s) : t[i] = s[i]
    <2> HIDE DEF S
    <2> QED BY <1>1, AppendProperties
<1>3. Len(s) \in Nat /\ DOMAIN s = 1..Len(s)
    BY <1>1
<1> HIDE DEF t, S
<1>4. t \in Seq(Range(t)) /\ DOMAIN t = 1..Len(s) + 1
    BY <1>2, <1>3 DEF Range
<1> QED BY <1>2, <1>3, <1>4 DEF IsSeq, t

\* A book that is not written is the same.
LEMMA OldIsSame ==
    ASSUME BooksInv, NEW b \in DOMAIN books, books'[b] = books[b]
    PROVE  Same(b)
BY DEF BooksInv, Same, IsBook, HasTexts

\* createBook adds a book that is neither active nor deleted.
LEMMA CommitBookMoves ==
    ASSUME BooksInv, VisitInv, NEW r \in Visits, CommitBook(r)
    PROVE  AdminMove(r)
<1> DEFINE new == NewBook(visit[r].body, visit[r].seen)
<1>1. /\ visit[r].pc = "create" /\ End(r, "done") /\ books' = Append(books, new)
      /\ UNCHANGED <<audits, version, due, data, rewound, now>>
    BY DEF CommitBook, Cached
<1>2. /\ IsBook(new)
      /\ new.active = FALSE /\ new.deleted = FALSE /\ new.deletedAt = 0 /\ new.pageCount = 0
    BY DEF NewBook, IsBook
<1> HIDE DEF new
<1>3. IsSeq(books)
    BY DEF BooksInv
<1>4. /\ IsSeq(books') /\ Len(books') = Len(books) + 1
      /\ \A b \in DOMAIN books : books'[b] = books[b]
      /\ books'[Len(books) + 1] = new
      /\ DOMAIN books = 1..Len(books) /\ DOMAIN books' = 1..Len(books) + 1 /\ Len(books) \in Nat
    BY <1>1, <1>3, AppendIsSeq
<1>5. \A b \in DOMAIN books : Same(b) /\ books'[b].texts = books[b].texts
    BY <1>4, OldIsSame
<1>6. \A b \in DOMAIN books' \ DOMAIN books : b = Len(books) + 1
    BY <1>4
<1>7. Changed(r)
    BY <1>1, <1>2, <1>4, <1>5, <1>6 DEF Changed
<1>8. \E x : AdminGoes(r, x)
    BY <1>1, EndGoes
<1> QED BY <1>1, <1>7, <1>8 DEF AdminMove, BooksMove, Busy

\* Opening a translation and creating a category change no book.
LEMMA QuietMoves ==
    ASSUME VisitInv, NEW r \in Visits, NEW b, NEW l, NEW title, NEW body,
           OpenTranslation(r, b, l, title) \/ CreateCategory(r, body)
    PROVE  AdminMove(r)
<1>0. UNCHANGED <<books, audits, version, data, rewound, due, now>> /\ visit[r].pc = "idle"
    BY DEF OpenTranslation, CreateCategory, tables, Cached
<1> SUFFICES \E x : AdminGoes(r, x)
    BY <1>0 DEF AdminMove, BooksMove
<1>1. CASE OpenTranslation(r, b, l, title)
    <2> DEFINE seen == [slug |-> BuildUniqueSlug(l, BaseSlug(title, b)), count |-> CountTexts]
               new == [lang |-> l, title |-> title]
    <2> PICK x : x = Working("translate", "translate", b, new, seen)
        OBVIOUS
    <2>1. End(r, "refused") \/ (FindBookById(b) /\ Goto(r, x))
        BY <1>1 DEF OpenTranslation
    <2>2. IsWorking(x) /\ x.pc = "translate" /\ x.book = b
        BY WorkingWorks
    <2>3. ASSUME FindBookById(b), Goto(r, x) PROVE AdminGoes(r, x)
        <3>1. b \in DOMAIN books /\ ~books[b].deleted
            BY <2>3 DEF FindBookById
        <3> QED BY <1>0, <2>2, <2>3, <3>1 DEF AdminGoes, Goto, Busy
    <2> QED BY <2>1, <2>3, EndGoes
<1>2. CASE CreateCategory(r, body)
    <2>1. End(r, "done") \/ End(r, "refused")
        BY <1>2 DEF CreateCategory
    <2> QED BY <2>1, EndGoes
<1> QED BY <1>1, <1>2

\* updateBook and deleteBook go on with a book as it is, and its rows.
LEMMA ReadMoves ==
    ASSUME VisitInv, NEW r \in Visits, NEW kind \in {"update", "delete"}, NEW b, NEW body,
           ReadBook(r, kind, b, body)
    PROVE  AdminMove(r)
<1> DEFINE x == Working(kind, kind, b, body, [before |-> Snapshot(b), rows |-> Len(RowsOf(b))])
<1>0. UNCHANGED <<books, audits, version, data, rewound, due, now>> /\ visit[r].pc = "idle"
    BY DEF ReadBook, tables, Cached
<1>1. \/ End(r, "refused")
      \/ FindBookById(b) /\ Goto(r, x)
    BY DEF ReadBook
<1>2. ASSUME FindBookById(b), Goto(r, x) PROVE AdminGoes(r, x)
    <2>1. /\ IsWorking(x) /\ x.pc = kind /\ x.book = b
          /\ x.seen = [before |-> Snapshot(b), rows |-> Len(RowsOf(b))]
        BY WorkingWorks
    <2> HIDE DEF x
    <2>2. UNCHANGED <<books, audits>>
        BY <1>0
    <2>3. x.book \in DOMAIN books /\ ~books[x.book].deleted
        BY <1>2, <2>1 DEF FindBookById
    <2> QED BY <1>2, <2>1, <2>2, <2>3 DEF AdminGoes, Goto, Busy
<1>3. \E y : AdminGoes(r, y)
    BY <1>1, <1>2, EndGoes
<1> QED BY <1>0, <1>3 DEF AdminMove, BooksMove


\* A book with other variants or texts, revised n times.
LEMMA Revised ==
    ASSUME NEW x, IsBook(x), NEW y, NEW variants, NEW texts, DOMAIN texts = Languages, NEW rev, rev \in Nat,
           y = [publisher |-> x.publisher, authors |-> x.authors, categories |-> x.categories,
                variants |-> variants, active |-> x.active, deleted |-> x.deleted,
                deletedAt |-> x.deletedAt, pageCount |-> x.pageCount, rev |-> rev, texts |-> texts]
    PROVE  /\ IsBook(y) /\ y.active = x.active /\ y.deleted = x.deleted /\ y.deletedAt = x.deletedAt
           /\ y.pageCount = x.pageCount /\ y.rev = rev /\ y.texts = texts
BY DEF IsBook

\* A translation changes only the texts of its book.
LEMMA CommitTranslationMoves ==
    ASSUME BooksInv, VisitInv, NEW r \in Visits, CommitTranslation(r)
    PROVE  AdminMove(r)
<1> DEFINE b == visit[r].book
           text == NewText(visit[r].body.title, visit[r].seen)
           new == [books EXCEPT ![b].texts[visit[r].body.lang] = text]
<1>1. /\ visit[r].pc = "translate" /\ UNCHANGED <<version, due, data, rewound, now>>
      /\ \/ UNCHANGED tables /\ End(r, "error")
         \/ /\ books' = new /\ audits' = audits /\ End(r, "done")
            /\ books[b].texts[visit[r].body.lang] = NoText
    BY DEF CommitTranslation, Cached, IsTranslated
<1>2. \E x : AdminGoes(r, x)
    BY <1>1, EndGoes
<1>3. CASE UNCHANGED tables
    BY <1>1, <1>2, <1>3 DEF AdminMove, BooksMove, tables, Busy
<1>4. CASE books' = new /\ audits' = audits /\ books[b].texts[visit[r].body.lang] = NoText
    <2>1. DOMAIN books' = DOMAIN books /\ books' = [a \in DOMAIN books' |-> books'[a]]
        BY <1>4
    <2>2. \A a \in DOMAIN books \ {b} : books'[a] = books[a]
        BY <1>4
    <2>3. ASSUME b \in DOMAIN books PROVE Same(b)
        <3> DEFINE texts == [books[b].texts EXCEPT ![visit[r].body.lang] = text]
                   x == books[b]
        <3>1. IsBook(x) /\ x.rev \in Nat
            BY <2>3 DEF BooksInv, IsBook
        <3>2. books'[b] = [x EXCEPT !.texts = texts]
            BY <1>4, <2>3
        <3> HIDE DEF texts, x
        <3>3. books'[b] = [publisher |-> x.publisher, authors |-> x.authors, categories |-> x.categories,
                           variants |-> x.variants, active |-> x.active, deleted |-> x.deleted,
                           deletedAt |-> x.deletedAt, pageCount |-> x.pageCount, rev |-> x.rev, texts |-> texts]
            BY <3>1, <3>2 DEF IsBook
        <3>4. /\ DOMAIN texts = Languages
              /\ \A l \in Languages : x.texts[l] # NoText => texts[l] = x.texts[l]
            BY <1>4, <3>1 DEF IsBook, texts, x
        <3>5. /\ IsBook(books'[b]) /\ books'[b].active = x.active /\ books'[b].deleted = x.deleted
              /\ books'[b].deletedAt = x.deletedAt /\ books'[b].pageCount = x.pageCount /\ books'[b].rev = x.rev
              /\ books'[b].texts = texts
            BY <3>1, <3>3, <3>4, Revised
        <3> QED BY <3>1, <3>4, <3>5 DEF Same, HasTexts, x
    <2>4. \A a \in DOMAIN books : Same(a) /\ (books'[a].texts = books[a].texts \/ Translates(r, a))
        BY <1>1, <2>2, <2>3, OldIsSame DEF Translates
    <2>5. IsSeq(books') /\ Len(books') = Len(books) /\ Len(books) \in Nat
        BY SMTT(30), <2>1, MappedIsSeq DEF BooksInv, IsSeq
    <2>6. Changed(r)
        <3>1. DOMAIN books' \ DOMAIN books = {} /\ Len(books') >= Len(books)
            BY <2>1, <2>5
        <3> QED BY <1>4, <2>4, <2>5, <3>1, ZenonT(30) DEF Changed
    <2> QED BY <1>1, <1>2, <2>6 DEF AdminMove, BooksMove, Busy
<1> QED BY <1>1, <1>3, <1>4

\* The price of a variant changes nothing that an audit tells.
LEMMA PriceMoves ==
    ASSUME BooksInv, VisitInv, NEW r \in Visits, NEW b \in DOMAIN books, NEW n, NEW price,
           UpdatePriceVariant(r, b, n, price)
    PROVE  AdminMove(r)
<1> DEFINE new == [books EXCEPT ![b].variants[n].price = price, ![b].rev = @ + 1]
           x == books[b]
           variants == [x.variants EXCEPT ![n].price = price]
           work == Working("price", "bump", b, books'[b].rev, Languages)
<1>1. /\ visit[r].pc = "idle" /\ UNCHANGED <<audits, version, due, data, rewound, now>>
      /\ books' = new /\ Goto(r, work)
    BY DEF UpdatePriceVariant, Cached
<1>2. DOMAIN books' = DOMAIN books /\ books' = [a \in DOMAIN books' |-> books'[a]]
    BY <1>1
<1>3. \A a \in DOMAIN books \ {b} : books'[a] = books[a]
    BY <1>1
<1>4. IsBook(x) /\ x.rev \in Nat
    BY DEF BooksInv, IsBook
<1>5. books'[b] = [x EXCEPT !.variants = variants, !.rev = x.rev + 1]
    <2>1. PICK mid : mid = [books EXCEPT ![b].variants[n].price = price]
        OBVIOUS
    <2>2. books' = [mid EXCEPT ![b].rev = @ + 1]
        BY <1>1, <2>1
    <2> QED BY <1>4, <2>1, <2>2 DEF IsBook
<1> HIDE DEF variants, x
<1>6. books'[b] = [publisher |-> x.publisher, authors |-> x.authors, categories |-> x.categories,
                   variants |-> variants, active |-> x.active, deleted |-> x.deleted,
                   deletedAt |-> x.deletedAt, pageCount |-> x.pageCount, rev |-> x.rev + 1, texts |-> x.texts]
    BY <1>4, <1>5 DEF IsBook
<1>7. /\ IsBook(books'[b]) /\ books'[b].active = x.active /\ books'[b].deleted = x.deleted
      /\ books'[b].deletedAt = x.deletedAt /\ books'[b].pageCount = x.pageCount /\ books'[b].rev = x.rev + 1
      /\ books'[b].texts = x.texts
    <2>1. DOMAIN x.texts = Languages /\ x.rev + 1 \in Nat
        BY <1>4 DEF IsBook
    <2> QED BY <1>4, <1>6, <2>1, Revised
<1>8. Same(b) /\ books'[b].texts = books[b].texts
    BY <1>4, <1>7 DEF Same, HasTexts, x
<1>9. \A a \in DOMAIN books : Same(a) /\ books'[a].texts = books[a].texts
    BY <1>3, <1>8, OldIsSame
<1>10. IsSeq(books') /\ Len(books') = Len(books) /\ Len(books) \in Nat
    BY <1>2, MappedIsSeq DEF BooksInv, IsSeq
<1>11. Changed(r)
    BY <1>1, <1>2, <1>9, <1>10 DEF Changed
<1>12. AdminGoes(r, work)
    <2>1. IsWorking(work) /\ work.pc = "bump" /\ work.book = b /\ work.body = books'[b].rev
        BY WorkingWorks
    <2>2. books'[b].rev \in Nat
        BY <1>7 DEF IsBook
    <2> HIDE DEF work
    <2> QED BY <1>1, <1>2, <2>1, <2>2 DEF AdminGoes, Goto, Busy
<1> QED BY <1>1, <1>11, <1>12 DEF AdminMove, BooksMove

\* deleteBook marks its book, with a row.
LEMMA DeleteMoves ==
    ASSUME BooksInv, VisitInv, SeenInv, NEW r \in Visits, CommitDelete(r)
    PROVE  AdminMove(r)
<1> DEFINE b == visit[r].book
           x == books[b]
           new == [x EXCEPT !.active = FALSE, !.deleted = TRUE, !.deletedAt = now]
           texts == visit[r].seen.before.texts
           after == [active |-> FALSE, deleted |-> TRUE, pageCount |-> x.pageCount, texts |-> texts]
<1>1. /\ visit[r].pc = "delete" /\ UNCHANGED <<version, due, data, rewound, now>>
      /\ books' = [books EXCEPT ![b] = new] /\ audits' = Audit(r, after) /\ End(r, "done")
    BY DEF CommitDelete, SoftDeleted, Cached
<1>2. DOMAIN books' = DOMAIN books /\ books' = [a \in DOMAIN books' |-> books'[a]]
    BY <1>1
<1>3. b \in DOMAIN books
    BY <1>1 DEF SeenInv
<1>4. \A a \in DOMAIN books \ {b} : Same(a) /\ books'[a].texts = books[a].texts
    BY <1>1, OldIsSame
<1>5. IsBook(x) /\ x.rev \in Nat /\ now \in Nat
    BY <1>3 DEF BooksInv, IsBook
<1>6. books'[b] = new
    BY <1>1, <1>3
<1> HIDE DEF x
<1>7. books'[b] = [publisher |-> x.publisher, authors |-> x.authors, categories |-> x.categories,
                   variants |-> x.variants, active |-> FALSE, deleted |-> TRUE,
                   deletedAt |-> now, pageCount |-> x.pageCount, rev |-> x.rev, texts |-> x.texts]
    BY <1>5, <1>6 DEF IsBook
<1>8. /\ IsBook(books'[b]) /\ books'[b].rev = x.rev /\ books'[b].deleted = TRUE /\ books'[b].deletedAt = now
      /\ books'[b].active = FALSE /\ books'[b].pageCount = x.pageCount /\ books'[b].texts = x.texts
    BY <1>5, <1>7 DEF IsBook
<1>9. after = [active |-> books'[b].active, deleted |-> books'[b].deleted,
               pageCount |-> books'[b].pageCount, texts |-> texts]
    BY <1>8
<1>10. IsSeq(books') /\ Len(books') = Len(books)
    BY <1>2, MappedIsSeq DEF BooksInv
<1>11. Audited(r)
    BY <1>1, <1>3, <1>4, <1>5, <1>8, <1>9, <1>10 DEF Audited, x
<1>12. \E y : AdminGoes(r, y)
    BY <1>1, EndGoes
<1> QED BY <1>1, <1>11, <1>12 DEF AdminMove, BooksMove, Busy


\* An update of b may change the variants of another book, and no more of it.
LEMMA OtherUpdated ==
    ASSUME BooksInv, NEW a \in DOMAIN books, NEW b, a # b, NEW body, NEW y, y = UpdatedBook(a, b, body)
    PROVE  /\ IsBook(y) /\ y.rev = books[a].rev /\ y.active = books[a].active /\ y.deleted = books[a].deleted
           /\ y.deletedAt = books[a].deletedAt /\ y.pageCount = books[a].pageCount /\ y.texts = books[a].texts
<1> DEFINE x == books[a]
           variants == [n \in DOMAIN x.variants |-> UpdatedVariant(a, n, body)]
<1>1. y = [x EXCEPT !.variants = variants]
    BY DEF UpdatedBook
<1>2. IsBook(x) /\ x.rev \in Nat
    BY DEF BooksInv, IsBook
<1> HIDE DEF variants, x
<1>3. y = [publisher |-> x.publisher, authors |-> x.authors, categories |-> x.categories,
           variants |-> variants, active |-> x.active, deleted |-> x.deleted,
           deletedAt |-> x.deletedAt, pageCount |-> x.pageCount, rev |-> x.rev, texts |-> x.texts]
    BY <1>1, <1>2 DEF IsBook
<1>4. DOMAIN x.texts = Languages
    BY <1>2 DEF IsBook
<1> QED BY <1>2, <1>3, <1>4, Revised DEF x

\* An update revises its book and leaves its deletion alone.
LEMMA ItselfUpdated ==
    ASSUME BooksInv, NEW b \in DOMAIN books, NEW body, NEW y, y = UpdatedBook(b, b, body)
    PROVE  /\ IsBook(y) /\ y.rev = books[b].rev + 1
           /\ y.deleted = books[b].deleted /\ y.deletedAt = books[b].deletedAt
<1> DEFINE x == books[b]
           variants == [n \in DOMAIN x.variants |-> UpdatedVariant(b, n, body)]
           active == Given(body.active, x.active)
           pageCount == Given(body.pageCount, x.pageCount)
           texts == [l \in Languages |-> IF l \in DOMAIN body.titles
                                         THEN [x.texts[l] EXCEPT !.title = body.titles[l]] ELSE x.texts[l]]
<1>1. y = [x EXCEPT !.variants = variants, !.rev = x.rev + 1, !.active = active,
                    !.pageCount = pageCount, !.texts = texts]
    BY DEF UpdatedBook
<1>2. IsBook(x) /\ x.rev \in Nat /\ DOMAIN texts = Languages
    BY DEF BooksInv, IsBook
<1> HIDE DEF variants, x, active, pageCount, texts
<1>3. y = [publisher |-> x.publisher, authors |-> x.authors, categories |-> x.categories,
           variants |-> variants, active |-> active, deleted |-> x.deleted,
           deletedAt |-> x.deletedAt, pageCount |-> pageCount, rev |-> x.rev + 1, texts |-> texts]
    BY <1>1, <1>2 DEF IsBook
<1>4. IsBook(y) /\ y.rev = x.rev + 1 /\ y.deleted = x.deleted /\ y.deletedAt = x.deletedAt
    BY <1>2, <1>3 DEF IsBook
<1> QED BY <1>4 DEF x

\* updateBook changes its book with a row, and others only in their variants.
LEMMA UpdateMoves ==
    ASSUME BooksInv, VisitInv, SeenInv, NEW r \in Visits, CommitUpdate(r)
    PROVE  AdminMove(r)
<1> DEFINE q == visit[r]
           b == visit[r].book
           body == visit[r].body
           after == [active |-> books'[b].active, deleted |-> books[b].deleted,
                     pageCount |-> books'[b].pageCount, texts |-> books'[b].texts]
           next == [q EXCEPT !.pc = "bump", !.body = books'[b].rev, !.seen = Languages]
<1>1. /\ q.pc = "update" /\ UNCHANGED <<version, due, data, rewound, now>>
      /\ \/ UNCHANGED tables /\ End(r, "error")
         \/ /\ books' = [a \in DOMAIN books |-> UpdatedBook(a, b, body)]
            /\ audits' = Audit(r, after) /\ Goto(r, next)
    BY DEF CommitUpdate, Cached
<1>2. b \in DOMAIN books
    BY <1>1 DEF SeenInv
<1>3. CASE UNCHANGED tables /\ End(r, "error")
    <2>1. \E x : AdminGoes(r, x)
        BY <1>3, EndGoes
    <2> QED BY <1>1, <1>3, <2>1 DEF AdminMove, BooksMove, tables, Busy
<1>4. CASE /\ books' = [a \in DOMAIN books |-> UpdatedBook(a, b, body)]
           /\ audits' = Audit(r, after) /\ Goto(r, next)
    <2>1. DOMAIN books' = DOMAIN books /\ books' = [a \in DOMAIN books' |-> books'[a]]
        BY <1>4
    <2>2. \A a \in DOMAIN books : books'[a] = UpdatedBook(a, b, body)
        BY <1>4
    <2>3. \A a \in DOMAIN books : IsBook(books[a]) /\ books[a].rev \in Nat
        BY DEF BooksInv, IsBook
    <2>4. \A a \in DOMAIN books \ {b} : Same(a) /\ books'[a].texts = books[a].texts
        BY <2>2, <2>3, OtherUpdated DEF Same, HasTexts
    <2>5. /\ IsBook(books'[b]) /\ books'[b].rev = books[b].rev + 1
          /\ books'[b].deleted = books[b].deleted /\ books'[b].deletedAt = books[b].deletedAt
        BY <1>2, <2>2, ItselfUpdated
    <2>6. after = [active |-> books'[b].active, deleted |-> books'[b].deleted,
                   pageCount |-> books'[b].pageCount, texts |-> books'[b].texts]
        BY SMTT(30), <2>5
    <2>7. IsSeq(books') /\ Len(books') = Len(books)
        BY <2>1, MappedIsSeq DEF BooksInv
    <2>8. Audited(r)
        BY <1>1, <1>2, <1>4, <2>3, <2>4, <2>5, <2>6, <2>7 DEF Audited
    <2>9. PICK x : x = next
        OBVIOUS
    <2>10. IsWorking(q)
        BY <1>1 DEF VisitInv, VisitOk, Busy
    <2>11. x = [kind |-> q.kind, pc |-> "bump", book |-> b, body |-> books'[b].rev, seen |-> Languages]
        BY <2>9, <2>10 DEF IsWorking, With
    <2>12. IsWorking(x) /\ x.pc = "bump" /\ x.book = b /\ x.body = books'[b].rev
        BY <2>11 DEF IsWorking, With
    <2>13. books'[b].rev \in Nat
        BY <2>5 DEF IsBook
    <2>14. visit' = [visit EXCEPT ![r] = x]
        BY <1>4, <2>9 DEF Goto
    <2>15. AdminGoes(r, x)
        <3> HIDE DEF b
        <3> QED BY <1>2, <2>1, <2>12, <2>13, <2>14 DEF AdminGoes, Busy
    <2> QED BY <1>1, <2>8, <2>15 DEF AdminMove, BooksMove, Busy
<1> QED BY <1>1, <1>3, <1>4

\* A bump announces a revision that is committed.
LEMMA BumpMoves ==
    ASSUME BooksInv, VisitInv, NEW r \in Visits, BumpDetail(r)
    PROVE  AdminMove(r)
<1> DEFINE q == visit[r]
<1>1. /\ q.pc = "bump" /\ UNCHANGED <<books, audits, data, rewound, now>>
      /\ \E l \in q.seen : /\ Bump(DetailKey(q.book, l), q.body)
                           /\ End(r, "done") \/ Goto(r, [q EXCEPT !.seen = @ \ {l}])
    BY DEF BumpDetail, tables
<1>2. IsWorking(q) /\ Announces(q)
    BY <1>1 DEF VisitInv, VisitOk, Busy
<1>3. Bumped(r)
    BY <1>1 DEF Bumped
<1>4. PICK l \in q.seen : End(r, "done") \/ Goto(r, [q EXCEPT !.seen = @ \ {l}])
    BY <1>1
<1>5. CASE Goto(r, [q EXCEPT !.seen = @ \ {l}])
    <2> DEFINE x == With(q, "bump", q.seen \ {l})
    <2>1. [q EXCEPT !.seen = @ \ {l}] = x
        BY <1>1, <1>2 DEF IsWorking, With
    <2>2. IsWorking(x) /\ x.pc = "bump" /\ x.book = q.book /\ x.body = q.body
        BY WithWorks
    <2> HIDE DEF x
    <2>3. AdminGoes(r, x)
        BY <1>1, <1>2, <1>5, <2>1, <2>2 DEF AdminGoes, Goto, Announces, Busy
    <2> QED BY <1>1, <1>3, <2>3 DEF AdminMove, Busy
<1>6. CASE End(r, "done")
    <2>1. \E x : AdminGoes(r, x)
        BY <1>6, EndGoes
    <2> QED BY <1>1, <1>3, <2>1 DEF AdminMove, Busy
<1> QED BY <1>4, <1>5, <1>6

\* Every step of an admin is one of these moves.
LEMMA AdminMoves ==
    ASSUME BooksInv, VisitInv, SeenInv, NEW r \in Visits, AdminStep(r)
    PROVE  AdminMove(r)
<1>1. CASE \E body \in BookBodies : \E kind \in {"create", "publisher"} : FindPublisher(r, kind, body)
    BY <1>1, NameMoves
<1>2. CASE \E body \in BookBodies : FindAuthor(r, body)
    BY <1>2, NameMoves
<1>3. CASE UpsertPublisher(r) \/ FindAuthors(r) \/ UpsertAuthors(r) \/ OpenBook(r)
    BY <1>3, NameMoves
<1>4. CASE \E b \in Targets, l \in Languages, title \in Titles : OpenTranslation(r, b, l, title)
    BY <1>4, QuietMoves
<1>5. CASE \E body \in CategoryBodies : CreateCategory(r, body)
    BY <1>5, QuietMoves
<1>6. CASE \E b \in Targets, body \in UpdateBodies : ReadBook(r, "update", b, body)
    BY <1>6, ReadMoves
<1>7. CASE \E b \in Targets : ReadBook(r, "delete", b, 0)
    BY <1>7, ReadMoves
<1>8. CASE \E b \in Targets \cap DOMAIN books : \E n \in DOMAIN books[b].variants : \E price \in Prices :
               UpdatePriceVariant(r, b, n, price)
    BY <1>8, PriceMoves
<1> QED BY <1>1, <1>2, <1>3, <1>4, <1>5, <1>6, <1>7, <1>8,
           CommitBookMoves, CommitTranslationMoves, UpdateMoves, DeleteMoves, BumpMoves DEF AdminStep


(* ----------------------------- What time does --------------------------- *)

\* Books are not removed, revised in one direction, and deleted for good.
BooksGrow ==
    /\ DOMAIN books \subseteq DOMAIN books' /\ now' \in Nat /\ now' >= now
    /\ \A b \in DOMAIN books :
          /\ books'[b].rev >= books[b].rev /\ books'[b].rev \in Nat
          /\ books'[b].deletedAt \in Nat /\ books'[b].deletedAt >= books[b].deletedAt
          /\ books'[b].deleted => books[b].deleted \/ books'[b].deletedAt = now
          /\ books[b].deleted => books'[b].deleted

\* Books that are not written stay well-formed.
LEMMA BooksSame ==
    ASSUME BooksInv, UNCHANGED <<books, audits>>, now' \in Nat, now' >= now
    PROVE  BooksInv' /\ BooksGrow
<1>1. \A b \in DOMAIN books : books[b].rev \in Nat /\ books[b].deletedAt \in Nat /\ now \in Nat
    BY DEF BooksInv, IsBook
<1>2. BooksGrow
    BY <1>1 DEF BooksGrow, BooksInv
<1>3. \A b \in DOMAIN books : IsBook(books[b]) /\ books[b].deletedAt <= now'
    BY <1>1 DEF BooksInv
<1>4. BooksInv'
    BY <1>3 DEF BooksInv, IsSeq, IsBook
<1> QED BY <1>2, <1>4

\* The rows stay a sequence.
LEMMA AuditIsSeq ==
    ASSUME BooksInv, NEW r \in Visits, NEW after, audits' = Audit(r, after)
    PROVE  IsSeq(audits')
<1> DEFINE row == [book |-> visit[r].book, before |-> visit[r].seen.before, after |-> after,
                   rows |-> visit[r].seen.rows]
<1>1. audits' = Append(audits, row)
    BY DEF Audit
<1> HIDE DEF row
<1> QED BY <1>1, AppendIsSeq DEF BooksInv

\* A step of an admin leaves books well-formed and revives none.
LEMMA BooksStep ==
    ASSUME BooksInv, NEW r \in Visits, BooksMove(r), now' = now
    PROVE  BooksInv' /\ BooksGrow
<1>0. /\ now \in Nat /\ IsSeq(books) /\ DOMAIN books = 1..Len(books) /\ Len(books) \in Nat
      /\ \A b \in DOMAIN books : IsBook(books[b]) /\ books[b].rev \in Nat /\ books[b].deletedAt \in 0..now
    BY DEF BooksInv, IsBook, IsSeq
<1>1. CASE UNCHANGED <<books, audits>>
    BY <1>0, <1>1, BooksSame
<1>2. CASE Changed(r)
    <2>1. /\ IsSeq(books') /\ DOMAIN books' = 1..Len(books') /\ Len(books') \in Nat
          /\ Len(books') >= Len(books) /\ audits' = audits
        BY <1>2 DEF Changed, IsSeq
    <2>2. \A b \in DOMAIN books : IsBook(books'[b]) /\ books'[b].deletedAt <= now
        BY <1>0, <1>2 DEF Changed, Same
    <2>3. \A b \in DOMAIN books' \ DOMAIN books : IsBook(books'[b]) /\ books'[b].deletedAt <= now
        BY <1>0, <1>2 DEF Changed
    <2>4. \A b \in DOMAIN books' : IsBook(books'[b]) /\ books'[b].deletedAt <= now
        BY <2>2, <2>3
    <2>5. BooksInv'
        BY <1>0, <2>1, <2>4 DEF BooksInv, IsSeq, IsBook
    <2>6. \A b \in DOMAIN books :
              /\ books'[b].rev >= books[b].rev /\ books'[b].rev \in Nat
              /\ books'[b].deletedAt = books[b].deletedAt /\ books'[b].deleted = books[b].deleted
        BY <1>2 DEF Changed, Same, IsBook
    <2>7. BooksGrow
        BY <1>0, <2>1, <2>6 DEF BooksGrow
    <2> QED BY <2>5, <2>7
<1>3. CASE Audited(r)
    <2> DEFINE b == visit[r].book
    <2>1. /\ IsSeq(books') /\ DOMAIN books' = 1..Len(books') /\ Len(books') = Len(books)
          /\ b \in DOMAIN books
        BY SMTT(30), <1>3 DEF Audited, IsSeq
    <2>2. IsSeq(audits')
        BY <1>3, AuditIsSeq DEF Audited
    <2>3. /\ IsBook(books'[b]) /\ books'[b].rev >= books[b].rev
          /\ \/ books'[b].deleted = books[b].deleted /\ books'[b].deletedAt = books[b].deletedAt
             \/ books'[b].deleted /\ books'[b].deletedAt = now
        BY <1>3 DEF Audited
    <2>4. \A a \in DOMAIN books \ {b} : Same(a)
        BY <1>3 DEF Audited
    <2>5. DOMAIN books' = DOMAIN books
        BY <1>0, <2>1
    <2>6. \A a \in DOMAIN books : IsBook(books'[a]) /\ books'[a].deletedAt <= now
        <3> HIDE DEF b
        <3> QED BY <1>0, <2>1, <2>3, <2>4 DEF Same
    <2>7. BooksInv'
        BY <1>0, <2>1, <2>2, <2>5, <2>6 DEF BooksInv, IsSeq, IsBook
    <2>8. \A a \in DOMAIN books :
              /\ books'[a].rev >= books[a].rev /\ books'[a].rev \in Nat
              /\ books'[a].deletedAt \in Nat /\ books'[a].deletedAt >= books[a].deletedAt
              /\ books'[a].deleted => books[a].deleted \/ books'[a].deletedAt = now
              /\ books[a].deleted => books'[a].deleted
        <3> HIDE DEF b
        <3> QED BY <1>0, <2>1, <2>3, <2>4 DEF Same, IsBook
    <2>9. BooksGrow
        BY <1>0, <2>5, <2>8 DEF BooksGrow
    <2> QED BY <2>7, <2>9
<1> QED BY <1>1, <1>2, <1>3 DEF BooksMove

\* What was not deleted at a time that is past will not have been.
LEMMA AliveKept ==
    ASSUME BooksInv, BooksGrow, NEW S, NEW t \in Int, t <= now, AliveAt(S, t)
    PROVE  AliveAt(S, t)'
<1>1. \A b \in DOMAIN books : books[b].deletedAt \in Nat
    BY DEF BooksInv, IsBook
<1>2. now \in Nat
    BY DEF BooksInv
<1> QED BY <1>1, <1>2 DEF BooksGrow, AliveAt


(* ------------------------------- The cache ------------------------------ *)

\* Unless two readers initialise it at once, a version is only counted up, and
\* what is announced only grows.
CacheGrows ==
    /\ rewound \subseteq rewound'
    /\ \A ns : ns.of = "detail" /\ ns \notin rewound' => Version(ns) <= Version(ns)' /\ Due(ns) <= Due(ns)'

\* A version counts up from 0, and nothing is announced before the first.
LEMMA Counts ==
    ASSUME VersionInv, NEW ns
    PROVE  /\ Version(ns) \in Nat /\ Due(ns) \in Nat
           /\ Version(ns) = 0 => Due(ns) = 0
           /\ ns.of = "detail" /\ ns.book \in DOMAIN books /\ BooksInv => Due(ns) <= books[ns.book].rev
BY DEF VersionInv, Version, Due, BooksInv, IsBook

\* A cache that is not written gives nothing up.
LEMMA CacheSame ==
    ASSUME VersionInv, UNCHANGED <<version, due, rewound>>
    PROVE  CacheGrows
<1>1. \A ns : Version(ns)' = Version(ns) /\ Due(ns)' = Due(ns)
    BY DEF Version, Due
<1>2. \A ns : Version(ns) \in Nat /\ Due(ns) \in Nat
    BY Counts
<1> QED BY <1>1, <1>2 DEF CacheGrows

\* What is known of a request stays true while others go on.
LEMMA OthersOk ==
    ASSUME BooksInv, VisitInv, VersionInv, VersionInv', BooksGrow, CacheGrows,
           NEW p \in Visits, visit'[p] = visit[p]
    PROVE  VisitOk(p)'
<1> DEFINE q == visit[p]
<1>0. VisitOk(p)
    BY DEF VisitInv
<1>1. CASE q.pc \in Looking
    <2>1. IsReading(q)
        BY <1>0, <1>1 DEF VisitOk
    <2>2. q.since \in 0..now' /\ q.since \in Nat
        <3>1. q.since \in 0..now /\ now \in Nat
            BY <2>1 DEF IsReading, BooksInv
        <3> QED BY <3>1 DEF BooksGrow
    <2>3. q.ns.of = "detail" /\ q.ns \notin rewound' => q.v <= Version(q.ns)' /\ q.floor <= Due(q.ns)'
        <3> SUFFICES ASSUME q.ns.of = "detail", q.ns \notin rewound'
                     PROVE  q.v <= Version(q.ns)' /\ q.floor <= Due(q.ns)'
            OBVIOUS
        <3> PICK ns : ns = q.ns
            OBVIOUS
        <3>0. visit'[p].ns = ns
            OBVIOUS
        <3>1. q.v \in Nat /\ q.floor \in Nat /\ (ns \notin rewound => q.v <= Version(ns) /\ q.floor <= Due(ns))
            BY <2>1 DEF IsReading
        <3>2. Version(ns) \in Nat /\ Due(ns) \in Nat
            BY Counts
        <3>3. ns \notin rewound /\ Version(ns) <= Version(ns)' /\ Due(ns) <= Due(ns)'
            BY DEF CacheGrows
        <3>4. Version(ns)' \in Nat /\ Due(ns)' \in Nat
            BY DEF VersionInv, Version, Due
        <3>5. q.v <= Version(ns)' /\ q.floor <= Due(ns)'
            BY <3>1, <3>2, <3>3, <3>4
        <3> QED BY <3>0, <3>5 DEF Version, Due
    <2>4. IsReading(q)'
        BY <2>1, <2>2, <2>3 DEF IsReading
    <2> QED BY <1>0, <1>1, <2>4 DEF VisitOk, Looking, Busy, Ended
<1>2. CASE q.pc \in Busy
    <2>1. IsWorking(q) /\ Announces(q)
        BY <1>0, <1>2 DEF VisitOk
    <2>2. Announces(q)'
        <3> SUFFICES ASSUME q.pc = "bump" PROVE q.book \in DOMAIN books' /\ q.body \in Nat /\ q.body <= books'[q.book].rev
            BY DEF Announces
        <3>1. q.book \in DOMAIN books /\ q.body \in Nat /\ q.body <= books[q.book].rev
            BY <2>1 DEF Announces
        <3>2. books[q.book].rev \in Nat
            BY <3>1 DEF BooksInv, IsBook
        <3> QED BY <3>1, <3>2 DEF BooksGrow
    <2>3. IsWorking(q)'
        BY <2>1 DEF IsWorking
    <2> QED BY <1>0, <1>2, <2>2, <2>3 DEF VisitOk, Looking, Busy, Ended
<1>3. CASE q.pc \in Ended
    BY <1>0, <1>3 DEF VisitOk, Looking, Busy, Ended
<1> QED BY <1>0, <1>1, <1>2, <1>3 DEF VisitOk


\* What a request knows not to be deleted stays so while it waits.
LEMMA OthersAlive ==
    ASSUME BooksInv, BooksGrow, NEW p \in Visits, visit'[p] = visit[p], VisitOk(p), ServedAlive(p)
    PROVE  ServedAlive(p)'
<1> DEFINE q == visit[p]
<1>0. now \in Nat /\ now' \in Nat /\ now' >= now /\ TTL \in Nat
    BY ZenonT(30), VisitConstants DEF BooksInv, BooksGrow
<1>1. q.pc \in Looking => q.since \in Int /\ q.since <= now
    BY <1>0 DEF VisitOk, IsReading
<1>2. q.pc \in {"alike", "cards"} => IsDetail(q.found.page) /\ AliveAt({q.found.page.book}, q.since)'
    <2> SUFFICES ASSUME q.pc \in {"alike", "cards"}
                 PROVE  IsDetail(q.found.page) /\ AliveAt({q.found.page.book}, q.since)'
        OBVIOUS
    <2> PICK S, t : S = {q.found.page.book} /\ t = q.since
        OBVIOUS
    <2>1. IsDetail(q.found.page) /\ AliveAt(S, t) /\ t \in Int /\ t <= now
        BY <1>1 DEF ServedAlive, Looking
    <2>2. AliveAt(S, t)'
        BY <2>1, AliveKept
    <2> QED BY <2>1, <2>2 DEF AliveAt
<1>3. q.pc = "cards" => IsSeq(q.found.ids)
    BY DEF ServedAlive
<1>4. q.pc = "store" => AliveAt(ShownOn(q.ns, q.found), q.since)'
    <2> SUFFICES ASSUME q.pc = "store" PROVE AliveAt(ShownOn(q.ns, q.found), q.since)'
        OBVIOUS
    <2> PICK S, t : S = ShownOn(q.ns, q.found) /\ t = q.since
        OBVIOUS
    <2>1. AliveAt(S, t) /\ t \in Int /\ t <= now
        BY <1>1 DEF ServedAlive, Looking
    <2>2. AliveAt(S, t)'
        BY <2>1, AliveKept
    <2>3. ShownOn(q.ns, q.found)' = S
        BY DEF ShownOn
    <2> QED BY <2>2, <2>3 DEF AliveAt
<1>5. q.pc = "served" =>
          q.at \in 0..now' /\ q.lag \in Nat /\ AliveAt(ShownOn(q.ns, q.page), q.at - TTL - q.lag)'
    <2> SUFFICES ASSUME q.pc = "served"
                 PROVE  q.at \in 0..now' /\ q.lag \in Nat /\ AliveAt(ShownOn(q.ns, q.page), q.at - TTL - q.lag)'
        OBVIOUS
    <2> PICK S, t : S = ShownOn(q.ns, q.page) /\ t = q.at - TTL - q.lag
        OBVIOUS
    <2>1. AliveAt(S, t) /\ q.at \in 0..now /\ q.lag \in Nat
        BY DEF ServedAlive
    <2>2. t \in Int /\ t <= now
        BY <1>0, <2>1
    <2>3. AliveAt(S, t)'
        BY <2>1, <2>2, AliveKept
    <2>4. ShownOn(q.ns, q.page)' = S
        BY DEF ShownOn
    <2> QED BY <1>0, <2>1, <2>3, <2>4 DEF AliveAt
<1> HIDE DEF q
<1>6. /\ q.pc = "cards" => IsSeq(q.found.ids)'
      /\ q.pc \in {"alike", "cards"} => IsDetail(q.found.page)'
    BY <1>2, <1>3 DEF IsSeq, IsDetail, q
<1> QED BY <1>2, <1>3, <1>4, <1>5 DEF ServedAlive, q, IsSeq, IsDetail

\* So does what a stored page shows.
LEMMA CachedKept ==
    ASSUME BooksInv, BooksGrow, NEW key \in DOMAIN data, key \in DOMAIN data', data'[key] = data[key],
           CachedAlive(key)
    PROVE  CachedAlive(key)'
<1> DEFINE entry == data[key]
<1>0. now \in Nat /\ now' \in Nat /\ now' >= now /\ TTL \in Nat
    BY ZenonT(30), VisitConstants DEF BooksInv, BooksGrow
<1>1. entry.lag \in Nat /\ entry.until \in Nat /\ (key[1].of # "stats" => entry.until <= now + TTL)
    BY DEF CachedAlive
<1> PICK S, t : S = ShownOn(key[1], entry.page) /\ t = entry.until - TTL - entry.lag
    OBVIOUS
<1>2. AliveAt(S, t) /\ t \in Int
    BY <1>0, <1>1 DEF CachedAlive
<1>3. AliveAt(S, t)'
    <2>1. CASE key[1].of = "stats"
        <3>1. S = {}
            BY <2>1 DEF ShownOn
        <3> QED BY <3>1 DEF AliveAt
    <2>2. CASE key[1].of # "stats"
        <3>1. t <= now
            BY <1>0, <1>1, <2>2
        <3> QED BY <1>2, <3>1, AliveKept
    <2> QED BY <2>1, <2>2
<1>4. ShownOn(key[1], entry.page)' = S
    BY DEF ShownOn
<1> QED BY <1>0, <1>1, <1>3, <1>4 DEF CachedAlive, AliveAt

\* The version of a page that is not lost is kept or given up.
VersionMoves ==
    /\ rewound \subseteq rewound'
    /\ \A ns : ns.of = "detail" /\ ns \notin rewound' =>
          \/ Version(ns)' = Version(ns) /\ Due(ns)' = Due(ns)
          \/ Version(ns)' = Version(ns) + 1

\* A request expects of a page no more than before, or what was announced.
FloorMoves(r) ==
    visit'[r].pc \in Looking =>
        \/ visit[r].pc \in Looking /\ KeyOf(r)' = KeyOf(r) /\ visit'[r].floor = visit[r].floor
        \/ visit'[r].floor = 0
        \/ \E ns : /\ visit'[r].ns = ns /\ visit'[r].floor = Due(ns) /\ visit'[r].v = Version(ns)
                   /\ UNCHANGED <<version, due>>

\* A page under a key stays fresh.
LEMMA FreshKept ==
    ASSUME VersionInv, NEW r \in Visits, NEW key, NEW page, IsFresh(key, page),
           \A p \in Visits \ {r} : visit'[p] = visit[p], VersionMoves, FloorMoves(r)
    PROVE  IsFresh(key, page)'
<1> SUFFICES ASSUME key[1].of = "detail", key[1] \notin rewound'
             PROVE  /\ page.rev \in Nat /\ key[2] \in 0..Version(key[1])'
                    /\ key[2] = Version(key[1])' => page.rev >= Due(key[1])'
                    /\ \A p \in Visits : visit'[p].pc \in Looking /\ KeyOf(p)' = key => page.rev >= visit'[p].floor
    BY DEF IsFresh, KeyOf, Version, Due
<1>1. /\ page.rev \in Nat /\ key[2] \in 0..Version(key[1])
      /\ key[2] = Version(key[1]) => page.rev >= Due(key[1])
      /\ \A p \in Visits : visit[p].pc \in Looking /\ KeyOf(p) = key => page.rev >= visit[p].floor
    BY DEF IsFresh, VersionMoves
<1>2. Version(key[1]) \in Nat
    BY Counts
<1>3. key[2] \in 0..Version(key[1])' /\ (key[2] = Version(key[1])' => page.rev >= Due(key[1])')
    BY <1>1, <1>2 DEF VersionMoves
<1>4. ASSUME NEW p \in Visits, visit'[p].pc \in Looking, KeyOf(p)' = key
      PROVE  page.rev >= visit'[p].floor
    <2>0. KeyOf(p)' = <<visit'[p].ns, visit'[p].v>>
        BY DEF KeyOf
    <2>1. CASE p # r
        <3>1. visit'[p] = visit[p]
            BY <2>1
        <3>2. KeyOf(p)' = KeyOf(p)
            BY <3>1 DEF KeyOf
        <3> QED BY <1>1, <1>4, <3>1, <3>2
    <2>2. CASE p = r
        <3>1. CASE visit[r].pc \in Looking /\ KeyOf(r)' = KeyOf(r) /\ visit'[r].floor = visit[r].floor
            BY <1>1, <1>4, <2>2, <3>1
        <3>2. CASE visit'[r].floor = 0
            BY <1>1, <2>2, <3>2
        <3>3. CASE \E ns : /\ visit'[r].ns = ns /\ visit'[r].floor = Due(ns) /\ visit'[r].v = Version(ns)
                           /\ UNCHANGED <<version, due>>
            <4>1. key[1] = visit'[r].ns /\ key[2] = visit'[r].v
                BY <1>4, <2>0, <2>2
            <4>2. visit'[r].floor = Due(key[1]) /\ key[2] = Version(key[1])
                BY <3>3, <4>1
            <4> QED BY <1>1, <2>2, <4>2
        <3> QED BY <1>4, <2>2, <3>1, <3>2, <3>3 DEF FloorMoves
    <2> QED BY <2>1, <2>2
<1> QED BY <1>1, <1>3, <1>4

\* So does what a request has in hand.
LEMMA OthersFresh ==
    ASSUME VersionInv, NEW r \in Visits, \A p \in Visits \ {r} : visit'[p] = visit[p],
           VersionMoves, FloorMoves(r), NEW p \in Visits \ {r}, ServedFresh(p)
    PROVE  ServedFresh(p)'
<1>1. visit'[p] = visit[p]
    OBVIOUS
<1>2. ASSUME visit[p].pc = "store" PROVE (IsFresh(KeyOf(p), visit[p].found))'
    <2> PICK key, page : key = KeyOf(p) /\ page = visit[p].found
        OBVIOUS
    <2>1. IsFresh(key, page)
        BY <1>2 DEF ServedFresh
    <2>2. IsFresh(key, page)'
        BY <2>1, FreshKept
    <2>3. KeyOf(p)' = key /\ visit'[p].found = page
        BY <1>1 DEF KeyOf
    <2> QED BY <2>2, <2>3 DEF IsFresh
<1> QED BY <1>1, <1>2 DEF ServedFresh, VersionMoves

\* A step of one request.
LEMMA StepKeeps ==
    ASSUME BooksInv, VisitInv, VersionInv, FreshInv, DeletedInv,
           NEW r \in Visits, NEW x, visit' = [visit EXCEPT ![r] = x],
           BooksGrow, CacheGrows, VersionMoves, FloorMoves(r), VersionInv',
           VisitOk(r)', ServedFresh(r)', ServedAlive(r)',
           \A key \in DOMAIN data' :
              \/ key \in DOMAIN data /\ data'[key] = data[key]
              \/ IsFresh(key, data[key].page)' /\ CachedAlive(key)'
    PROVE  VisitInv' /\ FreshInv' /\ DeletedInv'
<1>1. DOMAIN visit' = Visits /\ visit' = [p \in Visits |-> visit'[p]]
    BY DEF VisitInv
<1>2. \A p \in Visits \ {r} : visit'[p] = visit[p]
    BY DEF VisitInv
<1>3. \A p \in Visits : VisitOk(p)'
    BY <1>2, OthersOk
<1>4. \A p \in Visits : ServedFresh(p)'
    BY <1>2, OthersFresh DEF FreshInv
<1>5. \A p \in Visits : ServedAlive(p)'
    BY <1>2, OthersAlive DEF DeletedInv, VisitInv
<1>6. ASSUME NEW key \in DOMAIN data' PROVE IsFresh(key, data[key].page)' /\ CachedAlive(key)'
    <2>1. CASE key \in DOMAIN data /\ data'[key] = data[key]
        <3> PICK page : page = data[key].page
            OBVIOUS
        <3>1. IsFresh(key, page)
            BY <2>1 DEF FreshInv
        <3>2. IsFresh(key, page)'
            BY <1>2, <3>1, FreshKept
        <3>3. data'[key].page = page
            BY <2>1
        <3>4. IsFresh(key, data[key].page)'
            BY <3>2, <3>3 DEF IsFresh
        <3>5. CachedAlive(key)'
            BY <2>1, CachedKept DEF DeletedInv
        <3> QED BY <3>4, <3>5
    <2> QED BY <1>6, <2>1
<1>7. VisitInv'
    BY <1>1, <1>3 DEF VisitInv
<1>8. FreshInv'
    BY <1>4, <1>6 DEF FreshInv
<1>9. DeletedInv'
    BY <1>5, <1>6 DEF DeletedInv
<1> QED BY <1>7, <1>8, <1>9


\* A request of a reader, or of an admin, that ends.
LEMMA EndsOk ==
    ASSUME NEW r \in Visits, visit'[r].pc \in {"refused", "done", "error"}
    PROVE  VisitOk(r)' /\ ServedFresh(r)' /\ ServedAlive(r)' /\ FloorMoves(r)
BY DEF VisitOk, ServedFresh, ServedAlive, FloorMoves, Looking, Busy, Ended

CacheInv == VisitInv /\ VersionInv /\ FreshInv /\ DeletedInv

\* An admin disturbs neither the cache nor its readers.
LEMMA AdminKeeps ==
    ASSUME BooksInv, CacheInv, NEW r \in Visits, AdminMove(r)
    PROVE  CacheInv'
<1> USE DEF CacheInv
<1>1. /\ visit[r].pc \in Busy \union {"idle"} /\ UNCHANGED <<data, rewound, now>>
      /\ \/ BooksMove(r) /\ UNCHANGED <<version, due>>
         \/ UNCHANGED <<books, audits>> /\ Bumped(r)
    BY DEF AdminMove
<1>2. PICK x : AdminGoes(r, x)
    BY DEF AdminMove
<1>3. visit' = [visit EXCEPT ![r] = x] /\ visit'[r] = x
    BY <1>2 DEF AdminGoes, VisitInv
<1>4. BooksGrow
    <2>1. BooksMove(r)
        BY <1>1 DEF BooksMove
    <2> QED BY <1>1, <2>1, BooksStep
<1>5. \A ns : Version(ns) \in Nat /\ Due(ns) \in Nat
    BY Counts
<1>6. VersionInv' /\ CacheGrows /\ VersionMoves
    <2>1. CASE UNCHANGED <<version, due>>
        <3>1. \A ns : Version(ns)' = Version(ns) /\ Due(ns)' = Due(ns)
            BY <2>1 DEF Version, Due
        <3>2. VersionInv'
            <4>1. \A b \in DOMAIN books : books[b].rev \in Nat
                BY DEF BooksInv, IsBook
            <4> QED BY <1>4, <2>1, <4>1 DEF VersionInv, BooksGrow
        <3> QED BY <1>1, <1>5, <3>1, <3>2 DEF CacheGrows, VersionMoves
    <2>2. CASE UNCHANGED <<books, audits>> /\ Bumped(r)
        <3> DEFINE q == visit[r]
        <3>1. PICK l : Bump(DetailKey(q.book, l), q.body) /\ q.pc = "bump"
            BY <2>2 DEF Bumped
        <3>2. PICK key : key = DetailKey(q.book, l)
            OBVIOUS
        <3>3. key.of = "detail" /\ key.book = q.book
            BY <3>2 DEF DetailKey
        <3>4. q.book \in DOMAIN books /\ q.body \in Nat /\ q.body <= books[q.book].rev
            BY <3>1 DEF VisitInv, VisitOk, Busy, Announces
        <3> HIDE DEF q
        <3>5. /\ version' = Put(version, key, Version(key) + 1)
              /\ due' = Put(due, key, IF q.body > Due(key) THEN q.body ELSE Due(key))
            BY <3>1, <3>2 DEF Bump
        <3>6. /\ DOMAIN version' = DOMAIN version \union {key} /\ version'[key] = Version(key) + 1
              /\ \A ns \in DOMAIN version \ {key} : version'[ns] = version[ns]
            BY <3>5 DEF Put
        <3>7. /\ DOMAIN due' = DOMAIN due \union {key}
              /\ due'[key] = IF q.body > Due(key) THEN q.body ELSE Due(key)
              /\ \A ns \in DOMAIN due \ {key} : due'[ns] = due[ns]
            BY <3>5 DEF Put
        <3>8. Due(key) \in Nat /\ Version(key) \in Nat /\ Due(key) <= books[key.book].rev
            BY <3>3, <3>4, Counts
        <3>9. VersionInv'
            BY <2>2, <3>3, <3>4, <3>6, <3>7, <3>8 DEF VersionInv
        <3>10. \A ns : ns # key => Version(ns)' = Version(ns) /\ Due(ns)' = Due(ns)
            BY <3>6, <3>7 DEF Version, Due
        <3>11. Version(key)' = Version(key) + 1 /\ Due(key)' >= Due(key)
            BY <3>4, <3>6, <3>7, <3>8 DEF Version, Due
        <3>12. CacheGrows
            BY <1>1, <1>5, <3>8, <3>10, <3>11 DEF CacheGrows
        <3>13. VersionMoves
            BY <1>1, <3>10, <3>11 DEF VersionMoves
        <3> QED BY <3>9, <3>12, <3>13
    <2> QED BY <1>1, <2>1, <2>2
<1>7. VisitOk(r)' /\ ServedFresh(r)' /\ ServedAlive(r)' /\ FloorMoves(r)
    <2>1. CASE x.pc \in {"done", "error", "refused"}
        BY <1>3, <2>1, EndsOk
    <2>2. CASE x.pc \in Busy
        <3>1. IsWorking(x) /\ (x.pc = "bump" => x.book \in DOMAIN books' /\ x.body \in Nat /\ x.body <= books'[x.book].rev)
            BY <1>2, <2>2 DEF AdminGoes
        <3>2. VisitOk(r)'
            BY <1>3, <2>2, <3>1 DEF VisitOk, IsWorking, Announces, Busy, Looking
        <3> QED BY <1>3, <2>2, <3>2 DEF ServedFresh, ServedAlive, FloorMoves, Looking, Busy
    <2> QED BY <1>2, <2>1, <2>2 DEF AdminGoes
<1>8. \A key \in DOMAIN data' : key \in DOMAIN data /\ data'[key] = data[key]
    BY <1>1
<1>9. VisitInv' /\ FreshInv' /\ DeletedInv'
    BY <1>3, <1>4, <1>6, <1>7, <1>8, StepKeeps
<1> QED BY <1>6, <1>9


\* A step of a reader that changes neither versions nor pages.
LEMMA ReadingKeeps ==
    ASSUME BooksInv, CacheInv, UNCHANGED <<tables, version, data, rewound, due, now>>,
           NEW r \in Visits, NEW x, visit' = [visit EXCEPT ![r] = x],
           VisitOk(r)', ServedFresh(r)', ServedAlive(r)', FloorMoves(r)
    PROVE  CacheInv'
<1> USE DEF CacheInv
<1>1. UNCHANGED <<books, audits, version, data, rewound, due, now>>
    BY DEF tables
<1>2. BooksGrow
    BY <1>1, BooksSame DEF BooksInv
<1>3. VersionInv' /\ CacheGrows
    BY <1>1, CacheSame DEF VersionInv
<1>4. VersionMoves
    BY <1>1 DEF VersionMoves, Version, Due
<1>5. \A key \in DOMAIN data' : key \in DOMAIN data /\ data'[key] = data[key]
    BY <1>1
<1>6. VisitInv' /\ FreshInv' /\ DeletedInv'
    BY <1>2, <1>3, <1>4, <1>5, StepKeeps
<1> QED BY <1>3, <1>6

\* A reader begins with the version of now, and what was announced till now.
LEMMA BeginKeeps ==
    ASSUME BooksInv, CacheInv, NEW r \in Visits, NEW ns, NEW word, NEW pc \in {"init", "data"},
           UNCHANGED <<tables, version, data, rewound, due, now>>,
           Goto(r, Reading(ns, word, pc)),
           pc = "init" => Version(ns) = 0,
           ns.of = "list" => ns.number \in Nat \ {0}
    PROVE  CacheInv'
<1> PICK x : x = Reading(ns, word, pc)
    OBVIOUS
<1>1. /\ x.pc = pc /\ x.ns = ns /\ x.v = Version(ns) /\ x.floor = Due(ns) /\ x.since = now
      /\ x = [kind |-> "read", pc |-> x.pc, ns |-> x.ns, word |-> x.word, v |-> x.v,
              floor |-> x.floor, since |-> x.since, found |-> x.found]
    BY DEF Reading
<1>2. visit' = [visit EXCEPT ![r] = x] /\ visit'[r] = x
    BY DEF Goto, CacheInv, VisitInv
<1>3. Version(ns) \in Nat /\ Due(ns) \in Nat /\ (Version(ns) = 0 => Due(ns) = 0) /\ now \in Nat
    BY Counts DEF CacheInv, BooksInv
<1>4. UNCHANGED <<version, rewound, due, now>> /\ Version(ns)' = Version(ns) /\ Due(ns)' = Due(ns)
    BY DEF Version, Due
<1>5. /\ x.v \in Nat /\ x.floor \in Nat /\ x.since \in 0..now'
      /\ x.pc = "init" => x.v = 0 /\ x.floor = 0
      /\ x.ns.of = "list" => x.ns.number \in Nat \ {0}
      /\ x.v <= Version(ns)' /\ x.floor <= Due(ns)'
    BY <1>1, <1>3, <1>4
<1>6. x.v <= Version(x.ns)' /\ x.floor <= Due(x.ns)'
    BY <1>1, <1>5
<1>7. IsReading(x)'
    BY <1>1, <1>5, <1>6 DEF IsReading
<1>8. VisitOk(r)'
    BY <1>1, <1>2, <1>7 DEF VisitOk, IsReading, Looking, Busy
<1>9. FloorMoves(r)
    BY <1>1, <1>2, <1>4 DEF FloorMoves
<1>10. ServedFresh(r)' /\ ServedAlive(r)'
    BY <1>1, <1>2 DEF ServedFresh, ServedAlive
<1> QED BY <1>2, <1>8, <1>9, <1>10, ReadingKeeps

\* The request sets the version without a look at it.
LEMMA InitKeeps ==
    ASSUME BooksInv, CacheInv, NEW r \in Visits, InitVersion(r)
    PROVE  CacheInv'
<1> DEFINE q == visit[r]
           ns == visit[r].ns
           x == [q EXCEPT !.pc = "data", !.v = 1]
<1>1. /\ q.pc = "init" /\ version' = Put(version, ns, 1)
      /\ rewound' = IF Version(ns) > 1 THEN rewound \union {ns} ELSE rewound
      /\ visit' = [visit EXCEPT ![r] = x] /\ UNCHANGED <<books, audits, data, due, now>>
    BY DEF InitVersion, Goto, tables
<1>2. IsReading(q) /\ q.v = 0 /\ q.floor = 0
    BY <1>1 DEF CacheInv, VisitInv, VisitOk, Looking, IsReading
<1>3. PICK y : y = x
    OBVIOUS
<1>4. y = [kind |-> "read", pc |-> "data", ns |-> ns, word |-> q.word, v |-> 1,
           floor |-> 0, since |-> q.since, found |-> q.found]
    <2>1. PICK p : p = q
        OBVIOUS
    <2>2. PICK f : f = [kind |-> "read", pc |-> "data", ns |-> p.ns, word |-> p.word, v |-> 1,
                        floor |-> p.floor, since |-> p.since, found |-> p.found]
        OBVIOUS
    <2>3. p = [kind |-> "read", pc |-> p.pc, ns |-> p.ns, word |-> p.word, v |-> p.v,
               floor |-> p.floor, since |-> p.since, found |-> p.found]
        BY <1>2, <2>1 DEF IsReading
    <2>4. y = [p EXCEPT !.pc = "data", !.v = 1]
        BY <1>3, <2>1
    <2> HIDE DEF q, x
    <2>5. DOMAIN y = DOMAIN f
        BY <2>2, <2>3, <2>4
    <2>6. y = [n \in DOMAIN y |-> y[n]] /\ f = [n \in DOMAIN f |-> f[n]]
        BY <2>2, <2>3, <2>4
    <2>7. \A n \in DOMAIN f : y[n] = f[n]
        <3>1. DOMAIN f = {"kind", "pc", "ns", "word", "v", "floor", "since", "found"}
            BY <2>2
        <3>2. y.kind = p.kind /\ y.ns = p.ns /\ y.word = p.word /\ y.floor = p.floor /\ y.since = p.since /\ y.found = p.found
            BY <2>3, <2>4
        <3>3. y.pc = "data" /\ y.v = 1 /\ p.kind = "read"
            BY <2>3, <2>4
        <3>4. f.kind = "read" /\ f.ns = p.ns /\ f.word = p.word /\ f.floor = p.floor /\ f.since = p.since /\ f.found = p.found
            BY <2>2
        <3>5. f.pc = "data" /\ f.v = 1
            BY <2>2
        <3> QED BY <3>1, <3>2, <3>3, <3>4, <3>5
    <2>8. y = f
        BY <2>5, <2>6, <2>7
    <2> QED BY <1>2, <2>1, <2>2, <2>8 DEF q
<1>5. visit' = [visit EXCEPT ![r] = y] /\ visit'[r] = y
    BY <1>1, <1>3 DEF CacheInv, VisitInv
<1>6. PICK key : key = ns
    OBVIOUS
<1>7. /\ DOMAIN version' = DOMAIN version \union {key} /\ version'[key] = 1
      /\ \A k \in DOMAIN version \ {key} : version'[k] = version[k]
    BY <1>1, <1>6 DEF Put
<1>8. /\ Version(key)' = 1 /\ \A k : Due(k)' = Due(k)
      /\ \A k : k # key => Version(k)' = Version(k)
    BY <1>1, <1>7 DEF Version, Due
<1>9. \A k : Version(k) \in Nat /\ Due(k) \in Nat
    BY Counts DEF CacheInv
<1>10. rewound \subseteq rewound' /\ (Version(key) > 1 => key \in rewound')
    BY <1>1, <1>6
<1>11. VersionInv'
    BY <1>1, <1>7 DEF CacheInv, VersionInv
<1>12. CacheGrows
    BY <1>8, <1>9, <1>10 DEF CacheGrows
<1>13. VersionMoves
    BY <1>8, <1>9, <1>10 DEF VersionMoves
<1>14. BooksGrow
    BY <1>1, BooksSame DEF BooksInv
<1>15. IsReading(y)'
    <2>1. y.v = 1 /\ y.floor = 0 /\ y.ns = key /\ y.pc = "data" /\ y.since = q.since
        BY <1>4, <1>6
    <2>2. q.since \in 0..now' /\ (key.of = "list" => key.number \in Nat \ {0})
        BY <1>1, <1>2, <1>6 DEF IsReading
    <2>3. Version(key)' = 1 /\ Due(key)' \in Nat
        BY <1>8, <1>9
    <2>4. y.ns.of = "detail" /\ y.ns \notin rewound' => y.v <= Version(y.ns)' /\ y.floor <= Due(y.ns)'
        BY <2>1, <2>3
    <2>5. y = [kind |-> "read", pc |-> y.pc, ns |-> y.ns, word |-> y.word, v |-> y.v,
               floor |-> y.floor, since |-> y.since, found |-> y.found]
        BY <1>4
    <2> HIDE DEF q, ns
    <2> QED BY <2>1, <2>2, <2>4, <2>5 DEF IsReading
<1>16. VisitOk(r)'
    BY <1>4, <1>5, <1>15 DEF VisitOk, Looking, Busy
<1>17. FloorMoves(r) /\ ServedFresh(r)' /\ ServedAlive(r)'
    BY <1>4, <1>5 DEF FloorMoves, ServedFresh, ServedAlive
<1>18. \A k \in DOMAIN data' : k \in DOMAIN data /\ data'[k] = data[k]
    BY <1>1
<1>19. VisitInv' /\ FreshInv' /\ DeletedInv'
    BY <1>5, <1>11, <1>12, <1>13, <1>14, <1>16, <1>17, <1>18, StepKeeps DEF CacheInv
<1> QED BY <1>11, <1>19 DEF CacheInv

\* What was not deleted at a time was not before it.
LEMMA AliveBefore ==
    ASSUME BooksInv, NEW S, NEW t \in Int, NEW u \in Int, u <= t, AliveAt(S, t)
    PROVE  AliveAt(S, u)
<1>1. \A b \in DOMAIN books : books[b].deletedAt \in Nat
    BY DEF BooksInv, IsBook
<1> QED BY <1>1 DEF AliveAt

\* A request that goes on has what it had, except for some fields.
Asking(q, pc, since, found) ==
    [kind |-> "read", pc |-> pc, ns |-> q.ns, word |-> q.word, v |-> q.v,
     floor |-> q.floor, since |-> since, found |-> found]

StillAsks(y, q) ==
    /\ DOMAIN y = {"kind", "pc", "ns", "word", "v", "floor", "since", "found"}
    /\ y = [n \in DOMAIN y |-> y[n]]
    /\ y.kind = "read" /\ y.ns = q.ns /\ y.word = q.word /\ y.v = q.v /\ y.floor = q.floor

\* A request is the record of its fields.
LEMMA AskingByFields ==
    ASSUME NEW q, NEW y, StillAsks(y, q)
    PROVE  y = Asking(q, y.pc, y.since, y.found)
<1> PICK x : x = Asking(q, y.pc, y.since, y.found)
    OBVIOUS
<1>1. StillAsks(x, q) /\ x.pc = y.pc /\ x.since = y.since /\ x.found = y.found
    BY DEF Asking, StillAsks
<1>2. \A n \in DOMAIN y : y[n] = x[n]
    BY <1>1 DEF StillAsks
<1>3. y = x
    BY <1>1, <1>2 DEF StillAsks
<1> QED BY <1>3

\* A reader that goes on expects what it did before.
LEMMA AskingOn ==
    ASSUME CacheInv, NEW r \in Visits, visit[r].pc \in Looking \ {"init"},
           UNCHANGED <<version, rewound, due, now>>,
           NEW pc \in Looking \ {"init"}, NEW since \in 0..now, NEW found,
           visit' = [visit EXCEPT ![r] = Asking(visit[r], pc, since, found)]
    PROVE  VisitOk(r)' /\ FloorMoves(r)
<1> PICK q, y : q = visit[r] /\ y = Asking(q, pc, since, found)
    OBVIOUS
<1>1. visit'[r] = y
    BY DEF CacheInv, VisitInv
<1>2. IsReading(q)
    BY DEF CacheInv, VisitInv, VisitOk
<1>3. /\ y = [kind |-> "read", pc |-> y.pc, ns |-> y.ns, word |-> y.word, v |-> y.v,
              floor |-> y.floor, since |-> y.since, found |-> y.found]
      /\ y.pc = pc /\ y.ns = q.ns /\ y.v = q.v /\ y.floor = q.floor /\ y.since = since
    BY DEF Asking
<1>4. y.v \in Nat /\ y.floor \in Nat /\ y.since \in 0..now' /\ y.pc # "init"
    BY <1>2, <1>3 DEF IsReading, Looking
<1>5. y.ns.of = "list" => y.ns.number \in Nat \ {0}
    BY <1>2, <1>3 DEF IsReading
<1>6. y.ns.of = "detail" /\ y.ns \notin rewound' => y.v <= Version(y.ns)' /\ y.floor <= Due(y.ns)'
    BY <1>2, <1>3 DEF IsReading, Version, Due
<1>7. IsReading(y)'
    BY <1>3, <1>4, <1>5, <1>6 DEF IsReading
<1>8. VisitOk(r)'
    BY <1>1, <1>3, <1>7 DEF VisitOk, IsReading, Looking, Busy
<1>9. KeyOf(r)' = KeyOf(r) /\ visit'[r].floor = visit[r].floor
    BY <1>1, <1>3 DEF KeyOf
<1> QED BY <1>8, <1>9 DEF FloorMoves

\* A page from the cache is as new as its reader expects; without one the queries begin.
LEMMA GetDataKeeps ==
    ASSUME BooksInv, CacheInv, NEW r \in Visits, GetData(r)
    PROVE  CacheInv'
<1> DEFINE q == visit[r]
           key == KeyOf(r)
<1>0. /\ q.pc = "data" /\ UNCHANGED <<tables, version, data, rewound, due, now>>
      /\ now \in Nat /\ TTL \in Nat /\ IsReading(q)
    BY ZenonT(30), VisitConstants DEF GetData, BooksInv, CacheInv, VisitInv, VisitOk, Looking
<1>1. CASE IsCached(key)
    <2> PICK page, lag, until, ns : /\ page = data[key].page /\ lag = data[key].lag
                                    /\ until = data[key].until /\ ns = q.ns
        OBVIOUS
    <2> PICK y : y = Served(r, page, lag)
        OBVIOUS
    <2>1. key \in DOMAIN data /\ now <= until /\ key[1] = ns
        BY <1>1 DEF IsCached, KeyOf
    <2>2. visit' = [visit EXCEPT ![r] = y] /\ visit'[r] = y
        BY <1>1 DEF GetData, Goto, CacheInv, VisitInv
    <2>3. y.pc = "served" /\ y.ns = ns /\ y.floor = q.floor /\ y.page = page /\ y.at = now /\ y.lag = lag
        BY DEF Served
    <2>4. ns.of = "detail" /\ ns \notin rewound => page.rev >= q.floor
        <3>1. IsFresh(key, page)
            BY <2>1 DEF CacheInv, FreshInv
        <3> QED BY <1>0, <2>1, <3>1 DEF IsFresh, Looking
    <2>5. ServedFresh(r)'
        BY <1>0, <2>2, <2>3, <2>4 DEF ServedFresh
    <2>6. lag \in Nat /\ until \in Nat /\ AliveAt(ShownOn(ns, page), until - TTL - lag)
        BY <2>1 DEF CacheInv, DeletedInv, CachedAlive
    <2> PICK S, t : S = ShownOn(ns, page) /\ t = now - TTL - lag
        OBVIOUS
    <2>7. AliveAt(S, t)
        <3>1. until - TTL - lag \in Int /\ t \in Int /\ t <= until - TTL - lag
            BY <1>0, <2>1, <2>6
        <3> QED BY <2>6, <3>1, AliveBefore
    <2>8. AliveAt(S, t)'
        BY SMTT(30), <1>0, <2>7 DEF AliveAt, tables
    <2>9. ServedAlive(r)'
        <3>1. ShownOn(visit[r].ns, visit[r].page)' = S
            BY <2>2, <2>3 DEF ShownOn
        <3>2. (visit[r].at - TTL - visit[r].lag)' = t
            BY <2>2, <2>3
        <3>3. AliveAt(ShownOn(visit[r].ns, visit[r].page), visit[r].at - TTL - visit[r].lag)'
            BY <2>8, <3>1, <3>2 DEF AliveAt
        <3> QED BY SMTT(30), <1>0, <2>2, <2>3, <2>6, <3>3 DEF ServedAlive
    <2>10. VisitOk(r)' /\ FloorMoves(r)
        BY <2>2, <2>3 DEF VisitOk, FloorMoves, Looking, Busy, Ended
    <2> QED BY <1>0, <2>2, <2>5, <2>9, <2>10, ReadingKeeps
<1>2. CASE ~IsCached(key)
    <2> PICK p, y : p = q /\ y = [q EXCEPT !.pc = "query", !.since = now]
        OBVIOUS
    <2>1. visit' = [visit EXCEPT ![r] = y]
        BY <1>2 DEF GetData, Goto
    <2>2. p = [kind |-> "read", pc |-> p.pc, ns |-> p.ns, word |-> p.word, v |-> p.v,
               floor |-> p.floor, since |-> p.since, found |-> p.found]
        BY <1>0 DEF IsReading
    <2> HIDE DEF q
    <2>3. y = [p EXCEPT !.pc = "query", !.since = now]
        OBVIOUS
    <2>4. y = Asking(p, "query", now, p.found)
        <3>1. /\ DOMAIN y = {"kind", "pc", "ns", "word", "v", "floor", "since", "found"}
              /\ y = [n \in DOMAIN y |-> y[n]]
            BY <2>2, <2>3
        <3>2. y.kind = p.kind /\ y.ns = p.ns /\ y.word = p.word /\ y.v = p.v /\ y.floor = p.floor /\ y.found = p.found
            BY <2>2, <2>3
        <3>3. y.pc = "query" /\ y.since = now /\ p.kind = "read"
            BY <2>2, <2>3
        <3>4. StillAsks(y, p)
            BY <3>1, <3>2, <3>3 DEF StillAsks
        <3>5. y = Asking(p, y.pc, y.since, y.found)
            BY <3>4, AskingByFields
        <3> QED BY <3>2, <3>3, <3>5
    <2>5. visit' = [visit EXCEPT ![r] = Asking(visit[r], "query", now, p.found)]
        BY <2>1, <2>4 DEF q
    <2>6. visit'[r].pc = "query"
        BY <2>5 DEF Asking, CacheInv, VisitInv
    <2>7. VisitOk(r)' /\ FloorMoves(r)
        <3>1. visit[r].pc \in Looking \ {"init"} /\ "query" \in Looking \ {"init"} /\ now \in 0..now
            BY <1>0 DEF Looking, q
        <3> QED BY <1>0, <2>5, <3>1, AskingOn
    <2>8. ServedFresh(r)' /\ ServedAlive(r)'
        BY <2>6 DEF ServedFresh, ServedAlive
    <2> QED BY <1>0, <2>5, <2>7, <2>8, ReadingKeeps
<1> QED BY <1>1, <1>2

\* What is computed from the book as it is, is as new as anything announced.
LEMMA ComputedIsFresh ==
    ASSUME BooksInv, CacheInv, NEW r \in Visits, NEW page,
           visit[r].pc \in Looking, visit[r].ns.of = "detail", visit[r].ns.book \in DOMAIN books,
           page.rev = books[visit[r].ns.book].rev
    PROVE  IsFresh(KeyOf(r), page)
<1> PICK ns, v : ns = visit[r].ns /\ v = visit[r].v
    OBVIOUS
<1>1. KeyOf(r) = <<ns, v>>
    BY DEF KeyOf
<1>2. SUFFICES ASSUME ns \notin rewound
               PROVE  /\ page.rev \in Nat /\ v \in 0..Version(ns)
                      /\ page.rev >= Due(ns)
                      /\ \A p \in Visits : visit[p].pc \in Looking /\ visit[p].ns = ns => page.rev >= visit[p].floor
    BY <1>1 DEF IsFresh, KeyOf
<1>3. page.rev \in Nat
    BY DEF BooksInv, IsBook
<1>4. Due(ns) \in Nat /\ Version(ns) \in Nat /\ Due(ns) <= page.rev
    BY Counts DEF CacheInv
<1>5. \A p \in Visits : visit[p].pc \in Looking => IsReading(visit[p])
    BY DEF CacheInv, VisitInv, VisitOk
<1>6. v \in 0..Version(ns)
    <2>1. v \in Nat /\ v <= Version(ns)
        BY <1>2, <1>5 DEF IsReading
    <2> QED BY <1>4, <2>1
<1>7. ASSUME NEW p \in Visits, visit[p].pc \in Looking, visit[p].ns = ns
      PROVE  page.rev >= visit[p].floor
    <2>1. visit[p].floor \in Nat /\ visit[p].floor <= Due(ns)
        BY <1>2, <1>5, <1>7 DEF IsReading
    <2> QED BY <1>3, <1>4, <2>1
<1> QED BY <1>3, <1>4, <1>6, <1>7

\* A query keeps what is known of the request.
LEMMA GoesKeeps ==
    ASSUME BooksInv, CacheInv, NEW r \in Visits, visit[r].pc \in Looking \ {"init"}, NEW pc, NEW found,
           Goes(r, pc, found), UNCHANGED <<tables, version, data, rewound, due, now>>
    PROVE  CacheInv'
<1> PICK q, y : q = visit[r] /\ y = [visit[r] EXCEPT !.pc = pc, !.found = found]
    OBVIOUS
<1>0. IsReading(q) /\ pc \in Looking \ {"init"} /\ visit' = [visit EXCEPT ![r] = y] /\ visit'[r] = y
    BY DEF CacheInv, VisitInv, VisitOk, Goes, Looking
<1>1. q = [kind |-> "read", pc |-> q.pc, ns |-> q.ns, word |-> q.word, v |-> q.v,
           floor |-> q.floor, since |-> q.since, found |-> q.found]
    BY <1>0 DEF IsReading
<1>2. y = [q EXCEPT !.pc = pc, !.found = found]
    OBVIOUS
<1>3. y = Asking(q, pc, q.since, found)
    <2>1. /\ DOMAIN y = {"kind", "pc", "ns", "word", "v", "floor", "since", "found"}
          /\ y = [n \in DOMAIN y |-> y[n]]
        BY <1>1, <1>2
    <2>2. y.kind = q.kind /\ y.ns = q.ns /\ y.word = q.word /\ y.v = q.v /\ y.floor = q.floor /\ y.since = q.since
        BY <1>1, <1>2
    <2>3. y.pc = pc /\ y.found = found /\ q.kind = "read"
        BY <1>1, <1>2
    <2>4. StillAsks(y, q)
        BY <2>1, <2>2, <2>3 DEF StillAsks
    <2>5. y = Asking(q, y.pc, y.since, y.found)
        BY <2>4, AskingByFields
    <2> QED BY <2>2, <2>3, <2>5
<1>4. y.pc = pc /\ y.ns = q.ns /\ y.v = q.v /\ y.floor = q.floor /\ y.since = q.since /\ y.found = found
    BY <1>3 DEF Asking
<1>5. VisitOk(r)' /\ FloorMoves(r)
    <2> PICK since : since = q.since
        OBVIOUS
    <2>1. visit' = [visit EXCEPT ![r] = Asking(visit[r], pc, since, found)]
        BY <1>0, <1>3
    <2>2. since \in 0..now
        BY <1>0 DEF IsReading
    <2>3. UNCHANGED <<version, rewound, due, now>>
        OBVIOUS
    <2>4. pc \in Looking \ {"init"} /\ visit[r].pc \in Looking \ {"init"}
        BY <1>0
    <2> QED BY <2>1, <2>2, <2>3, <2>4, AskingOn
<1>6. ServedFresh(r)'
    <2>1. y.pc # "served"
        BY <1>0, <1>4 DEF Looking
    <2>2. ASSUME y.pc = "store" PROVE IsFresh(KeyOf(r), visit[r].found)'
        <3> PICK key : key = KeyOf(r)
            OBVIOUS
        <3>1. KeyOf(r)' = key /\ visit'[r].found = found /\ key = <<q.ns, q.v>>
            BY <1>0, <1>4 DEF KeyOf
        <3>2. CASE q.ns.of = "detail"
            <4>1. IsFresh(key, found)
                BY <3>2, ComputedIsFresh DEF Goes
            <4>2. \A p \in Visits \ {r} : visit'[p] = visit[p]
                BY DEF Goes, CacheInv, VisitInv
            <4>3. VersionMoves
                BY DEF VersionMoves, Version, Due
            <4>4. IsFresh(key, found)'
                BY <1>5, <4>1, <4>2, <4>3, FreshKept DEF CacheInv
            <4> QED BY <3>1, <4>4 DEF IsFresh
        <3>3. CASE q.ns.of # "detail"
            BY <3>1, <3>3 DEF IsFresh
        <3> QED BY <3>2, <3>3
    <2> QED BY <1>0, <2>1, <2>2 DEF ServedFresh
<1>7. ServedAlive(r)'
    <2>1. y.pc # "served"
        BY <1>0, <1>4 DEF Looking
    <2>2. pc \in {"alike", "cards"} => IsDetail(found.page)' /\ AliveAt({found.page.book}, q.since)'
        BY DEF Goes, IsDetail, AliveAt, tables
    <2>3. pc = "cards" => IsSeq(found.ids)'
        BY DEF Goes, IsSeq
    <2>4. pc = "store" => AliveAt(ShownOn(visit[r].ns, visit[r].found), visit[r].since)'
        <3> PICK S, t : S = ShownOn(q.ns, found) /\ t = q.since
            OBVIOUS
        <3>1. ShownOn(visit[r].ns, visit[r].found)' = S /\ visit'[r].since = t
            BY <1>0, <1>4 DEF ShownOn
        <3>2. pc = "store" => AliveAt(S, t)'
            BY DEF Goes, AliveAt, tables
        <3> QED BY <3>1, <3>2 DEF AliveAt
    <2>5. pc \in {"alike", "cards"} =>
              IsDetail(visit[r].found.page)' /\ AliveAt({visit[r].found.page.book}, visit[r].since)'
        <3> PICK page, S, t : page = found.page /\ S = {found.page.book} /\ t = q.since
            OBVIOUS
        <3>1. /\ visit'[r].found.page = page /\ visit'[r].since = t
              /\ {visit[r].found.page.book}' = S
            BY <1>0, <1>4
        <3>2. pc \in {"alike", "cards"} => IsDetail(page) /\ AliveAt(S, t)'
            BY <2>2 DEF IsDetail, AliveAt
        <3> QED BY <3>1, <3>2 DEF IsDetail, AliveAt
    <2>6. pc = "cards" => IsSeq(visit[r].found.ids)'
        BY <1>0, <1>4, <2>3 DEF IsSeq
    <2> QED BY <1>0, <1>4, <2>1, <2>4, <2>5, <2>6 DEF ServedAlive
<1> QED BY <1>0, <1>5, <1>6, <1>7, ReadingKeeps

\* So does every step of computing a page.
LEMMA FactoryKeeps ==
    ASSUME BooksInv, CacheInv, NEW r \in Visits, Factory(r)
    PROVE  CacheInv'
<1>1. /\ visit[r].pc \in Looking \ {"init", "store"}
      /\ Goner(r) \/ \E pc, found : Goes(r, pc, found)
    BY FactoryMoves DEF CacheInv
<1>2. UNCHANGED <<tables, version, data, rewound, due, now>>
    BY DEF Factory
<1>3. CASE \E pc, found : Goes(r, pc, found)
    BY <1>1, <1>2, <1>3, GoesKeeps
<1>4. CASE Goner(r)
    <2> PICK y : y = [kind |-> "read", pc |-> "refused", ns |-> visit[r].ns]
        OBVIOUS
    <2>1. visit' = [visit EXCEPT ![r] = y] /\ visit'[r] = y /\ y.pc = "refused"
        BY <1>4 DEF Goner, CacheInv, VisitInv
    <2>2. VisitOk(r)' /\ ServedFresh(r)' /\ ServedAlive(r)' /\ FloorMoves(r)
        BY <2>1, EndsOk
    <2> QED BY <1>2, <2>1, <2>2, ReadingKeeps
<1> QED BY <1>1, <1>3, <1>4

\* A page is stored as it is served: as new, and with its lifetime ahead.
LEMMA StoreKeeps ==
    ASSUME BooksInv, CacheInv, NEW r \in Visits, StoreData(r)
    PROVE  CacheInv'
<1> PICK q, key, page, since, ns : /\ q = visit[r] /\ key = KeyOf(r) /\ page = visit[r].found
                                   /\ since = visit[r].since /\ ns = visit[r].ns
    OBVIOUS
<1> PICK lag, until, clock : lag = now - since /\ until = now + TimeToLive(ns) /\ clock = now
    OBVIOUS
<1> PICK y, entry : y = Served(r, page, lag) /\ entry = [page |-> page, until |-> until, lag |-> lag]
    OBVIOUS
<1>1. /\ q.pc = "store" /\ data' = Put(data, key, entry)
      /\ visit' = [visit EXCEPT ![r] = y] /\ visit'[r] = y
      /\ UNCHANGED <<tables, version, rewound, due, now>>
    BY DEF StoreData, Set, Goto, CacheInv, VisitInv
<1>2. /\ clock \in Nat /\ TTL \in Nat /\ StatsTTL \in Nat /\ IsReading(q) /\ since \in 0..clock
    BY ZenonT(30), <1>1, VisitConstants DEF BooksInv, CacheInv, VisitInv, VisitOk, Looking, IsReading
<1>3. lag \in Nat /\ lag = clock - since /\ until \in Nat /\ (ns.of # "stats" => until = clock + TTL)
    BY <1>2 DEF TimeToLive, StatsKey
<1>4. y.pc = "served" /\ y.ns = ns /\ y.floor = q.floor /\ y.page = page /\ y.at = clock /\ y.lag = lag
    BY DEF Served
<1>5. /\ key \in DOMAIN data' /\ data'[key] = entry /\ DOMAIN data' = DOMAIN data \union {key}
      /\ \A k \in DOMAIN data \ {key} : data'[k] = data[k]
    BY <1>1 DEF Put
<1>6. entry.page = page /\ entry.until = until /\ entry.lag = lag
    OBVIOUS
<1>7. IsFresh(key, page) /\ key = <<ns, q.v>>
    BY <1>1 DEF CacheInv, FreshInv, ServedFresh, KeyOf
<1>8. \A p \in Visits \ {r} : visit'[p] = visit[p]
    BY <1>1 DEF CacheInv, VisitInv
<1>9. VersionMoves /\ FloorMoves(r) /\ VisitOk(r)'
    BY <1>1, <1>4 DEF VersionMoves, Version, Due, FloorMoves, VisitOk, Looking, Busy, Ended
<1>10. ServedFresh(r)'
    <2>1. ns.of = "detail" /\ ns \notin rewound => page.rev >= q.floor
        <3>1. key[1] = ns /\ KeyOf(r) = key /\ visit[r].pc \in Looking /\ visit[r].floor = q.floor
            BY <1>1, <1>7 DEF Looking
        <3>2. ns.of = "detail" /\ ns \notin rewound =>
                  \A p \in Visits : visit[p].pc \in Looking /\ KeyOf(p) = key => page.rev >= visit[p].floor
            BY <1>7, <3>1 DEF IsFresh
        <3> QED BY <3>1, <3>2
    <2> QED BY <1>1, <1>4, <2>1 DEF ServedFresh
<1>11. IsFresh(key, data[key].page)'
    <2>1. IsFresh(key, page)'
        BY <1>7, <1>8, <1>9, FreshKept DEF CacheInv
    <2> QED BY <1>5, <1>6, <2>1 DEF IsFresh
<1> PICK S : S = ShownOn(ns, page)
    OBVIOUS
<1>12. AliveAt(S, since)
    BY <1>1 DEF CacheInv, DeletedInv, ServedAlive
<1>13. CachedAlive(key)'
    <2>1. ShownOn(key[1], data[key].page)' = S /\ key[1] = ns
        BY <1>5, <1>6, <1>7 DEF ShownOn
    <2> PICK t : t = until - TTL - lag
        OBVIOUS
    <2>2. AliveAt(S, t)
        <3>1. CASE ns.of = "stats"
            <4>1. S = {}
                BY <3>1 DEF ShownOn
            <4> QED BY <4>1 DEF AliveAt
        <3>2. CASE ns.of # "stats"
            <4>1. t = since
                BY <1>2, <1>3, <3>2
            <4> QED BY <1>12, <4>1
        <3> QED BY <3>1, <3>2
    <2>3. AliveAt(S, t)'
        BY <1>1, <2>2 DEF AliveAt, tables
    <2>4. (data[key].until - TTL - data[key].lag)' = t
        BY <1>5, <1>6
    <2>5. AliveAt(ShownOn(key[1], data[key].page), data[key].until - TTL - data[key].lag)'
        BY <2>1, <2>3, <2>4 DEF AliveAt
    <2>6. data'[key].lag \in Nat /\ data'[key].until \in Nat /\ (key[1].of # "stats" => data'[key].until <= now' + TTL)
        BY SMTT(30), <1>1, <1>2, <1>3, <1>5, <1>6, <2>1
    <2> QED BY <2>5, <2>6 DEF CachedAlive
<1>14. ServedAlive(r)'
    <2> PICK t : t = clock - TTL - lag
        OBVIOUS
    <2>1. AliveAt(S, t)
        <3>1. since \in Int /\ t \in Int /\ t <= since
            BY <1>2, <1>3
        <3> QED BY <1>12, <3>1, AliveBefore
    <2>2. AliveAt(S, t)'
        BY <1>1, <2>1 DEF AliveAt, tables
    <2>3. ShownOn(visit[r].ns, visit[r].page)' = S
        BY <1>1, <1>4 DEF ShownOn
    <2>4. (visit[r].at - TTL - visit[r].lag)' = t
        BY <1>1, <1>4
    <2>5. AliveAt(ShownOn(visit[r].ns, visit[r].page), visit[r].at - TTL - visit[r].lag)'
        BY <2>2, <2>3, <2>4 DEF AliveAt
    <2>6. visit'[r].at \in 0..now' /\ visit'[r].lag \in Nat
        BY <1>1, <1>2, <1>3, <1>4
    <2> QED BY <1>1, <1>4, <2>5, <2>6 DEF ServedAlive
<1>15. BooksGrow
    BY <1>1, BooksSame DEF BooksInv, tables
<1>16. VersionInv' /\ CacheGrows
    BY <1>1, CacheSame DEF CacheInv, VersionInv, tables
<1>17. \A k \in DOMAIN data' :
           \/ k \in DOMAIN data /\ data'[k] = data[k]
           \/ IsFresh(k, data[k].page)' /\ CachedAlive(k)'
    <2>1. ASSUME NEW k \in DOMAIN data', k # key PROVE k \in DOMAIN data /\ data'[k] = data[k]
        BY <1>5, <2>1
    <2>2. ASSUME NEW k \in DOMAIN data', k = key PROVE IsFresh(k, data[k].page)' /\ CachedAlive(k)'
        BY <1>11, <1>13, <2>2
    <2> QED BY <2>1, <2>2
<1>18. VisitInv' /\ FreshInv' /\ DeletedInv'
    BY <1>1, <1>9, <1>10, <1>14, <1>15, <1>16, <1>17, StepKeeps DEF CacheInv
<1> QED BY <1>16, <1>18 DEF CacheInv

\* Time makes no page newer than it was, and ends lifetimes.
LEMMA TickKeeps ==
    ASSUME BooksInv, CacheInv, Tick
    PROVE  BooksInv' /\ CacheInv'
<1>1. /\ now' = now + 1 /\ now \in Nat /\ UNCHANGED <<tables, visit, version, data, rewound, due>>
      /\ \E r \in Visits : visit[r].pc # "idle"
    BY DEF Tick, Begun, Visits, BooksInv
<1> PICK r \in Visits : visit[r].pc # "idle"
    BY <1>1
<1>2. PICK x : x = visit[r]
    OBVIOUS
<1>3. BooksInv' /\ BooksGrow
    BY <1>1, BooksSame DEF tables
<1>4. VersionInv' /\ CacheGrows
    BY <1>1, CacheSame DEF CacheInv, VersionInv, tables
<1>5. VersionMoves /\ FloorMoves(r)
    BY <1>1 DEF VersionMoves, Version, Due, FloorMoves, KeyOf
<1>6. visit' = [visit EXCEPT ![r] = x]
    BY <1>1, <1>2 DEF CacheInv, VisitInv
<1>7. visit'[r] = visit[r]
    BY <1>1
<1>8. VisitOk(r)'
    BY <1>3, <1>4, <1>7, OthersOk DEF CacheInv
<1>9. ServedFresh(r)'
    BY <1>1 DEF CacheInv, FreshInv, ServedFresh, IsFresh, Version, Due, KeyOf
<1>10. ServedAlive(r)'
    BY <1>3, <1>7, OthersAlive DEF CacheInv, VisitInv, DeletedInv
<1>11. \A k \in DOMAIN data' : k \in DOMAIN data /\ data'[k] = data[k]
    BY <1>1
<1>12. VisitInv' /\ FreshInv' /\ DeletedInv'
    BY <1>3, <1>4, <1>5, <1>6, <1>8, <1>9, <1>10, <1>11, StepKeeps DEF CacheInv
<1> QED BY <1>3, <1>4, <1>12 DEF CacheInv

\* No step of a reader writes books or breaks what is known of pages.
LEMMA ReaderKeeps ==
    ASSUME BooksInv, CacheInv, NEW r \in Visits, ReaderStep(r)
    PROVE  CacheInv' /\ UNCHANGED <<books, audits, now>>
<1>1. CASE \E ns \in Keys, word \in Words \union {""} : MayAsk(ns, word) /\ GetVersion(r, ns, word)
    <2> PICK ns \in Keys : \E word : GetVersion(r, ns, word)
        BY ZenonT(30), <1>1
    <2>1. PICK word : GetVersion(r, ns, word)
        OBVIOUS
    <2> PICK pc : pc = IF Version(ns) = 0 THEN "init" ELSE "data"
        OBVIOUS
    <2>2. /\ Goto(r, Reading(ns, word, pc)) /\ pc \in {"init", "data"} /\ (pc = "init" => Version(ns) = 0)
          /\ UNCHANGED <<tables, version, data, rewound, due, now>>
        BY <2>1 DEF GetVersion
    <2>3. ns.of = "list" => ns.number \in Nat \ {0}
        BY DEF Keys, DetailKey, SlugKey, HomeKey, CategoriesKey, ListKey
    <2>4. CacheInv'
        BY <2>2, <2>3, BeginKeeps
    <2> QED BY <2>2, <2>4 DEF tables
<1>2. CASE AskStats(r)
    <2>1. Goto(r, Reading(StatsKey, "", "data")) /\ UNCHANGED <<tables, version, data, rewound, due, now>>
        BY ZenonT(30), <1>2 DEF AskStats
    <2> PICK ns, pc : ns = StatsKey /\ pc = "data"
        OBVIOUS
    <2>2. Goto(r, Reading(ns, "", pc)) /\ pc \in {"init", "data"} /\ pc # "init" /\ ns.of # "list"
        BY ZenonT(30), <2>1 DEF StatsKey
    <2>3. CacheInv'
        BY ZenonT(30), <2>1, <2>2, BeginKeeps
    <2> QED BY ZenonT(30), <2>1, <2>3 DEF tables
<1>3. CASE InitVersion(r)
    BY ZenonT(30), <1>3, InitKeeps DEF InitVersion, tables
<1>4. CASE GetData(r)
    BY ZenonT(30), <1>4, GetDataKeeps DEF GetData, tables
<1>5. CASE Factory(r)
    BY <1>5, FactoryKeeps DEF Factory, tables
<1>6. CASE StoreData(r)
    BY <1>6, StoreKeeps DEF StoreData, Set, tables
<1> QED BY ZenonT(30), <1>1, <1>2, <1>3, <1>4, <1>5, <1>6 DEF ReaderStep


(* ------------------------------ Audit rows ------------------------------ *)

Places(b) == {i \in DOMAIN audits : audits[i].book = b}

\* The rows of a book are at finitely many places.
LEMMA SomePlaces ==
    ASSUME BooksInv, NEW b
    PROVE  /\ Places(b) \in SUBSET Nat /\ IsFiniteSet(Places(b))
           /\ Places(b) \subseteq 1..Len(audits) /\ Len(audits) \in Nat /\ DOMAIN audits = 1..Len(audits)
<1>1. Len(audits) \in Nat /\ DOMAIN audits = 1..Len(audits)
    BY DEF BooksInv, IsSeq
<1>2. IsFiniteSet(DOMAIN audits)
    BY <1>1, FS_Interval
<1>3. Places(b) \in SUBSET DOMAIN audits
    BY DEF Places
<1> QED BY <1>1, <1>2, <1>3, FS_Subset

IsMap(f) == f = [n \in DOMAIN f |-> f[n]]

\* Functions that agree are equal.
LEMMA MapsEqual ==
    ASSUME NEW f, NEW g, IsMap(f), IsMap(g), DOMAIN f = DOMAIN g, \A n \in DOMAIN f : f[n] = g[n]
    PROVE  f = g
BY DEF IsMap

\* The rows at some places, one after the other.
LEMMA KeptRows ==
    ASSUME NEW s, NEW S \in SUBSET Nat, IsFiniteSet(S)
    PROVE  /\ IsMap(Kept(s, S)) /\ DOMAIN Kept(s, S) = 1..Cardinality(S)
           /\ \A n \in 1..Cardinality(S) : Kept(s, S)[n] = s[OldestFirst(S)[n]]
           /\ Len(Kept(s, S)) = Cardinality(S) /\ Cardinality(S) \in Nat
<1>1. DOMAIN OldestFirst(S) = 1..Cardinality(S)
    BY DEF OldestFirst, Sorted
<1>2. Kept(s, S) = [n \in 1..Cardinality(S) |-> s[OldestFirst(S)[n]]]
    BY <1>1 DEF Kept
<1>3. Cardinality(S) \in Nat
    BY FS_CardinalityType
<1>4. DOMAIN Kept(s, S) = 1..Cardinality(S)
    BY <1>2
<1>5. Len(Kept(s, S)) = Cardinality(S)
    BY <1>3, <1>4
<1> QED BY <1>2, <1>3, <1>4, <1>5 DEF IsMap

\* A number larger than the others comes last.
LEMMA LastOldest ==
    ASSUME NEW S \in SUBSET Nat, IsFiniteSet(S), NEW m \in Nat, \A x \in S : x < m
    PROVE  /\ Cardinality(S \union {m}) = Cardinality(S) + 1
           /\ IsFiniteSet(S \union {m})
           /\ OldestFirst(S \union {m})[Cardinality(S) + 1] = m
           /\ \A n \in 1..Cardinality(S) : OldestFirst(S \union {m})[n] = OldestFirst(S)[n]
<1> PICK T : T = S \union {m}
    OBVIOUS
<1>1. m \notin S /\ T \in SUBSET Nat
    OBVIOUS
<1>2. IsFiniteSet(T) /\ Cardinality(T) = Cardinality(S) + 1 /\ Cardinality(S) \in Nat
    BY <1>1, FS_AddElement, FS_CardinalityType
<1>3. /\ \A n \in 1..Cardinality(T) :
             OldestFirst(T)[n] \in T /\ Cardinality({y \in T : y < OldestFirst(T)[n]}) = n - 1
      /\ \A x, y \in T : Cardinality({z \in T : z < x}) = Cardinality({z \in T : z < y}) => x = y
    BY <1>1, <1>2, Oldest
<1>4. \A n \in 1..Cardinality(S) :
          OldestFirst(S)[n] \in S /\ Cardinality({y \in S : y < OldestFirst(S)[n]}) = n - 1
    BY Oldest
<1>5. \A x \in S : {y \in T : y < x} = {y \in S : y < x}
    OBVIOUS
<1>6. {y \in T : y < m} = S
    <2>1. ~(m < m)
        OBVIOUS
    <2>2. \A y \in T : y < m <=> y \in S
        BY <1>1, <2>1
    <2>3. S \subseteq T
        OBVIOUS
    <2> QED BY <2>2, <2>3
<1>7. ASSUME NEW n \in 1..Cardinality(S) PROVE OldestFirst(T)[n] = OldestFirst(S)[n]
    <2> PICK x, y : x = OldestFirst(T)[n] /\ y = OldestFirst(S)[n]
        OBVIOUS
    <2>1. n \in 1..Cardinality(T)
        BY <1>2
    <2>2. x \in T /\ Cardinality({z \in T : z < x}) = n - 1
        BY <1>3, <2>1
    <2>3. y \in S /\ y \in T /\ Cardinality({z \in S : z < y}) = n - 1
        BY <1>4
    <2>4. Cardinality({z \in T : z < y}) = n - 1
        BY <1>5, <2>3
    <2>5. x = y
        BY SMTT(30), <1>3, <2>2, <2>3, <2>4
    <2> QED BY <2>5
<1>8. OldestFirst(T)[Cardinality(S) + 1] = m
    <2> PICK x, n : x = OldestFirst(T)[Cardinality(S) + 1] /\ n = Cardinality(S) + 1
        OBVIOUS
    <2>1. n \in 1..Cardinality(T) /\ n - 1 = Cardinality(S)
        BY <1>2
    <2>2. x \in T /\ Cardinality({z \in T : z < x}) = Cardinality(S)
        BY <1>3, <2>1
    <2>3. m \in T /\ Cardinality({z \in T : z < m}) = Cardinality(S)
        BY <1>6
    <2>4. x = m
        BY <1>3, <2>2, <2>3
    <2> QED BY <2>4
<1> QED BY <1>2, <1>7, <1>8

\* The rows of a book when one more is written.
LEMMA RowsAppended ==
    ASSUME BooksInv, NEW row, audits' = Append(audits, row), NEW b
    PROVE  /\ Len(RowsOf(b)) \in Nat /\ DOMAIN RowsOf(b) = 1..Len(RowsOf(b))
           /\ row.book # b => RowsOf(b)' = RowsOf(b)
           /\ row.book = b =>
                 /\ Len(RowsOf(b)') = Len(RowsOf(b)) + 1 /\ DOMAIN RowsOf(b)' = 1..Len(RowsOf(b)) + 1
                 /\ RowsOf(b)'[Len(RowsOf(b)) + 1] = row
                 /\ \A n \in 1..Len(RowsOf(b)) : RowsOf(b)'[n] = RowsOf(b)[n]
<1> PICK S, m, c : S = Places(b) /\ m = Len(audits) + 1 /\ c = Cardinality(Places(b))
    OBVIOUS
<1>1. /\ S \in SUBSET Nat /\ IsFiniteSet(S) /\ S \subseteq 1..Len(audits) /\ Len(audits) \in Nat
      /\ m \in Nat /\ (\A x \in S : x < m) /\ DOMAIN audits = 1..Len(audits)
    BY SomePlaces
<1>2. /\ DOMAIN audits' = 1..m /\ audits'[m] = row /\ \A i \in 1..Len(audits) : audits'[i] = audits[i]
    BY <1>1, AppendIsSeq DEF BooksInv
<1>3. Places(b)' = IF row.book = b THEN S \union {m} ELSE S
    <2>1. \A i \in 1..m : i = m \/ i \in 1..Len(audits)
        BY <1>1
    <2> QED BY <1>1, <1>2, <2>1 DEF Places
<1> PICK log, rows : log = audits' /\ rows = RowsOf(b)
    OBVIOUS
<1>4. rows = Kept(audits, S) /\ RowsOf(b)' = Kept(log, Places(b)')
    BY DEF RowsOf, Places, Kept
<1>5. /\ IsMap(rows) /\ \A n \in 1..c : rows[n] = audits[OldestFirst(S)[n]]
      /\ Len(rows) = c /\ c \in Nat /\ DOMAIN rows = 1..c
    BY <1>1, <1>4, KeptRows
<1>6. \A n \in 1..c : OldestFirst(S)[n] \in S
    BY <1>1, Oldest
<1>7. \A n \in 1..c : log[OldestFirst(S)[n]] = rows[n]
    BY <1>1, <1>2, <1>5, <1>6
<1>8. CASE row.book # b
    <2>1. /\ IsMap(Kept(log, S)) /\ DOMAIN Kept(log, S) = 1..c
          /\ \A n \in 1..c : Kept(log, S)[n] = log[OldestFirst(S)[n]]
        BY <1>1, KeptRows
    <2> PICK kept : kept = Kept(log, S)
        OBVIOUS
    <2>2. IsMap(kept) /\ IsMap(rows) /\ DOMAIN kept = DOMAIN rows
        BY <1>5, <2>1
    <2>3. \A n \in DOMAIN kept : kept[n] = rows[n]
        BY <1>5, <1>7, <2>1
    <2>4. Kept(log, S) = rows
        BY <2>2, <2>3, MapsEqual
    <2> QED BY <1>3, <1>4, <1>5, <1>8, <2>4
<1>9. CASE row.book = b
    <2> PICK T : T = S \union {m}
        OBVIOUS
    <2>1. /\ Cardinality(T) = c + 1 /\ IsFiniteSet(T) /\ T \in SUBSET Nat
          /\ OldestFirst(T)[c + 1] = m /\ \A n \in 1..c : OldestFirst(T)[n] = OldestFirst(S)[n]
        BY ZenonT(30), <1>1, LastOldest
    <2> PICK kept, d : kept = Kept(log, T) /\ d = Cardinality(T)
        OBVIOUS
    <2>2. /\ \A n \in 1..d : kept[n] = log[OldestFirst(T)[n]]
          /\ Len(kept) = d /\ DOMAIN kept = 1..d
        <3>1. \A U \in SUBSET Nat : IsFiniteSet(U) =>
                  /\ DOMAIN Kept(log, U) = 1..Cardinality(U)
                  /\ \A n \in 1..Cardinality(U) : Kept(log, U)[n] = log[OldestFirst(U)[n]]
                  /\ Len(Kept(log, U)) = Cardinality(U)
            BY KeptRows
        <3>2. T \in SUBSET Nat /\ IsFiniteSet(T)
            BY <2>1
        <3>3. /\ DOMAIN Kept(log, T) = 1..Cardinality(T)
              /\ \A n \in 1..Cardinality(T) : Kept(log, T)[n] = log[OldestFirst(T)[n]]
              /\ Len(Kept(log, T)) = Cardinality(T)
            BY <3>1, <3>2, Zenon
        <3> QED BY <3>3
    <2>3. RowsOf(b)' = kept /\ d = c + 1
        BY <1>3, <1>4, <1>9, <2>1
    <2>4. kept[c + 1] = row
        <3>1. c + 1 \in 1..d
            BY <1>5, <2>3
        <3> QED BY ZenonT(30), <1>2, <2>1, <2>2, <3>1
    <2>5. ASSUME NEW n \in 1..c PROVE kept[n] = rows[n]
        <3>1. n \in 1..d
            BY <1>5, <2>3
        <3>2. kept[n] = log[OldestFirst(T)[n]] /\ OldestFirst(T)[n] = OldestFirst(S)[n]
            BY <2>1, <2>2, <3>1
        <3> QED BY <1>7, <3>2
    <2> QED BY <1>5, <1>9, <2>2, <2>3, <2>4, <2>5
<1> QED BY <1>8, <1>9

\* Without a new row a book keeps its rows.
LEMMA RowsSame ==
    ASSUME audits' = audits, NEW b
    PROVE  RowsOf(b)' = RowsOf(b)
BY DEF RowsOf, Kept

\* A book has as many rows as there are about it.
LEMMA RowsAreCounted ==
    ASSUME BooksInv, NEW b
    PROVE  /\ Len(RowsOf(b)) \in Nat /\ DOMAIN RowsOf(b) = 1..Len(RowsOf(b))
           /\ (\A i \in DOMAIN audits : audits[i].book # b) => Len(RowsOf(b)) = 0
<1> PICK S, rows : S = Places(b) /\ rows = RowsOf(b)
    OBVIOUS
<1>1. S \in SUBSET Nat /\ IsFiniteSet(S)
    BY SomePlaces
<1>2. rows = Kept(audits, S)
    BY DEF RowsOf, Places
<1>3. Len(rows) = Cardinality(S) /\ Cardinality(S) \in Nat /\ DOMAIN rows = 1..Cardinality(S)
    BY <1>1, <1>2, KeptRows
<1>4. (\A i \in DOMAIN audits : audits[i].book # b) => S = {}
    BY DEF Places
<1>5. S = {} => Cardinality(S) = 0
    BY FS_EmptySet
<1> QED BY <1>3, <1>4, <1>5

\* What the first i rows tell of a book.
Told(b, rows, i) == IF i = 0 THEN Birth(b) ELSE rows[i].after

\* One row after the other, up to the book as it is.
Tells(b, rows, shot) ==
    /\ GoesOn(b, rows, Len(rows), shot)
    /\ \A i \in DOMAIN rows : InTime(rows, i) => GoesOn(b, rows, i - 1, rows[i].before)

\* AuditChain, book by book.
LEMMA ChainTells ==
    AuditChain <=> \A b \in DOMAIN books : Tells(b, RowsOf(b), Snapshot(b))
BY DEF AuditChain, Tells

\* Where a snapshot goes on, a later one does.
LEMMA LaterGoesOn ==
    ASSUME NEW b, NEW rows, NEW i, NEW shot, GoesOn(b, rows, i, shot),
           NEW later, Columns(later) = Columns(shot), HasTexts(later, shot)
    PROVE  GoesOn(b, rows, i, later)
<1> PICK told : told = Told(b, rows, i)
    OBVIOUS
<1>1. Columns(shot) = Columns(told) /\ (InTime(rows, i) => HasTexts(shot, told))
    BY DEF GoesOn, Told
<1>2. HasTexts(shot, told) => HasTexts(later, told)
    BY DEF HasTexts
<1>3. Columns(later) = Columns(told) /\ (InTime(rows, i) => HasTexts(later, told))
    BY <1>1, <1>2
<1> QED BY <1>3 DEF GoesOn, Told

\* What a later row is does not matter.
LEMMA FirstRows ==
    ASSUME NEW b, NEW rows, NEW longer, NEW i, i = 0 \/ longer[i] = rows[i], NEW shot, GoesOn(b, rows, i, shot)
    PROVE  GoesOn(b, longer, i, shot)
BY DEF GoesOn, InTime

\* One more row, whose request had read the book as it was or before the last row.
LEMMA TellsOn ==
    ASSUME NEW b, NEW rows, NEW shot, Tells(b, rows, shot), Len(rows) \in Nat, DOMAIN rows = 1..Len(rows),
           NEW row, row.rows = Len(rows) => GoesOn(b, rows, Len(rows), row.before),
           NEW later, Columns(later) = Columns(row.after), row.rows = Len(rows) => HasTexts(later, row.after),
           NEW longer, Len(longer) = Len(rows) + 1, DOMAIN longer = 1..Len(rows) + 1,
           longer[Len(rows) + 1] = row, \A n \in 1..Len(rows) : longer[n] = rows[n]
    PROVE  Tells(b, longer, later)
<1> PICK n : n = Len(rows)
    OBVIOUS
<1>1. n \in Nat /\ n + 1 # 0 /\ n + 1 - 1 = n /\ longer[n + 1] = row
    OBVIOUS
<1>2. InTime(longer, n + 1) <=> row.rows = n
    BY <1>1 DEF InTime
<1>3. GoesOn(b, longer, n + 1, later)
    BY <1>1, <1>2 DEF GoesOn
<1>4. ASSUME NEW i \in 1..n, InTime(longer, i) PROVE GoesOn(b, longer, i - 1, longer[i].before)
    <2>1. longer[i] = rows[i] /\ i \in DOMAIN rows /\ (i - 1 = 0 \/ i - 1 \in 1..n)
        BY <1>1
    <2>2. GoesOn(b, rows, i - 1, rows[i].before)
        BY <1>4, <2>1 DEF Tells, InTime
    <2> QED BY <2>1, <2>2, FirstRows
<1>5. ASSUME InTime(longer, n + 1) PROVE GoesOn(b, longer, n + 1 - 1, longer[n + 1].before)
    <2>1. GoesOn(b, rows, n, row.before)
        BY <1>2, <1>5
    <2>2. n = 0 \/ longer[n] = rows[n]
        BY <1>1
    <2>3. GoesOn(b, longer, n, row.before)
        BY <2>1, <2>2, FirstRows
    <2> QED BY <1>1, <2>3
<1>6. \A i \in DOMAIN longer : i = n + 1 \/ i \in 1..n
    OBVIOUS
<1> QED BY <1>1, <1>3, <1>4, <1>5, <1>6 DEF Tells

\* What the snapshots of a book have that is left alone.
LEMMA SameShot ==
    ASSUME NEW b, Same(b), NEW shot, shot = Snapshot(b), NEW later, later = Snapshot(b)'
    PROVE  Columns(later) = Columns(shot) /\ HasTexts(later, shot)
BY DEF Same, Snapshot, Columns, HasTexts

\* What an admin has read stays true, or is out of date.
SeenOk(q) ==
    q.pc \in {"update", "delete"} =>
        /\ q.book \in DOMAIN books /\ ~q.seen.before.deleted
        /\ q.seen.rows \in 0..Len(RowsOf(q.book))
        /\ q.seen.rows = Len(RowsOf(q.book)) =>
              /\ GoesOn(q.book, RowsOf(q.book), Len(RowsOf(q.book)), q.seen.before)
              /\ HasTexts(Snapshot(q.book), q.seen.before)

\* The same of what is known of it.
Fits(b, rows, shot, n, before) ==
    /\ n \in 0..Len(rows)
    /\ n = Len(rows) => GoesOn(b, rows, Len(rows), before) /\ HasTexts(shot, before)

LEMMA SeenFits ==
    ASSUME NEW q, NEW b, b = q.book, NEW rows, rows = RowsOf(b), NEW shot, shot = Snapshot(b)
    PROVE  SeenOk(q) <=>
               (q.pc \in {"update", "delete"} =>
                   b \in DOMAIN books /\ ~q.seen.before.deleted /\ Fits(b, rows, shot, q.seen.rows, q.seen.before))
BY DEF SeenOk, Fits

LEMMA SeenFitsNext ==
    ASSUME NEW q, NEW b, b = q.book, NEW rows, rows = RowsOf(b)', NEW shot, shot = Snapshot(b)'
    PROVE  SeenOk(q)' <=>
               (q.pc \in {"update", "delete"} =>
                   b \in DOMAIN books' /\ ~q.seen.before.deleted /\ Fits(b, rows, shot, q.seen.rows, q.seen.before))
BY DEF SeenOk, Fits, RowsOf, Kept, Snapshot, GoesOn, InTime, HasTexts, Birth

LEMMA SeenNext ==
    ASSUME NEW q, SeenOk(q)', NEW p, visit'[p] = q
    PROVE  SeenOk(visit[p])'
BY DEF SeenOk, RowsOf, Kept, Snapshot, GoesOn, InTime, HasTexts, Birth

\* What a request has read stays true, or its book has got a newer row.
LEMMA SeenKept ==
    ASSUME BooksInv, NEW r \in Visits, BooksMove(r), BooksGrow, NEW q, SeenOk(q)
    PROVE  SeenOk(q)'
<1> PICK b, rows, shot, longer, later :
        /\ b = q.book /\ rows = RowsOf(b) /\ shot = Snapshot(b)
        /\ longer = RowsOf(b)' /\ later = Snapshot(b)'
    OBVIOUS
<1> SUFFICES ASSUME q.pc \in {"update", "delete"}
             PROVE  b \in DOMAIN books' /\ Fits(b, longer, later, q.seen.rows, q.seen.before)
    BY SeenFits, SeenFitsNext
<1> PICK before, n : before = q.seen.before /\ n = q.seen.rows
    OBVIOUS
<1>1. b \in DOMAIN books /\ Fits(b, rows, shot, n, before)
    BY SeenFits
<1>2. b \in DOMAIN books' /\ Len(rows) \in Nat
    BY <1>1, RowsAreCounted DEF BooksGrow
<1>3. ASSUME longer = rows, HasTexts(later, shot) PROVE Fits(b, longer, later, n, before)
    <2>1. HasTexts(shot, before) => HasTexts(later, before)
        BY <1>3 DEF HasTexts
    <2> QED BY <1>1, <1>3, <2>1 DEF Fits
<1>4. CASE UNCHANGED <<books, audits>>
    <2>1. longer = rows /\ later = shot
        BY <1>4, RowsSame DEF Snapshot
    <2> QED BY <1>2, <1>3, <2>1 DEF HasTexts
<1>5. CASE Changed(r)
    <2>1. longer = rows
        BY <1>5, RowsSame DEF Changed
    <2>2. HasTexts(later, shot)
        BY <1>1, <1>5, SameShot DEF Changed
    <2> QED BY <1>2, <1>3, <2>1, <2>2
<1>6. CASE Audited(r)
    <2> PICK row : audits' = Append(audits, row) /\ row.book = visit[r].book
        BY <1>6 DEF Audited, Audit
    <2>1. CASE row.book = b
        <3>1. Len(longer) = Len(rows) + 1
            BY <2>1, RowsAppended
        <3> QED BY <1>1, <1>2, <3>1 DEF Fits
    <2>2. CASE row.book # b
        <3>1. longer = rows
            BY <2>2, RowsAppended
        <3>2. Same(b)
            BY <1>1, <1>6, <2>2 DEF Audited
        <3>3. HasTexts(later, shot)
            BY <3>2, SameShot
        <3> QED BY <1>2, <1>3, <3>1, <3>3
    <2> QED BY SMTT(30), <2>1, <2>2
<1> QED BY <1>4, <1>5, <1>6 DEF BooksMove

\* A reader changes no other request, and never is at a step of an admin.
LEMMA ReaderGoes ==
    ASSUME BooksInv, CacheInv, NEW r \in Visits, ReaderStep(r)
    PROVE  /\ \A p \in Visits \ {r} : visit'[p] = visit[p]
           /\ visit'[r].pc \notin Busy
<1> USE DEF Goto, CacheInv, VisitInv, Busy
<1>1. CASE \E ns \in Keys, word \in Words \union {""} : MayAsk(ns, word) /\ GetVersion(r, ns, word)
    <2>1. PICK ns, word : GetVersion(r, ns, word)
        BY ZenonT(30), <1>1
    <2>2. PICK x : x = Reading(ns, word, IF Version(ns) = 0 THEN "init" ELSE "data")
        OBVIOUS
    <2>3. visit' = [visit EXCEPT ![r] = x]
        BY <2>1, <2>2 DEF GetVersion
    <2>4. x.pc \in {"init", "data"}
        BY <2>2 DEF Reading
    <2> QED BY <2>3, <2>4
<1>2. CASE AskStats(r)
    BY ZenonT(30), <1>2 DEF AskStats, Reading
<1>3. CASE InitVersion(r)
    <2>1. visit[r].pc = "init"
        BY <1>3 DEF InitVersion
    <2>2. IsReading(visit[r])
        BY <2>1 DEF VisitOk, Looking
    <2>3. [visit[r] EXCEPT !.pc = "data", !.v = 1].pc = "data"
        BY <2>2 DEF IsReading
    <2>4. visit' = [visit EXCEPT ![r] = [visit[r] EXCEPT !.pc = "data", !.v = 1]]
        BY <1>3 DEF InitVersion
    <2> QED BY <2>3, <2>4
<1>4. CASE GetData(r)
    <2>1. visit[r].pc = "data"
        BY <1>4 DEF GetData
    <2>2. IsReading(visit[r])
        BY <2>1 DEF VisitOk, Looking
    <2>3. [visit[r] EXCEPT !.pc = "query", !.since = now].pc = "query"
        BY <2>2 DEF IsReading
    <2>4. \A page, lag : Served(r, page, lag).pc = "served"
        BY DEF Served
    <2>5. PICK x : x = IF IsCached(KeyOf(r)) THEN Served(r, data[KeyOf(r)].page, data[KeyOf(r)].lag)
                       ELSE [visit[r] EXCEPT !.pc = "query", !.since = now]
        OBVIOUS
    <2>6. visit' = [visit EXCEPT ![r] = x]
        BY <1>4, <2>5 DEF GetData
    <2>7. x.pc \in {"query", "served"}
        BY <2>3, <2>4, <2>5
    <2> QED BY <2>6, <2>7
<1>5. CASE Factory(r)
    <2>1. visit[r].pc \in Looking /\ (Goner(r) \/ \E pc, found : Goes(r, pc, found))
        BY <1>5, FactoryMoves
    <2>2. IsReading(visit[r])
        BY <2>1 DEF VisitOk
    <2>3. CASE Goner(r)
        BY <2>3 DEF Goner
    <2>4. CASE \E pc, found : Goes(r, pc, found)
        <3>1. PICK pc, found : Goes(r, pc, found)
            BY <2>4
        <3>2. [visit[r] EXCEPT !.pc = pc, !.found = found].pc = pc
            BY <2>2 DEF IsReading
        <3> QED BY <3>1, <3>2 DEF Goes
    <2> QED BY <2>1, <2>3, <2>4
<1>6. CASE StoreData(r)
    <2>1. PICK page, lag : visit' = [visit EXCEPT ![r] = Served(r, page, lag)]
        BY <1>6 DEF StoreData, Set
    <2> QED BY <2>1 DEF Served
<1> QED BY ZenonT(30), <1>1, <1>2, <1>3, <1>4, <1>5, <1>6 DEF ReaderStep

\* A step of one request keeps what the others have read.
LEMMA SeenKeeps ==
    ASSUME BooksInv, SeenInv, HistoryInv, NEW r \in Visits, BooksMove(r), BooksGrow,
           \A p \in Visits \ {r} : visit'[p] = visit[p],
           visit'[r].pc \in {"update", "delete"} =>
              /\ UNCHANGED <<books, audits>>
              /\ visit'[r].book \in DOMAIN books /\ ~books[visit'[r].book].deleted
              /\ visit'[r].seen = [before |-> Snapshot(visit'[r].book), rows |-> Len(RowsOf(visit'[r].book))]
    PROVE  SeenInv'
<1>1. \A p \in Visits : SeenOk(visit[p])
    BY DEF SeenInv, SeenOk
<1>2. ASSUME NEW p \in Visits \ {r} PROVE SeenOk(visit[p])'
    <2> PICK q : q = visit[p]
        OBVIOUS
    <2>1. SeenOk(q)'
        BY <1>1, SeenKept
    <2> QED BY <2>1, SeenNext
<1>3. SeenOk(visit[r])'
    <2> PICK q, b : q = visit'[r] /\ b = visit'[r].book
        OBVIOUS
    <2> PICK rows, shot : rows = RowsOf(b) /\ shot = Snapshot(b)
        OBVIOUS
    <2>1. ASSUME q.pc \in {"update", "delete"}
          PROVE  b \in DOMAIN books' /\ ~q.seen.before.deleted /\ Fits(b, rows, shot, q.seen.rows, q.seen.before)
        <3>1. q.seen = [before |-> shot, rows |-> Len(rows)] /\ b \in DOMAIN books /\ ~books[b].deleted
            BY <2>1
        <3>2. q.seen.before = shot /\ q.seen.rows = Len(rows) /\ Len(rows) \in Nat /\ ~shot.deleted
            BY <3>1, RowsAreCounted DEF Snapshot
        <3>3. GoesOn(b, rows, Len(rows), shot)
            BY <3>1, ChainTells DEF HistoryInv, Tells
        <3> QED BY <2>1, <3>1, <3>2, <3>3 DEF Fits, HasTexts
    <2>2. q.pc \in {"update", "delete"} => RowsOf(b)' = rows /\ Snapshot(b)' = shot
        BY RowsSame DEF Snapshot
    <2>3. SeenOk(q)'
        BY <2>1, <2>2, SeenFitsNext
    <2> QED BY <2>3, SeenNext
<1>4. \A p \in Visits : SeenOk(visit[p])'
    BY <1>2, <1>3
<1> QED BY <1>4 DEF SeenInv, SeenOk

\* The history of the next state, book by book.
LEMMA ToldNext ==
    ASSUME \A i \in DOMAIN audits' : audits'[i].book \in DOMAIN books',
           DOMAIN InitialBooks \subseteq DOMAIN books',
           \A b \in DOMAIN books' : \E rows, shot : RowsOf(b)' = rows /\ Snapshot(b)' = shot /\ Tells(b, rows, shot)
    PROVE  HistoryInv'
<1>1. ASSUME NEW b \in DOMAIN books' PROVE Tells(b, RowsOf(b), Snapshot(b))'
    <2> PICK rows, shot : RowsOf(b)' = rows /\ Snapshot(b)' = shot /\ Tells(b, rows, shot)
        OBVIOUS
    <2> QED BY DEF Tells, GoesOn, InTime, HasTexts, Birth
<1>2. AuditChain'
    BY <1>1 DEF AuditChain, Tells
<1> QED BY <1>2 DEF HistoryInv

\* Nothing is told when nothing is done.
LEMMA QuietHistory ==
    ASSUME HistoryInv, UNCHANGED <<books, audits>>
    PROVE  HistoryInv'
<1>1. ASSUME NEW b \in DOMAIN books'
      PROVE  RowsOf(b)' = RowsOf(b) /\ Snapshot(b)' = Snapshot(b) /\ Tells(b, RowsOf(b), Snapshot(b))
    BY ChainTells, RowsSame DEF HistoryInv, Snapshot
<1> QED BY <1>1, ToldNext DEF HistoryInv

\* A change of the books leaves one story of each.
LEMMA HistoryKeeps ==
    ASSUME BooksInv, SeenInv, HistoryInv, NEW r \in Visits, BooksMove(r), BooksGrow
    PROVE  HistoryInv'
<1>1. \A b \in DOMAIN books : Tells(b, RowsOf(b), Snapshot(b))
    BY ChainTells DEF HistoryInv
<1>2. DOMAIN InitialBooks \subseteq DOMAIN books'
    BY DEF HistoryInv, BooksGrow
<1>3. CASE UNCHANGED <<books, audits>>
    BY <1>3, QuietHistory
<1>4. ASSUME NEW b \in DOMAIN books, RowsOf(b)' = RowsOf(b), Same(b)
      PROVE  \E rows, told : RowsOf(b)' = rows /\ Snapshot(b)' = told /\ Tells(b, rows, told)
    <2> PICK rows, shot, later : rows = RowsOf(b) /\ shot = Snapshot(b) /\ later = Snapshot(b)'
        OBVIOUS
    <2>1. Tells(b, rows, shot) /\ Columns(later) = Columns(shot) /\ HasTexts(later, shot)
        BY <1>1, <1>4, SameShot
    <2>2. Tells(b, rows, later)
        BY <2>1, LaterGoesOn DEF Tells
    <2> QED BY <1>4, <2>2
<1>5. CASE Changed(r)
    <2>1. audits' = audits /\ \A i \in DOMAIN audits' : audits'[i].book \in DOMAIN books'
        BY <1>5 DEF Changed, HistoryInv, BooksGrow
    <2>2. ASSUME NEW b \in DOMAIN books'
          PROVE  \E rows, told : RowsOf(b)' = rows /\ Snapshot(b)' = told /\ Tells(b, rows, told)
        <3>1. RowsOf(b)' = RowsOf(b)
            BY <2>1, RowsSame
        <3>2. CASE b \in DOMAIN books
            BY <1>4, <1>5, <3>1, <3>2 DEF Changed
        <3>3. CASE b \notin DOMAIN books
            <4> PICK rows, shot : rows = RowsOf(b) /\ shot = Snapshot(b)'
                OBVIOUS
            <4>1. Len(rows) = 0 /\ DOMAIN rows = 1..Len(rows)
                BY <3>3, RowsAreCounted DEF HistoryInv
            <4>2. Columns(shot) = <<FALSE, FALSE, 0>>
                BY <1>5, <3>3 DEF Changed, Snapshot, Columns
            <4>3. b \notin DOMAIN InitialBooks
                BY <3>3 DEF HistoryInv
            <4>4. GoesOn(b, rows, 0, shot)
                BY <4>2, <4>3 DEF GoesOn, Birth, Columns, HasTexts
            <4>5. Tells(b, rows, shot)
                BY <4>1, <4>4 DEF Tells
            <4> QED BY <3>1, <4>5
        <3> QED BY <3>2, <3>3
    <2> QED BY <1>2, <2>1, <2>2, ToldNext
<1>6. CASE Audited(r)
    <2> PICK c, seen : c = visit[r].book /\ seen = visit[r].seen
        OBVIOUS
    <2> PICK shot, later : shot = Snapshot(c) /\ later = Snapshot(c)'
        OBVIOUS
    <2>1. /\ c \in DOMAIN books /\ visit[r].pc \in {"update", "delete"}
          /\ \A a \in DOMAIN books \ {c} : Same(a)
        BY <1>6 DEF Audited
    <2>2. PICK texts :
              /\ audits' = Audit(r, [active |-> books'[c].active, deleted |-> books'[c].deleted,
                                     pageCount |-> books'[c].pageCount, texts |-> texts])
              /\ texts = books'[c].texts \/ (texts = seen.before.texts /\ books'[c].texts = books[c].texts)
        BY <1>6 DEF Audited
    <2> PICK after : after = [active |-> books'[c].active, deleted |-> books'[c].deleted,
                              pageCount |-> books'[c].pageCount, texts |-> texts]
        OBVIOUS
    <2> PICK row : row = [book |-> c, before |-> seen.before, after |-> after, rows |-> seen.rows]
        OBVIOUS
    <2>3. /\ audits' = Append(audits, row)
          /\ row.book = c /\ row.after = after /\ row.before = seen.before /\ row.rows = seen.rows
        BY <2>2 DEF Audit
    <2>4. row.rows = Len(RowsOf(c)) =>
              GoesOn(c, RowsOf(c), Len(RowsOf(c)), row.before) /\ HasTexts(shot, row.before)
        BY <2>1, <2>3 DEF SeenInv
    <2>5. Columns(later) = Columns(row.after)
        BY <2>3 DEF Snapshot, Columns
    <2>6. row.rows = Len(RowsOf(c)) => HasTexts(later, row.after)
        BY <2>2, <2>3, <2>4 DEF Snapshot, HasTexts
    <2>7. \A i \in DOMAIN audits' : audits'[i].book \in DOMAIN books'
        <3>1. /\ DOMAIN audits' = 1..Len(audits) + 1 /\ DOMAIN audits = 1..Len(audits) /\ Len(audits) \in Nat
              /\ audits'[Len(audits) + 1] = row /\ \A i \in DOMAIN audits : audits'[i] = audits[i]
            BY <2>3, AppendIsSeq DEF BooksInv
        <3>2. \A i \in DOMAIN audits' : i = Len(audits) + 1 \/ i \in DOMAIN audits
            BY <3>1
        <3> QED BY <2>1, <2>3, <3>1, <3>2 DEF HistoryInv, BooksGrow
    <2>8. DOMAIN books' = DOMAIN books
        BY <1>6 DEF Audited, BooksInv, IsSeq
    <2>9. ASSUME NEW b \in DOMAIN books'
          PROVE  \E rows, told : RowsOf(b)' = rows /\ Snapshot(b)' = told /\ Tells(b, rows, told)
        <3> PICK rows, told, longer : rows = RowsOf(b) /\ told = Snapshot(b) /\ longer = RowsOf(b)'
            OBVIOUS
        <3>1. Tells(b, rows, told) /\ Len(rows) \in Nat /\ DOMAIN rows = 1..Len(rows)
            BY <1>1, <2>8, RowsAreCounted
        <3>2. CASE b = c
            <4>1. /\ Len(longer) = Len(rows) + 1 /\ DOMAIN longer = 1..Len(rows) + 1
                  /\ longer[Len(rows) + 1] = row /\ \A n \in 1..Len(rows) : longer[n] = rows[n]
                BY SMTT(30), <2>3, <3>2, RowsAppended
            <4>2. Tells(c, longer, later)
                BY <2>4, <2>5, <2>6, <3>1, <3>2, <4>1, TellsOn
            <4> QED BY <3>2, <4>2
        <3>3. CASE b # c
            <4>1. longer = rows
                BY <2>3, <3>3, RowsAppended
            <4>2. Same(b)
                BY <2>1, <2>8, <3>3
            <4> QED BY <1>4, <2>8, <4>1, <4>2
        <3> QED BY <3>2, <3>3
    <2> QED BY <1>2, <2>7, <2>9, ToldNext
<1> QED BY <1>3, <1>5, <1>6 DEF BooksMove

(* ------------------------------- The whole ------------------------------ *)

\* No request begins to work on a deleted book.
NoneBegins == \A p \in Visits, b \in DOMAIN books : books[b].deleted /\ Edits(p, b)' => Edits(p, b)

\* A step of an admin keeps the invariant.
LEMMA StepOfAdmin ==
    ASSUME ShelfInv, NEW r \in Visits, AdminStep(r)
    PROVE  ShelfInv' /\ BooksMove(r) /\ BooksGrow /\ NoneBegins
<1> USE DEF ShelfInv
<1>1. AdminMove(r)
    BY AdminMoves
<1>2. BooksMove(r) /\ now' = now
    BY <1>1 DEF AdminMove, BooksMove
<1>3. BooksInv' /\ BooksGrow
    BY <1>2, BooksStep
<1>4. CacheInv'
    BY <1>1, AdminKeeps DEF CacheInv
<1>5. PICK x : AdminGoes(r, x)
    BY <1>1 DEF AdminMove
<1>6. visit'[r] = x /\ \A p \in Visits \ {r} : visit'[p] = visit[p]
    BY <1>5 DEF AdminGoes, VisitInv
<1>7. SeenInv'
    BY <1>2, <1>3, <1>5, <1>6, SeenKeeps DEF AdminGoes
<1>8. HistoryInv'
    BY <1>2, <1>3, HistoryKeeps
<1>9. NoneBegins
    BY <1>5, <1>6 DEF NoneBegins, Edits, AdminGoes
<1> QED BY <1>2, <1>3, <1>4, <1>7, <1>8, <1>9 DEF CacheInv

\* A step of a reader keeps it.
LEMMA StepOfReader ==
    ASSUME ShelfInv, NEW r \in Visits, ReaderStep(r)
    PROVE  ShelfInv' /\ BooksMove(r) /\ BooksGrow /\ NoneBegins
<1> USE DEF ShelfInv
<1>1. CacheInv' /\ UNCHANGED <<books, audits, now>>
    BY ReaderKeeps DEF CacheInv
<1>2. BooksMove(r) /\ now' = now
    BY <1>1 DEF BooksMove
<1>3. BooksInv' /\ BooksGrow
    BY <1>2, BooksStep
<1>4. /\ \A p \in Visits \ {r} : visit'[p] = visit[p]
      /\ visit'[r].pc \notin {"update", "delete", "translate"}
    BY ReaderGoes DEF CacheInv, Busy
<1>5. SeenInv'
    BY <1>2, <1>3, <1>4, SeenKeeps
<1>6. HistoryInv'
    BY <1>2, <1>3, HistoryKeeps
<1>7. NoneBegins
    BY <1>4 DEF NoneBegins, Edits
<1> QED BY <1>1, <1>2, <1>3, <1>5, <1>6, <1>7 DEF CacheInv

\* Time keeps it.
LEMMA StepOfTime ==
    ASSUME ShelfInv, Tick
    PROVE  ShelfInv' /\ UNCHANGED <<books, visit>>
<1> USE DEF ShelfInv
<1>1. BooksInv' /\ CacheInv'
    BY TickKeeps DEF CacheInv
<1>2. UNCHANGED <<books, audits, visit>> /\ \E r \in Visits : TRUE
    BY DEF Tick, tables, Begun, Visits
<1>3. BooksGrow
    BY <1>2, BooksSame DEF Tick, BooksInv
<1>4. SeenInv'
    <2>1. ASSUME NEW r \in Visits PROVE SeenOk(visit[r])'
        <3> PICK q : q = visit[r]
            OBVIOUS
        <3>1. BooksMove(r) /\ SeenOk(q)
            BY <1>2 DEF BooksMove, SeenInv, SeenOk
        <3>2. SeenOk(q)'
            BY <1>3, <3>1, SeenKept
        <3>3. visit'[r] = q
            BY <1>2
        <3> QED BY <3>2, <3>3, SeenNext
    <2> QED BY <2>1 DEF SeenInv, SeenOk
<1>5. HistoryInv'
    <2> PICK r \in Visits : TRUE
        BY <1>2
    <2>1. BooksMove(r)
        BY <1>2 DEF BooksMove
    <2> QED BY <1>3, <2>1, HistoryKeeps
<1> QED BY <1>1, <1>2, <1>4, <1>5 DEF CacheInv

\* A stutter keeps it.
LEMMA StepOfNobody ==
    ASSUME ShelfInv, UNCHANGED catalogueVars
    PROVE  ShelfInv'
<1> USE DEF ShelfInv, catalogueVars, visitVars, tables
<1>1. BooksInv'
    BY DEF BooksInv, IsSeq, IsBook
<1>2. VisitInv'
    BY DEF VisitInv, VisitOk, IsReading, IsWorking, With, Announces, Version, Due
<1>3. VersionInv'
    BY DEF VersionInv
<1>4. FreshInv'
    BY SMTT(30) DEF FreshInv, ServedFresh, IsFresh, Version, Due, KeyOf
<1>5. DeletedInv'
    BY DEF DeletedInv, CachedAlive, ServedAlive, AliveAt, ShownOn, IsDetail, IsSeq
<1>6. SeenInv'
    <2>1. ASSUME NEW r \in Visits PROVE SeenOk(visit[r])'
        <3> PICK q, b, rows, shot : q = visit[r] /\ b = q.book /\ rows = RowsOf(b) /\ shot = Snapshot(b)
            OBVIOUS
        <3>1. SeenOk(q)
            BY DEF SeenInv, SeenOk
        <3>2. visit'[r] = q /\ RowsOf(b)' = rows /\ Snapshot(b)' = shot /\ books' = books
            BY RowsSame DEF Snapshot
        <3>3. SeenOk(q)'
            BY <3>1, <3>2, SeenFits, SeenFitsNext
        <3> QED BY <3>2, <3>3, SeenNext
    <2> QED BY <2>1 DEF SeenInv, SeenOk
<1>7. HistoryInv'
    BY QuietHistory
<1> QED BY <1>1, <1>2, <1>3, <1>4, <1>5, <1>6, <1>7

\* ShelfInv is inductive.
LEMMA ShelfStep ==
    ASSUME ShelfInv, [CatalogueNext]_catalogueVars
    PROVE  ShelfInv'
<1>1. CASE Tick
    BY <1>1, StepOfTime
<1>2. CASE \E r \in Readers : ReaderStep(r)
    BY <1>2, StepOfReader DEF Visits
<1>3. CASE \E r \in Admins : AdminStep(r)
    BY <1>3, StepOfAdmin DEF Visits
<1>4. CASE UNCHANGED catalogueVars
    BY <1>4, StepOfNobody
<1> QED BY <1>1, <1>2, <1>3, <1>4 DEF CatalogueNext

\* It holds at the beginning, when the cache is empty and nobody has asked.
LEMMA ShelfBegins == CatalogueInit => ShelfInv
<1> SUFFICES ASSUME CatalogueInit PROVE ShelfInv
    OBVIOUS
<1>1. /\ books = InitialBooks /\ audits = << >> /\ visit = [r \in Visits |-> Idle]
      /\ version = << >> /\ data = << >> /\ rewound = {} /\ due = << >> /\ now = 0
    BY DEF CatalogueInit
<1>2. DOMAIN audits = {} /\ DOMAIN version = {} /\ DOMAIN data = {} /\ DOMAIN due = {}
    BY <1>1
<1>3. \A r \in Visits : visit[r].pc = "idle"
    BY <1>1 DEF Idle
<1>4. ASSUME NEW b \in DOMAIN books
      PROVE  IsBook(books[b]) /\ books[b].deletedAt = 0 /\ books[b].deleted = FALSE
    <2> PICK x : x = InitialBooks[b]
        OBVIOUS
    <2>1. /\ x = [publisher |-> x.publisher, authors |-> x.authors, categories |-> x.categories,
                  variants |-> x.variants, active |-> x.active, deleted |-> x.deleted,
                  deletedAt |-> x.deletedAt, pageCount |-> x.pageCount, rev |-> x.rev, texts |-> x.texts]
          /\ x.deleted = FALSE /\ x.deletedAt = 0 /\ x.rev = 0
        BY <1>1, InitialTables
    <2>2. IsBook(x)
        <3>1. x.deleted \in BOOLEAN
            BY <2>1, Zenon
        <3>2. x.deletedAt \in Nat /\ x.rev \in Nat
            BY <2>1
        <3>3. DOMAIN x.texts = Languages
            BY <1>1, SlugKeys
        <3> QED BY <2>1, <3>1, <3>2, <3>3, Zenon DEF IsBook
    <2> QED BY <1>1, <2>1, <2>2
<1>5. BooksInv
    <2>1. IsSeq(books)
        BY <1>1, InitialTables DEF IsSeq
    <2>2. IsSeq(audits)
        BY <1>1 DEF IsSeq
    <2>3. ASSUME NEW b \in DOMAIN books PROVE IsBook(books[b]) /\ books[b].deletedAt <= now
        <3>1. IsBook(books[b]) /\ books[b].deletedAt = 0
            BY <1>4
        <3> QED BY <1>1, <3>1
    <2> QED BY <1>1, <2>1, <2>2, <2>3 DEF BooksInv
<1>6. VisitInv
    BY <1>1, <1>3 DEF VisitInv, VisitOk, Looking, Busy, Ended
<1>7. VersionInv
    BY <1>2 DEF VersionInv
<1>8. FreshInv /\ DeletedInv
    BY <1>2, <1>3 DEF FreshInv, ServedFresh, DeletedInv, ServedAlive
<1>9. SeenInv
    BY <1>3 DEF SeenInv
<1>10. HistoryInv
    <2>1. ASSUME NEW b \in DOMAIN books PROVE Tells(b, RowsOf(b), Snapshot(b))
        <3>1. Len(RowsOf(b)) = 0 /\ DOMAIN RowsOf(b) = 1..Len(RowsOf(b))
            BY <1>2, <1>5, RowsAreCounted
        <3>2. Birth(b) = Snapshot(b)
            BY <1>1, <1>4 DEF Birth, Snapshot
        <3>3. GoesOn(b, RowsOf(b), 0, Snapshot(b))
            BY <3>2 DEF GoesOn, HasTexts
        <3> QED BY <3>1, <3>3 DEF Tells
    <2> QED BY <1>1, <1>2, <2>1, ChainTells DEF HistoryInv
<1> QED BY <1>5, <1>6, <1>7, <1>8, <1>9, <1>10 DEF ShelfInv

\* So it always holds.
LEMMA ShelfHolds == Spec => []ShelfInv
<1>1. ShelfInv /\ [CatalogueNext]_catalogueVars => ShelfInv'
    BY ShelfStep
<1> QED BY <1>1, ShelfBegins, PTL DEF Spec

\* Readers are shown what was announced, and nothing that was deleted a lifetime ago.
THEOREM ReadersStayCurrent == Spec => []ReadersAreCurrent
<1>1. ShelfInv => ReadersAreCurrent
    <2> SUFFICES ASSUME ShelfInv, NEW r \in Visits, visit[r].pc = "served"
                 PROVE  /\ visit[r].ns.of = "detail" /\ visit[r].ns \notin rewound
                              => visit[r].page.rev >= visit[r].floor
                        /\ \A b \in ShownBooks(r) :
                               books[b].deleted => visit[r].at <= books[b].deletedAt + TTL + visit[r].lag
        BY DEF ReadersAreCurrent, Reads
    <2> USE DEF ShelfInv
    <2>1. visit[r].ns.of = "detail" /\ visit[r].ns \notin rewound => visit[r].page.rev >= visit[r].floor
        BY DEF FreshInv, ServedFresh
    <2>2. ShownBooks(r) = ShownOn(visit[r].ns, visit[r].page)
        BY DEF ShownBooks, ShownOn
    <2>3. /\ visit[r].at \in Nat /\ visit[r].lag \in Nat /\ TTL \in Nat
          /\ AliveAt(ShownOn(visit[r].ns, visit[r].page), visit[r].at - TTL - visit[r].lag)
        <3>1. ServedAlive(r) /\ now \in Nat
            BY DEF DeletedInv, BooksInv
        <3>2. /\ visit[r].at \in 0..now /\ visit[r].lag \in Nat
              /\ AliveAt(ShownOn(visit[r].ns, visit[r].page), visit[r].at - TTL - visit[r].lag)
            BY <3>1 DEF ServedAlive
        <3>3. visit[r].at \in Nat /\ TTL \in Nat
            <4>1. \A at \in 0..now : at \in Nat
                BY <3>1
            <4> QED BY <3>2, <4>1, VisitConstants, Zenon
        <3> QED BY <3>2, <3>3, Zenon
    <2>4. ASSUME NEW b \in ShownBooks(r), books[b].deleted
          PROVE  visit[r].at <= books[b].deletedAt + TTL + visit[r].lag
        <3>1. b \in DOMAIN books /\ visit[r].at - TTL - visit[r].lag <= books[b].deletedAt
            BY <2>2, <2>3, <2>4 DEF AliveAt
        <3>2. books[b].deletedAt \in Nat
            BY <3>1 DEF BooksInv, IsBook
        <3> QED BY <2>3, <3>1, <3>2
    <2> QED BY <2>1, <2>4
<1> QED BY <1>1, ShelfHolds, PTL

\* The audit rows of every book tell how it became what it is.
THEOREM AuditsTellTheStory == Spec => []AuditChain
<1>1. ShelfInv => AuditChain
    BY DEF ShelfInv, HistoryInv
<1> QED BY <1>1, ShelfHolds, PTL

\* A deleted book stays deleted, and only a request that was at work on it when it
\* was deleted changes its columns or texts.
THEOREM DeletedStays == Spec => DeletedIsFinal
<1> DEFINE Final == \A b \in DOMAIN books : books[b].deleted =>
               /\ books'[b].deleted
               /\ \A r \in Visits : Edits(r, b)' => Edits(r, b)
               /\ Snapshot(b)' # Snapshot(b) => \E r \in Visits : Edits(r, b)
<1>1. ASSUME ShelfInv, CatalogueNext PROVE Final
    <2>1. CASE Tick
        BY <1>1, <2>1, StepOfTime DEF Edits, Snapshot
    <2>2. CASE \E r \in Visits : BooksMove(r) /\ BooksGrow /\ NoneBegins
        <3>1. PICK r \in Visits : BooksMove(r) /\ BooksGrow /\ NoneBegins
            BY <2>2
        <3>2. ASSUME NEW b \in DOMAIN books, Snapshot(b)' # Snapshot(b)
              PROVE  Edits(r, b)
            <4>1. CASE UNCHANGED <<books, audits>>
                BY <3>2, <4>1 DEF Snapshot
            <4>2. CASE Changed(r)
                <5>1. Same(b) /\ (books'[b].texts = books[b].texts \/ Translates(r, b))
                    BY <4>2 DEF Changed
                <5>2. books'[b].texts = books[b].texts => Snapshot(b)' = Snapshot(b)
                    BY <5>1 DEF Same, Snapshot
                <5> QED BY <3>2, <5>1, <5>2 DEF Translates, Edits
            <4>3. CASE Audited(r)
                <5>1. visit[r].book # b => Same(b) /\ books'[b].texts = books[b].texts
                    BY <4>3 DEF Audited
                <5>2. visit[r].book = b
                    BY <3>2, <5>1 DEF Same, Snapshot
                <5> QED BY <4>3, <5>2 DEF Audited, Edits
            <4> QED BY <3>1, <4>1, <4>2, <4>3 DEF BooksMove
        <3> QED BY <3>1, <3>2 DEF BooksGrow, NoneBegins
    <2>3. (\E r \in Readers : ReaderStep(r)) \/ (\E r \in Admins : AdminStep(r))
              => \E r \in Visits : BooksMove(r) /\ BooksGrow /\ NoneBegins
        BY <1>1, StepOfReader, StepOfAdmin DEF Visits
    <2> QED BY <1>1, <2>1, <2>2, <2>3 DEF CatalogueNext
<1>2. ShelfInv /\ [CatalogueNext]_catalogueVars => [Final]_catalogueVars
    BY <1>1
<1>3. [][Final]_catalogueVars => DeletedIsFinal
    BY DEF DeletedIsFinal
<1> QED BY <1>2, <1>3, ShelfHolds, PTL DEF Spec

(* ------------------------------ Types and keys -------------------------- *)

\* A row of the table of books refers to what there is.
Refers(x) ==
    /\ x.publisher \in publishers /\ {a.name : a \in x.authors} \subseteq authors
    /\ x.categories \subseteq DOMAIN categories /\ x.variants \in Seq(Variant)

RowsInv == \A b \in DOMAIN books : Refers(books[b])

IsbnInv ==
    \A a, b \in DOMAIN books : \A m \in DOMAIN books[a].variants, n \in DOMAIN books[b].variants :
        books[a].variants[m].isbn = books[b].variants[n].isbn => a = b /\ m = n

TreeInv ==
    /\ IsSeq(categories)
    /\ \A c \in DOMAIN categories : categories[c].parent \in 0..c - 1 /\ categories[c].sort \in Int

\* What a request that creates a book has seen to on its way there, and which
\* body one that changes a book has.
Prepared(q) ==
    /\ q.pc \in {"publisher", "find", "authors", "open", "create"} => q.body \in BookBodies
    /\ q.pc = "authors" /\ q.kind # "author" => q.body.publisher \in publishers
    /\ q.pc \in {"find", "open", "create"} => q.body.publisher \in publishers
    /\ q.pc \in {"open", "create"} => BylineNames(q.body) \subseteq authors
    /\ q.pc = "update" => q.body \in UpdateBodies

PreparedInv == \A r \in Visits : Prepared(visit[r])

\* Each name, category and ISBN that a row has is there, and is there once; and
\* requests have seen to it before they write.
KeysInv == RowsInv /\ IsbnInv /\ TreeInv /\ PreparedInv /\ now <= MaxClock

\* A row with the same references and ISBNs.
Kin(x, y) ==
    /\ y.publisher = x.publisher /\ y.authors = x.authors /\ y.categories = x.categories
    /\ y.variants \in Seq(Variant) /\ Len(y.variants) = Len(x.variants)
    /\ \A n \in DOMAIN x.variants : y.variants[n].isbn = x.variants[n].isbn

\* Names and categories stay.
KeysGrow ==
    publishers \subseteq publishers' /\ authors \subseteq authors' /\ DOMAIN categories \subseteq DOMAIN categories'

\* When rows keep their references and ISBNs, the keys hold.
LEMMA KinKeeps ==
    ASSUME RowsInv, IsbnInv, KeysGrow, DOMAIN books' = DOMAIN books,
           \A a \in DOMAIN books : Kin(books[a], books'[a])
    PROVE  RowsInv' /\ IsbnInv'
<1>1. RowsInv'
  <2> SUFFICES ASSUME NEW b \in DOMAIN books PROVE Refers(books[b])'
    BY DEF RowsInv, Refers
  <2>1. Refers(books[b]) /\ Kin(books[b], books'[b])
    BY DEF RowsInv
  <2> QED BY <2>1 DEF Refers, Kin, KeysGrow
<1>2. \A a \in DOMAIN books : DOMAIN books'[a].variants = DOMAIN books[a].variants
  <2> TAKE a \in DOMAIN books
  <2>1. books[a].variants \in Seq(Variant) /\ Kin(books[a], books'[a])
    BY DEF RowsInv, Refers
  <2> QED BY <2>1 DEF Kin
<1>3. IsbnInv'
  <2> SUFFICES ASSUME NEW a \in DOMAIN books, NEW b \in DOMAIN books,
                      NEW m \in DOMAIN books[a].variants, NEW n \in DOMAIN books[b].variants,
                      books'[a].variants[m].isbn = books'[b].variants[n].isbn
               PROVE  a = b /\ m = n
    BY <1>2 DEF IsbnInv
  <2>1. books'[a].variants[m].isbn = books[a].variants[m].isbn /\ books'[b].variants[n].isbn = books[b].variants[n].isbn
    BY DEF Kin
  <2>2. books[a].variants[m].isbn = books[b].variants[n].isbn
    BY <2>1, Zenon
  <2>3. \A k \in DOMAIN books[a].variants, l \in DOMAIN books[b].variants :
            books[a].variants[k].isbn = books[b].variants[l].isbn => a = b /\ k = l
    BY Zenon DEF IsbnInv
  <2>4. a = b /\ m = n
    BY <2>2, <2>3, Zenon
  <2> QED BY <2>4
<1> QED BY <1>1, <1>3

\* A row that is not written.
LEMMA KinToItself ==
    ASSUME RowsInv, NEW b \in DOMAIN books, books'[b] = books[b]
    PROVE  Kin(books[b], books'[b])
BY DEF RowsInv, Refers, Kin

\* A row in which other columns are written.
LEMMA KinOfRow ==
    ASSUME NEW x, Refers(x), NEW y, y.publisher = x.publisher, y.authors = x.authors,
           y.categories = x.categories, y.variants = x.variants
    PROVE  Kin(x, y)
BY DEF Refers, Kin

\* A row with other prices.
LEMMA KinOfVariants ==
    ASSUME NEW x, Refers(x), NEW y, y.publisher = x.publisher, y.authors = x.authors,
           y.categories = x.categories, DOMAIN y.variants = DOMAIN x.variants,
           y.variants = [n \in DOMAIN x.variants |-> y.variants[n]],
           \A n \in DOMAIN x.variants : y.variants[n] \in Variant /\ y.variants[n].isbn = x.variants[n].isbn
    PROVE  Kin(x, y)
<1>1. Len(x.variants) \in Nat /\ DOMAIN x.variants = 1..Len(x.variants)
  BY DEF Refers
<1>2. y.variants \in [1..Len(x.variants) -> Variant]
  BY <1>1
<1>3. y.variants \in Seq(Variant) /\ Len(y.variants) = Len(x.variants)
  BY <1>1, <1>2
<1> QED BY <1>3 DEF Kin

\* updatePriceVariant
LEMMA PriceKin ==
    ASSUME BooksInv, RowsInv, NEW r, NEW b \in DOMAIN books, NEW n \in DOMAIN books[b].variants,
           NEW price \in Prices, UpdatePriceVariant(r, b, n, price)
    PROVE  DOMAIN books' = DOMAIN books /\ \A a \in DOMAIN books : Kin(books[a], books'[a])
<1> DEFINE x == books[b]
           variants == [x.variants EXCEPT ![n].price = price]
           new == [books EXCEPT ![b].variants[n].price = price, ![b].rev = @ + 1]
<1>1. books' = new
  BY DEF UpdatePriceVariant
<1>2. DOMAIN books' = DOMAIN books /\ \A a \in DOMAIN books \ {b} : books'[a] = books[a]
  BY <1>1
<1>3. IsBook(x) /\ Refers(x) /\ price \in Int
  BY BodyTypes DEF BooksInv, RowsInv
<1>4. books'[b] = [x EXCEPT !.variants = variants, !.rev = x.rev + 1]
  <2>1. PICK mid : mid = [books EXCEPT ![b].variants[n].price = price]
    OBVIOUS
  <2>2. books' = [mid EXCEPT ![b].rev = @ + 1]
    BY <1>1, <2>1
  <2> QED BY <1>3, <2>1, <2>2 DEF IsBook
<1>5. /\ DOMAIN variants = DOMAIN x.variants /\ variants = [m \in DOMAIN x.variants |-> variants[m]]
      /\ \A m \in DOMAIN x.variants : variants[m] \in Variant /\ variants[m].isbn = x.variants[m].isbn
  <2>1. \A m \in DOMAIN x.variants : x.variants[m] \in Variant
    BY <1>3 DEF Refers
  <2> HIDE DEF x
  <2>2. \A m \in DOMAIN x.variants : variants[m] = IF m = n THEN [x.variants[m] EXCEPT !.price = price] ELSE x.variants[m]
    OBVIOUS
  <2> HIDE DEF variants
  <2>3. ASSUME NEW m \in DOMAIN x.variants PROVE variants[m] \in Variant /\ variants[m].isbn = x.variants[m].isbn
    <3>1. x.variants[m] \in Variant
      BY <2>1
    <3> QED BY <1>3, <2>2, <3>1 DEF Variant
  <2> QED BY <2>3 DEF variants
<1> HIDE DEF variants, x
<1>6. /\ books'[b].publisher = x.publisher /\ books'[b].authors = x.authors
      /\ books'[b].categories = x.categories /\ books'[b].variants = variants
  BY <1>3, <1>4 DEF IsBook
<1>7. Kin(x, books'[b])
  BY <1>3, <1>5, <1>6, KinOfVariants
<1> QED BY <1>2, <1>7, KinToItself DEF x

\* A translation is no reference.
LEMMA TranslationKin ==
    ASSUME BooksInv, RowsInv, NEW b, NEW l, NEW text, books' = [books EXCEPT ![b].texts[l] = text]
    PROVE  DOMAIN books' = DOMAIN books /\ \A a \in DOMAIN books : Kin(books[a], books'[a])
<1>1. DOMAIN books' = DOMAIN books /\ \A a \in DOMAIN books \ {b} : books'[a] = books[a]
  OBVIOUS
<1>2. ASSUME b \in DOMAIN books PROVE Kin(books[b], books'[b])
  <2> DEFINE x == books[b]
             texts == [x.texts EXCEPT ![l] = text]
  <2>1. IsBook(x) /\ Refers(x)
    BY <1>2 DEF BooksInv, RowsInv
  <2>2. books'[b] = [x EXCEPT !.texts = texts]
    BY <1>2
  <2> HIDE DEF x, texts
  <2>3. /\ books'[b].publisher = x.publisher /\ books'[b].authors = x.authors
        /\ books'[b].categories = x.categories /\ books'[b].variants = x.variants
    BY <2>1, <2>2 DEF IsBook
  <2> QED BY <2>1, <2>3, KinOfRow DEF x
<1> QED BY <1>1, <1>2, KinToItself

\* Nor does deleting a book change one.
LEMMA DeletionKin ==
    ASSUME BooksInv, RowsInv, NEW r, CommitDelete(r)
    PROVE  DOMAIN books' = DOMAIN books /\ \A a \in DOMAIN books : Kin(books[a], books'[a])
<1> DEFINE b == visit[r].book
<1>1. books' = [books EXCEPT ![b] = [@ EXCEPT !.active = FALSE, !.deleted = TRUE, !.deletedAt = now]]
  BY DEF CommitDelete, SoftDeleted
<1>2. DOMAIN books' = DOMAIN books /\ \A a \in DOMAIN books \ {b} : books'[a] = books[a]
  BY <1>1
<1>3. ASSUME b \in DOMAIN books PROVE Kin(books[b], books'[b])
  <2> DEFINE x == books[b]
             new == [x EXCEPT !.active = FALSE, !.deleted = TRUE, !.deletedAt = now]
  <2>1. IsBook(x) /\ now \in Nat /\ x.rev \in Nat
    BY <1>3 DEF BooksInv, IsBook
  <2>2. books'[b] = new
    BY <1>1, <1>3
  <2> HIDE DEF x
  <2>3. books'[b] = [publisher |-> x.publisher, authors |-> x.authors, categories |-> x.categories,
                     variants |-> x.variants, active |-> FALSE, deleted |-> TRUE,
                     deletedAt |-> now, pageCount |-> x.pageCount, rev |-> x.rev, texts |-> x.texts]
    BY <2>1, <2>2 DEF IsBook
  <2>4. /\ books'[b].publisher = x.publisher /\ books'[b].authors = x.authors
        /\ books'[b].categories = x.categories /\ books'[b].variants = x.variants
    BY <2>1, <2>3 DEF IsBook
  <2>5. Refers(x)
    BY <1>3 DEF RowsInv, x
  <2> QED BY <2>4, <2>5, KinOfRow DEF x
<1> QED BY <1>2, <1>3, KinToItself

\* An update of a variant changes its price and whether it is active.
LEMMA UpdatedVariants ==
    ASSUME NEW body \in UpdateBodies, NEW a \in DOMAIN books, Refers(books[a]),
           NEW n \in DOMAIN books[a].variants
    PROVE  /\ UpdatedVariant(a, n, body) \in Variant
           /\ UpdatedVariant(a, n, body).isbn = books[a].variants[n].isbn
<1> DEFINE old == books[a].variants[n]
           edits == {v \in body.variants : v.id = [book |-> a, n |-> n]}
           price == Given({v.price : v \in edits}, old.price)
           active == Given(UNION {v.active : v \in edits}, old.active)
<1>1. old \in Variant
  BY DEF Refers
<1>2. \A v \in edits : v.price \in Int /\ v.active \subseteq BOOLEAN
  BY BodyTypes
<1>3. price \in Int
  <2>1. {v.price : v \in edits} \subseteq Int
    BY <1>2
  <2> HIDE DEF edits
  <2> QED BY <1>1, <2>1 DEF Given, Variant
<1>4. active \in BOOLEAN
  <2>1. UNION {v.active : v \in edits} \subseteq BOOLEAN
    BY <1>2
  <2>2. old.active \in BOOLEAN
    BY <1>1 DEF Variant
  <2> HIDE DEF edits, old
  <2> QED BY <2>1, <2>2, Zenon DEF Given
<1>5. UpdatedVariant(a, n, body) = [old EXCEPT !.price = price, !.active = active]
  BY DEF UpdatedVariant
<1> HIDE DEF old, price, active
<1>6. [old EXCEPT !.price = price, !.active = active] \in Variant
  BY <1>1, <1>3, <1>4 DEF Variant
<1>7. [old EXCEPT !.price = price, !.active = active].isbn = old.isbn
  BY <1>1 DEF Variant
<1> QED BY <1>5, <1>6, <1>7 DEF old

\* updateBook keeps references and ISBNs, of every book whose variants it names.
LEMMA UpdateKin ==
    ASSUME BooksInv, RowsInv, NEW b, NEW body \in UpdateBodies,
           books' = [a \in DOMAIN books |-> UpdatedBook(a, b, body)]
    PROVE  DOMAIN books' = DOMAIN books /\ \A a \in DOMAIN books : Kin(books[a], books'[a])
<1>1. DOMAIN books' = DOMAIN books /\ \A a \in DOMAIN books : books'[a] = UpdatedBook(a, b, body)
  OBVIOUS
<1>2. ASSUME NEW a \in DOMAIN books PROVE Kin(books[a], books'[a])
  <2> DEFINE x == books[a]
             variants == [n \in DOMAIN x.variants |-> UpdatedVariant(a, n, body)]
             texts == [l \in Languages |-> IF l \in DOMAIN body.titles
                                           THEN [x.texts[l] EXCEPT !.title = body.titles[l]] ELSE x.texts[l]]
             y == books'[a]
  <2>1. IsBook(x) /\ Refers(x)
    BY DEF BooksInv, RowsInv
  <2>2. \A n \in DOMAIN x.variants : variants[n] \in Variant /\ variants[n].isbn = x.variants[n].isbn
    BY <2>1, UpdatedVariants
  <2>3. \/ y = [x EXCEPT !.variants = variants]
        \/ y = [x EXCEPT !.variants = variants, !.rev = @ + 1, !.active = Given(body.active, @),
                         !.pageCount = Given(body.pageCount, @), !.texts = texts]
    BY ZenonT(30), <1>1 DEF UpdatedBook
  <2>4. DOMAIN variants = DOMAIN x.variants /\ variants = [n \in DOMAIN x.variants |-> variants[n]]
    OBVIOUS
  <2> HIDE DEF x, texts, variants, y
  <2>5. /\ y.publisher = x.publisher /\ y.authors = x.authors
        /\ y.categories = x.categories /\ y.variants = variants
    BY <2>1, <2>3 DEF IsBook
  <2>6. Kin(x, y)
    BY <2>1, <2>2, <2>4, <2>5, KinOfVariants
  <2> QED BY <2>6 DEF x, y
<1> QED BY <1>1, <1>2
\* createVariants adds ISBNs that no variant has, each once.
LEMMA FreeIsbns ==
    ASSUME NEW isbns \in Seq(STRING)
    PROVE  /\ NewVariants(isbns) \in Seq(Variant)
           /\ \A n \in DOMAIN NewVariants(isbns) : NewVariants(isbns)[n].isbn \notin UsedIsbns
           /\ \A m, n \in DOMAIN NewVariants(isbns) :
                 NewVariants(isbns)[m].isbn = NewVariants(isbns)[n].isbn => m = n
<1> DEFINE S == {i \in DOMAIN isbns : isbns[i] \notin UsedIsbns \union {isbns[j] : j \in 1..i - 1}}
           order == OldestFirst(S)
           N == Cardinality(S)
           new == NewVariants(isbns)
<1>1. S \in SUBSET Nat /\ IsFiniteSet(S) /\ N \in Nat
  <2>1. Len(isbns) \in Nat /\ DOMAIN isbns = 1..Len(isbns)
    OBVIOUS
  <2>2. IsFiniteSet(1..Len(isbns))
    BY <2>1, FS_Interval
  <2>3. S \subseteq 1..Len(isbns)
    BY <2>1
  <2>4. IsFiniteSet(S)
    <3> HIDE DEF S
    <3> QED BY <2>2, <2>3, FS_Subset
  <2>5. N \in Nat
    <3> HIDE DEF S
    <3> QED BY <2>4, FS_CardinalityType
  <2> QED BY <2>1, <2>3, <2>4, <2>5
<1>2. /\ DOMAIN order = 1..N
      /\ \A n \in 1..N : order[n] \in S /\ Cardinality({y \in S : y < order[n]}) = n - 1
  <2> HIDE DEF S
  <2>1. order \in Seq(S) /\ Len(order) = N
    BY <1>1, Oldest
  <2>2. DOMAIN order = 1..N
    BY <1>1, <2>1
  <2> QED BY <1>1, <2>2, Oldest
<1>3. /\ DOMAIN new = 1..N /\ new = [n \in 1..N |-> new[n]]
      /\ \A n \in 1..N : new[n] = [isbn |-> isbns[order[n]], price |-> Unpriced, active |-> TRUE]
  <2> DEFINE free == [n \in DOMAIN order |-> isbns[order[n]]]
  <2>1. new = [i \in DOMAIN free |-> [isbn |-> free[i], price |-> Unpriced, active |-> TRUE]]
    BY DEF NewVariants, Kept
  <2>2. DOMAIN free = 1..N /\ \A n \in 1..N : free[n] = isbns[order[n]]
    BY <1>2
  <2> HIDE DEF free, new, order, N
  <2> QED BY <2>1, <2>2
<1>4. \A n \in 1..N : order[n] \in DOMAIN isbns /\ order[n] \in Nat /\ isbns[order[n]] \in STRING
  <2> HIDE DEF order, N
  <2>1. \A i \in S : i \in DOMAIN isbns /\ i \in Nat /\ isbns[i] \in STRING
    OBVIOUS
  <2> QED BY <1>2, <2>1
<1>5. new \in Seq(Variant)
  <2> HIDE DEF order, N, new
  <2>1. \A x \in STRING : [isbn |-> x, price |-> Unpriced, active |-> TRUE] \in Variant
    BY DEF Variant, Unpriced
  <2>2. \A n \in 1..N : new[n] \in Variant
    BY <1>3, <1>4, <2>1, Zenon
  <2> QED BY <1>1, <1>3, <2>2
<1>6. \A n \in 1..N : new[n].isbn = isbns[order[n]]
  <2>1. \A x : [isbn |-> x, price |-> Unpriced, active |-> TRUE].isbn = x
    OBVIOUS
  <2> HIDE DEF order, N, new
  <2> QED BY <1>3, <2>1, Zenon
<1>7. \A n \in 1..N : new[n].isbn \notin UsedIsbns
  <2> TAKE n \in 1..N
  <2>1. \A i \in S : isbns[i] \notin UsedIsbns
    OBVIOUS
  <2> HIDE DEF S, order, N, new
  <2> QED BY <1>2, <1>6, <2>1
<1>8. ASSUME NEW m \in 1..N, NEW n \in 1..N, new[m].isbn = new[n].isbn PROVE m = n
  <2>1. order[m] = order[n]
    <3>1. \A i, j \in S : isbns[i] = isbns[j] => ~(j < i)
      <4> TAKE i, j \in S
      <4>1. isbns[i] \notin {isbns[k] : k \in 1..i - 1} /\ j \in Nat /\ j # 0 /\ i \in Nat
        OBVIOUS
      <4> QED BY <4>1
    <3>2. order[m] \in S /\ order[n] \in S /\ order[m] \in Nat /\ order[n] \in Nat
      BY <1>2, <1>4
    <3>3. isbns[order[m]] = isbns[order[n]]
      BY <1>6, <1>8, Zenon
    <3> HIDE DEF S, order
    <3> QED BY <3>1, <3>2, <3>3
  <2>2. m - 1 = n - 1
    BY <1>2, <2>1, Zenon
  <2> QED BY <1>1, <2>2
<1>9. \A m, n \in 1..N : new[m].isbn = new[n].isbn => m = n
  BY <1>8
<1> HIDE DEF N
<1> QED BY <1>3, <1>5, <1>7, <1>9, Zenon DEF new

\* createBook adds a row that refers to what is there, with ISBNs of its own.
LEMMA CommitBookKeys ==
    ASSUME BooksInv, RowsInv, IsbnInv, NEW r, Prepared(visit[r]), CommitBook(r)
    PROVE  RowsInv' /\ IsbnInv'
<1> DEFINE body == visit[r].body
           new == NewBook(body, visit[r].seen)
           id == Len(books) + 1
<1>1. /\ visit[r].pc = "create" /\ books' = Append(books, new)
      /\ UNCHANGED <<categories, publishers, authors>>
  BY DEF CommitBook
<1>2. body \in BookBodies /\ body.publisher \in publishers /\ BylineNames(body) \subseteq authors
  BY <1>1 DEF Prepared
<1>3. /\ new.publisher = body.publisher /\ new.authors = Byline(body) /\ new.categories = {}
      /\ new.variants = NewVariants(body.isbns)
  BY DEF NewBook
<1>4. body.isbns \in Seq(STRING)
  BY <1>2, BodyTypes
<1>5. /\ new.variants \in Seq(Variant)
      /\ \A n \in DOMAIN new.variants : new.variants[n].isbn \notin UsedIsbns
      /\ \A m, n \in DOMAIN new.variants : new.variants[m].isbn = new.variants[n].isbn => m = n
  BY <1>3, <1>4, FreeIsbns
<1>6. Refers(new)
  BY <1>2, <1>3, <1>5 DEF Refers, BylineNames
<1> HIDE DEF new, body
<1>7. /\ \A b \in DOMAIN books : books'[b] = books[b]
      /\ books'[id] = new
      /\ DOMAIN books = 1..Len(books) /\ DOMAIN books' = 1..id /\ Len(books) \in Nat
  BY <1>1, AppendIsSeq DEF BooksInv
<1>8. \A b \in DOMAIN books' : b \in DOMAIN books \/ b = id
  BY <1>7
<1>9. RowsInv'
  <2>1. \A b \in DOMAIN books' : Refers(books'[b])
    BY <1>6, <1>7, <1>8 DEF RowsInv
  <2> QED BY <1>1, <2>1 DEF RowsInv, Refers
<1>10. \A b \in DOMAIN books : \A n \in DOMAIN books[b].variants : books[b].variants[n].isbn \in UsedIsbns
  BY DEF UsedIsbns, Range
<1>11. IsbnInv'
  <2> SUFFICES ASSUME NEW a \in DOMAIN books', NEW b \in DOMAIN books',
                      NEW m \in DOMAIN books'[a].variants, NEW n \in DOMAIN books'[b].variants,
                      books'[a].variants[m].isbn = books'[b].variants[n].isbn
               PROVE  a = b /\ m = n
    BY DEF IsbnInv
  <2>1. CASE a = id /\ b = id
    BY <1>5, <1>7, <2>1, Zenon
  <2>2. CASE a = id /\ b \in DOMAIN books
    <3>1. books'[b].variants[n].isbn \in UsedIsbns /\ books'[a].variants[m].isbn \notin UsedIsbns
      BY <1>5, <1>7, <1>10, <2>2, Zenon
    <3> QED BY <3>1, Zenon
  <2>3. CASE b = id /\ a \in DOMAIN books
    <3>1. books'[a].variants[m].isbn \in UsedIsbns /\ books'[b].variants[n].isbn \notin UsedIsbns
      BY <1>5, <1>7, <1>10, <2>3, Zenon
    <3> QED BY <3>1, Zenon
  <2>4. CASE a \in DOMAIN books /\ b \in DOMAIN books
    <3>1. \A k \in DOMAIN books[a].variants, l \in DOMAIN books[b].variants :
              books[a].variants[k].isbn = books[b].variants[l].isbn => a = b /\ k = l
      BY <2>4, Zenon DEF IsbnInv
    <3>2. a = b /\ m = n
      BY <1>7, <2>4, <3>1, Zenon
    <3> QED BY <3>2
  <2> QED BY <1>8, <2>1, <2>2, <2>3, <2>4
<1> QED BY <1>9, <1>11

\* A category comes after its parent.
LEMMA CreateCategoryKeys ==
    ASSUME TreeInv, NEW r, NEW body \in CategoryBodies, CreateCategory(r, body)
    PROVE  TreeInv' /\ DOMAIN categories \subseteq DOMAIN categories'
<1>1. CASE categories' = categories
  BY <1>1 DEF TreeInv, IsSeq
<1>2. CASE categories' = Append(categories, body) /\ body.parent \in DOMAIN categories \union {0}
  <2>1. /\ IsSeq(categories') /\ \A c \in DOMAIN categories : categories'[c] = categories[c]
        /\ categories'[Len(categories) + 1] = body
        /\ DOMAIN categories = 1..Len(categories) /\ DOMAIN categories' = 1..Len(categories) + 1
        /\ Len(categories) \in Nat
    BY <1>2, AppendIsSeq DEF TreeInv
  <2>a. body.sort \in Int
    BY BodyTypes
  <2>2. ASSUME NEW c \in DOMAIN categories'
        PROVE  categories'[c].parent \in 0..c - 1 /\ categories'[c].sort \in Int
    <3>1. CASE c \in DOMAIN categories
      BY <2>1, <3>1 DEF TreeInv
    <3>2. CASE c = Len(categories) + 1
      BY <1>2, <2>1, <2>a, <3>2
    <3> QED BY <2>1, <3>1, <3>2
  <2> QED BY <2>1, <2>2 DEF TreeInv
<1> QED BY <1>1, <1>2 DEF CreateCategory

(* ----------------------- What requests have seen to --------------------- *)

\* What a request has seen to stays so.
LEMMA PreparedStays ==
    ASSUME NEW q, Prepared(q), publishers \subseteq publishers', authors \subseteq authors'
    PROVE  Prepared(q)'
BY DEF Prepared

\* A request that is answered need not have seen to anything.
LEMMA EndIsPrepared ==
    ASSUME VisitInv, NEW r \in Visits, NEW answer \in {"done", "error", "refused"}, End(r, answer)
    PROVE  Prepared(visit[r])'
<1>1. visit'[r].pc = answer
  BY DEF End, Goto, VisitInv
<1> QED BY <1>1 DEF Prepared

\* The steps towards a publisher, authors and a book find or create them first.
LEMMA NamesArePrepared ==
    ASSUME VisitInv, PreparedInv, NEW r \in Visits, NEW body \in BookBodies, NEW kind \in {"create", "publisher"},
           \/ FindPublisher(r, kind, body) \/ FindAuthor(r, body)
           \/ UpsertPublisher(r) \/ FindAuthors(r) \/ UpsertAuthors(r) \/ OpenBook(r)
    PROVE  /\ Prepared(visit[r])' /\ UNCHANGED <<books, categories, now>>
           /\ publishers \subseteq publishers' /\ authors \subseteq authors'
<1> DEFINE q == visit[r]
<1>0. /\ UNCHANGED <<books, categories, now>> /\ Prepared(q)
      /\ q.pc \in Busy => IsWorking(q)
      /\ visit = [v \in Visits |-> visit[v]]
  BY DEF VisitInv, VisitOk, PreparedInv, FindPublisher, FindAuthor, UpsertPublisher, FindAuthors, UpsertAuthors,
         OpenBook, tables, Cached
<1> DEFINE Next(pc, seen) == visit'[r] = With(q, pc, seen)
<1>a. \A x : Goto(r, x) => visit'[r] = x
  BY <1>0 DEF Goto
<1>b. ASSUME NEW pc, NEW seen, Next(pc, seen) PROVE visit'[r].pc = pc /\ visit'[r].body = q.body /\ visit'[r].kind = q.kind
  BY <1>b DEF With
<1>1. CASE FindPublisher(r, kind, body)
  <2>1. Goto(r, Working(kind, "publisher", 0, body, {body.publisher} \cap publishers))
    BY <1>1 DEF FindPublisher
  <2>2. visit'[r].pc = "publisher" /\ visit'[r].body = body
    BY <1>a, <2>1, WorkingWorks
  <2>3. UNCHANGED <<publishers, authors>>
    BY <1>1 DEF FindPublisher, tables
  <2> QED BY <1>0, <2>2, <2>3 DEF Prepared
<1>2. CASE FindAuthor(r, body)
  <2>1. Goto(r, Working("author", "authors", 0, body, BylineNames(body) \cap authors))
    BY <1>2 DEF FindAuthor
  <2>2. visit'[r].pc = "authors" /\ visit'[r].body = body /\ visit'[r].kind = "author"
    BY <1>a, <2>1, WorkingWorks DEF Working
  <2>3. UNCHANGED <<publishers, authors>>
    BY <1>2 DEF FindAuthor, tables
  <2> QED BY <1>0, <2>2, <2>3 DEF Prepared
<1>3. CASE UpsertPublisher(r)
  <2>1. /\ q.pc = "publisher" /\ authors' = authors /\ publishers \subseteq publishers'
        /\ \/ End(r, "error") \/ End(r, "done")
           \/ q.body.publisher \in publishers' /\ Goto(r, [q EXCEPT !.pc = "find"])
    BY <1>3 DEF UpsertPublisher
  <2>2. IsWorking(q)
    BY <1>0, <2>1 DEF Busy
  <2>3. [q EXCEPT !.pc = "find"] = With(q, "find", q.seen)
    BY <2>2 DEF IsWorking, With
  <2>4. CASE q.body.publisher \in publishers' /\ Goto(r, [q EXCEPT !.pc = "find"])
    <3>1. visit'[r].pc = "find" /\ visit'[r].body = q.body
      BY <1>a, <1>b, <2>3, <2>4
    <3>2. q.body \in BookBodies
      BY <1>0, <2>1 DEF Prepared
    <3> QED BY <1>0, <2>1, <2>4, <3>1, <3>2 DEF Prepared
  <2> QED BY <1>0, <2>1, <2>4, EndIsPrepared
<1>4. CASE FindAuthors(r)
  <2> DEFINE seen == BylineNames(q.body) \cap authors
  <2>1. q.pc = "find" /\ UNCHANGED <<publishers, authors>>
    BY <1>4 DEF FindAuthors, tables
  <2>2. PICK x : x = [q EXCEPT !.pc = "authors", !.seen = seen]
    OBVIOUS
  <2>3. Goto(r, x)
    BY <1>4, <2>2 DEF FindAuthors
  <2>4. IsWorking(q)
    BY <1>0, <2>1 DEF Busy
  <2>5. q.body \in BookBodies /\ q.body.publisher \in publishers
    BY <1>0, <2>1 DEF Prepared
  <2> HIDE DEF seen, q
  <2>6. x = With(q, "authors", seen)
    BY <2>2, <2>4 DEF IsWorking, With
  <2>7. visit'[r].pc = "authors" /\ visit'[r].body = q.body
    BY <1>a, <1>b, <2>3, <2>6
  <2> QED BY <1>0, <2>1, <2>5, <2>7 DEF Prepared
<1>5. CASE UpsertAuthors(r)
  <2>1. /\ q.pc = "authors" /\ publishers' = publishers /\ authors' = authors \union BylineNames(q.body)
        /\ \/ End(r, "error") \/ End(r, "done")
           \/ q.kind # "author" /\ Goto(r, [q EXCEPT !.pc = "open"])
    BY <1>5 DEF UpsertAuthors
  <2>2. IsWorking(q)
    BY <1>0, <2>1 DEF Busy
  <2>3. [q EXCEPT !.pc = "open"] = With(q, "open", q.seen)
    BY <2>2 DEF IsWorking, With
  <2>4. CASE q.kind # "author" /\ Goto(r, [q EXCEPT !.pc = "open"])
    <3>1. visit'[r].pc = "open" /\ visit'[r].body = q.body
      BY <1>a, <1>b, <2>3, <2>4
    <3>2. q.body \in BookBodies /\ q.body.publisher \in publishers
      BY <1>0, <2>1, <2>4 DEF Prepared
    <3> QED BY <1>0, <2>1, <3>1, <3>2 DEF Prepared, BylineNames, Byline
  <2> QED BY <1>0, <2>1, <2>4, EndIsPrepared
<1>6. CASE OpenBook(r)
  <2> DEFINE slug == BuildUniqueSlug(q.body.lang, BaseSlug(q.body.title, Len(books) + 1))
             seen == [slug |-> slug, count |-> CountTexts]
  <2>1. q.pc = "open" /\ UNCHANGED <<publishers, authors>>
    BY <1>6 DEF OpenBook, tables
  <2>2. PICK x : x = [q EXCEPT !.pc = "create", !.seen = seen]
    OBVIOUS
  <2>3. Goto(r, x)
    BY <1>6, <2>2 DEF OpenBook
  <2>4. IsWorking(q)
    BY <1>0, <2>1 DEF Busy
  <2>5. q.body \in BookBodies /\ q.body.publisher \in publishers /\ BylineNames(q.body) \subseteq authors
    BY <1>0, <2>1 DEF Prepared
  <2> HIDE DEF seen, q
  <2>6. x = With(q, "create", seen)
    BY <2>2, <2>4 DEF IsWorking, With
  <2>7. visit'[r].pc = "create" /\ visit'[r].body = q.body
    BY <1>a, <1>b, <2>3, <2>6
  <2>8. BylineNames(visit[r].body)' = BylineNames(q.body)
    BY <2>7 DEF BylineNames, Byline
  <2>9. q.body \in BookBodies /\ q.body.publisher \in publishers' /\ BylineNames(visit[r].body)' \subseteq authors'
    BY <2>1, <2>5, <2>8
  <2>10. Prepared(visit[r])'
    BY <2>7, <2>9 DEF Prepared
  <2> QED BY <1>0, <2>1, <2>10
<1> QED BY <1>1, <1>2, <1>3, <1>4, <1>5, <1>6

\* A step of an admin, as far as the keys are concerned: rows keep what refers to
\* others, or a book or a category is added.
LEMMA AdminKeepsKeys ==
    ASSUME BooksInv, VisitInv, KeysInv, NEW r \in Visits, AdminStep(r)
    PROVE  /\ RowsInv' /\ IsbnInv' /\ TreeInv' /\ now' = now
           /\ publishers \subseteq publishers' /\ authors \subseteq authors'
           /\ Prepared(visit[r])'
<1> USE DEF KeysInv
<1> DEFINE q == visit[r]
           Stay == UNCHANGED <<publishers, authors>>
<1>0. Prepared(q) /\ visit = [v \in Visits |-> visit[v]]
  BY DEF PreparedInv, VisitInv
<1>a. ASSUME UNCHANGED categories PROVE TreeInv'
  BY <1>a DEF TreeInv, IsSeq
<1>b. ASSUME UNCHANGED books, publishers \subseteq publishers', authors \subseteq authors',
             DOMAIN categories \subseteq DOMAIN categories'
      PROVE  RowsInv' /\ IsbnInv'
  BY <1>b, KinToItself, KinKeeps DEF KeysGrow
<1>c. ASSUME NEW x, Goto(r, x), x.pc \notin {"publisher", "find", "authors", "open", "create", "update"}
      PROVE  Prepared(visit[r])'
  <2>1. visit'[r] = x
    BY <1>0, <1>c DEF Goto
  <2> QED BY <1>c, <2>1 DEF Prepared
<1>d. ASSUME Stay, UNCHANGED categories, DOMAIN books' = DOMAIN books,
             \A a \in DOMAIN books : Kin(books[a], books'[a])
      PROVE  RowsInv' /\ IsbnInv'
  BY <1>d, KinKeeps DEF KeysGrow
<1>1. CASE \/ \E body \in BookBodies : \E kind \in {"create", "publisher"} : FindPublisher(r, kind, body)
           \/ \E body \in BookBodies : FindAuthor(r, body)
           \/ BookBodies # {} /\ (UpsertPublisher(r) \/ FindAuthors(r) \/ UpsertAuthors(r) \/ OpenBook(r))
  BY <1>1, <1>a, <1>b, NamesArePrepared
<1>2. ASSUME UpsertPublisher(r) \/ FindAuthors(r) \/ UpsertAuthors(r) \/ OpenBook(r) PROVE BookBodies # {}
  BY <1>0, <1>2 DEF Prepared, UpsertPublisher, FindAuthors, UpsertAuthors, OpenBook
<1>3. CASE CommitBook(r)
  <2>1. Stay /\ UNCHANGED categories /\ now' = now /\ End(r, "done")
    BY <1>3 DEF CommitBook, Cached
  <2> QED BY <1>0, <1>3, <1>a, <2>1, CommitBookKeys, EndIsPrepared
<1>4. CASE \E b \in Targets, l \in Languages, title \in Titles : OpenTranslation(r, b, l, title)
  <2>1. PICK b, l, title : OpenTranslation(r, b, l, title)
    BY <1>4
  <2> DEFINE new == [lang |-> l, title |-> title]
             seen == [slug |-> BuildUniqueSlug(l, BaseSlug(title, b)), count |-> CountTexts]
  <2>2. /\ UNCHANGED <<tables, now>>
        /\ End(r, "refused") \/ Goto(r, Working("translate", "translate", b, new, seen))
    BY <2>1 DEF OpenTranslation, Cached
  <2> HIDE DEF new, seen
  <2>3. Prepared(visit[r])'
    BY <1>c, <2>2, EndIsPrepared, WorkingWorks
  <2> QED BY <1>a, <1>b, <2>2, <2>3 DEF tables
<1>5. CASE CommitTranslation(r)
  <2> DEFINE text == NewText(q.body.title, q.seen)
  <2>1. /\ now' = now /\ UNCHANGED <<categories, publishers, authors>>
        /\ End(r, "error") \/ End(r, "done")
        /\ books' = books \/ books' = [books EXCEPT ![q.book].texts[q.body.lang] = text]
    BY <1>5 DEF CommitTranslation, Cached, tables
  <2> HIDE DEF text
  <2>2. RowsInv' /\ IsbnInv'
    BY <1>b, <1>d, <2>1, TranslationKin
  <2> QED BY <1>a, <2>1, <2>2, EndIsPrepared
<1>6. CASE \E b \in Targets, body \in UpdateBodies : ReadBook(r, "update", b, body)
  <2>1. PICK b \in Targets, body \in UpdateBodies : ReadBook(r, "update", b, body)
    BY <1>6
  <2> DEFINE seen == [before |-> Snapshot(b), rows |-> Len(RowsOf(b))]
  <2>2. /\ UNCHANGED <<tables, now>>
        /\ End(r, "refused") \/ Goto(r, Working("update", "update", b, body, seen))
    BY <2>1 DEF ReadBook, Cached
  <2> HIDE DEF seen
  <2>3. CASE Goto(r, Working("update", "update", b, body, seen))
    <3>1. visit'[r].pc = "update" /\ visit'[r].body = body
      BY <1>0, <2>3, WorkingWorks DEF Goto
    <3>2. Prepared(visit[r])'
      BY <3>1 DEF Prepared
    <3> QED BY <1>a, <1>b, <2>2, <3>2 DEF tables
  <2> QED BY <1>a, <1>b, <2>2, <2>3, EndIsPrepared DEF tables
<1>7. CASE \E b \in Targets : ReadBook(r, "delete", b, 0)
  <2>1. PICK b : ReadBook(r, "delete", b, 0)
    BY <1>7
  <2> DEFINE seen == [before |-> Snapshot(b), rows |-> Len(RowsOf(b))]
  <2>2. /\ UNCHANGED <<tables, now>>
        /\ End(r, "refused") \/ Goto(r, Working("delete", "delete", b, 0, seen))
    BY <2>1 DEF ReadBook, Cached
  <2> HIDE DEF seen
  <2>3. Prepared(visit[r])'
    BY <1>c, <2>2, EndIsPrepared, WorkingWorks
  <2> QED BY <1>a, <1>b, <2>2, <2>3 DEF tables
<1>8. CASE CommitUpdate(r)
  <2> DEFINE next == [q EXCEPT !.pc = "bump", !.body = books'[q.book].rev, !.seen = Languages]
  <2>1. /\ q.pc = "update" /\ now' = now /\ UNCHANGED <<categories, publishers, authors>>
        /\ \/ books' = books /\ End(r, "error")
           \/ /\ books' = [a \in DOMAIN books |-> UpdatedBook(a, q.book, q.body)]
              /\ Goto(r, next)
    BY <1>8 DEF CommitUpdate, Cached, tables
  <2>2. q.body \in UpdateBodies
    BY <1>0, <2>1 DEF Prepared
  <2>3. RowsInv' /\ IsbnInv'
    BY <1>b, <1>d, <2>1, <2>2, UpdateKin
  <2>4. IsWorking(q)
    BY <2>1 DEF VisitInv, VisitOk, Busy
  <2>5. next.pc = "bump"
    BY <2>4 DEF IsWorking, With
  <2> HIDE DEF next
  <2>6. Prepared(visit[r])'
    BY <1>c, <2>1, <2>5, EndIsPrepared
  <2> QED BY <1>a, <2>1, <2>3, <2>6
<1>9. CASE CommitDelete(r)
  <2>1. now' = now /\ UNCHANGED <<categories, publishers, authors>> /\ End(r, "done")
    BY <1>9 DEF CommitDelete, Cached
  <2>2. RowsInv' /\ IsbnInv'
    BY <1>9, <1>d, <2>1, DeletionKin
  <2> QED BY <1>a, <2>1, <2>2, EndIsPrepared
<1>10. CASE BumpDetail(r)
  <2>1. /\ q.pc = "bump" /\ UNCHANGED <<tables, now>>
        /\ End(r, "done") \/ \E l : Goto(r, [q EXCEPT !.seen = @ \ {l}])
    BY <1>10 DEF BumpDetail
  <2>2. IsWorking(q)
    BY <2>1 DEF VisitInv, VisitOk, Busy
  <2>3. ASSUME NEW l PROVE [q EXCEPT !.seen = @ \ {l}].pc = "bump"
    BY <2>1, <2>2 DEF IsWorking, With
  <2>4. Prepared(visit[r])'
    BY <1>c, <2>1, <2>3, EndIsPrepared
  <2> QED BY <1>a, <1>b, <2>1, <2>4 DEF tables
<1>11. CASE \E b \in Targets \cap DOMAIN books : \E n \in DOMAIN books[b].variants : \E price \in Prices :
                UpdatePriceVariant(r, b, n, price)
  <2>1. PICK b \in Targets \cap DOMAIN books : \E n \in DOMAIN books[b].variants : \E price \in Prices :
                UpdatePriceVariant(r, b, n, price)
    BY <1>11
  <2>2. PICK n \in DOMAIN books[b].variants, price \in Prices : UpdatePriceVariant(r, b, n, price)
    BY <2>1
  <2>3. /\ now' = now /\ UNCHANGED <<categories, publishers, authors>>
        /\ Goto(r, Working("price", "bump", b, books'[b].rev, Languages))
    BY <2>2 DEF UpdatePriceVariant, Cached
  <2>4. RowsInv' /\ IsbnInv'
    BY <1>d, <2>1, <2>2, <2>3, PriceKin
  <2>5. Prepared(visit[r])'
    BY <1>c, <2>3, WorkingWorks
  <2> QED BY <1>a, <2>3, <2>4, <2>5
<1>12. CASE \E body \in CategoryBodies : CreateCategory(r, body)
  <2>1. PICK body \in CategoryBodies : CreateCategory(r, body)
    BY <1>12
  <2>2. /\ now' = now /\ UNCHANGED <<books, publishers, authors>>
        /\ End(r, "done") \/ End(r, "refused")
    BY <2>1 DEF CreateCategory, Cached
  <2>3. TreeInv' /\ DOMAIN categories \subseteq DOMAIN categories'
    BY <2>1, CreateCategoryKeys
  <2> QED BY <1>b, <2>2, <2>3, EndIsPrepared
<1> QED BY <1>1, <1>2, <1>3, <1>4, <1>5, <1>6, <1>7, <1>8, <1>9, <1>10, <1>11, <1>12 DEF AdminStep

\* The clock has a bound.
LEMMA Clock == MaxClock \in Nat
BY VisitConstants, Zenon

\* A step of a reader changes no row, and he creates nothing.
LEMMA ReaderKeepsKeys ==
    ASSUME ShelfInv, KeysInv, NEW r \in Visits, ReaderStep(r)
    PROVE  /\ RowsInv' /\ IsbnInv' /\ TreeInv' /\ now' = now
           /\ publishers' = publishers /\ authors' = authors
           /\ Prepared(visit[r])'
<1> USE DEF ShelfInv
<1>1. visit'[r].pc \notin Busy
  BY ReaderGoes DEF CacheInv
<1>2. UNCHANGED <<tables, now>>
  BY ZenonT(30) DEF ReaderStep, GetVersion, InitVersion, AskStats, GetData, Factory, StoreData, Set
<1>3. RowsInv' /\ IsbnInv' /\ TreeInv'
  BY <1>2 DEF tables, KeysInv, RowsInv, Refers, IsbnInv, TreeInv, IsSeq
<1> QED BY <1>1, <1>2, <1>3 DEF tables, Prepared, Busy

\* KeysInv is inductive, given ShelfInv.
LEMMA KeysStep ==
    ASSUME ShelfInv, KeysInv, [CatalogueNext]_catalogueVars
    PROVE  KeysInv'
<1> USE DEF KeysInv
<1>1. ASSUME NEW r \in Visits, RowsInv', IsbnInv', TreeInv', now' = now, publishers \subseteq publishers',
             authors \subseteq authors', Prepared(visit[r])', \A p \in Visits \ {r} : visit'[p] = visit[p]
      PROVE  KeysInv'
  <2>1. ASSUME NEW p \in Visits \ {r} PROVE Prepared(visit[p])'
    <3> PICK q : q = visit[p]
      OBVIOUS
    <3>1. Prepared(q)
      BY DEF PreparedInv
    <3>2. Prepared(q)'
      BY <1>1, <3>1, PreparedStays
    <3>3. visit'[p] = q
      BY <1>1
    <3> QED BY <3>2, <3>3 DEF Prepared
  <2>2. PreparedInv'
    BY <1>1, <2>1 DEF PreparedInv
  <2> QED BY <1>1, <2>2
<1>2. CASE \E r \in Admins : AdminStep(r)
  <2>1. PICK r \in Visits : AdminStep(r)
    BY <1>2 DEF Visits
  <2>2. /\ RowsInv' /\ IsbnInv' /\ TreeInv' /\ now' = now
        /\ publishers \subseteq publishers' /\ authors \subseteq authors'
        /\ Prepared(visit[r])'
    BY <2>1, AdminKeepsKeys DEF ShelfInv
  <2>3. \A p \in Visits \ {r} : visit'[p] = visit[p]
    <3>1. AdminMove(r)
      BY <2>1, AdminMoves DEF ShelfInv
    <3> QED BY <3>1 DEF AdminMove, AdminGoes
  <2> QED BY <1>1, <2>2, <2>3
<1>3. CASE \E r \in Readers : ReaderStep(r)
  <2>1. PICK r \in Visits : ReaderStep(r)
    BY <1>3 DEF Visits
  <2>2. \A p \in Visits \ {r} : visit'[p] = visit[p]
    BY <2>1, ReaderGoes DEF ShelfInv, CacheInv
  <2> QED BY <1>1, <2>1, <2>2, ReaderKeepsKeys
<1>4. CASE Tick \/ UNCHANGED catalogueVars
  <2>1. UNCHANGED <<tables, visit>> /\ (now' = now \/ (now < MaxClock /\ now' = now + 1))
    BY <1>4 DEF Tick, catalogueVars, visitVars
  <2>2. now' <= MaxClock
    BY <2>1, Clock DEF ShelfInv, BooksInv
  <2>3. RowsInv' /\ IsbnInv' /\ TreeInv' /\ PreparedInv'
    BY <2>1 DEF tables, RowsInv, Refers, IsbnInv, TreeInv, IsSeq, PreparedInv, Prepared
  <2> QED BY <2>2, <2>3
<1> QED BY <1>2, <1>3, <1>4 DEF CatalogueNext

\* The keys hold in the catalogue the system begins with.
LEMMA KeysBegin == CatalogueInit => KeysInv
<1> SUFFICES ASSUME CatalogueInit PROVE KeysInv
  OBVIOUS
<1>1. /\ books = InitialBooks /\ categories = InitialCategories
      /\ publishers = {InitialBooks[b].publisher : b \in DOMAIN InitialBooks}
      /\ authors = UNION {{a.name : a \in InitialBooks[b].authors} : b \in DOMAIN InitialBooks}
      /\ visit = [r \in Visits |-> Idle] /\ now = 0
  BY DEF CatalogueInit
<1>2. RowsInv
  BY <1>1, InitialKeys DEF RowsInv, Refers
<1>3. IsbnInv /\ TreeInv
  BY <1>1, InitialKeys DEF IsbnInv, TreeInv, IsSeq
<1>4. PreparedInv /\ now <= MaxClock
  BY <1>1, Clock DEF PreparedInv, Prepared, Idle
<1> QED BY <1>2, <1>3, <1>4 DEF KeysInv

\* Every book refers to names and categories there are, no two variants have the same
\* ISBN, whichever books it is asked for in, and no category is above itself.
THEOREM ShelfTyped == Spec => []TypeOK
<1>1. ShelfInv /\ KeysInv /\ [CatalogueNext]_catalogueVars => KeysInv'
  BY KeysStep
<1>2. ShelfInv /\ KeysInv => TypeOK
  <2> SUFFICES ASSUME ShelfInv, KeysInv PROVE TypeOK
    OBVIOUS
  <2>1. now \in 0..MaxClock /\ \A ns \in DOMAIN version : version[ns] \in Nat \ {0}
    BY Clock DEF ShelfInv, KeysInv, BooksInv, VersionInv
  <2> QED BY <2>1 DEF KeysInv, RowsInv, Refers, IsbnInv, TreeInv, TypeOK
<1> QED BY <1>1, <1>2, KeysBegin, ShelfHolds, PTL DEF Spec

(* --------------------------------- Slugs -------------------------------- *)

\* What slugs are made of.
Piece == STRING \union {"book"}
Pieces == Seq(Piece)

\* Numbers up to n are n.
LEMMA Upto ==
    ASSUME NEW n \in Nat
    PROVE  IsFiniteSet(1..n) /\ Cardinality(1..n) = n
<1>1. \A a, b \in Int : IsFiniteSet(a..b) /\ Cardinality(a..b) = IF a > b THEN 0 ELSE b - a + 1
  BY FS_Interval
<1> QED BY <1>1

\* The slug of a title is a sequence of words.
LEMMA SlugOfTitle ==
    ASSUME NEW title \in Seq(Token)
    PROVE  GenerateSlug(title) \in Pieces
<1> DEFINE S == {i \in DOMAIN title : title[i].base # ""}
           words == Bases(title)
<1>1. Len(title) \in Nat /\ DOMAIN title = 1..Len(title)
  OBVIOUS
<1>2. S \in SUBSET Nat /\ IsFiniteSet(S) /\ S \subseteq DOMAIN title
  <2>1. S \subseteq 1..Len(title)
    BY ZenonT(30), <1>1
  <2>2. IsFiniteSet(1..Len(title))
    BY <1>1, Upto
  <2>3. IsFiniteSet(S)
    BY ZenonT(30), <2>1, <2>2, FS_Subset
  <2>4. S \subseteq DOMAIN title
    BY ZenonT(30)
  <2> HIDE DEF S
  <2> QED BY <1>1, <2>1, <2>3, <2>4
<1>3. \A i \in DOMAIN title : words[i] \in STRING
  <2>1. ASSUME NEW i \in DOMAIN title PROVE words[i] = title[i].base
    BY <2>1 DEF Bases
  <2>2. ASSUME NEW i \in DOMAIN title PROVE title[i].base \in STRING
    <3>1. title[i] \in Token
      BY <2>2
    <3> QED BY <3>1 DEF Token
  <2> QED BY <2>1, <2>2
<1>4. GenerateSlug(title) = Kept(words, S)
  BY DEF GenerateSlug
<1> HIDE DEF S, words
<1>5. /\ IsMap(Kept(words, S)) /\ DOMAIN Kept(words, S) = 1..Cardinality(S) /\ Cardinality(S) \in Nat
      /\ \A n \in 1..Cardinality(S) : Kept(words, S)[n] = words[OldestFirst(S)[n]]
  BY <1>2, KeptRows
<1>6. \A n \in 1..Cardinality(S) : OldestFirst(S)[n] \in S
  BY <1>2, Oldest
<1>7. \A n \in 1..Cardinality(S) : Kept(words, S)[n] \in Piece
  BY <1>2, <1>3, <1>5, <1>6 DEF Piece
<1> QED BY <1>4, <1>5, <1>7 DEF Pieces, IsMap

\* Two words are not none.
LEMMA TwoWords ==
    ASSUME NEW S, NEW v \in S, NEW w \in S
    PROVE  <<v, w>> \in Seq(S) /\ <<v, w>> # << >>
<1>1. <<v, w>> \in Seq(S)
  OBVIOUS
<1>2. Len(<<v, w>>) = 2 /\ Len(<< >>) = 0
  OBVIOUS
<1> QED BY <1>1, <1>2

\* What a slug begins with is not empty.
LEMMA BaseIsThere ==
    ASSUME NEW title \in Seq(Token), NEW id, ToString(id) \in STRING
    PROVE  BaseSlug(title, id) \in Pieces \ {<< >>}
<1> PICK t : t = ToString(id)
  BY Zenon
<1>1. t \in STRING
  BY Zenon
<1>2. BaseSlug(title, id) = IF GenerateSlug(title) = << >> THEN <<"book", t>> ELSE GenerateSlug(title)
  BY Zenon DEF BaseSlug
<1>3. GenerateSlug(title) \in Pieces
  BY SlugOfTitle, Zenon
<1>4. <<"book", t>> \in Pieces /\ <<"book", t>> # << >>
  <2>1. "book" \in Piece /\ t \in Piece
    BY <1>1, Zenon DEF Piece
  <2> QED BY <2>1, TwoWords, Zenon DEF Pieces
<1> QED BY <1>2, <1>3, <1>4, Zenon

Shown(b, l) == books[b].texts[l].slug

\* There are not more slugs than books.
LEMMA FewSlugs ==
    ASSUME IsSeq(books), NEW l
    PROVE  IsFiniteSet(TakenSlugs(l)) /\ Cardinality(TakenSlugs(l)) <= Len(books)
<1>1. Len(books) \in Nat /\ DOMAIN books = 1..Len(books)
  BY DEF IsSeq
<1>2. IsFiniteSet(1..Len(books)) /\ Cardinality(1..Len(books)) = Len(books)
  BY <1>1, Upto
<1> DEFINE f == [b \in 1..Len(books) |-> Shown(b, l)]
<1>3. f \in Surjection(1..Len(books), TakenSlugs(l))
  BY <1>1 DEF Surjection, TakenSlugs, Shown
<1>4. IsFiniteSet(TakenSlugs(l)) /\ Cardinality(TakenSlugs(l)) <= Cardinality(1..Len(books))
  BY <1>2, <1>3, FS_Surjection
<1> QED BY <1>2, <1>4

\* Of more things than are taken, one is free.
LEMMA OneIsFree ==
    ASSUME NEW T, IsFiniteSet(T), NEW N \in Nat, Cardinality(T) <= N, NEW f,
           \A m, n \in 1..N + 1 : f[m] = f[n] => m = n
    PROVE  \E n \in 1..N + 1 : f[n] \notin T
<1> SUFFICES ASSUME \A n \in 1..N + 1 : f[n] \in T PROVE FALSE
  OBVIOUS
<1> DEFINE g == [n \in 1..N + 1 |-> f[n]]
<1>1. g \in [1..N + 1 -> T] /\ \A n \in 1..N + 1 : g[n] = f[n]
  OBVIOUS
<1>2. IsFiniteSet(1..N + 1) /\ Cardinality(1..N + 1) = N + 1
  BY Upto
<1>3. Cardinality(T) \in Nat
  BY FS_CardinalityType
<1>4. Cardinality(T) < Cardinality(1..N + 1)
  BY <1>2, <1>3
<1> HIDE DEF g
<1>5. \E m, n \in 1..N + 1 : m # n /\ g[m] = g[n]
  BY <1>1, <1>2, <1>4, FS_PigeonHole
<1> QED BY <1>1, <1>5

\* A base and the bases with different suffixes differ.
LEMMA SuffixesDiffer ==
    ASSUME NEW base \in Pieces, NEW N \in Nat, NEW d, \A n \in 1..N : d[n] \in STRING,
           \A m, n \in 1..N : d[m] = d[n] => m = n,
           NEW f, \A n \in 1..N : f[n] = IF n = 1 THEN base ELSE Append(base, d[n])
    PROVE  \A m, n \in 1..N : f[m] = f[n] => m = n
<1>1. \A t \in STRING : /\ Append(base, t) \in Pieces /\ Len(Append(base, t)) = Len(base) + 1
                        /\ Append(base, t)[Len(base) + 1] = t
  BY DEF Pieces, Piece
<1>2. \A t \in STRING : Append(base, t) # base
  <2>1. Len(base) \in Nat /\ Len(base) + 1 # Len(base)
    BY DEF Pieces
  <2> SUFFICES ASSUME NEW t \in STRING, Append(base, t) = base PROVE FALSE
    OBVIOUS
  <2>2. Len(Append(base, t)) = Len(base) + 1
    BY <1>1
  <2> QED BY <2>1, <2>2, Zenon
<1>3. \A s, t \in STRING : Append(base, s) = Append(base, t) => s = t
  BY <1>1
<1> SUFFICES ASSUME NEW m \in 1..N, NEW n \in 1..N, f[m] = f[n] PROVE m = n
  OBVIOUS
<1>4. d[m] \in STRING /\ d[n] \in STRING
  OBVIOUS
<1>5. CASE m = 1 \/ n = 1
  BY <1>2, <1>4, <1>5
<1>6. CASE m # 1 /\ n # 1
  <2>1. Append(base, d[m]) = Append(base, d[n])
    BY <1>6
  <2>2. d[m] = d[n]
    BY <1>3, <1>4, <2>1
  <2> QED BY <2>2
<1> QED BY <1>5, <1>6

\* The first element of a set of numbers is one of them.
LEMMA FirstIsThere ==
    ASSUME NEW S \in SUBSET Nat, IsFiniteSet(S), S # {}
    PROVE  (CHOOSE n \in S : \A m \in S : n <= m) \in S
BY FirstIsIn DEF FirstOf

\* How many books there may be at most.
MostBooks == Len(InitialBooks) + Cardinality(Admins)

\* The slug that is chosen is taken by no book.
LEMMA ChosenIsFree ==
    ASSUME IsSeq(books), Len(books) <= MostBooks, MostBooks \in Nat, NEW l, NEW base \in Pieces, base # << >>
    PROVE  BuildUniqueSlug(l, base) \notin TakenSlugs(l) /\ BuildUniqueSlug(l, base) # << >>
<1> DEFINE Candidate(n) == IF n = 1 THEN base ELSE Append(base, ToString(n))
           free == {n \in 1..Len(books) + 1 : Candidate(n) \notin TakenSlugs(l)}
<1>1. BuildUniqueSlug(l, base) = Candidate(CHOOSE n \in free : \A m \in free : n <= m)
  BY Zenon DEF BuildUniqueSlug
<1>2. PICK N : N = Len(books) + 1
  OBVIOUS
<1>3. PICK d : d = [n \in 1..N |-> ToString(n)]
  BY Zenon
<1>4. \A n \in 1..N : d[n] = ToString(n)
  BY <1>3, Zenon
<1>5. PICK f : f = [n \in 1..N |-> Candidate(n)]
  BY Zenon
<1>6. \A n \in 1..N : f[n] = Candidate(n)
  BY <1>5, Zenon
<1>7. \A n \in 1..N : f[n] = IF n = 1 THEN base ELSE Append(base, d[n])
  BY <1>4, <1>6, Zenon
<1>8. free = {n \in 1..N : f[n] \notin TakenSlugs(l)}
  BY <1>2, <1>6, Zenon
<1>9. PICK most : most = MostBooks + 1
  OBVIOUS
<1>10. \A m, n \in 1..most : ToString(m) \in STRING /\ (ToString(m) = ToString(n) => m = n)
  BY <1>9, SlugKeys, Zenon DEF MostBooks
<1>11. Len(books) \in Nat /\ N \in Nat /\ N <= most /\ 1..N \subseteq 1..most
  <2> HIDE <1>1, <1>3, <1>4, <1>5, <1>6, <1>10
  <2> QED BY <1>2, <1>9 DEF IsSeq
<1>12. (\A n \in 1..N : d[n] \in STRING) /\ \A m, n \in 1..N : d[m] = d[n] => m = n
  BY <1>4, <1>10, <1>11, Zenon
<1> HIDE DEF free, Candidate
<1>13. \A m, n \in 1..N : f[m] = f[n] => m = n
  BY SMTT(30), <1>7, <1>11, <1>12, SuffixesDiffer
<1>14. \E n \in 1..N : f[n] \notin TakenSlugs(l)
  BY <1>2, <1>11, <1>13, FewSlugs, OneIsFree
<1>15. free # {} /\ free \subseteq 1..N
  BY <1>8, <1>14
<1>16. PICK n \in free : n = CHOOSE k \in free : \A m \in free : k <= m
  <2>1. IsFiniteSet(free) /\ free \in SUBSET Nat
    <3>1. IsFiniteSet(1..N)
      BY <1>11, Upto
    <3>2. IsFiniteSet(free)
      BY <1>15, <3>1, FS_Subset
    <3> QED BY <1>15, <3>2
  <2> QED BY <1>15, <2>1, FirstIsThere
<1>17. BuildUniqueSlug(l, base) = f[n] /\ n \in 1..N /\ f[n] \notin TakenSlugs(l)
  <2>1. n \in 1..N /\ f[n] \notin TakenSlugs(l)
    <3>1. n \in free
      OBVIOUS
    <3>2. n \in {k \in 1..N : f[k] \notin TakenSlugs(l)}
      BY <1>8, <3>1, Zenon
    <3> QED BY <3>2, Zenon
  <2>2. BuildUniqueSlug(l, base) = Candidate(n)
    BY <1>1, <1>16, Zenon
  <2> QED BY <1>6, <2>1, <2>2, Zenon
<1>18. f[n] # << >>
  <2>1. \A t \in STRING : Append(base, t) # << >>
    BY AppendProperties DEF Pieces, Piece
  <2> QED BY <1>7, <1>12, <1>17, <2>1
<1> QED BY <1>17, <1>18
(* ----------------------------- Translations ----------------------------- *)

\* A translation, of which only the title is ever changed.
TextOk(x) ==
    /\ x = [title |-> x.title, slug |-> x.slug, fresh |-> x.fresh] /\ x.title \in Seq(Token)
    /\ x # NoText => x.slug # << >>

TextsFit(x) == DOMAIN x.texts = Languages /\ \A l \in Languages : TextOk(x.texts[l])

SameText(x, y) == TextOk(y) /\ y.slug = x.slug /\ y.fresh = x.fresh /\ (y = NoText <=> x = NoText)

TextsInv == \A b \in DOMAIN books : TextsFit(books[b])

\* Of two books with the same slug, one has a slug that was chosen while another
\* was written.
UniqueInv ==
    \A l \in Languages : \A a, b \in DOMAIN books :
        a # b /\ IsTranslated(a, l) /\ IsTranslated(b, l) /\ Shown(a, l) = Shown(b, l) =>
            ~books[a].texts[l].fresh \/ ~books[b].texts[l].fresh

\* The slug that a request has chosen is still free, or a translation has been
\* written since.
Chosen(q) ==
    q.pc \in {"create", "translate"} =>
        /\ q.seen.count \in Nat /\ q.seen.count <= CountTexts /\ q.seen.slug # << >>
        /\ q.seen.count = CountTexts =>
              \A b \in DOMAIN books : q.body.lang \in Languages /\ IsTranslated(b, q.body.lang) =>
                  Shown(b, q.body.lang) # q.seen.slug
        /\ q.body.title \in Seq(Token)
        /\ q.pc = "translate" => q.book \in DOMAIN books /\ q.body.lang \in Languages

ChosenInv == \A r \in Visits : Chosen(visit[r])

Creators == {r \in Admins : visit[r].pc = "done"}

\* Every book that was not there from the beginning has its request.
CreatedInv == Len(books) <= Len(InitialBooks) + Cardinality(Creators)

SlugInv == TextsInv /\ UniqueInv /\ ChosenInv /\ CreatedInv

Translated == {t \in (DOMAIN books) \X Languages : books[t[1]].texts[t[2]] # NoText}

\* Translations are added at the places N, with what a request has chosen.
Adds(N, seen) ==
    /\ DOMAIN books \subseteq DOMAIN books'
    /\ \A a \in DOMAIN books' : TextsFit(books'[a])
    /\ \A a \in DOMAIN books', l \in Languages :
          LET y == books'[a].texts[l] IN
          IF <<a, l>> \in N
          THEN /\ y # NoText /\ y.slug = seen.slug /\ y.fresh = (seen.count = CountTexts)
               /\ a \in DOMAIN books => ~IsTranslated(a, l)
          ELSE IF a \in DOMAIN books THEN SameText(books[a].texts[l], y) ELSE y = NoText

\* A request adds no translation, or the one that it has chosen a slug for.
AddsOne(q) ==
    \/ Adds({}, q.seen)
    \/ \E b \in DOMAIN books', l \in Languages :
          /\ Adds({<<b, l>>}, q.seen)
          /\ q.pc \in {"create", "translate"} /\ l = q.body.lang

\* Translations are finitely many.
LEMMA FewTexts ==
    ASSUME NEW rows, IsSeq(rows), NEW S, S \subseteq (DOMAIN rows) \X Languages
    PROVE  IsFiniteSet(S) /\ Cardinality(S) \in Nat
<1>1. IsFiniteSet(DOMAIN rows)
  <2>1. Len(rows) \in Nat /\ DOMAIN rows = 1..Len(rows)
    BY DEF IsSeq
  <2> QED BY <2>1, Upto
<1>2. IsFiniteSet(Languages)
  BY SlugKeys, Zenon
<1>3. IsFiniteSet((DOMAIN rows) \X Languages)
  BY <1>1, <1>2, FS_Product
<1>4. IsFiniteSet(S)
  BY <1>3, FS_Subset
<1> QED BY <1>4, FS_CardinalityType

\* Slugs that are added do not make two fresh ones the same.
LEMMA UniqueKept ==
    ASSUME TextsInv, UniqueInv, NEW q, Chosen(q), AddsOne(q)
    PROVE  TextsInv' /\ UniqueInv'
<1>1. PICK N : /\ Adds(N, q.seen)
               /\ \A m, n \in N : m = n
               /\ \A n \in N : n[2] = q.body.lang /\ q.pc \in {"create", "translate"}
  <2>1. CASE Adds({}, q.seen)
    BY <2>1
  <2>2. CASE \E b \in DOMAIN books', l \in Languages :
                Adds({<<b, l>>}, q.seen) /\ q.pc \in {"create", "translate"} /\ l = q.body.lang
    <3>1. PICK b, l : Adds({<<b, l>>}, q.seen) /\ q.pc \in {"create", "translate"} /\ l = q.body.lang
      BY <2>2
    <3>2. PICK N : N = {<<b, l>>}
      OBVIOUS
    <3>3. Adds(N, q.seen) /\ (\A m, n \in N : m = n) /\ \A n \in N : n[2] = l
      BY <3>1, <3>2
    <3> QED BY <3>1, <3>3
  <2> QED BY <2>1, <2>2 DEF AddsOne
<1>2. TextsInv'
  BY <1>1 DEF Adds, TextsInv, TextsFit, TextOk
<1>3. ASSUME NEW a \in DOMAIN books', NEW b \in DOMAIN books', NEW l \in Languages, a # b,
             books'[a].texts[l] # NoText, books'[b].texts[l] # NoText,
             books'[a].texts[l].slug = books'[b].texts[l].slug
      PROVE  ~books'[a].texts[l].fresh \/ ~books'[b].texts[l].fresh
  <2>1. ASSUME NEW c \in DOMAIN books', <<c, l>> \notin N, books'[c].texts[l] # NoText
        PROVE  /\ c \in DOMAIN books /\ IsTranslated(c, l)
               /\ books'[c].texts[l].slug = Shown(c, l) /\ books'[c].texts[l].fresh = books[c].texts[l].fresh
    BY <1>1, <2>1 DEF Adds, SameText, IsTranslated, Shown
  <2>2. ASSUME NEW c \in DOMAIN books', NEW d \in DOMAIN books', <<c, l>> \in N, <<d, l>> \notin N,
               books'[d].texts[l] # NoText, books'[c].texts[l].slug = books'[d].texts[l].slug
        PROVE  ~books'[c].texts[l].fresh
    <3>1. books'[c].texts[l].slug = q.seen.slug /\ books'[c].texts[l].fresh = (q.seen.count = CountTexts)
      BY <1>1, <2>2 DEF Adds
    <3>2. d \in DOMAIN books /\ IsTranslated(d, l) /\ books'[d].texts[l].slug = Shown(d, l)
      BY <2>1, <2>2
    <3>3. l = q.body.lang /\ q.pc \in {"create", "translate"}
      BY <1>1, <2>2
    <3>4. q.seen.count # CountTexts
      BY <2>2, <3>1, <3>2, <3>3 DEF Chosen
    <3> QED BY <3>1, <3>4
  <2>3. ~(<<a, l>> \in N /\ <<b, l>> \in N)
    BY <1>1, <1>3
  <2>4. CASE <<a, l>> \notin N /\ <<b, l>> \notin N
    BY <1>3, <2>1, <2>4 DEF UniqueInv
  <2>5. CASE <<a, l>> \in N /\ <<b, l>> \notin N
    BY <1>3, <2>2, <2>5
  <2>6. CASE <<b, l>> \in N /\ <<a, l>> \notin N
    BY <1>3, <2>2, <2>6
  <2> QED BY <2>3, <2>4, <2>5, <2>6
<1> QED BY <1>2, <1>3 DEF UniqueInv, IsTranslated, Shown

\* Translations are never taken away, and one more is counted.
LEMMA TextsGrow ==
    ASSUME IsSeq(books), IsSeq(books'), TextsInv, NEW q, AddsOne(q)
    PROVE  /\ CountTexts <= CountTexts' /\ CountTexts \in Nat /\ CountTexts' \in Nat
           /\ DOMAIN books \subseteq DOMAIN books'
           /\ CountTexts' = CountTexts => Adds({}, q.seen)
<1>1. IsFiniteSet(Translated) /\ CountTexts = Cardinality(Translated) /\ CountTexts \in Nat
  <2>1. CountTexts = Cardinality(Translated)
    BY DEF CountTexts, Translated
  <2> QED BY <2>1, FewTexts DEF Translated
<1>2. IsFiniteSet(Translated') /\ CountTexts' = Cardinality(Translated') /\ CountTexts' \in Nat
  <2>1. CountTexts' = Cardinality(Translated')
    BY DEF CountTexts, Translated
  <2> QED BY <2>1, FewTexts DEF Translated
<1>3. ASSUME Adds({}, q.seen) PROVE CountTexts' = CountTexts
  <2>1. Translated' = Translated
    BY <1>3 DEF Adds, Translated, SameText
  <2> QED BY <1>1, <1>2, <2>1
<1>4. ASSUME NEW b \in DOMAIN books', NEW l \in Languages, Adds({<<b, l>>}, q.seen)
      PROVE  CountTexts' = CountTexts + 1 /\ DOMAIN books \subseteq DOMAIN books'
  <2>1. \A a \in DOMAIN books', k \in Languages :
            books'[a].texts[k] # NoText <=>
                (a = b /\ k = l) \/ (a \in DOMAIN books /\ books[a].texts[k] # NoText)
    BY <1>4 DEF Adds, SameText
  <2>2. <<b, l>> \notin Translated
    BY <1>4 DEF Adds, Translated, IsTranslated
  <2>3. DOMAIN books \subseteq DOMAIN books'
    BY <1>4 DEF Adds
  <2>4. Translated' = Translated \union {<<b, l>>}
    BY <2>1, <2>3 DEF Translated
  <2>5. Cardinality(Translated \union {<<b, l>>}) = Cardinality(Translated) + 1
    BY <1>1, <2>2, FS_AddElement
  <2> QED BY <1>1, <1>2, <2>3, <2>4, <2>5
<1>5. CASE \E b \in DOMAIN books', l \in Languages : Adds({<<b, l>>}, q.seen)
  <2>1. CountTexts' = CountTexts + 1 /\ DOMAIN books \subseteq DOMAIN books'
    BY <1>4, <1>5
  <2> QED BY <1>1, <1>2, <2>1
<1>6. CASE Adds({}, q.seen)
  <2>1. DOMAIN books \subseteq DOMAIN books'
    BY <1>6 DEF Adds
  <2> QED BY <1>1, <1>2, <1>3, <1>6, <2>1
<1> QED BY <1>5, <1>6 DEF AddsOne

\* What another request has chosen stays free, or it will be seen that it did not.
LEMMA ChosenStays ==
    ASSUME IsSeq(books), IsSeq(books'), TextsInv, NEW p, AddsOne(p), NEW q, Chosen(q)
    PROVE  Chosen(q)'
<1> SUFFICES ASSUME q.pc \in {"create", "translate"} PROVE Chosen(q)'
  BY DEF Chosen
<1>1. /\ CountTexts <= CountTexts' /\ CountTexts \in Nat /\ CountTexts' \in Nat
      /\ DOMAIN books \subseteq DOMAIN books'
      /\ CountTexts' = CountTexts => Adds({}, p.seen)
  BY TextsGrow
<1>2. q.seen.count \in Nat /\ q.seen.count <= CountTexts' /\ q.seen.slug # << >>
  BY <1>1 DEF Chosen
<1>3. ASSUME q.seen.count = CountTexts', NEW b \in DOMAIN books', q.body.lang \in Languages,
             books'[b].texts[q.body.lang] # NoText
      PROVE  books'[b].texts[q.body.lang].slug # q.seen.slug
  <2>1. q.seen.count = CountTexts /\ CountTexts' = CountTexts
    BY <1>1, <1>3 DEF Chosen
  <2>2. b \in DOMAIN books /\ SameText(books[b].texts[q.body.lang], books'[b].texts[q.body.lang])
    BY <1>1, <1>3, <2>1 DEF Adds
  <2> QED BY <1>3, <2>1, <2>2 DEF Chosen, SameText, IsTranslated, Shown
<1> QED BY <1>1, <1>2, <1>3 DEF Chosen, IsTranslated, Shown
\* A row with the same slugs.
SameTexts(x, y) == TextsFit(y) /\ \A l \in Languages : SameText(x.texts[l], y.texts[l])

\* When rows keep their slugs, no translation is added.
LEMMA QuietTexts ==
    ASSUME TextsInv, DOMAIN books' = DOMAIN books, NEW seen,
           \A a \in DOMAIN books : SameTexts(books[a], books'[a])
    PROVE  Adds({}, seen)
BY DEF Adds, SameTexts, TextsInv

\* A row in which other columns are written.
LEMMA TextsOfRow ==
    ASSUME TextsInv, NEW b \in DOMAIN books, books'[b].texts = books[b].texts
    PROVE  SameTexts(books[b], books'[b])
<1>1. TextsFit(books[b])
  BY DEF TextsInv
<1> QED BY <1>1 DEF TextsFit, SameTexts, SameText

\* Nothing is written.
LEMMA NoTextsAdded ==
    ASSUME TextsInv, books' = books, NEW seen
    PROVE  Adds({}, seen)
BY TextsOfRow, QuietTexts

\* updatePriceVariant
LEMMA PriceTexts ==
    ASSUME BooksInv, TextsInv, NEW r, NEW b \in DOMAIN books, NEW n, NEW price,
           UpdatePriceVariant(r, b, n, price), NEW seen
    PROVE  Adds({}, seen)
<1> DEFINE x == books[b]
           variants == [x.variants EXCEPT ![n].price = price]
<1>1. books' = [books EXCEPT ![b].variants[n].price = price, ![b].rev = @ + 1]
  BY DEF UpdatePriceVariant
<1>2. DOMAIN books' = DOMAIN books /\ \A a \in DOMAIN books \ {b} : books'[a] = books[a]
  BY <1>1
<1>3. IsBook(x)
  BY DEF BooksInv
<1>4. books'[b] = [x EXCEPT !.variants = variants, !.rev = x.rev + 1]
  <2>1. PICK mid : mid = [books EXCEPT ![b].variants[n].price = price]
    OBVIOUS
  <2>2. books' = [mid EXCEPT ![b].rev = @ + 1]
    BY <1>1, <2>1
  <2> QED BY <1>3, <2>1, <2>2 DEF IsBook
<1> HIDE DEF variants, x
<1>5. books'[b].texts = x.texts
  BY <1>3, <1>4 DEF IsBook
<1>6. \A a \in DOMAIN books : books'[a].texts = books[a].texts
  BY <1>2, <1>5 DEF x
<1>7. \A a \in DOMAIN books : SameTexts(books[a], books'[a])
  BY <1>6, TextsOfRow
<1> QED BY <1>2, <1>7, QuietTexts

\* deleteBook
LEMMA DeletionTexts ==
    ASSUME BooksInv, TextsInv, NEW r, CommitDelete(r), NEW seen
    PROVE  Adds({}, seen)
<1> DEFINE b == visit[r].book
<1>1. books' = [books EXCEPT ![b] = [@ EXCEPT !.active = FALSE, !.deleted = TRUE, !.deletedAt = now]]
  BY DEF CommitDelete, SoftDeleted
<1>2. DOMAIN books' = DOMAIN books /\ \A a \in DOMAIN books \ {b} : books'[a] = books[a]
  BY <1>1
<1>3. ASSUME b \in DOMAIN books PROVE books'[b].texts = books[b].texts
  <2> DEFINE x == books[b]
             new == [x EXCEPT !.active = FALSE, !.deleted = TRUE, !.deletedAt = now]
  <2>1. IsBook(x) /\ now \in Nat /\ x.rev \in Nat
    BY <1>3 DEF BooksInv, IsBook
  <2>2. books'[b] = new
    BY <1>1, <1>3
  <2> HIDE DEF x
  <2>3. books'[b] = [publisher |-> x.publisher, authors |-> x.authors, categories |-> x.categories,
                     variants |-> x.variants, active |-> FALSE, deleted |-> TRUE,
                     deletedAt |-> now, pageCount |-> x.pageCount, rev |-> x.rev, texts |-> x.texts]
    BY <2>1, <2>2 DEF IsBook
  <2> QED BY <2>3 DEF x
<1>4. \A a \in DOMAIN books : books'[a].texts = books[a].texts
  BY <1>2, <1>3
<1>5. \A a \in DOMAIN books : SameTexts(books[a], books'[a])
  BY <1>4, TextsOfRow
<1> QED BY <1>2, <1>5, QuietTexts

\* A new title is not a new slug.
LEMMA NewTitle ==
    ASSUME NEW x, TextOk(x), x # NoText, NEW title \in Seq(Token)
    PROVE  SameText(x, [x EXCEPT !.title = title])
<1> DEFINE y == [x EXCEPT !.title = title]
<1>1. y = [title |-> title, slug |-> x.slug, fresh |-> x.fresh]
  BY DEF TextOk
<1>2. x.slug # << >> /\ NoText.slug = << >>
  BY DEF TextOk, NoText
<1>3. y.slug = x.slug /\ y.fresh = x.fresh /\ y.title = title
  BY <1>1
<1> HIDE DEF y
<1>4. y # NoText
  BY <1>2, <1>3
<1> QED BY <1>1, <1>2, <1>3, <1>4 DEF TextOk, SameText, y

\* updateBook changes titles of translations that are there.
LEMMA UpdateTexts ==
    ASSUME BooksInv, TextsInv, NEW b \in DOMAIN books, NEW body, IsAcceptable(b, body), NEW seen,
           \A l \in DOMAIN body.titles : body.titles[l] \in Seq(Token),
           books' = [a \in DOMAIN books |-> UpdatedBook(a, b, body)]
    PROVE  Adds({}, seen)
<1>1. DOMAIN books' = DOMAIN books /\ \A a \in DOMAIN books : books'[a] = UpdatedBook(a, b, body)
  OBVIOUS
<1>2. ASSUME NEW a \in DOMAIN books, a # b PROVE books'[a].texts = books[a].texts
  <2> DEFINE x == books[a]
             variants == [n \in DOMAIN x.variants |-> UpdatedVariant(a, n, body)]
  <2>1. IsBook(x)
    BY DEF BooksInv
  <2>2. books'[a] = [x EXCEPT !.variants = variants]
    BY ZenonT(30), <1>1, <1>2 DEF UpdatedBook
  <2> HIDE DEF x, variants
  <2>3. books'[a].texts = x.texts
    BY <2>1, <2>2 DEF IsBook
  <2> QED BY <2>3 DEF x
<1>3. SameTexts(books[b], books'[b])
  <2> DEFINE x == books[b]
             y == books'[b]
             variants == [n \in DOMAIN x.variants |-> UpdatedVariant(b, n, body)]
             texts == [l \in Languages |-> IF l \in DOMAIN body.titles
                                           THEN [x.texts[l] EXCEPT !.title = body.titles[l]] ELSE x.texts[l]]
  <2>1. IsBook(x) /\ TextsFit(x)
    BY DEF BooksInv, TextsInv
  <2>2. y = [x EXCEPT !.variants = variants, !.rev = @ + 1, !.active = Given(body.active, @),
                      !.pageCount = Given(body.pageCount, @), !.texts = texts]
    BY ZenonT(30), <1>1 DEF UpdatedBook
  <2>3. \A l \in Languages : l \in DOMAIN body.titles => x.texts[l] # NoText
    BY DEF IsAcceptable, IsTranslated
  <2>4. DOMAIN texts = Languages
    OBVIOUS
  <2>5. ASSUME NEW l \in Languages PROVE SameText(x.texts[l], texts[l])
    <3>1. TextOk(x.texts[l])
      BY <2>1 DEF TextsFit
    <3>2. CASE l \in DOMAIN body.titles
      <4>1. texts[l] = [x.texts[l] EXCEPT !.title = body.titles[l]]
        BY <3>2
      <4> HIDE DEF texts, x
      <4> QED BY <2>3, <3>1, <3>2, <4>1, NewTitle
    <3>3. CASE l \notin DOMAIN body.titles
      BY <3>1, <3>3 DEF SameText
    <3> QED BY <3>2, <3>3
  <2> HIDE DEF x, texts, variants, y
  <2>6. y.texts = texts
    BY <2>1, <2>2 DEF IsBook
  <2>7. SameTexts(x, y)
    BY <2>4, <2>5, <2>6 DEF SameTexts, TextsFit, SameText
  <2> QED BY <2>7 DEF x, y
<1>4. \A a \in DOMAIN books : SameTexts(books[a], books'[a])
  BY <1>2, <1>3, TextsOfRow
<1> QED BY <1>1, <1>4, QuietTexts

\* What a request has chosen makes a translation.
LEMMA TextIsNew ==
    ASSUME NEW title \in Seq(Token), NEW seen, seen.slug # << >>
    PROVE  /\ TextOk(NewText(title, seen)) /\ NewText(title, seen) # NoText
           /\ NewText(title, seen).slug = seen.slug /\ NewText(title, seen).fresh = (seen.count = CountTexts)
<1> DEFINE y == NewText(title, seen)
<1>1. PICK fresh : fresh = (seen.count = CountTexts)
  OBVIOUS
<1>2. y = [title |-> title, slug |-> seen.slug, fresh |-> fresh]
  BY <1>1 DEF NewText
<1> HIDE DEF y
<1>3. y.slug = seen.slug /\ y.fresh = fresh /\ NoText.slug = << >>
  BY <1>2 DEF NoText
<1>4. y # NoText
  BY <1>3
<1>5. TextOk(y)
  BY <1>2, <1>3 DEF TextOk
<1> QED BY <1>1, <1>3, <1>4, <1>5 DEF y

\* createBookTranslation adds the translation it has opened.
LEMMA TranslationTexts ==
    ASSUME BooksInv, TextsInv, NEW r, Chosen(visit[r]), CommitTranslation(r)
    PROVE  AddsOne(visit[r]) /\ DOMAIN books' = DOMAIN books
<1> DEFINE q == visit[r]
           b == q.book
           l == q.body.lang
           text == NewText(q.body.title, q.seen)
<1>1. /\ q.pc = "translate" /\ b \in DOMAIN books /\ l \in Languages /\ q.seen.slug # << >>
      /\ q.body.title \in Seq(Token)
      /\ \/ books' = books
         \/ ~IsTranslated(b, l) /\ books' = [books EXCEPT ![b].texts[l] = text]
  BY DEF CommitTranslation, Chosen, tables
<1>2. CASE books' = books
  BY <1>2, NoTextsAdded DEF AddsOne
<1>3. CASE ~IsTranslated(b, l) /\ books' = [books EXCEPT ![b].texts[l] = text]
  <2>1. TextOk(text) /\ text # NoText /\ text.slug = q.seen.slug /\ text.fresh = (q.seen.count = CountTexts)
    BY <1>1, TextIsNew
  <2>2. IsBook(books[b]) /\ TextsFit(books[b])
    BY <1>1 DEF BooksInv, TextsInv
  <2>3. PICK x, texts : x = books[b] /\ texts = [x.texts EXCEPT ![l] = text]
    OBVIOUS
  <2> HIDE DEF text
  <2>4. /\ DOMAIN books' = DOMAIN books /\ \A a \in DOMAIN books \ {b} : books'[a] = books[a]
        /\ books'[b] = [x EXCEPT !.texts = texts]
    BY <1>1, <1>3, <2>3
  <2>5. books'[b].texts = texts
    BY <2>2, <2>3, <2>4 DEF IsBook
  <2>6. DOMAIN texts = Languages /\ texts[l] = text /\ \A k \in Languages \ {l} : texts[k] = x.texts[k]
    BY <1>1, <2>2, <2>3 DEF TextsFit
  <2>7. \A a \in DOMAIN books \ {b} : SameTexts(books[a], books'[a])
    BY SMTT(30), <2>4, TextsOfRow
  <2>8. TextsFit(books'[b]) /\ \A k \in Languages \ {l} : SameText(x.texts[k], books'[b].texts[k])
    BY ZenonT(30), <2>1, <2>2, <2>3, <2>5, <2>6 DEF TextsFit, SameText
  <2>9. PICK N : N = {<<b, l>>}
    OBVIOUS
  <2>10. ASSUME NEW a \in DOMAIN books', NEW k \in Languages
         PROVE  IF <<a, k>> \in N
                THEN /\ books'[a].texts[k] # NoText /\ books'[a].texts[k].slug = q.seen.slug
                     /\ books'[a].texts[k].fresh = (q.seen.count = CountTexts)
                     /\ a \in DOMAIN books => ~IsTranslated(a, k)
                ELSE IF a \in DOMAIN books THEN SameText(books[a].texts[k], books'[a].texts[k])
                ELSE books'[a].texts[k] = NoText
    <3>1. CASE a = b /\ k = l
      <4>1. books'[a].texts[k] = text /\ <<a, k>> \in N
        BY <2>5, <2>6, <2>9, <3>1
      <4> QED BY <1>3, <2>1, <3>1, <4>1
    <3>2. CASE ~(a = b /\ k = l)
      <4>1. <<a, k>> \notin N
        BY <2>9, <3>2
      <4>2. SameText(books[a].texts[k], books'[a].texts[k]) /\ a \in DOMAIN books
        BY <2>3, <2>4, <2>7, <2>8, <3>2 DEF SameTexts
      <4> QED BY <4>1, <4>2
    <3> QED BY <3>1, <3>2
  <2>11. \A a \in DOMAIN books' : TextsFit(books'[a])
    BY <2>4, <2>7, <2>8 DEF SameTexts
  <2>12. Adds(N, q.seen)
    BY <2>4, <2>10, <2>11 DEF Adds
  <2>13. Adds({<<b, l>>}, q.seen)
    BY <2>9, <2>12
  <2> QED BY <1>1, <2>4, <2>13 DEF AddsOne
<1> QED BY <1>1, <1>2, <1>3

\* createBook adds a book with one translation, if its language is one.
LEMMA CommitBookTexts ==
    ASSUME BooksInv, TextsInv, NEW r, Chosen(visit[r]), CommitBook(r)
    PROVE  AddsOne(visit[r]) /\ Len(books') = Len(books) + 1
<1> DEFINE q == visit[r]
           l == q.body.lang
           text == NewText(q.body.title, q.seen)
           new == NewBook(q.body, q.seen)
           id == Len(books) + 1
<1>1. q.pc = "create" /\ books' = Append(books, new) /\ q.seen.slug # << >> /\ q.body.title \in Seq(Token)
  BY DEF CommitBook, Chosen
<1>2. TextOk(text) /\ text # NoText /\ text.slug = q.seen.slug /\ text.fresh = (q.seen.count = CountTexts)
  BY <1>1, TextIsNew
<1>3. TextOk(NoText)
  <2>1. << >> \in Seq(Token)
    OBVIOUS
  <2> QED BY <2>1 DEF NoText, TextOk
<1>4. new.texts = [k \in Languages |-> IF k = l THEN text ELSE NoText]
  BY DEF NewBook
<1> HIDE DEF new, text
<1>5. TextsFit(new) /\ \A k \in Languages : new.texts[k] = IF k = l THEN text ELSE NoText
  BY <1>2, <1>3, <1>4 DEF TextsFit
<1>6. /\ \A b \in DOMAIN books : books'[b] = books[b]
      /\ books'[id] = new /\ Len(books') = Len(books) + 1
      /\ DOMAIN books = 1..Len(books) /\ DOMAIN books' = 1..id /\ Len(books) \in Nat
  BY <1>1, AppendIsSeq DEF BooksInv
<1>7. \A b \in DOMAIN books : SameTexts(books[b], books'[b])
  BY <1>6, TextsOfRow
<1>8. (\A b \in DOMAIN books' : b \in DOMAIN books \/ b = id) /\ DOMAIN books \subseteq DOMAIN books'
      /\ id \notin DOMAIN books /\ id \in DOMAIN books'
  BY <1>6
<1> HIDE DEF id
<1>9. PICK N : N = IF l \in Languages THEN {<<id, l>>} ELSE {}
  OBVIOUS
<1>10. ASSUME NEW a \in DOMAIN books', NEW k \in Languages
       PROVE  IF <<a, k>> \in N
              THEN /\ books'[a].texts[k] # NoText /\ books'[a].texts[k].slug = q.seen.slug
                   /\ books'[a].texts[k].fresh = (q.seen.count = CountTexts)
                   /\ a \in DOMAIN books => ~IsTranslated(a, k)
              ELSE IF a \in DOMAIN books THEN SameText(books[a].texts[k], books'[a].texts[k])
              ELSE books'[a].texts[k] = NoText
  <2>1. CASE a = id /\ k = l
    <3>1. books'[a].texts[k] = text /\ <<a, k>> \in N
      BY <1>5, <1>6, <1>9, <2>1
    <3> QED BY <1>2, <1>8, <2>1, <3>1
  <2>2. CASE a = id /\ k # l
    <3>1. books'[a].texts[k] = NoText /\ <<a, k>> \notin N
      BY <1>5, <1>6, <1>9, <2>2
    <3> QED BY <1>8, <2>2, <3>1
  <2>3. CASE a \in DOMAIN books
    <3>1. <<a, k>> \notin N
      BY <1>8, <1>9, <2>3
    <3>2. SameText(books[a].texts[k], books'[a].texts[k])
      BY <1>7, <2>3 DEF SameTexts
    <3> QED BY <2>3, <3>1, <3>2
  <2> QED BY <1>8, <2>1, <2>2, <2>3
<1>11. \A a \in DOMAIN books' : TextsFit(books'[a])
  BY <1>5, <1>6, <1>7, <1>8 DEF SameTexts
<1>12. Adds(N, q.seen)
  BY <1>8, <1>10, <1>11 DEF Adds
<1>13. Adds({}, q.seen) \/ (l \in Languages /\ Adds({<<id, l>>}, q.seen))
  BY <1>9, <1>12
<1> QED BY <1>1, <1>6, <1>8, <1>13 DEF AddsOne

\* A request that has looked for a slug has chosen one, as things are.
LEMMA NowChosen ==
    ASSUME BooksInv, Len(books) <= MostBooks, MostBooks \in Nat, NEW title \in Seq(Token),
           NEW id \in 1..Len(books) + 1, NEW l, NEW q, NEW slug,
           slug = BuildUniqueSlug(l, BaseSlug(title, id)), q.seen = [slug |-> slug, count |-> CountTexts],
           q.body.lang = l, q.body.title = title, q.pc = "translate" => q.book \in DOMAIN books /\ l \in Languages
    PROVE  Chosen(q)
<1> DEFINE base == BaseSlug(title, id)
<1>1. ToString(id) \in STRING
  <2> PICK most : most = MostBooks + 1
    OBVIOUS
  <2>1. \A m, n \in 1..most : ToString(m) \in STRING
    BY SlugKeys, Zenon DEF MostBooks
  <2>2. id \in 1..most
    <3> HIDE <2>1
    <3> QED BY DEF BooksInv, IsSeq
  <2> QED BY <2>1, <2>2, Zenon
<1>2. base \in Pieces \ {<< >>}
  BY <1>1, BaseIsThere, Zenon
<1> HIDE DEF base
<1>3. BuildUniqueSlug(l, base) \notin TakenSlugs(l) /\ BuildUniqueSlug(l, base) # << >>
  BY <1>2, ChosenIsFree DEF BooksInv
<1>4. slug \notin TakenSlugs(l) /\ slug # << >>
  BY <1>3 DEF base
<1>5. CountTexts \in Nat
  <2>1. CountTexts = Cardinality(Translated)
    BY DEF CountTexts, Translated
  <2> QED BY <2>1, FewTexts DEF Translated, BooksInv
<1>6. q.seen.slug = slug /\ q.seen.count = CountTexts
  OBVIOUS
<1> HIDE <1>1
<1>7. \A b \in DOMAIN books : Shown(b, l) # slug
  BY <1>4 DEF TakenSlugs, Shown
<1>8. q.seen.count \in Nat /\ q.seen.count <= CountTexts
  BY SMTT(30), <1>5, <1>6
<1> QED BY <1>4, <1>6, <1>7, <1>8, Zenon DEF Chosen

\* What a request has chosen does not change while the tables are left alone.
LEMMA SameChoice ==
    ASSUME books' = books, NEW r, visit'[r].pc \notin {"create", "translate"} \/ Chosen(visit'[r])
    PROVE  Chosen(visit[r])'
BY ZenonT(30) DEF Chosen, CountTexts, IsTranslated, Shown

\* The steps of an admin: which slugs they add, and what they choose.
LEMMA AdminAddsOne ==
    ASSUME ShelfInv, ShelfInv', KeysInv, TextsInv, ChosenInv, Len(books) <= MostBooks, MostBooks \in Nat,
           NEW r \in Admins, AdminStep(r)
    PROVE  /\ AddsOne(visit[r]) /\ Chosen(visit[r])'
           /\ \/ Len(books') = Len(books)
              \/ Len(books') = Len(books) + 1 /\ visit[r].pc = "create" /\ visit'[r].pc = "done"
<1> DEFINE q == visit[r]
           Aside(x) == visit'[r] = x /\ x.pc \notin {"create", "translate"}
           Quiet == Len(books') = Len(books)
<1>0. /\ Prepared(q) /\ Chosen(q) /\ visit = [v \in Visits |-> visit[v]] /\ r \in Visits
      /\ q.pc \in Busy => IsWorking(q)
  BY DEF ShelfInv, KeysInv, PreparedInv, ChosenInv, VisitInv, VisitOk, Visits
<1>a. ASSUME books' = books PROVE AddsOne(q) /\ Quiet
  BY <1>a, NoTextsAdded DEF AddsOne
<1>b. ASSUME NEW x, Goto(r, x) PROVE visit'[r] = x
  BY <1>0, <1>b DEF Goto
<1>c. ASSUME NEW answer, End(r, answer) PROVE visit'[r].pc = answer
  BY <1>b, <1>c DEF End
<1>d. ASSUME visit'[r].pc \notin {"create", "translate"} PROVE Chosen(visit[r])'
  BY <1>d DEF Chosen
<1>e. ASSUME DOMAIN books' = DOMAIN books, Adds({}, q.seen), IsSeq(books') PROVE AddsOne(q) /\ Quiet
  BY <1>e DEF AddsOne, IsSeq, ShelfInv, BooksInv
<1>f. IsSeq(books) /\ IsSeq(books') /\ BooksInv
  BY DEF ShelfInv, BooksInv
<1>g. \A answer \in {"done", "error", "refused"} : answer \notin {"create", "translate"}
  OBVIOUS
<1>1. CASE \E body \in BookBodies : \E kind \in {"create", "publisher"} : FindPublisher(r, kind, body)
  <2>1. PICK body, kind : FindPublisher(r, kind, body)
    BY <1>1
  <2>2. /\ books' = books
        /\ Goto(r, Working(kind, "publisher", 0, body, {body.publisher} \cap publishers))
    BY <2>1 DEF FindPublisher, tables
  <2>3. visit'[r].pc = "publisher"
    BY <1>b, <2>2, WorkingWorks
  <2> QED BY <1>a, <1>d, <2>2, <2>3
<1>2. CASE \E body \in BookBodies : FindAuthor(r, body)
  <2>1. PICK body : FindAuthor(r, body)
    BY <1>2
  <2>2. /\ books' = books
        /\ Goto(r, Working("author", "authors", 0, body, BylineNames(body) \cap authors))
    BY <2>1 DEF FindAuthor, tables
  <2>3. visit'[r].pc = "authors"
    BY <1>b, <2>2, WorkingWorks
  <2> QED BY <1>a, <1>d, <2>2, <2>3
<1>3. CASE UpsertPublisher(r) \/ FindAuthors(r) \/ UpsertAuthors(r)
  <2>1. q.pc \in {"publisher", "find", "authors"} /\ books' = books
    BY <1>3 DEF UpsertPublisher, FindAuthors, UpsertAuthors, tables
  <2>2. IsWorking(q)
    BY <1>0, <2>1 DEF Busy
  <2>3. \/ End(r, "error") \/ End(r, "done")
        \/ \E pc \in {"find", "open"} : Goto(r, [q EXCEPT !.pc = pc])
        \/ \E seen : Goto(r, [q EXCEPT !.pc = "authors", !.seen = seen])
    BY ZenonT(30), <1>3 DEF UpsertPublisher, FindAuthors, UpsertAuthors
  <2>4. ASSUME NEW pc, NEW seen PROVE [q EXCEPT !.pc = pc].pc = pc /\ [q EXCEPT !.pc = pc, !.seen = seen].pc = pc
    BY <2>2 DEF IsWorking, With
  <2>5. ASSUME End(r, "error") \/ End(r, "done") PROVE visit'[r].pc \notin {"create", "translate"}
    BY <1>c, <2>5
  <2>6. ASSUME NEW pc \in {"find", "open"}, Goto(r, [q EXCEPT !.pc = pc]) PROVE visit'[r].pc \notin {"create", "translate"}
    BY <1>b, <2>4, <2>6
  <2>7. ASSUME NEW seen, Goto(r, [q EXCEPT !.pc = "authors", !.seen = seen]) PROVE visit'[r].pc \notin {"create", "translate"}
    <3>1. PICK x : x = [q EXCEPT !.pc = "authors", !.seen = seen]
      OBVIOUS
    <3>2. x.pc = "authors"
      BY <2>4, <3>1
    <3>3. visit'[r] = x
      BY <1>b, <2>7, <3>1
    <3> QED BY <3>2, <3>3
  <2>8. visit'[r].pc \notin {"create", "translate"}
    BY ZenonT(30), <2>3, <2>5, <2>6, <2>7
  <2> QED BY <1>a, <1>d, <2>1, <2>8
<1>4. CASE OpenBook(r)
  <2> DEFINE body == q.body
             l == body.lang
             slug == BuildUniqueSlug(l, BaseSlug(body.title, Len(books) + 1))
             seen == [slug |-> slug, count |-> CountTexts]
  <2>1. q.pc = "open" /\ books' = books
    BY <1>4 DEF OpenBook, tables
  <2>2. PICK x : x = [q EXCEPT !.pc = "create", !.seen = seen]
    OBVIOUS
  <2>3. Goto(r, x)
    BY <1>4, <2>2 DEF OpenBook
  <2>4. IsWorking(q)
    BY <1>0, <2>1 DEF Busy
  <2>5. body \in BookBodies
    BY <1>0, <2>1 DEF Prepared
  <2>6. body.title \in Seq(Token)
    BY <2>5, SlugKeys, Zenon
  <2> PICK given : given = slug
    OBVIOUS
  <2>7. seen = [slug |-> given, count |-> CountTexts] /\ given = BuildUniqueSlug(l, BaseSlug(body.title, Len(books) + 1))
    BY Zenon
  <2> HIDE DEF seen, slug, q
  <2>8. x = With(q, "create", seen)
    BY <2>2, <2>4 DEF IsWorking, With
  <2>9. x.pc = "create" /\ x.body = body /\ x.seen = seen
    BY <2>8 DEF With
  <2> HIDE DEF body
  <2>10. Len(books) + 1 \in 1..Len(books) + 1
    BY <1>f DEF IsSeq
  <2>11. x.seen = [slug |-> given, count |-> CountTexts] /\ x.body.lang = l /\ x.body.title = body.title /\ x.pc # "translate"
    BY <2>7, <2>9
  <2> HIDE DEF l
  <2>12. Chosen(x)
    BY <1>f, <2>6, <2>7, <2>10, <2>11, NowChosen, Zenon
  <2>13. visit'[r] = x
    BY <1>b, <2>3
  <2>14. Chosen(visit[r])'
    BY <2>1, <2>12, <2>13, SameChoice
  <2> QED BY <1>a, <2>1, <2>14 DEF q
<1>5. CASE CommitBook(r)
  <2>1. q.pc = "create" /\ End(r, "done")
    BY <1>5 DEF CommitBook
  <2>2. visit'[r].pc = "done"
    BY <1>c, <2>1
  <2>3. AddsOne(q) /\ Len(books') = Len(books) + 1
    BY <1>0, <1>5, <1>f, CommitBookTexts
  <2> QED BY <1>d, <2>1, <2>2, <2>3
<1>6. CASE \E b \in Targets, l \in Languages, title \in Titles : OpenTranslation(r, b, l, title)
  <2>1. PICK b \in Targets, l \in Languages, title \in Titles : OpenTranslation(r, b, l, title)
    BY <1>6
  <2> DEFINE new == [lang |-> l, title |-> title]
             slug == BuildUniqueSlug(l, BaseSlug(title, b))
             seen == [slug |-> slug, count |-> CountTexts]
             x == Working("translate", "translate", b, new, seen)
  <2>2. /\ books' = books
        /\ \/ End(r, "refused")
           \/ b \in DOMAIN books /\ Goto(r, x)
    BY <2>1 DEF OpenTranslation, tables, FindBookById
  <2>3. x.pc = "translate" /\ x.book = b /\ x.body = new /\ x.seen = seen
    BY WorkingWorks
  <2> PICK given : given = slug
    OBVIOUS
  <2>4. seen = [slug |-> given, count |-> CountTexts] /\ given = BuildUniqueSlug(l, BaseSlug(title, b))
    BY Zenon
  <2>5. new.lang = l /\ new.title = title
    OBVIOUS
  <2>6. title \in Seq(Token)
    BY SlugKeys, Zenon
  <2> HIDE DEF x, seen, slug, new
  <2>7. CASE b \in DOMAIN books /\ Goto(r, x)
    <3>1. b \in 1..Len(books) + 1
      BY <1>f, <2>7 DEF IsSeq
    <3>2. x.seen = [slug |-> given, count |-> CountTexts] /\ x.body.lang = l /\ x.body.title = title /\ x.book \in DOMAIN books
      BY <2>3, <2>4, <2>5, <2>7
    <3>3. Chosen(x)
      BY <1>f, <2>4, <2>6, <3>1, <3>2, NowChosen, Zenon
    <3>4. visit'[r] = x
      BY <1>b, <2>7
    <3>5. Chosen(visit[r])'
      BY <2>2, <3>3, <3>4, SameChoice
    <3> QED BY <1>a, <2>2, <3>5
  <2>8. CASE End(r, "refused")
    BY <1>a, <1>c, <1>d, <2>2, <2>8
  <2> QED BY <2>2, <2>7, <2>8
<1>7. CASE CommitTranslation(r)
  <2>1. End(r, "error") \/ End(r, "done")
    BY <1>7 DEF CommitTranslation
  <2>2. visit'[r].pc \notin {"create", "translate"}
    BY <1>c, <2>1
  <2>3. AddsOne(q) /\ DOMAIN books' = DOMAIN books
    BY <1>0, <1>7, <1>f, TranslationTexts
  <2> QED BY <1>d, <1>f, <2>2, <2>3 DEF IsSeq
<1>8. CASE \/ \E b \in Targets, body \in UpdateBodies : ReadBook(r, "update", b, body)
           \/ \E b \in Targets : ReadBook(r, "delete", b, 0)
  <2>0. \E kind \in {"update", "delete"} : \E b, body : ReadBook(r, kind, b, body)
    BY <1>8
  <2>1. PICK kind, b, body : kind \in {"update", "delete"} /\ ReadBook(r, kind, b, body)
    BY <2>0
  <2>2. /\ books' = books
        /\ \/ End(r, "refused")
           \/ \E seen : Goto(r, Working(kind, kind, b, body, seen))
    BY <2>1 DEF ReadBook, tables
  <2>3. CASE \E seen : Goto(r, Working(kind, kind, b, body, seen))
    <3>1. visit'[r].pc = kind
      BY <1>b, <2>3, WorkingWorks
    <3> QED BY <1>a, <1>d, <2>1, <2>2, <3>1
  <2> QED BY <1>a, <1>c, <1>d, <2>2, <2>3
<1>9. CASE CommitUpdate(r)
  <2> DEFINE b == q.book
             next == [q EXCEPT !.pc = "bump", !.body = books'[b].rev, !.seen = Languages]
  <2>1. /\ q.pc = "update"
        /\ \/ books' = books /\ End(r, "error")
           \/ /\ IsAcceptable(b, q.body) /\ Goto(r, next)
              /\ books' = [a \in DOMAIN books |-> UpdatedBook(a, b, q.body)]
    BY <1>9 DEF CommitUpdate, tables
  <2>2. b \in DOMAIN books /\ \A l \in DOMAIN q.body.titles : q.body.titles[l] \in Seq(Token)
    <3>1. q.body \in UpdateBodies
      BY <1>0, <2>1 DEF Prepared
    <3>2. \A l \in DOMAIN q.body.titles : q.body.titles[l] \in Seq(Token)
      BY <3>1, SlugKeys, Zenon
    <3> QED BY <1>0, <2>1, <3>2 DEF ShelfInv, SeenInv
  <2>3. IsWorking(q)
    BY <1>0, <2>1 DEF Busy
  <2>4. next.pc = "bump"
    BY <2>3 DEF IsWorking, With
  <2> HIDE DEF next, b
  <2>5. visit'[r].pc \notin {"create", "translate"}
    BY SMTT(30), <1>b, <1>c, <2>1, <2>4
  <2>6. CASE IsAcceptable(b, q.body) /\ books' = [a \in DOMAIN books |-> UpdatedBook(a, b, q.body)]
    <3>1. Adds({}, q.seen)
      BY <1>f, <2>2, <2>6, UpdateTexts
    <3>2. DOMAIN books' = DOMAIN books
      BY SMTT(30), <2>6
    <3> QED BY ZenonT(30), <1>d, <1>e, <1>f, <2>5, <3>1, <3>2
  <2> QED BY <1>a, <1>d, <2>1, <2>5, <2>6
<1>10. CASE CommitDelete(r)
  <2>1. End(r, "done") /\ DOMAIN books' = DOMAIN books
    BY <1>10 DEF CommitDelete
  <2>2. Adds({}, q.seen)
    BY <1>10, <1>f, DeletionTexts
  <2> QED BY ZenonT(30), <1>c, <1>d, <1>e, <1>f, <2>1, <2>2
<1>11. CASE BumpDetail(r)
  <2>1. /\ q.pc = "bump" /\ books' = books
        /\ End(r, "done") \/ \E l : Goto(r, [q EXCEPT !.seen = @ \ {l}])
    BY <1>11 DEF BumpDetail, tables
  <2>2. IsWorking(q)
    BY <1>0, <2>1 DEF Busy
  <2>3. ASSUME NEW l PROVE [q EXCEPT !.seen = @ \ {l}].pc = "bump"
    BY <2>1, <2>2 DEF IsWorking, With
  <2>4. visit'[r].pc \notin {"create", "translate"}
    BY <1>b, <1>c, <2>1, <2>3
  <2> QED BY <1>a, <1>d, <2>1, <2>4
<1>12. CASE \E b \in Targets \cap DOMAIN books : \E n \in DOMAIN books[b].variants : \E price \in Prices :
                UpdatePriceVariant(r, b, n, price)
  <2>1. PICK b, n, price : b \in DOMAIN books /\ UpdatePriceVariant(r, b, n, price)
    BY <1>12
  <2>2. Goto(r, Working("price", "bump", b, books'[b].rev, Languages)) /\ DOMAIN books' = DOMAIN books
    BY <2>1 DEF UpdatePriceVariant
  <2>3. visit'[r].pc = "bump"
    BY <1>b, <2>2, WorkingWorks
  <2>4. Adds({}, q.seen)
    BY <1>f, <2>1, PriceTexts
  <2> QED BY <1>d, <1>e, <1>f, <2>2, <2>3, <2>4
<1>13. CASE \E body \in CategoryBodies : CreateCategory(r, body)
  <2>1. books' = books /\ (End(r, "done") \/ End(r, "refused"))
    BY <1>13 DEF CreateCategory
  <2> QED BY <1>a, <1>c, <1>d, <2>1
<1> QED BY <1>1, <1>2, <1>3, <1>4, <1>5, <1>6, <1>7, <1>8, <1>9, <1>10, <1>11, <1>12, <1>13 DEF AdminStep

\* There are not more books than there may be.
LEMMA BooksAreFew ==
    ASSUME CreatedInv, IsSeq(books)
    PROVE  /\ Len(books) <= MostBooks /\ MostBooks \in Nat
           /\ IsFiniteSet(Creators) /\ Cardinality(Creators) \in Nat
<1>1. IsFiniteSet(Admins)
  BY SlugKeys, Zenon
<1>2. Creators \subseteq Admins
  BY DEF Creators
<1>3. IsFiniteSet(Creators) /\ Cardinality(Creators) <= Cardinality(Admins)
  BY <1>1, <1>2, FS_Subset
<1>4. Cardinality(Admins) \in Nat /\ Cardinality(Creators) \in Nat
  BY <1>1, <1>3, FS_CardinalityType
<1>5. Len(InitialBooks) \in Nat
  <2>1. InitialBooks \in Seq(Range(InitialBooks))
    BY InitialTables, Zenon
  <2> QED BY <2>1
<1>6. Len(books) \in Nat
  BY DEF IsSeq
<1> QED BY <1>3, <1>4, <1>5, <1>6 DEF CreatedInv, MostBooks

\* A request that has added a book has been answered for good.
LEMMA CreatedKept ==
    ASSUME CreatedInv, IsSeq(books), NEW r \in Visits, visit[r].pc # "done",
           \A p \in Visits \ {r} : visit'[p] = visit[p],
           \/ Len(books') = Len(books)
           \/ Len(books') = Len(books) + 1 /\ r \in Admins /\ visit'[r].pc = "done"
    PROVE  CreatedInv'
<1> DEFINE N == Creators'
<1>1. /\ IsFiniteSet(Creators) /\ Cardinality(Creators) \in Nat
      /\ Len(books) <= Len(InitialBooks) + Cardinality(Creators)
  BY BooksAreFew DEF CreatedInv
<1>2. Len(books) \in Nat /\ Len(InitialBooks) \in Nat
  <2>1. InitialBooks \in Seq(Range(InitialBooks))
    BY InitialTables, Zenon
  <2> QED BY <2>1 DEF IsSeq
<1>3. N = {p \in Admins : visit'[p].pc = "done"}
  BY DEF Creators
<1>4. r \notin Creators
  BY DEF Creators
<1>5. \A p \in Admins \ {r} : p \in N <=> p \in Creators
  BY <1>3 DEF Creators, Visits
<1>6. N \subseteq Admins /\ Creators \subseteq Admins
  BY <1>3 DEF Creators
<1>7. CASE r \in N
  <2>1. N = Creators \union {r}
    BY <1>4, <1>5, <1>6, <1>7
  <2>2. Cardinality(Creators \union {r}) = Cardinality(Creators) + 1
    BY <1>1, <1>4, FS_AddElement
  <2>3. Cardinality(N) = Cardinality(Creators) + 1
    BY <2>1, <2>2
  <2>4. Len(books') <= Len(InitialBooks) + Cardinality(N)
    BY <1>1, <1>2, <2>3
  <2> QED BY <2>4 DEF CreatedInv
<1>8. CASE r \notin N
  <2>1. N = Creators
    BY <1>4, <1>5, <1>6, <1>8
  <2>2. Len(books') = Len(books)
    BY <1>3, <1>8
  <2> QED BY <1>1, <2>1, <2>2 DEF CreatedInv
<1> QED BY <1>7, <1>8

\* SlugInv is inductive, given the others.
LEMMA SlugStep ==
    ASSUME ShelfInv, ShelfInv', KeysInv, SlugInv, [CatalogueNext]_catalogueVars
    PROVE  SlugInv'
<1> USE DEF SlugInv
<1>0. /\ BooksInv /\ IsSeq(books) /\ IsSeq(books') /\ Len(books) <= MostBooks /\ MostBooks \in Nat
      /\ \A p \in Visits : Chosen(visit[p])
  BY BooksAreFew DEF ShelfInv, BooksInv, ChosenInv
<1>1. CASE \E r \in Admins : AdminStep(r)
  <2>1. PICK r \in Admins : AdminStep(r)
    BY <1>1
  <2>2. /\ AddsOne(visit[r]) /\ Chosen(visit[r])' /\ r \in Visits
        /\ \/ Len(books') = Len(books)
           \/ Len(books') = Len(books) + 1 /\ visit[r].pc = "create" /\ visit'[r].pc = "done"
    BY <1>0, <2>1, AdminAddsOne DEF Visits
  <2>3. visit[r].pc # "done" /\ \A p \in Visits \ {r} : visit'[p] = visit[p]
    <3>1. AdminMove(r)
      BY <2>1, <2>2, AdminMoves DEF ShelfInv
    <3> QED BY <3>1 DEF AdminMove, AdminGoes, Busy
  <2>4. TextsInv' /\ UniqueInv'
    BY <1>0, <2>2, UniqueKept
  <2>5. ASSUME NEW p \in Visits \ {r} PROVE Chosen(visit[p])'
    <3> PICK q : q = visit[p]
      OBVIOUS
    <3>1. Chosen(q)'
      BY <1>0, <2>2, ChosenStays
    <3>2. visit'[p] = q
      BY <2>3
    <3> QED BY <3>1, <3>2 DEF Chosen, CountTexts, IsTranslated, Shown
  <2>6. ChosenInv'
    BY <2>2, <2>5 DEF ChosenInv
  <2>7. CreatedInv'
    BY <1>0, <2>1, <2>2, <2>3, CreatedKept
  <2> QED BY <2>4, <2>6, <2>7
<1>2. ASSUME books' = books PROVE TextsInv' /\ UniqueInv'
  BY <1>2 DEF TextsInv, HasTexts, UniqueInv, IsTranslated, Shown
<1>3. CASE \E r \in Readers : ReaderStep(r)
  <2>1. PICK r \in Readers : ReaderStep(r)
    BY <1>3
  <2>2. r \in Visits /\ books' = books
    BY ZenonT(30), <2>1 DEF Visits, ReaderStep, GetVersion, InitVersion, AskStats, GetData, Factory, StoreData, Set, tables
  <2>3. visit'[r].pc \notin Busy /\ \A p \in Visits \ {r} : visit'[p] = visit[p]
    BY <2>1, <2>2, ReaderGoes DEF ShelfInv, CacheInv
  <2>4. ASSUME NEW p \in Visits PROVE Chosen(visit[p])'
    <3>1. visit'[p].pc \notin {"create", "translate"} \/ visit'[p] = visit[p]
      BY <2>3 DEF Busy
    <3> QED BY <1>0, <2>2, <3>1, SameChoice
  <2>5. Creators' = Creators
    <3>1. Readers \cap Admins = {}
      BY VisitConstants, Zenon
    <3> QED BY <2>3, <3>1 DEF Creators, Visits
  <2>6. CreatedInv'
    BY <2>2, <2>5 DEF CreatedInv
  <2> QED BY <1>2, <2>2, <2>4, <2>6 DEF ChosenInv
<1>4. CASE Tick \/ UNCHANGED catalogueVars
  <2>1. books' = books /\ visit' = visit
    BY <1>4 DEF Tick, catalogueVars, visitVars, tables
  <2>2. ASSUME NEW p \in Visits PROVE Chosen(visit[p])'
    BY <1>0, <2>1, SameChoice
  <2>3. CreatedInv'
    BY <2>1 DEF CreatedInv, Creators
  <2> QED BY <1>2, <2>1, <2>2, <2>3 DEF ChosenInv
<1> QED BY <1>1, <1>3, <1>4 DEF CatalogueNext

\* The slugs of the catalogue the system begins with are different.
LEMMA SlugBegins == CatalogueInit => SlugInv
<1> SUFFICES ASSUME CatalogueInit PROVE SlugInv
  OBVIOUS
<1>1. books = InitialBooks /\ visit = [r \in Visits |-> Idle]
  BY DEF CatalogueInit
<1>2. \A b \in DOMAIN InitialBooks :
          InitialBooks[b].texts \in [Languages -> [title : Seq(Token), slug : Seq(STRING), fresh : BOOLEAN]]
  BY SlugKeys, Zenon
<1>3. \A a, b \in DOMAIN InitialBooks : \A l \in Languages :
          InitialBooks[a].texts[l] # NoText =>
              /\ InitialBooks[a].texts[l].slug # << >>
              /\ InitialBooks[b].texts[l] # NoText /\ InitialBooks[a].texts[l].slug = InitialBooks[b].texts[l].slug
                    => a = b
  BY SlugKeys, Zenon
<1>4. TextsInv
  BY <1>1, <1>2, <1>3 DEF TextsInv, TextsFit, TextOk
<1>5. UniqueInv
  BY <1>1, <1>3 DEF UniqueInv, IsTranslated, Shown
<1>6. ChosenInv
  BY <1>1 DEF ChosenInv, Chosen, Idle
<1>7. CreatedInv
  <2>1. Creators = {}
    BY <1>1 DEF Creators, Visits, Idle
  <2>2. Cardinality(Creators) = 0
    BY <2>1, FS_EmptySet
  <2>3. Len(InitialBooks) \in Nat
    <3>1. InitialBooks \in Seq(Range(InitialBooks))
      BY InitialTables, Zenon
    <3> QED BY <3>1
  <2> QED BY <1>1, <2>2, <2>3 DEF CreatedInv
<1> QED BY <1>4, <1>5, <1>6, <1>7 DEF SlugInv

\* The slug on a card opens the book of the card, and no other book is opened by it
\* unless one of the two slugs was chosen while a translation was written.
THEOREM CardsLeadToBooks == Spec => []CardLeadsToBook
<1>1. ShelfInv /\ KeysInv /\ [CatalogueNext]_catalogueVars => KeysInv'
  BY KeysStep
<1>2. ShelfInv /\ ShelfInv' /\ KeysInv /\ SlugInv /\ [CatalogueNext]_catalogueVars => SlugInv'
  BY SlugStep
<1>3. ShelfInv /\ SlugInv => CardLeadsToBook
  <2> SUFFICES ASSUME ShelfInv, SlugInv, NEW l \in Languages, NEW b \in DOMAIN books,
                      IsListed(b, l, 0) \/ (IsActiveIn(b, l) /\ MinPrice(b) # Unpriced)
               PROVE  FindBookDetailBySlug(books[b].texts[l].slug, l) = b \/ SlugIsContended(b, l)
    BY DEF CardLeadsToBook
  <2> DEFINE slug == books[b].texts[l].slug
             V == {a \in DOMAIN books : IsVisible(a) /\ IsTranslated(a, l) /\ books[a].texts[l].slug = slug}
  <2>1. IsVisible(b) /\ IsTranslated(b, l)
    BY DEF IsListed, IsActiveIn, MinPrice, IsVisible
  <2>2. b \in V /\ V \in SUBSET DOMAIN books
    BY <2>1
  <2>3. FindBookDetailBySlug(slug, l) = FirstOf(V)
    BY DEF FindBookDetailBySlug
  <2>4. V \in SUBSET Nat /\ IsFiniteSet(V)
    BY <2>2, SomeBooks DEF ShelfInv
  <2>5. FirstOf(V) \in V
    BY <2>2, <2>4, FirstIsIn
  <2> PICK a : a = FirstOf(V)
    BY SMTT(30)
  <2>6. a \in DOMAIN books /\ IsTranslated(a, l) /\ Shown(a, l) = Shown(b, l)
    BY ZenonT(30), <2>5 DEF Shown
  <2>7. CASE a # b
    <3>1. ~books[a].texts[l].fresh \/ ~books[b].texts[l].fresh
      BY <2>1, <2>6, <2>7 DEF SlugInv, UniqueInv
    <3> QED BY ZenonT(30), <2>6, <2>7, <3>1 DEF SlugIsContended, Shown
  <2> QED BY <2>3, <2>7
<1> QED BY <1>1, <1>2, <1>3, KeysBegin, SlugBegins, ShelfHolds, PTL DEF Spec

(* --------------------------------- Pages -------------------------------- *)

\* The elements of S one after the other, in the order R.
Nth(S, R) == [n \in 1..Cardinality(S) |-> CHOOSE x \in S : Cardinality(Below(S, R, x)) = n - 1]

\* A list has every element of its set, at the place its rank says.
LEMMA NthHasAll ==
    ASSUME NEW S, NEW R, IsFiniteSet(S), IsOrder(R, S)
    PROVE  /\ Cardinality(S) \in Nat /\ Nth(S, R) \in [1..Cardinality(S) -> S]
           /\ \A n \in 1..Cardinality(S) : Cardinality(Below(S, R, Nth(S, R)[n])) = n - 1
           /\ \A x \in S : \E n \in 1..Cardinality(S) : Nth(S, R)[n] = x
<1>1. Cardinality(S) \in Nat
  BY FS_CardinalityType
<1>2. \A n \in 1..Cardinality(S) : Nth(S, R)[n] \in S /\ Cardinality(Below(S, R, Nth(S, R)[n])) = n - 1
  <2> TAKE n \in 1..Cardinality(S)
  <2>1. \E x \in S : Cardinality(Below(S, R, x)) = n - 1
    BY RanksAreTaken
  <2> QED BY <2>1 DEF Nth
<1>3. ASSUME NEW x \in S PROVE \E n \in 1..Cardinality(S) : Nth(S, R)[n] = x
  <2> DEFINE n == Cardinality(Below(S, R, x)) + 1
  <2>1. n \in 1..Cardinality(S) /\ n - 1 = Cardinality(Below(S, R, x))
    <3>1. Cardinality(Below(S, R, x)) \in 0..Cardinality(S) - 1
      BY Ranks
    <3> QED BY <1>1, <3>1
  <2>2. Nth(S, R)[n] \in S /\ Cardinality(Below(S, R, Nth(S, R)[n])) = Cardinality(Below(S, R, x))
    BY <1>2, <2>1
  <2>3. Nth(S, R)[n] = x
    <3> HIDE DEF n
    <3>1. \A y \in S : Cardinality(Below(S, R, y)) = Cardinality(Below(S, R, x)) => y = x
      BY Ranks
    <3> QED BY <2>2, <3>1
  <2> QED BY <2>1, <2>3
<1>4. Nth(S, R) \in [1..Cardinality(S) -> S]
  BY <1>2 DEF Nth
<1> QED BY <1>1, <1>2, <1>3, <1>4

\* The last one created first.
LEMMA NewestIsNth ==
    ASSUME NEW S \in SUBSET Nat
    PROVE  \E R : IsOrder(R, S) /\ NewestFirst(S) = Nth(S, R)
<1> DEFINE R == {p \in S \X S : p[1] > p[2]}
<1>1. IsOrder(R, S)
  BY DEF IsOrder
<1>2. \A x \in S : Below(S, R, x) = {y \in S : y > x}
  BY DEF Below
<1>3. NewestFirst(S) = [n \in 1..Cardinality(S) |-> CHOOSE x \in S : Cardinality({y \in S : y > x}) = n - 1]
  BY Zenon DEF NewestFirst, Sorted
<1>4. NewestFirst(S) = Nth(S, R)
  BY <1>2, <1>3 DEF Nth
<1> QED BY <1>1, <1>4

\* The first one created first.
LEMMA OldestIsNth ==
    ASSUME NEW S \in SUBSET Nat
    PROVE  \E R : IsOrder(R, S) /\ OldestFirst(S) = Nth(S, R)
<1> DEFINE R == {p \in S \X S : p[1] < p[2]}
<1>1. IsOrder(R, S)
  BY DEF IsOrder
<1>2. \A x \in S : Below(S, R, x) = {y \in S : y < x}
  BY DEF Below
<1>3. OldestFirst(S) = [n \in 1..Cardinality(S) |-> CHOOSE x \in S : Cardinality({y \in S : y < x}) = n - 1]
  BY Zenon DEF OldestFirst, Sorted
<1>4. OldestFirst(S) = Nth(S, R)
  BY <1>2, <1>3 DEF Nth
<1> QED BY <1>1, <1>4

\* What is left of the first m rows when the rows before the b-th are skipped.
LEMMA Skipped ==
    ASSUME NEW S, NEW t \in Seq(S), NEW m \in Nat, Len(t) = m, NEW b \in Nat \ {0},
           NEW u, u = SubSeq(t, b, m)
    PROVE  /\ u \in Seq(S)
           /\ Len(u) = IF b <= m THEN m - b + 1 ELSE 0
           /\ \A i \in b..m : u[i - b + 1] = t[i]
<1>1. u \in Seq(S)
  OBVIOUS
<1>2. Len(u) = IF b <= m THEN m - b + 1 ELSE 0
  OBVIOUS
<1>3. \A i \in b..m : u[i - b + 1] = t[i]
  OBVIOUS
<1> QED BY <1>1, <1>2, <1>3

\* A page has rows of the list, and those whose turn it is.
LEMMA RowsOfPage ==
    ASSUME NEW S, NEW rows \in Seq(S), NEW p \in Nat \ {0}
    PROVE  /\ Range(PageOf(rows, p)) \subseteq S
           /\ \A i \in DOMAIN rows :
                 (p - 1) * PageSize < i /\ i <= p * PageSize => rows[i] \in Range(PageOf(rows, p))
<1>s. PageSize \in Nat \ {0}
  BY CatalogueConstants, Zenon
<1>b. PICK b : b = (p - 1) * PageSize + 1
  OBVIOUS
<1>e. PICK e : e = p * PageSize
  OBVIOUS
<1>m. PICK m : m = IF e < Len(rows) THEN e ELSE Len(rows)
  OBVIOUS
<1>1. b \in Nat \ {0} /\ e \in Nat /\ Len(rows) \in Nat
  BY <1>s, <1>b, <1>e
<1>2. m \in Nat /\ m <= Len(rows)
  BY <1>1, <1>m
<1>t. PICK t : t = SubSeq(rows, 1, m)
  OBVIOUS
<1>3. t \in Seq(S) /\ Len(t) = m /\ \A j \in 1..m : t[j] = rows[j]
  BY <1>1, <1>2, <1>t
<1>u. PICK u : u = SubSeq(t, b, m)
  OBVIOUS
<1>4. /\ u \in Seq(S) /\ Len(u) = IF b <= m THEN m - b + 1 ELSE 0
      /\ \A i \in b..m : u[i - b + 1] = t[i]
  BY <1>1, <1>2, <1>3, <1>u, Skipped
<1>5. PageOf(rows, p) = u
  BY <1>3, <1>b, <1>e, <1>m, <1>t, <1>u DEF PageOf, Take
<1>6. DOMAIN u = 1..Len(u)
  BY <1>4, LenProperties
<1>7. ASSUME NEW i \in DOMAIN rows, b <= i, i <= e PROVE rows[i] \in Range(u)
  <2>1. i \in 1..Len(rows)
    OBVIOUS
  <2>2. i \in 1..m /\ i \in b..m /\ b <= m
    BY <1>1, <1>7, <1>m, <2>1
  <2>3. i - b + 1 \in 1..m - b + 1
    BY <1>1, <1>2, <2>2
  <2>4. i - b + 1 \in DOMAIN u /\ u[i - b + 1] = rows[i]
    BY <1>3, <1>4, <1>6, <2>2, <2>3
  <2> QED BY <2>4 DEF Range
<1>8. Range(u) \subseteq S
  <2>1. \A j \in DOMAIN u : u[j] \in S
    BY <1>4, <1>6, ElementOfSeq
  <2> QED BY <2>1 DEF Range
<1>9. ASSUME NEW i \in DOMAIN rows, (p - 1) * PageSize < i, i <= p * PageSize PROVE b <= i /\ i <= e
  <2>1. i \in Nat /\ (p - 1) * PageSize \in Nat
    BY <1>s
  <2> QED BY <1>9, <1>b, <1>e, <2>1
<1> QED BY <1>5, <1>7, <1>8, <1>9

\* The place of a row says on which page it is.
LEMMA PageOfPlace ==
    ASSUME NEW s \in Nat \ {0}, NEW n \in Nat, NEW i \in 1..n
    PROVE  \E p \in 1..(n + s - 1) \div s : (p - 1) * s < i /\ i <= p * s
<1> DEFINE q == (i - 1) \div s
           w == (n + s - 1) \div s
<1>1. q \in Nat /\ q * s <= i - 1 /\ i - 1 < q * s + s
  OBVIOUS
<1>2. w \in Nat /\ w * s <= n + s - 1 /\ n + s - 1 < w * s + s
  OBVIOUS
<1> HIDE DEF q, w
<1>3. (q + 1) * s = q * s + s
  BY <1>1
<1>4. (q + 1) * s < w * s + s
  BY <1>1, <1>2, <1>3
<1>5. q + 1 <= w
  <2>1. \A a, b \in Nat : a * s < b * s + s => a <= b
    OBVIOUS
  <2> QED BY <1>1, <1>2, <1>4, <2>1
<1>6. q + 1 \in 1..w /\ ((q + 1) - 1) * s < i /\ i <= (q + 1) * s
  <2>1. (q + 1) - 1 = q
    BY <1>1
  <2> QED BY <1>1, <1>2, <1>3, <1>5, <2>1
<1> QED BY <1>6 DEF w

\* The pages of a list, as many as the number of its rows promises, have them all.
LEMMA PagesHaveAll ==
    ASSUME NEW S, IsFiniteSet(S), NEW R, IsOrder(R, S), NEW rows, rows = Nth(S, R)
    PROVE  UNION {Range(PageOf(rows, p)) : p \in 1..(Cardinality(S) + PageSize - 1) \div PageSize} = S
<1> DEFINE P == 1..(Cardinality(S) + PageSize - 1) \div PageSize
           U == UNION {Range(PageOf(rows, p)) : p \in P}
<1>s. PageSize \in Nat \ {0}
  BY CatalogueConstants, Zenon
<1>1. /\ Cardinality(S) \in Nat /\ rows \in Seq(S) /\ DOMAIN rows = 1..Cardinality(S)
      /\ \A x \in S : \E n \in 1..Cardinality(S) : rows[n] = x
  BY NthHasAll
<1>2. P \subseteq Nat \ {0}
  <2>1. (Cardinality(S) + PageSize - 1) \div PageSize \in Int
    BY <1>s, <1>1
  <2> QED BY <2>1
<1>3. U \subseteq S
  <2>1. \A p \in P : Range(PageOf(rows, p)) \subseteq S
    BY <1>1, <1>2, RowsOfPage
  <2> QED BY <2>1
<1>4. ASSUME NEW x \in S PROVE x \in U
  <2>1. PICK i \in 1..Cardinality(S) : rows[i] = x
    BY <1>1
  <2>2. PICK p \in P : (p - 1) * PageSize < i /\ i <= p * PageSize
    BY <1>s, <1>1, PageOfPlace
  <2>3. rows[i] \in Range(PageOf(rows, p))
    BY <1>1, <1>2, <2>2, RowsOfPage
  <2> QED BY <2>1, <2>3
<1>5. U = S
  BY <1>3, <1>4
<1> QED BY <1>5

\* A sequence without repetitions has as many elements as places.
LEMMA OnceEach ==
    ASSUME NEW S, NEW u \in Seq(S), \A i, j \in 1..Len(u) : u[i] = u[j] => i = j
    PROVE  IsFiniteSet(Range(u)) /\ Cardinality(Range(u)) = Len(u)
<1> PICK n : n = Len(u)
  OBVIOUS
<1>1. n \in Nat /\ DOMAIN u = 1..n /\ u \in [1..n -> S]
  OBVIOUS
<1>2. u \in Bijection(1..n, Range(u))
  BY <1>1 DEF Bijection, Injection, Surjection, IsInjective, Range
<1>3. IsFiniteSet(1..n) /\ Cardinality(1..n) = n
  BY <1>1, Upto
<1>4. ExistsBijection(1..n, Range(u))
  BY <1>2 DEF ExistsBijection
<1> QED BY <1>3, <1>4, FS_Bijection

\* A list has its elements once.
LEMMA NthOnce ==
    ASSUME NEW S, NEW R, IsFiniteSet(S), IsOrder(R, S), NEW rows, rows = Nth(S, R)
    PROVE  rows \in Seq(S) /\ \A i, j \in 1..Len(rows) : rows[i] = rows[j] => i = j
<1> PICK n : n = Cardinality(S)
  OBVIOUS
<1>1. /\ n \in Nat /\ rows \in [1..n -> S]
      /\ \A i \in 1..n : Cardinality(Below(S, R, rows[i])) = i - 1
  BY NthHasAll
<1>2. rows \in Seq(S) /\ Len(rows) = n
  BY <1>1
<1>3. ASSUME NEW i \in 1..n, NEW j \in 1..n, rows[i] = rows[j] PROVE i = j
  <2>1. i - 1 = j - 1
    BY <1>1, <1>3
  <2> QED BY <1>1, <2>1
<1> QED BY <1>2, <1>3

\* A page is not longer than PageSize, and has nothing twice.
LEMMA PageOnce ==
    ASSUME NEW S, NEW rows \in Seq(S), \A i, j \in 1..Len(rows) : rows[i] = rows[j] => i = j,
           NEW p \in Nat \ {0}, NEW ids, ids = PageOf(rows, p)
    PROVE  /\ ids \in Seq(S) /\ Len(ids) <= PageSize
           /\ \A i, j \in 1..Len(ids) : ids[i] = ids[j] => i = j
<1>s. PageSize \in Nat \ {0}
  BY CatalogueConstants, Zenon
<1>b. PICK b : b = (p - 1) * PageSize + 1
  OBVIOUS
<1>e. PICK e : e = p * PageSize
  OBVIOUS
<1>m. PICK m : m = IF e < Len(rows) THEN e ELSE Len(rows)
  OBVIOUS
<1>1. b \in Nat \ {0} /\ e \in Nat /\ Len(rows) \in Nat /\ e - b + 1 = PageSize
  BY <1>s, <1>b, <1>e
<1>2. m \in Nat /\ m <= Len(rows) /\ m <= e
  BY <1>1, <1>m
<1>t. PICK t : t = SubSeq(rows, 1, m)
  OBVIOUS
<1>3. t \in Seq(S) /\ Len(t) = m /\ \A j \in 1..m : t[j] = rows[j]
  BY <1>1, <1>2, <1>t
<1>u. PICK u : u = SubSeq(t, b, m)
  OBVIOUS
<1>4. /\ u \in Seq(S) /\ Len(u) = IF b <= m THEN m - b + 1 ELSE 0
      /\ \A i \in b..m : u[i - b + 1] = t[i]
  BY <1>1, <1>2, <1>3, <1>u, Skipped
<1>5. ids = u
  BY <1>3, <1>b, <1>e, <1>m, <1>t, <1>u DEF PageOf, Take
<1>6. Len(u) <= PageSize
  BY <1>s, <1>1, <1>2, <1>4
<1>7. ASSUME NEW i \in 1..Len(u)
      PROVE  i + b - 1 \in 1..Len(rows) /\ u[i] = rows[i + b - 1]
  <2>1. b <= m /\ i + b - 1 \in b..m /\ i + b - 1 \in 1..m /\ (i + b - 1) - b + 1 = i
    BY <1>1, <1>2, <1>4
  <2> QED BY <1>1, <1>2, <1>3, <1>4, <2>1
<1>8. ASSUME NEW i \in 1..Len(u), NEW j \in 1..Len(u), u[i] = u[j] PROVE i = j
  <2>1. i + b - 1 = j + b - 1
    BY <1>7, <1>8
  <2> QED BY <1>1, <1>4, <2>1
<1> QED BY <1>4, <1>5, <1>6, <1>8

\* Of the ids of visible books findBooksByIds shows as many as it may.
LEMMA ShownByIds ==
    ASSUME BooksInv, NEW ids \in Seq({b \in DOMAIN books : IsVisible(b)}),
           \A i, j \in 1..Len(ids) : ids[i] = ids[j] => i = j
    PROVE  /\ Len(FindBooksByIds(ids)) = IF Len(ids) < ByIdsLimit THEN Len(ids) ELSE ByIdsLimit
           /\ Len(ids) <= ByIdsLimit => Range(FindBooksByIds(ids)) = Range(ids)
<1> PICK X, n : X = Range(ids) /\ n = Len(ids)
  OBVIOUS
<1>1. IsFiniteSet(X) /\ Cardinality(X) = n /\ n \in Nat
  BY OnceEach
<1>2. X \subseteq {b \in DOMAIN books : IsVisible(b)}
  <2>1. \A i \in DOMAIN ids : ids[i] \in {b \in DOMAIN books : IsVisible(b)}
    OBVIOUS
  <2> QED BY <2>1, Zenon DEF Range
<1>3. X \in SUBSET Nat /\ {b \in DOMAIN books : b \in Range(ids) /\ IsVisible(b)} = X
  <2>1. DOMAIN books \subseteq Nat
    BY DEF BooksInv, IsSeq
  <2> QED BY <1>2, <2>1
<1> PICK t : t = OldestFirst(X)
  OBVIOUS
<1>4. FindBooksByIds(ids) = Take(t, ByIdsLimit)
  BY <1>3 DEF FindBooksByIds
<1>5. t \in Seq(X) /\ Len(t) = n
  BY <1>1, <1>3, Oldest
<1>6. ByIdsLimit \in Nat
  BY CatalogueConstants, Zenon
<1>7. Len(Take(t, ByIdsLimit)) = IF n < ByIdsLimit THEN n ELSE ByIdsLimit
  BY <1>1, <1>5, <1>6 DEF Take
<1>8. ASSUME n <= ByIdsLimit PROVE Range(Take(t, ByIdsLimit)) = X
  <2>1. Take(t, ByIdsLimit) = SubSeq(t, 1, Len(t))
    BY <1>1, <1>5, <1>6, <1>8 DEF Take
  <2>2. SubSeq(t, 1, Len(t)) = t
    BY <1>5
  <2>3. Range(t) = X
    <3> PICK R : IsOrder(R, X) /\ t = Nth(X, R)
      BY <1>3, OldestIsNth
    <3>1. /\ DOMAIN t = 1..Cardinality(X) /\ (\A x \in X : \E i \in 1..Cardinality(X) : t[i] = x)
          /\ \A i \in 1..Cardinality(X) : t[i] \in X
      BY <1>1, NthHasAll
    <3>2. Range(t) \subseteq X
      <4>1. \A i \in DOMAIN t : t[i] \in X
        BY <3>1
      <4> QED BY <4>1 DEF Range
    <3>3. X \subseteq Range(t)
      BY <3>1 DEF Range
    <3> QED BY <3>2, <3>3
  <2> QED BY <2>1, <2>2, <2>3
<1> QED BY <1>4, <1>7, <1>8

\* So both queries of a list that has the newest first agree.
LEMMA NewestAddUp ==
    ASSUME NEW S \in SUBSET Nat, IsFiniteSet(S)
    PROVE  /\ Turned(LAMBDA p : PageOf(NewestFirst(S), p), Cardinality(S)) = S
           /\ AddsUp(LAMBDA p : PageOf(NewestFirst(S), p), Cardinality(S))
<1>1. PICK R : IsOrder(R, S) /\ NewestFirst(S) = Nth(S, R)
  BY NewestIsNth
<1>2. UNION {Range(PageOf(NewestFirst(S), p)) : p \in 1..(Cardinality(S) + PageSize - 1) \div PageSize} = S
  BY <1>1, PagesHaveAll
<1> QED BY <1>2, Zenon DEF AddsUp, Turned, PagesFor

\* And of a list in the order of the ids.
LEMMA OldestAddUp ==
    ASSUME NEW S \in SUBSET Nat, IsFiniteSet(S)
    PROVE  AddsUp(LAMBDA p : PageOf(OldestFirst(S), p), Cardinality(S))
<1>1. PICK R : IsOrder(R, S) /\ OldestFirst(S) = Nth(S, R)
  BY OldestIsNth
<1>2. UNION {Range(PageOf(OldestFirst(S), p)) : p \in 1..(Cardinality(S) + PageSize - 1) \div PageSize} = S
  BY <1>1, PagesHaveAll
<1> QED BY <1>2, Zenon DEF AddsUp, Turned, PagesFor

\* The search puts first what mentions the word most, and of these the newest.
LEMMA FoundIsNth ==
    ASSUME NEW S \in SUBSET Nat, NEW score \in [S -> Nat]
    PROVE  \E R : /\ IsOrder(R, S)
                  /\ \A x \in S : Below(S, R, x) = {y \in S : score[y] > score[x] \/ (score[y] = score[x] /\ y > x)}
<1> DEFINE R == {p \in S \X S : score[p[1]] > score[p[2]] \/ (score[p[1]] = score[p[2]] /\ p[1] > p[2])}
<1>1. IsOrder(R, S)
  <2>1. \A x \in S : x \in Nat /\ score[x] \in Nat
    OBVIOUS
  <2>2. \A x, y \in S : <<x, y>> \in R <=> score[x] > score[y] \/ (score[x] = score[y] /\ x > y)
    OBVIOUS
  <2> HIDE DEF R
  <2>3. \A x \in S : <<x, x>> \notin R
    BY <2>1, <2>2
  <2>4. ASSUME NEW x \in S, NEW y \in S, NEW z \in S, <<x, y>> \in R, <<y, z>> \in R PROVE <<x, z>> \in R
    BY <2>1, <2>2, <2>4
  <2>5. \A x, y \in S : x # y => <<x, y>> \in R \/ <<y, x>> \in R
    BY <2>1, <2>2
  <2> QED BY <2>3, <2>4, <2>5, Zenon DEF IsOrder
<1>2. \A x \in S : Below(S, R, x) = {y \in S : score[y] > score[x] \/ (score[y] = score[x] /\ y > x)}
  BY DEF Below
<1> QED BY <1>1, <1>2

\* So both queries of the search agree, and its pages show what they found, as long
\* as findBooksByIds returns it.
LEMMA FoundShowsUp ==
    ASSUME BooksInv, TextsInv, NEW l \in Languages, NEW c, NEW word
    PROVE  ShowsUp(LAMBDA p : FindBookIncludeCategory(l, c, word, p), CountBookIncludeCategory(l, c, word))
<1> DEFINE S == {b \in DOMAIN books : IsFound(b, l, c, word)}
           score == [b \in S |-> Score(b, l, word)]
           rows == Sorted(S, LAMBDA a, b : \/ Score(a, l, word) > Score(b, l, word)
                                           \/ Score(a, l, word) = Score(b, l, word) /\ a > b)
<1>1. S \in SUBSET Nat /\ IsFiniteSet(S)
  BY SomeBooks
<1>2. score \in [S -> Nat]
  <2> SUFFICES ASSUME NEW b \in S PROVE Score(b, l, word) \in Nat
    OBVIOUS
  <2>1. books[b].texts[l].title \in Seq(Token)
    BY DEF TextsInv, TextsFit, TextOk
  <2> PICK t : t = books[b].texts[l].title
    OBVIOUS
  <2>2. DOMAIN t = 1..Len(t) /\ Len(t) \in Nat
    BY <2>1, LenProperties
  <2>3. IsFiniteSet(DOMAIN t)
    BY <2>2, FS_Interval
  <2>4. {i \in DOMAIN t : t[i].base = word} \in SUBSET DOMAIN t
    OBVIOUS
  <2>5. IsFiniteSet({i \in DOMAIN t : t[i].base = word})
    BY <2>3, <2>4, FS_Subset
  <2>6. Cardinality({i \in DOMAIN t : t[i].base = word}) \in Nat
    BY <2>5, FS_CardinalityType
  <2> QED BY <2>6 DEF Score
<1>3. PICK R : /\ IsOrder(R, S)
               /\ \A x \in S : Below(S, R, x) = {y \in S : score[y] > score[x] \/ (score[y] = score[x] /\ y > x)}
  <2> HIDE DEF S, score
  <2> QED BY <1>1, <1>2, FoundIsNth
<1>4. rows = Nth(S, R)
  <2> DEFINE Before(x) == {y \in S : \/ Score(y, l, word) > Score(x, l, word)
                                     \/ Score(y, l, word) = Score(x, l, word) /\ y > x}
  <2>1. rows = [n \in 1..Cardinality(S) |-> CHOOSE x \in S : Cardinality(Before(x)) = n - 1]
    BY Zenon DEF Sorted
  <2>2. ASSUME NEW x \in S PROVE Before(x) = Below(S, R, x)
    <3>1. \A y \in S : score[y] = Score(y, l, word)
      BY Zenon
    <3>2. Below(S, R, x) = {y \in S : score[y] > score[x] \/ (score[y] = score[x] /\ y > x)}
      BY <1>3
    <3> HIDE DEF S, score
    <3> QED BY <3>1, <3>2
  <2> HIDE DEF S, rows, Before
  <2> QED BY <2>1, <2>2 DEF Nth
<1>5. UNION {Range(PageOf(rows, p)) : p \in 1..(Cardinality(S) + PageSize - 1) \div PageSize} = S
  <2> HIDE DEF S, rows
  <2> QED BY <1>1, <1>3, <1>4, PagesHaveAll
<1>6. /\ \A p : FindBookIncludeCategory(l, c, word, p) = PageOf(rows, p)
      /\ CountBookIncludeCategory(l, c, word) = Cardinality(S)
  BY Zenon DEF FindBookIncludeCategory, CountBookIncludeCategory
<1>7. S \subseteq {b \in DOMAIN books : IsVisible(b)}
  BY DEF IsFound, IsListed
<1> HIDE DEF S, rows
<1>8. Cardinality(S) \in Nat /\ rows \in Seq(S) /\ \A i, j \in 1..Len(rows) : rows[i] = rows[j] => i = j
  BY <1>1, <1>3, <1>4, NthOnce, FS_CardinalityType
<1>9. ASSUME NEW p \in Nat \ {0}
      PROVE  LET ids == PageOf(rows, p) IN
             /\ Len(FindBooksByIds(ids)) = IF Len(ids) < ByIdsLimit THEN Len(ids) ELSE ByIdsLimit
             /\ Len(ids) <= ByIdsLimit => Range(FindBooksByIds(ids)) = Range(ids)
  <2> PICK ids : ids = PageOf(rows, p)
    OBVIOUS
  <2>1. /\ ids \in Seq(S) /\ Len(ids) <= PageSize
        /\ \A i, j \in 1..Len(ids) : ids[i] = ids[j] => i = j
    BY <1>8, PageOnce
  <2>2. ids \in Seq({b \in DOMAIN books : IsVisible(b)})
    BY <1>7, <2>1
  <2> QED BY <2>1, <2>2, ShownByIds
<1> DEFINE P == 1..(Cardinality(S) + PageSize - 1) \div PageSize
<1>10. P \subseteq Nat \ {0} /\ PagesFor(Cardinality(S)) = P
  <2>1. PageSize \in Nat \ {0}
    BY CatalogueConstants, Zenon
  <2>2. (Cardinality(S) + PageSize - 1) \div PageSize \in Int
    BY <1>8, <2>1
  <2> QED BY <2>2 DEF PagesFor
<1>11. AddsUp(LAMBDA p : FindBookIncludeCategory(l, c, word, p), Cardinality(S))
  BY <1>5, <1>6 DEF AddsUp, Turned, PagesFor
<1>12. ASSUME \A p \in P : Len(PageOf(rows, p)) <= ByIdsLimit
       PROVE  AddsUp(LAMBDA p : FindBooksByIds(FindBookIncludeCategory(l, c, word, p)), Cardinality(S))
  <2>1. \A p \in P : Range(FindBooksByIds(PageOf(rows, p))) = Range(PageOf(rows, p))
    BY <1>9, <1>10, <1>12
  <2>2. UNION {Range(FindBooksByIds(PageOf(rows, p))) : p \in P} = UNION {Range(PageOf(rows, p)) : p \in P}
    <3> HIDE DEF P
    <3> QED BY <2>1
  <2> QED BY <1>5, <1>6, <2>2 DEF AddsUp, Turned, PagesFor
<1>13. \A p \in P :
           LET n == Len(FindBookIncludeCategory(l, c, word, p)) IN
           Len(FindBooksByIds(FindBookIncludeCategory(l, c, word, p))) = IF n < ByIdsLimit THEN n ELSE ByIdsLimit
  BY <1>6, <1>9, <1>10
<1>14. (\A p \in P : Len(FindBookIncludeCategory(l, c, word, p)) <= ByIdsLimit)
         => \A p \in P : Len(PageOf(rows, p)) <= ByIdsLimit
  BY <1>6
<1> HIDE DEF P
<1> QED BY <1>6, <1>10, <1>11, <1>12, <1>13, <1>14, Zenon DEF ShowsUp

\* The total of a list is what its pages show, in every state of the tables.
LEMMA PagesAreCounted ==
    ASSUME BooksInv, TextsInv
    PROVE  PagesAddUp
<1>1. ASSUME NEW S \in SUBSET DOMAIN books
      PROVE  AddsUp(LAMBDA p : PageOf(NewestFirst(S), p), Cardinality(S))
  <2>1. S \in SUBSET Nat /\ IsFiniteSet(S)
    BY SomeBooks
  <2> QED BY <2>1, NewestAddUp
<1> SUFFICES ASSUME NEW l \in Languages
             PROVE  /\ \A c \in 0..Len(categories) : AddsUp(LAMBDA p : FindBooksForList(l, c, p), CountBooksForList(l, c))
                    /\ \A c \in DOMAIN categories, w \in Words :
                          ShowsUp(LAMBDA p : FindBookIncludeCategory(l, c, w, p), CountBookIncludeCategory(l, c, w))
                    /\ \A w \in Words :
                          /\ ShowsUp(LAMBDA p : FindBookNeIncludeCategory(l, w, p), CountBookNeIncludeCategory(l, w))
                          /\ AddsUp(LAMBDA p : ListBooks(l, w, p).rows, ListBooks(l, w, 1).total)
                    /\ \A n \in Names :
                          /\ AddsUp(LAMBDA p : FindBooksByPublisher(n, l, p), CountBooksByPublisher(n, l))
                          /\ AddsUp(LAMBDA p : FindBooksByAuthor(n, l, p), CountBooksByAuthor(n, l))
  BY Zenon DEF PagesAddUp
<1>2. ASSUME NEW c PROVE AddsUp(LAMBDA p : FindBooksForList(l, c, p), CountBooksForList(l, c))
  <2> DEFINE S == {b \in DOMAIN books : IsListed(b, l, c)}
  <2>1. AddsUp(LAMBDA p : PageOf(NewestFirst(S), p), Cardinality(S))
    BY <1>1
  <2> QED BY <2>1, Zenon DEF AddsUp, Turned, PagesFor, FindBooksForList, CountBooksForList
<1>3. ASSUME NEW c, NEW w
      PROVE  ShowsUp(LAMBDA p : FindBookIncludeCategory(l, c, w, p), CountBookIncludeCategory(l, c, w))
  BY FoundShowsUp
<1>4. ASSUME NEW w PROVE ShowsUp(LAMBDA p : FindBookNeIncludeCategory(l, w, p), CountBookNeIncludeCategory(l, w))
  <2>1. ShowsUp(LAMBDA p : FindBookIncludeCategory(l, 0, w, p), CountBookIncludeCategory(l, 0, w))
    BY FoundShowsUp
  <2> QED BY <2>1, Zenon DEF ShowsUp, AddsUp, Turned, PagesFor, FindBookNeIncludeCategory, CountBookNeIncludeCategory
<1>5. ASSUME NEW w PROVE AddsUp(LAMBDA p : ListBooks(l, w, p).rows, ListBooks(l, w, 1).total)
  <2> DEFINE S == {b \in DOMAIN books : ~books[b].deleted /\ IsTranslated(b, l) /\ Mentions(b, l, w)}
  <2>1. AddsUp(LAMBDA p : PageOf(NewestFirst(S), p), Cardinality(S))
    BY <1>1
  <2>2. ListBooks(l, w, 1).total = Cardinality(S) /\ \A p : ListBooks(l, w, p).rows = PageOf(NewestFirst(S), p)
    BY DEF ListBooks, FindBooksDetailed, CountBooksDetailed
  <2> HIDE DEF S
  <2> QED BY <2>1, <2>2 DEF AddsUp, Turned, PagesFor
<1>6. ASSUME NEW n PROVE AddsUp(LAMBDA p : FindBooksByPublisher(n, l, p), CountBooksByPublisher(n, l))
  <2> DEFINE S == {b \in DOMAIN books : IsActiveIn(b, l) /\ books[b].publisher = n}
  <2>1. AddsUp(LAMBDA p : PageOf(NewestFirst(S), p), Cardinality(S))
    BY <1>1
  <2> QED BY <2>1, Zenon DEF AddsUp, Turned, PagesFor, FindBooksByPublisher, CountBooksByPublisher
<1>7. ASSUME NEW n PROVE AddsUp(LAMBDA p : FindBooksByAuthor(n, l, p), CountBooksByAuthor(n, l))
  <2> DEFINE S == {b \in DOMAIN books : IsActiveIn(b, l) /\ \E a \in books[b].authors : a.name = n}
  <2>1. AddsUp(LAMBDA p : PageOf(NewestFirst(S), p), Cardinality(S))
    BY <1>1
  <2> QED BY <2>1, Zenon DEF AddsUp, Turned, PagesFor, FindBooksByAuthor, CountBooksByAuthor
<1> QED BY <1>2, <1>3, <1>4, <1>5, <1>6, <1>7, Zenon

\* The lists of the admin have all their books, and the total of the second counts
\* the variants of these.
LEMMA AdminListsAreCounted ==
    ASSUME BooksInv
    PROVE  AdminListsAreWhole
<1>1. ASSUME NEW S \in SUBSET DOMAIN books PROVE S \in SUBSET Nat /\ IsFiniteSet(S)
  BY SomeBooks
<1>2. ASSUME NEW l \in Languages
      PROVE  AddsUp(LAMBDA p : GetBooks(l, p).rows,
                    Cardinality({b \in DOMAIN books : IsTranslated(b, l) /\ books[b].authors # {}}))
  <2> DEFINE S == {b \in DOMAIN books : IsTranslated(b, l) /\ books[b].authors # {}}
  <2>1. AddsUp(LAMBDA p : PageOf(OldestFirst(S), p), Cardinality(S))
    BY <1>1, OldestAddUp
  <2>2. \A p : GetBooks(l, p).rows = PageOf(OldestFirst(S), p)
    BY DEF GetBooks, FindBooks
  <2> HIDE DEF S
  <2>3. AddsUp(LAMBDA p : GetBooks(l, p).rows, Cardinality(S))
    BY <2>1, <2>2 DEF AddsUp, Turned, PagesFor
  <2> QED BY <2>3 DEF S
<1> DEFINE K == {b \in DOMAIN books : IsKept(b)}
<1>3. /\ Turned(LAMBDA p : PageOf(NewestFirst(K), p), Cardinality(K)) = K
      /\ AddsUp(LAMBDA p : PageOf(NewestFirst(K), p), Cardinality(K))
  <2>1. K \in SUBSET Nat /\ IsFiniteSet(K)
    BY <1>1
  <2> HIDE DEF K
  <2> QED BY <2>1, NewestAddUp
<1>4. /\ Turned(LAMBDA p : GetBookVariants(p).rows, CountBooks) = K
      /\ AddsUp(LAMBDA p : GetBookVariants(p).rows, CountBooks)
  <2>1. CountBooks = Cardinality(K) /\ \A p : GetBookVariants(p).rows = PageOf(NewestFirst(K), p)
    BY DEF GetBookVariants, FindBookVariants, CountBooks
  <2> HIDE DEF K
  <2> QED BY <1>3, <2>1 DEF AddsUp, Turned, PagesFor
<1>5. Cardinality(VariantsOf(Turned(LAMBDA p : GetBookVariants(p).rows, CountBooks))) = GetBookVariants(1).total
  BY <1>4 DEF GetBookVariants, CountBookVariants
<1> QED BY <1>2, <1>4, <1>5, Zenon DEF AdminListsAreWhole

(* ---------------------------- Recommendations --------------------------- *)

\* What comes before has the lower rank.
LEMMA RanksGrow ==
    ASSUME NEW S, NEW R, IsFiniteSet(S), IsOrder(R, S), NEW x \in S, NEW y \in S, <<x, y>> \in R
    PROVE  Cardinality(Below(S, R, x)) < Cardinality(Below(S, R, y))
<1>1. Below(S, R, x) \in SUBSET Below(S, R, y) /\ Below(S, R, y) \in SUBSET S
  BY DEF Below, IsOrder
<1>2. x \in Below(S, R, y) /\ x \notin Below(S, R, x)
  BY DEF Below, IsOrder
<1>3. IsFiniteSet(Below(S, R, y))
  BY <1>1, FS_Subset
<1>4. /\ IsFiniteSet(Below(S, R, x)) /\ Cardinality(Below(S, R, x)) <= Cardinality(Below(S, R, y))
      /\ Cardinality(Below(S, R, x)) # Cardinality(Below(S, R, y))
  BY <1>1, <1>2, <1>3, FS_Subset
<1> QED BY <1>3, <1>4, FS_CardinalityType

\* Fractions with numerators a, c and e are compared crosswise.
LEMMA FractionsCompare ==
    ASSUME NEW a \in Nat, NEW b \in Nat \ {0}, NEW c \in Nat, NEW d \in Nat \ {0}, NEW e \in Nat, NEW f \in Nat \ {0}
    PROVE  /\ a * d > c * b /\ c * f >= e * d => a * f > e * b
           /\ a * d >= c * b /\ c * f > e * d => a * f > e * b
           /\ a * d >= c * b /\ c * f >= e * d => a * f >= e * b
<1>1. ASSUME a * d > c * b, c * f >= e * d PROVE a * f > e * b
  BY <1>1
<1>2. ASSUME a * d >= c * b, c * f > e * d PROVE a * f > e * b
  BY <1>2
<1>3. ASSUME a * d >= c * b, c * f >= e * d PROVE a * f >= e * b
  BY <1>3
<1> QED BY <1>1, <1>2, <1>3

\* The larger fraction, and of equal ones the older element, comes first.
ByShare(S, i, u) ==
    {p \in S \X S : \/ i[p[1]] * u[p[2]] > i[p[2]] * u[p[1]]
                    \/ ~(i[p[2]] * u[p[1]] > i[p[1]] * u[p[2]]) /\ p[1] < p[2]}

\* It is an order.
LEMMA SharesAreOrdered ==
    ASSUME NEW S \in SUBSET Nat, NEW i \in [S -> Nat], NEW u \in [S -> Nat \ {0}]
    PROVE  IsOrder(ByShare(S, i, u), S)
<1> DEFINE R == ByShare(S, i, u)
           More(x, y) == i[x] * u[y] > i[y] * u[x]
<1>1. \A x \in S : x \in Nat /\ i[x] \in Nat /\ u[x] \in Nat \ {0}
  OBVIOUS
<1>2. \A x, y \in S : i[x] * u[y] \in Nat /\ i[y] * u[x] \in Nat
  BY <1>1
<1>3. \A x, y \in S : <<x, y>> \in R <=> More(x, y) \/ (~More(y, x) /\ x < y)
  BY DEF ByShare
<1>4. \A x \in S : <<x, x>> \notin R
  BY <1>1, <1>2, <1>3
<1>5. ASSUME NEW x \in S, NEW y \in S, NEW z \in S, <<x, y>> \in R, <<y, z>> \in R PROVE <<x, z>> \in R
  <2>1. /\ More(x, y) /\ ~More(z, y) => More(x, z)
        /\ ~More(y, x) /\ More(y, z) => More(x, z)
        /\ ~More(y, x) /\ ~More(z, y) => ~More(z, x)
    <3> PICK a, b, c, d, e, f : a = i[x] /\ b = u[x] /\ c = i[y] /\ d = u[y] /\ e = i[z] /\ f = u[z]
      OBVIOUS
    <3>1. a \in Nat /\ b \in Nat \ {0} /\ c \in Nat /\ d \in Nat \ {0} /\ e \in Nat /\ f \in Nat \ {0}
      BY <1>1
    <3>2. /\ a * d \in Nat /\ c * b \in Nat /\ c * f \in Nat /\ e * d \in Nat /\ a * f \in Nat /\ e * b \in Nat
      BY <3>1
    <3>3. /\ a * d > c * b /\ c * f >= e * d => a * f > e * b
          /\ a * d >= c * b /\ c * f > e * d => a * f > e * b
          /\ a * d >= c * b /\ c * f >= e * d => a * f >= e * b
      BY <3>1, FractionsCompare
    <3> QED BY <3>2, <3>3
  <2>2. More(x, y) => ~More(y, x)
    BY <1>2
  <2>3. More(y, z) => ~More(z, y)
    BY <1>2
  <2>4. x \in Nat /\ y \in Nat /\ z \in Nat
    BY <1>1
  <2>5. /\ More(x, y) \/ (~More(y, x) /\ x < y)
        /\ More(y, z) \/ (~More(z, y) /\ y < z)
    BY <1>3, <1>5
  <2> HIDE DEF More, R
  <2>6. More(x, z) \/ (~More(z, x) /\ x < z)
    BY <2>1, <2>2, <2>3, <2>4, <2>5
  <2> QED BY <1>3, <2>6
<1>6. ASSUME NEW x \in S, NEW y \in S, x # y PROVE <<x, y>> \in R \/ <<y, x>> \in R
  <2>1. x < y \/ y < x
    BY <1>1, <1>6
  <2> HIDE DEF More, R
  <2> QED BY <1>3, <2>1
<1> HIDE DEF R
<1>7. IsOrder(R, S)
  BY <1>4, <1>5, <1>6, Zenon DEF IsOrder
<1> QED BY <1>7 DEF R

\* What the first m elements of an order leave out comes after them, and they leave
\* out none when there are fewer.
LEMMA FirstAreBefore ==
    ASSUME NEW S, NEW R, IsFiniteSet(S), IsOrder(R, S), NEW m \in Nat,
           NEW best, best = Take(Nth(S, R), m)
    PROVE  /\ Range(best) \subseteq S
           /\ \A x \in S \ Range(best), y \in Range(best) : <<x, y>> \notin R
           /\ Len(best) < m => S \subseteq Range(best)
<1> PICK n : n = Cardinality(S)
  OBVIOUS
<1> PICK rows : rows = Nth(S, R)
  OBVIOUS
<1>1. /\ n \in Nat /\ rows \in [1..n -> S]
      /\ \A k \in 1..n : Cardinality(Below(S, R, rows[k])) = k - 1
      /\ \A x \in S : \E k \in 1..n : rows[k] = x
  BY NthHasAll
<1>2. rows \in Seq(S) /\ Len(rows) = n
  BY <1>1
<1>k. PICK k : k = IF m < n THEN m ELSE n
  OBVIOUS
<1>3. k \in Nat /\ k <= n /\ (k = m \/ k = n) /\ k <= m
  BY <1>1, <1>k
<1>4. best = SubSeq(rows, 1, k)
  BY <1>2, <1>k DEF Take
<1>5. best \in Seq(S) /\ Len(best) = k /\ \A j \in 1..k : best[j] = rows[j]
  BY <1>2, <1>3, <1>4
<1>6. Range(best) = {rows[j] : j \in 1..k}
  <2>1. DOMAIN best = 1..k
    BY <1>5, LenProperties
  <2> QED BY <1>5, <2>1 DEF Range
<1>7. Range(best) \subseteq S
  BY <1>1, <1>3, <1>6
<1>8. ASSUME NEW x \in S \ Range(best) PROVE \E j \in 1..n : rows[j] = x /\ j > k
  <2>1. PICK j \in 1..n : rows[j] = x
    BY <1>1
  <2> QED BY <1>3, <1>6, <2>1
<1>9. ASSUME NEW x \in S \ Range(best), NEW y \in Range(best) PROVE <<x, y>> \notin R
  <2>1. PICK j \in 1..n : rows[j] = x /\ j > k
    BY <1>8
  <2>2. PICK h \in 1..k : rows[h] = y
    BY <1>6
  <2>3. Cardinality(Below(S, R, x)) = j - 1 /\ Cardinality(Below(S, R, y)) = h - 1
    BY <1>1, <1>3, <2>1, <2>2
  <2>4. ~(j - 1 < h - 1)
    BY <1>3, <2>1, <2>2
  <2> QED BY <1>7, <2>3, <2>4, RanksGrow
<1>10. ASSUME Len(best) < m, NEW x \in S PROVE x \in Range(best)
  <2> SUFFICES ASSUME x \notin Range(best) PROVE FALSE
    OBVIOUS
  <2>1. PICK j \in 1..n : j > k
    BY <1>8
  <2> QED BY <1>1, <1>3, <1>5, <1>10, <2>1
<1> QED BY <1>7, <1>9, <1>10

\* Recommendations are the closest books there are.
LEMMA BestAreChosen ==
    ASSUME BooksInv, RowsInv, TreeInv
    PROVE  BestIsRecommended
<1> SUFFICES ASSUME NEW b \in DOMAIN books
             PROVE  LET cats == books[b].categories
                        alike == FindBookAlikeCategory(b, cats)
                        best == RecommendIds(b, cats)
                    IN  /\ \A a \in alike \ Range(best), i \in Range(best) : ~IsCloser(a, i, cats)
                        /\ Len(best) < MaxRecommended => alike \subseteq Range(best)
  BY Zenon DEF BestIsRecommended
<1> DEFINE cats == books[b].categories
           S == FindBookAlikeCategory(b, cats)
           i == [a \in S |-> Cardinality(books[a].categories \cap cats)]
           u == [a \in S |-> Cardinality(books[a].categories \union cats)]
           R == ByShare(S, i, u)
           best == RecommendIds(b, cats)
<1>1. S \in SUBSET DOMAIN books /\ \A a \in S : books[a].categories \cap cats # {}
  BY DEF FindBookAlikeCategory
<1>2. S \in SUBSET Nat /\ IsFiniteSet(S)
  <2> HIDE DEF S
  <2> QED BY <1>1, SomeBooks
<1>3. \A a \in DOMAIN books : IsFiniteSet(books[a].categories)
  <2> TAKE a \in DOMAIN books
  <2>1. books[a].categories \in SUBSET DOMAIN categories
    BY DEF RowsInv, Refers
  <2>2. DOMAIN categories = 1..Len(categories) /\ Len(categories) \in Nat
    BY LenProperties DEF TreeInv, IsSeq
  <2>3. IsFiniteSet(DOMAIN categories)
    BY <2>2, FS_Interval
  <2> QED BY <2>1, <2>3, FS_Subset
<1>4. ASSUME NEW a \in S
      PROVE  /\ Cardinality(books[a].categories \cap cats) \in Nat
             /\ Cardinality(books[a].categories \union cats) \in Nat \ {0}
  <2> PICK A : A = books[a].categories
    OBVIOUS
  <2> PICK C : C = cats
    OBVIOUS
  <2>1. IsFiniteSet(A) /\ IsFiniteSet(C) /\ A \cap C # {}
    BY <1>1, <1>3, Zenon
  <2>2. IsFiniteSet(A \cap C) /\ IsFiniteSet(A \union C)
    BY <2>1, FS_Union, FS_Intersection
  <2>3. A \union C # {}
    BY <2>1
  <2>4. Cardinality(A \cap C) \in Nat /\ Cardinality(A \union C) \in Nat /\ Cardinality(A \union C) # 0
    BY <2>2, <2>3, FS_CardinalityType, FS_EmptySet
  <2> QED BY <2>4
<1>5. i \in [S -> Nat] /\ u \in [S -> Nat \ {0}]
  <2> HIDE DEF S
  <2> QED BY <1>4
<1>6. IsOrder(R, S)
  <2> HIDE DEF S, i, u
  <2> QED BY <1>2, <1>5, SharesAreOrdered
<1>7. \A x, y \in S : IsCloser(x, y, cats) <=> i[x] * u[y] > i[y] * u[x]
  <2> HIDE DEF S
  <2> QED BY DEF IsCloser
<1> DEFINE Before(x) == {y \in S : IsCloser(y, x, cats) \/ (~IsCloser(x, y, cats) /\ y < x)}
<1>8. ASSUME NEW x \in S PROVE Before(x) = Below(S, R, x)
  <2> HIDE DEF S, i, u, cats
  <2> QED BY <1>7 DEF Below, ByShare
<1>9. ClosestFirst(b, cats) = [n \in 1..Cardinality(S) |-> CHOOSE x \in S : Cardinality(Before(x)) = n - 1]
  BY Zenon DEF ClosestFirst, Sorted
<1>10. ClosestFirst(b, cats) = Nth(S, R)
  <2> HIDE DEF S, R, Before
  <2> QED BY <1>8, <1>9 DEF Nth
<1>11. best = Take(Nth(S, R), MaxRecommended)
  BY <1>10, Zenon DEF RecommendIds
<1>12. MaxRecommended \in Nat
  BY CatalogueConstants, Zenon
<1>13. /\ Range(best) \subseteq S
       /\ \A x \in S \ Range(best), y \in Range(best) : <<x, y>> \notin R
       /\ Len(best) < MaxRecommended => S \subseteq Range(best)
  <2> HIDE DEF S, R, best, i, u, cats
  <2>1. \A m \in Nat : \A t : t = Take(Nth(S, R), m) =>
            /\ Range(t) \subseteq S
            /\ \A x \in S \ Range(t), y \in Range(t) : <<x, y>> \notin R
            /\ Len(t) < m => S \subseteq Range(t)
    BY <1>2, <1>6, FirstAreBefore
  <2> QED BY <1>11, <1>12, <2>1, Zenon
<1>14. ASSUME NEW x \in S \ Range(best), NEW y \in Range(best) PROVE ~IsCloser(x, y, cats)
  <2>1. y \in S /\ <<x, y>> \notin R
    BY <1>13, <1>14
  <2> HIDE DEF S, best, i, u, cats
  <2> QED BY <1>7, <2>1 DEF ByShare
<1> HIDE DEF S, best
<1> QED BY <1>13, <1>14 DEF S, best

(* ------------------------------ Categories ------------------------------ *)

\* f has base where p is 0, and else what a step makes of the value at an earlier place.
IsRecursion(f, n, p, base, step) == \A i \in 1..n : f[i] = IF p[i] = 0 THEN base ELSE step[<<i, f[p[i]]>>]

\* There is such a function.
LEMMA RecursionExists ==
    ASSUME NEW n \in Nat, NEW p \in [1..n -> Nat], \A i \in 1..n : p[i] < i,
           NEW T, NEW base \in T, NEW step \in [(1..n) \X T -> T]
    PROVE  \E f \in [1..n -> T] : IsRecursion(f, n, p, base, step)
<1> DEFINE Value(f, i) == IF p[i] = 0 THEN base ELSE step[<<i, f[p[i]]>>]
           Good(f, k) == f \in [1..k -> T] /\ \A i \in 1..k : f[i] = Value(f, i)
           S == {k \in Nat : k <= n => \E f : Good(f, k)}
<1>1. 0 \in S
  <2> DEFINE f == [i \in 1..0 |-> base]
  <2>1. f \in [1..0 -> T]
    BY Zenon
  <2>2. \A i \in 1..0 : FALSE
    OBVIOUS
  <2>3. Good(f, 0)
    BY <2>1, <2>2, Zenon
  <2> HIDE DEF Good, f
  <2> QED BY <2>3
<1>2. ASSUME NEW k \in Nat, k \in S PROVE k + 1 \in S
  <2> SUFFICES ASSUME k + 1 <= n PROVE \E f : Good(f, k + 1)
    OBVIOUS
  <2>1. PICK g : Good(g, k)
    BY <1>2
  <2>2. PICK last : last = Value(g, k + 1)
    OBVIOUS
  <2>3. k + 1 \in 1..n /\ p[k + 1] \in 0..k /\ \A i \in 1..k : i \in 1..n /\ p[i] \in 0..k
    OBVIOUS
  <2>4. last \in T
    <3>1. p[k + 1] # 0 => p[k + 1] \in 1..k
      BY <2>3
    <3>2. p[k + 1] # 0 => g[p[k + 1]] \in T
      BY <2>1, <3>1
    <3> QED BY <2>2, <2>3, <3>2
  <2> DEFINE f == [i \in 1..k + 1 |-> IF i = k + 1 THEN last ELSE g[i]]
  <2>5. f \in [1..k + 1 -> T]
    BY <2>1, <2>4
  <2>6. f[k + 1] = last /\ \A i \in 1..k : f[i] = g[i]
    BY <2>3
  <2> HIDE DEF f
  <2>7. ASSUME NEW i \in 1..k + 1 PROVE f[i] = Value(f, i)
    <3>1. p[i] \in 0..k
      <4>1. i = k + 1 \/ i \in 1..k
        OBVIOUS
      <4> QED BY <2>3, <4>1
    <3>2. p[i] # 0 => f[p[i]] = g[p[i]]
      BY <2>6, <3>1
    <3>3. CASE i = k + 1
      BY <2>2, <2>6, <3>2, <3>3
    <3>4. CASE i # k + 1
      <4>1. i \in 1..k
        BY <3>4
      <4> QED BY <2>1, <2>6, <3>2, <4>1
    <3> QED BY <3>3, <3>4
  <2> QED BY <2>5, <2>7
<1>3. n \in S
  <2> HIDE DEF S
  <2> QED BY <1>1, <1>2, AllNumbers
<1>4. PICK f : Good(f, n)
  BY <1>3
<1> QED BY <1>4 DEF IsRecursion

\* What the ancestors of a category are.
LEMMA AncestorsAre ==
    ASSUME TreeInv
    PROVE  \A c \in DOMAIN categories :
               Ancestors[c] = IF categories[c].parent = 0 THEN {}
                              ELSE {categories[c].parent} \union Ancestors[categories[c].parent]
<1>n. PICK n : n = Len(categories)
  OBVIOUS
<1>p. PICK p : p = [i \in 1..n |-> categories[i].parent]
  OBVIOUS
<1>t. PICK T : T = SUBSET Nat
  OBVIOUS
<1>b. PICK base : base = {}
  BY ZenonT(30)
<1>s. PICK step : step = [q \in (1..n) \X T |-> {p[q[1]]} \union q[2]]
  OBVIOUS
<1>1. n \in Nat /\ DOMAIN categories = 1..n
  BY <1>n, LenProperties DEF TreeInv, IsSeq
<1>2. p \in [1..n -> Nat] /\ \A i \in 1..n : p[i] < i /\ p[i] = categories[i].parent
  BY <1>p, <1>1 DEF TreeInv
<1>3. step \in [(1..n) \X T -> T] /\ base \in T
  BY <1>2, <1>t, <1>s, <1>b
<1>4. PICK f \in [1..n -> T] : IsRecursion(f, n, p, base, step)
  <2>1. p \in [1..n -> Nat] /\ \A i \in 1..n : p[i] < i
    BY <1>2
  <2> QED BY <1>1, <1>3, <2>1, RecursionExists
<1> DEFINE Up(h) == [c \in 1..n |-> IF categories[c].parent = 0 THEN {}
                                    ELSE {categories[c].parent} \union h[categories[c].parent]]
<1>5. f = Up(f)
  <2>1. ASSUME NEW i \in 1..n PROVE f[i] = Up(f)[i]
    <3>1. CASE p[i] = 0
      BY <1>2, <1>4, <1>b, <3>1 DEF IsRecursion
    <3>2. CASE p[i] # 0
      <4>1. p[i] \in 1..n
        BY <1>1, <1>2, <3>2
      <4>2. f[p[i]] \in T
        BY <4>1
      <4>3. step[<<i, f[p[i]]>>] = {p[i]} \union f[p[i]]
        BY <1>s, <4>2
      <4> QED BY <1>2, <1>4, <3>2, <4>3 DEF IsRecursion
    <3> QED BY <3>1, <3>2
  <2> QED BY <2>1
<1>6. Ancestors = CHOOSE h : h = Up(h)
  BY <1>n DEF Ancestors
<1>7. Ancestors = Up(Ancestors)
  <2> HIDE DEF Up
  <2> QED BY <1>5, <1>6, Zenon
<1> QED BY <1>1, <1>7

\* What hangs at a level: the roots at the first, below it the children of the level above.
Hanging(V, h, i) ==
    IF i = 1 THEN {c \in V : categories[c].parent = 0} ELSE {c \in V : categories[c].parent \in h[i - 1]}

IsLevels(h, V, n) == h = [i \in 1..n |-> Hanging(V, h, i)]

\* The levels of the tree.
LEMMA LevelsAre ==
    ASSUME NEW V, NEW n \in Nat
    PROVE  IsLevels(CHOOSE h : IsLevels(h, V, n), V, n)
<1>p. PICK p : p = [i \in 1..n |-> i - 1]
  OBVIOUS
<1>t. PICK T : T = SUBSET V
  OBVIOUS
<1>b. PICK base : base = {c \in V : categories[c].parent = 0}
  OBVIOUS
<1>s. PICK step : step = [q \in (1..n) \X T |-> {c \in V : categories[c].parent \in q[2]}]
  OBVIOUS
<1>1. p \in [1..n -> Nat] /\ \A i \in 1..n : p[i] < i
  BY <1>p
<1>2. step \in [(1..n) \X T -> T] /\ base \in T
  BY <1>t, <1>s, <1>b
<1>3. PICK f \in [1..n -> T] : IsRecursion(f, n, p, base, step)
  BY <1>1, <1>2, RecursionExists
<1>4. f = [i \in 1..n |-> Hanging(V, f, i)]
  <2>1. ASSUME NEW i \in 1..n PROVE f[i] = Hanging(V, f, i)
    <3>1. CASE i = 1
      <4>1. p[i] = 0
        BY <1>p, <3>1
      <4>2. f[i] = base
        BY <1>3, <4>1 DEF IsRecursion
      <4> QED BY <1>b, <3>1, <4>2, Zenon DEF Hanging
    <3>2. CASE i # 1
      <4>1. i - 1 \in 1..n /\ p[i] = i - 1 /\ i - 1 # 0
        BY <1>p, <3>2
      <4>2. step[<<i, f[i - 1]>>] = {c \in V : categories[c].parent \in f[i - 1]}
        BY <1>s, <4>1
      <4>3. f[i] = step[<<i, f[i - 1]>>]
        BY <1>3, <4>1 DEF IsRecursion
      <4>4. Hanging(V, f, i) = {c \in V : categories[c].parent \in f[i - 1]}
        BY <3>2, Zenon DEF Hanging
      <4> QED BY <4>2, <4>3, <4>4, Zenon
    <3> QED BY <3>1, <3>2
  <2> QED BY <2>1
<1> QED BY <1>4, Zenon DEF IsLevels

\* Ancestors are older.
LEMMA AncestorsAreOlder ==
    ASSUME TreeInv
    PROVE  \A c \in DOMAIN categories : Ancestors[c] \subseteq 1..c - 1
<1>c. PICK len : len = Len(categories)
  OBVIOUS
<1>1. len \in Nat /\ DOMAIN categories = 1..len
  BY <1>c, LenProperties DEF TreeInv, IsSeq
<1>2. \A c \in 1..len : categories[c].parent \in 0..c - 1
  BY <1>1 DEF TreeInv
<1>3. \A c \in 1..len : Ancestors[c] = IF categories[c].parent = 0 THEN {}
                                     ELSE {categories[c].parent} \union Ancestors[categories[c].parent]
  BY <1>1, AncestorsAre
<1> DEFINE S == {k \in Nat : \A c \in 1..len : c <= k => Ancestors[c] \subseteq 1..c - 1}
<1>4. 0 \in S
  OBVIOUS
<1>5. ASSUME NEW k \in Nat, k \in S, NEW c \in 1..len, c <= k + 1 PROVE Ancestors[c] \subseteq 1..c - 1
  <2>p. PICK d : d = categories[c].parent
    OBVIOUS
  <2>1. d \in 0..c - 1 /\ c \in 1..len
    BY <1>2, <2>p
  <2>2. CASE d = 0
    BY <1>3, <2>2, <2>p
  <2>3. CASE d # 0
    <3>1. d \in 1..len /\ d <= k /\ d \in 1..c - 1
      BY <1>1, <1>5, <2>1, <2>3
    <3>2. Ancestors[d] \subseteq 1..d - 1
      BY <1>5, <3>1
    <3>3. Ancestors[c] = {d} \union Ancestors[d]
      BY <1>3, <2>3, <2>p
    <3>4. 1..d - 1 \subseteq 1..c - 1
      BY <1>1, <3>1
    <3> QED BY <3>1, <3>2, <3>3, <3>4
  <2> QED BY <2>2, <2>3
<1>6. \A k \in Nat : k \in S => k + 1 \in S
  BY <1>5
<1>7. len \in S
  <2> HIDE DEF S
  <2> QED BY <1>1, <1>4, <1>6, AllNumbers
<1> QED BY <1>1, <1>7

\* The order of sortOrder and id.
LEMMA SortIsNth ==
    ASSUME NEW S \in SUBSET Nat, NEW sort \in [S -> Int]
    PROVE  \E R : /\ IsOrder(R, S)
                  /\ \A x \in S : Below(S, R, x) = {y \in S : sort[y] < sort[x] \/ (sort[y] = sort[x] /\ y < x)}
<1> DEFINE R == {p \in S \X S : sort[p[1]] < sort[p[2]] \/ (sort[p[1]] = sort[p[2]] /\ p[1] < p[2])}
<1>1. IsOrder(R, S)
  <2>1. \A x \in S : x \in Nat /\ sort[x] \in Int
    OBVIOUS
  <2>2. \A x, y \in S : <<x, y>> \in R <=> sort[x] < sort[y] \/ (sort[x] = sort[y] /\ x < y)
    OBVIOUS
  <2> HIDE DEF R
  <2>3. \A x \in S : <<x, x>> \notin R
    BY <2>1, <2>2
  <2>4. ASSUME NEW x \in S, NEW y \in S, NEW z \in S, <<x, y>> \in R, <<y, z>> \in R PROVE <<x, z>> \in R
    BY <2>1, <2>2, <2>4
  <2>5. \A x, y \in S : x # y => <<x, y>> \in R \/ <<y, x>> \in R
    BY <2>1, <2>2
  <2> QED BY <2>3, <2>4, <2>5, Zenon DEF IsOrder
<1>2. \A x \in S : Below(S, R, x) = {y \in S : sort[y] < sort[x] \/ (sort[y] = sort[x] /\ y < x)}
  BY DEF Below
<1> QED BY <1>1, <1>2

\* The query for the tree returns every category that may be shown, once.
LEMMA ActiveCategories ==
    ASSUME TreeInv, NEW l
    PROVE  LET V == {c \in DOMAIN categories : IsShownCategory(c, l)}
               rows == FindActiveCategories(l)
           IN  IsFiniteSet(V) /\ V \in SUBSET Nat /\ Range(rows) = V /\ Len(rows) = Cardinality(V)
<1> DEFINE V == {c \in DOMAIN categories : IsShownCategory(c, l)}
           rows == FindActiveCategories(l)
           sort == [c \in V |-> categories[c].sort]
           Before(x) == {y \in V : \/ categories[y].sort < categories[x].sort
                                   \/ categories[y].sort = categories[x].sort /\ y < x}
<1>1. DOMAIN categories = 1..Len(categories) /\ Len(categories) \in Nat
  BY LenProperties DEF TreeInv, IsSeq
<1>2. IsFiniteSet(V) /\ V \in SUBSET Nat
  <2>1. IsFiniteSet(DOMAIN categories)
    BY <1>1, FS_Interval
  <2>2. V \in SUBSET DOMAIN categories
    OBVIOUS
  <2> HIDE DEF V
  <2> QED BY <1>1, <2>1, <2>2, FS_Subset
<1>3. sort \in [V -> Int]
  BY DEF TreeInv
<1>4. PICK R : /\ IsOrder(R, V)
               /\ \A x \in V : Below(V, R, x) = {y \in V : sort[y] < sort[x] \/ (sort[y] = sort[x] /\ y < x)}
  <2> HIDE DEF V, sort
  <2> QED BY <1>2, <1>3, SortIsNth
<1>5. rows = [n \in 1..Cardinality(V) |-> CHOOSE x \in V : Cardinality(Before(x)) = n - 1]
  BY Zenon DEF FindActiveCategories, Sorted
<1>6. ASSUME NEW x \in V PROVE Before(x) = Below(V, R, x)
  <2>1. \A y \in V : sort[y] = categories[y].sort
    BY Zenon
  <2> HIDE DEF V, sort
  <2> QED BY <1>4, <2>1
<1>7. rows = Nth(V, R)
  <2> HIDE DEF V, rows, Before
  <2> QED BY <1>5, <1>6 DEF Nth
<1>8. /\ Cardinality(V) \in Nat /\ rows \in [1..Cardinality(V) -> V]
      /\ \A x \in V : \E n \in 1..Cardinality(V) : rows[n] = x
  <2> HIDE DEF V, rows
  <2> QED BY <1>2, <1>4, <1>7, NthHasAll
<1> HIDE DEF V, rows
<1>9. Range(rows) = V
  BY <1>8 DEF Range
<1>10. Len(rows) = Cardinality(V)
  BY <1>8
<1> QED BY <1>2, <1>9, <1>10 DEF V, rows

\* The tree has a category if and only if it and all its ancestors may be shown.
LEMMA TreeHasAll ==
    ASSUME TreeInv, NEW V \in SUBSET DOMAIN categories, IsFiniteSet(V),
           NEW level, IsLevels(level, V, Cardinality(V) + 1)
    PROVE  UNION {level[n] : n \in 1..Cardinality(V) + 1} = {c \in DOMAIN categories : Ancestors[c] \union {c} \subseteq V}
<1>n. PICK n : n = Cardinality(V)
  OBVIOUS
<1>c. PICK len : len = Len(categories)
  OBVIOUS
<1>1. n \in Nat /\ len \in Nat /\ DOMAIN categories = 1..len
  BY <1>n, <1>c, FS_CardinalityType, LenProperties DEF TreeInv, IsSeq
<1>2. \A i \in 1..n + 1 : level[i] = Hanging(V, level, i)
  BY <1>n DEF IsLevels
<1>3. \A c \in 1..len :
          /\ categories[c].parent \in 0..c - 1
          /\ Ancestors[c] = IF categories[c].parent = 0 THEN {}
                            ELSE {categories[c].parent} \union Ancestors[categories[c].parent]
  BY <1>1, AncestorsAre DEF TreeInv
<1> DEFINE Shows(c) == Ancestors[c] \union {c} \subseteq V
\* Whatever hangs in the tree may be shown with its ancestors.
<1>4. \A i \in 1..n + 1 : \A c \in level[i] : c \in V /\ Shows(c)
  <2> DEFINE S == {i \in 1..n + 1 : \A c \in level[i] : c \in V /\ Shows(c)}
  <2>1. 1 \in S
    <3>1. 1 \in 1..n + 1 /\ level[1] = {c \in V : categories[c].parent = 0}
      <4>1. 1 \in 1..n + 1
        BY <1>1
      <4> QED BY <1>2, <4>1, Zenon DEF Hanging
    <3>2. \A c \in V : c \in 1..len
      BY <1>1
    <3> QED BY <1>3, <3>1, <3>2
  <2>2. ASSUME NEW i \in 1..n + 1, i \in S, i + 1 <= n + 1 PROVE i + 1 \in S
    <3>1. i + 1 \in 1..n + 1 /\ level[i + 1] = {c \in V : categories[c].parent \in level[i]}
      <4>1. i + 1 \in 1..n + 1 /\ i + 1 # 1 /\ (i + 1) - 1 = i
        BY <1>1, <2>2
      <4>2. Hanging(V, level, i + 1) = {c \in V : categories[c].parent \in level[(i + 1) - 1]}
        BY <4>1, Zenon DEF Hanging
      <4>3. level[i + 1] = Hanging(V, level, i + 1)
        BY <1>2, <4>1
      <4>4. level[(i + 1) - 1] = level[i]
        BY <4>1, Zenon
      <4> QED BY <4>1, <4>2, <4>3, <4>4, Zenon
    <3>2. ASSUME NEW c \in level[i + 1] PROVE c \in V /\ Shows(c)
      <4>1. c \in V /\ c \in 1..len /\ categories[c].parent \in level[i]
        BY <1>1, <3>1, <3>2
      <4>2. categories[c].parent \in V /\ Shows(categories[c].parent)
        BY <2>2, <4>1
      <4> QED BY <1>3, <4>1, <4>2
    <3> QED BY <3>1, <3>2
  <2>3. 1..n + 1 \subseteq S
    <3>1. n + 1 \in Nat
      BY <1>1
    <3> HIDE DEF S
    <3> QED BY <2>1, <2>2, <3>1, NumbersUpTo
  <2> QED BY <2>3
\* The number of its ancestors says at which level a category hangs.
<1>a. \A c \in 1..len : Ancestors[c] \subseteq 1..c - 1
  BY <1>1, AncestorsAreOlder
<1>5. \A c \in 1..len : Shows(c) => c \in level[Cardinality(Ancestors[c]) + 1]
  <2> DEFINE Hangs(c) == Shows(c) => c \in level[Cardinality(Ancestors[c]) + 1]
             S == {k \in Nat : \A c \in 1..len : c <= k => Hangs(c)}
  <2>1. 0 \in S
    OBVIOUS
  <2>2. ASSUME NEW k \in Nat, k \in S, NEW c \in 1..len, c = k + 1 PROVE Hangs(c)
    <3>p. PICK d : d = categories[c].parent
      OBVIOUS
    <3>1. d \in 0..c - 1 /\ d \in Nat /\ c \in Nat
      <4>1. d \in 0..c - 1 /\ c \in 1..len
        BY <1>3, <3>p, Zenon
      <4> QED BY <1>1, <4>1
    <3>2. CASE d = 0
      <4>1. Ancestors[c] = {} /\ Cardinality(Ancestors[c]) = 0
        BY <1>3, <3>2, <3>p, FS_EmptySet
      <4>2. 1 \in 1..n + 1 /\ level[1] = {a \in V : categories[a].parent = 0}
        <5>1. 1 \in 1..n + 1
          BY <1>1
        <5> QED BY <1>2, <5>1, Zenon DEF Hanging
      <4> QED BY <3>2, <3>p, <4>1, <4>2
    <3>3. CASE d # 0
      <4>1. d \in 1..len /\ d <= k /\ Hangs(d)
        BY <1>1, <2>2, <3>1, <3>3
      <4>2. Ancestors[c] = {d} \union Ancestors[d]
        BY <1>3, <3>3, <3>p
      <4>3. Ancestors[d] \subseteq 1..d - 1 /\ d \notin Ancestors[d]
        BY <1>a, <3>1, <4>1
      <4>5. IsFiniteSet(Ancestors[d])
        <5>1. IsFiniteSet(1..d - 1)
          BY <3>1, FS_Interval
        <5> QED BY <4>3, <5>1, FS_Subset
      <4>6. Cardinality(Ancestors[d]) \in Nat /\ Cardinality(Ancestors[c]) = Cardinality(Ancestors[d]) + 1
        <5>1. Cardinality(Ancestors[d] \union {d}) = Cardinality(Ancestors[d]) + 1
          BY <4>3, <4>5, FS_AddElement
        <5>2. Ancestors[d] \union {d} = Ancestors[c]
          BY <4>2
        <5> QED BY <4>5, <5>1, <5>2, FS_CardinalityType
      <4>7. ASSUME Shows(c) PROVE c \in level[Cardinality(Ancestors[c]) + 1]
        <5>1. Shows(d) /\ d \in level[Cardinality(Ancestors[c])]
          BY <4>1, <4>2, <4>6, <4>7
        <5>2. Cardinality(Ancestors[c]) <= n
          BY <1>n, <4>7, FS_Subset
        <5>3. Cardinality(Ancestors[c]) + 1 \in 1..n + 1 /\ Cardinality(Ancestors[c]) + 1 # 1
          BY <1>1, <4>6, <5>2
        <5>4. level[Cardinality(Ancestors[c]) + 1] = {a \in V : categories[a].parent \in level[Cardinality(Ancestors[c])]}
          <6>1. (Cardinality(Ancestors[c]) + 1) - 1 = Cardinality(Ancestors[c])
            BY <4>6
          <6>2. Hanging(V, level, Cardinality(Ancestors[c]) + 1) =
                    {a \in V : categories[a].parent \in level[(Cardinality(Ancestors[c]) + 1) - 1]}
            BY <5>3, Zenon DEF Hanging
          <6>3. level[Cardinality(Ancestors[c]) + 1] = Hanging(V, level, Cardinality(Ancestors[c]) + 1)
            BY <1>2, <5>3, Zenon
          <6> QED BY <6>1, <6>2, <6>3, Zenon
        <5> QED BY <3>p, <4>7, <5>1, <5>4
      <4> QED BY <4>7
    <3> QED BY <3>2, <3>3
  <2>3. ASSUME NEW k \in Nat, k \in S PROVE k + 1 \in S
    <3> SUFFICES ASSUME NEW c \in 1..len, c <= k + 1 PROVE Hangs(c)
      OBVIOUS
    <3>1. CASE c <= k
      BY <2>3, <3>1
    <3>2. CASE c = k + 1
      <4> HIDE DEF Hangs, S
      <4> QED BY <2>2, <2>3, <3>2
    <3>3. c <= k \/ c = k + 1
      BY <1>1
    <3> QED BY <3>1, <3>2, <3>3
  <2>4. len \in S
    <3> HIDE DEF S
    <3> QED BY <1>1, <2>1, <2>3, AllNumbers
  <2> QED BY <2>4
<1>6. ASSUME NEW c \in 1..len, Shows(c) PROVE Cardinality(Ancestors[c]) + 1 \in 1..n + 1
  <2>1. Ancestors[c] \in SUBSET V
    BY <1>6
  <2>2. IsFiniteSet(Ancestors[c]) /\ Cardinality(Ancestors[c]) <= n
    BY <1>n, <2>1, FS_Subset
  <2>3. Cardinality(Ancestors[c]) \in Nat
    BY <2>2, FS_CardinalityType
  <2> QED BY <1>1, <2>2, <2>3
<1>7. UNION {level[i] : i \in 1..n + 1} = {c \in 1..len : Shows(c)}
  <2>1. \A i \in 1..n + 1 : \A c \in level[i] : c \in 1..len /\ Shows(c)
    BY <1>1, <1>4
  <2> HIDE DEF Shows
  <2> QED BY <1>5, <1>6, <2>1
<1> QED BY <1>1, <1>7, <1>n

\* The tree that is shown has every category that may be, and no other.
LEMMA TreesAreComplete ==
    ASSUME TreeInv
    PROVE  TreeIsComplete
<1> SUFFICES ASSUME NEW l \in Languages
             PROVE  CategoryTree(FindActiveCategories(l)) =
                        {c \in DOMAIN categories : \A d \in Ancestors[c] \union {c} : IsShownCategory(d, l)}
  BY Zenon DEF TreeIsComplete
<1> DEFINE V == {c \in DOMAIN categories : IsShownCategory(c, l)}
           rows == FindActiveCategories(l)
<1>1. IsFiniteSet(V) /\ V \in SUBSET Nat /\ Range(rows) = V /\ Len(rows) = Cardinality(V)
  BY ActiveCategories
<1>m. PICK m : m = Len(rows) + 1
  OBVIOUS
<1>w. PICK W : W = Range(rows)
  OBVIOUS
<1>l. PICK level : level = CHOOSE h : IsLevels(h, W, m)
  OBVIOUS
<1>3. CategoryTree(rows) = UNION {level[n] : n \in 1..m}
  <2> HIDE DEF rows
  <2> QED BY <1>m, <1>w, <1>l DEF CategoryTree, IsLevels, Hanging
<1>4. W = V /\ m = Cardinality(V) + 1 /\ m \in Nat
  <2> HIDE DEF V, rows
  <2> QED BY <1>1, <1>m, <1>w, FS_CardinalityType
<1>5. IsLevels(level, W, m)
  BY <1>4, <1>l, LevelsAre
<1>6. W \in SUBSET DOMAIN categories /\ IsFiniteSet(W) /\ m = Cardinality(W) + 1
  BY <1>1, <1>4
<1>7. CategoryTree(rows) = {c \in DOMAIN categories : Ancestors[c] \union {c} \subseteq V}
  <2>1. IsLevels(level, W, Cardinality(W) + 1)
    BY <1>5, <1>6, Zenon
  <2>2. UNION {level[n] : n \in 1..Cardinality(W) + 1} = {c \in DOMAIN categories : Ancestors[c] \union {c} \subseteq W}
    BY <1>6, <2>1, TreeHasAll
  <2> HIDE DEF V, rows
  <2> QED BY <1>3, <1>4, <1>6, <2>2, Zenon
<1>8. ASSUME NEW c \in DOMAIN categories
      PROVE  Ancestors[c] \union {c} \subseteq V <=> \A d \in Ancestors[c] \union {c} : IsShownCategory(d, l)
  <2>1. DOMAIN categories = 1..Len(categories) /\ Len(categories) \in Nat
    BY LenProperties DEF TreeInv, IsSeq
  <2>2. Ancestors[c] \subseteq 1..c - 1
    BY AncestorsAreOlder
  <2>3. Ancestors[c] \union {c} \subseteq DOMAIN categories
    BY <2>1, <2>2
  <2> QED BY <2>3
<1> QED BY <1>7, <1>8

\* What is computed from rows is what it should be: the tree is complete, the closest
\* books are recommended, and the totals of lists are what their pages show.
THEOREM QueriesComeOutRight == Spec => []QueriesAreRight
<1>1. ShelfInv /\ KeysInv /\ [CatalogueNext]_catalogueVars => KeysInv'
  BY KeysStep
<1>2. ShelfInv /\ ShelfInv' /\ KeysInv /\ SlugInv /\ [CatalogueNext]_catalogueVars => SlugInv'
  BY SlugStep
<1>3. ShelfInv /\ KeysInv /\ SlugInv => QueriesAreRight
  <2> SUFFICES ASSUME BooksInv, RowsInv, TreeInv, TextsInv PROVE QueriesAreRight
    BY DEF ShelfInv, KeysInv, SlugInv
  <2> QED BY TreesAreComplete, BestAreChosen, PagesAreCounted, AdminListsAreCounted, Zenon DEF QueriesAreRight
<1> QED BY <1>1, <1>2, <1>3, KeysBegin, SlugBegins, ShelfHolds, PTL DEF Spec
=============================================================================
