------------------------------ MODULE Catalogue ------------------------------
(***************************************************************************)
(* The tables of the catalogue, what the public and the admin queries make *)
(* of them, and the pages the mappers build.  A table is a sequence in the *)
(* order of creation; a row's position is its id.                          *)
(***************************************************************************)
EXTENDS Integers, Sequences, FiniteSets, SequencesExt

CONSTANTS
    Languages,         \* codes of the active languages
    DefaultLanguage,   \* the one with the smallest id
    Titles,            \* what a title may be: a sequence of tokens
    PageSize,          \* the limit of a page
    ByIdsLimit,        \* the default limit of findBooksByIds
    MaxRecommended     \* how many books a detail page recommends

VARIABLES books, categories, publishers, authors, audits

tables == <<books, categories, publishers, authors, audits>>

\* A token is a run of letters and digits, written with or without marks and
\* capitals, or (base "") something else.
Token == [base : STRING, plain : BOOLEAN]

ASSUME CatalogueConstants ==
    /\ DefaultLanguage \in Languages
    /\ \A title \in Titles : \A i \in DOMAIN title : title[i] \in Token
    /\ {PageSize, ByIdsLimit, MaxRecommended} \subseteq Nat \ {0}

\* The price of a variant without one; an INSERT sets none.
Unpriced == -1

\* A translation; fresh (ghost): no other was committed while its slug was chosen.
NoText == [title |-> << >>, slug |-> << >>, fresh |-> TRUE]

\* A code that is not an active language stands for the default one.
ResolveLanguage(code) == IF code \in Languages THEN code ELSE DefaultLanguage

(* -------------------------------- Lists --------------------------------- *)

\* The rows of S in an order: before the n-th come n - 1.
Sorted(S, Before(_, _)) ==
    [n \in 1..Cardinality(S) |-> CHOOSE x \in S : Cardinality({y \in S : Before(y, x)}) = n - 1]

OldestFirst(S) == Sorted(S, LAMBDA a, b : a < b)

\* The last one created first.
NewestFirst(S) == Sorted(S, LAMBDA a, b : a > b)

\* The elements of s at some places, in their order.
Kept(s, places) == LET kept == OldestFirst(places) IN [n \in DOMAIN kept |-> s[kept[n]]]

(* -------------------------------- Slugs --------------------------------- *)

Bases(title) == [i \in DOMAIN title |-> title[i].base]

\* Marks, capitals and whatever is no letter or digit go; the rest is joined.
GenerateSlug(title) == Kept(Bases(title), {i \in DOMAIN title : title[i].base # ""})

CountTexts == Cardinality({t \in (DOMAIN books) \X Languages : books[t[1]].texts[t[2]] # NoText})

TakenSlugs(l) == {books[b].texts[l].slug : b \in DOMAIN books}

\* Mutant of the next one: the slug of the title as it is.
AnySlug(l, base) == base

\* The base, or the base with the first free suffix from 2 on.
BuildUniqueSlug(l, base) ==
    LET Candidate(n) == IF n = 1 THEN base ELSE Append(base, ToString(n))
        free == {n \in 1..Len(books) + 1 : Candidate(n) \notin TakenSlugs(l)}
    IN  Candidate(CHOOSE n \in free : \A m \in free : n <= m)

BaseSlug(title, id) ==
    IF GenerateSlug(title) = << >> THEN <<"book", ToString(id)>> ELSE GenerateSlug(title)

(* ----------------------------- Public queries --------------------------- *)

IsSellable(variant) == variant.active /\ variant.price > 0

Sellable(b) == {n \in DOMAIN books[b].variants : IsSellable(books[b].variants[n])}

\* Active, not deleted, and with a variant that is active and has a price.
IsVisible(b) == books[b].active /\ ~books[b].deleted /\ Sellable(b) # {}

IsTranslated(b, l) == books[b].texts[l] # NoText

\* buildBookListWhere: category 0 is none.
IsListed(b, l, c) ==
    IsVisible(b) /\ IsTranslated(b, l) /\ (c = 0 \/ c \in books[b].categories)

Take(rows, n) == SubSeq(rows, 1, IF n < Len(rows) THEN n ELSE Len(rows))

\* skip (page - 1) * limit, take limit.
PageOf(rows, page) ==
    LET taken == Take(rows, page * PageSize) IN SubSeq(taken, (page - 1) * PageSize + 1, Len(taken))

PriceOf(b, n) == books[b].variants[n].price

\* orderBy price asc, id asc, take 1.
CheapestVariant(b) ==
    CHOOSE n \in Sellable(b) : \A m \in Sellable(b) :
        PriceOf(b, n) < PriceOf(b, m) \/ (PriceOf(b, n) = PriceOf(b, m) /\ n <= m)

\* orderBy price desc, take 1: which of several is the database's choice.
DearestVariant(b) ==
    CHOOSE n \in Sellable(b) : \A m \in Sellable(b) : PriceOf(b, n) >= PriceOf(b, m)

CardOf(b, l, n) == [book |-> b, slug |-> books[b].texts[l].slug, price |-> PriceOf(b, n)]

ListCard(b, l) == CardOf(b, l, CheapestVariant(b))

HomeCard(b, l) == CardOf(b, l, CheapestVariant(b))

FindBooksForList(l, c, page) == PageOf(NewestFirst({b \in DOMAIN books : IsListed(b, l, c)}), page)

CountBooksForList(l, c) == Cardinality({b \in DOMAIN books : IsListed(b, l, c)})

FindCatalogHomeBooks(l) ==
    Take(OldestFirst({b \in DOMAIN books : IsListed(b, l, 0)}), 5 * PageSize)

\* Any page of a list, with its cards and the total.
ListPage(rows, l, total) == [cards |-> [i \in DOMAIN rows |-> ListCard(rows[i], l)], total |-> total]

(* --------------------------- Search by keyword -------------------------- *)

Mentions(b, l, word) == word \in Range(Bases(books[b].texts[l].title))

\* The relevance MySQL computes for words of more than 3 letters; LIKE gives 0.
Score(b, l, word) ==
    Cardinality({i \in DOMAIN books[b].texts[l].title : books[b].texts[l].title[i].base = word})

IsFound(b, l, c, word) == IsListed(b, l, c) /\ Mentions(b, l, word)

FindBookIncludeCategory(l, c, word, page) ==
    PageOf(Sorted({b \in DOMAIN books : IsFound(b, l, c, word)},
                  LAMBDA a, b : \/ Score(a, l, word) > Score(b, l, word)
                                \/ Score(a, l, word) = Score(b, l, word) /\ a > b), page)

CountBookIncludeCategory(l, c, word) ==
    Cardinality({b \in DOMAIN books : IsFound(b, l, c, word)})

FindBookNeIncludeCategory(l, word, page) == FindBookIncludeCategory(l, 0, word, page)

CountBookNeIncludeCategory(l, word) == CountBookIncludeCategory(l, 0, word)

\* The order of the ids is lost, and so is what exceeds the default limit.
FindBooksByIds(ids) ==
    Take(OldestFirst({b \in DOMAIN books : b \in Range(ids) /\ IsVisible(b)}), ByIdsLimit)

DearCards(rows, l) == [i \in DOMAIN rows |-> CardOf(rows[i], l, DearestVariant(rows[i]))]

(* ------------------------------ Detail pages ---------------------------- *)

\* The first row the database finds.
FirstOf(S) == IF S = {} THEN 0 ELSE CHOOSE b \in S : \A a \in S : b <= a

FindBookDetailById(b) == IF b \in DOMAIN books /\ IsVisible(b) THEN b ELSE 0

FindBookDetailBySlug(slug, l) ==
    FirstOf({b \in DOMAIN books : IsVisible(b) /\ IsTranslated(b, l) /\ books[b].texts[l].slug = slug})

DetailPage(b, l, recommend) ==
    [book |-> b, rev |-> books[b].rev, slug |-> books[b].texts[l].slug,
     prices |-> {PriceOf(b, n) : n \in Sellable(b)}, recommend |-> recommend]

\* Other visible books that share a category.
FindBookAlikeCategory(b, cats) ==
    {a \in DOMAIN books : a # b /\ IsVisible(a) /\ books[a].categories \cap cats # {}}

\* a is closer to cats than b: intersection over union, compared crosswise.
IsCloser(a, b, cats) ==
    Cardinality(books[a].categories \cap cats) * Cardinality(books[b].categories \union cats)
      > Cardinality(books[b].categories \cap cats) * Cardinality(books[a].categories \union cats)

\* The sort is stable: equal scores keep the order of the rows, which come by id.
ClosestFirst(b, cats) ==
    Sorted(FindBookAlikeCategory(b, cats),
           LAMBDA x, y : IsCloser(x, y, cats) \/ (~IsCloser(y, x, cats) /\ x < y))

RecommendIds(b, cats) == Take(ClosestFirst(b, cats), MaxRecommended)

\* The cards of ids, in the order of ids; what is not visible any more is left out.
PickCards(ids, l) ==
    LET rows == Range(FindBooksByIds(ids))
    IN  DearCards(Kept(ids, {i \in DOMAIN ids : ids[i] \in rows}), l)

(* ------------------------------- Categories ----------------------------- *)

IsShownCategory(c, l) == categories[c].active /\ l \in categories[c].languages

\* orderBy sortOrder asc, id asc.
FindActiveCategories(l) ==
    Sorted({c \in DOMAIN categories : IsShownCategory(c, l)},
           LAMBDA c, d : \/ categories[c].sort < categories[d].sort
                         \/ categories[c].sort = categories[d].sort /\ c < d)

FindCategoryBySlug(slug, l) ==
    FirstOf({c \in DOMAIN categories : IsShownCategory(c, l) /\ categories[c].slug = slug})

\* Mutant of the next one: rows are attached in one pass, and a child that is
\* sorted before its parent finds none.
OnePassTree(rows) ==
    LET tree[n \in 0..Len(rows)] ==
            IF n = 0 THEN {}
            ELSE IF categories[rows[n]].parent \in tree[n - 1] \union {0}
                 THEN tree[n - 1] \union {rows[n]} ELSE tree[n - 1]
    IN  tree[Len(rows)]

\* buildCatalogCategoryTree: a row without a parent is a root, any other is
\* attached to the node of its parent, and lost when that is not among the rows.
\* The categories that hang under a root, level by level.
CategoryTree(rows) ==
    LET level[n \in 1..Len(rows) + 1] ==
            IF n = 1 THEN {c \in Range(rows) : categories[c].parent = 0}
            ELSE {c \in Range(rows) : categories[c].parent \in level[n - 1]}
    IN  UNION {level[n] : n \in 1..Len(rows) + 1}

(* --------------------- Books of a publisher or an author ---------------- *)

\* every(price > 0): a variant without a price does not count against it, and a
\* book without variants passes.
EveryPricePositive(b) ==
    \A n \in DOMAIN books[b].variants : PriceOf(b, n) > 0 \/ PriceOf(b, n) = Unpriced

MinPrice(b) == IF Sellable(b) = {} THEN Unpriced ELSE PriceOf(b, CheapestVariant(b))

IsActiveIn(b, l) == books[b].active /\ ~books[b].deleted /\ IsTranslated(b, l) /\ EveryPricePositive(b)

FindBooksByPublisher(name, l, page) ==
    PageOf(NewestFirst({b \in DOMAIN books : IsActiveIn(b, l) /\ books[b].publisher = name}), page)

CountBooksByPublisher(name, l) ==
    Cardinality({b \in DOMAIN books : IsActiveIn(b, l) /\ books[b].publisher = name})

FindBooksByAuthor(name, l, page) ==
    PageOf(NewestFirst({b \in DOMAIN books : IsActiveIn(b, l) /\ \E a \in books[b].authors : a.name = name}), page)

CountBooksByAuthor(name, l) ==
    Cardinality({b \in DOMAIN books : IsActiveIn(b, l) /\ \E a \in books[b].authors : a.name = name})

(* ------------------------------ Admin queries --------------------------- *)

\* Mutant of the next one: deletedAt is not looked at.
FindAnyBook(b) == b \in DOMAIN books

FindBookById(b) == b \in DOMAIN books /\ ~books[b].deleted

\* buildBookListWhere of the admin, without a phrase.
IsKept(b) == ~books[b].deleted

CountBooks == Cardinality({b \in DOMAIN books : IsKept(b)})

\* A join of texts and authors that does not look at deletedAt, in no order (here,
\* that of the ids).
FindBooks(l, page) ==
    PageOf(OldestFirst({b \in DOMAIN books : IsTranslated(b, l) /\ books[b].authors # {}}), page)

GetBooks(l, page) == [rows |-> FindBooks(l, page), total |-> CountBooks]

FindBookVariants(page) == PageOf(NewestFirst({b \in DOMAIN books : IsKept(b)}), page)

VariantsOf(B) == UNION {{b} \X DOMAIN books[b].variants : b \in B}

CountBookVariants == Cardinality(VariantsOf({b \in DOMAIN books : IsKept(b)}))

\* Its pages are of books, its total is of their variants.
GetBookVariants(page) == [rows |-> FindBookVariants(page), total |-> CountBookVariants]

FindBooksDetailed(l, word, page) ==
    PageOf(NewestFirst({b \in DOMAIN books : ~books[b].deleted /\ IsTranslated(b, l) /\ Mentions(b, l, word)}), page)

CountBooksDetailed(l, word) ==
    Cardinality({b \in DOMAIN books : ~books[b].deleted /\ IsTranslated(b, l) /\ Mentions(b, l, word)})

\* The admin's search.
ListBooks(l, word, page) == [rows |-> FindBooksDetailed(l, word, page), total |-> CountBooksDetailed(l, word)]

CountActiveBooks == Cardinality({b \in DOMAIN books : ~books[b].deleted /\ books[b].active})

Stats ==
    [totalBooks |-> CountBooks, activeBooks |-> CountActiveBooks,
     totalAuthors |-> Cardinality(authors), totalPublishers |-> Cardinality(publishers)]
=============================================================================
