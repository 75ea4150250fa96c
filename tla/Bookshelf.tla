------------------------------ MODULE Bookshelf ------------------------------
(***************************************************************************)
(* The catalogue as a whole: readers behind the cache and admins, over one *)
(* database and one Redis.                                                 *)
(***************************************************************************)
EXTENDS CatalogueDesk

Spec == CatalogueInit /\ [][CatalogueNext]_catalogueVars

Variant == [isbn : STRING, price : Int, active : BOOLEAN]

\* Types of what requests carry, and the keys of the catalogue they begin with.
ASSUME BodyTypes ==
    /\ \A body \in BookBodies : body.isbns \in Seq(STRING)
    /\ \A body \in UpdateBodies : \A v \in body.variants : v.price \in Int /\ v.active \subseteq BOOLEAN
    /\ \A body \in CategoryBodies : body.parent \in Nat /\ body.sort \in Int
    /\ Prices \subseteq Int

ASSUME InitialKeys ==
    /\ \A b \in DOMAIN InitialBooks :
          /\ InitialBooks[b].categories \subseteq DOMAIN InitialCategories
          /\ InitialBooks[b].variants \in Seq(Variant)
    /\ \A a, b \in DOMAIN InitialBooks :
          \A m \in DOMAIN InitialBooks[a].variants, n \in DOMAIN InitialBooks[b].variants :
              InitialBooks[a].variants[m].isbn = InitialBooks[b].variants[n].isbn => a = b /\ m = n
    /\ InitialCategories \in Seq(Range(InitialCategories))
    /\ \A c \in DOMAIN InitialCategories :
          InitialCategories[c].parent \in 0..c - 1 /\ InitialCategories[c].sort \in Int

\* The slugs the catalogue begins with are there, once in each language; requests
\* bring titles; and the decimal digits of the numbers that may be appended to a
\* slug differ.  A book is created by a request, so these are all that there may be.
ASSUME SlugKeys ==
    /\ IsFiniteSet(Languages) /\ IsFiniteSet(Admins)
    /\ Titles \subseteq Seq(Token) /\ \A body \in BookBodies : body.title \in Seq(Token)
    /\ \A body \in UpdateBodies : \A l \in DOMAIN body.titles : body.titles[l] \in Seq(Token)
    /\ \A b \in DOMAIN InitialBooks :
          InitialBooks[b].texts \in [Languages -> [title : Seq(Token), slug : Seq(STRING), fresh : BOOLEAN]]
    /\ \A a, b \in DOMAIN InitialBooks : \A l \in Languages :
          LET x == InitialBooks[a].texts[l]
              y == InitialBooks[b].texts[l]
          IN  x # NoText => x.slug # << >> /\ (y # NoText /\ x.slug = y.slug => a = b)
    /\ \A m, n \in 1..Len(InitialBooks) + Cardinality(Admins) + 1 :
          ToString(m) \in STRING /\ (ToString(m) = ToString(n) => m = n)

TypeOK ==
    /\ \A b \in DOMAIN books :
          /\ books[b].publisher \in publishers /\ {a.name : a \in books[b].authors} \subseteq authors
          /\ books[b].categories \subseteq DOMAIN categories
          /\ books[b].variants \in Seq(Variant)
    /\ \A a, b \in DOMAIN books : \A m \in DOMAIN books[a].variants, n \in DOMAIN books[b].variants :
          books[a].variants[m].isbn = books[b].variants[n].isbn => a = b /\ m = n
    /\ \A c \in DOMAIN categories : categories[c].parent \in 0..c - 1
    /\ now \in 0..MaxClock /\ \A ns \in DOMAIN version : version[ns] \in Nat \ {0}

(* ------------------------------- The cache ------------------------------ *)

Reads == {r \in Visits : visit[r].pc = "served"}

ShownBooks(r) ==
    CASE visit[r].ns.of \in {"home", "list"} -> {c.book : c \in Range(visit[r].page.cards)}
      [] visit[r].ns.of \in {"detail", "slug"} ->
            {visit[r].page.book} \union {c.book : c \in Range(visit[r].page.recommend)}
      [] OTHER -> {}

\* Who asks for the page of a book after an update of it was announced to the
\* cache is not shown the book as it was before, although pages are computed,
\* stored and bumped by requests in any order: a page that is stored late goes
\* under the version it was begun with.  The exception is a version that two
\* readers initialise at once: the second SET takes it back.
\* A deleted book disappears from every page, recommendations included, although
\* deleteBook bumps none: nobody is shown it later than the lifetime of a page
\* after the deletion, not counting how long the request took that stored it.
ReadersAreCurrent ==
    \A r \in Reads :
        /\ visit[r].ns.of = "detail" /\ visit[r].ns \notin rewound
               => visit[r].page.rev >= visit[r].floor
        /\ \A b \in ShownBooks(r) :
               books[b].deleted => visit[r].at <= books[b].deletedAt + TTL + visit[r].lag

(* ------------------------------- The books ------------------------------ *)

SlugIsContended(b, l) ==
    \E a \in DOMAIN books :
        /\ books[a].texts[l].slug = books[b].texts[l].slug
        /\ ~books[a].texts[l].fresh \/ (a # b /\ ~books[b].texts[l].fresh)

\* A book that a list of the shop, of a publisher or of an author shows with a
\* price can be opened by the slug on its card, and the slug opens no other book,
\* unless its slug was chosen while another request chose or wrote one: the
\* search for a free slug and the insert have no key to rely on.
CardLeadsToBook ==
    \A l \in Languages : \A b \in DOMAIN books :
        IsListed(b, l, 0) \/ (IsActiveIn(b, l) /\ MinPrice(b) # Unpriced)
            => FindBookDetailBySlug(books[b].texts[l].slug, l) = b \/ SlugIsContended(b, l)

\* What a book was when it came into the catalogue.
Birth(b) ==
    IF b \in DOMAIN InitialBooks
    THEN [active |-> InitialBooks[b].active, deleted |-> FALSE, pageCount |-> InitialBooks[b].pageCount,
          texts |-> InitialBooks[b].texts]
    ELSE [active |-> FALSE, deleted |-> FALSE, pageCount |-> 0, texts |-> [l \in Languages |-> NoText]]

Columns(shot) == <<shot.active, shot.deleted, shot.pageCount>>

\* The later snapshot has the texts of the earlier one, and perhaps others.
HasTexts(later, earlier) ==
    \A l \in Languages : earlier.texts[l] # NoText => later.texts[l] = earlier.texts[l]

\* The request of the i-th row had read the book when all rows before were written.
InTime(rows, i) == i = 0 \/ rows[i].rows = i - 1

\* A snapshot goes on where the i-th row of a book ended.
GoesOn(b, rows, i, shot) ==
    LET told == IF i = 0 THEN Birth(b) ELSE rows[i].after IN
    /\ Columns(shot) = Columns(told)
    /\ InTime(rows, i) => HasTexts(shot, told)

\* The audit rows of a book tell one story of its columns and titles: each begins
\* where the one before it ended, unless its request had read the book before that
\* one was written, and the book is as the last one tells.  A new translation has a
\* row of its own, so that there may be more texts than were told; a row whose
\* request was late tells the columns right, but texts of an old snapshot.  Of the
\* variants the rows tell no story: see Snapshot.
AuditChain ==
    \A b \in DOMAIN books :
        LET rows == RowsOf(b) IN
        /\ GoesOn(b, rows, Len(rows), Snapshot(b))
        /\ \A i \in DOMAIN rows : InTime(rows, i) => GoesOn(b, rows, i - 1, rows[i].before)

\* A request has found the book and is going to write to it.
Edits(r, b) == visit[r].pc \in {"update", "delete", "translate"} /\ visit[r].book = b

\* A deleted book stays deleted, no request begins to work on it, and its columns
\* and texts stay as they are but for requests that were at work on it when it was
\* deleted: updateBook looks at deletedAt outside its transaction.  This is not so
\* of its variants, which are written by their ids without a look at the book, by
\* updatePriceVariant and by updates of other books.
DeletedIsFinal ==
    [][\A b \in DOMAIN books : books[b].deleted =>
          /\ books'[b].deleted
          /\ \A r \in Visits : Edits(r, b)' => Edits(r, b)
          /\ Snapshot(b)' # Snapshot(b) => \E r \in Visits : Edits(r, b)]_catalogueVars

(* -------------------------------- Queries ------------------------------- *)

Ancestors[c \in 1..Len(categories)] ==
    IF categories[c].parent = 0 THEN {}
    ELSE {categories[c].parent} \union Ancestors[categories[c].parent]

\* Every active category all of whose ancestors are active and translated, in
\* whatever order the rows come.
TreeIsComplete ==
    \A l \in Languages :
        CategoryTree(FindActiveCategories(l)) =
            {c \in DOMAIN categories : \A d \in Ancestors[c] \union {c} : IsShownCategory(d, l)}

\* No book that a page leaves out is closer to its book than one it recommends,
\* and it leaves out none as long as there is room.
BestIsRecommended ==
    \A b \in DOMAIN books :
        LET cats == books[b].categories
            alike == FindBookAlikeCategory(b, cats)
            best == RecommendIds(b, cats)
        IN  /\ \A a \in alike \ Range(best), i \in Range(best) : ~IsCloser(a, i, cats)
            /\ Len(best) < MaxRecommended => alike \subseteq Range(best)

\* The pages that a total promises, and what is seen by who turns them.
PagesFor(total) == 1..(total + PageSize - 1) \div PageSize

Turned(Page(_), total) == UNION {Range(Page(p)) : p \in PagesFor(total)}

\* It is as many books.
AddsUp(Page(_), total) == Cardinality(Turned(Page, total)) = total

\* A keyword list shows the books of the ids it has found.  A page with more ids
\* than findBooksByIds returns by default shows as many as that and no more, so
\* that the pages add up only when none of them is longer than that.
ShowsUp(Ids(_), total) ==
    /\ AddsUp(Ids, total)
    /\ (\A p \in PagesFor(total) : Len(Ids(p)) <= ByIdsLimit) =>
           AddsUp(LAMBDA p : FindBooksByIds(Ids(p)), total)
    /\ \A p \in PagesFor(total) :
          LET n == Len(Ids(p)) IN
          Len(FindBooksByIds(Ids(p))) = IF n < ByIdsLimit THEN n ELSE ByIdsLimit

\* The lists of the admin tell totals of other things than their rows.  The list of
\* books has every book with a text and an author, deleted ones too.  The list of
\* variants has every book that is not deleted, and its total is of their variants.
AdminListsAreWhole ==
    /\ \A l \in Languages :
          AddsUp(LAMBDA p : GetBooks(l, p).rows,
                 Cardinality({b \in DOMAIN books : IsTranslated(b, l) /\ books[b].authors # {}}))
    /\ AddsUp(LAMBDA p : GetBookVariants(p).rows, CountBooks)
    /\ Cardinality(VariantsOf(Turned(LAMBDA p : GetBookVariants(p).rows, CountBooks))) = GetBookVariants(1).total

\* Both queries agree, for the lists of the shop, the search, publishers, authors
\* and the admin's search.
PagesAddUp ==
    \A l \in Languages :
        /\ \A c \in 0..Len(categories) : AddsUp(LAMBDA p : FindBooksForList(l, c, p), CountBooksForList(l, c))
        /\ \A c \in DOMAIN categories, w \in Words :
              ShowsUp(LAMBDA p : FindBookIncludeCategory(l, c, w, p), CountBookIncludeCategory(l, c, w))
        /\ \A w \in Words :
              /\ ShowsUp(LAMBDA p : FindBookNeIncludeCategory(l, w, p), CountBookNeIncludeCategory(l, w))
              /\ AddsUp(LAMBDA p : ListBooks(l, w, p).rows, ListBooks(l, w, 1).total)
        /\ \A n \in Names :
              /\ AddsUp(LAMBDA p : FindBooksByPublisher(n, l, p), CountBooksByPublisher(n, l))
              /\ AddsUp(LAMBDA p : FindBooksByAuthor(n, l, p), CountBooksByAuthor(n, l))

\* What is computed from rows is what it should be, in every state admins can
\* bring about: the category tree has every category that may be shown and no
\* other, recommendations are the closest books there are, and the total of a
\* list, counted by a query of its own, is what its pages show, unless it is a
\* keyword list with pages longer than ByIdsLimit or one of the two lists of the
\* admin whose totals are of something else.
QueriesAreRight == TreeIsComplete /\ BestIsRecommended /\ PagesAddUp /\ AdminListsAreWhole
==============================================================================
