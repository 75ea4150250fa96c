--------------------------- MODULE CatalogueVisits ---------------------------
(***************************************************************************)
(* Requests over the catalogue: readers who are served through the         *)
(* versioned cache of CacheVersionService, and admins who change books,    *)
(* names and categories.  One action per awaited statement; a transaction  *)
(* reads a snapshot when it begins and writes when it commits.             *)
(***************************************************************************)
EXTENDS Catalogue

CONSTANTS
    Readers, Admins,   \* requests, each numbered in the order in which they begin
    Names,             \* names of authors and publishers
    Words,             \* what readers search for
    Targets,           \* ids of the books that requests name
    Spoken,            \* the languages readers ask for
    CategorySlugs,     \* slugs of the categories, "" is none
    InitialBooks, InitialCategories,
    BookBodies, UpdateBodies, CategoryBodies,   \* bodies of the admin's requests
    Prices,            \* unit prices of purchases
    TTL,               \* CATALOG_CACHE_TTL_SECONDS, in clock units
    StatsTTL,          \* ADMIN_STATS_CACHE_TTL
    MaxClock           \* bound on the clock

VARIABLES
    visit,             \* the request at each place
    version,           \* Redis: the version of each namespace
    data,              \* Redis: the page under each key
    rewound,           \* ghost: namespaces whose version went back to 1
    due,               \* ghost: the revision the last bump of a detail page announced
    now

Visits == Readers \union Admins

visitVars == <<visit, version, data, rewound, due, now>>
catalogueVars == <<tables, visitVars>>

ASSUME VisitConstants ==
    /\ Readers \subseteq Nat /\ Admins \subseteq Nat /\ Readers \cap Admins = {}
    /\ TTL \in Nat /\ StatsTTL \in Nat /\ MaxClock \in Nat
    /\ Words \subseteq STRING \ {""} /\ "" \in CategorySlugs

\* The catalogue begins with books that nobody has deleted, or revised since.
ASSUME InitialTables ==
    /\ InitialBooks \in Seq(Range(InitialBooks))
    /\ \A b \in DOMAIN InitialBooks :
          LET x == InitialBooks[b] IN
          /\ x = [publisher |-> x.publisher, authors |-> x.authors, categories |-> x.categories,
                  variants |-> x.variants, active |-> x.active, deleted |-> x.deleted,
                  deletedAt |-> x.deletedAt, pageCount |-> x.pageCount, rev |-> x.rev, texts |-> x.texts]
          /\ x.deleted = FALSE /\ x.deletedAt = 0 /\ x.rev = 0

\* The key of a page without its version: what it shows, the language and which
\* book, slug, or page and category.
DetailKey(b, l) == [of |-> "detail", lang |-> l, book |-> b]
SlugKey(slug, l) == [of |-> "slug", lang |-> l, slug |-> slug]
HomeKey(l) == [of |-> "home", lang |-> l]
CategoriesKey(l) == [of |-> "categories", lang |-> l]
ListKey(l, page, slug) == [of |-> "list", lang |-> l, number |-> page, category |-> slug]
StatsKey == [of |-> "stats"]

\* What may be asked through the cache.
Keys ==
    UNION {{DetailKey(b, l) : b \in Targets}
           \union {SlugKey(s, l) : s \in TakenSlugs(l) \ {<< >>}}
           \union {HomeKey(l), CategoriesKey(l)}
           \union {ListKey(l, 1, s) : s \in CategorySlugs} : l \in {ResolveLanguage(code) : code \in Spoken}}

Idle == [kind |-> "none", pc |-> "idle"]

Goto(r, next) == visit' = [visit EXCEPT ![r] = next]

\* The answer to an admin's request.
End(r, answer) == Goto(r, [kind |-> "admin", pc |-> answer])

(* ------------------------------- The cache ------------------------------ *)

Version(ns) == IF ns \in DOMAIN version THEN version[ns] ELSE 0

Due(ns) == IF ns \in DOMAIN due THEN due[ns] ELSE 0

\* SET
Put(table, key, value) ==
    [k \in DOMAIN table \union {key} |-> IF k = key THEN value ELSE table[k]]

IsCached(key) == key \in DOMAIN data /\ now <= data[key].until

\* A reader: which page, the version it goes by, the revision that had been
\* announced when it began (ghost), since when it queries, and what it has found.
Reading(ns, word, pc) ==
    [kind |-> "read", pc |-> pc, ns |-> ns, word |-> word, v |-> Version(ns),
     floor |-> Due(ns), since |-> now, found |-> << >>]

\* getVersionKey, first half: the version, if there is one.
GetVersion(r, ns, word) ==
    /\ visit[r].pc = "idle"
    /\ Goto(r, Reading(ns, word, IF Version(ns) = 0 THEN "init" ELSE "data"))
    /\ UNCHANGED <<tables, version, data, rewound, due, now>>

\* Second half: SET, whatever has been written meanwhile.
InitVersion(r) ==
    /\ visit[r].pc = "init"
    /\ version' = Put(version, visit[r].ns, 1)
    /\ rewound' = IF Version(visit[r].ns) > 1 THEN rewound \union {visit[r].ns} ELSE rewound
    /\ Goto(r, [visit[r] EXCEPT !.pc = "data", !.v = 1])
    /\ UNCHANGED <<tables, data, due, now>>

\* The statistics of the admin are cached without a version.
AskStats(r) ==
    /\ visit[r].pc = "idle"
    /\ \A q \in Visits : visit[q].kind = "read" => visit[q].ns = StatsKey
    /\ Goto(r, Reading(StatsKey, "", "data"))
    /\ UNCHANGED <<tables, version, data, rewound, due, now>>

\* createCacheKey
KeyOf(r) == <<visit[r].ns, visit[r].v>>

Served(r, page, lag) ==
    [kind |-> "read", pc |-> "served", ns |-> visit[r].ns, floor |-> visit[r].floor,
     page |-> page, at |-> now, lag |-> lag]

\* withCache: the page that is there, or the factory.
GetData(r) ==
    /\ visit[r].pc = "data"
    /\ Goto(r, IF IsCached(KeyOf(r)) THEN Served(r, data[KeyOf(r)].page, data[KeyOf(r)].lag)
               ELSE [visit[r] EXCEPT !.pc = "query", !.since = now])
    /\ UNCHANGED <<tables, version, data, rewound, due, now>>

TimeToLive(ns) == IF ns = StatsKey THEN StatsTTL ELSE TTL

Set(r, until) ==
    /\ visit[r].pc = "store"
    /\ LET lag == now - visit[r].since IN
       /\ data' = Put(data, KeyOf(r), [page |-> visit[r].found, until |-> until, lag |-> lag])
       /\ Goto(r, Served(r, visit[r].found, lag))
    /\ UNCHANGED <<tables, version, rewound, due, now>>

\* SET with EX.  The page remembers (ghost) how long the factory took.
StoreData(r) == Set(r, now + TimeToLive(visit[r].ns))

\* bumpVersion: INCR, which counts a missing key as 0.
Bump(ns, rev) ==
    /\ version' = Put(version, ns, Version(ns) + 1)
    /\ due' = Put(due, ns, IF rev > Due(ns) THEN rev ELSE Due(ns))

(* ------------------------------ The factories --------------------------- *)

Asks(r, pc, what) == visit[r].pc = pc /\ visit[r].ns.of = what

Lang(r) == visit[r].ns.lang

\* The factory throws NotFound and nothing is stored.
Missing(r) == Goto(r, [kind |-> "read", pc |-> "refused", ns |-> visit[r].ns])

\* A factory goes on with what it has found, or its page waits for the SET.
Found(r, pc, found) == Goto(r, [visit[r] EXCEPT !.pc = pc, !.found = found])

Shuffled(rows, n) ==
    {OldestFirst(S) :
        S \in {T \in SUBSET Range(rows) : Cardinality(T) = IF n < Len(rows) THEN n ELSE Len(rows)}}

\* getCatalogHome: the first books of a shuffled list.
QueryHome(r) ==
    /\ Asks(r, "query", "home")
    /\ \E rows \in Shuffled(FindCatalogHomeBooks(Lang(r)), PageSize) :
          Found(r, "store", [cards |-> [i \in DOMAIN rows |-> HomeCard(rows[i], Lang(r))]])

\* getCategories
QueryCategories(r) ==
    /\ Asks(r, "query", "categories")
    /\ Found(r, "store", [tree |-> CategoryTree(FindActiveCategories(Lang(r)))])

\* getBookDetail
QueryDetail(r) ==
    /\ Asks(r, "query", "detail")
    /\ LET b == FindBookDetailById(visit[r].ns.book) IN
       IF b = 0 THEN Missing(r) ELSE Found(r, "store", DetailPage(b, Lang(r), << >>))

\* getBookDetailBySlug: the book ...
QuerySlug(r) ==
    /\ Asks(r, "query", "slug")
    /\ LET b == FindBookDetailBySlug(visit[r].ns.slug, Lang(r)) IN
       IF b = 0 THEN Missing(r)
       ELSE Found(r, "alike", [page |-> DetailPage(b, Lang(r), << >>), cats |-> books[b].categories])

\* ... the books that are most alike ...
QueryAlike(r) ==
    /\ Asks(r, "alike", "slug")
    /\ Found(r, "cards", [page |-> visit[r].found.page,
                          ids |-> RecommendIds(visit[r].found.page.book, visit[r].found.cats)])

\* ... and their cards.
QueryCards(r) ==
    /\ Asks(r, "cards", "slug")
    /\ Found(r, "store", [visit[r].found.page EXCEPT !.recommend = PickCards(visit[r].found.ids, Lang(r))])

\* listBooks without a category ...
ListAll(l, page) == ListPage(FindBooksForList(l, 0, page), l, CountBooksForList(l, 0))

\* ... and with one: the category first.
QueryList(r) ==
    /\ Asks(r, "query", "list")
    /\ LET page == visit[r].ns.number
           slug == visit[r].ns.category
           c == FindCategoryBySlug(slug, Lang(r))
       IN  IF slug = "" THEN Found(r, "store", ListAll(Lang(r), page))
           ELSE IF c = 0 THEN Missing(r) ELSE Found(r, "rows", [category |-> c])

\* Then its books, or the ids that match the keyword.
QueryCategory(r) ==
    /\ Asks(r, "rows", "list")
    /\ LET page == visit[r].ns.number
           c == visit[r].found.category
           word == visit[r].word
       IN  IF word = "" THEN Found(r, "store", ListPage(FindBooksForList(Lang(r), c, page), Lang(r),
                                                       CountBooksForList(Lang(r), c)))
           ELSE Found(r, "ids", [ids |-> FindBookIncludeCategory(Lang(r), c, word, page),
                                 total |-> CountBookIncludeCategory(Lang(r), c, word)])

QueryIds(r) ==
    /\ Asks(r, "ids", "list")
    /\ Found(r, "store", [cards |-> DearCards(FindBooksByIds(visit[r].found.ids), Lang(r)),
                          total |-> visit[r].found.total])

QueryStats(r) == Asks(r, "query", "stats") /\ Found(r, "store", Stats)

Factory(r) ==
    /\ \/ QueryHome(r) \/ QueryCategories(r) \/ QueryDetail(r)
       \/ QuerySlug(r) \/ QueryAlike(r) \/ QueryCards(r)
       \/ QueryList(r) \/ QueryCategory(r) \/ QueryIds(r) \/ QueryStats(r)
    /\ UNCHANGED <<tables, version, data, rewound, due, now>>

\* Who searches a category gives a keyword too.  Pages under different keys never
\* meet in the cache: the readers of one behaviour all ask for the same page.
MayAsk(ns, word) ==
    /\ word = "" \/ (ns.of = "list" /\ ns.category # "")
    /\ \A r \in Visits : visit[r].kind = "read" => visit[r].ns = ns

ReaderStep(r) ==
    \/ \E ns \in Keys, word \in Words \union {""} : MayAsk(ns, word) /\ GetVersion(r, ns, word)
    \/ InitVersion(r) \/ AskStats(r) \/ GetData(r) \/ Factory(r) \/ StoreData(r)
=============================================================================
