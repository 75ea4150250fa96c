---------------------------- MODULE CatalogueDesk ----------------------------
(***************************************************************************)
(* What admins do to the catalogue: books, translations, prices, names and *)
(* categories.                                                             *)
(***************************************************************************)
EXTENDS CatalogueVisits

\* An admin's request with what it remembers.
Working(kind, pc, book, body, seen) ==
    [kind |-> kind, pc |-> pc, book |-> book, body |-> body, seen |-> seen]

Cached == <<version, data, rewound, due, now>>

(* ---------------------------- Names: find or create --------------------- *)

\* An upsert reads first ...
FindPublisher(r, kind, body) ==
    /\ visit[r].pc = "idle"
    /\ Goto(r, Working(kind, "publisher", 0, body, {body.publisher} \cap publishers))
    /\ UNCHANGED <<tables, Cached>>

\* ... and inserts what it has not found; the key throws when another request
\* was faster.
UpsertPublisher(r) ==
    /\ visit[r].pc = "publisher"
    /\ LET name == visit[r].body.publisher IN
       IF name \in publishers /\ visit[r].seen = {}
       THEN publishers' = publishers /\ End(r, "error")
       ELSE /\ publishers' = publishers \union {name}
            /\ IF visit[r].kind = "publisher" THEN End(r, "done")
               ELSE Goto(r, [visit[r] EXCEPT !.pc = "find"])
    /\ UNCHANGED <<books, categories, authors, audits, Cached>>

\* The authors of a body, each name once and first if it is first anywhere.
Byline(body) ==
    {[name |-> n, primary |-> \E i \in DOMAIN body.authors : body.authors[i] = [name |-> n, primary |-> TRUE]] :
        n \in {body.authors[i].name : i \in DOMAIN body.authors}}

BylineNames(body) == {a.name : a \in Byline(body)}

FindAuthors(r) ==
    /\ visit[r].pc = "find"
    /\ Goto(r, [visit[r] EXCEPT !.pc = "authors", !.seen = BylineNames(visit[r].body) \cap authors])
    /\ UNCHANGED <<tables, Cached>>

\* POST /authors asks for one name.
FindAuthor(r, body) ==
    /\ visit[r].pc = "idle"
    /\ Goto(r, Working("author", "authors", 0, body, BylineNames(body) \cap authors))
    /\ UNCHANGED <<tables, Cached>>

\* All upserts of a Promise.all run, also when one of them throws.
UpsertAuthors(r) ==
    /\ visit[r].pc = "authors"
    /\ LET names == BylineNames(visit[r].body) IN
       /\ authors' = authors \union names
       /\ IF (names \cap authors) \ visit[r].seen # {} THEN End(r, "error")
          ELSE IF visit[r].kind = "author" THEN End(r, "done")
          ELSE Goto(r, [visit[r] EXCEPT !.pc = "open"])
    /\ UNCHANGED <<books, categories, publishers, audits, Cached>>

(* ------------------------------ Creating books -------------------------- *)

\* The transaction of createBook looks for a free slug in its snapshot ...
OpenBook(r) ==
    /\ visit[r].pc = "open"
    /\ LET body == visit[r].body
           slug == BuildUniqueSlug(body.lang, BaseSlug(body.title, Len(books) + 1))
       IN  Goto(r, [visit[r] EXCEPT !.pc = "create", !.seen = [slug |-> slug, count |-> CountTexts]])
    /\ UNCHANGED <<tables, Cached>>

UsedIsbns == UNION {{v.isbn : v \in Range(books[b].variants)} : b \in DOMAIN books}

\* Mutant of the next one: every variant of the body.
AllVariants(isbns) == [i \in DOMAIN isbns |-> [isbn |-> isbns[i], price |-> Unpriced, active |-> TRUE]]

\* createVariants: without a price, and without those whose ISBN is taken, by a
\* row or earlier in the body.
NewVariants(isbns) ==
    LET free == Kept(isbns, {i \in DOMAIN isbns :
                        isbns[i] \notin UsedIsbns \union {isbns[j] : j \in 1..i - 1}})
    IN  [i \in DOMAIN free |-> [isbn |-> free[i], price |-> Unpriced, active |-> TRUE]]

\* The translation of a body with the slug that was chosen for it.
NewText(title, seen) == [title |-> title, slug |-> seen.slug, fresh |-> seen.count = CountTexts]

NewBook(body, seen) ==
    [publisher |-> body.publisher, authors |-> Byline(body), categories |-> {},
     variants |-> NewVariants(body.isbns), active |-> FALSE, deleted |-> FALSE, deletedAt |-> 0,
     pageCount |-> 0, rev |-> 0,
     texts |-> [l \in Languages |-> IF l = body.lang THEN NewText(body.title, seen) ELSE NoText]]

\* ... and inserts the book, its translation, authors, spec and variants.  The
\* categories of the body are not used.
CommitBook(r) ==
    /\ visit[r].pc = "create"
    /\ books' = Append(books, NewBook(visit[r].body, visit[r].seen))
    /\ End(r, "done")
    /\ UNCHANGED <<categories, publishers, authors, audits, Cached>>

\* createBookTranslation: the checks, in a snapshot, ...
OpenTranslation(r, b, l, title) ==
    /\ visit[r].pc = "idle"
    /\ IF FindBookById(b) /\ ~IsTranslated(b, l)
       THEN Goto(r, Working("translate", "translate", b, [lang |-> l, title |-> title],
                            [slug |-> BuildUniqueSlug(l, BaseSlug(title, b)), count |-> CountTexts]))
       ELSE End(r, "refused")
    /\ UNCHANGED <<tables, Cached>>

\* ... and the insert, with the key on book and language.  (Its audit row is about
\* the translation; audits holds those about books.)
CommitTranslation(r) ==
    /\ visit[r].pc = "translate"
    /\ LET b == visit[r].book
           body == visit[r].body
       IN  IF IsTranslated(b, body.lang) THEN UNCHANGED tables /\ End(r, "error")
           ELSE /\ books' = [books EXCEPT ![b].texts[body.lang] = NewText(body.title, visit[r].seen)]
                /\ End(r, "done")
                /\ UNCHANGED <<categories, publishers, authors, audits>>
    /\ UNCHANGED Cached

(* -------------------------- Changing and deleting ----------------------- *)

\* What an audit row keeps of a book: its columns and texts.  It also keeps the
\* variants, which change by requests that leave no row about the book: the price
\* by updatePriceVariant, the stock by imports and orders, both by an update that
\* names them under another book.  Nothing is said of them.
Snapshot(b) ==
    [active |-> books[b].active, deleted |-> books[b].deleted, pageCount |-> books[b].pageCount,
     texts |-> books[b].texts]

RowsOf(b) == Kept(audits, {i \in DOMAIN audits : audits[i].book = b})

\* updateBook and deleteBook read the book; rows is how many audit rows it had.
ReadBook(r, kind, b, body) ==
    /\ visit[r].pc = "idle"
    /\ IF FindBookById(b)
       THEN Goto(r, Working(kind, kind, b, body, [before |-> Snapshot(b), rows |-> Len(RowsOf(b))]))
       ELSE End(r, "refused")
    /\ UNCHANGED <<tables, Cached>>

\* Mutant of the next one: the row is not written.
NoAudit(r, after) == audits

Audit(r, after) ==
    Append(audits, [book |-> visit[r].book, before |-> visit[r].seen.before, after |-> after,
                    rows |-> visit[r].seen.rows])

Exists(id) == id.book \in DOMAIN books /\ id.n \in DOMAIN books[id.book].variants

\* Every title has a translation, no price is below its cost, every variant is there.
IsAcceptable(b, body) ==
    /\ \A l \in DOMAIN body.titles : IsTranslated(b, l)
    /\ \A v \in body.variants : v.price >= v.costPrice /\ Exists(v.id)

\* A field that the body leaves out, an empty set, keeps its value.
Given(field, old) == IF field = {} THEN old ELSE CHOOSE x \in field : TRUE

\* A variant is updated by its id, whichever book it belongs to.
UpdatedVariant(a, n, body) ==
    LET old == books[a].variants[n]
        edits == {v \in body.variants : v.id = [book |-> a, n |-> n]}
    IN  [old EXCEPT !.price = Given({v.price : v \in edits}, @),
                    !.active = Given(UNION {v.active : v \in edits}, @)]

UpdatedBook(a, b, body) ==
    LET variants == [n \in DOMAIN books[a].variants |-> UpdatedVariant(a, n, body)]
    IN  IF a # b THEN [books[a] EXCEPT !.variants = variants]
        ELSE [books[a] EXCEPT
                !.variants = variants, !.rev = @ + 1,
                !.active = Given(body.active, @), !.pageCount = Given(body.pageCount, @),
                !.texts = [l \in Languages |-> IF l \in DOMAIN body.titles
                                               THEN [@[l] EXCEPT !.title = body.titles[l]] ELSE @[l]]]

\* The transaction of updateBook: an exception rolls it back.
CommitUpdate(r) ==
    /\ visit[r].pc = "update"
    /\ LET b == visit[r].book
           body == visit[r].body
       IN  IF ~IsAcceptable(b, body) THEN UNCHANGED tables /\ End(r, "error")
           ELSE /\ books' = [a \in DOMAIN books |-> UpdatedBook(a, b, body)]
                /\ audits' = Audit(r, [active |-> books'[b].active, deleted |-> books[b].deleted,
                                       pageCount |-> books'[b].pageCount, texts |-> books'[b].texts])
                /\ Goto(r, [visit[r] EXCEPT !.pc = "bump", !.body = books'[b].rev, !.seen = Languages])
                /\ UNCHANGED <<categories, publishers, authors>>
    /\ UNCHANGED Cached

\* Mutant of the next one: the detail pages are left as they are.
NoBump(r) ==
    /\ visit[r].pc = "bump"
    /\ End(r, "done")
    /\ due' = [ns \in {DetailKey(visit[r].book, l) : l \in Languages} |-> visit[r].body] @@ due
    /\ UNCHANGED <<tables, version, data, rewound, now>>

\* bumpCatalogBookDetailCache: the INCRs for all languages, in any order.
BumpDetail(r) ==
    /\ visit[r].pc = "bump"
    /\ \E l \in visit[r].seen :
          /\ Bump(DetailKey(visit[r].book, l), visit[r].body)
          /\ IF visit[r].seen = {l} THEN End(r, "done") ELSE Goto(r, [visit[r] EXCEPT !.seen = @ \ {l}])
    /\ UNCHANGED <<tables, data, rewound, now>>

\* updatePriceVariant: the price of a purchase, written without a look at the book.
UpdatePriceVariant(r, b, n, price) ==
    /\ visit[r].pc = "idle"
    /\ Exists([book |-> b, n |-> n])
    /\ books' = [books EXCEPT ![b].variants[n].price = price, ![b].rev = @ + 1]
    /\ Goto(r, Working("price", "bump", b, books'[b].rev, Languages))
    /\ UNCHANGED <<categories, publishers, authors, audits, Cached>>

\* softDeleteBook
SoftDeleted(book) == [book EXCEPT !.active = FALSE, !.deleted = TRUE, !.deletedAt = now]

\* The transaction of deleteBook.  No page is bumped.  The row of the book is as it
\* is by now, the texts are those of the snapshot.
CommitDelete(r) ==
    /\ visit[r].pc = "delete"
    /\ books' = [books EXCEPT ![visit[r].book] = SoftDeleted(@)]
    /\ audits' = Audit(r, [active |-> FALSE, deleted |-> TRUE, pageCount |-> books[visit[r].book].pageCount,
                           texts |-> visit[r].seen.before.texts])
    /\ End(r, "done")
    /\ UNCHANGED <<categories, publishers, authors, Cached>>

(* ------------------------------- Categories ----------------------------- *)

\* createCategory: a parent must be there, active or not.
CreateCategory(r, body) ==
    /\ visit[r].pc = "idle"
    /\ IF body.parent \in DOMAIN categories \union {0}
       THEN categories' = Append(categories, body) /\ End(r, "done")
       ELSE categories' = categories /\ End(r, "refused")
    /\ UNCHANGED <<books, publishers, authors, audits, Cached>>

(* ------------------------------ Specification --------------------------- *)

AdminStep(r) ==
    \/ \E body \in BookBodies : \E kind \in {"create", "publisher"} : FindPublisher(r, kind, body)
    \/ \E body \in BookBodies : FindAuthor(r, body)
    \/ UpsertPublisher(r) \/ FindAuthors(r) \/ UpsertAuthors(r)
    \/ OpenBook(r) \/ CommitBook(r)
    \/ \E b \in Targets, l \in Languages, title \in Titles : OpenTranslation(r, b, l, title)
    \/ CommitTranslation(r)
    \/ \E b \in Targets, body \in UpdateBodies : ReadBook(r, "update", b, body)
    \/ \E b \in Targets : ReadBook(r, "delete", b, 0)
    \/ CommitUpdate(r) \/ CommitDelete(r) \/ BumpDetail(r)
    \/ \E b \in Targets \cap DOMAIN books : \E n \in DOMAIN books[b].variants : \E price \in Prices : UpdatePriceVariant(r, b, n, price)
    \/ \E body \in CategoryBodies : CreateCategory(r, body)

Begun(requests) == {r \in requests : visit[r].pc # "idle"}

\* Time matters only once somebody reads.
Tick ==
    /\ now < MaxClock /\ Begun(Readers) # {}
    /\ now' = now + 1
    /\ UNCHANGED <<tables, visit, version, data, rewound, due>>

CatalogueInit ==
    /\ books = InitialBooks /\ categories = InitialCategories
    /\ publishers = {InitialBooks[b].publisher : b \in DOMAIN InitialBooks}
    /\ authors = UNION {{a.name : a \in InitialBooks[b].authors} : b \in DOMAIN InitialBooks}
    /\ audits = << >>
    /\ visit = [r \in Visits |-> Idle]
    /\ version = << >> /\ data = << >> /\ rewound = {} /\ due = << >> /\ now = 0

\* Requests that are alike begin in the order of their numbers.
InTurn(r, requests) == \A q \in requests : q < r => visit[q].pc # "idle"

\* A bound: one admin among the readers, or several without any.
WithinBound == Begun(Readers) = {} \/ Cardinality(Begun(Admins)) <= 1

CatalogueNext ==
    \/ Tick
    \/ \E r \in Readers : InTurn(r, Readers) /\ ReaderStep(r) /\ WithinBound'
    \/ \E r \in Admins : InTurn(r, Admins) /\ AdminStep(r) /\ WithinBound'
=============================================================================
