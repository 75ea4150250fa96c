------------------------------ MODULE SeedRun ------------------------------
(***************************************************************************)
(* The seed as a process: main awaits one statement after the other, may   *)
(* be killed in front of any of them, and is started again from the top.   *)
(* What it awaits in which order is the script; an action per kind of      *)
(* statement does it.                                                      *)
(***************************************************************************)
EXTENDS Access, SeedPlan

CONSTANTS
    Topics,            \* the categories that are seeded, by slug
    Shelf,             \* the books that are seeded, by index
    Suppliers,         \* supplier codes
    FirstVariantIds,   \* ids the first variant may get
    MaxRuns            \* bound on how often the seed is started

VARIABLES
    suppliers, languages,
    categories, books, \* rows in the order of creation, a position is an id
    publishers, authors,
    nextVariant,       \* the next id in book_variants
    snapshots,         \* ids of variants and the price they had
    seed,              \* the process
    runs,              \* how often it was started
    busy               \* bound: either the API is in use meanwhile, or the shop is seeded too

ASSUME SeedConstants ==
    /\ Users \subseteq Roles /\ Roles \subseteq DOMAIN ROLE_PERMISSION_MAP
    /\ PERMISSIONS \subseteq Permissions
    /\ IsFiniteSet(Suppliers) /\ Shelf \in Seq(0..BOOK_COUNT - 1)
    /\ FirstVariantIds \subseteq Nat /\ MaxRuns \in Nat

shopTables == <<suppliers, languages, categories, books, publishers, authors, nextVariant, snapshots>>
seedVars == <<accessVars, shopTables, seed, runs, busy>>

Languages == {"vi", "en"}

NoVariant == [id |-> NULL, isbn |-> NULL, price |-> NULL, stock |-> 0, active |-> FALSE,
              orders |-> << >>, elsewhere |-> FALSE]

NoImport == [item |-> NULL, real |-> 0, total |-> 0]

\* A purchase order of the seed, found by its code: variant and batch.
NewOrder == [status |-> "PENDING", transfer |-> "PENDING", paid |-> NULL, item |-> NULL, import |-> NoImport]

(* ------------------------------- The script ----------------------------- *)

Do(op, x, y) == [op |-> op, x |-> x, y |-> y]

\* One statement for every element.
ForAll(S, op) == LET s == SetToSeq(S) IN [i \in DOMAIN s |-> Do(op, s[i], NULL)]

\* The script of every user, every category and every book that is seeded.
EachUser(F(_)) ==
    LET all == FIXED_USERS \o CustomerSeedUsers IN
    FlattenSeq([i \in DOMAIN all |-> IF all[i] \in Users THEN F(all[i]) ELSE << >>])

EachCategory(F(_)) ==
    FlattenSeq([i \in DOMAIN CATEGORIES |->
        IF CATEGORIES[i].slug \in Topics THEN F(CATEGORIES[i]) ELSE << >>])

EachBook(F(_)) == FlattenSeq([i \in DOMAIN Shelf |-> F(Shelf[i])])

RoleScript(r) ==
    <<Do("prune", r, NULL)>> \o
        LET ps == SetToSeq(ROLE_PERMISSION_MAP[r]) IN [i \in DOMAIN ps |-> Do("grant", r, ps[i])]

UserScript(u) == <<Do("user", u, NULL), Do("clearRoles", u, NULL), Do("giveRoles", u, NULL)>>

AddressScript(u) == <<Do("clearAddresses", u, NULL)>> \o [i \in 1..4 |-> Do("address", u, i)]

CategoryScript(c) ==
    <<Do("findCategory", c, NULL), Do("writeCategory", c, NULL),
      Do("translateCategory", c, "vi"), Do("translateCategory", c, "en")>>

VariantIndexes(b) == DOMAIN FormatsForBook(b)

BookScript(b) ==
    <<Do("publisher", b, NULL), Do("findBook", b, NULL), Do("writeBook", b, NULL),
      Do("translateBook", b, "en"), Do("translateBook", b, "vi"), Do("clearAuthors", b, NULL)>>
    \o [i \in 1..BuildBook(b).authors |-> Do("author", b, i)]
    \o <<Do("clearShelves", b, NULL), Do("shelve", b, NULL), Do("spec", b, NULL), Do("badge", b, NULL),
         Do("clearAssets", b, NULL)>>
    \o IF FormatsForBook(b) = << >>
       THEN <<Do("removeOrders", b, NULL), Do("removeSnapshots", b, NULL), Do("removeVariants", b, NULL)>>
       ELSE <<Do("assets", b, NULL)>>
            \o [v \in VariantIndexes(b) |-> Do("variant", b, FormatsForBook(b)[v])]

PlanOf(b, v) == PlanForVariant(b, v - 1, FormatsForBook(b)[v])

\* How far the last batch of a plan gets; all others get to the end.
Reaches(plan) ==
    CASE plan = "PO_PENDING" -> 3
      [] plan = "PO_APPROVED_WAITING_PROCESS" -> 4
      [] plan = "PROCESSING_IMPORT" -> 5
      [] OTHER -> 8

BatchScript(b, format, n, steps) ==
    LET ops == <<"order", "clearItems", "item", "approve", "process", "unimport", "import", "purchase">>
    IN  [i \in 1..steps |-> Do(ops[i], [book |-> b, format |-> format], n)]

ProcurementScript(b, v) ==
    LET plan == PlanOf(b, v)
        format == FormatsForBook(b)[v]
        key == [book |-> b, format |-> format]
    IN  CASE plan \in {"DRAFT", "DIGITAL_DRAFT"} -> << >>
          [] plan = "DIGITAL_SELLABLE" -> <<Do("activate", key, NULL)>>
          [] OTHER ->
               FlattenSeq([n \in 1..BatchCount(plan) |->
                   BatchScript(b, format, n, IF n = BatchCount(plan) THEN Reaches(plan) ELSE 8)])
               \o <<Do("settle", key, plan)>>

ForBook(b, F(_, _)) == FlattenSeq([v \in VariantIndexes(b) |-> F(b, v)])

SnapshotScript(b, v) == <<Do("snapshot", [book |-> b, format |-> FormatsForBook(b)[v]], NULL)>>

AccessScript ==
    ForAll(Roles, "role")
    \o <<Do("findObsolete", NULL, NULL), Do("dropGrants", NULL, NULL), Do("dropPermissions", NULL, NULL)>>
    \o ForAll(PERMISSIONS, "permission")
    \o FlattenSeq([i \in DOMAIN SetToSeq(Roles) |-> RoleScript(SetToSeq(Roles)[i])])
    \o ForAll(Suppliers, "supplier")
    \o ForAll(Languages, "language")
    \o EachUser(UserScript)

ShopScript ==
    EachUser(AddressScript)
    \o EachCategory(CategoryScript)
    \o EachBook(BookScript)
    \o EachBook(LAMBDA b : ForBook(b, ProcurementScript))
    \o <<Do("findSellable", NULL, NULL)>>
    \o EachBook(LAMBDA b : ForBook(b, SnapshotScript))

Script == AccessScript \o IF busy THEN << >> ELSE ShopScript

(* ------------------------------ The process ----------------------------- *)

NoRun == [on |-> FALSE, todo |-> << >>, obsolete |-> {}, found |-> NULL, count |-> 0,
          categoryIds |-> [slug \in Topics |-> NULL],
          bookIds |-> [b \in Range(Shelf) |-> NULL], sellable |-> {},
          prunedAt |-> [r \in Roles |-> 0]]

\* The next statement is one of this kind ...
Awaits(op) == seed.todo # << >> /\ seed.todo[1].op = op

X == seed.todo[1].x
Y == seed.todo[1].y

\* ... and after it comes the next.
Advance == seed' = [seed EXCEPT !.todo = Tail(@)]

Done == seed.on /\ seed.todo = << >>

StartSeed ==
    /\ ~seed.on /\ runs < MaxRuns
    /\ seed' = [NoRun EXCEPT !.on = TRUE, !.todo = Script]
    /\ runs' = runs + 1
    /\ UNCHANGED <<accessTables, accessRest, shopTables>>

\* The process is killed, or the database is gone; what was written stays.
KillSeed ==
    /\ seed.todo # << >>
    /\ seed' = NoRun
    /\ UNCHANGED <<accessTables, accessRest, shopTables, runs>>

RunAgain ==
    /\ Done /\ runs < MaxRuns
    /\ seed' = NoRun
    /\ UNCHANGED <<accessTables, accessRest, shopTables, runs>>

(* ---------------------- Roles, permissions and users -------------------- *)

UpsertRole ==
    /\ Awaits("role") /\ Advance
    /\ roles' = roles \union {X}
    /\ UNCHANGED <<permissions, grants, users, accessRest, shopTables, runs>>

FindObsolete ==
    /\ Awaits("findObsolete")
    /\ seed' = [seed EXCEPT !.todo = Tail(@), !.obsolete = permissions \ PERMISSIONS]
    /\ UNCHANGED <<accessTables, accessRest, shopTables, runs>>

DropGrants ==
    /\ Awaits("dropGrants") /\ Advance
    /\ grants' = {g \in grants : g[2] \notin seed.obsolete}
    /\ UNCHANGED <<roles, permissions, users, accessRest, shopTables, runs>>

\* Mutant of the next one: what was granted in between stays.
DropWithoutCascade ==
    /\ Awaits("dropPermissions") /\ Advance
    /\ permissions' = permissions \ seed.obsolete
    /\ UNCHANGED <<roles, grants, users, accessRest, shopTables, runs>>

\* Deleting a permission takes what was granted in between with it.
DropPermissions ==
    /\ Awaits("dropPermissions") /\ Advance
    /\ permissions' = permissions \ seed.obsolete
    /\ grants' = {g \in grants : g[2] \notin seed.obsolete}
    /\ UNCHANGED <<roles, users, accessRest, shopTables, runs>>

UpsertPermission ==
    /\ Awaits("permission") /\ Advance
    /\ permissions' = permissions \union {X}
    /\ UNCHANGED <<roles, grants, users, accessRest, shopTables, runs>>

\* Mutant of the next one: what a role has no more is kept.
KeepGrants ==
    /\ Awaits("prune")
    /\ seed' = [seed EXCEPT !.todo = Tail(@), !.prunedAt[X] = now]
    /\ UNCHANGED <<accessTables, accessRest, shopTables, runs>>

PruneGrants ==
    /\ Awaits("prune")
    /\ seed' = [seed EXCEPT !.todo = Tail(@), !.prunedAt[X] = now]
    /\ grants' = {g \in grants : g[1] = X => g[2] \in ROLE_PERMISSION_MAP[X]}
    /\ UNCHANGED <<roles, permissions, users, accessRest, shopTables, runs>>

UpsertGrant ==
    /\ Awaits("grant") /\ Advance
    /\ grants' = grants \union {<<X, Y>>}
    /\ UNCHANGED <<roles, permissions, users, accessRest, shopTables, runs>>

UpsertSupplier ==
    /\ Awaits("supplier") /\ Advance
    /\ suppliers' = suppliers \union {X}
    /\ UNCHANGED <<accessTables, accessRest, languages, categories, books, publishers, authors,
                   nextVariant, snapshots, runs>>

UpsertLanguage ==
    /\ Awaits("language") /\ Advance
    /\ languages' = languages \union {X}
    /\ UNCHANGED <<accessTables, accessRest, suppliers, categories, books, publishers, authors,
                   nextVariant, snapshots, runs>>

\* upsertUserWithRoles: the user, then all of the roles anew
UpsertUser ==
    /\ Awaits("user") /\ Advance
    /\ users' = [users EXCEPT ![X].exists = TRUE]
    /\ UNCHANGED <<roles, permissions, grants, accessRest, shopTables, runs>>

ClearRoles ==
    /\ Awaits("clearRoles") /\ Advance
    /\ users' = [users EXCEPT ![X].roles = {}]
    /\ UNCHANGED <<roles, permissions, grants, accessRest, shopTables, runs>>

GiveRoles ==
    /\ Awaits("giveRoles") /\ Advance
    /\ users' = [users EXCEPT ![X].roles = @ \union {X}]
    /\ UNCHANGED <<roles, permissions, grants, accessRest, shopTables, runs>>

\* seedAddressesForUser: all anew, two to four, the first one the default
ClearAddresses ==
    /\ Awaits("clearAddresses")
    /\ \E n \in 2..4 : seed' = [seed EXCEPT !.todo = Tail(@), !.count = n]
    /\ users' = [users EXCEPT ![X].addresses = << >>]
    /\ UNCHANGED <<roles, permissions, grants, accessRest, shopTables, runs>>

CreateAddress ==
    /\ Awaits("address") /\ Advance
    /\ users' = [users EXCEPT ![X].addresses = IF Y <= seed.count THEN Append(@, Y = 1) ELSE @]
    /\ UNCHANGED <<roles, permissions, grants, accessRest, shopTables, runs>>

(* ----------------------- Categories and books --------------------------- *)

\* The row with a translation of this slug, if any: findFirst.
RowOf(table, language, slug) ==
    LET hits == {i \in DOMAIN table : table[i][language] = slug} IN
    IF hits = {} THEN NULL ELSE Min(hits)

FindCategory ==
    /\ Awaits("findCategory")
    /\ seed' = [seed EXCEPT !.todo = Tail(@), !.found = RowOf(categories, "vi", X.slug)]
    /\ UNCHANGED <<accessTables, accessRest, shopTables, runs>>

\* A parent that has not been seeded yet is silently left out.
ParentId(c) == IF c.parent \in Topics THEN seed.categoryIds[c.parent] ELSE NULL

WriteCategory ==
    LET id == IF seed.found # NULL THEN seed.found ELSE Len(categories) + 1
        new == [vi |-> NULL, en |-> NULL, parent |-> ParentId(X)]
    IN  /\ Awaits("writeCategory")
        /\ categories' = IF seed.found # NULL
                          THEN [categories EXCEPT ![id].parent = ParentId(X)]
                          ELSE Append(categories, new)
        /\ seed' = [seed EXCEPT !.todo = Tail(@), !.found = NULL, !.categoryIds[X.slug] = id]
        /\ UNCHANGED <<accessTables, accessRest, suppliers, languages, books, publishers, authors,
                       nextVariant, snapshots, runs>>

TranslateCategory ==
    /\ Awaits("translateCategory") /\ Advance
    /\ categories' = [categories EXCEPT ![seed.categoryIds[X.slug]][Y] = X.slug]
    /\ UNCHANGED <<accessTables, accessRest, suppliers, languages, books, publishers, authors,
                   nextVariant, snapshots, runs>>

OnlyBooks ==
    UNCHANGED <<accessTables, accessRest, suppliers, languages, categories, publishers, authors,
                nextVariant, snapshots, runs>>

\* A change of the book that the script is at.
ChangeBook(b, F(_)) ==
    /\ books' = [books EXCEPT ![seed.bookIds[b]] = F(@)]
    /\ OnlyBooks

\* upsertPublisherByName; every base book has a publisher of its own here.
UpsertPublisher ==
    /\ Awaits("publisher") /\ Advance
    /\ publishers' = publishers \union {X % Len(BASE_BOOKS)}
    /\ UNCHANGED <<accessTables, accessRest, suppliers, languages, categories, books, authors,
                   nextVariant, snapshots, runs>>

FindBook ==
    /\ Awaits("findBook")
    /\ seed' = [seed EXCEPT !.todo = Tail(@), !.found = RowOf(books, "en", X)]
    /\ UNCHANGED <<accessTables, accessRest, shopTables, runs>>

WriteBook ==
    LET id == IF seed.found # NULL THEN seed.found ELSE Len(books) + 1
        active == FormatsForBook(X) # << >>
        new == [en |-> NULL, vi |-> NULL, active |-> active, authors |-> << >>, shelves |-> {},
                spec |-> FALSE, badge |-> "none", assets |-> 0,
                variants |-> [f \in Formats |-> NoVariant]]
    IN  /\ Awaits("writeBook")
        /\ books' = IF seed.found # NULL THEN [books EXCEPT ![id].active = active]
                     ELSE Append(books, new)
        /\ seed' = [seed EXCEPT !.todo = Tail(@), !.found = NULL, !.bookIds[X] = id]
        /\ OnlyBooks

\* Mutant of the next one: there is no translation into English.
TranslateToVietnamese ==
    /\ Awaits("translateBook") /\ Advance
    /\ ChangeBook(X, LAMBDA row : [row EXCEPT !.vi = X])

TranslateBook ==
    /\ Awaits("translateBook") /\ Advance
    /\ ChangeBook(X, LAMBDA row : [row EXCEPT ![Y] = X])

ClearAuthors ==
    /\ Awaits("clearAuthors") /\ Advance
    /\ ChangeBook(X, LAMBDA row : [row EXCEPT !.authors = << >>])

\* upsertAuthorByName and the link, of which the first is the primary one
UpsertAuthor ==
    /\ Awaits("author") /\ Advance
    /\ authors' = authors \union {<<X % Len(BASE_BOOKS), Y>>}
    /\ books' = [books EXCEPT ![seed.bookIds[X]].authors = Append(@, Y = 1)]
    /\ UNCHANGED <<accessTables, accessRest, suppliers, languages, categories, publishers,
                   nextVariant, snapshots, runs>>

ClearShelves ==
    /\ Awaits("clearShelves") /\ Advance
    /\ ChangeBook(X, LAMBDA row : [row EXCEPT !.shelves = {}])

\* Slugs of categories that are not there are dropped.
ShelveBook ==
    LET known == {seed.categoryIds[slug] : slug \in BuildBook(X).shelves \intersect Topics} IN
    /\ Awaits("shelve") /\ Advance
    /\ ChangeBook(X, LAMBDA row : [row EXCEPT !.shelves = known \ {NULL}])

UpsertSpec ==
    /\ Awaits("spec") /\ Advance
    /\ ChangeBook(X, LAMBDA row : [row EXCEPT !.spec = TRUE])

UpsertBadge ==
    /\ Awaits("badge") /\ Advance
    /\ ChangeBook(X, LAMBDA row :
           [row EXCEPT !.badge = IF FormatsForBook(X) = << >> THEN "none" ELSE BadgeForBook(X)])

ClearAssets ==
    /\ Awaits("clearAssets") /\ Advance
    /\ ChangeBook(X, LAMBDA row : [row EXCEPT !.assets = 0])

CreateAssets ==
    /\ Awaits("assets") /\ Advance
    /\ ChangeBook(X, LAMBDA row : [row EXCEPT !.assets = @ + 2])

\* removeSeedVariantsForBook: first the orders of the seed with their imports ...
RemoveOrders ==
    /\ Awaits("removeOrders") /\ Advance
    /\ ChangeBook(X, LAMBDA row :
           [row EXCEPT !.variants = [f \in Formats |-> [@[f] EXCEPT !.orders = << >>]]])

IdsOf(row) == {row.variants[f].id : f \in Formats} \ {NULL}

\* ... then the snapshots ...
RemoveSnapshots ==
    /\ Awaits("removeSnapshots") /\ Advance
    /\ snapshots' = {s \in snapshots : s[1] \notin IdsOf(books[seed.bookIds[X]])}
    /\ UNCHANGED <<accessTables, accessRest, suppliers, languages, categories, books, publishers,
                   authors, nextVariant, runs>>

\* ... and the variants, which throws when an order of somebody else has one.
RemoveVariants ==
    LET row == books[seed.bookIds[X]] IN
    /\ Awaits("removeVariants")
    /\ IF \E f \in Formats : row.variants[f].elsewhere
       THEN seed' = NoRun /\ books' = books
       ELSE /\ Advance
            /\ books' = [books EXCEPT ![seed.bookIds[X]].variants = [f \in Formats |-> NoVariant]]
    /\ OnlyBooks

\* A variant is a draft without price and stock again, whatever it was.
UpsertVariant ==
    LET old == books[seed.bookIds[X]].variants[Y]
        index == CHOOSE v \in VariantIndexes(X) : FormatsForBook(X)[v] = Y
        id == IF old.id = NULL THEN nextVariant ELSE old.id
        draft == [old EXCEPT !.id = id, !.isbn = MakeVariantIsbn(X, index - 1),
                             !.price = NULL, !.stock = 0, !.active = FALSE]
    IN  /\ Awaits("variant") /\ Advance
        /\ books' = [books EXCEPT ![seed.bookIds[X]].variants[Y] = draft]
        /\ nextVariant' = IF old.id = NULL THEN nextVariant + 1 ELSE nextVariant
        /\ UNCHANGED <<accessTables, accessRest, suppliers, languages, categories, publishers,
                       authors, snapshots, runs>>
=============================================================================
