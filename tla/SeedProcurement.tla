-------------------------- MODULE SeedProcurement --------------------------
(***************************************************************************)
(* The last part of the seed: every variant goes through as much of order, *)
(* approval, delivery and pricing as its plan says, and variants that are  *)
(* for sale get a snapshot.                                                *)
(***************************************************************************)
EXTENDS SeedRun

\* The variant the script is at, and a change of it.
Variant(key) == books[seed.bookIds[key.book]].variants[key.format]

ChangeVariant(key, F(_)) ==
    /\ books' = [books EXCEPT ![seed.bookIds[key.book]].variants[key.format] = F(@)]
    /\ OnlyBooks

ChangeOrder(key, n, F(_)) == ChangeVariant(key, LAMBDA v : [v EXCEPT !.orders[n] = F(@)])

SellPrice(key) == PriceForFormat(BuildBook(key.book).price, key.format)

\* runDigitalActivation
Activate ==
    /\ Awaits("activate") /\ Advance
    /\ ChangeVariant(X, LAMBDA v : [v EXCEPT !.price = SellPrice(X), !.stock = 9999, !.active = TRUE])

\* The order is found by its code and put back to the beginning; an import that
\* an earlier run made for it stays where it is.
UpsertOrder ==
    LET old == Variant(X).orders IN
    /\ Awaits("order") /\ Advance
    /\ ChangeVariant(X, LAMBDA v :
           [v EXCEPT !.orders = IF Y \in DOMAIN old
                                THEN [old EXCEPT ![Y] = [@ EXCEPT !.status = "PENDING", !.transfer = "PENDING", !.paid = NULL]]
                                ELSE Append(old, NewOrder)])

ClearItems ==
    /\ Awaits("clearItems") /\ Advance
    /\ ChangeOrder(X, Y, LAMBDA o : [o EXCEPT !.item = NULL])

\* A new item gets an id of its own; one per run and order is enough to tell.
CreateItem ==
    /\ Awaits("item") /\ Advance
    /\ ChangeOrder(X, Y, LAMBDA o : [o EXCEPT !.item = runs])

ApproveOrder ==
    /\ Awaits("approve") /\ Advance
    /\ ChangeOrder(X, Y, LAMBDA o : [o EXCEPT !.status = "APPROVED", !.transfer = "PENDING"])

ProcessOrder ==
    /\ Awaits("process") /\ Advance
    /\ ChangeOrder(X, Y, LAMBDA o : [o EXCEPT !.transfer = "PROCESSING"])

DeleteImport ==
    /\ Awaits("unimport") /\ Advance
    /\ ChangeOrder(X, Y, LAMBDA o : [o EXCEPT !.import = NoImport])

RealTotal(key, n) ==
    LET id == Variant(key).id IN NetUnitPrice(SellPrice(key), id, n - 1) * Delivered(id, n - 1)

CreateImport ==
    /\ Awaits("import") /\ Advance
    /\ ChangeOrder(X, Y, LAMBDA o :
           [o EXCEPT !.import = [item |-> o.item, real |-> Delivered(Variant(X).id, Y - 1), total |-> RealTotal(X, Y)]])

PurchaseOrder ==
    /\ Awaits("purchase") /\ Advance
    /\ ChangeOrder(X, Y, LAMBDA o : [o EXCEPT !.transfer = "PURCHASE", !.paid = RealTotal(X, Y)])

\* What the batches of this run delivered, as the process has counted it.
TotalDelivered(key, plan) ==
    IF Reaches(plan) < 8 THEN 0
    ELSE FoldLeft(LAMBDA sum, n : sum + Delivered(Variant(key).id, n - 1), 0, [n \in 1..BatchCount(plan) |-> n])

\* Mutant of the next one: the variant is for sale with what was ordered.
SettleOrdered ==
    /\ Awaits("settle") /\ Advance
    /\ ChangeVariant(X, LAMBDA v :
           [v EXCEPT !.stock = Ordered(v.id, 0), !.price = SellPrice(X), !.active = TRUE])

\* Only a plan that was carried out makes the variant sellable.
SettleVariant ==
    LET sellable == Y \in {"SELLABLE_SINGLE_BATCH", "SELLABLE_MULTI_BATCH"} IN
    /\ Awaits("settle") /\ Advance
    /\ ChangeVariant(X, LAMBDA v :
           [v EXCEPT !.stock = TotalDelivered(X, Y), !.active = sellable,
                     !.price = IF sellable THEN SellPrice(X) ELSE NULL])

FindSellable ==
    /\ Awaits("findSellable")
    /\ seed' = [seed EXCEPT !.todo = Tail(@),
           !.sellable = {key \in [book : Range(Shelf), format : Formats] :
                            LET v == Variant(key) IN v.id # NULL /\ v.active /\ v.price # NULL}]
    /\ UNCHANGED <<accessTables, accessRest, shopTables, runs>>

\* Found by a hash of variant and price: one row for each pair.
UpsertSnapshot ==
    /\ Awaits("snapshot") /\ Advance
    /\ snapshots' = IF X \in seed.sellable THEN snapshots \union {<<Variant(X).id, Variant(X).price>>}
                    ELSE snapshots
    /\ UNCHANGED <<accessTables, accessRest, suppliers, languages, categories, books, publishers,
                   authors, nextVariant, runs>>

\* While the seed is not running an admin may give a book that is not for sale a
\* variant, and order copies of it.
AdminAddsVariant(b) ==
    LET id == RowOf(books, "en", b) IN
    /\ seed.todo = << >>
    /\ id # NULL /\ ~books[id].active /\ books[id].variants["PAPERBACK"] = NoVariant
    /\ \E ordered \in BOOLEAN :
          books' = [books EXCEPT ![id].variants["PAPERBACK"] =
                       [NoVariant EXCEPT !.id = nextVariant, !.elsewhere = ordered]]
    /\ nextVariant' = nextVariant + 1
    /\ UNCHANGED <<accessTables, accessRest, suppliers, languages, categories, publishers,
                   authors, snapshots, seed, runs>>

SeedStep ==
    \/ StartSeed \/ KillSeed \/ RunAgain
    \/ UpsertRole \/ FindObsolete \/ DropGrants \/ DropPermissions \/ UpsertPermission
    \/ PruneGrants \/ UpsertGrant \/ UpsertSupplier \/ UpsertLanguage
    \/ UpsertUser \/ ClearRoles \/ GiveRoles \/ ClearAddresses \/ CreateAddress
    \/ FindCategory \/ WriteCategory \/ TranslateCategory
    \/ UpsertPublisher \/ FindBook \/ WriteBook \/ TranslateBook \/ ClearAuthors \/ UpsertAuthor
    \/ ClearShelves \/ ShelveBook \/ UpsertSpec \/ UpsertBadge \/ ClearAssets \/ CreateAssets
    \/ RemoveOrders \/ RemoveSnapshots \/ RemoveVariants \/ UpsertVariant
    \/ Activate \/ UpsertOrder \/ ClearItems \/ CreateItem \/ ApproveOrder \/ ProcessOrder
    \/ DeleteImport \/ CreateImport \/ PurchaseOrder \/ SettleVariant
    \/ FindSellable \/ UpsertSnapshot
    \/ \E b \in Range(Shelf) : AdminAddsVariant(b)
=============================================================================
