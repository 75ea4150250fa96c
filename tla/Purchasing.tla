----------------------------- MODULE Purchasing -----------------------------
(***************************************************************************)
(* Suppliers, purchase orders and stock imports: one action per awaited    *)
(* statement of the services, a transaction being one.  Tables are         *)
(* sequences in the order of creation and a row's position is its id.      *)
(***************************************************************************)
EXTENDS Integers, Sequences, FiniteSets, SequencesExt

CONSTANTS
    NULL,
    Requests,          \* requests of the back office
    Variants,
    Codes,             \* codes of suppliers and of purchase orders
    OrderBodies,       \* what the items of a new purchase order may be
    Deliveries,        \* what the items of a new stock import may be
    Grain,             \* grains in a cent, the smallest amount a column keeps
    OldOrders          \* the orders there may be at first

VARIABLES
    suppliers, purchases, imports,
    stock,             \* book_variants.stock
    price,             \* book_variants.price
    req,               \* the request at each place
    walk               \* an admin who turns the pages of a list

purchasingVars == <<suppliers, purchases, imports, stock, price, req, walk>>

\* A new item, with amounts as exact as the request names them: the unit price
\* and what its discount of at most 100 percent takes off, in grains.
ItemBody == [variant : Variants, quantity : Nat \ {0}, unitPrice : Nat, discount : Nat]

ASSUME PurchasingConstants ==
    /\ NULL \notin Codes \union Variants \union Int
    /\ Codes # {}
    /\ OrderBodies \union OldOrders \subseteq Seq(ItemBody)
    /\ \A body \in OrderBodies \union OldOrders : \A i \in DOMAIN body :
           body[i].discount <= body[i].unitPrice
    /\ Deliveries \subseteq Seq([item : [order : Nat, n : Nat], real : Nat])
    /\ Grain \in Nat \ {0}

PurchaseStatus == {"PENDING", "APPROVED", "REJECTED"}
TransferStatus == {"PENDING", "PROCESSING", "PURCHASE"}

Supplier == [code : Codes, active : BOOLEAN]

PurchaseItem == [variant : Variants, quantity : Nat, unitPrice : Nat, price : Nat, totalPrice : Nat]

PurchaseOrder ==
    [code : Codes, supplier : Nat, status : PurchaseStatus, transfer : TransferStatus,
     items : Seq(PurchaseItem), totalAmount : Nat, realPayPrice : Int \union {NULL}]

\* The purchase order item with position n of order p.
ItemId == [order : Nat, n : Nat]

ImportLine == [item : ItemId, real : Nat, lack : Int, totalPrice : Int]

StockImport == [order : Nat, items : Seq(ImportLine), totalAmount : Int]

(* ------------------------------- Requests ------------------------------- *)

Idle == [pc |-> "idle", kind |-> NULL, order |-> NULL, status |-> NULL, lines |-> << >>, was |-> NULL, read |-> NULL]

\* What the request at r remembers, and where it goes on.
Goto(r, pc, kind, order, status, lines, was, read) ==
    req' = [req EXCEPT ![r] = [pc |-> pc, kind |-> kind, order |-> order,
                               status |-> status, lines |-> lines, was |-> was, read |-> read]]

\* A request ends with an answer.
Answer(r, kind, order, answer) == Goto(r, answer, kind, order, NULL, << >>, NULL, NULL)

(* ------------------------------- Suppliers ------------------------------ *)

\* The code of a supplier is unique: a second insert throws.
CreateSupplier(r, code) ==
    /\ req[r].pc = "idle"
    /\ IF \E s \in DOMAIN suppliers : suppliers[s].code = code
       THEN suppliers' = suppliers /\ Answer(r, "supplier", NULL, "refused")
       ELSE /\ suppliers' = Append(suppliers, [code |-> code, active |-> TRUE])
            /\ Answer(r, "supplier", Len(suppliers'), "done")
    /\ UNCHANGED <<purchases, imports, stock, price, walk>>

ActiveOrNot(active) == IF active THEN "active" ELSE "inactive"

\* toggleSupplierActive reads the supplier ...
ReadSupplier(r, s) ==
    /\ req[r].pc = "idle"
    /\ IF s \in DOMAIN suppliers
       THEN Goto(r, "toggle", "toggle", s, NULL, << >>, ActiveOrNot(suppliers[s].active), NULL)
       ELSE Answer(r, "toggle", NULL, "refused")
    /\ UNCHANGED <<suppliers, purchases, imports, stock, price, walk>>

\* ... and writes the opposite of what it has read.
UpdateSupplierActive(r) ==
    /\ req[r].pc = "toggle"
    /\ suppliers' = [suppliers EXCEPT ![req[r].order].active = (req[r].was = "inactive")]
    /\ Answer(r, "toggle", req[r].order, "done")
    /\ UNCHANGED <<purchases, imports, stock, price, walk>>

(* ---------------------------- Purchase orders --------------------------- *)

\* What a Decimal(18, 2) column keeps of an amount in grains: cents, half up.
Rounded(amount) == (2 * amount + Grain) \div (2 * Grain)

\* What one copy costs, in grains.
Net(b) == b.unitPrice - b.discount

\* Mutant of the next one: the discount is taken off once per item.
DiscountOnce(b) == b.unitPrice * b.quantity - b.discount

Cost(b) == Net(b) * b.quantity

WithPrices(b) ==
    [variant |-> b.variant, quantity |-> b.quantity, unitPrice |-> Rounded(b.unitPrice),
     price |-> Rounded(Net(b)), totalPrice |-> Rounded(Cost(b))]

Costs(body) == [i \in DOMAIN body |-> Cost(body[i])]

\* The total is added up before anything is rounded.
NewPurchaseOrder(code, s, body) ==
    [code |-> code, supplier |-> s, status |-> "PENDING", transfer |-> "PENDING",
     items |-> [i \in DOMAIN body |-> WithPrices(body[i])],
     totalAmount |-> Rounded(SumFunction(Costs(body))), realPayPrice |-> NULL]

\* Mutant of the next one: nobody looks at the code.
AnyCode(s, code) == s \in DOMAIN suppliers

\* The supplier must be there, active or not, and the code be new.
Creatable(s, code) == s \in DOMAIN suppliers /\ \A p \in DOMAIN purchases : purchases[p].code # code

\* One transaction, which the foreign and the unique key may refuse.
CreatePurchaseOrder(r, code, s, body) ==
    /\ req[r].pc = "idle"
    /\ IF Creatable(s, code)
       THEN /\ purchases' = Append(purchases, NewPurchaseOrder(code, s, body))
            /\ Answer(r, "create", Len(purchases'), "done")
       ELSE purchases' = purchases /\ Answer(r, "create", NULL, "refused")
    /\ UNCHANGED <<suppliers, imports, stock, price, walk>>

\* Mutant of the next one: any order may be decided about.
DecidableAgain(p) == p \in DOMAIN purchases /\ purchases[p].items # << >>

Decidable(p) ==
    /\ p \in DOMAIN purchases
    /\ purchases[p].status = "PENDING"
    /\ purchases[p].items # << >>

\* approvePurchaseOrder refuses all but the two decisions, reads the order ...
CheckPurchaseOrder(r, p, status) ==
    /\ req[r].pc = "idle"
    /\ IF status \in {"APPROVED", "REJECTED"} /\ Decidable(p)
       THEN Goto(r, "decide", "decide", p, status, << >>, purchases[p].status, NULL)
       ELSE Answer(r, "decide", p, "refused")
    /\ UNCHANGED <<suppliers, purchases, imports, stock, price, walk>>

\* ... and writes the decision by id, whatever the status is by then.
UpdatePurchaseOrderStatus(r) ==
    /\ req[r].pc = "decide"
    /\ purchases' = [purchases EXCEPT ![req[r].order].status = req[r].status]
    /\ Answer(r, "decide", req[r].order, "done")
    /\ UNCHANGED <<suppliers, imports, stock, price, walk>>

\* updateTransferStatus: undefined leaves the price that was paid alone.
Transferred(order, transfer, paid) ==
    [order EXCEPT !.transfer = transfer, !.realPayPrice = IF paid = NULL THEN @ ELSE paid]

\* The transfer-processing endpoint checks nothing; without a row it throws.
UpdateStatusTransfer(r, p) ==
    /\ req[r].pc = "idle"
    /\ IF p \in DOMAIN purchases
       THEN /\ purchases' = [purchases EXCEPT ![p] = Transferred(@, "PROCESSING", NULL)]
            /\ Answer(r, "transfer", p, "done")
       ELSE purchases' = purchases /\ Answer(r, "transfer", p, "refused")
    /\ UNCHANGED <<suppliers, imports, stock, price, walk>>

(* ----------------------------- Stock imports ---------------------------- *)

ItemIds == UNION {{[order |-> p, n |-> i] : i \in DOMAIN purchases[p].items} : p \in DOMAIN purchases}

ItemOf(id) == purchases[id.order].items[id.n]

TotalPrices(lines) == [i \in DOMAIN lines |-> lines[i].totalPrice]

\* The price is the one the column kept.
WithLack(line) ==
    LET item == ItemOf(line.item)
        lack == item.quantity - line.real
    IN  [item |-> line.item, real |-> line.real, lack |-> lack,
         totalPrice |-> line.real * item.price - lack * item.price]

\* createStockImport reads the items outside of the transaction; they never change.
ReadItems(r, p, lines) ==
    /\ req[r].pc = "idle"
    /\ IF \A i \in DOMAIN lines : lines[i].item \in ItemIds
       THEN Goto(r, "import", "import", p, NULL, [i \in DOMAIN lines |-> WithLack(lines[i])], NULL, NULL)
       ELSE Answer(r, "import", p, "refused")
    /\ UNCHANGED <<suppliers, purchases, imports, stock, price, walk>>

UnitPrices(lines) == [i \in DOMAIN lines |-> ItemOf(lines[i].item).price]

\* realPayPrice: the prices of the items are added without their quantities.
RealPayPrice(lines) ==
    LET total == SumFunction(TotalPrices(lines))
        purchase == SumFunction(UnitPrices(lines))
        abs == IF total < 0 THEN -total ELSE total
    IN  IF total > purchase THEN total
        ELSE IF purchase > total THEN purchase - abs ELSE purchase

\* What incrementStockById adds to a variant, one update per line.
Delivered(lines, v) ==
    SumFunction([i \in DOMAIN lines |-> IF ItemOf(lines[i].item).variant = v THEN lines[i].real ELSE 0])

IncrementStock(lines, v) == Delivered(lines, v)

\* Mutant of the next one: no unique key on the order of an import.
ImportAgain(p) == p \in DOMAIN purchases

Importable(p) == p \in DOMAIN purchases /\ \A i \in DOMAIN imports : imports[i].order # p

\* The row and its items.
NewStockImport(p, lines) == [order |-> p, items |-> lines, totalAmount |-> SumFunction(TotalPrices(lines))]

\* The transaction: the import, its items, the stock and the order.  The order
\* must exist and have no import yet; its status is not looked at.
CreateStockImport(r) ==
    LET p == req[r].order
        lines == req[r].lines
    IN  /\ req[r].pc = "import"
        /\ IF Importable(p)
           THEN /\ imports' = Append(imports, NewStockImport(p, lines))
                /\ stock' = [v \in Variants |-> stock[v] + IncrementStock(lines, v)]
                /\ purchases' = [purchases EXCEPT ![p] = Transferred(@, "PURCHASE", RealPayPrice(lines))]
                /\ Goto(r, "respond", "import", p, NULL, << >>, NULL, Len(imports'))
           ELSE Answer(r, "import", p, "refused") /\ UNCHANGED <<imports, stock, purchases>>
        /\ UNCHANGED <<suppliers, price, walk>>

\* findStockImportById looks for the import of a purchase order; an import's own
\* id, a cuid as well, is never the id of an order.
FindStockImportById(id) == {i \in DOMAIN imports : [order |-> imports[i].order] = id}

\* After the commit the row that was created is mapped; null makes that throw.
RespondImport(r) ==
    /\ req[r].pc = "respond"
    /\ Answer(r, "import", req[r].order,
              IF FindStockImportById([import |-> req[r].read]) = {} THEN "error" ELSE "done")
    /\ UNCHANGED <<suppliers, purchases, imports, stock, price, walk>>

(* --------------------------- Prices of variants ------------------------- *)

\* updatePriceVariant takes the unit price of an item of that variant ...
ReadUnitPrice(r, v, id) ==
    /\ req[r].pc = "idle"
    /\ Goto(r, "price", "price", v, NULL, << >>, NULL,
            IF id \in ItemIds /\ ItemOf(id).variant = v THEN ItemOf(id).unitPrice ELSE NULL)
    /\ UNCHANGED <<suppliers, purchases, imports, stock, price, walk>>

\* ... and writes it; without one it is NaN, which the database client refuses.
UpdatePriceVariant(r) ==
    /\ req[r].pc = "price"
    /\ IF req[r].read = NULL
       THEN price' = price /\ Answer(r, "price", NULL, "refused")
       ELSE price' = [price EXCEPT ![req[r].order] = req[r].read] /\ Answer(r, "price", NULL, "done")
    /\ UNCHANGED <<suppliers, purchases, imports, stock, walk>>

(* --------------------------------- Lists -------------------------------- *)

\* The rows of a list before paging, by createdAt and id descending.
NewestFirst(table) ==
    Reverse([i \in DOMAIN table |-> i])

\* findPurchaseOrders with and without a status
PurchaseList(status) ==
    IF status = NULL THEN NewestFirst(purchases)
    ELSE SelectSeq(NewestFirst(purchases), LAMBDA p : purchases[p].status = status)

ListOf(name) ==
    CASE name = "suppliers" -> NewestFirst(suppliers)
      [] name = "imports" -> NewestFirst(imports)
      [] OTHER -> PurchaseList(NULL)

\* skip (page - 1) * limit and take limit; a page past the end is empty
PageOf(list, page, limit) ==
    SubSeq(list, (page - 1) * limit + 1,
           IF page * limit < Len(list) THEN page * limit ELSE Len(list))

NoWalk == [list |-> NULL, page |-> 0, total |-> 0, due |-> {}, seen |-> {}]

\* The admin opens a list: what is in it is due to be seen.
OpenList(name) ==
    /\ walk = NoWalk
    /\ walk' = [NoWalk EXCEPT !.list = name, !.page = 1, !.due = Range(ListOf(name))]
    /\ UNCHANGED <<suppliers, purchases, imports, stock, price, req>>

\* Mutant of the next one: the offset is one page too far.
SkipsPage(limit) ==
    LET rows == PageOf(ListOf(walk.list), walk.page + 1, limit) IN
    /\ walk.list # NULL /\ walk.page > 0
    /\ walk' = [walk EXCEPT !.seen = @ \union Range(rows), !.page = IF rows = << >> THEN 0 ELSE @ + 1]
    /\ UNCHANGED <<suppliers, purchases, imports, stock, price, req>>

\* The next page, until one is empty.
NextPage(limit) ==
    LET rows == PageOf(ListOf(walk.list), walk.page, limit) IN
    /\ walk.list # NULL /\ walk.page > 0
    /\ walk' = [walk EXCEPT !.seen = @ \union Range(rows), !.page = IF rows = << >> THEN 0 ELSE @ + 1]
    /\ UNCHANGED <<suppliers, purchases, imports, stock, price, req>>

(* ------------------------------------------------------------------------ *)

FirstCode == CHOOSE c \in Codes : TRUE

PurchasingInit ==
    /\ suppliers = <<[code |-> FirstCode, active |-> TRUE]>>
    /\ purchases \in {<<NewPurchaseOrder(FirstCode, 1, body)>> : body \in OldOrders}
    /\ imports = << >>
    /\ stock = [v \in Variants |-> 0]
    /\ price = [v \in Variants |-> NULL]
    /\ req = [r \in Requests |-> Idle]
    /\ walk = NoWalk

StartRequest(r) ==
    \/ \E c \in Codes : CreateSupplier(r, c)
    \/ \E s \in 1..Len(suppliers) + 1 : ReadSupplier(r, s)
    \/ \E c \in Codes, s \in 1..Len(suppliers) + 1, b \in OrderBodies : CreatePurchaseOrder(r, c, s, b)
    \/ \E p \in 1..Len(purchases) + 1 :
          \/ \E status \in PurchaseStatus : CheckPurchaseOrder(r, p, status)
          \/ UpdateStatusTransfer(r, p)
          \/ \E lines \in Deliveries : ReadItems(r, p, lines)
    \/ \E v \in Variants, id \in ItemIds : ReadUnitPrice(r, v, id)

GoOn(r) ==
    \/ UpdateSupplierActive(r)
    \/ UpdatePurchaseOrderStatus(r)
    \/ CreateStockImport(r)
    \/ RespondImport(r)
    \/ UpdatePriceVariant(r)

PurchasingNext ==
    \/ \E r \in Requests : StartRequest(r) \/ GoOn(r)
    \/ \E name \in {"suppliers", "purchases", "imports"} : OpenList(name)
    \/ NextPage(1)
=============================================================================
