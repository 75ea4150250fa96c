-------------------------- MODULE BackOfficeProofs --------------------------
(***************************************************************************)
(* What an order costs and what a variant has in stock are sums, and the   *)
(* proofs are about sums: SumFacts has what they need.                     *)
(***************************************************************************)
EXTENDS BackOffice, SumFacts, SequenceTheorems

(* ------------------------------ The invariant --------------------------- *)

\* A line of a delivery names an item and is priced as WithLack does it.
Priced(line) ==
    /\ line.item \in ItemIds
    /\ line.lack = ItemOf(line.item).quantity - line.real
    /\ line.totalPrice = line.real * ItemOf(line.item).price - line.lack * ItemOf(line.item).price

Lines(lines) == lines \in Seq(ImportLine) /\ \A i \in DOMAIN lines : Priced(lines[i])

\* What the items of an order cost at the prices the columns kept.
FullPrices(items) == [n \in DOMAIN items |-> items[n].price * items[n].quantity]

Quantity(items) == [n \in DOMAIN items |-> items[n].quantity]

\* An order is for at least one copy of each item, and its amount is off the sum of
\* what its items cost by half a cent per copy and half a cent at most.
AddedUp(order) ==
    LET over == SumFunction(FullPrices(order.items)) - order.totalAmount
        most == SumFunction(Quantity(order.items)) + 1
    IN  /\ -most <= 2 * over /\ 2 * over <= most
        /\ \A n \in DOMAIN order.items : order.items[n].quantity >= 1

\* What a request has found out before it writes.
Informed(q) ==
    /\ q.pc = "decide" =>
          /\ q.order \in DOMAIN purchases
          /\ q.status \in {"APPROVED", "REJECTED"}
          /\ q.was = "PENDING"
    /\ q.pc = "import" => Lines(q.lines)

RequestInv == DOMAIN req = Requests /\ \A r \in Requests : Informed(req[r])

OrderInv == \A p \in DOMAIN purchases : AddedUp(purchases[p])

\* An import belongs to an order, which cost what its lines say.
Paid(import) ==
    /\ import.order \in DOMAIN purchases
    /\ Lines(import.items)
    /\ purchases[import.order].realPayPrice = RealPayPrice(import.items)

PaidInv == \A i \in DOMAIN imports : Paid(imports[i])

BackInv == TypeOK /\ RequestInv /\ OrderInv /\ PaidInv /\ StockIsImported

(* ------------------------- What a step may do --------------------------- *)

SupplierMove ==
    \/ suppliers' = suppliers
    \/ \E code \in Codes :
          /\ \A s \in DOMAIN suppliers : suppliers[s].code # code
          /\ suppliers' = Append(suppliers, [code |-> code, active |-> TRUE])
    \/ \E s \in DOMAIN suppliers, a \in BOOLEAN : suppliers' = [suppliers EXCEPT ![s].active = a]

Created ==
    \E code \in Codes, s \in DOMAIN suppliers, body \in OrderBodies :
        /\ \A p \in DOMAIN purchases : purchases[p].code # code
        /\ purchases' = Append(purchases, NewPurchaseOrder(code, s, body))
        /\ UNCHANGED <<imports, stock>>

Decided ==
    \E r \in Requests :
        /\ req[r].pc = "decide"
        /\ purchases' = [purchases EXCEPT ![req[r].order].status = req[r].status]
        /\ UNCHANGED <<imports, stock>>

Processed ==
    \E p \in DOMAIN purchases :
        /\ purchases' = [purchases EXCEPT ![p] = Transferred(@, "PROCESSING", NULL)]
        /\ UNCHANGED <<imports, stock>>

\* The lines come in for order p.
ImportOf(p, lines) ==
    /\ Importable(p)
    /\ imports' = Append(imports, [order |-> p, items |-> lines,
                                   totalAmount |-> SumFunction(TotalPrices(lines))])
    /\ stock' = [v \in Variants |-> stock[v] + Delivered(lines, v)]
    /\ purchases' = [purchases EXCEPT ![p] = Transferred(@, "PURCHASE", RealPayPrice(lines))]

Imported == \E r \in Requests : req[r].pc = "import" /\ ImportOf(req[r].order, req[r].lines)

OrderMove ==
    \/ UNCHANGED <<purchases, imports, stock>>
    \/ Created
    \/ Decided
    \/ Processed
    \/ Imported

\* What a request remembers when it goes on.
Remembers(q) ==
    \/ q.pc \notin {"decide", "import"}
    \/ /\ q.pc = "decide"
       /\ q.order \in DOMAIN purchases
       /\ q.status \in {"APPROVED", "REJECTED"}
       /\ q.was = "PENDING"
    \/ /\ q.pc = "import"
       /\ \E lines \in Deliveries :
             /\ \A i \in DOMAIN lines : lines[i].item \in ItemIds
             /\ q.lines = [i \in DOMAIN lines |-> WithLack(lines[i])]

RequestMove ==
    \/ req' = req
    \/ \E r \in Requests : req' = [req EXCEPT ![r] = req'[r]] /\ Remembers(req'[r])

Moves == SupplierMove /\ OrderMove /\ RequestMove

\* Where a request goes on, it remembers what it is told to.
LEMMA Gone ==
    ASSUME RequestInv, NEW r \in Requests,
           NEW pc, NEW kind, NEW order, NEW status, NEW lines, NEW was, NEW read,
           Goto(r, pc, kind, order, status, lines, was, read)
    PROVE  /\ req' = [req EXCEPT ![r] = req'[r]]
           /\ req'[r].pc = pc /\ req'[r].order = order /\ req'[r].status = status
           /\ req'[r].lines = lines /\ req'[r].was = was
<1> DEFINE q == [pc |-> pc, kind |-> kind, order |-> order,
                 status |-> status, lines |-> lines, was |-> was, read |-> read]
<1>1. req' = [req EXCEPT ![r] = q]
  BY DEF Goto
<1>2. req'[r] = q
  <2> HIDE DEF q
  <2> QED BY <1>1 DEF RequestInv
<1>3. /\ q.pc = pc /\ q.order = order /\ q.status = status
      /\ q.lines = lines /\ q.was = was
  OBVIOUS
<1> HIDE DEF q
<1> QED BY <1>1, <1>2, <1>3

\* A request that does not decide or import needs to remember nothing.
LEMMA GoneElsewhere ==
    ASSUME RequestInv, NEW r \in Requests,
           NEW pc, NEW kind, NEW order, NEW status, NEW lines, NEW was, NEW read,
           Goto(r, pc, kind, order, status, lines, was, read), pc \notin {"decide", "import"}
    PROVE  RequestMove
<1>1. req' = [req EXCEPT ![r] = req'[r]] /\ req'[r].pc = pc
  BY Gone
<1> QED BY <1>1 DEF RequestMove, Remembers

\* An answer ends a request.
LEMMA Answered ==
    ASSUME RequestInv, NEW r \in Requests, NEW kind, NEW order, NEW answer,
           Answer(r, kind, order, answer), answer \notin {"decide", "import"}
    PROVE  RequestMove
BY GoneElsewhere DEF Answer

\* A request to the back office that begins does one of these.
LEMMA StartMoves ==
    ASSUME BackInv, NEW r \in Requests, StartRequest(r)
    PROVE  Moves
<1>i. RequestInv
  BY DEF BackInv
<1>1. ASSUME NEW c \in Codes, CreateSupplier(r, c)
      PROVE  Moves
  <2>1. RequestMove
    BY <1>i, <1>1, Answered DEF CreateSupplier
  <2>2. SupplierMove /\ OrderMove
    BY <1>1 DEF CreateSupplier, SupplierMove, OrderMove
  <2> QED BY <2>1, <2>2 DEF Moves
<1>2. ASSUME NEW s, ReadSupplier(r, s)
      PROVE  Moves
  <2>1. RequestMove
    BY <1>i, <1>2, Answered, GoneElsewhere DEF ReadSupplier
  <2>2. SupplierMove /\ OrderMove
    BY <1>2 DEF ReadSupplier, SupplierMove, OrderMove
  <2> QED BY <2>1, <2>2 DEF Moves
<1>3. ASSUME NEW c \in Codes, NEW s, NEW b \in OrderBodies, CreatePurchaseOrder(r, c, s, b)
      PROVE  Moves
  <2>1. RequestMove
    BY <1>i, <1>3, Answered DEF CreatePurchaseOrder
  <2>2. SupplierMove /\ OrderMove
    BY <1>3 DEF CreatePurchaseOrder, SupplierMove, OrderMove, Created, Creatable
  <2> QED BY <2>1, <2>2 DEF Moves
<1>4. ASSUME NEW p, NEW status \in PurchaseStatus, CheckPurchaseOrder(r, p, status)
      PROVE  Moves
  <2>1. RequestMove
    <3>1. CASE Answer(r, "decide", p, "refused")
      BY <1>i, <3>1, Answered
    <3>2. CASE /\ status \in {"APPROVED", "REJECTED"} /\ Decidable(p)
               /\ Goto(r, "decide", "decide", p, status, << >>, purchases[p].status, NULL)
      <4>1. /\ req' = [req EXCEPT ![r] = req'[r]]
            /\ req'[r].pc = "decide" /\ req'[r].order = p /\ req'[r].status = status
            /\ req'[r].was = purchases[p].status
        BY <1>i, <3>2, Gone
      <4>2. Remembers(req'[r])
        BY <3>2, <4>1 DEF Remembers, Decidable
      <4> QED BY <4>1, <4>2 DEF RequestMove
    <3> QED BY <1>4, <3>1, <3>2 DEF CheckPurchaseOrder
  <2>2. SupplierMove /\ OrderMove
    BY <1>4 DEF CheckPurchaseOrder, SupplierMove, OrderMove
  <2> QED BY <2>1, <2>2 DEF Moves
<1>5. ASSUME NEW p, UpdateStatusTransfer(r, p)
      PROVE  Moves
  <2>1. RequestMove
    BY <1>i, <1>5, Answered DEF UpdateStatusTransfer
  <2>2. SupplierMove /\ OrderMove
    BY <1>5 DEF UpdateStatusTransfer, SupplierMove, OrderMove, Processed
  <2> QED BY <2>1, <2>2 DEF Moves
<1>6. ASSUME NEW p, NEW lines \in Deliveries, ReadItems(r, p, lines)
      PROVE  Moves
  <2>1. RequestMove
    <3>1. CASE Answer(r, "import", p, "refused")
      BY <1>i, <3>1, Answered
    <3> DEFINE priced == [i \in DOMAIN lines |-> WithLack(lines[i])]
    <3>2. CASE /\ \A i \in DOMAIN lines : lines[i].item \in ItemIds
               /\ Goto(r, "import", "import", p, NULL, priced, NULL, NULL)
      <4>1. /\ req' = [req EXCEPT ![r] = req'[r]]
            /\ req'[r].pc = "import" /\ req'[r].lines = priced
        <5> HIDE DEF priced
        <5> QED BY <1>i, <3>2, Gone
      <4>2. Remembers(req'[r])
        BY <3>2, <4>1 DEF Remembers
      <4> QED BY <4>1, <4>2 DEF RequestMove
    <3> QED BY <1>6, <3>1, <3>2 DEF ReadItems
  <2>2. SupplierMove /\ OrderMove
    BY <1>6 DEF ReadItems, SupplierMove, OrderMove
  <2> QED BY <2>1, <2>2 DEF Moves
<1>7. ASSUME NEW v \in Variants, NEW id \in ItemIds, ReadUnitPrice(r, v, id)
      PROVE  Moves
  <2>1. RequestMove
    BY <1>i, <1>7, GoneElsewhere DEF ReadUnitPrice
  <2>2. SupplierMove /\ OrderMove
    BY <1>7 DEF ReadUnitPrice, SupplierMove, OrderMove
  <2> QED BY <2>1, <2>2 DEF Moves
<1> QED BY <1>1, <1>2, <1>3, <1>4, <1>5, <1>6, <1>7 DEF StartRequest

\* A request that goes on does one of these.
LEMMA GoOnMoves ==
    ASSUME BackInv, NEW r \in Requests, GoOn(r)
    PROVE  Moves
<1>i. RequestInv
  BY DEF BackInv
<1>1. CASE UpdateSupplierActive(r)
  <2>1. RequestMove
    BY <1>i, <1>1, Answered DEF UpdateSupplierActive
  <2>2. SupplierMove
    <3> DEFINE s == req[r].order
               a == (req[r].was = "inactive")
    <3>1. suppliers' = [suppliers EXCEPT ![s].active = a] /\ a \in BOOLEAN
      BY <1>1 DEF UpdateSupplierActive
    <3>2. CASE s \in DOMAIN suppliers
      BY <3>1, <3>2 DEF SupplierMove
    <3>3. CASE s \notin DOMAIN suppliers
      <4>1. suppliers \in Seq(Supplier)
        BY DEF BackInv, TypeOK
      <4>2. suppliers' = suppliers
        BY <3>1, <3>3, <4>1
      <4> QED BY <4>2 DEF SupplierMove
    <3> QED BY <3>2, <3>3
  <2>3. OrderMove
    BY <1>1 DEF UpdateSupplierActive, OrderMove
  <2> QED BY <2>1, <2>2, <2>3 DEF Moves
<1>2. CASE UpdatePurchaseOrderStatus(r)
  <2>1. RequestMove
    BY <1>i, <1>2, Answered DEF UpdatePurchaseOrderStatus
  <2>2. SupplierMove /\ OrderMove
    BY <1>2 DEF UpdatePurchaseOrderStatus, SupplierMove, OrderMove, Decided
  <2> QED BY <2>1, <2>2 DEF Moves
<1>3. CASE CreateStockImport(r)
  <2>1. RequestMove
    BY <1>i, <1>3, Answered, GoneElsewhere DEF CreateStockImport, NewStockImport
  <2>2. SupplierMove
    BY <1>3 DEF CreateStockImport, NewStockImport, SupplierMove
  <2>3. OrderMove
    <3>1. CASE UNCHANGED <<imports, stock, purchases>>
      BY <3>1 DEF OrderMove
    <3>2. CASE ImportOf(req[r].order, req[r].lines) /\ req[r].pc = "import"
      BY <3>2 DEF OrderMove, Imported
    <3> QED BY <1>3, <3>1, <3>2 DEF CreateStockImport, NewStockImport, ImportOf, IncrementStock
  <2> QED BY <2>1, <2>2, <2>3 DEF Moves
<1>4. CASE RespondImport(r)
  <2>1. RequestMove
    BY <1>i, <1>4, Answered DEF RespondImport
  <2>2. SupplierMove /\ OrderMove
    BY <1>4 DEF RespondImport, SupplierMove, OrderMove
  <2> QED BY <2>1, <2>2 DEF Moves
<1>5. CASE UpdatePriceVariant(r)
  <2>1. RequestMove
    BY <1>i, <1>5, Answered DEF UpdatePriceVariant
  <2>2. SupplierMove /\ OrderMove
    BY <1>5 DEF UpdatePriceVariant, SupplierMove, OrderMove
  <2> QED BY <2>1, <2>2 DEF Moves
<1> QED BY <1>1, <1>2, <1>3, <1>4, <1>5 DEF GoOn

\* Every step of the back office does one of these to each table.
LEMMA StepMoves ==
    ASSUME BackInv, [PurchasingNext]_purchasingVars
    PROVE  Moves
<1>1. ASSUME NEW name, OpenList(name) PROVE Moves
  BY <1>1 DEF OpenList, Moves, SupplierMove, OrderMove, RequestMove
<1>2. CASE NextPage(1)
  BY <1>2 DEF NextPage, Moves, SupplierMove, OrderMove, RequestMove
<1>3. CASE UNCHANGED purchasingVars
  BY <1>3 DEF purchasingVars, Moves, SupplierMove, OrderMove, RequestMove
<1> QED BY <1>1, <1>2, <1>3, StartMoves, GoOnMoves DEF PurchasingNext

(* ------------------------------- New orders ----------------------------- *)

\* A column keeps a natural number of cents and is off by half a cent at most.
LEMMA RoundedNear ==
    ASSUME NEW a \in Nat
    PROVE  /\ Rounded(a) \in Nat
           /\ (2 * Grain) * Rounded(a) - 2 * a <= Grain
           /\ 2 * a - (2 * Grain) * Rounded(a) <= Grain
<1>1. Grain \in Nat /\ Grain # 0
  BY PurchasingConstants
<1>2. ASSUME NEW x \in Nat, NEW d \in Nat, d # 0
      PROVE  /\ x \div d \in Nat
             /\ d * (x \div d) <= x /\ x - d * (x \div d) < d
  BY <1>2
<1> DEFINE r == Rounded(a)
<1>3. /\ r \in Nat
      /\ (2 * Grain) * r <= 2 * a + Grain
      /\ (2 * a + Grain) - (2 * Grain) * r < 2 * Grain
  <2>1. PICK x, d : x = 2 * a + Grain /\ d = 2 * Grain
    OBVIOUS
  <2>2. x \in Nat /\ d \in Nat /\ d # 0
    BY <1>1, <2>1
  <2>3. r = x \div d
    BY <2>1 DEF Rounded
  <2>4. x \div d \in Nat /\ d * (x \div d) <= x /\ x - d * (x \div d) < d
    BY <1>2, <2>2
  <2> HIDE DEF r
  <2> QED BY <2>1, <2>3, <2>4
<1> HIDE DEF r
<1>4. PICK m : m = (2 * Grain) * r
  OBVIOUS
<1>5. m \in Int
  BY <1>1, <1>3, <1>4
<1>6. m - 2 * a <= Grain /\ 2 * a - m <= Grain
  BY <1>1, <1>3, <1>4, <1>5
<1> QED BY <1>3, <1>4, <1>6 DEF r

\* The elements of a sequence are what it is a sequence of.
LEMMA ElementTyped ==
    ASSUME NEW S, NEW s \in Seq(S), NEW i \in DOMAIN s
    PROVE  s[i] \in S
OBVIOUS

\* The positions of a sequence are finitely many.
LEMMA FinitePositions ==
    ASSUME NEW S, NEW s \in Seq(S)
    PROVE  IsFiniteSet(DOMAIN s)
<1>1. DOMAIN s = 1..Len(s) /\ Len(s) \in Nat
  OBVIOUS
<1> QED BY <1>1, FS_Interval

\* An item is priced without its discount, and what its copies cost at the price
\* that is kept is off their cost by half a cent per copy at most.
LEMMA ItemPriced ==
    ASSUME NEW b \in ItemBody, b.discount <= b.unitPrice, NEW item, item = WithPrices(b)
    PROVE  /\ item \in PurchaseItem /\ item.quantity >= 1 /\ Cost(b) \in Nat
           /\ (2 * Grain) * (item.price * item.quantity) - 2 * Cost(b) <= Grain * item.quantity
           /\ 2 * Cost(b) - (2 * Grain) * (item.price * item.quantity) <= Grain * item.quantity
<1>1. /\ b.variant \in Variants /\ b.quantity \in Nat \ {0}
      /\ b.unitPrice \in Nat /\ b.discount \in Nat
  BY DEF ItemBody
<1>2. PICK net, q, kept : net = Net(b) /\ q = b.quantity /\ kept = Rounded(net)
  OBVIOUS
<1>3. net \in Nat /\ q \in Nat /\ q >= 1 /\ net * q \in Nat /\ Cost(b) = net * q
  BY <1>1, <1>2 DEF Net, Cost
<1>4. Rounded(b.unitPrice) \in Nat /\ kept \in Nat /\ Rounded(Cost(b)) \in Nat
  BY <1>1, <1>2, <1>3, RoundedNear
<1>5. item = [variant |-> b.variant, quantity |-> q, unitPrice |-> Rounded(b.unitPrice),
              price |-> kept, totalPrice |-> Rounded(Cost(b))]
  BY <1>2 DEF WithPrices
<1>6. item \in PurchaseItem /\ item.quantity = q /\ item.price = kept
  BY <1>1, <1>3, <1>4, <1>5 DEF PurchaseItem
<1>7. (2 * Grain) * kept - 2 * net <= Grain /\ 2 * net - (2 * Grain) * kept <= Grain
  BY <1>2, <1>3, RoundedNear
<1>g. Grain \in Nat
  BY PurchasingConstants
<1>8. PICK m : m = (2 * Grain) * kept
  OBVIOUS
<1>9. m \in Int /\ m - 2 * net <= Grain /\ 2 * net - m <= Grain
  BY <1>g, <1>4, <1>7, <1>8
<1>10. ASSUME NEW x \in Int, NEW y \in Int, x <= y
       PROVE  q * x <= q * y
  <2>1. q * (y - x) >= 0
    BY <1>3, <1>10
  <2>2. q * (y - x) = q * y - q * x /\ q * y \in Int /\ q * x \in Int
    BY <1>3
  <2> QED BY <2>1, <2>2
<1>11. q * (m - 2 * net) <= q * Grain /\ q * (2 * net - m) <= q * Grain
  BY <1>3, <1>9, <1>10, <1>g
<1>12. /\ q * (m - 2 * net) = (2 * Grain) * (kept * q) - 2 * (net * q)
       /\ q * (2 * net - m) = 2 * (net * q) - (2 * Grain) * (kept * q)
       /\ q * Grain = Grain * q
  BY <1>g, <1>3, <1>4, <1>8
<1> QED BY <1>3, <1>6, <1>11, <1>12

\* The prices, costs and quantities of the items of an order are natural numbers.
LEMMA ItemTotals ==
    ASSUME NEW items \in Seq(PurchaseItem)
    PROVE  /\ IsFiniteSet(DOMAIN items)
           /\ FullPrices(items) \in [DOMAIN items -> Nat]
           /\ Quantity(items) \in [DOMAIN items -> Nat]
<1>1. ASSUME NEW i \in DOMAIN items
      PROVE  items[i].price * items[i].quantity \in Nat /\ items[i].quantity \in Nat
  <2>1. items[i] \in PurchaseItem
    BY ElementTyped
  <2>2. items[i].price \in Nat /\ items[i].quantity \in Nat
    BY <2>1 DEF PurchaseItem
  <2> QED BY <2>2
<1>2. IsFiniteSet(DOMAIN items)
  BY FinitePositions
<1> QED BY <1>1, <1>2 DEF FullPrices, Quantity

\* Sums that are near to each other in grains are near to each other in cents.
LEMMA NearInCents ==
    ASSUME NEW g \in Nat, g # 0, NEW p \in Int, NEW t \in Int, NEW c \in Int, NEW n \in Int,
           (2 * g) * p - 2 * c <= g * n, 2 * c - (2 * g) * p <= g * n,
           (2 * g) * t - 2 * c <= g, 2 * c - (2 * g) * t <= g
    PROVE  2 * (p - t) <= n + 1 /\ -(n + 1) <= 2 * (p - t)
<1>1. ASSUME NEW x \in Int, NEW y \in Int, g * x <= g * y
      PROVE  x <= y
  <2> SUFFICES ASSUME y + 1 <= x PROVE FALSE
    OBVIOUS
  <2>1. g * (x - y - 1) >= 0
    OBVIOUS
  <2>2. g * (x - y - 1) = g * x - g * y - g /\ g * x \in Int /\ g * y \in Int
    OBVIOUS
  <2> QED BY <1>1, <2>1, <2>2
<1>2. PICK a, b, d : a = (2 * g) * p /\ b = (2 * g) * t /\ d = g * n
  OBVIOUS
<1>3. a \in Int /\ b \in Int /\ d \in Int
  BY <1>2
<1>4. a - b <= d + g /\ b - a <= d + g
  BY <1>2, <1>3
<1>5. /\ a - b = g * (2 * (p - t)) /\ b - a = g * (2 * (t - p))
      /\ d + g = g * (n + 1)
  BY <1>2
<1>6. 2 * (p - t) <= n + 1 /\ 2 * (t - p) <= n + 1
  BY <1>1, <1>4, <1>5
<1> QED BY <1>6

\* An order that is created has an amount and no decision or import.
LEMMA NewOrder ==
    ASSUME NEW code \in Codes, NEW s \in Nat, NEW body \in OrderBodies \union OldOrders,
           NEW o, o = NewPurchaseOrder(code, s, body)
    PROVE  /\ o \in PurchaseOrder /\ AddedUp(o) /\ o.code = code /\ o.supplier = s
           /\ o.status = "PENDING" /\ o.transfer = "PENDING" /\ o.realPayPrice = NULL
<1>1. body \in Seq(ItemBody) /\ \A i \in DOMAIN body : body[i].discount <= body[i].unitPrice
  BY PurchasingConstants
<1>g. Grain \in Nat /\ Grain # 0
  BY PurchasingConstants
<1> DEFINE items == [i \in DOMAIN body |-> WithPrices(body[i])]
           Near(item, cost) ==
               /\ (2 * Grain) * (item.price * item.quantity) - 2 * cost <= Grain * item.quantity
               /\ 2 * cost - (2 * Grain) * (item.price * item.quantity) <= Grain * item.quantity
<1>2. ASSUME NEW i \in DOMAIN body
      PROVE  /\ items[i] \in PurchaseItem /\ items[i].quantity >= 1
             /\ Cost(body[i]) \in Nat /\ Near(items[i], Cost(body[i]))
  <2>1. body[i] \in ItemBody /\ body[i].discount <= body[i].unitPrice
    BY <1>1, ElementTyped
  <2>2. PICK item : item = WithPrices(body[i])
    OBVIOUS
  <2>3. items[i] = item
    BY <2>2
  <2> HIDE DEF items
  <2> QED BY <2>1, <2>2, <2>3, ItemPriced
<1>3. items \in Seq(PurchaseItem) /\ DOMAIN items = DOMAIN body
  <2>1. DOMAIN body = 1..Len(body) /\ Len(body) \in Nat
    BY <1>1
  <2>2. items = [i \in 1..Len(body) |-> WithPrices(body[i])]
    BY <2>1
  <2>3. items \in [1..Len(body) -> PurchaseItem]
    <3>1. \A i \in 1..Len(body) : items[i] \in PurchaseItem
      <4> HIDE DEF items
      <4> QED BY <1>2, <2>1
    <3> QED BY <2>2, <3>1
  <2> HIDE DEF items
  <2> QED BY <2>1, <2>3
<1>4. o = [code |-> code, supplier |-> s, status |-> "PENDING", transfer |-> "PENDING",
           items |-> items, totalAmount |-> Rounded(SumFunction(Costs(body))), realPayPrice |-> NULL]
  BY DEF NewPurchaseOrder
<1> HIDE DEF items, Near
<1>5. PICK S, f, q, c :
          S = DOMAIN items /\ f = FullPrices(items) /\ q = Quantity(items) /\ c = Costs(body)
  OBVIOUS
<1>6. /\ IsFiniteSet(S) /\ f \in [S -> Nat] /\ q \in [S -> Nat] /\ c \in [S -> Nat]
      /\ \A i \in S : f[i] = items[i].price * items[i].quantity /\ q[i] = items[i].quantity
                      /\ c[i] = Cost(body[i])
  <2>1. IsFiniteSet(S) /\ f \in [S -> Nat] /\ q \in [S -> Nat]
    BY <1>3, <1>5, ItemTotals
  <2>2. c \in [S -> Nat]
    BY <1>2, <1>3, <1>5 DEF Costs
  <2> QED BY <1>3, <1>5, <2>1, <2>2 DEF FullPrices, Quantity, Costs
<1>7. PICK P, N, C, T : P = SumFunction(f) /\ N = SumFunction(q) /\ C = SumFunction(c) /\ T = Rounded(C)
  OBVIOUS
<1>8. P \in Nat /\ N \in Nat /\ C \in Nat
  BY <1>6, <1>7, SumNatural
<1>9. T \in Nat /\ (2 * Grain) * T - 2 * C <= Grain /\ 2 * C - (2 * Grain) * T <= Grain
  BY <1>7, <1>8, RoundedNear
<1>10. (2 * Grain) * P - 2 * C <= Grain * N /\ 2 * C - (2 * Grain) * P <= Grain * N
  <2> DEFINE c2 == [i \in S |-> 2 * c[i]]
             gq == [i \in S |-> Grain * q[i]]
  <2>1. c2 \in [S -> Int] /\ gq \in [S -> Int] /\ f \in [S -> Int] /\ c \in [S -> Int] /\ q \in [S -> Int]
    BY <1>g, <1>6
  <2>2. ASSUME NEW i \in S
        PROVE  (2 * Grain) * f[i] - c2[i] <= gq[i] /\ c2[i] - (2 * Grain) * f[i] <= gq[i]
    <3>1. c2[i] = 2 * Cost(body[i]) /\ gq[i] = Grain * items[i].quantity
          /\ f[i] = items[i].price * items[i].quantity
      BY <1>6
    <3>2. Near(items[i], Cost(body[i]))
      BY <1>2, <1>3, <1>5
    <3> QED BY <3>1, <3>2 DEF Near
  <2>3. \A i \in S : c2[i] = 2 * c[i] /\ gq[i] = Grain * q[i]
    OBVIOUS
  <2> HIDE DEF c2, gq
  <2>4. /\ (2 * Grain) * P - SumFunction(c2) <= SumFunction(gq)
        /\ SumFunction(c2) - (2 * Grain) * P <= SumFunction(gq)
    <3>1. 2 * Grain \in Nat
      BY <1>g
    <3> QED BY <1>6, <1>7, <2>1, <2>2, <3>1, SumNear
  <2>5. SumFunction(c2) = 2 * C
    <3>1. 2 \in Nat /\ \A i \in S : c2[i] = 2 * c[i]
      BY <2>3
    <3> QED BY <1>6, <1>7, <2>1, <3>1, SumScaled
  <2>6. SumFunction(gq) = Grain * N
    BY <1>g, <1>6, <1>7, <2>1, <2>3, SumScaled
  <2> QED BY <2>4, <2>5, <2>6
<1>11. 2 * (P - T) <= N + 1 /\ -(N + 1) <= 2 * (P - T)
  BY <1>g, <1>8, <1>9, <1>10, NearInCents
<1>12. o.items = items /\ o.totalAmount = T
  BY <1>4, <1>5, <1>7
<1>13. o \in PurchaseOrder
  BY <1>3, <1>4, <1>9, <1>12 DEF PurchaseOrder, PurchaseStatus, TransferStatus
<1>14. AddedUp(o)
  <2>1. \A n \in DOMAIN items : items[n].quantity >= 1
    BY <1>2, <1>3
  <2> QED BY <1>5, <1>7, <1>11, <1>12, <2>1 DEF AddedUp
<1> QED BY <1>4, <1>13, <1>14

(* ------------------------- The rows of the orders ----------------------- *)

\* What no request changes of an order.
Same(o, n) ==
    /\ n.items = o.items /\ n.totalAmount = o.totalAmount
    /\ n.code = o.code /\ n.supplier = o.supplier

\* A new row has an order of its own, which costs what its items say.
NewRow(p) ==
    /\ p = Len(purchases) + 1
    /\ AddedUp(purchases'[p])
    /\ purchases'[p].supplier \in DOMAIN suppliers
    /\ \A q \in DOMAIN purchases : purchases[q].code # purchases'[p].code
    /\ purchases'[p].transfer = "PENDING"
    /\ purchases'[p].realPayPrice = NULL

\* Rows are added and never replaced.
OrderRows ==
    /\ purchases' \in Seq(PurchaseOrder)
    /\ \A p \in DOMAIN purchases : p \in DOMAIN purchases' /\ Same(purchases[p], purchases'[p])
    /\ \A p \in DOMAIN purchases' : p \in DOMAIN purchases \/ NewRow(p)

\* A transfer changes how far an order is, and the price if one was paid.
LEMMA TransferredOrder ==
    ASSUME NEW o \in PurchaseOrder, NEW transfer \in TransferStatus, NEW paid \in Int \union {NULL},
           NEW n, n = Transferred(o, transfer, paid)
    PROVE  /\ n \in PurchaseOrder /\ Same(o, n)
           /\ n.transfer = transfer
           /\ n.realPayPrice = IF paid = NULL THEN o.realPayPrice ELSE paid
           /\ n.status = o.status
BY DEF PurchaseOrder, Transferred, Same

\* An order that is replaced by one with the same items leaves the others alone.
LEMMA OrderReplaced ==
    ASSUME TypeOK, NEW p \in DOMAIN purchases, NEW n \in PurchaseOrder, Same(purchases[p], n),
           purchases' = [purchases EXCEPT ![p] = n]
    PROVE  /\ OrderRows
           /\ DOMAIN purchases' = DOMAIN purchases
           /\ \A q \in DOMAIN purchases : purchases'[q] = IF q = p THEN n ELSE purchases[q]
<1>1. purchases \in Seq(PurchaseOrder)
  BY DEF TypeOK
<1>2. DOMAIN purchases = 1..Len(purchases) /\ p \in 1..Len(purchases)
  BY <1>1
<1>3. /\ purchases' \in Seq(PurchaseOrder)
      /\ Len(purchases') = Len(purchases)
      /\ \A q \in 1..Len(purchases) : purchases'[q] = IF q = p THEN n ELSE purchases[q]
  BY <1>1, <1>2, ExceptSeq
<1>4. DOMAIN purchases' = 1..Len(purchases)
  BY <1>3
<1>5. \A q \in DOMAIN purchases : Same(purchases[q], purchases'[q])
  BY <1>2, <1>3 DEF Same
<1> QED BY <1>2, <1>3, <1>4, <1>5 DEF OrderRows

\* An order that is created is the last.
LEMMA OrderAppended ==
    ASSUME TypeOK, Created
    PROVE  /\ OrderRows
           /\ \A q \in DOMAIN purchases : purchases'[q] = purchases[q]
<1>1. PICK code \in Codes, s \in DOMAIN suppliers, body \in OrderBodies :
          /\ \A p \in DOMAIN purchases : purchases[p].code # code
          /\ purchases' = Append(purchases, NewPurchaseOrder(code, s, body))
  BY DEF Created
<1>2. PICK o : o = NewPurchaseOrder(code, s, body)
  OBVIOUS
<1>3. s \in Nat
  BY DEF TypeOK
<1>4. /\ o \in PurchaseOrder /\ AddedUp(o) /\ o.code = code /\ o.supplier = s
      /\ o.transfer = "PENDING" /\ o.realPayPrice = NULL
  BY <1>2, <1>3, NewOrder
<1>5. purchases \in Seq(PurchaseOrder)
  BY DEF TypeOK
<1>6. /\ purchases' \in Seq(PurchaseOrder)
      /\ Len(purchases') = Len(purchases) + 1
      /\ \A p \in 1..Len(purchases) : purchases'[p] = purchases[p]
      /\ purchases'[Len(purchases) + 1] = o
  BY <1>1, <1>2, <1>4, <1>5, AppendProperties
<1>7. /\ DOMAIN purchases = 1..Len(purchases) /\ Len(purchases) \in Nat
      /\ DOMAIN purchases' = 1..Len(purchases) + 1
  BY <1>5, <1>6
<1>8. NewRow(Len(purchases) + 1)
  BY <1>1, <1>4, <1>6 DEF NewRow
<1>9. \A p \in DOMAIN purchases' : p \in DOMAIN purchases \/ p = Len(purchases) + 1
  BY <1>7
<1>10. \A p \in DOMAIN purchases : p \in DOMAIN purchases' /\ Same(purchases[p], purchases'[p])
  BY <1>6, <1>7 DEF Same
<1> QED BY <1>6, <1>7, <1>8, <1>9, <1>10 DEF OrderRows

(* ------------------------------ Items and lines ------------------------- *)

\* An item that is named by its id is there and typed.
LEMMA ItemTyped ==
    ASSUME TypeOK, NEW id \in ItemIds
    PROVE  /\ id.order \in DOMAIN purchases /\ id.n \in DOMAIN purchases[id.order].items
           /\ id = [order |-> id.order, n |-> id.n]
           /\ ItemOf(id) \in PurchaseItem /\ id \in ItemId
<1>0. PICK p \in DOMAIN purchases : \E i \in DOMAIN purchases[p].items : id = [order |-> p, n |-> i]
  BY DEF ItemIds
<1>1. PICK i \in DOMAIN purchases[p].items : id = [order |-> p, n |-> i]
  BY <1>0
<1>2. id.order = p /\ id.n = i
  BY <1>1
<1>3. purchases[p] \in PurchaseOrder /\ p \in Nat
  BY DEF TypeOK
<1>4. purchases[p].items \in Seq(PurchaseItem)
  BY <1>3 DEF PurchaseOrder
<1>5. purchases[p].items[i] \in PurchaseItem /\ i \in Nat
  BY <1>4
<1> QED BY <1>1, <1>2, <1>3, <1>5 DEF ItemOf, ItemId

\* Items stay what they are when orders are added or written.
LEMMA ItemsStay ==
    ASSUME TypeOK, OrderRows, NEW id \in ItemIds
    PROVE  id \in ItemIds' /\ ItemOf(id)' = ItemOf(id)
<1> DEFINE p == id.order
           i == id.n
<1>1. p \in DOMAIN purchases /\ i \in DOMAIN purchases[p].items /\ id = [order |-> p, n |-> i]
  BY ItemTyped
<1>2. p \in DOMAIN purchases' /\ purchases'[p].items = purchases[p].items
  BY <1>1 DEF OrderRows, Same
<1>3. i \in DOMAIN purchases'[p].items
  BY <1>1, <1>2
<1>4. ItemOf(id)' = ItemOf(id)
  BY <1>2 DEF ItemOf
<1> QED BY <1>1, <1>2, <1>3, <1>4 DEF ItemIds

\* Which copies of v the lines bring, line by line.
Copies(lines, v) == [i \in DOMAIN lines |-> IF ItemOf(lines[i].item).variant = v THEN lines[i].real ELSE 0]

\* The sums over a delivery are numbers.
LEMMA LinesTyped ==
    ASSUME TypeOK, NEW lines, Lines(lines)
    PROVE  /\ IsFiniteSet(DOMAIN lines)
           /\ \A i \in DOMAIN lines :
                 lines[i] \in ImportLine /\ lines[i].item \in ItemIds /\ lines[i].real \in Nat
           /\ TotalPrices(lines) \in [DOMAIN lines -> Int]
           /\ UnitPrices(lines) \in [DOMAIN lines -> Nat]
           /\ \A v \in Variants : Copies(lines, v) \in [DOMAIN lines -> Nat]
<1>1. lines \in Seq(ImportLine)
  BY DEF Lines
<1>2. \A i \in DOMAIN lines : lines[i] \in ImportLine
  BY <1>1
<1>3. \A i \in DOMAIN lines : lines[i].real \in Nat /\ lines[i].totalPrice \in Int
  BY <1>2 DEF ImportLine
<1>4. \A i \in DOMAIN lines : lines[i].item \in ItemIds
  BY DEF Lines, Priced
<1>5. \A i \in DOMAIN lines : ItemOf(lines[i].item).price \in Nat
  BY <1>4, ItemTyped DEF PurchaseItem
<1>6. TotalPrices(lines) \in [DOMAIN lines -> Int]
  BY <1>3 DEF TotalPrices
<1>7. UnitPrices(lines) \in [DOMAIN lines -> Nat]
  BY <1>5 DEF UnitPrices
<1>8. \A v \in Variants : Copies(lines, v) \in [DOMAIN lines -> Nat]
  BY <1>3 DEF Copies
<1>9. IsFiniteSet(DOMAIN lines)
  BY <1>1, FinitePositions
<1> QED BY <1>2, <1>3, <1>4, <1>6, <1>7, <1>8, <1>9

\* Copies are delivered in natural numbers, and the price is an integer.
LEMMA SumsTyped ==
    ASSUME TypeOK, NEW lines, Lines(lines)
    PROVE  /\ \A v \in Variants : Delivered(lines, v) \in Nat
           /\ SumFunction(TotalPrices(lines)) \in Int
           /\ RealPayPrice(lines) \in Int
<1>1. \A v \in Variants : Delivered(lines, v) \in Nat
  <2> SUFFICES ASSUME NEW v \in Variants PROVE Delivered(lines, v) \in Nat
    OBVIOUS
  <2>1. Delivered(lines, v) = SumFunction(Copies(lines, v))
    BY DEF Delivered, Copies
  <2>2. SumFunction(Copies(lines, v)) \in Nat
    BY LinesTyped, SumNatural
  <2> QED BY <2>1, <2>2
<1>2. SumFunction(TotalPrices(lines)) \in Int
  BY LinesTyped, SumInteger
<1>3. SumFunction(UnitPrices(lines)) \in Nat
  BY LinesTyped, SumNatural
<1> QED BY <1>1, <1>2, <1>3 DEF RealPayPrice

\* What lines say and bring stays what it is.
LEMMA LinesStay ==
    ASSUME TypeOK, OrderRows, NEW lines, Lines(lines)
    PROVE  /\ Lines(lines)'
           /\ \A v : Delivered(lines, v)' = Delivered(lines, v)
           /\ RealPayPrice(lines)' = RealPayPrice(lines)
<1>1. \A i \in DOMAIN lines : lines[i].item \in ItemIds
  BY DEF Lines, Priced
<1>2. \A i \in DOMAIN lines :
          lines[i].item \in ItemIds' /\ ItemOf(lines[i].item)' = ItemOf(lines[i].item)
  BY <1>1, ItemsStay
<1>3. Lines(lines)'
  BY <1>2 DEF Lines, Priced
<1>4. UnitPrices(lines)' = UnitPrices(lines)
  BY <1>2 DEF UnitPrices
<1>5. \A v : Copies(lines, v)' = Copies(lines, v)
  BY <1>2 DEF Copies
<1>6. \A v : Delivered(lines, v)' = Delivered(lines, v)
  BY <1>5 DEF Delivered, Copies
<1>7. TotalPrices(lines)' = TotalPrices(lines)
  BY DEF TotalPrices
<1>8. RealPayPrice(lines)' = RealPayPrice(lines)
  BY <1>4, <1>7 DEF RealPayPrice
<1> QED BY <1>3, <1>6, <1>8

\* A line that WithLack makes is priced.
LEMMA LackPriced ==
    ASSUME TypeOK, NEW lines \in Deliveries, \A i \in DOMAIN lines : lines[i].item \in ItemIds
    PROVE  Lines([i \in DOMAIN lines |-> WithLack(lines[i])])
<1> DEFINE made == [i \in DOMAIN lines |-> WithLack(lines[i])]
<1>1. lines \in Seq([item : [order : Nat, n : Nat], real : Nat])
  BY PurchasingConstants
<1>2. ASSUME NEW i \in DOMAIN lines
      PROVE  made[i] \in ImportLine /\ Priced(made[i])
  <2> DEFINE item == ItemOf(lines[i].item)
             lack == item.quantity - lines[i].real
             total == lines[i].real * item.price - lack * item.price
  <2>1. lines[i].real \in Nat
    <3>1. lines[i] \in [item : [order : Nat, n : Nat], real : Nat]
      BY <1>1, ElementTyped
    <3> QED BY <3>1
  <2>2. lines[i].item \in ItemIds
    OBVIOUS
  <2>3. item.quantity \in Nat /\ item.price \in Nat
    <3>1. item \in PurchaseItem
      BY <2>2, ItemTyped
    <3> QED BY <3>1 DEF PurchaseItem
  <2>4. lines[i].item \in ItemId
    BY <2>2, ItemTyped
  <2>5. lack \in Int
    BY <2>1, <2>3
  <2>6. total \in Int
    <3> HIDE DEF item, lack
    <3> QED BY <2>1, <2>3, <2>5
  <2>7. made[i] = [item |-> lines[i].item, real |-> lines[i].real, lack |-> lack, totalPrice |-> total]
    <3>1. WithLack(lines[i]) =
             [item |-> lines[i].item, real |-> lines[i].real, lack |-> lack, totalPrice |-> total]
      BY DEF WithLack
    <3> QED BY <3>1
  <2>8. made[i] \in ImportLine
    <3> HIDE DEF made, lack, total
    <3> QED BY <2>1, <2>4, <2>5, <2>6, <2>7 DEF ImportLine
  <2>9. Priced(made[i])
    BY <2>2, <2>7 DEF Priced
  <2> QED BY <2>8, <2>9
<1>3. DOMAIN lines = 1..Len(lines) /\ Len(lines) \in Nat
  BY <1>1
<1>4. made \in [1..Len(lines) -> ImportLine]
  <2>1. made = [i \in 1..Len(lines) |-> made[i]]
    BY <1>3
  <2> HIDE DEF made
  <2>2. \A i \in 1..Len(lines) : made[i] \in ImportLine
    BY <1>2, <1>3
  <2> QED BY <2>1, <2>2
<1>5. DOMAIN made = DOMAIN lines
  OBVIOUS
<1> HIDE DEF made
<1>6. made \in Seq(ImportLine)
  BY <1>3, <1>4
<1>7. Lines(made)
  BY <1>2, <1>5, <1>6 DEF Lines
<1> QED BY <1>7 DEF made

(* ---------------------------- Writing one order ------------------------- *)

\* A decision changes the status of one order and nothing else.
LEMMA DecidedRows ==
    ASSUME BackInv, Decided
    PROVE  /\ OrderRows /\ DOMAIN purchases' = DOMAIN purchases
           /\ \A q \in DOMAIN purchases :
                 /\ purchases'[q].transfer = purchases[q].transfer
                 /\ purchases'[q].realPayPrice = purchases[q].realPayPrice
<1>1. PICK r \in Requests :
          /\ req[r].pc = "decide"
          /\ purchases' = [purchases EXCEPT ![req[r].order].status = req[r].status]
  BY DEF Decided
<1>2. PICK p, status : p = req[r].order /\ status = req[r].status
  OBVIOUS
<1>3. p \in DOMAIN purchases /\ status \in PurchaseStatus
  BY <1>1, <1>2 DEF BackInv, RequestInv, Informed, PurchaseStatus
<1>4. PICK n : n = [purchases[p] EXCEPT !.status = status]
  OBVIOUS
<1>5. purchases[p] \in PurchaseOrder
  BY <1>3, ElementTyped DEF BackInv, TypeOK
<1>6. /\ n \in PurchaseOrder /\ Same(purchases[p], n)
      /\ n.transfer = purchases[p].transfer /\ n.realPayPrice = purchases[p].realPayPrice
  BY <1>3, <1>4, <1>5 DEF PurchaseOrder, Same
<1>7. purchases' = [purchases EXCEPT ![p] = n]
  BY <1>1, <1>2, <1>4
<1>8. /\ OrderRows
      /\ DOMAIN purchases' = DOMAIN purchases
      /\ \A q \in DOMAIN purchases : purchases'[q] = IF q = p THEN n ELSE purchases[q]
  BY <1>3, <1>6, <1>7, OrderReplaced DEF BackInv
<1> QED BY <1>6, <1>8

\* Nor does a transfer that is only processed, but for the transfer itself.
LEMMA ProcessedRows ==
    ASSUME BackInv, Processed
    PROVE  /\ OrderRows /\ DOMAIN purchases' = DOMAIN purchases
           /\ \A q \in DOMAIN purchases :
                 /\ purchases'[q].transfer \in {purchases[q].transfer, "PROCESSING"}
                 /\ purchases'[q].realPayPrice = purchases[q].realPayPrice
                 /\ purchases'[q].status = purchases[q].status
<1>1. PICK p \in DOMAIN purchases :
          purchases' = [purchases EXCEPT ![p] = Transferred(@, "PROCESSING", NULL)]
  BY DEF Processed
<1>2. PICK n : n = Transferred(purchases[p], "PROCESSING", NULL)
  OBVIOUS
<1>3. purchases[p] \in PurchaseOrder
  BY ElementTyped DEF BackInv, TypeOK
<1>4. /\ n \in PurchaseOrder /\ Same(purchases[p], n) /\ n.status = purchases[p].status
      /\ n.transfer = "PROCESSING" /\ n.realPayPrice = purchases[p].realPayPrice
  <2>1. n = [purchases[p] EXCEPT !.transfer = "PROCESSING"]
    BY <1>2, <1>3 DEF Transferred, PurchaseOrder
  <2> QED BY <1>3, <2>1 DEF PurchaseOrder, Same, TransferStatus
<1>5. purchases' = [purchases EXCEPT ![p] = n]
  BY <1>1, <1>2
<1>6. /\ OrderRows
      /\ DOMAIN purchases' = DOMAIN purchases
      /\ \A q \in DOMAIN purchases : purchases'[q] = IF q = p THEN n ELSE purchases[q]
  BY <1>4, <1>5, OrderReplaced DEF BackInv
<1> QED BY <1>4, <1>6

\* An import pays for its order and leaves the others alone.
LEMMA ImportedRows ==
    ASSUME BackInv, NEW p, NEW lines, Lines(lines), ImportOf(p, lines)
    PROVE  /\ p \in DOMAIN purchases
           /\ OrderRows /\ DOMAIN purchases' = DOMAIN purchases
           /\ purchases'[p].realPayPrice = RealPayPrice(lines)
           /\ \A q \in DOMAIN purchases \ {p} : purchases'[q] = purchases[q]
           /\ \A q \in DOMAIN purchases : purchases'[q].status = purchases[q].status
<1>1. /\ p \in DOMAIN purchases
      /\ purchases' = [purchases EXCEPT ![p] = Transferred(@, "PURCHASE", RealPayPrice(lines))]
  BY DEF ImportOf, Importable
<1>2. PICK n : n = Transferred(purchases[p], "PURCHASE", RealPayPrice(lines))
  OBVIOUS
<1>3. purchases[p] \in PurchaseOrder
  BY <1>1, ElementTyped DEF BackInv, TypeOK
<1>4. RealPayPrice(lines) \in Int
  BY SumsTyped DEF BackInv
<1>5. RealPayPrice(lines) # NULL
  BY <1>4, PurchasingConstants
<1>6. /\ n \in PurchaseOrder /\ Same(purchases[p], n) /\ n.status = purchases[p].status
      /\ n.realPayPrice = RealPayPrice(lines)
  BY SMTT(30), <1>2, <1>3, <1>4, <1>5, TransferredOrder DEF TransferStatus
<1>7. purchases' = [purchases EXCEPT ![p] = n]
  BY <1>1, <1>2
<1>8. /\ OrderRows
      /\ DOMAIN purchases' = DOMAIN purchases
      /\ \A q \in DOMAIN purchases : purchases'[q] = IF q = p THEN n ELSE purchases[q]
  BY <1>1, <1>6, <1>7, OrderReplaced DEF BackInv
<1> QED BY <1>1, <1>6, <1>8

\* The lines a request imports were priced when it read the items.
LEMMA ImportedLines ==
    ASSUME BackInv, Imported
    PROVE  \E p, lines : Lines(lines) /\ ImportOf(p, lines)
BY DEF BackInv, RequestInv, Informed, Imported

\* Whatever happens to the orders, no row is replaced.
LEMMA MoveRows ==
    ASSUME BackInv, OrderMove
    PROVE  OrderRows
<1>1. CASE UNCHANGED <<purchases, imports, stock>>
  BY <1>1 DEF BackInv, TypeOK, OrderRows, Same
<1>2. CASE Created
  BY <1>2, OrderAppended DEF BackInv
<1>3. CASE Decided
  BY <1>3, DecidedRows
<1>4. CASE Processed
  BY <1>4, ProcessedRows
<1>5. CASE Imported
  BY <1>5, ImportedLines, ImportedRows
<1> QED BY <1>1, <1>2, <1>3, <1>4, <1>5 DEF OrderMove

(* -------------------------- The steps keep it --------------------------- *)

\* An import is added with its lines, or the imports stay.
LEMMA ImportAdded ==
    ASSUME BackInv, NEW p, NEW lines, Lines(lines), ImportOf(p, lines)
    PROVE  /\ imports' \in Seq(StockImport)
           /\ DOMAIN imports' = DOMAIN imports \union {Len(imports) + 1}
           /\ Len(imports) + 1 \notin DOMAIN imports
           /\ \A i \in DOMAIN imports : imports'[i] = imports[i]
           /\ imports'[Len(imports) + 1].order = p /\ imports'[Len(imports) + 1].items = lines
<1>1. PICK new : new = [order |-> p, items |-> lines, totalAmount |-> SumFunction(TotalPrices(lines))]
  OBVIOUS
<1>2. new \in StockImport /\ new.order = p /\ new.items = lines
  <2>1. p \in Nat
    BY ImportedRows DEF BackInv, TypeOK
  <2>2. lines \in Seq(ImportLine) /\ SumFunction(TotalPrices(lines)) \in Int
    BY SumsTyped DEF BackInv, Lines
  <2> QED BY <1>1, <2>1, <2>2 DEF StockImport
<1>3. imports \in Seq(StockImport) /\ imports' = Append(imports, new)
  BY <1>1 DEF BackInv, TypeOK, ImportOf
<1>4. /\ imports' \in Seq(StockImport)
      /\ Len(imports') = Len(imports) + 1
      /\ \A i \in 1..Len(imports) : imports'[i] = imports[i]
      /\ imports'[Len(imports) + 1] = new
  BY <1>2, <1>3, AppendProperties
<1>5. /\ DOMAIN imports = 1..Len(imports) /\ Len(imports) \in Nat
      /\ DOMAIN imports' = 1..Len(imports) + 1
  BY <1>3, <1>4
<1> QED BY <1>2, <1>4, <1>5

\* Suppliers stay, and codes of their own.
LEMMA SuppliersTyped ==
    ASSUME BackInv, SupplierMove
    PROVE  /\ suppliers' \in Seq(Supplier)
           /\ DOMAIN suppliers \subseteq DOMAIN suppliers'
           /\ \A s, t \in DOMAIN suppliers' : suppliers'[s].code = suppliers'[t].code => s = t
<1>1. suppliers \in Seq(Supplier)
  BY DEF BackInv, TypeOK
<1>2. \A s, t \in DOMAIN suppliers : suppliers[s].code = suppliers[t].code => s = t
  BY DEF BackInv, TypeOK
<1>d. DOMAIN suppliers = 1..Len(suppliers) /\ Len(suppliers) \in Nat
  BY <1>1
<1>3. CASE suppliers' = suppliers
  BY <1>1, <1>2, <1>3
<1>4. ASSUME NEW code \in Codes, \A s \in DOMAIN suppliers : suppliers[s].code # code,
             suppliers' = Append(suppliers, [code |-> code, active |-> TRUE])
      PROVE  /\ suppliers' \in Seq(Supplier)
             /\ DOMAIN suppliers \subseteq DOMAIN suppliers'
             /\ \A s, t \in DOMAIN suppliers' : suppliers'[s].code = suppliers'[t].code => s = t
  <2>1. PICK new : new = [code |-> code, active |-> TRUE]
    OBVIOUS
  <2>2. new \in Supplier /\ new.code = code
    BY <2>1 DEF Supplier
  <2>3. /\ suppliers' \in Seq(Supplier)
        /\ Len(suppliers') = Len(suppliers) + 1
        /\ \A s \in 1..Len(suppliers) : suppliers'[s] = suppliers[s]
        /\ suppliers'[Len(suppliers) + 1] = new
    BY <1>1, <1>4, <2>1, <2>2, AppendProperties
  <2>4. DOMAIN suppliers' = 1..Len(suppliers) + 1
    BY <2>3
  <2> QED BY <1>2, <1>d, <1>4, <2>2, <2>3, <2>4
<1>5. ASSUME NEW s \in DOMAIN suppliers, NEW a \in BOOLEAN,
             suppliers' = [suppliers EXCEPT ![s].active = a]
      PROVE  /\ suppliers' \in Seq(Supplier)
             /\ DOMAIN suppliers \subseteq DOMAIN suppliers'
             /\ \A t, u \in DOMAIN suppliers' : suppliers'[t].code = suppliers'[u].code => t = u
  <2>1. PICK new : new = [suppliers[s] EXCEPT !.active = a]
    OBVIOUS
  <2>2. suppliers[s] \in Supplier
    BY <1>1, ElementTyped
  <2>3. new \in Supplier /\ new.code = suppliers[s].code
    BY <2>1, <2>2 DEF Supplier
  <2>4. suppliers' = [suppliers EXCEPT ![s] = new]
    BY <1>5, <2>1
  <2>5. /\ suppliers' \in Seq(Supplier)
        /\ Len(suppliers') = Len(suppliers)
        /\ \A t \in 1..Len(suppliers) : suppliers'[t] = IF t = s THEN new ELSE suppliers[t]
    BY <1>1, <1>d, <2>3, <2>4, ExceptSeq
  <2>6. DOMAIN suppliers' = DOMAIN suppliers
    BY <1>d, <2>5
  <2> QED BY <1>2, <1>d, <2>3, <2>5, <2>6
<1> QED BY <1>3, <1>4, <1>5 DEF SupplierMove

\* The tables stay typed.
LEMMA TypePreserved ==
    ASSUME BackInv, Moves
    PROVE  TypeOK'
<1>m. SupplierMove /\ OrderMove
  BY DEF Moves
<1>1. /\ suppliers' \in Seq(Supplier)
      /\ DOMAIN suppliers \subseteq DOMAIN suppliers'
      /\ \A s, t \in DOMAIN suppliers' : suppliers'[s].code = suppliers'[t].code => s = t
  BY <1>m, SuppliersTyped
<1>2. OrderRows
  BY <1>m, MoveRows
<1>3. imports' \in Seq(StockImport)
  <2>1. CASE Imported
    BY <2>1, ImportedLines, ImportAdded
  <2>2. CASE imports' = imports
    BY <2>2 DEF BackInv, TypeOK
  <2> QED BY <1>m, <2>1, <2>2 DEF OrderMove, Created, Decided, Processed
<1>4. \A p, q \in DOMAIN purchases' : purchases'[p].code = purchases'[q].code => p = q
  <2> SUFFICES ASSUME NEW p \in DOMAIN purchases', NEW q \in DOMAIN purchases',
                      purchases'[p].code = purchases'[q].code
               PROVE  p = q
    OBVIOUS
  <2>1. \A x \in DOMAIN purchases : purchases'[x].code = purchases[x].code
    BY <1>2 DEF OrderRows, Same
  <2>2. \A x \in DOMAIN purchases' \ DOMAIN purchases : NewRow(x)
    BY <1>2 DEF OrderRows
  <2>3. CASE p \in DOMAIN purchases /\ q \in DOMAIN purchases
    BY <2>1, <2>3 DEF BackInv, TypeOK
  <2>4. CASE p \notin DOMAIN purchases /\ q \notin DOMAIN purchases
    BY <2>2, <2>4 DEF NewRow
  <2>5. CASE p \in DOMAIN purchases /\ q \notin DOMAIN purchases
    <3>1. purchases[p].code # purchases'[q].code
      BY <2>2, <2>5 DEF NewRow
    <3> QED BY <2>1, <2>5, <3>1
  <2>6. CASE p \notin DOMAIN purchases /\ q \in DOMAIN purchases
    <3>1. purchases[q].code # purchases'[p].code
      BY <2>2, <2>6 DEF NewRow
    <3> QED BY <2>1, <2>6, <3>1
  <2> QED BY <2>3, <2>4, <2>5, <2>6
<1>5. \A p \in DOMAIN purchases' : purchases'[p].supplier \in DOMAIN suppliers'
  <2> SUFFICES ASSUME NEW p \in DOMAIN purchases' PROVE purchases'[p].supplier \in DOMAIN suppliers
    BY <1>1
  <2>1. CASE p \in DOMAIN purchases
    BY <1>2, <2>1 DEF OrderRows, Same, BackInv, TypeOK
  <2>2. CASE NewRow(p)
    BY <2>2 DEF NewRow
  <2> QED BY <1>2, <2>1, <2>2 DEF OrderRows
<1> QED BY <1>1, <1>2, <1>3, <1>4, <1>5 DEF TypeOK, OrderRows

\* Requests keep what they have found out, and find out what is true.
LEMMA RequestsPreserved ==
    ASSUME BackInv, Moves
    PROVE  RequestInv'
<1>1. OrderRows
  BY MoveRows DEF Moves
<1>2. ASSUME NEW q, Informed(q) PROVE Informed(q)'
  <2>1. DOMAIN purchases \subseteq DOMAIN purchases'
    BY <1>1 DEF OrderRows
  <2>2. ASSUME Lines(q.lines) PROVE Lines(q.lines)'
    <3>1. PICK lines : lines = q.lines
      OBVIOUS
    <3>2. Lines(lines)'
      BY <1>1, <2>2, <3>1, LinesStay DEF BackInv
    <3> QED BY <3>1, <3>2
  <2> QED BY <1>2, <2>1, <2>2 DEF Informed
<1>3. ASSUME NEW q, Remembers(q) PROVE Informed(q)
  <2>1. CASE q.pc = "import"
    <3>1. PICK lines \in Deliveries :
              /\ \A i \in DOMAIN lines : lines[i].item \in ItemIds
              /\ q.lines = [i \in DOMAIN lines |-> WithLack(lines[i])]
      BY <1>3, <2>1 DEF Remembers
    <3>2. Lines(q.lines)
      BY <3>1, LackPriced DEF BackInv
    <3> QED BY <2>1, <3>2 DEF Informed
  <2>2. CASE q.pc # "import"
    BY <1>3, <2>2 DEF Informed, Remembers
  <2> QED BY <2>1, <2>2
<1>4. DOMAIN req = Requests /\ \A r \in Requests : Informed(req[r])
  BY DEF BackInv, RequestInv
<1>5. DOMAIN req' = Requests
  BY <1>4 DEF Moves, RequestMove
<1>6. ASSUME NEW r \in Requests PROVE Informed(req'[r]) \/ req'[r] = req[r]
  <2>1. CASE req' = req
    BY <2>1
  <2>2. ASSUME NEW x \in Requests, req' = [req EXCEPT ![x] = req'[x]], Remembers(req'[x])
        PROVE  Informed(req'[r]) \/ req'[r] = req[r]
    <3>1. CASE r = x
      <4>1. PICK q : q = req'[x]
        OBVIOUS
      <4>2. Informed(q)
        BY <1>3, <2>2, <4>1
      <4> QED BY <3>1, <4>1, <4>2
    <3>2. CASE r # x
      BY <1>4, <2>2, <3>2
    <3> QED BY <3>1, <3>2
  <2> QED BY <2>1, <2>2 DEF Moves, RequestMove
<1>7. ASSUME NEW r \in Requests PROVE Informed(req[r])'
  <2>1. PICK q : q = req'[r]
    OBVIOUS
  <2>2. Informed(q)
    BY <1>4, <1>6, <2>1
  <2>3. Informed(q)'
    BY <1>2, <2>2
  <2> QED BY <2>1, <2>3
<1> QED BY <1>5, <1>7 DEF RequestInv

\* Every order goes on to cost what its items say.
LEMMA OrdersPreserved ==
    ASSUME BackInv, Moves
    PROVE  OrderInv'
<1>1. OrderRows
  BY MoveRows DEF Moves
<1> SUFFICES ASSUME NEW p \in DOMAIN purchases' PROVE AddedUp(purchases'[p])
  BY DEF OrderInv, AddedUp
<1>2. CASE p \in DOMAIN purchases
  <2>1. AddedUp(purchases[p])
    BY <1>2 DEF BackInv, OrderInv
  <2>2. purchases'[p].items = purchases[p].items /\ purchases'[p].totalAmount = purchases[p].totalAmount
    BY <1>1, <1>2 DEF OrderRows, Same
  <2> QED BY <2>1, <2>2 DEF AddedUp
<1>3. CASE NewRow(p)
  BY <1>3 DEF NewRow
<1> QED BY <1>1, <1>2, <1>3 DEF OrderRows

\* An import goes on to say what its order cost, as long as that stays.
LEMMA PaidStays ==
    ASSUME BackInv, OrderRows, NEW i \in DOMAIN imports, imports'[i] = imports[i],
           purchases'[imports[i].order].realPayPrice = purchases[imports[i].order].realPayPrice
    PROVE  Paid(imports[i])'
<1>1. PICK import : import = imports[i]
  OBVIOUS
<1>2. Paid(import)
  BY <1>1 DEF BackInv, PaidInv
<1>3. PICK p, lines : p = import.order /\ lines = import.items
  OBVIOUS
<1>4. Lines(lines)
  BY <1>2, <1>3 DEF Paid
<1>5. Lines(lines)' /\ RealPayPrice(lines)' = RealPayPrice(lines)
  BY <1>4, LinesStay DEF BackInv
<1>6. purchases'[p].realPayPrice = purchases[p].realPayPrice /\ p \in DOMAIN purchases'
  BY <1>1, <1>2, <1>3 DEF Paid, OrderRows
<1>7. Paid(import)'
  BY <1>2, <1>3, <1>5, <1>6 DEF Paid
<1> QED BY <1>1, <1>7

\* Imports and the orders they are of go on to agree about the price.
LEMMA PaidPreserved ==
    ASSUME BackInv, Moves
    PROVE  PaidInv'
<1>m. OrderMove /\ OrderRows
  BY MoveRows DEF Moves
<1>o. \A i \in DOMAIN imports : imports[i].order \in DOMAIN purchases
  BY DEF BackInv, PaidInv, Paid
<1>1. CASE Imported
  <2>1. PICK p, lines : Lines(lines) /\ ImportOf(p, lines)
    BY <1>1, ImportedLines
  <2>2. /\ purchases'[p].realPayPrice = RealPayPrice(lines)
        /\ \A q \in DOMAIN purchases \ {p} : purchases'[q] = purchases[q]
        /\ p \in DOMAIN purchases
    BY <2>1, ImportedRows
  <2>3. \A i \in DOMAIN imports : imports[i].order # p
    BY <2>1 DEF ImportOf, Importable
  <2>n. PICK n : n = Len(imports) + 1
    OBVIOUS
  <2>a. /\ DOMAIN imports' = DOMAIN imports \union {n}
        /\ \A i \in DOMAIN imports : imports'[i] = imports[i]
        /\ imports'[n].order = p /\ imports'[n].items = lines
    BY <2>1, <2>n, ImportAdded
  <2>4. ASSUME NEW i \in DOMAIN imports PROVE Paid(imports[i])'
    BY <1>m, <1>o, <2>2, <2>3, <2>a, PaidStays
  <2>5. Paid(imports[n])'
    <3>1. p \in DOMAIN purchases' /\ Lines(lines)' /\ RealPayPrice(lines)' = RealPayPrice(lines)
      BY <1>m, <2>1, <2>2, LinesStay DEF BackInv, OrderRows
    <3>2. PICK import : import = imports'[n]
      OBVIOUS
    <3>3. import.order = p /\ import.items = lines
      BY <2>a, <3>2
    <3>4. Paid(import)'
      BY <2>2, <3>1, <3>3 DEF Paid
    <3> QED BY <3>2, <3>4
  <2> QED BY <2>4, <2>5, <2>a DEF PaidInv
<1>2. CASE /\ imports' = imports
           /\ \A q \in DOMAIN purchases : purchases'[q].realPayPrice = purchases[q].realPayPrice
  <2>1. ASSUME NEW i \in DOMAIN imports PROVE Paid(imports[i])'
    BY <1>m, <1>o, <1>2, PaidStays
  <2> QED BY <1>2, <2>1 DEF PaidInv
<1>3. CASE UNCHANGED <<purchases, imports, stock>>
  BY <1>2, <1>3
<1>4. CASE Created
  BY <1>2, <1>4, OrderAppended DEF Created, BackInv
<1>5. CASE Decided
  BY <1>2, <1>5, DecidedRows DEF Decided
<1>6. CASE Processed
  BY <1>2, <1>6, ProcessedRows DEF Processed
<1> QED BY <1>m, <1>1, <1>3, <1>4, <1>5, <1>6 DEF OrderMove

\* What each import brought of v.
Brought(v) == [i \in DOMAIN imports |-> Delivered(imports[i].items, v)]

\* It is a number for every import.
LEMMA BroughtTyped ==
    ASSUME BackInv, NEW v \in Variants
    PROVE  IsFiniteSet(DOMAIN imports) /\ Brought(v) \in [DOMAIN imports -> Int]
<1>1. \A i \in DOMAIN imports : Lines(imports[i].items)
  BY DEF BackInv, PaidInv, Paid
<1>2. \A i \in DOMAIN imports : Delivered(imports[i].items, v) \in Int
  <2> SUFFICES ASSUME NEW i \in DOMAIN imports PROVE Delivered(imports[i].items, v) \in Int
    OBVIOUS
  <2>1. PICK lines : lines = imports[i].items
    OBVIOUS
  <2>2. Delivered(lines, v) \in Nat
    BY <1>1, <2>1, SumsTyped DEF BackInv
  <2> QED BY <2>1, <2>2
<1>3. IsFiniteSet(DOMAIN imports)
  BY FinitePositions DEF BackInv, TypeOK
<1> QED BY <1>2, <1>3 DEF Brought

\* What an import brought stays what it is.
LEMMA DeliveredStays ==
    ASSUME BackInv, OrderRows, NEW i \in DOMAIN imports, imports'[i] = imports[i], NEW v
    PROVE  Delivered(imports[i].items, v)' = Delivered(imports[i].items, v)
<1>1. PICK lines : lines = imports[i].items
  OBVIOUS
<1>2. Lines(lines)
  BY <1>1 DEF BackInv, PaidInv, Paid
<1>3. Delivered(lines, v)' = Delivered(lines, v)
  BY <1>2, LinesStay DEF BackInv
<1> QED BY <1>1, <1>3

\* The copies of an import are added to the stock once.
LEMMA StockAdded ==
    ASSUME BackInv, OrderRows, NEW p, NEW lines, Lines(lines), ImportOf(p, lines), NEW v \in Variants
    PROVE  stock'[v] = SumFunction(Brought(v)')
<1>1. PICK n : n = Len(imports) + 1
  OBVIOUS
<1>2. PICK S, f, e : S = DOMAIN imports /\ f = Brought(v) /\ e = Brought(v)'
  OBVIOUS
<1>3. /\ DOMAIN imports' = S \union {n} /\ n \notin S
      /\ \A i \in S : imports'[i] = imports[i]
      /\ imports'[n].items = lines
  BY <1>1, <1>2, ImportAdded
<1>4. IsFiniteSet(S) /\ f \in [S -> Int]
  BY <1>2, BroughtTyped
<1>5. e = [i \in S \union {n} |-> Delivered(imports[i].items, v)']
  BY <1>2, <1>3 DEF Brought
<1>6. \A i \in S : e[i] = f[i]
  BY <1>2, <1>3, <1>5, DeliveredStays DEF Brought
<1>7. e[n] = Delivered(lines, v) /\ e[n] \in Nat
  <2>1. Delivered(lines, v)' = Delivered(lines, v) /\ Delivered(lines, v) \in Nat
    BY LinesStay, SumsTyped DEF BackInv
  <2>2. PICK ls : ls = imports'[n].items
    OBVIOUS
  <2>3. e[n] = Delivered(ls, v)'
    BY <1>5, <2>2
  <2> QED BY <1>3, <2>1, <2>2, <2>3
<1>8. e \in [S \union {n} -> Int]
  BY <1>4, <1>5, <1>6, <1>7
<1>9. SumFunction(e) = SumFunction(f) + e[n]
  BY <1>3, <1>4, <1>6, <1>8, SumExtended
<1>10. stock[v] = SumFunction(f)
  BY <1>2 DEF BackInv, StockIsImported, Brought
<1>11. stock'[v] = stock[v] + Delivered(lines, v)
  BY DEF ImportOf
<1> QED BY <1>2, <1>7, <1>9, <1>10, <1>11

\* The stock goes on to be what was imported, once for an order.
LEMMA StockPreserved ==
    ASSUME BackInv, Moves
    PROVE  StockIsImported'
<1>m. OrderMove /\ OrderRows
  BY MoveRows DEF Moves
<1> DEFINE Once == \A i, j \in DOMAIN imports : imports[i].order = imports[j].order => i = j
           Due(o) == o.transfer = "PURCHASE" \/ o.realPayPrice # NULL
           Backed == \A p \in DOMAIN purchases : Due(purchases[p]) => \E i \in DOMAIN imports : imports[i].order = p
           Sums == \A v \in Variants : stock[v] = SumFunction(Brought(v))
<1>i. Once /\ Backed /\ Sums
  BY DEF BackInv, StockIsImported, Brought
<1>q. Once' /\ Backed' /\ Sums' => StockIsImported'
  BY DEF StockIsImported, Brought
<1>1. CASE Imported
  <2>1. PICK p, lines : Lines(lines) /\ ImportOf(p, lines)
    BY <1>1, ImportedLines
  <2>2. PICK n : n = Len(imports) + 1
    OBVIOUS
  <2>3. /\ DOMAIN imports' = DOMAIN imports \union {n} /\ n \notin DOMAIN imports
        /\ \A i \in DOMAIN imports : imports'[i] = imports[i]
        /\ imports'[n].order = p
    BY <2>1, <2>2, ImportAdded
  <2>4. \A i \in DOMAIN imports : imports[i].order # p
    BY <2>1 DEF ImportOf, Importable
  <2>5. Once'
    BY <1>i, <2>3, <2>4
  <2>6. /\ DOMAIN purchases' = DOMAIN purchases
        /\ \A q \in DOMAIN purchases \ {p} : purchases'[q] = purchases[q]
    BY <2>1, ImportedRows
  <2>7. Backed'
    <3> SUFFICES ASSUME NEW q \in DOMAIN purchases', Due(purchases'[q])
                 PROVE  \E i \in DOMAIN imports' : imports'[i].order = q
      OBVIOUS
    <3>1. CASE q = p
      BY <2>3, <3>1
    <3>2. CASE q # p
      <4>1. PICK i \in DOMAIN imports : imports[i].order = q
        BY <1>i, <2>6, <3>2
      <4> QED BY <2>3, <4>1
    <3> QED BY <3>1, <3>2
  <2>8. Sums'
    BY <1>m, <2>1, StockAdded
  <2> QED BY <1>q, <2>5, <2>7, <2>8
<1>2. CASE /\ UNCHANGED <<imports, stock>>
           /\ \A p \in DOMAIN purchases' :
                 \/ p \in DOMAIN purchases /\ (Due(purchases'[p]) => Due(purchases[p]))
                 \/ ~ Due(purchases'[p])
  <2>1. Once' /\ Backed'
    BY <1>2, <1>i
  <2>2. Sums'
    <3> SUFFICES ASSUME NEW v \in Variants PROVE stock[v] = SumFunction(Brought(v)')
      BY <1>2
    <3>1. Brought(v)' = Brought(v)
      BY <1>m, <1>2, DeliveredStays DEF Brought
    <3> QED BY <1>i, <3>1
  <2> QED BY <1>q, <2>1, <2>2
<1>3. CASE UNCHANGED <<purchases, imports, stock>>
  BY <1>2, <1>3
<1>4. CASE Created
  <2>1. \A p \in DOMAIN purchases' : p \in DOMAIN purchases \/ NewRow(p)
    BY <1>m DEF OrderRows
  <2>2. \A p \in DOMAIN purchases : purchases'[p] = purchases[p]
    BY <1>4, OrderAppended DEF BackInv
  <2>3. UNCHANGED <<imports, stock>>
    BY <1>4 DEF Created
  <2> QED BY <1>2, <2>1, <2>2, <2>3 DEF NewRow
<1>5. CASE Decided
  BY <1>2, <1>5, DecidedRows DEF Decided
<1>6. CASE Processed
  BY <1>2, <1>6, ProcessedRows DEF Processed
<1> QED BY <1>m, <1>1, <1>3, <1>4, <1>5, <1>6 DEF OrderMove

(* ------------------------------- Theorems ------------------------------- *)

\* At first there is one supplier with one order and nothing in stock.
LEMMA InitBack ==
    ASSUME PurchasingInit
    PROVE  BackInv
<1>c. FirstCode \in Codes
  BY PurchasingConstants DEF FirstCode
<1>1. PICK body \in OldOrders : purchases = <<NewPurchaseOrder(FirstCode, 1, body)>>
  BY DEF PurchasingInit
<1>2. PICK o : o = NewPurchaseOrder(FirstCode, 1, body)
  OBVIOUS
<1>3. /\ o \in PurchaseOrder /\ AddedUp(o) /\ o.supplier = 1
      /\ o.transfer = "PENDING" /\ o.realPayPrice = NULL
  BY <1>2, <1>c, NewOrder
<1>4. purchases = <<o>> /\ purchases \in Seq(PurchaseOrder) /\ DOMAIN purchases = {1} /\ purchases[1] = o
  BY <1>1, <1>2, <1>3
<1>5. PICK s : s = [code |-> FirstCode, active |-> TRUE]
  OBVIOUS
<1>6. s \in Supplier
  BY <1>c, <1>5 DEF Supplier
<1>7. suppliers = <<s>> /\ suppliers \in Seq(Supplier) /\ DOMAIN suppliers = {1}
  BY <1>5, <1>6 DEF PurchasingInit
<1>8. imports = << >> /\ imports \in Seq(StockImport) /\ DOMAIN imports = {}
  BY DEF PurchasingInit
<1>9. TypeOK
  BY <1>3, <1>4, <1>7, <1>8 DEF TypeOK
<1>10. RequestInv
  <2>1. req = [r \in Requests |-> Idle]
    BY DEF PurchasingInit
  <2>2. Idle.pc = "idle"
    BY DEF Idle
  <2>3. \A r \in Requests : req[r].pc = "idle"
    BY <2>1, <2>2
  <2> QED BY <2>1, <2>3 DEF RequestInv, Informed
<1>11. OrderInv
  BY <1>3, <1>4 DEF OrderInv
<1>12. PaidInv
  BY <1>8 DEF PaidInv
<1>13. StockIsImported
  <2>1. ASSUME NEW v \in Variants
        PROVE  stock[v] = SumFunction([i \in DOMAIN imports |-> Delivered(imports[i].items, v)])
    <3> DEFINE e == [i \in DOMAIN imports |-> Delivered(imports[i].items, v)]
    <3>1. e \in [{} -> Int] /\ IsFiniteSet({})
      BY <1>8, FS_EmptySet
    <3>2. SumFunction(e) = 0
      <4> HIDE DEF e
      <4> QED BY <3>1, SumInteger
    <3>3. stock[v] = 0
      BY DEF PurchasingInit
    <3> QED BY <3>2, <3>3
  <2>2. \A p \in DOMAIN purchases : purchases[p].transfer = "PENDING" /\ purchases[p].realPayPrice = NULL
    BY <1>3, <1>4
  <2> QED BY <1>8, <2>1, <2>2 DEF StockIsImported
<1> QED BY <1>9, <1>10, <1>11, <1>12, <1>13 DEF BackInv

\* The invariant holds in every behaviour.
LEMMA BackReachable == Spec => []BackInv
<1>1. PurchasingInit => BackInv
  BY InitBack
<1>2. BackInv /\ [PurchasingNext]_purchasingVars => BackInv'
  <2> SUFFICES ASSUME BackInv, [PurchasingNext]_purchasingVars PROVE BackInv'
    OBVIOUS
  <2>1. Moves
    BY StepMoves
  <2> QED BY <2>1, TypePreserved, RequestsPreserved, OrdersPreserved, PaidPreserved, StockPreserved
          DEF BackInv
<1> QED BY <1>1, <1>2, PTL DEF Spec

\* The tables of the back office hold suppliers, orders and imports with codes of
\* their own, and every order has a supplier.
THEOREM BackOfficeTyped == Spec => []TypeOK
<1>1. BackInv => TypeOK
  BY DEF BackInv
<1> QED BY <1>1, BackReachable, PTL

\* However often and in whatever order deliveries are reported, the stock is the
\* sum of what the imports brought, and an order is imported once.
THEOREM StockOnlyImported == Spec => []StockIsImported
<1>1. BackInv => StockIsImported
  BY DEF BackInv
<1> QED BY <1>1, BackReachable, PTL

\* The lines of a full delivery are the items of its order, one to one.
LEMMA FullMatch ==
    ASSUME BackInv, NEW i \in DOMAIN imports, IsFull(i)
    PROVE  LET lines == imports[i].items
               items == purchases[imports[i].order].items
           IN  \E b \in Bijection(DOMAIN items, DOMAIN lines) :
                  \A n \in DOMAIN items :
                     lines[b[n]].item = [order |-> imports[i].order, n |-> n] /\ lines[b[n]].lack = 0
<1> DEFINE p == imports[i].order
           lines == imports[i].items
           items == purchases[p].items
           Fits(n, l) == lines[l].item = [order |-> p, n |-> n] /\ lines[l].lack = 0
           b == [n \in DOMAIN items |-> CHOOSE l \in DOMAIN lines : Fits(n, l)]
<1>1. lines \in Seq(ImportLine) /\ p \in DOMAIN purchases
  BY DEF BackInv, PaidInv, Paid, Lines
<1>2. items \in Seq(PurchaseItem)
  <2>1. purchases[p] \in PurchaseOrder
    BY <1>1, ElementTyped DEF BackInv, TypeOK
  <2> QED BY <2>1 DEF PurchaseOrder
<1>3. Len(lines) = Len(items) /\ \A n \in DOMAIN items : \E l \in DOMAIN lines : Fits(n, l)
  BY DEF IsFull
<1>4. \A n \in DOMAIN items : b[n] \in DOMAIN lines /\ Fits(n, b[n])
  <2> HIDE DEF lines, items, Fits
  <2> QED BY <1>3
<1>5. b \in [DOMAIN items -> DOMAIN lines]
  <2>1. b = [n \in DOMAIN items |-> b[n]]
    OBVIOUS
  <2> HIDE DEF b, items, lines
  <2> QED BY <1>4, <2>1
<1>6. \A n, m \in DOMAIN items : b[n] = b[m] => n = m
  <2> SUFFICES ASSUME NEW n \in DOMAIN items, NEW m \in DOMAIN items, b[n] = b[m]
               PROVE  n = m
    OBVIOUS
  <2>1. [order |-> p, n |-> n] = [order |-> p, n |-> m]
    <3> HIDE DEF b, items
    <3> QED BY <1>4
  <2> QED BY <2>1
<1> HIDE DEF b, p
<1>7. DOMAIN lines = 1..Len(items) /\ DOMAIN items = 1..Len(items) /\ Len(items) \in Nat
  <2> HIDE DEF lines, items
  <2> QED BY <1>1, <1>2, <1>3
<1> HIDE DEF lines, items
<1>8. b \in Bijection(DOMAIN items, DOMAIN lines)
  <2>1. b \in Injection(DOMAIN items, DOMAIN lines)
    BY <1>5, <1>6 DEF Injection, IsInjective
  <2>2. IsFiniteSet(DOMAIN lines) /\ Cardinality(DOMAIN items) = Cardinality(DOMAIN lines)
    BY <1>7, FS_Interval
  <2>3. b \in Surjection(DOMAIN items, DOMAIN lines)
    BY <2>1, <2>2, FS_Injection
  <2> QED BY <2>1, <2>3 DEF Bijection
<1> QED BY <1>4, <1>8 DEF lines, items, p

\* What is paid for a full delivery is what its items cost at the prices kept.
LEMMA FullCosts ==
    ASSUME BackInv, NEW i \in DOMAIN imports, IsFull(i)
    PROVE  LET order == purchases[imports[i].order] IN
           /\ AddedUp(order)
           /\ order.realPayPrice = SumFunction(FullPrices(order.items))
<1>1. PICK p, lines, items :
          p = imports[i].order /\ lines = imports[i].items /\ items = purchases[p].items
  OBVIOUS
<1>2. PICK b \in Bijection(DOMAIN items, DOMAIN lines) :
          \A n \in DOMAIN items : lines[b[n]].item = [order |-> p, n |-> n] /\ lines[b[n]].lack = 0
  BY <1>1, FullMatch
<1>3. Lines(lines) /\ p \in DOMAIN purchases /\ purchases[p].realPayPrice = RealPayPrice(lines)
  BY <1>1 DEF BackInv, PaidInv, Paid
<1>4. AddedUp(purchases[p]) /\ TypeOK
  BY <1>3 DEF BackInv, OrderInv
<1>5. items \in Seq(PurchaseItem)
  <2>1. purchases[p] \in PurchaseOrder
    BY <1>3, <1>4, ElementTyped DEF TypeOK
  <2> QED BY <1>1, <2>1 DEF PurchaseOrder
<1>6. IsFiniteSet(DOMAIN items) /\ FullPrices(items) \in [DOMAIN items -> Nat]
  BY <1>5, ItemTotals
<1>7. /\ IsFiniteSet(DOMAIN lines)
      /\ \A l \in DOMAIN lines : lines[l] \in ImportLine /\ lines[l].real \in Nat
      /\ TotalPrices(lines) \in [DOMAIN lines -> Int]
      /\ UnitPrices(lines) \in [DOMAIN lines -> Nat]
  BY <1>3, <1>4, LinesTyped
<1>b. \A n \in DOMAIN items : b[n] \in DOMAIN lines
  BY DEF Bijection, Injection
<1>s. \A l \in DOMAIN lines : \E n \in DOMAIN items : l = b[n]
  BY DEF Bijection, Surjection
<1>8. ASSUME NEW n \in DOMAIN items
      PROVE  /\ FullPrices(items)[n] = TotalPrices(lines)[b[n]]
             /\ UnitPrices(lines)[b[n]] <= TotalPrices(lines)[b[n]]
  <2>1. items[n] \in PurchaseItem
    BY <1>5, ElementTyped
  <2>2. PICK line, item : line = lines[b[n]] /\ item = items[n]
    OBVIOUS
  <2>3. ItemOf(line.item) = item
    <3>1. PICK id : id = [order |-> p, n |-> n]
      OBVIOUS
    <3>2. id.order = p /\ id.n = n
      BY <3>1
    <3>3. ItemOf(id) = item
      BY <1>1, <2>2, <3>2 DEF ItemOf
    <3>4. line.item = id
      BY <1>2, <2>2, <3>1
    <3> QED BY <3>3, <3>4
  <2>4. /\ line.lack = item.quantity - line.real
        /\ line.totalPrice = line.real * item.price - line.lack * item.price
        /\ line.lack = 0 /\ line.real \in Nat
    BY <1>2, <1>3, <1>7, <1>b, <2>2, <2>3 DEF Lines, Priced
  <2>5. item.quantity >= 1
    BY <1>1, <1>4, <2>2 DEF AddedUp
  <2>6. item.quantity \in Nat /\ item.price \in Nat
    BY <2>1, <2>2 DEF PurchaseItem
  <2>7. line.real = item.quantity
    <3>1. PICK quantity, real : quantity = item.quantity /\ real = line.real
      OBVIOUS
    <3>2. 0 = quantity - real /\ quantity \in Nat /\ real \in Nat
      BY <2>4, <2>6, <3>1
    <3> QED BY <3>1, <3>2
  <2>8. line.totalPrice = item.price * item.quantity
    BY <2>4, <2>6, <2>7
  <2>9. item.price <= item.price * item.quantity
    <3>1. item.price * (item.quantity - 1) >= 0
      BY <2>5, <2>6
    <3>2. item.price * (item.quantity - 1) = item.price * item.quantity - item.price
      BY <2>6
    <3>3. item.price * item.quantity \in Int
      BY <2>6
    <3> QED BY <2>6, <3>1, <3>2, <3>3
  <2>10. FullPrices(items)[n] = item.price * item.quantity /\ TotalPrices(lines)[b[n]] = line.totalPrice
    BY <1>b, <2>2 DEF TotalPrices, FullPrices
  <2>11. UnitPrices(lines)[b[n]] = item.price
    BY <1>b, <2>2, <2>3 DEF UnitPrices
  <2> QED BY <2>8, <2>9, <2>10, <2>11
<1>9. PICK total, purchase : total = SumFunction(TotalPrices(lines)) /\ purchase = SumFunction(UnitPrices(lines))
  OBVIOUS
<1>10. total = SumFunction(FullPrices(items))
  BY <1>6, <1>7, <1>8, <1>9, SumMatched
<1>11. purchase <= total
  <2>1. \A l \in DOMAIN lines : UnitPrices(lines)[l] <= TotalPrices(lines)[l]
    BY <1>8, <1>s
  <2>2. UnitPrices(lines) \in [DOMAIN lines -> Int]
    BY <1>7
  <2> QED BY <1>7, <1>9, <2>1, <2>2, SumMonotone
<1>12. total \in Int /\ purchase \in Int
  BY <1>7, <1>9, SumInteger, SumNatural
<1>13. RealPayPrice(lines) = total
  BY <1>9, <1>11, <1>12 DEF RealPayPrice
<1> QED BY <1>1, <1>3, <1>4, <1>10, <1>13

\* The amount that is paid for a delivery that is complete is the amount of the
\* order but for what the columns round off, at most half a cent per copy and half
\* a cent, for every quantity, price and discount.
THEOREM FullDeliveriesCostTheOrder == Spec => []FullDeliveryCostsTheOrder
<1>1. BackInv => FullDeliveryCostsTheOrder
  BY FullCosts DEF FullDeliveryCostsTheOrder, AddedUp, Ordered, Quantity
<1> QED BY <1>1, BackReachable, PTL

\* A decision is replaced only by a request that found the order undecided.
THEOREM DecisionsStand == Spec => DecisionStands
<1> DEFINE Stands ==
       \A p \in DOMAIN purchases :
          purchases[p].status # "PENDING" /\ purchases'[p].status # purchases[p].status =>
              \E r \in Requests : req[r].pc = "decide" /\ req[r].order = p /\ req[r].was = "PENDING"
<1>1. BackInv /\ [PurchasingNext]_purchasingVars => Stands
  <2> SUFFICES ASSUME BackInv, [PurchasingNext]_purchasingVars,
                      NEW p \in DOMAIN purchases, purchases'[p].status # purchases[p].status
               PROVE  \E r \in Requests : req[r].pc = "decide" /\ req[r].order = p /\ req[r].was = "PENDING"
    OBVIOUS
  <2>1. OrderMove
    BY StepMoves DEF Moves
  <2>2. CASE Decided
    <3>1. PICK r \in Requests :
              /\ req[r].pc = "decide"
              /\ purchases' = [purchases EXCEPT ![req[r].order].status = req[r].status]
      BY <2>2 DEF Decided
    <3>2. req[r].order = p
      BY <3>1 DEF BackInv, TypeOK
    <3>3. req[r].was = "PENDING"
      BY <3>1 DEF BackInv, RequestInv, Informed
    <3> QED BY <3>1, <3>2, <3>3
  <2>3. CASE Created
    BY <2>3, OrderAppended DEF BackInv
  <2>4. CASE Processed
    BY <2>4, ProcessedRows
  <2>5. CASE Imported
    BY <2>5, ImportedLines, ImportedRows
  <2> QED BY <2>1, <2>2, <2>3, <2>4, <2>5 DEF OrderMove
<1>2. BackInv /\ [PurchasingNext]_purchasingVars => [Stands]_purchasingVars
  BY <1>1
<1> QED BY <1>2, BackReachable, PTL DEF Spec, DecisionStands

(* --------------------------------- Pages -------------------------------- *)

Listed(name) == CASE name = "suppliers" -> suppliers [] name = "imports" -> imports [] OTHER -> purchases

\* Of the rows that were there when the list was opened, those that have not been
\* seen are beyond the pages that were turned: what is inserted comes before them.
WalkInv ==
    walk # NoWalk =>
        LET n == Len(Listed(walk.list)) IN
        /\ walk = [list |-> walk.list, page |-> walk.page, total |-> walk.total, due |-> walk.due, seen |-> walk.seen]
        /\ walk.page \in Nat /\ walk.due \subseteq 1..n
        /\ \A d \in walk.due \ walk.seen : walk.page > 0 /\ d <= n - walk.page + 1

\* A list has every row, the last one first.
LEMMA ListRows ==
    ASSUME TypeOK, NEW name
    PROVE  LET n == Len(Listed(name)) IN
           n \in Nat /\ ListOf(name) \in Seq(1..n) /\ Len(ListOf(name)) = n
             /\ \A i \in 1..n : ListOf(name)[i] = n - i + 1
<1> DEFINE table == Listed(name)
           n == Len(table)
           numbers == [i \in DOMAIN table |-> i]
<1>1. ListOf(name) = NewestFirst(table)
  BY DEF ListOf, PurchaseList, Listed
<1>2. n \in Nat /\ DOMAIN table = 1..n
  BY DEF Listed, TypeOK
<1>3. numbers \in Seq(Nat) /\ Len(numbers) = n /\ \A i \in 1..n : numbers[i] = i
  <2> HIDE DEF table, n
  <2>1. numbers = [i \in 1..n |-> i]
    BY <1>2
  <2>2. numbers \in [1..n -> Nat]
    BY <2>1
  <2> HIDE DEF numbers
  <2> QED BY <1>2, <2>1, <2>2
<1>4. ListOf(name) = [i \in 1..n |-> numbers[(n - i) + 1]]
  BY <1>1, <1>3 DEF NewestFirst, Reverse
<1> HIDE DEF numbers, n, table
<1>5. ListOf(name) = [i \in 1..n |-> n - i + 1]
  BY <1>2, <1>3, <1>4
<1> QED BY <1>2, <1>5 DEF n, table

\* A sequence of one row.
LEMMA Single ==
    ASSUME NEW S, NEW s \in Seq(S), Len(s) = 1
    PROVE  Range(s) = {s[1]}
<1>1. DOMAIN s = 1..Len(s)
  BY LenProperties, Zenon
<1>2. DOMAIN s = {1}
  <2>1. 1..1 = {1}
    OBVIOUS
  <2> QED BY <1>1, <2>1, Zenon
<1> QED BY <1>2 DEF Range

\* A page of one row has the row whose turn it is.
LEMMA OneRow ==
    ASSUME NEW n \in Nat, NEW rows \in Seq(Nat), Len(rows) = n, NEW page \in Nat \ {0}
    PROVE  /\ page > n => PageOf(rows, page, 1) = << >>
           /\ page <= n => PageOf(rows, page, 1) # << >> /\ Range(PageOf(rows, page, 1)) = {rows[page]}
<1>1. PageOf(rows, page, 1) = SubSeq(rows, page, IF page < n THEN page ELSE n)
  BY DEF PageOf
<1>2. CASE page > n
  BY <1>1, <1>2
<1>3. CASE page <= n
  <2>1. PageOf(rows, page, 1) = SubSeq(rows, page, page)
    <3>1. (IF page < n THEN page ELSE n) = page
      BY <1>3
    <3> QED BY <1>1, <3>1, Zenon
  <2> PICK s : s = SubSeq(rows, page, page)
    OBVIOUS
  <2>2. s \in Seq(Nat) /\ Len(s) = 1 /\ s[1] = rows[page]
    BY <1>3
  <2>3. Range(s) = {rows[page]}
    BY <2>2, Single, Zenon
  <2>4. s # << >> /\ ~(page > n)
    BY <1>3, <2>2
  <2> QED BY <2>1, <2>3, <2>4, Zenon
<1> QED BY <1>2, <1>3

\* Rows are only added.
LEMMA TablesGrow ==
    ASSUME BackInv, BackInv', Moves, NEW name
    PROVE  Len(Listed(name)) \in Nat /\ Len(Listed(name)') \in Nat /\ Len(Listed(name)) <= Len(Listed(name)')
<1>1. Len(suppliers) <= Len(suppliers')
  <2>1. /\ suppliers \in Seq(Supplier) /\ suppliers' \in Seq(Supplier)
        /\ \/ suppliers' = suppliers
           \/ \E new : suppliers' = Append(suppliers, new)
           \/ DOMAIN suppliers' = DOMAIN suppliers
    BY DEF Moves, SupplierMove, BackInv, TypeOK
  <2>2. Len(suppliers) \in Nat /\ Len(suppliers') \in Nat
    BY <2>1
  <2>3. CASE suppliers' = suppliers
    BY <2>2, <2>3
  <2>4. CASE \E new : suppliers' = Append(suppliers, new)
    BY <2>1, <2>2, <2>4
  <2>5. CASE DOMAIN suppliers' = DOMAIN suppliers
    BY <2>1, <2>2, <2>5
  <2> QED BY <2>1, <2>3, <2>4, <2>5
<1>2. Len(purchases) <= Len(purchases')
  <2>1. OrderRows
    BY MoveRows DEF Moves
  <2>2. 1..Len(purchases) \subseteq 1..Len(purchases')
    BY <2>1 DEF OrderRows, BackInv, TypeOK
  <2>3. Len(purchases) \in Nat /\ Len(purchases') \in Nat
    BY DEF BackInv, TypeOK
  <2> QED BY <2>2, <2>3
<1>3. Len(imports) <= Len(imports')
  <2>1. CASE Imported
    <3>1. PICK p, lines : ImportOf(p, lines)
      BY <2>1 DEF Imported
    <3> QED BY <3>1 DEF ImportOf, BackInv, TypeOK
  <2>2. CASE imports' = imports
    BY <2>2 DEF BackInv, TypeOK
  <2> QED BY <2>1, <2>2 DEF Moves, OrderMove, Created, Decided, Processed
<1>4. Listed(name)' = CASE name = "suppliers" -> suppliers' [] name = "imports" -> imports' [] OTHER -> purchases'
  BY DEF Listed
<1> QED BY <1>1, <1>2, <1>3, <1>4 DEF Listed, BackInv, TypeOK

\* WalkInv is inductive.
LEMMA WalkStep ==
    ASSUME BackInv, BackInv', WalkInv, [PurchasingNext]_purchasingVars
    PROVE  WalkInv'
<1>1. ASSUME walk' = walk PROVE WalkInv'
  <2> SUFFICES ASSUME walk # NoWalk PROVE WalkInv'
    BY <1>1 DEF WalkInv, NoWalk
  <2> PICK w : w = walk
    OBVIOUS
  <2> PICK m, n : m = Len(Listed(w.list)) /\ n = Len(Listed(w.list)')
    OBVIOUS
  <2>1. m \in Nat /\ n \in Nat /\ m <= n
    BY StepMoves, TablesGrow
  <2>2. /\ w = [list |-> w.list, page |-> w.page, total |-> w.total, due |-> w.due, seen |-> w.seen]
        /\ w.page \in Nat /\ w.due \subseteq 1..m
        /\ \A d \in w.due \ w.seen : w.page > 0 /\ d <= m - w.page + 1
    BY DEF WalkInv
  <2>3. w.due \subseteq 1..n /\ \A d \in w.due \ w.seen : w.page > 0 /\ d <= n - w.page + 1
    BY <2>1, <2>2
  <2> QED BY <1>1, <2>2, <2>3 DEF WalkInv, Listed, NoWalk
<1>2. ASSUME NEW name, OpenList(name) PROVE WalkInv'
  <2> PICK n : n = Len(Listed(name))
    OBVIOUS
  <2> PICK due : due = Range(ListOf(name))
    OBVIOUS
  <2>1. /\ n \in Nat /\ ListOf(name) \in Seq(1..n)
    BY ListRows DEF BackInv
  <2>2. due \subseteq 1..n
    BY <2>1 DEF Range
  <2>3. walk' = [list |-> name, page |-> 1, total |-> 0, due |-> due, seen |-> {}]
    BY <1>2 DEF OpenList, NoWalk
  <2>4. Len(Listed(name)') = n
    BY <1>2 DEF OpenList, Listed
  <2>5. walk'.list = name /\ walk'.page = 1 /\ walk'.due = due /\ walk'.seen = {} /\ walk'.total = 0
    BY <2>3
  <2>6. Len(Listed(walk.list)') = n
    BY <2>4, <2>5 DEF Listed
  <2> QED BY <2>1, <2>2, <2>3, <2>5, <2>6 DEF WalkInv
<1>3. CASE NextPage(1)
  <2> DEFINE rows == PageOf(ListOf(walk.list), walk.page, 1)
  <2> PICK w : w = walk
    OBVIOUS
  <2> PICK n : n = Len(Listed(w.list))
    OBVIOUS
  <2> PICK list : list = ListOf(w.list)
    OBVIOUS
  <2>1. /\ w.list # NULL /\ w.page > 0
        /\ walk' = [w EXCEPT !.seen = @ \union Range(rows), !.page = IF rows = << >> THEN 0 ELSE @ + 1]
        /\ UNCHANGED <<suppliers, purchases, imports>>
    BY <1>3 DEF NextPage
  <2>2. /\ w = [list |-> w.list, page |-> w.page, total |-> w.total, due |-> w.due, seen |-> w.seen]
        /\ w.page \in Nat /\ w.due \subseteq 1..n
        /\ \A d \in w.due \ w.seen : w.page > 0 /\ d <= n - w.page + 1
    BY <2>1 DEF WalkInv, NoWalk
  <2>3. n \in Nat /\ list \in Seq(1..n) /\ Len(list) = n /\ \A i \in 1..n : list[i] = n - i + 1
    BY ListRows DEF BackInv
  <2>4. list \in Seq(Nat) /\ w.page \in Nat \ {0} /\ rows = PageOf(list, w.page, 1)
    BY <2>1, <2>2, <2>3
  <2>5. /\ w.page > n => rows = << >>
        /\ w.page <= n => rows # << >> /\ Range(rows) = {list[w.page]}
    BY <2>3, <2>4, OneRow
  <2> HIDE DEF rows
  <2>6. /\ walk'.list = w.list /\ walk'.due = w.due /\ walk'.seen = w.seen \union Range(rows)
        /\ walk'.page = IF rows = << >> THEN 0 ELSE w.page + 1
        /\ walk' = [list |-> walk'.list, page |-> walk'.page, total |-> walk'.total, due |-> walk'.due,
                    seen |-> walk'.seen]
    BY <2>1, <2>2
  <2>7. Len(Listed(walk.list)') = n
    BY <2>1, <2>6 DEF Listed
  <2>8. ASSUME NEW d \in w.due \ walk'.seen PROVE walk'.page > 0 /\ d <= n - walk'.page + 1
    <3>1. d \in 1..n /\ d \notin Range(rows) /\ d <= n - w.page + 1
      BY <2>2, <2>6
    <3>2. w.page <= n
      BY <2>3, <2>4, <3>1
    <3>3. rows # << >> /\ Range(rows) = {list[w.page]}
      BY <2>5, <3>2
    <3>4. PICK k, z : k = w.page /\ z = walk'.page
      OBVIOUS
    <3>5. k \in 1..n /\ list[k] = n - k + 1
      BY SMTT(30), <2>3, <2>4, <3>2, <3>4
    <3>6. z = k + 1
      BY <2>6, <3>3, <3>4
    <3>7. d # n - k + 1 /\ d <= n - k + 1 /\ d \in Nat
      BY <3>1, <3>3, <3>4, <3>5
    <3>8. z > 0 /\ d <= n - z + 1
      <4>1. n \in Nat /\ k \in Nat /\ k >= 1
        BY <2>3, <3>5
      <4>2. d < n - k + 1
        BY <3>7, <4>1
      <4> QED BY <3>6, <3>7, <4>1, <4>2
    <3> QED BY <3>4, <3>8
  <2>9. walk'.page \in Nat
    BY <2>4, <2>6
  <2> QED BY <2>2, <2>6, <2>7, <2>8, <2>9 DEF WalkInv
<1>4. CASE \E r \in Requests : StartRequest(r) \/ GoOn(r)
  <2>1. walk' = walk
    BY ZenonT(30), <1>4 DEF StartRequest, GoOn, CreateSupplier, ReadSupplier, UpdateSupplierActive, CreatePurchaseOrder,
                CheckPurchaseOrder, UpdatePurchaseOrderStatus, UpdateStatusTransfer, ReadItems, CreateStockImport, NewStockImport,
                RespondImport, ReadUnitPrice, UpdatePriceVariant
  <2> QED BY <1>1, <2>1
<1>5. CASE UNCHANGED purchasingVars
  BY <1>1, <1>5 DEF purchasingVars
<1> QED BY <1>2, <1>3, <1>4, <1>5 DEF PurchasingNext

\* Rows that are inserted between two pages move the others back, not past who
\* turns the pages: he sees every row that was there when he began.
THEOREM PagesMissNothing == Spec => []PagesShowAll
<1>1. PurchasingInit => WalkInv
  BY DEF PurchasingInit, WalkInv
<1>2. BackInv /\ BackInv' /\ WalkInv /\ [PurchasingNext]_purchasingVars => WalkInv'
  BY WalkStep
<1>3. WalkInv => PagesShowAll
  BY DEF WalkInv, NoWalk, PagesShowAll
<1> QED BY <1>1, <1>2, <1>3, BackReachable, PTL DEF Spec
=============================================================================
