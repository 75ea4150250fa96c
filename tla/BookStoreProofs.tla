-------------------------- MODULE BookStoreProofs --------------------------
(***************************************************************************)
(* The type invariant of the whole system.  TypeOK alone is not inductive: *)
(* a handler copies the items of the order its event names, which must be  *)
(* an order.  HandlerInv says so, and TypeInv is the two together.         *)
(***************************************************************************)
EXTENDS BookStore, SumFacts, TLAPS

Pcs == {"idle", "queued"} \union HttpSteps \union JobSteps \union FinalSteps

(* --------------------------- Totals of orders --------------------------- *)

\* What an order costs is an integer, whatever is in the cart.
LEMMA TotalIsInteger ==
    ASSUME NEW quantity \in AskedCart, NEW unitPrice \in [Variants -> Prices \union {0}]
    PROVE  OrderTotal(quantity, unitPrice) \in Int
<1> DEFINE e == [v \in Variants |-> quantity[v] * unitPrice[v]]
           c == [s \in SUBSET Variants |-> CHOOSE x \in s : TRUE]
           Rest(h, s) ==
              IF s = {} THEN 0
              ELSE quantity[CHOOSE x \in s : TRUE] * unitPrice[CHOOSE x \in s : TRUE]
                       + h[s \ {CHOOSE x \in s : TRUE}]
           iter == CHOOSE h : h = [s \in SUBSET Variants |-> Rest(h, s)]
<1>1. MapThenSumSet(LAMBDA v : quantity[v] * unitPrice[v], Variants) = iter[Variants]
  BY DEF MapThenSumSet, MapThenFoldSet
<1>2. \A h : [s \in SUBSET Variants |-> Rest(h, s)]
                = [s \in SUBSET Variants |-> Folded(h, e, c, s)]
  <2> SUFFICES ASSUME NEW h, NEW s \in SUBSET Variants
               PROVE  Rest(h, s) = Folded(h, e, c, s)
    OBVIOUS
  <2>1. s # {} => (CHOOSE x \in s : TRUE) \in Variants
    OBVIOUS
  <2> QED BY <2>1 DEF Folded
<1>3. iter = CHOOSE h : h = [s \in SUBSET Variants |-> Folded(h, e, c, s)]
  BY <1>2
<1>4. e \in [Variants -> Int]
  <2> SUFFICES ASSUME NEW v \in Variants PROVE quantity[v] * unitPrice[v] \in Int
    OBVIOUS
  <2>1. \A n \in Quantities \union Prices \union {0} : n \in Int
    BY ConstantTypes
  <2>2. quantity[v] \in Quantities \union {0} /\ unitPrice[v] \in Prices \union {0}
    BY DEF AskedCart
  <2>3. quantity[v] \in Int /\ unitPrice[v] \in Int
    BY <2>1, <2>2
  <2> QED BY <2>3
<1>5. IsFiniteSet(Variants) /\ Chooses(c, Variants)
  BY ConstantTypes, ChooseAny
<1>6. IsSum(iter, e, Variants)
  <2> HIDE DEF e, c, iter
  <2> QED BY <1>3, <1>4, <1>5, FoldValue
<1>7. iter[Variants] \in Int
  <2> HIDE DEF iter
  <2> QED BY <1>6 DEF IsSum
<1>8. OrderTotal(quantity, unitPrice) = ShippingFee + iter[Variants]
  BY ZenonT(30), <1>1 DEF OrderTotal
<1> HIDE DEF iter
<1> QED BY <1>7, <1>8, ConstantTypes

(* ----------------- Updating one field of a typed record ----------------- *)

\* Goto keeps requests typed.
LEMMA GotoType ==
    ASSUME req \in [Orders -> Request], NEW o \in Orders, NEW pc \in Pcs, Goto(o, pc)
    PROVE  req' \in [Orders -> Request]
BY ZenonT(30) DEF Goto, Request, Pcs

\* So does a step that also counts a reservation ...
LEMMA GrantType ==
    ASSUME req \in [Orders -> Request], NEW o \in Orders, NEW pc \in Pcs, NEW n \in Nat
    PROVE  [req EXCEPT ![o].pc = pc, ![o].grants = n] \in [Orders -> Request]
BY ZenonT(30) DEF Request, Pcs

\* ... or a stall ...
LEMMA StallType ==
    ASSUME req \in [Orders -> Request], NEW o \in Orders, NEW pc \in Pcs, NEW n \in Nat
    PROVE  [req EXCEPT ![o].pc = pc, ![o].stalls = n] \in [Orders -> Request]
BY ZenonT(30) DEF Request, Pcs

\* ... or keeps the answer of Redis ...
LEMMA RemainingType ==
    ASSUME req \in [Orders -> Request], NEW o \in Orders, NEW pc \in Pcs,
           NEW remaining \in [Variants -> Int]
    PROVE  [req EXCEPT ![o].remaining = remaining, ![o].pc = pc] \in [Orders -> Request]
BY ZenonT(30) DEF Request, Pcs

\* ... or turns to the fallback.
LEMMA FallbackType ==
    ASSUME req \in [Orders -> Request], NEW o \in Orders, ToFallback(o)
    PROVE  req' \in [Orders -> Request]
<1>1. "fallback" \in Pcs
  BY DEF Pcs, HttpSteps
<1>2. [req[o] EXCEPT !.pc = "fallback", !.isError = TRUE] \in Request
  BY ZenonT(30), <1>1 DEF Request, Pcs
<1>3. req' = [req EXCEPT ![o] = [req[o] EXCEPT !.pc = "fallback", !.isError = TRUE]]
  BY DEF ToFallback
<1> QED BY <1>2, <1>3

\* INCRBY and DECRBY keep a counter typed.
LEMMA CounterType ==
    ASSUME NEW c \in Counter, NEW n \in Int
    PROVE  AddToCounter(c, n) \in Counter
<1>1. c.value + n \in Int
  BY DEF Counter
<1> DEFINE m == c.value + n
<1> HIDE DEF m
<1>2. [c EXCEPT !.live = TRUE, !.value = m] \in Counter
  BY <1>1 DEF Counter, m
<1> QED BY <1>2 DEF AddToCounter, m

\* Changing the status of an order keeps the table typed (an UPDATE of an order
\* that does not exist changes nothing) ...
LEMMA StatusType ==
    ASSUME orders \in [Orders -> OrderRow], NEW x, NEW s \in OrderStatus
    PROVE  [orders EXCEPT ![x].status = s] \in [Orders -> OrderRow]
<1> DEFINE r == [orders[x] EXCEPT !.status = s]
<1>1. x \in Orders => r \in OrderRow
  BY DEF OrderRow
<1> HIDE DEF r
<1>2. [orders EXCEPT ![x] = r] \in [Orders -> OrderRow]
  BY <1>1
<1> QED BY <1>2 DEF r

\* ... and so does changing the payment status with it ...
LEMMA BothStatusType ==
    ASSUME orders \in [Orders -> OrderRow], NEW x,
           NEW s \in OrderStatus, NEW p \in PaymentStatus
    PROVE  [orders EXCEPT ![x].status = s, ![x].paymentStatus = p] \in [Orders -> OrderRow]
<1> DEFINE r == [orders[x] EXCEPT !.status = s, !.paymentStatus = p]
<1>1. x \in Orders => r \in OrderRow
  BY DEF OrderRow
<1> HIDE DEF r
<1>2. [orders EXCEPT ![x] = r] \in [Orders -> OrderRow]
  BY <1>1
<1>3. [orders EXCEPT ![x].status = s, ![x].paymentStatus = p] = [orders EXCEPT ![x] = r]
  BY DEF r
<1> QED BY <1>2, <1>3

\* ... writing its address ...
LEMMA AddressType ==
    ASSUME orders \in [Orders -> OrderRow], NEW o \in Orders
    PROVE  [orders EXCEPT ![o].address = TRUE] \in [Orders -> OrderRow]
BY DEF OrderRow

\* ... and adding a batch of items.
LEMMA ItemsType ==
    ASSUME orders \in [Orders -> OrderRow], NEW o \in Orders, NEW b \in Batch
    PROVE  [orders EXCEPT ![o].items = Append(@, b)] \in [Orders -> OrderRow]
<1>1. orders[o].items \in Seq(Batch)
  BY DEF OrderRow
<1>2. Append(orders[o].items, b) \in Seq(Batch)
  BY <1>1
<1> DEFINE t == Append(orders[o].items, b)
<1> HIDE DEF t
<1>3. [orders EXCEPT ![o].items = t] \in [Orders -> OrderRow]
  BY <1>2 DEF OrderRow, t
<1> QED BY <1>3 DEF t

\* The empty values are typed.
LEMMA EmptyTypes ==
    /\ NoCart \in Cart /\ NoCart \in AskedCart /\ NoCart \in [Variants -> Int]
    /\ NoOrder \in OrderRow
    /\ NoIntent \in IntentRow
    /\ NoTransaction \in TransactionRow
    /\ NoCounter \in Counter
    /\ IdleRequest \in Request
    /\ IdleCleaner \in [pc: {"idle", "sum", "clear"}, todo: SUBSET ReadBatch, sum: Cart]
<1>1. NoCart \in Cart /\ NoCart \in AskedCart /\ NoCart \in [Variants -> Int]
         /\ NoCart \in [Variants -> Prices \union {0}]
  BY DEF NoCart, Cart, AskedCart
<1>2. NoOrder \in OrderRow
  BY DEF NoOrder, OrderRow, OrderStatus, PaymentStatus
<1>3. IdleRequest \in Request
  BY <1>1 DEF IdleRequest, Request
<1>4. IdleCleaner \in [pc: {"idle", "sum", "clear"}, todo: SUBSET ReadBatch, sum: Cart]
  BY <1>1 DEF IdleCleaner
<1> QED
  BY <1>1, <1>2, <1>3, <1>4
  DEF NoIntent, IntentRow, NoTransaction, TransactionRow, NoCounter, Counter, PaymentStatus

\* The quantities a client may ask for are quantities.
LEMMA AskedAreCarts == AskedCart \subseteq Cart
<1>1. Quantities \union {0} \subseteq Nat
  BY ConstantTypes
<1> QED BY <1>1 DEF AskedCart, Cart

\* What the type invariant says of one request.
LEMMA RequestFacts ==
    ASSUME TypeOK, NEW o \in Orders
    PROVE  /\ req[o] \in Request
           /\ req[o].quantity \in AskedCart /\ req[o].quantity \in Cart
           /\ req[o].unitPrice \in [Variants -> Prices \union {0}] /\ req[o].unitPrice \in Cart
           /\ req[o].free \in [Variants -> Int]
           /\ req[o].remaining \in [Variants -> Int]
           /\ req[o].grants \in Nat /\ req[o].stalls \in Nat
<1>1. req[o] \in Request
  BY DEF TypeOK, CheckoutTypeOK
<1>2. /\ req[o].quantity \in AskedCart
      /\ req[o].unitPrice \in [Variants -> Prices \union {0}]
      /\ req[o].free \in [Variants -> Int]
      /\ req[o].remaining \in [Variants -> Int]
      /\ req[o].grants \in Nat /\ req[o].stalls \in Nat
  BY <1>1 DEF Request
<1>3. req[o].quantity \in Cart /\ req[o].unitPrice \in Cart
  <2>1. Quantities \union {0} \subseteq Nat /\ Prices \union {0} \subseteq Nat
    BY ConstantTypes
  <2> QED BY <1>2, <2>1 DEF AskedCart, Cart
<1> QED BY <1>1, <1>2, <1>3

\* The reserving UPDATE keeps the column typed.
LEMMA ReserveType ==
    ASSUME TypeOK, NEW q \in Cart, UpdateReservedByIds(q)
    PROVE  reserved' \in [Variants -> Int]
BY DEF TypeOK, StoreTypeOK, UpdateReservedByIds, Cart

\* So does giving back what the cleanup job added up.
LEMMA GiveBackType ==
    ASSUME TypeOK, NEW q \in Cart, GiveBack(q)
    PROVE  stock' \in [Variants -> Int] /\ reserved' \in [Variants -> Int]
BY DEF TypeOK, StoreTypeOK, GiveBack, Cart

\* Deleting an order with all that depends on it keeps the tables typed.
LEMMA DeleteType ==
    ASSUME TypeOK, NEW o \in Orders, DeleteById(o)
    PROVE  /\ orders' \in [Orders -> OrderRow]
           /\ intents' \in [Orders -> IntentRow]
           /\ transactions' \in [Deliveries -> TransactionRow]
BY EmptyTypes DEF TypeOK, StoreTypeOK, DeleteById

\* One step of the HTTP process keeps the type invariant.
LEMMA HttpType ==
    ASSUME TypeOK, NEW o \in Orders, UNCHANGED <<deskVars, hooksVars>>,
           StartCheckout(o) \/ RejectCheckout(o) \/ HttpStep(o) \/ AbortCheckout(o)
    PROVE  TypeOK'
<1> USE DEF TypeOK, StoreTypeOK, CheckoutTypeOK, DeskTypeOK, HooksTypeOK,
            deskVars, hooksVars, storeVars, tables
<1>a. DeskTypeOK' /\ HooksTypeOK'
  OBVIOUS
<1>p. {"rejected", "aborted", "decrby", "queued", "enqueue", "intent", "order", "rollback"}
         \subseteq Pcs
  BY SMTT(30) DEF Pcs, HttpSteps, FinalSteps
<1>1. CASE StartCheckout(o)
  <2>1. PICK quantity \in AskedCart, kind \in Kinds :
            req' = [req EXCEPT ![o] =
                 [IdleRequest EXCEPT
                     !.pc = "setnx", !.quantity = quantity,
                     !.unitPrice = price,
                     !.free = [v \in Variants |-> stock[v] - reserved[v]],
                     !.guest = kind.guest, !.cod = kind.cod]]
    BY ZenonT(30), <1>1 DEF StartCheckout, FreeOf
  <2>2. kind.guest \in BOOLEAN /\ kind.cod \in BOOLEAN
    BY CheckoutConstants
  <2> DEFINE free == [v \in Variants |-> stock[v] - reserved[v]]
  <2>3. free \in [Variants -> Int] /\ price \in [Variants -> Prices \union {0}]
    OBVIOUS
  <2> HIDE DEF free
  <2>4. [IdleRequest EXCEPT !.pc = "setnx", !.quantity = quantity, !.unitPrice = price,
             !.free = free, !.guest = kind.guest, !.cod = kind.cod] \in Request
    BY <2>2, <2>3, EmptyTypes DEF Request, HttpSteps
  <2>5. req' \in [Orders -> Request]
    BY <2>1, <2>4 DEF free
  <2> QED BY ZenonT(30), <1>1, <1>a, <2>5 DEF StartCheckout, FreeOf
<1>2. CASE RejectCheckout(o)
  BY <1>2, <1>a, <1>p, GotoType DEF RejectCheckout
<1>3. CASE SeedCounters(o)
  <2>1. available' \in [Variants -> Counter]
    <3>1. CASE UNCHANGED available
      BY <3>1
    <3>2. CASE ~UNCHANGED available
      <4>1. available' = [v \in Variants |->
                 IF v \in ItemsOf(o) /\ ~available[v].live
                 THEN [live |-> TRUE, value |-> req[o].free[v], ttl |-> TRUE]
                 ELSE available[v]]
        BY <1>3, <3>2 DEF SeedCounters
      <4>2. \A v \in Variants : [live |-> TRUE, value |-> req[o].free[v], ttl |-> TRUE] \in Counter
        BY RequestFacts DEF Counter
      <4> QED BY <4>1, <4>2
    <3> QED BY <3>1, <3>2
  <2>2. req' \in [Orders -> Request]
    BY <1>3, <1>p, GotoType DEF SeedCounters
  <2>3. faults' \in Nat
    BY <1>3 DEF SeedCounters, Fault
  <2> QED BY <1>3, <1>a, <2>1, <2>2, <2>3 DEF SeedCounters
<1>4. CASE DecrBy(o)
  <2>1. ASSUME TakeFromCounters(o) PROVE available' \in [Variants -> Counter]
    <3>1. \A v \in Variants : AddToCounter(available[v], -req[o].quantity[v]) \in Counter
      <4> TAKE v \in Variants
      <4>1. -req[o].quantity[v] \in Int /\ available[v] \in Counter
        BY RequestFacts DEF Cart
      <4> QED BY <4>1, CounterType
    <3> QED BY <2>1, <3>1 DEF TakeFromCounters
  <2>2. available' \in [Variants -> Counter]
    BY <1>4, <2>1 DEF DecrBy
  <2>3. req' \in [Orders -> Request]
    <3>1. CASE ToFallback(o)
      BY <3>1, FallbackType
    <3>2. CASE ~ToFallback(o)
      <4> DEFINE remaining == [v \in Variants |->
                     IF v \in ItemsOf(o) THEN available'[v].value ELSE 0]
                 pc == IF \E v \in Variants : remaining[v] < 0
                               THEN "rollback" ELSE "order"
      <4>1. req' = [req EXCEPT ![o].remaining = remaining, ![o].pc = pc]
        BY <1>4, <3>2 DEF DecrBy
      <4>2. remaining \in [Variants -> Int]
        BY <2>2 DEF Counter
      <4>3. pc \in Pcs
        BY <1>p
      <4> HIDE DEF remaining, pc
      <4> QED BY ZenonT(30), <4>1, <4>2, <4>3, RemainingType
    <3> QED BY <3>1, <3>2
  <2>4. faults' \in Nat
    BY <1>4 DEF DecrBy, Fault
  <2> QED BY <1>4, <1>a, <2>2, <2>3, <2>4 DEF DecrBy
<1>5. CASE Rollback(o)
  <2>1. available' \in [Variants -> Counter]
    <3>1. CASE UNCHANGED available
      BY <3>1
    <3>2. CASE ~UNCHANGED available
      <4>1. PICK v \in ItemsOf(o) :
               available' = [available EXCEPT ![v] = AddToCounter(available[v], req[o].quantity[v])]
        BY <1>5, <3>2 DEF Rollback
      <4>2. v \in Variants /\ req[o].quantity[v] \in Int /\ available[v] \in Counter
        BY RequestFacts DEF ItemsOf, Cart
      <4>3. AddToCounter(available[v], req[o].quantity[v]) \in Counter
        BY <4>2, CounterType
      <4> QED BY <4>1, <4>2, <4>3
    <3> QED BY <3>1, <3>2
  <2>2. req' \in [Orders -> Request]
    BY <1>5, FallbackType DEF Rollback
  <2>3. faults' \in Nat
    BY <1>5 DEF Rollback, Fault
  <2> QED BY <1>5, <1>a, <2>1, <2>2, <2>3 DEF Rollback
<1>6. CASE Fallback(o)
  <2>1. CASE \E v \in ItemsOf(o) : req[o].free[v] <= 0
    BY <1>6, <2>1, <1>a, <1>p, GotoType DEF Fallback
  <2>2. CASE ~\E v \in ItemsOf(o) : req[o].free[v] <= 0
    <3> DEFINE n == req[o].grants + 1
    <3>1. n \in Nat
      BY RequestFacts
    <3>2. req' = [req EXCEPT ![o].pc = "order", ![o].grants = n]
      BY <1>6, <2>2 DEF Fallback
    <3> HIDE DEF n
    <3>3. req' \in [Orders -> Request]
      BY ZenonT(30), <3>1, <3>2, <1>p, GrantType
    <3>4. reserved' \in [Variants -> Int]
      BY <1>6, <2>2, RequestFacts, ReserveType DEF Fallback
    <3> QED BY <1>6, <1>a, <3>3, <3>4 DEF Fallback
  <2> QED BY <2>1, <2>2
<1>7. CASE CreateOrder(o)
  <2> DEFINE total == OrderTotal(req[o].quantity, req[o].unitPrice)
             expiry == ExpiryAfter(OrderTTL)
  <2>1. total \in Int
    <3>1. req[o].unitPrice \in [Variants -> Prices \union {0}] /\ req[o].quantity \in AskedCart
      BY RequestFacts
    <3> QED BY <3>1, TotalIsInteger
  <2>2. expiry \in Nat
    BY ConstantTypes DEF ExpiryAfter
  <2>3. orders' = [orders EXCEPT ![o] =
           [NoOrder EXCEPT !.status = "PENDING_PAYMENT", !.paymentStatus = "PENDING",
               !.expiredAt = expiry, !.total = total]]
    BY <1>7 DEF CreateOrder
  <2> HIDE DEF total, expiry
  <2>4. [NoOrder EXCEPT !.status = "PENDING_PAYMENT", !.paymentStatus = "PENDING",
               !.expiredAt = expiry, !.total = total] \in OrderRow
    BY <2>1, <2>2, EmptyTypes DEF OrderRow, OrderStatus, PaymentStatus
  <2>5. orders' \in [Orders -> OrderRow]
    BY <2>3, <2>4
  <2> DEFINE pc == IF req[o].cod THEN "enqueue" ELSE "intent"
  <2>6. pc \in Pcs
    BY <1>p
  <2>7. req' = [req EXCEPT ![o].pc = pc, ![o].free = NoCart, ![o].remaining = NoCart]
    BY <1>7 DEF CreateOrder
  <2> HIDE DEF pc
  <2>8. [req[o] EXCEPT !.pc = pc, !.free = NoCart, !.remaining = NoCart] \in Request
    BY ZenonT(30), <2>6, EmptyTypes, RequestFacts DEF Request, Pcs
  <2>9. req' = [req EXCEPT ![o] =
               [req[o] EXCEPT !.pc = pc, !.free = NoCart, !.remaining = NoCart]]
    BY <2>7
  <2>10. req' \in [Orders -> Request]
    BY <2>8, <2>9
  <2> QED BY <1>7, <1>a, <2>5, <2>10 DEF CreateOrder
<1>8. CASE CreatePaymentIntent(o)
  <2>1. [status |-> "PENDING", expiredAt |-> ExpiryAfter(IntentTTL)] \in IntentRow
    BY ConstantTypes DEF ExpiryAfter, IntentRow, PaymentStatus
  <2> QED BY <1>8, <1>a, <1>p, <2>1, GotoType DEF CreatePaymentIntent
<1>9. CASE EnqueueCheckout(o)
  BY <1>9, <1>a, <1>p, GotoType DEF EnqueueCheckout
<1>10. CASE AbortCheckout(o)
  BY <1>10, <1>a, <1>p, GotoType DEF AbortCheckout, Fault
<1> QED BY <1>1, <1>2, <1>3, <1>4, <1>5, <1>6, <1>7, <1>8, <1>9, <1>10 DEF HttpStep

\* One step of the worker keeps the type invariant.
LEMMA JobType ==
    ASSUME TypeOK, NEW o \in Orders, UNCHANGED <<deskVars, hooksVars>>,
           JobStep(o) \/ StallJob(o)
    PROVE  TypeOK'
<1> USE DEF TypeOK, StoreTypeOK, CheckoutTypeOK, DeskTypeOK, HooksTypeOK,
            deskVars, hooksVars, storeVars, tables
<1>a. DeskTypeOK' /\ HooksTypeOK'
  OBVIOUS
<1>p. {"items", "address", "failed", "reserve", "delete", "done", "queued"} \subseteq Pcs
  BY DEF Pcs, JobSteps, FinalSteps
<1>1. CASE StartJob(o)
  BY <1>1, <1>a, <1>p, GotoType DEF StartJob, Fault
<1>2. CASE CreateItems(o)
  <2>1. BatchOf(o) \in Batch
    BY RequestFacts DEF BatchOf, Batch
  <2>2. orders' \in [Orders -> OrderRow]
    <3>1. CASE UNCHANGED orders
      BY <3>1
    <3>2. CASE ~UNCHANGED orders
      <4>1. orders' = [orders EXCEPT ![o].items = Append(@, BatchOf(o))]
        BY <1>2, <3>2 DEF CreateItems
      <4> QED BY <2>1, <4>1, ItemsType
    <3> QED BY <3>1, <3>2
  <2>3. req' \in [Orders -> Request]
    <3>1. ReserveOrDone(o) \in Pcs
      BY <1>p DEF ReserveOrDone
    <3> QED BY <1>2, <1>p, <3>1, GotoType DEF CreateItems
  <2>4. faults' \in Nat
    BY <1>2 DEF CreateItems, Fault
  <2> QED BY <1>2, <1>a, <2>2, <2>3, <2>4 DEF CreateItems
<1>3. CASE CreateAddress(o)
  <2>1. BatchOf(o) \in Batch
    BY RequestFacts DEF BatchOf, Batch
  <2>2. orders' \in [Orders -> OrderRow]
    <3>1. CASE UNCHANGED orders
      BY <3>1
    <3>2. CASE ~UNCHANGED orders
      <4>1. orders' = [orders EXCEPT ![o].address = TRUE]
        BY <1>3, <3>2 DEF CreateAddress
      <4> QED BY <4>1, AddressType
    <3> QED BY <3>1, <3>2
  <2>3. req' \in [Orders -> Request]
    <3>1. ReserveOrDone(o) \in Pcs
      BY <1>p DEF ReserveOrDone
    <3> QED BY <1>3, <1>p, <3>1, GotoType DEF CreateAddress
  <2>4. faults' \in Nat
    BY <1>3 DEF CreateAddress, Fault
  <2> QED BY <1>3, <1>a, <2>2, <2>3, <2>4 DEF CreateAddress
<1>4. CASE Reserve(o)
  <2> DEFINE n == req[o].grants + 1
  <2>1. n \in Nat
    BY RequestFacts
  <2>2. [req EXCEPT ![o].pc = "done", ![o].grants = req[o].grants + 1] \in [Orders -> Request]
    <3> HIDE DEF n
    <3>1. [req EXCEPT ![o].pc = "done", ![o].grants = n] \in [Orders -> Request]
      BY ZenonT(30), <2>1, <1>p, GrantType
    <3> QED BY <3>1 DEF n
  <2>3. req' \in [Orders -> Request]
    BY <1>4, <1>p, <2>2, GotoType DEF Reserve
  <2>4. reserved' \in [Variants -> Int] /\ faults' \in Nat
    BY <1>4, RequestFacts, ReserveType DEF Reserve, Fault
  <2> QED BY <1>4, <1>a, <2>3, <2>4 DEF Reserve
<1>5. CASE DeleteOrder(o)
  BY <1>5, <1>a, <1>p, GotoType, DeleteType DEF DeleteOrder, Fault
<1>6. CASE StallJob(o)
  <2> DEFINE n == req[o].stalls + 1
  <2>1. n \in Nat
    BY RequestFacts
  <2>2. [req EXCEPT ![o].pc = "queued", ![o].stalls = req[o].stalls + 1] \in [Orders -> Request]
    <3> HIDE DEF n
    <3>1. [req EXCEPT ![o].pc = "queued", ![o].stalls = n] \in [Orders -> Request]
      BY ZenonT(30), <2>1, <1>p, StallType
    <3> QED BY <3>1 DEF n
  <2>3. req' \in [Orders -> Request]
    BY <1>6, <1>p, <2>2, GotoType DEF StallJob
  <2> QED BY <1>6, <1>a, <2>3 DEF StallJob, Fault
<1> QED BY <1>1, <1>2, <1>3, <1>4, <1>5, <1>6 DEF JobStep

\* What the type invariant says of the run of the cleanup job.
LEMMA CleanerFacts ==
    ASSUME TypeOK
    PROVE  /\ cleaner.todo \subseteq ReadBatch
           /\ cleaner.sum \in Cart
BY DEF TypeOK, CheckoutTypeOK

\* One step of the cleanup job, or of Redis, keeps the type invariant.
LEMMA CleanupType ==
    ASSUME TypeOK, UNCHANGED <<deskVars, hooksVars>>,
           CleanupStep \/ \E v \in Expiring : ExpireCounter(v)
    PROVE  TypeOK'
<1> USE DEF TypeOK, StoreTypeOK, CheckoutTypeOK, DeskTypeOK, HooksTypeOK,
            deskVars, hooksVars, storeVars, tables
<1>a. DeskTypeOK' /\ HooksTypeOK'
  OBVIOUS
<1> DEFINE Cleaner == [pc: {"idle", "sum", "clear"}, todo: SUBSET ReadBatch, sum: Cart]
<1>1. CASE FindExpired
  <2>1. \A o \in Orders : BatchesOf(o) \subseteq ReadBatch
    <3> SUFFICES ASSUME NEW o \in Orders, NEW i \in DOMAIN orders[o].items
                 PROVE  [order |-> o, index |-> i,
                         quantity |-> orders[o].items[i].quantity] \in ReadBatch
      BY DEF BatchesOf
    <3>1. orders[o].items \in Seq(Batch)
      BY DEF OrderRow
    <3>2. i \in Nat /\ orders[o].items[i] \in Batch
      BY <3>1
    <3>3. orders[o].items[i].quantity \in Cart
      BY <3>2, AskedAreCarts DEF Batch
    <3> QED BY <3>2, <3>3 DEF ReadBatch
  <2> DEFINE todo == UNION {BatchesOf(o) : o \in ExpiredOrders}
  <2>2. todo \subseteq ReadBatch
    BY <2>1 DEF ExpiredOrders
  <2>3. cleaner' = [pc |-> "sum", sum |-> NoCart, todo |-> todo]
    BY <1>1 DEF FindExpired
  <2> HIDE DEF todo
  <2>4. cleaner' \in Cleaner
    BY <2>2, <2>3, EmptyTypes
  <2> QED BY <1>1, <1>a, <2>4 DEF FindExpired
<1>2. CASE SumItems
  <2>1. cleaner' \in Cleaner
    <3> HIDE DEF TypeOK, StoreTypeOK, CheckoutTypeOK, DeskTypeOK, HooksTypeOK
    <3>a. cleaner \in [pc: {"idle", "sum", "clear"}, todo: SUBSET ReadBatch, sum: Cart]
      BY DEF TypeOK, CheckoutTypeOK
    <3>1. CASE cleaner' = [cleaner EXCEPT !.pc = "clear"]
      BY <3>1, <3>a
    <3>2. CASE ~(cleaner' = [cleaner EXCEPT !.pc = "clear"])
      <4>1. PICK batch \in cleaner.todo :
              cleaner' = [cleaner EXCEPT
                 !.todo = cleaner.todo \ {batch},
                 !.sum = [v \in Variants |-> cleaner.sum[v] + batch.quantity[v]]]
        BY ZenonT(30), <1>2, <3>2 DEF SumItems
      <4> DEFINE todo == cleaner.todo \ {batch}
                 sum == [v \in Variants |-> cleaner.sum[v] + batch.quantity[v]]
      <4>2. batch.quantity \in Cart /\ cleaner.sum \in Cart /\ todo \subseteq ReadBatch
        <5>1. batch \in ReadBatch
          BY CleanerFacts
        <5>2. batch.quantity \in Cart
          BY <5>1 DEF ReadBatch
        <5> QED BY <5>2, CleanerFacts
      <4>3. sum \in Cart
        BY <4>2 DEF Cart
      <4> HIDE DEF todo, sum
      <4>4. [cleaner EXCEPT !.todo = todo, !.sum = sum] \in Cleaner
        BY <3>a, <4>2, <4>3
      <4> QED BY ZenonT(30), <4>1, <4>4 DEF todo, sum
    <3> QED BY <3>1, <3>2
  <2> QED BY ZenonT(30), <1>2, <1>a, <2>1 DEF SumItems
<1>3. CASE ClearOrder
  <2>1. cleaner' \in Cleaner
    BY ZenonT(30), <1>3, EmptyTypes DEF ClearOrder
  <2>2. CASE UNCHANGED <<stock, reserved, orders>>
    <3>a. faults \in Nat
      OBVIOUS
    <3>1. faults' \in Nat /\ UNCHANGED <<price, intents, transactions, now, req, available>>
      <4> HIDE DEF TypeOK
      <4>1. faults' = faults \/ faults' = faults + 1
        BY <1>3, Zenon DEF ClearOrder, Fault
      <4>2. UNCHANGED <<price, intents, transactions, now, req, available>>
        BY <1>3, Zenon DEF ClearOrder
      <4> QED BY <3>a, <4>1, <4>2
    <3> QED BY <1>a, <2>1, <2>2, <3>1
  <2>3. CASE ~UNCHANGED <<stock, reserved, orders>>
    <3>1. /\ GiveBack(cleaner.sum)
          /\ orders' = [o \in Orders |->
                 IF DueForCleanup(o)
                 THEN [orders[o] EXCEPT !.status = "CANCELLED",
                                        !.paymentStatus = "EXPIRED"]
                 ELSE orders[o]]
          /\ faults' = faults
      BY ZenonT(30), <1>3, <2>3 DEF ClearOrder
    <3>2. stock' \in [Variants -> Int] /\ reserved' \in [Variants -> Int]
      BY ZenonT(30), <3>1, CleanerFacts, GiveBackType
    <3>3. ASSUME NEW o \in Orders
          PROVE  [orders[o] EXCEPT !.status = "CANCELLED",
                                   !.paymentStatus = "EXPIRED"] \in OrderRow
      <4>1. orders[o] \in OrderRow
        OBVIOUS
      <4> QED BY <4>1 DEF OrderRow, OrderStatus, PaymentStatus
    <3>4. orders' \in [Orders -> OrderRow]
      BY ZenonT(30), <3>1, <3>3
    <3> QED BY ZenonT(30), <1>3, <1>a, <2>1, <3>1, <3>2, <3>4 DEF ClearOrder
  <2> QED BY <2>2, <2>3
<1>4. CASE \E v \in Expiring : ExpireCounter(v)
  BY <1>4, <1>a, EmptyTypes, CheckoutConstants DEF ExpireCounter
<1> QED BY <1>1, <1>2, <1>3, <1>4 DEF CleanupStep

\* One step of the admin desk keeps the type invariant.
LEMMA DeskType ==
    ASSUME TypeOK, UNCHANGED <<checkoutVars, hooksVars>>, DeskNext
    PROVE  TypeOK'
<1> USE DEF TypeOK, StoreTypeOK, CheckoutTypeOK, DeskTypeOK, HooksTypeOK,
            checkoutVars, deskVars, hooksVars, storeVars
<1>a. CheckoutTypeOK' /\ HooksTypeOK'
  OBVIOUS
<1>1. ASSUME NEW v \in Variants, UpdatePriceVariant(v) PROVE TypeOK'
  BY <1>1, <1>a DEF UpdatePriceVariant
<1>2. ASSUME NEW v \in Variants, ImportStock(v) PROVE TypeOK'
  <2>1. PICK n \in Quantities : stock' = [stock EXCEPT ![v] = stock[v] + n]
    BY <1>2 DEF ImportStock
  <2>2. n \in Int
    BY ConstantTypes
  <2>3. stock[v] + n \in Int
    BY <2>2
  <2>4. stock' \in [Variants -> Int]
    BY <2>1, <2>3
  <2> QED BY <1>2, <1>a, <2>4 DEF ImportStock
<1>3. ASSUME NEW o \in DeskOrders, CheckOrderStatus(o) PROVE TypeOK'
  BY <1>3, <1>a, DeskConstants DEF CheckOrderStatus
<1>4. ASSUME NEW o \in DeskOrders, UpdateOrderStatus(o) PROVE TypeOK'
  <2>1. o \in Orders
    BY DeskConstants
  <2>2. orders' \in [Orders -> OrderRow]
    <3>1. CASE UNCHANGED orders
      BY <3>1
    <3>2. CASE ~UNCHANGED orders
      <4>1. PICK status \in {"CONFIRMED", "CANCELLED"} :
                orders' = [orders EXCEPT ![o].status = status]
        BY <1>4, <3>2 DEF UpdateOrderStatus
      <4>2. status \in OrderStatus
        BY DEF OrderStatus
      <4> QED BY <4>1, <4>2, StatusType
    <3> QED BY <3>1, <3>2
  <2> QED BY <1>4, <1>a, <2>1, <2>2 DEF UpdateOrderStatus
<1> QED BY <1>1, <1>2, <1>3, <1>4 DEF DeskNext

HandlerPcs == {"idle", "replied", "error"} \union HandlerSteps

Calls == {"order", "webhook", "intent", "debit", "paid", "credit", "unpaid"}

\* Each way in which a step changes a handler keeps it typed: its place in the code,
LEMMA HandlerPcType ==
    ASSUME hook \in [Deliveries -> Handler], NEW d \in Deliveries,
           NEW pc \in HandlerPcs
    PROVE  [hook EXCEPT ![d].pc = pc] \in [Deliveries -> Handler]
BY DEF Handler, HandlerPcs

\* the verdict with it,
LEMMA HandlerVerdictType ==
    ASSUME hook \in [Deliveries -> Handler], NEW d \in Deliveries,
           NEW pc \in HandlerPcs, NEW verdict \in Verdicts
    PROVE  [hook EXCEPT ![d].pc = pc, ![d].verdict = verdict] \in [Deliveries -> Handler]
BY ZenonT(30) DEF Handler, HandlerPcs

\* the calls it starts with it,
LEMMA HandlerCallsType ==
    ASSUME hook \in [Deliveries -> Handler], NEW d \in Deliveries,
           NEW pc \in HandlerPcs, NEW t \in SUBSET Calls
    PROVE  [hook EXCEPT ![d].pc = pc, ![d].todo = t] \in [Deliveries -> Handler]
BY ZenonT(30) DEF Handler, HandlerPcs, Calls

\* the calls it still waits for,
LEMMA HandlerTodoType ==
    ASSUME hook \in [Deliveries -> Handler], NEW d \in Deliveries,
           NEW t \in SUBSET Calls
    PROVE  [hook EXCEPT ![d].todo = t] \in [Deliveries -> Handler]
BY DEF Handler, Calls

\* one of them failing,
LEMMA HandlerFailType ==
    ASSUME hook \in [Deliveries -> Handler], NEW d \in Deliveries,
           NEW t \in SUBSET Calls, NEW b \in BOOLEAN
    PROVE  [hook EXCEPT ![d].todo = t, ![d].failed = b] \in [Deliveries -> Handler]
BY ZenonT(30) DEF Handler, Calls

\* and the quantities it read.
LEMMA HandlerReadType ==
    ASSUME hook \in [Deliveries -> Handler], NEW d \in Deliveries,
           NEW pc \in HandlerPcs, NEW t \in SUBSET Calls, NEW q \in AskedCart
    PROVE  [hook EXCEPT ![d].pc = pc, ![d].todo = t, ![d].quantity = q] \in [Deliveries -> Handler]
<1> DEFINE r == [hook[d] EXCEPT !.pc = pc, !.todo = t, !.quantity = q]
<1>1. r \in Handler
  BY DEF Handler, HandlerPcs, Calls
<1>2. [hook EXCEPT ![d].pc = pc, ![d].todo = t, ![d].quantity = q] = [hook EXCEPT ![d] = r]
  OBVIOUS
<1> QED BY <1>1, <1>2

\* What the type invariant says of one handler and of the event it handles.
LEMMA HandlerFacts ==
    ASSUME TypeOK, NEW d \in Deliveries
    PROVE  /\ hook \in [Deliveries -> Handler] /\ hook[d] \in Handler
           /\ hook[d].event \in Events /\ hook[d].attempts \in Nat
           /\ hook[d].todo \in SUBSET Calls
           /\ hook[d].quantity \in AskedCart /\ hook[d].quantity \in Cart
           /\ hook[d].verdict \in Verdicts /\ hook[d].failed \in BOOLEAN
           /\ Body(d) \in InboxRow
           /\ Target(d) \in Orders \union {NULL} /\ Body(d).amount \in Int
<1>1. hook \in [Deliveries -> Handler] /\ hook[d] \in Handler
  BY DEF TypeOK, HooksTypeOK
<1>2. /\ hook[d].event \in Events /\ hook[d].attempts \in Nat
      /\ hook[d].todo \in SUBSET Calls /\ hook[d].quantity \in AskedCart
      /\ hook[d].verdict \in Verdicts /\ hook[d].failed \in BOOLEAN
  BY <1>1 DEF Handler, Calls
<1>3. Body(d) \in InboxRow
  BY <1>2 DEF TypeOK, HooksTypeOK, Body
<1>4. Target(d) \in Orders \union {NULL} /\ Body(d).amount \in Int
  BY <1>3 DEF InboxRow, Target
<1> QED BY <1>1, <1>2, <1>3, <1>4, AskedAreCarts

\* Updating the inbox row of a delivery's event keeps the inbox typed.
LEMMA InboxType ==
    ASSUME TypeOK, NEW d \in Deliveries, NEW status \in {"PENDING", "DONE", "FAILED"},
           UpdateWebhookStatus(d, status)
    PROVE  inbox' \in [Events -> InboxRow]
<1>1. hook[d].event \in Events /\ hook[d].attempts \in Nat
  BY HandlerFacts
<1> DEFINE e == hook[d].event
           n == hook[d].attempts
<1>2. inbox' = [inbox EXCEPT ![e].status = status, ![e].attempts = n]
  BY DEF UpdateWebhookStatus
<1>3. inbox \in [Events -> InboxRow]
  BY DEF TypeOK, HooksTypeOK
<1> HIDE DEF e, n
<1> QED BY <1>1, <1>2, <1>3 DEF InboxRow, e, n

\* Marking an order and its transfers as paid keeps both tables typed.
LEMMA MarkOrderType ==
    ASSUME TypeOK, NEW x, MarkOrderAndPaymentSuccess(x)
    PROVE  /\ orders' \in [Orders -> OrderRow]
           /\ transactions' \in [Deliveries -> TransactionRow]
<1>1. orders \in [Orders -> OrderRow] /\ transactions \in [Deliveries -> TransactionRow]
  BY DEF TypeOK, StoreTypeOK
<1>2. "PAID" \in OrderStatus /\ "SUCCESS" \in PaymentStatus
  BY DEF OrderStatus, PaymentStatus
<1>3. orders' \in [Orders -> OrderRow]
  BY <1>1, <1>2, BothStatusType DEF MarkOrderAndPaymentSuccess
<1>4. ASSUME NEW d \in Deliveries
      PROVE  [transactions[d] EXCEPT !.status = "SUCCESS"] \in TransactionRow
  BY <1>1, <1>2 DEF TransactionRow
<1> QED BY <1>1, <1>3, <1>4 DEF MarkOrderAndPaymentSuccess

\* Marking an intent keeps the intents typed.
LEMMA MarkIntentType ==
    ASSUME TypeOK, NEW x, NEW status \in PaymentStatus, MarkPaymentIntent(x, status)
    PROVE  intents' \in [Orders -> IntentRow]
<1>1. intents \in [Orders -> IntentRow]
  BY DEF TypeOK, StoreTypeOK
<1>2. [intents EXCEPT ![x].status = status] \in [Orders -> IntentRow]
  BY <1>1 DEF IntentRow
<1> QED BY <1>1, <1>2 DEF MarkPaymentIntent

\* Moving stock and reserved keeps them typed.
LEMMA AddStockType ==
    ASSUME TypeOK, NEW q \in Cart, NEW sign \in Int, AddStock(q, sign)
    PROVE  stock' \in [Variants -> Int] /\ reserved' \in [Variants -> Int]
<1>1. ASSUME NEW v \in Variants PROVE sign * q[v] \in Int
  BY DEF Cart
<1>2. stock \in [Variants -> Int] /\ reserved \in [Variants -> Int]
  BY DEF TypeOK, StoreTypeOK
<1> QED BY <1>1, <1>2 DEF AddStock

\* A handler's event has a body, which no later delivery changes; once the
\* handler has found the order of a transfer its target is an order, and only a
\* transfer of the exact amount goes on to the stock.  Without it the items that
\* ReadItems copies could be those of no order.
HandlerInv ==
    \A d \in Deliveries :
        /\ IF hook[d].pc = "idle" THEN hook[d].verdict = "none" ELSE Body(d).status # "NONE"
        /\ hook[d].verdict \notin {"none", "ignored"} => Target(d) \in Orders
        /\ hook[d].pc \in {"items", "stock"} => hook[d].verdict = "exact"

\* A step of a handler, a crash of it or a new delivery keeps the type
\* invariant.
LEMMA HookType ==
    ASSUME TypeOK, HandlerInv, NEW d \in Deliveries, UNCHANGED <<checkoutVars, deskVars>>,
           ReceiveWebhook(d) \/ HookStep(d) \/ CrashHook(d)
    PROVE  TypeOK'
<1>a. CheckoutTypeOK' /\ DeskTypeOK' /\ now \in Nat /\ faults \in Nat
  BY DEF TypeOK, StoreTypeOK, CheckoutTypeOK, DeskTypeOK, checkoutVars, deskVars
<1>f. Fault => faults' \in Nat
  BY <1>a DEF Fault
<1>h. /\ hook \in [Deliveries -> Handler] /\ inbox \in [Events -> InboxRow]
      /\ poll \in [Orders -> {"idle", "order", "mark"}]
  BY DEF TypeOK, HooksTypeOK
<1>s. /\ stock \in [Variants -> Int] /\ reserved \in [Variants -> Int]
      /\ price \in [Variants -> Prices] /\ orders \in [Orders -> OrderRow]
      /\ intents \in [Orders -> IntentRow]
      /\ transactions \in [Deliveries -> TransactionRow]
  BY DEF TypeOK, StoreTypeOK
<1>p. {"idle", "replied", "error", "find", "save", "note", "fail", "settle", "items", "stock"}
         = HandlerPcs
  BY DEF HandlerPcs, HandlerSteps
<1>t. /\ hook[d].event \in Events /\ hook[d].attempts \in Nat
      /\ hook[d].todo \in SUBSET Calls /\ hook[d].quantity \in Cart
      /\ hook[d].verdict \in Verdicts /\ hook[d].failed \in BOOLEAN
      /\ Target(d) \in Orders \union {NULL} /\ Body(d).amount \in Int
  BY HandlerFacts
<1>c. {"debit", "paid", "credit", "unpaid"} \subseteq Calls
         /\ \A v \in Verdicts : FirstCalls(v) \in SUBSET Calls
  BY DEF Calls, FirstCalls
<1>x. /\ \A v \in Verdicts : TransactionStatus(v) \in PaymentStatus
      /\ \A v \in Verdicts : IntentOutcome(v) \in PaymentStatus
      /\ \A v \in Verdicts : SettledStatus(v) \in {"PENDING", "DONE", "FAILED"}
  BY DEF TransactionStatus, IntentOutcome, SettledStatus, PaymentStatus
<1> USE DEF storeVars, tables
<1>q. SUFFICES
         /\ stock' \in [Variants -> Int] /\ reserved' \in [Variants -> Int]
         /\ price' \in [Variants -> Prices] /\ orders' \in [Orders -> OrderRow]
         /\ intents' \in [Orders -> IntentRow]
         /\ transactions' \in [Deliveries -> TransactionRow]
         /\ now' \in Nat /\ faults' \in Nat
         /\ inbox' \in [Events -> InboxRow] /\ hook' \in [Deliveries -> Handler]
         /\ poll' \in [Orders -> {"idle", "order", "mark"}]
  BY <1>a DEF TypeOK, StoreTypeOK, HooksTypeOK
<1> HIDE DEF TypeOK
<1>1. CASE ReceiveWebhook(d)
  <2>1. PICK e \in Events, o \in Orders \union {NULL}, amount \in Int :
           /\ SaveSepayWebhook(e, o, amount)
           /\ hook' = [hook EXCEPT ![d] = [IdleHandler(e) EXCEPT
                 !.attempts = inbox'[e].attempts + 1,
                 !.pc = IF inbox'[e].status = "DONE" THEN "replied" ELSE "find"]]
    <3>1. PICK e \in Events :
            /\ IF inbox[e].status = "NONE"
               THEN \E o \in Orders \union {NULL}, amount \in Amounts :
                       SaveSepayWebhook(e, o, amount)
               ELSE SaveSepayWebhook(e, inbox[e].order, inbox[e].amount)
            /\ hook' = [hook EXCEPT ![d] = [IdleHandler(e) EXCEPT
                 !.attempts = inbox'[e].attempts + 1,
                 !.pc = IF inbox'[e].status = "DONE" THEN "replied" ELSE "find"]]
      BY ZenonT(30), <1>1 DEF ReceiveWebhook
    <3>2. inbox[e].order \in Orders \union {NULL} /\ inbox[e].amount \in Int
      BY <1>h DEF InboxRow
    <3>3. Amounts \subseteq Int
      BY ConstantTypes
    <3> QED BY ZenonT(30), <3>1, <3>2, <3>3
  <2> DEFINE row == [status |-> "PENDING", attempts |-> inbox[e].attempts,
                     order |-> o, amount |-> amount]
  <2>2. row \in InboxRow
    BY <1>h DEF InboxRow
  <2>3. inbox' = [inbox EXCEPT ![e] = row]
    BY <2>1 DEF SaveSepayWebhook
  <2>4. inbox' \in [Events -> InboxRow] /\ inbox'[e] = row
    <3> HIDE DEF row
    <3> QED BY <1>h, <2>2, <2>3
  <2>5. hook' \in [Deliveries -> Handler]
    <3> DEFINE n == inbox'[e].attempts + 1
               pc == IF inbox'[e].status = "DONE" THEN "replied" ELSE "find"
               h == [IdleHandler(e) EXCEPT !.attempts = n, !.pc = pc]
    <3>1. n \in Nat /\ pc \in HandlerPcs
      <4>1. inbox'[e].attempts \in Nat
        BY <2>4 DEF InboxRow
      <4> QED BY <4>1, <1>p
    <3>2. hook' = [hook EXCEPT ![d] = h]
      BY <2>1
    <3> HIDE DEF n, pc
    <3>3. h \in Handler
      BY <3>1, EmptyTypes DEF Handler, IdleHandler, HandlerPcs, Verdicts
    <3> HIDE DEF h
    <3> QED BY <1>h, <3>2, <3>3
  <2> QED BY ZenonT(30), <1>1, <1>a, <1>h, <1>s, <2>4, <2>5 DEF ReceiveWebhook
<1>2. CASE FindByContent(d)
  <2>1. Verdict(d) \in Verdicts
    BY DEF Verdict, Verdicts, Mismatch
  <2>2. hook' \in [Deliveries -> Handler]
    BY ZenonT(30), <1>2, <1>h, <1>p, <2>1, HandlerVerdictType DEF FindByContent
  <2> QED BY <1>2, <1>a, <1>h, <1>s, <2>2 DEF FindByContent
<1>3. CASE SaveTransaction(d)
  <2> DEFINE verdict == hook[d].verdict
             order == IF verdict \in {"ignored", "notFound"} THEN NULL ELSE Target(d)
  <2>1. hook' \in [Deliveries -> Handler]
    <3>1. \/ Step(d, "note") \/ Step(d, "error")
          \/ hook' = [hook EXCEPT ![d].pc = "settle", ![d].todo = FirstCalls(verdict)]
      BY <1>3 DEF SaveTransaction
    <3>2. [hook EXCEPT ![d].pc = "settle", ![d].todo = FirstCalls(verdict)]
             \in [Deliveries -> Handler]
      BY ZenonT(30), <1>h, <1>p, <1>t, <1>c, HandlerCallsType
    <3>3. Step(d, "note") \/ Step(d, "error") => hook' \in [Deliveries -> Handler]
      BY <1>h, <1>p, HandlerPcType DEF Step
    <3> QED BY <3>1, <3>2, <3>3
  <2>2. transactions' \in [Deliveries -> TransactionRow]
    <3>1. CASE UNCHANGED transactions
      BY <3>1, <1>s
    <3>2. CASE ~UNCHANGED transactions
      <4>1. SavePaymentTransaction(d, TransactionStatus(verdict), order)
        BY <1>3, <3>2 DEF SaveTransaction
      <4>2. [status |-> TransactionStatus(verdict), order |-> order,
             amount |-> Body(d).amount] \in TransactionRow
        BY <1>t, <1>x DEF TransactionRow
      <4> QED BY <1>s, <4>1, <4>2 DEF SavePaymentTransaction
    <3> QED BY <3>1, <3>2
  <2> QED BY <1>3, <1>a, <1>h, <1>s, <2>1, <2>2 DEF SaveTransaction
<1>4. CASE MarkPaymentNotSuccess(d)
  <2>1. hook' \in [Deliveries -> Handler]
    <3>1. Step(d, "fail") \/ Step(d, "error")
      BY <1>4 DEF MarkPaymentNotSuccess
    <3> QED BY <3>1, <1>h, <1>p, HandlerPcType DEF Step
  <2>2. transactions' \in [Deliveries -> TransactionRow]
    <3> DEFINE status == TransactionStatus(hook[d].verdict)
    <3>1. status \in PaymentStatus
      BY <1>t, <1>x
    <3>2. transactions' = transactions
             \/ transactions' = [transactions EXCEPT ![d].status = status]
      BY <1>4 DEF MarkPaymentNotSuccess
    <3> HIDE DEF status
    <3>3. [transactions EXCEPT ![d].status = status] \in [Deliveries -> TransactionRow]
      BY <1>s, <3>1 DEF TransactionRow
    <3> QED BY <1>s, <3>2, <3>3
  <2> QED BY <1>4, <1>a, <1>h, <1>s, <2>1, <2>2 DEF MarkPaymentNotSuccess
<1>5. CASE FailWebhook(d)
  <2>1. hook' \in [Deliveries -> Handler]
    <3>1. [hook EXCEPT ![d].pc = "settle", ![d].todo = FirstCalls("already")]
             \in [Deliveries -> Handler]
      BY ZenonT(30), <1>h, <1>p, <1>c, HandlerCallsType DEF Verdicts
    <3>2. Step(d, "replied") => hook' \in [Deliveries -> Handler]
      BY SMTT(30), <1>h, <1>p, HandlerPcType DEF Step
    <3> QED BY <1>5, <3>1, <3>2 DEF FailWebhook
  <2>2. inbox' \in [Events -> InboxRow]
    BY <1>5, InboxType DEF FailWebhook
  <2> QED BY <1>5, <1>a, <1>h, <1>s, <2>1, <2>2 DEF FailWebhook
<1>g. ASSUME NEW call \in Calls
      PROVE  /\ Finish(d, call) => hook' \in [Deliveries -> Handler]
             /\ FailCall(d, call) => hook' \in [Deliveries -> Handler]
  <2> DEFINE t == hook[d].todo \ {call}
  <2>1. t \in SUBSET Calls
    BY <1>t
  <2>2. /\ Finish(d, call) => hook' = [hook EXCEPT ![d].todo = t]
        /\ FailCall(d, call) => hook' = [hook EXCEPT ![d].todo = t, ![d].failed = TRUE]
    BY <1>h DEF Finish, FailCall
  <2> HIDE DEF t
  <2>3. [hook EXCEPT ![d].todo = t] \in [Deliveries -> Handler]
    BY <1>h, <2>1, HandlerTodoType
  <2>4. [hook EXCEPT ![d].todo = t, ![d].failed = TRUE] \in [Deliveries -> Handler]
    BY ZenonT(30), <1>h, <2>1, HandlerFailType
  <2> QED BY <2>2, <2>3, <2>4
<1>k. {"webhook", "intent", "order", "debit", "paid", "credit", "unpaid"} \subseteq Calls
  BY DEF Calls
<1>6. CASE SettleWebhook(d)
  <2>1. hook' \in [Deliveries -> Handler]
    BY <1>6, <1>g, <1>k DEF SettleWebhook
  <2>2. inbox' \in [Events -> InboxRow]
    BY <1>6, <1>h, <1>t, <1>x, InboxType DEF SettleWebhook
  <2>3. faults' \in Nat
    BY <1>6, <1>a, <1>f DEF SettleWebhook
  <2> QED BY <1>6, <1>a, <1>h, <1>s, <2>1, <2>2, <2>3 DEF SettleWebhook
<1>7. CASE SettleIntent(d)
  <2>1. hook' \in [Deliveries -> Handler]
    BY <1>7, <1>g, <1>k DEF SettleIntent
  <2>2. intents' \in [Orders -> IntentRow]
    BY <1>7, <1>s, <1>t, <1>x, MarkIntentType DEF SettleIntent
  <2>3. faults' \in Nat
    BY <1>7, <1>a, <1>f DEF SettleIntent
  <2> QED BY <1>7, <1>a, <1>h, <1>s, <2>1, <2>2, <2>3 DEF SettleIntent
<1>8. CASE SettleOrder(d)
  <2>1. hook' \in [Deliveries -> Handler]
    BY <1>8, <1>g, <1>k DEF SettleOrder
  <2>2. orders' \in [Orders -> OrderRow] /\ transactions' \in [Deliveries -> TransactionRow]
    BY <1>8, <1>s, MarkOrderType DEF SettleOrder
  <2>3. faults' \in Nat
    BY <1>8, <1>a, <1>f DEF SettleOrder
  <2> QED BY <1>8, <1>a, <1>h, <1>s, <2>1, <2>2, <2>3 DEF SettleOrder
<1>9. CASE EndSettle(d)
  <2>1. hook' \in [Deliveries -> Handler]
    BY <1>9, <1>h, <1>p, HandlerPcType DEF EndSettle, Step
  <2> QED BY <1>9, <1>a, <1>h, <1>s, <2>1 DEF EndSettle
<1>10. CASE ReadItems(d)
  <2>1. Target(d) \in Orders
    BY <1>10 DEF ReadItems, HandlerInv
  <2> DEFINE items == orders[Target(d)].items
             quantity == IF items = <<>> THEN NoCart ELSE items[Len(items)].quantity
             t == {"debit", "paid"}
  <2>2. items \in Seq(Batch)
    BY <1>s, <2>1 DEF OrderRow
  <2>3. quantity \in AskedCart
    <3>1. CASE items = <<>>
      BY <3>1, EmptyTypes
    <3>2. CASE items # <<>>
      <4>1. items[Len(items)] \in Batch
        <5> HIDE DEF items
        <5> QED BY <2>2, <3>2
      <4> QED BY <4>1, <3>2 DEF Batch
    <3> QED BY <3>1, <3>2
  <2>4. hook' = [hook EXCEPT ![d].pc = "stock", ![d].todo = t, ![d].quantity = quantity]
    BY <1>10 DEF ReadItems
  <2>5. "stock" \in HandlerPcs /\ t \in SUBSET Calls
    BY <1>p, <1>c
  <2>6. hook' \in [Deliveries -> Handler]
    <3> HIDE DEF quantity, t, items
    <3> QED BY ZenonT(30), <1>h, <2>3, <2>4, <2>5, HandlerReadType
  <2> QED BY <1>10, <1>a, <1>h, <1>s, <2>6 DEF ReadItems
<1>d. ASSUME NEW call \in Calls, FailDone(d, call)
      PROVE  hook' \in [Deliveries -> Handler]
  <2> DEFINE t == (hook[d].todo \ {call}) \union
                     (IF hook[d].failed THEN {} ELSE {"credit", "unpaid"})
  <2>1. t \in SUBSET Calls
    BY <1>t, <1>c
  <2>2. hook' = [hook EXCEPT ![d].todo = t, ![d].failed = TRUE]
    BY <1>d, <1>h DEF FailDone
  <2> HIDE DEF t
  <2> QED BY ZenonT(30), <1>h, <2>1, <2>2, HandlerFailType
<1>11. CASE DebitStock(d)
  <2>1. hook' \in [Deliveries -> Handler]
    <3>1. CASE FailDone(d, "debit")
      BY <1>d, <1>k, <3>1
    <3>2. CASE ~FailDone(d, "debit")
      BY <1>11, <1>g, <1>k, <3>2 DEF DebitStock
    <3> QED BY <3>1, <3>2
  <2>2. stock' \in [Variants -> Int] /\ reserved' \in [Variants -> Int]
    <3>1. AddStock(hook[d].quantity, -1) \/ UNCHANGED <<stock, reserved>>
      BY <1>11 DEF DebitStock
    <3>2. -1 \in Int
      OBVIOUS
    <3> QED BY <1>s, <1>t, <3>1, <3>2, AddStockType
  <2>3. faults' \in Nat
    BY <1>11, <1>a, <1>f DEF DebitStock
  <2> QED BY <1>11, <1>a, <1>h, <1>s, <2>1, <2>2, <2>3 DEF DebitStock
<1>12. CASE CreditStock(d)
  <2>1. hook' \in [Deliveries -> Handler]
    <3>1. CASE FailCall(d, "credit")
      BY <1>g, <1>k, <3>1
    <3>2. CASE ~FailCall(d, "credit")
      BY <1>12, <1>g, <1>k, <3>2 DEF CreditStock
    <3> QED BY <3>1, <3>2
  <2>2. stock' \in [Variants -> Int] /\ reserved' \in [Variants -> Int]
    <3>1. AddStock(hook[d].quantity, 1) \/ UNCHANGED <<stock, reserved>>
      BY <1>12 DEF CreditStock
    <3> QED BY <1>s, <1>t, <3>1, AddStockType
  <2>3. faults' \in Nat
    BY <1>12, <1>a, <1>f DEF CreditStock
  <2> QED BY <1>12, <1>a, <1>h, <1>s, <2>1, <2>2, <2>3 DEF CreditStock
<1>13. ASSUME NEW call \in Calls, NEW status \in OrderStatus, SetOrderStatus(d, call, status)
       PROVE  hook' \in [Deliveries -> Handler] /\ orders' \in [Orders -> OrderRow]
  <2>1. hook' \in [Deliveries -> Handler]
    BY <1>13, <1>g DEF SetOrderStatus
  <2>2. orders' \in [Orders -> OrderRow]
    BY <1>13, <1>s, StatusType DEF SetOrderStatus
  <2> QED BY <2>1, <2>2
<1>14. CASE FailOrderStatus(d)
  <2>1. FailDone(d, "paid") \/ FailCall(d, "unpaid")
    BY <1>14 DEF FailOrderStatus
  <2>2. hook' \in [Deliveries -> Handler]
    BY <1>d, <1>g, <1>k, <2>1
  <2>3. faults' \in Nat
    BY <1>14, <1>a, <1>f DEF FailOrderStatus
  <2> QED BY <1>14, <1>a, <1>h, <1>s, <2>2, <2>3 DEF FailOrderStatus
<1>15. CASE EndStock(d)
  <2>1. hook' \in [Deliveries -> Handler]
    BY <1>15, <1>h, <1>p, HandlerPcType DEF EndStock, Step
  <2> QED BY <1>15, <1>a, <1>h, <1>s, <2>1 DEF EndStock
<1>16. CASE CrashHook(d)
  <2>1. hook' \in [Deliveries -> Handler]
    BY ZenonT(30), <1>16, <1>h, <1>p, HandlerCallsType DEF CrashHook
  <2> QED BY <1>16, <1>a, <1>f, <1>h, <1>s, <2>1 DEF CrashHook
<1>17. CASE SetOrderStatus(d, "paid", "PAID") \/ SetOrderStatus(d, "unpaid", "PENDING_PAYMENT")
  <2>1. "PAID" \in OrderStatus /\ "PENDING_PAYMENT" \in OrderStatus
    BY DEF OrderStatus
  <2>2. hook' \in [Deliveries -> Handler] /\ orders' \in [Orders -> OrderRow]
    BY <1>13, <1>17, <1>k, <2>1
  <2> QED BY <1>17, <1>a, <1>h, <1>s, <2>2 DEF SetOrderStatus
<1> QED
  BY <1>1, <1>2, <1>3, <1>4, <1>5, <1>6, <1>7, <1>8, <1>9, <1>10, <1>11, <1>12,
     <1>14, <1>15, <1>16, <1>17 DEF HookStep

\* A step of the polling endpoint keeps the type invariant.
LEMMA PollType ==
    ASSUME TypeOK, NEW o \in Orders, UNCHANGED <<checkoutVars, deskVars>>, PollStep(o)
    PROVE  TypeOK'
<1>1. UNCHANGED <<inbox, hook, stock, reserved, price, intents, now, faults>>
  BY DEF PollStep, PollIntent, PollOrder, PollMark, storeVars
<1>2. poll' \in [Orders -> {"idle", "order", "mark"}]
  BY DEF PollStep, PollIntent, PollOrder, PollMark, TypeOK, HooksTypeOK
<1>3. orders' \in [Orders -> OrderRow] /\ transactions' \in [Deliveries -> TransactionRow]
  <2>1. MarkOrderAndPaymentSuccess(o) \/ UNCHANGED <<orders, transactions>>
    BY DEF PollStep, PollIntent, PollOrder, PollMark, storeVars
  <2>2. CASE MarkOrderAndPaymentSuccess(o)
    BY <2>2, MarkOrderType
  <2>3. CASE UNCHANGED <<orders, transactions>>
    BY <2>3 DEF TypeOK, StoreTypeOK
  <2> QED BY <2>1, <2>2, <2>3
<1> QED
  BY <1>1, <1>2, <1>3
  DEF TypeOK, StoreTypeOK, CheckoutTypeOK, DeskTypeOK, HooksTypeOK, checkoutVars, deskVars

\* What the steps of a handler have in common: they leave the other handlers,
\* the event the handler is for, the bodies of all events and the polling
\* requests alone, and never take an event out of the inbox.
LEMMA HookFrame ==
    ASSUME TypeOK, NEW d \in Deliveries, HookStep(d) \/ CrashHook(d)
    PROVE  /\ \A x \in Deliveries : x # d => hook'[x] = hook[x]
           /\ hook'[d].event = hook[d].event
           /\ \A e \in Events : /\ inbox'[e].order = inbox[e].order
                                /\ inbox'[e].amount = inbox[e].amount
                                /\ inbox[e].status # "NONE" => inbox'[e].status # "NONE"
           /\ poll' = poll
<1> USE DEF storeVars, tables, Step, Finish, FailCall, FailDone
<1>h. hook \in [Deliveries -> Handler] /\ inbox \in [Events -> InboxRow]
      /\ hook[d].event \in Events
  BY HandlerFacts DEF TypeOK, HooksTypeOK
<1>u. ASSUME NEW status \in {"DONE", "FAILED"}, UpdateWebhookStatus(d, status)
      PROVE  \A e \in Events : /\ inbox'[e].order = inbox[e].order
                               /\ inbox'[e].amount = inbox[e].amount
                               /\ inbox[e].status # "NONE" => inbox'[e].status # "NONE"
  BY <1>h, <1>u DEF UpdateWebhookStatus, InboxRow
<1>1. CASE FindByContent(d)
  BY <1>1, <1>h DEF FindByContent, Handler
<1>2. CASE SaveTransaction(d)
  BY <1>2, <1>h DEF SaveTransaction, Handler
<1>3. CASE MarkPaymentNotSuccess(d)
  BY <1>3, <1>h DEF MarkPaymentNotSuccess, Handler
<1>4. CASE FailWebhook(d)
  BY <1>4, <1>h, <1>u DEF FailWebhook, Handler
<1>5. CASE SettleWebhook(d)
  BY <1>5, <1>h, <1>u DEF SettleWebhook, SettledStatus, Handler
<1>6. CASE SettleIntent(d)
  BY <1>6, <1>h DEF SettleIntent, Handler
<1>7. CASE SettleOrder(d)
  BY <1>7, <1>h DEF SettleOrder, Handler
<1>8. CASE EndSettle(d)
  BY <1>8, <1>h DEF EndSettle, Handler
<1>9. CASE ReadItems(d)
  BY <1>9, <1>h DEF ReadItems, Handler
<1>10. CASE DebitStock(d)
  BY <1>10, <1>h DEF DebitStock, Handler
<1>11. CASE CreditStock(d)
  BY <1>11, <1>h DEF CreditStock, Handler
<1>12. CASE SetOrderStatus(d, "paid", "PAID")
  BY <1>12, <1>h DEF SetOrderStatus, Handler
<1>13. CASE SetOrderStatus(d, "unpaid", "PENDING_PAYMENT")
  BY <1>13, <1>h DEF SetOrderStatus, Handler
<1>14. CASE FailOrderStatus(d)
  BY <1>14, <1>h DEF FailOrderStatus, Handler
<1>15. CASE EndStock(d)
  BY <1>15, <1>h DEF EndStock, Handler
<1>16. CASE CrashHook(d)
  BY <1>16, <1>h DEF CrashHook, Handler
<1> QED
  BY <1>1, <1>2, <1>3, <1>4, <1>5, <1>6, <1>7, <1>8, <1>9, <1>10, <1>11, <1>12,
     <1>13, <1>14, <1>15, <1>16 DEF HookStep

\* Where a handler stands: what it found is settled once, by the lookup, and
\* only an exact transfer reaches the stock.
LEMMA HookProgress ==
    ASSUME TypeOK, HandlerInv, NEW d \in Deliveries, HookStep(d) \/ CrashHook(d)
    PROVE  /\ hook[d].pc # "idle" /\ hook'[d].pc # "idle"
           /\ \/ hook'[d].verdict = hook[d].verdict
              \/ hook'[d].verdict = Verdict(d) /\ hook'[d].pc = "save"
           /\ hook'[d].pc \in {"items", "stock"} => hook'[d].verdict = "exact"
<1> USE DEF storeVars, tables, Step, Finish, FailCall, FailDone
<1>h. hook \in [Deliveries -> Handler] /\ hook[d] \in Handler
  BY HandlerFacts
<1>i. hook[d].pc \in {"items", "stock"} => hook[d].verdict = "exact"
  BY DEF HandlerInv
<1>1. CASE FindByContent(d)
  BY <1>1, <1>h DEF FindByContent, Handler
<1>2. CASE SaveTransaction(d)
  BY <1>2, <1>h DEF SaveTransaction, Handler
<1>3. CASE MarkPaymentNotSuccess(d)
  BY <1>3, <1>h DEF MarkPaymentNotSuccess, Handler
<1>4. CASE FailWebhook(d)
  BY <1>4, <1>h DEF FailWebhook, Handler
<1>5. CASE SettleWebhook(d)
  BY <1>5, <1>h DEF SettleWebhook, Handler
<1>6. CASE SettleIntent(d)
  BY <1>6, <1>h DEF SettleIntent, Handler
<1>7. CASE SettleOrder(d)
  BY <1>7, <1>h DEF SettleOrder, Handler
<1>8. CASE EndSettle(d)
  BY <1>8, <1>h DEF EndSettle, Handler
<1>9. CASE ReadItems(d)
  BY <1>9, <1>h, <1>i DEF ReadItems, Handler
<1>10. CASE DebitStock(d)
  BY <1>10, <1>h, <1>i DEF DebitStock, Handler
<1>11. CASE CreditStock(d)
  BY <1>11, <1>h, <1>i DEF CreditStock, Handler
<1>12. CASE SetOrderStatus(d, "paid", "PAID") \/ SetOrderStatus(d, "unpaid", "PENDING_PAYMENT")
  BY <1>12, <1>h, <1>i DEF SetOrderStatus, Handler
<1>13. CASE FailOrderStatus(d)
  BY <1>13, <1>h, <1>i DEF FailOrderStatus, Handler
<1>14. CASE EndStock(d)
  BY <1>14, <1>h DEF EndStock, Handler
<1>15. CASE CrashHook(d)
  BY <1>15, <1>h DEF CrashHook, Handler, HandlerSteps
<1> QED
  BY <1>1, <1>2, <1>3, <1>4, <1>5, <1>6, <1>7, <1>8, <1>9, <1>10, <1>11, <1>12,
     <1>13, <1>14, <1>15 DEF HookStep

\* A new delivery starts one handler, on an event that now has a body, and
\* changes no body a handler is working on.
LEMMA ReceiveFrame ==
    ASSUME TypeOK, HandlerInv, NEW d \in Deliveries, ReceiveWebhook(d)
    PROVE  /\ \A x \in Deliveries : x # d => hook'[x] = hook[x]
           /\ \A x \in Deliveries :
                 x # d /\ hook[x].pc # "idle" => /\ Body(x)'.order = Body(x).order
                                                /\ Body(x)'.amount = Body(x).amount
           /\ \A e \in Events : inbox[e].status # "NONE" => inbox'[e].status # "NONE"
           /\ Body(d)'.status # "NONE"
           /\ hook'[d].verdict = "none" /\ hook'[d].pc = "find"
           /\ hook[d].pc = "idle"
<1>h. hook \in [Deliveries -> Handler] /\ inbox \in [Events -> InboxRow]
  BY DEF TypeOK, HooksTypeOK
<1>1. PICK e \in Events :
        /\ IF inbox[e].status = "NONE"
           THEN \E o \in Orders \union {NULL}, amount \in Amounts :
                   SaveSepayWebhook(e, o, amount)
           ELSE SaveSepayWebhook(e, inbox[e].order, inbox[e].amount)
        /\ hook' = [hook EXCEPT ![d] = [IdleHandler(e) EXCEPT
               !.attempts = inbox'[e].attempts + 1,
               !.pc = IF inbox'[e].status = "DONE" THEN "replied" ELSE "find"]]
  BY ZenonT(30) DEF ReceiveWebhook
<1>2. /\ \A x \in Events : x # e => inbox'[x] = inbox[x]
      /\ inbox'[e].status = "PENDING"
      /\ inbox[e].status # "NONE" => /\ inbox'[e].order = inbox[e].order
                                     /\ inbox'[e].amount = inbox[e].amount
  BY <1>1, <1>h DEF SaveSepayWebhook
<1>3. /\ \A x \in Deliveries : x # d => hook'[x] = hook[x]
      /\ hook'[d].event = e /\ hook'[d].verdict = "none" /\ hook'[d].pc = "find"
  <2> DEFINE n == inbox'[e].attempts + 1
             pc == IF inbox'[e].status = "DONE" THEN "replied" ELSE "find"
  <2>1. hook' = [hook EXCEPT ![d] = [IdleHandler(e) EXCEPT !.attempts = n, !.pc = pc]]
    BY <1>1
  <2>2. pc = "find"
    BY <1>2
  <2> HIDE DEF n, pc
  <2> QED BY <1>h, <2>1, <2>2 DEF IdleHandler
<1>4. ASSUME NEW x \in Deliveries, x # d, hook[x].pc # "idle"
      PROVE  Body(x)'.order = Body(x).order /\ Body(x)'.amount = Body(x).amount
  <2>1. hook[x].event \in Events /\ Body(x).status # "NONE" /\ hook'[x] = hook[x]
    BY <1>3, <1>4, HandlerFacts DEF HandlerInv
  <2> QED BY <1>2, <2>1 DEF Body
<1>5. hook[d].pc = "idle"
  BY DEF ReceiveWebhook
<1> QED BY <1>2, <1>3, <1>4, <1>5 DEF Body

\* HandlerInv is kept by every step.
LEMMA HandlerInvStep ==
    ASSUME TypeOK, TypeOK', HandlerInv, Next
    PROVE  HandlerInv'
<1> SUFFICES ASSUME NEW x \in Deliveries
             PROVE  /\ IF hook'[x].pc = "idle" THEN hook'[x].verdict = "none"
                                               ELSE Body(x)'.status # "NONE"
                    /\ hook'[x].verdict \notin {"none", "ignored"} => Target(x)' \in Orders
                    /\ hook'[x].pc \in {"items", "stock"} => hook'[x].verdict = "exact"
  BY DEF HandlerInv
<1>i. /\ IF hook[x].pc = "idle" THEN hook[x].verdict = "none" ELSE Body(x).status # "NONE"
      /\ hook[x].verdict \notin {"none", "ignored"} => Target(x) \in Orders
      /\ hook[x].pc \in {"items", "stock"} => hook[x].verdict = "exact"
  BY DEF HandlerInv
<1>e. hook[x].event \in Events
  BY HandlerFacts
<1>1. CASE UNCHANGED <<inbox, hook>>
  BY <1>1, <1>i DEF Body, Target
<1>2. ASSUME NEW d \in Deliveries, HookStep(d) \/ CrashHook(d)
      PROVE  /\ IF hook'[x].pc = "idle" THEN hook'[x].verdict = "none"
                                        ELSE Body(x)'.status # "NONE"
             /\ hook'[x].verdict \notin {"none", "ignored"} => Target(x)' \in Orders
             /\ hook'[x].pc \in {"items", "stock"} => hook'[x].verdict = "exact"
  <2>1. hook'[x].event = hook[x].event
    BY <1>2, HookFrame
  <2>2. Target(x)' = Target(x) /\ (Body(x).status # "NONE" => Body(x)'.status # "NONE")
    BY <1>2, <1>e, <2>1, HookFrame DEF Body, Target
  <2>3. CASE x # d
    BY <1>2, <1>i, <2>2, <2>3, HookFrame
  <2>4. CASE x = d
    <3>1. Verdict(d) \notin {"none", "ignored"} => Target(d) \in Orders
      BY <1>2, HandlerFacts DEF Verdict
    <3> QED BY <1>2, <1>i, <2>2, <2>4, <3>1, HookProgress
  <2> QED BY <2>3, <2>4
<1>3. ASSUME NEW d \in Deliveries, ReceiveWebhook(d)
      PROVE  /\ IF hook'[x].pc = "idle" THEN hook'[x].verdict = "none"
                                        ELSE Body(x)'.status # "NONE"
             /\ hook'[x].verdict \notin {"none", "ignored"} => Target(x)' \in Orders
             /\ hook'[x].pc \in {"items", "stock"} => hook'[x].verdict = "exact"
  <2>1. CASE x = d
    BY <1>3, <2>1, ReceiveFrame
  <2>2. CASE x # d
    <3>1. hook'[x] = hook[x]
      BY <1>3, <2>2, ReceiveFrame
    <3>2. hook[x].pc # "idle" => Body(x)'.status # "NONE" /\ Target(x)' = Target(x)
      BY <1>3, <1>i, <1>e, <2>2, <3>1, ReceiveFrame DEF Body, Target
    <3> QED BY <1>i, <3>1, <3>2
  <2> QED BY <2>1, <2>2
<1>4. ASSUME NEW o \in Orders, PollStep(o)
      PROVE  UNCHANGED <<inbox, hook>>
  BY <1>4 DEF PollStep, PollIntent, PollOrder, PollMark
<1> QED BY <1>1, <1>2, <1>3, <1>4 DEF Next, HooksNext, hooksVars

\* The inductive invariant behind the type invariant.
TypeInv == TypeOK /\ HandlerInv

\* It holds when the servers start.
LEMMA InitTypeInv ==
    ASSUME Init
    PROVE  TypeInv
<1>1. StoreTypeOK
  <2>1. stock \in [Variants -> Int] /\ reserved \in [Variants -> Int]
    BY ConstantTypes, EmptyTypes DEF Init, StoreInit
  <2> QED BY <2>1, EmptyTypes DEF Init, StoreInit, StoreTypeOK
<1>2. CheckoutTypeOK
  BY EmptyTypes DEF Init, CheckoutInit, CheckoutTypeOK
<1>3. DeskTypeOK
  BY DEF Init, DeskInit, DeskTypeOK
<1> DEFINE first == CHOOSE e \in Events : TRUE
<1>4. first \in Events
  BY HooksConstants
<1>5. IdleHandler(first) \in Handler
  <2> HIDE DEF first
  <2> QED BY <1>4, EmptyTypes DEF IdleHandler, Handler, Verdicts
<1>6. hook = [d \in Deliveries |-> IdleHandler(first)]
  BY DEF Init, HooksInit
<1> HIDE DEF first
<1>7. HooksTypeOK
  <2>1. NoInboxRow \in InboxRow
    BY DEF NoInboxRow, InboxRow
  <2> QED BY <1>5, <1>6, <2>1 DEF Init, HooksInit, HooksTypeOK
<1>8. HandlerInv
  BY <1>6 DEF HandlerInv, IdleHandler
<1> QED BY <1>1, <1>2, <1>3, <1>7, <1>8 DEF TypeInv, TypeOK

\* Every step keeps it.
LEMMA NextTypeInv ==
    ASSUME TypeInv, [Next]_vars
    PROVE  TypeInv'
<1> USE DEF TypeInv
<1>1. CASE UNCHANGED vars
  BY <1>1
  DEF vars, storeVars, checkoutVars, deskVars, hooksVars, TypeOK, StoreTypeOK,
      CheckoutTypeOK, DeskTypeOK, HooksTypeOK, HandlerInv, Body, Target
<1>2. CASE Next
  <2>1. TypeOK'
    <3>1. CASE CheckoutNext /\ UNCHANGED <<deskVars, hooksVars>>
      BY <3>1, HttpType, JobType, CleanupType DEF CheckoutNext
    <3>2. CASE DeskNext /\ UNCHANGED <<checkoutVars, hooksVars>>
      BY <3>2, DeskType
    <3>3. CASE HooksNext /\ UNCHANGED <<checkoutVars, deskVars>>
      BY <3>3, HookType, PollType DEF HooksNext
    <3>4. CASE Tick /\ UNCHANGED <<checkoutVars, deskVars, hooksVars>>
      BY <3>4
      DEF Tick, tables, checkoutVars, deskVars, hooksVars, TypeOK, StoreTypeOK,
          CheckoutTypeOK, DeskTypeOK, HooksTypeOK
    <3> QED BY <1>2, <3>1, <3>2, <3>3, <3>4 DEF Next
  <2> QED BY <1>2, <2>1, HandlerInvStep
<1> QED BY <1>1, <1>2

\* TypeInv holds in every reachable state.
THEOREM Reachable == Spec => []TypeInv
<1>1. Init => TypeInv
  BY InitTypeInv
<1>2. TypeInv /\ [Next]_vars => TypeInv'
  BY NextTypeInv
<1> QED BY <1>1, <1>2, PTL DEF Spec

\* Whatever customers, the bank, admins and failures do, every table, counter,
\* request, job, handler and the cleanup job keeps its type: in particular the
\* stock and the counters stay integers, a handler that goes on to the stock
\* has a real order, and all steps are those the code can be in.
THEOREM TypeInvariant == Spec => []TypeOK
<1>1. TypeInv => TypeOK
  BY DEF TypeInv
<1> QED BY <1>1, Reachable, PTL

-----------------------------------------------------------------------------
(***************************************************************************)
(* The inventory follows the abstract StockLedger but for the two          *)
(* statements that are named, so no more copies are reserved than there    *)
(* are.                                                                    *)
(***************************************************************************)

\* The statements of the whole system that write stock or reserved.
StockStatement ==
    \/ UNCHANGED <<stock, reserved>>
    \/ \E o \in Orders : UpdateReservedByIds(req[o].quantity) /\ UNCHANGED stock
    \/ Restocks
    \/ \E v \in Variants, n \in Quantities :
          stock' = [stock EXCEPT ![v] = @ + n] /\ UNCHANGED reserved
    \/ \E d \in Deliveries : AddStock(hook[d].quantity, -1)
    \/ Compensates

\* Every step changes stock and reserved by one of these statements, if at all.
LEMMA StockStatements ==
    ASSUME [Next]_vars
    PROVE  StockStatement
<1> USE DEF StockStatement, storeVars, tables
<1>1. CASE UNCHANGED vars
  BY <1>1 DEF vars
<1>2. ASSUME NEW o \in Orders,
             StartCheckout(o) \/ RejectCheckout(o) \/ HttpStep(o) \/ AbortCheckout(o)
      PROVE  StockStatement
  <2>1. CASE Fallback(o)
    BY SMTT(30), <2>1 DEF Fallback
  <2>2. CASE ~Fallback(o)
    BY ZenonT(30), <1>2, <2>2
    DEF StartCheckout, FreeOf, RejectCheckout, HttpStep, AbortCheckout, SeedCounters, DecrBy,
        Rollback, CreateOrder, CreatePaymentIntent, EnqueueCheckout
  <2> QED BY <2>1, <2>2
<1>3. ASSUME NEW o \in Orders, JobStep(o) \/ StallJob(o)
      PROVE  StockStatement
  <2>1. CASE Reserve(o)
    BY <2>1 DEF Reserve
  <2>2. CASE ~Reserve(o)
    BY <1>3, <2>2 DEF JobStep, StallJob, StartJob, CreateItems, CreateAddress, DeleteOrder
  <2> QED BY <2>1, <2>2
<1>4. ASSUME CleanupStep PROVE StockStatement
  BY ZenonT(30), <1>4 DEF CleanupStep, FindExpired, SumItems, ClearOrder, Restocks
<1>5. ASSUME NEW v \in Expiring, ExpireCounter(v) PROVE StockStatement
  BY <1>5 DEF ExpireCounter
<1>6. ASSUME DeskNext PROVE StockStatement
  BY <1>6 DEF DeskNext, UpdatePriceVariant, ImportStock, CheckOrderStatus, UpdateOrderStatus
<1>7. ASSUME NEW d \in Deliveries, ReceiveWebhook(d) \/ HookStep(d) \/ CrashHook(d)
      PROVE  StockStatement
  <2>1. CASE DebitStock(d)
    BY <2>1 DEF DebitStock
  <2>2. CASE CreditStock(d)
    BY SMTT(30), <2>2 DEF CreditStock, Compensates
  <2>3. CASE ~DebitStock(d) /\ ~CreditStock(d)
    BY ZenonT(30), <1>7, <2>3
    DEF ReceiveWebhook, HookStep, CrashHook, FindByContent, SaveTransaction,
        MarkPaymentNotSuccess, FailWebhook, SettleWebhook, SettleIntent, SettleOrder,
        EndSettle, ReadItems, SetOrderStatus, FailOrderStatus, EndStock
  <2> QED BY <2>1, <2>2, <2>3
<1>8. ASSUME NEW o \in Orders, PollStep(o) PROVE StockStatement
  BY <1>8 DEF PollStep, PollIntent, PollOrder, PollMark
<1>9. ASSUME Tick PROVE StockStatement
  BY <1>9 DEF Tick
<1> QED
  BY <1>1, <1>2, <1>3, <1>4, <1>5, <1>6, <1>7, <1>8, <1>9
  DEF Next, CheckoutNext, HooksNext

\* The abstract state: the copies of each variant that are not reserved.
Free == [v \in Variants |-> stock[v] - reserved[v]]

\* The rules of the ledger and the two statements that follow none of them.
LedgerNext == Ledger!Next \/ Restocks \/ Compensates

\* Each of these statements is a step of the ledger, one of the two that are
\* named, or nothing to it.
LEMMA LedgerStep ==
    ASSUME TypeOK, StockStatement
    PROVE  [LedgerNext]_<<stock, reserved>>
<1>t. stock \in [Variants -> Int] /\ reserved \in [Variants -> Int] /\ Free \in [Variants -> Int]
  BY DEF TypeOK, StoreTypeOK, Free
<1>1. ASSUME NEW o \in Orders, UpdateReservedByIds(req[o].quantity), UNCHANGED stock
      PROVE  Ledger!Hold
  <2> DEFINE q == req[o].quantity
             granted == {v \in Variants : q[v] <= Free[v]}
             taken == [v \in Variants |-> IF v \in granted THEN q[v] ELSE 0]
  <2>1. q \in Ledger!Quantity /\ q \in [Variants -> Nat]
    BY RequestFacts DEF AskedCart, Cart, Ledger!Quantity
  <2>2. granted \in SUBSET Variants /\ \A v \in granted : q[v] <= Free[v]
    OBVIOUS
  <2>3. reserved' = [v \in Variants |-> IF stock[v] - reserved[v] >= q[v]
                                        THEN reserved[v] + q[v] ELSE reserved[v]]
    BY <1>1 DEF UpdateReservedByIds
  <2> HIDE DEF q
  <2>4. ASSUME NEW v \in Variants
        PROVE  /\ reserved'[v] = reserved[v] + taken[v]
               /\ stock'[v] - reserved'[v] = Free[v] - taken[v]
    BY <1>1, <1>t, <2>1, <2>3 DEF Free
  <2>5. reserved' = Ledger!Plus(reserved, taken)
    BY <2>3, <2>4 DEF Ledger!Plus
  <2>6. Free' = Ledger!Minus(Free, taken)
    BY <2>4 DEF Free, Ledger!Minus
  <2> HIDE DEF granted
  <2> QED BY <2>1, <2>2, <2>5, <2>6 DEF Ledger!Hold, Free
<1>2. ASSUME NEW v \in Variants, NEW n \in Quantities,
             stock' = [stock EXCEPT ![v] = @ + n], UNCHANGED reserved
      PROVE  Ledger!Import
  <2>1. n \in Nat
    BY ConstantTypes
  <2>2. ASSUME NEW w \in Variants
        PROVE  stock'[w] - reserved'[w] = IF w = v THEN Free[v] + n ELSE Free[w]
    BY <1>t, <1>2, <2>1 DEF Free
  <2>3. Free' = [Free EXCEPT ![v] = @ + n]
    BY <1>t, <2>2 DEF Free
  <2> QED BY <1>2, <2>3 DEF Ledger!Import, Free
<1>3. ASSUME NEW d \in Deliveries, AddStock(hook[d].quantity, -1)
      PROVE  Ledger!Ship
  <2> DEFINE q == hook[d].quantity
  <2>1. q \in Ledger!Quantity /\ q \in [Variants -> Nat]
    BY HandlerFacts DEF AskedCart, Cart, Ledger!Quantity
  <2>2. /\ stock' = [v \in Variants |-> stock[v] + (-1) * q[v]]
        /\ reserved' = [v \in Variants |-> reserved[v] + (-1) * q[v]]
    BY <1>3 DEF AddStock
  <2> HIDE DEF q
  <2>3. ASSUME NEW v \in Variants
        PROVE  /\ reserved'[v] = reserved[v] - q[v]
               /\ stock'[v] - reserved'[v] = stock[v] - reserved[v]
    BY <1>t, <2>1, <2>2
  <2>4. reserved' = Ledger!Minus(reserved, q)
    BY <2>2, <2>3 DEF Ledger!Minus
  <2>5. Free' = Free
    BY <2>3 DEF Free
  <2> QED BY <2>1, <2>4, <2>5 DEF Ledger!Ship, Free
<1> QED BY <1>1, <1>2, <1>3 DEF StockStatement, LedgerNext, Ledger!Next

\* The inventory implements the ledger: the concurrent checkouts, fallbacks,
\* payments and imports of the whole system hold, ship and bring in copies by
\* its rules exactly, and the only other statements are the restock of the
\* cleanup and the credit of the compensation, which break them.
THEOREM ImplementsLedger == Spec => LedgerSpec
<1>1. Init => Ledger!Init
  BY ConstantTypes DEF Init, StoreInit, NoCart, Ledger!Init
<1>2. TypeInv /\ [Next]_vars => [LedgerNext]_<<stock, reserved>>
  BY StockStatements, LedgerStep DEF TypeInv
<1> QED BY <1>1, <1>2, Reachable, PTL DEF Spec, LedgerSpec, LedgerNext

\* No reachable state reserves more copies of a variant than its stock says,
\* whatever the interleaving.  Together with TypeInv this is inductive as it
\* stands: the ledger holds only what is free, and of the two statements outside
\* it one moves both columns alike and the other frees copies.
THEOREM NeverOverReserved == Spec => []NoOverReservation
<1>1. Init => NoOverReservation
  BY ConstantTypes DEF Init, StoreInit, NoCart, NoOverReservation
<1>2. TypeInv /\ TypeInv' /\ NoOverReservation /\ [Next]_vars => NoOverReservation'
  <2> SUFFICES ASSUME TypeInv, TypeInv', NoOverReservation, [Next]_vars
               PROVE  NoOverReservation'
    OBVIOUS
  <2>t. /\ stock \in [Variants -> Int] /\ reserved \in [Variants -> Int]
        /\ stock' \in [Variants -> Int] /\ reserved' \in [Variants -> Int]
    BY DEF TypeInv, TypeOK, StoreTypeOK
  <2>f. Free \in [Variants -> Int] /\ \A v \in Variants : Free[v] >= 0
    BY <2>t DEF Free, NoOverReservation
  <2>n. Ledger!Quantity \subseteq [Variants -> Nat]
    <3>1. Quantities \union {0} \subseteq Nat
      BY ConstantTypes
    <3> QED BY <3>1 DEF Ledger!Quantity
  <2>1. [LedgerNext]_<<stock, reserved>>
    BY StockStatements, LedgerStep DEF TypeInv
  <2>2. \A v \in Variants : Free'[v] >= 0
    <3>1. CASE UNCHANGED <<stock, reserved>>
      BY <2>f, <3>1 DEF Free
    <3>2. CASE Ledger!Hold
      <4>1. PICK q \in Ledger!Quantity, granted \in SUBSET Variants :
              /\ \A v \in granted : q[v] <= Free[v]
              /\ Free' = [v \in Variants |->
                     Free[v] - [w \in Variants |-> IF w \in granted THEN q[w] ELSE 0][v]]
        BY <3>2 DEF Ledger!Hold, Ledger!Minus, Free
      <4> QED BY <2>f, <2>n, <4>1
    <3>3. CASE Ledger!Ship
      BY <2>f, <3>3 DEF Ledger!Ship, Free
    <3>4. CASE Ledger!Release
      <4>1. PICK q \in Ledger!Quantity : Free' = [v \in Variants |-> Free[v] + q[v]]
        BY <3>4 DEF Ledger!Release, Ledger!Plus, Free
      <4> QED BY <2>f, <2>n, <4>1
    <3>5. CASE Ledger!Import
      <4>1. PICK v \in Variants, n \in Quantities : Free' = [Free EXCEPT ![v] = @ + n]
        BY <3>5 DEF Ledger!Import, Free
      <4>2. n \in Nat
        BY ConstantTypes
      <4> QED BY <2>f, <4>1, <4>2
    <3>6. CASE Restocks
      <4>1. cleaner.sum \in [Variants -> Nat]
        BY CleanerFacts DEF TypeInv, Cart
      <4> DEFINE q == cleaner.sum
      <4>2. /\ stock' = [v \in Variants |-> stock[v] + q[v]]
            /\ reserved' = [v \in Variants |-> reserved[v] - q[v]]
        BY <3>6 DEF Restocks, GiveBack
      <4> HIDE DEF q
      <4> QED BY <2>t, <2>f, <4>1, <4>2 DEF Free, q
    <3>7. CASE Compensates
      <4>1. PICK d \in Deliveries : AddStock(hook[d].quantity, 1)
        BY <3>7 DEF Compensates
      <4> DEFINE q == hook[d].quantity
      <4>2. q \in [Variants -> Nat]
        BY HandlerFacts DEF TypeInv, Cart
      <4>3. /\ stock' = [v \in Variants |-> stock[v] + 1 * q[v]]
            /\ reserved' = [v \in Variants |-> reserved[v] + 1 * q[v]]
        BY <4>1 DEF AddStock
      <4> HIDE DEF q
      <4> QED BY <2>t, <2>f, <4>2, <4>3 DEF Free
    <3> QED BY <2>1, <3>1, <3>2, <3>3, <3>4, <3>5, <3>6, <3>7 DEF LedgerNext, Ledger!Next
  <2> QED BY <2>t, <2>2 DEF Free, NoOverReservation
<1> QED BY <1>1, <1>2, Reachable, PTL DEF Spec
=============================================================================
