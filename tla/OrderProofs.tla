---------------------------- MODULE OrderProofs ------------------------------
(***************************************************************************)
(* What an order is worth and what becomes of it: no order is paid, and no *)
(* intent successful, without a transfer on record that covers the total; a *)
(* checkout reserves once, the items of an order add up to its total, and a *)
(* webhook is settled only with its transfer on record.  Two lemmas say how *)
(* one step of the whole system can change one request and one order row;  *)
(* the last three invariants are then arguments about these moves.         *)
(***************************************************************************)
EXTENDS BookStoreProofs

(* ---------------------- Paid is backed by a transfer --------------------- *)

\* Where a request stands before its order exists.
BeforeOrder == {"idle", "setnx", "decrby", "rollback", "fallback", "order"}

\* The handler of d found an intent.
Found(d) == hook[d].verdict \notin {"none", "ignored", "notFound"}

\* A deleted order needs no transfer, and none can be paid.
Backed(o) == OrderExists(o) => Covering(o) # {}

\* The places where a handler is about to mark an order or an intent as paid.
Relies(d) ==
    \/ hook[d].pc = "save" /\ hook[d].verdict = "already"
    \/ hook[d].pc \in {"note", "fail", "settle"}
          /\ hook[d].verdict \in {"overage", "exact", "already"}
    \/ hook[d].pc \in {"items", "stock"}

\* Nobody knows of an order that is not created yet.
FreshInv ==
    \A o \in Orders : req[o].pc \in BeforeOrder =>
        /\ ~OrderExists(o) /\ intents[o].status = "NONE" /\ poll[o] = "idle"
        /\ \A d \in Deliveries : Found(d) => Target(d) # o

\* An intent belongs to an order, and goes with it.
IntentInv ==
    \A o \in Orders : req[o].pc = "intent" \/ intents[o].status # "NONE" => OrderExists(o)

\* The polling endpoint has seen a paid intent.
PollInv == \A o \in Orders : poll[o] # "idle" => Backed(o)

\* A delivery saves its transfer once, so it never overwrites one.
UnsavedInv ==
    \A d \in Deliveries :
        hook[d].pc \in {"idle", "find", "save"} => transactions[d].order = NULL

\* Which verdicts reach which calls.
VerdictInv ==
    \A d \in Deliveries :
        /\ hook[d].pc = "save" => hook[d].verdict # "none"
        /\ hook[d].pc \in {"note", "fail"} => hook[d].verdict \in {"shortfall", "overage"}
        /\ hook[d].pc = "settle" =>
              /\ "order" \in hook[d].todo => hook[d].verdict = "exact"
              /\ "intent" \in hook[d].todo =>
                    hook[d].verdict \in {"expired", "already", "overage", "exact"}

\* A transfer about to be saved covers the order it was compared with, and a
\* handler that is about to mark something as paid has a covering transfer.
CoverInv ==
    \A d \in Deliveries :
        /\ hook[d].pc = "save" /\ hook[d].verdict \in {"exact", "overage"}
              => (OrderExists(Target(d)) => Body(d).amount >= orders[Target(d)].total)
        /\ Relies(d) => Backed(Target(d))

PaymentInv ==
    /\ FreshInv /\ IntentInv /\ PollInv /\ UnsavedInv /\ VerdictInv /\ CoverInv
    /\ PaidIsBacked
    /\ HandlerInv

\* A handler that found an intent, or is about to mark something, has an order.
LEMMA FoundTarget ==
    ASSUME HandlerInv, NEW d \in Deliveries, Found(d) \/ Relies(d)
    PROVE  Target(d) \in Orders /\ Found(d)
BY DEF HandlerInv, Found, Relies

(* ------------------- Steps of checkout, cleanup and desk ---------------- *)

\* A step that pays, creates and deletes nothing.
Quiet ==
    /\ UNCHANGED <<intents, transactions>>
    /\ \A o \in Orders :
          /\ orders'[o].total = orders[o].total
          /\ orders'[o].status = "NONE" <=> orders[o].status = "NONE"
          /\ orders'[o].status = "PAID" => orders[o].status = "PAID"
          /\ orders'[o].paymentStatus = "SUCCESS" => orders[o].paymentStatus = "SUCCESS"
          /\ req'[o].pc \in BeforeOrder => req[o].pc \in BeforeOrder
          /\ req'[o].pc = "intent" => req[o].pc = "intent"

\* Such a step keeps the invariant.
LEMMA QuietStep ==
    ASSUME PaymentInv, UNCHANGED hooksVars, Quiet
    PROVE  PaymentInv'
<1> USE DEF hooksVars, Quiet
<1>1. \A o \in Orders : /\ Covering(o)' = Covering(o)
                        /\ OrderExists(o)' <=> OrderExists(o)
                        /\ Backed(o)' <=> Backed(o)
  BY DEF Covering, OrderExists, Backed
<1>2. \A d \in Deliveries : /\ Found(d)' <=> Found(d)
                            /\ Relies(d)' <=> Relies(d)
                            /\ Body(d)' = Body(d) /\ Target(d)' = Target(d)
  BY DEF Found, Relies, Body, Target
<1>3. FreshInv'
  BY <1>1, <1>2 DEF PaymentInv, FreshInv
<1>4. IntentInv'
  BY <1>1 DEF PaymentInv, IntentInv
<1>5. PollInv'
  BY <1>1 DEF PaymentInv, PollInv
<1>6. UnsavedInv' /\ VerdictInv'
  BY DEF PaymentInv, UnsavedInv, VerdictInv
<1>7. HandlerInv'
  BY <1>2 DEF PaymentInv, HandlerInv
<1>8. PaidIsBacked'
  BY <1>1 DEF PaymentInv, PaidIsBacked
<1>9. CoverInv'
  <2> SUFFICES ASSUME NEW d \in Deliveries
               PROVE  /\ hook[d].pc = "save" /\ hook[d].verdict \in {"exact", "overage"}
                            => (OrderExists(Target(d)) => Body(d).amount >= orders[Target(d)].total)'
                      /\ Relies(d) => Backed(Target(d))'
    BY <1>2 DEF CoverInv
  <2>1. Found(d) \/ Relies(d) => Target(d) \in Orders
    BY FoundTarget DEF PaymentInv
  <2>2. hook[d].verdict \in {"exact", "overage"} => Found(d)
    BY DEF Found
  <2> QED BY <1>1, <1>2, <2>1, <2>2 DEF PaymentInv, CoverInv, Backed, OrderExists
<1> QED BY <1>3, <1>4, <1>5, <1>6, <1>7, <1>8, <1>9 DEF PaymentInv

\* Of the steps of a checkout and of its job only three are not quiet.
LEMMA QuietCheckout ==
    ASSUME TypeOK, NEW o \in Orders,
           \/ StartCheckout(o) \/ RejectCheckout(o) \/ AbortCheckout(o)
           \/ SeedCounters(o) \/ DecrBy(o) \/ Rollback(o) \/ Fallback(o) \/ EnqueueCheckout(o)
           \/ StartJob(o) \/ CreateItems(o) \/ CreateAddress(o) \/ Reserve(o) \/ StallJob(o)
           \/ DeleteOrder(o) /\ UNCHANGED <<orders, intents, transactions>>
    PROVE  Quiet
<1> USE DEF storeVars, tables, Goto, ToFallback
<1>t. /\ req \in [Orders -> Request] /\ orders \in [Orders -> OrderRow]
      /\ \A x \in Orders : req[x] \in Request
      /\ \A x \in Orders : orders[x] \in OrderRow
  BY DEF TypeOK, StoreTypeOK, CheckoutTypeOK
<1>q. ASSUME UNCHANGED orders, UNCHANGED <<intents, transactions>>,
             \A x \in Orders : x # o => req'[x] = req[x],
             req'[o].pc \in BeforeOrder => req[o].pc \in BeforeOrder,
             req'[o].pc # "intent"
      PROVE  Quiet
  BY <1>q DEF Quiet
<1>1. CASE StartCheckout(o)
  <2>1. PICK quantity \in AskedCart, kind \in Kinds :
          req' = [req EXCEPT ![o] =
                 [IdleRequest EXCEPT
                     !.pc = "setnx", !.quantity = quantity,
                     !.unitPrice = price,
                     !.free = [v \in Variants |-> stock[v] - reserved[v]],
                     !.guest = kind.guest, !.cod = kind.cod]]
    BY ZenonT(30), <1>1 DEF StartCheckout, FreeOf
  <2> DEFINE r == [IdleRequest EXCEPT
                     !.pc = "setnx", !.quantity = quantity,
                     !.unitPrice = price,
                     !.free = [v \in Variants |-> stock[v] - reserved[v]],
                     !.guest = kind.guest, !.cod = kind.cod]
  <2>2. r.pc = "setnx"
    BY DEF IdleRequest
  <2> HIDE DEF r
  <2>3. req' = [req EXCEPT ![o] = r]
    BY SMTT(30), <2>1 DEF r
  <2>4. req[o].pc = "idle" /\ UNCHANGED <<orders, intents, transactions>>
    BY ZenonT(30), <1>1 DEF StartCheckout, FreeOf
  <2> QED BY SMTT(30), <1>t, <1>q, <2>2, <2>3, <2>4 DEF BeforeOrder
<1>2. CASE RejectCheckout(o)
  BY <1>2, <1>t, <1>q DEF RejectCheckout, BeforeOrder, Request
<1>3. CASE AbortCheckout(o)
  BY <1>3, <1>t, <1>q DEF AbortCheckout, BeforeOrder, Request
<1>4. CASE SeedCounters(o)
  BY <1>4, <1>t, <1>q DEF SeedCounters, BeforeOrder, Request
<1>5. CASE DecrBy(o)
  BY <1>5, <1>t, <1>q DEF DecrBy, BeforeOrder, Request
<1>6. CASE Rollback(o)
  BY <1>6, <1>t, <1>q DEF Rollback, BeforeOrder, Request
<1>7. CASE Fallback(o)
  BY <1>7, <1>t, <1>q DEF Fallback, BeforeOrder, Request
<1>8. CASE EnqueueCheckout(o)
  BY <1>8, <1>t, <1>q DEF EnqueueCheckout, BeforeOrder, Request
<1>9. CASE StartJob(o)
  BY <1>9, <1>t, <1>q DEF StartJob, BeforeOrder, Request
<1>10. CASE Reserve(o)
  BY <1>10, <1>t, <1>q DEF Reserve, BeforeOrder, Request
<1>11. CASE StallJob(o)
  BY <1>11, <1>t, <1>q DEF StallJob, BeforeOrder, Request
<1>12. CASE DeleteOrder(o) /\ UNCHANGED <<orders, intents, transactions>>
  BY <1>12, <1>t, <1>q DEF DeleteOrder, BeforeOrder, Request
<1>r. ASSUME UNCHANGED <<intents, transactions>>,
             \A x \in Orders : x # o => orders'[x] = orders[x],
             /\ orders'[o].status = orders[o].status
             /\ orders'[o].paymentStatus = orders[o].paymentStatus
             /\ orders'[o].total = orders[o].total,
             \A x \in Orders : x # o => req'[x] = req[x],
             req'[o].pc \notin BeforeOrder \union {"intent"}
      PROVE  Quiet
  BY <1>r DEF Quiet
<1>13. CASE CreateItems(o)
  <2>1. /\ UNCHANGED <<intents, transactions>>
        /\ \A x \in Orders : x # o => orders'[x] = orders[x] /\ req'[x] = req[x]
    BY <1>13, <1>t DEF CreateItems
  <2>2. /\ orders'[o].status = orders[o].status
        /\ orders'[o].paymentStatus = orders[o].paymentStatus
        /\ orders'[o].total = orders[o].total
    BY <1>13, <1>t DEF CreateItems, OrderRow
  <2>3. req'[o].pc \in {"address", "reserve", "done", "delete"}
    BY <1>13, <1>t DEF CreateItems, ReserveOrDone, Request
  <2> QED BY <1>r, <2>1, <2>2, <2>3 DEF BeforeOrder
<1>14. CASE CreateAddress(o)
  <2>1. /\ UNCHANGED <<intents, transactions>>
        /\ \A x \in Orders : x # o => orders'[x] = orders[x] /\ req'[x] = req[x]
    BY <1>14, <1>t DEF CreateAddress
  <2>2. /\ orders'[o].status = orders[o].status
        /\ orders'[o].paymentStatus = orders[o].paymentStatus
        /\ orders'[o].total = orders[o].total
    BY <1>14, <1>t DEF CreateAddress, OrderRow
  <2>3. req'[o].pc \in {"reserve", "done", "delete"}
    BY <1>14, <1>t DEF CreateAddress, ReserveOrDone, Request
  <2> QED BY <1>r, <2>1, <2>2, <2>3 DEF BeforeOrder
<1> QED
  BY <1>1, <1>2, <1>3, <1>4, <1>5, <1>6, <1>7, <1>8, <1>9, <1>10, <1>11, <1>12, <1>13, <1>14

\* The cleanup job, Redis, the admin desk and the clock are quiet.
LEMMA QuietOthers ==
    ASSUME TypeOK,
           \/ CleanupStep \/ \E v \in Expiring : ExpireCounter(v)
           \/ DeskNext /\ UNCHANGED checkoutVars
           \/ Tick /\ UNCHANGED checkoutVars
    PROVE  Quiet
<1> USE DEF storeVars, tables, checkoutVars
<1>t. /\ orders \in [Orders -> OrderRow]
      /\ \A x \in Orders : orders[x] \in OrderRow
  BY DEF TypeOK, StoreTypeOK
<1>1. CASE UNCHANGED <<orders, intents, transactions, req>>
  BY <1>1 DEF Quiet
<1>2. CASE ClearOrder
  <2>1. UNCHANGED <<intents, transactions, req>>
    BY <1>2, Zenon DEF ClearOrder
  <2>2. CASE UNCHANGED orders
    BY <2>1, <2>2 DEF Quiet
  <2>3. CASE ~UNCHANGED orders
    <3>1. orders' = [o \in Orders |->
                 IF DueForCleanup(o)
                 THEN [orders[o] EXCEPT !.status = "CANCELLED",
                                        !.paymentStatus = "EXPIRED"]
                 ELSE orders[o]]
      BY ZenonT(30), <1>2, <2>3 DEF ClearOrder
    <3>2. ASSUME NEW o \in Orders
          PROVE  /\ orders'[o].total = orders[o].total
                 /\ orders'[o].status = "NONE" <=> orders[o].status = "NONE"
                 /\ orders'[o].status = "PAID" => orders[o].status = "PAID"
                 /\ orders'[o].paymentStatus = "SUCCESS" => orders[o].paymentStatus = "SUCCESS"
      <4>1. CASE DueForCleanup(o)
        <5>1. orders'[o] = [orders[o] EXCEPT !.status = "CANCELLED",
                                             !.paymentStatus = "EXPIRED"]
          BY ZenonT(30), <3>1, <4>1
        <5> QED BY <1>t, <4>1, <5>1 DEF DueForCleanup, OrderRow
      <4>2. CASE ~DueForCleanup(o)
        BY ZenonT(30), <3>1, <4>2
      <4> QED BY <4>1, <4>2
    <3> QED BY <2>1, <3>2 DEF Quiet
  <2> QED BY <2>2, <2>3
<1>3. ASSUME NEW o \in Orders, UpdateOrderStatus(o), UNCHANGED req
      PROVE  Quiet
  <2>1. UNCHANGED <<intents, transactions>>
    BY <1>3 DEF UpdateOrderStatus
  <2>2. CASE UNCHANGED orders
    BY <1>3, <2>1, <2>2 DEF Quiet
  <2>3. CASE ~UNCHANGED orders
    <3>1. PICK status \in {"CONFIRMED", "CANCELLED"} :
             orders' = [orders EXCEPT ![o].status = status]
      BY <1>3, <2>3 DEF UpdateOrderStatus
    <3>2. orders[o].status # "NONE"
      BY <1>3, <2>3 DEF UpdateOrderStatus, OrderExists
    <3>3. /\ \A x \in Orders : x # o => orders'[x] = orders[x]
          /\ orders'[o].total = orders[o].total /\ orders'[o].status = status
          /\ orders'[o].paymentStatus = orders[o].paymentStatus
      BY <1>t, <3>1 DEF OrderRow
    <3> QED BY <1>3, <2>1, <3>2, <3>3 DEF Quiet
  <2> QED BY <2>2, <2>3
<1> QED
  BY ZenonT(30), <1>1, <1>2, <1>3, DeskConstants
  DEF CleanupStep, FindExpired, SumItems, ExpireCounter, DeskNext, UpdatePriceVariant,
      ImportStock, CheckOrderStatus, Tick

\* Creating an order: nobody refers to it yet.
LEMMA CreateOrderStep ==
    ASSUME TypeOK, PaymentInv, NEW o \in Orders, CreateOrder(o), UNCHANGED hooksVars
    PROVE  PaymentInv'
<1> USE DEF hooksVars
<1>t. /\ req \in [Orders -> Request] /\ orders \in [Orders -> OrderRow]
      /\ \A x \in Orders : req[x] \in Request
      /\ \A x \in Orders : orders[x] \in OrderRow
  BY DEF TypeOK, StoreTypeOK, CheckoutTypeOK
<1>1. /\ \A x \in Orders : x # o => orders'[x] = orders[x] /\ req'[x] = req[x]
      /\ req[o].pc = "order" /\ req'[o].pc \in {"enqueue", "intent"}
      /\ UNCHANGED <<intents, transactions>>
  BY <1>t DEF CreateOrder, Request
<1>2. orders'[o].status = "PENDING_PAYMENT" /\ orders'[o].paymentStatus = "PENDING"
  BY <1>t DEF CreateOrder, NoOrder
<1>3. \A x \in Orders : x # o => /\ Covering(x)' = Covering(x)
                                 /\ OrderExists(x)' <=> OrderExists(x)
                                 /\ Backed(x)' <=> Backed(x)
  BY <1>1 DEF Covering, OrderExists, Backed
<1>4. \A d \in Deliveries : /\ Found(d)' <=> Found(d)
                            /\ Relies(d)' <=> Relies(d)
                            /\ Body(d)' = Body(d) /\ Target(d)' = Target(d)
  BY DEF Found, Relies, Body, Target
<1>5. /\ ~OrderExists(o) /\ intents[o].status = "NONE" /\ poll[o] = "idle"
      /\ \A d \in Deliveries : Found(d) => Target(d) # o
  BY <1>1 DEF PaymentInv, FreshInv, BeforeOrder
<1>6. OrderExists(o)'
  BY <1>2 DEF OrderExists
<1>7. FreshInv'
  BY <1>1, <1>3, <1>4 DEF PaymentInv, FreshInv, BeforeOrder
<1>8. IntentInv'
  BY <1>1, <1>3, <1>6 DEF PaymentInv, IntentInv
<1>9. PollInv'
  BY <1>3, <1>5 DEF PaymentInv, PollInv
<1>10. UnsavedInv' /\ VerdictInv'
  BY <1>1 DEF PaymentInv, UnsavedInv, VerdictInv
<1>11. HandlerInv'
  BY <1>4 DEF PaymentInv, HandlerInv
<1>12. PaidIsBacked'
  BY <1>1, <1>2, <1>3, <1>5 DEF PaymentInv, PaidIsBacked
<1>13. CoverInv'
  <2> SUFFICES ASSUME NEW d \in Deliveries
               PROVE  /\ hook[d].pc = "save" /\ hook[d].verdict \in {"exact", "overage"}
                            => (OrderExists(Target(d)) => Body(d).amount >= orders[Target(d)].total)'
                      /\ Relies(d) => Backed(Target(d))'
    BY <1>4 DEF CoverInv
  <2>1. Found(d) \/ Relies(d) => Target(d) \in Orders /\ Target(d) # o
    BY <1>5, FoundTarget DEF PaymentInv
  <2>2. hook[d].verdict \in {"exact", "overage"} => Found(d)
    BY DEF Found
  <2> QED BY <1>1, <1>3, <1>4, <2>1, <2>2 DEF PaymentInv, CoverInv, Backed, OrderExists
<1> QED BY <1>7, <1>8, <1>9, <1>10, <1>11, <1>12, <1>13 DEF PaymentInv

\* Creating the payment intent of an order that is there.
LEMMA CreateIntentStep ==
    ASSUME TypeOK, PaymentInv, NEW o \in Orders, CreatePaymentIntent(o), UNCHANGED hooksVars
    PROVE  PaymentInv'
<1> USE DEF hooksVars
<1>t. /\ req \in [Orders -> Request] /\ intents \in [Orders -> IntentRow]
      /\ \A x \in Orders : req[x] \in Request
  BY DEF TypeOK, StoreTypeOK, CheckoutTypeOK
<1>1. /\ \A x \in Orders : x # o => intents'[x] = intents[x] /\ req'[x] = req[x]
      /\ req[o].pc = "intent" /\ req'[o].pc = "enqueue" /\ intents'[o].status = "PENDING"
      /\ UNCHANGED <<orders, transactions>>
  BY <1>t DEF CreatePaymentIntent, Goto, Request
<1>3. \A x : Covering(x)' = Covering(x) /\ (OrderExists(x)' <=> OrderExists(x))
             /\ (Backed(x)' <=> Backed(x))
  BY <1>1 DEF Covering, OrderExists, Backed
<1>4. \A d \in Deliveries : /\ Found(d)' <=> Found(d)
                            /\ Relies(d)' <=> Relies(d)
                            /\ Body(d)' = Body(d) /\ Target(d)' = Target(d)
  BY DEF Found, Relies, Body, Target
<1>7. FreshInv'
  BY <1>1, <1>3, <1>4 DEF PaymentInv, FreshInv, BeforeOrder
<1>8. IntentInv'
  BY <1>1, <1>3 DEF PaymentInv, IntentInv
<1>9. PollInv'
  BY <1>3 DEF PaymentInv, PollInv
<1>10. UnsavedInv' /\ VerdictInv'
  BY <1>1 DEF PaymentInv, UnsavedInv, VerdictInv
<1>11. HandlerInv'
  BY <1>4 DEF PaymentInv, HandlerInv
<1>12. PaidIsBacked'
  BY <1>1, <1>3 DEF PaymentInv, PaidIsBacked
<1>13. CoverInv'
  BY <1>1, <1>3, <1>4 DEF PaymentInv, CoverInv, Backed, OrderExists
<1> QED BY <1>7, <1>8, <1>9, <1>10, <1>11, <1>12, <1>13 DEF PaymentInv

\* Deleting an order takes its intent and its transfers with it.
LEMMA DeleteOrderStep ==
    ASSUME TypeOK, PaymentInv, NEW o \in Orders, DeleteOrder(o), DeleteById(o),
           UNCHANGED hooksVars
    PROVE  PaymentInv'
<1> USE DEF hooksVars
<1>t. /\ req \in [Orders -> Request] /\ intents \in [Orders -> IntentRow]
      /\ orders \in [Orders -> OrderRow] /\ transactions \in [Deliveries -> TransactionRow]
      /\ \A x \in Orders : req[x] \in Request
  BY DEF TypeOK, StoreTypeOK, CheckoutTypeOK
<1>1. /\ \A x \in Orders : x # o => /\ intents'[x] = intents[x] /\ req'[x] = req[x]
                                    /\ orders'[x] = orders[x]
      /\ req[o].pc = "delete" /\ req'[o].pc = "failed" /\ intents'[o].status = "NONE"
      /\ orders'[o] = NoOrder
  BY <1>t DEF DeleteOrder, DeleteById, NoIntent, Goto, Request
<1>2. \A d \in Deliveries : IF transactions[d].order = o THEN transactions'[d] = NoTransaction
                            ELSE transactions'[d] = transactions[d]
  BY DEF DeleteById
<1>3. \A x \in Orders : x # o => /\ Covering(x)' = Covering(x)
                                 /\ OrderExists(x)' <=> OrderExists(x)
                                 /\ Backed(x)' <=> Backed(x)
  <2> SUFFICES ASSUME NEW x \in Orders, x # o
               PROVE  /\ Covering(x)' = Covering(x)
                      /\ OrderExists(x)' <=> OrderExists(x)
    BY DEF Backed
  <2>1. x # NULL
    BY ConstantTypes
  <2> QED BY <1>1, <1>2, <2>1 DEF Covering, OrderExists, NoTransaction
<1>4. \A d \in Deliveries : /\ Found(d)' <=> Found(d)
                            /\ Relies(d)' <=> Relies(d)
                            /\ Body(d)' = Body(d) /\ Target(d)' = Target(d)
  BY DEF Found, Relies, Body, Target
<1>5. ~OrderExists(o)' /\ Backed(o)'
  BY <1>1 DEF OrderExists, NoOrder, Backed
<1>7. FreshInv'
  BY <1>1, <1>3, <1>4 DEF PaymentInv, FreshInv, BeforeOrder
<1>8. IntentInv'
  BY <1>1, <1>3 DEF PaymentInv, IntentInv
<1>9. PollInv'
  BY <1>3, <1>5 DEF PaymentInv, PollInv
<1>10. UnsavedInv' /\ VerdictInv'
  BY <1>2 DEF PaymentInv, UnsavedInv, VerdictInv, NoTransaction
<1>11. HandlerInv'
  BY <1>4 DEF PaymentInv, HandlerInv
<1>12. PaidIsBacked'
  BY <1>1, <1>3 DEF PaymentInv, PaidIsBacked, NoOrder
<1>13. CoverInv'
  <2> SUFFICES ASSUME NEW d \in Deliveries
               PROVE  /\ hook[d].pc = "save" /\ hook[d].verdict \in {"exact", "overage"}
                            => (OrderExists(Target(d)) => Body(d).amount >= orders[Target(d)].total)'
                      /\ Relies(d) => Backed(Target(d))'
    BY <1>4 DEF CoverInv
  <2>1. Found(d) \/ Relies(d) => Target(d) \in Orders
    BY FoundTarget DEF PaymentInv
  <2>2. hook[d].verdict \in {"exact", "overage"} => Found(d)
    BY DEF Found
  <2>3. CASE Target(d) = o
    BY <1>4, <1>5, <2>3
  <2>4. CASE Target(d) # o
    BY <1>1, <1>3, <1>4, <2>1, <2>2, <2>4 DEF PaymentInv, CoverInv, Backed, OrderExists
  <2> QED BY <2>3, <2>4
<1> QED BY <1>7, <1>8, <1>9, <1>10, <1>11, <1>12, <1>13 DEF PaymentInv

(* ------------------------- Steps of a webhook handler ------------------- *)

\* Marking an order as paid keeps its total, and the transfers of all orders.
LEMMA MarkKeeps ==
    ASSUME TypeOK, NEW o \in Orders, OrderExists(o), MarkOrderAndPaymentSuccess(o)
    PROVE  /\ \A x \in Orders : /\ orders'[x].total = orders[x].total
                                /\ orders'[x].status = "NONE" <=> orders[x].status = "NONE"
           /\ \A d \in Deliveries : /\ transactions'[d].order = transactions[d].order
                                    /\ transactions'[d].amount = transactions[d].amount
           /\ \A x \in Orders : x # o => orders'[x] = orders[x]
<1>1. /\ orders \in [Orders -> OrderRow] /\ transactions \in [Deliveries -> TransactionRow]
      /\ orders[o] \in OrderRow /\ \A d \in Deliveries : transactions[d] \in TransactionRow
  BY DEF TypeOK, StoreTypeOK
<1>2. /\ orders'[o].total = orders[o].total /\ orders'[o].status = "PAID"
      /\ \A x \in Orders : x # o => orders'[x] = orders[x]
  BY <1>1 DEF MarkOrderAndPaymentSuccess, OrderRow
<1>3. ASSUME NEW d \in Deliveries
      PROVE  /\ transactions'[d].order = transactions[d].order
             /\ transactions'[d].amount = transactions[d].amount
  BY <1>1 DEF MarkOrderAndPaymentSuccess, TransactionRow
<1> QED BY <1>2, <1>3 DEF OrderExists

\* What no step of a handler does: create or delete an order or an intent,
\* change a total, or lose a transfer that covers an order.
HookKeeps(d) ==
    /\ \A o \in Orders :
          /\ orders'[o].total = orders[o].total
          /\ orders'[o].status = "NONE" <=> orders[o].status = "NONE"
          /\ intents'[o].status = "NONE" <=> intents[o].status = "NONE"
          /\ Covering(o) \subseteq Covering(o)'
    /\ \A x \in Deliveries : x # d => transactions'[x].order = transactions[x].order

\* The handler steps keep the orders and intents there are, their totals and the
\* transfers that cover them.
LEMMA HookStore ==
    ASSUME TypeOK, PaymentInv, NEW d \in Deliveries, HookStep(d) \/ CrashHook(d)
    PROVE  HookKeeps(d)
<1> USE DEF storeVars, tables
<1>t. /\ orders \in [Orders -> OrderRow] /\ transactions \in [Deliveries -> TransactionRow]
      /\ intents \in [Orders -> IntentRow]
      /\ \A x \in Orders : orders[x] \in OrderRow
      /\ \A x \in Orders : intents[x] \in IntentRow
      /\ \A x \in Deliveries : transactions[x] \in TransactionRow
  BY DEF TypeOK, StoreTypeOK
<1>1. CASE UNCHANGED <<orders, intents, transactions>>
  BY <1>1 DEF HookKeeps, Covering
<1>2. CASE SaveTransaction(d)
  <2>1. UNCHANGED <<orders, intents>> /\ \A x \in Deliveries : x # d => transactions'[x] = transactions[x]
    BY <1>2, <1>t DEF SaveTransaction, SavePaymentTransaction
  <2>2. transactions[d].order = NULL
    BY <1>2 DEF SaveTransaction, PaymentInv, UnsavedInv
  <2> QED BY <2>1, <2>2, ConstantTypes DEF HookKeeps, Covering
<1>3. CASE MarkPaymentNotSuccess(d)
  <2>1. /\ UNCHANGED <<orders, intents>>
        /\ \A x \in Deliveries : /\ transactions'[x].order = transactions[x].order
                                 /\ transactions'[x].amount = transactions[x].amount
    BY <1>3, <1>t DEF MarkPaymentNotSuccess, TransactionRow
  <2> QED BY <2>1 DEF HookKeeps, Covering
<1>4. CASE SettleIntent(d)
  <2>1. UNCHANGED <<orders, transactions>>
    BY <1>4 DEF SettleIntent
  <2>2. \A o \in Orders : intents'[o].status = "NONE" <=> intents[o].status = "NONE"
    <3>1. CASE UNCHANGED intents
      BY <3>1
    <3>2. CASE ~UNCHANGED intents
      <4>1. /\ intents[Target(d)].status # "NONE"
            /\ intents' = [intents EXCEPT ![Target(d)].status = IntentOutcome(hook[d].verdict)]
        BY <1>4, <3>2 DEF SettleIntent, MarkPaymentIntent
      <4>2. IntentOutcome(hook[d].verdict) # "NONE"
        BY DEF IntentOutcome
      <4> QED BY <1>t, <4>1, <4>2 DEF IntentRow
    <3> QED BY <3>1, <3>2
  <2> QED BY <2>1, <2>2 DEF HookKeeps, Covering
<1>5. CASE SettleOrder(d)
  <2>1. UNCHANGED intents
    BY <1>5 DEF SettleOrder
  <2>2. CASE UNCHANGED <<orders, transactions>>
    BY <2>1, <2>2 DEF HookKeeps, Covering
  <2>3. CASE ~UNCHANGED <<orders, transactions>>
    <3>1. OrderExists(Target(d)) /\ MarkOrderAndPaymentSuccess(Target(d))
      BY <1>5, <2>3 DEF SettleOrder
    <3>2. Target(d) \in Orders
      <4>1. hook[d].verdict = "exact"
        BY <1>5 DEF SettleOrder, PaymentInv, VerdictInv
      <4> QED BY <4>1 DEF PaymentInv, HandlerInv
    <3> QED BY <2>1, <3>1, <3>2, MarkKeeps DEF HookKeeps, Covering
  <2> QED BY <2>2, <2>3
<1>6. ASSUME NEW call, NEW status \in {"PAID", "PENDING_PAYMENT"}, SetOrderStatus(d, call, status)
      PROVE  HookKeeps(d)
  <2>1. UNCHANGED <<intents, transactions>> /\ OrderExists(Target(d))
        /\ orders' = [orders EXCEPT ![Target(d)].status = status]
    BY <1>6 DEF SetOrderStatus
  <2>2. \A o \in Orders : /\ orders'[o].total = orders[o].total
                          /\ orders'[o].status = "NONE" <=> orders[o].status = "NONE"
    BY <1>t, <2>1 DEF OrderExists, OrderRow
  <2> QED BY <2>1, <2>2 DEF HookKeeps, Covering
<1> QED
  BY <1>1, <1>2, <1>3, <1>4, <1>5, <1>6
  DEF HookStep, CrashHook, FindByContent, FailWebhook, SettleWebhook, EndSettle, ReadItems,
      DebitStock, CreditStock, FailOrderStatus, EndStock

\* A handler that finds an intent finds it with its order.
LEMMA VerdictFacts ==
    ASSUME TypeOK, PaymentInv, NEW d \in Deliveries
    PROVE  /\ Verdict(d) # "none"
           /\ Verdict(d) \notin {"none", "ignored", "notFound"} =>
                 Target(d) \in Orders /\ intents[Target(d)].status # "NONE"
           /\ Verdict(d) = "already" => intents[Target(d)].status = "SUCCESS"
           /\ Verdict(d) \in {"exact", "overage"} => Body(d).amount >= orders[Target(d)].total
<1>1. Target(d) \in Orders \union {NULL} /\ Body(d).amount \in Int
  BY HandlerFacts
<1>2. Target(d) \in Orders => orders[Target(d)].total \in Int
  BY DEF TypeOK, StoreTypeOK, OrderRow
<1> QED BY <1>1, <1>2 DEF Verdict, Mismatch

\* What a step of one handler leaves of the invariant to everyone else.
LEMMA HookOthers ==
    ASSUME TypeOK, PaymentInv, NEW d \in Deliveries, HookStep(d) \/ CrashHook(d),
           UNCHANGED checkoutVars
    PROVE  /\ \A o \in Orders : Backed(o) => Backed(o)'
           /\ FreshInv' /\ IntentInv' /\ PollInv'
           /\ \A x \in Deliveries : Body(x)'.amount = Body(x).amount /\ Target(x)' = Target(x)
<1>k. HookKeeps(d)
  BY HookStore
<1>f. /\ \A x \in Deliveries : x # d => hook'[x] = hook[x]
      /\ \A x \in Deliveries : hook'[x].event = hook[x].event
      /\ poll' = poll
  BY HookFrame
<1>e. \A x \in Deliveries : hook[x].event \in Events
  BY HandlerFacts
<1>b. \A x \in Deliveries : Body(x)'.amount = Body(x).amount /\ Target(x)' = Target(x)
  BY <1>e, <1>f, HookFrame DEF Body, Target
<1>1. \A o \in Orders : OrderExists(o)' <=> OrderExists(o)
  BY <1>k DEF HookKeeps, OrderExists
<1>2. \A o \in Orders : Backed(o) => Backed(o)'
  BY <1>k, <1>1 DEF HookKeeps, Backed
<1>3. FreshInv'
  <2> SUFFICES ASSUME NEW o \in Orders, req[o].pc \in BeforeOrder,
                      NEW x \in Deliveries, Found(x)'
               PROVE  Target(x) # o
    BY <1>1, <1>b, <1>f, <1>k DEF FreshInv, PaymentInv, HookKeeps, checkoutVars
  <2>1. intents[o].status = "NONE" /\ (Found(x) => Target(x) # o)
    BY DEF PaymentInv, FreshInv
  <2>2. CASE Found(x)
    BY <2>1, <2>2
  <2>3. CASE ~Found(x)
    <3>1. x = d /\ hook'[d].verdict = Verdict(d)
      BY <1>f, <2>3, HookProgress DEF Found, PaymentInv
    <3> QED BY <2>1, <3>1, VerdictFacts DEF Found
  <2> QED BY <2>2, <2>3
<1>4. IntentInv'
  BY <1>1, <1>k DEF PaymentInv, IntentInv, HookKeeps, checkoutVars
<1>5. PollInv'
  BY <1>2, <1>f DEF PaymentInv, PollInv
<1> QED BY <1>2, <1>3, <1>4, <1>5, <1>b

\* The three parts of the invariant that speak of handlers, for one handler.
HandlerPart(d) ==
    /\ hook[d].pc \in {"idle", "find", "save"} => transactions[d].order = NULL
    /\ hook[d].pc = "save" => hook[d].verdict # "none"
    /\ hook[d].pc \in {"note", "fail"} => hook[d].verdict \in {"shortfall", "overage"}
    /\ hook[d].pc = "settle" =>
          /\ "order" \in hook[d].todo => hook[d].verdict = "exact"
          /\ "intent" \in hook[d].todo =>
                hook[d].verdict \in {"expired", "already", "overage", "exact"}
    /\ hook[d].pc = "save" /\ hook[d].verdict \in {"exact", "overage"}
          => (OrderExists(Target(d)) => Body(d).amount >= orders[Target(d)].total)
    /\ Relies(d) => Backed(Target(d))

\* The three parts of the invariant that are about handlers, one handler at a time.
LEMMA HandlerParts ==
    (UnsavedInv /\ VerdictInv /\ CoverInv) <=> \A d \in Deliveries : HandlerPart(d)
BY DEF UnsavedInv, VerdictInv, CoverInv, HandlerPart

\* A step of one handler does not disturb another one.
LEMMA HookOther ==
    ASSUME TypeOK, PaymentInv, NEW d \in Deliveries, HookStep(d) \/ CrashHook(d),
           UNCHANGED checkoutVars, NEW x \in Deliveries, x # d
    PROVE  HandlerPart(x)'
<1>1. hook'[x] = hook[x] /\ transactions'[x].order = transactions[x].order
  BY HookFrame, HookStore DEF HookKeeps
<1>2. Target(x)' = Target(x) /\ Body(x)'.amount = Body(x).amount
  BY HookOthers
<1>3. Relies(x)' <=> Relies(x)
  BY <1>1 DEF Relies
<1>4. HandlerPart(x)
  BY HandlerParts DEF PaymentInv
<1>5. Found(x) \/ Relies(x) => Target(x) \in Orders
  BY FoundTarget DEF PaymentInv
<1>6. Relies(x)' => Backed(Target(x))'
  <2>1. \A o \in Orders : Backed(o) => Backed(o)'
    BY HookOthers
  <2> QED BY <1>2, <1>3, <1>4, <1>5, <2>1 DEF HandlerPart, Backed, Covering, OrderExists
<1>7. hook[x].verdict \in {"exact", "overage"} => Found(x)
  BY DEF Found
<1>8. \A o \in Orders : /\ orders'[o].total = orders[o].total
                        /\ orders'[o].status = "NONE" <=> orders[o].status = "NONE"
  BY HookStore DEF HookKeeps
<1> QED BY <1>1, <1>2, <1>4, <1>5, <1>6, <1>7, <1>8 DEF HandlerPart, OrderExists

\* A step of a handler keeps its own part.
LEMMA HookOwn ==
    ASSUME TypeOK, PaymentInv, NEW d \in Deliveries, HookStep(d) \/ CrashHook(d),
           UNCHANGED checkoutVars
    PROVE  HandlerPart(d)'
<1> USE DEF storeVars, tables, Step, Finish, FailCall, FailDone
<1>h. hook \in [Deliveries -> Handler] /\ hook[d] \in Handler
  BY HandlerFacts
<1>o. HandlerPart(d)
  BY HandlerParts DEF PaymentInv
<1>b. Target(d)' = Target(d) /\ Body(d)'.amount = Body(d).amount
  BY HookOthers
<1>m. Relies(d) => Target(d) \in Orders /\ Backed(Target(d)) /\ Backed(Target(d))'
  <2>1. Relies(d) => Target(d) \in Orders /\ Backed(Target(d))
    BY <1>o, FoundTarget DEF PaymentInv, HandlerPart
  <2>2. \A o \in Orders : Backed(o) => Backed(o)'
    BY HookOthers
  <2> QED BY <1>b, <2>1, <2>2 DEF Backed, Covering, OrderExists
<1>x. ASSUME hook'[d].pc \in {"error", "replied"}
      PROVE  HandlerPart(d)'
  BY <1>x DEF HandlerPart, Relies
<1>y. ASSUME hook'[d].pc \in {"items", "stock"}, Relies(d)
      PROVE  HandlerPart(d)'
  BY <1>y, <1>m DEF HandlerPart
<1>z. ASSUME hook[d].pc = "settle", hook'[d].pc = "settle",
             hook'[d].verdict = hook[d].verdict, hook'[d].todo \subseteq hook[d].todo
      PROVE  HandlerPart(d)'
  BY <1>z, <1>o, <1>m DEF HandlerPart, Relies
<1>1. CASE FindByContent(d)
  <2>1. /\ hook[d].pc = "find" /\ hook'[d].pc = "save" /\ hook'[d].verdict = Verdict(d)
        /\ UNCHANGED <<orders, intents, transactions>>
    BY <1>1, <1>h DEF FindByContent, Handler
  <2>2. Verdict(d) = "already" => Backed(Target(d))'
    BY <1>b, <2>1, VerdictFacts DEF PaymentInv, PaidIsBacked, Backed, Covering, OrderExists
  <2>3. Verdict(d) \in {"exact", "overage"} => Body(d)'.amount >= orders'[Target(d)'].total
    BY <1>b, <2>1, VerdictFacts
  <2> QED BY <1>o, <2>1, <2>2, <2>3, VerdictFacts DEF HandlerPart, Relies
<1>2. CASE SaveTransaction(d)
  <2>1. hook[d].pc = "save" /\ hook'[d].verdict = hook[d].verdict
    BY <1>2, <1>h DEF SaveTransaction, Handler
  <2>2. CASE hook'[d].pc \in {"error", "replied"}
    BY <2>2, <1>x
  <2>3. CASE hook'[d].pc \notin {"error", "replied"}
    <3>1. /\ IF hook[d].verdict \in {"shortfall", "overage"}
             THEN hook'[d].pc = "note"
             ELSE hook'[d].pc = "settle" /\ hook'[d].todo = FirstCalls(hook[d].verdict)
          /\ UNCHANGED orders
      BY <1>2, <1>h, <2>3 DEF SaveTransaction, Handler
    <3>2. hook'[d].pc = "settle" =>
             /\ "order" \in hook'[d].todo => hook[d].verdict = "exact"
             /\ "intent" \in hook'[d].todo =>
                   hook[d].verdict \in {"expired", "already", "overage", "exact"}
      <4>1. hook[d].verdict \in Verdicts /\ hook[d].verdict # "none"
        BY <1>o, <2>1, HandlerFacts DEF HandlerPart
      <4> QED BY <3>1, <4>1 DEF Verdicts, FirstCalls
    <3>3. CASE hook[d].verdict \in {"exact", "overage"}
      <4>1. Target(d) \in Orders
        BY <3>3, FoundTarget DEF Found, PaymentInv
      <4>2. Target(d) # NULL
        BY <4>1, ConstantTypes
      <4>3. /\ OrderExists(Target(d))
            /\ transactions' = [transactions EXCEPT ![d] =
                   [status |-> TransactionStatus(hook[d].verdict), order |-> Target(d),
                    amount |-> Body(d).amount]]
        BY <1>2, <1>h, <2>3, <3>3, <4>2 DEF SaveTransaction, SavePaymentTransaction, Handler
      <4>4. transactions'[d].order = Target(d) /\ transactions'[d].amount = Body(d).amount
        BY <4>3 DEF TypeOK, StoreTypeOK
      <4>5. Body(d).amount >= orders[Target(d)].total
        BY <1>o, <2>1, <3>3, <4>3 DEF HandlerPart
      <4>6. d \in Covering(Target(d))'
        BY <1>b, <3>1, <4>4, <4>5 DEF Covering
      <4>7. Backed(Target(d))'
        BY <4>6 DEF Backed
      <4> QED BY <2>1, <3>1, <3>2, <3>3, <4>7 DEF HandlerPart, Relies
    <3>4. CASE hook[d].verdict \notin {"exact", "overage"}
      <4>1. hook[d].verdict = "already" => Relies(d)
        BY <2>1 DEF Relies
      <4> QED BY <1>m, <2>1, <3>1, <3>2, <3>4, <4>1 DEF HandlerPart, Relies
    <3> QED BY <3>3, <3>4
  <2> QED BY <2>2, <2>3
<1>3. CASE MarkPaymentNotSuccess(d)
  <2>1. /\ hook[d].pc = "note" /\ hook'[d].verdict = hook[d].verdict
        /\ hook'[d].pc \in {"fail", "error"}
    BY <1>3, <1>h DEF MarkPaymentNotSuccess, Handler
  <2> QED BY <1>m, <1>o, <1>x, <2>1 DEF HandlerPart, Relies
<1>4. CASE FailWebhook(d)
  <2>1. /\ hook[d].pc = "fail" /\ hook'[d].verdict = hook[d].verdict
        /\ IF hook[d].verdict = "shortfall" THEN hook'[d].pc = "replied"
           ELSE hook'[d].pc = "settle" /\ hook'[d].todo = FirstCalls("already")
    BY <1>4, <1>h DEF FailWebhook, Handler
  <2>2. FirstCalls("already") = {"intent", "webhook"}
    BY DEF FirstCalls
  <2> QED BY <1>m, <1>o, <1>x, <2>1, <2>2 DEF HandlerPart, Relies
<1>5. CASE SettleWebhook(d)
  BY <1>5, <1>h, <1>z DEF SettleWebhook, Handler
<1>6. CASE SettleIntent(d)
  BY <1>6, <1>h, <1>z DEF SettleIntent, Handler
<1>7. CASE SettleOrder(d)
  BY <1>7, <1>h, <1>z DEF SettleOrder, Handler
<1>8. CASE EndSettle(d)
  BY <1>8, <1>h, <1>x, <1>y DEF EndSettle, Handler, Relies
<1>9. CASE ReadItems(d)
  BY <1>9, <1>h, <1>y DEF ReadItems, Handler, Relies
<1>10. CASE DebitStock(d)
  BY <1>10, <1>h, <1>y DEF DebitStock, Handler, Relies
<1>11. CASE CreditStock(d)
  BY <1>11, <1>h, <1>y DEF CreditStock, Handler, Relies
<1>12. CASE SetOrderStatus(d, "paid", "PAID") \/ SetOrderStatus(d, "unpaid", "PENDING_PAYMENT")
  BY <1>12, <1>h, <1>y DEF SetOrderStatus, Handler, Relies
<1>13. CASE FailOrderStatus(d)
  BY <1>13, <1>h, <1>y DEF FailOrderStatus, Handler, Relies
<1>14. CASE EndStock(d)
  BY <1>14, <1>h, <1>x DEF EndStock, Handler
<1>15. CASE CrashHook(d)
  BY <1>15, <1>h, <1>x DEF CrashHook, Handler
<1> QED
  BY <1>1, <1>2, <1>3, <1>4, <1>5, <1>6, <1>7, <1>8, <1>9, <1>10, <1>11, <1>12,
     <1>13, <1>14, <1>15 DEF HookStep

\* A handler marks nothing as paid that is not backed.
LEMMA HookPaid ==
    ASSUME TypeOK, PaymentInv, NEW d \in Deliveries, HookStep(d) \/ CrashHook(d),
           UNCHANGED checkoutVars
    PROVE  PaidIsBacked'
<1> USE DEF storeVars, tables
<1>t. /\ orders \in [Orders -> OrderRow] /\ intents \in [Orders -> IntentRow]
      /\ \A x \in Orders : orders[x] \in OrderRow /\ intents[x] \in IntentRow
  BY DEF TypeOK, StoreTypeOK
<1>k. HookKeeps(d)
  BY HookStore
<1>b. \A o \in Orders : Backed(o) => Backed(o)'
  BY HookOthers
<1>o. HandlerPart(d)
  BY HandlerParts DEF PaymentInv
<1>s. ASSUME \A o \in Orders :
                /\ orders'[o].status = "PAID" => orders[o].status = "PAID" \/ Backed(o)
                /\ orders'[o].paymentStatus = "SUCCESS" =>
                      orders[o].paymentStatus = "SUCCESS" \/ Backed(o)
                /\ intents'[o].status = "SUCCESS" => intents[o].status = "SUCCESS" \/ Backed(o),
             \A o \in Orders :
                orders'[o].paymentStatus = "SUCCESS" =>
                   OrderExists(o) \/ orders[o].paymentStatus = "SUCCESS"
      PROVE  PaidIsBacked'
  <2> SUFFICES ASSUME NEW o \in Orders,
                      \/ orders'[o].status = "PAID" \/ orders'[o].paymentStatus = "SUCCESS"
                      \/ intents'[o].status = "SUCCESS"
               PROVE  Covering(o)' # {}
    BY DEF PaidIsBacked
  <2>1. \/ orders[o].status = "PAID" \/ orders[o].paymentStatus = "SUCCESS"
        \/ intents[o].status = "SUCCESS" \/ Backed(o)
    BY <1>s
  <2>2. CASE orders[o].status = "PAID" \/ orders[o].paymentStatus = "SUCCESS"
               \/ intents[o].status = "SUCCESS"
    BY <1>k, <2>2 DEF PaymentInv, PaidIsBacked, HookKeeps
  <2>3. CASE Backed(o) /\ ~(orders[o].status = "PAID" \/ orders[o].paymentStatus = "SUCCESS"
               \/ intents[o].status = "SUCCESS")
    <3>1. OrderExists(o)
      <4>1. CASE orders'[o].status = "PAID"
        BY <1>k, <4>1 DEF HookKeeps, OrderExists
      <4>2. CASE orders'[o].paymentStatus = "SUCCESS"
        BY <1>s, <2>3, <4>2
      <4>3. CASE intents'[o].status = "SUCCESS"
        BY <1>k, <4>3 DEF HookKeeps, PaymentInv, IntentInv
      <4> QED BY <4>1, <4>2, <4>3
    <3> QED BY <1>k, <2>3, <3>1 DEF Backed, HookKeeps
  <2> QED BY <2>1, <2>2, <2>3
<1>1. CASE UNCHANGED <<orders, intents>>
  BY <1>1, <1>s
<1>2. CASE SettleIntent(d)
  <2>1. UNCHANGED orders
    BY <1>2 DEF SettleIntent
  <2>2. ASSUME NEW o \in Orders, intents'[o].status = "SUCCESS", intents[o].status # "SUCCESS"
        PROVE  Backed(o)
    <3>1. intents' = [intents EXCEPT ![Target(d)].status = IntentOutcome(hook[d].verdict)]
      BY <1>2, <2>2 DEF SettleIntent, MarkPaymentIntent
    <3>2. o = Target(d) /\ IntentOutcome(hook[d].verdict) = "SUCCESS"
      BY <1>t, <2>2, <3>1 DEF IntentRow
    <3>3. Relies(d)
      BY <1>2, <1>o, <3>2 DEF SettleIntent, HandlerPart, Relies, IntentOutcome
    <3> QED BY <1>o, <3>2, <3>3 DEF HandlerPart
  <2> QED BY <1>s, <2>1, <2>2
<1>3. CASE SettleOrder(d)
  <2>1. UNCHANGED intents
    BY <1>3 DEF SettleOrder
  <2>2. CASE UNCHANGED orders
    BY <1>s, <2>1, <2>2
  <2>3. CASE ~UNCHANGED orders
    <3>1. OrderExists(Target(d)) /\ MarkOrderAndPaymentSuccess(Target(d))
      BY <1>3, <2>3 DEF SettleOrder
    <3>2. Relies(d)
      BY <1>3, <1>o DEF SettleOrder, HandlerPart, Relies
    <3>3. Backed(Target(d)) /\ Target(d) \in Orders
      BY <1>o, <3>2, FoundTarget DEF HandlerPart, PaymentInv
    <3>4. \A o \in Orders : o # Target(d) => orders'[o] = orders[o]
      BY <3>1, <3>3, MarkKeeps
    <3> QED BY <1>s, <2>1, <3>1, <3>3, <3>4
  <2> QED BY <2>2, <2>3
<1>4. ASSUME NEW call, NEW status \in {"PAID", "PENDING_PAYMENT"}, SetOrderStatus(d, call, status)
      PROVE  PaidIsBacked'
  <2>1. /\ UNCHANGED intents /\ hook[d].pc = "stock"
        /\ orders' = [orders EXCEPT ![Target(d)].status = status]
    BY <1>4 DEF SetOrderStatus
  <2>2. Backed(Target(d)) /\ Target(d) \in Orders
    BY <1>o, <2>1, FoundTarget DEF HandlerPart, PaymentInv, Relies
  <2>3. /\ \A o \in Orders : o # Target(d) => orders'[o] = orders[o]
        /\ orders'[Target(d)].paymentStatus = orders[Target(d)].paymentStatus
    BY <1>t, <2>1, <2>2 DEF OrderRow
  <2> QED BY <1>s, <2>1, <2>2, <2>3
<1> QED
  BY <1>1, <1>2, <1>3, <1>4
  DEF HookStep, CrashHook, FindByContent, FailWebhook, SettleWebhook, EndSettle, ReadItems,
      DebitStock, CreditStock, FailOrderStatus, EndStock, SaveTransaction, MarkPaymentNotSuccess

\* A new delivery starts with nothing decided.
LEMMA ReceiveStep ==
    ASSUME TypeOK, PaymentInv, HandlerInv', NEW d \in Deliveries, ReceiveWebhook(d),
           UNCHANGED checkoutVars
    PROVE  PaymentInv'
<1>u. UNCHANGED <<orders, intents, transactions, req, poll>>
  BY DEF ReceiveWebhook, storeVars, checkoutVars
<1>f. /\ \A x \in Deliveries : x # d => hook'[x] = hook[x]
      /\ \A x \in Deliveries :
            x # d /\ hook[x].pc # "idle" => Body(x)'.amount = Body(x).amount
                                           /\ Target(x)' = Target(x)
      /\ hook'[d].verdict = "none" /\ hook'[d].pc = "find" /\ hook[d].pc = "idle"
  BY ReceiveFrame DEF PaymentInv, Target
<1>1. \A x : (OrderExists(x)' <=> OrderExists(x)) /\ Covering(x)' = Covering(x)
             /\ (Backed(x)' <=> Backed(x))
  BY <1>u DEF OrderExists, Covering, Backed
<1>2. \A x \in Deliveries : x # d /\ Found(x) => hook[x].pc # "idle"
  BY DEF PaymentInv, HandlerInv, Found
<1>3. FreshInv'
  <2>1. ~Found(d)' /\ \A x \in Deliveries : x # d => (Found(x)' <=> Found(x))
    BY <1>f DEF Found
  <2> QED BY <1>u, <1>f, <1>1, <1>2, <2>1 DEF PaymentInv, FreshInv
<1>4. IntentInv' /\ PollInv' /\ PaidIsBacked'
  BY <1>u, <1>1 DEF PaymentInv, IntentInv, PollInv, PaidIsBacked
<1>5. ASSUME NEW x \in Deliveries PROVE HandlerPart(x)'
  <2>1. HandlerPart(x)
    BY HandlerParts DEF PaymentInv
  <2>2. CASE x = d
    <3>1. HandlerPart(d)
      BY <2>1, <2>2
    <3> QED BY <1>f, <1>u, <2>2, <3>1 DEF HandlerPart, Relies
  <2>3. CASE x # d
    <3>1. hook'[x] = hook[x]
      BY <1>f, <2>3
    <3>2. CASE hook[x].pc = "idle"
      BY <1>u, <2>1, <3>1, <3>2 DEF HandlerPart, Relies
    <3>3. CASE hook[x].pc # "idle"
      <4>1. Target(x)' = Target(x) /\ Body(x)'.amount = Body(x).amount
        BY <1>f, <2>3, <3>3
      <4>2. Relies(x)' <=> Relies(x)
        BY <3>1 DEF Relies
      <4>3. Backed(Target(x))' <=> Backed(Target(x))
        BY <1>u, <4>1 DEF Backed, OrderExists, Covering
      <4> QED BY <1>u, <2>1, <3>1, <4>1, <4>2, <4>3 DEF HandlerPart, OrderExists
    <3> QED BY <3>2, <3>3
  <2> QED BY <2>2, <2>3
<1>6. UnsavedInv' /\ VerdictInv' /\ CoverInv'
  BY <1>5 DEF UnsavedInv, VerdictInv, CoverInv, HandlerPart
<1> QED BY <1>3, <1>4, <1>6 DEF PaymentInv

\* The polling endpoint marks an order as paid only after it saw a paid intent.
LEMMA PollPayment ==
    ASSUME TypeOK, PaymentInv, NEW o \in Orders, PollStep(o), UNCHANGED checkoutVars
    PROVE  PaymentInv'
<1>t. poll \in [Orders -> {"idle", "order", "mark"}]
  BY DEF TypeOK, HooksTypeOK
<1>u. UNCHANGED <<intents, req, inbox, hook>>
  BY DEF PollStep, PollIntent, PollOrder, PollMark, storeVars, checkoutVars
<1>b. poll'[o] # "idle" \/ ~UNCHANGED <<orders, transactions>> => Backed(o)
  <2>1. CASE PollIntent(o)
    BY <2>1, <1>t DEF PollIntent, PaymentInv, PaidIsBacked, Backed, storeVars
  <2>2. CASE PollOrder(o) \/ PollMark(o)
    BY <2>2 DEF PollOrder, PollMark, PaymentInv, PollInv
  <2> QED BY <2>1, <2>2 DEF PollStep
<1>p. \A x \in Orders : x # o => poll'[x] = poll[x]
  BY <1>t DEF PollStep, PollIntent, PollOrder, PollMark
<1>k. /\ \A x \in Orders : /\ orders'[x].total = orders[x].total
                           /\ orders'[x].status = "NONE" <=> orders[x].status = "NONE"
      /\ \A d \in Deliveries : /\ transactions'[d].order = transactions[d].order
                               /\ transactions'[d].amount = transactions[d].amount
      /\ \A x \in Orders : x # o => orders'[x] = orders[x]
      /\ orders' # orders => OrderExists(o)
  <2>1. CASE UNCHANGED <<orders, transactions>>
    BY <2>1
  <2>2. CASE ~UNCHANGED <<orders, transactions>>
    <3>1. OrderExists(o) /\ MarkOrderAndPaymentSuccess(o)
      BY <2>2 DEF PollStep, PollIntent, PollOrder, PollMark, storeVars
    <3> QED BY <3>1, MarkKeeps
  <2> QED BY <2>1, <2>2
<1>1. \A x \in Orders : /\ Covering(x)' = Covering(x)
                        /\ OrderExists(x)' <=> OrderExists(x)
                        /\ Backed(x)' <=> Backed(x)
  BY <1>k DEF Covering, OrderExists, Backed
<1>2. \A d \in Deliveries : /\ Found(d)' <=> Found(d)
                            /\ Relies(d)' <=> Relies(d)
                            /\ Body(d)' = Body(d) /\ Target(d)' = Target(d)
  BY <1>u DEF Found, Relies, Body, Target
<1>3. FreshInv'
  <2>1. req[o].pc \notin BeforeOrder \/ poll'[o] = "idle"
    <3>1. CASE PollIntent(o)
      BY <3>1 DEF PollIntent, PaymentInv, FreshInv
    <3>2. CASE PollOrder(o) \/ PollMark(o)
      BY <3>2 DEF PollOrder, PollMark, PaymentInv, FreshInv
    <3> QED BY <3>1, <3>2 DEF PollStep
  <2> QED BY <1>u, <1>p, <1>1, <1>2, <2>1 DEF PaymentInv, FreshInv
<1>4. IntentInv'
  BY <1>u, <1>1 DEF PaymentInv, IntentInv
<1>5. PollInv'
  BY <1>b, <1>p, <1>1 DEF PaymentInv, PollInv
<1>6. UnsavedInv' /\ VerdictInv'
  BY <1>u, <1>k DEF PaymentInv, UnsavedInv, VerdictInv
<1>7. HandlerInv'
  BY <1>u, <1>2 DEF PaymentInv, HandlerInv
<1>8. PaidIsBacked'
  <2> SUFFICES ASSUME NEW x \in Orders,
                      \/ orders'[x].status = "PAID" \/ orders'[x].paymentStatus = "SUCCESS"
                      \/ intents'[x].status = "SUCCESS"
               PROVE  Covering(x)' # {}
    BY DEF PaidIsBacked
  <2>1. CASE x # o \/ UNCHANGED orders
    BY <1>u, <1>k, <1>1, <2>1 DEF PaymentInv, PaidIsBacked
  <2>2. CASE x = o /\ ~UNCHANGED orders
    BY <1>b, <1>k, <1>1, <2>2 DEF Backed
  <2> QED BY <2>1, <2>2
<1>9. CoverInv'
  <2> SUFFICES ASSUME NEW d \in Deliveries
               PROVE  /\ hook[d].pc = "save" /\ hook[d].verdict \in {"exact", "overage"}
                            => (OrderExists(Target(d)) => Body(d).amount >= orders[Target(d)].total)'
                      /\ Relies(d) => Backed(Target(d))'
    BY <1>u, <1>2 DEF CoverInv
  <2>1. Found(d) \/ Relies(d) => Target(d) \in Orders
    BY FoundTarget DEF PaymentInv
  <2>2. hook[d].verdict \in {"exact", "overage"} => Found(d)
    BY DEF Found
  <2> QED BY <1>k, <1>1, <1>2, <2>1, <2>2 DEF PaymentInv, CoverInv, Backed, OrderExists
<1> QED BY <1>3, <1>4, <1>5, <1>6, <1>7, <1>8, <1>9 DEF PaymentInv

(* ------------------------------- The theorem ---------------------------- *)

\* Before the first request nothing is paid, found or polled: the invariant holds.
LEMMA InitPaymentInv ==
    ASSUME Init
    PROVE  PaymentInv
<1>1. TypeInv
  BY InitTypeInv
<1>2. /\ \A o \in Orders : orders[o] = NoOrder /\ intents[o] = NoIntent /\ poll[o] = "idle"
                           /\ req[o].pc = "idle"
      /\ \A d \in Deliveries : /\ hook[d].pc = "idle" /\ hook[d].verdict = "none"
                               /\ transactions[d].order = NULL
  BY DEF Init, StoreInit, CheckoutInit, HooksInit, IdleRequest, IdleHandler, NoTransaction
<1> QED
  BY <1>1, <1>2
  DEF TypeInv, PaymentInv, FreshInv, IntentInv, PollInv, UnsavedInv, VerdictInv, CoverInv,
      PaidIsBacked, Found, Relies, OrderExists, NoOrder, NoIntent

\* Every step of the system preserves the invariant, one case per component.
LEMMA NextPaymentInv ==
    ASSUME TypeOK, TypeOK', PaymentInv, [Next]_vars
    PROVE  PaymentInv'
<1>1. CASE UNCHANGED vars
  <2>1. Quiet /\ UNCHANGED hooksVars
    BY <1>1 DEF vars, storeVars, checkoutVars, Quiet
  <2> QED BY <2>1, QuietStep
<1>2. CASE CheckoutNext /\ UNCHANGED <<deskVars, hooksVars>>
  <2>1. CASE Quiet
    BY <1>2, <2>1, QuietStep
  <2>2. CASE ~Quiet
    <3>1. PICK o \in Orders : CreateOrder(o) \/ CreatePaymentIntent(o) \/ DeleteOrder(o)
      BY <1>2, <2>2, QuietCheckout, QuietOthers DEF CheckoutNext, HttpStep, JobStep
    <3>2. CASE CreateOrder(o)
      BY <1>2, <3>2, CreateOrderStep
    <3>3. CASE CreatePaymentIntent(o)
      BY <1>2, <3>3, CreateIntentStep
    <3>4. CASE DeleteOrder(o)
      <4>1. DeleteById(o)
        BY <2>2, <3>4, QuietCheckout DEF DeleteOrder
      <4> QED BY <1>2, <3>4, <4>1, DeleteOrderStep
    <3> QED BY <3>1, <3>2, <3>3, <3>4
  <2> QED BY <2>1, <2>2
<1>3. CASE DeskNext /\ UNCHANGED <<checkoutVars, hooksVars>>
  BY <1>3, QuietOthers, QuietStep
<1>4. CASE Tick /\ UNCHANGED <<checkoutVars, deskVars, hooksVars>>
  BY <1>4, QuietOthers, QuietStep
<1>5. CASE HooksNext /\ UNCHANGED <<checkoutVars, deskVars>>
  <2>h. HandlerInv'
    BY <1>5, HandlerInvStep DEF Next, PaymentInv
  <2>1. ASSUME NEW d \in Deliveries, HookStep(d) \/ CrashHook(d) PROVE PaymentInv'
    <3>1. \A x \in Deliveries : HandlerPart(x)'
      BY <1>5, <2>1, HookOwn, HookOther
    <3>2. UnsavedInv' /\ VerdictInv' /\ CoverInv'
      BY <3>1 DEF UnsavedInv, VerdictInv, CoverInv, HandlerPart
    <3> QED BY <1>5, <2>h, <2>1, <3>2, HookOthers, HookPaid DEF PaymentInv
  <2>2. ASSUME NEW d \in Deliveries, ReceiveWebhook(d) PROVE PaymentInv'
    BY <1>5, <2>h, <2>2, ReceiveStep
  <2>3. ASSUME NEW o \in Orders, PollStep(o) PROVE PaymentInv'
    BY <1>5, <2>3, PollPayment
  <2> QED BY <1>5, <2>1, <2>2, <2>3 DEF HooksNext
<1> QED BY <1>1, <1>2, <1>3, <1>4, <1>5 DEF Next

\* The strengthening is an invariant of the whole system.
THEOREM PaymentReachable == Spec => []PaymentInv
<1>1. Init => PaymentInv
  BY InitPaymentInv
<1>2. TypeInv /\ TypeInv' /\ PaymentInv /\ [Next]_vars => PaymentInv'
  BY NextPaymentInv DEF TypeInv
<1> QED BY <1>1, <1>2, Reachable, PTL DEF Spec

\* No interleaving of concurrent or repeated deliveries, polls, compensations,
\* cleanups, admin decisions, crashes and deletions marks an order paid, or its
\* intent successful, without a transfer on record that covers its total.
THEOREM PaidOrdersAreBacked == Spec => []PaidIsBacked
<1>1. PaymentInv => PaidIsBacked
  BY DEF PaymentInv
<1> QED BY <1>1, PaymentReachable, PTL

(* ----------------------- How a request can change ----------------------- *)

\* What the request asked for does not change once it has been read.
SameDemand(r, s) ==
    /\ s.quantity = r.quantity /\ s.unitPrice = r.unitPrice
    /\ s.guest = r.guest /\ s.cod = r.cod

\* The steps of createCheckout and processCheckout that reserve nothing.
PlainMoves ==
    ({"idle"} \X {"rejected"})
      \union ({"setnx"} \X {"decrby"})
      \union ({"decrby"} \X {"rollback", "order"})
      \union ({"fallback"} \X {"rejected"})
      \union ({"order"} \X {"intent", "enqueue"})
      \union ({"intent"} \X {"enqueue"})
      \union ({"enqueue"} \X {"queued"})
      \union (HttpSteps \X {"aborted"})
      \union ({"queued"} \X {"items", "failed"})
      \union ({"items"} \X {"address", "delete"})
      \union ({"address", "reserve"} \X {"delete"})
      \union (JobSteps \X {"failed"})

\* Request r becomes s in one step.
RequestMove(r, s) ==
    \/ /\ r.pc = "idle" /\ s.pc = "setnx"
       /\ ~s.isError /\ s.grants = 0 /\ s.stalls = 0
    \/ /\ SameDemand(r, s)
       /\ \/ /\ <<r.pc, s.pc>> \in PlainMoves
             /\ s.isError = r.isError /\ s.grants = r.grants /\ s.stalls = r.stalls
          \/ /\ r.pc \in {"items", "address"}
             /\ s.pc = IF ~r.isError /\ (r.guest => r.cod) THEN "reserve" ELSE "done"
             /\ s.isError = r.isError /\ s.grants = r.grants /\ s.stalls = r.stalls
          \/ /\ r.pc \in {"decrby", "rollback"} /\ s.pc = "fallback"
             /\ s.isError = TRUE /\ s.grants = r.grants /\ s.stalls = r.stalls
          \/ /\ <<r.pc, s.pc>> \in {<<"fallback", "order">>, <<"reserve", "done">>}
             /\ s.isError = r.isError /\ s.grants = r.grants + 1 /\ s.stalls = r.stalls
          \/ /\ r.pc \in JobSteps /\ s.pc = "queued"
             /\ s.isError = r.isError /\ s.grants = r.grants /\ s.stalls = r.stalls + 1

\* Every step leaves a request as it is or makes one of these moves.
LEMMA RequestMoves ==
    ASSUME TypeOK, [Next]_vars, NEW o \in Orders
    PROVE  req'[o] = req[o] \/ RequestMove(req[o], req'[o])
<1> USE DEF Goto, ToFallback
<1>t. /\ req \in [Orders -> Request]
      /\ \A x \in Orders : req[x] \in Request
  BY DEF TypeOK, CheckoutTypeOK
<1>0. CASE UNCHANGED req
  BY <1>0
<1>1. ASSUME NEW x \in Orders, StartCheckout(x) PROVE RequestMove(req[x], req'[x])
  <2>1. PICK quantity \in AskedCart, kind \in Kinds :
          req' = [req EXCEPT ![x] =
                 [IdleRequest EXCEPT
                     !.pc = "setnx", !.quantity = quantity,
                     !.unitPrice = price,
                     !.free = [v \in Variants |-> stock[v] - reserved[v]],
                     !.guest = kind.guest, !.cod = kind.cod]]
    BY ZenonT(30), <1>1 DEF StartCheckout, FreeOf
  <2> DEFINE f == [v \in Variants |-> stock[v] - reserved[v]]
  <2> HIDE DEF f
  <2>2. req' = [req EXCEPT ![x] =
                 [IdleRequest EXCEPT
                     !.pc = "setnx", !.quantity = quantity, !.unitPrice = price,
                     !.free = f, !.guest = kind.guest, !.cod = kind.cod]]
    BY <2>1 DEF f
  <2>3. req'[x].pc = "setnx" /\ ~req'[x].isError /\ req'[x].grants = 0 /\ req'[x].stalls = 0
    BY <1>t, <2>2 DEF IdleRequest
  <2> QED BY SMTT(30), <1>1, <2>3 DEF StartCheckout, FreeOf, RequestMove
<1> DEFINE Plain(x) == /\ SameDemand(req[x], req'[x])
                       /\ <<req[x].pc, req'[x].pc>> \in PlainMoves
                       /\ req'[x].isError = req[x].isError
                       /\ req'[x].grants = req[x].grants
                       /\ req'[x].stalls = req[x].stalls
<1>p. \A x \in Orders : Plain(x) => RequestMove(req[x], req'[x])
  BY DEF RequestMove
<1>2. ASSUME NEW x \in Orders, NEW pc, Goto(x, pc), <<req[x].pc, pc>> \in PlainMoves
      PROVE  Plain(x)
  BY <1>2, <1>t DEF Request, SameDemand
<1>3. ASSUME NEW x \in Orders, RejectCheckout(x) \/ SeedCounters(x)
                                 \/ CreatePaymentIntent(x) \/ EnqueueCheckout(x)
      PROVE  Plain(x)
  <2> HIDE DEF Goto, Plain
  <2> QED BY <1>3, <1>2
       DEF RejectCheckout, SeedCounters, CreatePaymentIntent, EnqueueCheckout, PlainMoves
<1>4. ASSUME NEW x \in Orders, AbortCheckout(x) PROVE Plain(x)
  <2> HIDE DEF Goto, Plain
  <2> QED BY <1>4, <1>2 DEF AbortCheckout, PlainMoves
<1>5. ASSUME NEW x \in Orders, ToFallback(x), req[x].pc \in {"decrby", "rollback"}
      PROVE  RequestMove(req[x], req'[x])
  BY <1>5, <1>t DEF Request, SameDemand, RequestMove
<1>6. ASSUME NEW x \in Orders, DecrBy(x) PROVE RequestMove(req[x], req'[x])
  <2>1. CASE ToFallback(x)
    BY <1>5, <1>6, <2>1 DEF DecrBy
  <2>2. CASE ~ToFallback(x)
    <3> DEFINE remaining == [v \in Variants |->
                     IF v \in ItemsOf(x) THEN available'[v].value ELSE 0]
               pc == IF \E v \in Variants : remaining[v] < 0 THEN "rollback" ELSE "order"
    <3>1. req' = [req EXCEPT ![x].remaining = remaining, ![x].pc = pc]
      BY <1>6, <2>2 DEF DecrBy
    <3>2. pc \in {"rollback", "order"} /\ req[x].pc = "decrby"
      BY <1>6 DEF DecrBy
    <3> HIDE DEF remaining, pc
    <3>3. Plain(x)
      BY <1>t, <3>1, <3>2 DEF Request, SameDemand, PlainMoves
    <3> QED BY <1>p, <3>3
  <2> QED BY <2>1, <2>2
<1>7. ASSUME NEW x \in Orders, Rollback(x) PROVE RequestMove(req[x], req'[x])
  BY <1>5, <1>7 DEF Rollback
<1>8. ASSUME NEW x \in Orders, Fallback(x) PROVE RequestMove(req[x], req'[x])
  <2>1. CASE Goto(x, "rejected")
    <3>1. Plain(x)
      <4> HIDE DEF Goto, Plain
      <4> QED BY <1>2, <1>8, <2>1 DEF Fallback, PlainMoves
    <3> QED BY <1>p, <3>1
  <2>2. CASE ~Goto(x, "rejected")
    <3>1. req' = [req EXCEPT ![x].pc = "order", ![x].grants = @ + 1] /\ req[x].pc = "fallback"
      BY <1>8, <2>2 DEF Fallback
    <3> QED BY <1>t, <3>1 DEF Request, SameDemand, RequestMove
  <2> QED BY <2>1, <2>2
<1>9. ASSUME NEW x \in Orders, CreateOrder(x) PROVE Plain(x)
  BY <1>9, <1>t DEF CreateOrder, Request, SameDemand, PlainMoves
<1>10. ASSUME NEW x \in Orders, StartJob(x) PROVE Plain(x)
  <2> HIDE DEF Goto, Plain
  <2> QED BY <1>10, <1>2 DEF StartJob, PlainMoves
<1>11. ASSUME NEW x \in Orders, DeleteOrder(x) PROVE Plain(x)
  <2> HIDE DEF Goto, Plain
  <2> QED BY <1>11, <1>2 DEF DeleteOrder, PlainMoves, JobSteps
<1>12. ASSUME NEW x \in Orders, req[x].pc \in {"items", "address"}, Goto(x, ReserveOrDone(x))
       PROVE  RequestMove(req[x], req'[x])
  BY <1>12, <1>t DEF ReserveOrDone, ReservesInJob, Request, SameDemand, RequestMove
<1>13. ASSUME NEW x \in Orders, CreateItems(x) PROVE RequestMove(req[x], req'[x])
  <2>1. req[x].pc = "items"
    BY <1>13 DEF CreateItems
  <2>2. CASE Goto(x, ReserveOrDone(x))
    BY <1>12, <2>1, <2>2
  <2>3. CASE Goto(x, "address") \/ Goto(x, "delete")
    <3> HIDE DEF Goto, Plain
    <3>1. Plain(x)
      BY <1>2, <2>1, <2>3 DEF PlainMoves
    <3> QED BY <1>p, <3>1
  <2>4. Goto(x, ReserveOrDone(x)) \/ Goto(x, "address") \/ Goto(x, "delete")
    <3> HIDE DEF Goto
    <3> QED BY <1>13 DEF CreateItems
  <2> QED BY <2>2, <2>3, <2>4
<1>14. ASSUME NEW x \in Orders, CreateAddress(x) PROVE RequestMove(req[x], req'[x])
  <2>1. req[x].pc = "address"
    BY <1>14 DEF CreateAddress
  <2>2. CASE Goto(x, ReserveOrDone(x))
    BY <1>12, <2>1, <2>2
  <2>3. CASE Goto(x, "delete")
    <3> HIDE DEF Goto, Plain
    <3>1. Plain(x)
      BY <1>2, <2>1, <2>3 DEF PlainMoves
    <3> QED BY <1>p, <3>1
  <2>4. Goto(x, ReserveOrDone(x)) \/ Goto(x, "delete")
    <3> HIDE DEF Goto
    <3> QED BY <1>14 DEF CreateAddress
  <2> QED BY <2>2, <2>3, <2>4
<1>15. ASSUME NEW x \in Orders, Reserve(x) PROVE RequestMove(req[x], req'[x])
  <2>1. CASE Goto(x, "delete")
    <3>1. Plain(x)
      <4> HIDE DEF Goto, Plain
      <4> QED BY <1>2, <1>15, <2>1 DEF Reserve, PlainMoves
    <3> QED BY <1>p, <3>1
  <2>2. CASE ~Goto(x, "delete")
    <3>1. req' = [req EXCEPT ![x].pc = "done", ![x].grants = @ + 1] /\ req[x].pc = "reserve"
      BY <1>15, <2>2 DEF Reserve
    <3> QED BY <1>t, <3>1 DEF Request, SameDemand, RequestMove
  <2> QED BY <2>1, <2>2
<1>16. ASSUME NEW x \in Orders, StallJob(x) PROVE RequestMove(req[x], req'[x])
  <2>1. CASE Goto(x, "failed")
    <3>1. Plain(x)
      <4> HIDE DEF Goto, Plain
      <4> QED BY <1>2, <1>16, <2>1 DEF StallJob, PlainMoves
    <3> QED BY <1>p, <3>1
  <2>2. CASE ~Goto(x, "failed")
    <3>1. /\ req' = [req EXCEPT ![x].pc = "queued", ![x].stalls = @ + 1]
          /\ req[x].pc \in JobSteps
      BY <1>16, <2>2 DEF StallJob
    <3> QED BY <1>t, <3>1 DEF Request, SameDemand, RequestMove
  <2> QED BY <2>1, <2>2
<1> HIDE DEF Plain
<1>17. ASSUME NEW x \in Orders,
              StartCheckout(x) \/ RejectCheckout(x) \/ HttpStep(x) \/ AbortCheckout(x)
                \/ JobStep(x) \/ StallJob(x)
       PROVE  req'[o] = req[o] \/ RequestMove(req[o], req'[o])
  <2>1. RequestMove(req[x], req'[x])
    BY <1>17, <1>p, <1>1, <1>3, <1>4, <1>6, <1>7, <1>8, <1>9, <1>10, <1>11, <1>13, <1>14,
       <1>15, <1>16 DEF HttpStep, JobStep
  <2>2. o # x => req'[o] = req[o]
    <3>1. \E r : req' = [req EXCEPT ![x] = r]
      BY <1>17, Zenon
      DEF StartCheckout, FreeOf, RejectCheckout, HttpStep, AbortCheckout, JobStep, StallJob,
          SeedCounters, DecrBy, Rollback, Fallback, CreateOrder, CreatePaymentIntent,
          EnqueueCheckout, StartJob, CreateItems, CreateAddress, Reserve, DeleteOrder
    <3> QED BY <1>t, <3>1
  <2> QED BY <2>1, <2>2
<1>18. ASSUME CleanupStep \/ \E v \in Expiring : ExpireCounter(v) PROVE UNCHANGED req
  BY ZenonT(30), <1>18 DEF CleanupStep, FindExpired, SumItems, ClearOrder, ExpireCounter
<1> QED
  BY <1>0, <1>17, <1>18 DEF Next, CheckoutNext, vars, checkoutVars

(* --------------------------- Reservations ------------------------------- *)

\* How often a request has reserved, by the step it has reached: not at all
\* before the order is written unless the fallback did, then once if and only if
\* isError tells the job so, as long as the job has not been run again.
Granted(r) ==
    /\ r.stalls = 0 => r.grants <= 1
    /\ r.pc \in {"idle", "setnx", "decrby", "rollback"} => ~r.isError /\ r.grants = 0
    /\ r.pc = "fallback" => r.isError /\ r.grants = 0
    /\ r.pc \in {"order", "intent", "enqueue", "queued"} \union JobSteps =>
          /\ r.isError => r.grants >= 1
          /\ ~r.isError /\ r.stalls = 0 => r.grants = 0
    /\ r.pc = "reserve" => ~r.isError
    /\ r.pc = "done" /\ (r.guest => r.cod) => r.grants >= 1

GrantInv == \A o \in Orders : Granted(req[o])

\* Every move of a request keeps its account.
LEMMA GrantMove ==
    ASSUME NEW r \in Request, NEW s \in Request, Granted(r), RequestMove(r, s)
    PROVE  Granted(s)
<1>t. /\ r.grants \in Nat /\ s.grants \in Nat /\ r.stalls \in Nat /\ s.stalls \in Nat
      /\ r.isError \in BOOLEAN /\ s.isError \in BOOLEAN
      /\ r.guest \in BOOLEAN /\ r.cod \in BOOLEAN
  BY DEF Request
<1> QED
  BY <1>t DEF RequestMove, PlainMoves, SameDemand, Granted, HttpSteps, JobSteps

\* No interleaving of requests, jobs, lost Redis replies, failed calls and dead
\* workers makes a checkout reserve twice, in the HTTP process and in the worker,
\* unless its job was run again; and a finished job that had to reserve did.
THEOREM CheckoutReservesOnce == Spec => []ReservesOnce
<1>1. Init => GrantInv
  BY DEF Init, CheckoutInit, IdleRequest, GrantInv, Granted, JobSteps
<1>2. TypeInv /\ TypeInv' /\ GrantInv /\ [Next]_vars => GrantInv'
  <2> SUFFICES ASSUME TypeInv, TypeInv', GrantInv, [Next]_vars, NEW o \in Orders
               PROVE  Granted(req'[o])
    BY DEF GrantInv
  <2>1. req[o] \in Request /\ req'[o] \in Request
    BY DEF TypeInv, TypeOK, CheckoutTypeOK
  <2>2. req'[o] = req[o] \/ RequestMove(req[o], req'[o])
    BY RequestMoves DEF TypeInv
  <2> QED BY <2>1, <2>2, GrantMove DEF GrantInv
<1>3. GrantInv => ReservesOnce
  BY DEF GrantInv, Granted, ReservesOnce
<1> QED BY <1>1, <1>2, <1>3, Reachable, PTL DEF Spec

(* ---------------------- How an order row can change --------------------- *)

\* The row of o keeps its total and its items, and stays or stays away.
RowKept(o) ==
    /\ OrderExists(o)' <=> OrderExists(o)
    /\ orders'[o].total = orders[o].total /\ orders'[o].items = orders[o].items

RowCreated(o) ==
    /\ req[o].pc = "order"
    /\ OrderExists(o)'
    /\ orders'[o].total = OrderTotal(req[o].quantity, req[o].unitPrice)
    /\ orders'[o].items = <<>>

RowExtended(o) ==
    /\ OrderExists(o) /\ OrderExists(o)'
    /\ orders'[o].total = orders[o].total
    /\ orders'[o].items = Append(orders[o].items, BatchOf(o))

RowDeleted(o) ==
    /\ req'[o].pc = "failed"
    /\ ~OrderExists(o)'
    /\ orders'[o].items = <<>>

RowMove(o) == RowKept(o) \/ RowCreated(o) \/ RowExtended(o) \/ RowDeleted(o)

\* Writing the status columns of an order that exists keeps every row.
LEMMA StatusKeepsRows ==
    ASSUME orders \in [Orders -> OrderRow], NEW o \in Orders, OrderExists(o),
           NEW s \in OrderStatus \ {"NONE"}, NEW p,
           \/ orders' = [orders EXCEPT ![o].status = s]
           \/ orders' = [orders EXCEPT ![o].status = s, ![o].paymentStatus = p]
    PROVE  \A x \in Orders : RowKept(x)
<1>1. \A x \in Orders : x # o => orders'[x] = orders[x]
  OBVIOUS
<1>2. /\ orders'[o].status = s /\ orders'[o].total = orders[o].total
      /\ orders'[o].items = orders[o].items
  <2>1. orders[o] \in OrderRow
    OBVIOUS
  <2> QED BY <2>1 DEF OrderRow
<1> QED BY <1>1, <1>2 DEF RowKept, OrderExists

\* Every step leaves a row alone or creates, extends or deletes it.
LEMMA RowMoves ==
    ASSUME TypeInv, [Next]_vars
    PROVE  \A o \in Orders : RowMove(o)
<1> USE DEF storeVars, tables
<1>t. /\ req \in [Orders -> Request] /\ orders \in [Orders -> OrderRow]
      /\ \A x \in Orders : req[x] \in Request
      /\ \A x \in Orders : orders[x] \in OrderRow
  BY DEF TypeInv, TypeOK, StoreTypeOK, CheckoutTypeOK
<1>0. CASE UNCHANGED orders
  BY <1>0 DEF RowMove, RowKept, OrderExists
<1>k. ASSUME \A x \in Orders : RowKept(x) PROVE \A x \in Orders : RowMove(x)
  BY <1>k DEF RowMove
<1>r. ASSUME NEW o \in Orders, \A x \in Orders : x # o => orders'[x] = orders[x], RowMove(o)
      PROVE  \A x \in Orders : RowMove(x)
  BY <1>r DEF RowMove, RowKept, OrderExists
<1>1. ASSUME NEW o \in Orders, CreateOrder(o) PROVE \A x \in Orders : RowMove(x)
  <2> DEFINE total == OrderTotal(req[o].quantity, req[o].unitPrice)
             expiry == ExpiryAfter(OrderTTL)
  <2>1. orders' = [orders EXCEPT ![o] =
           [NoOrder EXCEPT
               !.status = "PENDING_PAYMENT", !.paymentStatus = "PENDING",
               !.expiredAt = expiry, !.total = total]]
    BY <1>1 DEF CreateOrder
  <2>2. req[o].pc = "order"
    BY <1>1 DEF CreateOrder
  <2> HIDE DEF total, expiry
  <2>3. /\ orders'[o].status = "PENDING_PAYMENT" /\ orders'[o].items = <<>>
        /\ orders'[o].total = total
        /\ \A x \in Orders : x # o => orders'[x] = orders[x]
    BY <1>t, <2>1 DEF NoOrder
  <2>4. RowCreated(o)
    BY <2>2, <2>3 DEF RowCreated, OrderExists, total
  <2> QED BY <1>r, <2>3, <2>4 DEF RowMove
<1>2. ASSUME NEW o \in Orders, CreateItems(o), ~UNCHANGED orders
      PROVE  \A x \in Orders : RowMove(x)
  <2>1. OrderExists(o) /\ orders' = [orders EXCEPT ![o].items = Append(@, BatchOf(o))]
    BY <1>2 DEF CreateItems
  <2> DEFINE items == Append(orders[o].items, BatchOf(o))
  <2>2. orders' = [orders EXCEPT ![o].items = items]
    BY <2>1
  <2> HIDE DEF items
  <2>3. /\ orders'[o].status = orders[o].status /\ orders'[o].items = items
        /\ orders'[o].total = orders[o].total
        /\ \A x \in Orders : x # o => orders'[x] = orders[x]
    BY <1>t, <2>2 DEF OrderRow
  <2>4. RowExtended(o)
    BY <2>1, <2>3 DEF RowExtended, OrderExists, items
  <2> QED BY <1>r, <2>3, <2>4 DEF RowMove
<1>3. ASSUME NEW o \in Orders, CreateAddress(o), ~UNCHANGED orders
      PROVE  \A x \in Orders : RowMove(x)
  <2>1. orders' = [orders EXCEPT ![o].address = TRUE]
    BY <1>3 DEF CreateAddress
  <2>2. /\ orders'[o].status = orders[o].status /\ orders'[o].items = orders[o].items
        /\ orders'[o].total = orders[o].total
        /\ \A x \in Orders : x # o => orders'[x] = orders[x]
    BY <1>t, <2>1 DEF OrderRow
  <2> QED BY <1>r, <2>2 DEF RowMove, RowKept, OrderExists
<1>4. ASSUME NEW o \in Orders, DeleteOrder(o), ~UNCHANGED orders
      PROVE  \A x \in Orders : RowMove(x)
  <2>1. orders' = [orders EXCEPT ![o] = NoOrder] /\ Goto(o, "failed")
    BY <1>4 DEF DeleteOrder, DeleteById
  <2>2. /\ orders'[o].status = "NONE" /\ orders'[o].items = <<>>
        /\ req'[o].pc = "failed"
        /\ \A x \in Orders : x # o => orders'[x] = orders[x]
    BY <1>t, <2>1 DEF NoOrder, Goto, Request
  <2> QED BY <1>r, <2>2 DEF RowMove, RowDeleted, OrderExists
<1>5. ASSUME ClearOrder, ~UNCHANGED orders PROVE \A x \in Orders : RowMove(x)
  <2>1. orders' = [o \in Orders |->
                 IF DueForCleanup(o)
                 THEN [orders[o] EXCEPT !.status = "CANCELLED",
                                        !.paymentStatus = "EXPIRED"]
                 ELSE orders[o]]
    BY ZenonT(30), <1>5 DEF ClearOrder
  <2>2. ASSUME NEW o \in Orders PROVE RowKept(o)
    <3>1. CASE DueForCleanup(o)
      <4>1. orders'[o] = [orders[o] EXCEPT !.status = "CANCELLED",
                                           !.paymentStatus = "EXPIRED"]
        BY ZenonT(30), <2>1, <3>1
      <4> QED BY <1>t, <3>1, <4>1 DEF DueForCleanup, OrderRow, RowKept, OrderExists
    <3>2. CASE ~DueForCleanup(o)
      BY ZenonT(30), <2>1, <3>2 DEF RowKept, OrderExists
    <3> QED BY <3>1, <3>2
  <2> QED BY <1>k, <2>2
<1>6. ASSUME NEW o \in Orders, UpdateOrderStatus(o), ~UNCHANGED orders
      PROVE  \A x \in Orders : RowMove(x)
  <2>1. PICK s \in {"CONFIRMED", "CANCELLED"} : orders' = [orders EXCEPT ![o].status = s]
    BY <1>6 DEF UpdateOrderStatus
  <2>2. OrderExists(o) /\ s \in OrderStatus \ {"NONE"}
    BY <1>6 DEF UpdateOrderStatus, OrderStatus
  <2> QED BY ZenonT(30), <1>t, <1>k, <2>1, <2>2, StatusKeepsRows
<1>7. ASSUME NEW o \in Orders, OrderExists(o), MarkOrderAndPaymentSuccess(o)
      PROVE  \A x \in Orders : RowMove(x)
  <2>1. "PAID" \in OrderStatus \ {"NONE"}
    BY DEF OrderStatus
  <2>2. orders' = [orders EXCEPT ![o].status = "PAID", ![o].paymentStatus = "SUCCESS"]
    BY <1>7 DEF MarkOrderAndPaymentSuccess
  <2> QED BY ZenonT(30), <1>t, <1>k, <1>7, <2>1, <2>2, StatusKeepsRows
<1>8. ASSUME NEW d \in Deliveries, NEW call, NEW s \in {"PAID", "PENDING_PAYMENT"},
             SetOrderStatus(d, call, s)
      PROVE  \A x \in Orders : RowMove(x)
  <2>1. /\ OrderExists(Target(d)) /\ hook[d].pc = "stock"
        /\ orders' = [orders EXCEPT ![Target(d)].status = s]
    BY <1>8 DEF SetOrderStatus
  <2>2. CASE Target(d) \in Orders
    <3>1. s \in OrderStatus \ {"NONE"}
      BY DEF OrderStatus
    <3> QED BY ZenonT(30), <1>t, <1>k, <2>1, <2>2, <3>1, StatusKeepsRows
  <2>3. CASE Target(d) \notin Orders
    BY <1>0, <1>t, <2>1, <2>3
  <2> QED BY <2>2, <2>3
<1>9. ASSUME NEW d \in Deliveries, SettleOrder(d), ~UNCHANGED orders
      PROVE  \A x \in Orders : RowMove(x)
  <2>1. OrderExists(Target(d)) /\ MarkOrderAndPaymentSuccess(Target(d))
    BY <1>9 DEF SettleOrder
  <2>2. CASE Target(d) \in Orders
    BY <1>7, <2>1, <2>2
  <2>3. CASE Target(d) \notin Orders
    BY <1>0, <1>t, <2>1, <2>3 DEF MarkOrderAndPaymentSuccess
  <2> QED BY <2>2, <2>3
<1>10. ASSUME NEW o \in Orders, PollStep(o), ~UNCHANGED orders
       PROVE  \A x \in Orders : RowMove(x)
  <2>1. OrderExists(o) /\ MarkOrderAndPaymentSuccess(o)
    BY <1>10 DEF PollStep, PollIntent, PollOrder, PollMark
  <2> QED BY <1>7, <2>1
<1>11. ASSUME ~UNCHANGED orders, CheckoutNext PROVE \A x \in Orders : RowMove(x)
  <2>1. CASE ClearOrder
    BY <1>5, <1>11, <2>1
  <2>2. CASE ~ClearOrder
    <3>1. PICK o \in Orders : \/ CreateOrder(o) \/ CreateItems(o) \/ CreateAddress(o)
                              \/ DeleteOrder(o)
      BY ZenonT(30), <1>11, <2>2
      DEF CheckoutNext, HttpStep, JobStep, CleanupStep, StartCheckout, FreeOf, RejectCheckout,
          SeedCounters, DecrBy, Rollback, Fallback, CreatePaymentIntent, EnqueueCheckout,
          AbortCheckout, StartJob, Reserve, StallJob, FindExpired, SumItems, ExpireCounter
    <3> QED BY SMTT(30), <1>1, <1>2, <1>3, <1>4, <1>11, <3>1
  <2> QED BY <2>1, <2>2
<1>12. ASSUME ~UNCHANGED orders, DeskNext PROVE \A x \in Orders : RowMove(x)
  BY <1>6, <1>12, DeskConstants
  DEF DeskNext, UpdatePriceVariant, ImportStock, CheckOrderStatus
<1>13. ASSUME ~UNCHANGED orders, HooksNext PROVE \A x \in Orders : RowMove(x)
  <2>1. CASE \E d \in Deliveries : ReceiveWebhook(d) \/ HookStep(d) \/ CrashHook(d)
    <3>1. PICK d \in Deliveries : \/ SettleOrder(d)
                                  \/ SetOrderStatus(d, "paid", "PAID")
                                  \/ SetOrderStatus(d, "unpaid", "PENDING_PAYMENT")
      BY ZenonT(30), <1>13, <2>1
      DEF HookStep, ReceiveWebhook, CrashHook, FindByContent, SaveTransaction,
          MarkPaymentNotSuccess, FailWebhook, SettleWebhook, SettleIntent, EndSettle,
          ReadItems, DebitStock, CreditStock, FailOrderStatus, EndStock
    <3> QED BY <1>8, <1>9, <1>13, <3>1
  <2> QED BY <1>10, <1>13, <2>1 DEF HooksNext
<1> QED BY <1>0, <1>11, <1>12, <1>13 DEF Next, Tick, vars

(* ------------------------------ Totals ---------------------------------- *)

\* An order carries the total of what its request read, and batches of just
\* that; without an order there are no items.
Priced(o) ==
    IF OrderExists(o)
    THEN /\ orders[o].total = OrderTotal(req[o].quantity, req[o].unitPrice)
         /\ \A i \in DOMAIN orders[o].items : orders[o].items[i] = BatchOf(o)
    ELSE orders[o].items = <<>>

ItemsInv == \A o \in Orders : Priced(o)

\* Every step keeps the items of every order in agreement with its total: the
\* request is read before the order exists and not changed afterwards.
LEMMA ItemsStep ==
    ASSUME TypeInv, PaymentInv, ItemsInv, [Next]_vars, NEW o \in Orders
    PROVE  Priced(o)'
<1>1. RowMove(o)
  BY RowMoves
<1>2. CASE req[o].pc = "idle" /\ req'[o] # req[o]
  <2>1. ~OrderExists(o) /\ orders[o].items = <<>>
    BY <1>2 DEF PaymentInv, FreshInv, BeforeOrder, ItemsInv, Priced
  <2>2. ~OrderExists(o)' /\ orders'[o].items = <<>>
    BY <1>1, <1>2, <2>1 DEF RowMove, RowKept, RowCreated, RowExtended, RowDeleted
  <2> QED BY <2>2 DEF Priced
<1>3. CASE req[o].pc # "idle" \/ req'[o] = req[o]
  <2>1. req'[o].quantity = req[o].quantity /\ req'[o].unitPrice = req[o].unitPrice
    <3>1. req'[o] = req[o] \/ RequestMove(req[o], req'[o])
      BY RequestMoves DEF TypeInv
    <3> QED BY <1>3, <3>1 DEF RequestMove, SameDemand
  <2>2. BatchOf(o)' = BatchOf(o)
    BY <2>1 DEF BatchOf
  <2> DEFINE total == OrderTotal(req[o].quantity, req[o].unitPrice)
  <2>3. OrderTotal(req'[o].quantity, req'[o].unitPrice) = total
    BY <2>1
  <2> HIDE DEF total
  <2>4. CASE RowKept(o)
    BY <2>2, <2>3, <2>4 DEF RowKept, ItemsInv, Priced, total
  <2>5. CASE RowCreated(o)
    BY <2>3, <2>5 DEF RowCreated, Priced, total
  <2>6. CASE RowExtended(o)
    <3> DEFINE items == orders[o].items
    <3>1. items \in Seq(Batch) /\ BatchOf(o) \in Batch
      <4>1. orders[o] \in OrderRow
        BY DEF TypeInv, TypeOK, StoreTypeOK
      <4> QED BY <4>1, RequestFacts DEF TypeInv, OrderRow, BatchOf, Batch
    <3>2. \A i \in DOMAIN items : items[i] = BatchOf(o)
      BY <2>6 DEF RowExtended, ItemsInv, Priced
    <3>3. orders'[o].items = Append(items, BatchOf(o))
      BY <2>6 DEF RowExtended
    <3> DEFINE b == BatchOf(o)
    <3> HIDE DEF items, b
    <3>4. \A i \in DOMAIN Append(items, b) : Append(items, b)[i] = b
      BY <3>1, <3>2 DEF b
    <3>5. \A i \in DOMAIN orders'[o].items : orders'[o].items[i] = BatchOf(o)'
      BY <2>2, <3>3, <3>4 DEF b
    <3>6. OrderExists(o)' /\ orders'[o].total = total
      BY <2>6 DEF RowExtended, ItemsInv, Priced, total
    <3> QED BY <2>3, <3>5, <3>6 DEF Priced
  <2>7. CASE RowDeleted(o)
    BY <2>7 DEF RowDeleted, Priced
  <2> QED BY <1>1, <2>4, <2>5, <2>6, <2>7 DEF RowMove
<1> QED BY <1>2, <1>3

\* Whatever an admin does to prices while a request is on its way, and however
\* often its job runs, each batch of items of an order adds up to its total.
THEOREM ItemsAlwaysAddUp == Spec => []ItemsAddUp
<1>1. Init => ItemsInv
  BY DEF Init, StoreInit, ItemsInv, Priced, OrderExists, NoOrder
<1>2. TypeInv /\ PaymentInv /\ ItemsInv /\ [Next]_vars => ItemsInv'
  BY ItemsStep DEF ItemsInv
<1>3. ItemsInv => ItemsAddUp
  <2> SUFFICES ASSUME ItemsInv, NEW o \in Orders, NEW i \in DOMAIN orders[o].items
               PROVE  OrderTotal(orders[o].items[i].quantity, orders[o].items[i].unitPrice)
                         = orders[o].total
    BY DEF ItemsAddUp
  <2>1. OrderExists(o)
    BY DEF ItemsInv, Priced
  <2>2. /\ orders[o].items[i] = BatchOf(o)
        /\ orders[o].total = OrderTotal(req[o].quantity, req[o].unitPrice)
    BY <2>1 DEF ItemsInv, Priced
  <2>3. BatchOf(o).quantity = req[o].quantity /\ BatchOf(o).unitPrice = req[o].unitPrice
    BY DEF BatchOf
  <2> QED BY <2>2, <2>3
<1> QED BY <1>1, <1>2, <1>3, Reachable, PaymentReachable, PTL DEF Spec

(* --------------------------- Settled webhooks --------------------------- *)

\* The order is deleted for good: its job has failed, and nothing creates it again.
Gone(o) == o \in Orders /\ ~OrderExists(o) /\ req[o].pc = "failed"

\* Where a handler stands before it has saved its transfer.
BeforeSave == {"idle", "find", "save"}

\* The handler of d has saved its transfer, which is on record unless it was
\* deleted with its order.
Kept(d) ==
    /\ hook[d].pc \notin BeforeSave
    /\ transactions[d].status # "NONE" \/ Gone(Target(d))

\* What one step can do to the transaction of a delivery: keep its order and
\* its being there, save it, or delete it with its order.
TransactionKept(d) ==
    /\ transactions'[d].order = transactions[d].order
    /\ transactions[d].status # "NONE" => transactions'[d].status # "NONE"
    /\ transactions'[d].status # "NONE" =>
          transactions[d].status # "NONE" \/ transactions[d].order # NULL

TransactionSaved(d) ==
    /\ hook[d].pc = "save" /\ hook'[d].pc \in {"note", "settle"}
    /\ transactions'[d].status # "NONE"
    /\ transactions'[d].order \in {NULL, Target(d)}

TransactionDeleted(d) ==
    /\ transactions'[d].status = "NONE" /\ transactions'[d].order = NULL
    /\ \E o \in Orders : transactions[d].order = o /\ Gone(o)'

TransactionMove(d) == TransactionKept(d) \/ TransactionSaved(d) \/ TransactionDeleted(d)

\* What one step can do to the handler of a delivery: nothing, start it on an
\* event that then has a body, or move it on without a way around the save.
HandlerMove(d) ==
    \/ hook'[d] = hook[d]
    \/ hook[d].pc = "idle" /\ hook'[d].pc = "find"
    \/ /\ hook[d].pc # "idle" /\ hook'[d].pc # "idle"
       /\ hook'[d].event = hook[d].event
       /\ hook'[d].pc \in BeforeSave => hook[d].pc \in BeforeSave
       /\ hook'[d].pc \in {"note", "fail", "settle"} =>
             \/ hook[d].pc \in {"note", "fail", "settle"}
             \/ hook[d].pc = "save" /\ transactions'[d].status # "NONE"

\* What one step can do to an event: a body stays, and only a handler that has
\* saved its transfer settles the event.
EventMove(e) ==
    /\ inbox[e].status # "NONE" => inbox'[e].order = inbox[e].order
    /\ inbox'[e].status \in {"DONE", "FAILED"} =>
          \/ inbox[e].status \in {"DONE", "FAILED"}
          \/ \E d \in Deliveries : hook[d].event = e /\ hook[d].pc \in {"fail", "settle"}

\* A deleted order stays deleted.
LEMMA GoneStays ==
    ASSUME TypeInv, [Next]_vars, NEW o, Gone(o)
    PROVE  Gone(o)'
<1>1. o \in Orders /\ ~OrderExists(o) /\ req[o].pc = "failed"
  BY DEF Gone
<1>2. req'[o] = req[o]
  <2>1. req'[o] = req[o] \/ RequestMove(req[o], req'[o])
    BY <1>1, RequestMoves DEF TypeInv
  <2> QED BY <1>1, <2>1 DEF RequestMove, PlainMoves, HttpSteps, JobSteps
<1>3. ~OrderExists(o)'
  BY <1>1, RowMoves DEF RowMove, RowKept, RowCreated, RowExtended, RowDeleted
<1> QED BY <1>1, <1>2, <1>3 DEF Gone

\* Marking an order as paid keeps every transaction.
LEMMA MarkKeepsTransactions ==
    ASSUME TypeOK, NEW o \in Orders \union {NULL}, MarkOrderAndPaymentSuccess(o),
           o # NULL \/ UNCHANGED transactions, NEW d \in Deliveries
    PROVE  TransactionKept(d)
<1>1. transactions[d] \in TransactionRow
  BY DEF TypeOK, StoreTypeOK
<1>2. CASE transactions[d].order = o /\ o # NULL
  <2>1. transactions'[d] = [transactions[d] EXCEPT !.status = "SUCCESS"]
    BY <1>2 DEF MarkOrderAndPaymentSuccess
  <2> QED BY <1>1, <1>2, <2>1 DEF TransactionRow, TransactionKept
<1>3. CASE transactions[d].order # o \/ o = NULL
  <2>1. transactions'[d] = transactions[d]
    BY <1>3 DEF MarkOrderAndPaymentSuccess
  <2> QED BY <2>1 DEF TransactionKept
<1> QED BY <1>2, <1>3

\* Every step makes one of these moves with every transaction.
LEMMA TransactionMoves ==
    ASSUME TypeInv, PaymentInv, [Next]_vars, NEW d \in Deliveries
    PROVE  TransactionMove(d)
<1> USE DEF storeVars, tables
<1>t. /\ transactions \in [Deliveries -> TransactionRow]
      /\ transactions[d] \in TransactionRow
      /\ req \in [Orders -> Request] /\ orders \in [Orders -> OrderRow]
      /\ hook \in [Deliveries -> Handler]
      /\ \A x \in Orders : req[x] \in Request
      /\ \A x \in Deliveries : hook[x] \in Handler
  BY DEF TypeInv, TypeOK, StoreTypeOK, CheckoutTypeOK, HooksTypeOK
<1>0. CASE transactions'[d] = transactions[d]
  BY <1>0 DEF TransactionMove, TransactionKept
<1>1. ASSUME NEW o \in Orders, DeleteOrder(o), ~UNCHANGED transactions
      PROVE  TransactionMove(d)
  <2>1. DeleteById(o) /\ Goto(o, "failed")
    BY <1>1 DEF DeleteOrder
  <2>2. Gone(o)'
    <3>1. orders'[o].status = "NONE" /\ req'[o].pc = "failed"
      BY <1>t, <2>1 DEF DeleteById, NoOrder, Goto, Request
    <3> QED BY <3>1 DEF Gone, OrderExists
  <2>3. CASE transactions[d].order = o
    <3>1. transactions'[d] = NoTransaction
      BY <2>1, <2>3 DEF DeleteById
    <3>2. transactions'[d].status = "NONE" /\ transactions'[d].order = NULL
      BY <3>1 DEF NoTransaction
    <3> QED BY <2>2, <2>3, <3>2 DEF TransactionMove, TransactionDeleted
  <2>4. CASE transactions[d].order # o
    BY <1>0, <2>1, <2>4 DEF DeleteById
  <2> QED BY <2>3, <2>4
<1>2. ASSUME NEW x \in Deliveries, SaveTransaction(x) PROVE TransactionMove(d)
  <2> DEFINE verdict == hook[x].verdict
             order == IF verdict \in {"ignored", "notFound"} THEN NULL ELSE Target(x)
             saved == order # NULL => OrderExists(order)
  <2>1. CASE saved /\ x = d
    <3>0. /\ hook[d].pc = "save"
          /\ SavePaymentTransaction(d, TransactionStatus(verdict), order)
          /\ \/ Step(d, "note")
             \/ hook' = [hook EXCEPT ![d].pc = "settle", ![d].todo = FirstCalls(verdict)]
      BY <1>2, <2>1 DEF SaveTransaction
    <3>1. transactions'[d] = [status |-> TransactionStatus(verdict), order |-> order,
                              amount |-> Body(d).amount]
      BY <1>t, <3>0 DEF SavePaymentTransaction
    <3>2. /\ transactions'[d].status = TransactionStatus(verdict)
          /\ transactions'[d].order \in {NULL, Target(d)}
      BY <2>1, <3>1
    <3>3. TransactionStatus(verdict) # "NONE"
      BY DEF TransactionStatus
    <3>4. hook'[d].pc \in {"note", "settle"}
      BY <1>t, <3>0 DEF Step, Handler
    <3> QED BY <3>0, <3>2, <3>3, <3>4 DEF TransactionMove, TransactionSaved
  <2>2. CASE ~(saved /\ x = d)
    BY <1>0, <1>2, <1>t, <2>2 DEF SaveTransaction, SavePaymentTransaction
  <2> QED BY <2>1, <2>2
<1>3. ASSUME NEW x \in Deliveries, MarkPaymentNotSuccess(x) PROVE TransactionMove(d)
  <2>1. CASE x = d /\ ~UNCHANGED transactions
    <3>1. /\ transactions' = [transactions EXCEPT ![d].status = TransactionStatus(hook[d].verdict)]
          /\ transactions[d].status # "NONE"
      BY <1>3, <2>1 DEF MarkPaymentNotSuccess
    <3>2. TransactionStatus(hook[d].verdict) # "NONE"
      BY DEF TransactionStatus
    <3>3. /\ transactions'[d].status = TransactionStatus(hook[d].verdict)
          /\ transactions'[d].order = transactions[d].order
      BY <1>t, <3>1 DEF TransactionRow
    <3> QED BY <3>1, <3>2, <3>3 DEF TransactionMove, TransactionKept
  <2>2. CASE x # d \/ UNCHANGED transactions
    BY <1>0, <1>3, <1>t, <2>2 DEF MarkPaymentNotSuccess
  <2> QED BY <2>1, <2>2
<1>4. ASSUME NEW x \in Deliveries, SettleOrder(x), ~UNCHANGED transactions
      PROVE  TransactionMove(d)
  <2>1. MarkOrderAndPaymentSuccess(Target(x)) /\ hook[x].verdict = "exact"
    BY <1>4 DEF SettleOrder, PaymentInv, VerdictInv
  <2>2. Target(x) \in Orders
    BY <2>1 DEF PaymentInv, HandlerInv
  <2> QED BY <2>1, <2>2, MarkKeepsTransactions, ConstantTypes DEF TypeInv, TransactionMove
<1>5. ASSUME NEW o \in Orders, PollStep(o), ~UNCHANGED transactions
      PROVE  TransactionMove(d)
  <2>1. MarkOrderAndPaymentSuccess(o)
    BY <1>5 DEF PollStep, PollIntent, PollOrder, PollMark
  <2> QED BY <2>1, MarkKeepsTransactions, ConstantTypes DEF TypeInv, TransactionMove
<1>6. ASSUME ~UNCHANGED transactions, CheckoutNext PROVE TransactionMove(d)
  <2>1. PICK o \in Orders : DeleteOrder(o)
    BY ZenonT(30), <1>6
    DEF CheckoutNext, HttpStep, JobStep, CleanupStep, StartCheckout, FreeOf, RejectCheckout,
        SeedCounters, DecrBy, Rollback, Fallback, CreateOrder, CreatePaymentIntent,
        EnqueueCheckout, AbortCheckout, StartJob, CreateItems, CreateAddress, Reserve,
        StallJob, FindExpired, SumItems, ClearOrder, ExpireCounter
  <2> QED BY SMTT(30), <1>1, <1>6, <2>1
<1>7. ASSUME DeskNext PROVE UNCHANGED transactions
  BY <1>7 DEF DeskNext, UpdatePriceVariant, ImportStock, CheckOrderStatus, UpdateOrderStatus
<1>8. ASSUME ~UNCHANGED transactions, HooksNext PROVE TransactionMove(d)
  <2>1. CASE \E x \in Deliveries : ReceiveWebhook(x) \/ HookStep(x) \/ CrashHook(x)
    <3>1. PICK x \in Deliveries : \/ SaveTransaction(x) \/ MarkPaymentNotSuccess(x)
                                  \/ SettleOrder(x)
      BY ZenonT(30), <1>8, <2>1
      DEF HookStep, ReceiveWebhook, CrashHook, FindByContent, FailWebhook, SettleWebhook,
          SettleIntent, EndSettle, ReadItems, DebitStock, CreditStock, SetOrderStatus,
          FailOrderStatus, EndStock
    <3> QED BY <1>2, <1>3, <1>4, <1>8, <3>1
  <2> QED BY <1>5, <1>8, <2>1 DEF HooksNext
<1> QED BY <1>0, <1>6, <1>7, <1>8 DEF Next, Tick, vars

\* Every step makes one of these moves with every handler.
LEMMA HandlerMoves ==
    ASSUME TypeInv, [Next]_vars, NEW d \in Deliveries
    PROVE  HandlerMove(d)
<1> USE DEF Step, Finish, FailCall, FailDone
<1>t. /\ TypeOK /\ HandlerInv
      /\ hook \in [Deliveries -> Handler] /\ \A x \in Deliveries : hook[x] \in Handler
      /\ transactions \in [Deliveries -> TransactionRow]
  BY DEF TypeInv, TypeOK, HooksTypeOK, StoreTypeOK
<1>0. CASE hook'[d] = hook[d]
  BY <1>0 DEF HandlerMove
<1>1. ASSUME NEW x \in Deliveries, ReceiveWebhook(x) PROVE HandlerMove(d)
  BY <1>0, <1>1, <1>t, ReceiveFrame DEF HandlerMove
<1>2. ASSUME NEW x \in Deliveries, HookStep(x) \/ CrashHook(x), x # d PROVE HandlerMove(d)
  BY <1>0, <1>2, <1>t, HookFrame
<1>3. ASSUME HookStep(d) \/ CrashHook(d) PROVE HandlerMove(d)
  <2>f. /\ hook[d].pc # "idle" /\ hook'[d].pc # "idle"
        /\ hook'[d].event = hook[d].event
    BY <1>3, <1>t, HookFrame, HookProgress
  <2>k. ASSUME hook'[d].pc = hook[d].pc PROVE HandlerMove(d)
    BY <2>f, <2>k DEF HandlerMove
  <2>e. ASSUME hook'[d].pc \in {"replied", "error", "items", "stock"} PROVE HandlerMove(d)
    BY <2>f, <2>e DEF HandlerMove, BeforeSave
  <2>1. CASE FindByContent(d)
    <3>1. hook[d].pc = "find" /\ hook'[d].pc = "save"
      BY <1>t, <2>1 DEF FindByContent, Handler
    <3> QED BY <2>f, <3>1 DEF HandlerMove, BeforeSave
  <2>2. CASE SaveTransaction(d)
    <3>1. hook[d].pc = "save"
      BY <2>2 DEF SaveTransaction
    <3>2. CASE hook'[d].pc = "error"
      BY <2>e, <3>2
    <3>3. CASE hook'[d].pc # "error"
      <4> DEFINE status == TransactionStatus(hook[d].verdict)
      <4>1. \E order : transactions' = [transactions EXCEPT ![d] =
               [status |-> status, order |-> order, amount |-> Body(d).amount]]
        BY <1>t, <2>2, <3>3 DEF SaveTransaction, SavePaymentTransaction, Handler
      <4>2. status # "NONE"
        BY DEF TransactionStatus
      <4> HIDE DEF status
      <4>3. transactions'[d].status # "NONE"
        BY <1>t, <4>1, <4>2
      <4>4. hook'[d].pc \in {"note", "settle"}
        BY <1>t, <2>2, <3>3 DEF SaveTransaction, Handler
      <4> QED BY <2>f, <3>1, <4>3, <4>4 DEF HandlerMove, BeforeSave
    <3> QED BY <3>2, <3>3
  <2>3. CASE MarkPaymentNotSuccess(d)
    <3>1. hook[d].pc = "note" /\ hook'[d].pc \in {"fail", "error"}
      BY <1>t, <2>3 DEF MarkPaymentNotSuccess, Handler
    <3> QED BY <2>f, <3>1 DEF HandlerMove, BeforeSave
  <2>4. CASE FailWebhook(d)
    <3>1. hook[d].pc = "fail" /\ hook'[d].pc \in {"replied", "settle"}
      BY <1>t, <2>4 DEF FailWebhook, Handler
    <3> QED BY <2>f, <3>1 DEF HandlerMove, BeforeSave
  <2>5. CASE SettleWebhook(d)
    BY <1>t, <2>k, <2>5 DEF SettleWebhook, Handler
  <2>6. CASE SettleIntent(d)
    BY <1>t, <2>k, <2>6 DEF SettleIntent, Handler
  <2>7. CASE SettleOrder(d)
    BY <1>t, <2>k, <2>7 DEF SettleOrder, Handler
  <2>8. CASE EndSettle(d)
    BY <1>t, <2>e, <2>8 DEF EndSettle, Handler
  <2>9. CASE ReadItems(d)
    <3>1. hook'[d].pc = "stock"
      BY <1>t, <2>9 DEF ReadItems, Handler
    <3> QED BY <2>e, <3>1
  <2>10. CASE DebitStock(d)
    BY <1>t, <2>k, <2>10 DEF DebitStock, Handler
  <2>11. CASE CreditStock(d)
    BY <1>t, <2>k, <2>11 DEF CreditStock, Handler
  <2>12. CASE SetOrderStatus(d, "paid", "PAID") \/ SetOrderStatus(d, "unpaid", "PENDING_PAYMENT")
    BY <1>t, <2>k, <2>12 DEF SetOrderStatus, Handler
  <2>13. CASE FailOrderStatus(d)
    BY <1>t, <2>k, <2>13 DEF FailOrderStatus, Handler
  <2>14. CASE EndStock(d)
    BY <1>t, <2>e, <2>14 DEF EndStock, Handler
  <2>15. CASE CrashHook(d)
    BY <1>t, <2>e, <2>15 DEF CrashHook, Handler
  <2> QED
    BY <1>3, <2>1, <2>2, <2>3, <2>4, <2>5, <2>6, <2>7, <2>8, <2>9, <2>10, <2>11, <2>12,
       <2>13, <2>14, <2>15 DEF HookStep
<1>4. ASSUME NEW o \in Orders, PollStep(o) PROVE UNCHANGED hook
  BY <1>4 DEF PollStep, PollIntent, PollOrder, PollMark
<1>5. CASE UNCHANGED hooksVars
  BY <1>0, <1>5 DEF hooksVars
<1> QED BY <1>0, <1>1, <1>2, <1>3, <1>4, <1>5 DEF Next, HooksNext, vars, hooksVars

\* Every step makes one of these moves with every event.
LEMMA EventMoves ==
    ASSUME TypeInv, [Next]_vars, NEW e \in Events
    PROVE  EventMove(e)
<1>t. /\ inbox \in [Events -> InboxRow] /\ \A x \in Events : inbox[x] \in InboxRow
      /\ \A x \in Deliveries : hook[x].event \in Events
  BY HandlerFacts DEF TypeInv, TypeOK, HooksTypeOK
<1>0. CASE inbox'[e] = inbox[e]
  BY <1>0 DEF EventMove
<1>1. ASSUME NEW d \in Deliveries, ReceiveWebhook(d) PROVE EventMove(e)
  <2>1. PICK x \in Events :
          IF inbox[x].status = "NONE"
          THEN \E o \in Orders \union {NULL}, amount \in Amounts : SaveSepayWebhook(x, o, amount)
          ELSE SaveSepayWebhook(x, inbox[x].order, inbox[x].amount)
    BY <1>1 DEF ReceiveWebhook
  <2>2. CASE x # e
    BY <1>0, <1>t, <2>1, <2>2 DEF SaveSepayWebhook
  <2>3. CASE x = e
    <3>1. inbox'[e].status = "PENDING"
      BY <1>t, <2>1, <2>3 DEF SaveSepayWebhook
    <3>2. inbox[e].status # "NONE" => inbox'[e].order = inbox[e].order
      BY <1>t, <2>1, <2>3 DEF SaveSepayWebhook
    <3> QED BY <3>1, <3>2 DEF EventMove
  <2> QED BY <2>2, <2>3
<1>2. ASSUME NEW d \in Deliveries, NEW status, UpdateWebhookStatus(d, status),
             hook[d].pc \in {"fail", "settle"}
      PROVE  EventMove(e)
  <2>1. hook[d].event # e => inbox'[e] = inbox[e]
    BY <1>t, <1>2 DEF UpdateWebhookStatus
  <2>2. inbox'[e].order = inbox[e].order
    BY <1>t, <1>2 DEF UpdateWebhookStatus, InboxRow
  <2> QED BY <1>0, <1>2, <2>1, <2>2 DEF EventMove
<1>3. ASSUME NEW d \in Deliveries, HookStep(d) \/ CrashHook(d) PROVE EventMove(e)
  <2>1. CASE UNCHANGED inbox
    BY <1>0, <2>1
  <2>2. CASE ~UNCHANGED inbox
    <3>1. \E status : UpdateWebhookStatus(d, status) /\ hook[d].pc \in {"fail", "settle"}
      BY <1>3, <2>2
      DEF HookStep, CrashHook, FindByContent, SaveTransaction, MarkPaymentNotSuccess,
          FailWebhook, SettleWebhook, SettleIntent, SettleOrder, EndSettle, ReadItems,
          DebitStock, CreditStock, SetOrderStatus, FailOrderStatus, EndStock
    <3> QED BY <1>2, <3>1
  <2> QED BY <2>1, <2>2
<1>4. ASSUME NEW o \in Orders, PollStep(o) PROVE UNCHANGED inbox
  BY <1>4 DEF PollStep, PollIntent, PollOrder, PollMark
<1> QED BY <1>0, <1>1, <1>3, <1>4 DEF Next, HooksNext, vars, hooksVars

\* A handler past the save has its transfer kept, a transfer belongs to the order
\* its event names, and a settled event has a handler that kept its transfer.
RecordInv ==
    /\ \A d \in Deliveries :
          /\ hook[d].pc \in {"note", "fail", "settle"} => Kept(d)
          /\ hook[d].pc \in BeforeSave => transactions[d].status = "NONE"
          /\ transactions[d].order # NULL =>
                transactions[d].status # "NONE" /\ transactions[d].order = Target(d)
    /\ \A e \in Events : inbox[e].status \in {"DONE", "FAILED"} =>
          \E d \in Deliveries : hook[d].event = e /\ Kept(d)

\* The body of the event of a running handler stays as it is.
LEMMA TargetStays ==
    ASSUME TypeInv, [Next]_vars, NEW d \in Deliveries, hook[d].pc # "idle"
    PROVE  hook'[d].event = hook[d].event /\ Target(d)' = Target(d)
<1>1. hook'[d].event = hook[d].event
  BY HandlerMoves DEF HandlerMove
<1>2. hook[d].event \in Events /\ Body(d).status # "NONE"
  BY HandlerFacts DEF TypeInv, HandlerInv
<1>3. inbox'[hook[d].event].order = inbox[hook[d].event].order
  BY <1>2, EventMoves DEF EventMove, Body
<1> QED BY <1>1, <1>3 DEF Target, Body

\* What is kept stays kept: a transfer is only deleted with its order.
LEMMA KeptStays ==
    ASSUME TypeInv, PaymentInv, RecordInv, [Next]_vars, NEW d \in Deliveries, Kept(d)
    PROVE  Kept(d)'
<1>1. hook[d].pc \notin BeforeSave /\ (transactions[d].status # "NONE" \/ Gone(Target(d)))
  BY DEF Kept
<1>2. hook'[d].pc \notin BeforeSave
  BY <1>1, HandlerMoves DEF HandlerMove, BeforeSave
<1>3. Target(d)' = Target(d)
  BY <1>1, TargetStays DEF BeforeSave
<1>4. CASE Gone(Target(d))
  <2>1. Gone(Target(d))'
    <3>1. PICK o \in Orders : o = Target(d) /\ Gone(o)
      BY <1>4 DEF Gone
    <3>2. Gone(o)'
      BY <3>1, GoneStays
    <3> QED BY <1>3, <3>1, <3>2 DEF Gone, OrderExists
  <2> QED BY <1>2, <2>1 DEF Kept
<1>5. CASE transactions[d].status # "NONE"
  <2>1. CASE TransactionKept(d)
    BY <1>2, <1>5, <2>1 DEF TransactionKept, Kept
  <2>2. CASE TransactionSaved(d)
    BY <1>1, <2>2 DEF TransactionSaved, BeforeSave
  <2>3. CASE TransactionDeleted(d)
    <3>1. PICK o \in Orders : transactions[d].order = o /\ Gone(o)'
      BY <2>3 DEF TransactionDeleted
    <3>2. o = Target(d)
      BY <3>1, ConstantTypes DEF RecordInv
    <3>3. Target(d)' \in Orders /\ ~OrderExists(Target(d))' /\ req'[Target(d)'].pc = "failed"
      BY <1>3, <3>1, <3>2 DEF Gone, OrderExists
    <3> QED BY <1>2, <3>3 DEF Kept, Gone
  <2> QED BY <2>1, <2>2, <2>3, TransactionMoves DEF TransactionMove
<1> QED BY <1>1, <1>4, <1>5

\* Every step preserves the invariant about the records.
LEMMA RecordStep ==
    ASSUME TypeInv, PaymentInv, RecordInv, [Next]_vars
    PROVE  RecordInv'
<1>1. ASSUME NEW d \in Deliveries, hook'[d].pc \in {"note", "fail", "settle"}
      PROVE  Kept(d)'
  <2>1. CASE Kept(d)
    BY <2>1, KeptStays
  <2>2. CASE ~Kept(d)
    <3>1. hook[d].pc = "save" /\ transactions'[d].status # "NONE"
      BY <1>1, <2>2, HandlerMoves DEF HandlerMove, RecordInv
    <3> QED BY <1>1, <3>1 DEF Kept, BeforeSave
  <2> QED BY <2>1, <2>2
<1>2. ASSUME NEW d \in Deliveries, hook'[d].pc \in BeforeSave
      PROVE  transactions'[d].status = "NONE"
  <2>1. hook[d].pc \in BeforeSave
    BY <1>2, HandlerMoves DEF HandlerMove, BeforeSave
  <2>2. transactions[d].status = "NONE" /\ transactions[d].order = NULL
    BY <2>1 DEF RecordInv
  <2> QED
    BY <1>2, <2>2, TransactionMoves
    DEF TransactionMove, TransactionKept, TransactionSaved, TransactionDeleted, BeforeSave
<1>3. ASSUME NEW d \in Deliveries, transactions'[d].order # NULL
      PROVE  transactions'[d].status # "NONE" /\ transactions'[d].order = Target(d)'
  <2>1. CASE TransactionKept(d)
    <3>1. /\ transactions[d].order # NULL /\ transactions[d].status # "NONE"
          /\ transactions[d].order = Target(d)
          /\ transactions'[d].order = transactions[d].order
          /\ transactions'[d].status # "NONE"
      BY <1>3, <2>1 DEF TransactionKept, RecordInv
    <3>2. hook[d].pc # "idle"
      BY <3>1 DEF RecordInv, BeforeSave
    <3> QED BY <3>1, <3>2, TargetStays
  <2>2. CASE TransactionSaved(d)
    <3>1. Target(d)' = Target(d)
      BY <2>2, TargetStays DEF TransactionSaved
    <3> QED BY <1>3, <2>2, <3>1 DEF TransactionSaved
  <2>3. CASE TransactionDeleted(d)
    BY <1>3, <2>3 DEF TransactionDeleted
  <2> QED BY <2>1, <2>2, <2>3, TransactionMoves DEF TransactionMove
<1>4. ASSUME NEW e \in Events, inbox'[e].status \in {"DONE", "FAILED"}
      PROVE  \E d \in Deliveries : hook'[d].event = e /\ Kept(d)'
  <2>1. PICK d \in Deliveries : hook[d].event = e /\ Kept(d)
    BY <1>4, EventMoves DEF EventMove, RecordInv
  <2>2. hook[d].pc # "idle"
    BY <2>1 DEF Kept, BeforeSave
  <2> QED BY <2>1, <2>2, KeptStays, TargetStays
<1> QED BY <1>1, <1>2, <1>3, <1>4 DEF RecordInv

\* However deliveries of an event overlap, crash, are repeated or race with the
\* deletion of the order, an event is only ever settled with its transfer on
\* record, or with its order deleted.
THEOREM SettledEventsAreRecorded == Spec => []SettledIsRecorded
<1>1. Init => RecordInv
  <2> SUFFICES ASSUME Init PROVE RecordInv
    OBVIOUS
  <2>1. /\ \A d \in Deliveries : /\ hook[d].pc = "idle"
                                 /\ transactions[d].status = "NONE"
                                 /\ transactions[d].order = NULL
        /\ \A e \in Events : inbox[e].status = "NONE"
    BY DEF Init, StoreInit, HooksInit, IdleHandler, NoTransaction, NoInboxRow
  <2> QED BY <2>1 DEF RecordInv, BeforeSave
<1>2. TypeInv /\ PaymentInv /\ RecordInv /\ [Next]_vars => RecordInv'
  BY RecordStep
<1>3. TypeInv /\ RecordInv => SettledIsRecorded
  <2> SUFFICES ASSUME TypeInv, RecordInv, NEW e \in Events,
                      inbox[e].status \in {"DONE", "FAILED"}
               PROVE  \/ \E d \in Deliveries :
                            hook[d].event = e /\ transactions[d].status # "NONE"
                      \/ inbox[e].order # NULL /\ ~OrderExists(inbox[e].order)
    BY DEF SettledIsRecorded
  <2>1. PICK d \in Deliveries : hook[d].event = e /\ Kept(d)
    BY DEF RecordInv
  <2>2. Target(d) = inbox[e].order
    BY <2>1 DEF Target, Body
  <2> QED BY <2>1, <2>2, ConstantTypes DEF Kept, Gone
<1> QED BY <1>1, <1>2, <1>3, Reachable, PaymentReachable, PTL DEF Spec
=============================================================================
