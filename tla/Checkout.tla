------------------------------ MODULE Checkout ------------------------------
(***************************************************************************)
(* OrderService.createCheckout in the HTTP process, the BullMQ worker that *)
(* finishes the order (CheckoutProcessor), and the cron job that cancels   *)
(* orders nobody paid for.  One action per awaited call: any other         *)
(* request, job, cron run or webhook may run between two of them.          *)
(*                                                                         *)
(* Redis keeps a counter available:<variant> of the copies that may still  *)
(* be sold.  It is seeded from MySQL with a TTL and taken down by a Lua    *)
(* script; MySQL's reserved column follows later, in the worker.           *)
(***************************************************************************)
EXTENDS Store

CONSTANTS
    Kinds,         \* who checks out: guest or user, paying cash or by transfer
    Expiring,      \* variants whose Redis counter may expire
    Concurrency,   \* jobs the worker runs at once
    MaxStalls      \* how often BullMQ re-runs a job whose worker died

VARIABLES
    req,           \* the checkout request and then the job of each order
    available,     \* the Redis counters
    cleaner        \* the run of the cleanup cron job

checkoutVars == <<req, available, cleaner>>

ASSUME CheckoutConstants ==
    /\ Kinds \subseteq [guest: BOOLEAN, cod: BOOLEAN]
    /\ Expiring \subseteq Variants
    /\ Concurrency \in Nat /\ MaxStalls \in Nat

HttpSteps == {"setnx", "decrby", "rollback", "fallback", "order", "intent", "enqueue"}

JobSteps == {"items", "address", "reserve", "delete"}

FinalSteps == {"rejected", "aborted", "done", "failed"}

\* free, remaining: what the request read from MySQL and got from Redis and still
\* carries; unitPrice: the prices it read; grants: how often it has reserved.
Request ==
    [pc: {"idle", "queued"} \union HttpSteps \union JobSteps \union FinalSteps,
     quantity: AskedCart, unitPrice: [Variants -> Prices \union {0}],
     free: [Variants -> Int], remaining: [Variants -> Int],
     guest: BOOLEAN, cod: BOOLEAN, isError: BOOLEAN,
     grants: Nat, stalls: Nat]

IdleRequest ==
    [pc |-> "idle", quantity |-> NoCart, unitPrice |-> NoCart, free |-> NoCart,
     remaining |-> NoCart, guest |-> FALSE, cod |-> FALSE, isError |-> FALSE,
     grants |-> 0, stalls |-> 0]

Counter == [live: BOOLEAN, value: Int, ttl: BOOLEAN]

NoCounter == [live |-> FALSE, value |-> 0, ttl |-> FALSE]

ItemsOf(o) == {v \in Variants : req[o].quantity[v] > 0}

Goto(o, pc) == req' = [req EXCEPT ![o].pc = pc]

(* ------------------- createCheckout, in the HTTP process ---------------- *)

\* The generated column available, as findByIds reads it.
FreeOf(v) == stock[v] - reserved[v]

\* The request passes validation and reads stock, reserved and price of its
\* variants.
StartCheckout(o) ==
    /\ req[o].pc = "idle"
    /\ \E quantity \in AskedCart, kind \in Kinds :
          /\ quantity # NoCart
          /\ req' = [req EXCEPT ![o] =
                 [IdleRequest EXCEPT
                     !.pc = "setnx", !.quantity = quantity,
                     !.unitPrice = price,
                     !.free = [v \in Variants |-> FreeOf(v)],
                     !.guest = kind.guest, !.cod = kind.cod]]
    /\ UNCHANGED <<storeVars, available, cleaner>>

\* Validation fails: no session or address, or a variant that is gone.
RejectCheckout(o) ==
    /\ req[o].pc = "idle"
    /\ Goto(o, "rejected")
    /\ UNCHANGED <<storeVars, available, cleaner>>

\* SET available:<v> <free> EX 3600 NX for every item, in one pipeline.
\* ioredis reports failed commands in the result, which nobody reads.
SeedCounters(o) ==
    /\ req[o].pc = "setnx"
    /\ Goto(o, "decrby")
    /\ \/ /\ available' = [v \in Variants |->
                 IF v \in ItemsOf(o) /\ ~available[v].live
                 THEN [live |-> TRUE, value |-> req[o].free[v], ttl |-> TRUE]
                 ELSE available[v]]
          /\ UNCHANGED faults
       \/ Fault /\ UNCHANGED available
    /\ UNCHANGED <<tables, now, cleaner>>

\* INCRBY / DECRBY: a missing counter starts from 0 and has no TTL.
AddToCounter(counter, n) == [counter EXCEPT !.live = TRUE, !.value = @ + n]

\* The Lua script, run by Redis in one piece.
TakeFromCounters(o) ==
    available' = [v \in Variants |->
        IF v \in ItemsOf(o)
        THEN AddToCounter(available[v], -req[o].quantity[v])
        ELSE available[v]]

ToFallback(o) == req' = [req EXCEPT ![o].pc = "fallback", ![o].isError = TRUE]

DecrBy(o) ==
    /\ req[o].pc = "decrby"
    /\ \/ /\ TakeFromCounters(o)
          /\ LET remaining == [v \in Variants |->
                     IF v \in ItemsOf(o) THEN available'[v].value ELSE 0]
             IN  req' = [req EXCEPT
                     ![o].remaining = remaining,
                     ![o].pc = IF \E v \in Variants : remaining[v] < 0
                               THEN "rollback" ELSE "order"]
          /\ UNCHANGED faults
       \/ /\ Fault                             \* the script did not run,
          /\ ToFallback(o)
          /\ UNCHANGED available
       \/ /\ Fault                             \* or its reply was lost
          /\ ToFallback(o)
          /\ TakeFromCounters(o)
    /\ UNCHANGED <<tables, now, cleaner>>

\* The first item that went below zero is put back, the others are not; the
\* 'out of stock' error is then caught by the surrounding catch block.
Rollback(o) ==
    /\ req[o].pc = "rollback"
    /\ ToFallback(o)
    /\ \/ /\ \E v \in ItemsOf(o) :
                /\ req[o].remaining[v] < 0
                /\ available' = [available EXCEPT
                       ![v] = AddToCounter(@, req[o].quantity[v])]
          /\ UNCHANGED faults
       \/ Fault /\ UNCHANGED available
    /\ UNCHANGED <<tables, now, cleaner>>

\* catch: give up when a variant was sold out when it was read, else reserve
\* in MySQL now and tell the worker not to.
Fallback(o) ==
    /\ req[o].pc = "fallback"
    /\ IF \E v \in ItemsOf(o) : req[o].free[v] <= 0
       THEN Goto(o, "rejected") /\ UNCHANGED reserved
       ELSE /\ UpdateReservedByIds(req[o].quantity)
            /\ req' = [req EXCEPT ![o].pc = "order", ![o].grants = @ + 1]
    /\ UNCHANGED <<stock, price, orders, intents, transactions, now, faults>>
    /\ UNCHANGED <<available, cleaner>>

\* createGuestOrder / createUserOrder.  What was read of the stock is not used
\* after this point.
CreateOrder(o) ==
    /\ req[o].pc = "order"
    /\ orders' = [orders EXCEPT ![o] =
           [NoOrder EXCEPT
               !.status = "PENDING_PAYMENT", !.paymentStatus = "PENDING",
               !.expiredAt = ExpiryAfter(OrderTTL),
               !.total = OrderTotal(req[o].quantity, req[o].unitPrice)]]
    /\ req' = [req EXCEPT ![o].pc = IF req[o].cod THEN "enqueue" ELSE "intent",
                          ![o].free = NoCart, ![o].remaining = NoCart]
    /\ UNCHANGED <<stock, reserved, price, intents, transactions, now, faults>>
    /\ UNCHANGED <<available, cleaner>>

CreatePaymentIntent(o) ==
    /\ req[o].pc = "intent"
    /\ intents' = [intents EXCEPT ![o] =
           [status |-> "PENDING", expiredAt |-> ExpiryAfter(IntentTTL)]]
    /\ Goto(o, "enqueue")
    /\ UNCHANGED <<stock, reserved, price, orders, transactions, now, faults>>
    /\ UNCHANGED <<available, cleaner>>

EnqueueCheckout(o) ==
    /\ req[o].pc = "enqueue"
    /\ Goto(o, "queued")
    /\ UNCHANGED <<storeVars, available, cleaner>>

\* A MySQL or queue call fails, or the HTTP process dies: createCheckout
\* undoes nothing of what it has done.
AbortCheckout(o) ==
    /\ req[o].pc \in HttpSteps
    /\ Fault
    /\ Goto(o, "aborted")
    /\ UNCHANGED <<tables, now, available, cleaner>>

(* -------------------- CheckoutProcessor.processCheckout ----------------- *)

\* Mutant of the next one: a finished job keeps its slot.
StartedJobs == {o \in Orders : req[o].pc \in JobSteps \union {"done", "failed"}}

RunningJobs == {o \in Orders : req[o].pc \in JobSteps}

\* The snapshots are written outside the try block: a failure there fails the
\* job (attempts: 1) and leaves the order without items.
StartJob(o) ==
    /\ req[o].pc = "queued"
    /\ Cardinality(RunningJobs) < Concurrency
    /\ \/ Goto(o, "items") /\ UNCHANGED faults
       \/ Goto(o, "failed") /\ Fault
    /\ UNCHANGED <<tables, now, available, cleaner>>

\* Mutant of the next one: the job reserves again what the fallback reserved.
ReservesInEveryJob(o) == req[o].guest => req[o].cod

\* The job reserves unless the HTTP process did; a guest's job only for cash.
ReservesInJob(o) == ~req[o].isError /\ (req[o].guest => req[o].cod)

ReserveOrDone(o) == IF ReservesInJob(o) THEN "reserve" ELSE "done"

\* Mutant of the next one: the price when the worker runs.
BatchAtCurrentPrice(o) == [quantity |-> req[o].quantity, unitPrice |-> price]

\* The items of the job's payload, with the prices the HTTP process read.
BatchOf(o) == [quantity |-> req[o].quantity, unitPrice |-> req[o].unitPrice]

\* order_items has no unique key: a job that runs twice writes them twice.
CreateItems(o) ==
    /\ req[o].pc = "items"
    /\ \/ /\ OrderExists(o)
          /\ orders' = [orders EXCEPT ![o].items = Append(@, BatchOf(o))]
          /\ Goto(o, IF req[o].guest THEN "address" ELSE ReserveOrDone(o))
          /\ UNCHANGED faults
       \/ /\ ~OrderExists(o)
          /\ Goto(o, "delete")
          /\ UNCHANGED <<orders, faults>>
       \/ Fault /\ Goto(o, "delete") /\ UNCHANGED orders
    /\ UNCHANGED <<stock, reserved, price, intents, transactions, now>>
    /\ UNCHANGED <<available, cleaner>>

\* order_address.order_id is unique: the second run of a job fails here.
CreateAddress(o) ==
    /\ req[o].pc = "address"
    /\ \/ /\ OrderExists(o) /\ ~orders[o].address
          /\ orders' = [orders EXCEPT ![o].address = TRUE]
          /\ Goto(o, ReserveOrDone(o))
          /\ UNCHANGED faults
       \/ /\ orders[o].address
          /\ Goto(o, "delete")
          /\ UNCHANGED <<orders, faults>>
       \/ Fault /\ Goto(o, "delete") /\ UNCHANGED orders
    /\ UNCHANGED <<stock, reserved, price, intents, transactions, now>>
    /\ UNCHANGED <<available, cleaner>>

Reserve(o) ==
    /\ req[o].pc = "reserve"
    /\ \/ /\ UpdateReservedByIds(req[o].quantity)
          /\ req' = [req EXCEPT ![o].pc = "done", ![o].grants = @ + 1]
          /\ UNCHANGED faults
       \/ Fault /\ Goto(o, "delete") /\ UNCHANGED reserved
    /\ UNCHANGED <<stock, price, orders, intents, transactions, now>>
    /\ UNCHANGED <<available, cleaner>>

\* catch: the order is deleted and the job fails.
DeleteOrder(o) ==
    /\ req[o].pc = "delete"
    /\ Goto(o, "failed")
    /\ \/ DeleteById(o) /\ UNCHANGED faults
       \/ Fault /\ UNCHANGED <<orders, intents, transactions>>
    /\ UNCHANGED <<stock, reserved, price, now, available, cleaner>>

\* The worker dies: BullMQ finds the job stalled and queues it again.
StallJob(o) ==
    /\ req[o].pc \in JobSteps
    /\ Fault
    /\ IF req[o].stalls < MaxStalls
       THEN req' = [req EXCEPT ![o].pc = "queued", ![o].stalls = @ + 1]
       ELSE Goto(o, "failed")
    /\ UNCHANGED <<tables, now, available, cleaner>>

(* --------------------- OrderCleanupJob and cleanOrder ------------------- *)

IdleCleaner == [pc |-> "idle", todo |-> {}, sum |-> NoCart]

\* The rows of one batch of an order, as the cleanup job has read them.
ReadBatch == [order: Orders, index: Nat, quantity: Cart]

\* expiredAt < now + PAYMENT_INTENT_EXPIRES_IN_MS
DueForCleanup(o) ==
    /\ orders[o].status = "PENDING_PAYMENT"
    /\ orders[o].expiredAt < now + IntentTTL

\* Mutant of the next one: only orders whose job has written the items.
ExpiredOrdersWithItems ==
    {o \in Orders : DueForCleanup(o) /\ orders[o].paymentStatus = "PENDING"
                                     /\ orders[o].items # <<>>}

ExpiredOrders ==
    {o \in Orders : DueForCleanup(o) /\ orders[o].paymentStatus = "PENDING"}

BatchesOf(o) ==
    {[order |-> o, index |-> i, quantity |-> orders[o].items[i].quantity] :
        i \in DOMAIN orders[o].items}

FindExpired ==
    /\ cleaner.pc = "idle"
    /\ ExpiredOrders # {}
    /\ cleaner' = [pc |-> "sum", sum |-> NoCart,
                   todo |-> UNION {BatchesOf(o) : o \in ExpiredOrders}]
    /\ UNCHANGED <<storeVars, req, available>>

\* The loop that adds up the quantities per variant, one batch at a time.
SumItems ==
    /\ cleaner.pc = "sum"
    /\ \/ /\ cleaner.todo = {}
          /\ cleaner' = [cleaner EXCEPT !.pc = "clear"]
       \/ \E batch \in cleaner.todo :
             cleaner' = [cleaner EXCEPT
                 !.todo = @ \ {batch},
                 !.sum = [v \in Variants |-> cleaner.sum[v] + batch.quantity[v]]]
    /\ UNCHANGED <<storeVars, req, available>>

GiveBack(quantity) ==
    /\ stock' = [v \in Variants |-> stock[v] + quantity[v]]
    /\ reserved' = [v \in Variants |-> reserved[v] - quantity[v]]

\* One transaction: give the quantities back, then cancel whatever is due now,
\* which need not be what was read.
ClearOrder ==
    /\ cleaner.pc = "clear"
    /\ cleaner' = IdleCleaner
    /\ \/ /\ GiveBack(cleaner.sum)
          /\ orders' = [o \in Orders |->
                 IF DueForCleanup(o)
                 THEN [orders[o] EXCEPT !.status = "CANCELLED",
                                        !.paymentStatus = "EXPIRED"]
                 ELSE orders[o]]
          /\ UNCHANGED faults
       \/ Fault /\ UNCHANGED <<stock, reserved, orders>>
    /\ UNCHANGED <<price, intents, transactions, now, req, available>>

(* --------------------------------- Redis ------------------------------- *)

\* The TTL of a counter runs out (or Redis evicts the key).
ExpireCounter(v) ==
    /\ available[v].ttl
    /\ available' = [available EXCEPT ![v] = NoCounter]
    /\ UNCHANGED <<storeVars, req, cleaner>>

(* ----------------------------------------------------------------------- *)

CheckoutInit ==
    /\ req = [o \in Orders |-> IdleRequest]
    /\ available = [v \in Variants |-> NoCounter]
    /\ cleaner = IdleCleaner

HttpStep(o) ==
    \/ SeedCounters(o) \/ DecrBy(o) \/ Rollback(o) \/ Fallback(o)
    \/ CreateOrder(o) \/ CreatePaymentIntent(o) \/ EnqueueCheckout(o)

JobStep(o) ==
    \/ StartJob(o) \/ CreateItems(o) \/ CreateAddress(o)
    \/ Reserve(o) \/ DeleteOrder(o)

CleanupStep == FindExpired \/ SumItems \/ ClearOrder

CheckoutNext ==
    \/ \E o \in Orders :
          \/ StartCheckout(o) \/ RejectCheckout(o)
          \/ HttpStep(o) \/ AbortCheckout(o)
          \/ JobStep(o) \/ StallJob(o)
    \/ CleanupStep
    \/ \E v \in Expiring : ExpireCounter(v)

CheckoutTypeOK ==
    /\ req \in [Orders -> Request]
    /\ available \in [Variants -> Counter]
    /\ cleaner \in [pc: {"idle", "sum", "clear"}, todo: SUBSET ReadBatch, sum: Cart]
=============================================================================
