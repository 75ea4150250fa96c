------------------------------- MODULE Store -------------------------------
(***************************************************************************)
(* The MySQL tables that checkout, the payment webhook and the admin desk  *)
(* share, and the repository calls that write more than one of them:       *)
(* book_variants (stock, reserved, price), orders with their order_items   *)
(* and order_address, payment_intents and payment_transactions.            *)
(*                                                                         *)
(* An order is identified with the checkout request that creates it, and a *)
(* payment transaction with the webhook delivery that saves it.  An absent *)
(* row has status "NONE".  The quantities of a cart are a function on all  *)
(* variants that is 0 outside the cart.                                    *)
(***************************************************************************)
EXTENDS Integers, Sequences, FiniteSetsExt

CONSTANTS
    Variants,      \* book variant ids
    Orders,        \* checkout requests, one order each
    Deliveries,    \* HTTP deliveries of payment events
    NULL,          \* an order reference that is null
    Quantities,    \* quantities a client may ask for
    Prices,        \* prices an admin may set
    Amounts,       \* amounts a bank transfer may have
    InitialStock,  \* stock of a variant before the first order
    ShippingFee,   \* SHIPPING_FEE
    OrderTTL,      \* ORDER_EXPIRED_SECONDS, in clock units
    IntentTTL,     \* PAYMENT_INTENT_EXPIRES_IN_MS, in clock units
    MaxClock,      \* bound on the clock
    MaxFaults      \* bound on the failed calls of one behaviour

VARIABLES
    stock,         \* book_variants.stock
    reserved,      \* book_variants.reserved
    price,         \* book_variants.price
    orders,        \* orders, with their items and address
    intents,       \* payment_intents, one per order at most
    transactions,  \* payment_transactions, by the delivery that saved them
    now,           \* the clock
    faults         \* how many calls have failed so far

tables == <<stock, reserved, price, orders, intents, transactions>>

storeVars == <<stock, reserved, price, orders, intents, transactions, now, faults>>

(* ------------------------------- Values -------------------------------- *)

OrderStatus == {"NONE", "PENDING_PAYMENT", "PAID", "CONFIRMED", "CANCELLED"}

PaymentStatus ==
    {"NONE", "PENDING", "SUCCESS", "EXPIRED", "PAYMENT_SHORTFALL",
     "PAYMENT_OVERAGE", "NOT_FOUND_ORDER_CODE"}

Cart == [Variants -> Nat]

\* What a client may ask for: a quantity for the items of the request, else 0.
AskedCart == [Variants -> Quantities \union {0}]

\* One order_items batch: the rows one createMany call writes for an order.
Batch == [quantity: AskedCart, unitPrice: Cart]

OrderRow ==
    [status: OrderStatus, paymentStatus: PaymentStatus, expiredAt: Nat,
     total: Int, items: Seq(Batch), address: BOOLEAN]

IntentRow == [status: PaymentStatus, expiredAt: Nat]

TransactionRow == [status: PaymentStatus, order: Orders \union {NULL}, amount: Int]

NoCart == [v \in Variants |-> 0]

NoOrder ==
    [status |-> "NONE", paymentStatus |-> "NONE", expiredAt |-> 0,
     total |-> 0, items |-> <<>>, address |-> FALSE]

NoIntent == [status |-> "NONE", expiredAt |-> 0]

NoTransaction == [status |-> "NONE", order |-> NULL, amount |-> 0]

\* subtotal + SHIPPING_FEE
OrderTotal(quantity, unitPrice) ==
    ShippingFee + MapThenSumSet(LAMBDA v : quantity[v] * unitPrice[v], Variants)

ASSUME ConstantTypes ==
    /\ Quantities \subseteq Nat \ {0}
    /\ Prices \subseteq Nat
    /\ Amounts \subseteq Int
    /\ InitialStock \in [Variants -> Nat]
    /\ ShippingFee \in Nat /\ OrderTTL \in Nat /\ IntentTTL \in Nat
    /\ MaxClock \in Nat /\ MaxFaults \in Nat
    /\ NULL \notin Orders
    /\ IsFiniteSet(Variants)

(* -------------------------- Repository calls --------------------------- *)

OrderExists(o) == orders[o].status # "NONE"

\* A call to MySQL or Redis that throws, or a process that dies.
Fault == faults < MaxFaults /\ faults' = faults + 1

\* new Date(Date.now() + ...)
ExpiryInThePast(ttl) == now - ttl                           \* mutant

ExpiryAfter(ttl) == now + ttl

\* Mutant of the next one: what was free when it was read is not looked up again.
ReserveUnchecked(quantity) ==
    reserved' = [v \in Variants |-> reserved[v] + quantity[v]]

\* BookVariantRepository.updateReservedByIds: one UPDATE that reserves each
\* quantity that is still free and silently skips the others.
UpdateReservedByIds(quantity) ==
    reserved' = [v \in Variants |->
        IF stock[v] - reserved[v] >= quantity[v]
        THEN reserved[v] + quantity[v] ELSE reserved[v]]

\* OrderRepository.deleteById: items and address go with the row, intents and
\* payment transactions by ON DELETE CASCADE.
DeleteById(o) ==
    /\ orders' = [orders EXCEPT ![o] = NoOrder]
    /\ intents' = [intents EXCEPT ![o] = NoIntent]
    /\ transactions' = [d \in Deliveries |->
           IF transactions[d].order = o THEN NoTransaction ELSE transactions[d]]

Tick ==
    /\ now < MaxClock
    /\ now' = now + 1
    /\ UNCHANGED <<tables, faults>>

StoreInit ==
    /\ stock = InitialStock
    /\ reserved = NoCart
    /\ price \in [Variants -> Prices]
    /\ orders = [o \in Orders |-> NoOrder]
    /\ intents = [o \in Orders |-> NoIntent]
    /\ transactions = [d \in Deliveries |-> NoTransaction]
    /\ now = 0
    /\ faults = 0

StoreTypeOK ==
    /\ stock \in [Variants -> Int]
    /\ reserved \in [Variants -> Int]
    /\ price \in [Variants -> Prices]
    /\ orders \in [Orders -> OrderRow]
    /\ intents \in [Orders -> IntentRow]
    /\ transactions \in [Deliveries -> TransactionRow]
    /\ now \in Nat
    /\ faults \in Nat
=============================================================================
