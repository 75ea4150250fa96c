----------------------------- MODULE AdminDesk -----------------------------
(***************************************************************************)
(* What the admin endpoints do to the shared tables while customers shop:  *)
(* set a price, import stock, and confirm or cancel an order.              *)
(***************************************************************************)
EXTENDS Store

CONSTANTS
    DeskOrders,        \* orders an admin may decide about
    MaxImports         \* bound on the stock imports of one behaviour

VARIABLES
    desk,              \* the updateOrderStatus request on each order
    imports            \* stock imports so far

deskVars == <<desk, imports>>

ASSUME DeskConstants == DeskOrders \subseteq Orders /\ MaxImports \in Nat

\* AdminBookVariantService.updatePriceVariant
UpdatePriceVariant(v) ==
    /\ \E p \in Prices : p # price[v] /\ price' = [price EXCEPT ![v] = p]
    /\ UNCHANGED <<stock, reserved, orders, intents, transactions, now, faults>>
    /\ UNCHANGED deskVars

\* The part of createStockImport that touches book_variants: incrementStockById.
ImportStock(v) ==
    /\ imports < MaxImports
    /\ imports' = imports + 1
    /\ \E n \in Quantities : stock' = [stock EXCEPT ![v] = @ + n]
    /\ UNCHANGED <<reserved, price, orders, intents, transactions, now, faults>>
    /\ UNCHANGED desk

\* AdminOrderService.updateOrderStatus reads the order and refuses it unless it
\* is waiting for payment ...
CheckOrderStatus(o) ==
    /\ desk[o] = "idle"
    /\ orders[o].status = "PENDING_PAYMENT"
    /\ desk' = [desk EXCEPT ![o] = "checked"]
    /\ UNCHANGED <<storeVars, imports>>

\* ... and then writes the new status whatever the order has become; the call
\* throws when the order is gone.
UpdateOrderStatus(o) ==
    /\ desk[o] = "checked"
    /\ desk' = [desk EXCEPT ![o] = "idle"]
    /\ \/ /\ OrderExists(o)
          /\ \E status \in {"CONFIRMED", "CANCELLED"} :
                orders' = [orders EXCEPT ![o].status = status]
       \/ ~OrderExists(o) /\ UNCHANGED orders
    /\ UNCHANGED <<stock, reserved, price, intents, transactions, now, faults>>
    /\ UNCHANGED imports

DeskInit == desk = [o \in Orders |-> "idle"] /\ imports = 0

DeskNext ==
    \/ \E v \in Variants : UpdatePriceVariant(v) \/ ImportStock(v)
    \/ \E o \in DeskOrders : CheckOrderStatus(o) \/ UpdateOrderStatus(o)

DeskTypeOK ==
    /\ desk \in [Orders -> {"idle", "checked"}]
    /\ imports \in Nat
=============================================================================
