----------------------------- MODULE BackOffice -----------------------------
(***************************************************************************)
(* The back office as a whole: requests that buy, decide, import and price *)
(* interleave at every awaited statement, while an admin turns pages.      *)
(***************************************************************************)
EXTENDS Purchasing

Spec == PurchasingInit /\ [][PurchasingNext]_purchasingVars

TypeOK ==
    /\ suppliers \in Seq(Supplier) /\ purchases \in Seq(PurchaseOrder) /\ imports \in Seq(StockImport)
    /\ \A s, t \in DOMAIN suppliers : suppliers[s].code = suppliers[t].code => s = t
    /\ \A p, q \in DOMAIN purchases : purchases[p].code = purchases[q].code => p = q
    /\ \A p \in DOMAIN purchases : purchases[p].supplier \in DOMAIN suppliers

(* ------------------------------- Properties ----------------------------- *)

\* Whatever order the imports, their retries and the decisions come in, the stock
\* of a variant is what the recorded imports say was really delivered of it.
\* However many requests report the same delivery, an order has one import, and an
\* order that says it was purchased and paid for has one.
StockIsImported ==
    /\ \A v \in Variants : stock[v] = SumFunction([i \in DOMAIN imports |-> Delivered(imports[i].items, v)])
    /\ \A i, j \in DOMAIN imports : imports[i].order = imports[j].order => i = j
    /\ \A p \in DOMAIN purchases :
          purchases[p].transfer = "PURCHASE" \/ purchases[p].realPayPrice # NULL
              => \E i \in DOMAIN imports : imports[i].order = p

\* The lines of a delivery are all items of the order, each once and complete.
IsFull(i) ==
    LET lines == imports[i].items
        items == purchases[imports[i].order].items
    IN  /\ Len(lines) = Len(items)
        /\ \A n \in DOMAIN items : \E l \in DOMAIN lines :
               lines[l].item = [order |-> imports[i].order, n |-> n] /\ lines[l].lack = 0

\* How many copies an order is for.
Ordered(order) == SumFunction([n \in DOMAIN order.items |-> order.items[n].quantity])

\* The amount of an order is added up from exact prices when it is created, the
\* amount that is paid from the prices the columns kept when it is imported: for a
\* delivery that is complete they differ by half a cent per copy and half a cent
\* for the total, but by no more, discounts and quantities included.
FullDeliveryCostsTheOrder ==
    \A i \in DOMAIN imports :
        LET order == purchases[imports[i].order]
            over == order.realPayPrice - order.totalAmount
        IN  IsFull(i) => -(Ordered(order) + 1) <= 2 * over /\ 2 * over <= Ordered(order) + 1

\* A decision about an order is replaced only by a request that overlapped with
\* the one that took it: who asks afterwards is refused.
DecisionStands ==
    [][\A p \in DOMAIN purchases :
          purchases[p].status # "PENDING" /\ purchases'[p].status # purchases[p].status =>
              \E r \in Requests :
                  req[r].pc = "decide" /\ req[r].order = p /\ req[r].was = "PENDING"]_purchasingVars

\* Who turns the pages of a list until one is empty has seen every row that was
\* there when he began, whatever was inserted meanwhile.
PagesShowAll == walk.list # NULL /\ walk.page = 0 => walk.due \subseteq walk.seen
=============================================================================
