----------------------------- MODULE BookStore -----------------------------
(***************************************************************************)
(* Checkout, the worker, the cleanup job, the payment webhook and the      *)
(* admin desk over one database: what a customer, a bank and an admin do   *)
(* to an order, interleaved at every awaited call.                         *)
(***************************************************************************)
EXTENDS Checkout, AdminDesk, Hooks

vars == <<storeVars, checkoutVars, deskVars, hooksVars>>

Init == StoreInit /\ CheckoutInit /\ DeskInit /\ HooksInit

Next ==
    \/ CheckoutNext /\ UNCHANGED <<deskVars, hooksVars>>
    \/ DeskNext /\ UNCHANGED <<checkoutVars, hooksVars>>
    \/ HooksNext /\ UNCHANGED <<checkoutVars, deskVars>>
    \/ Tick /\ UNCHANGED <<checkoutVars, deskVars, hooksVars>>

Spec == Init /\ [][Next]_vars

\* BullMQ's worker runs queued jobs and the cron scheduler the cleanup, as long
\* as the processes are up; Node runs a handler to its end once it has started.
Fairness ==
    /\ \A o \in Orders :
          /\ WF_vars(HttpStep(o) /\ UNCHANGED <<deskVars, hooksVars>>)
          /\ WF_vars(JobStep(o) /\ UNCHANGED <<deskVars, hooksVars>>)
    /\ WF_vars(CleanupStep /\ UNCHANGED <<deskVars, hooksVars>>)
    /\ \A d \in Deliveries :
          WF_vars(HookStep(d) /\ UNCHANGED <<checkoutVars, deskVars>>)

FairSpec == Spec /\ Fairness

(* ------------------------------- Safety -------------------------------- *)

\* Every table, counter, request, handler and the cron job stays in its type.
TypeOK == StoreTypeOK /\ CheckoutTypeOK /\ DeskTypeOK /\ HooksTypeOK

\* No interleaving of checkouts, jobs, cleanups, payments and their
\* compensation reserves more copies of a variant than the stock column says:
\* what a request read of stock and reserved is old when it reserves, in either
\* process, and only the re-check in the row being updated refuses it.
NoOverReservation == \A v \in Variants : reserved[v] <= stock[v]

\* The transfers recorded for an order that cover what the order costs.
Covering(o) ==
    {d \in Deliveries : transactions[d].order = o
                        /\ transactions[d].amount >= orders[o].total}

\* An order is paid, and its intent successful, only if a transfer of at least
\* its total is on record for it: no order of the calls of concurrent or
\* repeated deliveries, of the polling endpoint and of the compensation marks
\* an order paid by less, and a deleted order leaves no paid intent behind.
PaidIsBacked ==
    \A o \in Orders :
        orders[o].status = "PAID" \/ orders[o].paymentStatus = "SUCCESS"
          \/ intents[o].status = "SUCCESS"
        => Covering(o) # {}

\* The amount a customer is asked to pay is what the order lists: whatever the
\* admin does to prices between the read in the HTTP process and the worker's
\* write, each batch of items adds up to the total of the order.
ItemsAddUp ==
    \A o \in Orders : \A i \in DOMAIN orders[o].items :
        OrderTotal(orders[o].items[i].quantity, orders[o].items[i].unitPrice)
          = orders[o].total

\* A checkout whose worker never died reserves once at most, in the HTTP
\* process when Redis failed and in the worker otherwise, and never in both;
\* a finished job of a user or of a cash order has reserved.
ReservesOnce ==
    \A o \in Orders :
        /\ req[o].stalls = 0 => req[o].grants <= 1
        /\ req[o].pc = "done" /\ (req[o].guest => req[o].cod) => req[o].grants >= 1

\* A webhook is never reported as settled (DONE or FAILED, so SePay's retries
\* are over) without the transfer on record, unless its order was deleted.
SettledIsRecorded ==
    \A e \in Events :
        inbox[e].status \in {"DONE", "FAILED"} =>
            \/ \E d \in Deliveries :
                  hook[d].event = e /\ transactions[d].status # "NONE"
            \/ inbox[e].order # NULL /\ ~OrderExists(inbox[e].order)

\* The inventory: stock - reserved is free, reserved is held.
Ledger ==
    INSTANCE StockLedger
        WITH free <- [v \in Variants |-> stock[v] - reserved[v]], held <- reserved

\* The two statements that follow no rule of the ledger: the cleanup adds to
\* stock as well as taking from reserved (Claims!ExpiryLeavesStock), and the
\* compensation of a payment credits what its debit need not have taken.
Restocks == cleaner.pc = "clear" /\ GiveBack(cleaner.sum)

Compensates ==
    \E d \in Deliveries : "credit" \in hook[d].todo /\ AddStock(hook[d].quantity, 1)

\* Every other statement moves copies exactly as the ledger promises: holds of
\* concurrent checkouts, in the HTTP process or the worker, take all or nothing
\* of a variant and only what is free, a payment ships without touching what is
\* free, and nothing but an import adds copies.
LedgerSpec ==
    Ledger!Init /\ [][Ledger!Next \/ Restocks \/ Compensates]_<<stock, reserved>>

(* ------------------------------- Liveness ------------------------------ *)

\* A queued checkout job ends: the order has its items and its job is done, or
\* the job failed; it is not left behind by the other jobs or by a dead worker.
JobSettles ==
    \A o \in Orders :
        req[o].pc = "queued" ~>
            \/ req[o].pc = "done" /\ orders[o].items # <<>>
            \/ req[o].pc = "failed"

\* An order that is due for cleanup does not stay pending: the cleanup job
\* cancels it even when its checkout died halfway, and although the job reads
\* and cancels in two steps.
DueIsCancelled ==
    \A o \in Orders :
        DueForCleanup(o) /\ orders[o].paymentStatus = "PENDING"
            ~> orders[o].status # "PENDING_PAYMENT"

\* A transfer of the exact amount in time ends in a paid order.
ExactPaymentPays ==
    \A d \in Deliveries, o \in Orders :
        hook[d].pc = "save" /\ hook[d].verdict = "exact" /\ Target(d) = o
            ~> orders[o].paymentStatus = "SUCCESS"
=============================================================================
