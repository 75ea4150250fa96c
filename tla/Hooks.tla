------------------------------- MODULE Hooks -------------------------------
(***************************************************************************)
(* HooksService: the SePay webhook that turns a bank transfer into a paid  *)
(* order, and the status endpoint the shop polls.  SePay delivers an event *)
(* at least once, so several deliveries of one event may run at the same   *)
(* time.  One action per awaited call; the calls of a Promise.all are      *)
(* members of "todo", complete in any order, and may fail one by one.      *)
(***************************************************************************)
EXTENDS Store

CONSTANT Events        \* SePay event ids, the idempotency keys

VARIABLES
    inbox,             \* webhook_inbox, by event
    hook,              \* the handler of each delivery
    poll               \* the getPaymentStatus request on each order

hooksVars == <<inbox, hook, poll>>

ASSUME HooksConstants == Events # {}

\* An event with its body: the order whose transfer content it carries (NULL:
\* no content) and the amount.
InboxRow ==
    [status: {"NONE", "PENDING", "DONE", "FAILED"}, attempts: Nat,
     order: Orders \union {NULL}, amount: Int]

NoInboxRow == [status |-> "NONE", attempts |-> 0, order |-> NULL, amount |-> 0]

Verdicts == {"none", "ignored", "notFound", "expired", "already",
             "shortfall", "overage", "exact"}

HandlerSteps == {"find", "save", "note", "fail", "settle", "items", "stock"}

Handler ==
    [pc: {"idle", "replied", "error"} \union HandlerSteps,
     event: Events, attempts: Nat, verdict: Verdicts,
     todo: SUBSET {"order", "webhook", "intent", "debit", "paid", "credit", "unpaid"},
     failed: BOOLEAN, quantity: AskedCart]

IdleHandler(e) ==
    [pc |-> "idle", event |-> e, attempts |-> 0, verdict |-> "none",
     todo |-> {}, failed |-> FALSE, quantity |-> NoCart]

Step(d, pc) == hook' = [hook EXCEPT ![d].pc = pc]

Body(d) == inbox[hook[d].event]

Target(d) == Body(d).order

(* ----------------------- Repository calls it makes ---------------------- *)

\* saveSepayWebhook: an upsert whose update branch also resets the status.
SaveSepayWebhook(e, order, amount) ==
    inbox' = [inbox EXCEPT ![e] =
        [status |-> "PENDING", attempts |-> @.attempts,
         order |-> order, amount |-> amount]]

UpdateWebhookStatus(d, status) ==
    inbox' = [inbox EXCEPT ![hook[d].event].status = status,
                           ![hook[d].event].attempts = hook[d].attempts]

\* markOrderAndPaymentSuccess: one transaction over the order and all its
\* payment transactions, whatever their status was.
MarkOrderAndPaymentSuccess(o) ==
    /\ orders' = [orders EXCEPT ![o].status = "PAID", ![o].paymentStatus = "SUCCESS"]
    /\ transactions' = [d \in Deliveries |->
           IF transactions[d].order = o
           THEN [transactions[d] EXCEPT !.status = "SUCCESS"] ELSE transactions[d]]

MarkPaymentIntent(o, status) ==
    intents' = IF intents[o].status = "NONE" THEN intents
               ELSE [intents EXCEPT ![o].status = status]

\* Mutant of the next one: transfers without an order are not recorded.
SaveOnlyLinked(d, status, order) ==
    transactions' = IF order = NULL THEN transactions
        ELSE [transactions EXCEPT ![d] =
            [status |-> status, order |-> order, amount |-> Body(d).amount]]

SavePaymentTransaction(d, status, order) ==
    transactions' = [transactions EXCEPT ![d] =
        [status |-> status, order |-> order, amount |-> Body(d).amount]]

(* --------------------------- handleSepayWebhook ------------------------- *)

\* A delivery arrives: the first one of an event fixes the body.  The handler
\* would stop here if the upsert returned a row that is DONE.
ReceiveWebhook(d) ==
    /\ hook[d].pc = "idle"
    /\ \E e \in Events :
          /\ IF inbox[e].status = "NONE"
             THEN \E o \in Orders \union {NULL}, amount \in Amounts :
                     SaveSepayWebhook(e, o, amount)
             ELSE SaveSepayWebhook(e, inbox[e].order, inbox[e].amount)
          /\ hook' = [hook EXCEPT ![d] = [IdleHandler(e) EXCEPT
                 !.attempts = inbox'[e].attempts + 1,
                 !.pc = IF inbox'[e].status = "DONE" THEN "replied" ELSE "find"]]
    /\ UNCHANGED <<storeVars, poll>>

\* Mutant of the next one: a transfer that is one short passes.
MismatchOffByOne(amount, total) ==
    IF amount < total - 1 THEN "shortfall"
    ELSE IF amount > total THEN "overage" ELSE "exact"

Mismatch(amount, total) ==
    IF amount < total THEN "shortfall"
    ELSE IF amount > total THEN "overage" ELSE "exact"

\* What the handler decides from one read of the intent, its order and the clock.
Verdict(d) ==
    LET o == Target(d)
        intent == intents[o]
    IN  IF o = NULL THEN "ignored"
        ELSE IF intent.status = "NONE" THEN "notFound"
        ELSE IF intent.expiredAt < now THEN "expired"
        ELSE IF intent.status = "SUCCESS" THEN "already"
        ELSE Mismatch(Body(d).amount, orders[o].total)

FindByContent(d) ==
    /\ hook[d].pc = "find"
    /\ hook' = [hook EXCEPT ![d].pc = "save", ![d].verdict = Verdict(d)]
    /\ UNCHANGED <<storeVars, inbox, poll>>

TransactionStatus(verdict) ==
    CASE verdict \in {"ignored", "notFound"} -> "NOT_FOUND_ORDER_CODE"
      [] verdict = "expired" -> "EXPIRED"
      [] verdict = "shortfall" -> "PAYMENT_SHORTFALL"
      [] verdict = "overage" -> "PAYMENT_OVERAGE"
      [] OTHER -> "SUCCESS"

\* Mutant of the next one: the order is not marked paid.
FirstCallsWithoutOrder(verdict) ==
    IF verdict \in {"ignored", "notFound"} THEN {"webhook"} ELSE {"intent", "webhook"}

\* The calls each handler starts together once the transaction is saved.
FirstCalls(verdict) ==
    CASE verdict \in {"ignored", "notFound"} -> {"webhook"}
      [] verdict \in {"expired", "already"} -> {"intent", "webhook"}
      [] OTHER -> {"order", "webhook", "intent"}

\* savePaymentTransaction: order_id is a foreign key, so the call throws when
\* the order was deleted meanwhile.
SaveTransaction(d) ==
    LET verdict == hook[d].verdict
        order == IF verdict \in {"ignored", "notFound"} THEN NULL ELSE Target(d)
    IN  /\ hook[d].pc = "save"
        /\ \/ /\ order # NULL => OrderExists(order)
              /\ SavePaymentTransaction(d, TransactionStatus(verdict), order)
              /\ IF verdict \in {"shortfall", "overage"}
                 THEN Step(d, "note")
                 ELSE hook' = [hook EXCEPT ![d].pc = "settle",
                                           ![d].todo = FirstCalls(verdict)]
           \/ /\ order # NULL /\ ~OrderExists(order)
              /\ Step(d, "error")
              /\ UNCHANGED transactions
        /\ UNCHANGED <<stock, reserved, price, orders, intents, now, faults>>
        /\ UNCHANGED <<inbox, poll>>

\* markPaymentNotSuccess: the row is written with its mismatch status again.
MarkPaymentNotSuccess(d) ==
    /\ hook[d].pc = "note"
    /\ \/ /\ transactions[d].status # "NONE"
          /\ transactions' = [transactions EXCEPT
                 ![d].status = TransactionStatus(hook[d].verdict)]
          /\ Step(d, "fail")
       \/ /\ transactions[d].status = "NONE"        \* deleted with its order
          /\ Step(d, "error")
          /\ UNCHANGED transactions
    /\ UNCHANGED <<stock, reserved, price, orders, intents, now, faults>>
    /\ UNCHANGED <<inbox, poll>>

\* A mismatch fails the inbox row; an overage then goes on as if the intent had
\* been paid before.
FailWebhook(d) ==
    /\ hook[d].pc = "fail"
    /\ UpdateWebhookStatus(d, "FAILED")
    /\ IF hook[d].verdict = "shortfall"
       THEN Step(d, "replied")
       ELSE hook' = [hook EXCEPT ![d].pc = "settle",
                                 ![d].todo = FirstCalls("already")]
    /\ UNCHANGED <<storeVars, poll>>

(* One call of the Promise.all after the transaction was saved. *)

Finish(d, call) == hook' = [hook EXCEPT ![d].todo = @ \ {call}]

FailCall(d, call) ==
    hook' = [hook EXCEPT ![d].todo = @ \ {call}, ![d].failed = TRUE]

\* Mutant of the next one: a late transfer counts as a success.
IntentAlwaysSucceeds(verdict) == "SUCCESS"

IntentOutcome(verdict) == IF verdict = "expired" THEN "EXPIRED" ELSE "SUCCESS"

SettledStatus(verdict) ==
    IF verdict \in {"notFound", "expired"} THEN "FAILED" ELSE "DONE"

SettleWebhook(d) ==
    /\ hook[d].pc = "settle" /\ "webhook" \in hook[d].todo
    /\ \/ /\ UpdateWebhookStatus(d, SettledStatus(hook[d].verdict))
          /\ Finish(d, "webhook")
          /\ UNCHANGED faults
       \/ Fault /\ FailCall(d, "webhook") /\ UNCHANGED inbox
    /\ UNCHANGED <<tables, now, poll>>

SettleIntent(d) ==
    /\ hook[d].pc = "settle" /\ "intent" \in hook[d].todo
    /\ \/ /\ MarkPaymentIntent(Target(d), IntentOutcome(hook[d].verdict))
          /\ Finish(d, "intent")
          /\ UNCHANGED faults
       \/ Fault /\ FailCall(d, "intent") /\ UNCHANGED intents
    /\ UNCHANGED <<stock, reserved, price, orders, transactions, now, inbox, poll>>

SettleOrder(d) ==
    /\ hook[d].pc = "settle" /\ "order" \in hook[d].todo
    /\ \/ /\ OrderExists(Target(d))
          /\ MarkOrderAndPaymentSuccess(Target(d))
          /\ Finish(d, "order")
          /\ UNCHANGED faults
       \/ /\ ~OrderExists(Target(d))
          /\ FailCall(d, "order")
          /\ UNCHANGED <<orders, transactions, faults>>
       \/ Fault /\ FailCall(d, "order") /\ UNCHANGED <<orders, transactions>>
    /\ UNCHANGED <<stock, reserved, price, intents, now, inbox, poll>>

\* All calls are back: reply, or fail, or (exact amount) go on to the stock.
EndSettle(d) ==
    /\ hook[d].pc = "settle" /\ hook[d].todo = {}
    /\ Step(d, IF hook[d].failed THEN "error"
               ELSE IF hook[d].verdict = "exact" THEN "items" ELSE "replied")
    /\ UNCHANGED <<storeVars, inbox, poll>>

\* The Map built from the order's items keeps one quantity per variant, however
\* many batches there are; it is empty while the worker has not written them.
ReadItems(d) ==
    /\ hook[d].pc = "items"
    /\ LET items == orders[Target(d)].items
       IN  hook' = [hook EXCEPT
               ![d].pc = "stock", ![d].todo = {"debit", "paid"},
               ![d].quantity = IF items = <<>> THEN NoCart
                               ELSE items[Len(items)].quantity]
    /\ UNCHANGED <<storeVars, inbox, poll>>

(* updateOrderDone: stock and status together, not in a transaction; the   *)
(* first failure starts updateOrderNotDone while the other call may still  *)
(* be running.                                                             *)

\* Mutant of the next one: reserved does not follow.
AddStockOnly(quantity, sign) ==
    /\ stock' = [v \in Variants |-> stock[v] + sign * quantity[v]]
    /\ reserved' = reserved

AddStock(quantity, sign) ==
    /\ stock' = [v \in Variants |-> stock[v] + sign * quantity[v]]
    /\ reserved' = [v \in Variants |-> reserved[v] + sign * quantity[v]]

FailDone(d, call) ==
    hook' = [hook EXCEPT
        ![d].todo = (@ \ {call}) \union
            (IF hook[d].failed THEN {} ELSE {"credit", "unpaid"}),
        ![d].failed = TRUE]

DebitStock(d) ==
    /\ hook[d].pc = "stock" /\ "debit" \in hook[d].todo
    /\ \/ /\ AddStock(hook[d].quantity, -1)
          /\ Finish(d, "debit")
          /\ UNCHANGED faults
       \/ Fault /\ FailDone(d, "debit") /\ UNCHANGED <<stock, reserved>>
    /\ UNCHANGED <<price, orders, intents, transactions, now, inbox, poll>>

CreditStock(d) ==
    /\ hook[d].pc = "stock" /\ "credit" \in hook[d].todo
    /\ \/ /\ AddStock(hook[d].quantity, 1)
          /\ Finish(d, "credit")
          /\ UNCHANGED faults
       \/ /\ Fault
          /\ FailCall(d, "credit")
          /\ UNCHANGED <<stock, reserved>>
    /\ UNCHANGED <<price, orders, intents, transactions, now, inbox, poll>>

SetOrderStatus(d, call, status) ==
    /\ hook[d].pc = "stock" /\ call \in hook[d].todo
    /\ OrderExists(Target(d))
    /\ orders' = [orders EXCEPT ![Target(d)].status = status]
    /\ Finish(d, call)
    /\ UNCHANGED <<stock, reserved, price, intents, transactions, now, faults>>
    /\ UNCHANGED <<inbox, poll>>

\* The status update throws: the order is gone, or the call failed.
FailOrderStatus(d) ==
    /\ hook[d].pc = "stock"
    /\ \/ "paid" \in hook[d].todo /\ FailDone(d, "paid")
       \/ "unpaid" \in hook[d].todo /\ FailCall(d, "unpaid")
    /\ \/ ~OrderExists(Target(d)) /\ UNCHANGED faults
       \/ Fault
    /\ UNCHANGED <<tables, now, inbox, poll>>

EndStock(d) ==
    /\ hook[d].pc = "stock" /\ hook[d].todo = {}
    /\ Step(d, IF hook[d].failed THEN "error" ELSE "replied")
    /\ UNCHANGED <<storeVars, inbox, poll>>

\* A call the handler waits for throws, or the process dies: calls that are
\* still in flight are lost and nothing is undone.
CrashHook(d) ==
    /\ hook[d].pc \in HandlerSteps
    /\ Fault
    /\ hook' = [hook EXCEPT ![d].pc = "error", ![d].todo = {}]
    /\ UNCHANGED <<tables, now, inbox, poll>>

(* ---------------------------- getPaymentStatus -------------------------- *)

PollIntent(o) ==
    /\ poll[o] = "idle"
    /\ intents[o].status = "SUCCESS"
    /\ poll' = [poll EXCEPT ![o] = "order"]
    /\ UNCHANGED <<storeVars, inbox, hook>>

PollOrder(o) ==
    /\ poll[o] = "order"
    /\ poll' = [poll EXCEPT ![o] =
           IF OrderExists(o) /\ (orders[o].status # "PAID" \/ orders[o].paymentStatus # "SUCCESS")
           THEN "mark" ELSE "idle"]
    /\ UNCHANGED <<storeVars, inbox, hook>>

PollMark(o) ==
    /\ poll[o] = "mark"
    /\ poll' = [poll EXCEPT ![o] = "idle"]
    /\ \/ OrderExists(o) /\ MarkOrderAndPaymentSuccess(o)
       \/ ~OrderExists(o) /\ UNCHANGED <<orders, transactions>>
    /\ UNCHANGED <<stock, reserved, price, intents, now, faults, inbox, hook>>

(* ----------------------------------------------------------------------- *)

HooksInit ==
    /\ inbox = [e \in Events |-> NoInboxRow]
    /\ hook = [d \in Deliveries |-> IdleHandler(CHOOSE e \in Events : TRUE)]
    /\ poll = [o \in Orders |-> "idle"]

HookStep(d) ==
    \/ FindByContent(d) \/ SaveTransaction(d) \/ MarkPaymentNotSuccess(d)
    \/ FailWebhook(d) \/ SettleWebhook(d) \/ SettleIntent(d) \/ SettleOrder(d)
    \/ EndSettle(d) \/ ReadItems(d) \/ DebitStock(d) \/ CreditStock(d)
    \/ SetOrderStatus(d, "paid", "PAID")
    \/ SetOrderStatus(d, "unpaid", "PENDING_PAYMENT")
    \/ FailOrderStatus(d) \/ EndStock(d)

PollStep(o) == PollIntent(o) \/ PollOrder(o) \/ PollMark(o)

HooksNext ==
    \/ \E d \in Deliveries : ReceiveWebhook(d) \/ HookStep(d) \/ CrashHook(d)
    \/ \E o \in Orders : PollStep(o)

HooksTypeOK ==
    /\ inbox \in [Events -> InboxRow]
    /\ hook \in [Deliveries -> Handler]
    /\ poll \in [Orders -> {"idle", "order", "mark"}]
=============================================================================
