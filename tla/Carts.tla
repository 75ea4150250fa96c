-------------------------------- MODULE Carts --------------------------------
(***************************************************************************)
(* CartService: one action per awaited statement.  Requests of a signed-in  *)
(* user work on the carts of the user, all others on those of the guest.   *)
(***************************************************************************)
EXTENDS GuestSessions

CONSTANT Available    \* copies a variant may have when a request looks

ASSUME CartConstants == Available \subseteq Nat

CartsOfUser(u) == {k \in Calls : carts[k].exists /\ carts[k].user = u}

CartsOfGuest(g) == {k \in Calls : carts[k].exists /\ carts[k].guest = g}

\* Mutant of the next one: carts that came from a guest are not looked at.
OwnCartsOnly(c) ==
    IF call[c].user # NULL
    THEN {k \in CartsOfUser(call[c].user) : carts[k].guest = NULL}
    ELSE CartsOfGuest(call[c].guest)

OwnCarts(c) ==
    IF call[c].user # NULL THEN CartsOfUser(call[c].user) ELSE CartsOfGuest(call[c].guest)

\* findFirst with orderBy updatedAt desc
Latest(S) == {k \in S : \A j \in S : carts[j].updatedAt <= carts[k].updatedAt}

(* -------------------- getCartUser/Guest, addCartItem -------------------- *)

\* What addCartItem does with the item it read, if any.
WithItem(r, item) ==
    IF item = NoItem THEN [r EXCEPT !.pc = "check"]
    ELSE [r EXCEPT !.pc = "stock", !.item = item.id, !.quantity = item.quantity + r.amount]

\* The items of a guest's cart come with the cart, those of a user's do not.
FindCart(c) ==
    /\ call[c].pc = "cart"
    /\ \/ /\ OwnCarts(c) = {}
          /\ Goto(c, "create")
       \/ /\ OwnCarts(c) # {} /\ call[c].kind = "get"
          /\ Finish(c)
       \/ \E k \in Latest(OwnCarts(c)) :
             LET r == [call[c] EXCEPT !.cart = k] IN
             /\ call[c].kind = "add"
             /\ call' = [call EXCEPT ![c] =
                    IF r.user # NULL THEN [r EXCEPT !.pc = "item"]
                    ELSE WithItem(r, carts[k].items[r.variant])]
    /\ UNCHANGED <<guests, carts, doomed, now>>

\* A guest whose session is gone violates the foreign key.
CreateCart(c) ==
    LET u == call[c].user
        g == IF u = NULL THEN call[c].guest ELSE NULL
    IN  /\ call[c].pc = "create"
        /\ IF g # NULL /\ ~guests[g].exists
           THEN Finish(c) /\ UNCHANGED carts
           ELSE /\ carts' = [carts EXCEPT ![c] =
                       [NoCart EXCEPT !.exists = TRUE, !.user = u, !.guest = g, !.updatedAt = now]]
                /\ IF call[c].kind = "get" THEN Finish(c)
                   ELSE call' = [call EXCEPT ![c].cart = c,
                            ![c].pc = IF u # NULL THEN "item" ELSE "check"]
        /\ UNCHANGED <<guests, doomed, now>>

\* findByCartIdAndBookVariantId
FindItem(c) ==
    /\ call[c].pc = "item"
    /\ call' = [call EXCEPT ![c] = WithItem(@, carts[@.cart].items[@.variant])]
    /\ UNCHANGED <<guests, carts, doomed, now>>

\* createByCartIdAndBookVariantId looks at the stock and throws when there is no
\* such variant or there are not enough copies ...
CheckStock(c) ==
    /\ call[c].pc = "check"
    /\ \E n \in Available : IF n < call[c].amount THEN Finish(c) ELSE Goto(c, "insert")
    /\ UNCHANGED <<guests, carts, doomed, now>>

\* ... before it inserts, which throws when the cart is gone or has the variant by now.
InsertItem(c) ==
    LET k == call[c].cart
        v == call[c].variant
    IN  /\ call[c].pc = "insert"
        /\ carts' = IF carts[k].exists /\ carts[k].items[v] = NoItem
                    THEN [carts EXCEPT ![k].items[v] = [id |-> c, quantity |-> call[c].amount]]
                    ELSE carts
        /\ Finish(c)
        /\ UNCHANGED <<guests, doomed, now>>

(* ------------- updateCartItemDelta, resolveAdjustedQuantity ------------- *)

\* The cart of the requester that has the item.
CartsWith(c) == {k \in OwnCarts(c) : carts[k].items[call[c].variant].id = call[c].item}

FindForDelta(c) ==
    /\ call[c].pc = "delta"
    /\ \/ CartsWith(c) = {} /\ Finish(c)
       \/ \E k \in CartsWith(c) :
             LET wanted == carts[k].items[call[c].variant].quantity + call[c].amount IN
             call' = [call EXCEPT ![c].cart = k,
                                  ![c].quantity = IF wanted > 0 THEN wanted ELSE 0,
                                  ![c].pc = IF wanted > 0 THEN "stock" ELSE "delete"]
    /\ UNCHANGED <<guests, carts, doomed, now>>

DeleteItem(c) ==
    carts' = [k \in Calls |->
        IF k \in CartsWith(c) THEN [carts[k] EXCEPT !.items[call[c].variant] = NoItem]
        ELSE carts[k]]

\* deleteByIdAndUserId, deleteByIdAndGuestSessionId
DeleteForDelta(c) ==
    /\ call[c].pc = "delete"
    /\ DeleteItem(c)
    /\ Goto(c, "stock")
    /\ UNCHANGED <<guests, doomed, now>>

\* No copies: the request throws, also after a delete.
ReadStock(c) ==
    /\ call[c].pc = "stock"
    /\ \E n \in Available :
          IF n = 0 \/ call[c].quantity = 0 THEN Finish(c)
          ELSE call' = [call EXCEPT ![c].pc = "write",
                                    ![c].quantity = IF n < @ THEN n ELSE @]
    /\ UNCHANGED <<guests, carts, doomed, now>>

\* updateQuantityById: by id alone; it throws when the item is gone.
WriteQuantity(c) ==
    LET k == call[c].cart
        v == call[c].variant
    IN  /\ call[c].pc = "write"
        /\ carts' = IF carts[k].items[v].id = call[c].item
                    THEN [carts EXCEPT ![k].items[v].quantity = call[c].quantity]
                    ELSE carts
        /\ Finish(c)
        /\ UNCHANGED <<guests, doomed, now>>

(* ---------------------- removeCartItem and clearCart -------------------- *)

RemoveCartItem(c) ==
    /\ call[c].pc = "remove"
    /\ DeleteItem(c)
    /\ Finish(c)
    /\ UNCHANGED <<guests, doomed, now>>

ClearCart(c) ==
    /\ call[c].pc = "clear"
    /\ carts' = [k \in Calls |-> IF k \in OwnCarts(c) THEN NoCart ELSE carts[k]]
    /\ Finish(c)
    /\ UNCHANGED <<guests, doomed, now>>

(* ------------------------------- mergeCart ------------------------------ *)

QuantitiesIn(k) == [v \in Variants |-> carts[k].items[v].quantity]

\* The two reads of the Promise.all, in any order.
ReadGuestCart(c) ==
    LET found == Latest(CartsOfGuest(call[c].guest)) IN
    /\ "theirs" \in call[c].todo /\ call[c].pc = "read"
    /\ \E k \in IF found = {} THEN {NULL} ELSE found :
          call' = [call EXCEPT ![c].todo = @ \ {"theirs"}, ![c].from = k,
                               ![c].theirs = IF k = NULL THEN Nothing ELSE QuantitiesIn(k)]
    /\ UNCHANGED <<guests, carts, doomed, now>>

ReadUserCart(c) ==
    LET found == Latest(CartsOfUser(call[c].user)) IN
    /\ "mine" \in call[c].todo /\ call[c].pc = "read"
    /\ \E k \in IF found = {} THEN {NULL} ELSE found :
          call' = [call EXCEPT ![c].todo = @ \ {"mine"}, ![c].cart = k,
                               ![c].mine = IF k = NULL THEN Nothing ELSE QuantitiesIn(k)]
    /\ UNCHANGED <<guests, carts, doomed, now>>

EndRead(c) ==
    /\ call[c].pc = "read" /\ call[c].todo = {}
    /\ \/ call[c].from = NULL /\ Finish(c)
       \/ call[c].from # NULL /\ Goto(c, IF call[c].cart = NULL THEN "assign" ELSE "mergeTx")
    /\ UNCHANGED <<guests, carts, doomed, now>>

\* updateGuestCart: the cart gets its user and keeps its guest session.
AssignCart(c) ==
    LET k == call[c].from IN
    /\ call[c].pc = "assign"
    /\ carts' = IF carts[k].exists
                THEN [carts EXCEPT ![k].user = call[c].user, ![k].updatedAt = now]
                ELSE carts
    /\ Finish(c)
    /\ UNCHANGED <<guests, doomed, now>>

\* Mutant of the next one: what the user has already is overwritten.
TheirsOnly(c, v) == call[c].theirs[v]

MergedQuantity(c, v) == call[c].mine[v] + call[c].theirs[v]

\* upsert of every item of the guest's cart
Upserted(c, items) ==
    [v \in Variants |->
        IF call[c].theirs[v] = 0 THEN items[v]
        ELSE [id |-> IF items[v] = NoItem THEN c ELSE items[v].id,
              quantity |-> MergedQuantity(c, v)]]

\* Mutant of the next one: the guest keeps its carts.
MergeAndKeep(c) ==
    LET k == call[c].cart IN
    /\ call[c].pc = "mergeTx"
    /\ carts' = IF ~carts[k].exists THEN carts
                ELSE [carts EXCEPT ![k].items = Upserted(c, @)]
    /\ Finish(c)
    /\ UNCHANGED <<guests, doomed, now>>

\* One transaction: upsert into the user's cart, which counts as an update of the
\* items and not of the cart, then delete the carts of the guest session.  It
\* throws when the user's cart is gone.
MergeCartUser(c) ==
    LET k == call[c].cart
        filled == [carts EXCEPT ![k].items = Upserted(c, @)]
    IN  /\ call[c].pc = "mergeTx"
        /\ carts' = IF ~carts[k].exists THEN carts
                    ELSE [j \in Calls |->
                             IF filled[j].guest = call[c].guest THEN NoCart ELSE filled[j]]
        /\ Finish(c)
        /\ UNCHANGED <<guests, doomed, now>>

CartStep(c) ==
    \/ FindCart(c) \/ CreateCart(c) \/ FindItem(c) \/ CheckStock(c) \/ InsertItem(c)
    \/ FindForDelta(c) \/ DeleteForDelta(c) \/ ReadStock(c) \/ WriteQuantity(c)
    \/ RemoveCartItem(c) \/ ClearCart(c)
    \/ ReadGuestCart(c) \/ ReadUserCart(c) \/ EndRead(c)
    \/ AssignCart(c) \/ MergeCartUser(c)
==============================================================================
