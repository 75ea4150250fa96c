------------------------------ MODULE Wishlists ------------------------------
(***************************************************************************)
(* WishlistService: one action per awaited statement.  A wishlist, and an  *)
(* item of one, is identified with the request that inserts it.            *)
(***************************************************************************)
EXTENDS GuestSessions

VARIABLE wishlists    \* wishlists with their wishlist_items

WishlistRow ==
    [exists: BOOLEAN, user: Users \union {NULL}, guest: Guests \union {NULL},
     updatedAt: Nat, deleted: BOOLEAN, items: [Variants -> Calls \union {NULL}]]

NoWishlist ==
    [exists |-> FALSE, user |-> NULL, guest |-> NULL, updatedAt |-> 0, deleted |-> FALSE,
     items |-> [v \in Variants |-> NULL]]

\* The shopper of a request: the user, or else the guest.
IsOf(list, r) == IF r.user # NULL THEN list.user = r.user ELSE list.guest = r.guest

OwnWishlists(c) ==
    {k \in Calls : wishlists[k].exists /\ ~wishlists[k].deleted /\ IsOf(wishlists[k], call[c])}

\* findByUserId, findByGuestSessionId: orderBy updatedAt desc, take 1.
FoundWishlists(c) ==
    {k \in OwnWishlists(c) : \A j \in OwnWishlists(c) : wishlists[j].updatedAt <= wishlists[k].updatedAt}

\* resolveWishlistByActor, first half.
FindWishlist(c) ==
    /\ call[c].pc = "wishlist"
    /\ \/ /\ OwnWishlists(c) = {}
          /\ IF call[c].kind \in {"getWish", "addWish"} THEN Goto(c, "newWishlist") ELSE Finish(c)
       \/ \E k \in FoundWishlists(c) :
             IF call[c].kind = "getWish" THEN Finish(c)
             ELSE call' = [call EXCEPT ![c].cart = k,
                               ![c].pc = IF call[c].kind = "addWish" THEN "wish" ELSE call[c].kind]
    /\ UNCHANGED <<guests, carts, wishlists, doomed, now>>

\* Second half: the insert; a guest whose session is gone violates the key.
CreateWishlist(c) ==
    LET u == call[c].user
        g == IF u = NULL THEN call[c].guest ELSE NULL
    IN  /\ call[c].pc = "newWishlist"
        /\ IF g # NULL /\ ~guests[g].exists
           THEN Finish(c) /\ UNCHANGED wishlists
           ELSE /\ wishlists' = [wishlists EXCEPT ![c] =
                       [NoWishlist EXCEPT !.exists = TRUE, !.user = u, !.guest = g, !.updatedAt = now]]
                /\ IF call[c].kind = "getWish" THEN Finish(c)
                   ELSE call' = [call EXCEPT ![c].cart = c, ![c].pc = "wish"]
        /\ UNCHANGED <<guests, carts, doomed, now>>

\* addWishItem looks for the variant ...
FindWish(c) ==
    /\ call[c].pc = "wish"
    /\ IF wishlists[call[c].cart].items[call[c].variant] # NULL THEN Finish(c) ELSE Goto(c, "insertWish")
    /\ UNCHANGED <<guests, carts, wishlists, doomed, now>>

\* ... and inserts it, which throws when the list is gone or has it by now.
InsertWish(c) ==
    LET k == call[c].cart IN
    /\ call[c].pc = "insertWish"
    /\ wishlists' = IF wishlists[k].exists /\ wishlists[k].items[call[c].variant] = NULL
                    THEN [wishlists EXCEPT ![k].items[call[c].variant] = c] ELSE wishlists
    /\ Finish(c)
    /\ UNCHANGED <<guests, carts, doomed, now>>

WithoutItem(k, id) == [wishlists[k] EXCEPT !.items = [v \in Variants |-> IF @[v] = id THEN NULL ELSE @[v]]]

\* Mutant of the next one: the item goes from whichever list has it.
DeleteByIdAlone(c) ==
    /\ call[c].pc = "unwish"
    /\ wishlists' = [k \in Calls |-> WithoutItem(k, call[c].item)]
    /\ Finish(c)
    /\ UNCHANGED <<guests, carts, doomed, now>>

\* deleteByIdAndWishlistId
DeleteWish(c) ==
    /\ call[c].pc = "unwish"
    /\ wishlists' = [wishlists EXCEPT ![call[c].cart] = WithoutItem(call[c].cart, call[c].item)]
    /\ Finish(c)
    /\ UNCHANGED <<guests, carts, doomed, now>>

\* softDeleteById; it throws when the list is gone.
DeleteWishlist(c) ==
    LET k == call[c].cart IN
    /\ call[c].pc = "clearWish"
    /\ wishlists' = IF wishlists[k].exists
                    THEN [wishlists EXCEPT ![k].deleted = TRUE, ![k].updatedAt = now] ELSE wishlists
    /\ Finish(c)
    /\ UNCHANGED <<guests, carts, doomed, now>>

\* Wishlists go with their guest session (onDelete: Cascade).
CascadeWishlists ==
    wishlists' = [k \in Calls |-> IF wishlists[k].guest \in doomed THEN NoWishlist ELSE wishlists[k]]

WishStep(c) ==
    \/ FindWishlist(c) \/ CreateWishlist(c) \/ FindWish(c) \/ InsertWish(c)
    \/ DeleteWish(c) \/ DeleteWishlist(c)
==============================================================================
