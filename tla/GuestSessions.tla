---------------------------- MODULE GuestSessions ----------------------------
(***************************************************************************)
(* guest_sessions with the carts that hang on them, the requests to        *)
(* CartController, WishlistController and UserAddressController, the guard *)
(* of the first two (ShopperSessionGuard), the conversion of a session by  *)
(* a registration, and the nightly cleanup.                                *)
(*                                                                         *)
(* A browser keeps its guest cookie when its owner signs in or out, so a   *)
(* request has a guest and perhaps a user.  A cart, and an item of it, is  *)
(* identified with the request that inserts it.                            *)
(***************************************************************************)
EXTENDS Integers, FiniteSets

CONSTANTS
    Users,         \* users that are registered
    Guests,        \* guest cookies of browsers
    Variants,      \* book variants
    Calls,         \* HTTP requests
    NULL,          \* no user, guest, cart or item
    Quantities,    \* quantities a client adds
    Deltas,        \* changes of a quantity a client asks for
    InactiveFor,   \* GUEST_INACTIVE_DAYS, in clock units
    MaxClock       \* bound on the clock

VARIABLES
    guests,        \* guest_sessions
    carts,         \* carts with their cart_items
    call,          \* the HTTP requests
    doomed,        \* sessions the running cleanup has read
    now            \* the clock

shopVars == <<guests, carts, call, doomed, now>>

ASSUME ShopConstants ==
    /\ Quantities \subseteq Nat \ {0} /\ Deltas \subseteq Int
    /\ InactiveFor \in Nat /\ MaxClock \in Nat
    /\ NULL \notin Calls \union Users \union Guests \union Variants
    /\ IsFiniteSet(Calls)

Amounts == Quantities \union Deltas \union {0}

GuestRow == [exists: BOOLEAN, lastSeenAt: Nat, converted: BOOLEAN]

NoGuest == [exists |-> FALSE, lastSeenAt |-> 0, converted |-> FALSE]

Item == [id: Calls \union {NULL}, quantity: Nat]

NoItem == [id |-> NULL, quantity |-> 0]

CartRow ==
    [exists: BOOLEAN, user: Users \union {NULL}, guest: Guests \union {NULL},
     updatedAt: Nat, items: [Variants -> Item]]

NoItems == [v \in Variants |-> NoItem]

NoCart ==
    [exists |-> FALSE, user |-> NULL, guest |-> NULL, updatedAt |-> 0, items |-> NoItems]

CartKinds == {"get", "add", "delta", "remove", "clear", "merge"}

WishKinds == {"getWish", "addWish", "unwish", "clearWish"}

AddressKinds == {"newAddress", "editAddress", "setDefault", "dropAddress"}

\* A bound: carts, wishlists and addresses have nothing in common but the guest
\* session, and the requests of one behaviour are all about one of them.
Alike(a, b) == \A kinds \in {CartKinds, WishKinds, AddressKinds} : a \in kinds <=> b \in kinds

\* The first call of the service, behind the guard.
Entry(kind) ==
    CASE kind \in {"get", "add"} -> "cart"
      [] kind = "merge" -> "read"
      [] kind \in WishKinds -> "wishlist"
      [] OTHER -> kind

Steps ==
    {"seen", "attach", "cart", "create", "item", "check", "insert", "delta", "delete",
     "stock", "write", "remove", "clear", "read", "assign", "mergeTx"}
    \union {"wishlist", "newWishlist", "wish", "insertWish", "unwish", "clearWish"}
    \union AddressKinds

\* variant, amount: what the client asked for; item: the item it named or that
\* was found, quantity: what the item shall have; cart, from: the carts that were
\* found, mine, theirs: what was in them; todo: reads of a Promise.all that are
\* not back; overlapped (history): another request of the shopper was under way.
Call ==
    [pc: {"idle", "done"} \union Steps, kind: CartKinds \union WishKinds \union AddressKinds \union {"none"},
     user: Users \union {NULL}, guest: Guests \union {NULL},
     variant: Variants \union {NULL}, amount: Amounts,
     item: Calls \union {NULL}, quantity: Nat,
     cart: Calls \union {NULL}, from: Calls \union {NULL},
     mine: [Variants -> Nat], theirs: [Variants -> Nat],
     todo: SUBSET {"mine", "theirs"}, overlapped: BOOLEAN]

Nothing == [v \in Variants |-> 0]

IdleCall ==
    [pc |-> "idle", kind |-> "none", user |-> NULL, guest |-> NULL,
     variant |-> NULL, amount |-> 0, item |-> NULL, quantity |-> 0,
     cart |-> NULL, from |-> NULL, mine |-> Nothing, theirs |-> Nothing,
     todo |-> {}, overlapped |-> FALSE]

UnderWay(c) == call[c].pc \in Steps

Goto(c, pc) == call' = [call EXCEPT ![c].pc = pc]

\* Answered or thrown: what the request asked for is kept, what it read is not.
Finish(c) ==
    call' = [call EXCEPT ![c] = [IdleCall EXCEPT
        !.pc = "done", !.kind = call[c].kind, !.user = call[c].user, !.guest = call[c].guest,
        !.variant = call[c].variant, !.amount = call[c].amount,
        !.overlapped = call[c].overlapped]]

\* Two requests of one browser, or of one user.
Same(a, b) ==
    \/ a.guest # NULL /\ a.guest = b.guest
    \/ a.user # NULL /\ a.user = b.user

\* A request arrives.
Begin(c, r) ==
    LET peers == {x \in Calls : UnderWay(x) /\ Same(call[x], r)} IN
    /\ \A x \in Calls : call[x].kind # "none" => Alike(call[x].kind, r.kind)
    /\ call' = [x \in Calls |->
           IF x = c THEN [r EXCEPT !.overlapped = (peers # {})]
           ELSE [call[x] EXCEPT !.overlapped = @ \/ x \in peers]]

(* ------------------------- ShopperSessionGuard -------------------------- *)

\* What clients send: a kind with its arguments; the items they name are rows.
Plain(kind) == [IdleCall EXCEPT !.kind = kind]

Adding(v, q) == [IdleCall EXCEPT !.kind = "add", !.variant = v, !.amount = q]

Naming(kind, d, v, k) ==
    [IdleCall EXCEPT !.kind = kind, !.variant = v, !.item = carts[k].items[v].id,
                     !.amount = IF kind = "delta" THEN d ELSE 0]

Wishing(v) == [IdleCall EXCEPT !.kind = "addWish", !.variant = v]

Unwishing(id) == [IdleCall EXCEPT !.kind = "unwish", !.item = id]

Asked ==
    {Plain(kind) : kind \in {"get", "clear", "merge", "getWish", "clearWish"}}
    \union {Adding(v, q) : v \in Variants, q \in Quantities}
    \union {Wishing(v) : v \in Variants}
    \union {Unwishing(c) : c \in {x \in Calls : call[x].kind = "addWish"}}
    \union {Naming(kind, d, v, k) : kind \in {"delta", "remove"}, d \in Deltas,
                v \in Variants, k \in {x \in Calls : carts[x].exists}}

\* The request arrives; updateGuestSessionSeenDate marks the session ...
StartCall(c) ==
    /\ call[c].pc = "idle"
    /\ \E asked \in Asked, g \in Guests, u \in Users \union {NULL} :
          /\ asked.kind \in {"delta", "remove"} => asked.item # NULL
          /\ asked.kind = "merge" => u # NULL
          /\ LET seen == guests[g].exists
                 r == [asked EXCEPT !.guest = g, !.user = u,
                           !.pc = IF seen THEN "seen" ELSE "attach",
                           !.todo = IF asked.kind = "merge" THEN {"mine", "theirs"} ELSE {}]
             IN  /\ Begin(c, r)
                 /\ guests' = IF seen THEN [guests EXCEPT ![g].lastSeenAt = now] ELSE guests
    /\ UNCHANGED <<carts, doomed, now>>

\* ... and reads it.
ReadSeenSession(c) ==
    /\ call[c].pc = "seen"
    /\ Goto(c, IF guests[call[c].guest].exists THEN Entry(call[c].kind) ELSE "attach")
    /\ UNCHANGED <<guests, carts, doomed, now>>

\* Mutant of the next one: the guest session is dated back by a unit.
AttachInThePast(c) ==
    LET g == call[c].guest IN
    /\ call[c].pc = "attach"
    /\ guests' = [guests EXCEPT ![g] =
           [exists |-> TRUE, lastSeenAt |-> now - 1, converted |-> FALSE]]
    /\ Goto(c, Entry(call[c].kind))
    /\ UNCHANGED <<carts, doomed, now>>

NewGuest == [exists |-> TRUE, lastSeenAt |-> now, converted |-> FALSE]

\* createGuestSession with the id of the cookie; a second insert throws.
AttachGuestSession(c) ==
    LET g == call[c].guest IN
    /\ call[c].pc = "attach"
    /\ IF guests[g].exists
       THEN Finish(c) /\ UNCHANGED guests
       ELSE /\ guests' = [guests EXCEPT ![g] = NewGuest]
            /\ Goto(c, Entry(call[c].kind))
    /\ UNCHANGED <<carts, doomed, now>>

(* ----------------------- Conversion and cleanup ------------------------- *)

\* convertGuestSessionToUser, at the end of a registration.
Convert(g) ==
    /\ guests[g].exists /\ ~guests[g].converted
    /\ guests' = [guests EXCEPT ![g].converted = TRUE]
    /\ UNCHANGED <<carts, call, doomed, now>>

\* Mutant of the next one: converted sessions are cleaned up, too.
InactiveOrConverted(g) == guests[g].exists /\ guests[g].lastSeenAt < now - InactiveFor

Inactive(g) ==
    guests[g].exists /\ ~guests[g].converted /\ guests[g].lastSeenAt < now - InactiveFor

\* cleanupInactiveGuestData reads the sessions ...
ReadInactive ==
    /\ doomed = {}
    /\ \E g \in Guests : Inactive(g)
    /\ doomed' = {g \in Guests : Inactive(g)}
    /\ UNCHANGED <<guests, carts, call, now>>

\* ... and deletes them by id with their carts, whatever has become of them.
DeleteInactive ==
    /\ doomed # {}
    /\ guests' = [g \in Guests |-> IF g \in doomed THEN NoGuest ELSE guests[g]]
    /\ carts' = [k \in Calls |-> IF carts[k].guest \in doomed THEN NoCart ELSE carts[k]]
    /\ doomed' = {}
    /\ UNCHANGED <<call, now>>

Tick ==
    /\ now < MaxClock
    /\ now' = now + 1
    /\ UNCHANGED <<guests, carts, call, doomed>>

ShopInit ==
    /\ guests = [g \in Guests |-> NoGuest]
    /\ carts = [c \in Calls |-> NoCart]
    /\ call = [c \in Calls |-> IdleCall]
    /\ doomed = {}
    /\ now = 0

ShopTypeOK ==
    /\ guests \in [Guests -> GuestRow]
    /\ carts \in [Calls -> CartRow]
    /\ call \in [Calls -> Call]
    /\ doomed \in SUBSET Guests
    /\ now \in Nat
==============================================================================
