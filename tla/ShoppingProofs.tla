--------------------------- MODULE ShoppingProofs ---------------------------
(***************************************************************************)
(* Guest sessions, carts, wishlists and addresses: types, what survives    *)
(* the nightly cleanup, whose wishes a request can touch, one cart, list   *)
(* and default address per shopper, and what a merge of carts adds up to.  *)
(***************************************************************************)
EXTENDS Shopping, SumFacts

(* ------------------------- Rows and requests ---------------------------- *)

CallPcs == {"idle", "done"} \union Steps

CallKinds == CartKinds \union WishKinds \union AddressKinds \union {"none"}

\* Empty rows and idle requests are typed.
LEMMA EmptyRows ==
    /\ IdleCall \in Call /\ NoGuest \in GuestRow /\ NoItem \in Item /\ NoCart \in CartRow
    /\ NoWishlist \in WishlistRow /\ NoAddress \in AddressRow
    /\ NoItems \in [Variants -> Item] /\ Nothing \in [Variants -> Nat]
<1>1. NoItem \in Item /\ NoGuest \in GuestRow /\ NoAddress \in AddressRow
  BY DEF NoItem, Item, NoGuest, GuestRow, NoAddress, AddressRow
<1>2. NoItems \in [Variants -> Item] /\ Nothing \in [Variants -> Nat]
  BY <1>1 DEF NoItems, Nothing
<1>3. NoCart \in CartRow
  BY <1>2 DEF NoCart, CartRow
<1>4. NoWishlist \in WishlistRow
  BY DEF NoWishlist, WishlistRow
<1>5. IdleCall \in Call
  BY <1>2 DEF IdleCall, Call, Amounts
<1> QED BY <1>1, <1>2, <1>3, <1>4, <1>5

AnyUser == Users \union {NULL}

AnyGuest == Guests \union {NULL}

AnyVariant == Variants \union {NULL}

AnyCall == Calls \union {NULL}

PerVariant == [Variants -> Nat]

Todos == SUBSET {"mine", "theirs"}

\* The type of requests, with a name for the type of each field.
LEMMA CallShape ==
    Call = [pc: CallPcs, kind: CallKinds, user: AnyUser, guest: AnyGuest, variant: AnyVariant,
            amount: Amounts, item: AnyCall, quantity: Nat, cart: AnyCall, from: AnyCall,
            mine: PerVariant, theirs: PerVariant, todo: Todos, overlapped: BOOLEAN]
BY DEF Call, CallPcs, CallKinds, AnyUser, AnyGuest, AnyVariant, AnyCall, PerVariant, Todos

\* A request is replaced by what it becomes.
LEMMA PutTyped ==
    ASSUME call \in [Calls -> Call], NEW c \in Calls, NEW r \in Call,
           call' = [call EXCEPT ![c] = r]
    PROVE  /\ call' \in [Calls -> Call] /\ call'[c] = r
           /\ \A x \in Calls : x # c => call'[x] = call[x]
OBVIOUS

\* The request as it was sent.
Sent(r, s) ==
    /\ s.kind = r.kind /\ s.user = r.user /\ s.guest = r.guest
    /\ s.variant = r.variant /\ s.amount = r.amount

\* A request that is alone with its step: nobody arrives.
AsAsked(r, s) == Sent(r, s) /\ s.overlapped = r.overlapped

\* Nothing of a request changes but whether it overlaps with another.
Still(r, s) ==
    /\ Sent(r, s) /\ s.pc = r.pc /\ s.cart = r.cart /\ s.from = r.from /\ s.item = r.item
    /\ s.quantity = r.quantity /\ s.mine = r.mine /\ s.theirs = r.theirs /\ s.todo = r.todo

\* A request that is answered or throws.
LEMMA FinishFacts ==
    ASSUME call \in [Calls -> Call], NEW c \in Calls, Finish(c)
    PROVE  /\ call' \in [Calls -> Call] /\ \A x \in Calls : x # c => call'[x] = call[x]
           /\ AsAsked(call[c], call'[c]) /\ call'[c].pc = "done" /\ call'[c].cart = NULL
<1> DEFINE r == call[c]
<1>0. /\ r.kind \in CallKinds /\ r.user \in AnyUser /\ r.guest \in AnyGuest
      /\ r.variant \in AnyVariant /\ r.amount \in Amounts /\ r.overlapped \in BOOLEAN
  BY CallShape
<1>1. PICK kind \in CallKinds, user \in AnyUser, guest \in AnyGuest,
           variant \in AnyVariant, amount \in Amounts, overlapped \in BOOLEAN :
           /\ kind = r.kind /\ user = r.user /\ guest = r.guest /\ variant = r.variant
           /\ amount = r.amount /\ overlapped = r.overlapped
  BY <1>0
<1> DEFINE s == [IdleCall EXCEPT !.pc = "done", !.kind = kind, !.user = user, !.guest = guest,
                    !.variant = variant, !.amount = amount, !.overlapped = overlapped]
<1>2. s \in Call
  BY EmptyRows, CallShape DEF CallPcs
<1>3. /\ s.kind = kind /\ s.user = user /\ s.guest = guest /\ s.variant = variant
      /\ s.amount = amount /\ s.pc = "done" /\ s.cart = NULL /\ s.overlapped = overlapped
  BY DEF IdleCall
<1>4. call' = [call EXCEPT ![c] = s]
  BY <1>1 DEF Finish
<1> HIDE DEF s
<1> QED BY <1>1, <1>2, <1>3, <1>4, PutTyped DEF AsAsked, Sent

\* A request that moves on.
LEMMA GotoFacts ==
    ASSUME call \in [Calls -> Call], NEW c \in Calls, NEW pc \in CallPcs, Goto(c, pc)
    PROVE  /\ call' \in [Calls -> Call] /\ \A x \in Calls : x # c => call'[x] = call[x]
           /\ AsAsked(call[c], call'[c]) /\ call'[c].pc = pc /\ call'[c].cart = call[c].cart
           /\ call'[c] = [call[c] EXCEPT !.pc = pc]
BY CallShape DEF Goto, AsAsked, Sent

\* A request that arrives.
LEMMA BeginFacts ==
    ASSUME call \in [Calls -> Call], NEW c \in Calls, NEW r \in Call, Begin(c, r)
    PROVE  /\ call' \in [Calls -> Call] /\ \A x \in Calls : x # c => Still(call[x], call'[x])
           /\ Still(r, call'[c])
           /\ call'[c].overlapped = (\E x \in Calls : UnderWay(x) /\ Same(call[x], r))
           /\ \A x \in Calls : x # c =>
                 call'[x].overlapped = (call[x].overlapped \/ (UnderWay(x) /\ Same(call[x], r)))
<1> DEFINE peers == {x \in Calls : UnderWay(x) /\ Same(call[x], r)}
           own == [r EXCEPT !.overlapped = (peers # {})]
           other(x) == [call[x] EXCEPT !.overlapped = @ \/ x \in peers]
<1>1. call' = [x \in Calls |-> IF x = c THEN own ELSE other(x)]
  BY Zenon DEF Begin
<1>2. own \in Call /\ Still(r, own) /\ own.overlapped = (peers # {})
  <2> DEFINE b == (peers # {})
  <2>1. b \in BOOLEAN
    OBVIOUS
  <2> HIDE DEF b, peers
  <2>2. LET s == [r EXCEPT !.overlapped = b] IN
           s \in Call /\ Still(r, s) /\ s.overlapped = b
    BY <2>1, CallShape DEF Still, AsAsked, Sent
  <2> QED BY <2>2 DEF b
<1>3. ASSUME NEW x \in Calls
      PROVE  /\ other(x) \in Call /\ Still(call[x], other(x))
             /\ other(x).overlapped = (call[x].overlapped \/ x \in peers)
  <2> HIDE DEF peers
  <2> DEFINE b == call[x].overlapped \/ x \in peers
  <2>1. b \in BOOLEAN /\ call[x] \in Call
    OBVIOUS
  <2> HIDE DEF b
  <2>2. LET s == [call[x] EXCEPT !.overlapped = b] IN
           s \in Call /\ Still(call[x], s) /\ s.overlapped = b
    BY <2>1, CallShape DEF Still, AsAsked, Sent
  <2> QED BY <2>2 DEF b
<1> HIDE DEF own, other
<1>4. call'[c] = own /\ \A x \in Calls : x # c => call'[x] = other(x)
  BY <1>1
<1>5. /\ \A x \in Calls : x \in peers <=> UnderWay(x) /\ Same(call[x], r)
      /\ peers # {} <=> \E x \in Calls : UnderWay(x) /\ Same(call[x], r)
  OBVIOUS
<1> HIDE DEF peers
<1> QED BY <1>1, <1>2, <1>3, <1>4, <1>5

(* ----------------------- How a request can change ----------------------- *)

\* What a client has sent makes sense for the endpoint.
AskedOK(r) ==
    /\ r.kind \in CartKinds \union WishKinds => r.guest \in Guests
    /\ r.kind \in {"add", "delta", "remove", "addWish"} => r.variant \in Variants
    /\ r.kind = "add" => r.amount \in Quantities
    /\ r.kind = "merge" => r.user \in Users

\* What a step of a request says of its endpoint and of the row it works on.
PlaceOK(r) ==
    /\ r.pc \in {"seen", "attach"} => r.kind \in CartKinds \union WishKinds
    /\ r.pc \in {"cart", "create"} => r.kind \in {"get", "add"}
    /\ r.pc \in {"item", "check", "insert"} => r.kind = "add" /\ r.cart \in Calls
    /\ r.pc \in {"delta", "delete"} => r.kind = "delta"
    /\ r.pc \in {"stock", "write"} => r.kind \in {"add", "delta"}
    /\ r.pc \in {"remove", "clear"} => r.kind = r.pc
    /\ r.pc \in {"read", "assign", "mergeTx"} => r.kind = "merge"
    /\ r.pc = "wishlist" => r.kind \in WishKinds
    /\ r.pc = "newWishlist" => r.kind \in {"getWish", "addWish"}
    /\ r.pc \in {"wish", "insertWish"} => r.kind = "addWish"
    /\ r.pc \in {"unwish", "clearWish"} \union AddressKinds => r.kind = r.pc

RequestInv == \A c \in Calls : AskedOK(call[c]) /\ PlaceOK(call[c])

Arrives(s) ==
    /\ s.cart = NULL /\ AskedOK(s)
    /\ s.kind = "merge" => s.todo = {"mine", "theirs"}
    /\ \/ s.pc \in {"seen", "attach"} /\ s.kind \in CartKinds \union WishKinds
       \/ s.kind \in AddressKinds /\ s.pc \in {s.kind, "done"}

Onward(r, pc) ==
    \/ r.pc = "seen" /\ pc \in {"attach", Entry(r.kind)}
    \/ r.pc = "attach" /\ pc = Entry(r.kind)
    \/ r.pc = "cart" /\ pc = "create"
    \/ r.pc = "item" /\ pc \in {"stock", "check"}
    \/ r.pc = "check" /\ pc = "insert"
    \/ r.pc = "delete" /\ pc = "stock"
    \/ r.pc = "stock" /\ pc = "write"
    \/ r.pc = "read" /\ pc \in {"read", "assign", "mergeTx"}
    \/ r.pc = "wishlist" /\ r.kind \in {"getWish", "addWish"} /\ pc = "newWishlist"
    \/ r.pc = "wish" /\ pc = "insertWish"

\* The request has found or created the cart or wishlist it will work on.
Takes(c, r, s) ==
    \/ r.pc = "read" /\ s.pc = "read"
    \/ /\ s.cart \in Calls
       /\ \/ r.pc = "cart" /\ r.kind = "add" /\ s.pc \in {"item", "stock", "check"}
          \/ r.pc = "create" /\ r.kind # "get" /\ s.pc \in {"item", "check"}
          \/ r.pc = "delta" /\ s.pc \in {"stock", "delete"}
          \/ /\ r.pc = "wishlist" /\ s.cart \in OwnWishlists(c) /\ r.kind # "getWish"
             /\ s.pc = IF r.kind = "addWish" THEN "wish" ELSE r.kind
          \/ r.pc = "newWishlist" /\ r.kind # "getWish" /\ s.pc = "wish" /\ s.cart = c

\* How a request can change in a step of the system.
RequestMove(c) ==
    LET r == call[c]
        s == call'[c]
    IN  \/ Still(r, s)
        \/ r.pc = "idle" /\ Arrives(s)
        \/ AsAsked(r, s) /\ r.pc \in Steps /\ s.pc = "done" /\ s.cart = NULL
        \/ AsAsked(r, s) /\ s.cart = r.cart /\ Onward(r, s.pc)
        \/ AsAsked(r, s) /\ Takes(c, r, s)

\* Who is under way learns of who arrives, and the other way round.
OverlapMove ==
    \/ \A x \in Calls : /\ call'[x].overlapped = call[x].overlapped
                        /\ call[x].pc = "idle" => call'[x].pc = "idle"
    \/ \E c \in Calls :
          /\ call[c].pc = "idle" /\ Arrives(call'[c])
          /\ call'[c].overlapped = (\E x \in Calls : UnderWay(x) /\ Same(call[x], call'[c]))
          /\ \A x \in Calls : x # c =>
                /\ Still(call[x], call'[x])
                /\ call'[x].overlapped =
                      (call[x].overlapped \/ (UnderWay(x) /\ Same(call[x], call'[c])))

Moved == call' \in [Calls -> Call] /\ (\A x \in Calls : RequestMove(x)) /\ OverlapMove

\* One request moves, and the others do not.
LEMMA OneMoves ==
    ASSUME call' \in [Calls -> Call], NEW c \in Calls,
           \A x \in Calls : x # c => call'[x] = call[x], RequestMove(c),
           call[c].pc \in Steps, AsAsked(call[c], call'[c])
    PROVE  Moved
BY ZenonT(30) DEF Moved, RequestMove, OverlapMove, Still, AsAsked, Sent, Steps, AddressKinds

\* A request ends.
LEMMA FinishMoves ==
    ASSUME call \in [Calls -> Call], NEW c \in Calls, call[c].pc \in Steps, Finish(c)
    PROVE  Moved
BY FinishFacts, OneMoves DEF RequestMove

\* A request goes on.
LEMMA GotoMoves ==
    ASSUME call \in [Calls -> Call], NEW c \in Calls, NEW pc \in CallPcs, Goto(c, pc),
           Onward(call[c], pc)
    PROVE  Moved
<1>1. call[c].pc \in Steps
  BY DEF Onward, Steps
<1> QED BY <1>1, GotoFacts, OneMoves DEF RequestMove

\* A request that begins moves nobody else.
LEMMA BeginMoves ==
    ASSUME call \in [Calls -> Call], NEW c \in Calls, call[c].pc = "idle", NEW r \in Call,
           Begin(c, r), Arrives(r)
    PROVE  Moved
<1>1. /\ call' \in [Calls -> Call] /\ \A x \in Calls : x # c => Still(call[x], call'[x])
      /\ Still(r, call'[c])
  BY BeginFacts
<1>2. Arrives(call'[c])
  BY <1>1 DEF Still, AsAsked, Sent, Arrives, AskedOK
<1>3. OverlapMove
  <2>1. ASSUME NEW x \in Calls
        PROVE  Same(call[x], r) <=> Same(call[x], call'[c])
    BY <1>1 DEF Still, Sent, Same
  <2>2. call'[c].overlapped = (\E x \in Calls : UnderWay(x) /\ Same(call[x], call'[c]))
    BY <2>1, BeginFacts
  <2>3. ASSUME NEW x \in Calls, x # c
        PROVE  call'[x].overlapped =
                  (call[x].overlapped \/ (UnderWay(x) /\ Same(call[x], call'[c])))
    <3>1. call'[x].overlapped = (call[x].overlapped \/ (UnderWay(x) /\ Same(call[x], r)))
      BY <2>3, BeginFacts
    <3> QED BY <2>1, <3>1, Zenon
  <2> QED BY <1>1, <1>2, <2>2, <2>3 DEF OverlapMove
<1> QED BY <1>1, <1>2, <1>3 DEF Moved, RequestMove

\* The first step of the service is a step.
LEMMA EntrySteps ==
    ASSUME NEW kind \in CartKinds \union WishKinds
    PROVE  Entry(kind) \in CallPcs
BY DEF Entry, CallPcs, Steps, CartKinds, WishKinds

\* What clients send is a request for an endpoint with its arguments.
LEMMA AskedFacts ==
    ASSUME TypeOK, NEW asked \in Asked
    PROVE  /\ asked \in Call /\ asked.cart = NULL /\ asked.kind \in CartKinds \union WishKinds
           /\ asked.kind \in {"add", "delta", "remove", "addWish"} => asked.variant \in Variants
           /\ asked.kind = "add" => asked.amount \in Quantities
<1> DEFINE Goal(r) ==
       /\ r \in Call /\ r.cart = NULL /\ r.kind \in CartKinds \union WishKinds
       /\ r.kind \in {"add", "delta", "remove", "addWish"} => r.variant \in Variants
       /\ r.kind = "add" => r.amount \in Quantities
<1>i. IdleCall \in Call /\ IdleCall.cart = NULL
  BY EmptyRows DEF IdleCall
<1>k. CartKinds \union WishKinds \subseteq CallKinds
  BY DEF CallKinds
<1>a. Quantities \subseteq Amounts /\ Deltas \subseteq Amounts /\ 0 \in Amounts
  BY DEF Amounts
<1>c. Calls \subseteq AnyCall /\ Variants \subseteq AnyVariant
  BY DEF AnyCall, AnyVariant
<1>n. {"get", "clear", "merge", "getWish", "clearWish", "add", "addWish", "unwish", "delta", "remove"}
         \subseteq CartKinds \union WishKinds
  BY DEF CartKinds, WishKinds
<1>t. \A k \in Calls, v \in Variants : carts[k].items[v].id \in AnyCall
  BY DEF TypeOK, ShopTypeOK, CartRow, Item, AnyCall
<1>1. ASSUME NEW kind \in {"get", "clear", "merge", "getWish", "clearWish"}
      PROVE  Goal(Plain(kind))
  BY <1>1, <1>i, <1>k, <1>n, CallShape DEF Plain
<1>2. ASSUME NEW v \in Variants, NEW q \in Quantities
      PROVE  Goal(Adding(v, q))
  BY <1>i, <1>k, <1>n, <1>a, <1>c, CallShape DEF Adding
<1>3. ASSUME NEW v \in Variants
      PROVE  Goal(Wishing(v))
  BY <1>i, <1>k, <1>n, <1>c, CallShape DEF Wishing
<1>4. ASSUME NEW c \in Calls
      PROVE  Goal(Unwishing(c))
  BY <1>i, <1>k, <1>n, <1>c, CallShape DEF Unwishing
<1>5. ASSUME NEW kind \in {"delta", "remove"}, NEW d \in Deltas,
             NEW v \in Variants, NEW k \in Calls
      PROVE  Goal(Naming(kind, d, v, k))
  <2>1. PICK i \in AnyCall, e \in Amounts :
           i = carts[k].items[v].id /\ e = IF kind = "delta" THEN d ELSE 0
    BY <1>t, <1>a
  <2> DEFINE r == [IdleCall EXCEPT !.kind = kind, !.variant = v, !.item = i, !.amount = e]
  <2>2. Goal(r)
    BY <1>i, <1>k, <1>n, <1>c, CallShape
  <2>3. Naming(kind, d, v, k) = r
    BY <2>1 DEF Naming
  <2> HIDE DEF r, Goal
  <2> QED BY <2>2, <2>3
<1> HIDE DEF Goal
<1>6. Goal(asked)
  BY <1>1, <1>2, <1>3, <1>4, <1>5 DEF Asked
<1> QED BY <1>6 DEF Goal

\* Arriving requests.
LEMMA ArrivalMoves ==
    ASSUME TypeOK, NEW c \in Calls,
           \/ StartCall(c)
           \/ \E u \in Users : CountAddresses(c, u)
           \/ \E u \in Users, kind \in AddressKinds, a \in Calls : FindAddress(c, kind, u, a)
    PROVE  Moved
<1>t. call \in [Calls -> Call]
  BY DEF TypeOK, ShopTypeOK
<1>i. IdleCall \in Call /\ IdleCall.cart = NULL /\ IdleCall.todo = {}
  BY EmptyRows DEF IdleCall
<1>k. AddressKinds \subseteq CallKinds /\ AddressKinds \subseteq CallPcs
  BY DEF CallKinds, CallPcs, Steps
<1>1. CASE StartCall(c)
  <2>1. PICK asked \in Asked, g \in Guests, u \in AnyUser :
          /\ asked.kind = "merge" => u # NULL
          /\ Begin(c, [asked EXCEPT !.guest = g, !.user = u,
                           !.pc = IF guests[g].exists THEN "seen" ELSE "attach",
                           !.todo = IF asked.kind = "merge" THEN {"mine", "theirs"} ELSE {}])
    BY ZenonT(30), <1>1 DEF StartCall, AnyUser
  <2>2. PICK pc \in {"seen", "attach"}, todo \in Todos :
          /\ pc = IF guests[g].exists THEN "seen" ELSE "attach"
          /\ todo = IF asked.kind = "merge" THEN {"mine", "theirs"} ELSE {}
    BY DEF Todos
  <2> DEFINE r == [asked EXCEPT !.guest = g, !.user = u, !.pc = pc, !.todo = todo]
  <2>3. Begin(c, r)
    BY <2>1, <2>2
  <2>4. r \in Call /\ Arrives(r)
    <3>1. /\ asked \in Call /\ asked.cart = NULL /\ asked.kind \in CartKinds \union WishKinds
          /\ asked.kind \in {"add", "delta", "remove", "addWish"} => asked.variant \in Variants
          /\ asked.kind = "add" => asked.amount \in Quantities
      BY AskedFacts
    <3>2. pc \in CallPcs /\ g \in AnyGuest
      BY DEF CallPcs, Steps, AnyGuest
    <3>3. r \in Call
      BY <3>1, <3>2, CallShape
    <3>4. /\ r.cart = asked.cart /\ r.kind = asked.kind /\ r.variant = asked.variant
          /\ r.amount = asked.amount /\ r.guest = g /\ r.pc = pc /\ r.user = u /\ r.todo = todo
      BY <3>1, CallShape
    <3> HIDE DEF r
    <3>5. r.kind = "merge" => r.user \in Users /\ r.todo = {"mine", "theirs"}
      BY <2>1, <2>2, <3>4 DEF AnyUser
    <3> QED BY <3>1, <3>3, <3>4, <3>5 DEF Arrives, AskedOK
  <2> HIDE DEF r
  <2> QED BY ZenonT(30), <1>t, <1>1, <2>3, <2>4, BeginMoves DEF StartCall
<1>2. ASSUME NEW u \in Users, CountAddresses(c, u)
      PROVE  Moved
  <2>1. PICK n \in Nat : n = Cardinality(Active(u))
    <3>1. IsFiniteSet(Calls)
      BY ShopConstants
    <3>2. IsFiniteSet(Active(u))
      BY <3>1, FS_Subset DEF Active
    <3> QED BY <3>2, FS_CardinalityType
  <2> DEFINE r == [IdleCall EXCEPT !.kind = "newAddress", !.pc = "newAddress", !.user = u,
                                   !.quantity = n]
  <2>2. Begin(c, r)
    BY ZenonT(30), <1>2, <2>1 DEF CountAddresses
  <2>3. r \in Call
    <3>1. "newAddress" \in CallKinds /\ "newAddress" \in CallPcs /\ u \in AnyUser
      BY DEF CallKinds, CallPcs, Steps, AddressKinds, AnyUser
    <3> QED BY <1>i, <3>1, CallShape
  <2>4. Arrives(r)
    <3>1. r.kind = "newAddress" /\ r.pc = "newAddress" /\ r.cart = NULL
      BY <1>i, CallShape
    <3> HIDE DEF r
    <3> QED BY <3>1 DEF Arrives, AskedOK, CartKinds, WishKinds, AddressKinds
  <2> HIDE DEF r
  <2> QED BY ZenonT(30), <1>t, <1>2, <2>2, <2>3, <2>4, BeginMoves DEF CountAddresses
<1>3. ASSUME NEW u \in Users, NEW kind \in AddressKinds, NEW a \in Calls,
             FindAddress(c, kind, u, a)
      PROVE  Moved
  <2>1. PICK next \in AnyCall :
          Begin(c, [IdleCall EXCEPT !.kind = kind, !.user = u, !.item = a, !.from = next,
                                    !.pc = IF a \in Active(u) THEN kind ELSE "done"])
    BY ZenonT(30), <1>3 DEF FindAddress, AnyCall, Newest, Active
  <2>2. PICK pc \in CallPcs : pc = (IF a \in Active(u) THEN kind ELSE "done") /\ pc \in {kind, "done"}
    BY <1>k DEF CallPcs
  <2> DEFINE r == [IdleCall EXCEPT !.kind = kind, !.user = u, !.item = a, !.from = next, !.pc = pc]
  <2>3. Begin(c, r)
    BY <2>1, <2>2
  <2>4. r \in Call
    <3>1. kind \in CallKinds /\ u \in AnyUser /\ a \in AnyCall
      BY <1>k DEF AnyUser, AnyCall
    <3> QED BY <1>i, <3>1, CallShape
  <2>5. Arrives(r)
    <3>1. r.kind = kind /\ r.pc = pc /\ r.cart = NULL
      BY <1>i, CallShape
    <3> HIDE DEF r
    <3>2. kind \notin CartKinds \union WishKinds \union {"add", "delta", "remove", "addWish", "merge"}
      BY DEF AddressKinds, CartKinds, WishKinds
    <3> QED BY <2>2, <3>1, <3>2 DEF Arrives, AskedOK
  <2> HIDE DEF r
  <2> QED BY ZenonT(30), <1>t, <1>3, <2>3, <2>4, <2>5, BeginMoves DEF FindAddress
<1> QED BY <1>1, <1>2, <1>3

\* The session guard.
LEMMA GuardMoves ==
    ASSUME TypeOK, RequestInv, NEW c \in Calls, ReadSeenSession(c) \/ AttachGuestSession(c)
    PROVE  Moved
<1>t. call \in [Calls -> Call] /\ PlaceOK(call[c])
  BY DEF TypeOK, ShopTypeOK, RequestInv
<1>1. call[c].kind \in CartKinds \union WishKinds /\ call[c].pc \in {"seen", "attach"}
  BY <1>t DEF PlaceOK, ReadSeenSession, AttachGuestSession, NewGuest
<1>2. Entry(call[c].kind) \in CallPcs /\ "attach" \in CallPcs /\ call[c].pc \in Steps
  BY <1>1, EntrySteps DEF CallPcs, Steps
<1>3. CASE ReadSeenSession(c)
  <2>1. PICK pc \in CallPcs : pc \in {"attach", Entry(call[c].kind)} /\ Goto(c, pc)
    BY <1>2, <1>3 DEF ReadSeenSession
  <2> QED BY <1>3, <1>t, <2>1, GotoMoves DEF ReadSeenSession, Onward
<1>4. CASE AttachGuestSession(c)
  <2>1. PICK pc \in CallPcs : pc = Entry(call[c].kind)
    BY <1>2
  <2>2. CASE Finish(c)
    BY <1>t, <1>2, <2>2, FinishMoves
  <2>3. CASE Goto(c, pc)
    BY <1>4, <1>t, <2>1, <2>3, GotoMoves DEF AttachGuestSession, NewGuest, Onward
  <2> QED BY <1>4, <2>1, <2>2, <2>3 DEF AttachGuestSession, NewGuest
<1> QED BY <1>3, <1>4

\* Wishlists.
LEMMA WishMoves ==
    ASSUME TypeOK, RequestInv, NEW c \in Calls, WishStep(c)
    PROVE  Moved
<1>t. call \in [Calls -> Call] /\ PlaceOK(call[c])
  BY DEF TypeOK, ShopTypeOK, RequestInv
<1>p. {"wishlist", "newWishlist", "wish", "insertWish", "unwish", "clearWish"} \subseteq Steps
      /\ Steps \subseteq CallPcs
  BY DEF CallPcs, Steps
<1>s. call[c].pc \in Steps
  BY <1>p DEF WishStep, FindWishlist, CreateWishlist, FindWish, InsertWish, DeleteWish,
      DeleteWishlist
<1>f. ASSUME Finish(c) PROVE Moved
  BY <1>f, <1>t, <1>s, FinishMoves
<1>k. ASSUME NEW k \in Calls, NEW pc \in Steps,
             call' = [call EXCEPT ![c].cart = k, ![c].pc = pc]
      PROVE  /\ call' \in [Calls -> Call] /\ \A x \in Calls : x # c => call'[x] = call[x]
             /\ AsAsked(call[c], call'[c]) /\ call'[c].pc = pc /\ call'[c].cart = k
  <2>1. call[c] \in Call /\ pc \in CallPcs /\ k \in AnyCall
    BY <1>t, <1>p DEF AnyCall
  <2> DEFINE r == [call[c] EXCEPT !.cart = k, !.pc = pc]
  <2>2. r \in Call
    BY <2>1, CallShape
  <2>3. AsAsked(call[c], r) /\ r.pc = pc /\ r.cart = k
    BY <2>1, CallShape DEF AsAsked, Sent
  <2>4. call' = [call EXCEPT ![c] = r]
    BY <1>k
  <2> HIDE DEF r
  <2> QED BY <1>t, <2>2, <2>3, <2>4, PutTyped
<1>1. CASE FindWishlist(c)
  <2>k. call[c].pc = "wishlist" /\ call[c].kind \in WishKinds
    BY <1>1, <1>t DEF FindWishlist, PlaceOK
  <2>1. CASE Goto(c, "newWishlist") /\ call[c].kind \in {"getWish", "addWish"}
    BY <1>t, <1>p, <2>k, <2>1, GotoMoves DEF Onward
  <2>2. CASE ~Finish(c) /\ ~(Goto(c, "newWishlist") /\ call[c].kind \in {"getWish", "addWish"})
    <3>1. PICK k \in FoundWishlists(c) :
             /\ call[c].kind # "getWish"
             /\ call' = [call EXCEPT ![c].cart = k,
                               ![c].pc = IF call[c].kind = "addWish" THEN "wish" ELSE call[c].kind]
      BY <1>1, <2>2 DEF FindWishlist
    <3>2. k \in OwnWishlists(c) /\ k \in Calls
      BY DEF FoundWishlists, OwnWishlists
    <3>3. PICK pc \in Steps : pc = IF call[c].kind = "addWish" THEN "wish" ELSE call[c].kind
      BY <1>p, <2>k, <3>1 DEF WishKinds
    <3>4. /\ call' \in [Calls -> Call] /\ \A x \in Calls : x # c => call'[x] = call[x]
          /\ AsAsked(call[c], call'[c]) /\ call'[c].pc = pc /\ call'[c].cart = k
      BY <1>k, <3>1, <3>2, <3>3
    <3>5. Takes(c, call[c], call'[c])
      BY <2>k, <3>1, <3>2, <3>3, <3>4 DEF Takes
    <3> QED BY <1>s, <3>4, <3>5, OneMoves DEF RequestMove
  <2> QED BY <1>f, <2>1, <2>2
<1>2. CASE CreateWishlist(c)
  <2>1. CASE ~Finish(c)
    <3>1. /\ call' = [call EXCEPT ![c].cart = c, ![c].pc = "wish"]
          /\ call[c].kind # "getWish" /\ call[c].pc = "newWishlist"
      BY <1>2, <2>1 DEF CreateWishlist
    <3>2. /\ call' \in [Calls -> Call] /\ \A x \in Calls : x # c => call'[x] = call[x]
          /\ AsAsked(call[c], call'[c]) /\ call'[c].pc = "wish" /\ call'[c].cart = c
      BY <1>k, <1>p, <3>1
    <3> QED BY <1>s, <3>1, <3>2, OneMoves DEF RequestMove, Takes
  <2> QED BY <1>f, <2>1
<1>3. CASE FindWish(c)
  <2>1. CASE Goto(c, "insertWish")
    BY <1>3, <1>t, <1>p, <2>1, GotoMoves DEF FindWish, Onward
  <2> QED BY <1>3, <1>f, <2>1 DEF FindWish
<1>4. CASE InsertWish(c) \/ DeleteWish(c) \/ DeleteWishlist(c)
  BY <1>4, <1>f DEF InsertWish, DeleteWish, DeleteWishlist
<1> QED BY <1>1, <1>2, <1>3, <1>4 DEF WishStep

\* Quantities and changes are numbers.
LEMMA Numbers ==
    /\ \A q \in Quantities : q \in Nat
    /\ \A a \in Amounts : a \in Int
<1>1. Quantities \subseteq Nat \ {0} /\ Deltas \subseteq Int
  BY ShopConstants
<1>2. \A q \in Quantities : q \in Nat
  BY <1>1
<1>3. ASSUME NEW a \in Amounts PROVE a \in Int
  <2>1. a \in Quantities \/ a \in Deltas \/ a = 0
    BY DEF Amounts
  <2>2. a \in Quantities => a \in Int
    BY <1>2
  <2>3. a \in Deltas => a \in Int
    BY <1>1
  <2> QED BY <2>1, <2>2, <2>3
<1> QED BY <1>2, <1>3

\* What addCartItem makes of the item it has read.
LEMMA WithItemFacts ==
    ASSUME NEW r \in Call, NEW item \in Item, r.amount \in Quantities
    PROVE  /\ WithItem(r, item) \in Call /\ AsAsked(r, WithItem(r, item))
           /\ WithItem(r, item).cart = r.cart /\ WithItem(r, item).pc \in {"stock", "check"}
<1>p. "check" \in CallPcs /\ "stock" \in CallPcs
  BY DEF CallPcs, Steps
<1>1. CASE item = NoItem
  <2> DEFINE s == [r EXCEPT !.pc = "check"]
  <2>1. s \in Call /\ AsAsked(r, s) /\ s.cart = r.cart /\ s.pc = "check"
    BY <1>p, CallShape DEF AsAsked, Sent
  <2>2. WithItem(r, item) = s
    BY <1>1 DEF WithItem
  <2> HIDE DEF s
  <2> QED BY <2>1, <2>2
<1>2. CASE item # NoItem
  <2>1. item.id \in AnyCall /\ item.quantity + r.amount \in Nat
    BY Numbers DEF Item, AnyCall
  <2>2. PICK id \in AnyCall, n \in Nat : id = item.id /\ n = item.quantity + r.amount
    BY <2>1
  <2> DEFINE s == [r EXCEPT !.pc = "stock", !.item = id, !.quantity = n]
  <2>3. s \in Call /\ AsAsked(r, s) /\ s.cart = r.cart /\ s.pc = "stock"
    BY ZenonT(30), <1>p, CallShape DEF AsAsked, Sent
  <2>4. WithItem(r, item) = s
    BY <1>2, <2>2 DEF WithItem
  <2> HIDE DEF s
  <2> QED BY <2>3, <2>4
<1> QED BY <1>1, <1>2

\* Carts and addresses: requests that end or only move on.
LEMMA PlainMoves ==
    ASSUME TypeOK, RequestInv, NEW c \in Calls,
           \/ CheckStock(c) \/ InsertItem(c) \/ DeleteForDelta(c) \/ WriteQuantity(c) \/ RemoveCartItem(c)
           \/ ClearCart(c) \/ EndRead(c) \/ AssignCart(c) \/ MergeCartUser(c)
           \/ CreateAddress(c) \/ UpdateAddress(c) \/ SetDefault(c) \/ SoftDelete(c)
    PROVE  Moved
<1>t. call \in [Calls -> Call]
  BY DEF TypeOK, ShopTypeOK
<1>p. {"check", "insert", "delete", "write", "remove", "clear", "read", "assign", "mergeTx", "stock"}
         \union AddressKinds \subseteq Steps /\ Steps \subseteq CallPcs
  BY SMTT(30) DEF CallPcs, Steps
<1>s. call[c].pc \in Steps
  BY ZenonT(30), <1>p DEF CheckStock, InsertItem, DeleteForDelta, WriteQuantity, RemoveCartItem, ClearCart, EndRead,
      AssignCart, MergeCartUser, CreateAddress, UpdateAddress, SetDefault, SoftDelete, AddressKinds
<1>1. CASE Finish(c)
  BY <1>1, <1>t, <1>s, FinishMoves
<1>2. CASE DeleteForDelta(c)
  BY <1>2, <1>t, <1>p, GotoMoves DEF DeleteForDelta, Onward
<1>3. CASE EndRead(c) /\ ~Finish(c)
  <2>1. PICK pc \in {"assign", "mergeTx"} : Goto(c, pc)
    BY <1>3 DEF EndRead
  <2> QED BY <1>3, <1>t, <1>p, <2>1, GotoMoves DEF EndRead, Onward
<1>4. CASE CheckStock(c) /\ ~Finish(c)
  <2>1. Goto(c, "insert") /\ call[c].pc = "check"
    BY <1>4 DEF CheckStock
  <2> QED BY <1>t, <1>p, <2>1, GotoMoves DEF Onward
<1> QED BY ZenonT(30), <1>1, <1>2, <1>3, <1>4
        DEF InsertItem, WriteQuantity, RemoveCartItem, ClearCart,
            AssignCart, MergeCartUser, CreateAddress, UpdateAddress, SetDefault, SoftDelete

\* Carts: requests that look for a cart or an item.
LEMMA LookingMoves ==
    ASSUME TypeOK, RequestInv, NEW c \in Calls,
           \/ FindCart(c) \/ CreateCart(c) \/ FindItem(c) \/ FindForDelta(c)
           \/ ReadStock(c) \/ ReadGuestCart(c) \/ ReadUserCart(c)
    PROVE  Moved
<1>t. /\ call \in [Calls -> Call] /\ call[c] \in Call /\ PlaceOK(call[c]) /\ AskedOK(call[c])
      /\ carts \in [Calls -> CartRow]
  BY DEF TypeOK, ShopTypeOK, RequestInv
<1>c. /\ \A k \in Calls, v \in Variants : carts[k].items[v] \in Item
      /\ \A k \in Calls, v \in Variants : carts[k].items[v].quantity \in Nat
  BY <1>t DEF CartRow, Item
<1>p. {"cart", "create", "item", "check", "insert", "delta", "stock", "write", "read", "delete"} \subseteq Steps
      /\ Steps \subseteq CallPcs
  BY SMTT(30) DEF CallPcs, Steps
<1>s. call[c].pc \in Steps
  BY ZenonT(30), <1>p DEF FindCart, CreateCart, FindItem, FindForDelta, ReadStock, ReadGuestCart, ReadUserCart
<1>f. ASSUME Finish(c) PROVE Moved
  BY <1>f, <1>t, <1>s, FinishMoves
<1>r. ASSUME NEW r \in Call, call' = [call EXCEPT ![c] = r], AsAsked(call[c], r),
             Takes(c, call[c], r) \/ (r.cart = call[c].cart /\ Onward(call[c], r.pc))
      PROVE  Moved
  <2>1. /\ call' \in [Calls -> Call] /\ call'[c] = r
        /\ \A x \in Calls : x # c => call'[x] = call[x]
    BY <1>r, <1>t, PutTyped
  <2> QED BY <1>r, <1>s, <2>1, OneMoves DEF RequestMove
<1>1. CASE FindCart(c)
  <2>1. CASE Goto(c, "create")
    BY ZenonT(30), <1>1, <1>t, <1>p, <2>1, GotoMoves DEF FindCart, Onward
  <2>2. CASE ~Goto(c, "create") /\ ~Finish(c)
    <3>1. PICK k \in Latest(OwnCarts(c)) :
             LET r == [call[c] EXCEPT !.cart = k] IN
             /\ call[c].kind = "add"
             /\ call' = [call EXCEPT ![c] =
                    IF r.user # NULL THEN [r EXCEPT !.pc = "item"]
                    ELSE WithItem(r, carts[k].items[r.variant])]
      BY ZenonT(30), <1>1, <2>2 DEF FindCart
    <3> DEFINE r == [call[c] EXCEPT !.cart = k]
               s == [r EXCEPT !.pc = "item"]
    <3>2. k \in Calls /\ k \in AnyCall
      BY DEF Latest, OwnCarts, CartsOfUser, CartsOfGuest, AnyCall
    <3>3. r \in Call /\ AsAsked(call[c], r) /\ r.cart = k
      BY <1>t, <3>2, CallShape DEF AsAsked, Sent
    <3>4. call[c].variant \in Variants /\ call[c].amount \in Quantities /\ call[c].pc = "cart"
      BY ZenonT(30), <1>1, <1>t, <3>1 DEF AskedOK, FindCart
    <3>5. PICK item \in Item : item = carts[k].items[r.variant]
      BY <1>c, <3>2, <3>3, <3>4 DEF AsAsked, Sent
    <3>6. call' = [call EXCEPT ![c] = IF r.user # NULL THEN s ELSE WithItem(r, item)]
      BY <3>1, <3>5
    <3>7. call[c].kind = "add"
      BY <3>1
    <3> HIDE DEF r
    <3>8. s \in Call /\ AsAsked(r, s) /\ s.cart = r.cart /\ s.pc = "item"
      BY <1>p, <3>3, CallShape DEF AsAsked, Sent
    <3>9. CASE r.user # NULL
      BY <1>r, <3>2, <3>3, <3>4, <3>6, <3>7, <3>8, <3>9 DEF AsAsked, Sent, Takes
    <3> HIDE DEF s
    <3>10. CASE r.user = NULL
      <4>1. r.amount \in Quantities
        BY <3>3, <3>4 DEF AsAsked, Sent
      <4> DEFINE t == WithItem(r, item)
      <4>2. t \in Call /\ AsAsked(r, t) /\ t.cart = r.cart /\ t.pc \in {"stock", "check"}
        BY <3>3, <4>1, WithItemFacts
      <4> HIDE DEF t
      <4>3. AsAsked(call[c], t) /\ Takes(c, call[c], t)
        BY <3>2, <3>3, <3>4, <3>7, <4>2 DEF AsAsked, Sent, Takes
      <4> QED BY <1>r, <3>6, <3>10, <4>2, <4>3 DEF t
    <3> QED BY SMTT(30), <3>9, <3>10
  <2> QED BY SMTT(30), <1>f, <2>1, <2>2
<1>2. CASE CreateCart(c)
  <2>1. CASE ~Finish(c)
    <3>1. PICK pc \in {"item", "check"} :
             /\ call' = [call EXCEPT ![c].cart = c, ![c].pc = pc]
             /\ call[c].kind # "get" /\ call[c].pc = "create"
      BY <1>2, <2>1 DEF CreateCart
    <3> DEFINE r == [call[c] EXCEPT !.cart = c, !.pc = pc]
    <3>2. r \in Call /\ AsAsked(call[c], r) /\ r.cart = c /\ r.pc = pc
      BY <1>t, <1>p, CallShape DEF AsAsked, Sent, AnyCall
    <3>3. call' = [call EXCEPT ![c] = r]
      BY <3>1
    <3> HIDE DEF r
    <3> QED BY <1>r, <3>1, <3>2, <3>3 DEF Takes
  <2> QED BY <1>f, <2>1
<1>3. CASE FindItem(c)
  <2>1. call[c].pc = "item" /\ call[c].kind = "add" /\ call[c].cart \in Calls
    BY <1>3, <1>t DEF FindItem, PlaceOK
  <2>2. call[c].variant \in Variants /\ call[c].amount \in Quantities
    BY <1>t, <2>1 DEF AskedOK
  <2>3. PICK item \in Item : item = carts[call[c].cart].items[call[c].variant]
    BY <1>c, <2>1, <2>2
  <2> DEFINE t == WithItem(call[c], item)
  <2>4. /\ t \in Call /\ AsAsked(call[c], t) /\ t.cart = call[c].cart
        /\ t.pc \in {"stock", "check"}
    BY <1>t, <2>2, WithItemFacts
  <2>5. call' = [call EXCEPT ![c] = t]
    BY <1>3, <2>3 DEF FindItem
  <2> HIDE DEF t
  <2> QED BY <1>r, <2>1, <2>4, <2>5 DEF Onward
<1>4. CASE FindForDelta(c)
  <2>1. CASE ~Finish(c)
    <3>1. PICK k \in CartsWith(c) :
             LET wanted == carts[k].items[call[c].variant].quantity + call[c].amount IN
             call' = [call EXCEPT ![c].cart = k,
                                  ![c].quantity = IF wanted > 0 THEN wanted ELSE 0,
                                  ![c].pc = IF wanted > 0 THEN "stock" ELSE "delete"]
      BY ZenonT(30), <1>4, <2>1 DEF FindForDelta
    <3>2. k \in Calls /\ k \in AnyCall
      BY SMTT(30) DEF CartsWith, OwnCarts, CartsOfUser, CartsOfGuest, AnyCall
    <3>3. call[c].pc = "delta" /\ call[c].variant \in Variants
      BY ZenonT(30), <1>4, <1>t DEF FindForDelta, PlaceOK, AskedOK
    <3>4. call[c].amount \in Int
      <4>1. call[c].amount \in Amounts
        BY <1>t, CallShape
      <4> QED BY <4>1, Numbers
    <3> DEFINE wanted == carts[k].items[call[c].variant].quantity + call[c].amount
    <3>5. wanted \in Int
      BY <1>c, <3>2, <3>3, <3>4
    <3> HIDE DEF wanted
    <3>6. PICK n \in Nat, pc \in {"stock", "delete"} :
             /\ n = IF wanted > 0 THEN wanted ELSE 0
             /\ pc = IF wanted > 0 THEN "stock" ELSE "delete"
      BY <3>5
    <3> DEFINE r == [call[c] EXCEPT !.cart = k, !.quantity = n, !.pc = pc]
    <3>7. r \in Call /\ AsAsked(call[c], r) /\ r.cart = k /\ r.pc = pc
      BY <1>t, <1>p, <3>2, CallShape DEF AsAsked, Sent
    <3>8. call' = [call EXCEPT ![c] = r]
      BY <3>1, <3>6 DEF wanted
    <3> HIDE DEF r
    <3> QED BY ZenonT(30), <1>r, <3>2, <3>3, <3>7, <3>8 DEF Takes
  <2> QED BY <1>f, <2>1
<1>5. CASE ReadStock(c)
  <2>1. CASE ~Finish(c)
    <3>1. PICK n \in Available :
             call' = [call EXCEPT ![c].pc = "write", ![c].quantity = IF n < @ THEN n ELSE @]
      BY <1>5, <2>1 DEF ReadStock
    <3>2. n \in Nat /\ call[c].quantity \in Nat
      BY <1>t, CartConstants, CallShape
    <3>3. PICK m \in Nat : m = IF n < call[c].quantity THEN n ELSE call[c].quantity
      BY <3>2
    <3> DEFINE r == [call[c] EXCEPT !.pc = "write", !.quantity = m]
    <3>4. r \in Call /\ AsAsked(call[c], r) /\ r.cart = call[c].cart /\ r.pc = "write"
      BY <1>t, <1>p, CallShape DEF AsAsked, Sent
    <3>5. call' = [call EXCEPT ![c] = r]
      BY <3>1, <3>3
    <3>6. call[c].pc = "stock"
      BY <1>5 DEF ReadStock
    <3> HIDE DEF r
    <3> QED BY <1>r, <3>4, <3>5, <3>6 DEF Onward
  <2> QED BY <1>f, <2>1
<1>6. CASE ReadGuestCart(c)
  <2>1. PICK k \in AnyCall :
          call' = [call EXCEPT ![c].todo = @ \ {"theirs"}, ![c].from = k,
                               ![c].theirs = IF k = NULL THEN Nothing ELSE QuantitiesIn(k)]
    BY ZenonT(30), <1>6 DEF ReadGuestCart, Latest, CartsOfGuest, AnyCall
  <2>2. PICK todo \in Todos, q \in PerVariant :
          /\ todo = call[c].todo \ {"theirs"}
          /\ q = IF k = NULL THEN Nothing ELSE QuantitiesIn(k)
    <3>1. call[c].todo \ {"theirs"} \in Todos
      BY <1>t, CallShape DEF Todos
    <3>2. Nothing \in PerVariant /\ (k # NULL => QuantitiesIn(k) \in PerVariant)
      BY <1>c DEF AnyCall, Nothing, QuantitiesIn, PerVariant
    <3> QED BY <3>1, <3>2
  <2> DEFINE r == [call[c] EXCEPT !.todo = todo, !.from = k, !.theirs = q]
  <2>3. r \in Call /\ AsAsked(call[c], r) /\ r.cart = call[c].cart /\ r.pc = call[c].pc
    BY <1>t, CallShape DEF AsAsked, Sent
  <2>4. call' = [call EXCEPT ![c] = r]
    BY <2>1, <2>2
  <2>5. call[c].pc = "read"
    BY ZenonT(30), <1>6 DEF ReadGuestCart
  <2> HIDE DEF r
  <2> QED BY <1>r, <2>3, <2>4, <2>5 DEF Onward
<1>7. CASE ReadUserCart(c)
  <2>1. PICK k \in AnyCall :
          call' = [call EXCEPT ![c].todo = @ \ {"mine"}, ![c].cart = k,
                               ![c].mine = IF k = NULL THEN Nothing ELSE QuantitiesIn(k)]
    BY ZenonT(30), <1>7 DEF ReadUserCart, Latest, CartsOfUser, AnyCall
  <2>2. PICK todo \in Todos, q \in PerVariant :
          /\ todo = call[c].todo \ {"mine"}
          /\ q = IF k = NULL THEN Nothing ELSE QuantitiesIn(k)
    <3>1. call[c].todo \ {"mine"} \in Todos
      BY <1>t, CallShape DEF Todos
    <3>2. Nothing \in PerVariant /\ (k # NULL => QuantitiesIn(k) \in PerVariant)
      BY <1>c DEF AnyCall, Nothing, QuantitiesIn, PerVariant
    <3> QED BY <3>1, <3>2
  <2> DEFINE r == [call[c] EXCEPT !.todo = todo, !.cart = k, !.mine = q]
  <2>3. r \in Call /\ AsAsked(call[c], r) /\ r.pc = call[c].pc
    BY <1>t, CallShape DEF AsAsked, Sent
  <2>4. call' = [call EXCEPT ![c] = r]
    BY <2>1, <2>2
  <2>5. call[c].pc = "read"
    BY ZenonT(30), <1>7 DEF ReadUserCart
  <2> HIDE DEF r
  <2> QED BY <1>r, <2>3, <2>4, <2>5 DEF Takes
<1> QED BY <1>1, <1>2, <1>3, <1>4, <1>5, <1>6, <1>7

\* The first step of the service fits its endpoint.
LEMMA EntryFits ==
    ASSUME NEW s, s.kind \in CartKinds \union WishKinds, s.pc = Entry(s.kind)
    PROVE  PlaceOK(s)
BY DEF PlaceOK, Entry, CartKinds, WishKinds, AddressKinds

\* Every step of a request fits its endpoint and the rows it has found.
LEMMA RequestStep ==
    ASSUME RequestInv, Moved
    PROVE  RequestInv'
<1> SUFFICES ASSUME NEW c \in Calls
             PROVE  AskedOK(call'[c]) /\ PlaceOK(call'[c])
  BY DEF RequestInv
<1> DEFINE r == call[c]
           s == call'[c]
<1>1. AskedOK(r) /\ PlaceOK(r)
  BY DEF RequestInv
<1>2. \/ Still(r, s)
      \/ r.pc = "idle" /\ Arrives(s)
      \/ AsAsked(r, s) /\ r.pc \in Steps /\ s.pc = "done" /\ s.cart = NULL
      \/ AsAsked(r, s) /\ s.cart = r.cart /\ Onward(r, s.pc)
      \/ AsAsked(r, s) /\ Takes(c, r, s)
  BY DEF Moved, RequestMove
<1> SUFFICES AskedOK(s) /\ PlaceOK(s)
  OBVIOUS
<1> HIDE DEF r, s
<1>3. AskedOK(s)
  BY <1>1, <1>2 DEF AskedOK, AsAsked, Sent, Still, Arrives
<1> SUFFICES PlaceOK(s)
  BY <1>3
<1>4. CASE Still(r, s)
  BY <1>1, <1>4 DEF Still, AsAsked, Sent, PlaceOK
<1>5. CASE Arrives(s)
  BY <1>5 DEF Arrives, PlaceOK, AddressKinds, CartKinds, WishKinds
<1>6. CASE s.pc = "done"
  BY <1>6 DEF PlaceOK, AddressKinds
<1>7. CASE AsAsked(r, s) /\ s.cart = r.cart /\ Onward(r, s.pc)
  <2>1. CASE s.pc = Entry(r.kind) /\ r.pc \in {"seen", "attach"}
    <3>1. s.kind \in CartKinds \union WishKinds /\ s.pc = Entry(s.kind)
      BY <1>1, <1>7, <2>1 DEF AsAsked, Sent, PlaceOK
    <3> QED BY <3>1, EntryFits
  <2>2. CASE ~(s.pc = Entry(r.kind) /\ r.pc \in {"seen", "attach"})
    BY <1>1, <1>7, <2>2 DEF AsAsked, Sent, PlaceOK, Onward, AddressKinds
  <2> QED BY <2>1, <2>2
<1>8. CASE AsAsked(r, s) /\ Takes(c, r, s)
  <2>1. CASE r.pc = "wishlist"
    BY <1>1, <1>8, <2>1 DEF AsAsked, Sent, PlaceOK, Takes, AddressKinds, WishKinds
  <2>2. CASE r.pc # "wishlist"
    BY SMTT(30), <1>1, <1>8, <2>2 DEF AsAsked, Sent, PlaceOK, Takes, AddressKinds
  <2> QED BY <2>1, <2>2
<1> QED BY <1>2, <1>4, <1>5, <1>6, <1>7, <1>8

(* ------------------------------- Types ---------------------------------- *)

\* Carts and items are typed whatever is written.
LEMMA CartsTyped ==
    ASSUME TypeOK, RequestInv, NEW c \in Calls, CartStep(c)
    PROVE  carts' \in [Calls -> CartRow] /\ UNCHANGED <<guests, doomed, now>>
<1>t. /\ carts \in [Calls -> CartRow] /\ now \in Nat
      /\ call[c] \in Call /\ PlaceOK(call[c]) /\ AskedOK(call[c])
  BY DEF TypeOK, ShopTypeOK, RequestInv
<1>r. /\ call[c].user \in AnyUser /\ call[c].guest \in AnyGuest /\ call[c].quantity \in Nat
      /\ call[c].mine \in PerVariant /\ call[c].theirs \in PerVariant
  BY <1>t, CallShape
<1>w. CartRow = [exists: BOOLEAN, user: AnyUser, guest: AnyGuest, updatedAt: Nat,
                 items: [Variants -> Item]]
  BY DEF CartRow, AnyUser, AnyGuest
<1>i. \A k \in Calls : carts[k].items \in [Variants -> Item]
  BY <1>t DEF CartRow
<1>j. Item = [id: AnyCall, quantity: Nat] /\ NoItem \in Item
  BY EmptyRows DEF Item, AnyCall
<1>e. NoCart \in CartRow
  BY EmptyRows
<1> DEFINE Items == [Variants -> Item]
<1>p. ASSUME NEW k \in Calls, NEW items \in Items
      PROVE  [carts[k] EXCEPT !.items = items] \in CartRow
  <2> HIDE DEF Items
  <2> QED BY SMTT(30), <1>p, <1>t, <1>w DEF Items
<1>0. UNCHANGED <<guests, doomed, now>>
  BY ZenonT(30) DEF CartStep, FindCart, CreateCart, FindItem, CheckStock, InsertItem, FindForDelta, DeleteForDelta,
      ReadStock, WriteQuantity, RemoveCartItem, ClearCart, ReadGuestCart, ReadUserCart, EndRead,
      AssignCart, MergeCartUser
<1> SUFFICES carts' \in [Calls -> CartRow]
  BY <1>0
<1>1. CASE UNCHANGED carts
  BY <1>t, <1>1
<1>2. CASE CreateCart(c)
  <2>1. CASE ~UNCHANGED carts
    <3>1. PICK u \in AnyUser, g \in AnyGuest :
             carts' = [carts EXCEPT ![c] =
                [NoCart EXCEPT !.exists = TRUE, !.user = u, !.guest = g, !.updatedAt = now]]
      BY ZenonT(30), <1>2, <1>r, <2>1 DEF CreateCart, AnyGuest
    <3> DEFINE row == [NoCart EXCEPT !.exists = TRUE, !.user = u, !.guest = g, !.updatedAt = now]
    <3>2. row \in CartRow
      BY <1>t, <1>e, <1>w
    <3> HIDE DEF row
    <3> QED BY <1>t, <3>1, <3>2 DEF row
  <2> QED BY <1>1, <2>1
<1>3. CASE InsertItem(c)
  <2> DEFINE k == call[c].cart
             v == call[c].variant
             item == [id |-> c, quantity |-> call[c].amount]
  <2>1. item \in Item
    <3>1. call[c].amount \in Nat
      BY <1>3, <1>t, Numbers DEF InsertItem, PlaceOK, AskedOK
    <3> QED BY <3>1, <1>j DEF AnyCall
  <2>2. k \in Calls
    BY <1>3, <1>t DEF InsertItem, PlaceOK
  <2> DEFINE items == [carts[k].items EXCEPT ![v] = item]
  <2>3. items \in Items
    <3> HIDE DEF item, v, k
    <3> QED BY <1>i, <2>1, <2>2
  <2> DEFINE row == [carts[k] EXCEPT !.items = items]
  <2>4. row \in CartRow
    BY <1>p, <2>2, <2>3
  <2>5. UNCHANGED carts \/ carts' = [carts EXCEPT ![k] = row]
    BY <1>3 DEF InsertItem
  <2> HIDE DEF row
  <2> QED BY <1>t, <2>4, <2>5
<1>4. CASE DeleteForDelta(c) \/ RemoveCartItem(c)
  <2>1. DeleteItem(c)
    BY <1>4 DEF DeleteForDelta, RemoveCartItem
  <2>2. ASSUME NEW k \in Calls
        PROVE  [carts[k] EXCEPT !.items[call[c].variant] = NoItem] \in CartRow
    <3> DEFINE items == [carts[k].items EXCEPT ![call[c].variant] = NoItem]
    <3>1. items \in Items
      BY <1>i, <1>j
    <3> HIDE DEF items
    <3>2. [carts[k] EXCEPT !.items = items] \in CartRow
      BY <1>p, <3>1
    <3> QED BY <3>2 DEF items
  <2> QED BY <1>t, <2>1, <2>2 DEF DeleteItem
<1>5. CASE WriteQuantity(c)
  <2> DEFINE k == call[c].cart
             v == call[c].variant
             row == [carts[k] EXCEPT !.items[v].quantity = call[c].quantity]
  <2>1. ASSUME k \in Calls PROVE row \in CartRow
    <3> DEFINE item == [carts[k].items[v] EXCEPT !.quantity = call[c].quantity]
               items == [carts[k].items EXCEPT ![v] = item]
    <3>1. v \in Variants => item \in Item
      BY <1>i, <1>j, <1>r, <2>1
    <3>2. items \in Items
      <4> HIDE DEF item, k, v
      <4> QED BY ZenonT(30), <1>i, <2>1, <3>1
    <3> HIDE DEF items
    <3>3. [carts[k] EXCEPT !.items = items] \in CartRow
      BY <1>p, <2>1, <3>2
    <3> QED BY <3>3 DEF items
  <2>2. UNCHANGED carts \/ carts' = [carts EXCEPT ![k] = row]
    BY ZenonT(30), <1>5 DEF WriteQuantity
  <2> HIDE DEF row, k
  <2> QED BY <1>t, <2>1, <2>2
<1>6. CASE ClearCart(c)
  BY <1>t, <1>e, <1>6 DEF ClearCart
<1>7. CASE AssignCart(c)
  <2> DEFINE k == call[c].from
             row == [carts[k] EXCEPT !.user = call[c].user, !.updatedAt = now]
  <2>1. k \in Calls => row \in CartRow
    BY <1>t, <1>r, <1>w
  <2>2. UNCHANGED carts \/ carts' = [carts EXCEPT ![k] = row]
    BY <1>7 DEF AssignCart
  <2> HIDE DEF row, k
  <2> QED BY <1>t, <2>1, <2>2
<1>8. CASE MergeCartUser(c)
  <2> DEFINE k == call[c].cart
             filled == [carts EXCEPT ![k].items = Upserted(c, @)]
             row == [carts[k] EXCEPT !.items = Upserted(c, carts[k].items)]
  <2>1. ASSUME k \in Calls PROVE row \in CartRow
    <3> DEFINE items == Upserted(c, carts[k].items)
               one(v) == [id |-> IF carts[k].items[v] = NoItem THEN c ELSE carts[k].items[v].id,
                          quantity |-> MergedQuantity(c, v)]
    <3>1. ASSUME NEW v \in Variants PROVE one(v) \in Item
      <4>1. MergedQuantity(c, v) \in Nat
        BY <1>r DEF MergedQuantity, PerVariant
      <4>2. (IF carts[k].items[v] = NoItem THEN c ELSE carts[k].items[v].id) \in AnyCall
        BY <1>i, <1>j, <2>1 DEF AnyCall
      <4> QED BY <1>j, <4>1, <4>2
    <3>2. \A v \in Variants : carts[k].items[v] \in Item
      BY <1>i, <2>1
    <3>3. items = [v \in Variants |-> IF call[c].theirs[v] = 0 THEN carts[k].items[v] ELSE one(v)]
      BY DEF Upserted
    <3> HIDE DEF one
    <3>4. items \in Items
      BY <3>1, <3>2, <3>3
    <3>5. row = [carts[k] EXCEPT !.items = items]
      OBVIOUS
    <3> HIDE DEF items, k, row, Items
    <3>6. [carts[k] EXCEPT !.items = items] \in CartRow
      BY <1>t, <1>w, <2>1, <3>4 DEF Items
    <3> QED BY <3>5, <3>6
  <2>2. filled = [carts EXCEPT ![k] = row]
    OBVIOUS
  <2>3. \/ UNCHANGED carts
        \/ carts' = [j \in Calls |-> IF filled[j].guest = call[c].guest THEN NoCart ELSE filled[j]]
    BY <1>8 DEF MergeCartUser
  <2> HIDE DEF row, filled, k
  <2>4. filled \in [Calls -> CartRow]
    BY <1>t, <2>1, <2>2
  <2> QED BY <1>t, <1>e, <2>3, <2>4
<1> QED
  BY ZenonT(30), <1>1, <1>2, <1>3, <1>4, <1>5, <1>6, <1>7, <1>8
  DEF CartStep, FindCart, FindItem, CheckStock, FindForDelta, ReadStock, ReadGuestCart, ReadUserCart, EndRead

\* So are wishlists ...
LEMMA WishlistsTyped ==
    ASSUME TypeOK, RequestInv, NEW c \in Calls, WishStep(c)
    PROVE  wishlists' \in [Calls -> WishlistRow] /\ UNCHANGED <<guests, carts, doomed, now>>
<1>t. /\ wishlists \in [Calls -> WishlistRow] /\ now \in Nat
      /\ call[c] \in Call /\ call[c].user \in AnyUser /\ call[c].guest \in AnyGuest
  BY CallShape DEF TypeOK, ShopTypeOK
<1> DEFINE Items == [Variants -> AnyCall]
<1>w. WishlistRow = [exists: BOOLEAN, user: AnyUser, guest: AnyGuest, updatedAt: Nat,
                     deleted: BOOLEAN, items: Items]
  BY DEF WishlistRow, AnyUser, AnyGuest, AnyCall
<1>e. NoWishlist \in WishlistRow
  BY EmptyRows
<1>i. \A k \in Calls : wishlists[k].items \in Items
  BY <1>t, <1>w
<1>p. ASSUME NEW k \in Calls, NEW items \in Items
      PROVE  [wishlists[k] EXCEPT !.items = items] \in WishlistRow
  <2> HIDE DEF Items
  <2> QED BY SMTT(30), <1>p, <1>t, <1>w
<1>0. UNCHANGED <<guests, carts, doomed, now>>
  BY DEF WishStep, FindWishlist, CreateWishlist, FindWish, InsertWish, DeleteWish, DeleteWishlist
<1> SUFFICES wishlists' \in [Calls -> WishlistRow]
  BY <1>0
<1>1. CASE UNCHANGED wishlists
  BY <1>t, <1>1
<1>2. CASE CreateWishlist(c)
  <2>1. CASE ~UNCHANGED wishlists
    <3>1. PICK u \in AnyUser, g \in AnyGuest :
             wishlists' = [wishlists EXCEPT ![c] =
                [NoWishlist EXCEPT !.exists = TRUE, !.user = u, !.guest = g, !.updatedAt = now]]
      BY ZenonT(30), <1>2, <1>t, <2>1 DEF CreateWishlist, AnyGuest
    <3> DEFINE row == [NoWishlist EXCEPT !.exists = TRUE, !.user = u, !.guest = g, !.updatedAt = now]
    <3> HIDE DEF Items
    <3>2. row \in WishlistRow
      BY <1>t, <1>e, <1>w
    <3> HIDE DEF row
    <3> QED BY <1>t, <3>1, <3>2 DEF row
  <2> QED BY <1>1, <2>1
<1>3. CASE InsertWish(c)
  <2> DEFINE k == call[c].cart
             v == call[c].variant
             items == [wishlists[k].items EXCEPT ![v] = c]
             row == [wishlists[k] EXCEPT !.items = items]
  <2>1. ASSUME k \in Calls PROVE row \in WishlistRow
    <3>1. items \in Items
      BY <1>i, <2>1 DEF AnyCall
    <3> HIDE DEF items, Items
    <3> QED BY <1>p, <2>1, <3>1
  <2>2. UNCHANGED wishlists \/ wishlists' = [wishlists EXCEPT ![k] = row]
    BY <1>3 DEF InsertWish
  <2> HIDE DEF row, k
  <2> QED BY <1>t, <2>1, <2>2
<1>4. CASE DeleteWish(c)
  <2> DEFINE k == call[c].cart
             row == WithoutItem(k, call[c].item)
  <2>1. ASSUME k \in Calls PROVE row \in WishlistRow
    <3> DEFINE items == [v \in Variants |-> IF wishlists[k].items[v] = call[c].item THEN NULL
                                            ELSE wishlists[k].items[v]]
    <3>1. items \in Items
      BY <1>i, <2>1 DEF AnyCall
    <3>2. row = [wishlists[k] EXCEPT !.items = items]
      BY DEF WithoutItem
    <3> HIDE DEF items, Items, row
    <3> QED BY <1>p, <2>1, <3>1, <3>2
  <2>2. wishlists' = [wishlists EXCEPT ![k] = row]
    BY <1>4 DEF DeleteWish
  <2> HIDE DEF row, k
  <2> QED BY <1>t, <2>1, <2>2
<1>5. CASE DeleteWishlist(c)
  <2> DEFINE k == call[c].cart
             row == [wishlists[k] EXCEPT !.deleted = TRUE, !.updatedAt = now]
  <2> HIDE DEF Items
  <2>1. k \in Calls => row \in WishlistRow
    BY <1>t, <1>w
  <2>2. UNCHANGED wishlists \/ wishlists' = [wishlists EXCEPT ![k] = row]
    BY <1>5 DEF DeleteWishlist
  <2> HIDE DEF row, k
  <2> QED BY <1>t, <2>1, <2>2
<1> QED BY <1>1, <1>2, <1>3, <1>4, <1>5 DEF WishStep, FindWishlist, FindWish

\* ... and addresses.
LEMMA AddressesTyped ==
    ASSUME TypeOK, RequestInv, NEW c \in Calls,
           CreateAddress(c) \/ UpdateAddress(c) \/ SetDefault(c) \/ SoftDelete(c)
    PROVE  addresses' \in [Calls -> AddressRow] /\ UNCHANGED <<guests, carts, doomed, now>>
<1>t. /\ addresses \in [Calls -> AddressRow] /\ now \in Nat
      /\ call[c] \in Call /\ call[c].user \in AnyUser
  BY CallShape DEF TypeOK, ShopTypeOK
<1>w. AddressRow = [user: AnyUser, createdAt: Nat, isDefault: BOOLEAN, deleted: BOOLEAN,
                    writtenBy: AnyCall]
  BY DEF AddressRow, AnyUser, AnyCall
<1>0. UNCHANGED <<guests, carts, doomed, now>>
  BY DEF CreateAddress, UpdateAddress, SetDefault, SoftDelete
<1> SUFFICES addresses' \in [Calls -> AddressRow]
  BY <1>0
<1>d. ASSUME NEW rows \in [Calls -> AddressRow], NEW u, NEW a
      PROVE  WithDefault(rows, u, a) \in [Calls -> AddressRow]
  <2>1. ASSUME NEW b \in Calls, NEW isDefault \in BOOLEAN
        PROVE  [rows[b] EXCEPT !.isDefault = isDefault] \in AddressRow
    BY <1>w
  <2> DEFINE flag(b) == IF b = a THEN TRUE
                        ELSE rows[b].isDefault /\ (rows[b].deleted \/ rows[b].user # u)
  <2>2. \A b \in Calls : flag(b) \in BOOLEAN
    OBVIOUS
  <2>3. WithDefault(rows, u, a) = [b \in Calls |-> [rows[b] EXCEPT !.isDefault = flag(b)]]
    BY DEF WithDefault
  <2> HIDE DEF flag
  <2> QED BY <2>1, <2>2, <2>3
<1>1. CASE CreateAddress(c)
  <2>1. PICK isDefault \in BOOLEAN : isDefault = (call[c].quantity = 0)
    OBVIOUS
  <2> DEFINE row == [user |-> call[c].user, createdAt |-> now, isDefault |-> isDefault,
                     deleted |-> FALSE, writtenBy |-> c]
  <2>2. row \in AddressRow
    BY <1>t, <1>w DEF AnyCall
  <2>3. addresses' = [addresses EXCEPT ![c] = row]
    BY <1>1, <2>1 DEF CreateAddress
  <2> HIDE DEF row
  <2> QED BY <1>t, <2>2, <2>3
<1>2. CASE UpdateAddress(c)
  <2>1. addresses' = [addresses EXCEPT ![call[c].item] =
                         [addresses[call[c].item] EXCEPT !.writtenBy = c]]
    BY <1>2 DEF UpdateAddress
  <2>2. \A a \in Calls : [addresses[a] EXCEPT !.writtenBy = c] \in AddressRow
    BY <1>t, <1>w DEF AnyCall
  <2> QED BY <1>t, <2>1, <2>2
<1>3. CASE SetDefault(c)
  BY <1>3, <1>t, <1>d DEF SetDefault
<1>4. CASE SoftDelete(c)
  <2>1. \A a \in Calls : [addresses[a] EXCEPT !.deleted = TRUE, !.isDefault = FALSE] \in AddressRow
    BY <1>t, <1>w
  <2>2. Dropped(c) = [addresses EXCEPT ![call[c].item] =
                         [addresses[call[c].item] EXCEPT !.deleted = TRUE, !.isDefault = FALSE]]
    BY DEF Dropped
  <2>3. PICK k : k = call[c].item
    OBVIOUS
  <2>4. PICK row : row = [addresses[k] EXCEPT !.deleted = TRUE, !.isDefault = FALSE]
    OBVIOUS
  <2>5. k \in Calls => row \in AddressRow
    BY ZenonT(30), <2>1, <2>4
  <2>6. [addresses EXCEPT ![k] = row] \in [Calls -> AddressRow]
    BY <1>t, <2>5
  <2>7. Dropped(c) \in [Calls -> AddressRow]
    BY <2>2, <2>3, <2>4, <2>6
  <2> QED BY <1>4, <1>d, <2>7 DEF SoftDelete
<1> QED BY <1>1, <1>2, <1>3, <1>4

\* How a guest session can change: it is seen, created when there is none,
\* converted, or deleted by the cleanup that has read it.
GuestMove(g) ==
    \/ guests'[g] = guests[g]
    \/ /\ guests'[g].exists = guests[g].exists
       /\ guests[g].converted => guests'[g].converted /\ guests[g].exists
       /\ guests'[g].converted => guests'[g].exists
    \/ ~guests[g].exists /\ guests'[g].exists /\ ~guests'[g].converted
    \/ g \in doomed /\ guests'[g] = NoGuest

\* Only sessions that exist are converted.
GuestInv == \A g \in Guests : guests[g].converted => guests[g].exists

SessionsKept ==
    /\ guests' \in [Guests -> GuestRow] /\ now' \in Nat /\ doomed' \in SUBSET Guests
    /\ carts' \in [Calls -> CartRow]
    /\ \A g \in Guests : GuestMove(g)
    /\ \A g \in Guests : g \in doomed' => g \in doomed \/ ~guests[g].converted

\* Guest sessions and the clock.
LEMMA GuestsTyped ==
    ASSUME TypeOK, GuestInv,
           \/ \E c \in Calls : StartCall(c) \/ ReadSeenSession(c) \/ AttachGuestSession(c)
           \/ \E h \in Guests : Convert(h)
           \/ ReadInactive \/ Tick \/ DeleteInactive
    PROVE  SessionsKept
<1>t. /\ guests \in [Guests -> GuestRow] /\ now \in Nat /\ doomed \in SUBSET Guests
      /\ carts \in [Calls -> CartRow]
  BY DEF TypeOK, ShopTypeOK
<1>e. NoGuest \in GuestRow /\ NoCart \in CartRow /\ NoGuest.converted = FALSE
  BY EmptyRows DEF NoGuest
<1>n. [exists |-> TRUE, lastSeenAt |-> now, converted |-> FALSE] \in GuestRow
  BY <1>t DEF GuestRow
<1>s. \A g \in Guests : /\ [guests[g] EXCEPT !.lastSeenAt = now] \in GuestRow
                        /\ [guests[g] EXCEPT !.converted = TRUE] \in GuestRow
  BY <1>t DEF GuestRow
<1>1. ASSUME NEW c \in Calls, StartCall(c) PROVE SessionsKept
  <2>1. PICK g \in Guests :
          guests' = IF guests[g].exists THEN [guests EXCEPT ![g].lastSeenAt = now] ELSE guests
    BY ZenonT(30), <1>1 DEF StartCall
  <2>2. guests' \in [Guests -> GuestRow]
    BY <1>t, <1>s, <2>1
  <2>3. \A x \in Guests : GuestMove(x)
    BY <1>t, <2>1 DEF GuestMove, GuestRow, GuestInv
  <2> QED BY ZenonT(30), <1>t, <1>1, <2>2, <2>3 DEF StartCall, SessionsKept
<1>2. ASSUME NEW c \in Calls, AttachGuestSession(c) PROVE SessionsKept
  <2>1. \/ UNCHANGED guests
        \/ /\ ~guests[call[c].guest].exists
           /\ guests' = [guests EXCEPT ![call[c].guest] =
                   [exists |-> TRUE, lastSeenAt |-> now, converted |-> FALSE]]
    BY <1>2 DEF AttachGuestSession, NewGuest
  <2>2. guests' \in [Guests -> GuestRow]
    BY <1>t, <1>n, <2>1
  <2>3. \A x \in Guests : GuestMove(x)
    BY <1>t, <2>1 DEF GuestMove, GuestInv
  <2> QED BY <1>t, <1>2, <2>2, <2>3 DEF AttachGuestSession, NewGuest, SessionsKept
<1>3. ASSUME NEW h \in Guests, Convert(h) PROVE SessionsKept
  <2>2. guests' \in [Guests -> GuestRow]
    BY <1>t, <1>s, <1>3 DEF Convert
  <2>3. \A x \in Guests : GuestMove(x)
    BY <1>t, <1>3 DEF Convert, GuestMove, GuestRow, GuestInv
  <2> QED BY <1>t, <1>3, <2>2, <2>3 DEF Convert, SessionsKept
<1>4. CASE DeleteInactive
  BY <1>t, <1>e, <1>4 DEF DeleteInactive, GuestMove, SessionsKept
<1>5. CASE (\E c \in Calls : ReadSeenSession(c)) \/ ReadInactive \/ Tick
  <2>1. UNCHANGED <<guests, carts>>
    BY <1>5 DEF ReadSeenSession, ReadInactive, Tick
  <2>2. now' \in Nat /\ doomed' \in SUBSET Guests
    BY <1>t, <1>5 DEF ReadSeenSession, ReadInactive, Tick, Inactive
  <2>3. \A g \in Guests : g \in doomed' => g \in doomed \/ ~guests[g].converted
    BY <1>5 DEF ReadSeenSession, ReadInactive, Tick, Inactive
  <2> QED BY <1>t, <2>1, <2>2, <2>3 DEF GuestMove, SessionsKept
<1> QED BY <1>1, <1>2, <1>3, <1>4, <1>5

(* ------------------------- Steps of the system -------------------------- *)

\* A step that leaves the requests alone moves none.
LEMMA StillMoves ==
    ASSUME call \in [Calls -> Call], UNCHANGED call
    PROVE  Moved
BY DEF Moved, RequestMove, OverlapMove, Still, AsAsked, Sent

\* Nothing happens to sessions that are left alone.
LEMMA SessionsStill ==
    ASSUME TypeOK, UNCHANGED <<guests, doomed, now>>, carts' \in [Calls -> CartRow]
    PROVE  SessionsKept
BY DEF SessionsKept, GuestMove, TypeOK, ShopTypeOK

\* The steps of the requests that change a cart, a wishlist or an address.
ServiceStep(c) ==
    \/ CartStep(c) /\ UNCHANGED <<wishlists, addresses>>
    \/ WishStep(c) /\ UNCHANGED addresses
    \/ AddressStep(c) /\ UNCHANGED wishlists

\* The other steps, wishlists aside.
SessionStep ==
    \/ \E c \in Calls : StartCall(c) \/ ReadSeenSession(c) \/ AttachGuestSession(c)
    \/ \E g \in Guests : Convert(g)
    \/ ReadInactive \/ Tick \/ DeleteInactive

\* What the steps of the system keep, and how they change requests and sessions.
Kept == TypeOK' /\ Moved /\ SessionsKept

\* Steps of a request behind the guard.
LEMMA ServiceKeeps ==
    ASSUME TypeOK, RequestInv, NEW c \in Calls, ServiceStep(c)
    PROVE  Kept
<1>t. /\ call \in [Calls -> Call] /\ wishlists \in [Calls -> WishlistRow]
      /\ addresses \in [Calls -> AddressRow] /\ carts \in [Calls -> CartRow]
      /\ guests \in [Guests -> GuestRow] /\ doomed \in SUBSET Guests /\ now \in Nat
  BY DEF TypeOK, ShopTypeOK
<1>k. ASSUME Moved, carts' \in [Calls -> CartRow], wishlists' \in [Calls -> WishlistRow],
             addresses' \in [Calls -> AddressRow], UNCHANGED <<guests, doomed, now>>
      PROVE  Kept
  BY <1>t, <1>k, SessionsStill DEF Kept, Moved, TypeOK, ShopTypeOK
<1>1. CASE CartStep(c) /\ UNCHANGED <<wishlists, addresses>>
  <2>1. Moved
    BY <1>1, PlainMoves, LookingMoves DEF CartStep
  <2> QED BY <1>t, <1>k, <1>1, <2>1, CartsTyped
<1>2. CASE WishStep(c) /\ UNCHANGED addresses
  BY <1>t, <1>k, <1>2, WishMoves, WishlistsTyped
<1>3. CASE AddressStep(c) /\ UNCHANGED wishlists
  <2>1. CASE CreateAddress(c) \/ UpdateAddress(c) \/ SetDefault(c) \/ SoftDelete(c)
    <3>1. Moved
      BY <2>1, PlainMoves
    <3> QED BY <1>t, <1>k, <1>3, <2>1, <3>1, AddressesTyped
  <2>2. CASE \/ \E u \in Users : CountAddresses(c, u)
             \/ \E u \in Users, kind \in AddressKinds, a \in Calls : FindAddress(c, kind, u, a)
    <3>1. Moved
      BY <2>2, ArrivalMoves
    <3>2. UNCHANGED <<guests, carts, addresses, doomed, now>>
      BY ZenonT(30), <2>2 DEF CountAddresses, FindAddress
    <3> QED BY <1>t, <1>k, <1>3, <3>1, <3>2
  <2> QED BY <1>3, <2>1, <2>2 DEF AddressStep
<1> QED BY <1>1, <1>2, <1>3 DEF ServiceStep

\* The guard, conversions, the cleanup and the clock.
LEMMA SessionKeeps ==
    ASSUME TypeOK, RequestInv, GuestInv, SessionStep, UNCHANGED addresses,
           UNCHANGED wishlists \/ CascadeWishlists
    PROVE  Kept
<1>t. /\ call \in [Calls -> Call] /\ wishlists \in [Calls -> WishlistRow]
      /\ addresses \in [Calls -> AddressRow]
  BY DEF TypeOK, ShopTypeOK
<1>1. wishlists' \in [Calls -> WishlistRow]
  BY <1>t, EmptyRows DEF CascadeWishlists
<1>2. SessionsKept
  BY GuestsTyped DEF SessionStep
<1>3. Moved
  <2>1. CASE \E c \in Calls : StartCall(c) \/ ReadSeenSession(c) \/ AttachGuestSession(c)
    BY <2>1, ArrivalMoves, GuardMoves
  <2>2. CASE UNCHANGED call
    BY <1>t, <2>2, StillMoves
  <2> QED BY <2>1, <2>2 DEF SessionStep, Convert, ReadInactive, Tick, DeleteInactive
<1> QED BY <1>t, <1>1, <1>2, <1>3 DEF Kept, SessionsKept, Moved, TypeOK, ShopTypeOK

\* Every step of the system.
LEMMA StepKeeps ==
    ASSUME TypeOK, RequestInv, GuestInv, [Next]_shoppingVars
    PROVE  Kept
<1>1. CASE \E c \in Calls : ServiceStep(c)
  BY <1>1, ServiceKeeps
<1>2. CASE SessionStep /\ UNCHANGED addresses /\ (UNCHANGED wishlists \/ CascadeWishlists)
  BY <1>2, SessionKeeps
<1>3. CASE UNCHANGED shoppingVars
  <2>1. UNCHANGED <<guests, carts, call, doomed, now, wishlists, addresses>>
    BY <1>3 DEF shoppingVars, shopVars
  <2>2. Moved /\ SessionsKept
    BY <2>1, StillMoves, SessionsStill DEF TypeOK, ShopTypeOK
  <2> QED BY <2>1, <2>2 DEF Kept, TypeOK, ShopTypeOK
<1> QED BY <1>1, <1>2, <1>3 DEF Next, ServiceStep, SessionStep

(* --------------------- Types and converted sessions --------------------- *)

ShoppingInv == TypeOK /\ RequestInv /\ GuestInv

\* The empty database.
LEMMA InitShopping ==
    ASSUME Init
    PROVE  ShoppingInv
<1>1. TypeOK
  BY EmptyRows DEF Init, ShopInit, TypeOK, ShopTypeOK
<1>2. RequestInv
  BY DEF Init, ShopInit, RequestInv, AskedOK, PlaceOK, IdleCall, CartKinds, WishKinds, AddressKinds
<1>3. GuestInv
  BY DEF Init, ShopInit, GuestInv, NoGuest
<1> QED BY <1>1, <1>2, <1>3 DEF ShoppingInv

\* Every step.
LEMMA StepShopping ==
    ASSUME ShoppingInv, [Next]_shoppingVars
    PROVE  ShoppingInv'
<1>1. TypeOK' /\ Moved /\ SessionsKept
  BY StepKeeps DEF ShoppingInv, Kept
<1>2. RequestInv'
  BY <1>1, RequestStep DEF ShoppingInv
<1>3. GuestInv'
  <2>1. NoGuest.converted = FALSE
    BY DEF NoGuest
  <2> QED BY <1>1, <2>1 DEF SessionsKept, GuestMove, GuestInv, ShoppingInv
<1> QED BY <1>1, <1>2, <1>3 DEF ShoppingInv

\* Rows, requests and the cleanup's list always have their types, whatever the
\* endpoints, the conversions and the cleanup do between each other's statements.
THEOREM ShoppingTyped == Spec => []TypeOK
<1>1. Init => ShoppingInv
  BY InitShopping
<1>2. ShoppingInv /\ [Next]_shoppingVars => ShoppingInv'
  BY StepShopping
<1>3. ShoppingInv => TypeOK
  BY DEF ShoppingInv
<1> QED BY <1>1, <1>2, <1>3, PTL DEF Spec

\* A session that belongs to a user survives the nightly cleanup, unless the
\* cleanup had read it before the registration converted it: only then can the
\* delete by id take it, because nothing else deletes or unconverts a session.
THEOREM ConvertedSessionsStay == Spec => ConvertedStays
<1>1. Init => ShoppingInv
  BY InitShopping
<1>2. ShoppingInv /\ [Next]_shoppingVars => ShoppingInv'
  BY StepShopping
<1>3. ASSUME ShoppingInv, [Next]_shoppingVars, NEW g \in Guests,
             guests[g].converted, g \notin doomed
      PROVE  guests'[g].converted /\ g \notin doomed'
  <2>1. SessionsKept /\ guests[g].exists
    BY <1>3, StepKeeps DEF ShoppingInv, GuestInv, Kept
  <2> QED BY <1>3, <2>1 DEF SessionsKept, GuestMove
<1>4. ShoppingInv /\ [Next]_shoppingVars =>
        [\A g \in Guests : guests[g].converted /\ g \notin doomed
            => guests'[g].converted /\ g \notin doomed']_shoppingVars
  BY <1>3
<1> QED BY <1>1, <1>2, <1>4, PTL DEF Spec, ConvertedStays

(* ------------------------------ Wishlists ------------------------------- *)

\* A wishlist that is not there.
Blank(list) == ~list.exists /\ ~list.deleted /\ \A v \in Variants : list.items[v] = NULL

\* Before its insert, and when it has found the list it works on.
Unlisted == {"idle", "seen", "attach", "wishlist", "newWishlist"}

OnList == {"wish", "insertWish", "unwish", "clearWish"}

\* A request works on a list of its shopper, or on one that went with its guest
\* session; and a list that is gone is not inserted again.
WishInv ==
    /\ \A k \in Calls :
          /\ wishlists[k].exists \/ Blank(wishlists[k])
          /\ call[k].pc \in Unlisted => Blank(wishlists[k])
    /\ \A c \in Calls : call[c].pc \in OnList =>
          /\ call[c].cart \in Calls
          /\ call[call[c].cart].pc \notin Unlisted
          /\ IsOf(wishlists[call[c].cart], call[c]) \/ Blank(wishlists[call[c].cart])

\* How a wishlist can change.
ListMove(k) ==
    LET old == wishlists[k]
        new == wishlists'[k]
    IN  \/ Blank(new)
        \/ old.exists /\ new.exists /\ new.user = old.user /\ new.guest = old.guest
        \/ /\ call[k].pc = "newWishlist" /\ call'[k].pc \notin Unlisted
           /\ new.exists /\ IsOf(new, call[k])

\* A step of the wishlist service, or of the cleanup, on any list.
LEMMA ListMoves ==
    ASSUME TypeOK, RequestInv, WishInv,
           \/ \E c \in Calls : WishStep(c)
           \/ UNCHANGED wishlists
           \/ CascadeWishlists,
           NEW k \in Calls
    PROVE  ListMove(k)
<1>t. /\ call \in [Calls -> Call] /\ wishlists \in [Calls -> WishlistRow]
      /\ wishlists[k].exists \/ Blank(wishlists[k])
  BY DEF TypeOK, ShopTypeOK, WishInv
<1>w. wishlists[k] \in WishlistRow
  BY <1>t
<1>0. CASE wishlists'[k] = wishlists[k]
  BY <1>0, <1>t DEF ListMove
<1>1. CASE CascadeWishlists
  <2>1. wishlists'[k] = NoWishlist \/ wishlists'[k] = wishlists[k]
    BY <1>1 DEF CascadeWishlists
  <2>2. Blank(NoWishlist)
    BY DEF Blank, NoWishlist
  <2> QED BY <1>0, <2>1, <2>2 DEF ListMove
<1>2. ASSUME NEW c \in Calls, CreateWishlist(c), wishlists'[k] # wishlists[k]
      PROVE  ListMove(k)
  <2> DEFINE g == IF call[c].user = NULL THEN call[c].guest ELSE NULL
             row == [NoWishlist EXCEPT !.exists = TRUE, !.user = call[c].user, !.guest = g,
                                       !.updatedAt = now]
  <2>1. /\ k = c /\ call[c].pc = "newWishlist" /\ wishlists'[k] = row
        /\ \/ Finish(c)
           \/ call' = [call EXCEPT ![c].cart = c, ![c].pc = "wish"]
    BY <1>2, <1>t DEF CreateWishlist
  <2>2. row.exists /\ row.user = call[c].user /\ row.guest = g
    BY DEF NoWishlist
  <2>3. IsOf(row, call[c])
    BY <2>2 DEF IsOf
  <2>4. call'[c].pc \in {"done", "wish"}
    <3>1. CASE Finish(c)
      BY <3>1, <1>t, FinishFacts
    <3>2. CASE call' = [call EXCEPT ![c].cart = c, ![c].pc = "wish"]
      BY <3>2, <1>t DEF Call
    <3> QED BY <2>1, <3>1, <3>2
  <2> HIDE DEF row
  <2> QED BY <2>1, <2>2, <2>3, <2>4 DEF ListMove, Unlisted
<1>3. ASSUME NEW c \in Calls, InsertWish(c), wishlists'[k] # wishlists[k]
      PROVE  ListMove(k)
  <2>1. PICK items :
          wishlists'[k] = [wishlists[k] EXCEPT !.items = items] /\ wishlists[k].exists
    BY <1>3, <1>t DEF InsertWish
  <2> QED BY <1>w, <2>1 DEF ListMove, WishlistRow
<1>4. ASSUME NEW c \in Calls, DeleteWish(c), wishlists'[k] # wishlists[k]
      PROVE  ListMove(k)
  <2> DEFINE items == [v \in Variants |-> IF wishlists[k].items[v] = call[c].item THEN NULL
                                          ELSE wishlists[k].items[v]]
  <2>1. wishlists'[k] = [wishlists[k] EXCEPT !.items = items]
    BY <1>4, <1>t DEF DeleteWish, WithoutItem
  <2>2. Blank(wishlists[k]) => \A v \in Variants : items[v] = NULL
    BY DEF Blank
  <2> HIDE DEF items
  <2> QED BY <1>t, <1>w, <2>1, <2>2 DEF ListMove, Blank, WishlistRow
<1>5. ASSUME NEW c \in Calls, DeleteWishlist(c), wishlists'[k] # wishlists[k]
      PROVE  ListMove(k)
  <2>1. /\ wishlists'[k] = [wishlists[k] EXCEPT !.deleted = TRUE, !.updatedAt = now]
        /\ wishlists[k].exists
    BY <1>5, <1>t DEF DeleteWishlist
  <2> QED BY <1>w, <2>1 DEF ListMove, WishlistRow
<1>6. ASSUME NEW c \in Calls, FindWishlist(c) \/ FindWish(c)
      PROVE  ListMove(k)
  BY <1>0, <1>6 DEF FindWishlist, FindWish
<1> QED BY <1>0, <1>1, <1>2, <1>3, <1>4, <1>5, <1>6 DEF WishStep

\* A request that has not looked for its list yet had not looked before either.
LEMMA UnlistedBefore ==
    ASSUME RequestInv, Moved, NEW x \in Calls, call'[x].pc \in Unlisted
    PROVE  call[x].pc \in Unlisted
<1> DEFINE r == call[x]
           s == call'[x]
<1>1. PlaceOK(r) /\ RequestMove(x) /\ s.pc \in Unlisted
  BY DEF RequestInv, Moved
<1>2. r.pc # "idle" => \/ Still(r, s)
                       \/ Onward(r, s.pc)
                       \/ Takes(x, r, s)
  BY <1>1 DEF RequestMove, Unlisted
<1> SUFFICES r.pc \in Unlisted
  OBVIOUS
<1> HIDE DEF r, s
<1>3. ~Takes(x, r, s) \/ r.pc \in Unlisted
  BY <1>1 DEF Takes, Unlisted, PlaceOK, WishKinds
<1>4. Onward(r, s.pc) => r.pc \in Unlisted
  BY <1>1 DEF Onward, Unlisted
<1> QED BY <1>1, <1>2, <1>3, <1>4 DEF Still, Unlisted

\* A request works on the same list as before, or has just found or inserted it.
LEMMA OnListBefore ==
    ASSUME RequestInv, Moved, NEW c \in Calls, call'[c].pc \in OnList
    PROVE  /\ Sent(call[c], call'[c])
           /\ \/ call[c].pc \in OnList /\ call'[c].cart = call[c].cart
              \/ call'[c].cart \in OwnWishlists(c)
              \/ call[c].pc = "newWishlist" /\ call'[c].cart = c
<1> DEFINE r == call[c]
           s == call'[c]
<1>1. PlaceOK(r) /\ RequestMove(c) /\ s.pc \in OnList
  BY DEF RequestInv, Moved
<1> SUFFICES /\ Sent(r, s)
             /\ \/ r.pc \in OnList /\ s.cart = r.cart
                \/ s.cart \in OwnWishlists(c)
                \/ r.pc = "newWishlist" /\ s.cart = c
  OBVIOUS
<1>2. \/ Still(r, s)
      \/ AsAsked(r, s) /\ s.cart = r.cart /\ Onward(r, s.pc)
      \/ AsAsked(r, s) /\ Takes(c, r, s)
  <2>1. ~Arrives(s) /\ s.pc # "done"
    BY <1>1 DEF Arrives, OnList, AddressKinds
  <2> QED BY <1>1, <2>1 DEF RequestMove
<1> HIDE DEF r, s
<1>3. CASE Still(r, s)
  BY <1>1, <1>3 DEF Still, AsAsked, Sent
<1>4. CASE AsAsked(r, s) /\ s.cart = r.cart /\ Onward(r, s.pc)
  <2>1. r.pc \in {"seen", "attach"} => Entry(r.kind) \notin OnList /\ "attach" \notin OnList
    BY <1>1 DEF PlaceOK, Entry, OnList, CartKinds, WishKinds
  <2>2. r.pc \in OnList
    BY <1>1, <1>4, <2>1 DEF Onward, OnList
  <2> QED BY <1>4, <2>2 DEF AsAsked
<1>5. CASE AsAsked(r, s) /\ Takes(c, r, s)
  BY <1>1, <1>5 DEF Takes, OnList, AsAsked
<1> QED BY <1>2, <1>3, <1>4, <1>5

\* Whatever lists and requests do, requests work on lists of their shoppers.
LEMMA ListsStep ==
    ASSUME RequestInv, WishInv, Moved, \A k \in Calls : ListMove(k)
    PROVE  WishInv'
<1>1. ASSUME NEW k \in Calls
      PROVE  /\ wishlists'[k].exists \/ Blank(wishlists'[k])
             /\ call'[k].pc \in Unlisted => Blank(wishlists'[k])
  <2>1. call'[k].pc \in Unlisted => call[k].pc \in Unlisted
    BY UnlistedBefore
  <2>2. /\ ListMove(k)
        /\ call[k].pc \in Unlisted => Blank(wishlists[k])
    BY DEF WishInv
  <2> QED BY <2>1, <2>2 DEF ListMove, Blank
<1>2. ASSUME NEW c \in Calls, call'[c].pc \in OnList
      PROVE  /\ call'[c].cart \in Calls
             /\ call'[call'[c].cart].pc \notin Unlisted
             /\ IsOf(wishlists'[call'[c].cart], call'[c]) \/ Blank(wishlists'[call'[c].cart])
  <2>1. /\ Sent(call[c], call'[c])
        /\ \/ call[c].pc \in OnList /\ call'[c].cart = call[c].cart
           \/ call'[c].cart \in OwnWishlists(c)
           \/ call[c].pc = "newWishlist" /\ call'[c].cart = c
    BY <1>2, OnListBefore
  <2>2. PICK k : k = call'[c].cart
    OBVIOUS
  <2>3. \A list : IsOf(list, call'[c]) <=> IsOf(list, call[c])
    BY <2>1 DEF IsOf, Sent
  <2>4. CASE call[c].pc \in OnList /\ k = call[c].cart
    <3>1. /\ k \in Calls /\ call[k].pc \notin Unlisted
          /\ IsOf(wishlists[k], call[c]) \/ Blank(wishlists[k])
      BY <2>4 DEF WishInv
    <3>2. call'[k].pc \notin Unlisted
      BY <3>1, UnlistedBefore
    <3>3. ListMove(k)
      BY <3>1
    <3>4. IsOf(wishlists'[k], call[c]) \/ Blank(wishlists'[k])
      BY <3>1, <3>3 DEF ListMove, Unlisted, IsOf, Blank
    <3> QED BY <2>2, <2>3, <3>1, <3>2, <3>4
  <2>5. CASE k \in OwnWishlists(c)
    <3>1. k \in Calls /\ wishlists[k].exists /\ IsOf(wishlists[k], call[c])
      BY <2>5 DEF OwnWishlists
    <3>2. call[k].pc \notin Unlisted
      BY <3>1 DEF WishInv, Blank
    <3>3. call'[k].pc \notin Unlisted
      BY <3>1, <3>2, UnlistedBefore
    <3>4. ListMove(k)
      BY <3>1
    <3>5. IsOf(wishlists'[k], call[c]) \/ Blank(wishlists'[k])
      BY <3>1, <3>2, <3>4 DEF ListMove, Unlisted, IsOf
    <3> QED BY <2>2, <2>3, <3>1, <3>3, <3>5
  <2>6. CASE call[c].pc = "newWishlist" /\ k = c
    <3>1. Blank(wishlists[c]) /\ ListMove(c)
      BY <2>6 DEF WishInv, Unlisted
    <3>2. IsOf(wishlists'[c], call[c]) \/ Blank(wishlists'[c])
      BY <3>1 DEF ListMove, Blank
    <3>3. call'[c].pc \notin Unlisted
      BY <1>2 DEF OnList, Unlisted
    <3> QED BY <2>2, <2>3, <2>6, <3>2, <3>3
  <2> QED BY <2>1, <2>2, <2>4, <2>5, <2>6
<1> QED BY <1>1, <1>2 DEF WishInv

\* What a step does to wishlists.
LEMMA ListSteps ==
    ASSUME [Next]_shoppingVars
    PROVE  \/ \E c \in Calls : WishStep(c)
           \/ UNCHANGED wishlists
           \/ CascadeWishlists
BY DEF Next, shoppingVars

WishesInv == ShoppingInv /\ WishInv

\* The empty database.
LEMMA InitWishes ==
    ASSUME Init
    PROVE  WishesInv
<1>1. ShoppingInv
  BY InitShopping
<1>2. \A k \in Calls : Blank(wishlists[k]) /\ call[k].pc = "idle"
  BY DEF Init, ShopInit, Blank, NoWishlist, IdleCall
<1>3. WishInv
  BY <1>2 DEF WishInv, OnList
<1> QED BY <1>1, <1>3 DEF WishesInv

\* Every step.
LEMMA StepWishes ==
    ASSUME WishesInv, [Next]_shoppingVars
    PROVE  WishesInv' /\ Moved
<1>1. ShoppingInv /\ WishInv /\ TypeOK /\ RequestInv /\ GuestInv
  BY DEF WishesInv, ShoppingInv
<1>2. Moved
  BY <1>1, StepKeeps DEF Kept
<1>3. \A k \in Calls : ListMove(k)
  BY <1>1, ListSteps, ListMoves
<1>4. WishInv'
  BY <1>1, <1>2, <1>3, ListsStep
<1>5. ShoppingInv'
  BY <1>1, StepShopping
<1> QED BY <1>2, <1>4, <1>5 DEF WishesInv

\* Who takes a wish off a list.
LEMMA WishGoes ==
    ASSUME WishesInv, [Next]_shoppingVars, NEW k \in Calls, NEW v \in Variants,
           wishlists[k].items[v] # NULL, wishlists'[k].items[v] # wishlists[k].items[v]
    PROVE  \/ wishlists[k].guest \in doomed
           \/ \E c \in Calls : UnderWay(c) /\ IsOf(wishlists[k], call[c])
<1>t. /\ wishlists \in [Calls -> WishlistRow] /\ WishInv
      /\ wishlists[k] \in WishlistRow /\ wishlists[k].items \in [Variants -> AnyCall]
      /\ ~Blank(wishlists[k])
  BY DEF WishesInv, ShoppingInv, TypeOK, WishlistRow, AnyCall, Blank
<1>1. CASE CascadeWishlists
  BY <1>1 DEF CascadeWishlists
<1>2. ASSUME NEW c \in Calls, WishStep(c)
      PROVE  UnderWay(c) /\ IsOf(wishlists[k], call[c])
  <2>1. wishlists'[k] # wishlists[k]
    OBVIOUS
  <2>2. ~CreateWishlist(c)
    BY <1>t, <2>1 DEF CreateWishlist, WishInv, Unlisted
  <2>3. ~InsertWish(c)
    BY SMTT(30), <1>t, <2>1 DEF InsertWish, WishlistRow
  <2>4. ~DeleteWishlist(c)
    BY <1>t, <2>1 DEF DeleteWishlist, WishlistRow
  <2>5. DeleteWish(c)
    BY <1>2, <2>1, <2>2, <2>3, <2>4 DEF WishStep, FindWishlist, FindWish
  <2>6. call[c].pc = "unwish" /\ k = call[c].cart
    BY <1>t, <2>1, <2>5 DEF DeleteWish
  <2> QED BY <1>t, <2>6 DEF WishInv, OnList, UnderWay, Steps
<1>3. ~UNCHANGED wishlists
  OBVIOUS
<1> QED BY <1>1, <1>2, <1>3, ListSteps

\* A list that was cleared is not taken up again.
LEMMA ClearedIsNotTaken ==
    ASSUME WishesInv, [Next]_shoppingVars, NEW k \in Calls, wishlists[k].deleted,
           NEW c \in Calls, call'[c].cart = k, call'[c].kind \in WishKinds
    PROVE  call[c].cart = k
<1>1. /\ RequestMove(c) /\ PlaceOK(call[c]) /\ WishInv /\ NULL \notin Calls
  BY StepWishes, ShopConstants DEF Moved, WishesInv, ShoppingInv, RequestInv
<1>2. CASE AsAsked(call[c], call'[c]) /\ Takes(c, call[c], call'[c])
  <2>1. call[c].kind \in WishKinds
    BY <1>2 DEF AsAsked, Sent
  <2>2. \/ k \in OwnWishlists(c)
        \/ call[c].pc = "newWishlist" /\ k = c
    BY <1>1, <1>2, <2>1 DEF Takes, PlaceOK, WishKinds
  <2> QED BY <1>1, <2>2 DEF OwnWishlists, WishInv, Unlisted, Blank
<1> QED BY <1>1, <1>2 DEF RequestMove, Still, Arrives

\* A wish disappears only with its guest session or by a request of the shopper
\* whose list it is on, whatever item ids requests name and however long ago they
\* found their list; and a list that was cleared is neither shown nor filled by a
\* request that had not found it before.
THEOREM OnlyShoppersUnwish == Spec => WishesAreOwn
<1>1. Init => WishesInv
  BY InitWishes
<1>2. WishesInv /\ [Next]_shoppingVars => WishesInv'
  BY StepWishes
<1> DEFINE Own(k, v) ==
      /\ wishlists[k].items[v] # NULL /\ wishlists'[k].items[v] # wishlists[k].items[v] =>
             wishlists[k].guest \in doomed \/ \E c \in Calls : UnderWay(c) /\ IsOf(wishlists[k], call[c])
      /\ wishlists[k].deleted /\ wishlists[k].guest \notin doomed =>
             \A c \in Calls : call'[c].cart = k /\ call'[c].kind \in WishKinds => call[c].cart = k
<1>3. ASSUME WishesInv, [Next]_shoppingVars, NEW k \in Calls, NEW v \in Variants
      PROVE  Own(k, v)
  BY <1>3, WishGoes, ClearedIsNotTaken
<1>4. WishesInv /\ [Next]_shoppingVars => [\A k \in Calls, v \in Variants : Own(k, v)]_shoppingVars
  BY <1>3
<1> QED BY <1>1, <1>2, <1>4, PTL DEF Spec, WishesAreOwn

(* -------------------- What overlapping requests cost -------------------- *)

\* Two requests that are under way together for one browser or one user.
Rivals(c, d) == c # d /\ UnderWay(c) /\ UnderWay(d) /\ Same(call[c], call[d])

\* Rivals know of each other.
PeersInv == \A c, d \in Calls : Rivals(c, d) => call[c].overlapped

\* Before a request has created a cart, a wishlist or an address, or handed a
\* cart over.
Before ==
    {"idle", "seen", "attach", "cart", "create", "read", "assign", "wishlist", "newWishlist",
     "newAddress"}

\* Overlapping requests that have got past these steps: they may have made one
\* row more than there should be.
PastGuest(g) ==
    {c \in Calls : call[c].guest = g /\ call[c].overlapped /\ call[c].pc \notin Before}

PastUser(u) ==
    {c \in Calls : call[c].user = u /\ call[c].overlapped /\ call[c].pc \notin Before}

\* What is counted is finite.
LEMMA FiniteRows ==
    /\ \A S \in SUBSET Calls : IsFiniteSet(S)
    /\ \A g : PastGuest(g) \in SUBSET Calls /\ PastGuest(g)' \in SUBSET Calls
    /\ \A u : PastUser(u) \in SUBSET Calls /\ PastUser(u)' \in SUBSET Calls
<1>1. \A S \in SUBSET Calls : IsFiniteSet(S)
  BY ShopConstants, FS_Subset
<1> QED BY <1>1 DEF PastGuest, PastUser

\* A request that has arrived keeps what was sent, does not go back, and knows
\* whom it has overlapped.
LEMMA Remembers ==
    ASSUME RequestInv, Moved, NEW c \in Calls, call[c].pc # "idle"
    PROVE  /\ Sent(call[c], call'[c])
           /\ call[c].overlapped => call'[c].overlapped
           /\ call'[c].pc \in Steps => call[c].pc \in Steps
           /\ call'[c].pc \in Before => call[c].pc \in Before
           /\ call'[c].pc # "idle"
<1> DEFINE r == call[c]
           s == call'[c]
<1>1. PlaceOK(r) /\ AskedOK(r)
  BY DEF RequestInv
<1>2. \/ Still(r, s)
      \/ AsAsked(r, s) /\ r.pc \in Steps /\ s.pc = "done" /\ s.cart = NULL
      \/ AsAsked(r, s) /\ s.cart = r.cart /\ Onward(r, s.pc)
      \/ AsAsked(r, s) /\ Takes(c, r, s)
  BY DEF Moved, RequestMove
<1>3. r.overlapped => s.overlapped
  BY DEF Moved, OverlapMove
<1>9. r.pc # "idle"
  OBVIOUS
<1> SUFFICES /\ Sent(r, s)
             /\ s.pc \in Steps => r.pc \in Steps
             /\ s.pc \in Before => r.pc \in Before
             /\ s.pc # "idle"
  BY <1>3
<1> HIDE DEF r, s
<1>4. Sent(r, s)
  BY <1>2 DEF Still, AsAsked
<1>5. CASE Still(r, s)
  BY <1>4, <1>5, <1>9 DEF Still
<1>6. CASE s.pc = "done"
  BY <1>4, <1>6 DEF Before, Steps, AddressKinds
<1>7. CASE Onward(r, s.pc)
  <2>1. r.pc \in Steps
    BY <1>7 DEF Onward, Steps
  <2>2. s.pc \in Before => r.pc \in Before
    BY <1>7 DEF Onward, Before
  <2>3. s.pc # "idle"
    BY <1>1, <1>7 DEF Onward, PlaceOK, Entry, CartKinds, WishKinds
  <2> QED BY <1>4, <2>1, <2>2, <2>3
<1>8. CASE Takes(c, r, s)
  <2>1. r.pc \in Steps
    BY <1>8 DEF Takes, Steps
  <2>2. s.pc \in Before => r.pc \in Before
    BY <1>8 DEF Takes, Before
  <2>3. s.pc # "idle"
    BY <1>1, <1>8 DEF Takes, PlaceOK, WishKinds
  <2> QED BY <1>4, <2>1, <2>2, <2>3
<1> QED BY <1>2, <1>5, <1>6, <1>7, <1>8

\* Rivals learn of each other when the second one arrives.
LEMMA PeersStep ==
    ASSUME RequestInv, PeersInv, Moved
    PROVE  PeersInv'
<1> SUFFICES ASSUME NEW c \in Calls, NEW d \in Calls, c # d, call'[c].pc \in Steps,
                    call'[d].pc \in Steps, Same(call'[c], call'[d])
             PROVE  call'[c].overlapped
  BY DEF PeersInv, Rivals, UnderWay
<1>i. "idle" \notin Steps
  BY DEF Steps, AddressKinds
<1>1. CASE call[c].pc # "idle" /\ call[d].pc # "idle"
  <2>1. /\ Sent(call[c], call'[c]) /\ call[c].pc \in Steps
        /\ Sent(call[d], call'[d]) /\ call[d].pc \in Steps
        /\ call[c].overlapped => call'[c].overlapped
    BY <1>1, Remembers
  <2>2. Same(call[c], call[d])
    BY <2>1 DEF Sent, Same
  <2> QED BY <2>1, <2>2 DEF PeersInv, Rivals, UnderWay
<1>2. CASE call[c].pc = "idle" \/ call[d].pc = "idle"
  <2>1. PICK a \in Calls :
          /\ call[a].pc = "idle" /\ Arrives(call'[a])
          /\ call'[a].overlapped = (\E x \in Calls : UnderWay(x) /\ Same(call[x], call'[a]))
          /\ \A x \in Calls : x # a =>
                /\ Still(call[x], call'[x])
                /\ call'[x].overlapped =
                      (call[x].overlapped \/ (UnderWay(x) /\ Same(call[x], call'[a])))
    BY <1>2, <1>i DEF Moved, OverlapMove
  <2>2. ASSUME NEW x \in Calls, x # a, call'[x].pc \in Steps
        PROVE  UnderWay(x) /\ Sent(call[x], call'[x])
    BY <2>1, <2>2 DEF Still, UnderWay
  <2>3. CASE c = a
    <3>1. UnderWay(d) /\ Sent(call[d], call'[d])
      BY <2>2, <2>3
    <3>2. Same(call[d], call'[a])
      BY <2>3, <3>1 DEF Sent, Same
    <3> QED BY <2>1, <2>3, <3>1, <3>2
  <2>4. CASE d = a
    <3>1. UnderWay(c) /\ Sent(call[c], call'[c])
      BY <2>2, <2>4
    <3>2. Same(call[c], call'[a])
      BY <2>4, <3>1 DEF Sent, Same
    <3> QED BY <2>1, <2>4, <3>1, <3>2
  <2>5. CASE c # a /\ d # a
    <3>1. UnderWay(c) /\ UnderWay(d)
      BY <2>2, <2>5
    <3> QED BY <1>2, <1>i, <3>1 DEF UnderWay
  <2> QED BY <2>3, <2>4, <2>5
<1> QED BY <1>1, <1>2

\* The credit only grows.
LEMMA CreditsGrow ==
    ASSUME RequestInv, Moved
    PROVE  /\ \A g : PastGuest(g) \subseteq PastGuest(g)'
           /\ \A u : PastUser(u) \subseteq PastUser(u)'
<1>1. ASSUME NEW c \in Calls, call[c].overlapped, call[c].pc \notin Before
      PROVE  /\ Sent(call[c], call'[c]) /\ call'[c].overlapped /\ call'[c].pc \notin Before
  <2>1. call[c].pc # "idle"
    BY <1>1 DEF Before
  <2> QED BY <1>1, <2>1, Remembers
<1> QED BY <1>1 DEF PastGuest, PastUser, Sent

\* A request makes one row more: either there was none, or it has overlapped
\* another one and its credit pays.
LEMMA OneMore ==
    ASSUME RequestInv, Moved, NEW A \in SUBSET Calls, NEW B, NEW k, B \subseteq A \union {k},
           NEW c \in Calls, call[c].pc \in Before, call[c].pc # "idle", call'[c].pc \notin Before,
           call[c].overlapped \/ A = {}
    PROVE  /\ \A u : call[c].user = u /\ Cardinality(A) <= 1 + Cardinality(PastUser(u)) =>
                 Cardinality(B) <= 1 + Cardinality(PastUser(u)')
           /\ \A g : call[c].guest = g /\ Cardinality(A) <= 1 + Cardinality(PastGuest(g)) =>
                 Cardinality(B) <= 1 + Cardinality(PastGuest(g)')
<1>1. IsFiniteSet(A)
  BY FiniteRows
<1>2. /\ Sent(call[c], call'[c])
      /\ call[c].overlapped => call'[c].overlapped
  BY Remembers
<1>3. Cardinality({}) = 0
  BY FS_EmptySet
<1>4. ASSUME NEW P \in SUBSET Calls, NEW Q \in SUBSET Calls, P \subseteq Q,
             call[c].overlapped => c \in Q /\ c \notin P, Cardinality(A) <= 1 + Cardinality(P)
      PROVE  Cardinality(B) <= 1 + Cardinality(Q)
  <2>1. IsFiniteSet(P) /\ IsFiniteSet(Q)
    BY FiniteRows
  <2>2. Cardinality(P) \in Nat
    BY <2>1, FS_CardinalityType
  <2>3. CASE call[c].overlapped
    BY <1>1, <1>4, <2>1, <2>3, Credit
  <2>4. CASE A = {}
    <3>1. Cardinality(A) + 1 <= 1 + Cardinality(P)
      BY <1>3, <2>2, <2>4
    <3> QED BY <1>1, <1>4, <2>1, <3>1, Credit
  <2> QED BY <2>3, <2>4
<1>5. ASSUME NEW u, call[c].user = u, Cardinality(A) <= 1 + Cardinality(PastUser(u))
      PROVE  Cardinality(B) <= 1 + Cardinality(PastUser(u)')
  <2>1. call[c].overlapped => c \in PastUser(u)' /\ c \notin PastUser(u)
    BY <1>2, <1>5 DEF PastUser, Sent
  <2>2. /\ PastUser(u) \in SUBSET Calls /\ PastUser(u)' \in SUBSET Calls
        /\ PastUser(u) \subseteq PastUser(u)'
    BY FiniteRows, CreditsGrow
  <2> QED BY <1>4, <1>5, <2>1, <2>2
<1>6. ASSUME NEW g, call[c].guest = g, Cardinality(A) <= 1 + Cardinality(PastGuest(g))
      PROVE  Cardinality(B) <= 1 + Cardinality(PastGuest(g)')
  <2>1. call[c].overlapped => c \in PastGuest(g)' /\ c \notin PastGuest(g)
    BY SMTT(30), <1>2, <1>6 DEF PastGuest, Sent
  <2>2. /\ PastGuest(g) \in SUBSET Calls /\ PastGuest(g)' \in SUBSET Calls
        /\ PastGuest(g) \subseteq PastGuest(g)'
    BY FiniteRows, CreditsGrow
  <2> QED BY <1>4, <1>6, <2>1, <2>2
<1> QED BY <1>5, <1>6

(* -------------------------------- Carts --------------------------------- *)

\* A cart that is there was there and was the same shopper's.
CartKept(j) ==
    carts'[j].exists => /\ carts[j].exists
                        /\ carts'[j].user = carts[j].user /\ carts'[j].guest = carts[j].guest

\* Carts come from one request at a time, that creates one or hands one over.
CartsMove ==
    \/ \A j \in Calls : CartKept(j)
    \/ \E c \in Calls :
          /\ call[c].pc = "create" /\ call'[c].pc \notin Before
          /\ \A j \in Calls : j # c => CartKept(j)
          /\ carts'[c].user = call[c].user
          /\ carts'[c].guest = IF call[c].user = NULL THEN call[c].guest ELSE NULL
    \/ \E c, k \in Calls :
          /\ call[c].pc = "assign" /\ call'[c].pc \notin Before /\ k = call[c].from
          /\ \A j \in Calls : j # k => CartKept(j)
          /\ carts[k].exists /\ carts'[k].exists
          /\ carts'[k].user = call[c].user /\ carts'[k].guest = carts[k].guest

\* What the cart service does to carts.
LEMMA CartStepMoves ==
    ASSUME TypeOK, RequestInv, NEW c \in Calls, CartStep(c)
    PROVE  CartsMove
<1>t. /\ carts \in [Calls -> CartRow] /\ call \in [Calls -> Call] /\ PlaceOK(call[c])
  BY DEF TypeOK, ShopTypeOK, RequestInv
<1>w. CartRow = [exists: BOOLEAN, user: AnyUser, guest: AnyGuest, updatedAt: Nat,
                 items: [Variants -> Item]]
  BY DEF CartRow, AnyUser, AnyGuest
<1>n. ~NoCart.exists
  BY DEF NoCart
<1>f. Finish(c) => call'[c].pc \notin Before
  BY <1>t, FinishFacts DEF Before
<1>0. CASE UNCHANGED carts
  BY <1>0 DEF CartsMove, CartKept
<1>1. CASE CreateCart(c) /\ ~UNCHANGED carts
  <2> DEFINE g == IF call[c].user = NULL THEN call[c].guest ELSE NULL
  <2>1. /\ carts' = [carts EXCEPT ![c] =
              [NoCart EXCEPT !.exists = TRUE, !.user = call[c].user, !.guest = g, !.updatedAt = now]]
        /\ call[c].pc = "create"
    BY <1>1 DEF CreateCart
  <2>2. call'[c].pc \notin Before
    <3>1. \/ Finish(c)
          \/ call' = [call EXCEPT ![c].cart = c, ![c].pc = IF call[c].user # NULL THEN "item" ELSE "check"]
      BY <1>1 DEF CreateCart
    <3>2. CASE ~Finish(c)
      BY <1>t, <3>1, <3>2, CallShape DEF Before
    <3> QED BY <1>f, <3>2
  <2>3. /\ carts'[c].user = call[c].user /\ carts'[c].guest = g
        /\ \A j \in Calls : j # c => carts'[j] = carts[j]
    BY <1>t, <2>1 DEF NoCart
  <2> QED BY <2>1, <2>2, <2>3 DEF CartsMove, CartKept
<1>2. CASE InsertItem(c)
  <2>1. \A j \in Calls : CartKept(j)
    BY <1>t, <1>w, <1>2 DEF InsertItem, CartKept
  <2> QED BY <2>1 DEF CartsMove
<1>3. CASE DeleteForDelta(c) \/ RemoveCartItem(c)
  <2>1. \A j \in Calls : CartKept(j)
    BY SMTT(30), <1>t, <1>w, <1>3 DEF DeleteForDelta, RemoveCartItem, DeleteItem, CartKept
  <2> QED BY <2>1 DEF CartsMove
<1>4. CASE WriteQuantity(c)
  <2>1. \A j \in Calls : CartKept(j)
    BY <1>t, <1>w, <1>4 DEF WriteQuantity, CartKept
  <2> QED BY <2>1 DEF CartsMove
<1>5. CASE ClearCart(c)
  <2>1. \A j \in Calls : CartKept(j)
    BY SMTT(30), <1>t, <1>n, <1>5 DEF ClearCart, CartKept
  <2> QED BY <2>1 DEF CartsMove
<1>6. CASE AssignCart(c) /\ ~UNCHANGED carts
  <2> DEFINE k == call[c].from
  <2>1. /\ carts' = [carts EXCEPT ![k].user = call[c].user, ![k].updatedAt = now]
        /\ carts[k].exists /\ call[c].pc = "assign" /\ call'[c].pc \notin Before
    BY <1>6, <1>f DEF AssignCart
  <2>2. k \in Calls
    BY <1>t, <1>6, <2>1
  <2>3. /\ \A j \in Calls : j # k => carts'[j] = carts[j]
        /\ carts'[k].exists /\ carts'[k].user = call[c].user /\ carts'[k].guest = carts[k].guest
    BY <1>t, <1>w, <2>1, <2>2
  <2>4. \A j \in Calls : j # k => CartKept(j)
    BY <2>3 DEF CartKept
  <2> QED BY ZenonT(30), <2>1, <2>2, <2>3, <2>4 DEF CartsMove
<1>7. CASE MergeCartUser(c)
  <2> DEFINE k == call[c].cart
             filled == [carts EXCEPT ![k].items = Upserted(c, @)]
  <2>1. \A j \in Calls : /\ filled[j].exists = carts[j].exists /\ filled[j].user = carts[j].user
                         /\ filled[j].guest = carts[j].guest
    BY <1>t, <1>w
  <2> HIDE DEF filled
  <2>2. \/ UNCHANGED carts
        \/ carts' = [j \in Calls |-> IF filled[j].guest = call[c].guest THEN NoCart ELSE filled[j]]
    BY <1>7 DEF MergeCartUser, filled
  <2>3. \A j \in Calls : CartKept(j)
    BY SMTT(30), <1>n, <2>1, <2>2 DEF CartKept
  <2> QED BY <2>3 DEF CartsMove
<1> QED BY ZenonT(30), <1>0, <1>1, <1>2, <1>3, <1>4, <1>5, <1>6, <1>7
        DEF CartStep, FindCart, CreateCart, FindItem, CheckStock, FindForDelta, ReadStock, ReadGuestCart,
            ReadUserCart, EndRead, AssignCart

\* What any step does to carts.
LEMMA CartsMoves ==
    ASSUME TypeOK, RequestInv, [Next]_shoppingVars
    PROVE  CartsMove
<1>1. CASE \E c \in Calls : CartStep(c)
  BY <1>1, CartStepMoves
<1>2. CASE UNCHANGED carts
  BY <1>2 DEF CartsMove, CartKept
<1>3. CASE DeleteInactive
  <2>1. \A j \in Calls : CartKept(j)
    BY <1>3 DEF DeleteInactive, CartKept, NoCart
  <2> QED BY <2>1 DEF CartsMove
<1> QED BY ZenonT(30), <1>1, <1>2, <1>3
        DEF Next, shoppingVars, shopVars, StartCall, ReadSeenSession, AttachGuestSession, NewGuest, Convert,
            ReadInactive, Tick, WishStep, FindWishlist, CreateWishlist, FindWish, InsertWish,
            DeleteWish, DeleteWishlist, AddressStep, CountAddresses, FindAddress, CreateAddress,
            UpdateAddress, SetDefault, SoftDelete

\* Whose carts are there has a latest one among them.
LEMMA LatestExists ==
    ASSUME TypeOK, NEW S \in SUBSET Calls, S # {}
    PROVE  Latest(S) # {}
<1>1. IsFiniteSet(S)
  BY FiniteRows
<1>2. \A k \in S : carts[k].updatedAt \in Nat
  BY DEF TypeOK, ShopTypeOK, CartRow
<1> DEFINE Q == {T \in SUBSET S : T = {} \/ Latest(T) # {}}
<1>3. {} \in Q
  OBVIOUS
<1>4. ASSUME NEW T \in SUBSET S, NEW x \in S, T \in Q, x \notin T
      PROVE  T \union {x} \in Q
  <2>1. CASE T = {}
    <3>1. x \in Latest(T \union {x})
      BY <1>2, <2>1 DEF Latest
    <3> QED BY <3>1
  <2>2. CASE T # {}
    <3>1. PICK j \in T : \A i \in T : carts[i].updatedAt <= carts[j].updatedAt
      BY <1>4, <2>2 DEF Latest
    <3>2. CASE carts[x].updatedAt <= carts[j].updatedAt
      <4>1. j \in Latest(T \union {x})
        BY <3>1, <3>2 DEF Latest
      <4> QED BY <4>1
    <3>3. CASE ~(carts[x].updatedAt <= carts[j].updatedAt)
      <4>1. /\ carts[x].updatedAt \in Nat /\ carts[j].updatedAt \in Nat
            /\ \A i \in T : carts[i].updatedAt \in Nat
        BY <1>2
      <4>2. \A i \in T \union {x} : carts[i].updatedAt <= carts[x].updatedAt
        BY <3>1, <3>3, <4>1
      <4>3. x \in Latest(T \union {x})
        BY <4>2 DEF Latest
      <4> QED BY <4>3
    <3> QED BY <3>2, <3>3
  <2> QED BY <2>1, <2>2
<1> HIDE DEF Q
<1>5. \A T \in SUBSET S, x \in S : T \in Q /\ x \notin T => T \union {x} \in Q
  BY <1>4
<1>6. \A T \in SUBSET S : T \in Q
  BY ZenonT(30), <1>1, <1>3, <1>5, AllSubsets
<1> QED BY <1>6 DEF Q

\* The actions of one request behind its arrival.
OwnStep(c) ==
    \/ ReadSeenSession(c) \/ AttachGuestSession(c) \/ CartStep(c) \/ WishStep(c)
    \/ CreateAddress(c) \/ UpdateAddress(c) \/ SetDefault(c) \/ SoftDelete(c)

\* Where a request is tells what it does next.
LEMMA StepIsAt ==
    ASSUME NEW c \in Calls, OwnStep(c)
    PROVE  /\ call[c].pc # "idle" /\ call[c].pc \in Steps
           /\ call[c].pc = "cart" => FindCart(c)
           /\ call[c].pc = "create" => CreateCart(c)
           /\ call[c].pc = "delta" => FindForDelta(c)
           /\ call[c].pc = "mergeTx" => MergeCartUser(c)
           /\ call[c].pc = "wishlist" => FindWishlist(c)
BY ZenonT(30) DEF OwnStep, ReadSeenSession, AttachGuestSession, NewGuest,
     CartStep, WishStep, CreateAddress, UpdateAddress, SetDefault, SoftDelete,
     FindCart, CreateCart, FindItem, CheckStock, InsertItem, FindForDelta, DeleteForDelta, ReadStock,
     WriteQuantity, RemoveCartItem, ClearCart, ReadGuestCart, ReadUserCart, EndRead,
     AssignCart, MergeCartUser, FindWishlist, CreateWishlist, FindWish, InsertWish,
     DeleteWish, DeleteWishlist, Steps, AddressKinds

\* A request that arrives.
Arrival(c) ==
    \/ StartCall(c)
    \/ \E u \in Users : CountAddresses(c, u)
    \/ \E u \in Users, kind \in AddressKinds, a \in Calls : FindAddress(c, kind, u, a)

\* A step moves one request at most.
LEMMA OnlyOne ==
    ASSUME TypeOK, NEW c \in Calls, OwnStep(c)
    PROVE  \A x \in Calls : x # c => call'[x] = call[x]
<1>t. call \in [Calls -> Call]
  BY DEF TypeOK, ShopTypeOK
<1>1. CASE Finish(c)
  BY <1>t, <1>1, FinishFacts
<1>2. CASE \E pc : Goto(c, pc)
  BY <1>t, <1>2 DEF Goto
<1>3. CASE \E r : call' = [call EXCEPT ![c] = r]
  BY <1>t, <1>3
<1>4. CASE ReadSeenSession(c) \/ AttachGuestSession(c)
  BY SMTT(30), <1>1, <1>2, <1>4 DEF ReadSeenSession, AttachGuestSession, NewGuest
<1>5. CASE CartStep(c)
  <2>1. CASE FindCart(c) \/ CreateCart(c)
    BY ZenonT(30), <1>1, <1>2, <1>t, <2>1 DEF FindCart, CreateCart
  <2>2. CASE FindItem(c) \/ FindForDelta(c) \/ ReadStock(c)
    BY ZenonT(30), <1>1, <1>t, <2>2 DEF FindItem, FindForDelta, ReadStock
  <2>3. CASE ReadGuestCart(c) \/ ReadUserCart(c)
    BY ZenonT(30), <1>t, <2>3 DEF ReadGuestCart, ReadUserCart
  <2>4. CASE EndRead(c) \/ CheckStock(c)
    BY <1>1, <1>2, <2>4 DEF EndRead, CheckStock
  <2> QED BY ZenonT(30), <1>1, <1>2, <1>5, <2>1, <2>2, <2>3, <2>4
          DEF CartStep, InsertItem, DeleteForDelta, WriteQuantity, RemoveCartItem, ClearCart,
              AssignCart, MergeCartUser
<1>6. CASE WishStep(c)
  BY <1>1, <1>2, <1>t, <1>6
     DEF WishStep, FindWishlist, CreateWishlist, FindWish, InsertWish, DeleteWish, DeleteWishlist
<1>7. CASE CreateAddress(c) \/ UpdateAddress(c) \/ SetDefault(c) \/ SoftDelete(c)
  BY <1>1, <1>7 DEF CreateAddress, UpdateAddress, SetDefault, SoftDelete
<1> QED BY <1>4, <1>5, <1>6, <1>7 DEF OwnStep

\* A request that arrives touches no row of the shop.
LEMMA ArrivalLeaves ==
    ASSUME NEW c \in Calls, Arrival(c)
    PROVE  call[c].pc = "idle" /\ UNCHANGED carts
BY ZenonT(30) DEF Arrival, StartCall, CountAddresses, FindAddress

\* Every step is one of one request, or of none.
LEMMA WhoSteps ==
    ASSUME [Next]_shoppingVars
    PROVE  \/ \E c \in Calls : Arrival(c) \/ OwnStep(c)
           \/ UNCHANGED call
<1>1. CASE \E c \in Calls : AddressStep(c)
  BY <1>1 DEF AddressStep, Arrival, OwnStep
<1>2. CASE ~\E c \in Calls : AddressStep(c)
  BY <1>2 DEF Next, shoppingVars, shopVars, Arrival, OwnStep, Convert, ReadInactive, Tick,
      DeleteInactive
<1> QED BY <1>1, <1>2

\* Who is not idle and has not been touched.
LEMMA Bystanders ==
    ASSUME TypeOK, RequestInv, Moved, NEW c \in Calls, Arrival(c) \/ OwnStep(c),
           NEW x \in Calls, x # c
    PROVE  Still(call[x], call'[x])
<1>1. CASE OwnStep(c)
  BY <1>1, OnlyOne DEF Still, Sent
<1>2. CASE Arrival(c)
  <2>1. PICK r : Begin(c, r)
    BY ZenonT(30), <1>2 DEF Arrival, StartCall, CountAddresses, FindAddress
  <2>2. PICK b : call'[x] = [call[x] EXCEPT !.overlapped = b]
    BY <2>1 DEF Begin
  <2>3. call[x] \in Call
    BY DEF TypeOK, ShopTypeOK
  <2> QED BY SMTT(30), <2>2, <2>3, CallShape DEF Still, Sent
<1> QED BY <1>1, <1>2

\* What a merge has read of the user's cart, and of the guest's.
MineKept(r, s) ==
    s.cart = r.cart /\ s.mine = r.mine /\ ("mine" \in s.todo <=> "mine" \in r.todo)

TheirsKept(r, s) ==
    s.from = r.from /\ s.theirs = r.theirs /\ ("theirs" \in s.todo <=> "theirs" \in r.todo)

\* How a merge that goes on has changed.
MergeMove(c) ==
    LET r == call[c]
        s == call'[c]
    IN  s.kind = "merge" /\ s.pc \in Steps =>
        \/ r.pc = "idle" /\ s.pc \in {"seen", "attach"} /\ s.todo = {"mine", "theirs"}
        \/ /\ MineKept(r, s) /\ TheirsKept(r, s)
           /\ s.pc # r.pc => r.pc \in {"seen", "attach"} /\ s.pc \in {"attach", "read"}
        \/ /\ r.pc = "read" /\ s.pc = "read" /\ UNCHANGED carts
           /\ \/ /\ TheirsKept(r, s) /\ "mine" \notin s.todo
                 /\ \/ s.cart = NULL /\ CartsOfUser(r.user) = {}
                    \/ s.cart \in CartsOfUser(r.user) /\ s.mine = QuantitiesIn(s.cart)
              \/ /\ MineKept(r, s) /\ "theirs" \notin s.todo
                 /\ \/ s.from = NULL /\ CartsOfGuest(r.guest) = {}
                    \/ s.from \in CartsOfGuest(r.guest) /\ s.theirs = QuantitiesIn(s.from)
        \/ /\ r.pc = "read" /\ r.todo = {} /\ r.from # NULL
           /\ MineKept(r, s) /\ TheirsKept(r, s)
           /\ s.pc = IF r.cart = NULL THEN "assign" ELSE "mergeTx"

\* Merges read both carts, in any order, and decide when they have.
LEMMA MergeMoves ==
    ASSUME TypeOK, RequestInv, Moved, [Next]_shoppingVars, NEW c \in Calls
    PROVE  MergeMove(c)
<1>t. /\ call \in [Calls -> Call] /\ call[c] \in Call /\ PlaceOK(call[c]) /\ AskedOK(call[c])
      /\ RequestMove(c)
  BY DEF TypeOK, ShopTypeOK, RequestInv, Moved
<1>n. "done" \notin Steps /\ "idle" \notin Steps
  BY DEF Steps, AddressKinds
<1>1. CASE call[c].pc = "idle"
  BY <1>1, <1>n, <1>t DEF RequestMove, Still, Sent, Arrives, Onward, Takes, MergeMove, AddressKinds
<1>2. CASE Still(call[c], call'[c])
  BY <1>2 DEF Still, MergeMove, MineKept, TheirsKept
<1>3. CASE OwnStep(c) /\ call'[c].kind = "merge" /\ call'[c].pc \in Steps
  <2>f. ~Finish(c)
    BY <1>3, <1>n, <1>t, FinishFacts
  <2>g. ASSUME NEW pc, Goto(c, pc)
        PROVE  /\ MineKept(call[c], call'[c]) /\ TheirsKept(call[c], call'[c]) /\ call'[c].pc = pc
    BY <1>t, <2>g, CallShape DEF Goto, MineKept, TheirsKept
  <2>k. call[c].kind = "merge" /\ call[c].pc \in {"seen", "attach", "read", "assign", "mergeTx"}
    <3>1. Sent(call[c], call'[c]) /\ call[c].pc \in Steps
      BY <1>1, <1>3, <1>n, Remembers, StepIsAt DEF MergeMove
    <3>2. call[c].kind = "merge"
      BY <1>3, <3>1 DEF Sent
    <3> QED BY <1>t, <3>1, <3>2 DEF PlaceOK, Steps, AddressKinds, WishKinds
  <2>1. CASE ReadSeenSession(c) \/ AttachGuestSession(c)
    <3>1. Entry(call[c].kind) = "read"
      BY <2>k DEF Entry, WishKinds
    <3>2. PICK pc \in {"read", "attach"} : Goto(c, pc) /\ call[c].pc \in {"seen", "attach"}
      BY <2>1, <2>f, <3>1 DEF ReadSeenSession, AttachGuestSession, NewGuest
    <3> QED BY <2>g, <3>2 DEF MergeMove
  <2>2. CASE EndRead(c)
    <3>1. /\ call[c].pc = "read" /\ call[c].todo = {} /\ call[c].from # NULL
          /\ Goto(c, IF call[c].cart = NULL THEN "assign" ELSE "mergeTx")
      BY <2>2, <2>f DEF EndRead
    <3> QED BY <2>g, <3>1 DEF MergeMove
  <2>3. CASE ReadUserCart(c)
    <3>1. PICK k : /\ k \in IF Latest(CartsOfUser(call[c].user)) = {} THEN {NULL}
                            ELSE Latest(CartsOfUser(call[c].user))
                   /\ call' = [call EXCEPT ![c].todo = @ \ {"mine"}, ![c].cart = k,
                               ![c].mine = IF k = NULL THEN Nothing ELSE QuantitiesIn(k)]
      BY ZenonT(30), <2>3 DEF ReadUserCart
    <3>2. /\ call'[c].todo = call[c].todo \ {"mine"} /\ call'[c].cart = k
          /\ call'[c].mine = (IF k = NULL THEN Nothing ELSE QuantitiesIn(k))
          /\ call'[c].pc = call[c].pc /\ TheirsKept(call[c], call'[c])
      BY <1>t, <3>1, CallShape DEF TheirsKept
    <3>3. call[c].pc = "read" /\ UNCHANGED carts
      BY <2>3 DEF ReadUserCart
    <3>4. CartsOfUser(call[c].user) \in SUBSET Calls
      BY DEF CartsOfUser
    <3>5. \/ k = NULL /\ CartsOfUser(call[c].user) = {}
          \/ k \in CartsOfUser(call[c].user) /\ k # NULL
      BY <3>1, <3>4, LatestExists, ShopConstants DEF Latest
    <3> QED BY <3>2, <3>3, <3>5 DEF MergeMove
  <2>4. CASE ReadGuestCart(c)
    <3>1. PICK k : /\ k \in IF Latest(CartsOfGuest(call[c].guest)) = {} THEN {NULL}
                            ELSE Latest(CartsOfGuest(call[c].guest))
                   /\ call' = [call EXCEPT ![c].todo = @ \ {"theirs"}, ![c].from = k,
                               ![c].theirs = IF k = NULL THEN Nothing ELSE QuantitiesIn(k)]
      BY ZenonT(30), <2>4 DEF ReadGuestCart
    <3>2. /\ call'[c].todo = call[c].todo \ {"theirs"} /\ call'[c].from = k
          /\ call'[c].theirs = (IF k = NULL THEN Nothing ELSE QuantitiesIn(k))
          /\ call'[c].pc = call[c].pc /\ MineKept(call[c], call'[c])
      BY <1>t, <3>1, CallShape DEF MineKept
    <3>3. call[c].pc = "read" /\ UNCHANGED carts
      BY <2>4 DEF ReadGuestCart
    <3>4. CartsOfGuest(call[c].guest) \in SUBSET Calls
      BY DEF CartsOfGuest
    <3>5. \/ k = NULL /\ CartsOfGuest(call[c].guest) = {}
          \/ k \in CartsOfGuest(call[c].guest) /\ k # NULL
      BY SMTT(30), <3>1, <3>4, LatestExists, ShopConstants DEF Latest
    <3> QED BY <3>2, <3>3, <3>5 DEF MergeMove
  <2>5. CASE CartStep(c) /\ ~EndRead(c) /\ ~ReadUserCart(c) /\ ~ReadGuestCart(c)
    BY ZenonT(30), <2>5, <2>f, <2>k
       DEF CartStep, FindCart, CreateCart, FindItem, CheckStock, InsertItem, FindForDelta, DeleteForDelta,
           ReadStock, WriteQuantity, RemoveCartItem, ClearCart, AssignCart, MergeCartUser
  <2>6. CASE ~CartStep(c) /\ ~ReadSeenSession(c) /\ ~AttachGuestSession(c)
    BY <1>3, <2>6, <2>k
       DEF OwnStep, WishStep, CreateAddress, UpdateAddress, SetDefault, SoftDelete,
           FindWishlist, CreateWishlist, FindWish, InsertWish, DeleteWish, DeleteWishlist
  <2> QED BY <2>1, <2>2, <2>3, <2>4, <2>5, <2>6
<1>4. CASE UNCHANGED call
  BY <1>2, <1>4 DEF Still, Sent
<1>5. CASE \E x \in Calls : Arrival(x) \/ OwnStep(x)
  <2>1. PICK x \in Calls : Arrival(x) \/ OwnStep(x)
    BY <1>5
  <2>2. CASE x # c
    BY <1>2, <2>1, <2>2, Bystanders
  <2>3. CASE x = c
    BY <1>1, <1>3, <2>1, <2>3, ArrivalLeaves DEF MergeMove
  <2> QED BY <2>2, <2>3
<1> QED BY <1>4, <1>5, WhoSteps

\* A cart, or a wishlist, is created by a request that has just found none.
LEMMA CreateLooks ==
    ASSUME TypeOK, RequestInv, Moved, [Next]_shoppingVars, NEW c \in Calls
    PROVE  /\ call'[c].pc = "create" /\ call[c].pc # "create" =>
                 UNCHANGED carts /\ OwnCarts(c) = {} /\ call[c].pc # "idle"
           /\ call'[c].pc = "newWishlist" /\ call[c].pc # "newWishlist" =>
                 UNCHANGED wishlists /\ OwnWishlists(c) = {} /\ call[c].pc # "idle"
<1>t. /\ call \in [Calls -> Call] /\ call[c] \in Call /\ PlaceOK(call[c]) /\ RequestMove(c)
  BY DEF TypeOK, ShopTypeOK, RequestInv, Moved
<1> SUFFICES ASSUME call'[c].pc \in {"create", "newWishlist"}, call'[c].pc # call[c].pc
             PROVE  /\ call'[c].pc = "create" =>
                         UNCHANGED carts /\ OwnCarts(c) = {} /\ call[c].pc # "idle"
                    /\ call'[c].pc = "newWishlist" =>
                         UNCHANGED wishlists /\ OwnWishlists(c) = {} /\ call[c].pc # "idle"
  BY Zenon
<1>1. Onward(call[c], call'[c].pc)
  <2>1. ~Arrives(call'[c])
    BY DEF Arrives, AddressKinds
  <2>2. ~Takes(c, call[c], call'[c])
    BY <1>t DEF Takes, PlaceOK, WishKinds
  <2>3. ~Still(call[c], call'[c])
    BY DEF Still
  <2> QED BY <1>t, <2>1, <2>2, <2>3 DEF RequestMove
<1>2. \/ call[c].pc = "cart" /\ call'[c].pc = "create"
      \/ call[c].pc = "wishlist" /\ call'[c].pc = "newWishlist"
  BY <1>1, <1>t DEF Onward, PlaceOK, Entry, CartKinds, WishKinds, AddressKinds
<1>3. OwnStep(c)
  <2>1. call'[c] # call[c]
    OBVIOUS
  <2>2. PICK x \in Calls : Arrival(x) \/ OwnStep(x)
    BY <2>1, WhoSteps
  <2>3. x = c
    BY <2>2, Bystanders DEF Still
  <2> QED BY <1>2, <2>2, <2>3, ArrivalLeaves
<1>f. ~Finish(c)
  BY <1>t, FinishFacts
<1>4. CASE call[c].pc = "cart" /\ call'[c].pc = "create"
  <2>1. FindCart(c)
    BY SMTT(30), <1>3, <1>4, StepIsAt
  <2>2. CASE OwnCarts(c) = {}
    BY ZenonT(30), <1>4, <2>1, <2>2 DEF FindCart
  <2>3. CASE OwnCarts(c) # {}
    <3>1. PICK k \in Latest(OwnCarts(c)) :
             LET r == [call[c] EXCEPT !.cart = k] IN
             /\ call[c].kind = "add"
             /\ call' = [call EXCEPT ![c] =
                    IF r.user # NULL THEN [r EXCEPT !.pc = "item"]
                    ELSE WithItem(r, carts[k].items[r.variant])]
      BY ZenonT(30), <1>f, <2>1, <2>3 DEF FindCart
    <3> DEFINE r == [call[c] EXCEPT !.cart = k]
    <3>2. call'[c] = IF r.user # NULL THEN [r EXCEPT !.pc = "item"]
                     ELSE WithItem(r, carts[k].items[r.variant])
      BY <1>t, <3>1
    <3>3. "pc" \in DOMAIN r
      BY <1>t, CallShape
    <3>4. PICK item : item = carts[k].items[r.variant]
      OBVIOUS
    <3> HIDE DEF r
    <3>5. WithItem(r, item).pc \in {"check", "stock"}
      BY <3>3 DEF WithItem
    <3>6. [r EXCEPT !.pc = "item"].pc = "item"
      BY <3>3
    <3> QED BY SMTT(30), <1>4, <3>2, <3>4, <3>5, <3>6
  <2> QED BY <2>2, <2>3
<1>5. CASE call[c].pc = "wishlist" /\ call'[c].pc = "newWishlist"
  <2>1. FindWishlist(c)
    BY <1>3, <1>5, StepIsAt
  <2>2. CASE OwnWishlists(c) # {}
    <3>1. PICK k : call' = [call EXCEPT ![c].cart = k,
                               ![c].pc = IF call[c].kind = "addWish" THEN "wish" ELSE call[c].kind]
      BY <1>f, <2>1, <2>2 DEF FindWishlist
    <3>2. call'[c].pc = IF call[c].kind = "addWish" THEN "wish" ELSE call[c].kind
      BY <1>t, <3>1, CallShape
    <3>3. call[c].kind \in WishKinds
      BY <1>5, <1>t DEF PlaceOK
    <3> QED BY <1>5, <3>2, <3>3 DEF WishKinds
  <2> QED BY <1>5, <2>1, <2>2 DEF FindWishlist
<1> QED BY <1>2, <1>4, <1>5

(* ----------------------- One cart for each shopper ----------------------- *)

\* A request that has found no cart, and is about to make one, or to take one over.
NoCartFound(c) ==
    \/ call[c].pc \in {"create", "assign"}
    \/ call[c].pc = "read" /\ "mine" \notin call[c].todo /\ call[c].cart = NULL

\* A merge begins with both reads before it.
ReadInv ==
    \A c \in Calls : call[c].kind = "merge" /\ call[c].pc \in {"seen", "attach"} =>
        call[c].todo = {"mine", "theirs"}

\* Carts are one more than they should be for each overlapping request at most,
\* and who has met nobody still finds none.
CartInv ==
    /\ \A g \in Guests :
          /\ Cardinality(CartsOfGuest(g)) <= 1 + Cardinality(PastGuest(g))
          /\ \A c \in Calls :
                call[c].guest = g /\ call[c].user = NULL /\ ~call[c].overlapped /\ call[c].pc = "create"
                    => CartsOfGuest(g) = {}
    /\ \A u \in Users :
          /\ Cardinality(CartsOfUser(u)) <= 1 + Cardinality(PastUser(u))
          /\ \A c \in Calls : call[c].user = u /\ ~call[c].overlapped /\ NoCartFound(c)
                                 => CartsOfUser(u) = {}

\* A merge keeps its reads before it while it waits for the guard.
LEMMA ReadStep ==
    ASSUME TypeOK, RequestInv, ReadInv, Moved, [Next]_shoppingVars
    PROVE  ReadInv'
<1> SUFFICES ASSUME NEW c \in Calls, call'[c].kind = "merge", call'[c].pc \in {"seen", "attach"}
             PROVE  call'[c].todo = {"mine", "theirs"}
  BY DEF ReadInv
<1>1. MergeMove(c) /\ call'[c].pc \in Steps
  BY MergeMoves DEF Steps
<1>2. call[c].pc # "idle" => Sent(call[c], call'[c])
  BY Remembers
<1>3. call[c] \in Call /\ call'[c] \in Call
  BY DEF TypeOK, ShopTypeOK, Moved
<1>4. call[c].todo \in Todos /\ call'[c].todo \in Todos
  BY <1>3, CallShape
<1>5. CASE /\ MineKept(call[c], call'[c]) /\ TheirsKept(call[c], call'[c])
           /\ call[c].pc \in {"seen", "attach"} /\ call[c].kind = "merge"
  BY <1>4, <1>5 DEF ReadInv, MineKept, TheirsKept, Todos
<1>6. call[c].pc # "idle" => call[c].kind = "merge"
  BY <1>2 DEF Sent
<1> QED BY <1>1, <1>5, <1>6 DEF MergeMove

\* Two requests that are under way for one shopper have met.
LEMMA Met ==
    ASSUME PeersInv, NEW c \in Calls, NEW e \in Calls, c # e, UnderWay(c), UnderWay(e),
           \/ call[c].guest = call[e].guest /\ call[c].guest \in Guests
           \/ call[c].user = call[e].user /\ call[c].user \in Users
    PROVE  call[c].overlapped
<1>1. Same(call[c], call[e])
  BY ShopConstants DEF Same
<1> QED BY <1>1 DEF PeersInv, Rivals

\* Guests: a cart more is one that a request has created.
LEMMA GuestCartsStep ==
    ASSUME TypeOK, RequestInv, PeersInv, CartInv, Moved, [Next]_shoppingVars, NEW g \in Guests
    PROVE  /\ Cardinality(CartsOfGuest(g)') <= 1 + Cardinality(PastGuest(g)')
           /\ \A c \in Calls :
                 call'[c].guest = g /\ call'[c].user = NULL /\ ~call'[c].overlapped
                     /\ call'[c].pc = "create" => CartsOfGuest(g)' = {}
<1> DEFINE A == CartsOfGuest(g)
           B == CartsOfGuest(g)'
<1>1. CartsMove
  BY CartsMoves
<1>2. /\ A \in SUBSET Calls /\ Cardinality(A) <= 1 + Cardinality(PastGuest(g))
      /\ IsFiniteSet(A) /\ IsFiniteSet(PastGuest(g)')
      /\ PastGuest(g) \subseteq PastGuest(g)'
  BY FiniteRows, CreditsGrow DEF CartsOfGuest, CartInv
<1>3. B \subseteq A => Cardinality(B) <= 1 + Cardinality(PastGuest(g)')
  BY <1>2, Credit
<1>4. \/ B \subseteq A
      \/ \E e \in Calls :
            /\ call[e].pc = "create" /\ call'[e].pc \notin Before
            /\ call[e].user = NULL /\ call[e].guest = g /\ B \subseteq A \union {e}
  <2>1. CASE \A j \in Calls : CartKept(j)
    BY <2>1 DEF CartsOfGuest, CartKept
  <2>2. ASSUME NEW e \in Calls, call[e].pc = "create", call'[e].pc \notin Before,
               \A j \in Calls : j # e => CartKept(j),
               carts'[e].guest = IF call[e].user = NULL THEN call[e].guest ELSE NULL
        PROVE  \/ B \subseteq A
               \/ call[e].user = NULL /\ call[e].guest = g /\ B \subseteq A \union {e}
    <3>1. B \subseteq A \union {e}
      BY <2>2 DEF CartsOfGuest, CartKept
    <3>2. carts'[e].guest # g => B \subseteq A
      BY <2>2 DEF CartsOfGuest, CartKept
    <3> QED BY <2>2, <3>1, <3>2, ShopConstants
  <2>3. ASSUME NEW e \in Calls, NEW k \in Calls, carts[k].exists, carts'[k].guest = carts[k].guest,
               \A j \in Calls : j # k => CartKept(j)
        PROVE  B \subseteq A
    BY <2>3 DEF CartsOfGuest, CartKept
  <2> QED BY <1>1, <2>1, <2>2, <2>3 DEF CartsMove
<1>5. ASSUME NEW e \in Calls, call[e].pc = "create", call[e].user = NULL, call[e].guest = g
      PROVE  call[e].overlapped \/ A = {}
  BY <1>5 DEF CartInv
<1>6. Cardinality(B) <= 1 + Cardinality(PastGuest(g)')
  <2>1. ASSUME NEW e \in Calls, call[e].pc = "create", call'[e].pc \notin Before,
               call[e].user = NULL, call[e].guest = g, B \subseteq A \union {e}
        PROVE  Cardinality(B) <= 1 + Cardinality(PastGuest(g)')
    <3>1. call[e].pc \in Before /\ call[e].pc # "idle"
      BY <2>1 DEF Before
    <3>2. call[e].overlapped \/ A = {}
      BY <1>5, <2>1
    <3> QED BY <1>2, <2>1, <3>1, <3>2, OneMore
  <2> QED BY <1>3, <1>4, <2>1
<1>7. ASSUME NEW c \in Calls, call'[c].guest = g, call'[c].user = NULL,
             ~call'[c].overlapped, call'[c].pc = "create"
      PROVE  B = {}
  <2>1. /\ call[c].pc # "create" => UNCHANGED carts /\ OwnCarts(c) = {}
        /\ call[c].pc # "idle"
    BY <1>7, CreateLooks
  <2>2. Sent(call[c], call'[c]) /\ ~call[c].overlapped /\ call[c].pc \in Steps
    BY <1>7, <2>1, Remembers DEF Steps
  <2>3. call[c].guest = g /\ call[c].user = NULL
    BY <1>7, <2>2 DEF Sent
  <2>4. CASE call[c].pc # "create"
    <3>1. A = {} /\ UNCHANGED carts
      BY <2>1, <2>3, <2>4 DEF OwnCarts
    <3> QED BY <3>1 DEF CartsOfGuest
  <2>5. CASE call[c].pc = "create"
    <3>1. A = {}
      BY <1>5, <2>2, <2>3, <2>5
    <3>2. ASSUME NEW e \in Calls, call[e].pc = "create", call'[e].pc \notin Before, call[e].guest = g
          PROVE  FALSE
      <4>1. e # c
        BY <1>7, <3>2 DEF Before
      <4>2. UnderWay(c) /\ UnderWay(e)
        BY <2>2, <3>2 DEF UnderWay, Steps
      <4> QED BY <2>2, <2>3, <3>2, <4>1, <4>2, Met
    <3> QED BY <1>4, <3>1, <3>2
  <2> QED BY <2>4, <2>5
<1> QED BY <1>6, <1>7

\* Users: a cart more is one that a request has created or that a merge assigns.
LEMMA UserCartsStep ==
    ASSUME TypeOK, RequestInv, PeersInv, ReadInv, CartInv, Moved, [Next]_shoppingVars, NEW u \in Users
    PROVE  /\ Cardinality(CartsOfUser(u)') <= 1 + Cardinality(PastUser(u)')
           /\ \A c \in Calls : call'[c].user = u /\ ~call'[c].overlapped /\ NoCartFound(c)'
                                  => CartsOfUser(u)' = {}
<1> DEFINE A == CartsOfUser(u)
           B == CartsOfUser(u)'
<1>1. CartsMove
  BY CartsMoves
<1>2. /\ A \in SUBSET Calls /\ Cardinality(A) <= 1 + Cardinality(PastUser(u))
      /\ IsFiniteSet(A) /\ IsFiniteSet(PastUser(u)')
      /\ PastUser(u) \subseteq PastUser(u)'
  BY FiniteRows, CreditsGrow DEF CartsOfUser, CartInv
<1>3. B \subseteq A => Cardinality(B) <= 1 + Cardinality(PastUser(u)')
  BY <1>2, Credit
<1>4. \/ B \subseteq A
      \/ \E e, k \in Calls :
            /\ call[e].pc \in {"create", "assign"} /\ call'[e].pc \notin Before
            /\ call[e].user = u /\ B \subseteq A \union {k}
  <2>1. CASE \A j \in Calls : CartKept(j)
    BY <2>1 DEF CartsOfUser, CartKept
  <2>2. ASSUME NEW e \in Calls, NEW k \in Calls,
               call[e].pc \in {"create", "assign"}, call'[e].pc \notin Before,
               \A j \in Calls : j # k => CartKept(j), carts'[k].user = call[e].user
        PROVE  \/ B \subseteq A
               \/ call[e].user = u /\ B \subseteq A \union {k}
    <3>1. B \subseteq A \union {k}
      BY <2>2 DEF CartsOfUser, CartKept
    <3>2. carts'[k].user # u => B \subseteq A
      BY <2>2 DEF CartsOfUser, CartKept
    <3> QED BY <2>2, <3>1, <3>2
  <2> QED BY <1>1, <2>1, <2>2 DEF CartsMove
<1>5. ASSUME NEW e \in Calls, call[e].user = u, NoCartFound(e)
      PROVE  call[e].overlapped \/ A = {}
  BY <1>5 DEF CartInv
<1>6. Cardinality(B) <= 1 + Cardinality(PastUser(u)')
  <2>1. ASSUME NEW e \in Calls, NEW k \in Calls, call[e].pc \in {"create", "assign"},
               call'[e].pc \notin Before, call[e].user = u, B \subseteq A \union {k}
        PROVE  Cardinality(B) <= 1 + Cardinality(PastUser(u)')
    <3>1. call[e].pc \in Before /\ call[e].pc # "idle"
      BY <2>1 DEF Before
    <3>2. call[e].overlapped \/ A = {}
      BY <1>5, <2>1 DEF NoCartFound
    <3> QED BY <1>2, <2>1, <3>1, <3>2, OneMore
  <2> QED BY <1>3, <1>4, <2>1
<1>7. ASSUME NEW c \in Calls, call'[c].user = u, ~call'[c].overlapped, NoCartFound(c)'
      PROVE  B = {}
  <2>0. call'[c].pc \in {"create", "assign", "read"}
    BY <1>7 DEF NoCartFound
  <2>1. call[c].pc # "idle"
    <3>1. RequestMove(c)
      BY DEF Moved
    <3> QED BY <2>0, <3>1 DEF RequestMove, Still, Arrives, Onward, Takes, Steps, AddressKinds
  <2>2. Sent(call[c], call'[c]) /\ ~call[c].overlapped /\ call[c].pc \in Steps
    BY <1>7, <2>0, <2>1, Remembers DEF Steps
  <2>3. call[c].user = u
    BY <1>7, <2>2 DEF Sent
  <2>4. NoCartFound(c) \/ (A = {} /\ UNCHANGED carts)
    <3>1. CASE call'[c].pc = "create"
      <4>1. CASE call[c].pc # "create"
        <5>1. UNCHANGED carts /\ OwnCarts(c) = {}
          BY <3>1, <4>1, CreateLooks
        <5> QED BY <2>3, <5>1, ShopConstants DEF OwnCarts
      <4> QED BY <4>1 DEF NoCartFound
    <3>2. CASE call'[c].pc \in {"assign", "read"}
      <4>1. call'[c].kind = "merge" /\ call[c].kind = "merge" /\ call'[c].pc \in Steps
        <5>1. RequestInv'
          BY RequestStep
        <5>2. PlaceOK(call'[c])
          BY <5>1 DEF RequestInv
        <5> QED BY <2>2, <3>2, <5>2 DEF PlaceOK, Sent, Steps
      <4>2. MergeMove(c)
        BY MergeMoves
      <4>3. CASE call[c].pc \in {"seen", "attach"}
        <5>1. "mine" \in call[c].todo
          BY <4>1, <4>3 DEF ReadInv
        <5>2. MineKept(call[c], call'[c]) /\ call'[c].pc = "read"
          BY <3>2, <4>1, <4>2, <4>3 DEF MergeMove
        <5> QED BY <1>7, <5>1, <5>2 DEF MineKept, NoCartFound
      <4>4. CASE MineKept(call[c], call'[c]) /\ call[c].pc \notin {"seen", "attach"}
        <5>1. \/ call'[c].pc = call[c].pc
              \/ call[c].pc = "read" /\ call'[c].pc = "assign" /\ call[c].todo = {} /\ call[c].cart = NULL
          BY <2>1, <3>2, <4>1, <4>2, <4>4 DEF MergeMove
        <5> QED BY <1>7, <4>4, <5>1 DEF MineKept, NoCartFound
      <4>5. CASE /\ UNCHANGED carts /\ call'[c].pc = "read"
                 /\ \/ call'[c].cart = NULL /\ CartsOfUser(call[c].user) = {}
                    \/ call'[c].cart \in CartsOfUser(call[c].user)
        <5>1. call'[c].cart = NULL
          BY <1>7, <4>5 DEF NoCartFound
        <5>2. NULL \notin CartsOfUser(call[c].user)
          BY ShopConstants DEF CartsOfUser
        <5> QED BY <2>3, <4>5, <5>1, <5>2
      <4> QED BY <2>1, <4>1, <4>2, <4>3, <4>4, <4>5 DEF MergeMove
    <3> QED BY <2>0, <3>1, <3>2
  <2>5. CASE A = {} /\ UNCHANGED carts
    BY <2>5 DEF CartsOfUser
  <2>6. CASE NoCartFound(c)
    <3>1. A = {}
      BY <1>5, <2>2, <2>3, <2>6
    <3>2. ASSUME NEW e \in Calls, call[e].pc \in {"create", "assign"}, call'[e].pc \notin Before,
                 call[e].user = u
          PROVE  FALSE
      <4>1. e # c
        BY <2>0, <3>2 DEF Before
      <4>2. UnderWay(c) /\ UnderWay(e)
        BY <2>2, <3>2 DEF UnderWay, Steps
      <4> QED BY <2>2, <2>3, <3>2, <4>1, <4>2, Met
    <3> QED BY <1>4, <3>1, <3>2
  <2> QED BY <2>4, <2>5, <2>6
<1> QED BY <1>6, <1>7

(* --------------------- One wishlist for each shopper --------------------- *)

ListsOfGuest(g) == LiveLists({k \in Calls : wishlists[k].guest = g})

ListsOfUser(u) == LiveLists({k \in Calls : wishlists[k].user = u})

\* The same for wishlists that were not cleared.
ListInv ==
    /\ \A g \in Guests :
          /\ Cardinality(ListsOfGuest(g)) <= 1 + Cardinality(PastGuest(g))
          /\ \A c \in Calls :
                call[c].guest = g /\ call[c].user = NULL /\ ~call[c].overlapped
                    /\ call[c].pc = "newWishlist" => ListsOfGuest(g) = {}
    /\ \A u \in Users :
          /\ Cardinality(ListsOfUser(u)) <= 1 + Cardinality(PastUser(u))
          /\ \A c \in Calls :
                call[c].user = u /\ ~call[c].overlapped /\ call[c].pc = "newWishlist"
                    => ListsOfUser(u) = {}

\* A list that is there was there and was the same shopper's.
ListKept(j) ==
    wishlists'[j].exists /\ ~wishlists'[j].deleted =>
        /\ wishlists[j].exists /\ ~wishlists[j].deleted
        /\ wishlists'[j].user = wishlists[j].user /\ wishlists'[j].guest = wishlists[j].guest

\* Lists come from requests that create one.
ListCreated ==
    \E c \in Calls :
        /\ call[c].pc = "newWishlist" /\ call'[c].pc \notin Before
        /\ \A j \in Calls : j # c => ListKept(j)
        /\ wishlists'[c].user = call[c].user
        /\ wishlists'[c].guest = IF call[c].user = NULL THEN call[c].guest ELSE NULL

\* What any step does to lists.
LEMMA ListsCreated ==
    ASSUME TypeOK, RequestInv, [Next]_shoppingVars
    PROVE  (\A j \in Calls : ListKept(j)) \/ ListCreated
<1>t. /\ wishlists \in [Calls -> WishlistRow] /\ call \in [Calls -> Call]
  BY DEF TypeOK, ShopTypeOK
<1>1. CASE UNCHANGED wishlists
  BY <1>1 DEF ListKept
<1>2. CASE CascadeWishlists
  <2>1. ~NoWishlist.exists
    BY DEF NoWishlist
  <2> QED BY <1>2, <2>1 DEF CascadeWishlists, ListKept
<1>3. ASSUME NEW c \in Calls, CreateWishlist(c), ~UNCHANGED wishlists
      PROVE  ListCreated
  <2> DEFINE g == IF call[c].user = NULL THEN call[c].guest ELSE NULL
  <2>1. /\ wishlists' = [wishlists EXCEPT ![c] =
              [NoWishlist EXCEPT !.exists = TRUE, !.user = call[c].user, !.guest = g, !.updatedAt = now]]
        /\ call[c].pc = "newWishlist"
    BY <1>3 DEF CreateWishlist
  <2>2. call'[c].pc \notin Before
    <3>1. \/ Finish(c)
          \/ call' = [call EXCEPT ![c].cart = c, ![c].pc = "wish"]
      BY <1>3 DEF CreateWishlist
    <3>2. CASE ~Finish(c)
      BY <1>t, <3>1, <3>2, CallShape DEF Before
    <3> QED BY <1>t, <3>2, FinishFacts DEF Before
  <2>3. /\ wishlists'[c].user = call[c].user /\ wishlists'[c].guest = g
        /\ \A j \in Calls : j # c => wishlists'[j] = wishlists[j]
    BY <1>t, <2>1 DEF NoWishlist
  <2> QED BY <2>1, <2>2, <2>3 DEF ListCreated, ListKept
<1>4. ASSUME NEW c \in Calls, InsertWish(c) \/ DeleteWishlist(c), NEW j \in Calls
      PROVE  ListKept(j)
  <2>1. CASE UNCHANGED wishlists
    BY <2>1 DEF ListKept
  <2>2. CASE wishlists' = [wishlists EXCEPT ![call[c].cart].items[call[c].variant] = c]
    <3>1. CASE j = call[c].cart
      <4>1. wishlists'[j] = [wishlists[j] EXCEPT !.items[call[c].variant] = c]
        BY <1>t, <2>2, <3>1
      <4> QED BY <1>t, <4>1 DEF ListKept, WishlistRow
    <3>2. CASE j # call[c].cart
      BY <1>t, <2>2, <3>2 DEF ListKept
    <3> QED BY <3>1, <3>2
  <2>3. CASE wishlists' = [wishlists EXCEPT ![call[c].cart].deleted = TRUE,
                                            ![call[c].cart].updatedAt = now]
    <3>1. CASE j = call[c].cart
      <4>1. wishlists'[j] = [wishlists[j] EXCEPT !.deleted = TRUE, !.updatedAt = now]
        BY <1>t, <2>3, <3>1
      <4> QED BY <1>t, <4>1 DEF ListKept, WishlistRow
    <3>2. CASE j # call[c].cart
      BY <1>t, <2>3, <3>2 DEF ListKept
    <3> QED BY <3>1, <3>2
  <2>4. CASE InsertWish(c)
    BY <2>1, <2>2, <2>4 DEF InsertWish
  <2>5. CASE DeleteWishlist(c)
    BY <2>1, <2>3, <2>5 DEF DeleteWishlist
  <2> QED BY <1>4, <2>4, <2>5
<1>5. ASSUME NEW c \in Calls, DeleteWish(c), NEW j \in Calls
      PROVE  ListKept(j)
  BY <1>t, <1>5 DEF DeleteWish, WithoutItem, ListKept, WishlistRow
<1>6. CASE \E c \in Calls : WishStep(c)
  BY <1>1, <1>3, <1>4, <1>5, <1>6 DEF WishStep, FindWishlist, FindWish
<1> QED BY <1>1, <1>2, <1>6 DEF Next, shoppingVars

\* Guests: a list more is one that a request has created.
LEMMA GuestListsStep ==
    ASSUME TypeOK, RequestInv, PeersInv, ListInv, Moved, [Next]_shoppingVars, NEW g \in Guests
    PROVE  /\ Cardinality(ListsOfGuest(g)') <= 1 + Cardinality(PastGuest(g)')
           /\ \A c \in Calls :
                 call'[c].guest = g /\ call'[c].user = NULL /\ ~call'[c].overlapped
                     /\ call'[c].pc = "newWishlist" => ListsOfGuest(g)' = {}
<1> DEFINE A == ListsOfGuest(g)
           B == ListsOfGuest(g)'
<1>1. (\A j \in Calls : ListKept(j)) \/ ListCreated
  BY ListsCreated
<1>2. /\ A \in SUBSET Calls /\ Cardinality(A) <= 1 + Cardinality(PastGuest(g))
      /\ IsFiniteSet(A) /\ IsFiniteSet(PastGuest(g)')
      /\ PastGuest(g) \subseteq PastGuest(g)'
  BY FiniteRows, CreditsGrow DEF ListsOfGuest, LiveLists, ListInv
<1>3. B \subseteq A => Cardinality(B) <= 1 + Cardinality(PastGuest(g)')
  BY <1>2, Credit
<1>4. \/ B \subseteq A
      \/ \E e \in Calls :
            /\ call[e].pc = "newWishlist" /\ call'[e].pc \notin Before
            /\ call[e].user = NULL /\ call[e].guest = g /\ B \subseteq A \union {e}
  <2>1. CASE \A j \in Calls : ListKept(j)
    BY <2>1 DEF ListsOfGuest, LiveLists, ListKept
  <2>2. ASSUME NEW e \in Calls, \A j \in Calls : j # e => ListKept(j),
               wishlists'[e].guest = IF call[e].user = NULL THEN call[e].guest ELSE NULL
        PROVE  \/ B \subseteq A
               \/ call[e].user = NULL /\ call[e].guest = g /\ B \subseteq A \union {e}
    <3>1. B \subseteq A \union {e}
      BY <2>2 DEF ListsOfGuest, LiveLists, ListKept
    <3>2. wishlists'[e].guest # g => B \subseteq A
      BY <2>2 DEF ListsOfGuest, LiveLists, ListKept
    <3> QED BY <2>2, <3>1, <3>2, ShopConstants
  <2> QED BY <1>1, <2>1, <2>2 DEF ListCreated
<1>5. ASSUME NEW e \in Calls, call[e].pc = "newWishlist", call[e].user = NULL, call[e].guest = g
      PROVE  call[e].overlapped \/ A = {}
  BY <1>5 DEF ListInv
<1>6. Cardinality(B) <= 1 + Cardinality(PastGuest(g)')
  <2>1. ASSUME NEW e \in Calls, call[e].pc = "newWishlist", call'[e].pc \notin Before,
               call[e].user = NULL, call[e].guest = g, B \subseteq A \union {e}
        PROVE  Cardinality(B) <= 1 + Cardinality(PastGuest(g)')
    <3>1. call[e].pc \in Before /\ call[e].pc # "idle"
      BY <2>1 DEF Before
    <3>2. call[e].overlapped \/ A = {}
      BY <1>5, <2>1
    <3> QED BY <1>2, <2>1, <3>1, <3>2, OneMore
  <2> QED BY <1>3, <1>4, <2>1
<1>7. ASSUME NEW c \in Calls, call'[c].guest = g, call'[c].user = NULL,
             ~call'[c].overlapped, call'[c].pc = "newWishlist"
      PROVE  B = {}
  <2>1. /\ call[c].pc # "newWishlist" => UNCHANGED wishlists /\ OwnWishlists(c) = {}
        /\ call[c].pc # "idle"
    BY <1>7, CreateLooks
  <2>2. Sent(call[c], call'[c]) /\ ~call[c].overlapped /\ call[c].pc \in Steps
    BY <1>7, <2>1, Remembers DEF Steps
  <2>3. call[c].guest = g /\ call[c].user = NULL
    BY <1>7, <2>2 DEF Sent
  <2>4. CASE call[c].pc # "newWishlist"
    <3>1. A = {} /\ UNCHANGED wishlists
      BY <2>1, <2>3, <2>4 DEF OwnWishlists, IsOf, ListsOfGuest, LiveLists
    <3> QED BY <3>1 DEF ListsOfGuest, LiveLists
  <2>5. CASE call[c].pc = "newWishlist"
    <3>1. A = {}
      BY <1>5, <2>2, <2>3, <2>5
    <3>2. ASSUME NEW e \in Calls, call[e].pc = "newWishlist", call'[e].pc \notin Before,
                 call[e].guest = g
          PROVE  FALSE
      <4>1. e # c
        BY <1>7, <3>2 DEF Before
      <4>2. UnderWay(c) /\ UnderWay(e)
        BY <2>2, <3>2 DEF UnderWay, Steps
      <4> QED BY <2>2, <2>3, <3>2, <4>1, <4>2, Met
    <3> QED BY <1>4, <3>1, <3>2
  <2> QED BY <2>4, <2>5
<1> QED BY <1>6, <1>7

\* Users: the same.
LEMMA UserListsStep ==
    ASSUME TypeOK, RequestInv, PeersInv, ListInv, Moved, [Next]_shoppingVars, NEW u \in Users
    PROVE  /\ Cardinality(ListsOfUser(u)') <= 1 + Cardinality(PastUser(u)')
           /\ \A c \in Calls :
                 call'[c].user = u /\ ~call'[c].overlapped /\ call'[c].pc = "newWishlist"
                     => ListsOfUser(u)' = {}
<1> DEFINE A == ListsOfUser(u)
           B == ListsOfUser(u)'
<1>1. (\A j \in Calls : ListKept(j)) \/ ListCreated
  BY ListsCreated
<1>2. /\ A \in SUBSET Calls /\ Cardinality(A) <= 1 + Cardinality(PastUser(u))
      /\ IsFiniteSet(A) /\ IsFiniteSet(PastUser(u)')
      /\ PastUser(u) \subseteq PastUser(u)'
  BY FiniteRows, CreditsGrow DEF ListsOfUser, LiveLists, ListInv
<1>3. B \subseteq A => Cardinality(B) <= 1 + Cardinality(PastUser(u)')
  BY <1>2, Credit
<1>4. \/ B \subseteq A
      \/ \E e \in Calls :
            /\ call[e].pc = "newWishlist" /\ call'[e].pc \notin Before
            /\ call[e].user = u /\ B \subseteq A \union {e}
  <2>1. CASE \A j \in Calls : ListKept(j)
    BY <2>1 DEF ListsOfUser, LiveLists, ListKept
  <2>2. ASSUME NEW e \in Calls, \A j \in Calls : j # e => ListKept(j),
               wishlists'[e].user = call[e].user
        PROVE  \/ B \subseteq A
               \/ call[e].user = u /\ B \subseteq A \union {e}
    <3>1. B \subseteq A \union {e}
      BY <2>2 DEF ListsOfUser, LiveLists, ListKept
    <3>2. wishlists'[e].user # u => B \subseteq A
      BY <2>2 DEF ListsOfUser, LiveLists, ListKept
    <3> QED BY <2>2, <3>1, <3>2
  <2> QED BY <1>1, <2>1, <2>2 DEF ListCreated
<1>5. ASSUME NEW e \in Calls, call[e].pc = "newWishlist", call[e].user = u
      PROVE  call[e].overlapped \/ A = {}
  BY <1>5 DEF ListInv
<1>6. Cardinality(B) <= 1 + Cardinality(PastUser(u)')
  <2>1. ASSUME NEW e \in Calls, call[e].pc = "newWishlist", call'[e].pc \notin Before,
               call[e].user = u, B \subseteq A \union {e}
        PROVE  Cardinality(B) <= 1 + Cardinality(PastUser(u)')
    <3>1. call[e].pc \in Before /\ call[e].pc # "idle"
      BY <2>1 DEF Before
    <3>2. call[e].overlapped \/ A = {}
      BY <1>5, <2>1
    <3> QED BY <1>2, <2>1, <3>1, <3>2, OneMore
  <2> QED BY <1>3, <1>4, <2>1
<1>7. ASSUME NEW c \in Calls, call'[c].user = u, ~call'[c].overlapped,
             call'[c].pc = "newWishlist"
      PROVE  B = {}
  <2>1. /\ call[c].pc # "newWishlist" => UNCHANGED wishlists /\ OwnWishlists(c) = {}
        /\ call[c].pc # "idle"
    BY <1>7, CreateLooks
  <2>2. Sent(call[c], call'[c]) /\ ~call[c].overlapped /\ call[c].pc \in Steps
    BY <1>7, <2>1, Remembers DEF Steps
  <2>3. call[c].user = u /\ u # NULL
    BY <1>7, <2>2, ShopConstants DEF Sent
  <2>4. CASE call[c].pc # "newWishlist"
    <3>1. A = {} /\ UNCHANGED wishlists
      BY <2>1, <2>3, <2>4 DEF OwnWishlists, IsOf, ListsOfUser, LiveLists
    <3> QED BY <3>1 DEF ListsOfUser, LiveLists
  <2>5. CASE call[c].pc = "newWishlist"
    <3>1. A = {}
      BY <1>5, <2>2, <2>3, <2>5
    <3>2. ASSUME NEW e \in Calls, call[e].pc = "newWishlist", call'[e].pc \notin Before,
                 call[e].user = u
          PROVE  FALSE
      <4>1. e # c
        BY <1>7, <3>2 DEF Before
      <4>2. UnderWay(c) /\ UnderWay(e)
        BY <2>2, <3>2 DEF UnderWay, Steps
      <4> QED BY <2>2, <2>3, <3>2, <4>1, <4>2, Met
    <3> QED BY <1>4, <3>1, <3>2
  <2> QED BY <2>4, <2>5
<1> QED BY <1>6, <1>7

(* ----------------------- One default address per user --------------------- *)

Defaults(u) == {a \in Active(u) : addresses[a].isDefault}

Disturbed(u) == {c \in Calls : call[c].user = u /\ call[c].overlapped /\ call[c].pc # "idle"}

\* The rows a request names are its user's.
Placed(r) ==
    /\ r.user \in Users
    /\ r.pc # "newAddress" => r.item \in Calls /\ addresses[r.item].user = r.user
    /\ r.pc = "dropAddress" /\ r.from # NULL =>
          r.from \in Calls /\ addresses[r.from].user = r.user

\* What a request has read of the addresses and what is there agree.
Knows(r) ==
    /\ r.pc = "newAddress" => r.quantity = Cardinality(Active(r.user))
    /\ r.pc \in {"setDefault", "dropAddress"} => r.item \in Active(r.user)
    /\ r.pc = "dropAddress" /\ r.from = NULL =>
          r.item \notin Defaults(r.user) \/ Active(r.user) = {r.item}
    /\ r.pc = "dropAddress" /\ r.from # NULL => r.from \in Active(r.user) /\ r.from # r.item

\* Default addresses are one, and one more for each overlapping request that got
\* through; a user whom nothing disturbed and who has addresses has one.
AddressInv ==
    /\ \A c \in Calls :
          call[c].pc \in AddressKinds =>
              Placed(call[c]) /\ (~call[c].overlapped => Knows(call[c]))
    /\ \A c \in Calls : call[c].pc \in {"idle", "newAddress"} => addresses[c] = NoAddress
    /\ \A u \in Users :
          /\ Cardinality(Defaults(u)) <= 1 + Cardinality(PastUser(u))
          /\ Disturbed(u) = {} /\ Active(u) # {} => Cardinality(Defaults(u)) = 1

\* What a request has found when it arrives is what is there.
LEMMA FoundAddresses ==
    ASSUME TypeOK, NEW c \in Calls, Arrival(c), call'[c].pc \in AddressKinds
    PROVE  Placed(call'[c]) /\ Knows(call'[c])
<1>t. call \in [Calls -> Call] /\ IdleCall \in Call
  BY EmptyRows DEF TypeOK, ShopTypeOK
<1>c. \A u : Cardinality(Active(u)) \in Nat
  <2>1. \A u : Active(u) \in SUBSET Calls
    BY DEF Active
  <2> QED BY <2>1, FiniteRows, FS_CardinalityType
<1>1. ASSUME NEW r \in Call, Begin(c, r), Placed(r) \/ r.pc \notin AddressKinds,
             Knows(r) \/ r.pc \notin AddressKinds
      PROVE  Placed(call'[c]) /\ Knows(call'[c])
  <2>1. Still(r, call'[c])
    BY <1>t, <1>1, BeginFacts
  <2> QED BY <1>1, <2>1 DEF Still, Sent, Placed, Knows
<1>2. ASSUME NEW u \in Users, CountAddresses(c, u)
      PROVE  Placed(call'[c]) /\ Knows(call'[c])
  <2>0. PICK n \in Nat : n = Cardinality(Active(u))
    BY <1>c
  <2> DEFINE r == [IdleCall EXCEPT !.kind = "newAddress", !.pc = "newAddress", !.user = u,
                                   !.quantity = n]
  <2>1. r \in Call /\ r.pc = "newAddress" /\ r.user = u /\ r.quantity = n
    <3>1. "newAddress" \in CallKinds /\ "newAddress" \in CallPcs /\ u \in AnyUser
      BY DEF CallKinds, CallPcs, Steps, AddressKinds, AnyUser
    <3> QED BY <1>t, <3>1, CallShape
  <2>2. Begin(c, r)
    BY <1>2, <2>0 DEF CountAddresses
  <2> HIDE DEF r
  <2>3. Placed(r) /\ Knows(r)
    BY <2>0, <2>1 DEF Placed, Knows
  <2> QED BY <1>1, <2>1, <2>2, <2>3
<1>3. ASSUME NEW u \in Users, NEW kind \in AddressKinds, NEW a \in Calls, FindAddress(c, kind, u, a)
      PROVE  Placed(call'[c]) /\ Knows(call'[c])
  <2> DEFINE others == Active(u) \ {a}
             drops == kind = "dropAddress" /\ addresses[a].isDefault /\ others # {}
  <2>0. kind # "newAddress"
    BY <1>3 DEF FindAddress
  <2>1. PICK next \in IF drops THEN Newest(others) ELSE {NULL} :
          Begin(c, [IdleCall EXCEPT !.kind = kind, !.user = u, !.item = a, !.from = next,
                                    !.pc = IF a \in Active(u) THEN kind ELSE "done"])
    BY ZenonT(30), <1>3 DEF FindAddress
  <2>2. IF drops THEN next \in others ELSE next = NULL
    BY <2>1 DEF Newest
  <2>3. next \in AnyCall
    BY <2>2 DEF AnyCall, Active
  <2>8. PICK pc \in CallPcs : pc = IF a \in Active(u) THEN kind ELSE "done"
    BY DEF CallPcs, Steps
  <2> DEFINE r == [IdleCall EXCEPT !.kind = kind, !.user = u, !.item = a, !.from = next, !.pc = pc]
  <2>4. r \in Call /\ r.user = u /\ r.item = a /\ r.from = next /\ r.pc = pc
    <3>1. kind \in CallKinds /\ u \in AnyUser /\ a \in AnyCall
      BY DEF CallKinds, AnyUser, AnyCall
    <3> QED BY <1>t, <2>3, <3>1, CallShape
  <2>5. Begin(c, r)
    BY <2>1, <2>8
  <2> HIDE DEF r
  <2>6. CASE a \in Active(u)
    <3>1. r.pc = kind
      BY <2>4, <2>6, <2>8
    <3>2. next # NULL => next \in others /\ next \in Calls
      BY <2>2 DEF Active
    <3>3. Placed(r)
      BY <2>4, <2>6, <3>1, <3>2 DEF Placed, Active
    <3>4. next = NULL /\ kind = "dropAddress" => a \notin Defaults(u) \/ Active(u) = {a}
      BY <2>2, <2>6, ShopConstants DEF Defaults, Active
    <3>5. Knows(r)
      BY <2>0, <2>4, <2>6, <3>1, <3>2, <3>4 DEF Knows
    <3> QED BY <1>1, <2>4, <2>5, <3>3, <3>5
  <2>7. CASE a \notin Active(u)
    <3>1. r.pc = "done"
      BY <2>4, <2>7, <2>8
    <3> QED BY <1>1, <2>4, <2>5, <3>1 DEF AddressKinds
  <2> QED BY <2>6, <2>7
<1>4. CASE StartCall(c)
  <2>1. PICK asked \in Asked, g \in Guests, u \in AnyUser :
          Begin(c, [asked EXCEPT !.guest = g, !.user = u,
                        !.pc = IF guests[g].exists THEN "seen" ELSE "attach",
                        !.todo = IF asked.kind = "merge" THEN {"mine", "theirs"} ELSE {}])
    BY ZenonT(30), <1>4 DEF StartCall, AnyUser
  <2>2. PICK pc \in {"seen", "attach"}, todo \in Todos :
          /\ pc = IF guests[g].exists THEN "seen" ELSE "attach"
          /\ todo = IF asked.kind = "merge" THEN {"mine", "theirs"} ELSE {}
    BY DEF Todos
  <2> DEFINE r == [asked EXCEPT !.guest = g, !.user = u, !.pc = pc, !.todo = todo]
  <2>3. Begin(c, r)
    BY <2>1, <2>2
  <2>4. r \in Call /\ r.pc = pc
    <3>1. asked \in Call
      BY AskedFacts
    <3>2. pc \in CallPcs /\ g \in AnyGuest
      BY DEF CallPcs, Steps, AnyGuest
    <3> QED BY <3>1, <3>2, CallShape
  <2> HIDE DEF r
  <2>5. r.pc \notin AddressKinds
    BY <2>4 DEF AddressKinds
  <2> QED BY <1>1, <2>3, <2>4, <2>5
<1> QED BY <1>2, <1>3, <1>4 DEF Arrival

\* What a request does to the addresses of its user when it writes.
AddressMove(c, u) ==
    LET r == call[c]
    IN  \/ /\ r.pc = "newAddress" /\ Active(u)' = Active(u) \union {c}
           /\ Defaults(u)' = IF r.quantity = 0 THEN Defaults(u) \union {c} ELSE Defaults(u)
        \/ Active(u)' = Active(u) /\ Defaults(u)' = Defaults(u)
        \/ /\ r.pc = "setDefault" /\ Active(u)' = Active(u)
           /\ Defaults(u)' = Active(u) \intersect {r.item}
        \/ /\ r.pc = "dropAddress" /\ r.from = NULL
           /\ Active(u)' = Active(u) \ {r.item} /\ Defaults(u)' = Defaults(u) \ {r.item}
        \/ /\ r.pc = "dropAddress" /\ r.from # NULL
           /\ Active(u)' = Active(u) \ {r.item}
           /\ Defaults(u)' = (Active(u) \ {r.item}) \intersect {r.from}

\* Whose an address is stays, and what is not there yet.
AddressKept(a) ==
    /\ addresses[a].user # NULL => addresses'[a].user = addresses[a].user
    /\ addresses[a] = NoAddress => addresses'[a] = NoAddress

\* What any step does to addresses.
LEMMA AddressMoves ==
    ASSUME TypeOK, RequestInv, AddressInv, NEW c \in Calls, NEW u, u = call[c].user,
           CreateAddress(c) \/ UpdateAddress(c) \/ SetDefault(c) \/ SoftDelete(c)
    PROVE  /\ call[c].pc \in AddressKinds /\ call'[c].pc = "done"
           /\ AddressMove(c, u)
           /\ \A w \in Users : w # u =>
                 Active(w)' = Active(w) /\ Defaults(w)' = Defaults(w)
           /\ \A a \in Calls :
                 AddressKept(a) \/ (a = c /\ call[c].pc = "newAddress" /\ addresses[a] = NoAddress)
<1> DEFINE r == call[c]
<1>t. /\ addresses \in [Calls -> AddressRow] /\ call \in [Calls -> Call]
  BY DEF TypeOK, ShopTypeOK
<1>n. /\ NoAddress.user = NULL /\ ~NoAddress.isDefault /\ ~NoAddress.deleted
      /\ NULL \notin Users /\ NULL \notin Calls
  BY ShopConstants DEF NoAddress
<1>0. call[c].pc \in AddressKinds /\ call'[c].pc = "done"
  <2>1. call[c].pc \in AddressKinds /\ Finish(c)
    BY DEF CreateAddress, UpdateAddress, SetDefault, SoftDelete, AddressKinds
  <2> QED BY <1>t, <2>1, FinishFacts
<1>p. Placed(r)
  BY <1>0 DEF AddressInv
<1>u. u \in Users
  BY <1>p DEF Placed
<1> SUFFICES /\ AddressMove(c, u)
             /\ \A w \in Users : w # u => Active(w)' = Active(w) /\ Defaults(w)' = Defaults(w)
             /\ \A a \in Calls :
                   AddressKept(a) \/ (a = c /\ r.pc = "newAddress" /\ addresses[a] = NoAddress)
  BY <1>0
<1>1. CASE CreateAddress(c)
  <2>1. /\ r.pc = "newAddress" /\ \A a \in Calls : a # c => addresses'[a] = addresses[a]
        /\ addresses'[c].user = u /\ addresses'[c].isDefault = (r.quantity = 0)
        /\ addresses'[c].deleted = FALSE /\ addresses[c] = NoAddress
    BY <1>1, <1>t DEF CreateAddress, AddressInv
  <2>2. c \notin Active(u)
    BY <1>n, <1>u, <2>1 DEF Active
  <2>3. Active(u)' = Active(u) \union {c}
    BY <2>1 DEF Active
  <2>4. Defaults(u)' = IF r.quantity = 0 THEN Defaults(u) \union {c} ELSE Defaults(u)
    BY <2>1, <2>2, <2>3 DEF Defaults, Active
  <2>5. ASSUME NEW w \in Users, w # u
        PROVE  Active(w)' = Active(w) /\ Defaults(w)' = Defaults(w)
    BY <1>n, <2>1, <2>5 DEF Active, Defaults
  <2> QED BY <2>1, <2>3, <2>4, <2>5 DEF AddressMove, AddressKept
<1>2. CASE UpdateAddress(c)
  <2>0. r.pc = "editAddress" /\ r.item \in Calls /\ addresses[r.item].user = u
    BY <1>2, <1>p DEF UpdateAddress, Placed
  <2>1. /\ addresses'[r.item] = [addresses[r.item] EXCEPT !.writtenBy = c]
        /\ \A a \in Calls : a # r.item => addresses'[a] = addresses[a]
    BY <1>2, <1>t, <2>0 DEF UpdateAddress
  <2>2. \A a \in Calls : /\ addresses'[a].user = addresses[a].user
                         /\ addresses'[a].deleted = addresses[a].deleted
                         /\ addresses'[a].isDefault = addresses[a].isDefault
    BY <1>t, <2>0, <2>1 DEF AddressRow
  <2>3. \A w : Active(w)' = Active(w) /\ Defaults(w)' = Defaults(w)
    BY <2>2 DEF Active, Defaults
  <2>4. \A a \in Calls : AddressKept(a)
    BY <1>n, <1>u, <2>0, <2>1, <2>2 DEF AddressKept
  <2> QED BY <2>3, <2>4 DEF AddressMove
\* updateMany and update.
<1>d. ASSUME NEW rows \in [Calls -> AddressRow], NEW a \in Calls, NEW b \in Calls
      PROVE  LET row == WithDefault(rows, u, a)[b] IN
             /\ row.user = rows[b].user /\ row.deleted = rows[b].deleted
             /\ row.isDefault <=> (b = a \/ (rows[b].isDefault /\ (rows[b].deleted \/ rows[b].user # u)))
             /\ b # a /\ ~rows[b].isDefault => row = rows[b]
  <2> DEFINE flag == IF b = a THEN TRUE ELSE rows[b].isDefault /\ (rows[b].deleted \/ rows[b].user # u)
  <2>1. WithDefault(rows, u, a)[b] = [rows[b] EXCEPT !.isDefault = flag]
    BY DEF WithDefault
  <2>2. rows[b] \in AddressRow /\ flag \in BOOLEAN
    OBVIOUS
  <2>3. flag = (b = a \/ (rows[b].isDefault /\ (rows[b].deleted \/ rows[b].user # u)))
    OBVIOUS
  <2>4. b # a /\ ~rows[b].isDefault => flag = rows[b].isDefault
    BY <2>2, <2>3 DEF AddressRow
  <2> HIDE DEF flag
  <2>5. ASSUME NEW old \in AddressRow
        PROVE  LET row == [old EXCEPT !.isDefault = flag] IN
               /\ row.user = old.user /\ row.deleted = old.deleted /\ row.isDefault = flag
               /\ flag = old.isDefault => row = old
    BY DEF AddressRow
  <2> QED BY ZenonT(30), <2>1, <2>2, <2>3, <2>4, <2>5
<1>3. CASE SetDefault(c)
  <2>0. /\ r.pc = "setDefault" /\ r.item \in Calls /\ addresses[r.item].user = u
        /\ addresses' = WithDefault(addresses, u, r.item)
    BY <1>3, <1>p DEF SetDefault, Placed
  <2>1. ASSUME NEW b \in Calls
        PROVE  /\ addresses'[b].user = addresses[b].user
               /\ addresses'[b].deleted = addresses[b].deleted
               /\ addresses'[b].isDefault <=>
                     (b = r.item \/ (addresses[b].isDefault /\ (addresses[b].deleted \/ addresses[b].user # u)))
               /\ b # r.item /\ ~addresses[b].isDefault => addresses'[b] = addresses[b]
    BY <1>t, <1>d, <2>0
  <2>2. Active(u)' = Active(u) /\ Defaults(u)' = Active(u) \intersect {r.item}
    BY <2>0, <2>1 DEF Active, Defaults
  <2>3. ASSUME NEW w \in Users, w # u
        PROVE  Active(w)' = Active(w) /\ Defaults(w)' = Defaults(w)
    BY <2>0, <2>1, <2>3 DEF Active, Defaults
  <2>4. \A a \in Calls : AddressKept(a)
    BY <1>n, <1>u, <2>0, <2>1 DEF AddressKept
  <2> QED BY <2>0, <2>2, <2>3, <2>4 DEF AddressMove
<1>4. CASE SoftDelete(c)
  <2>0. /\ r.pc = "dropAddress" /\ r.item \in Calls /\ addresses[r.item].user = u
        /\ r.from # NULL => r.from \in Calls /\ addresses[r.from].user = u
        /\ addresses' = IF r.from = NULL THEN Dropped(c) ELSE WithDefault(Dropped(c), u, r.from)
    BY <1>4, <1>p DEF SoftDelete, Placed
  <2> DEFINE rows == Dropped(c)
  <2>1. /\ rows \in [Calls -> AddressRow]
        /\ rows[r.item].user = u /\ rows[r.item].deleted = TRUE /\ rows[r.item].isDefault = FALSE
        /\ \A b \in Calls : b # r.item => rows[b] = addresses[b]
    <3>1. PICK k \in Calls : k = r.item
      BY <2>0
    <3>2. PICK row : row = [addresses[k] EXCEPT !.deleted = TRUE, !.isDefault = FALSE]
      OBVIOUS
    <3>3. row \in AddressRow /\ row.user = u /\ row.deleted = TRUE /\ row.isDefault = FALSE
      BY ZenonT(30), <1>t, <2>0, <3>1, <3>2 DEF AddressRow
    <3>4. rows = [addresses EXCEPT ![k] = row]
      BY <3>1, <3>2 DEF Dropped
    <3> QED BY <1>t, <3>1, <3>3, <3>4
  <2> HIDE DEF rows
  <2>2. CASE r.from = NULL
    <3>1. addresses' = rows
      BY <2>0, <2>2 DEF rows
    <3>2. Active(u)' = Active(u) \ {r.item} /\ Defaults(u)' = Defaults(u) \ {r.item}
      BY <2>1, <3>1 DEF Active, Defaults
    <3>3. ASSUME NEW w \in Users, w # u
          PROVE  Active(w)' = Active(w) /\ Defaults(w)' = Defaults(w)
      BY <2>0, <2>1, <3>1, <3>3 DEF Active, Defaults
    <3>4. \A a \in Calls : AddressKept(a)
      BY <1>n, <1>u, <2>0, <2>1, <3>1 DEF AddressKept
    <3> QED BY <2>0, <2>2, <3>2, <3>3, <3>4 DEF AddressMove
  <2>3. CASE r.from # NULL
    <3>0. addresses' = WithDefault(rows, u, r.from) /\ r.from \in Calls /\ addresses[r.from].user = u
      BY <2>0, <2>3 DEF rows
    <3>1. ASSUME NEW b \in Calls
          PROVE  /\ addresses'[b].user = rows[b].user
                 /\ addresses'[b].deleted = rows[b].deleted
                 /\ addresses'[b].isDefault <=>
                       (b = r.from \/ (rows[b].isDefault /\ (rows[b].deleted \/ rows[b].user # u)))
                 /\ b # r.from /\ ~rows[b].isDefault => addresses'[b] = rows[b]
      BY <1>d, <2>1, <3>0
    <3>2. Active(u)' = Active(u) \ {r.item}
      BY SMTT(30), <2>1, <3>1 DEF Active
    <3>5. Defaults(u)' = (Active(u) \ {r.item}) \intersect {r.from}
      BY SMTT(30), <2>1, <3>0, <3>1, <3>2 DEF Active, Defaults
    <3>3. ASSUME NEW w \in Users, w # u
          PROVE  Active(w)' = Active(w) /\ Defaults(w)' = Defaults(w)
      BY <2>0, <2>1, <3>0, <3>1, <3>3 DEF Active, Defaults
    <3>4. \A a \in Calls : AddressKept(a)
      BY <1>n, <1>u, <2>0, <2>1, <3>0, <3>1 DEF AddressKept
    <3> QED BY <2>0, <2>3, <3>2, <3>3, <3>4, <3>5 DEF AddressMove
  <2> QED BY <2>2, <2>3
<1> QED BY <1>1, <1>2, <1>3, <1>4

\* Addresses are those of one user who has a request, and nobody else's.
LEMMA AddressesMove ==
    ASSUME TypeOK, RequestInv, AddressInv, [Next]_shoppingVars
    PROVE  /\ \A w \in Users :
                 \/ Active(w)' = Active(w) /\ Defaults(w)' = Defaults(w)
                 \/ \E e \in Calls :
                       /\ call[e].user = w /\ call[e].pc \in AddressKinds /\ call'[e].pc = "done"
                       /\ AddressMove(e, w)
           /\ \A a \in Calls :
                 \/ AddressKept(a)
                 \/ call[a].pc = "newAddress" /\ call'[a].pc = "done" /\ addresses[a] = NoAddress
<1>1. CASE UNCHANGED addresses
  <2>1. \A w : Active(w)' = Active(w) /\ Defaults(w)' = Defaults(w)
    BY <1>1 DEF Active, Defaults
  <2> QED BY <1>1, <2>1 DEF AddressKept
<1>2. CASE \E c \in Calls :
              CreateAddress(c) \/ UpdateAddress(c) \/ SetDefault(c) \/ SoftDelete(c)
  <2>1. PICK c \in Calls :
              CreateAddress(c) \/ UpdateAddress(c) \/ SetDefault(c) \/ SoftDelete(c)
    BY <1>2
  <2>2. PICK u : u = call[c].user
    BY SMTT(30)
  <2> QED BY <2>1, <2>2, AddressMoves
<1>3. CASE \E c \in Calls : AddressStep(c)
  BY ZenonT(30), <1>1, <1>2, <1>3 DEF AddressStep, CountAddresses, FindAddress
<1> QED BY <1>1, <1>3 DEF Next, shoppingVars

\* A request at an address step has stayed there, or has just looked.
LEMMA AddressLooks ==
    ASSUME TypeOK, RequestInv, Moved, [Next]_shoppingVars, NEW c \in Calls,
           call'[c].pc \in AddressKinds
    PROVE  \/ /\ Still(call[c], call'[c]) /\ call[c].pc \in AddressKinds
              /\ call[c].overlapped => call'[c].overlapped
           \/ /\ call[c].pc = "idle" /\ UNCHANGED addresses
              /\ Placed(call'[c]) /\ Knows(call'[c])
<1>1. CASE Still(call[c], call'[c])
  <2>1. call[c].pc \in AddressKinds /\ call[c].pc # "idle"
    BY <1>1 DEF Still, AddressKinds
  <2> QED BY <1>1, <2>1, Remembers
<1>2. CASE ~Still(call[c], call'[c])
  <2>1. call'[c] # call[c]
    BY <1>2 DEF Still, Sent
  <2>2. PICK x \in Calls : Arrival(x) \/ OwnStep(x)
    BY <2>1, WhoSteps
  <2>3. x = c
    BY <1>2, <2>2, Bystanders
  <2>4. call[c].pc = "idle"
    <3>1. PlaceOK(call[c]) /\ RequestMove(c)
      BY DEF RequestInv, Moved
    <3>2. ~Onward(call[c], call'[c].pc) /\ ~Takes(c, call[c], call'[c]) /\ call'[c].pc # "done"
      BY <3>1 DEF Onward, Takes, PlaceOK, AddressKinds, Entry, CartKinds, WishKinds
    <3> QED BY <1>2, <3>1, <3>2 DEF RequestMove
  <2>5. Arrival(c)
    BY <2>2, <2>3, <2>4, StepIsAt
  <2>6. UNCHANGED addresses
    <3>1. ASSUME NEW e \in Calls,
                 CreateAddress(e) \/ UpdateAddress(e) \/ SetDefault(e) \/ SoftDelete(e)
          PROVE  FALSE
      <4>1. OwnStep(e) /\ call[e].pc # "idle"
        BY <3>1 DEF OwnStep, CreateAddress, UpdateAddress, SetDefault, SoftDelete
      <4> QED BY <2>4, <4>1, <1>2, Bystanders
    <3>2. CASE \E e \in Calls : AddressStep(e)
      BY ZenonT(30), <3>1, <3>2 DEF AddressStep, CountAddresses, FindAddress
    <3> QED BY <3>2 DEF Next, shoppingVars
  <2> QED BY <2>4, <2>5, <2>6, FoundAddresses
<1> QED BY <1>1, <1>2

\* What was found is still so for a request that overlaps nobody.
LEMMA KnownStays ==
    ASSUME TypeOK, RequestInv, PeersInv, AddressInv, Moved, [Next]_shoppingVars,
           NEW c \in Calls, call'[c].pc \in AddressKinds
    PROVE  Placed(call[c])' /\ (~call'[c].overlapped => Knows(call[c])')
<1>a. /\ \A w \in Users :
           \/ Active(w)' = Active(w) /\ Defaults(w)' = Defaults(w)
           \/ \E e \in Calls :
                 call[e].user = w /\ call[e].pc \in AddressKinds /\ call'[e].pc = "done"
      /\ \A a \in Calls :
           \/ AddressKept(a)
           \/ call[a].pc = "newAddress" /\ call'[a].pc = "done" /\ addresses[a] = NoAddress
  BY AddressesMove
<1>n. NoAddress.user = NULL /\ NULL \notin Users
  BY ShopConstants DEF NoAddress
<1>1. CASE call[c].pc = "idle" /\ UNCHANGED addresses /\ Placed(call'[c]) /\ Knows(call'[c])
  BY <1>1 DEF Placed, Knows, Active, Defaults
<1>2. CASE /\ Still(call[c], call'[c]) /\ call[c].pc \in AddressKinds
           /\ call[c].overlapped => call'[c].overlapped
  <2>1. Placed(call[c]) /\ (~call[c].overlapped => Knows(call[c]))
    BY <1>2 DEF AddressInv
  <2>2. \A a \in Calls : addresses[a].user \in Users => addresses'[a].user = addresses[a].user
    BY <1>a, <1>n DEF AddressKept
  <2>3. Placed(call[c])'
    BY <1>2, <2>1, <2>2 DEF Placed, Still, Sent
  <2>4. ASSUME ~call'[c].overlapped
        PROVE  Knows(call[c])'
    <3>1. PICK u \in Users : u = call[c].user /\ u = call'[c].user
      BY <1>2, <2>1 DEF Placed, Still, Sent
    <3>2. ASSUME NEW e \in Calls, call[e].user = u, call[e].pc \in AddressKinds,
                 call'[e].pc = "done"
          PROVE  FALSE
      <4>1. e # c
        BY <3>2 DEF AddressKinds
      <4>2. UnderWay(c) /\ UnderWay(e)
        BY <1>2, <3>2 DEF UnderWay, Steps
      <4> QED BY <1>2, <2>4, <3>1, <3>2, <4>1, <4>2, Met
    <3>3. Active(u)' = Active(u) /\ Defaults(u)' = Defaults(u)
      BY <1>a, <3>2
    <3>4. Knows(call[c])
      BY <1>2, <2>1, <2>4
    <3>5. Active(call[c].user)' = Active(call[c].user) /\ Defaults(call[c].user)' = Defaults(call[c].user)
      BY <3>1, <3>3 DEF Active, Defaults
    <3> QED BY <1>2, <3>4, <3>5 DEF Knows, Still, Sent
  <2> QED BY <2>3, <2>4
<1> QED BY <1>1, <1>2, AddressLooks

\* An address that is not there is not there before its request has inserted it.
LEMMA NotYetThere ==
    ASSUME TypeOK, RequestInv, AddressInv, Moved, [Next]_shoppingVars, NEW c \in Calls,
           call'[c].pc \in {"idle", "newAddress"}
    PROVE  addresses'[c] = NoAddress
<1>1. call[c].pc \in {"idle", "newAddress"}
  <2>1. CASE call'[c].pc = "idle"
    BY <2>1, Remembers
  <2>2. CASE call'[c].pc = "newAddress"
    <3>1. call'[c].pc \in AddressKinds
      BY <2>2 DEF AddressKinds
    <3>2. Still(call[c], call'[c]) \/ call[c].pc = "idle"
      BY <3>1, AddressLooks
    <3> QED BY <2>2, <3>2 DEF Still
  <2> QED BY <2>1, <2>2
<1>2. addresses[c] = NoAddress
  BY <1>1 DEF AddressInv
<1>3. AddressKept(c)
  BY AddressesMove
<1> QED BY <1>2, <1>3 DEF AddressKept

\* The defaults of a user are as many as they may be.
LEMMA DefaultsStep ==
    ASSUME TypeOK, RequestInv, AddressInv, Moved, [Next]_shoppingVars, NEW u \in Users
    PROVE  /\ Cardinality(Defaults(u)') <= 1 + Cardinality(PastUser(u)')
           /\ Disturbed(u)' = {} /\ Active(u)' # {} => Cardinality(Defaults(u)') = 1
<1> DEFINE A == Defaults(u)
           B == Defaults(u)'
<1>1. /\ A \in SUBSET Calls /\ B \in SUBSET Calls /\ A \subseteq Active(u)
      /\ Active(u) \in SUBSET Calls
      /\ Cardinality(A) <= 1 + Cardinality(PastUser(u))
      /\ Disturbed(u) = {} /\ Active(u) # {} => Cardinality(A) = 1
  BY DEF Defaults, Active, AddressInv
<1>2. /\ IsFiniteSet(A) /\ IsFiniteSet(B) /\ IsFiniteSet(Active(u)) /\ IsFiniteSet(PastUser(u)')
      /\ PastUser(u) \subseteq PastUser(u)' /\ Cardinality(PastUser(u)') \in Nat
  BY <1>1, FiniteRows, CreditsGrow, FS_CardinalityType
<1>3. B \subseteq A => Cardinality(B) <= 1 + Cardinality(PastUser(u)')
  BY <1>1, <1>2, Credit
<1>4. Disturbed(u)' = {} => Disturbed(u) = {}
  <2>1. \A c \in Calls : call[c].overlapped /\ call[c].pc # "idle" =>
           Sent(call[c], call'[c]) /\ call'[c].overlapped /\ call'[c].pc # "idle"
    BY Remembers
  <2> QED BY <2>1 DEF Disturbed, Sent
<1>5. CASE Active(u)' = Active(u) /\ B = A
  BY <1>1, <1>3, <1>4, <1>5
<1>6. ASSUME NEW c \in Calls, call[c].user = u, call[c].pc \in AddressKinds,
             call'[c].pc = "done", AddressMove(c, u)
      PROVE  /\ Cardinality(B) <= 1 + Cardinality(PastUser(u)')
             /\ Disturbed(u)' = {} /\ Active(u)' # {} => Cardinality(B) = 1
  <2> DEFINE r == call[c]
  <2>1. /\ call[c].pc # "idle"
        /\ ~r.overlapped => Knows(r)
    BY <1>6 DEF AddressInv, AddressKinds
  <2>2. Disturbed(u) = {} => ~r.overlapped
    BY <1>6, <2>1 DEF Disturbed
  <2>e. Cardinality({}) = 0 /\ \A S \in SUBSET Calls : Cardinality(S) = 0 => S = {}
    BY FiniteRows, FS_EmptySet
  <2>s. ASSUME NEW x, B \subseteq {x}
        PROVE  /\ Cardinality(B) <= 1 + Cardinality(PastUser(u)')
               /\ x \in B => Cardinality(B) = 1
    <3>1. Cardinality({x}) = 1
      BY FS_Singleton
    <3>2. B = {} \/ B = {x}
      BY <2>s
    <3>3. CASE B = {}
      <4>1. Cardinality(B) = 0 /\ x \notin B
        BY <2>e, <3>3
      <4> QED BY <1>2, <4>1
    <3>4. CASE B = {x}
      <4>1. Cardinality(B) = 1
        BY <3>1, <3>4
      <4> QED BY <1>2, <4>1
    <3> QED BY <3>2, <3>3, <3>4
  <2>3. CASE /\ r.pc = "newAddress" /\ Active(u)' = Active(u) \union {c}
             /\ B = IF r.quantity = 0 THEN A \union {c} ELSE A
    <3>1. ~r.overlapped => r.quantity = Cardinality(Active(u))
      BY <1>6, <2>1, <2>3 DEF Knows
    <3>2. CASE r.quantity # 0
      <4>1. Disturbed(u)' = {} => Active(u) # {}
        BY <1>4, <2>2, <2>e, <3>1, <3>2
      <4> QED BY <1>1, <1>3, <1>4, <2>3, <3>2, <4>1
    <3>3. CASE r.quantity = 0
      <4>1. ~r.overlapped => A = {}
        BY <1>1, <2>e, <3>1, <3>3
      <4>2. Cardinality(B) <= 1 + Cardinality(PastUser(u)')
        <5>1. r.pc \in Before /\ call'[c].pc \notin Before
          BY <1>6, <2>3 DEF Before
        <5> QED BY <1>1, <1>6, <2>1, <2>3, <3>3, <4>1, <5>1, OneMore
      <4>3. Disturbed(u)' = {} => B = {c}
        BY <1>4, <2>2, <2>3, <3>3, <4>1
      <4> QED BY <2>s, <4>2, <4>3
    <3> QED BY <3>2, <3>3
  <2>4. CASE /\ r.pc = "setDefault" /\ Active(u)' = Active(u) /\ B = Active(u) \intersect {r.item}
    <3>1. ~r.overlapped => r.item \in B
      BY <1>6, <2>1, <2>4 DEF Knows
    <3> QED BY <1>4, <2>2, <2>4, <2>s, <3>1
  <2>5. CASE /\ r.pc = "dropAddress" /\ r.from = NULL
             /\ Active(u)' = Active(u) \ {r.item} /\ B = A \ {r.item}
    <3>1. ~r.overlapped => r.item \notin A \/ Active(u) = {r.item}
      BY <1>6, <2>1, <2>5 DEF Knows
    <3>2. Disturbed(u)' = {} /\ Active(u)' # {} => B = A /\ Active(u) # {}
      BY <1>4, <2>2, <2>5, <3>1
    <3> QED BY <1>1, <1>3, <1>4, <2>5, <3>2
  <2>6. CASE /\ r.pc = "dropAddress" /\ r.from # NULL
             /\ Active(u)' = Active(u) \ {r.item} /\ B = (Active(u) \ {r.item}) \intersect {r.from}
    <3>1. ~r.overlapped => r.from \in B
      BY <1>6, <2>1, <2>6 DEF Knows
    <3> QED BY <1>4, <2>2, <2>6, <2>s, <3>1
  <2>7. CASE Active(u)' = Active(u) /\ B = A
    BY <1>5, <2>7
  <2> QED BY <1>6, <2>3, <2>4, <2>5, <2>6, <2>7 DEF AddressMove
<1>7. \/ Active(u)' = Active(u) /\ B = A
      \/ \E c \in Calls :
            /\ call[c].user = u /\ call[c].pc \in AddressKinds /\ call'[c].pc = "done"
            /\ AddressMove(c, u)
  BY AddressesMove
<1> QED BY <1>5, <1>6, <1>7

(* ------------------------------ One of each ------------------------------ *)

OneInv == ShoppingInv /\ PeersInv /\ ReadInv /\ CartInv /\ ListInv /\ AddressInv

\* Initially nobody has anything.
LEMMA InitOne ==
    ASSUME Init
    PROVE  OneInv
<1>1. /\ \A c \in Calls : call[c].pc = "idle"
      /\ call = [c \in Calls |-> IdleCall] /\ carts = [c \in Calls |-> NoCart]
      /\ wishlists = [c \in Calls |-> NoWishlist] /\ addresses = [c \in Calls |-> NoAddress]
  BY DEF Init, ShopInit, IdleCall
<1>2. PeersInv /\ ReadInv
  BY <1>1 DEF PeersInv, Rivals, UnderWay, ReadInv, Steps, AddressKinds
<1>3. /\ \A g \in Guests : CartsOfGuest(g) = {} /\ ListsOfGuest(g) = {}
      /\ \A u \in Users : CartsOfUser(u) = {} /\ ListsOfUser(u) = {} /\ Active(u) = {}
                         /\ Defaults(u) = {}
  BY <1>1, ShopConstants
     DEF CartsOfGuest, CartsOfUser, ListsOfGuest, ListsOfUser, LiveLists, Active, Defaults,
         NoCart, NoWishlist, NoAddress
<1>4. /\ Cardinality({}) = 0
      /\ \A g : Cardinality(PastGuest(g)) \in Nat
      /\ \A u : Cardinality(PastUser(u)) \in Nat
  BY FiniteRows, FS_EmptySet, FS_CardinalityType
<1>z. ASSUME NEW S, S = {}, NEW n \in Nat
      PROVE  Cardinality(S) <= 1 + n
  BY <1>4, <1>z
<1>5. CartInv /\ ListInv
  <2>1. ASSUME NEW g \in Guests
        PROVE  /\ Cardinality(CartsOfGuest(g)) <= 1 + Cardinality(PastGuest(g))
               /\ Cardinality(ListsOfGuest(g)) <= 1 + Cardinality(PastGuest(g))
    BY <1>3, <1>4, <1>z
  <2>2. ASSUME NEW u \in Users
        PROVE  /\ Cardinality(CartsOfUser(u)) <= 1 + Cardinality(PastUser(u))
               /\ Cardinality(ListsOfUser(u)) <= 1 + Cardinality(PastUser(u))
    BY <1>3, <1>4, <1>z
  <2> QED BY <1>3, <2>1, <2>2 DEF CartInv, ListInv
<1>6. AddressInv
  <2>1. ASSUME NEW u \in Users
        PROVE  Cardinality(Defaults(u)) <= 1 + Cardinality(PastUser(u))
    BY <1>3, <1>4, <1>z
  <2>2. \A c \in Calls : call[c].pc \notin AddressKinds /\ addresses[c] = NoAddress
    BY <1>1 DEF AddressKinds
  <2> QED BY <1>3, <2>1, <2>2 DEF AddressInv
<1> QED BY <1>2, <1>5, <1>6, InitShopping DEF OneInv

\* No step breaks it.
LEMMA StepOne ==
    ASSUME OneInv, [Next]_shoppingVars
    PROVE  OneInv'
<1>1. ShoppingInv' /\ Moved
  BY StepShopping, StepKeeps DEF OneInv, ShoppingInv, Kept
<1>2. PeersInv' /\ ReadInv'
  BY <1>1, PeersStep, ReadStep DEF OneInv, ShoppingInv
<1>3. CartInv'
  BY <1>1, GuestCartsStep, UserCartsStep DEF OneInv, ShoppingInv, CartInv
<1>4. ListInv'
  BY <1>1, GuestListsStep, UserListsStep DEF OneInv, ShoppingInv, ListInv
<1>5. AddressInv'
  BY <1>1, KnownStays, NotYetThere, DefaultsStep DEF OneInv, ShoppingInv, AddressInv
<1> QED BY <1>1, <1>2, <1>3, <1>4, <1>5 DEF OneInv

\* OneOfEach follows: who is past the first steps and has overlapped has overlapped.
LEMMA OneOfEachHolds ==
    ASSUME OneInv
    PROVE  OneOfEach
<1>1. ASSUME NEW P \in SUBSET Calls, NEW Q \in SUBSET Calls, P \subseteq Q, NEW n,
             n \in Nat, n <= 1 + Cardinality(P)
      PROVE  n <= 1 + Cardinality(Q)
  <2>1. IsFiniteSet(P) /\ IsFiniteSet(Q)
    BY FiniteRows
  <2>2. Cardinality(P) \in Nat /\ Cardinality(Q) \in Nat /\ Cardinality(P) <= Cardinality(Q)
    BY <1>1, <2>1, FS_CardinalityType, FS_Subset
  <2> QED BY <1>1, <2>2
<1>2. \A S \in SUBSET Calls : Cardinality(S) \in Nat
  BY FiniteRows, FS_CardinalityType
<1>3. ASSUME NEW g \in Guests
      PROVE  /\ Cardinality(CartsOfGuest(g)) <= 1 + Cardinality(Overlapped({c \in Calls : call[c].guest = g}))
             /\ Cardinality(LiveLists({k \in Calls : wishlists[k].guest = g}))
                    <= 1 + Cardinality(Overlapped({c \in Calls : call[c].guest = g}))
  <2> DEFINE Q == Overlapped({c \in Calls : call[c].guest = g})
  <2>1. /\ CartsOfGuest(g) \in SUBSET Calls /\ ListsOfGuest(g) \in SUBSET Calls
        /\ Q \in SUBSET Calls /\ PastGuest(g) \in SUBSET Calls /\ PastGuest(g) \subseteq Q
    BY DEF CartsOfGuest, ListsOfGuest, LiveLists, Overlapped, PastGuest
  <2>2. /\ Cardinality(CartsOfGuest(g)) <= 1 + Cardinality(PastGuest(g))
        /\ Cardinality(ListsOfGuest(g)) <= 1 + Cardinality(PastGuest(g))
    BY DEF OneInv, CartInv, ListInv
  <2> HIDE DEF Q
  <2>3. /\ Cardinality(CartsOfGuest(g)) <= 1 + Cardinality(Q)
        /\ Cardinality(ListsOfGuest(g)) <= 1 + Cardinality(Q)
    BY <1>1, <1>2, <2>1, <2>2
  <2> QED BY <2>3 DEF Q, ListsOfGuest
<1>4. ASSUME NEW u \in Users
      PROVE  LET disturbed == Overlapped({c \in Calls : call[c].user = u})
                 defaults == {a \in Active(u) : addresses[a].isDefault}
             IN  /\ Cardinality(CartsOfUser(u)) <= 1 + Cardinality(disturbed)
                 /\ Cardinality(LiveLists({k \in Calls : wishlists[k].user = u}))
                        <= 1 + Cardinality(disturbed)
                 /\ Cardinality(defaults) <= 1 + Cardinality(disturbed)
                 /\ disturbed = {} /\ Active(u) # {} => Cardinality(defaults) = 1
  <2> DEFINE Q == Overlapped({c \in Calls : call[c].user = u})
  <2>1. /\ CartsOfUser(u) \in SUBSET Calls /\ ListsOfUser(u) \in SUBSET Calls
        /\ Defaults(u) \in SUBSET Calls
        /\ Q \in SUBSET Calls /\ PastUser(u) \in SUBSET Calls /\ PastUser(u) \subseteq Q
        /\ Disturbed(u) \subseteq Q
    BY DEF CartsOfUser, ListsOfUser, LiveLists, Overlapped, PastUser, Defaults, Active, Disturbed
  <2>2. /\ Cardinality(CartsOfUser(u)) <= 1 + Cardinality(PastUser(u))
        /\ Cardinality(ListsOfUser(u)) <= 1 + Cardinality(PastUser(u))
        /\ Cardinality(Defaults(u)) <= 1 + Cardinality(PastUser(u))
        /\ Disturbed(u) = {} /\ Active(u) # {} => Cardinality(Defaults(u)) = 1
    BY DEF OneInv, CartInv, ListInv, AddressInv
  <2> HIDE DEF Q
  <2>3. /\ Cardinality(CartsOfUser(u)) <= 1 + Cardinality(Q)
        /\ Cardinality(ListsOfUser(u)) <= 1 + Cardinality(Q)
        /\ Cardinality(Defaults(u)) <= 1 + Cardinality(Q)
    BY <1>1, <1>2, <2>1, <2>2
  <2>4. Q = {} /\ Active(u) # {} => Cardinality(Defaults(u)) = 1
    BY <2>1, <2>2
  <2> QED BY <2>3, <2>4 DEF Q, ListsOfUser, Defaults
<1> QED BY <1>3, <1>4 DEF OneOfEach

\* Whatever the number of requests, of users and of browsers, shoppers have one
\* cart, one wishlist and one default address, and at most one more of each for
\* each request of theirs that ran together with another one.
THEOREM OneOfEachKept == Spec => []OneOfEach
<1>1. Init => OneInv
  BY InitOne
<1>2. OneInv /\ [Next]_shoppingVars => OneInv'
  BY StepOne
<1>3. OneInv => OneOfEach
  BY OneOfEachHolds
<1> QED BY <1>1, <1>2, <1>3, PTL DEF Spec

(* -------------------------- What a merge merges -------------------------- *)

\* The shopper of a request has the cart, or shares it since a merge.
CartOf(cart, r) ==
    /\ cart.guest = NULL => r.user # NULL /\ cart.user = r.user
    /\ cart.user = NULL => r.user = NULL /\ cart.guest = r.guest

\* Before a request has created a cart.
Uncarted == {"idle", "seen", "attach", "cart", "create"}

OnCart == {"item", "check", "insert", "delete", "stock", "write"}

Merging == {"read", "assign", "mergeTx"}

\* The cart is one that some request has created.
Created(k) == k \in Calls /\ call[k].pc \notin Uncarted

Own(r, k) == Created(k) /\ (carts[k].exists => CartOf(carts[k], r))

OfGuest(r, k) == Created(k) /\ (carts[k].exists => carts[k].guest = r.guest)

\* What a request says of the carts it has found.
WorkOn(r) ==
    /\ r.pc \in OnCart => Own(r, r.cart)
    /\ r.pc \in Merging /\ "mine" \notin r.todo /\ r.cart # NULL => Own(r, r.cart)
    /\ r.pc \in Merging /\ "theirs" \notin r.todo /\ r.from # NULL => OfGuest(r, r.from)
    /\ r.pc \in {"assign", "mergeTx"} =>
          "mine" \notin r.todo /\ "theirs" \notin r.todo /\ r.from # NULL
    /\ r.pc = "mergeTx" => r.cart # NULL

WorkInv ==
    /\ \A k \in Calls : call[k].pc \in Uncarted => ~carts[k].exists
    /\ \A c \in Calls : WorkOn(call[c])

\* Merges are requests of a signed-in user with a guest cookie.
LEMMA MergerFacts ==
    ASSUME RequestInv, NEW c \in Calls, call[c].pc \in Merging
    PROVE  call[c].kind = "merge" /\ call[c].user \in Users /\ call[c].guest \in Guests
<1>1. PlaceOK(call[c]) /\ AskedOK(call[c])
  BY DEF RequestInv
<1> QED BY <1>1 DEF PlaceOK, AskedOK, CartKinds, Merging

\* A request that has created its cart stays past that.
LEMMA UncartedBefore ==
    ASSUME RequestInv, Moved, NEW c \in Calls, call'[c].pc \in Uncarted
    PROVE  call[c].pc \in Uncarted
<1>1. PlaceOK(call[c]) /\ RequestMove(c)
  BY DEF RequestInv, Moved
<1>2. CASE Still(call[c], call'[c])
  BY <1>2 DEF Still
<1>3. CASE Onward(call[c], call'[c].pc)
  BY <1>3 DEF Onward, Uncarted
<1>4. CASE Takes(c, call[c], call'[c])
  BY <1>1, <1>4 DEF Takes, Uncarted, PlaceOK, WishKinds
<1> QED BY <1>1, <1>2, <1>3, <1>4 DEF RequestMove, Uncarted

\* A cart that was created once stays whose it was, but for merges that assign it.
LEMMA CartStaysOwn ==
    ASSUME TypeOK, RequestInv, WorkInv, Moved, [Next]_shoppingVars, NEW k, Created(k)
    PROVE  /\ Created(k)'
           /\ carts'[k].exists => carts[k].exists /\ carts'[k].guest = carts[k].guest
           /\ \A r : Own(r, k) => (carts'[k].exists => CartOf(carts'[k], r))
<1>0. k \in Calls /\ call[k].pc \notin Uncarted /\ call'[k].pc \notin Uncarted
  BY UncartedBefore DEF Created
<1> SUFFICES ASSUME carts'[k].exists
             PROVE  /\ carts[k].exists /\ carts'[k].guest = carts[k].guest
                    /\ \A r : CartOf(carts[k], r) => CartOf(carts'[k], r)
  BY <1>0 DEF Created, Own
<1>1. CASE CartKept(k)
  BY <1>1 DEF CartKept, CartOf
<1>2. CASE ~CartKept(k)
  <2>1. PICK c \in Calls :
          /\ call[c].pc = "assign" /\ k = call[c].from
          /\ carts[k].exists /\ carts'[k].user = call[c].user /\ carts'[k].guest = carts[k].guest
    BY <1>0, <1>2, CartsMoves DEF CartsMove, Uncarted
  <2>2. WorkOn(call[c])
    BY <2>1 DEF WorkInv
  <2>4. call[c].guest \in Guests /\ call[c].user \in Users
    BY <2>1, MergerFacts DEF Merging
  <2>5. carts[k].guest = call[c].guest
    BY <1>0, <2>1, <2>2, ShopConstants DEF WorkOn, OfGuest, Merging
  <2> QED BY <2>1, <2>2, <2>4, <2>5, ShopConstants DEF CartOf
<1> QED BY <1>1, <1>2

\* Who works on a cart has worked on it, has found it or has created it.
LEMMA WorkMoves ==
    ASSUME TypeOK, RequestInv, Moved, [Next]_shoppingVars, NEW c \in Calls,
           call'[c].pc \in OnCart
    PROVE  /\ Sent(call[c], call'[c])
           /\ \/ call[c].pc \in OnCart /\ call'[c].cart = call[c].cart
              \/ call'[c].cart \in OwnCarts(c) /\ UNCHANGED carts
              \/ /\ call'[c].cart = c /\ carts'[c].user = call[c].user
                 /\ carts'[c].guest = IF call[c].user = NULL THEN call[c].guest ELSE NULL
<1>t. /\ call \in [Calls -> Call] /\ carts \in [Calls -> CartRow] /\ call[c] \in Call
      /\ PlaceOK(call[c]) /\ RequestMove(c)
  BY DEF TypeOK, ShopTypeOK, RequestInv, Moved
<1>f. ~Finish(c)
  BY <1>t, FinishFacts DEF OnCart
<1>1. CASE Still(call[c], call'[c])
  BY <1>1 DEF Still
<1>2. CASE Onward(call[c], call'[c].pc) /\ AsAsked(call[c], call'[c]) /\ call'[c].cart = call[c].cart
  <2>1. call[c].pc \in OnCart
    BY <1>t, <1>2 DEF Onward, OnCart, PlaceOK, Entry, CartKinds, WishKinds
  <2> QED BY <1>2, <2>1 DEF AsAsked
<1>3. CASE Takes(c, call[c], call'[c]) /\ AsAsked(call[c], call'[c]) /\ ~Still(call[c], call'[c])
  <2>1. call[c].pc \in {"cart", "create", "delta"}
    BY <1>t, <1>3 DEF Takes, OnCart, PlaceOK, WishKinds
  <2>2. OwnStep(c)
    <3>1. PICK x \in Calls : Arrival(x) \/ OwnStep(x)
      BY <1>3, WhoSteps DEF Still, Sent
    <3>2. x = c
      BY <1>3, <3>1, Bystanders
    <3> QED BY <2>1, <3>1, <3>2, ArrivalLeaves
  <2>3. FindCart(c) \/ CreateCart(c) \/ FindForDelta(c)
    BY SMTT(30), <2>1, <2>2, StepIsAt
  <2>4. CASE FindCart(c)
    <3>1. ~Goto(c, "create")
      <4>1. "create" \in CallPcs /\ "create" \notin OnCart
        BY DEF OnCart, CallPcs, Steps
      <4> QED BY ZenonT(30), <1>t, <4>1, GotoFacts
    <3>2. PICK k \in Latest(OwnCarts(c)) :
            LET r == [call[c] EXCEPT !.cart = k] IN
            call' = [call EXCEPT ![c] =
                        IF r.user # NULL THEN [r EXCEPT !.pc = "item"]
                        ELSE WithItem(r, carts[k].items[r.variant])]
      BY ZenonT(30), <1>f, <2>4, <3>1 DEF FindCart
    <3>3. k \in OwnCarts(c) /\ k \in Calls
      BY DEF Latest, OwnCarts, CartsOfUser, CartsOfGuest
    <3>4. call'[c].cart = k
      BY SMTT(30), <1>t, <3>2, CallShape DEF WithItem
    <3> QED BY ZenonT(30), <1>3, <2>4, <3>3, <3>4 DEF AsAsked, FindCart
  <2>5. CASE FindForDelta(c)
    <3>1. PICK k \in CartsWith(c) :
            LET wanted == carts[k].items[call[c].variant].quantity + call[c].amount IN
            call' = [call EXCEPT ![c].cart = k,
                                 ![c].quantity = IF wanted > 0 THEN wanted ELSE 0,
                                 ![c].pc = IF wanted > 0 THEN "stock" ELSE "delete"]
      BY ZenonT(30), <1>f, <2>5 DEF FindForDelta
    <3>2. call'[c].cart = k
      BY <1>t, <3>1, CallShape
    <3> QED BY ZenonT(30), <1>3, <2>5, <3>2 DEF AsAsked, FindForDelta, CartsWith
  <2>6. CASE CreateCart(c)
    <3> DEFINE g == IF call[c].user = NULL THEN call[c].guest ELSE NULL
    <3>1. /\ carts' = [carts EXCEPT ![c] =
                [NoCart EXCEPT !.exists = TRUE, !.user = call[c].user, !.guest = g, !.updatedAt = now]]
          /\ call' = [call EXCEPT ![c].cart = c, ![c].pc = IF call[c].user # NULL THEN "item" ELSE "check"]
      BY <1>f, <2>6 DEF CreateCart
    <3>2. call'[c].cart = c /\ carts'[c].user = call[c].user /\ carts'[c].guest = g
      BY <1>t, <3>1, CallShape DEF NoCart
    <3> QED BY <1>3, <3>2 DEF AsAsked
  <2> QED BY <2>3, <2>4, <2>5, <2>6
<1> QED BY <1>t, <1>1, <1>2, <1>3 DEF RequestMove, Arrives, OnCart, AddressKinds

\* Carts a request finds are its shopper's, and some request has created them.
LEMMA FoundIsOwn ==
    ASSUME WorkInv, NEW r, NEW k \in Calls, carts[k].exists
    PROVE  /\ Created(k)
           /\ r.user \in Users /\ carts[k].user = r.user => Own(r, k)
           /\ r.user = NULL /\ r.guest \in Guests /\ carts[k].guest = r.guest => Own(r, k)
           /\ carts[k].guest = r.guest => OfGuest(r, k)
BY ShopConstants DEF WorkInv, Created, Own, OfGuest, CartOf

\* What a merge that goes on says of its carts it could say before.
LEMMA MergeFinds ==
    ASSUME TypeOK, RequestInv, ReadInv, WorkInv, Moved, [Next]_shoppingVars, NEW c \in Calls,
           call'[c].pc \in Merging
    PROVE  LET r == call[c]
               s == call'[c]
           IN  /\ Sent(r, s) /\ r.pc \in Steps /\ r.user \in Users /\ r.guest \in Guests
               /\ "mine" \notin s.todo /\ s.cart # NULL => Own(r, s.cart)
               /\ "theirs" \notin s.todo /\ s.from # NULL => OfGuest(r, s.from)
               /\ s.pc \in {"assign", "mergeTx"} =>
                     "mine" \notin s.todo /\ "theirs" \notin s.todo /\ s.from # NULL
               /\ s.pc = "mergeTx" => s.cart # NULL
<1> DEFINE r == call[c]
           s == call'[c]
<1>1. s.kind = "merge" /\ s.pc \in Steps
  <2>1. RequestInv'
    BY RequestStep
  <2>2. PlaceOK(call'[c])
    BY <2>1 DEF RequestInv
  <2> QED BY <2>2 DEF PlaceOK, Merging, Steps
<1>2. r.pc # "idle"
  <2>1. MergeMove(c)
    BY MergeMoves
  <2> QED BY <1>1, <2>1 DEF MergeMove, Merging
<1>3. Sent(r, s) /\ r.pc \in Steps
  BY <1>1, <1>2, Remembers
<1>4. r.kind = "merge" /\ r.user \in Users /\ r.guest \in Guests
  BY <1>1, <1>3 DEF Sent, RequestInv, AskedOK, CartKinds
<1>5. WorkOn(r)
  BY DEF WorkInv
<1>6. MergeMove(c)
  BY MergeMoves
<1>7. CASE r.pc \in {"seen", "attach"}
  <2>1. "mine" \in r.todo /\ "theirs" \in r.todo
    BY <1>4, <1>7 DEF ReadInv
  <2>2. MineKept(r, s) /\ TheirsKept(r, s) /\ s.pc = "read"
    BY <1>1, <1>6, <1>7 DEF MergeMove, Merging
  <2> QED BY <1>3, <1>4, <2>1, <2>2 DEF MineKept, TheirsKept
<1>8. CASE MineKept(r, s) /\ TheirsKept(r, s) /\ s.pc = r.pc
  BY <1>3, <1>4, <1>5, <1>8 DEF MineKept, TheirsKept, WorkOn
<1>9. CASE /\ r.pc = "read" /\ s.pc = "read" /\ TheirsKept(r, s)
           /\ s.cart = NULL \/ s.cart \in CartsOfUser(r.user)
  <2>1. s.cart # NULL => Own(r, s.cart)
    BY <1>4, <1>9, FoundIsOwn DEF CartsOfUser
  <2> QED BY <1>3, <1>4, <1>5, <1>9, <2>1 DEF TheirsKept, WorkOn, Merging
<1>10. CASE /\ r.pc = "read" /\ s.pc = "read" /\ MineKept(r, s)
            /\ s.from = NULL \/ s.from \in CartsOfGuest(r.guest)
  <2>1. s.from # NULL => OfGuest(r, s.from)
    BY <1>4, <1>10, FoundIsOwn DEF CartsOfGuest
  <2> QED BY <1>3, <1>4, <1>5, <1>10, <2>1 DEF MineKept, WorkOn, Merging
<1>11. CASE /\ r.pc = "read" /\ r.todo = {} /\ r.from # NULL /\ MineKept(r, s) /\ TheirsKept(r, s)
            /\ s.pc = IF r.cart = NULL THEN "assign" ELSE "mergeTx"
  BY <1>3, <1>4, <1>5, <1>11 DEF MineKept, TheirsKept, WorkOn, Merging
<1> QED BY <1>1, <1>2, <1>6, <1>7, <1>8, <1>9, <1>10, <1>11 DEF MergeMove

\* No step breaks what requests say of their carts.
LEMMA WorkStep ==
    ASSUME TypeOK, RequestInv, ReadInv, WorkInv, Moved, [Next]_shoppingVars
    PROVE  WorkInv'
<1>1. ASSUME NEW k \in Calls, call'[k].pc \in Uncarted
      PROVE  ~carts'[k].exists
  <2>1. ~carts[k].exists
    BY <1>1, UncartedBefore DEF WorkInv
  <2>2. call'[k].pc \in Before
    BY <1>1 DEF Uncarted, Before
  <2> QED BY <2>1, <2>2, CartsMoves DEF CartsMove, CartKept
<1>2. ASSUME NEW c \in Calls, NEW k, Sent(call[c], call'[c])
      PROVE  /\ Own(call[c], k) =>
                    Created(k)' /\ (carts'[k].exists => CartOf(carts'[k], call'[c]))
             /\ OfGuest(call[c], k) =>
                    Created(k)' /\ (carts'[k].exists => carts'[k].guest = call'[c].guest)
  <2>1. CASE Created(k)
    <3>1. /\ Created(k)'
          /\ carts'[k].exists => carts[k].exists /\ carts'[k].guest = carts[k].guest
          /\ Own(call[c], k) => (carts'[k].exists => CartOf(carts'[k], call[c]))
      BY <2>1, CartStaysOwn
    <3> QED BY <1>2, <3>1 DEF Sent, CartOf, OfGuest
  <2> QED BY <2>1 DEF Own, OfGuest
<1>3. ASSUME NEW c \in Calls, call'[c].pc \in OnCart
      PROVE  WorkOn(call[c])'
  <2>1. PICK k : k = call'[c].cart
    OBVIOUS
  <2>2. Created(k)' /\ (carts'[k].exists => CartOf(carts'[k], call'[c]))
    <3>1. /\ Sent(call[c], call'[c])
          /\ \/ call[c].pc \in OnCart /\ k = call[c].cart
             \/ k \in OwnCarts(c) /\ UNCHANGED carts
             \/ /\ k = c /\ carts'[c].user = call[c].user
                /\ carts'[c].guest = IF call[c].user = NULL THEN call[c].guest ELSE NULL
      BY <1>3, <2>1, WorkMoves
    <3>2. call[c].guest \in Guests /\ call[c].user \in AnyUser
      <4>1. RequestInv' /\ call[c] \in Call
        BY RequestStep DEF TypeOK, ShopTypeOK
      <4>2. PlaceOK(call'[c]) /\ AskedOK(call'[c])
        BY <4>1 DEF RequestInv
      <4> QED BY <1>3, <3>1, <4>1, <4>2, CallShape DEF OnCart, PlaceOK, AskedOK, Sent, CartKinds
    <3>3. CASE call[c].pc \in OnCart /\ k = call[c].cart
      BY <1>2, <3>1, <3>3 DEF WorkInv, WorkOn
    <3>4. CASE k \in OwnCarts(c)
      <4>1. Own(call[c], k)
        BY <3>2, <3>4, FoundIsOwn DEF OwnCarts, CartsOfUser, CartsOfGuest, AnyUser
      <4> QED BY <1>2, <3>1, <4>1
    <3>5. CASE /\ k = c /\ carts'[c].user = call[c].user
               /\ carts'[c].guest = IF call[c].user = NULL THEN call[c].guest ELSE NULL
      <4>1. Created(k)'
        BY <1>3, <3>5 DEF Created, OnCart, Uncarted
      <4> QED BY <3>1, <3>2, <3>5, <4>1, ShopConstants DEF CartOf, Sent
    <3> QED BY <3>1, <3>3, <3>4, <3>5
  <2> QED BY <1>3, <2>1, <2>2 DEF WorkOn, Own, OnCart, Merging
<1>4. ASSUME NEW c \in Calls, call'[c].pc \in Merging
      PROVE  WorkOn(call[c])'
  <2>1. PICK k, j : k = call'[c].cart /\ j = call'[c].from
    OBVIOUS
  <2>2. /\ Sent(call[c], call'[c])
        /\ "mine" \notin call'[c].todo /\ k # NULL => Own(call[c], k)
        /\ "theirs" \notin call'[c].todo /\ j # NULL => OfGuest(call[c], j)
        /\ call'[c].pc \in {"assign", "mergeTx"} =>
              "mine" \notin call'[c].todo /\ "theirs" \notin call'[c].todo /\ j # NULL
        /\ call'[c].pc = "mergeTx" => k # NULL
    BY <1>4, <2>1, MergeFinds
  <2>3. /\ "mine" \notin call'[c].todo /\ k # NULL =>
              Created(k)' /\ (carts'[k].exists => CartOf(carts'[k], call'[c]))
        /\ "theirs" \notin call'[c].todo /\ j # NULL =>
              Created(j)' /\ (carts'[j].exists => carts'[j].guest = call'[c].guest)
    BY <1>2, <2>2
  <2> QED BY <1>4, <2>1, <2>2, <2>3 DEF WorkOn, Own, OfGuest, OnCart, Merging
<1>5. ASSUME NEW c \in Calls, call'[c].pc \notin OnCart, call'[c].pc \notin Merging
      PROVE  WorkOn(call[c])'
  BY <1>5 DEF WorkOn, Merging
<1> QED BY <1>1, <1>3, <1>4, <1>5 DEF WorkInv

\* What is in a row stays, in each step that does not come from who works on it.
QuantityKept(k) ==
    \A v \in Variants : carts'[k].items[v].quantity = carts[k].items[v].quantity

\* Who changes what is in a cart has the cart.
LEMMA Writers ==
    ASSUME TypeOK, RequestInv, WorkInv, [Next]_shoppingVars, NEW k \in Calls, carts'[k].exists
    PROVE  \/ CartKept(k) /\ QuantityKept(k)
           \/ \E e \in Calls :
                 call[e].pc \in Steps /\ call'[e].pc \notin Merging /\ CartOf(carts'[k], call[e])
<1> DEFINE Goal == \/ CartKept(k) /\ QuantityKept(k)
                   \/ \E e \in Calls :
                         /\ call[e].pc \in Steps /\ call'[e].pc \notin Merging
                         /\ CartOf(carts'[k], call[e])
<1>t. call \in [Calls -> Call] /\ carts \in [Calls -> CartRow]
  BY DEF TypeOK, ShopTypeOK
<1>w. CartRow = [exists: BOOLEAN, user: AnyUser, guest: AnyGuest, updatedAt: Nat,
                 items: [Variants -> Item]]
  BY DEF CartRow, AnyUser, AnyGuest
<1>n. ~NoCart.exists
  BY DEF NoCart
<1>f. \A e \in Calls : Finish(e) => call'[e].pc \notin Merging
  BY <1>t, FinishFacts DEF Merging
<1>0. CASE carts'[k] = carts[k]
  BY <1>0 DEF CartKept, QuantityKept
<1>own. ASSUME NEW e \in Calls, call[e].pc \in Steps, call'[e].pc \notin Merging,
               Own(call[e], k), carts[k].exists,
               carts'[k].user = carts[k].user, carts'[k].guest = carts[k].guest
        PROVE  Goal
  <2>1. CartOf(carts'[k], call[e])
    BY <1>own DEF Own, CartOf
  <2> QED BY <1>own, <2>1
<1> HIDE DEF Goal
<1> SUFFICES Goal
  BY DEF Goal
<1>k. Goal <=> \/ CartKept(k) /\ QuantityKept(k)
               \/ \E e \in Calls : call[e].pc \in Steps /\ call'[e].pc \notin Merging
                                  /\ CartOf(carts'[k], call[e])
  BY DEF Goal
<1>1. ASSUME NEW e \in Calls, CreateCart(e), carts'[k] # carts[k]
      PROVE  Goal
  <2> DEFINE g == IF call[e].user = NULL THEN call[e].guest ELSE NULL
  <2>1. /\ call[e].pc = "create" /\ k = e
        /\ carts' = [carts EXCEPT ![e] =
              [NoCart EXCEPT !.exists = TRUE, !.user = call[e].user, !.guest = g, !.updatedAt = now]]
    BY <1>1, <1>t DEF CreateCart
  <2>2. carts'[k].user = call[e].user /\ carts'[k].guest = g
    BY <1>t, <2>1 DEF NoCart
  <2>3. call[e].guest \in Guests
    BY <2>1 DEF RequestInv, PlaceOK, AskedOK, CartKinds
  <2>4. CartOf(carts'[k], call[e])
    BY <2>2, <2>3, ShopConstants DEF CartOf
  <2>5. call'[e].pc \notin Merging
    <3>1. \/ Finish(e)
          \/ call' = [call EXCEPT ![e].cart = e, ![e].pc = IF call[e].user # NULL THEN "item" ELSE "check"]
      BY <1>1 DEF CreateCart
    <3>2. CASE ~Finish(e)
      BY <1>t, <3>1, <3>2, CallShape DEF Merging
    <3> QED BY <1>f, <3>2
  <2> QED BY <1>k, <2>1, <2>4, <2>5 DEF Steps
<1>2. ASSUME NEW e \in Calls, InsertItem(e) \/ WriteQuantity(e), carts'[k] # carts[k]
      PROVE  Goal
  <2>1. /\ call[e].pc \in OnCart /\ call[e].pc \in Steps /\ Finish(e) /\ k = call[e].cart
        /\ carts'[k].exists = carts[k].exists
        /\ carts'[k].user = carts[k].user /\ carts'[k].guest = carts[k].guest
    <3>1. CASE InsertItem(e)
      BY <1>2, <1>t, <1>w, <3>1 DEF InsertItem, OnCart, Steps
    <3>2. CASE WriteQuantity(e)
      BY <1>2, <1>t, <1>w, <3>2 DEF WriteQuantity, OnCart, Steps
    <3> QED BY <1>2, <3>1, <3>2
  <2>2. Own(call[e], k)
    BY <2>1 DEF WorkInv, WorkOn
  <2> QED BY <1>f, <1>own, <2>1, <2>2
<1>3. ASSUME NEW e \in Calls, DeleteForDelta(e) \/ RemoveCartItem(e), carts'[k] # carts[k]
      PROVE  Goal
  <2>1. /\ call[e].pc \in {"delete", "remove"} /\ k \in CartsWith(e)
        /\ carts'[k] = [carts[k] EXCEPT !.items[call[e].variant] = NoItem]
    BY <1>3 DEF DeleteForDelta, RemoveCartItem, DeleteItem
  <2>2. /\ carts'[k].exists = carts[k].exists
        /\ carts'[k].user = carts[k].user /\ carts'[k].guest = carts[k].guest
    BY ZenonT(30), <1>t, <1>w, <2>1
  <2>3. k \in OwnCarts(e)
    BY <2>1 DEF CartsWith
  <2>4. call[e].guest \in Guests /\ call[e].user \in AnyUser
    <3>1. call[e] \in Call /\ PlaceOK(call[e]) /\ AskedOK(call[e])
      BY <1>t DEF RequestInv
    <3> QED BY <2>1, <3>1, CallShape DEF PlaceOK, AskedOK, CartKinds
  <2>5. Own(call[e], k)
    BY <2>3, <2>4, FoundIsOwn DEF OwnCarts, CartsOfUser, CartsOfGuest, AnyUser
  <2>6. call'[e].pc \notin Merging
    <3>1. CASE Finish(e)
      BY <1>f, <3>1
    <3>2. CASE Goto(e, "stock")
      <4>1. "stock" \in CallPcs /\ "stock" \notin Merging
        BY DEF CallPcs, Steps, Merging
      <4> QED BY <1>t, <3>2, <4>1, GotoFacts
    <3> QED BY <1>3, <3>1, <3>2 DEF DeleteForDelta, RemoveCartItem
  <2> QED BY <1>own, <2>1, <2>2, <2>5, <2>6 DEF Steps
<1>4. ASSUME NEW e \in Calls, ClearCart(e)
      PROVE  Goal
  BY <1>0, <1>4, <1>k, <1>n DEF ClearCart, CartKept, QuantityKept
<1>5. ASSUME NEW e \in Calls, AssignCart(e), carts'[k] # carts[k]
      PROVE  Goal
  <2>1. /\ call[e].pc = "assign" /\ k = call[e].from /\ carts[k].exists /\ Finish(e)
        /\ carts'[k].user = call[e].user /\ carts'[k].guest = carts[k].guest
    BY <1>5, <1>t, <1>w DEF AssignCart
  <2>2. call[e].guest \in Guests /\ call[e].user \in Users
    BY <2>1, MergerFacts DEF Merging
  <2>3. OfGuest(call[e], k)
    BY <2>1 DEF WorkInv, WorkOn, Merging
  <2>4. CartOf(carts'[k], call[e])
    BY <2>1, <2>2, <2>3, ShopConstants DEF OfGuest, CartOf
  <2> QED BY <1>f, <1>k, <2>1, <2>4 DEF Steps
<1>6. ASSUME NEW e \in Calls, MergeCartUser(e), carts'[k] # carts[k]
      PROVE  Goal
  <2> DEFINE j == call[e].cart
             filled == [carts EXCEPT ![j].items = Upserted(e, @)]
  <2>1. /\ call[e].pc = "mergeTx" /\ Finish(e) /\ carts'[k] = filled[k]
    BY ZenonT(30), <1>6, <1>n DEF MergeCartUser
  <2>2. /\ filled[k].exists = carts[k].exists /\ filled[k].user = carts[k].user
        /\ filled[k].guest = carts[k].guest
        /\ k # j => filled[k] = carts[k]
    BY <1>t, <1>w
  <2> HIDE DEF filled
  <2>3. Own(call[e], k)
    BY <1>6, <2>1, <2>2 DEF WorkInv, WorkOn, Merging
  <2> QED BY SMTT(30), <1>f, <1>own, <2>1, <2>2, <2>3 DEF Steps
<1>7. CASE DeleteInactive
  BY SMTT(30), <1>0, <1>7, <1>k, <1>n DEF DeleteInactive, CartKept, QuantityKept
<1>8. CASE \E e \in Calls : CartStep(e)
  BY ZenonT(30), <1>0, <1>1, <1>2, <1>3, <1>4, <1>5, <1>6, <1>8, <1>k
     DEF CartStep, FindCart, FindItem, CheckStock, FindForDelta, ReadStock, ReadGuestCart, ReadUserCart, EndRead,
         CartKept, QuantityKept
<1>9. CASE UNCHANGED carts
  BY <1>9, <1>k DEF CartKept, QuantityKept
<1>10. CASE ~DeleteInactive /\ ~(\E e \in Calls : CartStep(e))
  <2>1. UNCHANGED carts
    BY ZenonT(30), <1>10 DEF Next, shoppingVars, shopVars, StartCall, ReadSeenSession, AttachGuestSession, NewGuest, Convert,
       ReadInactive, Tick, WishStep, FindWishlist, CreateWishlist, FindWish, InsertWish,
       DeleteWish, DeleteWishlist, AddressStep, CountAddresses, FindAddress, CreateAddress,
       UpdateAddress, SetDefault, SoftDelete
  <2> QED BY <1>9, <2>1
<1> QED BY <1>7, <1>8, <1>10

\* What a merge that ran alone has read of a cart that is nobody else's is what
\* is there.
MergeInv ==
    \A c \in Calls :
        LET r == call[c] IN
        r.pc \in Merging /\ ~r.overlapped =>
            /\ /\ "mine" \notin r.todo /\ r.cart # NULL /\ carts[r.cart].exists
               /\ carts[r.cart].user = r.user /\ carts[r.cart].guest = NULL
               => \A v \in Variants : r.mine[v] = carts[r.cart].items[v].quantity
            /\ /\ "theirs" \notin r.todo /\ r.from # NULL /\ carts[r.from].exists
               /\ carts[r.from].guest = r.guest /\ carts[r.from].user = NULL
               => \A v \in Variants : r.theirs[v] = carts[r.from].items[v].quantity

\* Others write only to carts they share with the merge, and then it has met them.
LEMMA MergeStep ==
    ASSUME TypeOK, RequestInv, PeersInv, ReadInv, WorkInv, MergeInv, Moved, [Next]_shoppingVars
    PROVE  MergeInv'
<1> SUFFICES ASSUME NEW c \in Calls, call'[c].pc \in Merging, ~call'[c].overlapped
             PROVE  LET r == call'[c] IN
                    /\ /\ "mine" \notin r.todo /\ r.cart # NULL /\ carts'[r.cart].exists
                       /\ carts'[r.cart].user = r.user /\ carts'[r.cart].guest = NULL
                       => \A v \in Variants : r.mine[v] = carts'[r.cart].items[v].quantity
                    /\ /\ "theirs" \notin r.todo /\ r.from # NULL /\ carts'[r.from].exists
                       /\ carts'[r.from].guest = r.guest /\ carts'[r.from].user = NULL
                       => \A v \in Variants : r.theirs[v] = carts'[r.from].items[v].quantity
  BY DEF MergeInv
<1> DEFINE r == call[c]
           s == call'[c]
<1>1. Sent(r, s) /\ r.pc \in Steps /\ r.user \in Users /\ r.guest \in Guests /\ ~r.overlapped
  <2>1. Sent(r, s) /\ r.pc \in Steps /\ r.user \in Users /\ r.guest \in Guests
    BY MergeFinds
  <2>2. r.pc # "idle"
    BY <2>1 DEF Steps, AddressKinds
  <2> QED BY <2>1, <2>2, Remembers
<1>2. /\ "mine" \notin s.todo /\ s.cart # NULL => s.cart \in Calls
      /\ "theirs" \notin s.todo /\ s.from # NULL => s.from \in Calls
  BY MergeFinds DEF Own, OfGuest, Created
<1>3. ASSUME NEW k \in Calls, carts'[k].exists,
             \/ carts'[k].user = r.user /\ carts'[k].guest = NULL
             \/ carts'[k].guest = r.guest /\ carts'[k].user = NULL
      PROVE  CartKept(k) /\ QuantityKept(k)
  <2>1. ASSUME NEW e \in Calls, call[e].pc \in Steps, call'[e].pc \notin Merging,
               CartOf(carts'[k], call[e])
        PROVE  FALSE
    <3>1. e # c
      BY <2>1
    <3>2. UnderWay(c) /\ UnderWay(e)
      BY <1>1, <2>1 DEF UnderWay
    <3>3. \/ call[c].guest = call[e].guest /\ call[c].guest \in Guests
          \/ call[c].user = call[e].user /\ call[c].user \in Users
      BY <1>1, <1>3, <2>1 DEF CartOf
    <3> QED BY <1>1, <3>1, <3>2, <3>3, Met
  <2> QED BY <1>3, <2>1, Writers
<1>4. MergeMove(c)
  BY MergeMoves
<1>5. s.kind = "merge" /\ s.pc \in Steps
  <2>1. RequestInv'
    BY RequestStep
  <2>2. PlaceOK(call'[c])
    BY <2>1 DEF RequestInv
  <2> QED BY <2>2 DEF PlaceOK, Merging, Steps
<1>6. r.pc \in {"seen", "attach"} => "mine" \in r.todo /\ "theirs" \in r.todo
  BY <1>1, <1>5 DEF ReadInv, Sent
<1>7. \/ MineKept(r, s) /\ (r.pc \in Merging \/ r.pc \in {"seen", "attach"})
      \/ UNCHANGED carts /\ (s.cart = NULL \/ s.mine = QuantitiesIn(s.cart))
  BY <1>1, <1>4, <1>5 DEF MergeMove, Merging, Steps, AddressKinds
<1>8. \/ TheirsKept(r, s) /\ (r.pc \in Merging \/ r.pc \in {"seen", "attach"})
      \/ UNCHANGED carts /\ (s.from = NULL \/ s.theirs = QuantitiesIn(s.from))
  BY <1>1, <1>4, <1>5 DEF MergeMove, Merging, Steps, AddressKinds
<1>9. ASSUME "mine" \notin s.todo, s.cart # NULL, carts'[s.cart].exists,
             carts'[s.cart].user = s.user, carts'[s.cart].guest = NULL, NEW v \in Variants
      PROVE  s.mine[v] = carts'[s.cart].items[v].quantity
  <2>1. PICK k \in Calls : k = s.cart
    BY <1>2, <1>9
  <2>2. CASE MineKept(r, s) /\ r.pc \in Merging
    <3>1. CartKept(k) /\ QuantityKept(k)
      BY <1>1, <1>3, <1>9, <2>1 DEF Sent
    <3>2. r.mine[v] = carts[k].items[v].quantity
      BY <1>1, <1>9, <2>1, <2>2, <3>1 DEF MergeInv, MineKept, CartKept, Sent
    <3> QED BY <2>1, <2>2, <3>1, <3>2 DEF MineKept, QuantityKept
  <2>3. CASE MineKept(r, s) /\ r.pc \in {"seen", "attach"}
    BY <1>6, <1>9, <2>3 DEF MineKept
  <2>4. CASE UNCHANGED carts /\ s.mine = QuantitiesIn(s.cart)
    BY <2>4 DEF QuantitiesIn
  <2> QED BY <1>7, <1>9, <2>2, <2>3, <2>4
<1>10. ASSUME "theirs" \notin s.todo, s.from # NULL, carts'[s.from].exists,
              carts'[s.from].guest = s.guest, carts'[s.from].user = NULL, NEW v \in Variants
       PROVE  s.theirs[v] = carts'[s.from].items[v].quantity
  <2>1. PICK k \in Calls : k = s.from
    BY <1>2, <1>10
  <2>2. CASE TheirsKept(r, s) /\ r.pc \in Merging
    <3>1. CartKept(k) /\ QuantityKept(k)
      BY <1>1, <1>3, <1>10, <2>1 DEF Sent
    <3>2. r.theirs[v] = carts[k].items[v].quantity
      BY <1>1, <1>10, <2>1, <2>2, <3>1 DEF MergeInv, TheirsKept, CartKept, Sent
    <3> QED BY <2>1, <2>2, <3>1, <3>2 DEF TheirsKept, QuantityKept
  <2>3. CASE TheirsKept(r, s) /\ r.pc \in {"seen", "attach"}
    BY <1>6, <1>10, <2>3 DEF TheirsKept
  <2>4. CASE UNCHANGED carts /\ s.theirs = QuantitiesIn(s.from)
    BY <2>4 DEF QuantitiesIn
  <2> QED BY <1>8, <1>10, <2>2, <2>3, <2>4
<1> QED BY <1>9, <1>10

\* The copies of a variant in some carts.
Held(rows, v, S) == MapThenSumSet(LAMBDA x : rows[x].items[v].quantity, S)

\* How many copies are in some carts is a sum.
LEMMA CopiesSum ==
    ASSUME NEW rows, NEW v, NEW S, IsFiniteSet(S), \A x \in S : rows[x].items[v].quantity \in Int
    PROVE  \E g : /\ IsSum(g, [x \in S |-> rows[x].items[v].quantity], S)
                  /\ Held(rows, v, S) = g[S]
<1> DEFINE e == [x \in S |-> rows[x].items[v].quantity]
           c == [s \in SUBSET S |-> CHOOSE x \in s : TRUE]
           Rest(h, s) ==
              IF s = {} THEN 0
              ELSE rows[CHOOSE x \in s : TRUE].items[v].quantity + h[s \ {CHOOSE x \in s : TRUE}]
           iter == CHOOSE h : h = [s \in SUBSET S |-> Rest(h, s)]
<1>1. Held(rows, v, S) = iter[S]
  BY DEF Held, MapThenSumSet, MapThenFoldSet
<1>2. \A h : [s \in SUBSET S |-> Rest(h, s)] = [s \in SUBSET S |-> Folded(h, e, c, s)]
  <2> SUFFICES ASSUME NEW h, NEW s \in SUBSET S
               PROVE  Rest(h, s) = Folded(h, e, c, s)
    OBVIOUS
  <2>1. s # {} => (CHOOSE x \in s : TRUE) \in S
    OBVIOUS
  <2> QED BY <2>1 DEF Folded
<1>3. iter = CHOOSE h : h = [s \in SUBSET S |-> Folded(h, e, c, s)]
  BY <1>2
<1>4. e \in [S -> Int] /\ Chooses(c, S)
  BY ChooseAny
<1>5. IsSum(iter, e, S)
  <2> HIDE DEF e, c, iter
  <2> QED BY <1>3, <1>4, FoldValue
<1> QED BY <1>1, <1>5

\* Copies in one cart ...
LEMMA OneCart ==
    ASSUME NEW rows, NEW v, NEW k, rows[k].items[v].quantity \in Int
    PROVE  Held(rows, v, {k}) = rows[k].items[v].quantity
<1>1. IsFiniteSet({k}) /\ {} \in SUBSET {k} /\ {} \union {k} = {k} /\ k \in {k}
  <2>1. IsFiniteSet({}) /\ {} \union {k} = {k}
    BY FS_EmptySet
  <2> QED BY <2>1, FS_AddElement
<1>2. PICK e : e = [x \in {k} |-> rows[x].items[v].quantity]
  OBVIOUS
<1>3. PICK g : IsSum(g, e, {k}) /\ Held(rows, v, {k}) = g[{k}]
  <2>1. \A x \in {k} : rows[x].items[v].quantity \in Int
    OBVIOUS
  <2> QED BY <1>1, <1>2, <2>1, CopiesSum
<1>4. g[{}] = 0 /\ g[{k}] = e[k] + g[{}]
  BY <1>1, <1>3 DEF IsSum
<1> QED BY <1>2, <1>3, <1>4

\* ... and in two.
LEMMA TwoCarts ==
    ASSUME NEW rows, NEW v, NEW k, NEW j, k # j, NEW S, S = {j, k},
           rows[k].items[v].quantity \in Int, rows[j].items[v].quantity \in Int
    PROVE  Held(rows, v, S) = rows[k].items[v].quantity + rows[j].items[v].quantity
<1>1. /\ {} \in SUBSET S /\ {j} \in SUBSET S /\ {} \union {j} = {j} /\ {j} \union {k} = S
      /\ j \in S /\ k \in S /\ k \notin {j} /\ j \notin {}
  OBVIOUS
<1>2. IsFiniteSet(S)
  <2>1. IsFiniteSet({j})
    BY SMTT(30), <1>1, FS_EmptySet, FS_AddElement
  <2> QED BY <1>1, <2>1, FS_AddElement
<1>3. PICK e : e = [x \in S |-> rows[x].items[v].quantity]
  OBVIOUS
<1>4. PICK g : IsSum(g, e, S) /\ Held(rows, v, S) = g[S]
  <2>1. \A x \in S : rows[x].items[v].quantity \in Int
    OBVIOUS
  <2> QED BY <1>2, <1>3, <2>1, CopiesSum
<1>5. g[{}] = 0 /\ g[{j}] = e[j] + g[{}] /\ g[S] = e[k] + g[{j}]
  <2>1. \A s \in SUBSET S, x \in S : x \notin s => g[s \union {x}] = e[x] + g[s]
    BY <1>4 DEF IsSum
  <2>2. g[{}] = 0
    BY <1>4 DEF IsSum
  <2> HIDE DEF IsSum
  <2>3. g[{} \union {j}] = e[j] + g[{}] /\ g[{j} \union {k}] = e[k] + g[{j}]
    BY <1>1, <2>1
  <2> QED BY <1>1, <2>2, <2>3
<1>6. e[j] = rows[j].items[v].quantity /\ e[k] = rows[k].items[v].quantity
  BY <1>1, <1>3
<1> QED BY <1>4, <1>5, <1>6

MergesInv == OneInv /\ WorkInv /\ MergeInv

\* Initially there are no requests and no carts.
LEMMA InitMerges ==
    ASSUME Init
    PROVE  MergesInv
<1>1. /\ \A c \in Calls : call[c].pc = "idle"
      /\ carts = [c \in Calls |-> NoCart]
  BY DEF Init, ShopInit, IdleCall
<1>2. WorkInv /\ MergeInv
  BY <1>1 DEF WorkInv, WorkOn, MergeInv, OnCart, Merging, NoCart
<1> QED BY <1>2, InitOne DEF MergesInv

\* No step breaks it.
LEMMA StepMerges ==
    ASSUME MergesInv, [Next]_shoppingVars
    PROVE  MergesInv'
<1>1. OneInv'
  BY StepOne DEF MergesInv
<1>2. Moved /\ TypeOK /\ RequestInv /\ PeersInv /\ ReadInv /\ WorkInv /\ MergeInv
  BY StepKeeps DEF MergesInv, OneInv, ShoppingInv, Kept
<1> QED BY <1>1, <1>2, WorkStep, MergeStep DEF MergesInv

\* A merge that commits adds what it has read, which is what is there.
LEMMA MergeCommits ==
    ASSUME MergesInv, [Next]_shoppingVars, NEW c \in Calls, NEW v \in Variants,
           NEW mine, NEW theirs,
           mine = CartsOfUser(call[c].user), theirs = CartsOfGuest(call[c].guest),
           call[c].pc = "mergeTx", call'[c].pc = "done", ~call[c].overlapped,
           {call[c].cart} = mine, {call[c].from} = theirs,
           \A k \in mine : carts[k].guest = NULL,
           \A k \in theirs : carts[k].user = NULL
    PROVE  Held(carts', v, mine) = Total(mine \union theirs, v)
<1> DEFINE r == call[c]
<1>t. /\ call \in [Calls -> Call] /\ carts \in [Calls -> CartRow] /\ call[c] \in Call
  BY DEF MergesInv, OneInv, ShoppingInv, TypeOK, ShopTypeOK
<1>u. /\ r.user \in Users /\ r.guest \in Guests /\ TypeOK /\ RequestInv /\ Moved
      /\ WorkOn(r)
  BY MergerFacts, StepKeeps DEF MergesInv, OneInv, ShoppingInv, Kept, Merging, WorkInv
<1>1. PICK k \in Calls, j \in Calls :
         /\ k = r.cart /\ j = r.from /\ mine = {k} /\ theirs = {j}
         /\ carts[k].exists /\ carts[k].user = r.user /\ carts[k].guest = NULL
         /\ carts[j].exists /\ carts[j].guest = r.guest /\ carts[j].user = NULL
  BY DEF CartsOfUser, CartsOfGuest
<1>2. k # j
  BY <1>1, <1>u, ShopConstants
<1>3. r.mine[v] = carts[k].items[v].quantity /\ r.theirs[v] = carts[j].items[v].quantity
  <2>1. "mine" \notin r.todo /\ "theirs" \notin r.todo
    BY <1>u DEF WorkOn
  <2>2. r.cart # NULL /\ r.from # NULL
    BY <1>1, ShopConstants
  <2>3. /\ carts[k].exists /\ carts[k].user = r.user /\ carts[k].guest = NULL
           => \A w \in Variants : r.mine[w] = carts[k].items[w].quantity
        /\ carts[j].exists /\ carts[j].guest = r.guest /\ carts[j].user = NULL
           => \A w \in Variants : r.theirs[w] = carts[j].items[w].quantity
    BY <1>1, <2>1, <2>2 DEF MergesInv, MergeInv, Merging
  <2> QED BY <1>1, <2>3
<1>4. carts[k].items[v].quantity \in Nat /\ carts[j].items[v].quantity \in Nat
  BY <1>t DEF CartRow, Item
<1>5. MergeCartUser(c)
  <2>1. PICK x \in Calls : Arrival(x) \/ OwnStep(x)
    <3>1. call'[c] # call[c]
      OBVIOUS
    <3> QED BY <3>1, WhoSteps
  <2>2. x = c
    BY <1>u, <2>1, Bystanders DEF Still
  <2>3. OwnStep(c)
    BY <2>1, <2>2, ArrivalLeaves
  <2> QED BY <2>3, StepIsAt
<1>6. carts'[k].items[v].quantity = carts[k].items[v].quantity + carts[j].items[v].quantity
  <2>1. PICK items : items = Upserted(c, carts[k].items)
    OBVIOUS
  <2>2. PICK filled : filled = [carts EXCEPT ![k].items = items]
    OBVIOUS
  <2>3. carts' = [i \in Calls |-> IF filled[i].guest = r.guest THEN NoCart ELSE filled[i]]
    BY <1>1, <1>5, <2>1, <2>2 DEF MergeCartUser
  <2>4. filled[k].guest = carts[k].guest /\ filled[k].items = items
    BY <1>t, <2>2 DEF CartRow
  <2>5. carts'[k].items[v] = items[v]
    BY <1>1, <1>u, <2>3, <2>4, ShopConstants
  <2>6. items[v].quantity = r.mine[v] + r.theirs[v]
    <3>1. CASE r.theirs[v] = 0
      BY <1>3, <1>4, <2>1, <3>1 DEF Upserted
    <3>2. CASE r.theirs[v] # 0
      BY <2>1, <3>2 DEF Upserted, MergedQuantity
    <3> QED BY <3>1, <3>2
  <2> QED BY <1>3, <2>5, <2>6
<1>7. Held(carts', v, mine) = carts'[k].items[v].quantity
  <2>1. carts'[k].items[v].quantity \in Int
    BY <1>4, <1>6
  <2>2. Held(carts', v, {k}) = carts'[k].items[v].quantity
    BY <2>1, OneCart
  <2> QED BY <1>1, <2>2
<1>8. Held(carts, v, mine \union theirs) =
          carts[k].items[v].quantity + carts[j].items[v].quantity
  <2>1. PICK S : S = {j, k} /\ S = mine \union theirs
    BY <1>1
  <2>2. carts[k].items[v].quantity \in Int /\ carts[j].items[v].quantity \in Int
    BY <1>4
  <2>3. Held(carts, v, S) = carts[k].items[v].quantity + carts[j].items[v].quantity
    BY <1>2, <2>1, <2>2, TwoCarts
  <2> QED BY <2>1, <2>3
<1>9. Total(mine \union theirs, v) = Held(carts, v, mine \union theirs)
  BY DEF Total, Held
<1> QED BY <1>6, <1>7, <1>8, <1>9

\* A merge that ran alone, of a cart that is only the guest's into one that is only
\* the user's, loses no copy and makes none, whatever other shoppers do meanwhile.
THEOREM MergesAddUp == Spec => MergeAddsUp
<1>1. Init => MergesInv
  BY InitMerges
<1>2. MergesInv /\ [Next]_shoppingVars => MergesInv'
  BY StepMerges
<1>3. ASSUME MergesInv, [Next]_shoppingVars
      PROVE  \A c \in Calls, v \in Variants :
                LET mine == CartsOfUser(call[c].user)
                    theirs == CartsOfGuest(call[c].guest)
                IN  /\ call[c].pc = "mergeTx" /\ call'[c].pc = "done" /\ ~call[c].overlapped
                    /\ {call[c].cart} = mine /\ {call[c].from} = theirs
                    /\ \A k \in mine : carts[k].guest = NULL
                    /\ \A k \in theirs : carts[k].user = NULL
                    => MapThenSumSet(LAMBDA k : carts'[k].items[v].quantity, mine)
                           = Total(mine \union theirs, v)
  <2> SUFFICES ASSUME NEW c \in Calls, NEW v \in Variants
               PROVE  LET mine == CartsOfUser(call[c].user)
                          theirs == CartsOfGuest(call[c].guest)
                      IN  /\ call[c].pc = "mergeTx" /\ call'[c].pc = "done" /\ ~call[c].overlapped
                          /\ {call[c].cart} = mine /\ {call[c].from} = theirs
                          /\ \A k \in mine : carts[k].guest = NULL
                          /\ \A k \in theirs : carts[k].user = NULL
                          => Held(carts', v, mine) = Total(mine \union theirs, v)
    BY DEF Held
  <2> QED BY <1>3, MergeCommits
<1> QED BY <1>1, <1>2, <1>3, PTL DEF Spec, MergeAddsUp
=============================================================================
