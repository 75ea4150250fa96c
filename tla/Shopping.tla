------------------------------ MODULE Shopping ------------------------------
(***************************************************************************)
(* The cart, wishlist and address endpoints, conversions and the cleanup   *)
(* over one database.                                                      *)
(***************************************************************************)
EXTENDS Carts, Wishlists, Addresses, FiniteSetsExt

Next ==
    \/ /\ \/ \E c \in Calls : StartCall(c) \/ ReadSeenSession(c) \/ AttachGuestSession(c) \/ CartStep(c)
          \/ \E g \in Guests : Convert(g)
          \/ ReadInactive
          \/ Tick
       /\ UNCHANGED <<wishlists, addresses>>
    \/ DeleteInactive /\ CascadeWishlists /\ UNCHANGED addresses
    \/ \E c \in Calls : WishStep(c) /\ UNCHANGED addresses
    \/ \E c \in Calls : AddressStep(c) /\ UNCHANGED wishlists

Init ==
    /\ ShopInit
    /\ wishlists = [c \in Calls |-> NoWishlist]
    /\ addresses = [c \in Calls |-> NoAddress]

shoppingVars == <<shopVars, wishlists, addresses>>

Spec == Init /\ [][Next]_shoppingVars

TypeOK ==
    /\ ShopTypeOK
    /\ wishlists \in [Calls -> WishlistRow]
    /\ addresses \in [Calls -> AddressRow]

Overlapped(S) == {c \in S : call[c].overlapped}

\* How many copies of a variant are in these carts.
Total(S, v) == MapThenSumSet(LAMBDA k : carts[k].items[v].quantity, S)

\* How many copies clients have asked for.
AskedFor(v) ==
    MapThenSumSet(LAMBDA c : IF call[c].amount > 0 THEN call[c].amount ELSE 0,
                  {c \in Calls : call[c].variant = v})

\* Carts never hold more copies than clients have put in, unless two merges ran
\* together with other requests: items are moved by reading quantities and
\* writing sums, by requests whose reads are old when they write.
NothingInvented ==
    \A v \in Variants :
        Cardinality(Overlapped({c \in Calls : call[c].kind = "merge"})) <= 1 =>
            Total(Calls, v) <= AskedFor(v)

\* A merge that ran alone moves every copy of the guest's cart to the user and
\* loses none of the user's.  The carts are carts of nobody else: one that an earlier
\* merge assigned to a user still has its guest session, so that requests of two
\* shoppers work on it, and when it is both it is merged with itself and deleted.
MergeAddsUp ==
    [][\A c \in Calls, v \in Variants :
          LET mine == CartsOfUser(call[c].user)
              theirs == CartsOfGuest(call[c].guest)
          IN  /\ call[c].pc = "mergeTx" /\ call'[c].pc = "done" /\ ~call[c].overlapped
              /\ {call[c].cart} = mine /\ {call[c].from} = theirs
              /\ \A k \in mine : carts[k].guest = NULL
              /\ \A k \in theirs : carts[k].user = NULL
              => MapThenSumSet(LAMBDA k : carts'[k].items[v].quantity, mine)
                     = Total(mine \union theirs, v)]_shoppingVars

\* A session that belongs to a user by now, and its carts, survive the cleanup,
\* unless the cleanup had read it before: what is read is deleted by id.
ConvertedStays ==
    [][\A g \in Guests :
          guests[g].converted /\ g \notin doomed
              => guests'[g].converted /\ g \notin doomed']_shoppingVars
(* ------------------------ Wishlists and addresses ----------------------- *)

LiveLists(S) == {k \in S : wishlists[k].exists /\ ~wishlists[k].deleted}

\* A wish disappears only with its guest session or by a request of the shopper
\* whose list it is on, whatever ids requests name; and a list that was cleared
\* is never shown or filled again, except by requests that had found it before.
WishesAreOwn ==
    [][\A k \in Calls, v \in Variants :
          /\ wishlists[k].items[v] # NULL /\ wishlists'[k].items[v] # wishlists[k].items[v] =>
                 wishlists[k].guest \in doomed \/ \E c \in Calls : UnderWay(c) /\ IsOf(wishlists[k], call[c])
          /\ wishlists[k].deleted /\ wishlists[k].guest \notin doomed =>
                 \A c \in Calls : call'[c].cart = k /\ call'[c].kind \in WishKinds => call[c].cart = k]_shoppingVars

\* Apart from requests that ran at the same time, a user, and a guest, has one
\* cart and one wishlist that was not cleared at most, and a user with addresses
\* has one default address.  Looking for a row and creating it are two statements
\* and nothing in the schema forbids a second one; a merge hands carts over; two
\* first addresses are both the default, and a successor that is deleted meanwhile
\* becomes the default without being shown.
OneOfEach ==
    /\ \A g \in Guests :
          LET disturbed == Overlapped({c \in Calls : call[c].guest = g}) IN
          /\ Cardinality(CartsOfGuest(g)) <= 1 + Cardinality(disturbed)
          /\ Cardinality(LiveLists({k \in Calls : wishlists[k].guest = g})) <= 1 + Cardinality(disturbed)
    /\ \A u \in Users :
          LET disturbed == Overlapped({c \in Calls : call[c].user = u})
              defaults == {a \in Active(u) : addresses[a].isDefault}
          IN  /\ Cardinality(CartsOfUser(u)) <= 1 + Cardinality(disturbed)
              /\ Cardinality(LiveLists({k \in Calls : wishlists[k].user = u})) <= 1 + Cardinality(disturbed)
              /\ Cardinality(defaults) <= 1 + Cardinality(disturbed)
              /\ disturbed = {} /\ Active(u) # {} => Cardinality(defaults) = 1
=============================================================================
