------------------------------ MODULE Addresses ------------------------------
(***************************************************************************)
(* UserAddressRepository.  A transaction reads a snapshot when it begins   *)
(* and writes when it commits.  An address is identified with the request  *)
(* that inserts it.                                                        *)
(***************************************************************************)
EXTENDS GuestSessions

VARIABLE addresses    \* user_addresses

AddressRow ==
    [user: Users \union {NULL}, createdAt: Nat, isDefault: BOOLEAN, deleted: BOOLEAN,
     writtenBy: Calls \union {NULL}]

NoAddress ==
    [user |-> NULL, createdAt |-> 0, isDefault |-> FALSE, deleted |-> FALSE, writtenBy |-> NULL]

Active(u) == {a \in Calls : addresses[a].user = u /\ ~addresses[a].deleted}

\* orderBy createdAt desc, id desc; ids do not say which of two was first.
Newest(S) == {a \in S : \A b \in S : addresses[b].createdAt <= addresses[a].createdAt}

\* createUserAddressByUserId counts the addresses of the user ...
CountAddresses(c, u) ==
    /\ call[c].pc = "idle"
    /\ Begin(c, [IdleCall EXCEPT !.kind = "newAddress", !.pc = "newAddress", !.user = u,
                                 !.quantity = Cardinality(Active(u))])
    /\ UNCHANGED <<guests, carts, addresses, doomed, now>>

\* ... and inserts one, the default if it is the first.
CreateAddress(c) ==
    /\ call[c].pc = "newAddress"
    /\ addresses' = [addresses EXCEPT ![c] =
           [user |-> call[c].user, createdAt |-> now, isDefault |-> call[c].quantity = 0,
            deleted |-> FALSE, writtenBy |-> c]]
    /\ Finish(c)
    /\ UNCHANGED <<guests, carts, doomed, now>>

\* The others find the address among those of the user, or throw.  A deletion of
\* the default one has found its successor in the same snapshot.
FindAddress(c, kind, u, a) ==
    /\ call[c].pc = "idle" /\ kind \in AddressKinds \ {"newAddress"}
    /\ \E next \in IF kind = "dropAddress" /\ addresses[a].isDefault /\ Active(u) \ {a} # {}
                   THEN Newest(Active(u) \ {a}) ELSE {NULL} :
          Begin(c, [IdleCall EXCEPT !.kind = kind, !.user = u, !.item = a, !.from = next,
                                    !.pc = IF a \in Active(u) THEN kind ELSE "done"])
    /\ UNCHANGED <<guests, carts, addresses, doomed, now>>

\* updateUserAddressByIdAndUserId: by id, deleted or not.
UpdateAddress(c) ==
    /\ call[c].pc = "editAddress"
    /\ addresses' = [addresses EXCEPT ![call[c].item].writtenBy = c]
    /\ Finish(c)
    /\ UNCHANGED <<guests, carts, doomed, now>>

\* updateMany of the user's active addresses, then update of one by id.
WithDefault(rows, u, a) ==
    [b \in Calls |->
        [rows[b] EXCEPT !.isDefault = IF b = a THEN TRUE
                                      ELSE @ /\ (rows[b].deleted \/ rows[b].user # u)]]

SetDefault(c) ==
    /\ call[c].pc = "setDefault"
    /\ addresses' = WithDefault(addresses, call[c].user, call[c].item)
    /\ Finish(c)
    /\ UNCHANGED <<guests, carts, doomed, now>>

Dropped(c) == [addresses EXCEPT ![call[c].item].deleted = TRUE, ![call[c].item].isDefault = FALSE]

\* softDeleteByIdAndUserId
SoftDelete(c) ==
    /\ call[c].pc = "dropAddress"
    /\ addresses' = IF call[c].from = NULL THEN Dropped(c)
                    ELSE WithDefault(Dropped(c), call[c].user, call[c].from)
    /\ Finish(c)
    /\ UNCHANGED <<guests, carts, doomed, now>>

AddressStep(c) ==
    \/ \E u \in Users : CountAddresses(c, u)
    \/ \E u \in Users, kind \in AddressKinds, a \in {b \in Calls : addresses[b].user # NULL} :
          FindAddress(c, kind, u, a)
    \/ CreateAddress(c) \/ UpdateAddress(c) \/ SetDefault(c) \/ SoftDelete(c)
==============================================================================
