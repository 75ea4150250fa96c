------------------------------- MODULE Access -------------------------------
(***************************************************************************)
(* Roles, permissions and the PermissionsGuard in front of every admin     *)
(* endpoint: who may do what is read from the database and, per role, from *)
(* a cache that nothing invalidates.                                       *)
(***************************************************************************)
EXTENDS Integers, Sequences, FiniteSets

CONSTANTS
    NULL,
    Roles,             \* role codes
    Permissions,       \* permission codes there may be rows for
    Users,             \* e-mail addresses
    Guards,            \* requests that need a permission
    Grantors,          \* requests that grant a role a permission
    CacheTTL,          \* PERMISSION_CACHE_TTL
    MaxClock           \* bound on the clock

VARIABLES
    roles,             \* codes of the rows of roles
    permissions,       \* codes of the rows of permissions
    grants,            \* role_permissions: pairs of a role and a permission
    users,             \* rows of users with their roles and addresses
    cache,             \* cacheKey.role.permissions: codes and when they expire
    guard, grantor,    \* the requests
    now,
    heldSince,         \* since when a role has had a permission without a break
    heldUntil,         \* when a role had a permission last
    slow               \* some guard let time pass between its read and its set

accessTables == <<roles, permissions, grants, users>>
accessRest == <<cache, guard, grantor, now, slow>>
accessVars == <<accessTables, accessRest, heldSince, heldUntil>>

ASSUME AccessConstants == CacheTTL \in Nat \ {0} /\ MaxClock \in Nat /\ NULL \notin Nat

NoUser == [exists |-> FALSE, roles |-> {}, addresses |-> << >>]

NoEntry == [codes |-> {}, expiresAt |-> NULL]

IdleGuard == [pc |-> "idle", user |-> NULL, code |-> NULL, since |-> 0, roles |-> {}, perms |-> {},
              todo |-> {}, misses |-> {}, read |-> {}, readAt |-> 0]

IdleGrant == [pc |-> "idle", role |-> NULL, code |-> NULL]

\* Every action keeps the books of which role held what.
KeepBooks ==
    /\ heldSince' = [pair \in Roles \X Permissions |->
           IF pair \notin grants' THEN NULL ELSE IF heldSince[pair] = NULL THEN now ELSE heldSince[pair]]
    /\ heldUntil' = [pair \in Roles \X Permissions |-> IF pair \in grants THEN now ELSE heldUntil[pair]]

(* ------------------------------- The guard ------------------------------ *)

\* A request of a signed-in user reaches an endpoint that requires a permission.
Ask(g) ==
    /\ guard[g].pc = "idle"
    /\ \E u \in Users, p \in Permissions :
          /\ users[u].exists
          /\ guard' = [guard EXCEPT ![g] =
                 [IdleGuard EXCEPT !.pc = "roles", !.user = u, !.code = p, !.since = now]]
    /\ UNCHANGED <<accessTables, cache, grantor, now, slow>>

\* getRoleIdsByUserId: the roles that are not deleted
GetRoleIds(g) ==
    LET mine == users[guard[g].user].roles IN
    /\ guard[g].pc = "roles"
    /\ guard' = [guard EXCEPT ![g].pc = "cached", ![g].roles = mine, ![g].todo = mine]
    /\ UNCHANGED <<accessTables, cache, grantor, now, slow>>

\* Mutant of the next one: an entry never expires.
CachedForever(r) == cache[r].expiresAt # NULL

Cached(r) == cache[r].expiresAt # NULL /\ now < cache[r].expiresAt

\* The cache is asked for every role first; an empty list is an answer.
GetCached(g) ==
    /\ guard[g].pc = "cached"
    /\ \/ \E r \in guard[g].todo :
             guard' = [guard EXCEPT ![g].todo = @ \ {r},
                 ![g].perms = @ \union IF Cached(r) THEN cache[r].codes ELSE {},
                 ![g].misses = @ \union IF Cached(r) THEN {} ELSE {r}]
       \/ /\ guard[g].todo = {}
          /\ guard' = [guard EXCEPT ![g].pc = IF guard[g].misses = {} THEN "decide" ELSE "read"]
    /\ UNCHANGED <<accessTables, cache, grantor, now, slow>>

\* getByRoleId: the codes of all permissions of the role, active or not
GetByRoleId(g) ==
    /\ guard[g].pc = "read"
    /\ \E r \in guard[g].misses :
          guard' = [guard EXCEPT ![g].pc = "set", ![g].todo = {r}, ![g].readAt = now,
                        ![g].read = {p \in Permissions : <<r, p>> \in grants}]
    /\ UNCHANGED <<accessTables, cache, grantor, now, slow>>

SetCached(g) ==
    /\ guard[g].pc = "set"
    /\ \E r \in guard[g].todo :
          /\ cache' = [cache EXCEPT ![r] = [codes |-> guard[g].read, expiresAt |-> now + CacheTTL]]
          /\ guard' = [guard EXCEPT ![g].pc = IF guard[g].misses = {r} THEN "decide" ELSE "read",
                          ![g].misses = @ \ {r}, ![g].todo = {}, ![g].read = {},
                          ![g].perms = @ \union guard[g].read]
    /\ slow' = (slow \/ guard[g].readAt < now)
    /\ UNCHANGED <<accessTables, grantor, now>>

Admitted(g) == guard[g].code \in guard[g].perms

\* The guard lets the request pass or throws.
Decide(g) ==
    /\ guard[g].pc = "decide"
    /\ guard' = [guard EXCEPT ![g] = IdleGuard]
    /\ UNCHANGED <<accessTables, cache, grantor, now, slow>>

(* ----------------------- Granting a permission -------------------------- *)

\* createRolePermission looks for the role, the permission and the pair ...
CheckGrant(q) ==
    /\ grantor[q].pc = "idle"
    /\ \E r \in roles, p \in permissions :
          /\ <<r, p>> \notin grants
          /\ grantor' = [grantor EXCEPT ![q] = [pc |-> "create", role |-> r, code |-> p]]
    /\ UNCHANGED <<accessTables, cache, guard, now, slow>>

\* ... and inserts it; it throws when the pair is there by now, or a side is gone.
CreateRolePermission(q) ==
    LET pair == <<grantor[q].role, grantor[q].code>> IN
    /\ grantor[q].pc = "create"
    /\ grants' = IF pair[1] \in roles /\ pair[2] \in permissions THEN grants \union {pair} ELSE grants
    /\ grantor' = [grantor EXCEPT ![q].pc = "done"]
    /\ UNCHANGED <<roles, permissions, users, cache, guard, now, slow>>

Tick ==
    /\ now < MaxClock
    /\ now' = now + 1
    /\ UNCHANGED <<accessTables, cache, guard, grantor, slow>>

AccessStep ==
    \/ \E g \in Guards : Ask(g) \/ GetRoleIds(g) \/ GetCached(g) \/ GetByRoleId(g) \/ SetCached(g) \/ Decide(g)
    \/ \E q \in Grantors : CheckGrant(q) \/ CreateRolePermission(q)
    \/ Tick

AccessInit ==
    /\ cache = [r \in Roles |-> NoEntry]
    /\ guard = [g \in Guards |-> IdleGuard]
    /\ grantor = [q \in Grantors |-> IdleGrant]
    /\ now = 0 /\ slow = FALSE
    /\ heldSince = [pair \in Roles \X Permissions |-> NULL]
    /\ heldUntil = [pair \in Roles \X Permissions |-> NULL]

AccessTypeOK ==
    /\ roles \subseteq Roles /\ permissions \subseteq Permissions
    /\ grants \subseteq roles \X permissions
    /\ \A u \in Users : users[u].exists \in BOOLEAN /\ users[u].roles \subseteq roles
    /\ now \in 0..MaxClock /\ slow \in BOOLEAN
=============================================================================
