-------------------------------- MODULE Seed --------------------------------
(***************************************************************************)
(* The seed, killed and started again, on a database in use: guards ask    *)
(* for permissions and an admin grants some while it runs.                 *)
(***************************************************************************)
EXTENDS SeedProcurement

Init ==
    /\ AccessInit
    /\ roles = {} /\ grants = {} /\ permissions \in {{}, Permissions \ PERMISSIONS}
    /\ users = [u \in Users |-> NoUser]
    /\ suppliers = {} /\ languages = {} /\ categories = << >> /\ books = << >>
    /\ publishers = {} /\ authors = {} /\ snapshots = {}
    /\ nextVariant \in FirstVariantIds
    /\ seed = NoRun /\ runs = 0 /\ busy \in BOOLEAN

Next ==
    \/ SeedStep /\ KeepBooks /\ UNCHANGED busy
    \/ busy /\ AccessStep /\ KeepBooks /\ UNCHANGED <<shopTables, seed, runs, busy>>

Spec == Init /\ [][Next]_seedVars

TypeOK ==
    /\ AccessTypeOK
    /\ suppliers \subseteq Suppliers /\ languages \subseteq Languages
    /\ \A i \in DOMAIN categories : categories[i].parent \in (DOMAIN categories) \union {NULL}
    /\ \A i \in DOMAIN books : \A f \in Formats : books[i].variants[f].stock \in Nat
    /\ (seed.todo # << >> => seed.on) /\ runs \in 0..MaxRuns

(* ------------------------------- Properties ----------------------------- *)

\* A run that gets to its end leaves the access tables as the seed means them,
\* whatever killed runs and the API had left there: every role has its permissions
\* and, but for what was granted since it was pruned, no other; every user has the
\* one role and two to four addresses of which one is the default.
AccessConverges ==
    Done =>
        /\ PERMISSIONS \subseteq permissions
        /\ \A r \in Roles, p \in permissions :
              /\ p \in ROLE_PERMISSION_MAP[r] => <<r, p>> \in grants
              /\ <<r, p>> \in grants /\ p \notin ROLE_PERMISSION_MAP[r]
                     => heldSince[<<r, p>>] >= seed.prunedAt[r]
        /\ \A u \in Users :
              /\ users[u].exists /\ users[u].roles = {u}
              /\ busy \/ Len(users[u].addresses) \in 2..4
              /\ busy \/ Cardinality({i \in DOMAIN users[u].addresses : users[u].addresses[i]}) = 1

\* The seed finds its own categories and books by a translation that it writes
\* after the row: a row that nobody will find again is left behind by a killed
\* run, never by one that went through, and at most one by each; the translated
\* row of a slug is one, and its parent is the row of the parent.
RowsAreFoundAgain ==
    /\ Cardinality({i \in DOMAIN categories : categories[i].vi = NULL})
           + Cardinality({i \in DOMAIN books : books[i].en = NULL})
           <= runs - IF Done THEN 1 ELSE 0
    /\ \A i, j \in DOMAIN categories :
          categories[i].vi # NULL /\ categories[i].vi = categories[j].vi => i = j
    /\ \A i, j \in DOMAIN books : books[i].en # NULL /\ books[i].en = books[j].en => i = j
    /\ Done /\ ~busy => \A c \in {c \in Range(CATEGORIES) : c.slug \in Topics} :
          LET row == categories[RowOf(categories, "vi", c.slug)] IN
          c.parent # "" => row.parent = RowOf(categories, "vi", c.parent)

Imported(v) == FoldLeft(LAMBDA sum, o : sum + o.import.real, 0, v.orders)

\* Whatever is for sale on paper is there: its stock is what its imports have
\* delivered, every import is of an item that still exists, and the order says it
\* was approved, purchased and paid accordingly; at no moment, of this run or
\* between a killed one and the next, is it otherwise.
SellableIsBacked ==
    \A i \in DOMAIN books : \A f \in Formats \ {"EBOOK", "AUDIOBOOK"} :
        LET v == books[i].variants[f] IN
        v.active =>
            /\ v.price # NULL /\ v.stock = Imported(v)
            /\ \A n \in DOMAIN v.orders :
                  LET o == v.orders[n] IN
                  /\ o.status = "APPROVED" /\ o.transfer = "PURCHASE"
                  /\ o.import.item = o.item /\ o.paid = o.import.total

AllIsbns == {k \in (0..BOOK_COUNT - 1) \X (1..3) : k[2] \in VariantIndexes(k[1])}

\* What the data of the seed must be for it to work, which TLC evaluates: the
\* ISBNs of all two hundred books, of every variant, differ and have the check digit
\* that makes the weighted sum a multiple of ten; every shelf is a category and
\* every parent comes before its children.
ASSUME CatalogueIsSound ==
    /\ \A b \in 0..BOOK_COUNT - 1 : \A v \in VariantIndexes(b) :
          LET isbn == MakeVariantIsbn(b, v - 1) IN (WeightedSum(isbn.body) + isbn.check) % 10 = 0
    /\ Cardinality({MakeVariantIsbn(k[1], k[2] - 1) : k \in AllIsbns}) = Cardinality(AllIsbns)
    /\ \A b \in Range(BASE_BOOKS) : \A slug \in b.shelves : \E c \in Range(CATEGORIES) : c.slug = slug
    /\ \A i \in DOMAIN CATEGORIES : CATEGORIES[i].parent # "" =>
          \E j \in 1..i - 1 : CATEGORIES[j].slug = CATEGORIES[i].parent

\* Whoever is let through had, when he asked or later, a role that had the
\* permission then or not longer before than the cache remembers, and whoever is
\* refused had no role that has had it for all of that time: grants and their end
\* take effect after the TTL at the latest, as long as no guard let time pass
\* between reading a role and caching what it read. (That the user himself ever
\* held it does not follow: roles and permissions are read at two times.)
DecidedOnRecentGrants ==
    [][\A g \in Guards :
          LET r == guard[g] IN
          r.pc = "decide" /\ guard'[g].pc = "idle" /\ ~slow =>
              IF Admitted(g)
              THEN \E role \in r.roles :
                       \/ <<role, r.code>> \in grants
                       \/ heldUntil[<<role, r.code>>] # NULL /\ heldUntil[<<role, r.code>>] >= r.since - CacheTTL
              ELSE \A role \in r.roles :
                       heldSince[<<role, r.code>>] = NULL \/ heldSince[<<role, r.code>>] > r.since - CacheTTL]_seedVars
=============================================================================
