----------------------------- MODULE SeedProofs ------------------------------
(***************************************************************************)
(* The seed and the access tables it writes while the API uses them: the   *)
(* script says everything in the order it needs, guards decide on recent   *)
(* grants, and a run that gets to its end leaves what it means to leave.   *)
(***************************************************************************)
EXTENDS Seed, SumFacts, SequenceTheorems, TLAPS

(* ------------------------------- The script ----------------------------- *)

\* What a statement may be about.
Slugs == {"", "technology", "programming", "software-architecture", "devops-cloud", "cybersecurity",
          "data-ai", "business-economics", "entrepreneurship", "management-leadership",
          "marketing-sales", "finance-investing", "mind-society", "psychology", "history",
          "philosophy", "social-issues", "literature-arts", "fiction", "short-stories", "children-ya",
          "education-skills", "language-learning", "productivity-learning", "communication"}

Plans == {"DRAFT", "PO_PENDING", "PO_APPROVED_WAITING_PROCESS", "PROCESSING_IMPORT",
          "IMPORTED_WAITING_PRICE", "SELLABLE_MULTI_BATCH", "SELLABLE_SINGLE_BATCH",
          "DIGITAL_DRAFT", "DIGITAL_SELLABLE"}

Categories == [slug : Slugs, parent : Slugs]

Keys == [book : 0..BOOK_COUNT - 1, format : Formats]

Things == {NULL} \union Nat \union Roles \union PERMISSIONS \union Suppliers \union Languages
              \union Categories \union Keys \union Formats \union Plans

\* What a statement may do.
Ops == {"role", "findObsolete", "dropGrants", "dropPermissions", "permission", "prune", "grant",
        "supplier", "language", "user", "clearRoles", "giveRoles", "clearAddresses", "address",
        "findCategory", "writeCategory", "translateCategory", "publisher", "findBook", "writeBook",
        "translateBook", "clearAuthors", "author", "clearShelves", "shelve", "spec", "badge",
        "clearAssets", "assets", "removeOrders", "removeSnapshots", "removeVariants", "variant",
        "activate", "order", "clearItems", "item", "approve", "process", "unimport", "import",
        "purchase", "settle", "findSellable", "snapshot"}

Statements == [op : Ops, x : Things, y : Things]

\* A statement is about a role, a permission or a user there is.
Sound(d) ==
    /\ d.op \in {"role", "prune", "grant"} => d.x \in Roles
    /\ d.op = "grant" => d.y \in ROLE_PERMISSION_MAP[d.x]
    /\ d.op = "permission" => d.x \in PERMISSIONS
    /\ d.op \in {"user", "clearRoles", "giveRoles", "clearAddresses", "address"} => d.x \in Users
    /\ d.op = "supplier" => d.x \in Suppliers
    /\ d.op = "language" => d.x \in Languages
    /\ d.op = "address" => d.y \in 1..4

\* Statements that are directly followed by one of their own kind, or come after one.
HasNext(d) ==
    \/ d.op \in {"clearRoles", "clearAddresses", "findCategory", "writeCategory", "findBook", "writeBook"}
    \/ d.op = "address" /\ d.y # 4

HasPrevious(d) ==
    \/ d.op \in {"giveRoles", "address", "writeCategory", "writeBook"}
    \/ d.op = "translateCategory" /\ d.y = "vi"
    \/ d.op = "translateBook" /\ d.y = "en"

\* e comes directly after d.
After(d, e) ==
    /\ e.x = d.x
    /\ \/ d.op = "clearRoles" /\ e.op = "giveRoles"
       \/ d.op = "clearAddresses" /\ e.op = "address" /\ e.y = 1
       \/ d.op = "address" /\ e.op = "address" /\ e.y = d.y + 1
       \/ d.op = "findCategory" /\ e.op = "writeCategory"
       \/ d.op = "writeCategory" /\ e.op = "translateCategory" /\ e.y = "vi"
       \/ d.op = "findBook" /\ e.op = "writeBook"
       \/ d.op = "writeBook" /\ e.op = "translateBook" /\ e.y = "en"

\* Scripts that say things there are, in an order that keeps together what belongs together.
Scripts ==
    {s \in Seq(Statements) :
        \A i \in 1..Len(s) :
            /\ Sound(s[i])
            /\ HasNext(s[i]) => i + 1 \in 1..Len(s) /\ After(s[i], s[i + 1])
            /\ HasPrevious(s[i]) => i - 1 \in 1..Len(s) /\ After(s[i - 1], s[i])}

\* Two scripts one after the other are a script.
LEMMA ScriptsJoin == ASSUME NEW s \in Scripts, NEW t \in Scripts PROVE s \o t \in Scripts
<1>1. PICK n \in Nat, m \in Nat : n = Len(s) /\ m = Len(t)
  BY DEF Scripts
<1>2. s \in Seq(Statements) /\ t \in Seq(Statements)
  BY DEF Scripts
<1>3. PICK r : r = s \o t
  OBVIOUS
<1>4. r \in Seq(Statements) /\ Len(r) = n + m
  BY <1>1, <1>2, <1>3
<1>5. \A i \in 1..n : r[i] = s[i]
  BY <1>1, <1>2, <1>3
<1>6. \A i \in 1..n + m : i \notin 1..n => i - n \in 1..m /\ r[i] = t[i - n]
  BY <1>1, <1>2, <1>3
<1>7. ASSUME NEW i \in 1..n + m
      PROVE  /\ Sound(r[i])
             /\ HasNext(r[i]) => i + 1 \in 1..n + m /\ After(r[i], r[i + 1])
             /\ HasPrevious(r[i]) => i - 1 \in 1..n + m /\ After(r[i - 1], r[i])
  <2>1. CASE i \in 1..n
    <3>1. /\ Sound(s[i])
          /\ HasNext(s[i]) => i + 1 \in 1..n /\ After(s[i], s[i + 1])
          /\ HasPrevious(s[i]) => i - 1 \in 1..n /\ After(s[i - 1], s[i])
      BY <2>1, <1>1 DEF Scripts
    <3>2. r[i] = s[i]
      BY <2>1, <1>5
    <3>3. \A k \in 1..n : k \in 1..n + m
      OBVIOUS
    <3> QED BY <3>1, <3>2, <3>3, <1>5
  <2>2. CASE i \notin 1..n
    <3>0. PICK j \in 1..m : j = i - n
      BY <2>2, <1>6
    <3>1. /\ Sound(t[j])
          /\ HasNext(t[j]) => j + 1 \in 1..m /\ After(t[j], t[j + 1])
          /\ HasPrevious(t[j]) => j - 1 \in 1..m /\ After(t[j - 1], t[j])
      BY <1>1 DEF Scripts
    <3>2. r[i] = t[j]
      BY <2>2, <1>6, <3>0
    <3>3. j + 1 \in 1..m => i + 1 \in 1..n + m /\ r[i + 1] = t[j + 1]
      <4>1. i + 1 \notin 1..n /\ (i + 1) - n = j + 1 /\ (j + 1 \in 1..m => i + 1 \in 1..n + m)
        BY <2>2, <3>0
      <4> QED BY <4>1, <1>6
    <3>4. j - 1 \in 1..m => i - 1 \in 1..n + m /\ r[i - 1] = t[j - 1]
      <4>1. (i - 1) - n = j - 1 /\ (j - 1 \in 1..m => i - 1 \in 1..n + m /\ i - 1 \notin 1..n)
        BY <2>2, <3>0
      <4> QED BY <4>1, <1>6
    <3> QED BY <3>1, <3>2, <3>3, <3>4
  <2> QED BY <2>1, <2>2
<1>8. r \in Scripts
  BY <1>4, <1>7 DEF Scripts
<1> QED BY <1>8, <1>3

\* A script is empty, or of statements that go with no other.
LEMMA PlainScripts ==
    ASSUME NEW s \in Seq(Statements),
           \A i \in 1..Len(s) : Sound(s[i]) /\ ~HasNext(s[i]) /\ ~HasPrevious(s[i])
    PROVE  s \in Scripts
BY DEF Scripts

\* The empty script.
LEMMA NoScript == << >> \in Scripts
BY DEF Scripts

\* One script after the other, of any number of them, is a script.
LEMMA ScriptsFlat == ASSUME NEW s \in Seq(Scripts) PROVE FlattenSeq(s) \in Scripts
<1>1. Scripts \in SUBSET Seq(Statements)
  BY DEF Scripts
<1> QED BY <1>1, NoScript, ScriptsJoin, FlattenIn

\* A finite set as a sequence has all of its elements.
LEMMA SetAsSeq ==
    ASSUME NEW S, IsFiniteSet(S)
    PROVE  /\ SetToSeq(S) \in Seq(S)
           /\ \A e \in S : \E i \in 1..Len(SetToSeq(S)) : SetToSeq(S)[i] = e
<1>1. PICK n \in Nat : n = Cardinality(S) /\ ExistsBijection(1..n, S)
  BY FS_CardinalityType
<1>2. \E f \in [1..n -> S] : IsInjective(f)
  BY <1>1 DEF ExistsBijection, Bijection, Injection, Surjection, IsInjective
<1>3. SetToSeq(S) \in [1..n -> S] /\ IsInjective(SetToSeq(S))
  BY <1>1, <1>2 DEF SetToSeq
<1>4. PICK f : f = SetToSeq(S)
  OBVIOUS
<1>5. f \in Injection(1..n, S)
  BY <1>3, <1>4 DEF Injection, IsInjective
<1>6. f \in Surjection(1..n, S)
  <2>1. Cardinality(1..n) = n
    BY FS_Interval
  <2> QED BY <2>1, <1>5, <1>1, FS_Injection
<1>7. f \in Seq(S) /\ Len(f) = n
  BY <1>3, <1>4
<1> QED BY <1>4, <1>6, <1>7 DEF Surjection

\* Statements without a companion, one for every element of a set.
LEMMA ForAllScripts ==
    ASSUME NEW S \in SUBSET Things, IsFiniteSet(S), NEW op \in Ops,
           \A e \in S : Sound(Do(op, e, NULL)) /\ ~HasNext(Do(op, e, NULL)) /\ ~HasPrevious(Do(op, e, NULL))
    PROVE  /\ ForAll(S, op) \in Scripts
           /\ \A i \in 1..Len(ForAll(S, op)) : ForAll(S, op)[i].op = op
           /\ \A e \in S : \E i \in 1..Len(ForAll(S, op)) : ForAll(S, op)[i] = Do(op, e, NULL)
<1>1. PICK s \in Seq(S) : s = SetToSeq(S) /\ \A e \in S : \E i \in 1..Len(s) : s[i] = e
  BY SetAsSeq
<1>2. PICK t : t = [i \in DOMAIN s |-> Do(op, s[i], NULL)]
  OBVIOUS
<1>3. ForAll(S, op) = t
  BY <1>1, <1>2 DEF ForAll
<1>4. PICK n \in Nat : n = Len(s) /\ DOMAIN s = 1..n
  BY <1>1
<1>5. \A i \in 1..n : s[i] \in S /\ t[i] = Do(op, s[i], NULL)
  BY <1>2, <1>4
<1>6. \A e \in S : Do(op, e, NULL) \in Statements /\ Do(op, e, NULL).op = op
  BY DEF Do, Statements, Things
<1>7. t \in Seq(Statements) /\ Len(t) = n
  <2>1. DOMAIN t = 1..n /\ t = [i \in 1..n |-> t[i]]
    BY <1>2, <1>4
  <2>2. \A i \in 1..n : t[i] \in Statements
    BY <1>5, <1>6
  <2>3. t \in [1..n -> Statements]
    BY <2>1, <2>2
  <2> QED BY <2>3
<1>8. t \in Scripts
  BY <1>5, <1>7, PlainScripts
<1>9. ASSUME NEW e \in S PROVE \E i \in 1..n : t[i] = Do(op, e, NULL)
  <2>1. PICK i \in 1..n : s[i] = e
    BY <1>1, <1>4
  <2> QED BY <2>1, <1>5
<1>10. \A i \in 1..n : t[i].op = op
  BY <1>5, <1>6
<1> QED BY <1>3, <1>7, <1>8, <1>9, <1>10

\* Tuples are sequences.
LEMMA TupleSeqs ==
    ASSUME NEW S
    PROVE  /\ \A a, b, c, d, e \in S : /\ <<a, b, c>> \in Seq(S) /\ <<a, b, c, d>> \in Seq(S)
                                    /\ <<a, b, c, d, e>> \in Seq(S)
           /\ \A a, b, c, d, e, f \in S : <<a, b, c, d, e, f>> \in Seq(S)
OBVIOUS

\* Three elements and a fourth are four.
LEMMA ThreeAndOne ==
    ASSUME NEW S, NEW a \in Seq(S), NEW b \in Seq(S), NEW c \in Seq(S)
    PROVE  Len(a) = 3 /\ Len(b) = 1 /\ Len(c) = 4 /\ c[1] = a[1] /\ c[2] = a[2] /\ c[3] = a[3] /\ c[4] = b[1]
               => a \o b = c
<1>1. PICK d : d = a \o b
  OBVIOUS
<1>2. d \in Seq(S) /\ Len(d) = Len(a) + Len(b)
  BY <1>1
<1>3. \A i \in 1..Len(a) : d[i] = a[i]
  BY <1>1
<1>4. \A i \in 1..Len(b) : d[Len(a) + i] = b[i]
  BY <1>1
<1>5. PICK n \in Nat, m \in Nat : n = Len(a) /\ m = Len(b)
  OBVIOUS
<1>6. n = 3 /\ m = 1 => Len(d) = 4 /\ d[1] = a[1] /\ d[2] = a[2] /\ d[3] = a[3] /\ d[4] = b[1]
  BY <1>2, <1>3, <1>4, <1>5
<1>7. \A s, t \in Seq(S) : Len(s) = 4 /\ Len(t) = 4 /\ s[1] = t[1] /\ s[2] = t[2] /\ s[3] = t[3] /\ s[4] = t[4] => s = t
  <2> SUFFICES ASSUME NEW s \in Seq(S), NEW t \in Seq(S), Len(s) = 4, Len(t) = 4,
                      s[1] = t[1], s[2] = t[2], s[3] = t[3], s[4] = t[4]
               PROVE  s = t
    OBVIOUS
  <2>1. \A i \in 1..4 : s[i] = t[i]
    OBVIOUS
  <2> QED BY <2>1, SeqEqual
<1> QED BY <1>1, <1>2, <1>5, <1>6, <1>7

\* The tables of the seed are about things there are.
LEMMA SeedTypes ==
    /\ CATEGORIES \in Seq(Categories)
    /\ BASE_BOOKS \in Seq([price : Nat, authors : Nat, shelves : SUBSET Slugs]) /\ Len(BASE_BOOKS) # 0
    /\ FIXED_USERS \o CustomerSeedUsers = <<"ADMIN", "STAFF", "WAREHOUSE", "CUSTOMER">>
    /\ Users \subseteq {"ADMIN", "STAFF", "WAREHOUSE", "CUSTOMER"} /\ Users \subseteq Roles
    /\ Roles \subseteq {"ADMIN", "STAFF", "WAREHOUSE", "CUSTOMER"} /\ IsFiniteSet(Roles)
    /\ PERMISSIONS = {"orders", "imports", "roles"} /\ IsFiniteSet(PERMISSIONS)
    /\ \A r \in Roles : ROLE_PERMISSION_MAP[r] \subseteq PERMISSIONS /\ IsFiniteSet(ROLE_PERMISSION_MAP[r])
    /\ Languages = {"vi", "en"} /\ IsFiniteSet(Languages)
<1>1. CATEGORIES \in Seq(Categories)
  <2> DEFINE W == Slugs
  <2>w. /\ "" \in W /\ "technology" \in W /\ "programming" \in W /\ "software-architecture" \in W
        /\ "devops-cloud" \in W /\ "cybersecurity" \in W /\ "data-ai" \in W /\ "business-economics" \in W
        /\ "entrepreneurship" \in W /\ "management-leadership" \in W /\ "marketing-sales" \in W
        /\ "finance-investing" \in W /\ "mind-society" \in W /\ "psychology" \in W /\ "history" \in W
        /\ "philosophy" \in W /\ "social-issues" \in W /\ "literature-arts" \in W /\ "fiction" \in W
        /\ "short-stories" \in W /\ "children-ya" \in W /\ "education-skills" \in W
        /\ "language-learning" \in W /\ "productivity-learning" \in W /\ "communication" \in W
    BY DEF Slugs
  <2> HIDE DEF W
  <2> DEFINE C == [slug : W, parent : W]
  <2>c. \A a, b \in W : CategoryRow(a, b) \in C
    BY DEF CategoryRow
  <2> HIDE DEF C
  <2>1. ASSUME NEW top \in W, NEW children \in Seq(W) PROVE Topic(top, children) \in Seq(C)
    <3>1. PICK n \in Nat : n = Len(children) /\ DOMAIN children = 1..n
      OBVIOUS
    <3>2. PICK t : t = [i \in DOMAIN children |-> CategoryRow(children[i], top)]
      OBVIOUS
    <3>3. \A i \in 1..n : t[i] \in C
      BY <3>1, <3>2, <2>c
    <3>4. t \in [1..n -> C]
      BY <3>1, <3>2, <3>3
    <3>5. t \in Seq(C)
      BY <3>4
    <3>6. PICK c \in C : c = CategoryRow(top, "")
      BY ZenonT(30), <2>w, <2>c
    <3>7. <<c>> \in Seq(C)
      OBVIOUS
    <3>8. <<c>> \o t \in Seq(C)
      BY <3>5, <3>7
    <3>9. Topic(top, children) = <<c>> \o t
      BY ZenonT(30), <3>2, <3>6 DEF Topic
    <3> QED BY <3>8, <3>9
  <2>2. TechnologyCategories \in Seq(C)
    <3>1. <<"programming", "software-architecture", "devops-cloud", "cybersecurity", "data-ai">> \in Seq(W)
      BY ZenonT(30), <2>w, TupleSeqs
    <3> QED BY ZenonT(30), <3>1, <2>1, <2>w DEF TechnologyCategories
  <2>3. BusinessCategories \in Seq(C)
    <3>1. <<"entrepreneurship", "management-leadership", "marketing-sales", "finance-investing">> \in Seq(W)
      BY ZenonT(30), <2>w, TupleSeqs
    <3> QED BY ZenonT(30), <3>1, <2>1, <2>w DEF BusinessCategories
  <2>4. SocietyCategories \in Seq(C)
    <3>1. <<"psychology", "history", "philosophy", "social-issues">> \in Seq(W)
      BY ZenonT(30), <2>w, TupleSeqs
    <3> QED BY ZenonT(30), <3>1, <2>1, <2>w DEF SocietyCategories
  <2>5. LiteratureCategories \in Seq(C)
    <3>1. <<"fiction", "short-stories", "children-ya">> \in Seq(W)
      BY ZenonT(30), <2>w, TupleSeqs
    <3> QED BY ZenonT(30), <3>1, <2>1, <2>w DEF LiteratureCategories
  <2>6. EducationCategories \in Seq(C)
    <3>1. <<"language-learning", "productivity-learning", "communication">> \in Seq(W)
      BY ZenonT(30), <2>w, TupleSeqs
    <3> QED BY ZenonT(30), <3>1, <2>1, <2>w DEF EducationCategories
  <2>7. CATEGORIES \in Seq(C)
    BY <2>2, <2>3, <2>4, <2>5, <2>6 DEF CATEGORIES
  <2> QED BY <2>7 DEF C, W, Categories
<1>2. BASE_BOOKS \in Seq([price : Nat, authors : Nat, shelves : SUBSET Slugs]) /\ Len(BASE_BOOKS) # 0
  <2> DEFINE W == Slugs
  <2>w. /\ "technology" \in W /\ "programming" \in W /\ "software-architecture" \in W
        /\ "devops-cloud" \in W /\ "cybersecurity" \in W /\ "data-ai" \in W /\ "business-economics" \in W
        /\ "entrepreneurship" \in W /\ "management-leadership" \in W /\ "marketing-sales" \in W
        /\ "finance-investing" \in W /\ "mind-society" \in W /\ "psychology" \in W /\ "history" \in W
        /\ "philosophy" \in W /\ "social-issues" \in W /\ "literature-arts" \in W /\ "fiction" \in W
        /\ "short-stories" \in W /\ "children-ya" \in W /\ "education-skills" \in W
        /\ "language-learning" \in W /\ "productivity-learning" \in W /\ "communication" \in W
    BY DEF Slugs
  <2> HIDE DEF W
  <2> DEFINE B == [price : Nat, authors : Nat, shelves : SUBSET W]
  <2>1. \A p, a \in Nat, s \in SUBSET W : Book(p, a, s) \in B
    BY DEF Book
  <2> HIDE DEF B
  <2>2. TechnologyBooks \in Seq(B) /\ Len(TechnologyBooks) # 0
    BY <2>1, <2>w DEF TechnologyBooks
  <2>2a. SecurityAndDataBooks \in Seq(B)
    BY <2>1, <2>w DEF SecurityAndDataBooks
  <2>3. BusinessBooks \in Seq(B)
    BY <2>1, <2>w DEF BusinessBooks
  <2>3a. FinanceBooks \in Seq(B)
    BY <2>1, <2>w DEF FinanceBooks
  <2>4. SocietyBooks \in Seq(B)
    BY <2>1, <2>w DEF SocietyBooks
  <2>5. LiteratureBooks \in Seq(B)
    BY <2>1, <2>w DEF LiteratureBooks
  <2>6. EducationBooks \in Seq(B)
    BY <2>1, <2>w DEF EducationBooks
  <2>7. BASE_BOOKS \in Seq(B) /\ Len(BASE_BOOKS) # 0
    BY <2>2, <2>2a, <2>3, <2>3a, <2>4, <2>5, <2>6 DEF BASE_BOOKS
  <2> QED BY <2>7 DEF B, W
<1>3. FIXED_USERS \o CustomerSeedUsers = <<"ADMIN", "STAFF", "WAREHOUSE", "CUSTOMER">>
  <2>0. PICK S : S = {"ADMIN", "STAFF", "WAREHOUSE", "CUSTOMER"}
    OBVIOUS
  <2>s. "ADMIN" \in S /\ "STAFF" \in S /\ "WAREHOUSE" \in S /\ "CUSTOMER" \in S
    BY <2>0
  <2>1. FIXED_USERS \in Seq(S) /\ Len(FIXED_USERS) = 3
        /\ FIXED_USERS[1] = "ADMIN" /\ FIXED_USERS[2] = "STAFF" /\ FIXED_USERS[3] = "WAREHOUSE"
    BY <2>s DEF FIXED_USERS
  <2>2. CustomerSeedUsers \in Seq(S) /\ Len(CustomerSeedUsers) = 1 /\ CustomerSeedUsers[1] = "CUSTOMER"
    BY <2>s DEF CustomerSeedUsers
  <2>3. PICK c : c = <<"ADMIN", "STAFF", "WAREHOUSE", "CUSTOMER">>
    OBVIOUS
  <2>4. c \in Seq(S) /\ Len(c) = 4 /\ c[1] = "ADMIN" /\ c[2] = "STAFF" /\ c[3] = "WAREHOUSE" /\ c[4] = "CUSTOMER"
    BY <2>s, <2>3
  <2>5. FIXED_USERS \o CustomerSeedUsers = c
    BY <2>1, <2>2, <2>4, ThreeAndOne
  <2> QED BY <2>3, <2>5
<1>4. /\ Users \subseteq {"ADMIN", "STAFF", "WAREHOUSE", "CUSTOMER"} /\ Users \subseteq Roles
      /\ Roles \subseteq {"ADMIN", "STAFF", "WAREHOUSE", "CUSTOMER"}
  BY SeedConstants DEF ROLE_PERMISSION_MAP
<1>f. \A a, b, c, d : IsFiniteSet({}) /\ IsFiniteSet({a}) /\ IsFiniteSet({a, b})
          /\ IsFiniteSet({a, b, c}) /\ IsFiniteSet({a, b, c, d})
  <2> TAKE a, b, c, d
  <2>1. IsFiniteSet({}) /\ IsFiniteSet({a})
    BY FS_EmptySet, FS_Singleton
  <2>2. IsFiniteSet({a} \union {b})
    BY <2>1, FS_AddElement
  <2>3. IsFiniteSet(({a} \union {b}) \union {c})
    BY <2>2, FS_AddElement
  <2>4. IsFiniteSet((({a} \union {b}) \union {c}) \union {d})
    BY <2>3, FS_AddElement
  <2>5. {a} \union {b} = {a, b} /\ ({a} \union {b}) \union {c} = {a, b, c}
        /\ (({a} \union {b}) \union {c}) \union {d} = {a, b, c, d}
    OBVIOUS
  <2> QED BY <2>1, <2>2, <2>3, <2>4, <2>5
<1>5. IsFiniteSet(Roles)
  BY <1>4, <1>f, FS_Subset
<1>6. PERMISSIONS = {"orders", "imports", "roles"}
  BY DEF PERMISSIONS, STAFF_PERMISSIONS, WAREHOUSE_PERMISSIONS, ADMIN_PERMISSIONS
<1>7. \A r \in Roles : ROLE_PERMISSION_MAP[r] \subseteq PERMISSIONS
  BY <1>4, <1>6 DEF ROLE_PERMISSION_MAP, STAFF_PERMISSIONS, WAREHOUSE_PERMISSIONS
<1>8. IsFiniteSet(PERMISSIONS) /\ \A r \in Roles : IsFiniteSet(ROLE_PERMISSION_MAP[r])
  BY <1>f, <1>6, <1>7, FS_Subset
<1>9. Languages = {"vi", "en"} /\ IsFiniteSet(Languages)
  BY <1>f DEF Languages
<1> QED BY <1>1, <1>2, <1>3, <1>4, <1>5, <1>6, <1>7, <1>8, <1>9

\* Statements are made of what they do and what it is about.
LEMMA DoIs ==
    ASSUME NEW op \in Ops, NEW x \in Things, NEW y \in Things
    PROVE  Do(op, x, y) \in Statements /\ Do(op, x, y).op = op /\ Do(op, x, y).x = x /\ Do(op, x, y).y = y
BY DEF Do, Statements

\* What things there are.
LEMMA ThingsAre ==
    /\ NULL \in Things /\ Nat \subseteq Things /\ Roles \subseteq Things /\ PERMISSIONS \subseteq Things
    /\ Suppliers \subseteq Things /\ Languages \subseteq Things /\ Categories \subseteq Things
    /\ Keys \subseteq Things /\ Formats \subseteq Things /\ Plans \subseteq Things
BY DEF Things

\* The element of every number up to n makes a sequence of n.
LEMMA Listed ==
    ASSUME NEW S, NEW n \in Nat, NEW t, DOMAIN t = 1..n, t = [i \in 1..n |-> t[i]], \A i \in 1..n : t[i] \in S
    PROVE  t \in Seq(S) /\ Len(t) = n
<1>1. t \in [1..n -> S]
  OBVIOUS
<1> QED BY <1>1

\* The script of a user is a script and has three statements.
LEMMA UserScripts ==
    ASSUME NEW u \in Users
    PROVE  /\ UserScript(u) \in Scripts
           /\ Len(UserScript(u)) = 3
           /\ UserScript(u)[1] = Do("user", u, NULL)
           /\ UserScript(u)[2] = Do("clearRoles", u, NULL)
           /\ UserScript(u)[3] = Do("giveRoles", u, NULL)
<1>0. u \in Things /\ NULL \in Things /\ "user" \in Ops /\ "clearRoles" \in Ops /\ "giveRoles" \in Ops
  BY ThingsAre, SeedTypes DEF Ops
<1>1. PICK a \in Statements : a = Do("user", u, NULL) /\ a.op = "user" /\ a.x = u
  BY <1>0, DoIs
<1>2. PICK b \in Statements : b = Do("clearRoles", u, NULL) /\ b.op = "clearRoles" /\ b.x = u
  BY <1>0, DoIs
<1>3. PICK c \in Statements : c = Do("giveRoles", u, NULL) /\ c.op = "giveRoles" /\ c.x = u
  BY <1>0, DoIs
<1>4. PICK t : t = <<a, b, c>>
  OBVIOUS
<1>5. t \in Seq(Statements) /\ Len(t) = 3 /\ t[1] = a /\ t[2] = b /\ t[3] = c
  BY <1>4, TupleSeqs
<1>6. Sound(a) /\ Sound(b) /\ Sound(c)
  BY <1>1, <1>2, <1>3 DEF Sound
<1>7. ~HasNext(a) /\ ~HasPrevious(a) /\ ~HasPrevious(b) /\ ~HasNext(c) /\ After(b, c)
  BY <1>1, <1>2, <1>3 DEF HasNext, HasPrevious, After
<1>8. ASSUME NEW i \in 1..3
      PROVE  /\ Sound(t[i])
             /\ HasNext(t[i]) => i + 1 \in 1..3 /\ After(t[i], t[i + 1])
             /\ HasPrevious(t[i]) => i - 1 \in 1..3 /\ After(t[i - 1], t[i])
  <2>1. i = 1 \/ i = 2 \/ i = 3
    OBVIOUS
  <2> QED BY <2>1, <1>5, <1>6, <1>7
<1>9. t \in Scripts
  BY <1>5, <1>8 DEF Scripts
<1> QED BY <1>1, <1>2, <1>3, <1>4, <1>5, <1>9 DEF UserScript

\* The script of the addresses of a user is a script: all anew, then four.
LEMMA AddressScripts ==
    ASSUME NEW u \in Users
    PROVE  /\ AddressScript(u) \in Scripts
           /\ 1 \in 1..Len(AddressScript(u))
           /\ AddressScript(u)[1] = Do("clearAddresses", u, NULL)
<1>0. u \in Things /\ NULL \in Things /\ Nat \subseteq Things /\ "clearAddresses" \in Ops /\ "address" \in Ops
  BY ThingsAre, SeedTypes DEF Ops
<1>1. PICK a \in Statements : a = Do("clearAddresses", u, NULL) /\ a.op = "clearAddresses" /\ a.x = u
  BY <1>0, DoIs
<1>2. PICK t : t = [i \in 1..4 |-> Do("address", u, i)]
  OBVIOUS
<1>3. \A i \in 1..4 : t[i] \in Statements /\ t[i].op = "address" /\ t[i].x = u /\ t[i].y = i
  <2> TAKE i \in 1..4
  <2>1. i \in Things /\ t[i] = Do("address", u, i)
    BY <1>0, <1>2
  <2> QED BY <2>1, <1>0, DoIs
<1>4. t \in Seq(Statements) /\ Len(t) = 4
  BY <1>2, <1>3, Listed
<1>5. PICK r : r = <<a>> \o t
  OBVIOUS
<1>6. <<a>> \in Seq(Statements) /\ Len(<<a>>) = 1 /\ <<a>>[1] = a
  OBVIOUS
<1>7. r \in Seq(Statements) /\ Len(r) = Len(<<a>>) + Len(t) /\ r[1] = a /\ \A i \in 1..4 : r[i + 1] = t[i]
  <2>1. PICK h \in Seq(Statements), n \in Nat, m \in Nat : h = <<a>> /\ n = Len(h) /\ m = Len(t)
    BY <1>4, <1>6
  <2>2. r = h \o t /\ t \in Seq(Statements)
    BY <2>1, <1>4, <1>5
  <2>3. r \in Seq(Statements) /\ Len(r) = n + m
    BY <2>1, <2>2
  <2>4. (\A i \in 1..n : r[i] = h[i]) /\ \A i \in 1..m : r[n + i] = t[i]
    BY <2>1, <2>2
  <2>5. n = 1 /\ m = 4
    BY <2>1, <1>4, <1>6
  <2>6. \A i \in 1..4 : r[i + 1] = t[i]
    BY <2>4, <2>5
  <2>7. r[1] = a
    BY <2>1, <2>4, <2>5, <1>6
  <2> QED BY <2>1, <2>3, <2>6, <2>7
<1>8. Len(r) = 5
  BY <1>4, <1>6, <1>7
<1>9. r[2] = t[1] /\ r[3] = t[2] /\ r[4] = t[3] /\ r[5] = t[4]
  BY <1>7
<1>10. ASSUME NEW i \in 1..5
       PROVE  /\ Sound(r[i])
              /\ HasNext(r[i]) => i + 1 \in 1..5 /\ After(r[i], r[i + 1])
              /\ HasPrevious(r[i]) => i - 1 \in 1..5 /\ After(r[i - 1], r[i])
  <2>1. CASE i = 1
    <3>1. r[1] = a /\ r[1 + 1] = t[1] /\ t[1].op = "address" /\ t[1].x = u /\ t[1].y = 1
      BY <1>3, <1>7, <1>9
    <3> QED BY <3>1, <2>1, <1>1 DEF Sound, HasNext, HasPrevious, After
  <2>2. CASE i # 1
    <3>1. PICK k \in 1..4 : i = k + 1
      BY <2>2
    <3>2. r[i] = t[k] /\ t[k].op = "address" /\ t[k].x = u /\ t[k].y = k
      BY <3>1, <1>3, <1>7
    <3>3. Sound(r[i])
      BY <3>2 DEF Sound
    <3>4. HasNext(r[i]) => i + 1 \in 1..5 /\ After(r[i], r[i + 1])
      <4>1. CASE k = 4
        BY <4>1, <3>2 DEF HasNext
      <4>2. CASE k # 4
        <5>1. k + 1 \in 1..4 /\ i + 1 = (k + 1) + 1
          BY <4>2, <3>1
        <5>2. r[i + 1] = t[k + 1] /\ t[k + 1].op = "address" /\ t[k + 1].x = u /\ t[k + 1].y = k + 1
          BY <5>1, <1>3, <1>7
        <5> QED BY <5>1, <5>2, <3>2 DEF After
      <4> QED BY <4>1, <4>2
    <3>5. i - 1 \in 1..5 /\ After(r[i - 1], r[i])
      <4>1. CASE k = 1
        <5>1. i - 1 = 1
          BY <4>1, <3>1
        <5> QED BY <5>1, <4>1, <3>2, <1>1, <1>7 DEF After
      <4>2. CASE k # 1
        <5>1. k - 1 \in 1..4 /\ i - 1 = (k - 1) + 1 /\ (k - 1) + 1 = k
          BY <4>2, <3>1
        <5>2. r[i - 1] = t[k - 1] /\ t[k - 1].op = "address" /\ t[k - 1].x = u /\ t[k - 1].y = k - 1
          BY <5>1, <1>3, <1>7
        <5> QED BY <5>1, <5>2, <3>2 DEF After
      <4> QED BY <4>1, <4>2
    <3> QED BY <3>3, <3>4, <3>5
  <2> QED BY <2>1, <2>2
<1>11. r \in Scripts
  BY <1>7, <1>8, <1>10 DEF Scripts
<1> QED BY <1>1, <1>2, <1>5, <1>7, <1>8, <1>11 DEF AddressScript

\* The script of a category is a script.
LEMMA CategoryScripts ==
    ASSUME NEW c \in Categories
    PROVE  /\ CategoryScript(c) \in Scripts
           /\ Len(CategoryScript(c)) = 4
           /\ CategoryScript(c)[1] = Do("findCategory", c, NULL)
           /\ CategoryScript(c)[2] = Do("writeCategory", c, NULL)
           /\ CategoryScript(c)[3] = Do("translateCategory", c, "vi")
           /\ CategoryScript(c)[4] = Do("translateCategory", c, "en")
<1>0. c \in Things /\ NULL \in Things /\ "vi" \in Things /\ "en" \in Things
      /\ "findCategory" \in Ops /\ "writeCategory" \in Ops /\ "translateCategory" \in Ops
  BY ThingsAre DEF Ops, Languages
<1>1. PICK a1 \in Statements : a1 = Do("findCategory", c, NULL) /\ a1.op = "findCategory" /\ a1.x = c
  BY <1>0, DoIs
<1>2. PICK a2 \in Statements : a2 = Do("writeCategory", c, NULL) /\ a2.op = "writeCategory" /\ a2.x = c
  BY <1>0, DoIs
<1>3. PICK a3 \in Statements : a3 = Do("translateCategory", c, "vi") /\ a3.op = "translateCategory" /\ a3.x = c /\ a3.y = "vi"
  BY <1>0, DoIs
<1>4. PICK a4 \in Statements : a4 = Do("translateCategory", c, "en") /\ a4.op = "translateCategory" /\ a4.x = c /\ a4.y = "en"
  BY <1>0, DoIs
<1>5. PICK t : t = <<a1, a2, a3, a4>>
  OBVIOUS
<1>6. t \in Seq(Statements) /\ Len(t) = 4 /\ t[1] = a1 /\ t[2] = a2 /\ t[3] = a3 /\ t[4] = a4
  BY <1>5, TupleSeqs
<1>7. Sound(a1) /\ Sound(a2) /\ Sound(a3) /\ Sound(a4)
  BY <1>1, <1>2, <1>3, <1>4 DEF Sound
<1>8. ~HasPrevious(a1) /\ After(a1, a2) /\ After(a2, a3) /\ ~HasNext(a3) /\ ~HasNext(a4) /\ ~HasPrevious(a4)
  BY <1>1, <1>2, <1>3, <1>4 DEF HasNext, HasPrevious, After
<1>9. ASSUME NEW i \in 1..4
      PROVE  /\ Sound(t[i])
             /\ HasNext(t[i]) => i + 1 \in 1..4 /\ After(t[i], t[i + 1])
             /\ HasPrevious(t[i]) => i - 1 \in 1..4 /\ After(t[i - 1], t[i])
  <2>1. i = 1 \/ i = 2 \/ i = 3 \/ i = 4
    OBVIOUS
  <2> QED BY <2>1, <1>6, <1>7, <1>8
<1>10. t \in Scripts
  BY <1>6, <1>9 DEF Scripts
<1> QED BY <1>1, <1>2, <1>3, <1>4, <1>5, <1>6, <1>10 DEF CategoryScript

\* d is one of the statements of t.
Says(t, d) == \E k \in 1..Len(t) : t[k] = d

\* Two scripts say what either says.
LEMMA JoinedSay ==
    ASSUME NEW s \in Scripts, NEW t \in Scripts, NEW d, Says(s, d) \/ Says(t, d)
    PROVE  Says(s \o t, d)
<1>1. s \in Seq(Statements) /\ t \in Seq(Statements)
  BY DEF Scripts
<1>2. PICK n \in Nat, m \in Nat : n = Len(s) /\ m = Len(t)
  BY <1>1
<1>r. PICK r : r = s \o t
  OBVIOUS
<1>3. Len(r) = n + m /\ (\A i \in 1..n : r[i] = s[i]) /\ \A i \in 1..m : r[n + i] = t[i]
  BY <1>1, <1>2, <1>r
<1>4. CASE Says(s, d)
  <2>1. PICK k \in 1..n : s[k] = d
    BY <1>2, <1>4 DEF Says
  <2>2. k \in 1..n + m
    OBVIOUS
  <2> QED BY <2>1, <2>2, <1>r, <1>3 DEF Says
<1>5. CASE Says(t, d)
  <2>1. PICK k \in 1..m : t[k] = d
    BY <1>2, <1>5 DEF Says
  <2>2. n + k \in 1..n + m
    OBVIOUS
  <2> QED BY <2>1, <2>2, <1>r, <1>3 DEF Says
<1> QED BY <1>4, <1>5

\* Scripts that are joined say what each says.
LEMMA FlatSay ==
    ASSUME NEW s \in Seq(Scripts), NEW i \in 1..Len(s), NEW d, Says(s[i], d)
    PROVE  Says(FlattenSeq(s), d)
<1>0. s \in Seq(Seq(Statements)) /\ Len(s) # 0
  BY DEF Scripts
<1>1. PICK at : Begins(at, s, FlattenSeq(s))
  BY <1>0, FlattenAt
<1>2. PICK j \in 1..Len(s[i]) : s[i][j] = d
  BY DEF Says
<1>3. at[i] + j \in 1..Len(FlattenSeq(s)) /\ FlattenSeq(s)[at[i] + j] = d
  BY <1>1, <1>2 DEF Begins
<1> QED BY <1>3 DEF Says

\* What every user's script says, all of them say.
LEMMA EachUsers ==
    /\ EachUser(UserScript) \in Scripts
    /\ \A u \in Users : /\ Says(EachUser(UserScript), Do("user", u, NULL))
                        /\ Says(EachUser(UserScript), Do("clearRoles", u, NULL))
                        /\ Says(EachUser(UserScript), Do("giveRoles", u, NULL))
    /\ EachUser(AddressScript) \in Scripts
    /\ \A u \in Users : Says(EachUser(AddressScript), Do("clearAddresses", u, NULL))
<1>1. PICK all : all = <<"ADMIN", "STAFF", "WAREHOUSE", "CUSTOMER">>
  OBVIOUS
<1>2. DOMAIN all = 1..4 /\ all[1] = "ADMIN" /\ all[2] = "STAFF" /\ all[3] = "WAREHOUSE" /\ all[4] = "CUSTOMER"
  BY <1>1
<1>3. \A u \in Users : \E i \in 1..4 : all[i] = u
  <2> TAKE u \in Users
  <2>1. u = "ADMIN" \/ u = "STAFF" \/ u = "WAREHOUSE" \/ u = "CUSTOMER"
    BY SeedTypes
  <2>2. 1 \in 1..4 /\ 2 \in 1..4 /\ 3 \in 1..4 /\ 4 \in 1..4
    OBVIOUS
  <2> QED BY <2>1, <2>2, <1>2
<1>4. PICK s : s = [i \in DOMAIN all |-> IF all[i] \in Users THEN UserScript(all[i]) ELSE << >>]
  OBVIOUS
<1>5. EachUser(UserScript) = FlattenSeq(s)
  BY <1>1, <1>4, SeedTypes DEF EachUser
<1>6. \A i \in 1..4 : s[i] \in Scripts
  BY <1>2, <1>4, UserScripts, NoScript
<1>7. s \in Seq(Scripts) /\ Len(s) = 4
  <2>1. DOMAIN s = 1..4 /\ s = [i \in 1..4 |-> s[i]] /\ 4 \in Nat
    BY <1>2, <1>4
  <2> QED BY <2>1, <1>6, Listed
<1>8. ASSUME NEW u \in Users
      PROVE  /\ Says(EachUser(UserScript), Do("user", u, NULL))
             /\ Says(EachUser(UserScript), Do("clearRoles", u, NULL))
             /\ Says(EachUser(UserScript), Do("giveRoles", u, NULL))
  <2>1. PICK i \in 1..4 : all[i] = u
    BY <1>3
  <2>2. s[i] = UserScript(u)
    BY <2>1, <1>2, <1>4
  <2>3. 1 \in 1..3 /\ 2 \in 1..3 /\ 3 \in 1..3
    OBVIOUS
  <2>4. Says(s[i], Do("user", u, NULL)) /\ Says(s[i], Do("clearRoles", u, NULL)) /\ Says(s[i], Do("giveRoles", u, NULL))
    BY <2>2, <2>3, UserScripts DEF Says
  <2>5. i \in 1..Len(s)
    BY <1>7
  <2> QED BY <2>4, <2>5, <1>5, <1>7, FlatSay
<1>9. PICK t : t = [i \in DOMAIN all |-> IF all[i] \in Users THEN AddressScript(all[i]) ELSE << >>]
  OBVIOUS
<1>10. EachUser(AddressScript) = FlattenSeq(t)
  BY <1>1, <1>9, SeedTypes DEF EachUser
<1>11. \A i \in 1..4 : t[i] \in Scripts
  BY <1>2, <1>9, AddressScripts, NoScript
<1>12. t \in Seq(Scripts) /\ Len(t) = 4
  <2>1. DOMAIN t = 1..4 /\ t = [i \in 1..4 |-> t[i]] /\ 4 \in Nat
    BY <1>2, <1>9
  <2> QED BY <2>1, <1>11, Listed
<1>13. ASSUME NEW u \in Users
       PROVE  Says(EachUser(AddressScript), Do("clearAddresses", u, NULL))
  <2>1. PICK i \in 1..4 : all[i] = u
    BY <1>3
  <2>2. t[i] = AddressScript(u)
    BY <2>1, <1>2, <1>9
  <2>3. Says(t[i], Do("clearAddresses", u, NULL))
    BY <2>2, AddressScripts DEF Says
  <2>4. i \in 1..Len(t)
    BY <1>12
  <2> QED BY <2>3, <2>4, <1>10, <1>12, FlatSay
<1> QED BY <1>5, <1>7, <1>8, <1>10, <1>12, <1>13, ScriptsFlat

\* The script of a role is a script: it prunes and grants all the role has.
LEMMA RoleScripts ==
    ASSUME NEW r \in Roles
    PROVE  /\ RoleScript(r) \in Scripts
           /\ Says(RoleScript(r), Do("prune", r, NULL))
           /\ \A p \in ROLE_PERMISSION_MAP[r] : Says(RoleScript(r), Do("grant", r, p))
           /\ \A i \in 1..Len(RoleScript(r)) : RoleScript(r)[i].op \in {"prune", "grant"}
<1>0. r \in Things /\ NULL \in Things /\ "prune" \in Ops /\ "grant" \in Ops
  BY ThingsAre DEF Ops
<1>1. PICK a \in Statements : a = Do("prune", r, NULL) /\ a.op = "prune" /\ a.x = r
  BY <1>0, DoIs
<1>2. PICK P : P = ROLE_PERMISSION_MAP[r] /\ IsFiniteSet(P) /\ P \subseteq Things
  BY SeedTypes, ThingsAre
<1>3. PICK s \in Seq(P) : s = SetToSeq(P) /\ \A e \in P : \E i \in 1..Len(s) : s[i] = e
  BY <1>2, SetAsSeq
<1>4. PICK t : t = [i \in DOMAIN s |-> Do("grant", r, s[i])]
  OBVIOUS
<1>5. PICK n \in Nat : n = Len(s) /\ DOMAIN s = 1..n /\ \A i \in 1..n : s[i] \in P
  BY <1>3
<1>6. ASSUME NEW i \in 1..n
      PROVE  /\ t[i] \in Statements /\ t[i] = Do("grant", r, s[i])
             /\ t[i].op = "grant" /\ t[i].x = r /\ t[i].y \in P
  <2>1. s[i] \in Things /\ t[i] = Do("grant", r, s[i]) /\ s[i] \in P
    BY <1>2, <1>4, <1>5
  <2> QED BY <2>1, <1>0, DoIs
<1>7. t \in Seq(Statements) /\ Len(t) = n
  <2>1. DOMAIN t = 1..n /\ t = [i \in 1..n |-> t[i]]
    BY <1>4, <1>5
  <2> QED BY <2>1, <1>6, Listed
<1>8. \A i \in 1..n : Sound(t[i]) /\ ~HasNext(t[i]) /\ ~HasPrevious(t[i])
  BY <1>6, <1>2 DEF Sound, HasNext, HasPrevious
<1>9. t \in Scripts
  BY <1>7, <1>8, PlainScripts
<1>10. PICK h : h = <<a>>
  OBVIOUS
<1>11. h \in Seq(Statements) /\ Len(h) = 1 /\ h[1] = a
  BY <1>10
<1>12. Sound(a) /\ ~HasNext(a) /\ ~HasPrevious(a)
  BY <1>1 DEF Sound, HasNext, HasPrevious
<1>13. h \in Scripts
  <2>1. \A i \in 1..1 : i = 1
    OBVIOUS
  <2> QED BY <2>1, <1>11, <1>12, PlainScripts
<1>14. RoleScript(r) = h \o t
  BY <1>1, <1>2, <1>3, <1>4, <1>10 DEF RoleScript
<1>15. Says(h, Do("prune", r, NULL))
  BY <1>1, <1>11 DEF Says
<1>16. ASSUME NEW p \in P PROVE Says(t, Do("grant", r, p))
  <2>1. PICK i \in 1..n : s[i] = p
    BY <1>3, <1>5
  <2> QED BY <2>1, <1>6, <1>7 DEF Says
<1>17. \A i \in 1..Len(h \o t) : (h \o t)[i].op \in {"prune", "grant"}
  <2>1. PICK q : q = h \o t
    OBVIOUS
  <2>m. PICK m \in Nat, k \in Nat : m = Len(h) /\ k = Len(t)
    BY <1>7, <1>11
  <2>2. Len(q) = m + k /\ (\A i \in 1..m : q[i] = h[i])
        /\ \A i \in 1..m + k : i \notin 1..m => i - m \in 1..k /\ q[i] = t[i - m]
    <3>1. h \in Seq(Statements) /\ t \in Seq(Statements)
      BY <1>7, <1>11
    <3> QED BY <3>1, <2>1, <2>m
  <2>3. \A i \in 1..m : i = 1
    BY <2>m, <1>11
  <2>k. k = n
    BY <2>m, <1>7
  <2>4. ASSUME NEW i \in 1..m + k PROVE q[i].op \in {"prune", "grant"}
    <3>1. CASE i \in 1..m
      <4>1. i = 1 /\ 1 \in 1..m
        BY <3>1, <2>3
      <4>2. q[i] = a
        BY <4>1, <2>2, <1>11
      <4> QED BY <4>2, <1>1
    <3>2. CASE i \notin 1..m
      BY SMTT(30), <3>2, <2>2, <2>k, <1>6
    <3> QED BY <3>1, <3>2
  <2> QED BY <2>1, <2>2, <2>4
<1> QED BY <1>2, <1>9, <1>13, <1>14, <1>15, <1>16, <1>17, ScriptsJoin, JoinedSay

\* What the seed computes of a book.
LEMMA BookTypes ==
    ASSUME NEW b \in Nat
    PROVE  /\ FormatsForBook(b) \in Seq(Formats)
           /\ VariantIndexes(b) = 1..Len(FormatsForBook(b))
           /\ BuildBook(b).authors \in Nat
           /\ \A v \in VariantIndexes(b) : FormatsForBook(b)[v] \in Formats /\ PlanOf(b, v) \in Plans
<1>1. FormatsForBook(b) \in Seq(Formats)
  <2>1. "PAPERBACK" \in Formats /\ "HARDCOVER" \in Formats /\ "EBOOK" \in Formats /\ "AUDIOBOOK" \in Formats
    BY DEF Formats
  <2>2. /\ << >> \in Seq(Formats) /\ <<"PAPERBACK">> \in Seq(Formats)
        /\ <<"HARDCOVER", "AUDIOBOOK">> \in Seq(Formats) /\ <<"PAPERBACK", "HARDCOVER", "EBOOK">> \in Seq(Formats)
        /\ <<"PAPERBACK", "EBOOK">> \in Seq(Formats) /\ <<"PAPERBACK", "HARDCOVER">> \in Seq(Formats)
    BY <2>1
  <2> QED BY <2>2, Zenon DEF FormatsForBook
<1>2. VariantIndexes(b) = 1..Len(FormatsForBook(b))
  BY <1>1 DEF VariantIndexes
<1>3. BuildBook(b).authors \in Nat
  <2>1. PICK n \in Nat : n = Len(BASE_BOOKS) /\ n # 0
    BY SeedTypes
  <2>2. (b % n) + 1 \in 1..n
    BY <2>1
  <2>3. PICK base : base = BASE_BOOKS[(b % Len(BASE_BOOKS)) + 1]
    OBVIOUS
  <2>4. base \in [price : Nat, authors : Nat, shelves : SUBSET Slugs]
    <3>0. PICK k : k = (b % n) + 1
      OBVIOUS
    <3>1. k = (b % Len(BASE_BOOKS)) + 1
      BY <3>0, <2>1, Zenon
    <3>2. k \in 1..Len(BASE_BOOKS)
      <4>1. k \in 1..n
        BY <3>0, <2>2
      <4> QED BY <4>1, <2>1, Zenon
    <3>3. BASE_BOOKS[k] \in [price : Nat, authors : Nat, shelves : SUBSET Slugs]
      <4>1. PICK S : S = [price : Nat, authors : Nat, shelves : SUBSET Slugs]
        OBVIOUS
      <4>2. PICK r \in Seq(S) : r = BASE_BOOKS
        BY <4>1, SeedTypes, Zenon
      <4>3. k \in 1..Len(r)
        BY <3>2, <4>2, Zenon
      <4>4. r[k] \in S
        BY <4>3
      <4> QED BY <4>1, <4>2, <4>4, Zenon
    <3> QED BY <3>1, <3>3, <2>3
  <2>5. \A z : [base EXCEPT !.price = z].authors = base.authors
    BY <2>4
  <2> QED BY <2>3, <2>4, <2>5 DEF BuildBook
<1>4. ASSUME NEW v \in VariantIndexes(b)
      PROVE  FormatsForBook(b)[v] \in Formats /\ PlanOf(b, v) \in Plans
  <2>1. FormatsForBook(b)[v] \in Formats /\ v - 1 \in Nat
    BY <1>1, <1>2
  <2>2. ASSUME NEW w \in Nat, NEW f PROVE PlanForVariant(b, w, f) \in Plans
    <3>1. ((b + w) % 12) + 1 \in 1..12
      OBVIOUS
    <3>2. PICK plans : plans = <<"DRAFT", "PO_PENDING", "PO_PENDING", "PO_APPROVED_WAITING_PROCESS",
                   "PROCESSING_IMPORT", "IMPORTED_WAITING_PRICE", "IMPORTED_WAITING_PRICE",
                   "SELLABLE_MULTI_BATCH", "SELLABLE_SINGLE_BATCH", "SELLABLE_SINGLE_BATCH",
                   "SELLABLE_SINGLE_BATCH", "SELLABLE_SINGLE_BATCH">>
      OBVIOUS
    <3>3. \A i \in 1..12 : plans[i] \in Plans
      BY <3>2 DEF Plans
    <3>4. plans[((b + w) % 12) + 1] \in Plans
      BY <3>1, <3>3
    <3>5. "DIGITAL_DRAFT" \in Plans /\ "DIGITAL_SELLABLE" \in Plans /\ "DRAFT" \in Plans
      BY DEF Plans
    <3>6. PlanForVariant(b, w, f) = CASE IsDigital(f) -> IF b % 6 = 0 THEN "DIGITAL_DRAFT" ELSE "DIGITAL_SELLABLE"
          [] ~IsDigital(f) /\ ~IsBookActive(b) -> "DRAFT"
          [] OTHER -> plans[((b + w) % 12) + 1]
      BY <3>2, Zenon DEF PlanForVariant
    <3>7. CASE IsDigital(f)
      BY <3>5, <3>6, <3>7
    <3>8. CASE ~IsDigital(f) /\ ~IsBookActive(b)
      BY <3>5, <3>6, <3>8
    <3>9. CASE ~IsDigital(f) /\ IsBookActive(b)
      BY <3>4, <3>6, <3>9
    <3> QED BY <3>7, <3>8, <3>9
  <2> QED BY <2>1, <2>2 DEF PlanOf
<1> QED BY <1>1, <1>2, <1>3, <1>4

\* Statements of the kinds that go with no other and need nothing.
Free == {"findObsolete", "dropGrants", "dropPermissions", "publisher", "clearAuthors", "author", "clearShelves", "shelve",
         "spec", "badge", "clearAssets", "assets", "removeOrders", "removeSnapshots", "removeVariants",
         "variant", "activate", "order", "clearItems", "item", "approve", "process", "unimport",
         "import", "purchase", "settle", "findSellable", "snapshot"}

\* Such statements are a script.
LEMMA FreeScripts ==
    ASSUME NEW t \in Seq(Statements), \A i \in 1..Len(t) : t[i].op \in Free
    PROVE  t \in Scripts
<1>1. \A i \in 1..Len(t) : Sound(t[i]) /\ ~HasNext(t[i]) /\ ~HasPrevious(t[i])
  BY DEF Free, Sound, HasNext, HasPrevious
<1> QED BY <1>1, PlainScripts

\* One such statement is a script.
LEMMA OneFree == \A op \in Free, x \in Things, y \in Things : <<Do(op, x, y)>> \in Scripts
<1>1. ASSUME NEW op \in Free, NEW x \in Things, NEW y \in Things PROVE <<Do(op, x, y)>> \in Scripts
  <2>1. PICK d \in Statements : d = Do(op, x, y) /\ d.op \in Free
    BY DoIs DEF Free, Ops
  <2>2. PICK t : t = <<d>>
    OBVIOUS
  <2>3. t \in Seq(Statements) /\ \A i \in 1..Len(t) : t[i].op \in Free
    BY <2>1, <2>2
  <2>4. t \in Scripts
    BY <2>3, FreeScripts
  <2> QED BY <2>1, <2>2, <2>4
<1> QED BY <1>1

\* The statement of every number up to n, all of them free.
LEMMA NumberedFree ==
    ASSUME NEW n \in Nat, NEW t, DOMAIN t = 1..n, t = [i \in 1..n |-> t[i]],
           \A i \in 1..n : \E op \in Free, x \in Things, y \in Things : t[i] = Do(op, x, y)
    PROVE  t \in Scripts
<1>1. Free \subseteq Ops
  BY DEF Free, Ops
<1>2. ASSUME NEW i \in 1..n PROVE t[i] \in Statements /\ t[i].op \in Free
  <2>1. PICK op \in Free, x \in Things, y \in Things : t[i] = Do(op, x, y)
    OBVIOUS
  <2> QED BY <1>1, <2>1, DoIs
<1>3. t \in Seq(Statements) /\ Len(t) = n
  BY <1>2, Listed
<1> QED BY <1>2, <1>3, FreeScripts

\* The script of a book is a script.
LEMMA BookScripts == ASSUME NEW b \in 0..BOOK_COUNT - 1 PROVE BookScript(b) \in Scripts
<1>0. b \in Nat /\ b \in Things /\ NULL \in Things /\ "vi" \in Things /\ "en" \in Things
  BY ThingsAre DEF BOOK_COUNT, Languages
<1>1. PICK a : a = <<Do("publisher", b, NULL), Do("findBook", b, NULL), Do("writeBook", b, NULL),
                     Do("translateBook", b, "en"), Do("translateBook", b, "vi"), Do("clearAuthors", b, NULL)>>
  OBVIOUS
<1>2. a \in Scripts
  <2>0. "publisher" \in Ops /\ "findBook" \in Ops /\ "writeBook" \in Ops /\ "translateBook" \in Ops /\ "clearAuthors" \in Ops
    BY DEF Ops
  <2>1. PICK a1 \in Statements : a1 = Do("publisher", b, NULL) /\ a1.op = "publisher"
    BY <1>0, <2>0, DoIs
  <2>2. PICK a2 \in Statements : a2 = Do("findBook", b, NULL) /\ a2.op = "findBook" /\ a2.x = b
    BY <1>0, <2>0, DoIs
  <2>3. PICK a3 \in Statements : a3 = Do("writeBook", b, NULL) /\ a3.op = "writeBook" /\ a3.x = b
    BY <1>0, <2>0, DoIs
  <2>4. PICK a4 \in Statements : a4 = Do("translateBook", b, "en") /\ a4.op = "translateBook" /\ a4.x = b /\ a4.y = "en"
    <3>1. PICK y \in Things : y = "en"
      BY <1>0
    <3>2. PICK z \in Statements : z = Do("translateBook", b, y) /\ z.op = "translateBook" /\ z.x = b /\ z.y = y
      BY <1>0, <2>0, DoIs
    <3> QED BY <3>1, <3>2
  <2>5. PICK a5 \in Statements : a5 = Do("translateBook", b, "vi") /\ a5.op = "translateBook" /\ a5.y = "vi"
    <3>1. PICK y \in Things : y = "vi"
      BY <1>0
    <3>2. PICK z \in Statements : z = Do("translateBook", b, y) /\ z.op = "translateBook" /\ z.x = b /\ z.y = y
      BY <1>0, <2>0, DoIs
    <3> QED BY <3>1, <3>2
  <2>6. PICK a6 \in Statements : a6 = Do("clearAuthors", b, NULL) /\ a6.op = "clearAuthors"
    BY <1>0, <2>0, DoIs
  <2>7. PICK t : t = <<a1, a2, a3, a4, a5, a6>>
    OBVIOUS
  <2>8. t \in Seq(Statements) /\ Len(t) = 6 /\ t[1] = a1 /\ t[2] = a2 /\ t[3] = a3 /\ t[4] = a4 /\ t[5] = a5 /\ t[6] = a6
    BY <2>7, TupleSeqs
  <2>9. Sound(a1) /\ Sound(a2) /\ Sound(a3) /\ Sound(a4) /\ Sound(a5) /\ Sound(a6)
    BY <2>1, <2>2, <2>3, <2>4, <2>5, <2>6 DEF Sound
  <2>10. /\ ~HasNext(a1) /\ ~HasPrevious(a1) /\ ~HasPrevious(a2) /\ After(a2, a3) /\ After(a3, a4)
         /\ ~HasNext(a4) /\ ~HasNext(a5) /\ ~HasPrevious(a5) /\ ~HasNext(a6) /\ ~HasPrevious(a6)
    BY <2>1, <2>2, <2>3, <2>4, <2>5, <2>6 DEF HasNext, HasPrevious, After
  <2>11. ASSUME NEW i \in 1..6
         PROVE  /\ Sound(t[i])
                /\ HasNext(t[i]) => i + 1 \in 1..6 /\ After(t[i], t[i + 1])
                /\ HasPrevious(t[i]) => i - 1 \in 1..6 /\ After(t[i - 1], t[i])
    <3>1. i = 1 \/ i = 2 \/ i = 3 \/ i = 4 \/ i = 5 \/ i = 6
      OBVIOUS
    <3> QED BY <3>1, <2>8, <2>9, <2>10
  <2>12. t \in Scripts
    BY <2>8, <2>11 DEF Scripts
  <2> QED BY <1>1, <2>1, <2>2, <2>3, <2>4, <2>5, <2>6, <2>7, <2>12
<1>3. PICK c : c = [i \in 1..BuildBook(b).authors |-> Do("author", b, i)]
  OBVIOUS
<1>4. c \in Scripts
  <2>1. PICK n \in Nat : n = BuildBook(b).authors
    BY <1>0, BookTypes
  <2>2. DOMAIN c = 1..n /\ c = [i \in 1..n |-> c[i]] /\ \A i \in 1..n : c[i] = Do("author", b, i)
    BY <1>3, <2>1
  <2>3. \A i \in 1..n : i \in Things
    BY ThingsAre
  <2>4. "author" \in Free
    BY DEF Free
  <2> QED BY <1>0, <2>2, <2>3, <2>4, NumberedFree
<1>5. PICK d : d = <<Do("clearShelves", b, NULL), Do("shelve", b, NULL), Do("spec", b, NULL), Do("badge", b, NULL),
                     Do("clearAssets", b, NULL)>>
  OBVIOUS
<1>6. d \in Scripts
  <2>0. "clearShelves" \in Free /\ "shelve" \in Free /\ "spec" \in Free /\ "badge" \in Free /\ "clearAssets" \in Free
    BY DEF Free
  <2>1. Free \subseteq Ops
    BY DEF Free, Ops
  <2>2. \A op \in Free : Do(op, b, NULL) \in Statements /\ Do(op, b, NULL).op \in Free
    BY <1>0, <2>1, DoIs
  <2>3. d \in Seq(Statements)
    BY <1>5, <2>0, <2>2, TupleSeqs
  <2>4. \A i \in 1..Len(d) : d[i].op \in Free
    <3>1. Len(d) = 5 /\ \A i \in 1..5 : i = 1 \/ i = 2 \/ i = 3 \/ i = 4 \/ i = 5
      BY <1>5
    <3>2. d[1].op \in Free /\ d[2].op \in Free /\ d[3].op \in Free /\ d[4].op \in Free /\ d[5].op \in Free
      BY <1>5, <2>0, <2>2
    <3> QED BY <3>1, <3>2
  <2> QED BY <2>3, <2>4, FreeScripts
<1>7. PICK e : e = IF FormatsForBook(b) = << >>
                   THEN <<Do("removeOrders", b, NULL), Do("removeSnapshots", b, NULL), Do("removeVariants", b, NULL)>>
                   ELSE <<Do("assets", b, NULL)>>
                            \o [v \in VariantIndexes(b) |-> Do("variant", b, FormatsForBook(b)[v])]
  OBVIOUS
<1>8. e \in Scripts
  <2>0. "removeOrders" \in Free /\ "removeSnapshots" \in Free /\ "removeVariants" \in Free /\ "assets" \in Free /\ "variant" \in Free
    BY DEF Free
  <2>1. Free \subseteq Ops
    BY DEF Free, Ops
  <2>2. \A op \in Free : Do(op, b, NULL) \in Statements /\ Do(op, b, NULL).op \in Free
    BY <1>0, <2>1, DoIs
  <2>3. CASE FormatsForBook(b) = << >>
    <3>1. e = <<Do("removeOrders", b, NULL), Do("removeSnapshots", b, NULL), Do("removeVariants", b, NULL)>>
      BY <1>7, <2>3
    <3>2. e \in Seq(Statements)
      BY <3>1, <2>0, <2>2, TupleSeqs
    <3>3. \A i \in 1..Len(e) : e[i].op \in Free
      <4>1. Len(e) = 3 /\ \A i \in 1..3 : i = 1 \/ i = 2 \/ i = 3
        BY <3>1
      <4>2. e[1].op \in Free /\ e[2].op \in Free /\ e[3].op \in Free
        BY <3>1, <2>0, <2>2
      <4> QED BY <4>1, <4>2
    <3> QED BY <3>2, <3>3, FreeScripts
  <2>4. CASE FormatsForBook(b) # << >>
    <3>1. PICK f : f = [v \in VariantIndexes(b) |-> Do("variant", b, FormatsForBook(b)[v])]
      OBVIOUS
    <3>2. PICK n \in Nat : VariantIndexes(b) = 1..n
      <4>1. PICK g \in Seq(Formats) : g = FormatsForBook(b)
        BY <1>0, BookTypes
      <4>2. PICK n \in Nat : n = Len(g)
        OBVIOUS
      <4> QED BY <1>0, <4>1, <4>2, BookTypes
    <3>3. DOMAIN f = 1..n /\ f = [i \in 1..n |-> f[i]] /\ \A i \in 1..n : f[i] = Do("variant", b, FormatsForBook(b)[i])
      BY <3>1, <3>2
    <3>4. \A i \in 1..n : FormatsForBook(b)[i] \in Things
      BY <1>0, <3>2, BookTypes, ThingsAre
    <3>5. f \in Scripts
      BY <1>0, <2>0, <3>3, <3>4, NumberedFree
    <3>6. <<Do("assets", b, NULL)>> \in Scripts
      BY <1>0, <2>0, OneFree
    <3> QED BY <1>7, <2>4, <3>1, <3>5, <3>6, ScriptsJoin
  <2> QED BY <2>3, <2>4
<1>9. a \o c \in Scripts
  BY <1>2, <1>4, ScriptsJoin
<1>10. (a \o c) \o d \in Scripts
  BY <1>6, <1>9, ScriptsJoin
<1>11. ((a \o c) \o d) \o e \in Scripts
  BY <1>8, <1>10, ScriptsJoin
<1>12. BookScript(b) = ((a \o c) \o d) \o e
  BY <1>1, <1>3, <1>5, <1>7, Zenon DEF BookScript
<1> QED BY <1>11, <1>12

\* The scripts of a variant are scripts.
LEMMA VariantScripts ==
    ASSUME NEW b \in 0..BOOK_COUNT - 1, NEW v \in VariantIndexes(b)
    PROVE  ProcurementScript(b, v) \in Scripts /\ SnapshotScript(b, v) \in Scripts
<1>0. b \in Nat /\ NULL \in Things
  BY ThingsAre DEF BOOK_COUNT
<1>1. PICK f \in Formats : f = FormatsForBook(b)[v]
  BY <1>0, BookTypes
<1>2. PICK key \in Things : key = [book |-> b, format |-> f]
  BY ThingsAre DEF Keys
<1>3. PICK plan \in Things : plan = PlanOf(b, v)
  BY <1>0, BookTypes, ThingsAre
<1>4. SnapshotScript(b, v) \in Scripts
  <2>1. "snapshot" \in Free
    BY DEF Free
  <2>2. <<Do("snapshot", key, NULL)>> \in Scripts
    BY <1>0, <2>1, OneFree
  <2> QED BY <1>1, <1>2, <2>2 DEF SnapshotScript
<1>5. ASSUME NEW n \in Nat, NEW k \in 0..8 PROVE BatchScript(b, f, n, k) \in Scripts
  <2>1. PICK ops : ops = <<"order", "clearItems", "item", "approve", "process", "unimport", "import", "purchase">>
    OBVIOUS
  <2>2. \A i \in 1..8 : ops[i] \in Free
    BY <2>1 DEF Free
  <2>3. PICK t : t = [i \in 1..k |-> Do(ops[i], key, n)]
    OBVIOUS
  <2>4. BatchScript(b, f, n, k) = t
    BY <1>2, <2>1, <2>3 DEF BatchScript
  <2>5. k \in Nat /\ DOMAIN t = 1..k /\ t = [i \in 1..k |-> t[i]] /\ \A i \in 1..k : t[i] = Do(ops[i], key, n) /\ ops[i] \in Free
    BY <2>2, <2>3
  <2>6. n \in Things
    BY ThingsAre
  <2> QED BY <2>4, <2>5, <2>6, NumberedFree
<1>6. Reaches(plan) \in 0..8
  BY DEF Reaches
<1>7. PICK s : s = [n \in 1..BatchCount(plan) |-> BatchScript(b, f, n, IF n = BatchCount(plan) THEN Reaches(plan) ELSE 8)]
  OBVIOUS
<1>8. s \in Seq(Scripts)
  <2>1. PICK m \in Nat : m = BatchCount(plan)
    BY DEF BatchCount
  <2>2. DOMAIN s = 1..m /\ s = [n \in 1..m |-> s[n]]
    BY <1>7, <2>1
  <2>3. ASSUME NEW n \in 1..m PROVE s[n] \in Scripts
    <3>1. PICK k \in 0..8 : k = IF n = BatchCount(plan) THEN Reaches(plan) ELSE 8
      BY <1>6
    <3>2. s[n] = BatchScript(b, f, n, k)
      BY <1>7, <2>1, <3>1
    <3> QED BY <1>5, <3>2
  <2> QED BY <2>2, <2>3, Listed
<1>9. FlattenSeq(s) \in Scripts
  BY <1>8, ScriptsFlat
<1>10. <<Do("settle", key, plan)>> \in Scripts
  <2>1. "settle" \in Free
    BY DEF Free
  <2> QED BY <2>1, OneFree
<1>11. <<Do("activate", key, NULL)>> \in Scripts
  <2>1. "activate" \in Free
    BY DEF Free
  <2> QED BY <1>0, <2>1, OneFree
<1>12. FlattenSeq(s) \o <<Do("settle", key, plan)>> \in Scripts
  BY <1>9, <1>10, ScriptsJoin
<1>13. ProcurementScript(b, v) = CASE plan \in {"DRAFT", "DIGITAL_DRAFT"} -> << >>
          [] plan = "DIGITAL_SELLABLE" -> <<Do("activate", key, NULL)>>
          [] OTHER -> FlattenSeq(s) \o <<Do("settle", key, plan)>>
  BY <1>1, <1>2, <1>3, <1>7, Zenon DEF ProcurementScript
<1>14. CASE plan \in {"DRAFT", "DIGITAL_DRAFT"}
  BY <1>4, <1>13, <1>14, NoScript
<1>15. CASE plan = "DIGITAL_SELLABLE"
  BY <1>4, <1>11, <1>13, <1>15
<1>16. CASE plan \notin {"DRAFT", "DIGITAL_DRAFT"} /\ plan # "DIGITAL_SELLABLE"
  BY <1>4, <1>12, <1>13, <1>16
<1> QED BY <1>14, <1>15, <1>16

\* What is said for every variant of every book.
LEMMA EachBooks ==
    /\ EachBook(BookScript) \in Scripts
    /\ EachBook(LAMBDA b : ForBook(b, ProcurementScript)) \in Scripts
    /\ EachBook(LAMBDA b : ForBook(b, SnapshotScript)) \in Scripts
<1>1. PICK n \in Nat : n = Len(Shelf) /\ DOMAIN Shelf = 1..n
  BY SeedConstants
<1>2. \A i \in 1..n : Shelf[i] \in 0..BOOK_COUNT - 1
  <2>1. PICK S : S = 0..BOOK_COUNT - 1
    OBVIOUS
  <2>2. Shelf \in Seq(S)
    BY <2>1, SeedConstants, Zenon
  <2>3. \A i \in 1..n : Shelf[i] \in S
    BY <1>1, <2>2
  <2> QED BY <2>1, <2>3
<1>3. EachBook(BookScript) \in Scripts
  <2>1. PICK s : s = [i \in DOMAIN Shelf |-> BookScript(Shelf[i])]
    OBVIOUS
  <2>2. DOMAIN s = 1..n /\ s = [i \in 1..n |-> s[i]] /\ \A i \in 1..n : s[i] \in Scripts
    BY <1>1, <1>2, <2>1, BookScripts
  <2>3. s \in Seq(Scripts)
    BY <2>2, Listed
  <2> QED BY <2>1, <2>3, ScriptsFlat DEF EachBook
<1>4. ASSUME NEW b \in 0..BOOK_COUNT - 1
      PROVE  ForBook(b, ProcurementScript) \in Scripts /\ ForBook(b, SnapshotScript) \in Scripts
  <2>0. PICK m \in Nat : VariantIndexes(b) = 1..m
    <3>1. b \in Nat
      BY DEF BOOK_COUNT
    <3>2. PICK g \in Seq(Formats) : g = FormatsForBook(b)
      BY <3>1, BookTypes
    <3>3. PICK m \in Nat : m = Len(g)
      OBVIOUS
    <3> QED BY <3>1, <3>2, <3>3, BookTypes
  <2>1. PICK s : s = [v \in VariantIndexes(b) |-> ProcurementScript(b, v)]
    OBVIOUS
  <2>2. DOMAIN s = 1..m /\ s = [i \in 1..m |-> s[i]] /\ \A i \in 1..m : s[i] \in Scripts
    BY <2>0, <2>1, VariantScripts
  <2>3. s \in Seq(Scripts)
    BY <2>2, Listed
  <2>4. PICK t : t = [v \in VariantIndexes(b) |-> SnapshotScript(b, v)]
    OBVIOUS
  <2>5. DOMAIN t = 1..m /\ t = [i \in 1..m |-> t[i]] /\ \A i \in 1..m : t[i] \in Scripts
    BY <2>0, <2>4, VariantScripts
  <2>6. t \in Seq(Scripts)
    BY <2>5, Listed
  <2> QED BY <2>1, <2>3, <2>4, <2>6, ScriptsFlat DEF ForBook
<1>5. EachBook(LAMBDA b : ForBook(b, ProcurementScript)) \in Scripts
  <2>1. PICK s : s = [i \in DOMAIN Shelf |-> ForBook(Shelf[i], ProcurementScript)]
    OBVIOUS
  <2>2. DOMAIN s = 1..n /\ s = [i \in 1..n |-> s[i]] /\ \A i \in 1..n : s[i] \in Scripts
    BY <1>1, <1>2, <1>4, <2>1
  <2>3. s \in Seq(Scripts)
    BY <2>2, Listed
  <2> QED BY <2>1, <2>3, ScriptsFlat DEF EachBook
<1>6. EachBook(LAMBDA b : ForBook(b, SnapshotScript)) \in Scripts
  <2>1. PICK s : s = [i \in DOMAIN Shelf |-> ForBook(Shelf[i], SnapshotScript)]
    OBVIOUS
  <2>2. DOMAIN s = 1..n /\ s = [i \in 1..n |-> s[i]] /\ \A i \in 1..n : s[i] \in Scripts
    BY <1>1, <1>2, <1>4, <2>1
  <2>3. s \in Seq(Scripts)
    BY <2>2, Listed
  <2> QED BY <2>1, <2>3, ScriptsFlat DEF EachBook
<1> QED BY <1>3, <1>5, <1>6

\* What is said for every category.
LEMMA EachCategories == EachCategory(CategoryScript) \in Scripts
<1>1. PICK n \in Nat : n = Len(CATEGORIES) /\ DOMAIN CATEGORIES = 1..n
  BY SeedTypes
<1>2. \A i \in 1..n : CATEGORIES[i] \in Categories
  BY <1>1, SeedTypes
<1>3. PICK s : s = [i \in DOMAIN CATEGORIES |->
        IF CATEGORIES[i].slug \in Topics THEN CategoryScript(CATEGORIES[i]) ELSE << >>]
  OBVIOUS
<1>4. DOMAIN s = 1..n /\ s = [i \in 1..n |-> s[i]] /\ \A i \in 1..n : s[i] \in Scripts
  BY <1>1, <1>2, <1>3, CategoryScripts, NoScript
<1>5. s \in Seq(Scripts)
  BY <1>4, Listed
<1> QED BY <1>3, <1>5, ScriptsFlat DEF EachCategory

\* A script says everything about roles, permissions and users.
AllSaid(t) ==
    /\ \A r \in Roles : Says(t, Do("role", r, NULL)) /\ Says(t, Do("prune", r, NULL))
    /\ \A p \in PERMISSIONS : Says(t, Do("permission", p, NULL))
    /\ \A r \in Roles : \A p \in ROLE_PERMISSION_MAP[r] : Says(t, Do("grant", r, p))
    /\ \A u \in Users : /\ Says(t, Do("user", u, NULL)) /\ Says(t, Do("clearRoles", u, NULL))
                        /\ Says(t, Do("giveRoles", u, NULL))

\* The first n statements of t are of other kinds than those that need a role or a
\* permission, and all roles and permissions are among them.
PreparedAt(t, n) ==
    /\ n \in 0..Len(t)
    /\ \A i \in 1..n : t[i].op \notin {"grant", "giveRoles"}
    /\ \A r \in Roles : \E k \in 1..n : t[k] = Do("role", r, NULL)
    /\ \A p \in PERMISSIONS : \E k \in 1..n : t[k] = Do("permission", p, NULL)

\* What comes later does not matter to what is prepared.
LEMMA PreparedStays ==
    ASSUME NEW s \in Scripts, NEW t \in Scripts, NEW n \in Nat, PreparedAt(s, n)
    PROVE  PreparedAt(s \o t, n)
<1>1. s \in Seq(Statements) /\ t \in Seq(Statements)
  BY DEF Scripts
<1>2. PICK m \in Nat, k \in Nat : m = Len(s) /\ k = Len(t)
  BY <1>1
<1>3. PICK r : r = s \o t
  OBVIOUS
<1>4. Len(r) = m + k /\ \A i \in 1..m : r[i] = s[i]
  BY <1>1, <1>2, <1>3
<1>5. n \in 0..m /\ n \in 0..m + k /\ \A i \in 1..n : i \in 1..m
  BY <1>2 DEF PreparedAt
<1>6. \A i \in 1..n : r[i] = s[i]
  BY <1>4, <1>5
<1> QED BY <1>3, <1>4, <1>5, <1>6 DEF PreparedAt

\* Statements of two scripts are of the kinds of the one or of the other.
LEMMA JoinedKinds ==
    ASSUME NEW s \in Scripts, NEW t \in Scripts, NEW P,
           \A i \in 1..Len(s) : s[i].op \in P, \A i \in 1..Len(t) : t[i].op \in P
    PROVE  \A i \in 1..Len(s \o t) : (s \o t)[i].op \in P
<1>1. s \in Seq(Statements) /\ t \in Seq(Statements)
  BY DEF Scripts
<1>2. PICK m \in Nat, k \in Nat : m = Len(s) /\ k = Len(t)
  BY <1>1
<1>3. PICK r : r = s \o t
  OBVIOUS
<1>4. Len(r) = m + k /\ (\A i \in 1..m : r[i] = s[i])
      /\ \A i \in 1..m + k : i \notin 1..m => i - m \in 1..k /\ r[i] = t[i - m]
  BY <1>1, <1>2, <1>3
<1>5. ASSUME NEW i \in 1..m + k PROVE r[i].op \in P
  <2>1. CASE i \in 1..m
    BY <2>1, <1>2, <1>4
  <2>2. CASE i \notin 1..m
    BY <2>2, <1>2, <1>4
  <2> QED BY <2>1, <2>2
<1> QED BY <1>3, <1>4, <1>5

\* The script of the access tables is a script, it says what there is to say, and roles and
\* permissions are there before something is granted.
LEMMA AccessScripts ==
    /\ AccessScript \in Scripts /\ AllSaid(AccessScript)
    /\ \E n \in Nat : PreparedAt(AccessScript, n)
<1>0. IsFiniteSet(Roles) /\ IsFiniteSet(PERMISSIONS) /\ IsFiniteSet(Suppliers) /\ IsFiniteSet(Languages)
  BY SeedTypes, SeedConstants
<1>t. Roles \in SUBSET Things /\ PERMISSIONS \in SUBSET Things /\ Suppliers \in SUBSET Things
      /\ Languages \in SUBSET Things /\ NULL \in Things
  BY ThingsAre
<1>1. ForAll(Roles, "role") \in Scripts /\ (\A r \in Roles : Says(ForAll(Roles, "role"), Do("role", r, NULL)))
      /\ \A i \in 1..Len(ForAll(Roles, "role")) : ForAll(Roles, "role")[i].op = "role"
  <2>1. ASSUME NEW e \in Roles
        PROVE  Sound(Do("role", e, NULL)) /\ ~HasNext(Do("role", e, NULL)) /\ ~HasPrevious(Do("role", e, NULL))
    BY DEF Do, Sound, HasNext, HasPrevious
  <2>2. "role" \in Ops
    BY DEF Ops
  <2> QED BY <1>0, <1>t, <2>1, <2>2, ForAllScripts DEF Says
<1>2. PICK b : b = <<Do("findObsolete", NULL, NULL), Do("dropGrants", NULL, NULL), Do("dropPermissions", NULL, NULL)>>
  OBVIOUS
<1>b. b \in Seq(Statements) /\ \A i \in 1..Len(b) : b[i].op \in Free
  <2>0. "findObsolete" \in Free /\ "dropGrants" \in Free /\ "dropPermissions" \in Free
    BY DEF Free
  <2>1. Free \subseteq Ops
    BY DEF Free, Ops
  <2>2. \A op \in Free : Do(op, NULL, NULL) \in Statements /\ Do(op, NULL, NULL).op \in Free
    BY <1>t, <2>1, DoIs
  <2>3. b \in Seq(Statements)
    BY <1>2, <2>0, <2>2, TupleSeqs
  <2>4. \A i \in 1..Len(b) : b[i].op \in Free
    <3>1. Len(b) = 3 /\ \A i \in 1..3 : i = 1 \/ i = 2 \/ i = 3
      BY <1>2
    <3>2. b[1].op \in Free /\ b[2].op \in Free /\ b[3].op \in Free
      BY <1>2, <2>0, <2>2
    <3> QED BY <3>1, <3>2
  <2> QED BY <2>3, <2>4
<1>3. b \in Scripts
  BY <1>b, FreeScripts
<1>4. ForAll(PERMISSIONS, "permission") \in Scripts
      /\ (\A p \in PERMISSIONS : Says(ForAll(PERMISSIONS, "permission"), Do("permission", p, NULL)))
      /\ \A i \in 1..Len(ForAll(PERMISSIONS, "permission")) : ForAll(PERMISSIONS, "permission")[i].op = "permission"
  <2>1. ASSUME NEW e \in PERMISSIONS
        PROVE  Sound(Do("permission", e, NULL)) /\ ~HasNext(Do("permission", e, NULL)) /\ ~HasPrevious(Do("permission", e, NULL))
    BY DEF Do, Sound, HasNext, HasPrevious
  <2>2. "permission" \in Ops
    BY DEF Ops
  <2> QED BY <1>0, <1>t, <2>1, <2>2, ForAllScripts DEF Says
<1>5. PICK s : s = SetToSeq(Roles)
  OBVIOUS
<1>6. PICK c : c = [i \in DOMAIN s |-> RoleScript(s[i])]
  OBVIOUS
<1>7. PICK n \in Nat : n = Len(s) /\ DOMAIN s = 1..n /\ (\A i \in 1..n : s[i] \in Roles) /\ \A r \in Roles : \E i \in 1..n : s[i] = r
  <2>1. s \in Seq(Roles) /\ \A r \in Roles : \E i \in 1..Len(s) : s[i] = r
    BY <1>0, <1>5, SetAsSeq
  <2> QED BY <2>1
<1>8. c \in Seq(Scripts) /\ Len(c) = n
  <2>1. DOMAIN c = 1..n /\ c = [i \in 1..n |-> c[i]] /\ \A i \in 1..n : c[i] \in Scripts
    BY <1>6, <1>7, RoleScripts
  <2> QED BY <2>1, Listed
<1>9. FlattenSeq(c) \in Scripts
  BY <1>8, ScriptsFlat
<1>10. ASSUME NEW r \in Roles
       PROVE  Says(FlattenSeq(c), Do("prune", r, NULL)) /\ \A p \in ROLE_PERMISSION_MAP[r] : Says(FlattenSeq(c), Do("grant", r, p))
  <2>1. PICK i \in 1..n : s[i] = r
    BY <1>7
  <2>2. c[i] = RoleScript(r) /\ i \in 1..Len(c)
    BY <1>6, <1>7, <1>8, <2>1
  <2> QED BY <1>8, <2>2, RoleScripts, FlatSay
<1>11. ForAll(Suppliers, "supplier") \in Scripts
  <2>1. ASSUME NEW e \in Suppliers
        PROVE  Sound(Do("supplier", e, NULL)) /\ ~HasNext(Do("supplier", e, NULL)) /\ ~HasPrevious(Do("supplier", e, NULL))
    BY DEF Do, Sound, HasNext, HasPrevious
  <2>2. "supplier" \in Ops
    BY DEF Ops
  <2> QED BY <1>0, <1>t, <2>1, <2>2, ForAllScripts
<1>12. ForAll(Languages, "language") \in Scripts
  <2>1. ASSUME NEW e \in Languages
        PROVE  Sound(Do("language", e, NULL)) /\ ~HasNext(Do("language", e, NULL)) /\ ~HasPrevious(Do("language", e, NULL))
    BY DEF Do, Sound, HasNext, HasPrevious
  <2>2. "language" \in Ops
    BY DEF Ops
  <2> QED BY <1>0, <1>t, <2>1, <2>2, ForAllScripts
<1>13. PICK u \in Scripts : u = EachUser(UserScript)
  BY EachUsers
<1>14. PICK a1 \in Scripts : a1 = ForAll(Roles, "role") \o b /\ \A r \in Roles : Says(a1, Do("role", r, NULL))
  <2>1. PICK z \in Scripts : z = ForAll(Roles, "role") \o b
    BY <1>1, <1>3, ScriptsJoin
  <2>2. \A d : Says(ForAll(Roles, "role"), d) => Says(z, d)
    BY <1>1, <1>3, <2>1, JoinedSay
  <2> QED BY <1>1, <2>1, <2>2
<1>15. PICK a2 \in Scripts : a2 = a1 \o ForAll(PERMISSIONS, "permission")
           /\ (\A r \in Roles : Says(a2, Do("role", r, NULL))) /\ \A p \in PERMISSIONS : Says(a2, Do("permission", p, NULL))
  <2>1. PICK z \in Scripts : z = a1 \o ForAll(PERMISSIONS, "permission")
    BY <1>4, <1>14, ScriptsJoin
  <2>2. \A d : Says(a1, d) \/ Says(ForAll(PERMISSIONS, "permission"), d) => Says(z, d)
    BY <1>4, <1>14, <2>1, JoinedSay
  <2> QED BY <1>4, <1>14, <2>1, <2>2
<1>16. PICK a3 \in Scripts : a3 = a2 \o FlattenSeq(c)
           /\ (\A r \in Roles : Says(a3, Do("role", r, NULL))) /\ (\A p \in PERMISSIONS : Says(a3, Do("permission", p, NULL)))
           /\ (\A r \in Roles : Says(a3, Do("prune", r, NULL)) /\ \A p \in ROLE_PERMISSION_MAP[r] : Says(a3, Do("grant", r, p)))
  <2>1. PICK z \in Scripts : z = a2 \o FlattenSeq(c)
    BY <1>9, <1>15, ScriptsJoin
  <2>2. \A d : Says(a2, d) \/ Says(FlattenSeq(c), d) => Says(z, d)
    BY <1>9, <1>15, <2>1, JoinedSay
  <2> QED BY <1>10, <1>15, <2>1, <2>2
<1>17. PICK a4 \in Scripts : a4 = a3 \o ForAll(Suppliers, "supplier") /\ \A d : Says(a3, d) => Says(a4, d)
  BY <1>11, ScriptsJoin, JoinedSay
<1>18. PICK a5 \in Scripts : a5 = a4 \o ForAll(Languages, "language") /\ \A d : Says(a4, d) => Says(a5, d)
  BY <1>12, ScriptsJoin, JoinedSay
<1>19. PICK a6 \in Scripts : a6 = a5 \o u /\ (\A d : Says(a5, d) => Says(a6, d)) /\ \A d : Says(u, d) => Says(a6, d)
  <2>1. PICK z : z = a5 \o u
    OBVIOUS
  <2>2. z \in Scripts
    BY <2>1, ScriptsJoin
  <2>3. ASSUME NEW d, Says(a5, d) \/ Says(u, d) PROVE Says(z, d)
    BY <2>1, <2>3, JoinedSay
  <2> QED BY <2>1, <2>2, <2>3
<1>p. PICK h \in Nat : PreparedAt(a2, h)
  <2>1. PICK P : P = {"role", "permission"} \union Free
    OBVIOUS
  <2>2. \A i \in 1..Len(b) : b[i].op \in P
    BY <1>b, <2>1
  <2>3. \A i \in 1..Len(a1) : a1[i].op \in P
    <3>1. \A i \in 1..Len(ForAll(Roles, "role")) : ForAll(Roles, "role")[i].op \in P
      BY <1>1, <2>1
    <3> QED BY <3>1, <2>2, <1>1, <1>3, <1>14, JoinedKinds
  <2>4. \A i \in 1..Len(a2) : a2[i].op \in P
    <3>1. \A i \in 1..Len(ForAll(PERMISSIONS, "permission")) : ForAll(PERMISSIONS, "permission")[i].op \in P
      BY <1>4, <2>1
    <3> QED BY <3>1, <2>3, <1>4, <1>15, JoinedKinds
  <2>5. PICK k \in Nat : k = Len(a2)
    BY DEF Scripts
  <2>6. k \in 0..k
    BY <2>5
  <2>7. \A i \in 1..Len(a2) : a2[i].op \notin {"grant", "giveRoles"}
    BY <2>1, <2>4 DEF Free
  <2> QED BY <1>15, <2>5, <2>6, <2>7 DEF PreparedAt, Says
<1>q. PreparedAt(a6, h)
  <2>1. PreparedAt(a3, h)
    BY <1>p, <1>16, <1>9, PreparedStays
  <2>2. PreparedAt(a4, h)
    BY <2>1, <1>17, <1>11, PreparedStays
  <2>3. PreparedAt(a5, h)
    BY <2>2, <1>18, <1>12, PreparedStays
  <2> QED BY <2>3, <1>19, PreparedStays
<1>20. AccessScript = a6
  BY <1>2, <1>5, <1>6, <1>13, <1>14, <1>15, <1>16, <1>17, <1>18, <1>19, Zenon DEF AccessScript
<1>21. AllSaid(a6)
  BY <1>13, <1>16, <1>17, <1>18, <1>19, EachUsers DEF AllSaid
<1> QED BY <1>20, <1>21, <1>q

\* The script of a run is a script, says the same and is prepared the same way.
LEMMA TheScript ==
    /\ Script \in Scripts /\ AllSaid(Script) /\ \E n \in Nat : PreparedAt(Script, n)
    /\ ~busy => \A u \in Users : Says(Script, Do("clearAddresses", u, NULL))
<1>1. PICK s1 : s1 = EachUser(AddressScript) \o EachCategory(CategoryScript)
  OBVIOUS
<1>2. PICK s2 : s2 = s1 \o EachBook(BookScript)
  OBVIOUS
<1>3. PICK s3 : s3 = s2 \o EachBook(LAMBDA b : ForBook(b, ProcurementScript))
  OBVIOUS
<1>4. PICK s4 : s4 = s3 \o <<Do("findSellable", NULL, NULL)>>
  OBVIOUS
<1>5. PICK s5 : s5 = s4 \o EachBook(LAMBDA b : ForBook(b, SnapshotScript))
  OBVIOUS
<1>6. ShopScript = s5
  BY <1>1, <1>2, <1>3, <1>4, <1>5, Zenon DEF ShopScript
<1>7. s1 \in Scripts /\ \A u \in Users : Says(s1, Do("clearAddresses", u, NULL))
  BY <1>1, EachUsers, EachCategories, ScriptsJoin, JoinedSay
<1>8. s2 \in Scripts /\ \A u \in Users : Says(s2, Do("clearAddresses", u, NULL))
  BY <1>2, <1>7, EachBooks, ScriptsJoin, JoinedSay
<1>9. s3 \in Scripts /\ \A u \in Users : Says(s3, Do("clearAddresses", u, NULL))
  <2>1. PICK e \in Scripts : e = EachBook(LAMBDA b : ForBook(b, ProcurementScript))
    BY EachBooks
  <2>2. s3 = s2 \o e
    BY <1>3, <2>1, Zenon
  <2> QED BY <2>2, <1>8, ScriptsJoin, JoinedSay
<1>10. s4 \in Scripts /\ \A u \in Users : Says(s4, Do("clearAddresses", u, NULL))
  <2>1. <<Do("findSellable", NULL, NULL)>> \in Scripts
    <3>1. "findSellable" \in Free
      BY DEF Free
    <3> QED BY <3>1, ThingsAre, OneFree
  <2> QED BY <1>4, <1>9, <2>1, ScriptsJoin, JoinedSay
<1>11. s5 \in Scripts /\ \A u \in Users : Says(s5, Do("clearAddresses", u, NULL))
  <2>1. PICK e \in Scripts : e = EachBook(LAMBDA b : ForBook(b, SnapshotScript))
    BY EachBooks
  <2>2. s5 = s4 \o e
    BY <1>5, <2>1, Zenon
  <2> QED BY <2>2, <1>10, ScriptsJoin, JoinedSay
<1>12. PICK rest \in Scripts : rest = IF busy THEN << >> ELSE ShopScript
  BY <1>6, <1>11, NoScript
<1>13. Script = AccessScript \o rest
  BY <1>12, Zenon DEF Script
<1>14. PICK z : z = AccessScript \o rest
  OBVIOUS
<1>15. z \in Scripts /\ \E n \in Nat : PreparedAt(z, n)
  BY <1>14, AccessScripts, ScriptsJoin, PreparedStays
<1>16. ASSUME NEW d, Says(AccessScript, d) \/ Says(rest, d) PROVE Says(z, d)
  BY <1>14, <1>16, AccessScripts, JoinedSay
<1>17. AllSaid(z)
  BY <1>16, AccessScripts DEF AllSaid
<1>18. ~busy => \A u \in Users : Says(z, Do("clearAddresses", u, NULL))
  BY SMTT(30), <1>6, <1>11, <1>12, <1>16
<1> QED BY <1>13, <1>14, <1>15, <1>17, <1>18

(* ----------------------- Decisions on recent grants --------------------- *)

Times == Nat \union {NULL}
Pairs == Roles \X Permissions

\* The process has statements that are sound in front of it, if any.
SeedFields == {"on", "todo", "obsolete", "found", "count", "categoryIds", "bookIds", "sellable", "prunedAt"}

SeedInv ==
    /\ seed = [f \in SeedFields |-> seed[f]]
    /\ seed.todo \in Seq(Statements)
    /\ \A i \in 1..Len(seed.todo) : Sound(seed.todo[i])

UserRows == [exists : BOOLEAN, roles : SUBSET Roles, addresses : Seq(BOOLEAN)]

UserInv == users \in [Users -> UserRows]

\* The books that are kept say who holds what.
HeldInv ==
    /\ now \in Nat /\ slow \in BOOLEAN
    /\ heldSince \in [Pairs -> Times] /\ heldUntil \in [Pairs -> Times]
    /\ \A pair \in Pairs :
          /\ heldSince[pair] = NULL <=> pair \notin grants
          /\ heldSince[pair] # NULL => heldSince[pair] <= now
          /\ heldUntil[pair] # NULL => heldUntil[pair] <= now

\* A role had the permission at time t or later; it had none for all of the time since t.
HadAt(r, p, t) ==
    \/ <<r, p>> \in grants
    \/ heldUntil[<<r, p>>] # NULL /\ heldUntil[<<r, p>>] >= t
NotSince(r, p, t) == heldSince[<<r, p>>] = NULL \/ heldSince[<<r, p>>] >= t

\* These are the permissions the role has had at some time since t.
RightSince(r, codes, t) == \A p \in Permissions : IF p \in codes THEN HadAt(r, p, t) ELSE NotSince(r, p, t)

CacheInv ==
    /\ cache \in [Roles -> [codes : SUBSET Permissions, expiresAt : Times]]
    /\ \A r \in Roles : cache[r].expiresAt # NULL =>
          \E t \in Nat : /\ cache[r].expiresAt = t + CacheTTL /\ t <= now
                         /\ ~slow => RightSince(r, cache[r].codes, t)

GuardTypes == [pc : {"idle", "roles", "cached", "read", "set", "decide"}, user : Users \union {NULL},
               code : Permissions \union {NULL}, since : Nat, roles : SUBSET Roles, perms : SUBSET Permissions,
               todo : SUBSET Roles, misses : SUBSET Roles, read : SUBSET Permissions, readAt : Nat]

\* What a guard has gathered: of what it collected some role had each, and of what
\* it did not collect no role that it is through with had any.
Gathered(g) ==
    LET r == guard[g] IN
    /\ r.since <= now
    /\ r.pc = "set" =>
          /\ r.since <= r.readAt /\ r.readAt <= now /\ r.todo \subseteq r.misses
          /\ \A role \in r.todo, other \in r.todo : role = other
          /\ \A role \in r.todo : \A p \in Permissions :
                IF p \in r.read THEN HadAt(role, p, r.readAt) ELSE NotSince(role, p, r.readAt)
    /\ r.pc = "decide" => r.misses = {}
    /\ r.pc = "roles" => r.roles = {} /\ r.misses = {} /\ r.perms = {}
    /\ r.pc # "idle" => r.user \in Users /\ r.code \in Permissions
    /\ r.misses \subseteq r.roles /\ (r.pc = "cached" => r.todo \subseteq r.roles)
    /\ ~slow =>
          /\ \A p \in r.perms : \E role \in r.roles : HadAt(role, p, r.since - CacheTTL)
          /\ \A role \in r.roles : \A p \in Permissions \ r.perms :
                \/ role \in r.misses \/ (r.pc = "cached" /\ role \in r.todo)
                \/ NotSince(role, p, (r.since - CacheTTL) + 1)

GuardInv == guard \in [Guards -> GuardTypes] /\ \A g \in Guards : Gathered(g)

AccessInv == SeedInv /\ UserInv /\ HeldInv /\ CacheInv /\ GuardInv

(* ------------------------- What the seed may do ------------------------- *)

\* What a statement does to roles, permissions and users, and what of it is remembered.
Effect(d) ==
    /\ d.op = "role" => roles' = roles \union {d.x}
    /\ d.op # "role" => roles' = roles
    /\ d.op = "permission" => permissions' = permissions \union {d.x}
    /\ d.op = "dropPermissions" => permissions' = permissions \ seed.obsolete
    /\ d.op \notin {"permission", "dropPermissions"} => permissions' = permissions
    /\ d.op \in {"dropGrants", "dropPermissions"} => grants' = {g \in grants : g[2] \notin seed.obsolete}
    /\ d.op = "prune" => grants' = {g \in grants : g[1] = d.x => g[2] \in ROLE_PERMISSION_MAP[d.x]}
    /\ d.op = "grant" => grants' = grants \union {<<d.x, d.y>>}
    /\ d.op \notin {"dropGrants", "dropPermissions", "prune", "grant"} => grants' = grants
    /\ d.op = "user" => users' = [users EXCEPT ![d.x].exists = TRUE]
    /\ d.op = "clearRoles" => users' = [users EXCEPT ![d.x].roles = {}]
    /\ d.op = "giveRoles" => users' = [users EXCEPT ![d.x].roles = @ \union {d.x}]
    /\ d.op = "clearAddresses" => users' = [users EXCEPT ![d.x].addresses = << >>]
    /\ d.op = "address" =>
          users' = [users EXCEPT ![d.x].addresses = IF d.y <= seed.count THEN Append(@, d.y = 1) ELSE @]
    /\ d.op \notin {"user", "clearRoles", "giveRoles", "clearAddresses", "address"} => users' = users
    /\ d.op = "findObsolete" => seed'.obsolete = permissions \ PERMISSIONS
    /\ d.op # "findObsolete" => seed'.obsolete = seed.obsolete
    /\ d.op = "prune" => seed'.prunedAt = [seed.prunedAt EXCEPT ![d.x] = now]
    /\ d.op # "prune" => seed'.prunedAt = seed.prunedAt
    /\ d.op = "clearAddresses" => seed'.count \in 2..4
    /\ d.op # "clearAddresses" => seed'.count = seed.count

\* The first statement is done and gone.
Executes ==
    /\ seed.todo # << >> /\ seed'.todo = Tail(seed.todo) /\ seed'.on = seed.on
    /\ seed' = [f \in SeedFields |-> seed'[f]]
    /\ Effect(seed.todo[1])

\* Besides, a run begins, or ends, or an admin adds a variant.
Starts == /\ ~seed.on /\ seed' = [NoRun EXCEPT !.on = TRUE, !.todo = Script]
          /\ UNCHANGED accessTables
Ends == seed' = NoRun /\ UNCHANGED accessTables
Pauses == seed' = seed /\ UNCHANGED accessTables

\* Statements that only advance, and change no access table.
Away == {"supplier", "language", "translateCategory", "publisher", "translateBook",
         "clearAuthors", "author", "clearShelves", "shelve", "spec", "badge",
         "clearAssets", "assets", "removeOrders", "removeSnapshots", "variant",
         "activate", "order", "clearItems", "item", "approve", "process", "unimport",
         "import", "purchase", "settle", "snapshot"}

\* None of them has to do with access.
LEMMA AwaySteps ==
    ASSUME seed = [f \in SeedFields |-> seed[f]], NEW op \in Away, Awaits(op), Advance,
           UNCHANGED <<accessTables, accessRest>>
    PROVE  UNCHANGED accessRest /\ Executes
BY DEF Away, Awaits, Advance, Executes, Effect, SeedFields, accessTables

\* A step of the seed is one of these, and leaves the API alone.
LEMMA SeedSteps ==
    ASSUME seed = [f \in SeedFields |-> seed[f]], SeedStep
    PROVE  UNCHANGED accessRest /\ (Executes \/ Starts \/ Ends \/ Pauses)
<1>1. ASSUME StartSeed PROVE UNCHANGED accessRest /\ Starts
  BY <1>1 DEF accessTables, accessRest, shopTables, StartSeed, Starts
<1>2. ASSUME KillSeed \/ RunAgain PROVE UNCHANGED accessRest /\ Ends
  BY <1>2 DEF accessTables, accessRest, shopTables, KillSeed, RunAgain, Ends
<1>3. ASSUME NEW b \in Range(Shelf), AdminAddsVariant(b) PROVE UNCHANGED accessRest /\ Pauses
  BY SMTT(30), <1>3 DEF AdminAddsVariant, Pauses
<1> DEFINE Goes == UNCHANGED accessRest /\ Executes
<1>4. ASSUME RemoveVariants PROVE UNCHANGED accessRest /\ (Executes \/ Ends)
  BY ZenonT(30), <1>4 DEF accessTables, accessRest, shopTables, RemoveVariants, Awaits, Advance, X, OnlyBooks, Executes, Ends, Effect, SeedFields
<1>5. ASSUME UpsertRole PROVE Goes
  BY <1>5 DEF accessTables, accessRest, shopTables, UpsertRole, Awaits, Advance, X, Executes, Effect, SeedFields
<1>6. ASSUME FindObsolete PROVE Goes
  BY <1>6 DEF accessTables, accessRest, shopTables, FindObsolete, Awaits, Executes, Effect, SeedFields
<1>7. ASSUME DropGrants PROVE Goes
  BY <1>7 DEF accessTables, accessRest, shopTables, DropGrants, Awaits, Advance, Executes, Effect, SeedFields
<1>8. ASSUME DropPermissions PROVE Goes
  BY <1>8 DEF accessTables, accessRest, shopTables, DropPermissions, Awaits, Advance, Executes, Effect, SeedFields
<1>9. ASSUME UpsertPermission PROVE Goes
  BY <1>9 DEF accessTables, accessRest, shopTables, UpsertPermission, Awaits, Advance, X, Executes, Effect, SeedFields
<1>10. ASSUME PruneGrants PROVE Goes
  BY <1>10 DEF accessTables, accessRest, shopTables, PruneGrants, Awaits, X, Executes, Effect, SeedFields
<1>11. ASSUME UpsertGrant PROVE Goes
  BY <1>11 DEF accessTables, accessRest, shopTables, UpsertGrant, Awaits, Advance, X, Y, Executes, Effect, SeedFields
<1>12. ASSUME UpsertSupplier PROVE Goes
  <2>1. Awaits("supplier") /\ Advance /\ UNCHANGED <<accessTables, accessRest>>
    BY <1>12, Zenon DEF UpsertSupplier
  <2> QED BY <2>1, AwaySteps DEF Away
<1>13. ASSUME UpsertLanguage PROVE Goes
  <2>1. Awaits("language") /\ Advance /\ UNCHANGED <<accessTables, accessRest>>
    BY ZenonT(30), <1>13 DEF UpsertLanguage
  <2> QED BY <2>1, AwaySteps DEF Away
<1>14. ASSUME UpsertUser PROVE Goes
  BY <1>14 DEF accessTables, accessRest, shopTables, UpsertUser, Awaits, Advance, X, Executes, Effect, SeedFields
<1>15. ASSUME ClearRoles PROVE Goes
  BY <1>15 DEF accessTables, accessRest, shopTables, ClearRoles, Awaits, Advance, X, Executes, Effect, SeedFields
<1>16. ASSUME GiveRoles PROVE Goes
  BY <1>16 DEF accessTables, accessRest, shopTables, GiveRoles, Awaits, Advance, X, Executes, Effect, SeedFields
<1>17. ASSUME ClearAddresses PROVE Goes
  BY ZenonT(30), <1>17 DEF accessTables, accessRest, shopTables, ClearAddresses, Awaits, X, Executes, Effect, SeedFields
<1>18. ASSUME CreateAddress PROVE Goes
  BY <1>18 DEF accessTables, accessRest, shopTables, CreateAddress, Awaits, Advance, X, Y, Executes, Effect, SeedFields
<1>19. ASSUME FindCategory PROVE Goes
  BY ZenonT(30), <1>19 DEF accessTables, accessRest, shopTables, FindCategory, Awaits, X, Executes, Effect, SeedFields
<1>20. ASSUME WriteCategory PROVE Goes
  BY <1>20 DEF accessTables, accessRest, shopTables, WriteCategory, Awaits, X, Executes, Effect, SeedFields
<1>21. ASSUME TranslateCategory PROVE Goes
  <2>1. Awaits("translateCategory") /\ Advance /\ UNCHANGED <<accessTables, accessRest>>
    BY <1>21, Zenon DEF TranslateCategory
  <2> QED BY <2>1, AwaySteps DEF Away
<1>22. ASSUME UpsertPublisher PROVE Goes
  <2>1. Awaits("publisher") /\ Advance /\ UNCHANGED <<accessTables, accessRest>>
    BY ZenonT(30), <1>22 DEF UpsertPublisher
  <2> QED BY <2>1, AwaySteps DEF Away
<1>23. ASSUME FindBook PROVE Goes
  BY <1>23 DEF accessTables, accessRest, shopTables, FindBook, Awaits, X, Executes, Effect, SeedFields
<1>24. ASSUME WriteBook PROVE Goes
  BY <1>24 DEF accessTables, accessRest, shopTables, WriteBook, Awaits, X, OnlyBooks, Executes, Effect, SeedFields
<1>25. ASSUME TranslateBook PROVE Goes
  <2>1. Awaits("translateBook") /\ Advance /\ UNCHANGED <<accessTables, accessRest>>
    BY <1>25, Zenon DEF TranslateBook, ChangeBook, OnlyBooks
  <2> QED BY <2>1, AwaySteps DEF Away
<1>26. ASSUME ClearAuthors PROVE Goes
  <2>1. Awaits("clearAuthors") /\ Advance /\ UNCHANGED <<accessTables, accessRest>>
    BY <1>26, Zenon DEF ClearAuthors, ChangeBook, OnlyBooks
  <2> QED BY <2>1, AwaySteps DEF Away
<1>27. ASSUME UpsertAuthor PROVE Goes
  <2>1. Awaits("author") /\ Advance /\ UNCHANGED <<accessTables, accessRest>>
    BY <1>27, Zenon DEF UpsertAuthor
  <2> QED BY <2>1, AwaySteps DEF Away
<1>28. ASSUME ClearShelves PROVE Goes
  <2>1. Awaits("clearShelves") /\ Advance /\ UNCHANGED <<accessTables, accessRest>>
    BY <1>28, Zenon DEF ClearShelves, ChangeBook, OnlyBooks
  <2> QED BY <2>1, AwaySteps DEF Away
<1>29. ASSUME ShelveBook PROVE Goes
  <2>1. Awaits("shelve") /\ Advance /\ UNCHANGED <<accessTables, accessRest>>
    BY <1>29, Zenon DEF ShelveBook, ChangeBook, OnlyBooks
  <2> QED BY <2>1, AwaySteps DEF Away
<1>30. ASSUME UpsertSpec PROVE Goes
  <2>1. Awaits("spec") /\ Advance /\ UNCHANGED <<accessTables, accessRest>>
    BY <1>30, Zenon DEF UpsertSpec, ChangeBook, OnlyBooks
  <2> QED BY <2>1, AwaySteps DEF Away
<1>31. ASSUME UpsertBadge PROVE Goes
  <2>1. Awaits("badge") /\ Advance /\ UNCHANGED <<accessTables, accessRest>>
    BY <1>31, Zenon DEF UpsertBadge, ChangeBook, OnlyBooks
  <2> QED BY <2>1, AwaySteps DEF Away
<1>32. ASSUME ClearAssets PROVE Goes
  <2>1. Awaits("clearAssets") /\ Advance /\ UNCHANGED <<accessTables, accessRest>>
    BY <1>32, Zenon DEF ClearAssets, ChangeBook, OnlyBooks
  <2> QED BY <2>1, AwaySteps DEF Away
<1>33. ASSUME CreateAssets PROVE Goes
  <2>1. Awaits("assets") /\ Advance /\ UNCHANGED <<accessTables, accessRest>>
    BY <1>33, Zenon DEF CreateAssets, ChangeBook, OnlyBooks
  <2> QED BY <2>1, AwaySteps DEF Away
<1>34. ASSUME RemoveOrders PROVE Goes
  <2>1. Awaits("removeOrders") /\ Advance /\ UNCHANGED <<accessTables, accessRest>>
    BY <1>34, Zenon DEF RemoveOrders, ChangeBook, OnlyBooks
  <2> QED BY <2>1, AwaySteps DEF Away
<1>35. ASSUME RemoveSnapshots PROVE Goes
  <2>1. Awaits("removeSnapshots") /\ Advance /\ UNCHANGED <<accessTables, accessRest>>
    BY <1>35, Zenon DEF RemoveSnapshots
  <2> QED BY <2>1, AwaySteps DEF Away
<1>36. ASSUME UpsertVariant PROVE Goes
  <2>1. Awaits("variant") /\ Advance /\ UNCHANGED <<accessTables, accessRest>>
    BY <1>36, Zenon DEF UpsertVariant
  <2> QED BY <2>1, AwaySteps DEF Away
<1>37. ASSUME Activate PROVE Goes
  <2>1. Awaits("activate") /\ Advance /\ UNCHANGED <<accessTables, accessRest>>
    BY <1>37, Zenon DEF Activate, ChangeVariant, OnlyBooks
  <2> QED BY SMTT(30), <2>1, AwaySteps DEF Away
<1>38. ASSUME UpsertOrder PROVE Goes
  <2>1. Awaits("order") /\ Advance /\ UNCHANGED <<accessTables, accessRest>>
    BY <1>38, Zenon DEF UpsertOrder, ChangeVariant, OnlyBooks
  <2> QED BY <2>1, AwaySteps DEF Away
<1>39. ASSUME ClearItems PROVE Goes
  <2>1. Awaits("clearItems") /\ Advance /\ UNCHANGED <<accessTables, accessRest>>
    BY <1>39, Zenon DEF ClearItems, ChangeVariant, ChangeOrder, OnlyBooks
  <2> QED BY <2>1, AwaySteps DEF Away
<1>40. ASSUME CreateItem PROVE Goes
  <2>1. Awaits("item") /\ Advance /\ UNCHANGED <<accessTables, accessRest>>
    BY <1>40, Zenon DEF CreateItem, ChangeVariant, ChangeOrder, OnlyBooks
  <2> QED BY <2>1, AwaySteps DEF Away
<1>41. ASSUME ApproveOrder PROVE Goes
  <2>1. Awaits("approve") /\ Advance /\ UNCHANGED <<accessTables, accessRest>>
    BY <1>41, Zenon DEF ApproveOrder, ChangeVariant, ChangeOrder, OnlyBooks
  <2> QED BY <2>1, AwaySteps DEF Away
<1>42. ASSUME ProcessOrder PROVE Goes
  <2>1. Awaits("process") /\ Advance /\ UNCHANGED <<accessTables, accessRest>>
    BY <1>42, Zenon DEF ProcessOrder, ChangeVariant, ChangeOrder, OnlyBooks
  <2> QED BY <2>1, AwaySteps DEF Away
<1>43. ASSUME DeleteImport PROVE Goes
  <2>1. Awaits("unimport") /\ Advance /\ UNCHANGED <<accessTables, accessRest>>
    BY <1>43, Zenon DEF DeleteImport, ChangeVariant, ChangeOrder, OnlyBooks
  <2> QED BY <2>1, AwaySteps DEF Away
<1>44. ASSUME CreateImport PROVE Goes
  <2>1. Awaits("import") /\ Advance /\ UNCHANGED <<accessTables, accessRest>>
    BY <1>44, Zenon DEF CreateImport, ChangeVariant, ChangeOrder, OnlyBooks
  <2> QED BY <2>1, AwaySteps DEF Away
<1>45. ASSUME PurchaseOrder PROVE Goes
  <2>1. Awaits("purchase") /\ Advance /\ UNCHANGED <<accessTables, accessRest>>
    BY <1>45, Zenon DEF PurchaseOrder, ChangeVariant, ChangeOrder, OnlyBooks
  <2> QED BY <2>1, AwaySteps DEF Away
<1>46. ASSUME SettleVariant PROVE Goes
  <2>1. Awaits("settle") /\ Advance /\ UNCHANGED <<accessTables, accessRest>>
    BY ZenonT(30), <1>46 DEF SettleVariant, ChangeVariant, OnlyBooks
  <2> QED BY <2>1, AwaySteps DEF Away
<1>47. ASSUME FindSellable PROVE Goes
  BY <1>47 DEF accessTables, accessRest, shopTables, FindSellable, Awaits, Executes, Effect, SeedFields
<1>48. ASSUME UpsertSnapshot PROVE Goes
  <2>1. Awaits("snapshot") /\ Advance /\ UNCHANGED <<accessTables, accessRest>>
    BY <1>48, Zenon DEF UpsertSnapshot
  <2> QED BY <2>1, AwaySteps DEF Away
<1> QED BY <1>1, <1>2, <1>3, <1>4, <1>5, <1>6, <1>7, <1>8, <1>9, <1>10, <1>11, <1>12,
           <1>13, <1>14, <1>15, <1>16, <1>17, <1>18, <1>19, <1>20, <1>21, <1>22, <1>23, <1>24,
           <1>25, <1>26, <1>27, <1>28, <1>29, <1>30, <1>31, <1>32, <1>33, <1>34, <1>35, <1>36,
           <1>37, <1>38, <1>39, <1>40, <1>41, <1>42, <1>43, <1>44, <1>45, <1>46, <1>47, <1>48
        DEF SeedStep

\* The process keeps sound statements in front of it, and users have roles there are.
LEMMA SeedKeeps ==
    ASSUME SeedInv, UserInv, SeedStep
    PROVE  SeedInv' /\ UserInv'
<1>1. Executes \/ Starts \/ Ends \/ Pauses
  BY SeedSteps DEF SeedInv
<1>2. CASE Executes
  <2>1. seed.todo \in Seq(Statements) /\ seed.todo # << >> /\ seed'.todo = Tail(seed.todo)
        /\ seed' = [f \in SeedFields |-> seed'[f]]
    BY <1>2 DEF SeedInv, Executes
  <2>2. seed'.todo \in Seq(Statements) /\ \A i \in 1..Len(seed'.todo) : i + 1 \in 1..Len(seed.todo) /\ seed'.todo[i] = seed.todo[i + 1]
    BY <2>1
  <2>3. SeedInv'
    BY <2>1, <2>2 DEF SeedInv
  <2>4. PICK d \in Statements : d = seed.todo[1] /\ Sound(d) /\ Effect(d)
    <3>1. 1 \in 1..Len(seed.todo)
      BY <2>1
    <3>2. seed.todo[1] \in Statements /\ Sound(seed.todo[1])
      <4>1. PICK t \in Seq(Statements) : t = seed.todo
        BY <2>1
      <4>2. \A i \in 1..Len(t) : Sound(t[i])
        BY ZenonT(30), <4>1 DEF SeedInv
      <4>3. 1 \in 1..Len(t) /\ t[1] \in Statements
        BY <3>1, <4>1
      <4> QED BY <4>1, <4>2, <4>3
    <3> QED BY <1>2, <3>2 DEF Executes
  <2>5. UserInv'
    <3>1. CASE d.op \notin {"user", "clearRoles", "giveRoles", "clearAddresses", "address"}
      BY ZenonT(30), <3>1, <2>4 DEF Effect, UserInv
    <3>2. CASE d.op \in {"user", "clearRoles", "giveRoles", "clearAddresses", "address"}
      <4>1. d.x \in Users /\ d.x \in Roles
        BY <3>2, <2>4, SeedTypes DEF Sound
      <4>2. CASE d.op = "user"
        <5>1. PICK row \in UserRows : row = users[d.x]
          BY <4>1 DEF UserInv
        <5>2. [row EXCEPT !.exists = TRUE] \in UserRows
          BY DEF UserRows
        <5>3. users' = [users EXCEPT ![d.x] = [row EXCEPT !.exists = TRUE]]
          BY <4>2, <2>4, <5>1 DEF Effect
        <5> QED BY <5>2, <5>3, <4>1 DEF UserInv
      <4>3. CASE d.op = "clearRoles"
        BY SMTT(30), <4>1, <4>3, <2>4 DEF Effect, UserInv, UserRows
      <4>4. CASE d.op = "giveRoles"
        BY SMTT(30), <4>1, <4>4, <2>4 DEF Effect, UserInv, UserRows
      <4>5. CASE d.op = "clearAddresses"
        <5>1. PICK row \in UserRows : row = users[d.x]
          BY <4>1 DEF UserInv
        <5>2. [row EXCEPT !.addresses = << >>] \in UserRows
          <6>1. \A S : << >> \in Seq(S)
            OBVIOUS
          <6>2. PICK e \in Seq(BOOLEAN) : e = << >>
            BY <6>1, Zenon
          <6>3. [row EXCEPT !.addresses = e] \in UserRows
            BY DEF UserRows
          <6> QED BY <6>2, <6>3, Zenon
        <5>3. users' = [users EXCEPT ![d.x] = [row EXCEPT !.addresses = << >>]]
          BY <4>5, <2>4, <5>1 DEF Effect
        <5> QED BY <5>2, <5>3, <4>1 DEF UserInv
      <4>6. CASE d.op = "address"
        <5>1. PICK row \in UserRows : row = users[d.x]
          BY <4>1 DEF UserInv
        <5>2. row.addresses \in Seq(BOOLEAN) /\ (d.y = 1) \in BOOLEAN
          BY DEF UserRows
        <5>3. PICK b : b = IF d.y <= seed.count THEN Append(row.addresses, d.y = 1) ELSE row.addresses
          OBVIOUS
        <5>4. b \in Seq(BOOLEAN)
          <6>1. \A q \in Seq(BOOLEAN), f \in BOOLEAN : Append(q, f) \in Seq(BOOLEAN)
            OBVIOUS
          <6> QED BY <6>1, <5>2, <5>3, Zenon
        <5>5. users' = [users EXCEPT ![d.x] = [row EXCEPT !.addresses = b]]
          BY <4>6, <2>4, <5>1, <5>3 DEF Effect
        <5>6. [row EXCEPT !.addresses = b] \in UserRows
          BY <5>4 DEF UserRows
        <5> QED BY <5>5, <5>6, <4>1 DEF UserInv
      <4> QED BY SMTT(30), <3>2, <4>2, <4>3, <4>4, <4>5, <4>6
    <3> QED BY <3>1, <3>2
  <2> QED BY <2>3, <2>5
<1>3. CASE Starts
  <2>1. Script \in Seq(Statements) /\ \A i \in 1..Len(Script) : Sound(Script[i])
    BY TheScript DEF Scripts
  <2>2. seed'.todo = Script /\ seed' = [f \in SeedFields |-> seed'[f]]
    BY <1>3 DEF Starts, NoRun, SeedFields
  <2>3. SeedInv'
    <3>1. PICK t : t = Script
      OBVIOUS
    <3>2. seed'.todo \in Seq(Statements) /\ \A i \in 1..Len(seed'.todo) : Sound(seed'.todo[i])
      BY <3>1, <2>1, <2>2
    <3> QED BY <2>2, <3>2 DEF SeedInv
  <2> QED BY <2>3, <1>3 DEF Starts, UserInv, accessTables
<1>4. CASE Ends
  <2>1. seed' = [f \in SeedFields |-> seed'[f]] /\ seed'.todo = << >> /\ users' = users
    BY <1>4 DEF Ends, NoRun, SeedFields, accessTables
  <2>2. << >> \in Seq(Statements) /\ \A i \in 1..Len(<< >>) : FALSE
    OBVIOUS
  <2> QED BY <2>1, <2>2 DEF SeedInv, UserInv
<1>5. CASE Pauses
  BY <1>5 DEF Pauses, SeedInv, UserInv, accessTables
<1> QED BY <1>1, <1>2, <1>3, <1>4, <1>5

\* The books stay right, and what was so at or since some time remains so.
LEMMA HeldSteps ==
    ASSUME HeldInv, KeepBooks, now' \in {now, now + 1}, slow' \in BOOLEAN
    PROVE  /\ HeldInv'
           /\ \A r \in Roles, p \in Permissions : \A t \in Int : t <= now =>
                 /\ HadAt(r, p, t) => HadAt(r, p, t)'
                 /\ NotSince(r, p, t) => NotSince(r, p, t)'
<1>0. NULL \notin Nat
  BY AccessConstants
<1>1. heldSince' \in [Pairs -> Times] /\ heldUntil' \in [Pairs -> Times]
  BY DEF HeldInv, KeepBooks, Pairs, Times
<1>2. ASSUME NEW pair \in Pairs
      PROVE  /\ heldSince'[pair] = NULL <=> pair \notin grants'
             /\ heldSince'[pair] # NULL => heldSince'[pair] <= now'
             /\ heldUntil'[pair] # NULL => heldUntil'[pair] <= now'
  BY <1>0 DEF HeldInv, KeepBooks, Pairs, Times
<1>3. HeldInv'
  BY <1>1, <1>2 DEF HeldInv
<1>4. ASSUME NEW r \in Roles, NEW p \in Permissions, NEW t \in Int, t <= now
      PROVE  /\ HadAt(r, p, t) => HadAt(r, p, t)'
             /\ NotSince(r, p, t) => NotSince(r, p, t)'
  <2>1. PICK pair \in Pairs : pair = <<r, p>>
    BY DEF Pairs
  <2>2. heldUntil'[pair] = IF pair \in grants THEN now ELSE heldUntil[pair]
    BY <2>1 DEF KeepBooks, Pairs
  <2>3. heldSince'[pair] = IF pair \notin grants' THEN NULL ELSE IF heldSince[pair] = NULL THEN now ELSE heldSince[pair]
    BY <2>1 DEF KeepBooks, Pairs
  <2>4. now \in Nat /\ now # NULL
    BY <1>0 DEF HeldInv
  <2>5. HadAt(r, p, t) => HadAt(r, p, t)'
    BY <1>4, <2>1, <2>2, <2>4 DEF HadAt
  <2>6. NotSince(r, p, t) => NotSince(r, p, t)'
    BY <1>4, <2>1, <2>3, <2>4 DEF NotSince
  <2> QED BY <2>5, <2>6
<1> QED BY <1>3, <1>4

\* What guards have gathered and the cache remembers stays right while others work.
LEMMA RestKeeps ==
    ASSUME HeldInv, KeepBooks, now' \in {now, now + 1}, slow' \in BOOLEAN, slow => slow'
    PROVE  /\ CacheInv /\ cache' = cache => CacheInv'
           /\ \A g \in Guards : guard[g] \in GuardTypes /\ Gathered(g) /\ guard'[g] = guard[g] => Gathered(g)'
<1>0. NULL \notin Nat /\ CacheTTL \in Nat \ {0} /\ now \in Nat /\ now <= now'
  BY AccessConstants DEF HeldInv
<1>1. ASSUME CacheInv, cache' = cache PROVE CacheInv'
  <2>1. ASSUME NEW r \in Roles, cache[r].expiresAt # NULL
        PROVE  \E t \in Nat : /\ cache[r].expiresAt = t + CacheTTL /\ t <= now'
                              /\ ~slow' => RightSince(r, cache[r].codes, t)'
    <3>1. PICK t \in Nat : cache[r].expiresAt = t + CacheTTL /\ t <= now /\ (~slow => RightSince(r, cache[r].codes, t))
      BY <1>1, <2>1 DEF CacheInv
    <3>2. t <= now' /\ t \in Int
      BY <1>0, <3>1
    <3>3. ~slow' => RightSince(r, cache[r].codes, t)'
      BY <1>1, <3>1, <3>2, HeldSteps DEF RightSince
    <3>4. cache'[r].codes = cache[r].codes
      BY <1>1
    <3> QED BY <3>1, <3>2, <3>3, <3>4, <1>1
  <2> QED BY <1>1, <2>1 DEF CacheInv
<1>2. ASSUME NEW g \in Guards, guard[g] \in GuardTypes, Gathered(g), guard'[g] = guard[g] PROVE Gathered(g)'
  <2>1. PICK r \in GuardTypes : r = guard[g]
    BY <1>2
  <2>2. r.since \in Nat /\ r.readAt \in Nat /\ r.since <= now /\ r.since <= now'
    BY <1>0, <1>2, <2>1 DEF Gathered, GuardTypes
  <2>3. r.pc = "set" =>
          /\ r.since <= r.readAt /\ r.readAt <= now' /\ r.todo \subseteq r.misses
          /\ \A role \in r.todo, other \in r.todo : role = other
          /\ \A role \in r.todo : \A p \in Permissions :
                IF p \in r.read THEN HadAt(role, p, r.readAt)' ELSE NotSince(role, p, r.readAt)'
    <3>1. HAVE r.pc = "set"
    <3>2. /\ r.since <= r.readAt /\ r.readAt <= now /\ r.todo \subseteq r.misses
          /\ \A role \in r.todo, other \in r.todo : role = other
          /\ \A role \in r.todo : \A p \in Permissions :
                IF p \in r.read THEN HadAt(role, p, r.readAt) ELSE NotSince(role, p, r.readAt)
      BY <1>2, <2>1, <3>1 DEF Gathered
    <3>3. r.todo \subseteq Roles /\ r.readAt \in Int /\ r.readAt <= now'
      BY <1>0, <2>2, <3>2 DEF GuardTypes
    <3> QED BY <3>2, <3>3, HeldSteps
  <2>4. ~slow' =>
          /\ \A p \in r.perms : \E role \in r.roles : HadAt(role, p, r.since - CacheTTL)'
          /\ \A role \in r.roles : \A p \in Permissions \ r.perms :
                \/ role \in r.misses \/ (r.pc = "cached" /\ role \in r.todo)
                \/ NotSince(role, p, (r.since - CacheTTL) + 1)'
    <3>1. HAVE ~slow'
    <3>2. /\ \A p \in r.perms : \E role \in r.roles : HadAt(role, p, r.since - CacheTTL)
          /\ \A role \in r.roles : \A p \in Permissions \ r.perms :
                \/ role \in r.misses \/ (r.pc = "cached" /\ role \in r.todo)
                \/ NotSince(role, p, (r.since - CacheTTL) + 1)
      BY <1>2, <2>1, <3>1 DEF Gathered
    <3>3. PICK a \in Int, b \in Int : a = r.since - CacheTTL /\ b = (r.since - CacheTTL) + 1 /\ a <= now /\ b <= now
      BY <1>0, <2>2
    <3>4. r.roles \subseteq Roles /\ r.perms \subseteq Permissions
      BY DEF GuardTypes
    <3> QED BY <3>2, <3>3, <3>4, HeldSteps
  <2>5. /\ r.pc = "decide" => r.misses = {}
        /\ r.pc = "roles" => r.roles = {} /\ r.misses = {} /\ r.perms = {}
        /\ r.pc # "idle" => r.user \in Users /\ r.code \in Permissions
        /\ r.misses \subseteq r.roles /\ (r.pc = "cached" => r.todo \subseteq r.roles)
    BY <1>2, <2>1 DEF Gathered
  <2> QED BY <1>2, <2>1, <2>2, <2>3, <2>4, <2>5 DEF Gathered
<1> QED BY <1>1, <1>2

(* ------------------------------ The API's steps ------------------------- *)

\* Where a guard is after a step of its own, all it has gathered is right.
LEMMA GuardSteps ==
    ASSUME UserInv, HeldInv, CacheInv, GuardInv, KeepBooks, NEW g \in Guards,
           Ask(g) \/ GetRoleIds(g) \/ GetCached(g) \/ GetByRoleId(g) \/ SetCached(g) \/ Decide(g)
    PROVE  CacheInv' /\ GuardInv' /\ now' = now /\ slow' \in BOOLEAN /\ users' = users
<1>0. NULL \notin Nat /\ CacheTTL \in Nat \ {0} /\ now \in Nat /\ slow \in BOOLEAN
  BY SMTT(30), AccessConstants DEF HeldInv
<1>1. now' = now /\ slow' \in BOOLEAN /\ (slow => slow') /\ accessTables' = accessTables
  BY ZenonT(30), <1>0 DEF Ask, GetRoleIds, GetCached, GetByRoleId, SetCached, Decide
<1>2. users' = users
  BY <1>1 DEF accessTables
<1>3. PICK r \in GuardTypes : r = guard[g] /\ Gathered(g)
  BY DEF GuardInv
<1>4. now' \in {now, now + 1}
  BY <1>1
<1>5. \A h \in Guards : guard'[h] = guard[h] => Gathered(h)'
  BY <1>1, <1>4, RestKeeps DEF GuardInv
<1>6. ASSUME NEW row \in GuardTypes, guard' = [guard EXCEPT ![g] = row], Gathered(g)'
      PROVE  GuardInv'
  BY <1>5, <1>6 DEF GuardInv
<1>7. cache' = cache => CacheInv'
  BY <1>1, <1>4, RestKeeps
<1>8. CASE Ask(g)
  <2>1. PICK u \in Users, p \in Permissions :
            guard' = [guard EXCEPT ![g] = [IdleGuard EXCEPT !.pc = "roles", !.user = u, !.code = p, !.since = now]]
    BY ZenonT(30), <1>8 DEF Ask
  <2>2. PICK row : row = [IdleGuard EXCEPT !.pc = "roles", !.user = u, !.code = p, !.since = now]
    OBVIOUS
  <2>3. row \in GuardTypes
    BY <1>0, <2>2 DEF IdleGuard, GuardTypes
  <2>4. /\ row.pc = "roles" /\ row.user = u /\ row.code = p /\ row.since = now
        /\ row.roles = {} /\ row.perms = {} /\ row.misses = {} /\ row.todo = {}
    BY <2>2 DEF IdleGuard
  <2>5. guard'[g] = row
    BY <2>1, <2>2 DEF GuardInv
  <2>6. Gathered(g)'
    BY <1>0, <1>1, <2>4, <2>5 DEF Gathered
  <2> QED BY ZenonT(30), <1>1, <1>2, <1>6, <1>7, <1>8, <2>1, <2>2, <2>3, <2>6 DEF Ask
<1>9. CASE GetRoleIds(g)
  <2>1. PICK mine \in SUBSET Roles : mine = users[r.user].roles /\ r.pc = "roles"
    BY <1>3, <1>9 DEF GetRoleIds, UserInv, UserRows, Gathered
  <2>2. PICK row : row = [r EXCEPT !.pc = "cached", !.roles = mine, !.todo = mine]
    OBVIOUS
  <2>3. row \in GuardTypes
    BY <2>2 DEF GuardTypes
  <2>4. guard' = [guard EXCEPT ![g] = row]
    BY <1>3, <1>9, <2>1, <2>2 DEF GetRoleIds
  <2>5. row.pc = "cached" /\ row.user = r.user /\ row.code = r.code /\ row.since = r.since /\ row.roles = mine
        /\ row.perms = r.perms /\ row.misses = r.misses /\ row.todo = mine
    BY <2>2 DEF GuardTypes
  <2>6. guard'[g] = row
    BY <2>4 DEF GuardInv
  <2>7. r.roles = {} /\ r.misses = {} /\ r.perms = {} /\ r.since <= now /\ r.user \in Users /\ r.code \in Permissions
    BY <1>3, <2>1 DEF Gathered
  <2>8. Gathered(g)'
    BY SMTT(30), <1>1, <2>5, <2>6, <2>7 DEF Gathered
  <2> QED BY <1>1, <1>2, <1>6, <1>7, <1>9, <2>3, <2>4, <2>8 DEF GetRoleIds
<1>10. CASE GetCached(g)
  <2>0. r.pc = "cached" /\ r.since \in Nat /\ r.since <= now /\ r.user \in Users /\ r.code \in Permissions
        /\ r.misses \subseteq r.roles /\ r.todo \subseteq r.roles /\ r.roles \subseteq Roles /\ r.perms \subseteq Permissions
    BY ZenonT(30), <1>3, <1>10 DEF GetCached, Gathered, GuardTypes
  <2>a. ~slow => /\ \A p \in r.perms : \E role \in r.roles : HadAt(role, p, r.since - CacheTTL)
                 /\ \A role \in r.roles : \A p \in Permissions \ r.perms :
                        role \in r.misses \/ role \in r.todo \/ NotSince(role, p, (r.since - CacheTTL) + 1)
    BY SMTT(30), <1>3, <2>0 DEF Gathered
  <2>b. slow' = slow /\ cache' = cache
    BY ZenonT(30), <1>10 DEF GetCached
  <2>t. PICK a \in Int : a = r.since - CacheTTL /\ a <= now /\ a + 1 <= now
    BY <1>0, <2>0
  <2>1. CASE r.todo = {} /\ guard' = [guard EXCEPT ![g].pc = IF r.misses = {} THEN "decide" ELSE "read"]
    <3>1. PICK row : row = [r EXCEPT !.pc = IF r.misses = {} THEN "decide" ELSE "read"]
      OBVIOUS
    <3>2. row \in GuardTypes
      BY <3>1 DEF GuardTypes
    <3>3. row.pc = (IF r.misses = {} THEN "decide" ELSE "read") /\ row.user = r.user /\ row.code = r.code /\ row.since = r.since
          /\ row.roles = r.roles /\ row.perms = r.perms /\ row.misses = r.misses /\ row.todo = {}
      BY <2>1, <3>1 DEF GuardTypes
    <3>4. guard' = [guard EXCEPT ![g] = row] /\ guard'[g] = row
      BY <1>3, <2>1, <3>1 DEF GuardInv
    <3>5. ~slow' => /\ \A p \in r.perms : \E role \in r.roles : HadAt(role, p, a)'
                    /\ \A role \in r.roles : \A p \in Permissions \ r.perms :
                          role \in r.misses \/ NotSince(role, p, a + 1)'
      BY <1>1, <1>4, <2>0, <2>1, <2>a, <2>b, <2>t, HeldSteps
    <3>6. row.pc \in {"decide", "read"} /\ (row.pc = "decide" => row.misses = {})
      BY <3>3
    <3>7. Gathered(g)'
      BY <1>1, <2>0, <2>t, <3>3, <3>4, <3>5, <3>6 DEF Gathered
    <3> QED BY <1>1, <1>2, <1>6, <1>7, <2>b, <3>2, <3>4, <3>7
  <2>2. CASE \E role \in r.todo :
             guard' = [guard EXCEPT ![g].todo = @ \ {role},
                 ![g].perms = @ \union IF Cached(role) THEN cache[role].codes ELSE {},
                 ![g].misses = @ \union IF Cached(role) THEN {} ELSE {role}]
    <3>1. PICK role \in r.todo :
             guard' = [guard EXCEPT ![g].todo = @ \ {role},
                 ![g].perms = @ \union IF Cached(role) THEN cache[role].codes ELSE {},
                 ![g].misses = @ \union IF Cached(role) THEN {} ELSE {role}]
      BY ZenonT(30), <2>2
    <3>2. role \in Roles /\ cache[role].codes \in SUBSET Permissions
      BY <2>0 DEF CacheInv
    <3>3. PICK codes \in SUBSET Permissions : codes = IF Cached(role) THEN cache[role].codes ELSE {}
      BY <3>2
    <3>4. PICK missed \in SUBSET {role} : missed = IF Cached(role) THEN {} ELSE {role}
      OBVIOUS
    <3>5. PICK row : row = [r EXCEPT !.todo = @ \ {role}, !.perms = @ \union codes, !.misses = @ \union missed]
      OBVIOUS
    <3>6. row \in GuardTypes
      BY <3>2, <3>5 DEF GuardTypes
    <3>7. row.pc = "cached" /\ row.user = r.user /\ row.code = r.code /\ row.since = r.since
          /\ row.roles = r.roles /\ row.perms = r.perms \union codes /\ row.misses = r.misses \union missed
          /\ row.todo = r.todo \ {role}
      BY <2>0, <3>5 DEF GuardTypes
    <3>8. guard' = [guard EXCEPT ![g] = row] /\ guard'[g] = row
      BY <1>3, <3>1, <3>3, <3>4, <3>5 DEF GuardInv
    <3>9. ~slow => \A p \in codes : HadAt(role, p, a)
      <4>1. SUFFICES ASSUME ~slow, NEW p \in codes PROVE HadAt(role, p, a)
        OBVIOUS
      <4>2. Cached(role) /\ p \in cache[role].codes /\ p \in Permissions
        BY <3>3
      <4>3. cache[role].expiresAt # NULL /\ now < cache[role].expiresAt
        BY <4>2 DEF Cached
      <4>4. PICK t \in Nat : cache[role].expiresAt = t + CacheTTL /\ HadAt(role, p, t)
        BY <3>2, <4>1, <4>2, <4>3 DEF CacheInv, RightSince
      <4>5. cache[role].expiresAt \in Nat
        BY <3>2, <4>3 DEF CacheInv, Times
      <4>6. a <= t
        BY <1>0, <2>0, <2>t, <4>3, <4>4, <4>5
      <4>7. heldUntil[<<role, p>>] \in Times
        BY <3>2, <4>2 DEF HeldInv, Pairs
      <4> QED BY <1>0, <4>4, <4>6, <4>7 DEF HadAt, Times
    <3>10. ~slow => \A p \in Permissions \ codes : role \in missed \/ NotSince(role, p, a + 1)
      <4>1. SUFFICES ASSUME ~slow, NEW p \in Permissions \ codes, role \notin missed PROVE NotSince(role, p, a + 1)
        OBVIOUS
      <4>2. Cached(role) /\ p \notin cache[role].codes
        BY <3>3, <3>4, <4>1
      <4>3. cache[role].expiresAt # NULL /\ now < cache[role].expiresAt
        BY <4>2 DEF Cached
      <4>4. PICK t \in Nat : cache[role].expiresAt = t + CacheTTL /\ NotSince(role, p, t)
        BY <3>2, <4>1, <4>2, <4>3 DEF CacheInv, RightSince
      <4>5. cache[role].expiresAt \in Nat
        BY <3>2, <4>3 DEF CacheInv, Times
      <4>6. a + 1 <= t
        BY <1>0, <2>0, <2>t, <4>3, <4>4, <4>5
      <4>7. heldSince[<<role, p>>] \in Times
        BY <3>2, <4>1 DEF HeldInv, Pairs
      <4> QED BY <1>0, <4>4, <4>6, <4>7 DEF NotSince, Times
    <3>11. ~slow' => /\ \A p \in row.perms : \E other \in row.roles : HadAt(other, p, a)'
                     /\ \A other \in row.roles : \A p \in Permissions \ row.perms :
                          other \in row.misses \/ other \in row.todo \/ NotSince(other, p, a + 1)'
      <4>1. HAVE ~slow'
      <4>2. \A p \in row.perms : \E other \in row.roles : HadAt(other, p, a)
        BY <2>0, <2>a, <2>b, <2>t, <3>7, <3>9, <4>1
      <4>3. \A other \in row.roles : \A p \in Permissions \ row.perms :
                other \in row.misses \/ other \in row.todo \/ NotSince(other, p, a + 1)
        BY <2>0, <2>a, <2>b, <2>t, <3>7, <3>10, <4>1
      <4>4. row.roles \subseteq Roles /\ row.perms \subseteq Permissions
        BY <3>6 DEF GuardTypes
      <4> QED BY <1>1, <1>4, <2>t, <4>2, <4>3, <4>4, HeldSteps
    <3>12. row.misses \subseteq row.roles /\ row.todo \subseteq row.roles
      BY <2>0, <3>7
    <3>13. Gathered(g)'
      BY <1>1, <2>0, <2>t, <3>7, <3>8, <3>11, <3>12 DEF Gathered
    <3> QED BY <1>1, <1>2, <1>6, <1>7, <2>b, <3>6, <3>8, <3>13
  <2> QED BY ZenonT(30), <1>3, <1>10, <2>1, <2>2 DEF GetCached
<1>11. CASE GetByRoleId(g)
  <2>0. r.pc = "read" /\ r.since \in Nat /\ r.since <= now /\ r.user \in Users /\ r.code \in Permissions
        /\ r.misses \subseteq r.roles /\ r.roles \subseteq Roles /\ r.perms \subseteq Permissions
    BY ZenonT(30), <1>3, <1>11 DEF GetByRoleId, Gathered, GuardTypes
  <2>a. ~slow => /\ \A p \in r.perms : \E role \in r.roles : HadAt(role, p, r.since - CacheTTL)
                 /\ \A role \in r.roles : \A p \in Permissions \ r.perms :
                        role \in r.misses \/ NotSince(role, p, (r.since - CacheTTL) + 1)
    BY <1>3, <2>0 DEF Gathered
  <2>b. slow' = slow /\ cache' = cache
    BY ZenonT(30), <1>11 DEF GetByRoleId
  <2>t. PICK a \in Int : a = r.since - CacheTTL /\ a <= now /\ a + 1 <= now
    BY <1>0, <2>0
  <2>1. PICK role \in r.misses :
            guard' = [guard EXCEPT ![g].pc = "set", ![g].todo = {role}, ![g].readAt = now,
                        ![g].read = {p \in Permissions : <<role, p>> \in grants}]
    BY ZenonT(30), <1>3, <1>11 DEF GetByRoleId
  <2>2. PICK read : read = {p \in Permissions : <<role, p>> \in grants}
    OBVIOUS
  <2>3. PICK row : row = [r EXCEPT !.pc = "set", !.todo = {role}, !.readAt = now, !.read = read]
    OBVIOUS
  <2>4. role \in Roles /\ read \in SUBSET Permissions
    BY <2>0, <2>2
  <2>5. row \in GuardTypes
    BY <1>0, <2>3, <2>4 DEF GuardTypes
  <2>6. row.pc = "set" /\ row.user = r.user /\ row.code = r.code /\ row.since = r.since /\ row.roles = r.roles
        /\ row.perms = r.perms /\ row.misses = r.misses /\ row.todo = {role} /\ row.readAt = now /\ row.read = read
    BY <2>3 DEF GuardTypes
  <2>7. guard' = [guard EXCEPT ![g] = row] /\ guard'[g] = row
    BY <1>3, <2>1, <2>2, <2>3 DEF GuardInv
  <2>8. \A p \in Permissions : IF p \in read THEN HadAt(role, p, now)' ELSE NotSince(role, p, now)'
    <3>1. ASSUME NEW p \in Permissions PROVE IF p \in read THEN HadAt(role, p, now) ELSE NotSince(role, p, now)
      BY <2>2, <2>4 DEF HadAt, NotSince, HeldInv, Pairs
    <3>2. now \in Int /\ now <= now
      BY <1>0
    <3>3. PICK n \in Int : n = now
      BY <3>2
    <3>4. ASSUME NEW p \in Permissions PROVE IF p \in read THEN HadAt(role, p, n)' ELSE NotSince(role, p, n)'
      BY <1>1, <1>4, <2>4, <3>1, <3>2, <3>3, HeldSteps
    <3>5. n = now'
      BY <1>1, <3>3
    <3> QED BY <3>4, <3>5, <3>3
  <2>9. ~slow' => /\ \A p \in r.perms : \E other \in r.roles : HadAt(other, p, a)'
                  /\ \A other \in r.roles : \A p \in Permissions \ r.perms :
                        other \in r.misses \/ NotSince(other, p, a + 1)'
    BY <1>1, <1>4, <2>0, <2>a, <2>b, <2>t, HeldSteps
  <2>10. \A other \in row.todo : \A p \in Permissions :
             IF p \in row.read THEN HadAt(other, p, row.readAt)' ELSE NotSince(other, p, row.readAt)'
    BY <1>1, <2>6, <2>8
  <2>11. row.since <= row.readAt /\ row.readAt <= now' /\ row.todo \subseteq row.misses
         /\ \A o1 \in row.todo, o2 \in row.todo : o1 = o2
    BY <1>0, <1>1, <2>0, <2>6
  <2>12. Gathered(g)'
    BY <1>1, <2>0, <2>t, <2>6, <2>7, <2>9, <2>10, <2>11 DEF Gathered
  <2> QED BY <1>1, <1>2, <1>6, <1>7, <2>b, <2>5, <2>7, <2>12
<1>12. CASE SetCached(g)
  <2>1. PICK role \in r.todo :
          /\ cache' = [cache EXCEPT ![role] = [codes |-> r.read, expiresAt |-> now + CacheTTL]]
          /\ guard' = [guard EXCEPT ![g].pc = IF r.misses = {role} THEN "decide" ELSE "read",
                          ![g].misses = @ \ {role}, ![g].todo = {}, ![g].read = {},
                          ![g].perms = @ \union r.read]
          /\ slow' = (slow \/ r.readAt < now) /\ r.pc = "set"
    BY ZenonT(30), <1>3, <1>12 DEF SetCached
  <2>0. /\ r.since \in Nat /\ r.readAt \in Nat /\ r.since <= r.readAt /\ r.readAt <= now /\ r.since <= now
        /\ r.user \in Users /\ r.code \in Permissions /\ r.todo \subseteq r.misses /\ role \in Roles /\ role \in r.roles
        /\ r.misses \subseteq r.roles /\ r.roles \subseteq Roles /\ r.perms \subseteq Permissions /\ r.read \in SUBSET Permissions
    BY ZenonT(30), <1>3, <2>1 DEF Gathered, GuardTypes
  <2>r. \A p \in Permissions : IF p \in r.read THEN HadAt(role, p, r.readAt) ELSE NotSince(role, p, r.readAt)
    BY ZenonT(30), <1>3, <2>1 DEF Gathered
  <2>a. ~slow => /\ \A p \in r.perms : \E other \in r.roles : HadAt(other, p, r.since - CacheTTL)
                 /\ \A other \in r.roles : \A p \in Permissions \ r.perms :
                        other \in r.misses \/ NotSince(other, p, (r.since - CacheTTL) + 1)
    BY ZenonT(30), <1>3, <2>1 DEF Gathered
  <2>t. PICK a \in Int : a = r.since - CacheTTL /\ a <= now /\ a + 1 <= now /\ a + 1 <= r.readAt /\ a <= r.readAt
    BY <1>0, <2>0
  <2>2. PICK row : row = [r EXCEPT !.pc = IF r.misses = {role} THEN "decide" ELSE "read",
                          !.misses = @ \ {role}, !.todo = {}, !.read = {}, !.perms = @ \union r.read]
    BY ZenonT(30)
  <2>3. row \in GuardTypes
    BY ZenonT(30), <2>0, <2>2 DEF GuardTypes
  <2>4. row.pc = (IF r.misses = {role} THEN "decide" ELSE "read") /\ row.user = r.user /\ row.code = r.code
        /\ row.since = r.since /\ row.roles = r.roles /\ row.perms = r.perms \union r.read
        /\ row.misses = r.misses \ {role} /\ row.todo = {}
    BY <2>2 DEF GuardTypes
  <2>5. guard' = [guard EXCEPT ![g] = row] /\ guard'[g] = row
    BY ZenonT(30), <1>3, <2>1, <2>2 DEF GuardInv
  <2>6. \A p \in Permissions : IF p \in r.read THEN HadAt(role, p, r.readAt)' ELSE NotSince(role, p, r.readAt)'
    BY <1>1, <1>4, <2>0, <2>r, HeldSteps
  <2>7. ~slow' => /\ \A p \in row.perms : \E other \in row.roles : HadAt(other, p, a)'
                  /\ \A other \in row.roles : \A p \in Permissions \ row.perms :
                        other \in row.misses \/ NotSince(other, p, a + 1)'
    <3>1. HAVE ~slow'
    <3>2. ~slow
      BY ZenonT(30), <2>1, <3>1
    <3>3. /\ \A p \in r.perms : \E other \in r.roles : HadAt(other, p, a)'
          /\ \A other \in r.roles : \A p \in Permissions \ r.perms :
                        other \in r.misses \/ NotSince(other, p, a + 1)'
      BY <1>1, <1>4, <2>0, <2>a, <2>t, <3>2, HeldSteps
    <3>4. HeldInv'
      BY <1>1, <1>4, HeldSteps
    <3>5. ASSUME NEW p \in Permissions PROVE IF p \in r.read THEN HadAt(role, p, a)' ELSE NotSince(role, p, a + 1)'
      <4>1. heldUntil'[<<role, p>>] \in Times /\ heldSince'[<<role, p>>] \in Times
        BY <2>0, <3>4 DEF HeldInv, Pairs
      <4> QED BY <1>0, <2>0, <2>6, <2>t, <4>1 DEF HadAt, NotSince, Times
    <3> QED BY <2>0, <2>4, <3>3, <3>5
  <2>8. row.pc \in {"decide", "read"} /\ (row.pc = "decide" => row.misses = {}) /\ row.misses \subseteq row.roles
    BY <2>0, <2>4
  <2>9. Gathered(g)'
    BY <1>1, <2>0, <2>t, <2>4, <2>5, <2>7, <2>8 DEF Gathered
  <2>10. CacheInv'
    <3>1. cache' \in [Roles -> [codes : SUBSET Permissions, expiresAt : Times]]
      <4>1. now + CacheTTL \in Times
        BY <1>0 DEF Times
      <4>2. PICK entry \in [codes : SUBSET Permissions, expiresAt : Times] : entry = [codes |-> r.read, expiresAt |-> now + CacheTTL]
        BY <2>0, <4>1
      <4>3. cache' = [cache EXCEPT ![role] = entry]
        BY ZenonT(30), <2>1, <4>2
      <4> QED BY <4>3 DEF CacheInv
    <3>2. ASSUME NEW q \in Roles, cache'[q].expiresAt # NULL
          PROVE  \E t \in Nat : /\ cache'[q].expiresAt = t + CacheTTL /\ t <= now'
                                /\ ~slow' => RightSince(q, cache[q].codes, t)'
      <4>1. CASE q = role
        <5>1. cache'[q].codes = r.read /\ cache'[q].expiresAt = now + CacheTTL
          BY ZenonT(30), <2>1, <4>1 DEF CacheInv
        <5>2. ~slow' => r.readAt = now
          <6>1. ~slow' => ~(r.readAt < now)
            BY ZenonT(30), <2>1
          <6> QED BY <1>0, <2>0, <6>1
        <5>3. RightSince(q, r.read, r.readAt)'
          BY <2>6, <4>1 DEF RightSince
        <5>4. ~slow' => RightSince(q, cache[q].codes, now)'
          <6>1. HAVE ~slow'
          <6>2. r.readAt = now'
            BY <1>1, <5>2, <6>1
          <6> QED BY <5>1, <5>3, <6>2, Zenon
        <5>5. now <= now' /\ now' \in Nat /\ cache'[q].expiresAt = now' + CacheTTL
          BY <1>0, <1>1, <5>1
        <5>6. now' <= now'
          BY <5>5
        <5> QED BY <5>4, <5>5, <5>6
      <4>2. CASE q # role
        <5>1. cache'[q] = cache[q]
          BY ZenonT(30), <2>1, <4>2 DEF CacheInv
        <5>2. PICK t \in Nat : cache[q].expiresAt = t + CacheTTL /\ t <= now /\ (~slow => RightSince(q, cache[q].codes, t))
          BY <3>2, <5>1 DEF CacheInv
        <5>3. ~slow' => ~slow
          BY ZenonT(30), <2>1
        <5>4. ~slow' => RightSince(q, cache[q].codes, t)'
          BY <1>1, <1>4, <5>1, <5>2, <5>3, HeldSteps DEF RightSince
        <5> QED BY <1>1, <5>1, <5>2, <5>4
      <4> QED BY <4>1, <4>2
    <3> QED BY <3>1, <3>2 DEF CacheInv
  <2> QED BY ZenonT(30), <1>1, <1>2, <1>6, <2>3, <2>5, <2>9, <2>10
<1>13. CASE Decide(g)
  <2>1. guard' = [guard EXCEPT ![g] = IdleGuard] /\ cache' = cache
    BY <1>13 DEF Decide
  <2>2. IdleGuard \in GuardTypes
    BY DEF IdleGuard, GuardTypes
  <2>3. guard'[g] = IdleGuard
    BY <2>1 DEF GuardInv
  <2>4. Gathered(g)'
    BY <1>0, <1>1, <2>3 DEF Gathered, IdleGuard
  <2> QED BY <1>1, <1>2, <1>6, <1>7, <2>1, <2>2, <2>4
<1> QED BY <1>8, <1>9, <1>10, <1>11, <1>12, <1>13

\* Granting and the clock leave guards and cache alone.
LEMMA OtherSteps ==
    ASSUME (\E q \in Grantors : CheckGrant(q) \/ CreateRolePermission(q)) \/ Tick
    PROVE  /\ guard' = guard /\ cache' = cache /\ slow' = slow /\ users' = users
           /\ now' = now \/ now' = now + 1
BY DEF CheckGrant, CreateRolePermission, Tick, accessTables

\* The access part of the invariant holds at first ...
LEMMA AccessStarts == Init => AccessInv
<1> SUFFICES ASSUME Init PROVE AccessInv
  OBVIOUS
<1>0. NULL \notin Nat /\ NULL \in Times
  BY AccessConstants DEF Times
<1>1. SeedInv
  <2>1. seed = [f \in SeedFields |-> seed[f]] /\ seed.todo = << >>
    BY DEF Init, NoRun, SeedFields
  <2>2. << >> \in Seq(Statements) /\ \A i \in 1..Len(<< >>) : FALSE
    OBVIOUS
  <2> QED BY <2>1, <2>2 DEF SeedInv
<1>2. UserInv
  <2>1. NoUser \in UserRows
    <3>1. \A S : << >> \in Seq(S)
      OBVIOUS
    <3>2. PICK e \in Seq(BOOLEAN) : e = << >>
      BY <3>1, Zenon
    <3>3. [exists |-> FALSE, roles |-> {}, addresses |-> e] \in UserRows
      BY DEF UserRows
    <3> QED BY <3>2, <3>3, Zenon DEF NoUser
  <2> QED BY <2>1 DEF Init, UserInv
<1>3. HeldInv
  BY <1>0 DEF Init, AccessInit, HeldInv, Pairs
<1>4. CacheInv
  BY <1>0 DEF Init, AccessInit, CacheInv, NoEntry
<1>5. GuardInv
  <2>1. IdleGuard \in GuardTypes
    BY DEF IdleGuard, GuardTypes
  <2>2. \A g \in Guards : guard[g] = IdleGuard
    BY DEF Init, AccessInit
  <2>3. \A g \in Guards : Gathered(g)
    BY <2>2, <1>3 DEF Gathered, IdleGuard, HeldInv
  <2> QED BY <2>1, <2>3 DEF Init, AccessInit, GuardInv
<1> QED BY <1>1, <1>2, <1>3, <1>4, <1>5 DEF AccessInv

\* ... and every step keeps it.
LEMMA AccessKeeps == AccessInv /\ [Next]_seedVars => AccessInv'
<1> SUFFICES ASSUME AccessInv, [Next]_seedVars PROVE AccessInv'
  OBVIOUS
<1> USE DEF AccessInv
<1>0. now \in Nat /\ slow \in BOOLEAN
  BY DEF HeldInv
<1>1. CASE SeedStep /\ KeepBooks /\ UNCHANGED busy
  <2>1. SeedInv' /\ UserInv'
    BY <1>1, SeedKeeps
  <2>2. cache' = cache /\ guard' = guard /\ now' = now /\ slow' = slow
    BY <1>1, SeedSteps DEF SeedInv, accessRest
  <2>3. HeldInv'
    BY <1>0, <1>1, <2>2, HeldSteps
  <2>4. CacheInv' /\ \A g \in Guards : Gathered(g)'
    BY <1>0, <1>1, <2>2, RestKeeps DEF GuardInv
  <2> QED BY <2>1, <2>2, <2>3, <2>4 DEF GuardInv
<1>2. CASE AccessStep /\ KeepBooks /\ seed' = seed
  <2>1. SeedInv'
    BY <1>2 DEF SeedInv
  <2>2. CASE \E g \in Guards : Ask(g) \/ GetRoleIds(g) \/ GetCached(g) \/ GetByRoleId(g) \/ SetCached(g) \/ Decide(g)
    <3>1. CacheInv' /\ GuardInv' /\ now' = now /\ slow' \in BOOLEAN /\ users' = users
      BY <1>2, <2>2, GuardSteps
    <3>2. HeldInv'
      BY <1>2, <3>1, HeldSteps
    <3> QED BY <2>1, <3>1, <3>2 DEF UserInv
  <2>3. CASE (\E q \in Grantors : CheckGrant(q) \/ CreateRolePermission(q)) \/ Tick
    <3>1. guard' = guard /\ cache' = cache /\ slow' = slow /\ users' = users /\ now' \in {now, now + 1}
      BY <2>3, OtherSteps
    <3>2. HeldInv'
      BY <1>0, <1>2, <3>1, HeldSteps
    <3>3. CacheInv' /\ \A g \in Guards : Gathered(g)'
      BY <1>0, <1>2, <3>1, RestKeeps DEF GuardInv
    <3> QED BY <2>1, <3>1, <3>2, <3>3 DEF GuardInv, UserInv
  <2> QED BY <1>2, <2>2, <2>3 DEF AccessStep
<1>3. CASE UNCHANGED seedVars
  <2>1. /\ seed' = seed /\ users' = users /\ now' = now /\ slow' = slow /\ grants' = grants
        /\ heldSince' = heldSince /\ heldUntil' = heldUntil /\ cache' = cache /\ guard' = guard
    BY <1>3 DEF seedVars, accessVars, accessTables, accessRest
  <2>2. SeedInv' /\ UserInv' /\ HeldInv'
    BY <2>1 DEF SeedInv, UserInv, HeldInv
  <2>3. CacheInv'
    BY <2>1 DEF CacheInv, RightSince, HadAt, NotSince
  <2>4. \A g \in Guards : Gathered(g)'
    BY <2>1 DEF GuardInv, Gathered, HadAt, NotSince
  <2> QED BY <2>1, <2>2, <2>3, <2>4 DEF GuardInv
<1> QED BY <1>1, <1>2, <1>3 DEF Next

\* What guards have gathered and the cache remembers is right in every state.
THEOREM AccessIsRight == Spec => []AccessInv
<1> QED BY AccessStarts, AccessKeeps, PTL DEF Spec

\* A guard that is done decides on what was granted recently.
LEMMA Decisions == AccessInv => \A g \in Guards :
          LET r == guard[g] IN
          r.pc = "decide" /\ guard'[g].pc = "idle" /\ ~slow =>
              IF Admitted(g)
              THEN \E role \in r.roles :
                       \/ <<role, r.code>> \in grants
                       \/ heldUntil[<<role, r.code>>] # NULL /\ heldUntil[<<role, r.code>>] >= r.since - CacheTTL
              ELSE \A role \in r.roles :
                       heldSince[<<role, r.code>>] = NULL \/ heldSince[<<role, r.code>>] > r.since - CacheTTL
<1> SUFFICES ASSUME AccessInv, NEW g \in Guards, guard[g].pc = "decide", ~slow
             PROVE  IF Admitted(g)
                    THEN \E role \in guard[g].roles :
                             \/ <<role, guard[g].code>> \in grants
                             \/ heldUntil[<<role, guard[g].code>>] # NULL /\ heldUntil[<<role, guard[g].code>>] >= guard[g].since - CacheTTL
                    ELSE \A role \in guard[g].roles :
                             heldSince[<<role, guard[g].code>>] = NULL \/ heldSince[<<role, guard[g].code>>] > guard[g].since - CacheTTL
  OBVIOUS
<1>1. PICK r \in GuardTypes : r = guard[g] /\ Gathered(g)
  BY DEF AccessInv, GuardInv
<1>2. r.code \in Permissions /\ r.misses = {}
  BY <1>1 DEF Gathered
<1>3. CASE r.code \in r.perms
  <2>1. PICK role \in r.roles : HadAt(role, r.code, r.since - CacheTTL)
    BY <1>1, <1>3 DEF Gathered
  <2> QED BY <1>1, <1>3, <2>1 DEF HadAt, Admitted
<1>4. CASE r.code \notin r.perms
  <2>1. \A role \in r.roles : NotSince(role, r.code, (r.since - CacheTTL) + 1)
    BY <1>1, <1>2, <1>4 DEF Gathered
  <2>2. ASSUME NEW role \in r.roles
        PROVE  heldSince[<<role, r.code>>] = NULL \/ heldSince[<<role, r.code>>] > r.since - CacheTTL
    <3>1. role \in Roles /\ r.since \in Nat /\ CacheTTL \in Nat
      BY AccessConstants DEF GuardTypes
    <3>2. heldSince[<<role, r.code>>] \in Times
      BY <1>2, <3>1 DEF AccessInv, HeldInv, Pairs
    <3> QED BY <2>1, <3>1, <3>2 DEF NotSince, Times
  <2> QED BY <1>1, <1>4, <2>2 DEF Admitted
<1> QED BY <1>3, <1>4

\* Who is let through had a role with the permission recently, who is not had none.
THEOREM GuardsDecideOnRecentGrants == Spec => DecidedOnRecentGrants
<1>1. AccessInv /\ [Next]_seedVars =>
        [\A g \in Guards :
          LET r == guard[g] IN
          r.pc = "decide" /\ guard'[g].pc = "idle" /\ ~slow =>
              IF Admitted(g)
              THEN \E role \in r.roles :
                       \/ <<role, r.code>> \in grants
                       \/ heldUntil[<<role, r.code>>] # NULL /\ heldUntil[<<role, r.code>>] >= r.since - CacheTTL
              ELSE \A role \in r.roles :
                       heldSince[<<role, r.code>>] = NULL \/ heldSince[<<role, r.code>>] > r.since - CacheTTL]_seedVars
  BY Decisions
<1> QED BY <1>1, AccessIsRight, PTL DEF Spec, DecidedOnRecentGrants

(* --------------------------- How far a run is --------------------------- *)

\* k statements of the script are done, the others are in front of the process.
Remaining(k) ==
    /\ k \in 0..Len(Script) /\ Len(seed.todo) = Len(Script) - k
    /\ \A i \in 1..Len(seed.todo) : seed.todo[i] = Script[k + i]

\* One of the k statements that are done is d; the last of them is about u.
Did(k, d) == \E i \in 1..k : Script[i] = d
LastIs(k, op, u) == k # 0 /\ Script[k].op = op /\ Script[k].x = u

\* What is done of the access tables is as the seed means it.
AccessDone(k) ==
    /\ \A r \in Roles : Did(k, Do("role", r, NULL)) => r \in roles
    /\ \A p \in PERMISSIONS : Did(k, Do("permission", p, NULL)) => p \in permissions
    /\ \A r \in Roles : \A p \in ROLE_PERMISSION_MAP[r] : Did(k, Do("grant", r, p)) => <<r, p>> \in grants
    /\ \A r \in Roles : Did(k, Do("prune", r, NULL)) =>
          /\ seed.prunedAt[r] \in Nat /\ seed.prunedAt[r] <= now
          /\ \A p \in Permissions \ ROLE_PERMISSION_MAP[r] :
                <<r, p>> \in grants => heldSince[<<r, p>>] >= seed.prunedAt[r]

UsersDone(k) ==
    \A u \in Users :
        /\ Did(k, Do("user", u, NULL)) => users[u].exists
        /\ Did(k, Do("clearRoles", u, NULL)) => users[u].roles \subseteq {u}
        /\ Did(k, Do("giveRoles", u, NULL)) => u \in users[u].roles \/ LastIs(k, "clearRoles", u)

\* The addresses of a user, of which the first is the default: as many as are to be,
\* or those that were created so far.
AddressesDone(k) ==
    /\ k # 0 /\ Script[k].op \in {"clearAddresses", "address"} => seed.count \in 2..4
    /\ \A u \in Users : Did(k, Do("clearAddresses", u, NULL)) =>
          LET a == users[u].addresses IN
          /\ \A i \in 1..Len(a) : a[i] <=> i = 1
          /\ LastIs(k, "clearAddresses", u) => Len(a) = 0
          /\ LastIs(k, "address", u) => Len(a) = IF Script[k].y <= seed.count THEN Script[k].y ELSE seed.count
          /\ ~LastIs(k, "clearAddresses", u) /\ ~LastIs(k, "address", u) => Len(a) \in 2..4

\* Roles and permissions that are granted are there.
TablesInv ==
    /\ roles \subseteq Roles /\ permissions \subseteq Permissions /\ grants \subseteq roles \X permissions
    /\ \A u \in Users : users[u].roles \subseteq roles

ProgressInv ==
    /\ seed.todo # << >> => seed.on
    /\ seed.obsolete \intersect PERMISSIONS = {}
    /\ seed.prunedAt \in [Roles -> Nat]
    /\ seed.on => \E k \in Nat : Remaining(k) /\ AccessDone(k) /\ UsersDone(k) /\ AddressesDone(k)

\* The script does not change while the seed is run.
LEMMA ScriptStays == busy' = busy => Script' = Script
BY DEF Script

\* Whoever held something not before t, or nothing, holds nothing from before t.
LEMMA HeldLater ==
    ASSUME HeldInv, KeepBooks, NEW pair \in Pairs, NEW t \in Nat, t <= now,
           pair \in grants => heldSince[pair] >= t
    PROVE  pair \in grants' => heldSince'[pair] >= t
<1>1. NULL \notin Nat /\ now \in Nat
  BY AccessConstants DEF HeldInv
<1>2. heldSince'[pair] = IF pair \notin grants' THEN NULL ELSE IF heldSince[pair] = NULL THEN now ELSE heldSince[pair]
  BY DEF KeepBooks, Pairs
<1>3. heldSince[pair] = NULL <=> pair \notin grants
  BY DEF HeldInv
<1> QED BY <1>1, <1>2, <1>3

\* After a statement the next one is done too.
LEMMA NextStatement ==
    ASSUME SeedInv, NEW k \in Nat, Remaining(k), Executes, busy' = busy
    PROVE  /\ k + 1 \in 1..Len(Script) /\ Script[k + 1] \in Statements /\ Sound(Script[k + 1])
           /\ Effect(Script[k + 1]) /\ Remaining(k + 1)'
           /\ \A e : Did(k + 1, e)' => Did(k, e) \/ e = Script[k + 1]
           /\ \A op, u : LastIs(k + 1, op, u)' <=> Script[k + 1].op = op /\ Script[k + 1].x = u
           /\ Script'[k + 1] = Script[k + 1]
<1>1. PICK s \in Scripts : s = Script /\ Script' = s
  BY TheScript, ScriptStays
<1>2. s \in Seq(Statements) /\ \A i \in 1..Len(s) : Sound(s[i])
  BY DEF Scripts
<1>3. PICK t \in Seq(Statements) : t = seed.todo /\ t # << >>
  BY DEF SeedInv, Executes
<1>4. seed'.todo = Tail(t) /\ Effect(t[1])
  BY <1>3 DEF Executes
<1>5. PICK n \in Nat, m \in Nat : n = Len(s) /\ m = Len(t)
  BY <1>2, <1>3
<1>6. k \in 0..n /\ m = n - k /\ \A i \in 1..m : t[i] = s[k + i]
  BY <1>1, <1>3, <1>5 DEF Remaining
<1>e. m # 0
  <2>1. \A z \in Seq(Statements) : Len(z) = 0 => z = << >>
    OBVIOUS
  <2> QED BY <2>1, <1>3, <1>5
<1>7. 1 \in 1..m /\ k + 1 \in 1..n
  BY <1>e, <1>5, <1>6
<1>8. t[1] = s[k + 1]
  BY <1>6, <1>7
<1>9. s[k + 1] \in Statements /\ Sound(s[k + 1])
  BY <1>2, <1>5, <1>7
<1>10. PICK q \in Seq(Statements) : q = Tail(t) /\ Len(q) = m - 1 /\ \A i \in 1..m - 1 : q[i] = t[i + 1]
  <2>1. PICK q : q = Tail(t)
    OBVIOUS
  <2>2. q \in Seq(Statements) /\ Len(q) = Len(t) - 1 /\ \A i \in 1..Len(q) : q[i] = t[i + 1]
    BY <1>3, <2>1, HeadTailProperties
  <2> QED BY <1>5, <2>1, <2>2
<1>11. \A i \in 1..m - 1 : i + 1 \in 1..m /\ k + (i + 1) = (k + 1) + i
  BY <1>e
<1>12. \A i \in 1..Len(q) : q[i] = s[(k + 1) + i]
  BY <1>6, <1>10, <1>11
<1>13. k + 1 \in 0..n /\ Len(q) = n - (k + 1)
  <2>1. m = n - k /\ k + 1 \in 1..n /\ Len(q) = m - 1
    BY <1>6, <1>7, <1>10
  <2>2. m - 1 = n - (k + 1)
    BY <2>1
  <2> QED BY <2>1, <2>2
<1>14. Remaining(k + 1)'
  BY <1>1, <1>4, <1>5, <1>10, <1>12, <1>13 DEF Remaining
<1>15. ASSUME NEW e, Did(k + 1, e)' PROVE Did(k, e) \/ e = s[k + 1]
  <2>1. PICK i \in 1..k + 1 : s[i] = e
    BY <1>1, <1>15 DEF Did
  <2>2. i \in 1..k \/ i = k + 1
    OBVIOUS
  <2> QED BY <1>1, <2>1, <2>2 DEF Did
<1>16. \A op, u : LastIs(k + 1, op, u)' <=> s[k + 1].op = op /\ s[k + 1].x = u
  BY <1>1 DEF LastIs
<1> QED BY <1>1, <1>4, <1>5, <1>7, <1>8, <1>9, <1>14, <1>15, <1>16

\* Roles and permissions are prepared before they are granted.
LEMMA Prepared ==
    ASSUME NEW k \in Nat, k + 1 \in 1..Len(Script), AccessDone(k)
    PROVE  /\ Script[k + 1].op = "grant" => \A r \in Roles : r \in roles
           /\ Script[k + 1].op = "grant" => \A p \in PERMISSIONS : p \in permissions
           /\ Script[k + 1].op = "giveRoles" => \A r \in Roles : r \in roles
<1>1. PICK n \in Nat : PreparedAt(Script, n)
  BY TheScript
<1>2. Script[k + 1].op \in {"grant", "giveRoles"} => n <= k
  BY <1>1 DEF PreparedAt
<1>3. n <= k => \A i \in 1..n : i \in 1..k
  OBVIOUS
<1>4. n <= k => \A r \in Roles : Did(k, Do("role", r, NULL))
  BY <1>1, <1>3 DEF PreparedAt, Did
<1>5. n <= k => \A p \in PERMISSIONS : Did(k, Do("permission", p, NULL))
  BY <1>1, <1>3 DEF PreparedAt, Did
<1> QED BY <1>2, <1>4, <1>5 DEF AccessDone

\* The parts of a pair.
LEMMA PairParts == \A a, b : \E g : g = <<a, b>> /\ g[1] = a /\ g[2] = b
<1> TAKE a, b
<1>1. <<a, b>>[1] = a
  OBVIOUS
<1>2. <<a, b>>[2] = b
  OBVIOUS
<1> QED BY <1>1, <1>2, Zenon

\* What Append returns, and that a Boolean can be appended.
LEMMA Appended ==
    \A S : \A a \in Seq(S), f \in S :
        /\ Len(Append(a, f)) = Len(a) + 1 /\ Append(a, f)[Len(a) + 1] = f
        /\ \A i \in 1..Len(a) : Append(a, f)[i] = a[i]
BY AppendProperties

\* A statement keeps the tables in order.
LEMMA TablesStep ==
    ASSUME SeedInv, UserInv, TablesInv, NEW k \in Nat, Remaining(k), AccessDone(k), Executes, busy' = busy
    PROVE  TablesInv'
<1>1. PICK d \in Statements : d = Script[k + 1] /\ Sound(d) /\ Effect(d)
  BY NextStatement
<1>2. /\ d.op = "grant" => d.x \in roles /\ d.y \in permissions
      /\ d.op = "giveRoles" => d.x \in roles
  <2>1. k + 1 \in 1..Len(Script)
    BY NextStatement
  <2>2. d.op = "grant" => d.x \in Roles /\ d.y \in PERMISSIONS
    BY <1>1, SeedTypes DEF Sound
  <2>3. d.op = "giveRoles" => d.x \in Roles
    BY <1>1, SeedTypes DEF Sound
  <2> QED BY <1>1, <2>1, <2>2, <2>3, Prepared
<1>3. roles' \subseteq Roles /\ roles \subseteq roles'
  BY <1>1 DEF Effect, TablesInv, Sound
<1>4. permissions' \subseteq Permissions
  BY <1>1, SeedConstants DEF Effect, TablesInv, Sound
<1>5. grants' \subseteq roles' \X permissions'
  <2> SUFFICES ASSUME NEW g \in grants' PROVE g \in roles' \X permissions'
    OBVIOUS
  <2>1. CASE d.op = "grant"
    BY <1>1, <1>2, <1>3, <2>1 DEF Effect, TablesInv
  <2>2. CASE d.op = "dropPermissions"
    <3>1. g \in grants /\ g[2] \notin seed.obsolete /\ permissions' = permissions \ seed.obsolete
      BY <1>1, <2>2 DEF Effect
    <3> QED BY <1>3, <3>1 DEF TablesInv
  <2>3. CASE d.op \notin {"grant", "dropPermissions"}
    <3>1. g \in grants
      BY SMTT(30), <1>1, <2>3 DEF Effect
    <3>2. permissions \subseteq permissions'
      BY <1>1, <2>3 DEF Effect
    <3> QED BY SMTT(30), <1>3, <3>1, <3>2 DEF TablesInv
  <2> QED BY <2>1, <2>2, <2>3
<1>6. ASSUME NEW u \in Users PROVE users'[u].roles \subseteq roles'
  <2>0. users[u].roles \subseteq roles
    BY DEF TablesInv
  <2>1. CASE d.op = "giveRoles"
    BY <1>1, <1>2, <1>3, <2>0, <2>1 DEF Effect, UserInv, UserRows
  <2>2. CASE d.op = "clearRoles"
    BY <1>1, <1>3, <2>0, <2>2 DEF Effect, UserInv, UserRows
  <2>3. CASE d.op = "user"
    <3>1. users' = [users EXCEPT ![d.x].exists = TRUE]
      BY <1>1, <2>3 DEF Effect
    <3>2. users'[u].roles = users[u].roles
      BY <3>1 DEF UserInv, UserRows
    <3> QED BY <1>3, <2>0, <3>2
  <2>4. CASE d.op = "clearAddresses"
    <3>1. users' = [users EXCEPT ![d.x].addresses = << >>]
      BY <1>1, <2>4 DEF Effect
    <3>2. users'[u].roles = users[u].roles
      BY <3>1 DEF UserInv, UserRows
    <3> QED BY <1>3, <2>0, <3>2
  <2>5. CASE d.op = "address"
    <3>1. PICK b : users' = [users EXCEPT ![d.x].addresses = b]
      BY <1>1, <2>5 DEF Effect
    <3>2. users'[u].roles = users[u].roles
      BY <3>1 DEF UserInv, UserRows
    <3> QED BY <1>3, <2>0, <3>2
  <2>6. CASE d.op \notin {"user", "clearRoles", "giveRoles", "clearAddresses", "address"}
    BY <1>1, <1>3, <2>0, <2>6 DEF Effect
  <2> QED BY <2>1, <2>2, <2>3, <2>4, <2>5, <2>6
<1> QED BY <1>3, <1>4, <1>5, <1>6 DEF TablesInv

\* A statement keeps what is done of roles, permissions and grants.
LEMMA AccessDoneStep ==
    ASSUME SeedInv, HeldInv, TablesInv, KeepBooks, now' = now, NEW k \in Nat, Remaining(k), Executes, busy' = busy,
           AccessDone(k), seed.obsolete \intersect PERMISSIONS = {}, seed.prunedAt \in [Roles -> Nat]
    PROVE  /\ AccessDone(k + 1)' /\ seed'.prunedAt \in [Roles -> Nat]
           /\ seed'.obsolete \intersect PERMISSIONS = {}
<1>1. PICK d \in Statements : /\ d = Script[k + 1] /\ Sound(d) /\ Effect(d)
                              /\ \A e : Did(k + 1, e)' => Did(k, e) \/ e = d
  BY NextStatement
<1>0. now \in Nat
  BY SMTT(30) DEF HeldInv
<1>2. seed'.obsolete \intersect PERMISSIONS = {}
  BY SMTT(30), <1>1 DEF Effect
<1>3. seed'.prunedAt \in [Roles -> Nat]
  BY SMTT(30), <1>0, <1>1 DEF Effect, Sound
<1>4. ASSUME NEW r \in Roles, Did(k + 1, Do("role", r, NULL))' PROVE r \in roles'
  <2>1. CASE Did(k, Do("role", r, NULL))
    BY <1>1, <2>1 DEF AccessDone, Effect
  <2>2. CASE Do("role", r, NULL) = d
    BY <1>1, <2>2 DEF Do, Effect
  <2> QED BY <1>1, <1>4, <2>1, <2>2
<1>5. ASSUME NEW p \in PERMISSIONS, Did(k + 1, Do("permission", p, NULL))' PROVE p \in permissions'
  <2>1. CASE Did(k, Do("permission", p, NULL))
    <3>1. p \in permissions /\ p \notin seed.obsolete
      BY SMTT(30), <2>1 DEF AccessDone
    <3> QED BY <1>1, <3>1 DEF Effect
  <2>2. CASE Do("permission", p, NULL) = d
    BY <1>1, <2>2 DEF Do, Effect
  <2> QED BY SMTT(30), <1>1, <1>5, <2>1, <2>2
<1>6. ASSUME NEW r \in Roles, NEW p \in ROLE_PERMISSION_MAP[r], Did(k + 1, Do("grant", r, p))' PROVE <<r, p>> \in grants'
  <2>1. CASE Did(k, Do("grant", r, p))
    <3>1. PICK g : g = <<r, p>> /\ g[1] = r /\ g[2] = p
      BY ZenonT(30), PairParts
    <3>2. g \in grants /\ p \notin seed.obsolete
      BY <2>1, <3>1, SeedTypes DEF AccessDone
    <3>3. CASE d.op \in {"dropGrants", "dropPermissions"}
      BY <1>1, <3>1, <3>2, <3>3 DEF Effect
    <3>4. CASE d.op = "prune"
      BY <1>1, <3>1, <3>2, <3>4 DEF Effect
    <3>5. CASE d.op \notin {"dropGrants", "dropPermissions", "prune"}
      BY SMTT(30), <1>1, <3>1, <3>2, <3>5 DEF Effect
    <3> QED BY <3>3, <3>4, <3>5
  <2>2. CASE Do("grant", r, p) = d
    BY <1>1, <2>2 DEF Do, Effect
  <2> QED BY <1>1, <1>6, <2>1, <2>2
<1>7. ASSUME NEW r \in Roles, Did(k + 1, Do("prune", r, NULL))'
      PROVE  /\ seed'.prunedAt[r] \in Nat /\ seed'.prunedAt[r] <= now'
             /\ \A p \in Permissions \ ROLE_PERMISSION_MAP[r] :
                   <<r, p>> \in grants' => heldSince'[<<r, p>>] >= seed'.prunedAt[r]
  <2>1. CASE d.op = "prune" /\ d.x = r
    <3>1. seed'.prunedAt[r] = now
      BY <1>1, <2>1 DEF Effect
    <3>2. ASSUME NEW p \in Permissions \ ROLE_PERMISSION_MAP[r] PROVE <<r, p>> \notin grants'
      <4>1. PICK g : g = <<r, p>> /\ g[1] = r /\ g[2] = p
        BY ZenonT(30), PairParts
      <4> QED BY <1>1, <2>1, <4>1 DEF Effect
    <3>3. now <= now
      BY <1>0
    <3> QED BY <1>0, <3>1, <3>2, <3>3
  <2>2. CASE ~(d.op = "prune" /\ d.x = r)
    <3>1. Do("prune", r, NULL) # d
      BY <2>2 DEF Do
    <3>2. Did(k, Do("prune", r, NULL))
      BY <1>1, <1>7, <3>1
    <3>3. PICK t \in Nat : t = seed.prunedAt[r] /\ t <= now /\ \A p \in Permissions \ ROLE_PERMISSION_MAP[r] :
                <<r, p>> \in grants => heldSince[<<r, p>>] >= t
      BY <3>2 DEF AccessDone
    <3>4. seed'.prunedAt[r] = t
      BY <1>1, <2>2, <3>3 DEF Effect
    <3>5. ASSUME NEW p \in Permissions \ ROLE_PERMISSION_MAP[r] PROVE <<r, p>> \in grants' => heldSince'[<<r, p>>] >= t
      <4>1. PICK pair \in Pairs : pair = <<r, p>>
        BY DEF Pairs
      <4> QED BY <3>3, <4>1, HeldLater
    <3> QED BY <3>3, <3>4, <3>5
  <2> QED BY <2>1, <2>2
<1> QED BY <1>2, <1>3, <1>4, <1>5, <1>6, <1>7 DEF AccessDone

\* A statement keeps what is done of users.
LEMMA UsersDoneStep ==
    ASSUME SeedInv, UserInv, NEW k \in Nat, Remaining(k), Executes, busy' = busy, UsersDone(k)
    PROVE  UsersDone(k + 1)'
<1>1. PICK d \in Statements : /\ d = Script[k + 1] /\ Sound(d) /\ Effect(d)
                              /\ \A e : Did(k + 1, e)' => Did(k, e) \/ e = d
                              /\ \A op, u : LastIs(k + 1, op, u)' <=> d.op = op /\ d.x = u
  BY NextStatement
<1>2. k + 1 \in 1..Len(Script) /\ Script \in Scripts
  BY NextStatement, TheScript
<1>3. ASSUME NEW u \in Users
      PROVE  /\ Did(k + 1, Do("user", u, NULL))' => users'[u].exists
             /\ Did(k + 1, Do("clearRoles", u, NULL))' => users'[u].roles \subseteq {u}
             /\ Did(k + 1, Do("giveRoles", u, NULL))' => u \in users'[u].roles \/ LastIs(k + 1, "clearRoles", u)'
  <2>0. /\ Did(k, Do("user", u, NULL)) => users[u].exists
        /\ Did(k, Do("clearRoles", u, NULL)) => users[u].roles \subseteq {u}
        /\ Did(k, Do("giveRoles", u, NULL)) => u \in users[u].roles \/ LastIs(k, "clearRoles", u)
    BY DEF UsersDone
  <2>d. /\ d = Do("user", u, NULL) => d.op = "user" /\ d.x = u
        /\ d = Do("clearRoles", u, NULL) => d.op = "clearRoles" /\ d.x = u
        /\ d = Do("giveRoles", u, NULL) => d.op = "giveRoles" /\ d.x = u
    BY DEF Do
  <2>n. LastIs(k, "clearRoles", u) => d.op = "giveRoles" /\ d.x = u
    <3>1. HAVE LastIs(k, "clearRoles", u)
    <3>2. k \in 1..Len(Script) /\ Script[k].op = "clearRoles" /\ Script[k].x = u
      BY <1>2, <3>1 DEF LastIs, Scripts
    <3>3. HasNext(Script[k]) /\ After(Script[k], Script[k + 1])
      BY <1>2, <3>2 DEF Scripts, HasNext
    <3> QED BY <1>1, <3>2, <3>3 DEF After
  <2>1. CASE d.op = "user"
    <3>1. users' = [users EXCEPT ![d.x].exists = TRUE]
      BY <1>1, <2>1 DEF Effect
    <3>2. users'[u].roles = users[u].roles
      BY <3>1 DEF UserInv, UserRows
    <3>3. users'[u].exists = IF d.x = u THEN TRUE ELSE users[u].exists
      BY <3>1 DEF UserInv, UserRows
    <3> QED BY <1>1, <2>0, <2>1, <2>d, <2>n, <3>2, <3>3
  <2>2. CASE d.op = "clearRoles"
    <3>1. users' = [users EXCEPT ![d.x].roles = {}]
      BY <1>1, <2>2 DEF Effect
    <3>2. users'[u].exists = users[u].exists
      BY <3>1 DEF UserInv, UserRows
    <3>3. users'[u].roles = IF d.x = u THEN {} ELSE users[u].roles
      BY <3>1 DEF UserInv, UserRows
    <3>4. LastIs(k + 1, "clearRoles", u)' <=> d.x = u
      BY <1>1, <2>2
    <3> QED BY <1>1, <2>0, <2>2, <2>d, <2>n, <3>2, <3>3, <3>4
  <2>3. CASE d.op = "giveRoles"
    <3>1. users' = [users EXCEPT ![d.x].roles = @ \union {d.x}]
      BY <1>1, <2>3 DEF Effect
    <3>2. users'[u].exists = users[u].exists
      BY <3>1 DEF UserInv, UserRows
    <3>3. users'[u].roles = IF d.x = u THEN users[u].roles \union {u} ELSE users[u].roles
      BY <3>1 DEF UserInv, UserRows
    <3> QED BY <1>1, <2>0, <2>3, <2>d, <2>n, <3>2, <3>3
  <2>4. CASE d.op \in {"clearAddresses", "address"}
    <3>1. PICK b : users' = [users EXCEPT ![d.x].addresses = b]
      BY <1>1, <2>4 DEF Effect
    <3>2. users'[u].exists = users[u].exists /\ users'[u].roles = users[u].roles
      BY <3>1 DEF UserInv, UserRows
    <3> QED BY <1>1, <2>0, <2>4, <2>d, <2>n, <3>2
  <2>5. CASE d.op \notin {"user", "clearRoles", "giveRoles", "clearAddresses", "address"}
    <3>1. users' = users
      BY <1>1, <2>5 DEF Effect
    <3> QED BY <1>1, <2>0, <2>5, <2>d, <2>n, <3>1
  <2> QED BY <2>1, <2>2, <2>3, <2>4, <2>5
<1> QED BY <1>3 DEF UsersDone

\* A statement keeps what is done of addresses.
LEMMA AddressesDoneStep ==
    ASSUME SeedInv, UserInv, NEW k \in Nat, Remaining(k), Executes, busy' = busy, AddressesDone(k)
    PROVE  AddressesDone(k + 1)'
<1>1. PICK d \in Statements : /\ d = Script[k + 1] /\ Sound(d) /\ Effect(d)
                              /\ \A e : Did(k + 1, e)' => Did(k, e) \/ e = d
                              /\ \A op, u : LastIs(k + 1, op, u)' <=> d.op = op /\ d.x = u
                              /\ Script'[k + 1] = d
  BY NextStatement
<1>2. k + 1 \in 1..Len(Script) /\ Script \in Scripts
  BY NextStatement, TheScript
\* An address comes after the one before it, or after all of them were deleted.
<1>3. d.op = "address" =>
         /\ k # 0 /\ k \in 1..Len(Script) /\ Script[k].x = d.x /\ d.y \in 1..4
         /\ \/ Script[k].op = "clearAddresses" /\ d.y = 1
            \/ Script[k].op = "address" /\ d.y = Script[k].y + 1
  <2>1. HAVE d.op = "address"
  <2>2. HasPrevious(d) /\ d.y \in 1..4
    BY <1>1, <2>1 DEF HasPrevious, Sound
  <2>3. k + 1 - 1 \in 1..Len(Script) /\ After(Script[k + 1 - 1], Script[k + 1])
    BY <1>1, <1>2, <2>2 DEF Scripts
  <2>4. k + 1 - 1 = k
    OBVIOUS
  <2>5. k \in 1..Len(Script) /\ After(Script[k], d)
    BY <1>1, <2>3, <2>4
  <2> QED BY <2>1, <2>2, <2>5 DEF After
\* Otherwise the last one was the last address, or of something else.
<1>4. ASSUME NEW u \in Users, d.op # "address"
      PROVE  /\ ~LastIs(k, "clearAddresses", u)
             /\ LastIs(k, "address", u) => Script[k].y = 4
  <2>1. CASE LastIs(k, "clearAddresses", u)
    <3>1. k \in 1..Len(Script) /\ Script[k].op = "clearAddresses"
      BY <1>2, <2>1 DEF LastIs, Scripts
    <3>2. After(Script[k], Script[k + 1])
      BY <1>2, <3>1 DEF Scripts, HasNext
    <3> QED BY <1>1, <1>4, <3>1, <3>2 DEF After
  <2>2. CASE LastIs(k, "address", u)
    <3>1. k \in 1..Len(Script) /\ Script[k].op = "address"
      BY <1>2, <2>2 DEF LastIs, Scripts
    <3>2. Script[k].y # 4 => After(Script[k], Script[k + 1])
      BY SMTT(30), <1>2, <3>1 DEF Scripts, HasNext
    <3> QED BY <1>1, <1>4, <3>1, <3>2 DEF After, LastIs
  <2> QED BY <2>1, <2>2
<1>5. d.op \in {"clearAddresses", "address"} => seed'.count \in 2..4
  BY <1>1, <1>3 DEF Effect, AddressesDone
<1>6. ASSUME NEW u \in Users, Did(k + 1, Do("clearAddresses", u, NULL))'
      PROVE  LET a == users'[u].addresses IN
             /\ \A i \in 1..Len(a) : a[i] <=> i = 1
             /\ d.op = "clearAddresses" /\ d.x = u => Len(a) = 0
             /\ d.op = "address" /\ d.x = u => Len(a) = IF d.y <= seed'.count THEN d.y ELSE seed'.count
             /\ ~(d.op = "clearAddresses" /\ d.x = u) /\ ~(d.op = "address" /\ d.x = u) => Len(a) \in 2..4
  <2>1. CASE d.op = "clearAddresses" /\ d.x = u
    <3>1. users' = [users EXCEPT ![u].addresses = << >>]
      BY <1>1, <2>1 DEF Effect
    <3>2. users'[u].addresses = << >>
      BY <3>1 DEF UserInv, UserRows
    <3>3. \A a : a = << >> => Len(a) = 0 /\ \A i \in 1..Len(a) : FALSE
      OBVIOUS
    <3> QED BY <2>1, <3>2, <3>3
  <2>2. CASE ~(d.op = "clearAddresses" /\ d.x = u)
    <3>1. Did(k, Do("clearAddresses", u, NULL))
      <4>1. Do("clearAddresses", u, NULL) # d
        BY <2>2 DEF Do
      <4> QED BY <1>1, <1>6, <4>1
    <3>2. PICK a \in Seq(BOOLEAN) : a = users[u].addresses
      BY DEF UserInv, UserRows
    <3>3. /\ \A i \in 1..Len(a) : a[i] <=> i = 1
          /\ LastIs(k, "clearAddresses", u) => Len(a) = 0
          /\ LastIs(k, "address", u) => Len(a) = IF Script[k].y <= seed.count THEN Script[k].y ELSE seed.count
          /\ ~LastIs(k, "clearAddresses", u) /\ ~LastIs(k, "address", u) => Len(a) \in 2..4
      BY <3>1, <3>2 DEF AddressesDone
    <3>4. CASE d.op = "address" /\ d.x = u
      <4>1. k # 0 /\ Script[k].op \in {"clearAddresses", "address"} /\ Script[k].x = u
        BY <1>3, <3>4
      <4>2. PICK c \in 2..4 : c = seed.count /\ c = seed'.count
        BY <1>1, <3>4, <4>1 DEF AddressesDone, Effect
      <4>3. PICK y \in 1..4 : y = d.y /\ Len(a) = IF y - 1 <= c THEN y - 1 ELSE c
        <5>1. CASE Script[k].op = "clearAddresses"
          <6>1. d.y = 1 /\ Len(a) = 0 /\ 1 - 1 <= c /\ 1 - 1 = 0 /\ 1 \in 1..4
            BY <1>3, <3>3, <3>4, <4>1, <5>1 DEF LastIs
          <6> QED BY <6>1
        <5>2. CASE Script[k].op = "address"
          <6>1. PICK y \in 1..4 : y = d.y /\ d.y = Script[k].y + 1
            BY <1>3, <3>4, <5>2
          <6>2. Script[k].y = y - 1
            <7>1. Script[k].y \in 1..4
              <8>1. k \in 1..Len(Script)
                BY <1>3, <3>4
              <8>2. Sound(Script[k])
                BY <1>2, <8>1 DEF Scripts
              <8> QED BY <5>2, <8>2 DEF Sound
            <7> QED BY <6>1, <7>1
          <6>3. Len(a) = IF y - 1 <= c THEN y - 1 ELSE c
            BY <3>3, <4>1, <4>2, <5>2, <6>2 DEF LastIs
          <6> QED BY <6>1, <6>3
        <5> QED BY <4>1, <5>1, <5>2
      <4>4. users' = [users EXCEPT ![u].addresses = IF y <= c THEN Append(a, y = 1) ELSE a]
        BY <1>1, <3>2, <3>4, <4>2, <4>3 DEF Effect
      <4>5. PICK b : b = IF y <= c THEN Append(a, y = 1) ELSE a
        OBVIOUS
      <4>6. users'[u].addresses = b
        BY <4>4, <4>5 DEF UserInv, UserRows
      <4>7. Len(b) = (IF y <= c THEN y ELSE c) /\ \A i \in 1..Len(b) : b[i] <=> i = 1
        <5>1. CASE y <= c
          <6>1. PICK n \in Nat : n = Len(a) /\ n = y - 1
            BY <4>2, <4>3, <5>1
          <6>2. PICK f \in BOOLEAN : f = (y = 1)
            OBVIOUS
          <6>3. b = Append(a, f)
            BY <4>5, <5>1, <6>2
          <6>4. Len(b) = n + 1 /\ b[n + 1] = f /\ \A i \in 1..n : b[i] = a[i]
            <7>1. Len(Append(a, f)) = Len(a) + 1 /\ Append(a, f)[Len(a) + 1] = f
                  /\ \A i \in 1..Len(a) : Append(a, f)[i] = a[i]
              BY ZenonT(60), Appended
            <7> QED BY <6>1, <6>3, <7>1, Zenon
          <6>5. n + 1 = y
            BY <6>1, <4>3
          <6>6. ASSUME NEW i \in 1..n + 1 PROVE b[i] <=> i = 1
            <7>1. CASE i = n + 1
              BY <7>1, <6>2, <6>4, <6>5
            <7>2. CASE i # n + 1
              <8>1. i \in 1..n
                BY <7>2
              <8> QED BY <8>1, <3>3, <6>1, <6>4
            <7> QED BY <7>1, <7>2
          <6> QED BY <5>1, <6>4, <6>5, <6>6
        <5>2. CASE ~(y <= c)
          <6>1. b = a /\ y - 1 <= c => y - 1 = c
            BY <4>2, <4>3, <4>5, <5>2
          <6> QED BY <3>3, <4>2, <4>3, <4>5, <5>2
        <5> QED BY <5>1, <5>2
      <4> QED BY <3>4, <4>2, <4>3, <4>6, <4>7
    <3>5. CASE ~(d.op = "address" /\ d.x = u)
      <4>1. ~LastIs(k, "clearAddresses", u) /\ (LastIs(k, "address", u) => Script[k].y = 4)
        <5>1. CASE d.op # "address"
          BY <1>4, <5>1
        <5>2. CASE d.op = "address"
          <6>1. Script[k].x # u
            BY <1>3, <3>5, <5>2
          <6> QED BY <6>1 DEF LastIs
        <5> QED BY <5>1, <5>2
      <4>2. Len(a) \in 2..4
        <5>1. CASE LastIs(k, "address", u)
          <6>1. PICK c \in 2..4 : c = seed.count
            BY <5>1 DEF AddressesDone, LastIs
          <6>2. Len(a) = IF 4 <= c THEN 4 ELSE c
            BY <3>3, <4>1, <5>1, <6>1
          <6> QED BY <6>1, <6>2
        <5>2. CASE ~LastIs(k, "address", u)
          BY <3>3, <4>1, <5>2
        <5> QED BY <5>1, <5>2
      <4>3. users'[u].addresses = a
        <5>1. CASE d.op \in {"clearAddresses", "address"}
          <6>1. PICK b : users' = [users EXCEPT ![d.x].addresses = b]
            BY <1>1, <5>1 DEF Effect
          <6>2. d.x # u
            BY <2>2, <3>5, <5>1
          <6> QED BY <3>2, <6>1, <6>2 DEF UserInv
        <5>2. CASE d.op = "user"
          <6>1. users' = [users EXCEPT ![d.x].exists = TRUE]
            BY <1>1, <5>2 DEF Effect
          <6> QED BY <3>2, <6>1 DEF UserInv, UserRows
        <5>3. CASE d.op = "clearRoles"
          <6>1. users' = [users EXCEPT ![d.x].roles = {}]
            BY <1>1, <5>3 DEF Effect
          <6> QED BY <3>2, <6>1 DEF UserInv, UserRows
        <5>4. CASE d.op = "giveRoles"
          <6>1. users' = [users EXCEPT ![d.x].roles = @ \union {d.x}]
            BY <1>1, <5>4 DEF Effect
          <6> QED BY <3>2, <6>1 DEF UserInv, UserRows
        <5>5. CASE d.op \notin {"user", "clearRoles", "giveRoles", "clearAddresses", "address"}
          BY <1>1, <3>2, <5>5 DEF Effect
        <5> QED BY <5>1, <5>2, <5>3, <5>4, <5>5
      <4> QED BY <2>2, <3>3, <3>5, <4>2, <4>3
    <3> QED BY <3>4, <3>5
  <2> QED BY <2>1, <2>2
<1> QED BY <1>1, <1>5, <1>6 DEF AddressesDone

\* Whoever holds something from before a time, in the next state, did so before.
NoneOlder == \A pair \in Pairs, t \in Nat :
    t <= now /\ (pair \in grants => heldSince[pair] >= t) => (pair \in grants' => heldSince'[pair] >= t)

\* What the API does to the tables and to what is kept about them.
LEMMA ApiSteps ==
    ASSUME HeldInv, TablesInv, AccessStep, KeepBooks
    PROVE  /\ roles' = roles /\ permissions' = permissions /\ users' = users
           /\ grants \subseteq grants' /\ grants' \subseteq roles \X permissions
           /\ now' \in {now, now + 1} /\ NoneOlder
<1>1. roles' = roles /\ permissions' = permissions /\ users' = users /\ grants \subseteq grants' /\ grants' \subseteq roles \X permissions
  <2>1. CASE \E g \in Guards : Ask(g) \/ GetRoleIds(g) \/ GetCached(g) \/ GetByRoleId(g) \/ SetCached(g) \/ Decide(g)
    BY ZenonT(30), <2>1 DEF TablesInv, accessTables, Ask, GetRoleIds, GetCached, GetByRoleId, SetCached, Decide
  <2>2. CASE \E q \in Grantors : CheckGrant(q)
    BY <2>2 DEF TablesInv, accessTables, CheckGrant
  <2>3. CASE \E q \in Grantors : CreateRolePermission(q)
    <3>1. PICK a, b : /\ grants' = IF a \in roles /\ b \in permissions THEN grants \union {<<a, b>>} ELSE grants
                      /\ roles' = roles /\ permissions' = permissions /\ users' = users
      <4>1. PICK q \in Grantors : CreateRolePermission(q)
        BY <2>3
      <4>2. <<grantor[q].role, grantor[q].code>>[1] = grantor[q].role /\ <<grantor[q].role, grantor[q].code>>[2] = grantor[q].code
        OBVIOUS
      <4> QED BY <4>1, <4>2 DEF CreateRolePermission
    <3> QED BY <3>1 DEF TablesInv
  <2>4. CASE Tick
    BY <2>4 DEF TablesInv, accessTables, Tick
  <2> QED BY SMTT(30), <2>1, <2>2, <2>3, <2>4 DEF AccessStep
<1>2. now' \in {now, now + 1}
  <2>1. CASE \E g \in Guards : Ask(g) \/ GetRoleIds(g) \/ GetCached(g) \/ GetByRoleId(g) \/ SetCached(g) \/ Decide(g)
    BY ZenonT(30), <2>1 DEF Ask, GetRoleIds, GetCached, GetByRoleId, SetCached, Decide
  <2>2. CASE (\E q \in Grantors : CheckGrant(q) \/ CreateRolePermission(q)) \/ Tick
    BY <2>2 DEF CheckGrant, CreateRolePermission, Tick
  <2> QED BY <2>1, <2>2 DEF AccessStep
<1>3. NoneOlder
  BY HeldLater DEF NoneOlder
<1> QED BY <1>1, <1>2, <1>3

\* A step that leaves the process alone, and of the tables all but what is granted
\* anew, keeps what is done.
LEMMA Undisturbed ==
    ASSUME busy' = busy, seed' = seed, roles' = roles, permissions' = permissions, users' = users,
           grants \subseteq grants', now \in Nat, now' \in {now, now + 1}, NoneOlder,
           ProgressInv
    PROVE  ProgressInv'
<1>1. PICK s : s = Script /\ Script' = s
  BY ScriptStays
<1>2. \A k, e : Did(k, e)' <=> Did(k, e)
  BY <1>1 DEF Did
<1>3. ASSUME NEW k \in Nat, Remaining(k), AccessDone(k), UsersDone(k), AddressesDone(k)
      PROVE  (Remaining(k) /\ AccessDone(k) /\ UsersDone(k) /\ AddressesDone(k))'
  <2>1. Remaining(k)'
    BY <1>1, <1>3 DEF Remaining
  <2>2. \A op, u : LastIs(k, op, u)' <=> LastIs(k, op, u)
    BY <1>1 DEF LastIs
  <2>3. AccessDone(k)'
    <3>1. ASSUME NEW r \in Roles, Did(k, Do("prune", r, NULL))
          PROVE  /\ seed'.prunedAt[r] \in Nat /\ seed'.prunedAt[r] <= now'
                 /\ \A p \in Permissions \ ROLE_PERMISSION_MAP[r] :
                       <<r, p>> \in grants' => heldSince'[<<r, p>>] >= seed'.prunedAt[r]
      <4>1. PICK t \in Nat : t = seed.prunedAt[r] /\ t <= now /\ \A p \in Permissions \ ROLE_PERMISSION_MAP[r] :
                  <<r, p>> \in grants => heldSince[<<r, p>>] >= t
        BY <1>3, <3>1 DEF AccessDone
      <4>2. ASSUME NEW p \in Permissions \ ROLE_PERMISSION_MAP[r] PROVE <<r, p>> \in grants' => heldSince'[<<r, p>>] >= t
        <5>1. PICK pair \in Pairs : pair = <<r, p>>
          BY DEF Pairs
        <5>2. pair \in grants => heldSince[pair] >= t
          BY <4>1, <5>1
        <5> QED BY <4>1, <5>1, <5>2 DEF NoneOlder
      <4>3. t <= now'
        BY <4>1
      <4> QED BY <4>1, <4>2, <4>3
    <3>2. /\ \A r \in Roles : Did(k, Do("role", r, NULL)) => r \in roles'
          /\ \A p \in PERMISSIONS : Did(k, Do("permission", p, NULL)) => p \in permissions'
          /\ \A r \in Roles : \A p \in ROLE_PERMISSION_MAP[r] : Did(k, Do("grant", r, p)) => <<r, p>> \in grants'
      BY <1>3 DEF AccessDone
    <3> QED BY <1>2, <3>1, <3>2 DEF AccessDone
  <2>4. UsersDone(k)'
    BY <1>2, <1>3, <2>2 DEF UsersDone
  <2>5. AddressesDone(k)'
    BY <1>1, <1>2, <1>3, <2>2 DEF AddressesDone
  <2> QED BY <2>1, <2>3, <2>4, <2>5
<1> QED BY <1>3 DEF ProgressInv

\* A run begins with all of the script in front of it.
LEMMA ProgressBegins ==
    ASSUME Starts, busy' = busy
    PROVE  ProgressInv'
<1>1. PICK s \in Scripts : s = Script /\ Script' = s
  BY TheScript, ScriptStays
<1>2. PICK n \in Nat : n = Len(s)
  BY <1>1 DEF Scripts
<1>3. seed'.on /\ seed'.todo = s /\ seed'.obsolete = {} /\ seed'.prunedAt = [r \in Roles |-> 0]
  BY <1>1 DEF Starts, NoRun
<1>4. Remaining(0)'
  BY <1>1, <1>2, <1>3 DEF Remaining
<1>5. (AccessDone(0) /\ UsersDone(0) /\ AddressesDone(0))'
  <2>1. \A e : ~Did(0, e)'
    BY DEF Did
  <2> QED BY <2>1 DEF AccessDone, UsersDone, AddressesDone
<1> QED BY <1>3, <1>4, <1>5 DEF ProgressInv

\* What the proofs about runs rest on.
ConvergeInv == AccessInv /\ TablesInv /\ ProgressInv

\* Nothing is granted and no run is on at first ...
LEMMA ConvergeStarts == Init => ConvergeInv
<1> SUFFICES ASSUME Init PROVE TablesInv /\ ProgressInv
  BY AccessStarts DEF ConvergeInv
<1>1. TablesInv
  BY SeedConstants DEF Init, TablesInv, NoUser
<1>2. ProgressInv
  BY DEF Init, ProgressInv, NoRun
<1> QED BY <1>1, <1>2

\* ... and every step keeps what is done.
LEMMA ConvergeKeeps == ConvergeInv /\ [Next]_seedVars => ConvergeInv'
<1> SUFFICES ASSUME AccessInv, TablesInv, ProgressInv, [Next]_seedVars PROVE TablesInv' /\ ProgressInv'
  BY AccessKeeps DEF ConvergeInv
<1>0. SeedInv /\ UserInv /\ HeldInv /\ now \in Nat /\ seed = [f \in SeedFields |-> seed[f]]
  BY DEF AccessInv, HeldInv, SeedInv
<1>1. CASE SeedStep /\ KeepBooks /\ busy' = busy
  <2>1. now' = now
    BY <1>0, <1>1, SeedSteps DEF accessRest
  <2>n. NoneOlder
    BY <1>0, <1>1, HeldLater DEF NoneOlder
  <2>2. CASE Executes
    <3>1. seed.on /\ seed'.on
      BY <2>2 DEF Executes, ProgressInv
    <3>2. PICK k \in Nat : Remaining(k) /\ AccessDone(k) /\ UsersDone(k) /\ AddressesDone(k)
      BY <3>1 DEF ProgressInv
    <3>3. TablesInv' /\ UsersDone(k + 1)' /\ AddressesDone(k + 1)' /\ Remaining(k + 1)'
      BY <1>0, <1>1, <2>2, <3>2, TablesStep, UsersDoneStep, AddressesDoneStep, NextStatement
    <3>4. /\ AccessDone(k + 1)' /\ seed'.prunedAt \in [Roles -> Nat]
          /\ seed'.obsolete \intersect PERMISSIONS = {}
      BY <1>0, <1>1, <2>1, <2>2, <3>2, AccessDoneStep DEF ProgressInv
    <3>5. k + 1 \in Nat
      OBVIOUS
    <3> QED BY <3>1, <3>3, <3>4, <3>5 DEF ProgressInv
  <2>3. CASE Starts
    <3>1. ProgressInv'
      BY <1>1, <2>3, ProgressBegins
    <3> QED BY <2>3, <3>1 DEF Starts, TablesInv, accessTables
  <2>4. CASE Ends
    <3>1. seed'.on = FALSE /\ seed'.todo = << >> /\ seed'.obsolete = {} /\ seed'.prunedAt = [r \in Roles |-> 0]
      BY <2>4 DEF Ends, NoRun
    <3> QED BY <2>4, <3>1 DEF Ends, TablesInv, ProgressInv, accessTables
  <2>5. CASE Pauses
    <3>1. ProgressInv'
      BY <1>0, <1>1, <2>1, <2>n, <2>5, Undisturbed DEF Pauses, accessTables
    <3> QED BY <2>5, <3>1 DEF Pauses, TablesInv, accessTables
  <2> QED BY <1>0, <1>1, <2>2, <2>3, <2>4, <2>5, SeedSteps
<1>2. CASE AccessStep /\ KeepBooks /\ seed' = seed /\ busy' = busy
  <2>1. /\ roles' = roles /\ permissions' = permissions /\ users' = users
        /\ grants \subseteq grants' /\ grants' \subseteq roles \X permissions
        /\ now' \in {now, now + 1} /\ NoneOlder
    BY <1>0, <1>2, ApiSteps
  <2>2. ProgressInv'
    BY <1>0, <1>2, <2>1, Undisturbed
  <2> QED BY <2>1, <2>2 DEF TablesInv
<1>3. CASE UNCHANGED seedVars
  <2>1. /\ seed' = seed /\ users' = users /\ now' = now /\ grants' = grants /\ roles' = roles
        /\ permissions' = permissions /\ heldSince' = heldSince /\ busy' = busy
    BY <1>3 DEF seedVars, accessVars, accessTables, accessRest
  <2>2. NoneOlder
    BY <2>1 DEF NoneOlder
  <2>3. ProgressInv'
    BY <1>0, <2>1, <2>2, Undisturbed
  <2> QED BY <2>1, <2>3 DEF TablesInv
<1> QED BY <1>1, <1>2, <1>3 DEF Next

\* How far a run is, and what is done by then, is right in every state.
THEOREM RunsMakeProgress == Spec => []ConvergeInv
<1> QED BY ConvergeStarts, ConvergeKeeps, PTL DEF Spec

\* When nothing is left to do everything was done, and the last statement was none
\* that is followed by another.
LEMMA AllDone ==
    ASSUME ConvergeInv, Done
    PROVE  \E k \in Nat :
              /\ AccessDone(k) /\ UsersDone(k) /\ AddressesDone(k)
              /\ \A d : Says(Script, d) => Did(k, d)
              /\ \A u : ~LastIs(k, "clearRoles", u) /\ ~LastIs(k, "clearAddresses", u)
              /\ \A u : LastIs(k, "address", u) => Script[k].y = 4
<1>1. PICK k \in Nat : Remaining(k) /\ AccessDone(k) /\ UsersDone(k) /\ AddressesDone(k)
  BY DEF ConvergeInv, ProgressInv, Done
<1>2. Len(seed.todo) = 0
  <2>1. \A z : z = << >> => Len(z) = 0
    OBVIOUS
  <2> QED BY <2>1 DEF Done
<1>3. PICK s \in Scripts : s = Script
  BY TheScript
<1>4. PICK n \in Nat : n = Len(s)
  BY DEF Scripts
<1>5. k = n
  BY <1>1, <1>2, <1>3, <1>4 DEF Remaining
<1>6. \A d : Says(Script, d) => Did(k, d)
  BY <1>3, <1>4, <1>5 DEF Says, Did
<1>7. k # 0 => ~HasNext(Script[k])
  <2>1. k # 0 => k \in 1..n /\ k + 1 \notin 1..n
    BY <1>5
  <2> QED BY <2>1, <1>3, <1>4 DEF Scripts
<1>8. /\ \A u : ~LastIs(k, "clearRoles", u) /\ ~LastIs(k, "clearAddresses", u)
      /\ \A u : LastIs(k, "address", u) => Script[k].y = 4
  BY <1>7 DEF LastIs, HasNext
<1> QED BY <1>1, <1>6, <1>8

\* A list of which the first is the only one that is so has one that is so.
LEMMA OneFirst ==
    ASSUME NEW a \in Seq(BOOLEAN), Len(a) \in 2..4, \A i \in 1..Len(a) : a[i] <=> i = 1
    PROVE  Cardinality({i \in DOMAIN a : a[i]}) = 1
<1>1. DOMAIN a = 1..Len(a)
  OBVIOUS
<1>2. 1 \in 1..Len(a)
  BY SMTT(30)
<1>3. {i \in DOMAIN a : a[i]} = {1}
  BY <1>1, <1>2
<1> QED BY <1>3, FS_Singleton

\* A run that got to its end left the access tables as the seed means them, whatever
\* killed runs and the API had left there (seedAccessControl, upsertUserWithRoles,
\* seedAddressesForUser).
THEOREM RunsConverge == Spec => []AccessConverges
<1>1. ConvergeInv => AccessConverges
  <2> SUFFICES ASSUME ConvergeInv, Done PROVE
        /\ PERMISSIONS \subseteq permissions
        /\ \A r \in Roles, p \in permissions :
              /\ p \in ROLE_PERMISSION_MAP[r] => <<r, p>> \in grants
              /\ <<r, p>> \in grants /\ p \notin ROLE_PERMISSION_MAP[r]
                     => heldSince[<<r, p>>] >= seed.prunedAt[r]
        /\ \A u \in Users :
              /\ users[u].exists /\ users[u].roles = {u}
              /\ busy \/ Len(users[u].addresses) \in 2..4
              /\ busy \/ Cardinality({i \in DOMAIN users[u].addresses : users[u].addresses[i]}) = 1
    BY DEF AccessConverges
  <2>1. PICK k \in Nat :
              /\ AccessDone(k) /\ UsersDone(k) /\ AddressesDone(k)
              /\ \A d : Says(Script, d) => Did(k, d)
              /\ \A u : ~LastIs(k, "clearRoles", u) /\ ~LastIs(k, "clearAddresses", u)
              /\ \A u : LastIs(k, "address", u) => Script[k].y = 4
    BY AllDone
  <2>2. AllSaid(Script) /\ (~busy => \A u \in Users : Says(Script, Do("clearAddresses", u, NULL)))
    BY TheScript
  <2>3. PERMISSIONS \subseteq permissions
    BY <2>1, <2>2 DEF AllSaid, AccessDone
  <2>4. ASSUME NEW r \in Roles, NEW p \in permissions
        PROVE  /\ p \in ROLE_PERMISSION_MAP[r] => <<r, p>> \in grants
               /\ <<r, p>> \in grants /\ p \notin ROLE_PERMISSION_MAP[r]
                      => heldSince[<<r, p>>] >= seed.prunedAt[r]
    <3>1. p \in Permissions
      BY DEF ConvergeInv, TablesInv
    <3> QED BY <2>1, <2>2, <3>1 DEF AllSaid, AccessDone
  <2>5. ASSUME NEW u \in Users PROVE users[u].exists /\ users[u].roles = {u}
    <3>1. users[u].exists /\ users[u].roles \subseteq {u} /\ u \in users[u].roles
      BY <2>1, <2>2 DEF AllSaid, UsersDone
    <3> QED BY <3>1
  <2>6. ASSUME NEW u \in Users, ~busy
        PROVE  /\ Len(users[u].addresses) \in 2..4
               /\ Cardinality({i \in DOMAIN users[u].addresses : users[u].addresses[i]}) = 1
    <3>1. PICK a \in Seq(BOOLEAN) : a = users[u].addresses
      BY DEF ConvergeInv, AccessInv, UserInv, UserRows
    <3>2. /\ \A i \in 1..Len(a) : a[i] <=> i = 1
          /\ LastIs(k, "address", u) => Len(a) = IF Script[k].y <= seed.count THEN Script[k].y ELSE seed.count
          /\ ~LastIs(k, "clearAddresses", u) /\ ~LastIs(k, "address", u) => Len(a) \in 2..4
      BY <2>1, <2>2, <2>6, <3>1 DEF AddressesDone
    <3>3. CASE LastIs(k, "address", u)
      <4>1. PICK c \in 2..4 : c = seed.count
        BY <2>1, <3>3 DEF AddressesDone, LastIs
      <4>2. Len(a) = IF 4 <= c THEN 4 ELSE c
        BY <2>1, <3>2, <3>3, <4>1
      <4>3. Len(a) \in 2..4
        BY <4>1, <4>2
      <4> QED BY <3>1, <3>2, <4>3, OneFirst
    <3>4. CASE ~LastIs(k, "address", u)
      BY <2>1, <3>1, <3>2, <3>4, OneFirst
    <3> QED BY <3>3, <3>4
  <2> QED BY <2>3, <2>4, <2>5, <2>6
<1> QED BY <1>1, RunsMakeProgress, PTL
=============================================================================
