------------------------------ MODULE SeedData ------------------------------
(***************************************************************************)
(* The tables of the database seed, without names and descriptions: the    *)
(* categories with their parents, and of every base book its price in      *)
(* thousands of dong, how many authors it has and where it is shelved.     *)
(***************************************************************************)
EXTENDS Naturals, Sequences

CategoryRow(slug, parent) == [slug |-> slug, parent |-> parent]

\* A top level category followed by its children.
Topic(top, children) ==
    <<CategoryRow(top, "")>> \o [i \in DOMAIN children |-> CategoryRow(children[i], top)]

Book(thousands, authors, shelves) ==
    [price |-> 1000 * thousands, authors |-> authors, shelves |-> shelves]

TechnologyCategories == Topic("technology",
    <<"programming", "software-architecture", "devops-cloud", "cybersecurity", "data-ai">>)

BusinessCategories == Topic("business-economics",
    <<"entrepreneurship", "management-leadership", "marketing-sales", "finance-investing">>)

SocietyCategories == Topic("mind-society",
    <<"psychology", "history", "philosophy", "social-issues">>)

LiteratureCategories == Topic("literature-arts",
    <<"fiction", "short-stories", "children-ya">>)

EducationCategories == Topic("education-skills",
    <<"language-learning", "productivity-learning", "communication">>)

TechnologyBooks == <<
    Book(320, 1, {"programming"}),
    Book(350, 2, {"programming"}),
    Book(380, 4, {"software-architecture", "programming"}),
    Book(360, 1, {"programming", "software-architecture"}),
    Book(340, 1, {"software-architecture"}),
    Book(420, 1, {"software-architecture", "devops-cloud"}),
    Book(450, 1, {"software-architecture", "data-ai"}),
    Book(390, 4, {"devops-cloud"}),
    Book(410, 3, {"devops-cloud"}),
    Book(430, 4, {"devops-cloud", "software-architecture"}) >>

SecurityAndDataBooks == <<
    Book(480, 2, {"cybersecurity"}),
    Book(460, 1, {"cybersecurity"}),
    Book(400, 1, {"data-ai", "programming"}),
    Book(470, 1, {"data-ai"}),
    Book(520, 3, {"data-ai"}),
    Book(550, 4, {"programming", "data-ai"}),
    Book(220, 1, {"programming"}),
    Book(420, 1, {"data-ai", "software-architecture"}),
    Book(420, 2, {"data-ai", "devops-cloud"}),
    Book(320, 1, {"software-architecture"}) >>

BusinessBooks == <<
    Book(250, 1, {"entrepreneurship", "business-economics"}),
    Book(230, 2, {"entrepreneurship"}),
    Book(260, 1, {"entrepreneurship", "management-leadership"}),
    Book(270, 1, {"management-leadership", "business-economics"}),
    Book(280, 1, {"management-leadership", "business-economics"}),
    Book(260, 1, {"management-leadership", "communication"}),
    Book(260, 1, {"marketing-sales", "entrepreneurship"}),
    Book(240, 1, {"marketing-sales", "psychology"}),
    Book(220, 1, {"marketing-sales"}) >>

FinanceBooks == <<
    Book(300, 1, {"finance-investing"}),
    Book(180, 1, {"finance-investing"}),
    Book(210, 1, {"finance-investing", "psychology"}),
    Book(290, 1, {"finance-investing"}),
    Book(320, 1, {"business-economics", "management-leadership"}) >>

SocietyBooks == <<
    Book(260, 1, {"psychology"}),
    Book(220, 1, {"psychology", "productivity-learning"}),
    Book(210, 1, {"psychology"}),
    Book(280, 1, {"psychology"}),
    Book(150, 1, {"psychology", "philosophy"}),
    Book(270, 1, {"history", "mind-society"}),
    Book(260, 1, {"history"}),
    Book(160, 1, {"philosophy"}),
    Book(170, 1, {"philosophy"}),
    Book(150, 1, {"philosophy", "management-leadership"}),
    Book(230, 1, {"social-issues", "data-ai"}) >>

LiteratureBooks == <<
    Book(150, 1, {"fiction"}),
    Book(160, 1, {"fiction"}),
    Book(130, 1, {"fiction"}),
    Book(140, 1, {"fiction"}),
    Book(180, 1, {"fiction"}),
    Book(190, 1, {"fiction"}),
    Book(170, 1, {"children-ya", "fiction"}),
    Book(170, 1, {"children-ya", "fiction"}),
    Book(100, 1, {"children-ya", "fiction"}),
    Book(160, 1, {"fiction", "literature-arts"}),
    Book(110, 1, {"fiction", "social-issues"}),
    Book(150, 1, {"fiction", "philosophy"}) >>

EducationBooks == <<
    Book(250, 3, {"productivity-learning", "education-skills"}),
    Book(230, 1, {"productivity-learning"}),
    Book(240, 1, {"productivity-learning"}),
    Book(200, 1, {"communication", "psychology"}),
    Book(250, 4, {"communication", "management-leadership"}),
    Book(240, 2, {"communication", "business-economics"}),
    Book(280, 1, {"language-learning"}),
    Book(200, 2, {"language-learning"}),
    Book(230, 1, {"language-learning"}) >>

CATEGORIES ==
    TechnologyCategories \o BusinessCategories \o SocietyCategories
        \o LiteratureCategories \o EducationCategories

BASE_BOOKS ==
    TechnologyBooks \o SecurityAndDataBooks \o BusinessBooks \o FinanceBooks
        \o SocietyBooks \o LiteratureBooks \o EducationBooks

\* Permissions by the roles that get them: the administrator gets all there are.
STAFF_PERMISSIONS == {"orders"}
WAREHOUSE_PERMISSIONS == {"imports"}
ADMIN_PERMISSIONS == {"roles"}
PERMISSIONS == STAFF_PERMISSIONS \union WAREHOUSE_PERMISSIONS \union ADMIN_PERMISSIONS

ROLE_PERMISSION_MAP ==
    [ADMIN |-> PERMISSIONS, STAFF |-> STAFF_PERMISSIONS,
     WAREHOUSE |-> WAREHOUSE_PERMISSIONS, CUSTOMER |-> {}]

\* The seeded users, one of each kind, by the only role they have.
FIXED_USERS == <<"ADMIN", "STAFF", "WAREHOUSE">>
CustomerSeedUsers == <<"CUSTOMER">>

BOOK_COUNT == 200
=============================================================================
