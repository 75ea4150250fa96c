---------------------------- MODULE MCBookshelf ----------------------------
(* A small instance of Bookshelf for TLC. *)
EXTENDS Bookshelf

\* A title that differs from the one of the first book by its marks only.
MCTitles == {<<[base |-> "w", plain |-> FALSE]>>}

Text(base) == [title |-> <<[base |-> base, plain |-> TRUE]>>, slug |-> <<base>>, fresh |-> TRUE]

Priced(isbn, price) == [isbn |-> isbn, price |-> price, active |-> TRUE]

Seeded(base, english, cats, variants) ==
    [publisher |-> "n1", authors |-> {[name |-> "n1", primary |-> TRUE]}, categories |-> cats,
     variants |-> variants, active |-> TRUE, deleted |-> FALSE, deletedAt |-> 0, pageCount |-> 0, rev |-> 0,
     texts |-> [l \in Languages |-> IF l = DefaultLanguage THEN Text(base)
                                    ELSE IF english = "" THEN NoText ELSE Text(english)]]

\* The third book has more in common with the first than the second; the second
\* has the slug in English that the first would get.
MCInitialBooks ==
    <<Seeded("w", "", {1, 2}, <<Priced("i1", 2), Priced("i2", 1)>>),
      Seeded("x", "w", {1}, <<Priced("i3", 1)>>),
      Seeded("y", "", {1, 2}, <<Priced("i4", 1)>>)>>

Category(parent, active, sort, slug) ==
    [parent |-> parent, active |-> active, sort |-> sort, slug |-> slug, languages |-> {DefaultLanguage}]

MCInitialCategories == <<Category(0, TRUE, 2, "c1"), Category(1, TRUE, 1, "c2")>>

\* One that is not active, and one under the third, if there is one, with a slug
\* that is taken.
MCCategoryBodies == {Category(1, FALSE, 0, "c2"), Category(3, TRUE, 0, "c1")}

\* One name and one ISBN twice, and one ISBN that is taken.
MCBookBodies ==
    {[publisher |-> "n2", lang |-> DefaultLanguage, title |-> <<[base |-> "w", plain |-> FALSE]>>, isbns |-> <<"i9", "i1", "i9">>,
      authors |-> <<[name |-> "n2", primary |-> FALSE], [name |-> "n2", primary |-> TRUE]>>]}

NoTitles == [l \in {} |-> << >>]

Body(active, pageCount, titles, variants) ==
    [active |-> active, pageCount |-> pageCount, titles |-> titles, variants |-> variants]

Edit(b, n, price, active) == [id |-> [book |-> b, n |-> n], price |-> price, costPrice |-> 1, active |-> active]

\* Hide; show with a new number of pages; price (of another book too) and hide a
\* variant; price below cost.
MCUpdateBodies ==
    {Body({FALSE}, {}, NoTitles, {}), Body({TRUE}, {1}, NoTitles, {}),
     Body({}, {}, [l \in {"en"} |-> <<[base |-> "w", plain |-> TRUE]>>], {Edit(1, 1, 3, {}), Edit(1, 2, 1, {FALSE})}),
     Body({}, {}, NoTitles, {Edit(1, 1, 0, {})})}
=============================================================================
