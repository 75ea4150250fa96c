------------------------------ MODULE SeedPlan ------------------------------
(***************************************************************************)
(* What the seed computes without the database: the two hundred books it   *)
(* builds, their formats, prices and ISBNs, what is to become of every     *)
(* variant, and the figures of a delivery.                                 *)
(***************************************************************************)
EXTENDS SeedData, Integers, FiniteSets, SequencesExt

\* Math.round(n / d)
Round(n, d) == (2 * n + d) \div (2 * d)

\* The rounded n / d dong, in steps of a thousand and at least that.
ToRoundedVnd(n, d) ==
    LET thousands == Round(n, 1000 * d) IN
    1000 * IF thousands < 1 THEN 1 ELSE thousands

Digit(n, place) == (n \div 10^place) % 10

\* The nine digits of the seed after 979, with weights 1 and 3 from the left.
WeightedSum(seed) ==
    9 + 3 * 7 + 9
      + FoldLeft(LAMBDA sum, i : sum + Digit(seed, 9 - i) * (IF i % 2 = 0 THEN 1 ELSE 3),
                 0, [i \in 1..9 |-> i])

Isbn13FromSeed(seed) == [body |-> seed % 10^9, check |-> (10 - (WeightedSum(seed) % 10)) % 10]

Formats == {"PAPERBACK", "HARDCOVER", "EBOOK", "AUDIOBOOK"}

IsDigital(format) == format \in {"EBOOK", "AUDIOBOOK"}

IsBookActive(index) == index % 13 # 0

\* A book that is not for sale has no format and no variant.
FormatsForBook(index) ==
    IF ~IsBookActive(index) THEN << >>
    ELSE IF index % 11 = 0 THEN <<"PAPERBACK">>
    ELSE IF index % 7 = 0 THEN <<"HARDCOVER", "AUDIOBOOK">>
    ELSE IF index % 5 = 0 THEN <<"PAPERBACK", "HARDCOVER", "EBOOK">>
    ELSE IF index % 4 = 0 THEN <<"PAPERBACK", "EBOOK">>
    ELSE IF index % 3 = 0 THEN <<"PAPERBACK", "HARDCOVER">>
    ELSE <<"PAPERBACK">>

BadgeForBook(index) ==
    LET badges == <<"BESTSELLER", "NEW", "LIMITED", "EDITION">> IN
    IF index % 10 \in 0..3 THEN badges[(index % 10) + 1] ELSE "none"

\* Later rounds through the base books are special editions, four percent dearer each.
BuildBook(index) ==
    LET base == BASE_BOOKS[(index % Len(BASE_BOOKS)) + 1]
        round == index \div Len(BASE_BOOKS)
    IN  [base EXCEPT !.price = ToRoundedVnd(@ * (100 + 4 * round), 100)]

PriceForFormat(base, format) ==
    LET percent == [PAPERBACK |-> 100, HARDCOVER |-> 135, EBOOK |-> 65, AUDIOBOOK |-> 110]
    IN  ToRoundedVnd(base * percent[format], 100)

\* variant counts from 0
MakeVariantIsbn(index, variant) ==
    IF variant = 0 THEN Isbn13FromSeed(100000000 + index + 1)
    ELSE Isbn13FromSeed(900000000 + index * 10 + variant)

PlanForVariant(index, variant, format) ==
    LET plans == <<"DRAFT", "PO_PENDING", "PO_PENDING", "PO_APPROVED_WAITING_PROCESS",
                   "PROCESSING_IMPORT", "IMPORTED_WAITING_PRICE", "IMPORTED_WAITING_PRICE",
                   "SELLABLE_MULTI_BATCH", "SELLABLE_SINGLE_BATCH", "SELLABLE_SINGLE_BATCH",
                   "SELLABLE_SINGLE_BATCH", "SELLABLE_SINGLE_BATCH">>
    IN  CASE IsDigital(format) -> IF index % 6 = 0 THEN "DIGITAL_DRAFT" ELSE "DIGITAL_SELLABLE"
          [] ~IsDigital(format) /\ ~IsBookActive(index) -> "DRAFT"
          [] OTHER -> plans[((index + variant) % 12) + 1]

(* ----------------------- The figures of a delivery ---------------------- *)

PhysicalStockForBook(seed) ==
    LET stocks == <<10, 20, 35, 50, 75, 100, 120, 150, 180, 200>> IN stocks[(seed % 10) + 1]

DiscountPercentForBatch(seed) ==
    LET rates == <<10, 15, 20, 25, 30, 35, 40, 45, 50>> IN rates[(seed % 9) + 1]

\* Batch b (from 0) of the variant with this id: ordered, delivered, price of one.
Ordered(id, b) == PhysicalStockForBook(id + 7 * b)

Delivered(id, b) ==
    LET lack == Round(5 * Ordered(id, b), 100) IN
    IF (id + b) % 9 = 0
    THEN Ordered(id, b) - IF lack < 1 THEN 1 ELSE lack
    ELSE Ordered(id, b)

NetUnitPrice(unitPrice, id, b) ==
    ToRoundedVnd(unitPrice * (100 - DiscountPercentForBatch(id + 3 * b)), 100)

BatchCount(plan) == IF plan = "SELLABLE_MULTI_BATCH" THEN 2 ELSE 1
=============================================================================
