---- MODULE Money ----
(***************************************************************************)
(* The arithmetic of money/money.go: amounts of cents in int64, with       *)
(* checked sums and products, and the decimal text of an amount.  Pure     *)
(* functions; Settlement shows what the services compute without them.     *)
(***************************************************************************)
EXTENDS Int64, Sequences

CONSTANT NaN            \* no number

Ok(amount) == [amount |-> amount, err |-> "nil"]
Err(err)   == [amount |-> 0, err |-> err]

-----------------------------------------------------------------------------
Cents(value) == IF value < 0 THEN Err("negative") ELSE Ok(value)

Add(a, other) == IF other > 0 /\ a > MaxInt64 - other
                 THEN Err("overflow")
                 ELSE Ok(Wrap(a + other))

Multiply(a, quantity) ==
    IF quantity < 0 THEN Err("negative")
    ELSE IF quantity # 0 /\ a > MaxInt64 \div quantity THEN Err("overflow")
    ELSE Ok(Wrap(a * quantity))

-----------------------------------------------------------------------------
(***************************************************************************)
(* What Parse looks at of the trimmed text: whether it begins with "-", how*)
(* many dots it has, what ParseInt makes of the part before the first dot, *)
(* and the characters of the part behind it.                               *)
(***************************************************************************)
Digits == 0..9
Minus  == 10
Plus   == 11
Other  == 12

Text == [minus : BOOLEAN, dots : Nat, whole : (0..MaxInt64) \union {NaN},
         fraction : Seq(Digits \union {Minus, Plus, Other})]

\* strconv.ParseInt of two characters: a sign is part of the number.
ParseTwo(c, d) ==
    IF d \notin Digits THEN NaN
    ELSE IF c \in Digits THEN 10 * c + d
    ELSE IF c = Plus THEN d
    ELSE IF c = Minus THEN -d
    ELSE NaN

\* A single character gets a "0" behind it.
Fraction(cs) == IF Len(cs) = 1 THEN ParseTwo(cs[1], 0)
                ELSE IF Len(cs) = 2 THEN ParseTwo(cs[1], cs[2])
                ELSE NaN

\* The largest whole part that is accepted before a fraction.
Room(fraction) == Quotient(Wrap(MaxInt64 - fraction), 100)

Parse(text) ==
    LET fraction == IF text.dots = 0 THEN 0 ELSE Fraction(text.fraction) IN
    IF text.minus THEN Err("negative")
    ELSE IF text.dots > 1 \/ text.whole = NaN \/ fraction = NaN THEN Err("format")
    ELSE IF text.whole > Room(fraction) THEN Err("overflow")
    ELSE Ok(Wrap(text.whole * 100 + fraction))

\* The text "%d.%02d" of an amount that is not negative.
String(a) == [minus |-> FALSE, dots |-> 1, whole |-> a \div 100,
              fraction |-> <<(a % 100) \div 10, a % 10>>]
====
