---- MODULE Numbers_proofs ----
(***************************************************************************)
(* What Money and Pagination compute, for every argument, in a word of any *)
(* width beyond a few hundred.                                             *)
(***************************************************************************)
EXTENDS Money, Pagination, TLAPS

\* The word of 64 bits is such a word; NaN is not a number.
WideEnough == /\ Wide \in Nat /\ Wide >= 1000
              /\ NaN \notin Int

\* What fits is not changed, what is just beyond turns negative.
LEMMA WrapFits ==
    ASSUME WideEnough, NEW n \in 0..MaxInt64
    PROVE  Wrap(n) = n
  <1> DEFINE M == Wide
  <1>1. M \in Nat /\ n + M \in Nat /\ 2 * M \in Nat \ {0} /\ n + M < 2 * M
    BY DEF WideEnough, MaxInt64
  <1>2. (n + M) % (2 * M) = n + M
    BY <1>1
  <1> QED
    BY <1>1, <1>2 DEF Wrap, WideEnough, MaxInt64

LEMMA WrapBeyond ==
    ASSUME WideEnough, NEW n \in Nat, n > MaxInt64, n <= 2 * MaxInt64
    PROVE  Wrap(n) = n - 2 * Wide
  <1> DEFINE M == Wide
             k == n - M
  <1>1. M \in Nat \ {0} /\ k \in Nat /\ k < 2 * M /\ n + M = k + 2 * M
    BY DEF WideEnough, MaxInt64
  <1> HIDE DEF k
  <1>2. (k + 2 * M) % (2 * M) = k
    BY <1>1
  <1>3. (n + M) % (2 * M) = k
    BY <1>1, <1>2
  <1>4. Wrap(n) = ((n + M) % (2 * M)) - M
    BY DEF Wrap
  <1>5. Wrap(n) = k - M
    BY <1>3, <1>4
  <1> QED
    BY <1>1, <1>5 DEF k, WideEnough, MaxInt64

\* A quotient is the number of times the divisor fits.
LEMMA Divides ==
    ASSUME NEW n \in Nat, NEW d \in Nat \ {0}
    PROVE  /\ n \div d \in Nat
           /\ d * (n \div d) <= n
           /\ n < d * (n \div d) + d
  OBVIOUS

LEMMA ProductMonotone ==
    ASSUME NEW a \in Nat, NEW b \in Nat, NEW d \in Nat, a <= b
    PROVE  d * a <= d * b
  <1> PICK k \in Nat : b = a + k
    <2>1. b - a \in Nat
      OBVIOUS
    <2> QED
      BY <2>1
  <1>1. d * (a + k) = d * a + d * k /\ d * k \in Nat /\ d * a \in Nat
    OBVIOUS
  <1> QED
    BY <1>1

\* The quotient is at least q exactly if d fits q times.
LEMMA FitsTimes ==
    ASSUME NEW n \in Nat, NEW d \in Nat \ {0}, NEW q \in Nat
    PROVE  q <= n \div d <=> d * q <= n
  <1> DEFINE r == n \div d
  <1>1. r \in Nat /\ d * r <= n /\ n < d * r + d
    BY Divides
  <1> HIDE DEF r
  <1>2. d * q \in Nat /\ d * r \in Nat
    BY <1>1
  <1>3. q <= r => d * q <= n
    <2>1. q <= r => d * q <= d * r
      BY <1>1, ProductMonotone
    <2> QED
      BY <2>1, <1>1, <1>2
  <1>4. d * q <= n => q <= r
    <2> SUFFICES ASSUME r + 1 <= q PROVE d * q > n
      BY <1>1
    <2>1. d * (r + 1) <= d * q
      BY <1>1, ProductMonotone
    <2>2. d * (r + 1) = d * r + d
      BY <1>1
    <2> QED
      BY <2>1, <2>2, <1>1, <1>2
  <1> QED
    BY <1>3, <1>4 DEF r

-----------------------------------------------------------------------------
\* A checked sum of amounts is exact, and refused exactly if it does not fit.
THEOREM AddExact ==
    ASSUME WideEnough
    PROVE  \A a, b \in 0..MaxInt64 :
              Add(a, b) = IF a + b <= MaxInt64 THEN Ok(a + b) ELSE Err("overflow")
  <1> TAKE a, b \in 0..MaxInt64
  <1>1. a \in Nat /\ b \in Nat /\ MaxInt64 \in Nat /\ a <= MaxInt64 /\ b <= MaxInt64
    BY DEF WideEnough, MaxInt64
  <1>2. CASE a + b <= MaxInt64
    <2>1. Wrap(a + b) = a + b
      BY <1>1, <1>2, WrapFits
    <2> QED
      BY <1>1, <1>2, <2>1 DEF Add
  <1>3. CASE a + b > MaxInt64
    BY <1>1, <1>3 DEF Add
  <1> QED
    BY <1>1, <1>2, <1>3

\* A checked product of an amount and a quantity is exact, and refused exactly
\* if it does not fit: the test divides, so that it does not overflow itself.
THEOREM MultiplyExact ==
    ASSUME WideEnough
    PROVE  \A a, q \in 0..MaxInt64 :
              Multiply(a, q) = IF a * q <= MaxInt64 THEN Ok(a * q) ELSE Err("overflow")
  <1> TAKE a, q \in 0..MaxInt64
  <1>1. a \in Nat /\ q \in Nat /\ MaxInt64 \in Nat /\ a * q \in Nat
    BY DEF WideEnough, MaxInt64
  <1>2. CASE q = 0
    <2>1. a * q = 0 /\ Wrap(0) = 0
      BY <1>1, <1>2, WrapFits
    <2> QED
      BY <1>1, <1>2, <2>1 DEF Multiply
  <1>3. CASE q # 0
    <2>1. a <= MaxInt64 \div q <=> q * a <= MaxInt64
      BY <1>1, <1>3, FitsTimes
    <2>2. q * a = a * q /\ MaxInt64 \div q \in Nat
      BY <1>1, <1>3, Divides
    <2>3. a * q <= MaxInt64 => Wrap(a * q) = a * q
      BY <1>1, WrapFits
    <2> HIDE DEF Ok, Err
    <2>4. Multiply(a, q) = IF a > MaxInt64 \div q THEN Err("overflow") ELSE Ok(Wrap(a * q))
      BY <1>1, <1>3 DEF Multiply
    <2>5. CASE a * q <= MaxInt64
      BY <2>1, <2>2, <2>3, <2>4, <2>5, <1>1
    <2>6. CASE ~(a * q <= MaxInt64)
      <3>1. a > MaxInt64 \div q
        BY <2>1, <2>2, <2>6, <1>1
      <3> QED
        BY <2>4, <2>6, <3>1
    <2> QED
      BY <2>5, <2>6
  <1> QED
    BY <1>2, <1>3

-----------------------------------------------------------------------------
\* A fraction is between 0 and 99, or has a minus sign and one digit.
LEMMA FractionRange ==
    ASSUME WideEnough, NEW cs \in Seq(Digits \union {Minus, Plus, Other}), Fraction(cs) # NaN
    PROVE  Fraction(cs) \in -9..99
  <1> DEFINE Chars == Digits \union {Minus, Plus, Other}
  <1>1. ASSUME NEW c \in Chars, NEW d \in Chars, ParseTwo(c, d) # NaN
        PROVE  ParseTwo(c, d) \in -9..99
    BY <1>1 DEF ParseTwo, Digits, Minus, Plus, Other
  <1>2. CASE Len(cs) = 1
    <2>1. cs[1] \in Chars /\ Fraction(cs) = ParseTwo(cs[1], 0)
      BY <1>2 DEF Fraction
    <2>2. 0 \in Chars
      BY DEF Digits
    <2> HIDE DEF Chars
    <2> QED
      BY <2>1, <2>2, <1>1
  <1>3. CASE Len(cs) = 2
    <2>1. cs[1] \in Chars /\ cs[2] \in Chars /\ Fraction(cs) = ParseTwo(cs[1], cs[2])
      BY <1>3 DEF Fraction
    <2> QED
      BY <2>1, <1>1
  <1> QED
    BY <1>2, <1>3 DEF Fraction

\* A negative fraction leaves no room for any whole part: the difference with
\* the greatest int64 wraps around.
LEMMA NoRoomBelowZero ==
    ASSUME WideEnough, NEW f \in -9..-1
    PROVE  Room(f) < 0
  <1> DEFINE n == MaxInt64 - f
             k == 2 * Wide - n
  <1>1. n \in Nat /\ n > MaxInt64 /\ n <= 2 * MaxInt64 /\ k \in Nat /\ k >= 100
    BY DEF WideEnough, MaxInt64
  <1>2. Wrap(n) = -k
    BY <1>1, WrapBeyond DEF WideEnough, MaxInt64
  <1> HIDE DEF n, k
  <1>3. k \div 100 >= 1 /\ k \div 100 \in Nat
    BY <1>1
  <1>4. Quotient(-k, 100) = -(k \div 100)
    BY <1>1 DEF Quotient
  <1>5. Room(f) = Quotient(Wrap(n), 100)
    BY DEF Room, n
  <1> QED
    BY <1>2, <1>3, <1>4, <1>5

\* Before any other fraction there is room for what fits.
LEMMA RoomFor ==
    ASSUME WideEnough, NEW f \in 0..99, NEW w \in Nat
    PROVE  w <= Room(f) <=> w * 100 + f <= MaxInt64
  <1> DEFINE n == MaxInt64 - f
  <1>1. n \in Nat /\ n \in 0..MaxInt64 /\ MaxInt64 \in Nat
    BY DEF WideEnough, MaxInt64
  <1>2. Wrap(n) = n
    BY <1>1, WrapFits
  <1>3. Room(f) = n \div 100
    BY <1>1, <1>2 DEF Room, Quotient
  <1>4. w <= n \div 100 <=> 100 * w <= n
    BY <1>1, FitsTimes
  <1> QED
    BY <1>1, <1>3, <1>4

\* What Parse accepts is a number of cents that is not negative and fits, and
\* its whole part is that of the text, even where a sign stands behind the dot.
THEOREM ParseSound ==
    ASSUME WideEnough
    PROVE  \A text \in Text : Parse(text).err = "nil" =>
              /\ Parse(text).amount \in 0..MaxInt64
              /\ Parse(text).amount \div 100 = text.whole
  <1> SUFFICES ASSUME NEW text \in Text, Parse(text).err = "nil"
               PROVE  /\ Parse(text).amount \in 0..MaxInt64
                      /\ Parse(text).amount \div 100 = text.whole
    OBVIOUS
  <1> DEFINE f == IF text.dots = 0 THEN 0 ELSE Fraction(text.fraction)
             w == text.whole
  <1>1. f # NaN /\ w # NaN /\ ~(w > Room(f)) /\ Parse(text).amount = Wrap(w * 100 + f)
    BY DEF Parse, Ok, Err
  <1>2. w \in Nat
    BY <1>1 DEF Text, WideEnough, MaxInt64
  <1>3. f \in -9..99
    <2>1. CASE text.dots = 0
      BY <2>1
    <2>2. CASE text.dots # 0
      <3>1. text.fraction \in Seq(Digits \union {Minus, Plus, Other})
        BY DEF Text
      <3>2. f = Fraction(text.fraction)
        BY <2>2
      <3> QED
        BY <1>1, <3>1, <3>2, FractionRange
    <2> QED
      BY <2>1, <2>2
  <1> HIDE DEF f, w
  <1>4. f \in 0..99
    <2>1. Room(f) \in Int
      <3>1. Wrap(MaxInt64 - f) \in Int
        BY <1>3 DEF Wrap, WideEnough, MaxInt64
      <3> QED
        BY <3>1 DEF Room, Quotient
    <2> QED
      BY <1>1, <1>2, <1>3, <2>1, NoRoomBelowZero
  <1>5. w <= Room(f)
    <2>1. Room(f) \in Int
      <3>1. Wrap(MaxInt64 - f) \in Int
        BY <1>3 DEF Wrap, WideEnough, MaxInt64
      <3> QED
        BY <3>1 DEF Room, Quotient
    <2> QED
      BY <1>1, <1>2, <2>1
  <1>6. w * 100 + f <= MaxInt64
    BY <1>2, <1>4, <1>5, RoomFor
  <1>7. w * 100 + f \in 0..MaxInt64 /\ (w * 100 + f) \div 100 = w
    BY <1>2, <1>4, <1>6 DEF WideEnough, MaxInt64
  <1> QED
    BY <1>1, <1>7, WrapFits DEF w

\* The two digits of a fraction.
LEMMA TwoDigits ==
    ASSUME NEW w \in Nat, NEW f \in 0..99
    PROVE  /\ (w * 100 + f) % 10 = f % 10
           /\ f \div 10 \in Digits /\ f % 10 \in Digits
           /\ 10 * (f \div 10) + (f % 10) = f
  <1>1. f \in Nat /\ f <= 99
    OBVIOUS
  <1>2. (10 * (10 * w) + f) % 10 = f % 10
    BY <1>1
  <1>3. w * 100 + f = 10 * (10 * w) + f
    BY <1>1
  <1>4. f \div 10 >= 0 /\ f \div 10 <= 9 /\ f % 10 >= 0 /\ f % 10 <= 9
    BY <1>1
  <1>5. f \div 10 \in Int /\ f % 10 \in Int
    BY <1>1
  <1>6. (f \div 10) * 10 + (f % 10) = f
    BY <1>1
  <1>7. 10 * (f \div 10) + (f % 10) = f
    BY <1>5, <1>6
  <1> QED
    BY <1>2, <1>3, <1>4, <1>5, <1>7 DEF Digits

\* Every amount can be read back from its text, up to the greatest one.
THEOREM RoundTrip ==
    ASSUME WideEnough
    PROVE  \A a \in 0..MaxInt64 : Parse(String(a)) = Ok(a)
  <1> TAKE a \in 0..MaxInt64
  <1> DEFINE w == a \div 100
             f == a % 100
             cs == <<f \div 10, a % 10>>
  <1>1. a \in Nat /\ a <= MaxInt64 /\ MaxInt64 \in Nat
    BY DEF WideEnough, MaxInt64
  <1>2. w \in Nat /\ f \in 0..99 /\ w * 100 + f = a
    BY <1>1
  <1>3. f \div 10 \in Digits /\ a % 10 \in Digits /\ 10 * (f \div 10) + (a % 10) = f
    <2> HIDE DEF w, f
    <2>1. a % 10 = f % 10
      BY <1>2, TwoDigits
    <2> QED
      BY <1>2, <2>1, TwoDigits
  <1>4. String(a).minus = FALSE /\ String(a).dots = 1 /\ String(a).whole = w
        /\ String(a).fraction = cs
    BY DEF String
  <1> HIDE DEF w, f
  <1>5. Fraction(cs) = f
    <2>1. Len(cs) = 2 /\ cs[1] = f \div 10 /\ cs[2] = a % 10
      OBVIOUS
    <2>2. Fraction(cs) = ParseTwo(f \div 10, a % 10)
      BY <2>1 DEF Fraction
    <2>3. ParseTwo(f \div 10, a % 10) = 10 * (f \div 10) + (a % 10)
      BY <1>3 DEF ParseTwo
    <2> QED
      BY <2>2, <2>3, <1>3
  <1> HIDE DEF cs
  <1>6. w <= Room(f) /\ f # NaN /\ w # NaN
    <2>1. w <= Room(f)
      <3>1. w * 100 + f <= MaxInt64
        BY <1>1, <1>2
      <3> QED
        BY <1>2, <3>1, RoomFor
    <2>2. f \in Int /\ w \in Int
      BY <1>2
    <2>3. f # NaN /\ w # NaN
      BY <2>2 DEF WideEnough
    <2> QED
      BY <2>1, <2>3
  <1>7. Room(f) \in Int
    <2>1. Wrap(MaxInt64 - f) \in Int
      BY <1>1, <1>2 DEF Wrap, WideEnough
    <2> QED
      BY <2>1 DEF Room, Quotient
  <1>8. Wrap(w * 100 + f) = a
    BY <1>1, <1>2, WrapFits
  <1> HIDE DEF Ok
  <1>9. Parse(String(a)) = Ok(Wrap(w * 100 + f))
    BY <1>2, <1>4, <1>5, <1>6, <1>7 DEF Parse
  <1> QED
    BY <1>8, <1>9

-----------------------------------------------------------------------------
PageOf(n, size) == [number |-> n, size |-> size]

\* Where nothing wraps around, page n begins behind the n - 1 pages before it.
LEMMA PageStart ==
    ASSUME WideEnough, NEW size \in 1..100, NEW k \in Nat, size * k <= MaxInt64
    PROVE  Places(PageOf(k + 1, size)) = size * k .. size * k + size - 1
  <1>1. size \in Nat \ {0} /\ size * k \in Nat /\ k * size = size * k /\ MaxInt64 \in Nat
    BY DEF WideEnough, MaxInt64
  <1>2. k <= MaxInt64
    <2>1. k * 1 <= k * size
      BY <1>1, ProductMonotone
    <2> QED
      BY <2>1, <1>1
  <1>3. Wrap(k + 1 - 1) = k /\ Wrap(k * size) = size * k
    <2>1. k + 1 - 1 = k /\ k \in 0..MaxInt64 /\ k * size \in 0..MaxInt64
      BY <1>1, <1>2
    <2> QED
      BY <2>1, <1>1, WrapFits
  <1>4. Offset(PageOf(k + 1, size)) = size * k
    BY <1>3 DEF Offset, PageOf
  <1>5. ~(size * k < 0)
    BY <1>1
  <1> QED
    BY <1>4, <1>5 DEF Places, PageOf

\* The number of pages is the total divided by the size, rounded up.
LEMMA PagesRoundUp ==
    ASSUME WideEnough, NEW size \in 1..100, NEW total \in Nat \ {0},
           total <= MaxInt64 - 100, NEW n \in Nat
    PROVE  Pages(total, PageOf(n, size)) = (total + size - 1) \div size
  <1>1. /\ total + size \in 0..MaxInt64 /\ total + size - 1 \in 0..MaxInt64
    BY DEF WideEnough, MaxInt64
  <1>2. Wrap(total + size) = total + size /\ Wrap(total + size - 1) = total + size - 1
    BY <1>1, WrapFits
  <1> QED
    BY <1>2 DEF Pages, PageOf

\* The pages of a list tile it: every row of it stands on exactly one of the
\* pages Build counts.
THEOREM PagesTile ==
    ASSUME WideEnough
    PROVE  \A size \in 1..100, total, i \in Nat :
              (i < total /\ total <= MaxInt64 - 100) =>
                 \E n \in 1..Pages(total, PageOf(1, size)) :
                    \A m \in 1..Pages(total, PageOf(1, size)) :
                       i \in Places(PageOf(m, size)) <=> m = n
  <1> SUFFICES ASSUME NEW size \in 1..100, NEW total \in Nat, NEW i \in Nat,
                      i < total, total <= MaxInt64 - 100
               PROVE  \E n \in 1..Pages(total, PageOf(1, size)) :
                         \A m \in 1..Pages(total, PageOf(1, size)) :
                            i \in Places(PageOf(m, size)) <=> m = n
    OBVIOUS
  <1> DEFINE last == (total + size - 1) \div size
             q == i \div size
  <1>1. /\ size \in Nat \ {0} /\ MaxInt64 \in Nat /\ total + size - 1 \in Nat
        /\ total \in Nat \ {0} /\ 1 \in Nat
    BY DEF WideEnough, MaxInt64
  <1>5. Pages(total, PageOf(1, size)) = last
    BY <1>1, PagesRoundUp
  <1>2. q \in Nat /\ size * q <= i /\ i < size * q + size /\ last \in Nat
    BY <1>1, Divides
  <1>3. q + 1 \in 1..last
    <2>1. size * (q + 1) = size * q + size
      BY <1>1, <1>2
    <2>2. size * (q + 1) <= total + size - 1
      BY <1>1, <1>2, <2>1
    <2> HIDE DEF q
    <2>3. q + 1 <= last
      BY <1>1, <1>2, <2>2, FitsTimes
    <2> QED
      BY <1>2, <2>3
  <1> HIDE DEF q
  <1>4. ASSUME NEW m \in 1..last
        PROVE  i \in Places(PageOf(m, size)) <=> m = q + 1
    <2> DEFINE k == m - 1
    <2>1. m \in Nat /\ m <= last /\ k \in Nat /\ m = k + 1
      BY <1>2
    <2>2. size * m <= total + size - 1
      BY <1>1, <2>1, FitsTimes
    <2> HIDE DEF k
    <2>3. size * m = size * k + size /\ size * k \in Nat
      BY <1>1, <2>1
    <2>4. size * k <= MaxInt64
      BY <1>1, <2>2, <2>3
    <2>5. Places(PageOf(m, size)) = size * k .. size * k + size - 1
      BY <2>1, <2>4, PageStart
    <2>6. i \in Places(PageOf(m, size)) <=> size * k <= i /\ i < size * m
      BY <1>1, <2>3, <2>5
    <2>7. k <= q <=> size * k <= i
      BY <1>1, <2>1, FitsTimes DEF q
    <2>8. m <= q <=> size * m <= i
      BY <1>1, <2>1, FitsTimes DEF q
    <2>9. size * m \in Nat
      BY <1>1, <2>1
    <2> QED
      BY <1>2, <2>1, <2>6, <2>7, <2>8, <2>9
  <1> HIDE DEF last
  <1> QED
    BY <1>1, <1>3, <1>4, <1>5

\* There are page numbers New accepts and that are answered with the rows of the
\* first page: their offset wraps around to a negative number.
THEOREM FarPageIsFirst ==
    ASSUME WideEnough
    PROVE  \E page \in Page : /\ page.number > 1
                              /\ Places(page) = Places([page EXCEPT !.number = 1])
  <1> DEFINE M == MaxInt64
             far == PageOf(M, 2)
  <1>1. M \in Nat /\ M >= 900 /\ Wide = M + 1
    BY DEF WideEnough, MaxInt64
  <1>2. far \in Page /\ far.number > 1 /\ [far EXCEPT !.number = 1] = PageOf(0 + 1, 2)
    BY <1>1 DEF PageOf, Page
  <1>3. Places(PageOf(0 + 1, 2)) = 0 .. 1
    <2>1. /\ 2 * 0 = 0 /\ 2 * 0 + 2 - 1 = 1 /\ 2 * 0 <= MaxInt64
          /\ 2 \in 1..100 /\ 0 \in Nat
      BY <1>1
    <2>2. Places(PageOf(0 + 1, 2)) = 2 * 0 .. 2 * 0 + 2 - 1
      BY <2>1, PageStart
    <2> QED
      BY <2>1, <2>2
  <1>4. Wrap(M - 1) = M - 1
    BY <1>1, WrapFits
  <1>5. Wrap((M - 1) * 2) = -4
    <2>1. (M - 1) * 2 \in Nat /\ (M - 1) * 2 > MaxInt64 /\ (M - 1) * 2 <= 2 * MaxInt64
      BY <1>1
    <2>2. Wrap((M - 1) * 2) = (M - 1) * 2 - 2 * Wide
      BY <2>1, WrapBeyond
    <2> QED
      BY <1>1, <2>2
  <1>6. Offset(far) = -4
    BY <1>4, <1>5 DEF Offset, PageOf
  <1>7. Places(far) = 0 .. 1
    BY <1>6 DEF Places, PageOf
  <1> QED
    BY <1>2, <1>3, <1>7
====
