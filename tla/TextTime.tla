---- MODULE TextTime ----
(***************************************************************************)
(* Instants as the database orders them.  formatTime stores an instant as  *)
(* RFC 3339 text with the trailing zeros of its fraction removed, and SQL  *)
(* compares the text.  "Z" sorts after "." and after every digit, so       *)
(* within one second the order of the text is not the order of the         *)
(* instants; across seconds it is.                                         *)
(*                                                                         *)
(* An instant is a number of ticks.  A second has FracBase^FracDigits of   *)
(* them: the program's fraction has nine decimal digits, a small instance  *)
(* fewer digits in a smaller base.                                         *)
(***************************************************************************)
LOCAL INSTANCE Naturals

CONSTANTS FracBase, FracDigits

TicksPerSecond == FracBase ^ FracDigits

\* The last two conjuncts are arithmetic, named for the provers that do not know
\* "^".
ASSUME FracAssumption == /\ FracBase \in Nat \ {0, 1}
                         /\ FracDigits \in Nat
                         /\ \A i \in 0..FracDigits : FracBase ^ i \in Nat \ {0}
                         /\ TicksPerSecond \in Nat \ {0}

Second(t) == t \div TicksPerSecond

\* The i-th digit of the fraction.
Digit(t, i) == ((t % TicksPerSecond) \div (FracBase ^ (FracDigits - i))) % FracBase

\* The i-th character of the fraction once trailing zeros are removed: from
\* the first removed digit on there is only the final "Z", ranked FracBase.
Char(t, i) == IF \A j \in i..FracDigits : Digit(t, j) = 0
              THEN FracBase
              ELSE Digit(t, i)

\* formatTime(s) < formatTime(t), as SQLite compares text.
TextLess(s, t) ==
    \/ Second(s) < Second(t)
    \/ /\ Second(s) = Second(t)
       /\ \E i \in 1..FracDigits :
             /\ Char(s, i) < Char(t, i)
             /\ \A j \in 1..(i - 1) : Char(s, j) = Char(t, j)

TextLeq(s, t) == s = t \/ TextLess(s, t)

-----------------------------------------------------------------------------
(***************************************************************************)
(* Time without a last instant, for modules whose behaviours go on for     *)
(* ever.  Instants are counted from the start of the second before the     *)
(* current one, and the instants of all seconds before the current one are *)
(* the instant Past.                                                       *)
(***************************************************************************)
Past == 0

Current == TicksPerSecond .. 2 * TicksPerSecond - 1

\* The instant t once a new second begins.
Shift(t) == IF t < 2 * TicksPerSecond THEN Past ELSE t - TicksPerSecond
====
