---- MODULE Int64 ----
(***************************************************************************)
(* Go's int64, and int of a 64-bit build: the integers from -Wide to       *)
(* Wide - 1, in two's complement, without an overflow check.               *)
(***************************************************************************)
EXTENDS Integers

CONSTANT Wide           \* 2^63

MaxInt64 == Wide - 1

Wrap(n) == ((n + Wide) % (2 * Wide)) - Wide

\* Division truncates.
Quotient(n, d) == IF n < 0 THEN -((-n) \div d) ELSE n \div d
====
