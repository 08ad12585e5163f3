---- MODULE Pagination ----
(***************************************************************************)
(* The pages of a list (pagination/page.go): what New accepts, where a     *)
(* page begins, how many pages Build says there are.  Pure functions.      *)
(***************************************************************************)
EXTENDS Int64

\* The pages New accepts; anything else is ErrInvalidPage.
Page == [number : 1..MaxInt64, size : 1..100]

Offset(page) == Wrap(Wrap(page.number - 1) * page.size)

\* total_pages.
Pages(total, page) ==
    IF total > 0 THEN Wrap(Wrap(total + page.size) - 1) \div page.size ELSE 0

\* The places of the rows LIMIT size OFFSET offset selects; SQLite takes a
\* negative offset for 0.
Places(page) == LET first == IF Offset(page) < 0 THEN 0 ELSE Offset(page)
                IN  first .. first + page.size - 1
====
