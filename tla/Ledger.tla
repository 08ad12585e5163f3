---- MODULE Ledger ----
(***************************************************************************)
(* What the cooperative promises about stock and orders, without requests, *)
(* transactions, versions, pages or audit rows: every operation is one     *)
(* indivisible step on a ledger of batches and orders.  Allocation         *)
(* implements it.                                                          *)
(***************************************************************************)
EXTENDS Naturals, FiniteSets

CONSTANTS Batches, Orders, Lines, OrderOf, Species, None,
          Quantities    \* the positive quantities batches come in

VARIABLES stock,        \* stock[b]: the phase of a batch and what is left of it
          placed,       \* placed[o]: "none", "open" or "served"
          wants,        \* wants[l]: what an order line asks for
          given         \* given[l][b]: how much of b line l was given

ledger == <<stock, placed, wants, given>>

NoStock == [phase |-> "none", species |-> None, left |-> 0]
NoWant  == [species |-> None, quantity |-> 0]

LinesOf(o) == {l \in Lines : OrderOf[l] = o}

Init == /\ stock = [b \in Batches |-> NoStock]
        /\ placed = [o \in Orders |-> "none"]
        /\ wants = [l \in Lines |-> NoWant]
        /\ given = [l \in Lines |-> [b \in Batches |-> 0]]

\* A batch enters the ledger in quarantine, with all it produced.
Enter(b) ==
    /\ stock[b] = NoStock
    /\ \E s \in Species, n \in Quantities :
          stock' = [stock EXCEPT ![b] = [phase |-> "quarantine", species |-> s, left |-> n]]
    /\ UNCHANGED <<placed, wants, given>>

\* The one decision about a batch.
Decide(b) ==
    /\ stock[b].phase = "quarantine"
    /\ \E phase \in {"saleable", "condemned"} :
          stock' = [stock EXCEPT ![b].phase = phase]
    /\ UNCHANGED <<placed, wants, given>>

\* An order is placed with at least one line.
Place(o) ==
    /\ placed[o] = "none"
    /\ placed' = [placed EXCEPT ![o] = "open"]
    /\ wants' \in [Lines -> [species : Species \union {None}, quantity : Nat]]
    /\ \A l \in Lines \ LinesOf(o) : wants'[l] = wants[l]
    /\ \E l \in LinesOf(o) : wants'[l].species \in Species /\ wants'[l].quantity > 0
    /\ UNCHANGED <<stock, given>>

\* Units of a batch given to the lines of an order, and units a line is given.
Out(g, o, b) == UNION {{l} \X (1..g[l][b]) : l \in LinesOf(o)}
In(g, l) == UNION {{b} \X (1..g[l][b]) : b \in Batches}

\* An open order is served in full, at once, from saleable batches of the right
\* species, each giving no more than it has left.
Serve(o) ==
    /\ placed[o] = "open"
    /\ placed' = [placed EXCEPT ![o] = "served"]
    /\ given' \in [Lines -> [Batches -> Nat]]
    /\ \A l \in LinesOf(o) :
          /\ Cardinality(In(given', l)) = wants[l].quantity
          /\ \A b \in Batches : given'[l][b] > 0 =>
                stock[b].phase = "saleable" /\ stock[b].species = wants[l].species
    /\ \A l \in Lines \ LinesOf(o) : given'[l] = given[l]
    /\ \A b \in Batches : Cardinality(Out(given', o, b)) <= stock[b].left
    /\ stock' = [b \in Batches |->
                   [stock[b] EXCEPT !.left = @ - Cardinality(Out(given', o, b))]]
    /\ UNCHANGED wants

Next == \/ \E b \in Batches : Enter(b) \/ Decide(b)
        \/ \E o \in Orders : Place(o) \/ Serve(o)

Spec == Init /\ [][Next]_ledger
====
