----------------------------- MODULE Allocation -----------------------------
(***************************************************************************)
(* How the order manager divides a whole-share quantity over the profit    *)
(* targets of a bracket: largest remainder, ties to the lower index.       *)
(* Decimal (non-equity) quantities are not modelled.                       *)
(***************************************************************************)
EXTENDS Integers, Sequences, FiniteSets, Functions

\* Mutant: the first indices get the extra shares.
toppedFirst(r, extra) == {i \in DOMAIN r : i <= extra}

\* Mutant: one share too few is handed out.
toppedShort(r, extra) ==
    {i \in DOMAIN r :
        Cardinality({j \in DOMAIN r : r[j] > r[i] \/ (r[j] = r[i] /\ j < i)}) < extra - 1}

(***************************************************************************)
(* The indices that get one more share: the `extra` largest remainders.    *)
(***************************************************************************)
topped(r, extra) ==
    {i \in DOMAIN r :
        Cardinality({j \in DOMAIN r : r[j] > r[i] \/ (r[j] = r[i] /\ j < i)}) < extra}

topUp(floors, r, extra) ==
    [i \in DOMAIN floors |-> floors[i] + IF i \in topped(r, extra) THEN 1 ELSE 0]

\* q shares over the positive integer weights w.
allocate(q, w) ==
    LET total  == SumFunction(w)
        floors == [i \in DOMAIN w |-> (q * w[i]) \div total]
        r      == [i \in DOMAIN w |-> (q * w[i]) % total]
    IN  topUp(floors, r, q - SumFunction(floors))

Positive(portions) == \A i \in DOMAIN portions : portions[i] > 0

\* An even split: <<>> stands for the refusal of a quantity too small for it.
split_quantity(q, count) ==
    LET portions == allocate(q, [i \in 1..count |-> 1])
    IN  IF Positive(portions) THEN portions ELSE <<>>

\* Mutant: the targets are rounded down and the runner takes every remainder.
fraction_quantitiesDown(q, w, d) ==
    LET portions == [i \in DOMAIN w |-> (q * w[i]) \div d]
    IN  IF Positive(portions) THEN portions ELSE <<>>

(***************************************************************************)
(* Target i exits w[i]/d of the position, what the fractions leave is the  *)
(* runner.  OrderIntent refuses fractions that sum above one.  <<>> stands *)
(* for the refusal of a quantity too small to give every target a share.   *)
(***************************************************************************)
fraction_quantities(q, w, d) ==
    LET runner   == d - SumFunction(w)
        weights  == IF runner > 0 THEN Append(w, runner) ELSE w
        floors   == [i \in DOMAIN weights |-> (q * weights[i]) \div d]
        r        == [i \in DOMAIN weights |-> (q * weights[i]) % d]
        portions == SubSeq(topUp(floors, r, q - SumFunction(floors)), 1, Len(w))
    IN  IF Positive(portions) THEN portions ELSE <<>>

\* Mutant: the runner is left out of the weights.
target_weightsNoRunner(weights, planned) == weights

\* The planned target quantities, and the runner the entry's plan leaves.
target_weights(weights, planned) ==
    LET runner == planned - SumFunction(weights)
    IN  IF runner > 0 THEN Append(weights, runner) ELSE weights

\* What each target may exit once `filled` shares of the entry are filled.
target_budgets(filled, weights, planned) ==
    SubSeq(allocate(filled, target_weights(weights, planned)), 1, Len(weights))

\* A reduce closes the whole shares of n/d of the open quantity.
reduce_quantity(open, n, d) == (open * n) \div d
=============================================================================
