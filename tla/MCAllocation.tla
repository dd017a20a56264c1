---------------------------- MODULE MCAllocation ----------------------------
(***************************************************************************)
(* The allocations, over every small quantity and weighting.  The state is *)
(* one question: q shares over the weights w, or over the fractions w[i]/d.*)
(***************************************************************************)
EXTENDS Allocation

CONSTANTS MaxQuantity, MaxWeight, MaxTargets

ASSUME BoundsAssumption == {MaxQuantity, MaxWeight, MaxTargets} \subseteq Nat \ {0}

VARIABLES q, w, d

Weights == UNION {[1..n -> 1..MaxWeight] : n \in 1..MaxTargets}

\* Fractions w[i]/d that sum to at most one, as OrderIntent admits them.
Init == /\ q = 1 /\ w \in Weights
        /\ d \in SumFunction(w)..(SumFunction(w) + MaxWeight)

Next == q' = (q % MaxQuantity) + 1 /\ UNCHANGED <<w, d>>

Spec == Init /\ [][Next]_<<q, w, d>>

\* How far shares a are from the exact proportions.
Distance(a, weights) ==
    SumFunction([i \in DOMAIN a |-> (a[i] * SumFunction(weights) - q * weights[i])
                                      * (a[i] * SumFunction(weights) - q * weights[i])])

\* Every division of q whole shares.
Divisions(weights) == {a \in [DOMAIN weights -> 0..q] : SumFunction(a) = q}

\* allocate hands out every share and no more.
Conserves == SumFunction(allocate(q, w)) = q

\* No division of the shares is nearer to the exact proportions than allocate's.
NearestShares ==
    \A a \in Divisions(w) : Distance(allocate(q, w), w) <= Distance(a, w)

\* The fractions with the runner they leave.
Fractions == IF d > SumFunction(w) THEN Append(w, d - SumFunction(w)) ELSE w

\* The divisions nearest to the fractions.
NearestFractions ==
    LET least == CHOOSE n \in {Distance(a, Fractions) : a \in Divisions(Fractions)} :
                   \A a \in Divisions(Fractions) : n <= Distance(a, Fractions)
    IN  {a \in Divisions(Fractions) : Distance(a, Fractions) = least}

\* fraction_quantities gives the targets their part of a division, runner included, that no
\* other one comes nearer to the fractions; it refuses only a quantity too small for that.
FractionsAreNearest ==
    LET portions == fraction_quantities(q, w, d)
    IN  IF portions = <<>>
        THEN \E a \in NearestFractions : \E i \in DOMAIN w : a[i] = 0
        ELSE \E a \in NearestFractions : \A i \in DOMAIN w : a[i] = portions[i] /\ a[i] > 0

\* An entry that fills completely leaves every target the size it was planned with.
FullFillKeepsPlan ==
    LET plan == fraction_quantities(q, w, d)
    IN  plan # <<>> => target_budgets(q, plan, q) = plan
=============================================================================
