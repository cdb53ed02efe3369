---------------------------- MODULE Apportionment ----------------------------
(***************************************************************************)
(* The arithmetic of DistributionEngine.distribute: how a revenue amount   *)
(* is split over the investors' balances, rounded to cents, and corrected  *)
(* so that the cents add up.                                               *)
(*                                                                         *)
(* Amounts of money are integers.  A revenue is counted in sub-units, Unit *)
(* of them to the cent (the route accepts any positive number, not only    *)
(* whole cents); a payout is counted in cents, which is what toFixed(2)    *)
(* leaves of it.  The JavaScript doubles are idealised as exact rationals, *)
(* a quotient n/d being kept as the pair of its integers.                  *)
(***************************************************************************)
EXTENDS Integers, Sequences

CONSTANT Unit   \* sub-units per cent

ASSUME UnitAssumption == Unit \in Nat \ {0}

(* reduce((s, x) => s + x, 0): PartialSums(s)[i] is the sum of the first i elements. *)
PartialSums(s) ==
    LET sum[i \in 0..Len(s)] == IF i = 0 THEN 0 ELSE sum[i - 1] + s[i]
    IN  sum

SumOf(s) == PartialSums(s)[Len(s)]

(* Math.round(n / d) for d > 0: the nearest integer, halves towards +infinity. *)
RoundDiv(n, d) == (2 * n + d) \div (2 * d)

(* revenueAmount.toFixed(2), in cents. *)
TotalAmount(revenue) == RoundDiv(revenue, Unit)

(* rawShares: the numerators of the shares; their denominator is           *)
(* SumOf(balances) * Unit, the same for every investor.                    *)
RawShares(balances, revenue) ==
    [i \in 1..Len(balances) |-> balances[i] * revenue]

(* rounded: every raw share to the nearest cent. *)
Rounded(balances, revenue) ==
    [i \in 1..Len(balances) |->
        RoundDiv(RawShares(balances, revenue)[i], SumOf(balances) * Unit)]

(* diff: the cents by which the rounded shares miss the revenue. *)
Diff(balances, revenue) ==
    RoundDiv(revenue - Unit * SumOf(Rounded(balances, revenue)), Unit)

(* maxIdx: the first index whose raw share no other exceeds. *)
MaxIdx(balances, revenue) ==
    LET raw == RawShares(balances, revenue)
    IN  CHOOSE i \in 1..Len(balances) :
            \A j \in 1..Len(balances) :
                raw[j] <= raw[i] /\ (raw[j] = raw[i] => i <= j)

(* A bug to detect: the difference is not given to anyone. *)
UncorrectedAmounts(balances, revenue) == Rounded(balances, revenue)

(* The amounts that are persisted: the largest share absorbs the difference. *)
Amounts(balances, revenue) ==
    LET rounded == Rounded(balances, revenue)
        diff    == Diff(balances, revenue)
    IN  IF diff = 0
        THEN rounded
        ELSE [rounded EXCEPT ![MaxIdx(balances, revenue)] = @ + diff]

-----------------------------------------------------------------------------
(* What the split promises. *)

(* The cents paid out are exactly the revenue rounded to cents             *)
(* (distributionEngine.ts step 4, "ensure sum equals revenueAmount").      *)
SplitIsExact(balances, revenue) ==
    SumOf(Amounts(balances, revenue)) = TotalAmount(revenue)

(* Every investor but the one that absorbs the difference is paid within   *)
(* half a cent of the exact proportional share.                            *)
OthersWithinHalfCent(balances, revenue) ==
    LET d == SumOf(balances) * Unit
    IN  \A i \in 1..Len(balances) \ {MaxIdx(balances, revenue)} :
            LET err == 2 * (d * Amounts(balances, revenue)[i] - RawShares(balances, revenue)[i])
            IN  -d <= err /\ err <= d

(* The correction put on one investor grows with the number of investors,  *)
(* by half a cent each, and no faster.                                     *)
CorrectionBounded(balances, revenue) ==
    LET diff == Diff(balances, revenue)
    IN  -(Len(balances) + 1) <= 2 * diff /\ 2 * diff <= Len(balances) + 1

(* Once the revenue is at least n(n+2)/2 cents for n investors, nobody is  *)
(* recorded with a negative payout.                                        *)
NonNegativeWhenLarge(balances, revenue) ==
    LET n == Len(balances)
    IN  2 * revenue >= n * (n + 2) * Unit
            => \A i \in 1..n : Amounts(balances, revenue)[i] >= 0
=============================================================================
