------------------------------ MODULE Corridors ------------------------------
(***************************************************************************)
(* The payout corridors of the company: amount limits, the threshold above *)
(* which a payment waits for compliance, and the price a quote puts on a   *)
(* payment.  Local amounts are whole units of the local currency, USDC     *)
(* amounts are cents.                                                      *)
(***************************************************************************)
EXTENDS Integers

Countries == {"CO", "MX", "AR"}

\* The corridor limits, both ends included.
Limits == [CO |-> [min |-> 50000, max |-> 25000000],
           MX |-> [min |-> 500,   max |-> 350000],
           AR |-> [min |-> 2500,  max |-> 4500000]]

WithinLimits(c, amount) == Limits[c].min =< amount /\ amount =< Limits[c].max

\* dispatchPayout clears an amount up to this threshold without review.
ReviewThreshold(c) == IF c = "MX" THEN 50000 ELSE 5000000

\* Twenty times the rate: 4100 COP, and 17.2 for the other two currencies.
FxRateTimes20(c) == IF c = "CO" THEN 82000 ELSE 344

\* The 1.5 % fee in cents of the local currency, rounded half up.
FeeCents(amount) == (3 * amount + 1) \div 2

\* What the payment costs in cents of USDC, rounded to the nearest cent.
FundingCents(c, amount) ==
    (40 * (100 * amount + FeeCents(amount)) + FxRateTimes20(c))
        \div (2 * FxRateTimes20(c))
==============================================================================
