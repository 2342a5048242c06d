------------------------------ MODULE MCSweep ------------------------------
(* Small instances of Sweep: two lambdas, two prompts *)
EXTENDS Sweep

MCLambdaList == <<0, 2>>

\* For an even number of arms each stands once in every place and once before every
\* other; for an odd number, twice
Balanced(orders, n) ==
  LET times == IF n % 2 = 0 THEN 1 ELSE 2 IN
  /\ \A x \in 0 .. n - 1, k \in 1 .. n :
       Cardinality({i \in DOMAIN orders : orders[i][k] = x}) = times
  /\ \A x, y \in 0 .. n - 1 : x # y =>
       Cardinality({i \in DOMAIN orders : \E k \in 1 .. n - 1 :
                      orders[i][k] = x /\ orders[i][k + 1] = y}) = times

ASSUME OrdersAreBalanced == \A n \in 2 .. 7 : Balanced(BalancedOrders(n), n)

=============================================================================
