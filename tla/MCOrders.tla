------------------------------ MODULE MCOrders ------------------------------
(* Orders for TLC.  One user with one wallet: two purchases that compete for *)
(* it, one worker or two.                                                    *)
EXTENDS Orders, TLC

CONSTANTS u1, p1, p2, w1, w2

OneUser == {u1}
TwoPurchases == {p1, p2}
BothMine == (p1 :> u1) @@ (p2 :> u1)
OneWorker == {w1}
TwoWorkers == {w1, w2}

\* At a price of 1 the wallet pays for one purchase, and for the other after a
\* refund (Tight); or for both, or for one of 2 (Ample).
Tight == u1 :> 1
Ample == u1 :> 2
NoDelta == [a \in {} |-> 0]
NoUser == [a \in {} |-> u1]

WithTwoWorkers == TwoPurchases \union TwoWorkers
WithOneWorker == TwoPurchases \union OneWorker

EveryForm == {"text", "json", "echo"}
TextOrJson == {"text", "json"}
TextOnly == {"text"}
JsonOnly == {"json"}

\* Workers, and purchases of one user, have no names the properties could tell
\* apart.
Interchangeable ==
  {f @@ g : f \in Permutations(TwoPurchases), g \in Permutations(TwoWorkers)}
=============================================================================
