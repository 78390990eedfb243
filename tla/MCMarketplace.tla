--------------------------- MODULE MCMarketplace ----------------------------
(* The composition for TLC: one user who buys a number and adds funds, with  *)
(* one worker of each kind and one reviewer.                                 *)
EXTENDS Marketplace, TLC

CONSTANTS u1, p1, w1, d1, r1, v1, x1, photo1

OneUser == {u1}
Opened == u1 :> 1
NoDelta == [a \in {} |-> 0]
NoUser == [a \in {} |-> u1]

Buying == {p1}
Polling == {w1}
Asking == {d1}
Sending == {r1}
Reviewing == {v1}
Expiring == {x1}
Buyer == p1 :> u1
Payer == [s \in {d1, r1} |-> u1]
Photo == r1 :> photo1
Tapped == v1 :> d1
AllRefs == {p1, d1}
Everybody == {p1, w1, d1, r1, v1, x1}
TextForms == {"text"}
=============================================================================
