----------------------------- MODULE MCDeposits -----------------------------
(* Deposits for TLC: two requests of one user or of two users, receipts with *)
(* the same photo, two taps of a reviewer on the same button.                *)
EXTENDS Deposits, TLC

CONSTANTS u1, u2, d1, d2, r1, r2, v1, v2, v3, x1, a1, photo1, photo2

NoUser == [a \in {} |-> u1]
NoDelta == [a \in {} |-> 0]

\* A deduction, which the wallet can pay only after an approval.
OneAdjust == {a1}
TakeAway == a1 :> -1
AdjustedUser == a1 :> u1

OneUser == {u1}
TwoUsers == {u1, u2}
TwoRequests == {d1, d2}
TwoReceipts == {r1, r2}
TwoReviews == {v1, v2}
ThreeReviews == {v1, v2, v3}
Worker == {x1}
Opened == u1 :> 0
OpenedTwo == (u1 :> 0) @@ (u2 :> 0)

\* Both requests are of one user; two taps on d1's buttons, one on d2's.
SameDepositor == [s \in {d1, d2, r1, r2} |-> u1]
ReviewedTwice == (v1 :> d1) @@ (v2 :> d1) @@ (v3 :> d2)

\* One request and one receipt of each user, and a tap on each request.
EachTheirs == (d1 :> u1) @@ (d2 :> u2) @@ (r1 :> u1) @@ (r2 :> u2)
ReviewedOnce == (v1 :> d1) @@ (v2 :> d2)
SamePhoto == [r \in {r1, r2} |-> photo1]

SessionsThree == TwoRequests \union TwoReceipts \union ThreeReviews \union Worker
SessionsAdmin == SessionsThree \union OneAdjust
SessionsTwo == TwoRequests \union TwoReceipts \union TwoReviews \union Worker
=============================================================================
