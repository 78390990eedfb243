------------------------------- MODULE Escrow -------------------------------
(***************************************************************************)
(* What buying a number promises, without locks, workers, crashes and      *)
(* answers that never come: the price of a deal leaves the buyer's funds   *)
(* when the deal opens and is held; it is then either kept, because a code *)
(* was obtained, or given back, once and in full.  A deal that is settled  *)
(* stays settled.  Orders implements this specification.                   *)
(***************************************************************************)
EXTENDS Integers

CONSTANTS
  Users,    \* owners of funds
  Deals,    \* deals that may be opened
  Party,    \* the user of each deal
  Opening   \* the funds each user starts with

VARIABLES
  funds,    \* what each user can spend
  deal,     \* "none", "held", "sold" or "returned"
  stake     \* the price a deal was opened at

escrowVars == <<funds, deal, stake>>

Init ==
  /\ funds = Opening
  /\ deal = [d \in Deals |-> "none"]
  /\ stake = [d \in Deals |-> 0]

Open(d) ==
  /\ deal[d] = "none"
  /\ \E price \in 0..funds[Party[d]] :
       /\ funds' = [funds EXCEPT ![Party[d]] = @ - price]
       /\ stake' = [stake EXCEPT ![d] = price]
  /\ deal' = [deal EXCEPT ![d] = "held"]

Keep(d) ==
  /\ deal[d] = "held"
  /\ deal' = [deal EXCEPT ![d] = "sold"]
  /\ UNCHANGED <<funds, stake>>

Return(d) ==
  /\ deal[d] = "held"
  /\ deal' = [deal EXCEPT ![d] = "returned"]
  /\ funds' = [funds EXCEPT ![Party[d]] = @ + stake[d]]
  /\ UNCHANGED stake

\* A deposit or an administrator changes the funds of one user.
Adjust(u) ==
  /\ funds'[u] \in Nat
  /\ funds' = [funds EXCEPT ![u] = funds'[u]]
  /\ UNCHANGED <<deal, stake>>

Next == (\E d \in Deals : Open(d) \/ Keep(d) \/ Return(d)) \/ (\E u \in Users : Adjust(u))

Spec == Init /\ [][Next]_escrowVars
=============================================================================
