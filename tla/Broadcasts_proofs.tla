------------------------- MODULE Broadcasts_proofs -------------------------
(***************************************************************************)
(* Nobody gets a broadcast twice and finished rows count truly, for every  *)
(* number of messages, workers, users and chats.                           *)
(*                                                                         *)
(* AtMostOnce is not inductive: a worker could be about to send what was   *)
(* sent.  The induction needs that a message has at most one worker on its *)
(* way through the recipients (ClaimsAreExclusive), that nobody it has     *)
(* left was reached (LeftAreUntold), and what its counters say on the way  *)
(* (WorkIsCounted).                                                        *)
(***************************************************************************)
EXTENDS Broadcasts, FiniteSetTheorems, TLAPS

-----------------------------------------------------------------------------
(* Facts about the recipients a message has reached.                       *)

\* A message reaches finitely many, so that they can be counted.
LEMMA ReachedIsFinite ==
  ASSUME BroadcastsAssumption, NEW m \in Messages
  PROVE  IsFiniteSet(Reached(m)) /\ Cardinality(Reached(m)) \in Nat
<1>1. IsFiniteSet(Recipients)
  BY FS_Union DEF BroadcastsAssumption, Recipients
<1>2. Reached(m) \in SUBSET Recipients
  BY DEF Reached
<1> QED
  BY <1>1, <1>2, FS_Subset, FS_CardinalityType

\* A step that sends nothing reaches nobody.
LEMMA SilenceReachesNobody ==
  ASSUME UNCHANGED delivered
  PROVE  \A m \in Messages : Reached(m)' = Reached(m)
BY DEF Reached

-----------------------------------------------------------------------------
(* The steps, one lemma for each.                                          *)

\* A new row is queued, unlocked and has reached nobody.
LEMMA QueueKeeps ==
  ASSUME BroadcastsAssumption, BroadcastsIInv, NEW m \in Messages, Queue(m)
  PROVE  BroadcastsIInv'
<1> DEFINE older == {n \in Messages : row[n].status # "none"}
<1> USE DEF BroadcastsIInv
<1>1. Cardinality(older) \in Nat
  <2>1. older \in SUBSET Messages
    OBVIOUS
  <2> QED
    BY <2>1, FS_Subset, FS_CardinalityType DEF BroadcastsAssumption
<1>2. PICK d \in Chats \union {ToUsers} :
        row' = [row EXCEPT ![m] = [@ EXCEPT !.status = "queued", !.destination = d,
                                            !.created = Cardinality(older)]]
  BY DEF Queue
<1>3. row[m] \in Row /\ row[m].status = "none" /\ lock[m] = Free
  BY DEF Queue, TypeOK, ClaimsAreExclusive
<1>4. /\ row'[m] \in Row /\ row'[m].status = "queued"
      /\ \A n \in Messages : n # m => row'[n] = row[n]
      /\ row' \in [Messages -> Row]
  BY <1>1, <1>2, <1>3 DEF TypeOK, Row
<1>5. UNCHANGED <<lock, active, chat, work, delivered>>
  BY DEF Queue
<1>6. TypeOK'
  BY <1>4, <1>5 DEF TypeOK
<1>7. ClaimsAreExclusive'
  BY <1>3, <1>4, <1>5 DEF ClaimsAreExclusive, Telling
<1>8. \A n \in Messages : Reached(n)' = Reached(n)
  BY <1>5, SilenceReachesNobody
<1>9. LeftAreUntold'
  BY <1>3, <1>4, <1>5, <1>8 DEF LeftAreUntold, ClaimsAreExclusive
<1>10. AtMostOnce' /\ WorkIsCounted'
  BY <1>5, <1>8 DEF AtMostOnce, WorkIsCounted, ClaimsAreExclusive
<1>11. CountersAreTrue'
  BY <1>4, <1>8 DEF CountersAreTrue, Finished
<1> QED
  BY <1>6, <1>7, <1>9, <1>10, <1>11

\* What administrators change of users and chats, no counter depends on.
LEMMA AdministrationKeeps ==
  ASSUME BroadcastsIInv,
         (\E u \in Users : ChangeUser(u)) \/ (\E c \in Chats : SetInfra(c))
  PROVE  BroadcastsIInv'
<1> USE DEF BroadcastsIInv
<1>1. UNCHANGED <<row, lock, work, delivered>>
  BY DEF ChangeUser, SetInfra
<1>2. active' \subseteq Users /\ chat' \in [Chats -> {"unset", "number", "text"}]
  BY DEF ChangeUser, SetInfra, TypeOK
<1>3. TypeOK'
  BY <1>1, <1>2 DEF TypeOK
<1>4. \A m \in Messages : Reached(m)' = Reached(m)
  BY <1>1, SilenceReachesNobody
<1>5. ClaimsAreExclusive' /\ AtMostOnce'
  BY <1>1 DEF ClaimsAreExclusive, Telling, AtMostOnce
<1>6. LeftAreUntold' /\ WorkIsCounted' /\ CountersAreTrue'
  BY <1>1, <1>4 DEF LeftAreUntold, WorkIsCounted, CountersAreTrue, ClaimsAreExclusive
<1> QED
  BY <1>3, <1>5, <1>6

\* Selecting locks free rows only, so that no claim under way loses its row.
LEMMA SelectKeeps ==
  ASSUME BroadcastsAssumption, BroadcastsIInv, NEW w \in Workers, SelectQueued(w)
  PROVE  BroadcastsIInv'
<1> DEFINE mine == {n \in Messages : row[n].status = "queued" /\ lock[n] = Free}
<1> USE DEF BroadcastsIInv
<1>1. PICK m \in mine : work' = [work EXCEPT ![w] = [@ EXCEPT !.pc = "claim", !.msg = m]]
  BY DEF SelectQueued
<1>2. /\ work[w] \in Work /\ work[w].pc = "sleep"
      /\ lock' = [n \in Messages |-> IF n \in mine THEN w ELSE lock[n]]
      /\ UNCHANGED <<row, active, chat, delivered>>
  BY DEF SelectQueued, TypeOK
<1>3. /\ work' \in [Workers -> Work]
      /\ work'[w].pc = "claim" /\ work'[w].msg = m
      /\ work'[w].sent = work[w].sent /\ work'[w].failed = work[w].failed
      /\ \A v \in Workers : v # w => work'[v] = work[v]
  BY <1>1, <1>2 DEF TypeOK, Work
<1>4. TypeOK'
  BY <1>2, <1>3 DEF TypeOK
<1>5. \A n \in Messages : lock'[n] # Free =>
        row'[n].status = "queued" /\ work'[lock'[n]].pc = "claim"
  <2> TAKE n \in Messages
  <2>1. CASE n \in mine
    BY <1>2, <1>3, <2>1
  <2>2. CASE n \notin mine
    <3>1. lock'[n] = lock[n] /\ lock[n] \in Workers \union {Free}
      BY <1>2, <2>2 DEF TypeOK
    <3> QED
      BY <1>2, <1>3, <3>1 DEF ClaimsAreExclusive
  <2> QED
    BY <2>1, <2>2
<1>6. \A v \in Workers :
        /\ work'[v].pc # "sleep" => work'[v].msg \in Messages
        /\ work'[v].pc = "claim" => lock'[work'[v].msg] = v
        /\ Telling(v)' => row'[work'[v].msg].status = "sending"
  <2> TAKE v \in Workers
  <2>1. CASE v = w
    BY <1>2, <1>3, <2>1 DEF Telling
  <2>2. CASE v # w
    <3>1. work[v].pc = "claim" => lock[work[v].msg] # Free
      BY DEF ClaimsAreExclusive, BroadcastsAssumption
    <3> QED
      BY <1>2, <1>3, <2>2, <3>1 DEF ClaimsAreExclusive, Telling
  <2> QED
    BY <2>1, <2>2
<1>7. ClaimsAreExclusive'
  BY <1>3, <1>5, <1>6 DEF ClaimsAreExclusive, Telling
<1>8. \A n \in Messages : Reached(n)' = Reached(n)
  BY <1>2, SilenceReachesNobody
<1>9. LeftAreUntold'
  <2>1. \A v \in Workers : v # w /\ work[v].pc # "sleep" => work[v].msg \in Messages
    BY DEF ClaimsAreExclusive
  <2>2. \A v \in Workers : v # w =>
          /\ work'[v].pc \in {"targets", "send"} => work'[v].msg \in Messages
          /\ work'[v].pc = "targets" => Reached(work'[v].msg) = {}
          /\ work'[v].pc = "send" => work'[v].todo \intersect Reached(work'[v].msg) = {}
    BY <1>3, <2>1 DEF LeftAreUntold
  <2> QED
    BY <1>2, <1>3, <1>8, <2>2 DEF LeftAreUntold
<1>10. AtMostOnce' /\ WorkIsCounted' /\ CountersAreTrue'
  BY <1>2, <1>3, <1>8 DEF AtMostOnce, WorkIsCounted, ClaimsAreExclusive, CountersAreTrue
<1> QED
  BY <1>4, <1>7, <1>9, <1>10

\* The claim moves its row out of everybody's reach.
LEMMA ClaimKeeps ==
  ASSUME BroadcastsAssumption, BroadcastsIInv, NEW w \in Workers, Claim(w)
  PROVE  BroadcastsIInv'
<1> DEFINE m == work[w].msg
<1> USE DEF BroadcastsIInv
<1>1. /\ m \in Messages /\ lock[m] = w /\ row[m].status = "queued"
      /\ work[w] \in Work /\ row[m] \in Row /\ work[w].pc = "claim"
  BY DEF Claim, TypeOK, ClaimsAreExclusive, BroadcastsAssumption
<1>2. /\ row' \in [Messages -> Row] /\ row'[m].status = "sending"
      /\ \A n \in Messages : n # m => row'[n] = row[n]
  BY <1>1 DEF Claim, TypeOK, Row
<1>3. /\ work' \in [Workers -> Work] /\ work'[w].pc = "targets" /\ work'[w].msg = m
      /\ work'[w].sent = work[w].sent /\ work'[w].failed = work[w].failed
      /\ \A v \in Workers : v # w => work'[v] = work[v]
  BY <1>1 DEF Claim, TypeOK, Work
<1>4. /\ UNCHANGED <<active, chat, delivered>>
      /\ \A n \in Messages : lock'[n] = IF lock[n] = w THEN Free ELSE lock[n]
      /\ lock' \in [Messages -> Workers \union {Free}]
  BY DEF Claim, Unlocked, TypeOK
<1>5. TypeOK'
  BY <1>2, <1>3, <1>4 DEF TypeOK
<1>6. \A n \in Messages : lock'[n] # Free =>
        row'[n].status = "queued" /\ work'[lock'[n]].pc = "claim"
  <2> SUFFICES ASSUME NEW n \in Messages, lock'[n] # Free
               PROVE  row'[n].status = "queued" /\ work'[lock'[n]].pc = "claim"
    OBVIOUS
  <2>1. lock'[n] = lock[n] /\ lock[n] \in Workers /\ lock[n] # w /\ lock[n] # Free /\ n # m
    BY <1>1, <1>4 DEF TypeOK
  <2> QED
    BY <1>2, <1>3, <2>1 DEF ClaimsAreExclusive
<1>7. \A v \in Workers :
        /\ work'[v].pc # "sleep" => work'[v].msg \in Messages
        /\ work'[v].pc = "claim" => lock'[work'[v].msg] = v
        /\ Telling(v)' => row'[work'[v].msg].status = "sending"
  <2> TAKE v \in Workers
  <2>1. CASE v = w
    BY <1>1, <1>2, <1>3, <2>1 DEF Telling
  <2>2. CASE v # w
    BY <1>1, <1>2, <1>3, <1>4, <2>2 DEF ClaimsAreExclusive, Telling
  <2> QED
    BY <2>1, <2>2
<1>8. \A v \in Workers : v # w /\ Telling(v) => work[v].msg # m
  BY <1>1 DEF ClaimsAreExclusive
<1>9. \A v1, v2 \in Workers :
        Telling(v1)' /\ Telling(v2)' /\ work'[v1].msg = work'[v2].msg => v1 = v2
  BY <1>3, <1>8 DEF ClaimsAreExclusive, Telling
<1>10. ClaimsAreExclusive'
  BY <1>6, <1>7, <1>9 DEF ClaimsAreExclusive, Telling
<1>11. \A n \in Messages : Reached(n)' = Reached(n)
  BY <1>4, SilenceReachesNobody
<1>12. LeftAreUntold'
  <2>1. \A v \in Workers : v # w /\ work[v].pc # "sleep" => work[v].msg \in Messages
    BY DEF ClaimsAreExclusive
  <2>2. \A v \in Workers : v # w =>
          /\ work'[v].pc \in {"targets", "send"} => work'[v].msg \in Messages
          /\ work'[v].pc = "targets" => Reached(work'[v].msg) = {}
          /\ work'[v].pc = "send" => work'[v].todo \intersect Reached(work'[v].msg) = {}
    BY <1>3, <2>1 DEF LeftAreUntold
  <2>3. Reached(m) = {}
    BY <1>1 DEF LeftAreUntold
  <2>4. \A v \in Workers :
          /\ work'[v].pc \in {"targets", "send"} => work'[v].msg \in Messages
          /\ work'[v].pc = "targets" => Reached(work'[v].msg) = {}
          /\ work'[v].pc = "send" => work'[v].todo \intersect Reached(work'[v].msg) = {}
    BY <1>1, <1>3, <2>2, <2>3
  <2>5. \A n \in Messages : row'[n].status \in {"none", "queued"} => Reached(n) = {}
    BY <1>2 DEF LeftAreUntold
  <2> QED
    BY <1>11, <2>4, <2>5 DEF LeftAreUntold
<1>13. AtMostOnce' /\ WorkIsCounted' /\ CountersAreTrue'
  BY <1>1, <1>2, <1>3, <1>4, <1>11 DEF AtMostOnce, WorkIsCounted, ClaimsAreExclusive, CountersAreTrue, Finished
<1> QED
  BY <1>5, <1>10, <1>12, <1>13

\* Reading the recipients starts with nobody reached and nothing counted.
LEMMA ReadKeeps ==
  ASSUME BroadcastsAssumption, BroadcastsIInv, NEW w \in Workers, ReadTargets(w)
  PROVE  BroadcastsIInv'
<1> DEFINE m == work[w].msg
           targets == IF row[m].destination = ToUsers THEN active
                      ELSE {row[m].destination}
<1> USE DEF BroadcastsIInv
<1>1. /\ m \in Messages /\ work[w] \in Work /\ row[m] \in Row /\ work[w].pc = "targets"
      /\ Reached(m) = {} /\ work[w].sent = 0 /\ work[w].failed = 0
  BY DEF ReadTargets, TypeOK, ClaimsAreExclusive, LeftAreUntold, WorkIsCounted
<1>2. targets \subseteq Recipients
  BY <1>1 DEF TypeOK, Row, Recipients
<1>3. UNCHANGED <<row, lock, active, chat, delivered>>
  BY DEF ReadTargets
<1>4. /\ work' \in [Workers -> Work] /\ work'[w].pc = "send" /\ work'[w].msg = m
      /\ work'[w].sent = 0 /\ work'[w].failed = 0
      /\ \A v \in Workers : v # w => work'[v] = work[v]
  BY <1>1, <1>2 DEF ReadTargets, TypeOK, Work
<1>5. TypeOK' /\ AtMostOnce'
  BY <1>3, <1>4 DEF TypeOK, AtMostOnce
<1>6. ClaimsAreExclusive'
  <2>1. \A v \in Workers : Telling(v)' => Telling(v) /\ work'[v].msg = work[v].msg
    BY <1>1, <1>4 DEF Telling
  <2>2. \A n \in Messages : lock[n] # w
    BY <1>1 DEF ClaimsAreExclusive, BroadcastsAssumption
  <2>3. \A n \in Messages : lock'[n] # Free =>
          row'[n].status = "queued" /\ work'[lock'[n]].pc = "claim"
    BY <1>3, <1>4, <2>2 DEF ClaimsAreExclusive, TypeOK
  <2>4. \A v \in Workers :
          /\ work'[v].pc # "sleep" => work'[v].msg \in Messages
          /\ work'[v].pc = "claim" => lock'[work'[v].msg] = v
          /\ Telling(v)' => row'[work'[v].msg].status = "sending"
    BY <1>1, <1>3, <1>4, <2>1 DEF ClaimsAreExclusive
  <2> QED
    BY <2>1, <2>3, <2>4 DEF ClaimsAreExclusive
<1>7. \A n \in Messages : Reached(n)' = Reached(n)
  BY <1>3, SilenceReachesNobody
<1>8. \A v \in Workers : work'[v].pc \in {"targets", "send"} => work'[v].msg \in Messages
  BY <1>6 DEF ClaimsAreExclusive
<1>9. LeftAreUntold'
  <2>1. \A v \in Workers :
          /\ work'[v].pc = "targets" => Reached(work'[v].msg) = {}
          /\ work'[v].pc = "send" => work'[v].todo \intersect Reached(work'[v].msg) = {}
    BY <1>1, <1>4 DEF LeftAreUntold
  <2> QED
    BY <1>3, <1>7, <1>8, <2>1 DEF LeftAreUntold
<1>10. WorkIsCounted'
  <2>1. \A v \in Workers :
          /\ work'[v].pc # "send" => work'[v].sent = 0 /\ work'[v].failed = 0
          /\ work'[v].pc = "send" =>
               /\ work'[v].sent <= Cardinality(Reached(work'[v].msg))
               /\ Cardinality(Reached(work'[v].msg)) <= work'[v].sent + work'[v].failed
    <3> TAKE v \in Workers
    <3>1. CASE v = w
      <4>1. Cardinality(Reached(m)) = 0
        BY <1>1, FS_EmptySet
      <4> QED
        BY <1>4, <3>1, <4>1
    <3>2. CASE v # w
      BY <1>4, <3>2 DEF WorkIsCounted
    <3> QED
      BY <3>1, <3>2
  <2> QED
    BY <1>7, <1>8, <2>1 DEF WorkIsCounted
<1>11. CountersAreTrue'
  BY <1>3, <1>7 DEF CountersAreTrue
<1> QED
  BY <1>5, <1>6, <1>9, <1>10, <1>11

\* A worker that stops, for whatever reason, leaves its broadcast as it is.
LEMMA StopKeeps ==
  ASSUME BroadcastsAssumption, BroadcastsIInv, NEW w \in Workers,
         TargetsUnreadable(w) \/ Abort(w)
  PROVE  BroadcastsIInv'
<1> USE DEF BroadcastsIInv
<1>1. UNCHANGED <<row, active, chat, delivered>>
  BY DEF TargetsUnreadable, Abort
<1>2. /\ work' \in [Workers -> Work]
      /\ work'[w].pc = "sleep" /\ work'[w].sent = 0 /\ work'[w].failed = 0
      /\ \A v \in Workers : v # w => work'[v] = work[v]
  <2>1. work' = [work EXCEPT ![w] = Asleep] /\ work \in [Workers -> Work]
    BY DEF TargetsUnreadable, Abort, TypeOK
  <2>2. Asleep \in Work /\ Asleep.pc = "sleep" /\ Asleep.sent = 0 /\ Asleep.failed = 0
    BY DEF Asleep, Work
  <2> QED
    BY <2>1, <2>2
<1>3. \A n \in Messages : lock'[n] = IF lock[n] = w THEN Free ELSE lock[n]
  <2>1. CASE TargetsUnreadable(w)
    <3>1. \A n \in Messages : lock[n] # w
      BY <2>1 DEF TargetsUnreadable, ClaimsAreExclusive, BroadcastsAssumption
    <3> QED
      BY <2>1, <3>1 DEF TargetsUnreadable
  <2>2. CASE Abort(w)
    BY <2>2 DEF Abort, Unlocked
  <2> QED
    BY <2>1, <2>2
<1>4. lock' \in [Messages -> Workers \union {Free}]
  BY DEF TargetsUnreadable, Abort, Unlocked, TypeOK
<1>5. TypeOK' /\ AtMostOnce'
  BY <1>1, <1>2, <1>4 DEF TypeOK, AtMostOnce
<1>6. ClaimsAreExclusive'
  <2>1. \A n \in Messages : lock'[n] # Free =>
          row'[n].status = "queued" /\ work'[lock'[n]].pc = "claim"
    BY <1>1, <1>2, <1>3 DEF ClaimsAreExclusive, TypeOK
  <2>2. \A v \in Workers :
          /\ work'[v].pc # "sleep" => work'[v].msg \in Messages
          /\ work'[v].pc = "claim" => lock'[work'[v].msg] = v
          /\ Telling(v)' => row'[work'[v].msg].status = "sending"
    BY <1>1, <1>2, <1>3 DEF ClaimsAreExclusive, Telling
  <2> QED
    BY <1>2, <2>1, <2>2 DEF ClaimsAreExclusive, Telling
<1>7. \A n \in Messages : Reached(n)' = Reached(n)
  BY <1>1, SilenceReachesNobody
<1>8. \A v \in Workers : work'[v].pc # "sleep" => work'[v].msg \in Messages
  BY <1>6 DEF ClaimsAreExclusive
<1>9. LeftAreUntold' /\ WorkIsCounted'
  <2>1. \A v \in Workers :
          /\ work'[v].pc = "targets" => Reached(work'[v].msg) = {}
          /\ work'[v].pc = "send" => work'[v].todo \intersect Reached(work'[v].msg) = {}
    BY <1>2 DEF LeftAreUntold
  <2>2. \A v \in Workers :
          /\ work'[v].pc # "send" => work'[v].sent = 0 /\ work'[v].failed = 0
          /\ work'[v].pc = "send" =>
               /\ work'[v].sent <= Cardinality(Reached(work'[v].msg))
               /\ Cardinality(Reached(work'[v].msg)) <= work'[v].sent + work'[v].failed
    BY <1>2 DEF WorkIsCounted
  <2>3. LeftAreUntold'
    BY <1>1, <1>7, <1>8, <2>1 DEF LeftAreUntold
  <2>4. WorkIsCounted'
    BY <1>7, <1>8, <2>2 DEF WorkIsCounted
  <2> QED
    BY <2>3, <2>4
<1>10. CountersAreTrue'
  BY <1>1, <1>7 DEF CountersAreTrue
<1> QED
  BY <1>5, <1>6, <1>9, <1>10

\* One recipient more, whom no other worker had and this one had left: the
\* delivery is his first, and it is counted as a success or as a failure.
LEMMA SendKeeps ==
  ASSUME BroadcastsAssumption, BroadcastsIInv, NEW w \in Workers, Send(w)
  PROVE  BroadcastsIInv'
<1> DEFINE m == work[w].msg
<1> USE DEF BroadcastsIInv
<1>1. /\ m \in Messages /\ work[w] \in Work /\ work[w].pc = "send"
      /\ row[m].status = "sending"
  BY DEF Send, TypeOK, ClaimsAreExclusive, Telling
<1>2. PICK r \in work[w].todo, got \in {0, 1}, raised \in BOOLEAN :
        /\ got = 1 \/ raised
        /\ delivered' = [delivered EXCEPT ![m][r] = @ + got]
        /\ work' = [work EXCEPT ![w] =
             IF raised THEN [@ EXCEPT !.failed = work[w].failed + 1,
                                      !.todo = work[w].todo \ {r}]
             ELSE [@ EXCEPT !.sent = work[w].sent + 1, !.todo = work[w].todo \ {r}]]
  BY DEF Send
<1>3. /\ r \in Recipients /\ delivered \in [Messages -> [Recipients -> Nat]]
      /\ delivered[m][r] = 0
  BY <1>1 DEF TypeOK, Work, LeftAreUntold, Reached
<1>4. /\ delivered' \in [Messages -> [Recipients -> Nat]]
      /\ delivered'[m][r] = got
      /\ \A q \in Recipients : q # r => delivered'[m][q] = delivered[m][q]
      /\ \A n \in Messages : n # m => delivered'[n] = delivered[n]
  BY <1>1, <1>2, <1>3
<1>5. /\ work' \in [Workers -> Work] /\ work'[w].pc = "send"
      /\ work'[w].todo = work[w].todo \ {r}
      /\ \A v \in Workers : v # w => work'[v] = work[v]
      /\ \A v \in Workers : work'[v].pc = work[v].pc /\ work'[v].msg = work[v].msg
  <2>1. work[w].sent \in Nat /\ work[w].failed \in Nat /\ work \in [Workers -> Work]
    BY <1>1 DEF Work, TypeOK
  <2>2. \A v \in Workers : v # w => work'[v] = work[v]
    BY <1>2, <2>1
  <2>3. /\ work'[w] \in Work
        /\ work'[w].pc = work[w].pc /\ work'[w].msg = work[w].msg
        /\ work'[w].todo = work[w].todo \ {r}
    <3>1. CASE raised
      <4>1. work'[w] = [work[w] EXCEPT !.failed = work[w].failed + 1,
                                       !.todo = work[w].todo \ {r}]
        BY <1>2, <2>1, <3>1
      <4>2. work[w].failed + 1 \in Nat /\ work[w].todo \ {r} \in SUBSET Recipients
        BY <1>1, <2>1 DEF Work
      <4>3. work'[w] \in Work
        BY <1>1, <4>1, <4>2 DEF Work
      <4>4. /\ work'[w].pc = work[w].pc /\ work'[w].msg = work[w].msg
            /\ work'[w].todo = work[w].todo \ {r}
        BY <1>1, <4>1 DEF Work
      <4> QED
        BY <4>3, <4>4
    <3>2. CASE ~raised
      <4>1. work'[w] = [work[w] EXCEPT !.sent = work[w].sent + 1,
                                       !.todo = work[w].todo \ {r}]
        BY <1>2, <2>1, <3>2
      <4>2. work[w].sent + 1 \in Nat /\ work[w].todo \ {r} \in SUBSET Recipients
        BY <1>1, <2>1 DEF Work
      <4>3. work'[w] \in Work
        BY <1>1, <4>1, <4>2 DEF Work
      <4>4. /\ work'[w].pc = work[w].pc /\ work'[w].msg = work[w].msg
            /\ work'[w].todo = work[w].todo \ {r}
        BY <1>1, <4>1 DEF Work
      <4> QED
        BY <4>3, <4>4
    <3> QED
      BY <3>1, <3>2
  <2>4. work' = [v \in Workers |-> work'[v]]
    BY <1>2, <2>1
  <2>5. work' \in [Workers -> Work]
    BY <2>1, <2>2, <2>3, <2>4
  <2> QED
    BY <1>1, <2>2, <2>3, <2>5
<1>6. UNCHANGED <<row, lock, active, chat>>
  BY DEF Send
<1>7. TypeOK'
  BY <1>4, <1>5, <1>6 DEF TypeOK
<1>8. AtMostOnce'
  BY <1>3, <1>4 DEF AtMostOnce
<1>9. ClaimsAreExclusive'
  <2>1. \A n \in Messages : lock'[n] # Free =>
          row'[n].status = "queued" /\ work'[lock'[n]].pc = "claim"
    BY <1>5, <1>6 DEF ClaimsAreExclusive, TypeOK
  <2>2. \A v \in Workers :
          /\ work'[v].pc # "sleep" => work'[v].msg \in Messages
          /\ work'[v].pc = "claim" => lock'[work'[v].msg] = v
          /\ Telling(v)' => row'[work'[v].msg].status = "sending"
    BY <1>5, <1>6 DEF ClaimsAreExclusive, Telling
  <2>3. \A v1, v2 \in Workers :
          Telling(v1)' /\ Telling(v2)' /\ work'[v1].msg = work'[v2].msg => v1 = v2
    BY <1>5 DEF ClaimsAreExclusive, Telling
  <2> QED
    BY <2>1, <2>2, <2>3 DEF ClaimsAreExclusive, Telling
<1>10. \A n \in Messages : n # m => Reached(n)' = Reached(n)
  BY <1>4 DEF Reached
<1> DEFINE now == {q \in Recipients : delivered'[m][q] > 0}
<1>11. /\ r \notin Reached(m)
       /\ now = IF got = 1 THEN Reached(m) \union {r} ELSE Reached(m)
  BY <1>3, <1>4 DEF Reached
<1>12. \A n \in Messages : n = m => Reached(n)' = now
  BY DEF Reached
<1> DEFINE reached(n) == IF n = m THEN now ELSE Reached(n)
<1>13. \A n \in Messages : Reached(n)' = reached(n)
  BY <1>10, <1>12
<1>14. \A v \in Workers : v # w /\ Telling(v) => work[v].msg # m
  BY <1>1 DEF ClaimsAreExclusive, Telling
<1>15. \A v \in Workers : work'[v].pc \in {"targets", "send"} => work'[v].msg \in Messages
  BY <1>9 DEF ClaimsAreExclusive
<1>16. LeftAreUntold'
  <2>1. \A n \in Messages : row'[n].status \in {"none", "queued"} => Reached(n)' = {}
    BY <1>1, <1>6, <1>10 DEF LeftAreUntold
  <2>2. work'[w].todo \intersect now = {}
    BY <1>1, <1>5, <1>11 DEF LeftAreUntold
  <2>3. \A v \in Workers : v # w =>
          /\ work'[v].pc = "targets" => Reached(work'[v].msg) = {}
          /\ work'[v].pc = "send" => work'[v].todo \intersect Reached(work'[v].msg) = {}
    BY <1>5 DEF LeftAreUntold
  <2>4. \A v \in Workers : v # w =>
          (work'[v].pc \in {"targets", "send"} => work'[v].msg # m)
    BY <1>5, <1>14 DEF Telling
  <2>5. work'[w].msg = m /\ work'[w].pc = "send"
    BY <1>5
  <2>6. \A v \in Workers :
          /\ work'[v].pc = "targets" => reached(work'[v].msg) = {}
          /\ work'[v].pc = "send" => work'[v].todo \intersect reached(work'[v].msg) = {}
    BY <2>2, <2>3, <2>4, <2>5
  <2> HIDE DEF reached
  <2> QED
    BY <1>15, <1>13, <2>1, <2>6 DEF LeftAreUntold
<1>17. WorkIsCounted'
  <2>1. /\ work'[w].sent <= Cardinality(now)
        /\ Cardinality(now) <= work'[w].sent + work'[w].failed
    <3>1. /\ IsFiniteSet(Reached(m)) /\ Cardinality(Reached(m)) \in Nat
          /\ Cardinality(Reached(m) \union {r}) = Cardinality(Reached(m)) + 1
      BY <1>1, <1>11, ReachedIsFinite, FS_AddElement
    <3>2. /\ work[w].sent \in Nat /\ work[w].failed \in Nat
          /\ work[w].sent <= Cardinality(Reached(m))
          /\ Cardinality(Reached(m)) <= work[w].sent + work[w].failed
      BY <1>1 DEF Work, WorkIsCounted
    <3>3. Cardinality(now) = Cardinality(Reached(m)) + got
      <4>1. CASE got = 1
        <5>1. now = Reached(m) \union {r}
          BY <1>11, <4>1
        <5> QED
          BY <3>1, <4>1, <5>1
      <4>2. CASE got = 0
        <5>1. now = Reached(m)
          BY <1>11, <4>2
        <5> QED
          BY <3>1, <4>2, <5>1
      <4> QED
        BY <4>1, <4>2
    <3>4. CASE raised
      <4>1. work'[w].sent = work[w].sent /\ work'[w].failed = work[w].failed + 1
        BY <1>1, <1>2, <3>4 DEF Work, TypeOK
      <4> QED
        BY <3>1, <3>2, <3>3, <4>1
    <3>5. CASE ~raised
      <4>1. /\ work'[w].sent = work[w].sent + 1 /\ work'[w].failed = work[w].failed
            /\ got = 1
        BY <1>1, <1>2, <3>5 DEF Work, TypeOK
      <4> QED
        BY <3>1, <3>2, <3>3, <4>1
    <3> QED
      BY <3>4, <3>5
  <2>2. \A v \in Workers : v # w =>
          /\ work'[v].pc # "send" => work'[v].sent = 0 /\ work'[v].failed = 0
          /\ work'[v].pc = "send" =>
               /\ work'[v].msg # m
               /\ work'[v].sent <= Cardinality(Reached(work'[v].msg))
               /\ Cardinality(Reached(work'[v].msg)) <= work'[v].sent + work'[v].failed
    BY <1>5, <1>14 DEF WorkIsCounted, Telling
  <2>3. work'[w].msg = m /\ work'[w].pc = "send"
    BY <1>5
  <2>4. \A v \in Workers :
          /\ work'[v].pc # "send" => work'[v].sent = 0 /\ work'[v].failed = 0
          /\ work'[v].pc = "send" =>
               /\ work'[v].sent <= Cardinality(reached(work'[v].msg))
               /\ Cardinality(reached(work'[v].msg)) <= work'[v].sent + work'[v].failed
    BY <2>1, <2>2, <2>3
  <2> HIDE DEF reached
  <2> QED
    BY <1>15, <1>13, <2>4 DEF WorkIsCounted
<1>18. CountersAreTrue'
  BY <1>1, <1>6, <1>10 DEF CountersAreTrue, Finished
<1> QED
  BY <1>7, <1>8, <1>9, <1>16, <1>17, <1>18

\* The row gets the counters of the one worker that told it.
LEMMA RecordKeeps ==
  ASSUME BroadcastsAssumption, BroadcastsIInv, NEW w \in Workers, Record(w)
  PROVE  BroadcastsIInv'
<1> DEFINE m == work[w].msg
           result == Outcome(work[w].sent, work[w].failed)
<1> USE DEF BroadcastsIInv
<1>1. /\ m \in Messages /\ lock[m] = Free /\ row[m] \in Row
      /\ work[w] \in Work /\ work[w].pc = "send" /\ row[m].status = "sending"
      /\ work[w].sent \in Nat /\ work[w].failed \in Nat
  BY DEF Record, TypeOK, ClaimsAreExclusive, Telling, Work
<1>2. /\ result \in Finished
      /\ result = "completed" => work[w].failed = 0
      /\ result = "failed" => work[w].sent = 0
  BY <1>1 DEF Outcome, Finished
<1>3. /\ row' \in [Messages -> Row]
      /\ row'[m].status = result
      /\ row'[m].sent = work[w].sent /\ row'[m].failed = work[w].failed
      /\ \A n \in Messages : n # m => row'[n] = row[n]
  <2>1. row' = [row EXCEPT ![m] = [row[m] EXCEPT !.sent = work[w].sent,
                                     !.failed = work[w].failed, !.status = result]]
    BY DEF Record
  <2>2. row'[m] = [row[m] EXCEPT !.sent = work[w].sent, !.failed = work[w].failed,
                                 !.status = result]
    BY <1>1, <2>1 DEF TypeOK
  <2>3. row'[m] \in Row
    BY <1>1, <1>2, <2>2 DEF Row
  <2>4. /\ row'[m].status = result
        /\ row'[m].sent = work[w].sent /\ row'[m].failed = work[w].failed
    BY <1>1, <2>2 DEF Row
  <2>5. \A n \in Messages : n # m => row'[n] = row[n]
    BY <2>1 DEF TypeOK
  <2>6. row' \in [Messages -> Row]
    BY <2>1, <2>3, <2>5 DEF TypeOK
  <2> QED
    BY <2>4, <2>5, <2>6
<1>4. UNCHANGED <<lock, active, chat, delivered>>
  BY DEF Record
<1>5. /\ work' \in [Workers -> Work]
      /\ work'[w].pc = "sleep" /\ work'[w].sent = 0 /\ work'[w].failed = 0
      /\ \A v \in Workers : v # w => work'[v] = work[v]
  <2>1. work' = [work EXCEPT ![w] = Asleep] /\ work \in [Workers -> Work]
    BY DEF Record, TypeOK
  <2>2. Asleep \in Work /\ Asleep.pc = "sleep" /\ Asleep.sent = 0 /\ Asleep.failed = 0
    BY DEF Asleep, Work
  <2> QED
    BY <2>1, <2>2
<1>6. TypeOK' /\ AtMostOnce'
  BY <1>3, <1>4, <1>5 DEF TypeOK, AtMostOnce
<1>7. \A v \in Workers : v # w /\ Telling(v) => work[v].msg # m
  BY <1>1 DEF ClaimsAreExclusive, Telling
<1>8. ClaimsAreExclusive'
  <2>1. \A n \in Messages : lock[n] # w /\ (lock[n] # Free => n # m)
    BY <1>1 DEF ClaimsAreExclusive, BroadcastsAssumption
  <2>2. \A n \in Messages : lock'[n] # Free =>
          row'[n].status = "queued" /\ work'[lock'[n]].pc = "claim"
    BY <1>3, <1>4, <1>5, <2>1 DEF ClaimsAreExclusive, TypeOK
  <2>3. \A v \in Workers :
          /\ work'[v].pc # "sleep" => work'[v].msg \in Messages
          /\ work'[v].pc = "claim" => lock'[work'[v].msg] = v
          /\ Telling(v)' => row'[work'[v].msg].status = "sending"
    BY <1>3, <1>4, <1>5, <1>7 DEF ClaimsAreExclusive, Telling
  <2>4. \A v1, v2 \in Workers :
          Telling(v1)' /\ Telling(v2)' /\ work'[v1].msg = work'[v2].msg => v1 = v2
    BY <1>5 DEF ClaimsAreExclusive, Telling
  <2> QED
    BY <2>2, <2>3, <2>4 DEF ClaimsAreExclusive, Telling
<1>9. \A n \in Messages : Reached(n)' = Reached(n)
  BY <1>4, SilenceReachesNobody
<1>10. \A v \in Workers : work'[v].pc # "sleep" => work'[v].msg \in Messages
  BY <1>8 DEF ClaimsAreExclusive
<1>11. LeftAreUntold'
  <2>1. \A v \in Workers :
          /\ work'[v].pc = "targets" => Reached(work'[v].msg) = {}
          /\ work'[v].pc = "send" => work'[v].todo \intersect Reached(work'[v].msg) = {}
    BY <1>5 DEF LeftAreUntold
  <2>2. \A n \in Messages : row'[n].status \in {"none", "queued"} => Reached(n) = {}
    BY <1>2, <1>3 DEF LeftAreUntold, Finished
  <2> QED
    BY <1>9, <1>10, <2>1, <2>2 DEF LeftAreUntold
<1>12. WorkIsCounted'
  <2>1. \A v \in Workers :
          /\ work'[v].pc # "send" => work'[v].sent = 0 /\ work'[v].failed = 0
          /\ work'[v].pc = "send" =>
               /\ work'[v].sent <= Cardinality(Reached(work'[v].msg))
               /\ Cardinality(Reached(work'[v].msg)) <= work'[v].sent + work'[v].failed
    BY <1>5 DEF WorkIsCounted
  <2> QED
    BY <1>9, <1>10, <2>1 DEF WorkIsCounted
<1>13. CountersAreTrue'
  <2>1. /\ work[w].sent <= Cardinality(Reached(m))
        /\ Cardinality(Reached(m)) <= work[w].sent + work[w].failed
    BY <1>1 DEF WorkIsCounted
  <2>2. \A n \in Messages :
          /\ row'[n].status \in Finished =>
               /\ row'[n].sent <= Cardinality(Reached(n))
               /\ Cardinality(Reached(n)) <= row'[n].sent + row'[n].failed
          /\ row'[n].status = "completed" => row'[n].failed = 0
          /\ row'[n].status = "failed" => row'[n].sent = 0
    <3> TAKE n \in Messages
    <3>1. CASE n = m
      BY <1>2, <1>3, <2>1, <3>1
    <3>2. CASE n # m
      BY <1>3, <3>2 DEF CountersAreTrue
    <3> QED
      BY <3>1, <3>2
  <2> QED
    BY <1>9, <2>2 DEF CountersAreTrue
<1> QED
  BY <1>6, <1>8, <1>11, <1>12, <1>13

-----------------------------------------------------------------------------
(* The theorems.                                                           *)

\* The invariant holds before anything is queued.
LEMMA BroadcastsInitially ==
  ASSUME BroadcastsAssumption, Init
  PROVE  BroadcastsIInv
<1>1. TypeOK
  <2>1. NewRow \in Row /\ Asleep \in Work
    BY DEF NewRow, Row, Asleep, Work
  <2> QED
    BY <2>1 DEF Init, TypeOK
<1>2. \A m \in Messages : Reached(m) = {}
  BY DEF Init, Reached
<1>3. /\ \A m \in Messages : row[m].status = "none" /\ lock[m] = Free
      /\ \A w \in Workers : work[w].pc = "sleep" /\ work[w].sent = 0 /\ work[w].failed = 0
  BY DEF Init, NewRow, Asleep
<1>4. ClaimsAreExclusive /\ LeftAreUntold /\ WorkIsCounted
  BY <1>2, <1>3 DEF ClaimsAreExclusive, Telling, LeftAreUntold, WorkIsCounted
<1>5. AtMostOnce /\ CountersAreTrue
  BY <1>3 DEF Init, AtMostOnce, CountersAreTrue, Finished
<1> QED
  BY <1>1, <1>4, <1>5 DEF BroadcastsIInv

\* A step that changes nothing keeps the invariant.
LEMMA BroadcastsStutter ==
  ASSUME BroadcastsIInv, UNCHANGED vars
  PROVE  BroadcastsIInv'
<1>1. \A m \in Messages : Reached(m)' = Reached(m)
  BY SilenceReachesNobody DEF vars
<1>2. TypeOK' /\ ClaimsAreExclusive' /\ AtMostOnce'
  BY DEF vars, BroadcastsIInv, TypeOK, ClaimsAreExclusive, Telling, AtMostOnce
<1>3. LeftAreUntold' /\ WorkIsCounted' /\ CountersAreTrue'
  BY <1>1 DEF vars, BroadcastsIInv, LeftAreUntold, WorkIsCounted, CountersAreTrue,
              ClaimsAreExclusive
<1> QED
  BY <1>2, <1>3 DEF BroadcastsIInv

\* Every step keeps the invariant.
LEMMA BroadcastsInductive == BroadcastsIInv /\ [Next]_vars => BroadcastsIInv'
<1> SUFFICES ASSUME BroadcastsIInv, [Next]_vars
             PROVE  BroadcastsIInv'
  OBVIOUS
<1>1. CASE UNCHANGED vars
  BY <1>1, BroadcastsStutter
<1>2. CASE \E m \in Messages : Queue(m)
  BY <1>2, BroadcastsAssumption, QueueKeeps
<1>3. CASE (\E u \in Users : ChangeUser(u)) \/ (\E c \in Chats : SetInfra(c))
  BY <1>3, AdministrationKeeps
<1>4. ASSUME NEW w \in Workers, WorkerNext(w) \/ Abort(w)
      PROVE  BroadcastsIInv'
  BY <1>4, BroadcastsAssumption, SelectKeeps, ClaimKeeps, ReadKeeps, SendKeeps,
     RecordKeeps, StopKeeps DEF WorkerNext
<1> QED
  BY <1>1, <1>2, <1>3, <1>4 DEF Next

\* Broadcast rows, locks and workers keep their types.
THEOREM BroadcastsKeepTypes == Spec => []TypeOK
<1>1. Init => BroadcastsIInv
  BY BroadcastsAssumption, BroadcastsInitially
<1>2. BroadcastsIInv /\ [Next]_vars => BroadcastsIInv'
  BY BroadcastsInductive
<1>3. BroadcastsIInv => TypeOK
  BY DEF BroadcastsIInv
<1> QED
  BY <1>1, <1>2, <1>3, PTL DEF Spec

\* Nobody gets a broadcast twice, however many workers run, stop and start
\* again, and whatever Telegram reports (process_broadcasts).
THEOREM BroadcastsTellOnce == Spec => []AtMostOnce
<1>1. Init => BroadcastsIInv
  BY BroadcastsAssumption, BroadcastsInitially
<1>2. BroadcastsIInv /\ [Next]_vars => BroadcastsIInv'
  BY BroadcastsInductive
<1>3. BroadcastsIInv => AtMostOnce
  BY DEF BroadcastsIInv
<1> QED
  BY <1>1, <1>2, <1>3, PTL DEF Spec

\* The counters of every finished broadcast enclose the number of people it
\* reached, and its status says what they say (process_broadcasts).
THEOREM BroadcastsCountTruly == Spec => []CountersAreTrue
<1>1. Init => BroadcastsIInv
  BY BroadcastsAssumption, BroadcastsInitially
<1>2. BroadcastsIInv /\ [Next]_vars => BroadcastsIInv'
  BY BroadcastsInductive
<1>3. BroadcastsIInv => CountersAreTrue
  BY DEF BroadcastsIInv
<1> QED
  BY <1>1, <1>2, <1>3, PTL DEF Spec
=============================================================================
