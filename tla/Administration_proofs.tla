----------------------- MODULE Administration_proofs -----------------------
(***************************************************************************)
(* Administrators and customers, for any commands, rows, columns and       *)
(* customers: the tables keep their types, a method with deposits stays,   *)
(* nobody gets an order or a payment request past the gates, and the audit *)
(* log tells what happened and by whom.                                    *)
(*                                                                         *)
(* What a command writes is a row again (MergedIsRow, InsertedIsRow); what *)
(* a customer has seen is remembered by every step, whoever takes it       *)
(* (Remembered), so that the gates need only the customer's own steps.     *)
(* What a command has read is still so in the columns that no rival edits  *)
(* (ReadIsCurrent), so that its audit row tells the truth.                 *)
(***************************************************************************)
EXTENDS Administration, WellFoundedInduction, TLAPS

-----------------------------------------------------------------------------
(* The rows.                                                               *)

RowsTyped ==
  /\ row \in [Keys -> Row \union {Absent}]
  /\ \A k \in Keys : row[k] = Absent \/ row[k] \in [Schema[k] -> Values]

\* One row is replaced by a row of its columns, or by nothing.
LEMMA OneRowWritten ==
  ASSUME RowsTyped, NEW t \in Keys, NEW new, row' = [row EXCEPT ![t] = new],
         new = Absent \/ new \in [Schema[t] -> Values]
  PROVE  /\ RowsTyped' /\ row'[t] = new
         /\ \A k \in Keys : k # t => row'[k] = row[k]
<1>1. new \in Row \union {Absent}
  BY DEF Row
<1>2. /\ row' \in [Keys -> Row \union {Absent}] /\ row'[t] = new
      /\ \A k \in Keys : k # t => row'[k] = row[k]
  BY <1>1 DEF RowsTyped
<1> QED
  BY <1>2 DEF RowsTyped

\* A row with some columns changed to what the command writes.
LEMMA MergedIsRow ==
  ASSUME AdministrationAssumption, RowsTyped, NEW c \in Commands, row[Target[c]] # Absent
  PROVE  Merged(c) \in [Schema[Target[c]] -> Values]
<1> DEFINE t == Target[c]
           dirty == {x \in DOMAIN Writes[c] : Writes[c][x] # command[c].seen[x]}
<1>1. /\ t \in Keys /\ DOMAIN Writes[c] \subseteq Schema[t]
      /\ Writes[c] \in [DOMAIN Writes[c] -> Values]
      /\ row[t] \in [Schema[t] -> Values]
  BY DEF AdministrationAssumption, RowsTyped
<1>2. Changes(c) = [x \in dirty |-> Writes[c][x]]
  BY DEF Changes
<1>3. dirty \subseteq Schema[t] /\ \A x \in dirty : Writes[c][x] \in Values
  BY <1>1
<1> HIDE DEF dirty, t
<1>4. DOMAIN Changes(c) = dirty /\ \A x \in dirty : Changes(c)[x] \in Values
  BY <1>2, <1>3
<1> QED
  BY <1>1, <1>4 DEF Merged, t

\* A command that finds no row inserts a whole one.
LEMMA InsertedIsRow ==
  ASSUME AdministrationAssumption, LastingStay, NEW c \in Commands,
         Mode[c] = "upsert", row[Target[c]] = Absent
  PROVE  Writes[c] \in [Schema[Target[c]] -> Values]
BY DEF AdministrationAssumption, LastingStay

\* What a step of a command writes to the tables.
LEMMA CommandWrites ==
  ASSUME AdministrationAssumption, TablesIInv, NEW c \in Commands, CommandNext(c)
  PROVE  /\ RowsTyped' /\ LastingStay'
         /\ \A k \in Keys : row[k] # Absent /\ row'[k] = Absent => Unreferenced(k)
<1> USE DEF TablesIInv
<1> DEFINE t == Target[c]
<1>1. t \in Keys /\ RowsTyped /\ \A k \in Keys : Absent \notin [Schema[k] -> Values]
  BY DEF AdministrationAssumption, TypeOK, RowsTyped
<1>2. ASSUME NEW new \in [Schema[t] -> Values], row' = [row EXCEPT ![t] = new]
      PROVE  /\ RowsTyped' /\ LastingStay'
             /\ \A k \in Keys : row[k] # Absent /\ row'[k] = Absent => Unreferenced(k)
  <2>1. /\ RowsTyped' /\ row'[t] # Absent
        /\ \A k \in Keys : k # t => row'[k] = row[k]
    <3>1. new # Absent
      BY <1>1
    <3> HIDE DEF t
    <3> QED
      BY <1>1, <1>2, <3>1, OneRowWritten
  <2> QED
    BY <2>1 DEF LastingStay
<1>3. CASE row' = row
  BY <1>1, <1>3 DEF RowsTyped, LastingStay
<1>4. CASE Update(c)
  <2>1. CASE row' = [row EXCEPT ![t] = Merged(c)] /\ row[t] # Absent
    BY <1>1, <1>2, <2>1, MergedIsRow
  <2> QED
    BY <1>3, <1>4, <2>1 DEF Update
<1>5. CASE Insert(c)
  BY <1>2, <1>5, InsertedIsRow DEF Insert
<1>6. CASE Delete(c)
  <2>1. /\ row' = [row EXCEPT ![t] = Absent] /\ Mode[c] = "delete" /\ Unreferenced(t)
    BY <1>6 DEF Delete, OnlyDeletesLink
  <2>2. /\ RowsTyped' /\ \A k \in Keys : k # t => row'[k] = row[k]
    <3> HIDE DEF t
    <3> QED
      BY <1>1, <2>1, OneRowWritten
  <2>3. ~Lasting(t)
    BY <2>1 DEF Lasting
  <2> QED
    BY <2>1, <2>2, <2>3 DEF LastingStay
<1> QED
  BY <1>3, <1>4, <1>5, <1>6
  DEF CommandNext, Authorise, ReadRow, Conflict, FindLinked, AbortCommand

-----------------------------------------------------------------------------
(* Types.                                                                  *)

\* The end of a command.
LEMMA EndIs ==
  ASSUME TypeOK, NEW c \in Commands, NEW pc \in {"done", "failed"}, End(c, pc)
  PROVE  /\ command' \in [Commands -> Command]
         /\ \A d \in Commands : command'[d].pc = "linked" => command[d].pc = "linked"
<1> DEFINE ended == [pc |-> pc, seen |-> Absent,
                     from |-> IF pc = "done" THEN command[c].from ELSE 0]
<1>1. command \in [Commands -> Command] /\ command[c] \in Command
  BY DEF TypeOK
<1>2. ended \in Command /\ ended.pc # "linked"
  BY <1>1 DEF Command
<1>3. command' = [command EXCEPT ![c] = ended]
  BY DEF End
<1> HIDE DEF ended
<1> QED
  BY <1>1, <1>2, <1>3

\* The audit row of a command.
LEMMA EntryIs ==
  ASSUME AdministrationAssumption, NEW c \in Commands
  PROVE  /\ Entry(c) \in AuditRow
         /\ Entry(c).row = Target[c] /\ (Entry(c).gone <=> Mode[c] = "delete")
         /\ Entry(c).told \in [Tells[c] -> Values]
         /\ \A x \in Tells[c] : Entry(c).told[x] = Writes[c][x]
         /\ Tells[c] \subseteq DOMAIN Writes[c] /\ DOMAIN Writes[c] \subseteq Schema[Target[c]]
<1> DEFINE told == [x \in Tells[c] |-> Writes[c][x]]
<1>1. /\ Target[c] \in Keys /\ Tells[c] \subseteq DOMAIN Writes[c]
      /\ Writes[c] \in [DOMAIN Writes[c] -> Values]
      /\ DOMAIN Writes[c] \subseteq Schema[Target[c]]
  BY DEF AdministrationAssumption
<1>2. told \in [Tells[c] -> Values] /\ \A x \in Tells[c] : told[x] = Writes[c][x]
  <2>1. \A x \in Tells[c] : Writes[c][x] \in Values
    BY <1>1
  <2> QED
    BY <2>1
<1>3. /\ Entry(c).by = Actor[c] /\ Entry(c).row = Target[c] /\ Entry(c).told = told
      /\ Entry(c).gone = (Mode[c] = "delete")
  BY DEF Entry
<1>4. Entry(c) = [by |-> Actor[c], row |-> Target[c], gone |-> Mode[c] = "delete", told |-> told]
  BY DEF Entry
<1> HIDE DEF told
<1>5. told \in UNION {[Tells[d] -> Values] : d \in Commands}
  BY <1>2
<1>6. Entry(c) \in AuditRow
  BY <1>1, <1>4, <1>5 DEF AuditRow
<1> QED
  BY <1>1, <1>2, <1>3, <1>6

\* The local state of a command, and the audit log.
LEMMA CommandTyped ==
  ASSUME AdministrationAssumption, TablesIInv, NEW c \in Commands, CommandNext(c)
  PROVE  command' \in [Commands -> Command] /\ audit' \in Seq(AuditRow) /\ OnlyDeletesLink'
<1> USE DEF TablesIInv
<1>1. /\ command \in [Commands -> Command] /\ command[c] \in Command /\ audit \in Seq(AuditRow)
      /\ row[Target[c]] \in Row \union {Absent} /\ Len(audit) \in Nat
  BY DEF TypeOK, AdministrationAssumption
<1>2. ASSUME NEW new \in Command, command' = [command EXCEPT ![c] = new],
             new.pc = "linked" => Mode[c] = "delete"
      PROVE  command' \in [Commands -> Command] /\ OnlyDeletesLink'
  BY <1>1, <1>2 DEF OnlyDeletesLink
<1>3. ASSUME NEW pc \in {"done", "failed"}, End(c, pc)
      PROVE  command' \in [Commands -> Command] /\ OnlyDeletesLink'
  BY <1>3, EndIs DEF OnlyDeletesLink
<1>4. Audited(c) => audit' \in Seq(AuditRow)
  <2>1. Entry(c) \in AuditRow
    BY EntryIs
  <2> QED
    BY <1>1, <2>1 DEF Audited
<1>5. CASE Authorise(c)
  <2> DEFINE new == [command[c] EXCEPT !.pc = IF Entitled(c) THEN "allowed" ELSE "failed",
                                       !.from = Len(audit)]
  <2>1. new \in Command /\ new.pc # "linked"
    BY <1>1 DEF Command
  <2>2. command' = [command EXCEPT ![c] = new] /\ audit' = audit
    BY <1>5 DEF Authorise
  <2> HIDE DEF new
  <2> QED
    BY <1>1, <1>2, <2>1, <2>2
<1>6. CASE ReadRow(c)
  <2> DEFINE seen == row[Target[c]]
             new == [command[c] EXCEPT !.pc = "edit", !.seen = seen]
  <2>1. new \in Command /\ new.pc # "linked"
    <3> HIDE DEF seen
    <3> QED
      BY <1>1 DEF Command, seen
  <2>2. (command' = [command EXCEPT ![c] = new] \/ End(c, "failed")) /\ audit' = audit
    BY <1>6 DEF ReadRow
  <2> HIDE DEF new
  <2> QED
    BY <1>1, <1>2, <1>3, <2>1, <2>2
<1>7. CASE FindLinked(c)
  <2>1. CASE Linked(Target[c]) # {}
    BY <1>1, <1>3, <1>7, <2>1 DEF FindLinked
  <2>2. CASE Linked(Target[c]) = {}
    <3> DEFINE new == [command[c] EXCEPT !.pc = "linked"]
    <3>1. new \in Command /\ Mode[c] = "delete"
      BY <1>1, <1>7 DEF Command, FindLinked
    <3>2. command' = [command EXCEPT ![c] = new] /\ audit' = audit
      BY <1>7, <2>2 DEF FindLinked
    <3> HIDE DEF new
    <3> QED
      BY <1>1, <1>2, <3>1, <3>2
  <2> QED
    BY <2>1, <2>2
<1>8. CASE Update(c) \/ Insert(c) \/ Delete(c)
  BY <1>3, <1>4, <1>8 DEF Update, Insert, Delete
<1>9. CASE Conflict(c) \/ AbortCommand(c)
  BY <1>1, <1>3, <1>9 DEF Conflict, AbortCommand
<1> QED
  BY <1>5, <1>6, <1>7, <1>8, <1>9 DEF CommandNext

\* Only columns of the row are contested.
LEMMA ContestedTyped ==
  ASSUME AdministrationAssumption, TypeOK, NEW c \in Commands, CommandNext(c)
  PROVE  /\ contested' \in [Keys -> SUBSET UNION {Schema[k] : k \in Keys}]
         /\ \A k \in Keys : contested'[k] \subseteq Schema[k]
<1> DEFINE t == Target[c]
           more == UNION {Contest(c, row[t], d) : d \in Rivals(c)}
<1>1. t \in Keys /\ DOMAIN Writes[c] \subseteq Schema[t]
  BY DEF AdministrationAssumption
<1>2. more \subseteq Schema[t]
  <2>1. \A d : Contest(c, row[t], d) \subseteq Schema[t]
    BY <1>1 DEF Contest
  <2> QED
    BY <2>1
<1>3. CASE ReadRow(c) /\ contested' # contested
  <2>1. contested' = [contested EXCEPT ![t] = contested[t] \union more]
    BY <1>3 DEF ReadRow
  <2> HIDE DEF more, t
  <2> QED
    BY <1>1, <1>2, <2>1 DEF TypeOK
<1>4. CASE UNCHANGED contested
  BY <1>4 DEF TypeOK
<1> QED
  BY <1>3, <1>4
  DEF CommandNext, Authorise, ReadRow, Update, Insert, Conflict, FindLinked, Delete, AbortCommand

\* A chat id as it is read.
LEMMA ChatIdTyped ==
  ASSUME AdministrationAssumption, TypeOK
  PROVE  ChatId(GroupRow) \in Values /\ ChatId(ChannelRow) \in Values
BY DEF AdministrationAssumption, TypeOK, ChatId

\* A step of a customer's handler.
LEMMA ClientTyped ==
  ASSUME AdministrationAssumption, TypeOK, NEW k \in Clients, ClientNext(k)
  PROVE  client' \in [Clients -> Client] /\ deposits' \in [Filers -> Row \union {Absent}]
<1>1. /\ client \in [Clients -> Client] /\ client[k] \in Client
      /\ deposits \in [Filers -> Row \union {Absent}]
      /\ row[OfferRow(k)] \in Row \union {Absent}
  BY DEF TypeOK, OfferRow, AdministrationAssumption, Clients
<1>2. ASSUME NEW new \in Client, client' = [client EXCEPT ![k] = new]
      PROVE  client' \in [Clients -> Client]
  BY <1>1, <1>2
<1>3. Leave(k) => client' \in [Clients -> Client]
  <2> DEFINE new == [NotYet EXCEPT !.pc = "left"]
  <2>1. new \in Client
    BY DEF Client, NotYet, AdministrationAssumption
  <2>2. Leave(k) => client' = [client EXCEPT ![k] = new]
    BY DEF Leave
  <2> HIDE DEF new
  <2> QED
    BY <1>2, <2>1, <2>2
<1>4. ASSUME NEW pc \in {"group", "in channel", "maintenance", "offer", "take", "done"},
             client' = [client EXCEPT ![k].pc = pc]
      PROVE  client' \in [Clients -> Client]
  <2> DEFINE new == [client[k] EXCEPT !.pc = pc]
  <2>1. new \in Client
    BY <1>1 DEF Client
  <2>2. client' = [client EXCEPT ![k] = new]
    BY <1>4
  <2> HIDE DEF new
  <2> QED
    BY <1>2, <2>1, <2>2
<1>5. CASE Tap(k)
  BY <1>1, <1>3, <1>4, <1>5 DEF Tap
<1>6. CASE ReadGroup(k)
  <2> DEFINE id == ChatId(GroupRow)
             new == [client[k] EXCEPT !.pc = "channel", !.group = id]
  <2>1. new \in Client
    <3>1. id \in Values
      BY ChatIdTyped
    <3> HIDE DEF id
    <3> QED
      BY <1>1, <3>1 DEF Client
  <2>2. client' = [client EXCEPT ![k] = new]
    BY <1>6 DEF ReadGroup
  <2> HIDE DEF new
  <2> QED
    BY <1>1, <1>2, <1>6, <2>1, <2>2 DEF ReadGroup
<1>7. CASE ReadChannel(k)
  <2> DEFINE id == ChatId(ChannelRow)
             new == [client[k] EXCEPT !.pc = "in group", !.channel = id]
  <2>1. new \in Client
    <3>1. id \in Values
      BY ChatIdTyped
    <3> HIDE DEF id
    <3> QED
      BY <1>1, <3>1 DEF Client
  <2>2. Leave(k) \/ client' = [client EXCEPT ![k] = new]
    BY <1>7 DEF ReadChannel
  <2> HIDE DEF new
  <2> QED
    BY <1>1, <1>2, <1>3, <1>7, <2>1, <2>2 DEF ReadChannel
<1>8. CASE AskGroup(k)
  BY <1>1, <1>3, <1>4, <1>8 DEF AskGroup
<1>9. CASE AskChannel(k)
  BY <1>1, <1>3, <1>4, <1>9 DEF AskChannel
<1>10. CASE CheckMaintenance(k)
  BY <1>1, <1>3, <1>4, <1>10 DEF CheckMaintenance
<1>11. CASE ReadOffer(k)
  <2> DEFINE new == [client[k] EXCEPT !.pc = IF k \in Buyers THEN "again" ELSE "take",
                                      !.offer = row[OfferRow(k)]]
  <2>1. new \in Client
    BY <1>1 DEF Client
  <2>2. Leave(k) \/ client' = [client EXCEPT ![k] = new]
    BY <1>11 DEF ReadOffer
  <2> HIDE DEF new
  <2> QED
    BY <1>1, <1>2, <1>3, <1>11, <2>1, <2>2 DEF ReadOffer
<1>12. CASE CheckAgain(k)
  BY <1>1, <1>3, <1>4, <1>12 DEF CheckAgain
<1>13. CASE TakeOrder(k)
  BY <1>1, <1>4, <1>13 DEF TakeOrder
<1>14. CASE FileDeposit(k)
  <2>1. client[k].offer \in Row \union {Absent}
    BY <1>1 DEF Client
  <2>2. deposits' = [deposits EXCEPT ![k] = client[k].offer] /\ client' = [client EXCEPT ![k].pc = "done"]
    BY <1>14 DEF FileDeposit
  <2> QED
    BY <1>1, <1>4, <2>1, <2>2
<1>15. CASE Abandon(k)
  BY <1>1, <1>3, <1>15 DEF Abandon
<1> QED
  BY <1>5, <1>6, <1>7, <1>8, <1>9, <1>10, <1>11, <1>12, <1>13, <1>14, <1>15 DEF ClientNext

-----------------------------------------------------------------------------
(* The tables.                                                             *)

\* A command deletes a method only while no deposit refers to it.
LEMMA CommandKeepsTables ==
  ASSUME AdministrationAssumption, TablesIInv, NEW c \in Commands, CommandNext(c)
  PROVE  TablesIInv'
<1> USE DEF TablesIInv
<1>1. UNCHANGED <<joined, client, deposits>>
  BY DEF CommandNext, Authorise, ReadRow, Update, Insert, Conflict, FindLinked, Delete,
         AbortCommand
<1>2. TypeOK'
  BY <1>1, CommandWrites, CommandTyped, ContestedTyped DEF TypeOK, RowsTyped
<1>3. LinkedMethodsStay'
  <2> SUFFICES ASSUME NEW d \in Filers, deposits'[d] # Absent
               PROVE  row'[Method[d]] # Absent
    BY DEF LinkedMethodsStay
  <2>1. /\ Method[d] \in Keys /\ row[Method[d]] # Absent
        /\ d \in Linked(Method[d])
    BY <1>1 DEF AdministrationAssumption, Linked, LinkedMethodsStay
  <2> QED
    BY <2>1, CommandWrites DEF Unreferenced
<1> QED
  BY <1>2, <1>3, CommandWrites, CommandTyped

\* A customer's deposit is inserted only while its method is there.
LEMMA ClientKeepsTables ==
  ASSUME AdministrationAssumption, TablesIInv, NEW k \in Clients, ClientNext(k)
  PROVE  TablesIInv'
<1> USE DEF TablesIInv
<1>1. UNCHANGED <<row, audit, command, joined, contested>>
  BY DEF ClientNext, Tap, ReadGroup, ReadChannel, AskGroup, AskChannel,
         CheckMaintenance, ReadOffer, CheckAgain, TakeOrder, FileDeposit, Abandon
<1>2. TypeOK'
  BY <1>1, ClientTyped DEF TypeOK
<1>3. LastingStay' /\ OnlyDeletesLink'
  BY <1>1 DEF LastingStay, OnlyDeletesLink
<1>4. CASE FileDeposit(k)
  BY <1>1, <1>2, <1>3, <1>4 DEF FileDeposit, LinkedMethodsStay
<1>5. CASE UNCHANGED deposits
  BY <1>1, <1>2, <1>3, <1>5 DEF LinkedMethodsStay
<1> QED
  BY <1>4, <1>5
  DEF ClientNext, Tap, ReadGroup, ReadChannel, AskGroup, AskChannel, CheckMaintenance,
      ReadOffer, CheckAgain, TakeOrder, Abandon

\* The tables start as the assumption says.
LEMMA TablesInitially ==
  ASSUME AdministrationAssumption, Init
  PROVE  TablesIInv
<1>1. TypeOK
  BY DEF Init, AdministrationAssumption, TypeOK, Command, Client, NotYet
<1>2. OnlyDeletesLink /\ LastingStay /\ LinkedMethodsStay
  BY DEF Init, OnlyDeletesLink, LastingStay, LinkedMethodsStay, Lasting
<1> QED
  BY <1>1, <1>2 DEF TablesIInv

\* Every step of anybody keeps the tables.
LEMMA TablesInductive == TablesIInv /\ [Next]_vars => TablesIInv'
<1> SUFFICES ASSUME TablesIInv, [Next]_vars
             PROVE  TablesIInv'
  OBVIOUS
<1> USE AdministrationAssumption
<1>1. CASE Membership
  <2>1. UNCHANGED <<row, audit, command, client, deposits, contested>>
    BY <1>1 DEF Membership
  <2>2. joined' \subseteq Chats
    BY <1>1 DEF Membership, TablesIInv, TypeOK
  <2> QED
    BY <2>1, <2>2
    DEF TablesIInv, TypeOK, OnlyDeletesLink, LastingStay, LinkedMethodsStay
<1>2. CASE UNCHANGED vars
  BY <1>2
  DEF vars, TablesIInv, TypeOK, OnlyDeletesLink, LastingStay, LinkedMethodsStay
<1> QED
  BY <1>1, <1>2, CommandKeepsTables, ClientKeepsTables DEF Next

\* So the tables hold in every behaviour.
LEMMA TablesAlways == Spec => []TablesIInv
<1>1. Init => TablesIInv
  BY AdministrationAssumption, TablesInitially
<1> QED
  BY <1>1, TablesInductive, PTL DEF Spec

-----------------------------------------------------------------------------
(* The gates.                                                              *)

\* What a step adds to the memory of a customer's handler.
LEMMA Remembered ==
  ASSUME Remember, NEW k \in Clients
  PROVE  /\ client'[k].pc \in {"idle", "left"} => since'[k] = Nothing
         /\ client'[k].pc = "done" => since'[k] = since[k]
         /\ client'[k].pc \notin {"idle", "left", "done"} =>
              /\ since[k].groups \subseteq since'[k].groups
              /\ ChatId(GroupRow)' \in since'[k].groups
              /\ since[k].channels \subseteq since'[k].channels
              /\ ChatId(ChannelRow)' \in since'[k].channels
              /\ since'[k].chats = since[k].chats \union joined'
              /\ since[k].offers \subseteq since'[k].offers
              /\ row'[OfferRow(k)] # Absent /\ row'[OfferRow(k)]["enabled"] = "on" =>
                   row'[OfferRow(k)] \in since'[k].offers
              /\ (row'[MaintenanceRow] = Absent \/ row'[MaintenanceRow]["enabled"] # "on")
                 \/ (since[k].open /\ ~Restarts(k))
                 => since'[k].open
<1> DEFINE now == Holding(k)
           open == now.open \/ (since[k].open /\ ~Restarts(k))
<1>1. since'[k] = IF client'[k].pc \in {"idle", "left"} THEN Nothing
                  ELSE IF client'[k].pc = "done" THEN since[k]
                  ELSE [groups   |-> since[k].groups \union now.groups,
                        channels |-> since[k].channels \union now.channels,
                        chats    |-> since[k].chats \union now.chats,
                        offers   |-> since[k].offers \union now.offers,
                        open     |-> open]
  BY DEF Remember
<1>2. /\ now.groups = {ChatId(GroupRow)'} /\ now.channels = {ChatId(ChannelRow)'}
      /\ now.chats = joined'
      /\ row'[OfferRow(k)] # Absent /\ row'[OfferRow(k)]["enabled"] = "on" =>
           row'[OfferRow(k)] \in now.offers
  BY DEF Holding, On
<1>3. row'[MaintenanceRow] = Absent \/ row'[MaintenanceRow]["enabled"] # "on" => now.open
  BY DEF Holding, On
<1>4. (row'[MaintenanceRow] = Absent \/ row'[MaintenanceRow]["enabled"] # "on")
      \/ (since[k].open /\ ~Restarts(k)) => open
  BY <1>3
<1> HIDE DEF now, open
<1> QED
  BY <1>1, <1>2, <1>4

\* Steps of anybody else only add to what has held since a customer's tap.
LEMMA OthersKeepGates ==
  ASSUME Remember, NEW k \in Clients, Seen(k), client'[k] = client[k]
  PROVE  Seen(k)'
<1>1. CASE client[k].pc \in {"idle", "left"}
  BY <1>1 DEF Seen, Past
<1>2. CASE client[k].pc = "done"
  BY <1>2, Remembered DEF Seen, Past
<1>3. CASE client[k].pc \notin {"idle", "left", "done"}
  BY <1>3, Remembered DEF Seen, Past, Restarts
<1> QED
  BY <1>1, <1>2, <1>3

\* A customer who is turned away has nothing to show.
LEMMA LeavingKeepsGates ==
  ASSUME TypeOK, Remember, NEW k \in Clients, Leave(k)
  PROVE  Seen(k)'
<1>1. client'[k].pc = "left"
  BY DEF TypeOK, Leave, NotYet
<1> QED
  BY <1>1 DEF Seen, Past

\* Each gate sees what it asks for.
LEMMA ClientKeepsGates ==
  ASSUME AdministrationAssumption, GatesIInv, NEW k \in Clients, ClientNext(k)
  PROVE  Seen(k)'
<1> USE DEF GatesIInv
<1>1. /\ Remember /\ UNCHANGED <<row, joined>>
      /\ client \in [Clients -> Client] /\ client[k] \in Client /\ Seen(k) /\ TypeOK
  BY DEF ClientNext, Tap, ReadGroup, ReadChannel, AskGroup, AskChannel,
         CheckMaintenance, ReadOffer, CheckAgain, TakeOrder, FileDeposit, Abandon, TypeOK
<1>2. CASE Leave(k)
  BY <1>1, <1>2, LeavingKeepsGates
<1>3. ASSUME client'[k].pc \notin {"idle", "left", "done"}
      PROVE  /\ since[k].groups \subseteq since'[k].groups
             /\ since[k].channels \subseteq since'[k].channels
             /\ since[k].chats \subseteq since'[k].chats /\ joined \subseteq since'[k].chats
             /\ ChatId(GroupRow) \in since'[k].groups /\ ChatId(ChannelRow) \in since'[k].channels
  <2>1. ChatId(GroupRow)' = ChatId(GroupRow) /\ ChatId(ChannelRow)' = ChatId(ChannelRow)
    BY <1>1 DEF ChatId
  <2> QED
    BY <1>1, <1>3, <2>1, Remembered
<1>4. CASE Tap(k) /\ ~Leave(k)
  <2>1. client' = [client EXCEPT ![k] = [client[k] EXCEPT !.pc = "group"]]
    BY <1>4 DEF Tap
  <2>2. client'[k].pc = "group"
    BY <1>1, <2>1 DEF Client
  <2> QED
    BY <1>1, <2>2 DEF Seen, Past
<1>5. CASE ReadGroup(k)
  <2>1. client' = [client EXCEPT ![k] = [client[k] EXCEPT !.pc = "channel", !.group = ChatId(GroupRow)]]
    BY <1>5 DEF ReadGroup
  <2>2. client'[k].pc = "channel" /\ client'[k].group = ChatId(GroupRow)
    BY <1>1, <2>1 DEF Client
  <2> QED
    BY <1>3, <2>2 DEF Seen, Past
<1>6. CASE ReadChannel(k) /\ ~Leave(k)
  <2>1. client' = [client EXCEPT ![k] =
                     [client[k] EXCEPT !.pc = "in group", !.channel = ChatId(ChannelRow)]]
    BY <1>6 DEF ReadChannel
  <2>2. /\ client'[k].pc = "in group" /\ client'[k].channel = ChatId(ChannelRow)
        /\ client'[k].group = client[k].group
    BY <1>1, <2>1 DEF Client
  <2>3. client[k].group \in since[k].groups
    BY <1>1, <1>6 DEF ReadChannel, Seen, Past
  <2>4. client'[k].group \in since'[k].groups /\ client'[k].channel \in since'[k].channels
    BY <1>3, <2>2, <2>3
  <2> QED
    BY <2>2, <2>4 DEF Seen, Past
<1>7. CASE AskGroup(k) /\ ~Leave(k)
  <2>1. /\ client[k].pc = "in group" /\ client[k].group \in joined
        /\ client' = [client EXCEPT ![k] = [client[k] EXCEPT !.pc = "in channel"]]
    BY <1>7 DEF AskGroup
  <2>2. /\ client'[k].pc = "in channel"
        /\ client'[k].group = client[k].group /\ client'[k].channel = client[k].channel
    BY <1>1, <2>1 DEF Client
  <2>3. client[k].group \in since[k].groups /\ client[k].channel \in since[k].channels
    BY <1>1, <2>1 DEF Seen, Past
  <2>4. /\ client'[k].group \in since'[k].groups /\ client'[k].channel \in since'[k].channels
        /\ client'[k].group \in since'[k].chats
    BY <1>3, <2>1, <2>2, <2>3
  <2> QED
    BY <2>2, <2>4 DEF Seen, Past
<1>8. CASE AskChannel(k) /\ ~Leave(k)
  <2>1. /\ client[k].pc = "in channel" /\ client[k].channel \in joined
        /\ client' = [client EXCEPT ![k] = [client[k] EXCEPT !.pc = "maintenance"]]
    BY <1>8 DEF AskChannel
  <2>2. /\ client'[k].pc = "maintenance"
        /\ client'[k].group = client[k].group /\ client'[k].channel = client[k].channel
    BY <1>1, <2>1 DEF Client
  <2>3. /\ client[k].group \in since[k].groups /\ client[k].channel \in since[k].channels
        /\ client[k].group \in since[k].chats
    BY <1>1, <2>1 DEF Seen, Past
  <2>4. /\ client'[k].group \in since'[k].groups /\ client'[k].channel \in since'[k].channels
        /\ client'[k].group \in since'[k].chats /\ client'[k].channel \in since'[k].chats
    BY <1>3, <2>1, <2>2, <2>3
  <2> QED
    BY <2>2, <2>4 DEF Seen, Past
<1>9. ASSUME Past(k, {}), UNCHANGED client[k].group, UNCHANGED client[k].channel,
             client'[k].pc \notin {"idle", "left"}
      PROVE  /\ client'[k].group \in since'[k].groups /\ client'[k].channel \in since'[k].channels
             /\ client'[k].group \in since'[k].chats /\ client'[k].channel \in since'[k].chats
  <2>1. /\ client[k].group \in since[k].groups /\ client[k].channel \in since[k].channels
        /\ client[k].group \in since[k].chats /\ client[k].channel \in since[k].chats
    BY <1>1, <1>9 DEF Seen, Past
  <2> QED
    BY <1>1, <1>9, <2>1, Remembered
<1>10. CASE CheckMaintenance(k) /\ ~Leave(k)
  <2>1. /\ client[k].pc = "maintenance" /\ ~On(MaintenanceRow, "enabled")
        /\ client' = [client EXCEPT ![k] = [client[k] EXCEPT !.pc = "offer"]]
    BY <1>10 DEF CheckMaintenance
  <2>2. /\ client'[k].pc = "offer" /\ Past(k, {})
        /\ client'[k].group = client[k].group /\ client'[k].channel = client[k].channel
    BY <1>1, <2>1 DEF Client, Past
  <2>3. row'[MaintenanceRow] = Absent \/ row'[MaintenanceRow]["enabled"] # "on"
    BY <1>1, <2>1 DEF On
  <2>4. since'[k].open
    BY <1>1, <2>2, <2>3, Remembered
  <2> QED
    BY <1>9, <2>2, <2>4 DEF Seen, Past
<1>11. CASE ReadOffer(k) /\ ~Leave(k)
  <2> DEFINE pc == IF k \in Buyers THEN "again" ELSE "take"
  <2>1. /\ client[k].pc = "offer" /\ On(OfferRow(k), "enabled")
        /\ client' = [client EXCEPT ![k] = [client[k] EXCEPT !.pc = pc, !.offer = row[OfferRow(k)]]]
    BY <1>11 DEF ReadOffer
  <2>2. /\ client'[k].pc = pc /\ client'[k].offer = row[OfferRow(k)] /\ Past(k, {})
        /\ client'[k].group = client[k].group /\ client'[k].channel = client[k].channel
    BY <1>1, <2>1 DEF Client, Past
  <2>3. /\ row'[OfferRow(k)] # Absent /\ row'[OfferRow(k)]["enabled"] = "on"
        /\ row'[OfferRow(k)] = row[OfferRow(k)]
    BY <1>1, <2>1 DEF On
  <2>4. k \in Buyers \/ k \in Filers
    BY DEF Clients
  <2>5. ~Restarts(k) \/ pc = "again"
    BY <2>2 DEF Restarts
  <2>6. /\ client'[k].offer \in since'[k].offers
        /\ since[k].open /\ ~Restarts(k) => since'[k].open
    BY <1>1, <2>2, <2>3, Remembered
  <2>7. k \in Filers => since[k].open
    BY <1>1, <2>1 DEF Seen
  <2> QED
    BY <1>9, <2>2, <2>4, <2>5, <2>6, <2>7 DEF Seen, Past
<1>12. CASE CheckAgain(k) /\ ~Leave(k)
  <2>1. /\ client[k].pc = "again" /\ ~On(MaintenanceRow, "enabled")
        /\ client' = [client EXCEPT ![k] = [client[k] EXCEPT !.pc = "take"]]
    BY <1>12 DEF CheckAgain
  <2>2. /\ client'[k].pc = "take" /\ client'[k].offer = client[k].offer /\ Past(k, {})
        /\ client'[k].group = client[k].group /\ client'[k].channel = client[k].channel
    BY <1>1, <2>1 DEF Client, Past
  <2>3. row'[MaintenanceRow] = Absent \/ row'[MaintenanceRow]["enabled"] # "on"
    BY <1>1, <2>1 DEF On
  <2>4. client[k].offer \in since[k].offers
    BY <1>1, <2>1 DEF Seen
  <2>5. since'[k].open /\ client'[k].offer \in since'[k].offers
    BY <1>1, <2>2, <2>3, <2>4, Remembered
  <2> QED
    BY <1>9, <2>2, <2>5 DEF Seen, Past
<1>13. CASE TakeOrder(k) \/ FileDeposit(k)
  <2>1. /\ client[k].pc = "take"
        /\ client' = [client EXCEPT ![k] = [client[k] EXCEPT !.pc = "done"]]
    BY <1>13 DEF TakeOrder, FileDeposit
  <2>2. /\ client'[k].pc = "done" /\ client'[k].offer = client[k].offer
        /\ client'[k].group = client[k].group /\ client'[k].channel = client[k].channel
    BY <1>1, <2>1 DEF Client
  <2> QED
    BY <1>1, <2>1, <2>2, Remembered DEF Seen, Past
<1> QED
  BY <1>2, <1>4, <1>5, <1>6, <1>7, <1>8, <1>10, <1>11, <1>12, <1>13 DEF ClientNext, Abandon

\* Every step of anybody keeps what a customer's handler has seen.
LEMMA GatesInductive == GatesIInv /\ TypeOK' /\ [Next]_vars => GatesIInv'
<1> SUFFICES ASSUME GatesIInv, TypeOK', [Next]_vars, NEW k \in Clients
             PROVE  Seen(k)'
  BY DEF GatesIInv
<1> USE AdministrationAssumption
<1>1. client \in [Clients -> Client] /\ Seen(k)
  BY DEF GatesIInv, TypeOK
<1>2. ASSUME NEW c \in Commands, CommandNext(c)
      PROVE  Remember /\ client' = client
  BY <1>2 DEF CommandNext, Authorise, ReadRow, Update, Insert, Conflict, FindLinked, Delete,
              AbortCommand
<1>3. ASSUME NEW j \in Clients, ClientNext(j), j # k
      PROVE  Remember /\ client'[k] = client[k]
  BY <1>1, <1>3
  DEF ClientNext, Tap, ReadGroup, ReadChannel, AskGroup, AskChannel,
      CheckMaintenance, ReadOffer, CheckAgain, TakeOrder, FileDeposit, Abandon, Leave
<1>4. CASE Membership
  BY <1>1, <1>4, OthersKeepGates DEF Membership
<1>5. CASE UNCHANGED vars
  BY <1>1, <1>5 DEF vars, Seen, Past
<1> QED
  BY <1>1, <1>2, <1>3, <1>4, <1>5, OthersKeepGates, ClientKeepsGates DEF Next

-----------------------------------------------------------------------------
(* What a log tells: the recursion of Told is well defined, and one more     *)
(* entry has its effect on what was told before.                            *)

\* Induction over the natural numbers for a set of them.
LEMMA AllNaturals ==
  ASSUME NEW A \in SUBSET Nat, 0 \in A, \A n \in A : n + 1 \in A
  PROVE  A = Nat
<1> DEFINE less == {ss \in Nat \X Nat : ss[1] < ss[2]}
<1>1. IsWellFoundedOn(less, Nat)
  BY NatLessThanWellFounded DEF OpToRel
<1>2. \A S \in SUBSET Nat : S # {} => \E x \in S : \A y \in S : ~(<<y, x>> \in less)
  <2> HIDE DEF less
  <2> QED
    BY <1>1, WFMin
<1>3. \A x, y \in Nat : ~(<<y, x>> \in less) => x <= y
  OBVIOUS
<1>4. SUFFICES ASSUME Nat \ A # {}
               PROVE  FALSE
  OBVIOUS
<1>5. PICK x \in Nat \ A : \A y \in Nat \ A : x <= y
  <2> HIDE DEF less
  <2> QED
    BY <1>2, <1>3, <1>4
<1>6. x # 0 /\ x - 1 \in Nat /\ ~(x <= x - 1) /\ (x - 1) + 1 = x
  BY <1>5
<1> QED
  BY <1>5, <1>6

\* The table of the rows after each of the first n entries.
IsTable(k, log, n, f) ==
  f = [i \in 0..n |-> IF i = 0 THEN Opening[k] ELSE Effect(k, f[i - 1], log[i])]

\* What is told is the last entry of the table that the definition chooses.
LEMMA ToldTable ==
  ASSUME NEW k, NEW log, NEW n
  PROVE  Told(k, log, n) = (CHOOSE f : IsTable(k, log, n, f))[n]
  BY Zenon DEF Told, IsTable

\* There is such a table.
LEMMA TablesExist ==
  ASSUME NEW k, NEW log, NEW n \in Nat
  PROVE  \E f : IsTable(k, log, n, f)
<1> DEFINE A == {m \in Nat : \E f : IsTable(k, log, m, f)}
<1>1. 0 \in A
  <2> DEFINE f == [i \in 0..0 |-> Opening[k]]
  <2>1. f = [i \in 0..0 |-> IF i = 0 THEN Opening[k] ELSE Effect(k, f[i - 1], log[i])]
    OBVIOUS
  <2> HIDE DEF f
  <2> QED
    BY <2>1 DEF IsTable
<1>2. ASSUME NEW m \in A
      PROVE  m + 1 \in A
  <2>1. m \in Nat
    OBVIOUS
  <2>2. PICK f : IsTable(k, log, m, f)
    OBVIOUS
  <2> DEFINE Line(g, i) == IF i = 0 THEN Opening[k] ELSE Effect(k, g[i - 1], log[i])
             g == [i \in 0..(m + 1) |-> IF i = m + 1 THEN Line(f, i) ELSE f[i]]
  <2>3. \A i \in 0..m : f[i] = Line(f, i)
    BY <2>2 DEF IsTable
  <2>4. \A i \in 0..(m + 1) : g[i] = Line(f, i)
    <3> HIDE DEF Line
    <3> QED
      BY <2>1, <2>3
  <2>5. \A i \in 0..(m + 1) : i # 0 => i - 1 \in 0..m /\ g[i - 1] = f[i - 1]
    <3> HIDE DEF Line
    <3> QED
      BY <2>1
  <2>6. \A i \in 0..(m + 1) : Line(g, i) = Line(f, i)
    <3> HIDE DEF g
    <3> QED
      BY <2>5
  <2>7. g = [i \in 0..(m + 1) |-> Line(g, i)]
    <3>1. g = [i \in 0..(m + 1) |-> g[i]]
      OBVIOUS
    <3> HIDE DEF g, Line
    <3> QED
      BY <3>1, <2>4, <2>6
  <2>8. IsTable(k, log, m + 1, g)
    <3> HIDE DEF g
    <3> QED
      BY <2>7 DEF IsTable
  <2> HIDE DEF g, Line
  <2> QED
    BY <2>1, <2>8
<1>3. A = Nat
  <2>1. A \in SUBSET Nat
    OBVIOUS
  <2> HIDE DEF A
  <2> QED
    BY <1>1, <1>2, <2>1, AllNaturals
<1> QED
  BY <1>3

\* Two logs tell the same as far as they agree.
LEMMA TablesAgree ==
  ASSUME NEW k, NEW n \in Nat, NEW m \in Nat, m <= n, NEW log, NEW more,
         \A i \in 1..m : log[i] = more[i],
         NEW f, IsTable(k, log, n, f), NEW g, IsTable(k, more, m, g)
  PROVE  \A i \in 0..m : f[i] = g[i]
<1> DEFINE A == {i \in Nat : i <= m => f[i] = g[i]}
<1>1. /\ \A i \in 0..n : f[i] = IF i = 0 THEN Opening[k] ELSE Effect(k, f[i - 1], log[i])
      /\ \A i \in 0..m : g[i] = IF i = 0 THEN Opening[k] ELSE Effect(k, g[i - 1], more[i])
  BY DEF IsTable
<1>2. 0 \in A
  <2>1. 0 \in 0..n /\ 0 \in 0..m
    OBVIOUS
  <2>2. f[0] = g[0]
    BY <1>1, <2>1
  <2> QED
    BY <2>2
<1>3. ASSUME NEW i \in A
      PROVE  i + 1 \in A
  <2> SUFFICES ASSUME i + 1 <= m
               PROVE  f[i + 1] = g[i + 1]
    OBVIOUS
  <2>1. i \in Nat /\ i <= m /\ i + 1 \in 1..m /\ i + 1 \in 0..n /\ i + 1 \in 0..m
    OBVIOUS
  <2>2. f[i] = g[i] /\ (i + 1) - 1 = i /\ i + 1 # 0
    BY <2>1
  <2>3. f[i + 1] = Effect(k, f[i], log[i + 1]) /\ g[i + 1] = Effect(k, g[i], more[i + 1])
    BY <1>1, <2>1, <2>2
  <2> QED
    BY <2>1, <2>2, <2>3
<1>4. A = Nat
  <2>1. A \in SUBSET Nat
    OBVIOUS
  <2> HIDE DEF A
  <2> QED
    BY <1>2, <1>3, <2>1, AllNaturals
<1> QED
  BY <1>4

\* The first entries of a log tell the same whatever follows them.
LEMMA ToldSame ==
  ASSUME NEW k, NEW n \in Nat, NEW log, NEW more, \A i \in 1..n : log[i] = more[i]
  PROVE  Told(k, log, n) = Told(k, more, n)
<1>1. PICK f : f = (CHOOSE h : IsTable(k, log, n, h)) /\ IsTable(k, log, n, f)
  BY TablesExist
<1>2. PICK g : g = (CHOOSE h : IsTable(k, more, n, h)) /\ IsTable(k, more, n, g)
  BY TablesExist
<1>3. f[n] = g[n]
  BY <1>1, <1>2, TablesAgree
<1> QED
  BY <1>1, <1>2, <1>3, ToldTable

\* Before the first entry the row is the one of the beginning.
LEMMA ToldFirst ==
  ASSUME NEW k, NEW log
  PROVE  Told(k, log, 0) = Opening[k]
<1>1. PICK f : f = (CHOOSE g : IsTable(k, log, 0, g)) /\ IsTable(k, log, 0, f)
  BY TablesExist
<1>2. f[0] = Opening[k]
  BY <1>1 DEF IsTable
<1> QED
  BY <1>1, <1>2, ToldTable

\* The next entry has its effect on what was told before.
LEMMA ToldNext ==
  ASSUME NEW k, NEW log, NEW n \in Nat
  PROVE  Told(k, log, n + 1) = Effect(k, Told(k, log, n), log[n + 1])
<1>1. PICK f : f = (CHOOSE g : IsTable(k, log, n + 1, g)) /\ IsTable(k, log, n + 1, f)
  BY TablesExist
<1>2. PICK e : e = (CHOOSE g : IsTable(k, log, n, g)) /\ IsTable(k, log, n, e)
  BY TablesExist
<1>3. f[n] = e[n]
  BY <1>1, <1>2, TablesAgree
<1>4. f[n + 1] = Effect(k, f[n], log[n + 1])
  <2>1. n + 1 \in 0..(n + 1) /\ n + 1 # 0 /\ (n + 1) - 1 = n
    OBVIOUS
  <2> QED
    BY <1>1, <2>1 DEF IsTable
<1>5. Told(k, log, n + 1) = f[n + 1] /\ Told(k, log, n) = e[n]
  BY <1>1, <1>2, ToldTable
<1> QED
  BY <1>3, <1>4, <1>5

-----------------------------------------------------------------------------
(* The audit log and the tables.                                           *)

\* What the log tells after a step that appends a row to it.
LEMMA StoryGrows ==
  ASSUME TypeOK, NEW e, audit' = Append(audit, e), NEW k
  PROVE  /\ Replayed(k, Len(audit))' = Effect(k, Replayed(k, Len(audit)), e)
         /\ Len(audit') = Len(audit) + 1
<1>1. audit \in Seq(AuditRow) /\ Len(audit) \in Nat
  BY DEF TypeOK
<1>2. /\ Len(audit') = Len(audit) + 1 /\ audit'[Len(audit) + 1] = e
      /\ \A i \in 1..Len(audit) : audit[i] = audit'[i]
  BY <1>1
<1>3. Told(k, audit', Len(audit) + 1) = Effect(k, Told(k, audit', Len(audit)), e)
  BY <1>1, <1>2, ToldNext
<1>4. Told(k, audit', Len(audit)) = Told(k, audit, Len(audit))
  BY <1>1, <1>2, ToldSame
<1> QED
  BY <1>2, <1>3, <1>4 DEF Replayed

\* What was told at a moment of the past is still told of it.
LEMMA PastIsTold ==
  ASSUME TypeOK, NEW e \in AuditRow, audit' \in {audit, Append(audit, e)},
         NEW k, NEW n \in Nat, n <= Len(audit)
  PROVE  Told(k, audit', n) = Told(k, audit, n) /\ n <= Len(audit')
<1>1. audit \in Seq(AuditRow) /\ Len(audit) \in Nat
  BY DEF TypeOK
<1>2. \A i \in 1..n : audit[i] = audit'[i]
  BY <1>1
<1>3. n <= Len(audit')
  BY <1>1
<1> QED
  BY <1>2, <1>3, ToldSame

\* An effect leaves a row with some of its columns, or none.
LEMMA EffectTyped ==
  ASSUME AdministrationAssumption, NEW k \in Keys, NEW c \in Commands,
         NEW told \in PartialRow(k) \union {Absent}
  PROVE  /\ Effect(k, told, Entry(c)) \in PartialRow(k) \union {Absent}
         /\ Target[c] = k /\ Mode[c] # "delete" => Effect(k, told, Entry(c)) # Absent
         /\ \A r \in PartialRow(k) : r # Absent
<1>1. \A r \in PartialRow(k) : r # Absent
  BY DEF PartialRow, AdministrationAssumption
<1>2. CASE Target[c] # k \/ Mode[c] = "delete"
  BY <1>1, <1>2, EntryIs DEF Effect
<1>3. CASE Target[c] = k /\ Mode[c] # "delete"
  <2> DEFINE columns == Tells[c]
             said == Entry(c).told
  <2>1. /\ columns \in SUBSET Schema[k] /\ said \in [columns -> Values]
        /\ Entry(c).row = k /\ ~Entry(c).gone
    BY <1>3, EntryIs
  <2>2. said \in PartialRow(k)
    BY <2>1 DEF PartialRow
  <2>3. CASE told = Absent
    BY <1>1, <1>3, <2>1, <2>2, <2>3 DEF Effect
  <2>4. CASE told # Absent
    <3>1. PICK old \in SUBSET Schema[k] : told \in [old -> Values]
      BY <2>4 DEF PartialRow
    <3> DEFINE new == [x \in old \union columns |-> IF x \in columns THEN said[x] ELSE told[x]]
    <3>2. new \in [old \union columns -> Values] /\ old \union columns \in SUBSET Schema[k]
      <4> HIDE DEF columns
      <4>1. \A x \in old \union columns : (IF x \in columns THEN said[x] ELSE told[x]) \in Values
        BY <2>1, <3>1
      <4>2. new \in [old \union columns -> Values]
        BY <4>1
      <4> QED
        BY <2>1, <3>1, <4>2
    <3>3. new \in PartialRow(k)
      <4> HIDE DEF new, columns
      <4>1. \E all \in SUBSET Schema[k] : new \in [all -> Values]
        BY <3>2
      <4> QED
        BY <4>1 DEF PartialRow
    <3>4. Effect(k, told, Entry(c)) = new
      <4> HIDE DEF said
      <4>1. DOMAIN said = columns /\ DOMAIN told = old
        BY <2>1, <3>1
      <4> QED
        BY <2>1, <2>4, <4>1 DEF Effect, said
    <3> HIDE DEF new
    <3> QED
      BY <1>1, <3>3, <3>4
  <2> QED
    BY <2>3, <2>4
<1> QED
  BY <1>1, <1>2, <1>3

\* After an effect the row has what the audit row tells.
LEMMA EffectWrites ==
  ASSUME AdministrationAssumption,
         NEW k \in Keys, NEW c \in Commands, NEW told \in PartialRow(k) \union {Absent},
         Target[c] = k, Mode[c] # "delete", NEW x \in Tells[c]
  PROVE  /\ x \in DOMAIN Effect(k, told, Entry(c))
         /\ Effect(k, told, Entry(c))[x] = Writes[c][x]
<1> DEFINE said == Entry(c).told
<1>1. /\ Entry(c).row = k /\ ~Entry(c).gone /\ DOMAIN said = Tells[c]
      /\ said[x] = Writes[c][x]
  BY EntryIs
<1>2. CASE told = Absent
  BY <1>1, <1>2 DEF Effect
<1>3. CASE told # Absent
  <2>1. Effect(k, told, Entry(c)) =
          [y \in DOMAIN told \union DOMAIN said |-> IF y \in DOMAIN said THEN said[y] ELSE told[y]]
    BY <1>1, <1>3 DEF Effect
  <2> HIDE DEF said
  <2> QED
    BY <1>1, <2>1
<1> QED
  BY <1>2, <1>3

\* And what it had in the other columns.
LEMMA EffectKeeps ==
  ASSUME AdministrationAssumption, NEW k \in Keys, NEW c \in Commands, NEW told,
         Target[c] = k, Mode[c] # "delete", told # Absent, NEW x \in DOMAIN told \ Tells[c]
  PROVE  /\ x \in DOMAIN Effect(k, told, Entry(c))
         /\ Effect(k, told, Entry(c))[x] = told[x]
<1> DEFINE said == Entry(c).told
<1>1. Entry(c).row = k /\ ~Entry(c).gone /\ DOMAIN said = Tells[c]
  BY EntryIs
<1>2. Effect(k, told, Entry(c)) =
        [y \in DOMAIN told \union DOMAIN said |-> IF y \in DOMAIN said THEN said[y] ELSE told[y]]
  BY <1>1 DEF Effect
<1> HIDE DEF said
<1> QED
  BY <1>1, <1>2

\* A step that commits nothing keeps what readers know and what is told.
LEMMA QuietKeepsStory ==
  ASSUME StoryIInv, TablesIInv', UNCHANGED <<row, audit, contested>>,
         \A d \in Commands : Editing(d)' => Editing(d) /\ command'[d].seen = command[d].seen
  PROVE  StoryIInv'
<1>1. RivalsContest'
  <2> SUFFICES ASSUME NEW c \in Commands, Editing(c)', NEW d \in Rivals(c)'
               PROVE  Contest(c, command[c].seen, d)' \subseteq contested[Target[c]]
    BY DEF RivalsContest
  <2>1. Editing(c) /\ d \in Rivals(c)
    BY DEF Rivals
  <2>2. command'[c].seen = command[c].seen /\ command'[d].seen = command[d].seen
    BY DEF Rivals
  <2>3. Contest(c, command[c].seen, d)' = Contest(c, command[c].seen, d)
    BY <2>2 DEF Contest, Whole
  <2> QED
    BY <2>1, <2>3 DEF StoryIInv, RivalsContest
<1>2. StoryIsTrue'
  BY DEF StoryIInv, StoryIsTrue, Replayed, Agree
<1>3. ASSUME NEW c \in Commands, Editing(c)'
      PROVE  ReadIsCurrent(c)'
  <2>1. ReadIsCurrent(c) /\ command'[c].seen = command[c].seen
    BY <1>3 DEF StoryIInv
  <2> QED
    BY <2>1 DEF ReadIsCurrent
<1> QED
  BY <1>1, <1>2, <1>3 DEF StoryIInv

\* The end of a command: it edits no more, and the others go on.
LEMMA EndsEditing ==
  ASSUME TypeOK, NEW c \in Commands, NEW pc \in {"done", "failed"}, End(c, pc)
  PROVE  /\ command'[c].pc = pc /\ ~Editing(c)'
         /\ command'[c].from = IF pc = "done" THEN command[c].from ELSE 0
         /\ \A d \in Commands \ {c} : command'[d] = command[d]
         /\ \A d \in Commands : Editing(d)' => d # c /\ Editing(d) /\ command'[d] = command[d]
<1> DEFINE ended == [pc |-> pc, seen |-> Absent,
                     from |-> IF pc = "done" THEN command[c].from ELSE 0]
<1>1. command \in [Commands -> Command] /\ command' = [command EXCEPT ![c] = ended]
  BY DEF TypeOK, End
<1>2. command'[c] = ended /\ \A d \in Commands \ {c} : command'[d] = command[d]
  BY <1>1
<1>3. /\ command'[c].pc = pc /\ ~Editing(c)'
      /\ command'[c].from = IF pc = "done" THEN command[c].from ELSE 0
  BY <1>2 DEF Editing
<1> QED
  BY <1>2, <1>3 DEF Editing

\* A command that reads its row: whoever edits it too is a rival from now on.
LEMMA ReadingKeepsStory ==
  ASSUME AdministrationAssumption, StoryIInv, TablesIInv', NEW c \in Commands, ReadRow(c)
  PROVE  StoryIInv'
<1> DEFINE t == Target[c]
           seen == row[t]
<1>1. /\ TypeOK /\ TypeOK' /\ t \in Keys /\ UNCHANGED <<row, audit>>
      /\ command \in [Commands -> Command] /\ contested \in [Keys -> SUBSET UNION {Schema[k] : k \in Keys}]
  BY DEF StoryIInv, TablesIInv, TypeOK, AdministrationAssumption, ReadRow
<1>2. CASE seen = Absent /\ Mode[c] # "upsert"
  <2>1. End(c, "failed") /\ UNCHANGED contested
    BY <1>2 DEF ReadRow
  <2> QED
    BY <1>1, <2>1, EndsEditing, QuietKeepsStory
<1>3. CASE ~(seen = Absent /\ Mode[c] # "upsert")
  <2> DEFINE new == [command[c] EXCEPT !.pc = "edit", !.seen = seen]
             more == UNION {Contest(c, seen, d) : d \in Rivals(c)}
  <2>1. /\ command' = [command EXCEPT ![c] = new]
        /\ contested' = [contested EXCEPT ![t] = contested[t] \union more]
        /\ ~Editing(c)
    BY <1>3 DEF ReadRow, Editing
  <2>2. /\ command'[c].seen = seen /\ Editing(c)'
        /\ \A d \in Commands \ {c} : command'[d] = command[d] /\ (Editing(d)' <=> Editing(d))
        /\ contested'[t] = contested[t] \union more
        /\ \A k \in Keys : contested[k] \subseteq contested'[k]
    <3>1. new.seen = seen /\ new.pc = "edit"
      BY <1>1 DEF Command
    <3>2. command'[c] = new /\ \A d \in Commands \ {c} : command'[d] = command[d]
      <4> HIDE DEF new
      <4> QED
        BY <1>1, <2>1
    <3>3. /\ contested'[t] = contested[t] \union more
          /\ \A k \in Keys : contested[k] \subseteq contested'[k]
      <4> HIDE DEF more, t
      <4> QED
        BY <1>1, <2>1
    <3> HIDE DEF new, more
    <3> QED
      BY <3>1, <3>2, <3>3 DEF Editing
  <2>3. RivalsContest'
    <3> SUFFICES ASSUME NEW a \in Commands, Editing(a)', NEW b \in Rivals(a)'
                 PROVE  Contest(a, command[a].seen, b)' \subseteq contested'[Target[a]]
      BY DEF RivalsContest
    <3>1. b \in Commands \ {a} /\ Editing(b)' /\ Target[b] = Target[a]
      BY DEF Rivals
    <3>2. CASE a = c
      <4>1. b \in Rivals(c) /\ command'[b] = command[b]
        BY <2>2, <3>1, <3>2 DEF Rivals
      <4>2. Contest(a, command[a].seen, b)' = Contest(c, seen, b)
        BY <2>2, <3>2, <4>1 DEF Contest, Whole
      <4> QED
        BY <2>2, <3>2, <4>1, <4>2
    <3>3. CASE b = c
      <4>1. a \in Rivals(c) /\ command'[a] = command[a]
        BY <2>2, <3>1, <3>3 DEF Rivals
      <4>2. Contest(a, command[a].seen, b)' = Contest(c, seen, a)
        BY <2>2, <3>1, <3>3, <4>1 DEF Contest, Whole
      <4> QED
        BY <2>2, <3>1, <3>3, <4>1, <4>2
    <3>4. CASE a # c /\ b # c
      <4>1. /\ Editing(a) /\ b \in Rivals(a)
            /\ command'[a] = command[a] /\ command'[b] = command[b]
        BY <2>2, <3>1, <3>4 DEF Rivals
      <4>2. Contest(a, command[a].seen, b)' = Contest(a, command[a].seen, b)
        BY <4>1 DEF Contest, Whole
      <4>3. contested[Target[a]] \subseteq contested'[Target[a]]
        BY <2>2 DEF AdministrationAssumption
      <4> QED
        BY <4>1, <4>2, <4>3 DEF StoryIInv, RivalsContest
    <3> QED
      BY <3>2, <3>3, <3>4
  <2>4. StoryIsTrue'
    <3> SUFFICES ASSUME NEW k \in Keys
                 PROVE  /\ Replayed(k, Len(audit))' \in PartialRow(k) \union {Absent}
                        /\ Agree(Replayed(k, Len(audit)), row[k], Audible(k) \ contested[k])'
      BY DEF StoryIsTrue
    <3>1. Replayed(k, Len(audit))' = Replayed(k, Len(audit)) /\ row'[k] = row[k]
      BY <1>1 DEF Replayed
    <3> QED
      BY <2>2, <3>1 DEF StoryIInv, StoryIsTrue, Agree
  <2>5. ASSUME NEW d \in Commands, Editing(d)'
        PROVE  ReadIsCurrent(d)'
    <3>1. CASE d = c
      BY <1>1, <2>2, <3>1 DEF ReadIsCurrent
    <3>2. CASE d # c
      <4>1. ReadIsCurrent(d) /\ command'[d] = command[d]
        BY <2>2, <2>5, <3>2 DEF StoryIInv
      <4>2. /\ contested[Target[d]] \subseteq contested'[Target[d]] /\ row' = row
            /\ contested'[Target[d]] \subseteq Schema[Target[d]]
        BY <1>1, <2>2 DEF AdministrationAssumption, TypeOK
      <4> QED
        BY <4>1, <4>2 DEF ReadIsCurrent
    <3> QED
      BY <3>1, <3>2
  <2> QED
    BY <2>3, <2>4, <2>5 DEF StoryIInv
<1> QED
  BY <1>2, <1>3

\* What a commit does to its row: no row any more, a whole new one, or the
\* columns that differ from what was read.
CommitsOf(c) ==
  LET t == Target[c]
      seen == command[c].seen
  IN  \/ Mode[c] = "delete" /\ row'[t] = Absent
      \/ /\ Mode[c] # "delete" /\ seen = Absent
         /\ DOMAIN Writes[c] = Schema[t] /\ row'[t] = Writes[c] /\ row'[t] # Absent
      \/ /\ Mode[c] # "delete" /\ seen # Absent
         /\ row'[t] = Absent <=> row[t] = Absent
         /\ \A x \in Schema[t] \ DOMAIN Writes[c] : row'[t][x] = row[t][x]
         /\ \A x \in DOMAIN Writes[c] :
              \/ row'[t][x] = Writes[c][x]
              \/ Writes[c][x] = seen[x] /\ row'[t][x] = row[t][x]

\* What Update, Insert and Delete do, as CommitsOf says it.
LEMMA CommitWrites ==
  ASSUME AdministrationAssumption, TablesIInv, TablesIInv', NEW c \in Commands,
         Update(c) \/ Insert(c) \/ Delete(c)
  PROVE  /\ Editing(c) /\ End(c, "done") /\ Audited(c) /\ UNCHANGED contested
         /\ \A k \in Keys \ {Target[c]} : row'[k] = row[k]
         /\ CommitsOf(c)
<1> DEFINE t == Target[c]
           seen == command[c].seen
<1>1. /\ t \in Keys /\ row \in [Keys -> Row \union {Absent}]
      /\ DOMAIN Writes[c] \subseteq Schema[t]
      /\ row'[t] = Absent \/ row'[t] \in [Schema[t] -> Values]
      /\ \A r \in [Schema[t] -> Values] : r # Absent
  BY DEF TablesIInv, TypeOK, AdministrationAssumption
<1>2. Editing(c) /\ End(c, "done") /\ Audited(c) /\ UNCHANGED contested
  BY DEF Update, Insert, Delete, Editing
<1>3. ASSUME NEW new, row' = [row EXCEPT ![t] = new]
      PROVE  row'[t] = new /\ \A k \in Keys \ {t} : row'[k] = row[k]
  BY <1>1, <1>3
<1>4. CASE Delete(c)
  <2>1. Mode[c] = "delete"
    BY <1>4 DEF Delete, TablesIInv, OnlyDeletesLink
  <2>2. row' = [row EXCEPT ![t] = Absent]
    BY <1>4 DEF Delete
  <2> QED
    BY <1>2, <1>3, <2>1, <2>2 DEF CommitsOf
<1>5. CASE Insert(c)
  <2>1. /\ Mode[c] = "upsert" /\ seen = Absent /\ row[t] = Absent
        /\ row' = [row EXCEPT ![t] = Writes[c]]
    BY <1>5 DEF Insert
  <2>2. Writes[c] \in [Schema[t] -> Values]
    BY <2>1, InsertedIsRow DEF TablesIInv
  <2>3. row'[t] = Writes[c] /\ row'[t] # Absent /\ DOMAIN Writes[c] = Schema[t]
    BY <1>1, <1>3, <2>1, <2>2
  <2>4. \A k \in Keys \ {t} : row'[k] = row[k]
    BY <1>3, <2>1
  <2> QED
    BY <1>2, <2>1, <2>3, <2>4 DEF CommitsOf
<1>6. CASE Update(c)
  <2> DEFINE dirty == {x \in DOMAIN Writes[c] : Writes[c][x] # seen[x]}
  <2>1. /\ Mode[c] # "delete" /\ seen # Absent
        /\ DOMAIN Changes(c) = dirty
        /\ \A x \in dirty : Changes(c)[x] = Writes[c][x]
    BY <1>6 DEF Update, Changes
  <2>2. CASE dirty = {} /\ UNCHANGED row
    BY <1>2, <2>1, <2>2 DEF CommitsOf
  <2>3. CASE row[t] # Absent /\ row' = [row EXCEPT ![t] = Merged(c)]
    <3>1. row'[t] = Merged(c) /\ \A k \in Keys \ {t} : row'[k] = row[k]
      BY <1>3, <2>3
    <3>2. Merged(c) = [x \in Schema[t] |-> IF x \in dirty THEN Changes(c)[x] ELSE row[t][x]]
      BY <2>1 DEF Merged
    <3>3. row'[t] # Absent
      BY <1>1, <2>3, <3>1, MergedIsRow DEF TablesIInv, TypeOK, RowsTyped
    <3>4. \A x \in Schema[t] : row'[t][x] = IF x \in dirty THEN Writes[c][x] ELSE row[t][x]
      <4> HIDE DEF dirty
      <4> QED
        BY <2>1, <3>1, <3>2
    <3>5. \A x \in DOMAIN Writes[c] : x \in dirty \/ Writes[c][x] = seen[x]
      OBVIOUS
    <3> HIDE DEF dirty
    <3>6. \A x \in DOMAIN Writes[c] : \/ row'[t][x] = Writes[c][x]
                                      \/ Writes[c][x] = seen[x] /\ row'[t][x] = row[t][x]
      BY <1>1, <3>4, <3>5
    <3>7. \A x \in Schema[t] \ DOMAIN Writes[c] : row'[t][x] = row[t][x]
      <4>1. dirty \subseteq DOMAIN Writes[c]
        BY DEF dirty
      <4> QED
        BY <3>4, <4>1
    <3> QED
      BY <1>2, <2>1, <2>3, <3>1, <3>3, <3>6, <3>7 DEF CommitsOf
  <2>4. (dirty = {} /\ UNCHANGED row) \/ (row[t] # Absent /\ row' = [row EXCEPT ![t] = Merged(c)])
    BY <1>6, <2>1 DEF Update
  <2> QED
    BY <2>2, <2>3, <2>4
<1> QED
  BY <1>4, <1>5, <1>6

\* A commit leaves to the other commands on its row what they have read.
LEMMA CommitKeepsReaders ==
  ASSUME AdministrationAssumption, StoryIInv, NEW c \in Commands, Editing(c), CommitsOf(c),
         UNCHANGED contested, \A k \in Keys \ {Target[c]} : row'[k] = row[k],
         NEW d \in Commands \ {c}, Editing(d), command'[d] = command[d]
  PROVE  ReadIsCurrent(d)'
<1> DEFINE t == Target[c]
           seen == command[d].seen
<1>1. /\ ReadIsCurrent(d) /\ contested[t] \subseteq Schema[t]
      /\ Target[d] \in Keys /\ DOMAIN Writes[d] \subseteq Schema[Target[d]]
  BY DEF StoryIInv, TablesIInv, TypeOK, AdministrationAssumption
<1>2. CASE Target[d] # t
  BY <1>1, <1>2 DEF ReadIsCurrent
<1>3. CASE Target[d] = t
  <2>1. Contest(c, command[c].seen, d) \subseteq contested[t]
    BY <1>3 DEF StoryIInv, RivalsContest, Rivals
  <2>2. CASE contested[t] = Schema[t]
    BY <1>3, <2>2 DEF ReadIsCurrent
  <2>3. CASE contested[t] # Schema[t]
    <3>1. /\ ~Whole(c, command[c].seen)
          /\ DOMAIN Writes[c] \intersect DOMAIN Writes[d] \subseteq contested[t]
      BY <1>1, <2>1, <2>3 DEF Contest
    <3>2. /\ row'[t] = Absent <=> row[t] = Absent
          /\ \A x \in Schema[t] \ DOMAIN Writes[c] : row'[t][x] = row[t][x]
      BY <3>1 DEF CommitsOf, Whole
    <3>3. /\ seen = Absent <=> row[t] = Absent
          /\ seen # Absent => \A x \in DOMAIN Writes[d] \ contested[t] : row[t][x] = seen[x]
      BY <1>1, <1>3, <2>3 DEF ReadIsCurrent
    <3>4. seen # Absent => \A x \in DOMAIN Writes[d] \ contested[t] : row'[t][x] = seen[x]
      BY <1>1, <1>3, <3>1, <3>2, <3>3
    <3> QED
      BY <1>3, <3>2, <3>3, <3>4 DEF ReadIsCurrent
  <2> QED
    BY <2>2, <2>3
<1> QED
  BY <1>2, <1>3

\* A commit and its audit row tell the same.
LEMMA CommitKeepsStory ==
  ASSUME AdministrationAssumption, StoryIInv, NEW c \in Commands, Editing(c), CommitsOf(c),
         Audited(c), UNCHANGED contested, \A k \in Keys \ {Target[c]} : row'[k] = row[k],
         NEW k \in Keys
  PROVE  /\ Replayed(k, Len(audit))' \in PartialRow(k) \union {Absent}
         /\ Agree(Replayed(k, Len(audit)), row[k], Audible(k) \ contested[k])'
<1> DEFINE told == Replayed(k, Len(audit))
           columns == Audible(k) \ contested[k]
<1>1. /\ TypeOK /\ contested[k] \subseteq Schema[k] /\ Audible(k) \subseteq Schema[k]
      /\ told \in PartialRow(k) \union {Absent} /\ Agree(told, row[k], columns)
      /\ ReadIsCurrent(c) /\ DOMAIN Writes[c] \subseteq Schema[Target[c]]
  BY DEF StoryIInv, StoryIsTrue, TablesIInv, TypeOK, AdministrationAssumption, Audible
<1>2. Agree(Replayed(k, Len(audit)), row[k], Audible(k) \ contested[k])'
      <=> Agree(Replayed(k, Len(audit))', row'[k], columns)
  BY DEF Agree
<1>3. CASE c \in Unaudited
  <2>1. Replayed(k, Len(audit))' = told
    BY <1>3 DEF Audited, Replayed
  <2>2. CASE Target[c] # k
    BY <1>1, <1>2, <2>1, <2>2
  <2>3. CASE Target[c] = k
    <3>1. /\ Mode[c] # "delete" /\ Audible(k) \intersect DOMAIN Writes[c] = {}
          /\ columns \subseteq Schema[k] \ DOMAIN Writes[c]
      BY <1>1, <1>3, <2>3 DEF AdministrationAssumption, Audible
    <3>2. CASE columns = {}
      BY <1>1, <1>2, <2>1, <3>2 DEF Agree
    <3>3. CASE columns # {}
      <4>1. /\ row'[k] = Absent <=> row[k] = Absent
            /\ \A x \in columns : row'[k][x] = row[k][x]
        BY <2>3, <3>1, <3>3 DEF CommitsOf
      <4> HIDE DEF told, columns
      <4>2. Agree(told, row'[k], columns)
        BY <1>1, <4>1 DEF Agree
      <4> QED
        BY <1>1, <1>2, <2>1, <4>2
    <3> QED
      BY <3>2, <3>3
  <2> QED
    BY <2>2, <2>3
<1>4. CASE c \notin Unaudited
  <2> DEFINE new == Effect(k, told, Entry(c))
  <2>1. Replayed(k, Len(audit))' = new
    BY <1>1, <1>4, StoryGrows DEF Audited
  <2>2. /\ new \in PartialRow(k) \union {Absent}
        /\ Target[c] = k /\ Mode[c] # "delete" => new # Absent
    BY <1>1, EffectTyped
  <2>3. CASE Target[c] # k
    <3>1. new = told
      BY <2>3, EntryIs DEF Effect
    <3> QED
      BY <1>1, <1>2, <2>1, <2>3, <3>1
  <2>4. CASE Target[c] = k /\ Mode[c] = "delete"
    <3>1. new = Absent /\ row'[k] = Absent
      BY <2>4, EntryIs DEF Effect, CommitsOf
    <3>2. Agree(new, row'[k], columns)
      BY <3>1 DEF Agree
    <3> QED
      BY <1>2, <2>1, <2>2, <3>2
  <2>5. CASE Target[c] = k /\ Mode[c] # "delete"
    <3>1. /\ \A x \in Tells[c] : x \in DOMAIN new /\ new[x] = Writes[c][x]
          /\ told # Absent => \A x \in DOMAIN told \ Tells[c] :
                                x \in DOMAIN new /\ new[x] = told[x]
      <4>1. Target[c] = k /\ Mode[c] # "delete"
        BY <2>5
      <4> HIDE DEF told
      <4>2. \A x \in Tells[c] : x \in DOMAIN new /\ new[x] = Writes[c][x]
        BY <1>1, <4>1, EffectWrites
      <4>3. told # Absent => \A x \in DOMAIN told \ Tells[c] :
                                x \in DOMAIN new /\ new[x] = told[x]
        BY <4>1, EffectKeeps
      <4> QED
        BY <4>2, <4>3
    <3> SUFFICES ASSUME NEW x \in columns
                 PROVE  new # Absent /\ row'[k] # Absent /\ x \in DOMAIN new /\ row'[k][x] = new[x]
      <4> HIDE DEF new, columns
      <4>1. \/ columns = {}
            \/ new # Absent
        BY <2>2, <2>5
      <4> QED
        BY <1>2, <2>1, <2>2, <4>1 DEF Agree
    <3> HIDE DEF new
    <3>2. /\ new # Absent /\ x \in Schema[k] /\ x \notin contested[k] /\ contested[k] # Schema[k]
          /\ x \in DOMAIN Writes[c] <=> x \in Tells[c]
      BY <1>1, <2>2, <2>5, EntryIs DEF Audible
    <3>3. \/ told = Absent /\ row[k] = Absent
          \/ told # Absent /\ row[k] # Absent /\ x \in DOMAIN told /\ row[k][x] = told[x]
      <4> HIDE DEF told, columns
      <4> QED
        BY <1>1 DEF Agree
    <3>4. CASE command[c].seen = Absent
      <4>1. DOMAIN Writes[c] = Schema[k] /\ row'[k] = Writes[c] /\ row'[k] # Absent
        BY <2>5, <3>4 DEF CommitsOf
      <4> QED
        BY <3>1, <3>2, <4>1
    <3>5. CASE command[c].seen # Absent
      <4>1. /\ row'[k] = Absent <=> row[k] = Absent
            /\ \A y \in Schema[k] \ DOMAIN Writes[c] : row'[k][y] = row[k][y]
            /\ \A y \in DOMAIN Writes[c] :
                 \/ row'[k][y] = Writes[c][y]
                 \/ Writes[c][y] = command[c].seen[y] /\ row'[k][y] = row[k][y]
        BY <2>5, <3>5 DEF CommitsOf
      <4>2. /\ row[k] # Absent
            /\ \A y \in DOMAIN Writes[c] \ contested[k] : row[k][y] = command[c].seen[y]
        BY <1>1, <2>5, <3>2, <3>5 DEF ReadIsCurrent
      <4>3. row'[k] # Absent /\ told # Absent /\ x \in DOMAIN told /\ row[k][x] = told[x]
        BY <3>3, <4>1, <4>2
      <4>4. CASE x \in DOMAIN Writes[c]
        BY <3>1, <3>2, <4>1, <4>2, <4>3, <4>4
      <4>5. CASE x \notin DOMAIN Writes[c]
        BY <3>1, <3>2, <4>1, <4>3, <4>5
      <4> QED
        BY <4>4, <4>5
    <3> QED
      BY <3>4, <3>5
  <2> QED
    BY <2>3, <2>4, <2>5
<1> QED
  BY <1>3, <1>4

\* A commit keeps what its rivals know, and tells what it did.
LEMMA CommittingKeepsStory ==
  ASSUME AdministrationAssumption, StoryIInv, TablesIInv', NEW c \in Commands,
         Update(c) \/ Insert(c) \/ Delete(c)
  PROVE  StoryIInv'
<1>1. /\ Editing(c) /\ Audited(c) /\ UNCHANGED contested /\ CommitsOf(c)
      /\ \A k \in Keys \ {Target[c]} : row'[k] = row[k]
      /\ End(c, "done") /\ TypeOK
  BY CommitWrites DEF StoryIInv, TablesIInv
<1>2. \A d \in Commands : Editing(d)' => d # c /\ Editing(d) /\ command'[d] = command[d]
  BY <1>1, EndsEditing
<1>3. RivalsContest'
  <2> SUFFICES ASSUME NEW a \in Commands, Editing(a)', NEW b \in Rivals(a)'
               PROVE  Contest(a, command[a].seen, b)' \subseteq contested[Target[a]]
    BY <1>1 DEF RivalsContest
  <2>1. /\ Editing(a) /\ b \in Rivals(a)
        /\ command'[a] = command[a] /\ command'[b] = command[b]
    BY <1>2 DEF Rivals
  <2>2. Contest(a, command[a].seen, b)' = Contest(a, command[a].seen, b)
    BY <2>1 DEF Contest, Whole
  <2> QED
    BY <2>1, <2>2 DEF StoryIInv, RivalsContest
<1>4. StoryIsTrue'
  BY <1>1, CommitKeepsStory DEF StoryIsTrue
<1>5. ASSUME NEW d \in Commands, Editing(d)'
      PROVE  ReadIsCurrent(d)'
  BY <1>1, <1>2, <1>5, CommitKeepsReaders
<1> QED
  BY <1>3, <1>4, <1>5 DEF StoryIInv

\* A step of a command.
LEMMA CommandTellsStory ==
  ASSUME AdministrationAssumption, StoryIInv, TablesIInv', NEW c \in Commands, CommandNext(c)
  PROVE  StoryIInv'
<1>1. TypeOK /\ command \in [Commands -> Command] /\ command[c] \in Command
  BY DEF StoryIInv, TablesIInv, TypeOK
<1>2. ASSUME NEW pc \in {"done", "failed"}, End(c, pc), UNCHANGED <<row, audit, contested>>
      PROVE  StoryIInv'
  BY <1>1, <1>2, EndsEditing, QuietKeepsStory
<1>3. CASE Authorise(c)
  <2> DEFINE new == [command[c] EXCEPT !.pc = IF Entitled(c) THEN "allowed" ELSE "failed",
                                       !.from = Len(audit)]
  <2>1. command' = [command EXCEPT ![c] = new] /\ UNCHANGED <<row, audit, contested>>
    BY <1>3 DEF Authorise
  <2>2. new.pc \notin {"edit", "linked"}
    BY <1>1 DEF Command
  <2> HIDE DEF new
  <2>3. \A d \in Commands : Editing(d)' => Editing(d) /\ command'[d].seen = command[d].seen
    BY <1>1, <2>1, <2>2 DEF Editing
  <2> QED
    BY <2>1, <2>3, QuietKeepsStory
<1>4. CASE FindLinked(c)
  <2>1. CASE Linked(Target[c]) # {}
    BY <1>2, <1>4, <2>1 DEF FindLinked
  <2>2. CASE Linked(Target[c]) = {}
    <3> DEFINE new == [command[c] EXCEPT !.pc = "linked"]
    <3>1. /\ command' = [command EXCEPT ![c] = new] /\ UNCHANGED <<row, audit, contested>>
          /\ Editing(c)
      BY <1>4, <2>2 DEF FindLinked, Editing
    <3>2. new.seen = command[c].seen
      BY <1>1 DEF Command
    <3> HIDE DEF new
    <3>3. \A d \in Commands : Editing(d)' => Editing(d) /\ command'[d].seen = command[d].seen
      BY <1>1, <3>1, <3>2 DEF Editing
    <3> QED
      BY <3>1, <3>3, QuietKeepsStory
  <2> QED
    BY <2>1, <2>2
<1>5. CASE Conflict(c) \/ AbortCommand(c)
  BY <1>2, <1>5 DEF Conflict, AbortCommand
<1> QED
  BY <1>3, <1>4, <1>5, ReadingKeepsStory, CommittingKeepsStory DEF CommandNext

\* Nothing is told, read or contested at the start.
LEMMA StoryInitially ==
  ASSUME AdministrationAssumption, Init
  PROVE  StoryIInv
<1>1. TablesIInv /\ RivalsContest /\ \A c \in Commands : ~Editing(c)
  BY TablesInitially DEF Init, RivalsContest, Editing
<1>2. ASSUME NEW k \in Keys
      PROVE  /\ Replayed(k, Len(audit)) \in PartialRow(k) \union {Absent}
             /\ Agree(Replayed(k, Len(audit)), row[k], Audible(k) \ contested[k])
  <2>1. Replayed(k, Len(audit)) = Opening[k] /\ row[k] = Opening[k]
    BY ToldFirst DEF Init, Replayed
  <2>2. Opening[k] = Absent \/ Opening[k] \in [Schema[k] -> Values]
    BY DEF AdministrationAssumption
  <2>3. Opening[k] \in PartialRow(k) \union {Absent}
    BY <2>2 DEF PartialRow
  <2>4. Opening[k] # Absent => DOMAIN Opening[k] = Schema[k]
    BY <2>2
  <2> QED
    BY <2>1, <2>3, <2>4 DEF Agree, Audible
<1> QED
  BY <1>1, <1>2 DEF StoryIInv, StoryIsTrue

\* Every step of anybody keeps the story.
LEMMA StoryInductive == StoryIInv /\ TablesIInv' /\ [Next]_vars => StoryIInv'
<1> SUFFICES ASSUME StoryIInv, TablesIInv', [Next]_vars
             PROVE  StoryIInv'
  OBVIOUS
<1>1. CASE UNCHANGED <<row, audit, contested, command>>
  <2>1. \A d \in Commands : Editing(d)' => Editing(d) /\ command'[d].seen = command[d].seen
    BY <1>1 DEF Editing
  <2> QED
    BY <1>1, <2>1, QuietKeepsStory
<1>2. ASSUME NEW k \in Clients, ClientNext(k)
      PROVE  UNCHANGED <<row, audit, contested, command>>
  BY <1>2
  DEF ClientNext, Tap, ReadGroup, ReadChannel, AskGroup, AskChannel,
      CheckMaintenance, ReadOffer, CheckAgain, TakeOrder, FileDeposit, Abandon
<1>3. Membership \/ UNCHANGED vars => UNCHANGED <<row, audit, contested, command>>
  BY DEF Membership, vars
<1> QED
  BY <1>1, <1>2, <1>3, AdministrationAssumption, CommandTellsStory DEF Next

\* So the log tells the story in every behaviour.
LEMMA StoryAlways == Spec => []StoryIInv
<1>1. Init => StoryIInv
  BY AdministrationAssumption, StoryInitially
<1> QED
  BY <1>1, StoryInductive, TablesAlways, PTL DEF Spec

-----------------------------------------------------------------------------
(* The authors of what was audited.                                        *)

\* What makes an author one of the administrators stays true of the past.
LEMMA AuthorsStay ==
  ASSUME AdministrationAssumption, StoryIInv, NEW c \in Commands,
         audit' \in {audit, Append(audit, Entry(c))}, \A k \in Keys : contested[k] \subseteq contested'[k],
         NEW d \in Commands \ Public, command'[d].from = command[d].from,
         command[d].from <= Len(audit), WasAdmin(d)
  PROVE  command'[d].from <= Len(audit') /\ WasAdmin(d)'
<1> DEFINE a == Actor[d]
           n == command[d].from
<1>1. TypeOK /\ n \in Nat
  BY DEF StoryIInv, TablesIInv, TypeOK, Command
<1>2. ASSUME NEW k
      PROVE  Told(k, audit', n) = Told(k, audit, n) /\ n <= Len(audit')
  <2> DEFINE e == Entry(c)
  <2>1. audit' \in {audit, Append(audit, e)} /\ n <= Len(audit) /\ e \in AuditRow
    BY EntryIs
  <2> HIDE DEF e, n
  <2> QED
    BY <1>1, <2>1, PastIsTold
<1>3. a = Permanent \/ AdminRow[a] \in Keys
  BY DEF AdministrationAssumption
<1> QED
  BY <1>2, <1>3 DEF WasAdmin, Replayed

\* Whoever passes the check is told to be an administrator at that moment.
LEMMA AuthorsEnter ==
  ASSUME AdministrationAssumption, StoryIInv, NEW c \in Commands \ Public, Entitled(c)
  PROVE  Actor[c] = Permanent \/ "active" \in contested[AdminRow[Actor[c]]]
         \/ Replayed(AdminRow[Actor[c]], Len(audit))["active"] = "on"
<1> SUFFICES ASSUME Actor[c] # Permanent, "active" \notin contested[AdminRow[Actor[c]]]
             PROVE  Replayed(AdminRow[Actor[c]], Len(audit))["active"] = "on"
  OBVIOUS
<1> DEFINE k == AdminRow[Actor[c]]
<1>1. k \in Keys /\ "active" \in Audible(k)
  BY DEF AdministrationAssumption
<1>2. row[k] # Absent /\ row[k]["active"] = "on"
  BY DEF Entitled, IsAdmin, On
<1>3. Agree(Replayed(k, Len(audit)), row[k], Audible(k) \ contested[k])
  BY <1>1 DEF StoryIInv, StoryIsTrue
<1> HIDE DEF k
<1> QED
  BY <1>1, <1>2, <1>3 DEF Agree, k

\* How a step moves its command: in by the check, on, out, or to its commit.
Enters(c) ==
  /\ command[c].pc = "idle" /\ UNCHANGED audit
  /\ command'[c].from = Len(audit) /\ (Entitled(c) \/ command'[c].pc = "failed")
GoesOn(c) ==
  /\ command[c].pc \in {"allowed", "edit"} /\ UNCHANGED audit
  /\ command'[c].from = command[c].from
Fails(c) ==
  command[c].pc \in {"allowed", "edit", "linked"} /\ UNCHANGED audit /\ command'[c].pc = "failed"
Commits(c) ==
  /\ command[c].pc \in {"edit", "linked"} /\ Audited(c)
  /\ command'[c].pc = "done" /\ command'[c].from = command[c].from

\* Every step of a command is one of these.
LEMMA CommandMoves ==
  ASSUME AdministrationAssumption, TypeOK, NEW c \in Commands, CommandNext(c)
  PROVE  /\ \A d \in Commands \ {c} : command'[d] = command[d]
         /\ Enters(c) \/ GoesOn(c) \/ Fails(c) \/ Commits(c)
<1>1. command \in [Commands -> Command] /\ command[c] \in Command
  BY DEF TypeOK
<1>2. ASSUME NEW new \in Command, command' = [command EXCEPT ![c] = new]
      PROVE  command'[c] = new /\ \A d \in Commands \ {c} : command'[d] = command[d]
  BY <1>1, <1>2
<1>3. CASE Authorise(c)
  <2> DEFINE pc == IF Entitled(c) THEN "allowed" ELSE "failed"
             new == [command[c] EXCEPT !.pc = pc, !.from = Len(audit)]
  <2>1. Len(audit) \in Nat
    BY DEF TypeOK
  <2>2. new \in Command /\ new.from = Len(audit) /\ new.pc = pc
    BY <1>1, <2>1 DEF Command
  <2>3. command[c].pc = "idle" /\ UNCHANGED audit /\ command' = [command EXCEPT ![c] = new]
    BY <1>3 DEF Authorise
  <2> HIDE DEF new
  <2> QED
    BY <1>2, <2>2, <2>3 DEF Enters
<1>4. CASE \E pc \in {"failed"} : End(c, pc) /\ UNCHANGED audit
                                  /\ command[c].pc \in {"allowed", "edit", "linked"}
  BY <1>4, EndsEditing DEF Fails
<1>5. CASE ReadRow(c) /\ ~End(c, "failed")
  <2> DEFINE seen == row[Target[c]]
             new == [command[c] EXCEPT !.pc = "edit", !.seen = seen]
  <2>1. seen \in Row \union {Absent}
    BY DEF TypeOK, AdministrationAssumption
  <2>2. new \in Command /\ new.from = command[c].from
    <3> HIDE DEF seen
    <3> QED
      BY <1>1, <2>1 DEF Command
  <2>3. /\ command[c].pc = "allowed" /\ UNCHANGED audit
        /\ command' = [command EXCEPT ![c] = new]
    BY <1>5 DEF ReadRow
  <2> HIDE DEF new
  <2> QED
    BY <1>2, <2>2, <2>3 DEF GoesOn
<1>6. CASE FindLinked(c) /\ ~End(c, "failed")
  <2> DEFINE new == [command[c] EXCEPT !.pc = "linked"]
  <2>1. new \in Command /\ new.from = command[c].from
    BY <1>1 DEF Command
  <2>2. command[c].pc = "edit" /\ UNCHANGED audit /\ command' = [command EXCEPT ![c] = new]
    BY <1>6 DEF FindLinked
  <2> HIDE DEF new
  <2> QED
    BY <1>2, <2>1, <2>2 DEF GoesOn
<1>7. CASE Update(c) \/ Insert(c) \/ Delete(c)
  <2>1. command[c].pc \in {"edit", "linked"} /\ Audited(c) /\ End(c, "done")
    BY <1>7 DEF Update, Insert, Delete
  <2> QED
    BY <2>1, EndsEditing DEF Commits
<1>8. CASE Conflict(c) \/ AbortCommand(c) \/ (ReadRow(c) /\ End(c, "failed"))
           \/ (FindLinked(c) /\ End(c, "failed"))
  BY <1>4, <1>8 DEF Conflict, AbortCommand, ReadRow, FindLinked
<1> QED
  BY <1>3, <1>5, <1>6, <1>7, <1>8 DEF CommandNext

\* A step keeps columns contested.
LEMMA ContestedGrows ==
  ASSUME AdministrationAssumption, TypeOK, NEW c \in Commands, CommandNext(c)
  PROVE  \A k \in Keys : contested[k] \subseteq contested'[k]
<1> DEFINE t == Target[c]
<1>1. contested \in [Keys -> SUBSET UNION {Schema[k] : k \in Keys}] /\ t \in Keys
  BY DEF TypeOK, AdministrationAssumption
<1>2. ASSUME NEW more, contested' = [contested EXCEPT ![t] = contested[t] \union more]
      PROVE  \A k \in Keys : contested[k] \subseteq contested'[k]
  BY <1>1, <1>2
<1>3. CASE UNCHANGED contested
  BY <1>3
<1>4. CASE ReadRow(c)
  BY <1>2, <1>3, <1>4 DEF ReadRow
<1> QED
  BY <1>3, <1>4
  DEF CommandNext, Authorise, Update, Insert, Conflict, FindLinked, Delete, AbortCommand

\* A step of a command keeps what is known of the authors.
LEMMA CommandKeepsAuthors ==
  ASSUME AdministrationAssumption, StoryIInv, AuthorsIInv, NEW c \in Commands, CommandNext(c)
  PROVE  AuthorsIInv'
<1>1. /\ TypeOK /\ audit \in Seq(AuditRow) /\ Len(audit) \in Nat
      /\ command \in [Commands -> Command]
  BY DEF StoryIInv, TablesIInv, TypeOK
<1>2. /\ \A d \in Commands \ {c} : command'[d] = command[d]
      /\ Enters(c) \/ GoesOn(c) \/ Fails(c) \/ Commits(c)
      /\ \A k \in Keys : contested[k] \subseteq contested'[k]
  BY <1>1, CommandMoves, ContestedGrows
<1>3. audit' \in {audit, Append(audit, Entry(c))}
  BY <1>2 DEF Enters, GoesOn, Fails, Commits, Audited
<1>4. ASSUME NEW d \in Commands \ Public, command'[d].pc \notin {"idle", "failed"}
      PROVE  command'[d].from <= Len(audit') /\ WasAdmin(d)'
  <2>1. CASE command[d].pc \notin {"idle", "failed"} /\ command'[d].from = command[d].from
    <3>1. command[d].from <= Len(audit) /\ WasAdmin(d)
      BY <2>1 DEF AuthorsIInv
    <3> QED
      BY <1>2, <1>3, <2>1, <3>1, AuthorsStay
  <2>2. CASE d = c /\ Enters(c)
    <3>1. Entitled(c) /\ audit' = audit /\ command'[c].from = Len(audit)
      BY <1>4, <2>2 DEF Enters
    <3>2. \/ Actor[c] = Permanent \/ "active" \in contested[AdminRow[Actor[c]]]
          \/ Replayed(AdminRow[Actor[c]], Len(audit))["active"] = "on"
      BY <2>2, <3>1, AuthorsEnter
    <3>3. Actor[c] = Permanent \/ AdminRow[Actor[c]] \in Keys
      BY <2>2 DEF AdministrationAssumption
    <3>4. WasAdmin(c)'
      BY <1>2, <3>1, <3>2, <3>3 DEF WasAdmin, Replayed
    <3> QED
      BY <1>1, <2>2, <3>1, <3>4
  <2> QED
    BY <1>2, <1>4, <2>1, <2>2 DEF Enters, GoesOn, Fails, Commits
<1> QED
  BY <1>4 DEF AuthorsIInv

\* Every step of anybody keeps what is known of the authors.
LEMMA AuthorsInductive == StoryIInv /\ AuthorsIInv /\ [Next]_vars => AuthorsIInv'
<1> SUFFICES ASSUME StoryIInv, AuthorsIInv, [Next]_vars
             PROVE  AuthorsIInv'
  OBVIOUS
<1>1. CASE UNCHANGED <<row, audit, contested, command>>
  BY <1>1 DEF AuthorsIInv, WasAdmin, Replayed
<1>2. ASSUME NEW k \in Clients, ClientNext(k)
      PROVE  UNCHANGED <<row, audit, contested, command>>
  BY <1>2
  DEF ClientNext, Tap, ReadGroup, ReadChannel, AskGroup, AskChannel,
      CheckMaintenance, ReadOffer, CheckAgain, TakeOrder, FileDeposit, Abandon
<1>3. Membership \/ UNCHANGED vars => UNCHANGED <<row, audit, contested, command>>
  BY DEF Membership, vars
<1> QED
  BY <1>1, <1>2, <1>3, AdministrationAssumption, CommandKeepsAuthors DEF Next

-----------------------------------------------------------------------------
(* The theorems.                                                           *)

\* The tables, the audit log and the handlers keep their types, whichever
\* commands race, fail or are cut off.
THEOREM AdministrationKeepsTypes == Spec => []TypeOK
<1>1. TablesIInv => TypeOK
  BY DEF TablesIInv
<1> QED
  BY <1>1, TablesAlways, PTL

\* A payment method that a deposit refers to is never deleted, although the
\* search for deposits and the delete are two statements.
THEOREM MethodsStay == Spec => []LinkedMethodsStay
<1>1. TablesIInv => LinkedMethodsStay
  BY DEF TablesIInv
<1> QED
  BY <1>1, TablesAlways, PTL

\* Nobody gets an order or a payment request without having passed each gate at
\* some moment since the tap, whatever administrators change meanwhile.
THEOREM GatesHold == Spec => []GatesHeld
<1>1. Init /\ TypeOK => GatesIInv
  <2> SUFFICES ASSUME Init, TypeOK, NEW k \in Clients
               PROVE  Seen(k)
    BY DEF GatesIInv
  <2>1. client[k].pc = "idle"
    BY DEF Init, NotYet
  <2> QED
    BY <2>1 DEF Seen, Past
<1>2. GatesIInv => GatesHeld
  BY DEF GatesIInv, GatesHeld, Seen, Past
<1> QED
  BY <1>1, <1>2, GatesInductive, AdministrationKeepsTypes, PTL DEF Spec

\* The audit log tells what happened: replaying the commands it lists gives
\* every column that only audited commands write and no two were editing at
\* the same time, whichever commands race, fail or are cut off.
THEOREM AuditTellsTruly == Spec => []AuditReplays
<1>1. StoryIInv => AuditReplays
  BY DEF StoryIInv, StoryIsTrue, AuditReplays, Agree
<1> QED
  BY <1>1, StoryAlways, PTL

\* Whoever acted was an active administrator by the audit log of the moment
\* the command began, although the row that says so is edited meanwhile.
THEOREM RemovedStayOut == Spec => []RemovedStaysOut
<1>1. Init => AuthorsIInv
  BY DEF Init, AuthorsIInv
<1>2. AuthorsIInv => RemovedStaysOut
  BY DEF AuthorsIInv, RemovedStaysOut
<1> QED
  BY <1>1, <1>2, AuthorsInductive, StoryAlways, PTL DEF Spec
=============================================================================
