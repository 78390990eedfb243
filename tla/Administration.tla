--------------------------- MODULE Administration ---------------------------
(***************************************************************************)
(* Administrators' commands (app/admin/handlers.py) and the rows they      *)
(* write: users, admins, settings, the maintenance switch, countries and   *)
(* payment methods; and the customers' handlers that read those rows       *)
(* before they take an order (confirm_buy) or a payment request            *)
(* (create_deposit).                                                       *)
(*                                                                         *)
(* Every command has the same shape: is_admin is one SELECT; the row is    *)
(* read by a second SELECT, without a lock; attributes are assigned; and   *)
(* the commit writes the columns whose value differs from the one that was *)
(* READ, together with an audit row.  So a command writes nothing to a     *)
(* column that looked right when it was read, whatever the column holds    *)
(* when the command commits.  The audit row names the author, the row and  *)
(* the action, and stores some of the new values, not all of them.         *)
(*                                                                         *)
(* The text of a command (who, which row, which columns) is fixed before   *)
(* the handler runs, so commands are constants.                            *)
(***************************************************************************)
EXTENDS Integers, SequencesExt

CONSTANTS
  Keys,          \* rows
  Schema,        \* the columns of each
  Values,
  Opening,       \* the rows at the start: Absent or a function
  Absent,
  Commands,
  Actor,         \* the administrator who sends each command
  Target,        \* the row it names
  Mode,          \* "update", "upsert" or "delete"
  Writes,        \* the columns it assigns, with their values
  Tells,         \* those whose new values its audit row stores or its action implies
  Permanent,     \* the administrator of the configuration
  AdminRow,      \* the row of admins of every other administrator
  Reserved,      \* commands only the permanent administrator may send
  Public,        \* commands open to everybody: /start of a user who is known
  Unaudited,     \* commands without an audit row: those, /schedule and /announce
  Buyers, Filers,                       \* runs of confirm_buy, create_deposit
  UserRow, MaintenanceRow, CountryRow, GroupRow, ChannelRow,
  Method,        \* the payment method of each payment request
  Chats,         \* chats of Telegram
  Empty,         \* the chat id that is not configured: the empty string
  MaxCommands    \* bound on the commands of one behaviour

Clients == Buyers \union Filers

Row == UNION {[Schema[k] -> Values] : k \in Keys}

\* The columns whose new values every command that writes them tells.
Audible(k) ==
  {x \in Schema[k] : \A c \in Commands :
     Target[c] = k /\ x \in DOMAIN Writes[c] => c \notin Unaudited /\ x \in Tells[c]}

\* Rows that are there from the start, and that no command deletes.
Lasting(k) == Opening[k] # Absent /\ \A c \in Commands : Target[c] = k => Mode[c] # "delete"

\* A command that inserts a row fills its columns, or never meets that case.
\* The audit log tells every change of who is an active administrator.
ASSUME AdministrationAssumption ==
  /\ Opening \in [Keys -> Row \union {Absent}]
  /\ \A k \in Keys : Opening[k] = Absent \/ Opening[k] \in [Schema[k] -> Values]
  /\ \A k \in Keys : \A columns \in SUBSET Schema[k] : Absent \notin [columns -> Values]
  /\ Absent \notin Values /\ Empty \in Values
  /\ Target \in [Commands -> Keys]
  /\ Mode \in [Commands -> {"update", "upsert", "delete"}]
  /\ \A c \in Commands :
       /\ DOMAIN Writes[c] \subseteq Schema[Target[c]]
       /\ Writes[c] \in [DOMAIN Writes[c] -> Values]
       /\ Tells[c] \subseteq DOMAIN Writes[c]
       /\ Mode[c] = "upsert" =>
            DOMAIN Writes[c] = Schema[Target[c]] \/ Lasting(Target[c])
  /\ \A c \in Commands \ Public :
       \/ Actor[c] = Permanent
       \/ AdminRow[Actor[c]] \in Keys /\ "active" \in Audible(AdminRow[Actor[c]])
  /\ \A c \in Unaudited : Mode[c] # "delete"
  /\ Public \subseteq Unaudited /\ Unaudited \subseteq Commands /\ Reserved \subseteq Commands
  /\ Buyers \intersect Filers = {}
  /\ {UserRow, MaintenanceRow, CountryRow, GroupRow, ChannelRow} \subseteq Keys
  /\ "value" \in Schema[GroupRow] /\ "value" \in Schema[ChannelRow]
  /\ Method \in [Filers -> Keys]
  /\ MaxCommands \in Nat

VARIABLES
  row,           \* the tables
  audit,         \* admin_audit_logs, in commit order
  command,       \* local state of each command
  joined,        \* the chats where the user is anything but "left" or "kicked"
  client,        \* local state of each customer's handler
  deposits,      \* what was copied from the method into each deposit
  contested,     \* history: columns two commands were editing at the same time
  since          \* history: what has held since each customer's tap

vars == <<row, audit, command, joined, client, deposits, contested, since>>

Command == [pc   : {"idle", "allowed", "edit", "linked", "done", "failed"},
            seen : Row \union {Absent},         \* the row as it was read
            from : Nat]                         \* history: what was audited before

Client == [pc      : {"idle", "group", "channel", "in group", "in channel", "maintenance",
                      "offer", "again", "take", "done", "left"},
           group   : Values,                    \* the chat ids as they were read
           channel : Values,
           offer   : Row \union {Absent}]       \* the country or the method read

NotYet == [pc |-> "idle", group |-> Empty, channel |-> Empty, offer |-> Absent]

\* One row of admin_audit_logs.  The old values are left out: some commands
\* store a fixed one, whatever the row held.
AuditRow == [by : {Actor[c] : c \in Commands}, row : Keys, gone : BOOLEAN,
             told : UNION {[Tells[c] -> Values] : c \in Commands}]

Started == {c \in Commands : command[c].pc # "idle"}
Editing(c) == command[c].pc \in {"edit", "linked"}

\* The user row is locked from the tap to the end of the handler.
UserLocked == \E k \in Clients : client[k].pc \notin {"idle", "done", "left"}

On(k, column) == row[k] # Absent /\ row[k][column] = "on"

-----------------------------------------------------------------------------
(* What has held at some moment since a customer's tap, kept up to date by  *)
(* every step.                                                              *)

OfferRow(k) == IF k \in Buyers THEN CountryRow ELSE Method[k]

\* get_setting of a chat id: a missing row reads as None, which is as false as
\* the empty string.
ChatId(k) == IF row[k] = Absent THEN Empty ELSE row[k]["value"]

Nothing == [groups |-> {}, channels |-> {}, chats |-> {}, offers |-> {}, open |-> FALSE]

Holding(k) ==
  [groups   |-> {ChatId(GroupRow)'},
   channels |-> {ChatId(ChannelRow)'},
   chats    |-> joined',
   offers   |-> IF On(OfferRow(k), "enabled")' THEN {row'[OfferRow(k)]} ELSE {},
   open     |-> ~On(MaintenanceRow, "enabled")']

\* The maintenance switch counts from the moment the last read before it was
\* answered: Telegram's answers, and in confirm_buy the country.
Restarts(k) ==
  client'[k].pc # client[k].pc /\ client'[k].pc \in {"maintenance", "again"}

Remember ==
  since' = [k \in Clients |->
    IF client'[k].pc \in {"idle", "left"} THEN Nothing
    ELSE IF client'[k].pc = "done" THEN since[k]
    ELSE LET now == Holding(k) IN
         [groups   |-> since[k].groups \union now.groups,
          channels |-> since[k].channels \union now.channels,
          chats    |-> since[k].chats \union now.chats,
          offers   |-> since[k].offers \union now.offers,
          open     |-> now.open \/ (since[k].open /\ ~Restarts(k))]]

-----------------------------------------------------------------------------
(* The administrators' commands.                                           *)

IsAdmin(a) == a = Permanent \/ On(AdminRow[a], "active")

\* A defect: an administrator's row is enough, active or not.
Entitled_AnyRow(c) ==
  \/ c \in Public
  \/ Actor[c] = Permanent
  \/ c \notin Reserved /\ row[AdminRow[Actor[c]]] # Absent

\* is_admin, or is_permanent.
Entitled(c) ==
  \/ c \in Public
  \/ IF c \in Reserved THEN Actor[c] = Permanent ELSE IsAdmin(Actor[c])

Authorise(c) ==
  /\ command[c].pc = "idle" /\ Cardinality(Started) < MaxCommands
  /\ command' = [command EXCEPT ![c] =
       [@ EXCEPT !.pc = IF Entitled(c) THEN "allowed" ELSE "failed",
                 !.from = Len(audit)]]
  /\ UNCHANGED <<row, audit, joined, client, deposits, contested>>
  /\ Remember

End(c, pc) ==
  command' = [command EXCEPT ![c] =
    [pc |-> pc, seen |-> Absent, from |-> IF pc = "done" THEN command[c].from ELSE 0]]

\* A command that inserts or deletes its row.
Whole(c, seen) == Mode[c] = "delete" \/ seen = Absent

\* The columns two commands on a row both edit: all, if the row itself is
\* inserted or deleted by one of them.
Contest(c, seen, d) ==
  IF Whole(c, seen) \/ Whole(d, command[d].seen) THEN Schema[Target[c]]
  ELSE DOMAIN Writes[c] \intersect DOMAIN Writes[d]

Rivals(c) == {d \in Commands \ {c} : Editing(d) /\ Target[d] = Target[c]}

\* SELECT of the row, without FOR UPDATE.
ReadRow(c) ==
  /\ command[c].pc = "allowed"
  /\ LET seen == row[Target[c]] IN
     IF seen = Absent /\ Mode[c] # "upsert" THEN End(c, "failed") /\ UNCHANGED contested
     ELSE /\ command' = [command EXCEPT ![c] = [@ EXCEPT !.pc = "edit", !.seen = seen]]
          /\ contested' = [contested EXCEPT ![Target[c]] =
               contested[Target[c]] \union UNION {Contest(c, seen, d) : d \in Rivals(c)}]
  /\ UNCHANGED <<row, audit, joined, client, deposits>>
  /\ Remember

Entry(c) ==
  [by |-> Actor[c], row |-> Target[c], gone |-> Mode[c] = "delete",
   told |-> [x \in Tells[c] |-> Writes[c][x]]]

\* The call of audit, where the handler has one.
Audited(c) == audit' = IF c \in Unaudited THEN audit ELSE Append(audit, Entry(c))

\* A defect: every attribute of the object is written back.
Changes_All(c) == Writes[c] @@ command[c].seen

\* The columns whose new value differs from the one read.
Changes(c) ==
  LET dirty == {x \in DOMAIN Writes[c] : Writes[c][x] # command[c].seen[x]} IN
  [x \in dirty |-> Writes[c][x]]

Merged(c) ==
  [x \in Schema[Target[c]] |->
     IF x \in DOMAIN Changes(c) THEN Changes(c)[x] ELSE row[Target[c]][x]]

\* Nothing to write, or an UPDATE that finds its row; the user's row may be
\* locked by a customer's handler.
Update(c) ==
  /\ command[c].pc = "edit" /\ Mode[c] # "delete" /\ command[c].seen # Absent
  /\ \/ DOMAIN Changes(c) = {} /\ UNCHANGED row
     \/ /\ DOMAIN Changes(c) # {} /\ row[Target[c]] # Absent
        /\ Target[c] = UserRow => ~UserLocked
        /\ row' = [row EXCEPT ![Target[c]] = Merged(c)]
  /\ Audited(c)
  /\ End(c, "done")
  /\ UNCHANGED <<joined, client, deposits, contested>>
  /\ Remember

Insert(c) ==
  /\ command[c].pc = "edit" /\ Mode[c] = "upsert" /\ command[c].seen = Absent
  /\ row[Target[c]] = Absent
  /\ row' = [row EXCEPT ![Target[c]] = Writes[c]]
  /\ Audited(c)
  /\ End(c, "done")
  /\ UNCHANGED <<joined, client, deposits, contested>>
  /\ Remember

\* The row was deleted, or inserted by another command, since it was read: no
\* row to update (StaleDataError), or a second row with the same key.
Conflict(c) ==
  /\ command[c].pc = "edit" /\ Mode[c] # "delete"
  /\ IF command[c].seen = Absent THEN row[Target[c]] # Absent
     ELSE DOMAIN Changes(c) # {} /\ row[Target[c]] = Absent
  /\ End(c, "failed")
  /\ UNCHANGED <<row, audit, joined, client, deposits, contested>>
  /\ Remember

Linked(m) == {d \in Filers : Method[d] = m /\ deposits[d] # Absent}

\* payment_method delete looks for deposits of the method first.
FindLinked(c) ==
  /\ command[c].pc = "edit" /\ Mode[c] = "delete"
  /\ IF Linked(Target[c]) # {} THEN End(c, "failed")
     ELSE command' = [command EXCEPT ![c].pc = "linked"]
  /\ UNCHANGED <<row, audit, joined, client, deposits, contested>>
  /\ Remember

\* A defect: deposits.payment_method_id is no foreign key.
Unreferenced_NoKey(k) == TRUE

\* The foreign key of deposits, checked again by the commit.
Unreferenced(k) == Linked(k) = {}

Delete(c) ==
  /\ command[c].pc = "linked"
  /\ Unreferenced(Target[c])
  /\ row' = [row EXCEPT ![Target[c]] = Absent]
  /\ Audited(c)
  /\ End(c, "done")
  /\ UNCHANGED <<joined, client, deposits, contested>>
  /\ Remember

\* The bot stops, or the commit fails: the row and its audit row go together.
AbortCommand(c) ==
  /\ command[c].pc \in {"allowed", "edit", "linked"}
  /\ End(c, "failed")
  /\ UNCHANGED <<row, audit, joined, client, deposits, contested>>
  /\ Remember

-----------------------------------------------------------------------------
(* allowed() and what follows it in confirm_buy and create_deposit.        *)

Leave(k) == client' = [client EXCEPT ![k] = [NotYet EXCEPT !.pc = "left"]]

\* The user row is locked, then is_blocked is looked at.
Tap(k) ==
  /\ client[k].pc = "idle" /\ ~UserLocked
  /\ IF On(UserRow, "blocked") THEN Leave(k)
     ELSE client' = [client EXCEPT ![k].pc = "group"]
  /\ UNCHANGED <<row, audit, command, joined, deposits, contested>>
  /\ Remember

\* check_joined reads the two chat ids one after the other.
ReadGroup(k) ==
  /\ client[k].pc = "group"
  /\ client' = [client EXCEPT ![k] = [@ EXCEPT !.pc = "channel", !.group = ChatId(GroupRow)]]
  /\ UNCHANGED <<row, audit, command, joined, deposits, contested>>
  /\ Remember

\* Both have to be configured.
ReadChannel(k) ==
  /\ client[k].pc = "channel"
  /\ IF Empty \in {client[k].group, ChatId(ChannelRow)} THEN Leave(k)
     ELSE client' = [client EXCEPT ![k] =
            [@ EXCEPT !.pc = "in group", !.channel = ChatId(ChannelRow)]]
  /\ UNCHANGED <<row, audit, command, joined, deposits, contested>>
  /\ Remember

\* get_chat_member of the group whose id was read, then of the channel.
AskGroup(k) ==
  /\ client[k].pc = "in group"
  /\ IF client[k].group \notin joined THEN Leave(k)
     ELSE client' = [client EXCEPT ![k].pc = "in channel"]
  /\ UNCHANGED <<row, audit, command, joined, deposits, contested>>
  /\ Remember

AskChannel(k) ==
  /\ client[k].pc = "in channel"
  /\ IF client[k].channel \notin joined THEN Leave(k)
     ELSE client' = [client EXCEPT ![k].pc = "maintenance"]
  /\ UNCHANGED <<row, audit, command, joined, deposits, contested>>
  /\ Remember

CheckMaintenance(k) ==
  /\ client[k].pc = "maintenance"
  /\ IF On(MaintenanceRow, "enabled") THEN Leave(k)
     ELSE client' = [client EXCEPT ![k].pc = "offer"]
  /\ UNCHANGED <<row, audit, command, joined, deposits, contested>>
  /\ Remember

\* One SELECT of the enabled country, or of the enabled payment method.
ReadOffer(k) ==
  /\ client[k].pc = "offer"
  /\ IF On(OfferRow(k), "enabled")
     THEN client' = [client EXCEPT ![k] =
            [@ EXCEPT !.pc = IF k \in Buyers THEN "again" ELSE "take",
                      !.offer = row[OfferRow(k)]]]
     ELSE Leave(k)
  /\ UNCHANGED <<row, audit, command, joined, deposits, contested>>
  /\ Remember

\* A defect: the second look at the maintenance switch is missing.
CheckAgain_Missing(k) ==
  /\ client[k].pc = "again"
  /\ client' = [client EXCEPT ![k].pc = "take"]
  /\ UNCHANGED <<row, audit, command, joined, deposits, contested>>
  /\ Remember

\* confirm_buy looks at the maintenance switch a second time.
CheckAgain(k) ==
  /\ client[k].pc = "again"
  /\ IF On(MaintenanceRow, "enabled") THEN Leave(k)
     ELSE client' = [client EXCEPT ![k].pc = "take"]
  /\ UNCHANGED <<row, audit, command, joined, deposits, contested>>
  /\ Remember

\* create_order and its commit, for the price of the row that was read.
TakeOrder(k) ==
  /\ k \in Buyers /\ client[k].pc = "take"
  /\ client' = [client EXCEPT ![k].pc = "done"]
  /\ UNCHANGED <<row, audit, command, joined, deposits, contested>>
  /\ Remember

\* The deposit copies the method's terms and refers to it by foreign key.
FileDeposit(k) ==
  /\ k \in Filers /\ client[k].pc = "take"
  /\ row[Method[k]] # Absent
  /\ deposits' = [deposits EXCEPT ![k] = client[k].offer]
  /\ client' = [client EXCEPT ![k].pc = "done"]
  /\ UNCHANGED <<row, audit, command, joined, contested>>
  /\ Remember

\* A chat id is no number, the insert finds no method, the balance is too low, the bot stops, ...
Abandon(k) ==
  /\ client[k].pc \notin {"idle", "done", "left"}
  /\ Leave(k)
  /\ UNCHANGED <<row, audit, command, joined, deposits, contested>>
  /\ Remember

Membership ==
  /\ \E chat \in Chats :
       joined' = IF chat \in joined THEN joined \ {chat} ELSE joined \union {chat}
  /\ UNCHANGED <<row, audit, command, client, deposits, contested>>
  /\ Remember

-----------------------------------------------------------------------------
Init ==
  /\ row = Opening
  /\ audit = <<>>
  /\ command = [c \in Commands |-> [pc |-> "idle", seen |-> Absent, from |-> 0]]
  /\ joined \in SUBSET Chats
  /\ client = [k \in Clients |-> NotYet]
  /\ deposits = [k \in Filers |-> Absent]
  /\ contested = [k \in Keys |-> {}]
  /\ since = [k \in Clients |-> Nothing]

CommandNext(c) ==
  \/ Authorise(c) \/ ReadRow(c) \/ Update(c) \/ Insert(c) \/ Conflict(c)
  \/ FindLinked(c) \/ Delete(c) \/ AbortCommand(c)

ClientNext(k) ==
  \/ Tap(k) \/ ReadGroup(k) \/ ReadChannel(k) \/ AskGroup(k) \/ AskChannel(k)
  \/ CheckMaintenance(k) \/ ReadOffer(k) \/ CheckAgain(k)
  \/ TakeOrder(k) \/ FileDeposit(k) \/ Abandon(k)

Next ==
  \/ \E c \in Commands : CommandNext(c)
  \/ \E k \in Clients : ClientNext(k)
  \/ Membership

Spec == Init /\ [][Next]_vars

-----------------------------------------------------------------------------
(* Properties.                                                             *)

\* Type correctness of the tables, the audit log and the handlers.
TypeOK ==
  /\ row \in [Keys -> Row \union {Absent}]
  /\ \A k \in Keys : row[k] = Absent \/ row[k] \in [Schema[k] -> Values]
  /\ audit \in Seq(AuditRow)
  /\ command \in [Commands -> Command]
  /\ joined \subseteq Chats
  /\ client \in [Clients -> Client]
  /\ deposits \in [Filers -> Row \union {Absent}]
  /\ contested \in [Keys -> SUBSET UNION {Schema[k] : k \in Keys}]
  /\ \A k \in Keys : contested[k] \subseteq Schema[k]

\* What an audit row says that became of a row.
Effect(k, before, e) ==
  IF e.row # k THEN before
  ELSE IF e.gone THEN Absent
  ELSE IF before = Absent THEN e.told
  ELSE [x \in DOMAIN before \union DOMAIN e.told |->
          IF x \in DOMAIN e.told THEN e.told[x] ELSE before[x]]

\* The row that the first n entries of a log lead to.
Told(k, log, n) ==
  LET told[i \in 0..n] ==
        IF i = 0 THEN Opening[k] ELSE Effect(k, told[i - 1], log[i])
  IN  told[n]

Replayed(k, n) == Told(k, audit, n)

\* The audit log tells what happened, as far as it goes: replaying its rows
\* over the row of the beginning gives every column of the stored row that all
\* commands writing it tell the log about, although commands fail, are cut off,
\* and race with edits of the other columns of the row.  Excepted are columns
\* two commands were editing at the same time, and those whose new value some
\* audit row leaves out, as terms of countries and payment methods (audit in
\* app/services/admin.py, and the commit of each command).
AuditReplays ==
  \A k \in Keys :
    LET told == Replayed(k, Len(audit)) IN
    \A x \in Audible(k) \ contested[k] :
      \/ told = Absent /\ row[k] = Absent
      \/ told # Absent /\ row[k] # Absent /\ row[k][x] = told[x]

\* Whoever was removed stays out, and the audit log proves it: replaying what
\* was audited before a command began shows its author as an active
\* administrator, although the row that says so is itself edited by commands
\* that fail and are cut off (and unless two of them edited it at once).
WasAdmin(c) ==
  LET a == Actor[c] IN
  \/ a = Permanent \/ "active" \in contested[AdminRow[a]]
  \/ Replayed(AdminRow[a], command[c].from)["active"] = "on"

RemovedStaysOut == \A c \in Commands \ Public : command[c].pc = "done" => WasAdmin(c)

\* A deposit's payment method stays in the table, so that the account the
\* money was sent to remains known, although the search for linked deposits
\* and the delete are different statements, and so are the customer's SELECT
\* of the method and the insert of the deposit.
LinkedMethodsStay == \A d \in Filers : deposits[d] # Absent => row[Method[d]] # Absent

\* Nobody gets an order or a payment request past the gates: the user was, at
\* some moment since the tap, in a chat that was the configured group, and in
\* one that was the configured channel, at some moment since the tap; the terms
\* of the country or method were in force, as a whole and enabled, at some
\* moment since the tap; and maintenance was off at some moment after the
\* membership was known and, for an order, after the country was read.
GatesHeld ==
  \A k \in Clients : client[k].pc = "done" =>
    /\ since[k].groups \intersect since[k].chats # {}
    /\ since[k].channels \intersect since[k].chats # {}
    /\ client[k].offer \in since[k].offers
    /\ since[k].open

-----------------------------------------------------------------------------
(* The inductive invariants behind LinkedMethodsStay and GatesHeld.         *)

OnlyDeletesLink == \A c \in Commands : command[c].pc = "linked" => Mode[c] = "delete"

LastingStay == \A k \in Keys : Lasting(k) => row[k] # Absent

TablesIInv == TypeOK /\ OnlyDeletesLink /\ LastingStay /\ LinkedMethodsStay

\* What a customer's handler has seen has held since its tap: the chat ids it
\* has read, membership of the chats it has asked about, the offer it carries,
\* and maintenance that is off behind its last look at the switch.
Past(k, pcs) == client[k].pc \in pcs \union {"maintenance", "offer", "again", "take", "done"}

Seen(k) ==
  /\ Past(k, {"channel", "in group", "in channel"}) => client[k].group \in since[k].groups
  /\ Past(k, {"in group", "in channel"}) => client[k].channel \in since[k].channels
  /\ Past(k, {"in channel"}) => client[k].group \in since[k].chats
  /\ Past(k, {}) => client[k].channel \in since[k].chats
  /\ client[k].pc \in {"again", "take", "done"} => client[k].offer \in since[k].offers
  /\ client[k].pc \in {"take", "done"} \/ (k \in Filers /\ client[k].pc = "offer") =>
       since[k].open

GatesIInv == TypeOK /\ \A k \in Clients : Seen(k)

-----------------------------------------------------------------------------
(* The inductive invariants behind AuditReplays and RemovedStaysOut.        *)

RivalsContest ==
  \A c \in Commands : Editing(c) =>
    \A d \in Rivals(c) : Contest(c, command[c].seen, d) \subseteq contested[Target[c]]

\* What a command has read of the columns it writes is still so.
ReadIsCurrent(c) ==
  LET k == Target[c]
      seen == command[c].seen
  IN  \/ contested[k] = Schema[k]
      \/ /\ seen = Absent <=> row[k] = Absent
         /\ seen # Absent => \A x \in DOMAIN Writes[c] \ contested[k] : row[k][x] = seen[x]

PartialRow(k) == UNION {[columns -> Values] : columns \in SUBSET Schema[k]}

\* The row and the story of it agree.
Agree(told, stored, columns) ==
  \A x \in columns :
    \/ told = Absent /\ stored = Absent
    \/ told # Absent /\ stored # Absent /\ x \in DOMAIN told /\ stored[x] = told[x]

StoryIsTrue ==
  \A k \in Keys :
    LET told == Replayed(k, Len(audit)) IN
    told \in PartialRow(k) \union {Absent} /\ Agree(told, row[k], Audible(k) \ contested[k])

StoryIInv ==
  /\ TablesIInv /\ RivalsContest /\ StoryIsTrue
  /\ \A c \in Commands : Editing(c) => ReadIsCurrent(c)

AuthorsIInv ==
  \A c \in Commands \ Public :
    command[c].pc \notin {"idle", "failed"} => command[c].from <= Len(audit) /\ WasAdmin(c)
=============================================================================
