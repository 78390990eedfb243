-------------------------- MODULE MCAdministration --------------------------
(* Instances of Administration: commands that race for each kind of row, a  *)
(* removable administrator, one purchase and one payment request.           *)
EXTENDS Administration

CONSTANTS
  root, helper,
  user, admin, maintenance, country, newCountry, method, newMethod, group, channel, schedule,
  buyer, filer

AllKeys == {user, admin, maintenance, country, newCountry, method, newMethod, group, channel,
            schedule}
AllValues == {"on", "off", "none", "old", "new", "g1", "g2", "c1"}

ColumnsOf == [k \in AllKeys |->
  CASE k = user -> {"blocked", "reason", "name"}
    [] k = admin -> {"active", "name"}
    [] k = maintenance -> {"enabled"}
    [] k \in {country, newCountry, method, newMethod} -> {"enabled", "name", "terms"}
    [] k \in {group, channel} -> {"value"}
    [] k = schedule -> {"content"}]

AtFirst == [k \in AllKeys |->
  CASE k = user -> [blocked |-> "off", reason |-> "none", name |-> "old"]
    [] k = admin -> [active |-> "on", name |-> "old"]
    [] k = maintenance -> [enabled |-> "off"]
    [] k \in {country, method} -> [enabled |-> "on", name |-> "old", terms |-> "old"]
    [] k = group -> [value |-> "g1"]
    [] k = channel -> [value |-> "c1"]
    [] OTHER -> Absent]

Text == [
  block    |-> [by |-> helper, row |-> user, mode |-> "update",
                writes |-> [blocked |-> "on", reason |-> "new"], tells |-> {"blocked", "reason"}],
  unblock  |-> [by |-> root, row |-> user, mode |-> "update",
                writes |-> [blocked |-> "off", reason |-> "none"],
                tells |-> {"blocked", "reason"}],
  start    |-> [by |-> root, row |-> user, mode |-> "upsert",
                writes |-> [name |-> "new"], tells |-> {}],
  remove   |-> [by |-> root, row |-> admin, mode |-> "update",
                writes |-> [active |-> "off"], tells |-> {"active"}],
  add      |-> [by |-> root, row |-> admin, mode |-> "upsert",
                writes |-> [active |-> "on", name |-> "new"], tells |-> {"active"}],
  redirect |-> [by |-> root, row |-> group, mode |-> "upsert",
                writes |-> [value |-> "g2"], tells |-> {"value"}],
  maintain |-> [by |-> helper, row |-> maintenance, mode |-> "update",
                writes |-> [enabled |-> "on"], tells |-> {"enabled"}],
  reprice  |-> [by |-> helper, row |-> country, mode |-> "upsert",
                writes |-> [enabled |-> "on", name |-> "new", terms |-> "new"],
                tells |-> {"enabled", "name"}],
  close    |-> [by |-> root, row |-> country, mode |-> "update",
                writes |-> [enabled |-> "off"], tells |-> {"enabled"}],
  open     |-> [by |-> root, row |-> newCountry, mode |-> "upsert",
                writes |-> [enabled |-> "on", name |-> "old", terms |-> "old"],
                tells |-> {"enabled", "name"}],
  reopen   |-> [by |-> helper, row |-> newCountry, mode |-> "upsert",
                writes |-> [enabled |-> "on", name |-> "new", terms |-> "new"],
                tells |-> {"enabled", "name"}],
  suspend  |-> [by |-> root, row |-> method, mode |-> "update",
                writes |-> [enabled |-> "off"], tells |-> {"enabled"}],
  drop     |-> [by |-> helper, row |-> method, mode |-> "delete", writes |-> <<>>, tells |-> {}],
  offer    |-> [by |-> helper, row |-> newMethod, mode |-> "upsert",
                writes |-> [enabled |-> "on", name |-> "new", terms |-> "new"],
                tells |-> {"enabled", "name"}],
  discard  |-> [by |-> root, row |-> newMethod, mode |-> "delete",
                writes |-> <<>>, tells |-> {}],
  plan     |-> [by |-> helper, row |-> schedule, mode |-> "upsert",
                writes |-> [content |-> "new"], tells |-> {}]]

AllCommands == DOMAIN Text
\* The commands that change what a customer's handler reads.
AtTheGates == {"block", "redirect", "maintain", "reprice", "close", "suspend", "drop"}

ActorOf == [c \in Commands |-> Text[c].by]
TargetOf == [c \in Commands |-> Text[c].row]
ModeOf == [c \in Commands |-> Text[c].mode]
WritesOf == [c \in Commands |-> Text[c].writes]
ToldOf == [c \in Commands |-> Text[c].tells]
RowOfHelper == [a \in {helper} |-> admin]
MethodOf == [k \in {filer} |-> method]

Tapped == {k \in Clients : client[k].pc # "idle"}

\* What is explored: every two commands among themselves and, from a customer's
\* tap on, every two of those that change what the customer reads.  The user is
\* in no chat before the tap: membership counts from there.  A second tap would
\* wait for the user's row until the first handler is over.
Focus ==
  IF Tapped = {} THEN joined = {}
  ELSE Cardinality(Tapped) = 1 /\ Started \subseteq AtTheGates
=============================================================================
