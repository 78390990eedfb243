CONSTANTS
  root = root
  helper = helper
  user = user
  admin = admin
  maintenance = maintenance
  country = country
  newCountry = newCountry
  method = method
  newMethod = newMethod
  group = group
  channel = channel
  schedule = schedule
  buyer = buyer
  filer = filer
  Absent = Absent
  Empty = "none"
  Keys <- AllKeys
  Schema <- ColumnsOf
  Values <- AllValues
  Opening <- AtFirst
  Commands <- AllCommands
  Actor <- ActorOf
  Target <- TargetOf
  Mode <- ModeOf
  Writes <- WritesOf
  Tells <- ToldOf
  AdminRow <- RowOfHelper
  Permanent = root
  Reserved = {"remove", "add", "redirect"}
  Public = {"start"}
  Unaudited = {"start", "plan"}
  Buyers = {buyer}
  Filers = {filer}
  UserRow = user
  MaintenanceRow = maintenance
  CountryRow = country
  GroupRow = group
  ChannelRow = channel
  Method <- MethodOf
  Chats = {"g1", "g2", "c1"}
  MaxCommands = 2
SPECIFICATION Spec
INVARIANTS
  
  RemovedStaysOut
  LinkedMethodsStay
  GatesHeld
CONSTRAINT Focus
