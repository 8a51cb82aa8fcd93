CONSTANTS
  ann = ann
  group = group
  bot = bot
  hello = hello
  ask = ask
  Users = {ann}
  Groups = {group}
  Messages <- MCMessages
  Replies <- MCReplies
  Legacy <- MCLegacy
  Wipeable = {ann, group}
  MaxRecords = 3
  MaxTime = 2
  MaxCrashes = 1
  None = None
SPECIFICATION Spec
INVARIANTS
  DailyMirrors
  
  SearchFinds
CHECK_DEADLOCK FALSE
