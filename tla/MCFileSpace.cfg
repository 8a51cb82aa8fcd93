CONSTANTS
  ann = ann
  bob = bob
  group = group
  class = class
  college = college
  groups = groups
  classes = classes
  colleges = colleges
  docs = docs
  work = work
  tildework = tildework
  tildegroups = tildegroups
  workblank = workblank
  one = one
  two = two
  phone = phone
  laptop = laptop
  desk = desk
  Users <- MCUsers
  Groups = {group}
  Classes = {class}
  Orgs = {college}
  GroupOf <- MCGroupOf
  OrgsOf <- MCOrgsOf
  CategoryOf <- MCCategoryOf
  DefaultDirs = {docs}
  Leading <- MCLeading
  Trailing <- MCTrailing
  Sessions <- MCSessions
  UserOf <- MCUserOf
  ChannelOf <- MCChannelOf
  InitialTrees <- MCInitialTrees
  InitialCwds <- MCInitialCwds
  InitialFacts <- MCInitialFacts
  Commands <- MCCommands
  AdminRequests <- MCAdminRequests
  ChangingFacts <- MCChangingFacts
  Mortal = {ann, class}
  MaxCommands = 2
  MaxChanges = 1
  Dir = Dir
  Empty = Empty
  Up = Up
  None = None
SPECIFICATION Spec
INVARIANTS
  ShownResolves
PROPERTIES
  WritesAreAuthorised
  NothingOverwritten
  DeletedTakesNothing
CHECK_DEADLOCK FALSE
