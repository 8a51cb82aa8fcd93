CONSTANTS
  ann = ann
  bob = bob
  head = head
  second = second
  admin = admin
  fresh = fresh
  c1 = c1
  c2 = c2
  ch = ch
  None = None
  Persons = {ann, bob}
  Users = {head, second, admin, fresh}
  Classes = {c1, c2}
  Channels = {ch}
  Admins = {admin}
  Start <- MCStart
  MaxCommands = 2
SPECIFICATION Spec
PROPERTIES
  EntitledOnly
  AccountsAreKept
  ClassesAreKept
CHECK_DEADLOCK FALSE
