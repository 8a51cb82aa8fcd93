CONSTANTS
  Clients = {c1, c2}
  Keys = {k}
  Entries = {short, lasting}
  Temporary = {short}
  None = None
  MaxRestarts = 1
SPECIFICATION FairSpec
INVARIANTS
  TypeOK
  FallbackAnswers
PROPERTIES
  ImplementsKVStore
  ChoiceSettles
  CallsEnd
CHECK_DEADLOCK FALSE
