CONSTANTS
  show = show
  grade = grade
  search = search
  bogus = bogus
  TypeOf <- MCTypeOf
  Drafts <- MCDrafts
  Routes <- MCRoutes
  Plans <- MCPlans
  TaskNames <- MCTaskNames
  Helpers = {show, grade}
  CommandTools = {show}
  McpTools = {search}
  MaxEdits = 1
SPECIFICATION Spec
INVARIANTS
  GuardsBind
  QuestionAndAnswer
PROPERTIES
  TurnEnds
