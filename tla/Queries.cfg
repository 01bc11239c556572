SPECIFICATION MCSpec
CONSTANTS
  Queries <- MCQueries
  Ids = {1, 2}
  Values <- MCValues
  MaxChanges = 2
CHECK_DEADLOCK FALSE
INVARIANTS LiveAnswers KeptAsNeeded PlanAnswers OnlyReadable
