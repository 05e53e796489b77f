SPECIFICATION ScanSpec
CONSTANTS
  Starts <- MCStarts
  Budgets <- MCBudgets
  New = {6, 7}
  MaxGone = 2
  PageRetries = 2
  Servers = {"good", "unpaged", "unordered", "unbounded"}
INVARIANTS AnswerIsTheList NoFalseRefusal
CHECK_DEADLOCK FALSE
