CONSTANTS
  Procs = {bot, studio}
  KeepVerbatim = 2
  Budget = 5
  TriggerPct = 80
  SummaryBudget = 1
  RowCosts = {1, 3}
  SummaryCosts = {1, 2}
  MaxRows = 6
SPECIFICATION Spec
INVARIANTS
  SummaryIsThePrefix
  PromptSeamless
CHECK_DEADLOCK FALSE
