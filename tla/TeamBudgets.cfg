CONSTANTS
  writer = writer
  editor = editor
  Members = {writer, editor}
  Notified = {editor}
  DailyCap = 2
  MonthlyCap = 3
  Pool = 5
  Share <- MCShare
  Policies = {"notify", "halt_member", "borrow_from_pool"}
  Costs = {1, 2}
  DaySlots = 2
  Offset = 1
  MonthDays = 2
  MaxSlot = 4
  MaxCalls = 4
SPECIFICATION BudgetsSpec
INVARIANT OverspentByOthersShares
PROPERTY CapsHoldInLocalTime
