CONSTANTS
  active = active
  all = all
  none = none
  needle = needle
  OpenViews <- TwoViews
  Limits <- TwoLimits
  Filters <- TwoFilters
  Texts <- TwoTexts
  MaxLength = 2
  MaxLoads = 5
SPECIFICATION DPSpec
CONSTRAINT TwoScenarios
INVARIANTS
  ShownIsCurrent
  PagingComplete
CHECK_DEADLOCK FALSE
