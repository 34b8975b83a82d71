SPECIFICATION Spec
CONSTANTS
  list = list
  item = item
  pages = pages
  goods = goods
  nil = nil
  home = home
  section = section
  shelf = shelf
  detail = detail
  offer = offer
  catalogue = catalogue
  Stages <- ChainStages
  Lanes <- MCLanes
  LaneOf <- ChainLaneOf
  Links <- ChainLinks
  Root <- nil
  Policies <- MCSwitch
  TaskLimit = 6
  MaxDepth = 4
  MaxRevision = 1
  MaxLost = 0
  MaxMarked = 0
  MaxRetries = 0
  MaxCrashes = 1
INVARIANT NeverStuck
CHECK_DEADLOCK FALSE
