SPECIFICATION FairSpec
CONSTANTS
  list = list
  item = item
  pages = pages
  goods = goods
  nil = nil
  home = home
  section = section
  shelf = shelf
  detail = detail
  offer = offer
  catalogue = catalogue
  Stages <- MCStages
  Lanes <- MCLanes
  LaneOf <- MCLaneOf
  Links <- MCLinks
  Root <- nil
  Policies <- MCPolicies
  TaskLimit = 3
  MaxDepth = 3
  MaxRevision = 1
  MaxLost = 1
  MaxMarked = 1
  MaxRetries = 1
  MaxCrashes = 1
PROPERTIES DeliveredIsDone
INVARIANTS ParentEndsFirst BreadthOrder DepthOrder LaneWidth NeverStuckAlike
CHECK_DEADLOCK FALSE
