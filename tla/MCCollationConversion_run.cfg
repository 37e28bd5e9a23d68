SPECIFICATION Spec
CONSTANTS
  users = users
  orders = orders
  tags = tags
  view = view
  Objects = {view}
  TableOrder <- MCOrder
  ForeignKeys <- MCKeys
  Plans <- MCPlans
  MaxLost = 1
INVARIANTS
  GroupsAreComponents
  GroupWhole
  ItemsTrue
  CopyBeforeDrop
  InventoryTruthful
CHECK_DEADLOCK FALSE
