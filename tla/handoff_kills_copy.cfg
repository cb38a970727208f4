SPECIFICATION HandoffSpec
CONSTANTS
  Instances = {p1, p2, p3}
  Old = p1
  PortShared = TRUE
PROPERTY ReinjectionSparesCopies
CHECK_DEADLOCK FALSE
