SPECIFICATION FairSpec
CONSTANTS
  Fd = {3, 4, 5, 6}
  Thread = {t1, t2}
  Handlers = {h1}
  AddressLists <- MCAddressLists
  Spacing = {TRUE, FALSE}
INVARIANTS TypeOK NoLeak NeverRunsOut
PROPERTIES OwnDescriptorsApart ConnectionEnds
CHECK_DEADLOCK FALSE
