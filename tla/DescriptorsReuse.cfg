SPECIFICATION FairSpec
CONSTANTS
  Fd = {3, 4, 5, 6}
  Thread = {t1, t2}
  Handlers = {h1}
  AddressLists <- MCGoodAddress
  Spacing = {FALSE}
PROPERTY OwnDescriptors
CHECK_DEADLOCK FALSE
