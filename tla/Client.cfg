SPECIFICATION FairSpec
CONSTANTS
  Fd = {3, 4, 5}
  MaxStreams = 2
  QueueLen = 2
  Networks = {{"sendFails", "lateDatagrams"}, {"interrupts", "lateEffect"}, {"interrupts", "lateDatagrams"}}
INVARIANTS
  TypeOK
  AgreementIfPrompt
  ReceiverReady
  PortReleased
  OwnDescriptor
  TunedIn
  NoLeak
  FreshReceiver
PROPERTIES
  CallbackEndsIfPrompt
  Drained
  ServerIsSession
CHECK_DEADLOCK FALSE
