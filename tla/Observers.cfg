CONSTANTS
  c1 = c1
  c2 = c2
  r1 = r1
  r2 = r2
  r3 = r3
  h1 = h1
  h2 = h2
  h3 = h3
  Null = Null
  End = End
  Handle <- MCHandle
  Faults = {}
  Receiver <- MCReceiver
  Channel <- MCChannel
  Handler <- MCHandler
  MaxSent = 2
  MaxDepth = 2
  MaxOps = 1
  Watched = {"async"}
  Liberties = {}
SPECIFICATION FairSpec
CHECK_DEADLOCK FALSE
INVARIANTS CallbacksSafe DeliveredOnce ConnectionSound
PROPERTIES DeliveryProper CallsEnd
