SPECIFICATION FairSpec
CONSTANTS
  Threads = {t1, t2, t3, t4}
  Payloads <- MCPayloads
  MaxWords = 2
  N = 3
  None = None
PROPERTIES
  ImplementsEndpoint
  ParkedSenderServed
