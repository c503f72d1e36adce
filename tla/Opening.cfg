SPECIFICATION FairSpec
CONSTANTS
  Hosts = {h1, h2, h3}
  Scenarios <- Usual
  MaxConnects = 2
  Impatient = FALSE
  None = None
  h1 = h1
  h2 = h2
  h3 = h3
CHECK_DEADLOCK FALSE
INVARIANTS FirstAvailable OneSocket
PROPERTIES ConnectAnswers ConnectSettles
