SPECIFICATION Spec
CONSTANTS
  Ids = {1}
  Contacts = {"c1", "c2"}
  Requests = {"r1"}
  Lookups = {"l1"}
  Config <- MCConfig
  Balancers <- MCBalancers
  IpAuths <- MCIpAuths
  Credentials <- MCCredentials
  Messages <- MCMessages
  Others <- MCRest
  MaxBindings = 1
  MaxFaults = 1
  MaxOther = 1
  MaxPings = 1
INVARIANTS FreshIsListed OneFinalAnswer ResolvedWasAlive
PROPERTY EverybodyAnswered
CHECK_DEADLOCK FALSE
