SPECIFICATION Spec
CONSTANTS
  l1 = l1  l2 = l2  u1 = u1  u2 = u2  r1 = r1
  Urls = {u1, u2}
  Legs = {l1, l2}
  Headers <- MCHeaders
  Roots = {r1}
  MaxRenewals = 1
  MaxClears = 1
  MaxReloads = 1
INVARIANTS DeferredIsFetched StartsOnce
PROPERTY FirstToAskGoesOn
CHECK_DEADLOCK FALSE
