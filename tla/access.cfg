CONSTANTS
  Tokens = {t1, t2}
  Pins = {p, q}
  Clients = {c1, c2}
  Worlds <- AllWorlds
  p = p
  q = q
  c1 = c1
  c2 = c2
  t1 = t1
  t2 = t2
SPECIFICATION FairSpec
CHECK_DEADLOCK FALSE
INVARIANTS RevocationIsFinal GrantIsDurable GuessesBounded CalmRuleFollows
PROPERTY RestartServes
