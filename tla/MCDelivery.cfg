SPECIFICATION FairSpec
CONSTANTS
  m1 = m1  m2 = m2  k1 = k1  p1 = p1  w1 = w1  w2 = w2
  Nobody = Nobody  NoMessage = NoMessage
  Messages = {m1}
  Keys = {k1}
  KeyOf <- MCKeyOf
  Pumps = {p1}
  Workers = {w1, w2}
  MaxAttempts = 2
  PumpLimit = 1
  MaxReplays = 1
  MaxFaults = 1
INVARIANTS
  EffectOnce
PROPERTIES
  WritesAreFenced
  GaugesFollowThePump
  Promised
  EverySettled
