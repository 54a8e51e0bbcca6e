CONSTANTS
  u = u
  v = v
  s = s
  t = t
  home = home
  away = away
  Compiler = {u, v}
  Place = {home, away}
  Text = {s, t}
  NoText = NoText
  Profiles <- MCProfiles
SPECIFICATION FairSpec
CHECK_DEADLOCK FALSE
INVARIANTS
  InputsIntact
PROPERTIES
  SuccessIsReal
  Ends
