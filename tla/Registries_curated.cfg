SPECIFICATION Spec
CONSTANTS
  a1 = a1
  a2 = a2
  art1 = art1
  art2 = art2
  sig = sig
  s1 = s1
  s2 = s2
  r1 = r1
  Agents = {a1, a2}
  Admin = admin
  Artifacts = {art1, art2}
  Signals = {sig}
  Metrics = {"auc", "fold_auc"}
  RunLevel = {"auc"}
  Slugs = {s1, s2}
  Results = {r1}
  Universe = universe
  NoKey = nokey
  KeyOf <- MCKeyOf
  SlugOf <- MCSlugOf
  Intents <- RosterCalls
  Begun <- MCBegun
  Calls = {c1, c2}
  MaxCalls = 3
  MaxCrashes = 1
SYMMETRY Symmetric
PROPERTIES
  CuratedUntouched
CHECK_DEADLOCK FALSE
