SPECIFICATION Spec
CONSTANTS
  m1 = m1
  m2 = m2
  m3 = m3
  Mods <- ThreeMods
  Site <- TwoSites
  Versioned = {m1, m2}
  Cores = {c1}
  Unloaders = {u1}
  LastHandle = 1
INVARIANTS
  NoSessionOutlivesOwner
