SPECIFICATION Spec
CONSTANTS
  m1 = m1
  m2 = m2
  m3 = m3
  Mods <- ThreeMods
  Site <- TwoSites
  Versioned = {m1, m2}
  Cores = {c1, c2}
  Unloaders = {u1, u2}
  LastHandle = 4
SYMMETRY Symmetry
INVARIANTS
  PatchesExact
  ShutdownInOrder
  CaveWhileNeeded
  OwnerWhileLoaded
