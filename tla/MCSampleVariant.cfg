CONSTANTS
  va = va
  vb = vb
  vc = vc
  Variants = {va, vb, vc}
  MaxWeight = 3
  MaxHash = 8
SPECIFICATION Spec
SYMMETRY Perms
INVARIANTS
  WeightedFirst
  Proportional
