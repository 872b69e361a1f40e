SPECIFICATION Spec

CONSTANTS
  Frames = {f1, f2, f3}
  PAGE0 = p0
  NoPage = null
  Spaces = {e1}
  Dirs = {0}
  Ents = {0, 1}
  Self = self
  REFMOD = 65536
  Unmapped = TRUE

SYMMETRY Symmetry

INVARIANTS
  Page0NotMapped
