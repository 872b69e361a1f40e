SPECIFICATION Spec

CONSTANTS
  Frames = {f1, f2, f3, f4, f5}
  PAGE0 = p0
  NoPage = null
  Spaces = {e1, e2}
  Dirs = {0, 1}
  Ents = {0, 1}
  Self = self
  REFMOD = 65536
  Unmapped = FALSE

SYMMETRY Symmetry

INVARIANTS
  RefExact
  FreeExact
  TablesArePrivate

PROPERTIES
  ReadOnlyStays
