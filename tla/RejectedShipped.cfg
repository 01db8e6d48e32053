\* A rejection recorded while an export runs.
SPECIFICATION Spec
CONSTANTS
  c1 = c1
  c2 = c2
  r1 = r1
  r2 = r2
  Candidates = {c1, c2}
  Keys = {"k1", "k2", "k3"}
  Unmappable = {"k3"}
  Runs = {r1, r2}
SYMMETRY Symmetry
PROPERTY OnlyApprovedBecomeExported
