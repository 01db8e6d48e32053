\* Two exports overlap, among reviews and extractions.
SPECIFICATION Spec
CONSTANTS
  c1 = c1
  c2 = c2
  r1 = r1
  r2 = r2
  Candidates = {c1, c2}
  Keys = {"k1", "k2", "k3"}
  Unmappable = {"k3"}
  Runs = {r1, r2}
SYMMETRY Symmetry
INVARIANTS
  TypeOK
  RunHasPackage
  NoDuplicateProgrammes
  ExportedWereRecorded
PROPERTY ImplementsLedger
