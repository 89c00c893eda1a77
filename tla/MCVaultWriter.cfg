\* Two goroutines and two files: the races of one file while another is written.
\* No symmetry, since the run also checks the refinement and a liveness property.
CONSTANTS
  Writers = {w1, w2}
  Paths = {p1, p2}
  Contents = {c1, c2}
  None = None
SPECIFICATION FairWriterSpec
INVARIANTS
  RegistryIsLatestOwn
PROPERTIES
  SerialSpec
  WriteReturns
