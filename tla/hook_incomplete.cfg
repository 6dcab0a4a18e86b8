\* One failing os.Open lets a purge and a new generator run between the lookup of
\* "end" and the opening of "stdout" by another process.
SPECIFICATION Spec
CONSTANTS
  Procs = {p1, p2, p3}
  NoFile = NoFile
  StdinSizes = {1500}
  StdinMax = 1500
  MaxOpenFailures = 1
SYMMETRY Symmetry
INVARIANTS WontServeIncomplete
CHECK_DEADLOCK FALSE
