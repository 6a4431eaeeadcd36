\* Two connections, edits beyond those of the first file, and two restarts after the
\* first run. The program stops when it has ended for the last time.
SPECIFICATION Spec
CONSTANTS
  Connections = {c1, c2}
  MaxEdits = 4
  MaxRuns = 3
INVARIANTS
  LoadMeetsAnEmptyGraph
  AnsweredEditsAreSaved
PROPERTIES
  ShutdownEnds
CHECK_DEADLOCK FALSE
