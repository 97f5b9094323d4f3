SPECIFICATION Spec
CONSTANTS
  d1 = d1
  d2 = d2
  q1 = q1
  q2 = q2
  q3 = q3
  f1 = f1
  s1 = s1
  None = None
SYMMETRY Symmetry
CHECK_DEADLOCK FALSE
INVARIANTS BlameShowsWhatIs CheckpointsTellAuthors
