\* Two bases, a change of the world twice; a name in the reply is empty or
\* short.
CONSTANTS
  Bases = 2
  NameLens = {0, 3}
  MaxChanges = 2
SPECIFICATION FairCheck
INVARIANTS StreamAligned WorkingNodePasses VerdictIsGrounded
PROPERTY ChecksEnd
CHECK_DEADLOCK FALSE
