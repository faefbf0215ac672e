SPECIFICATION ShellSpec
CONSTANTS
  N = 3
  BUF = 1
  Output = {2}
  NULL = NULL
INVARIANTS VerdictRight WaitsForAll
PROPERTY PipelineEnds
