SPECIFICATION CowSpec
CONSTANTS
  Env = {e1, e2, e3}
  Root = e1
  Page = {p1, p2, p3, p4}
  Top = 2
  Private = {1}
  Library = {2}
  MaxForks = 3
  Value = {0, 1}
  NULL = NULL
SYMMETRY Sym
INVARIANTS CowTypeOK LibraryShared HandlerThere
PROPERTY Isolation
CHECK_DEADLOCK FALSE
