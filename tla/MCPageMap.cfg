SPECIFICATION Spec
CONSTANTS
  Env = {e1, e2, e3}
  Asid = {a1, a2}
  Page = {p1, p2, p3, p4, p5}
  v0 = v0  va = va  vb = vb  vu = vu
  VA <- AllVA
  PDX <- AllPDX
  UserVA <- AllUser
  LegalVA <- AllLegal
  PanicVA <- AllPanic
  Perm = {R, W}
  REFMOD = 16
  NULL = NULL
SYMMETRY Sym
INVARIANTS TypeOK NoUseAfterFree RefsCounted TablesPrivate TlbCoherent NoAssertFails
PROPERTY FreesUser
CHECK_DEADLOCK FALSE
