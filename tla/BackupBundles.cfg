CONSTANTS
  tr = tr  ua = ua  ub = ub  uc = uc  ur = ur  sg = sg  it = it  iu = iu  fa = fa  fb = fb  fd = fd  al = al
  ten = ten  e1 = e1  r1 = r1  None = None  k1 = k1  k2 = k2
  Exports = {e1}
  Restores = {r1}
  Rows <- MCRows
  Table <- MCTable
  Owner <- MCOwner
  Name <- MCName
  Secrets = {sg}
  Tenants <- MCTenants
  Initially <- MCInitially
  Fronts = {"api", "cli"}
  Keys = {None, k1, k2}
  Foreign <- MCForeign
  Faults = {"disk", "crash"}
  MaxVersion = 2
  MaxWrites = 1
SPECIFICATION Spec
SYMMETRY KeySymmetry
INVARIANTS SectionsAreAllOrNothing NewerSecretWins TenantsStayApart
CHECK_DEADLOCK FALSE
