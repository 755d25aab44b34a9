SPECIFICATION Spec
CONSTANTS
  User = {u1, u2}
  Email = {e1, e2}
  BootstrapEmail = e1
  Token = {k1, k2}
  Handler = {h1, h2}
  MaxPassword = 1
  None = None
SYMMETRY Symmetry
INVARIANTS AccountsInv RevokedTokensAreRefused
PROPERTY LastAdminLostOnlyToStaleCheck
CHECK_DEADLOCK FALSE
