CONSTANTS
  n1 = n1
  n2 = n2
  p1 = p1
  p2 = p2
  t1 = t1
  t2 = t2
  w1 = w1
  w2 = w2
  NoUser = NoUser
  NoName = NoName
  NoPassword = NoPassword
  NoToken = NoToken
  Names = {n1, n2}
  Passwords = {p1, p2}
  Tokens = {t1, t2}
  Workers = {w1, w2}
  MaxUsers = 2
  Faults = FALSE
SYMMETRY AuthSymmetry
SPECIFICATION Spec
PROPERTY SetupOnce
