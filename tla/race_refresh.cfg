SPECIFICATION Spec
CONSTANTS
  Workers = {w1, w2}
  Emails = {e1}
  Users = {u1}
  Jtis = {j1, j2, j3}
  NoEmail = NoEmail
  NoUser = NoUser
  NoJti = NoJti
  Backends = {"sql"}
  Environment = {}
INVARIANT OneLivePerSession
