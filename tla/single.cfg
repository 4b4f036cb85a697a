SPECIFICATION Spec
CONSTANTS
  Workers = {w1}
  Emails = {e1}
  Users = {u1, u2}
  Jtis = {j1, j2, j3}
  NoEmail = NoEmail
  NoUser = NoUser
  NoJti = NoJti
  Backends = {"sql", "memory"}
  Environment = {"expiry", "delete_user", "statement", "commit", "lost_reply", "crash"}
SYMMETRY IdSymmetry
INVARIANT TypeOK RotationInv OneLivePerSession
PROPERTY EndedSessionStaysEnded PromiseSpec
