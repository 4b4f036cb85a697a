SPECIFICATION FairSpec
CONSTANTS
  Workers = {w1, w2}
  Emails = {e1}
  Users = {u1}
  Jtis = {j1, j2}
  NoEmail = NoEmail
  NoUser = NoUser
  NoJti = NoJti
  Backends = {"sql"}
  Environment = {"delete_user", "statement", "commit"}
PROPERTY RequestsAreAnswered
