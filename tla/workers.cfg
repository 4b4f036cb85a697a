SPECIFICATION Spec
CONSTANTS
  Workers = {w1, w2}
  Emails = {e1}
  Users = {u1, u2}
  Jtis = {j1, j2, j3}
  NoEmail = NoEmail
  NoUser = NoUser
  NoJti = NoJti
  Backends = {"sql", "memory"}
  Environment = {"expiry", "delete_user", "statement"}
SYMMETRY WorkerSymmetry
INVARIANT WritesInv RepliesInv TokensHaveUsers AccountsReachable LogoutHolds
PROPERTY SpentTokenStaysSpent DeliveredTokenIsLive
