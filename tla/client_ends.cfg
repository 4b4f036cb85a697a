SPECIFICATION FairSpec
CONSTANTS
  Token = {t1, t2}
  User = {u1, u2}
  Profile = {p1}
  Skill = {python, sql}
  NoToken = NoToken
  NoUser = NoUser
  NoRow = NoRow
  MaxLost = 1
  Environment = {"access_expiry", "refresh_expiry", "no_reply"}
INVARIANT SessionInv
PROPERTY ScriptEnds
