SPECIFICATION Spec
CONSTANTS
  Token = {t1, t2, t3}
  User = {u1}
  Profile = {p1}
  Skill = {python, sql}
  NoToken = NoToken
  NoUser = NoUser
  NoRow = NoRow
  MaxLost = 1
  Environment = {"access_expiry", "delete_user", "no_reply", "late"}
SYMMETRY IdSymmetry
INVARIANT TypeOK CallIsBounded HeldTokenIsLive LogoutEndsSession LateSpendsElsewhere PageAgrees FormIsSaved
PROPERTY ExpiryIsInvisible
