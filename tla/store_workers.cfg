SPECIFICATION Spec
CONSTANTS
  Workers = {w1, w2}
  Users = {u1, u2}
  Profiles = {p1}
  Analyses = {a1}
  Roadmaps = {r1}
  Patches <- OnePatches
  MaxSkills = 2
  Backends = {"memory", "sqlite", "postgres"}
  Requests = {"create_profile", "patch_profile", "delete_profile", "create_analysis", "create_roadmap", "patch_resource"}
  Environment = {"bad_shape"}
  Skills = {s1, s2}
  Required = {s1, s2}
  Names = {n1, n2}
  n1 = n1
  n2 = n2
  s1 = s1
  s2 = s2
  s3 = s3
  NoUser = NoUser
  NoId = NoId
  NoRow = NoRow
  NoName = NoName
  NoSkill = NoSkill
SYMMETRY ActorSymmetry
INVARIANT OwnershipInv RepliesAreOwn WritesInv LinksHold
PROPERTY WritesAreOwn SuccessIsStored
