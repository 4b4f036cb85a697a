SPECIFICATION Spec
CONSTANTS
  Workers = {w1}
  Users = {u1, u2}
  Profiles = {p1}
  Analyses = {a1, a2}
  Roadmaps = {r1}
  Patches <- OnePatches
  MaxSkills = 2
  Backends = {"memory", "sqlite", "postgres"}
  Requests = {"create_profile", "get_profile", "patch_profile", "delete_profile", "create_analysis", "get_analysis", "create_roadmap", "patch_resource"}
  Environment = {"bad_shape", "statement", "commit", "crash"}
  Skills = {s1, s2, s3}
  Required = {s2, s3}
  Names = {n1, n2}
  n1 = n1
  n2 = n2
  s1 = s1
  s2 = s2
  s3 = s3
  NoUser = NoUser
  NoId = NoId
  NoRow = NoRow
  NoName = NoName
  NoSkill = NoSkill
SYMMETRY TableSymmetry
INVARIANT TypeOK OwnershipInv LinksHold
PROPERTY StoreSpec PatchesAreLocal
