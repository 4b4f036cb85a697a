SPECIFICATION FairSpec
CONSTANTS
  Workers = {w1, w2}
  Users = {u1}
  Profiles = {p1}
  Analyses = {a1}
  Roadmaps = {r1}
  Patches <- AddPatch
  MaxSkills = 2
  Backends = {"postgres"}
  Requests = {"create_profile", "patch_profile", "delete_profile", "create_analysis", "create_roadmap", "patch_resource"}
  Environment = {"statement"}
  Skills = {s1, s2}
  Required = {s2}
  Names = {n1}
  n1 = n1
  n2 = n2
  s1 = s1
  s2 = s2
  s3 = s3
  NoUser = NoUser
  NoId = NoId
  NoRow = NoRow
  NoName = NoName
  NoSkill = NoSkill
PROPERTY RequestsAreAnswered
