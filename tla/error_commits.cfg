SPECIFICATION Spec
CONSTANTS
  Workers = {w1}
  Users = {u1}
  Profiles = {p1}
  Analyses = {a1}
  Roadmaps = {r1}
  Patches <- NoPatches
  MaxSkills = 2
  Backends = {"postgres"}
  Requests = {"create_profile", "create_analysis"}
  Environment = {"bad_shape"}
  Skills = {s1, s2}
  Required = {s1, s2}
  Names = {n1, n2}
  n1 = n1
  n2 = n2
  s1 = s1
  s2 = s2
  s3 = s3
  NoUser = NoUser
  NoId = NoId
  NoRow = NoRow
  NoName = NoName
  NoSkill = NoSkill
PROPERTY ErrorsStoreNothing
