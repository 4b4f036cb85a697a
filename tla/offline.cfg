SPECIFICATION Spec
CONSTANTS
    Skill = {1, 2, 3, 4, 5}
    MaxSkills = 2
    None = None
    Job <- MCJob
    Resource <- MCResource
INVARIANT RoadmapTeachesGap
INVARIANT MatchesAgree
