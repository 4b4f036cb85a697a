---------------------------- MODULE ResourceData ----------------------------
(***************************************************************************)
(* The rows of profiles, analyses and roadmaps, and what the core          *)
(* functions compute from them.  Skills are compared as the code compares  *)
(* them, stripped and in lower case: a skill is its normal form.           *)
(***************************************************************************)
EXTENDS FiniteSets, Naturals

CONSTANTS
    Users,          \* accounts; they exist throughout
    Profiles, Analyses, Roadmaps,   \* row ids; a bound on how many are ever drawn
    Skills,
    Required,       \* the skills the job posting asks for
    Names,          \* values of the other columns of a profile
    Patches,        \* the bodies of PATCH /profiles a client sends
    MaxSkills,      \* 30: the longest skill list of a profile
    NoUser, NoId, NoRow, NoName, NoSkill

Ids == Profiles \cup Analyses \cup Roadmaps

ProfileRow  == [name : Names, skills : SUBSET Skills]
\* readable: the groups of the categorization have the response's shape.
AnalysisRow == [profile : Profiles \cup {NoId}, missing : SUBSET Skills, readable : BOOLEAN]
RoadmapRow  == [analysis : Analyses, done : SUBSET Skills]

\* A patch leaves a column alone (NoName), or replaces it; skills are added
\* and removed by name.
Patch == [name : Names \cup {NoName}, add : SUBSET Skills, remove : SUBSET Skills]

ASSUME DataAssumption ==
    /\ Required \subseteq Skills
    /\ Patches \subseteq Patch
    /\ MaxSkills \in Nat \ {0}
    \* the three tables draw their ids apart
    /\ Profiles \cap Analyses = {}
    /\ Profiles \cap Roadmaps = {}
    /\ Analyses \cap Roadmaps = {}
    \* the absent values are not values
    /\ NoUser \notin Users
    /\ NoId \notin Ids
    /\ NoRow \notin ProfileRow \cup AnalysisRow \cup RoadmapRow
    /\ NoName \notin Names
    /\ NoSkill \notin Skills

\* Mutant of Patched: an absent field is written too.
PatchedAbsent(row, patch) ==
    [name |-> patch.name, skills |-> (row.skills \cup patch.add) \ patch.remove]

\* Mutant of Patched: the added skills take the place of the list.
PatchedReplaces(row, patch) ==
    [name   |-> IF patch.name = NoName THEN row.name ELSE patch.name,
     skills |-> IF patch.add # {} THEN patch.add ELSE row.skills \ patch.remove]

\* update_profile, then the overrides of patch_profile_handler.
Patched(row, patch) ==
    [name   |-> IF patch.name = NoName THEN row.name ELSE patch.name,
     skills |-> (row.skills \cup patch.add) \ patch.remove]

\* The length check of create_profile and update_profile.
ValidSkills(S) == S # {} /\ Cardinality(S) <= MaxSkills

\* analyze_gap: the skills of the job the profile lacks.
Missing(row) == Required \ row.skills
=============================================================================
