----------------------------- MODULE OfflinePage -----------------------------
(***************************************************************************)
(* The offline mode of app.py: the page without the API.  A run of the     *)
(* script is one step, and all it remembers is in session_state.  The      *)
(* script redraws every section at each run, so each action ends with      *)
(* Render, which is what the third section does to the roadmap.            *)
(***************************************************************************)
EXTENDS CoreAlgorithms

CONSTANTS
    Job,        \* jobs.json: a set of [title, required, preferred]
    None        \* stands for a key that is not in session_state

\* No job of data/jobs.json lists a skill as both required and preferred.
ASSUME OfflineAssumption ==
    \A j \in Job : /\ j.required \in Seq(Skill) /\ j.preferred \in Seq(Skill)
                   /\ ToSet(j.required) \cap ToSet(j.preferred) = {}

VARIABLES
    profile,    \* user_profile: its skills
    gap,        \* gap_result
    job,        \* selected_job
    roadmap,
    stale,      \* roadmap_stale
    recreated,  \* history: the profile form was sent after the analysis
    reanalysed  \* history: a gap was analysed after the roadmap was generated

vars == <<profile, gap, job, roadmap, stale, recreated, reanalysed>>

Init ==
    /\ profile = None /\ gap = None /\ job = None /\ roadmap = None
    /\ stale = FALSE /\ recreated = FALSE /\ reanalysed = FALSE

Lacks(g) == g.missing_required # <<>> \/ g.missing_preferred # <<>>

\* A roadmap is generated when there is none or when it is marked stale.
Render(g, outdated) ==
    IF g # None /\ Lacks(g) /\ (roadmap = None \/ outdated)
    THEN roadmap' = generate_roadmap(g) /\ stale' = FALSE
    ELSE stale' = outdated /\ UNCHANGED roadmap

\* "Create / Update Profile": the analysis stays as it is.
CreateProfile(S) ==
    /\ ValidSkills(S)
    /\ profile' = S
    /\ recreated' = (gap # None)
    /\ Render(gap, stale)
    /\ UNCHANGED <<gap, job, reanalysed>>

\* "Run Gap Analysis": the roadmap, if there is one, stays as it is.
RunGapAnalysis(j) ==
    /\ profile # None
    /\ gap' = analyze_gap(profile, j)
    /\ job' = j
    /\ recreated' = FALSE
    /\ reanalysed' = (roadmap # None /\ ~stale)
    /\ Render(gap', stale)
    /\ UNCHANGED profile

\* The third section is there when the analysis found something missing.
RoadmapShown == gap # None /\ Lacks(gap) /\ roadmap # None

\* "Mark Done" writes the new match into the stored analysis.
MarkDone(r) ==
    /\ ~r.completed
    /\ roadmap' = mark_completed(roadmap, r.name)
    /\ gap' = [gap EXCEPT !.match = recalculate_match(profile, job, roadmap')]
    /\ UNCHANGED <<profile, job, stale, recreated, reanalysed>>

\* Mutant of UpdateProfile: the roadmap is not marked stale.
UpdateProfileKeeps(added, removed) ==
    /\ gap # None
    /\ added \cup removed # {}
    /\ ValidSkills(update_profile(profile, added, removed))
    /\ profile' = update_profile(profile, added, removed)
    /\ gap' = analyze_gap(profile', job)
    /\ recreated' = FALSE
    /\ reanalysed' = FALSE
    /\ Render(gap', stale)
    /\ UNCHANGED job

\* "Update & Re-Analyze" and the rerun that generates the roadmap again.  With
\* an analysis there is a job, and the form is only drawn with an analysis.
UpdateProfile(added, removed) ==
    /\ gap # None
    /\ added \cup removed # {}
    /\ ValidSkills(update_profile(profile, added, removed))
    /\ profile' = update_profile(profile, added, removed)
    /\ gap' = analyze_gap(profile', job)
    /\ recreated' = FALSE
    /\ reanalysed' = FALSE
    /\ Render(gap', TRUE)
    /\ UNCHANGED job

\* The jobs the select box can offer, with the filters set in any way.
Offered == UNION {search_jobs(Job, keyword, skill) :
                     keyword \in SUBSET {j.title : j \in Job}, skill \in Skill \cup {None}}

Next ==
    \/ \E S \in SUBSET Skill : CreateProfile(S)
    \/ \E j \in Offered : RunGapAnalysis(j)
    \/ RoadmapShown /\ \E r \in Items(roadmap) : MarkDone(r)
    \/ /\ profile # None
       /\ \E added \in SUBSET (Skill \ profile), removed \in SUBSET profile :
             UpdateProfile(added, removed)

Spec == Init /\ [][Next]_vars

-----------------------------------------------------------------------------

Taught(p) == {r.skill : r \in ToSet(roadmap[p])}

\* The roadmap the page shows teaches exactly the skills the analysis above it
\* found missing, and no required skill waits for a later phase than a
\* preferred one, however buttons, updates and analyses follow each other.
\* The exception is a second analysis, which keeps the roadmap of the first:
\* app.py:233 generates one only when there is none or it is marked stale.
RoadmapTeachesGap ==
    RoadmapShown /\ ~reanalysed =>
        LET required  == ToSet(gap.missing_required)
            preferred == ToSet(gap.missing_preferred)
        IN  /\ UNION {Taught(p) : p \in Phase} = required \cup preferred
            /\ \A p, q \in Phase :
                  \A s \in Taught(p) \cap required, t \in Taught(q) \ required : p <= q

\* The page shows the match twice: the one stored with the analysis, and the
\* one recomputed from the profile and the resources marked done.  They are the
\* same number, unless the profile form or a second analysis replaced one side.
MatchesAgree ==
    RoadmapShown /\ ~recreated /\ ~reanalysed =>
        gap.match = recalculate_match(profile, job, roadmap)
=============================================================================
