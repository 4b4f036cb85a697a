--------------------------- MODULE CoreAlgorithms ---------------------------
(***************************************************************************)
(* The pure functions of app/core that the API and the offline page share. *)
(* Skills are compared as the code compares them, stripped and in lower    *)
(* case: a skill is its normal form.  A job lists its skills in order,     *)
(* because the order decides the month of the roadmap a skill lands in.    *)
(***************************************************************************)
EXTENDS Naturals, Sequences, SequencesExt, FiniteSets

CONSTANTS
    Skill,
    Resource,       \* learning_resources.json: a sequence of [name, skill]
    MaxSkills       \* 30: the longest skill list of a profile

ASSUME CoreAssumption ==
    /\ Resource \in Seq(ToSet(Resource))
    /\ \A r \in ToSet(Resource) : r.skill \in Skill
    /\ MaxSkills \in Nat \ {0}

-----------------------------------------------------------------------------

\* round(m / n * 100) with Python's ties to even; 100 when nothing is asked for.
Percent(m, n) ==
    IF n = 0 THEN 100
    ELSE LET q == (100 * m) \div n
             r == (100 * m) % n
         IN  IF 2 * r > n \/ (2 * r = n /\ q % 2 = 1) THEN q + 1 ELSE q

\* The elements of a list that are in S, in the order of the list.
Within(list, S)  == FlattenSeq([i \in DOMAIN list |-> IF list[i] \in S THEN <<list[i]>> ELSE <<>>])
Outside(list, S) == Within(list, ToSet(list) \ S)

analyze_gap(S, job) ==
    [matched_required  |-> Within(job.required, S),
     missing_required  |-> Outside(job.required, S),
     matched_preferred |-> Within(job.preferred, S),
     missing_preferred |-> Outside(job.preferred, S),
     match             |-> Percent(Len(Within(job.required, S)), Len(job.required))]

-----------------------------------------------------------------------------

Phase == 1..3

\* Where each of n missing skills goes: the required ones to the first two
\* phases, the preferred ones to the last two, the earlier half first.
RequiredPhase(n)  == [i \in 1..n |-> IF n <= 2 \/ i <= (n + 1) \div 2 THEN 1 ELSE 2]
PreferredPhase(n) == [i \in 1..n |-> IF n > 2 /\ i <= (n + 1) \div 2 THEN 2 ELSE 3]

\* The resources of a skill, or a placeholder for it.
Materials(s) ==
    LET known == Within(Resource, {r \in ToSet(Resource) : r.skill = s})
    IN  [i \in 1..(IF known = <<>> THEN 1 ELSE Len(known)) |->
            [name |-> IF known = <<>> THEN <<"learn", s>> ELSE known[i].name,
             skill |-> s, completed |-> FALSE]]

InPhase(p, skills, phase) ==
    FlattenSeq([i \in DOMAIN skills |-> IF phase[i] = p THEN Materials(skills[i]) ELSE <<>>])

generate_roadmap(gap) ==
    [p \in Phase |->
        InPhase(p, gap.missing_required, RequiredPhase(Len(gap.missing_required)))
        \o InPhase(p, gap.missing_preferred, PreferredPhase(Len(gap.missing_preferred)))]

\* Every resource of that name, in every phase.
mark_completed(roadmap, name) ==
    [p \in Phase |-> [i \in DOMAIN roadmap[p] |->
        [roadmap[p][i] EXCEPT !.completed = @ \/ roadmap[p][i].name = name]]]

Items(roadmap) == UNION {ToSet(roadmap[p]) : p \in Phase}

Learned(roadmap) == {r.skill : r \in {x \in Items(roadmap) : x.completed}}

\* Mutant of recalculate_match: only what was learned counts.
recalculate_match_learned(S, job, roadmap) ==
    Percent(Len(Within(job.required, Learned(roadmap))), Len(job.required))

\* Completed resources count as skills.
recalculate_match(S, job, roadmap) ==
    Percent(Len(Within(job.required, S \cup Learned(roadmap))), Len(job.required))

-----------------------------------------------------------------------------

\* create_profile and update_profile refuse an empty list, and a long one.
ValidSkills(S) == S # {} /\ Cardinality(S) <= MaxSkills

update_profile(S, added, removed) == (S \cup added) \ removed

\* Either filter lets a job through, and without a filter every job passes.
\* keyword stands for the set of titles that contain it, {} for no keyword.
search_jobs(jobs, keyword, skill) ==
    {j \in jobs : \/ keyword = {} /\ skill \notin Skill
                  \/ j.title \in keyword
                  \/ skill \in ToSet(j.required)}
=============================================================================
