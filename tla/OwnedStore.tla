----------------------------- MODULE OwnedStore -----------------------------
(***************************************************************************)
(* What the profile, analysis and roadmap endpoints promise: every request *)
(* of a user is one atomic step on the rows that user owns.  A patch       *)
(* applies to the row as it is, an analysis describes the profile as it    *)
(* is, and a roadmap is seen and changed by the owner of its analysis.     *)
(***************************************************************************)
EXTENDS ResourceData

VARIABLES
    profile,    \* a row, or NoRow
    gap,        \* the missing skills an analysis found, or NoRow
    roadmap,    \* a row, or NoRow
    owner       \* the user who sees the row, NoUser when nobody does

vars == <<profile, gap, roadmap, owner>>

Init ==
    /\ profile = [p \in Profiles |-> NoRow]
    /\ gap = [a \in Analyses |-> NoRow]
    /\ roadmap = [r \in Roadmaps |-> NoRow]
    /\ owner = [i \in Ids |-> NoUser]

Grant(u, i) == owner[i] = NoUser /\ owner' = [owner EXCEPT ![i] = u]

CreateProfile(u, p) ==
    /\ Grant(u, p)
    /\ \E row \in ProfileRow : /\ ValidSkills(row.skills)
                               /\ profile' = [profile EXCEPT ![p] = row]
    /\ UNCHANGED <<gap, roadmap>>

PatchProfile(u, p) ==
    /\ owner[p] = u
    /\ \E patch \in Patches :
          /\ ValidSkills(Patched(profile[p], patch).skills)
          /\ profile' = [profile EXCEPT ![p] = Patched(@, patch)]
    /\ UNCHANGED <<gap, roadmap, owner>>

DeleteProfile(u, p) ==
    /\ owner[p] = u
    /\ owner' = [owner EXCEPT ![p] = NoUser]
    /\ profile' = [profile EXCEPT ![p] = NoRow]
    /\ UNCHANGED <<gap, roadmap>>

Analyze(u, a, p) ==
    /\ owner[p] = u
    /\ Grant(u, a)
    /\ gap' = [gap EXCEPT ![a] = Missing(profile[p])]
    /\ UNCHANGED <<profile, roadmap>>

Plan(u, r, a) ==
    /\ owner[a] = u
    /\ Grant(u, r)
    /\ roadmap' = [roadmap EXCEPT ![r] = [analysis |-> a, done |-> {}]]
    /\ UNCHANGED <<profile, gap>>

\* A resource of a roadmap stands for a missing skill of its analysis.
Flag(u, r, s, completed) ==
    /\ owner[r] = u
    /\ s \in gap[roadmap[r].analysis]
    /\ roadmap' = [roadmap EXCEPT ![r].done = IF completed THEN @ \cup {s} ELSE @ \ {s}]
    /\ UNCHANGED <<profile, gap, owner>>

Next ==
    \E u \in Users :
        \/ \E p \in Profiles : CreateProfile(u, p) \/ PatchProfile(u, p) \/ DeleteProfile(u, p)
        \/ \E a \in Analyses, p \in Profiles : Analyze(u, a, p)
        \/ \E r \in Roadmaps, a \in Analyses : Plan(u, r, a)
        \/ \E r \in Roadmaps, s \in Skills, c \in BOOLEAN : Flag(u, r, s, c)

Spec == Init /\ [][Next]_vars
=============================================================================
