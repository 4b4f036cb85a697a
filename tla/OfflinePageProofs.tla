------------------------- MODULE OfflinePageProofs -------------------------
(***************************************************************************)
(* Proofs about the pure functions of app/core and the page that calls     *)
(* them, for any catalog, any resources and any profiles.  The functions   *)
(* flatten sequences of any length, so the first lemmas are an induction.  *)
(***************************************************************************)
EXTENDS OfflinePage, FiniteSetTheorems, WellFoundedInduction, SequenceTheorems, TLAPS

-----------------------------------------------------------------------------
(***************************************************************************)
(* Induction and recursion over the natural numbers, stated with sets      *)
(***************************************************************************)

\* A set of natural numbers has a least member: the intervals that end in it
\* are finite sets, which strict inclusion orders well.
LEMMA LeastNat ==
    ASSUME NEW S, S \subseteq Nat, S # {}
    PROVE  \E m \in S : \A k \in S : m <= k
  <1> DEFINE below == {0..n : n \in S}
  <1>1. below \subseteq FiniteSubsetsOf(Nat) /\ below # {}
    <2>1. ASSUME NEW n \in S PROVE 0..n \subseteq Nat /\ IsFiniteSet(0..n)
      BY FS_Interval
    <2> QED
      BY <2>1 DEF FiniteSubsetsOf
  <1>2. PICK x \in below : \A y \in below : ~(<<y, x>> \in StrictSubsetOrdering(Nat))
    <2> HIDE DEF below
    <2> QED
      BY <1>1, FS_StrictSubsetOrderingWellFounded, WFMin
  <1>3. PICK m \in S : x = 0..m
    OBVIOUS
  <1>4. ASSUME NEW k \in S, k < m PROVE FALSE
    <2>1. 0..k \subseteq 0..m /\ 0..k # 0..m /\ 0..k \subseteq Nat /\ 0..m \subseteq Nat
      <3>1. m \in 0..m /\ m \notin 0..k
        BY <1>4
      <3> QED
        BY <1>4, <3>1
    <2>2. <<0..k, 0..m>> \in StrictSubsetOrdering(Nat)
      BY <2>1 DEF StrictSubsetOrdering
    <2> QED
      BY <1>2, <1>3, <2>2
  <1> QED
    BY <1>4

\* Induction up to n, for a property given as the set of numbers that have it.
LEMMA Induction ==
    ASSUME NEW n \in Nat, NEW S, 0 \in S, \A k \in 1..n : k-1 \in S => k \in S
    PROVE  0..n \subseteq S
  <1> DEFINE others == (0..n) \ S
  <1> SUFFICES ASSUME others # {} PROVE FALSE
    OBVIOUS
  <1>1. PICK k \in others : \A j \in others : k <= j
    <2>1. others \subseteq Nat
      OBVIOUS
    <2> HIDE DEF others
    <2> QED
      BY <2>1, LeastNat
  <1>2. k \in 1..n /\ k-1 \in 0..n /\ ~(k <= k-1)
    OBVIOUS
  <1> QED
    BY <1>1, <1>2

\* f is what the steps make of first, one after the other.
Steps(n, X) == [1..n -> [X -> X]]

Follows(f, n, X, first, step) ==
    f \in [0..n -> X] /\ f[0] = first /\ \A i \in 1..n : f[i] = step[i][f[i-1]]

\* A function may be defined by recursion from 0 to n.
LEMMA Recursion ==
    ASSUME NEW n \in Nat, NEW X, NEW first \in X, NEW step \in Steps(n, X)
    PROVE  \E f : Follows(f, n, X, first, step)
  <1> USE DEF Steps
  <1> DEFINE Upto(k) == \E f \in [0..k -> X] : f[0] = first /\ \A i \in 1..k : f[i] = step[i][f[i-1]]
             S == {k \in 0..n : Upto(k)}
  <1>1. Upto(0)
    <2>1. [i \in 0..0 |-> first] \in [0..0 -> X] /\ 0 \in 0..0 /\ 1..0 = {}
      OBVIOUS
    <2> QED
      BY <2>1
  <1>2. ASSUME NEW k \in 1..n, Upto(k-1) PROVE Upto(k)
    <2>1. PICK f \in [0..(k-1) -> X] : f[0] = first /\ \A i \in 1..(k-1) : f[i] = step[i][f[i-1]]
      BY <1>2
    <2> DEFINE g == [i \in 0..k |-> IF i = k THEN step[k][f[k-1]] ELSE f[i]]
    <2>2. f[k-1] \in X
      BY <2>1
    <2>3. step[k][f[k-1]] \in X
      BY <2>2
    <2>4. g \in [0..k -> X]
      BY <2>1, <2>3
    <2>5. g[0] = first
      BY <2>1
    <2>6. ASSUME NEW i \in 1..k PROVE g[i] = step[i][g[i-1]]
      <3>1. CASE i = k
        BY <3>1
      <3>2. CASE i < k
        BY <2>1, <3>2
      <3> QED
        BY <3>1, <3>2
    <2> QED
      BY <2>4, <2>5, <2>6
  <1>3. 0 \in S /\ \A k \in 1..n : k-1 \in S => k \in S
    <2> HIDE DEF Upto
    <2> QED
      BY <1>1, <1>2
  <1>4. n \in S
    <2> HIDE DEF S
    <2>1. 0..n \subseteq S
      BY <1>3, Induction
    <2> QED
      BY <2>1
  <1> QED
    BY <1>4 DEF Follows

-----------------------------------------------------------------------------
(***************************************************************************)
(* Sequences                                                               *)
(***************************************************************************)

\* The members of a concatenation.
LEMMA ConcatSet ==
    ASSUME NEW X, NEW s \in Seq(X), NEW t \in Seq(X)
    PROVE  s \o t \in Seq(X) /\ ToSet(s \o t) = ToSet(s) \cup ToSet(t)
  <1>1. /\ s \o t \in Seq(X) /\ Len(s \o t) = Len(s) + Len(t)
        /\ \A i \in 1..Len(s) + Len(t) : (s \o t)[i] = IF i <= Len(s) THEN s[i] ELSE t[i - Len(s)]
    BY ConcatProperties
  <1>2. /\ DOMAIN s = 1..Len(s) /\ DOMAIN t = 1..Len(t) /\ DOMAIN (s \o t) = 1..(Len(s) + Len(t))
        /\ Len(s) \in Nat /\ Len(t) \in Nat
    BY <1>1
  <1>3. ASSUME NEW i \in 1..Len(s) PROVE s[i] \in ToSet(s \o t)
    <2>1. i \in DOMAIN (s \o t) /\ (s \o t)[i] = s[i]
      BY <1>1, <1>2
    <2> QED
      BY <2>1 DEF ToSet
  <1>4. ASSUME NEW i \in 1..Len(t) PROVE t[i] \in ToSet(s \o t)
    <2>1. i + Len(s) \in DOMAIN (s \o t) /\ (s \o t)[i + Len(s)] = t[i]
      BY <1>1, <1>2
    <2> QED
      BY <2>1 DEF ToSet
  <1>5. ASSUME NEW i \in DOMAIN (s \o t) PROVE (s \o t)[i] \in ToSet(s) \cup ToSet(t)
    <2>1. CASE i <= Len(s)
      BY <1>1, <1>2, <2>1 DEF ToSet
    <2>2. CASE ~(i <= Len(s))
      <3>1. i - Len(s) \in DOMAIN t /\ (s \o t)[i] = t[i - Len(s)]
        BY <1>1, <1>2, <2>2
      <3> QED
        BY <3>1 DEF ToSet
    <2> QED
      BY <2>1, <2>2
  <1> QED
    BY <1>1, <1>2, <1>3, <1>4, <1>5 DEF ToSet

\* FlattenSeq, unfolded: the concatenation of the sequences so far.
LEMMA FlattenSteps ==
    ASSUME NEW X, NEW ss \in Seq(Seq(X)), Len(ss) # 0
    PROVE  \E f \in [1..Len(ss) -> Seq(X)] :
              /\ f[1] = ss[1]
              /\ \A i \in 2..Len(ss) : f[i] = f[i-1] \o ss[i]
              /\ FlattenSeq(ss) = f[Len(ss)]
  <1> DEFINE n == Len(ss)
             Def(g) == [i \in 1..n |-> IF i = 1 THEN ss[i] ELSE g[i-1] \o ss[i]]
             Y == Seq(X)
             step == [i \in 1..n |-> [s \in Y |-> s \o ss[i]]]
  <1>1. n \in Nat /\ n >= 1 /\ \A i \in 1..n : ss[i] \in Seq(X)
    OBVIOUS
  <1>2. step \in [1..n -> [Y -> Y]] /\ <<>> \in Y
    BY <1>1, ConcatProperties
  <1> HIDE DEF n
  <1>3. PICK f : Follows(f, n, Y, <<>>, step)
    <2>1. step \in Steps(n, Y)
      BY <1>2 DEF Steps
    <2> HIDE DEF step, Y
    <2> QED
      BY <1>1, <1>2, <2>1, Recursion
  <1> USE DEF Follows
  <1>4. ASSUME NEW i \in 1..n PROVE f[i-1] \in Seq(X) /\ f[i] = f[i-1] \o ss[i]
    <2>1. i-1 \in 0..n
      BY <1>1
    <2>2. f[i-1] \in Y
      BY <1>3, <2>1
    <2>3. step[i][f[i-1]] = f[i-1] \o ss[i]
      BY <2>2
    <2> HIDE DEF step
    <2> QED
      BY <1>3, <2>2, <2>3 DEF Y
  <1>5. f[1] = ss[1]
    <2>1. 1 \in 1..n /\ ss[1] \in Seq(X)
      BY <1>1
    <2>2. ASSUME NEW i \in 1..n, i = 1 PROVE f[i] = <<>> \o ss[i]
      <3>1. i-1 = 0
        BY <2>2
      <3> HIDE DEF step, Y
      <3> QED
        BY <1>3, <1>4, <3>1
    <2>3. f[1] = <<>> \o ss[1]
      BY <2>1, <2>2
    <2> QED
      BY <2>1, <2>3, ConcatEmptySeq
  <1> DEFINE g == [i \in 1..n |-> f[i]]
  <1>6. g = Def(g)
    <2>1. ASSUME NEW i \in 1..n PROVE g[i] = IF i = 1 THEN ss[i] ELSE g[i-1] \o ss[i]
      <3>1. CASE i # 1
        <4>1. i-1 \in 1..n
          BY <1>1, <3>1
        <4> QED
          BY <1>4, <3>1, <4>1
      <3> QED
        BY <1>5, <3>1
    <2> QED
      BY <2>1
  <1>7. FlattenSeq(ss) = (CHOOSE h : h = Def(h))[n]
    BY DEF FlattenSeq, n
  <1> DEFINE F == CHOOSE h : h = Def(h)
  <1>8. F = Def(F)
    <2> HIDE DEF g, Def
    <2> QED
      BY <1>6
  <1> HIDE DEF F
  <1>9. F[1] = ss[1] /\ \A i \in 2..n : F[i] = F[i-1] \o ss[i]
    <2>1. 1 \in 1..n /\ \A i \in 2..n : i \in 1..n /\ i # 1
      BY <1>1
    <2> QED
      BY <1>8, <2>1
  <1>10. F \in [1..n -> Seq(X)]
    <2> DEFINE S == {0} \cup {i \in 1..n : F[i] \in Y}
    <2>1. ASSUME NEW k \in 1..n, k-1 \in S PROVE k \in S
      <3>1. CASE k = 1
        BY <1>1, <1>9, <3>1
      <3>2. CASE k # 1
        <4>1. k-1 \in 1..n /\ k \in 2..n /\ F[k-1] \in Seq(X) /\ ss[k] \in Seq(X)
          BY <1>1, <2>1, <3>2
        <4>2. F[k] = F[k-1] \o ss[k]
          BY <1>9, <4>1
        <4>3. F[k] \in Seq(X)
          BY <4>1, <4>2, ConcatProperties
        <4> QED
          BY <4>3
      <3> QED
        BY <3>1, <3>2
    <2>2. 0..n \subseteq S
      <3>1. 0 \in S
        OBVIOUS
      <3> HIDE DEF S
      <3> QED
        BY <1>1, <2>1, <3>1, Induction
    <2>3. ASSUME NEW i \in 1..n PROVE F[i] \in Seq(X)
      <3>1. i \in 0..n /\ i # 0
        OBVIOUS
      <3>2. i \in S
        BY <2>2, <3>1
      <3> QED
        BY <3>1, <3>2
    <2>4. F = [i \in 1..n |-> F[i]]
      BY <1>8
    <2> QED
      BY <2>3, <2>4
  <1> QED
    BY <1>7, <1>9, <1>10 DEF F, n

\* FlattenSeq concatenates: what it returns is a sequence of the members of its
\* parts, and of nothing else.
LEMMA Flattened ==
    ASSUME NEW X, NEW ss \in Seq(Seq(X))
    PROVE  /\ FlattenSeq(ss) \in Seq(X)
           /\ ToSet(FlattenSeq(ss)) = UNION {ToSet(ss[i]) : i \in 1..Len(ss)}
  <1>1. CASE Len(ss) = 0
    <2>1. FlattenSeq(ss) = <<>> /\ ss = <<>>
      BY <1>1, EmptySeq DEF FlattenSeq
    <2>2. 1..Len(ss) = {} /\ ToSet(<<>>) = {}
      BY <1>1 DEF ToSet
    <2> QED
      BY <2>1, <2>2, EmptySeq
  <1>2. CASE Len(ss) # 0
    <2> DEFINE n == Len(ss)
    <2>1. n \in Nat /\ n >= 1 /\ \A i \in 1..n : ss[i] \in Seq(X)
      BY <1>2
    <2>2. PICK f \in [1..n -> Seq(X)] :
              /\ f[1] = ss[1]
              /\ \A i \in 2..n : f[i] = f[i-1] \o ss[i]
              /\ FlattenSeq(ss) = f[n]
      BY <1>2, FlattenSteps
    <2> DEFINE Upto(k) == UNION {ToSet(ss[i]) : i \in 1..k}
               S == {0} \cup {k \in 1..n : ToSet(f[k]) = Upto(k)}
    <2> HIDE DEF n
    <2>3. ASSUME NEW k \in 1..n, k-1 \in S PROVE k \in S
      <3>1. CASE k = 1
        <4>1. 1..1 = {1}
          OBVIOUS
        <4> QED
          BY <2>1, <2>2, <3>1, <4>1
      <3>2. CASE k # 1
        <4>1. k-1 \in 1..n /\ k \in 2..n /\ f[k-1] \in Seq(X) /\ ss[k] \in Seq(X)
          BY <2>1, <3>2
        <4>2. f[k] = f[k-1] \o ss[k]
          BY <2>2, <4>1
        <4>3. ToSet(f[k]) = ToSet(f[k-1]) \cup ToSet(ss[k])
          BY <4>1, <4>2, ConcatSet
        <4>4. ToSet(f[k-1]) = Upto(k-1)
          BY <2>3, <4>1
        <4>5. 1..k = 1..(k-1) \cup {k}
          BY <4>1
        <4>6. Upto(k) = Upto(k-1) \cup ToSet(ss[k])
          BY <4>5
        <4> QED
          BY <4>3, <4>4, <4>6
      <3> QED
        BY <3>1, <3>2
    <2>4. 0..n \subseteq S
      <3>1. 0 \in S
        OBVIOUS
      <3> HIDE DEF S
      <3> QED
        BY <2>1, <2>3, <3>1, Induction
    <2>5. n \in 0..n /\ n # 0 /\ n \in 1..n
      BY <2>1
    <2>6. ToSet(f[n]) = Upto(n)
      <3>1. n \in S
        BY <2>4, <2>5
      <3> QED
        BY <2>5, <3>1
    <2> QED
      BY <2>2, <2>5, <2>6 DEF n
  <1> QED
    BY <1>1, <1>2

\* Within keeps the members of a list that are in a set, and is a list of them.
LEMMA WithinSet ==
    ASSUME NEW X, NEW list \in Seq(X), NEW S
    PROVE  Within(list, S) \in Seq(X) /\ ToSet(Within(list, S)) = ToSet(list) \cap S
  <1> DEFINE ss == [i \in DOMAIN list |-> IF list[i] \in S THEN <<list[i]>> ELSE <<>>]
  <1>1. DOMAIN list = 1..Len(list) /\ Len(list) \in Nat /\ \A i \in 1..Len(list) : list[i] \in X
    OBVIOUS
  <1>2. ss \in Seq(Seq(X)) /\ Len(ss) = Len(list)
    BY <1>1
  <1>3. \A i \in 1..Len(list) : ss[i] = IF list[i] \in S THEN <<list[i]>> ELSE <<>>
    BY <1>1
  <1>4. \A x : ToSet(<<x>>) = {x}
    BY DEF ToSet
  <1>5. ToSet(<<>>) = {}
    BY DEF ToSet
  <1>6. \A i \in 1..Len(list) : ToSet(ss[i]) = {list[i]} \cap S
    <2> HIDE DEF ss
    <2> QED
      BY <1>3, <1>4, <1>5
  <1>7. Within(list, S) = FlattenSeq(ss)
    BY DEF Within
  <1>8. /\ FlattenSeq(ss) \in Seq(X)
        /\ ToSet(FlattenSeq(ss)) = UNION {ToSet(ss[i]) : i \in 1..Len(list)}
    <2> HIDE DEF ss
    <2> QED
      BY <1>2, Flattened
  <1>9. ToSet(list) = {list[i] : i \in 1..Len(list)}
    BY <1>1 DEF ToSet
  <1> HIDE DEF ss
  <1> QED
    BY <1>6, <1>7, <1>8, <1>9

\* Outside keeps the others.
LEMMA OutsideSet ==
    ASSUME NEW X, NEW list \in Seq(X), NEW S
    PROVE  Outside(list, S) \in Seq(X) /\ ToSet(Outside(list, S)) = ToSet(list) \ S
  BY WithinSet DEF Outside

-----------------------------------------------------------------------------
(***************************************************************************)
(* The roadmap generator                                                   *)
(***************************************************************************)

Name == {r.name : r \in ToSet(Resource)} \cup {<<"learn", s>> : s \in Skill}
Item  == [name : Name, skill : Skill, completed : BOOLEAN]
Fresh == [name : Name, skill : Skill, completed : {FALSE}]

Skills(list) == {x.skill : x \in ToSet(list)}

\* A skill has at least one resource, all of its resources teach it, and none
\* of them is completed.
LEMMA MaterialsOf ==
    ASSUME NEW s \in Skill
    PROVE  Materials(s) \in Seq(Fresh) /\ Skills(Materials(s)) = {s}
  <1> DEFINE known == Within(Resource, {r \in ToSet(Resource) : r.skill = s})
             n == IF known = <<>> THEN 1 ELSE Len(known)
             item(i) == [name |-> IF known = <<>> THEN <<"learn", s>> ELSE known[i].name,
                         skill |-> s, completed |-> FALSE]
  <1>1. known \in Seq(ToSet(Resource))
    BY CoreAssumption, WithinSet
  <1>2. Materials(s) = [i \in 1..n |-> item(i)]
    BY DEF Materials
  <1> HIDE DEF known
  <1>3. n \in Nat /\ n >= 1
    <2>1. CASE known = <<>>
      BY <2>1
    <2>2. CASE known # <<>>
      BY <1>1, <2>2
    <2> QED
      BY <2>1, <2>2
  <1>4. ASSUME NEW i \in 1..n PROVE item(i) \in Fresh
    <2>1. CASE known = <<>>
      BY <2>1 DEF Fresh, Name
    <2>2. CASE known # <<>>
      <3>1. known[i] \in ToSet(Resource)
        BY <1>1, <2>2
      <3>2. known[i].name \in Name
        BY <3>1 DEF Name
      <3> QED
        BY <2>2, <3>2 DEF Fresh
    <2> QED
      BY <2>1, <2>2
  <1> HIDE DEF n
  <1>5. Materials(s) \in Seq(Fresh)
    <2> HIDE DEF item
    <2> QED
      BY <1>2, <1>3, <1>4
  <1>6. ToSet(Materials(s)) = {item(i) : i \in 1..n}
    BY <1>2 DEF ToSet
  <1>7. \A i \in 1..n : item(i).skill = s
    OBVIOUS
  <1>8. 1 \in 1..n
    BY <1>3
  <1> HIDE DEF item
  <1> QED
    BY <1>5, <1>6, <1>7, <1>8 DEF Skills

\* What a phase teaches of a list of skills: those that were sent to it.
LEMMA PhaseTeaches ==
    ASSUME NEW skills \in Seq(Skill), NEW phase, NEW p
    PROVE  /\ InPhase(p, skills, phase) \in Seq(Fresh)
           /\ Skills(InPhase(p, skills, phase)) =
                 {skills[i] : i \in {k \in 1..Len(skills) : phase[k] = p}}
  <1> DEFINE ss == [i \in DOMAIN skills |-> IF phase[i] = p THEN Materials(skills[i]) ELSE <<>>]
             n == Len(skills)
  <1>1. n \in Nat /\ DOMAIN skills = 1..n /\ \A i \in 1..n : skills[i] \in Skill
    OBVIOUS
  <1>2. \A i \in 1..n : ss[i] = IF phase[i] = p THEN Materials(skills[i]) ELSE <<>>
    BY <1>1
  <1>3. InPhase(p, skills, phase) = FlattenSeq(ss)
    BY DEF InPhase
  <1>4. ASSUME NEW i \in 1..n
        PROVE  /\ ss[i] \in Seq(Fresh)
               /\ {x.skill : x \in ToSet(ss[i])} = IF phase[i] = p THEN {skills[i]} ELSE {}
    <2> HIDE DEF ss
    <2>1. CASE phase[i] = p
      BY <1>1, <1>2, <2>1, MaterialsOf DEF Skills
    <2>2. CASE phase[i] # p
      <3>1. ss[i] = <<>> /\ ToSet(<<>>) = {}
        BY <1>2, <2>2 DEF ToSet
      <3> QED
        BY <2>2, <3>1
    <2> QED
      BY <2>1, <2>2
  <1>5. ss \in Seq(Seq(Fresh)) /\ Len(ss) = n
    <2>1. ss = [i \in 1..n |-> ss[i]]
      BY <1>1
    <2> HIDE DEF ss, n
    <2> QED
      BY <1>1, <1>4, <2>1
  <1> HIDE DEF ss, n
  <1>6. /\ FlattenSeq(ss) \in Seq(Fresh)
        /\ ToSet(FlattenSeq(ss)) = UNION {ToSet(ss[i]) : i \in 1..n}
    BY <1>5, Flattened
  <1>7. Skills(FlattenSeq(ss)) = UNION {{x.skill : x \in ToSet(ss[i])} : i \in 1..n}
    BY <1>6 DEF Skills
  <1>8. UNION {{x.skill : x \in ToSet(ss[i])} : i \in 1..n} =
        {skills[i] : i \in {k \in 1..n : phase[k] = p}}
    BY <1>4
  <1> QED
    BY <1>3, <1>6, <1>7, <1>8 DEF n

\* What phase p of a roadmap teaches.
Lesson(p, required, preferred) ==
    {required[i] : i \in {k \in 1..Len(required) : RequiredPhase(Len(required))[k] = p}}
    \cup {preferred[i] : i \in {k \in 1..Len(preferred) : PreferredPhase(Len(preferred))[k] = p}}

\* A generated roadmap has three lists of resources, none completed.
LEMMA Generated ==
    ASSUME NEW g, g.missing_required \in Seq(Skill), g.missing_preferred \in Seq(Skill)
    PROVE  /\ generate_roadmap(g) \in [Phase -> Seq(Fresh)]
           /\ \A p \in Phase : Skills(generate_roadmap(g)[p]) =
                 Lesson(p, g.missing_required, g.missing_preferred)
  <1> DEFINE a(p) == InPhase(p, g.missing_required, RequiredPhase(Len(g.missing_required)))
             b(p) == InPhase(p, g.missing_preferred, PreferredPhase(Len(g.missing_preferred)))
  <1>1. generate_roadmap(g) = [p \in Phase |-> a(p) \o b(p)]
    BY DEF generate_roadmap
  <1>2. ASSUME NEW p \in Phase
        PROVE  /\ a(p) \in Seq(Fresh) /\ b(p) \in Seq(Fresh)
               /\ Skills(a(p)) \cup Skills(b(p)) = Lesson(p, g.missing_required, g.missing_preferred)
    <2> DEFINE r == g.missing_required
               t == g.missing_preferred
    <2>1. /\ InPhase(p, r, RequiredPhase(Len(r))) \in Seq(Fresh)
          /\ Skills(InPhase(p, r, RequiredPhase(Len(r)))) =
                {r[i] : i \in {k \in 1..Len(r) : RequiredPhase(Len(r))[k] = p}}
      <3> HIDE DEF r
      <3> QED
        BY PhaseTeaches DEF r
    <2>2. /\ InPhase(p, t, PreferredPhase(Len(t))) \in Seq(Fresh)
          /\ Skills(InPhase(p, t, PreferredPhase(Len(t)))) =
                {t[i] : i \in {k \in 1..Len(t) : PreferredPhase(Len(t))[k] = p}}
      <3> HIDE DEF t
      <3> QED
        BY PhaseTeaches DEF t
    <2> QED
      BY <2>1, <2>2 DEF Lesson
  <1> HIDE DEF a, b
  <1>3. ASSUME NEW p \in Phase
        PROVE  a(p) \o b(p) \in Seq(Fresh) /\ Skills(a(p) \o b(p)) = Skills(a(p)) \cup Skills(b(p))
    <2>1. a(p) \o b(p) \in Seq(Fresh) /\ ToSet(a(p) \o b(p)) = ToSet(a(p)) \cup ToSet(b(p))
      BY <1>2, ConcatSet
    <2> QED
      BY <2>1 DEF Skills
  <1> QED
    BY <1>1, <1>2, <1>3

\* The phases of a roadmap teach the missing skills between them, and required
\* skills go to the first two phases, preferred ones to the last two.
LEMMA Lessons ==
    ASSUME NEW required \in Seq(Skill), NEW preferred \in Seq(Skill),
           ToSet(required) \cap ToSet(preferred) = {}
    PROVE  /\ UNION {Lesson(p, required, preferred) : p \in Phase} = ToSet(required) \cup ToSet(preferred)
           /\ \A p, q \in Phase : \A s \in Lesson(p, required, preferred) \cap ToSet(required),
                                     t \in Lesson(q, required, preferred) \ ToSet(required) : p <= q
  <1> DEFINE m == Len(required)
             n == Len(preferred)
             R(p) == {required[i] : i \in {k \in 1..m : RequiredPhase(m)[k] = p}}
             P(p) == {preferred[i] : i \in {k \in 1..n : PreferredPhase(n)[k] = p}}
  <1>1. m \in Nat /\ DOMAIN required = 1..m /\ n \in Nat /\ DOMAIN preferred = 1..n
    OBVIOUS
  <1>2. \A p : Lesson(p, required, preferred) = R(p) \cup P(p)
    BY DEF Lesson
  <1>3. ToSet(required) = {required[i] : i \in 1..m} /\ ToSet(preferred) = {preferred[i] : i \in 1..n}
    BY <1>1 DEF ToSet
  <1> HIDE DEF m, n
  <1>4. \A k \in 1..m : RequiredPhase(m)[k] \in {1, 2}
    BY <1>1 DEF RequiredPhase
  <1>5. \A k \in 1..n : PreferredPhase(n)[k] \in {2, 3}
    BY <1>1 DEF PreferredPhase
  <1>6. Phase = {1, 2, 3}
    BY DEF Phase
  <1>7. UNION {R(p) : p \in Phase} = ToSet(required)
    BY <1>3, <1>4, <1>6
  <1>8. UNION {P(p) : p \in Phase} = ToSet(preferred)
    BY <1>3, <1>5, <1>6
  <1>9. \A p \in Phase : R(p) \subseteq ToSet(required) /\ P(p) \subseteq ToSet(preferred)
    BY <1>3
  <1>10. \A p \in Phase : R(p) # {} => p <= 2
    BY <1>4, <1>6
  <1>11. \A p \in Phase : P(p) # {} => p >= 2
    BY <1>5, <1>6
  <1> HIDE DEF R, P
  <1>12. ASSUME NEW p \in Phase, NEW q \in Phase,
                NEW s \in Lesson(p, required, preferred) \cap ToSet(required),
                NEW t \in Lesson(q, required, preferred) \ ToSet(required)
         PROVE  p <= q
    <2>1. s \in R(p) /\ t \in P(q)
      BY <1>2, <1>9, <1>12
    <2>2. p <= 2 /\ q >= 2
      BY <1>10, <1>11, <2>1
    <2> QED
      BY <1>6, <2>2
  <1> QED
    BY <1>2, <1>7, <1>8, <1>12

\* Nothing is learned from a roadmap that was just generated.
LEMMA NothingLearned ==
    ASSUME NEW rm \in [Phase -> Seq(Fresh)]
    PROVE  Learned(rm) = {}
  <1>1. ASSUME NEW p \in Phase, NEW x \in ToSet(rm[p]) PROVE ~x.completed
    <2>1. x \in Fresh
      BY <1>1 DEF ToSet
    <2> QED
      BY <2>1 DEF Fresh
  <1> QED
    BY <1>1 DEF Learned, Items

\* Marking resources done changes neither the lists nor what they teach.
LEMMA MarkedTeaches ==
    ASSUME NEW rm \in [Phase -> Seq(Item)], NEW name
    PROVE  /\ mark_completed(rm, name) \in [Phase -> Seq(Item)]
           /\ \A p \in Phase : Skills(mark_completed(rm, name)[p]) = Skills(rm[p])
  <1> DEFINE marked(p) == [i \in DOMAIN rm[p] |->
                              [rm[p][i] EXCEPT !.completed = @ \/ rm[p][i].name = name]]
  <1>1. mark_completed(rm, name) = [p \in Phase |-> marked(p)]
    BY DEF mark_completed
  <1>2. ASSUME NEW p \in Phase PROVE marked(p) \in Seq(Item) /\ Skills(marked(p)) = Skills(rm[p])
    <2> DEFINE list == rm[p]
               n == Len(list)
    <2>1. list \in Seq(Item)
      OBVIOUS
    <2> HIDE DEF list
    <2>2. n \in Nat /\ DOMAIN list = 1..n /\ \A i \in 1..n : list[i] \in Item
      BY <2>1
    <2> HIDE DEF n
    <2> DEFINE m == [i \in 1..n |-> [list[i] EXCEPT !.completed = @ \/ list[i].name = name]]
    <2>3. marked(p) = m
      BY <2>2 DEF list
    <2>4. ASSUME NEW i \in 1..n PROVE m[i] \in Item /\ m[i].skill = list[i].skill
      <3>1. list[i] \in Item
        BY <2>2
      <3>2. (list[i].completed \/ list[i].name = name) \in BOOLEAN
        OBVIOUS
      <3> QED
        BY <3>1, <3>2 DEF Item
    <2>5. m \in Seq(Item)
      <3>1. m = [i \in 1..n |-> m[i]]
        OBVIOUS
      <3> HIDE DEF m
      <3> QED
        BY <2>2, <2>4, <3>1
    <2>6. ToSet(m) = {m[i] : i \in 1..n} /\ ToSet(list) = {list[i] : i \in 1..n}
      BY <2>2 DEF ToSet
    <2>7. Skills(m) = Skills(list)
      <3> HIDE DEF m
      <3> QED
        BY <2>4, <2>6 DEF Skills
    <2> QED
      BY <2>3, <2>5, <2>7 DEF list
  <1> HIDE DEF marked
  <1> QED
    BY <1>1, <1>2

-----------------------------------------------------------------------------
(***************************************************************************)
(* The page                                                                *)
(***************************************************************************)

Gap == [matched_required : Seq(Skill), missing_required : Seq(Skill),
        matched_preferred : Seq(Skill), missing_preferred : Seq(Skill), match : Nat]

Typed ==
    /\ gap # None => gap \in Gap /\ job \in Job
    /\ roadmap # None => roadmap \in [Phase -> Seq(Item)]

ListsApart ==
    gap # None => ToSet(gap.missing_required) \cap ToSet(gap.missing_preferred) = {}

\* A roadmap that waits to be generated again is not on the page.
StaleIsHidden == stale => ~(gap # None /\ Lacks(gap))

LessonsKept ==
    RoadmapShown /\ ~reanalysed =>
        \A p \in Phase : Skills(roadmap[p]) = Lesson(p, gap.missing_required, gap.missing_preferred)

PageInv == Typed /\ ListsApart /\ StaleIsHidden /\ LessonsKept /\ MatchesAgree

LEMMA PercentNat ==
    ASSUME NEW m \in Nat, NEW n \in Nat
    PROVE  Percent(m, n) \in Nat
  <1>1. CASE n = 0
    BY <1>1 DEF Percent
  <1>2. CASE n # 0
    <2> DEFINE q == (100 * m) \div n
    <2>1. 100 * m \in Nat
      OBVIOUS
    <2>2. q \in Nat
      <3> DEFINE h == 100 * m
      <3>1. h \in Nat
        OBVIOUS
      <3> HIDE DEF h
      <3>2. h \div n \in Nat
        BY <1>2, <3>1
      <3> QED
        BY <3>2 DEF h
    <2> HIDE DEF q
    <2>3. Percent(m, n) \in {q, q + 1}
      BY <1>2 DEF Percent, q
    <2> QED
      BY <2>2, <2>3
  <1> QED
    BY <1>1, <1>2

\* What an analysis finds missing: the required skills the profile lacks, and
\* the preferred ones.
LEMMA Analysed ==
    ASSUME NEW S, NEW j \in Job
    PROVE  /\ analyze_gap(S, j) \in Gap
           /\ ToSet(analyze_gap(S, j).missing_required) \cap ToSet(analyze_gap(S, j).missing_preferred) = {}
  <1>1. /\ j.required \in Seq(Skill) /\ j.preferred \in Seq(Skill)
        /\ ToSet(j.required) \cap ToSet(j.preferred) = {}
    BY OfflineAssumption
  <1>2. /\ Within(j.required, S) \in Seq(Skill) /\ Within(j.preferred, S) \in Seq(Skill)
        /\ Outside(j.required, S) \in Seq(Skill) /\ Outside(j.preferred, S) \in Seq(Skill)
    BY <1>1, WithinSet, OutsideSet
  <1>3. /\ ToSet(Outside(j.required, S)) = ToSet(j.required) \ S
        /\ ToSet(Outside(j.preferred, S)) = ToSet(j.preferred) \ S
    BY <1>1, OutsideSet
  <1>4. Percent(Len(Within(j.required, S)), Len(j.required)) \in Nat
    <2>1. Len(Within(j.required, S)) \in Nat /\ Len(j.required) \in Nat
      BY <1>1, <1>2
    <2> QED
      BY <2>1, PercentNat
  <1>5. analyze_gap(S, j) \in Gap
    BY <1>2, <1>4 DEF analyze_gap, Gap
  <1>6. /\ analyze_gap(S, j).missing_required = Outside(j.required, S)
        /\ analyze_gap(S, j).missing_preferred = Outside(j.preferred, S)
    BY DEF analyze_gap
  <1> QED
    BY <1>1, <1>3, <1>5, <1>6

LEMMA Matched ==
    ASSUME NEW S, NEW j, NEW rm, Learned(rm) = {}
    PROVE  analyze_gap(S, j).match = recalculate_match(S, j, rm)
  <1>1. S \cup Learned(rm) = S
    OBVIOUS
  <1> QED
    BY <1>1 DEF analyze_gap, recalculate_match

\* A roadmap generated for an analysis teaches its lessons, and completes none.
LEMMA GeneratedFor ==
    ASSUME NEW g \in Gap
    PROVE  /\ generate_roadmap(g) \in [Phase -> Seq(Item)]
           /\ Learned(generate_roadmap(g)) = {}
           /\ \A p \in Phase : Skills(generate_roadmap(g)[p]) =
                 Lesson(p, g.missing_required, g.missing_preferred)
  <1>1. g.missing_required \in Seq(Skill) /\ g.missing_preferred \in Seq(Skill)
    BY DEF Gap
  <1>2. /\ generate_roadmap(g) \in [Phase -> Seq(Fresh)]
        /\ \A p \in Phase : Skills(generate_roadmap(g)[p]) =
              Lesson(p, g.missing_required, g.missing_preferred)
    BY <1>1, Generated
  <1>3. [Phase -> Seq(Fresh)] \subseteq [Phase -> Seq(Item)]
    <2>1. Fresh \subseteq Item
      BY DEF Fresh, Item
    <2>2. Seq(Fresh) \subseteq Seq(Item)
      BY <2>1
    <2> QED
      BY <2>2
  <1>4. Learned(generate_roadmap(g)) = {}
    BY <1>2, NothingLearned
  <1> QED
    BY <1>2, <1>3, <1>4

\* Every job the select box offers is one of the catalog.
LEMMA OfferedJobs == Offered \subseteq Job
  BY DEF Offered, search_jobs

\* A run of the script that analyses, and generates the roadmap when there is
\* none or when it is outdated, leaves the page consistent.
LEMMA AnalysisStep ==
    ASSUME PageInv, NEW S, NEW j \in Job, NEW outdated \in BOOLEAN,
           profile' = S, gap' = analyze_gap(S, j), job' = j,
           Render(gap', outdated),
           reanalysed' = (roadmap # None /\ ~outdated)
    PROVE  PageInv'
  <1>1. gap' \in Gap /\ ToSet(gap'.missing_required) \cap ToSet(gap'.missing_preferred) = {}
    BY Analysed
  <1>2. CASE gap' # None /\ Lacks(gap') /\ (roadmap = None \/ outdated)
    <2>1. roadmap' = generate_roadmap(gap') /\ stale' = FALSE
      BY <1>2 DEF Render
    <2>2. /\ roadmap' \in [Phase -> Seq(Item)]
          /\ Learned(roadmap') = {}
          /\ \A p \in Phase : Skills(roadmap'[p]) =
                Lesson(p, gap'.missing_required, gap'.missing_preferred)
      BY <1>1, <2>1, GeneratedFor
    <2>3. gap'.match = recalculate_match(profile', job', roadmap')
      BY <2>2, Matched
    <2>4. Typed' /\ ListsApart'
      BY <1>1, <2>2 DEF Typed, ListsApart
    <2>5. StaleIsHidden'
      BY <2>1 DEF StaleIsHidden
    <2>6. LessonsKept'
      BY <2>2 DEF LessonsKept
    <2>7. MatchesAgree'
      BY <2>3 DEF MatchesAgree
    <2> QED
      BY <2>4, <2>5, <2>6, <2>7 DEF PageInv
  <1>3. CASE ~(gap' # None /\ Lacks(gap') /\ (roadmap = None \/ outdated))
    <2>1. stale' = outdated /\ roadmap' = roadmap
      BY <1>3 DEF Render
    <2>2. RoadmapShown' => reanalysed' /\ ~outdated
      BY <1>3, <2>1 DEF RoadmapShown
    <2>3. Typed' /\ ListsApart'
      BY <1>1, <2>1 DEF Typed, ListsApart, PageInv
    <2>4. StaleIsHidden'
      BY <1>3, <2>1 DEF StaleIsHidden
    <2>5. LessonsKept' /\ MatchesAgree'
      BY <2>2 DEF LessonsKept, MatchesAgree
    <2> QED
      BY <2>3, <2>4, <2>5 DEF PageInv
  <1> QED
    BY <1>2, <1>3

LEMMA PageInit == Init => PageInv
  BY DEF Init, PageInv, Typed, ListsApart, StaleIsHidden, LessonsKept, MatchesAgree, RoadmapShown

LEMMA FlagsInit == Init => stale \in BOOLEAN
  BY DEF Init

LEMMA FlagsStep == stale \in BOOLEAN /\ [Next]_vars => (stale \in BOOLEAN)'
  BY DEF Next, vars, CreateProfile, RunGapAnalysis, MarkDone, UpdateProfile, Render

LEMMA PageStep == stale \in BOOLEAN /\ PageInv /\ [Next]_vars => PageInv'
  <1> SUFFICES ASSUME stale \in BOOLEAN, PageInv, [Next]_vars PROVE PageInv'
    OBVIOUS
  <1>1. ASSUME NEW S, CreateProfile(S) PROVE PageInv'
    <2>1. gap' = gap /\ job' = job /\ reanalysed' = reanalysed /\ recreated' = (gap # None) /\ Render(gap, stale)
      BY <1>1 DEF CreateProfile
    <2>2. CASE gap # None /\ Lacks(gap) /\ (roadmap = None \/ stale)
      <3>1. roadmap' = generate_roadmap(gap) /\ stale' = FALSE /\ gap \in Gap
        BY <2>1, <2>2 DEF Render, PageInv, Typed
      <3>2. /\ roadmap' \in [Phase -> Seq(Item)]
            /\ \A p \in Phase : Skills(roadmap'[p]) =
                  Lesson(p, gap.missing_required, gap.missing_preferred)
        BY <3>1, GeneratedFor
      <3>3. Typed' /\ ListsApart'
        BY <2>1, <3>2 DEF PageInv, Typed, ListsApart
      <3>4. LessonsKept'
        BY <2>1, <3>2 DEF LessonsKept
      <3>5. StaleIsHidden'
        BY <3>1 DEF StaleIsHidden
      <3>6. MatchesAgree'
        BY <2>1, <2>2 DEF MatchesAgree
      <3> QED
        BY <3>3, <3>4, <3>5, <3>6 DEF PageInv
    <2>3. CASE ~(gap # None /\ Lacks(gap) /\ (roadmap = None \/ stale))
      <3>1. roadmap' = roadmap /\ stale' = stale
        BY <2>1, <2>3 DEF Render
      <3>2. Typed' /\ ListsApart' /\ StaleIsHidden'
        BY <2>1, <3>1 DEF PageInv, Typed, ListsApart, StaleIsHidden
      <3>3. LessonsKept'
        BY <2>1, <3>1 DEF PageInv, LessonsKept, RoadmapShown
      <3>4. MatchesAgree'
        BY <2>1 DEF MatchesAgree, RoadmapShown
      <3> QED
        BY <3>2, <3>3, <3>4 DEF PageInv
    <2> QED
      BY <2>2, <2>3
  <1>2. ASSUME NEW j \in Offered, RunGapAnalysis(j) PROVE PageInv'
    <2>1. j \in Job
      BY OfferedJobs
    <2>2. /\ profile' = profile /\ gap' = analyze_gap(profile, j) /\ job' = j
          /\ Render(gap', stale) /\ reanalysed' = (roadmap # None /\ ~stale)
      BY <1>2 DEF RunGapAnalysis
    <2> QED
      BY <2>1, <2>2, AnalysisStep
  <1>3. ASSUME RoadmapShown, NEW r \in Items(roadmap), MarkDone(r) PROVE PageInv'
    <2>1. /\ roadmap' = mark_completed(roadmap, r.name)
          /\ gap' = [gap EXCEPT !.match = recalculate_match(profile, job, roadmap')]
          /\ profile' = profile /\ job' = job /\ stale' = stale
          /\ recreated' = recreated /\ reanalysed' = reanalysed
      BY <1>3 DEF MarkDone
    <2>2. gap # None /\ gap \in Gap /\ job \in Job /\ roadmap # None /\ roadmap \in [Phase -> Seq(Item)]
      BY <1>3 DEF RoadmapShown, PageInv, Typed
    <2>3. /\ roadmap' \in [Phase -> Seq(Item)]
          /\ \A p \in Phase : Skills(roadmap'[p]) = Skills(roadmap[p])
      BY <2>1, <2>2, MarkedTeaches
    <2>4. /\ gap'.match = recalculate_match(profile', job', roadmap')
          /\ gap'.missing_required = gap.missing_required
          /\ gap'.missing_preferred = gap.missing_preferred
      BY <2>1, <2>2 DEF Gap
    <2>5. gap' \in Gap
      <3>1. job.required \in Seq(Skill)
        BY <2>2, OfflineAssumption
      <3>2. recalculate_match(profile, job, roadmap') \in Nat
        <4> DEFINE S == profile \cup Learned(roadmap')
        <4>1. Within(job.required, S) \in Seq(Skill)
          BY <3>1, WithinSet
        <4>2. Len(Within(job.required, S)) \in Nat /\ Len(job.required) \in Nat
          BY <3>1, <4>1
        <4> QED
          BY <4>2, PercentNat DEF recalculate_match
      <3> QED
        BY <2>1, <2>2, <3>2 DEF Gap
    <2>6. Lacks(gap') <=> Lacks(gap)
      BY <2>4 DEF Lacks
    <2>7. Typed' /\ ListsApart'
      BY <2>1, <2>2, <2>3, <2>4, <2>5 DEF PageInv, Typed, ListsApart
    <2>8. StaleIsHidden'
      BY <1>3, <2>1 DEF PageInv, StaleIsHidden, RoadmapShown
    <2>9. LessonsKept'
      <3>1. reanalysed' => reanalysed
        BY <2>1
      <3>2. ~reanalysed => \A p \in Phase : Skills(roadmap[p]) =
                Lesson(p, gap.missing_required, gap.missing_preferred)
        BY <1>3 DEF PageInv, LessonsKept
      <3> QED
        BY <2>1, <2>3, <2>4, <3>2 DEF LessonsKept
    <2>10. MatchesAgree'
      BY <2>4 DEF MatchesAgree
    <2> QED
      BY <2>7, <2>8, <2>9, <2>10 DEF PageInv
  <1>4. ASSUME NEW added, NEW removed, UpdateProfile(added, removed) PROVE PageInv'
    <2>1. /\ gap # None
          /\ profile' = update_profile(profile, added, removed)
          /\ gap' = analyze_gap(profile', job) /\ job' = job
          /\ Render(gap', TRUE) /\ reanalysed' = FALSE
      BY <1>4 DEF UpdateProfile
    <2>2. job \in Job
      BY <2>1 DEF PageInv, Typed
    <2> QED
      BY <2>1, <2>2, AnalysisStep
  <1>5. ASSUME UNCHANGED vars PROVE PageInv'
    BY <1>5 DEF vars, PageInv, Typed, ListsApart, StaleIsHidden, LessonsKept, MatchesAgree, RoadmapShown
  <1> QED
    BY <1>1, <1>2, <1>3, <1>4, <1>5 DEF Next

LEMMA PageAlways == Spec => []PageInv
  <1> DEFINE I == stale \in BOOLEAN /\ PageInv
  <1>1. Init => I
    BY PageInit, FlagsInit
  <1>2. I /\ [Next]_vars => I'
    BY PageStep, FlagsStep
  <1>3. I => PageInv
    OBVIOUS
  <1> HIDE DEF I
  <1> QED
    BY <1>1, <1>2, <1>3, PTL DEF Spec

\* generate_roadmap, for any profile and any job of the catalog: the three
\* phases teach the skills the analysis found missing and no other, and no
\* required skill waits for a later phase than a preferred one.
THEOREM RoadmapTeachesTheMissing ==
    ASSUME NEW S, NEW j \in Job
    PROVE  LET g  == analyze_gap(S, j)
               rm == generate_roadmap(g)
           IN  /\ UNION {Skills(rm[p]) : p \in Phase} =
                     (ToSet(j.required) \cup ToSet(j.preferred)) \ S
               /\ \A p, q \in Phase : \A s \in Skills(rm[p]) \cap ToSet(j.required),
                                         t \in Skills(rm[q]) \ ToSet(j.required) : p <= q
  <1> DEFINE g == analyze_gap(S, j)
             rm == generate_roadmap(g)
             r == g.missing_required
             t == g.missing_preferred
  <1>1. g \in Gap /\ ToSet(r) \cap ToSet(t) = {}
    BY Analysed
  <1>2. r = Outside(j.required, S) /\ t = Outside(j.preferred, S)
    BY DEF analyze_gap
  <1>3. ToSet(r) = ToSet(j.required) \ S /\ ToSet(t) = ToSet(j.preferred) \ S
    <2>1. j.required \in Seq(Skill) /\ j.preferred \in Seq(Skill)
      BY OfflineAssumption
    <2> QED
      BY <1>2, <2>1, OutsideSet
  <1> HIDE DEF g
  <1>4. \A p \in Phase : Skills(rm[p]) = Lesson(p, r, t)
    BY <1>1, GeneratedFor
  <1>5. r \in Seq(Skill) /\ t \in Seq(Skill)
    BY <1>1 DEF Gap
  <1> HIDE DEF rm, r, t
  <1>6. /\ UNION {Lesson(p, r, t) : p \in Phase} = ToSet(r) \cup ToSet(t)
        /\ \A p, q \in Phase : \A s \in Lesson(p, r, t) \cap ToSet(r),
                                  u \in Lesson(q, r, t) \ ToSet(r) : p <= q
    BY <1>1, <1>5, Lessons
  <1>7. UNION {Skills(rm[p]) : p \in Phase} = ToSet(r) \cup ToSet(t)
    BY <1>4, <1>6
  <1>8. \A p \in Phase : Skills(rm[p]) \cap S = {}
    BY <1>3, <1>7
  <1>9. ASSUME NEW p \in Phase, NEW q \in Phase, NEW s \in Skills(rm[p]) \cap ToSet(j.required),
               NEW u \in Skills(rm[q]) \ ToSet(j.required)
        PROVE  p <= q
    <2>1. s \in Lesson(p, r, t) \cap ToSet(r) /\ u \in Lesson(q, r, t) \ ToSet(r)
      BY <1>3, <1>4, <1>8, <1>9
    <2> QED
      BY <1>6, <2>1
  <1>10. UNION {Skills(rm[p]) : p \in Phase} = (ToSet(j.required) \cup ToSet(j.preferred)) \ S
    BY <1>3, <1>7
  <1> QED
    BY <1>9, <1>10 DEF g, rm

\* app.py offline: the roadmap on the page teaches what the analysis above it
\* found missing, in the order of the phases, until a second analysis keeps it.
THEOREM RoadmapsTeach == Spec => []RoadmapTeachesGap
  <1>1. PageInv => RoadmapTeachesGap
    <2> SUFFICES ASSUME PageInv, RoadmapShown, ~reanalysed
                 PROVE  LET required  == ToSet(gap.missing_required)
                            preferred == ToSet(gap.missing_preferred)
                        IN  /\ UNION {Taught(p) : p \in Phase} = required \cup preferred
                            /\ \A p, q \in Phase :
                                  \A s \in Taught(p) \cap required, t \in Taught(q) \ required : p <= q
      BY DEF RoadmapTeachesGap
    <2> DEFINE r == gap.missing_required
               t == gap.missing_preferred
    <2>1. r \in Seq(Skill) /\ t \in Seq(Skill) /\ ToSet(r) \cap ToSet(t) = {}
      BY DEF PageInv, Typed, ListsApart, RoadmapShown, Gap
    <2>2. \A p \in Phase : Taught(p) = Lesson(p, r, t)
      BY DEF PageInv, LessonsKept, Skills, Taught
    <2> HIDE DEF r, t
    <2>3. /\ UNION {Lesson(p, r, t) : p \in Phase} = ToSet(r) \cup ToSet(t)
          /\ \A p, q \in Phase : \A s \in Lesson(p, r, t) \cap ToSet(r),
                                    u \in Lesson(q, r, t) \ ToSet(r) : p <= q
      BY <2>1, Lessons
    <2>4. UNION {Taught(p) : p \in Phase} = ToSet(r) \cup ToSet(t)
      BY <2>2, <2>3
    <2>5. \A p, q \in Phase : \A s \in Taught(p) \cap ToSet(r), u \in Taught(q) \ ToSet(r) : p <= q
      BY <2>2, <2>3
    <2> QED
      BY <2>4, <2>5 DEF r, t
  <1> QED
    BY <1>1, PageAlways, PTL

\* app.py offline: the match stored with the analysis and the one recomputed
\* from the profile and the completed resources are the same number, unless
\* the profile form or a second analysis replaced one side of the comparison.
THEOREM MatchNumbersAgree == Spec => []MatchesAgree
  <1>1. PageInv => MatchesAgree
    BY DEF PageInv
  <1> QED
    BY <1>1, PageAlways, PTL
=============================================================================
