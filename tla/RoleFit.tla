-------------------------------- MODULE RoleFit -----------------------------
(***************************************************************************)
(* The scores of a resume (modules/ats).  A seeker works on a profile      *)
(* (updateResumeProfile); scoreResumeHealth rates it for itself, and       *)
(* scoreRoleFit for a job.  Both are pure functions of the profile.        *)
(* Scores are in tenths of a point, which is what the categories are       *)
(* rounded to.  A text stands for what the matching finds in it: the terms *)
(* it mentions, and whether it contains a number.                          *)
(***************************************************************************)
EXTENDS Integers, FiniteSets, Sequences, Functions

CONSTANTS
    Terms,        \* skills of the taxonomy and other keywords
    Taxonomy,     \* those that are skills
    Texts,        \* bullets, descriptions and achievements
    Mentions,     \* the terms each text mentions
    Measured,     \* the texts with a number in them
    Roles,        \* [title, from, to, stated]: a job that was held
    Degrees,
    FitJobs,      \* the profiles of jobs
    Resumes,      \* the profiles that are improved
    MaxRevisions  \* bound on the improvements

Sections == {"contact", "summary", "skills", "experience", "education"}
ContactFields == {"email", "phone", "location", "links"}

Finite(S) == {A \in SUBSET S : IsFiniteSet(A)}
ResumeProfile ==
    [skills : Finite(Terms), roles : Finite(Roles), bullets : Finite(Texts),
     projects : Finite(Texts), achievements : Finite(Texts),
     degrees : Finite(Degrees),
     contact : SUBSET ContactFields, sections : SUBSET Sections]

\* A requirement without a weight gets one: req.weight || 3, pref.weight || 2.
RequirementsOK(requirements) ==
    /\ IsFiniteSet(requirements)
    /\ \A q \in requirements : q.weight \in Nat \ {0}

ASSUME RoleFitAssumption ==
    /\ Taxonomy \subseteq Terms
    /\ Mentions \in [Texts -> SUBSET Terms]
    /\ Measured \subseteq Texts
    /\ \A r \in Roles : {r.from, r.to, r.stated} \subseteq Nat /\ r.from <= r.to
    /\ Resumes \subseteq ResumeProfile
    /\ \A j \in FitJobs :
         /\ RequirementsOK(j.mustHave) /\ RequirementsOK(j.preferred)
         /\ IsFiniteSet(j.phrases) /\ j.minYears \in Nat

VARIABLES
    profile,      \* the seeker's ResumeProfile
    fitJob,       \* the job it is scored for
    rated,        \* what the scores make of it
    edits         \* the number of improvements

roleFitVars == <<profile, fitJob, rated, edits>>
-----------------------------------------------------------------------------
Least(a, b) == IF a <= b THEN a ELSE b
Most(a, b) == IF a >= b THEN a ELSE b

\* Math.round(n / d)
Rounded(n, d) == (2 * n + d) \div (2 * d)

\* The taxonomy's aliases are part of what a text mentions.
Evidenced(p, term) ==
    \/ term \in p.skills
    \/ \E x \in p.bullets \cup p.projects \cup p.achievements :
         term \in Mentions[x]

\* A bullet matches a phrase that it shares 40 % of the keywords with, or a
\* skill.
BulletMatches(x, phrase) ==
    LET shared == Mentions[x] \cap phrase
    IN  /\ phrase # {}
        /\ \/ 10 * Cardinality(shared) >= 4 * Cardinality(phrase)
           \/ shared \cap Taxonomy # {}

\* Mutant: a range that lies in the one before cuts that one short.
MergedShort(merged, range) ==
    LET last == Len(merged)
    IN  IF merged # <<>> /\ range[1] <= merged[last][2]
        THEN [merged EXCEPT ![last] = <<@[1], range[2]>>]
        ELSE Append(merged, range)

\* Ranges come in the order of their first years; those that meet are one.
Merged(merged, range) ==
    LET last == Len(merged)
    IN  IF merged # <<>> /\ range[1] <= merged[last][2]
        THEN [merged EXCEPT ![last] = <<@[1], Most(@[2], range[2])>>]
        ELSE Append(merged, range)

\* The range that begins last, and of those the one that ends last: in which
\* order ranges of one first year are merged makes no difference.
LastOf(ranges) ==
    CHOOSE a \in ranges : \A b \in ranges :
      b[1] < a[1] \/ (b[1] = a[1] /\ b[2] <= a[2])

\* dateRanges.sort, and the loop that merges them.
MergedRanges(dated) ==
    LET merged[ranges \in SUBSET dated] ==
          IF ranges = {} THEN <<>>
          ELSE Merged(merged[ranges \ {LastOf(ranges)}], LastOf(ranges))
    IN  merged[dated]

EstimateExperienceYears(roles) ==
    LET dated == {<<r.from, r.to>> : r \in {q \in roles : q.stated = 0}}
        kept == MergedRanges(dated)
    IN  SumFunction([i \in DOMAIN kept |-> kept[i][2] - kept[i][1]])
          + SumFunction([r \in roles |-> r.stated])
-----------------------------------------------------------------------------
Weight(requirements) == SumFunction([q \in requirements |-> q.weight])
Matched(p, requirements) == {q \in requirements : Evidenced(p, q.term)}

\* Without must-haves their 35 points go to two other categories.
Redistributed(j) == j.mustHave = {}
RequiredMax(j) == IF Redistributed(j) THEN 0 ELSE 350
PreferredMax(j) == IF Redistributed(j) THEN 300 ELSE 100

ResponsibilityMax(j) == IF Redistributed(j) THEN 300 ELSE 150

RequiredSkills(p, j) ==
    IF Redistributed(j) THEN 0
    ELSE Rounded(350 * Weight(Matched(p, j.mustHave)), Weight(j.mustHave))

PreferredSkills(p, j) ==
    IF j.preferred = {} THEN PreferredMax(j)
    ELSE Rounded(PreferredMax(j) * Weight(Matched(p, j.preferred)),
                 Weight(j.preferred))

RelevantExperience(p, j) ==
    LET years == EstimateExperienceYears(p.roles)
        met == IF j.minYears = 0 THEN 90
               ELSE Rounded(90 * Least(years, j.minYears), j.minYears)
        title == IF \E r \in p.roles : r.title = j.title THEN 60
                 ELSE IF p.roles # {} THEN 40 ELSE 0
    IN  Least(met + title, 150)

\* Project descriptions count as bullets.
BulletCount(p) == Cardinality(p.bullets) + Cardinality(p.projects)
Covered(p, phrase) ==
    \E x \in p.bullets \cup p.projects : BulletMatches(x, phrase)

Responsibilities(p, j) ==
    IF j.phrases = {} THEN Least(15 * BulletCount(p), ResponsibilityMax(j))
    ELSE Rounded(ResponsibilityMax(j)
                   * Cardinality({f \in j.phrases : Covered(p, f)}),
                 Cardinality(j.phrases))

MeasuredCount(p) ==
    Cardinality(p.bullets \cap Measured) + Cardinality(p.projects \cap Measured)

Impact(p) == Least(25 * MeasuredCount(p), 100)

Education(p, j) ==
    IF j.degrees = {} \/ p.degrees \cap j.degrees # {} THEN 50 ELSE 0

Readability(p) ==
    Most(100 - (IF {"experience", "skills"} \cap p.sections = {} THEN 40 ELSE 0)
             - (IF "email" \notin p.contact THEN 20 ELSE 0), 10)

Categories(p, j) ==
    <<[score |-> RequiredSkills(p, j), max |-> RequiredMax(j)],
      [score |-> PreferredSkills(p, j), max |-> PreferredMax(j)],
      [score |-> RelevantExperience(p, j), max |-> 150],
      [score |-> Responsibilities(p, j), max |-> ResponsibilityMax(j)],
      [score |-> Impact(p), max |-> 100],
      [score |-> Education(p, j), max |-> 50],
      [score |-> Readability(p), max |-> 100]>>

\* The overall score, in points.
ScoreRoleFit(p, j) ==
    LET category == Categories(p, j)
        total == SumFunction([i \in 1 .. 7 |-> category[i].score])
    IN  Least(Rounded(total, 10), 100)

\* What was asked for and not found: the critical gaps, and how many others.
CriticalGaps(p, j) ==
    {q.term : q \in j.mustHave \ Matched(p, j.mustHave)}
      \cup (IF Education(p, j) = 0 THEN {"edu-required"} ELSE {})

RecommendedGaps(p, j) ==
    Cardinality(j.preferred \ Matched(p, j.preferred))
      + Cardinality({f \in j.phrases : ~Covered(p, f)})

\* buildRoleFitSuggestions: advice for three critical gaps, for a lack of
\* numbers, and for two recommended gaps.
Suggestions(p, j) ==
    Least(Cardinality(CriticalGaps(p, j)), 3)
      + (IF Impact(p) < 70 THEN 1 ELSE 0)
      + Least(RecommendedGaps(p, j), 2)
-----------------------------------------------------------------------------
ContactHealth(p) ==
    SumFunction([c \in p.contact |->
      CASE c = "email" -> 80 [] c = "phone" -> 40
        [] c = "location" -> 30 [] c = "links" -> 50])

\* A role of the profile has a start date when its duration names one.
ExperienceHealth(p) ==
    IF p.roles = {} THEN 0
    ELSE 150 + (IF p.bullets # {} THEN 100 ELSE 0)
             + (IF \E r \in p.roles : r.from > 0 THEN 50 ELSE 0)

\* The projects of the model have a description and no bullets.
ScoreResumeHealth(p) ==
    Least(Rounded(ContactHealth(p) + ExperienceHealth(p)
                    + Least(60 * Cardinality(p.bullets \cap Measured), 250)
                    + Least(15 * Cardinality(p.skills), 150)
                    + Least(20 * Cardinality(p.sections), 100), 10), 100)
-----------------------------------------------------------------------------
Rated(p, j) ==
    [fit |-> ScoreRoleFit(p, j), health |-> ScoreResumeHealth(p),
     advice |-> Suggestions(p, j)]

RoleFitInit ==
    /\ profile \in Resumes
    /\ fitJob \in FitJobs
    /\ rated = Rated(profile, fitJob)
    /\ edits = 0

\* updateResumeProfile with one thing more in the profile.  The health is stored
\* with it; the fit is what calculateJobFit makes of it from then on, while the
\* analysis that an application has already is shown as it is.
Improve(p) ==
    /\ edits < MaxRevisions
    /\ p # profile
    /\ edits' = edits + 1
    /\ profile' = p
    /\ rated' = Rated(p, fitJob)
    /\ UNCHANGED fitJob

AddSkill(t) == Improve([profile EXCEPT !.skills = @ \cup {t}])
AddRole(r) == Improve([profile EXCEPT !.roles = @ \cup {r}])
AddBullet(x) ==
    profile.roles # {} /\ Improve([profile EXCEPT !.bullets = @ \cup {x}])
AddProject(x) == Improve([profile EXCEPT !.projects = @ \cup {x}])
AddAchievement(x) == Improve([profile EXCEPT !.achievements = @ \cup {x}])
AddDegree(d) == Improve([profile EXCEPT !.degrees = @ \cup {d}])
AddContact(c) == Improve([profile EXCEPT !.contact = @ \cup {c}])
AddSection(x) == Improve([profile EXCEPT !.sections = @ \cup {x}])

RoleFitNext ==
    \/ \E t \in Taxonomy : AddSkill(t)
    \/ \E r \in Roles : AddRole(r)
    \/ \E x \in Texts : AddBullet(x) \/ AddProject(x) \/ AddAchievement(x)
    \/ \E d \in Degrees : AddDegree(d)
    \/ \E c \in ContactFields : AddContact(c)
    \/ \E x \in Sections : AddSection(x)

RoleFitSpec == RoleFitInit /\ [][RoleFitNext]_roleFitVars
-----------------------------------------------------------------------------
\* Nothing that a seeker adds to a resume lowers its health or its fit for a
\* job: neither the ranges of years that are merged, nor the roundings, nor
\* the points that are moved between categories work against it.
ImprovementNeverHurts ==
    [][rated'.fit >= rated.fit /\ rated'.health >= rated.health]_roleFitVars
=============================================================================
