------------------------------- MODULE JobPosting -------------------------------
(***************************************************************************)
(* How a job posting is drafted.  The recruiter's form is completed by     *)
(* hand or by the AI assistant (generateJob), whose loose answers are      *)
(* coerced to be validated but merged as they are (schemas.js,             *)
(* jobLogic.js); the form previews how many seekers it reaches             *)
(* (candidatePoolPreview), in four counts between which resumes are        *)
(* uploaded.  Grades are in hundredths, out of 1000.                       *)
(***************************************************************************)
EXTENDS Requests, Integers, FiniteSetsExt

CONSTANTS
    Seekers,
    SeekerResumes, \* [grade, tier, years, degree, skills]: what a resume says
    RawAnswers,   \* an AI provider's answers: functions on some of the fields
    Messages,     \* [text, skills, minCgpa, minYears]: what the recruiter asks for
    Drafts,       \* what the form can be filled with
    MaxEdits      \* bound on the edits by hand

VARIABLES
    draft,        \* the form
    seeker,       \* per seeker: what the User record says
    assisted,     \* history: the last answer of the assistant
    preview,      \* the last preview, and history: the pool it began with
    handEdits     \* the number of edits by hand

postingData == <<draft, seeker, assisted, preview, handEdits>>
postingVars == <<postingData, request, count>>
-----------------------------------------------------------------------------
Criteria == {"minCgpa", "tier", "minYears", "degree"}
Fields == Criteria \cup {"title", "description", "skills", "place", "salary"}
Tiers == {"tier1", "tier2", "tier3", "any"}

\* A form has every field; an answer may leave some out, and say any number.
\* A tier is one as normalizeCollegeTier spells it.
ASSUME PostingAssumption ==
    /\ MaxEdits \in Nat /\ IsFiniteSet(Seekers)
    /\ \A d \in Drafts : /\ DOMAIN d = Fields /\ d.tier \in Tiers
                         /\ d.minCgpa \in 0 .. 1000 /\ d.minYears \in 0 .. 60
    /\ \A raw \in RawAnswers :
         /\ "minCgpa" \in DOMAIN raw => raw.minCgpa.n \in Int
         /\ "minYears" \in DOMAIN raw => raw.minYears \in Int
         /\ "tier" \in DOMAIN raw => raw.tier \in Tiers
    /\ \A message \in Messages : {message.minCgpa, message.minYears} \subseteq Int

Null == -1
Clamped(n, max) == IF n < 0 THEN 0 ELSE IF n > max THEN max ELSE n

\* Math.round(n / d) of numbers that are not negative
RoundedTo(n, d) == (2 * n + d) \div (2 * d)

\* A grade as somebody writes it: "8.5", "85%", "3.8/4", "8.5/10", or not one.
Grade(form, n) == [form |-> form, n |-> n]
Bare(n) == Grade("bare", n)

\* coerceCgpa guesses the scale of a bare number.
CoerceCgpa(v) ==
    CASE v.form = "percent" -> Clamped(RoundedTo(10 * v.n, 95), 1000)
      [] v.form = "of4" -> Clamped((5 * v.n) \div 2, 1000)
      [] v.form = "of10" -> Clamped(v.n, 1000)
      [] v.form = "bare" /\ v.n \in 0 .. 430 -> Clamped(RoundedTo(5 * v.n, 2), 1000)
      [] v.form = "bare" /\ v.n \in 431 .. 1000 -> v.n
      [] v.form = "bare" /\ v.n \in 1001 .. 10000
           -> Clamped(RoundedTo(10 * v.n, 95), 1000)
      [] OTHER -> Null

\* jobGenerationSchema gives every other field a default; a minimum CGPA that
\* is missing becomes null, which is no number.
SchemaAccepts(raw) ==
    /\ {"title", "description", "minCgpa"} \subseteq DOMAIN raw
    /\ raw.title # "" /\ raw.description # ""
    /\ CoerceCgpa(raw.minCgpa) # Null

\* Mutant: numbers are taken as they come.
NormalizeUnclamped(f, v) ==
    IF f = "minCgpa" THEN v.n ELSE v

\* normalizeJobPayload: what is not a plain number counts as 0.
Normalize(f, v) ==
    CASE f = "minCgpa" -> IF v.form = "bare" THEN Clamped(v.n, 1000) ELSE 0
      [] f = "minYears" -> Clamped(v, 60)
      [] OTHER -> v

\* mergeJobDraft.  generateJob merges the outcome into the draft once more; it
\* has every field, so that nothing changes.
MergeJobDraft(d, raw) ==
    [f \in Fields |-> IF f \in DOMAIN raw THEN Normalize(f, raw[f]) ELSE d[f]]

\* The answer of the local rules: the message is the description, and the
\* criteria are those that are found in it.
RulesAnswer(d, message) ==
    [title |-> IF d.title = "" THEN "opening" ELSE d.title,
     description |-> message.text, place |-> d.place,
     skills |-> d.skills \cup message.skills,
     minCgpa |-> Bare(IF message.minCgpa = Null THEN 0
                      ELSE CoerceCgpa(Bare(message.minCgpa))),
     tier |-> d.tier,
     minYears |-> IF message.minYears = Null THEN 0 ELSE message.minYears,
     degree |-> ""]

Asks(message) ==
    (IF message.minCgpa # Null THEN {"minCgpa"} ELSE {})
      \cup (IF message.minYears # Null THEN {"minYears"} ELSE {})

\* validateJobPayload has nothing against the criteria.
CriteriaAreValid(d) == d.minCgpa \in 0 .. 1000 /\ d.minYears \in 0 .. 60
-----------------------------------------------------------------------------
TierRank(tier) ==
    CASE tier = "tier1" -> 3 [] tier = "tier2" -> 2 [] tier = "tier3" -> 1
      [] OTHER -> 0

DegreesMatch(degree, required) ==
    \/ degree # "" /\ degree = required
    \/ required = "bachelor" /\ degree \in {"btech", "bsc"}
    \/ required = "master" /\ degree \in {"mtech", "msc", "mba"}

\* getAtsEligibility: a seeker of tier 2 is never rejected for the tier.
Eligible(d, p) ==
    /\ d.minCgpa > 0 => p.cgpa >= d.minCgpa
    /\ d.tier # "any" => p.tier = "tier2" \/ TierRank(p.tier) >= TierRank(d.tier)
    /\ d.minYears > 0 => p.years >= d.minYears
    /\ d.degree # "" => DegreesMatch(p.degree, d.degree)

HasSkillOf(d, p) == d.skills # {} => d.skills \cap p.skills # {}

\* Mutant: every known tier passes for the second.
TierIsCountedLoosely(tier, wanted) ==
    \/ wanted = "any" \/ tier = "tier1"
    \/ wanted \in {"tier2", "tier3"} /\ tier \in {"tier2", "tier3"}

\* The preview's own clauses of the same criteria.
TierIsCounted(tier, wanted) ==
    \/ wanted = "any" \/ tier = "tier1"
    \/ wanted \in {"tier2", "tier3"} /\ tier = "tier2"
    \/ wanted = "tier3" /\ tier = "tier3"

Matching(d, dropped) ==
    {k \in Seekers :
       /\ HasSkillOf(d, seeker[k])
       /\ "minCgpa" \in dropped \/ d.minCgpa = 0 \/ seeker[k].cgpa >= d.minCgpa
       /\ "tier" \in dropped \/ TierIsCounted(seeker[k].tier, d.tier)}

Unset == [minCgpa |-> 0, tier |-> "any"]

\* The criteria each of the four counts leaves out.
Dropped == <<{}, {"minCgpa"}, {"tier"}, {"minCgpa", "tier"}>>
-----------------------------------------------------------------------------
NewSeeker == [cgpa |-> 0, tier |-> "unknown", years |-> 0, degree |-> "",
              skills |-> {}]
NotAssisted == [by |-> None]
NoPreview == [matching |-> {}]

PostingInit ==
    /\ draft \in Drafts
    /\ seeker = [k \in Seekers |-> NewSeeker]
    /\ assisted = NotAssisted
    /\ preview = NoPreview
    /\ handEdits = 0
    /\ NoRequests

\* The form belongs to the client, which posts it with every request.
EditDraft(f, d) ==
    /\ handEdits < MaxEdits
    /\ draft' = [draft EXCEPT ![f] = d[f]]
    /\ draft' # draft
    /\ handEdits' = handEdits + 1
    /\ UNCHANGED <<seeker, assisted, preview, request, count>>

Assisted(by, raw, asked) ==
    /\ Answer
    /\ draft' = MergeJobDraft(draft, raw)
    /\ assisted' = [by |-> by, mentioned |-> DOMAIN raw, asked |-> asked,
                    before |-> draft, after |-> draft']
    /\ UNCHANGED <<seeker, preview, handEdits>>

\* generateJob: a provider's answer that satisfies the schema is merged, ...
AssistByModel(raw) ==
    /\ SchemaAccepts(raw)
    /\ Assisted("model", raw, DOMAIN raw)

\* ... when there is none the local rules answer, ...
AssistByRules(message) ==
    Assisted("rules", RulesAnswer(draft, message), Asks(message))

\* ... and without any answer the draft stays.
AssistByNobody == Answer /\ UNCHANGED postingData

\* The resume is read by an AI provider, or by the local rules, which coerce
\* the grade before the schema does, and find neither roles nor a tier.
\* normalizeCgpa stores no grade as 0.
Stored(grade) == IF grade = Null THEN 0 ELSE grade

ReadByModel(k, r) ==
    /\ seeker' = [seeker EXCEPT ![k] =
                    [cgpa |-> Stored(CoerceCgpa(r.grade)), tier |-> r.tier,
                     years |-> r.years, degree |-> r.degree,
                     skills |-> r.skills]]
    /\ Answer
    /\ UNCHANGED <<draft, assisted, preview, handEdits>>

ReadByRules(k, r) ==
    LET first == CoerceCgpa(r.grade)
        cgpa == IF first = Null THEN Null ELSE CoerceCgpa(Bare(first))
    IN  /\ seeker' = [seeker EXCEPT ![k] =
                        [NewSeeker EXCEPT !.cgpa = Stored(cgpa),
                                          !.degree = r.degree,
                                          !.skills = r.skills]]
        /\ Answer
        /\ UNCHANGED <<draft, assisted, preview, handEdits>>

BeginPreview(s) ==
    /\ Accept(s, [op |-> "preview", pc |-> "counting", draft |-> draft,
                  counts |-> <<>>, pool |-> seeker, still |-> TRUE])
    /\ UNCHANGED postingData

\* One countDocuments.  A criterion that is not set makes no difference.
CountSeekers(s) ==
    LET r == request[s]
        i == Len(r.counts) + 1
        set == {f \in Dropped[i] : r.draft[f] # Unset[f]}
    IN  /\ At(s, "preview", "counting") /\ i <= 4
        /\ Hold(s, [r EXCEPT
             !.counts = Append(@, IF i > 1 /\ set = {} THEN r.counts[1]
                                  ELSE Matching(r.draft, Dropped[i])),
             !.pool = IF i = 1 THEN seeker ELSE @,
             !.still = i = 1 \/ (@ /\ r.pool = seeker)])
        /\ UNCHANGED postingData

AnswerPreview(s) ==
    LET r == request[s]
        n == [i \in 1 .. 4 |-> Cardinality(r.counts[i])]
    IN  /\ At(s, "preview", "counting") /\ Len(r.counts) = 4
        /\ Respond(s)
        /\ preview' = [draft |-> r.draft, matching |-> r.counts[1],
                       pool |-> r.pool, still |-> r.still,
                       filteredByCgpa |-> IF n[2] > n[1] THEN n[2] - n[1] ELSE 0,
                       filteredByTier |-> IF n[3] > n[1] THEN n[3] - n[1] ELSE 0]
        /\ UNCHANGED <<draft, seeker, assisted, handEdits>>

\* The assistant and the preview meet in the draft, which the client posts.
AssistantNext ==
    \/ \E f \in Fields, d \in Drafts : EditDraft(f, d)
    \/ \E raw \in RawAnswers : AssistByModel(raw)
    \/ \E message \in Messages : AssistByRules(message)
    \/ AssistByNobody

PreviewNext ==
    \/ \E k \in Seekers, r \in SeekerResumes : ReadByModel(k, r) \/ ReadByRules(k, r)
    \/ \E s \in Slots : BeginPreview(s) \/ CountSeekers(s) \/ AnswerPreview(s)

PostingNext == AssistantNext \/ PreviewNext

PostingSpec == PostingInit /\ [][PostingNext]_postingVars
-----------------------------------------------------------------------------
\* What the assistant's answer does not mention stays as the recruiter left it,
\* however the answer is coerced and defaulted on its way, and whatever the
\* answer says, the criteria of the draft are ones that createJob accepts.
MergeIsSafe ==
    assisted # NotAssisted =>
      /\ \A f \in Fields \ assisted.mentioned :
           assisted.after[f] = assisted.before[f]
      /\ CriteriaAreValid(assisted.after)

\* The preview and applyToJob agree: whoever is counted could apply to a job
\* with these criteria, and whoever could and has one of the skills is counted,
\* except seekers of the second tier for a job of the first.  If no resume was
\* read between the counts, the breakdown says how many the grade alone and
\* the tier alone keep out.
PreviewCountsTheEligible ==
    preview # NoPreview =>
      LET d == [preview.draft EXCEPT !.minYears = 0, !.degree = ""]
          skilled == {k \in Seekers : HasSkillOf(d, preview.pool[k])}
          eligible == {k \in skilled : Eligible(d, preview.pool[k])}
          without(f) == {k \in skilled :
                           Eligible([d EXCEPT ![f] = Unset[f]], preview.pool[k])}
          second == {k \in Seekers : preview.pool[k].tier = "tier2"}
      IN  /\ preview.matching \subseteq eligible
          /\ eligible \ preview.matching \subseteq
               (IF d.tier = "tier1" THEN second ELSE {})
          /\ preview.still /\ d.tier # "tier1" =>
               /\ preview.filteredByCgpa = Cardinality(without("minCgpa") \ eligible)
               /\ preview.filteredByTier = Cardinality(without("tier") \ eligible)

\* The prompt of generateJobFromPrompt calls the draft the source of truth and
\* asks to "Preserve every existing value unless the recruiter asks to change
\* or remove it": so do the local rules, which answer when no provider does.
UnaskedCriteriaSurvive ==
    assisted # NotAssisted /\ assisted.by = "rules" =>
      \A f \in Criteria \ assisted.asked :
        assisted.after[f] = assisted.before[f]
=============================================================================
