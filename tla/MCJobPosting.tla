----------------------------- MODULE MCJobPosting -----------------------------
(***************************************************************************)
(* A small instance of JobPosting: forms with no criteria, with all of     *)
(* them and with single ones; answers of a model with grades on several    *)
(* scales and out of range; and seekers of every tier.                     *)
(***************************************************************************)
EXTENDS JobPosting

CONSTANTS s1, k1, k2

OneSlot == {s1}
TwoSeekers == {k1, k2}

BlankForm ==
    [title |-> "", description |-> "", skills |-> {}, place |-> {},
     salary |-> 0, minCgpa |-> 0, tier |-> "any", minYears |-> 0,
     degree |-> ""]

FourForms ==
    {BlankForm,
     [BlankForm EXCEPT !.title = "dev", !.description = "full",
                       !.skills = {"go"}, !.minCgpa = 800, !.tier = "tier2",
                       !.minYears = 3, !.degree = "bachelor"],
     [BlankForm EXCEPT !.title = "ops", !.skills = {"go", "sql"},
                       !.tier = "tier1", !.salary = 5],
     [BlankForm EXCEPT !.tier = "tier3", !.minCgpa = 375]}

FourAnswers ==
    {[title |-> "dev", description |-> "short", minCgpa |-> Grade("of10", 850)],
     [title |-> "lead", description |-> "full", minCgpa |-> Bare(9000),
      minYears |-> 99, salary |-> 9],
     [title |-> "lead", description |-> "full", degree |-> "btech"],
     [title |-> "ops", description |-> "full", minCgpa |-> Bare(0),
      tier |-> "tier3", place |-> {"company"}]}

TwoMessages ==
    {[text |-> "short", skills |-> {"sql"}, minCgpa |-> Null, minYears |-> Null],
     [text |-> "full", skills |-> {}, minCgpa |-> 700, minYears |-> 2]}

FourResumes ==
    {[grade |-> Grade("percent", 8500), tier |-> "tier1", years |-> 4,
      degree |-> "btech", skills |-> {"go"}],
     [grade |-> Grade("of4", 150), tier |-> "tier2", years |-> 0,
      degree |-> "", skills |-> {"go", "sql"}],
     [grade |-> Grade("text", 0), tier |-> "tier3", years |-> 1,
      degree |-> "msc", skills |-> {"sql"}],
     [grade |-> Bare(900), tier |-> "tier3", years |-> 1,
      degree |-> "msc", skills |-> {"go"}]}
=============================================================================
