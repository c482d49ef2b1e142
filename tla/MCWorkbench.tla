----------------------------- MODULE MCWorkbench -----------------------------
EXTENDS Workbench, Snapshot, TLC

CONSTANTS carl, dora, text

\* A position for a senior and a position that asks for nothing.
senior == [skills |-> {"vue", "sql"}, level |-> "senior", industry |-> "bank", min |-> 30, max |-> 40]
open_to_all == [skills |-> {}, level |-> "null", industry |-> "null", min |-> NoAmount, max |-> NoAmount]

\* carl has been entered twice, by two headhunters; dora is a perfect fit.
CarlOld == [skills |-> {"vue"}, level |-> "mid", industry |-> "null", salary |-> NoAmount,
            education |-> "null", location |-> "null", remote_ok |-> FALSE]
CarlNew == [CarlOld EXCEPT !.level = "senior", !.salary = 50]
Dora == [skills |-> {"vue", "sql"}, level |-> "senior", industry |-> "bank", salary |-> 35,
         education |-> "tier1", location |-> "null", remote_ok |-> TRUE]

MCSpecs == {senior, open_to_all}
MCProfiles == {CarlOld, CarlNew, Dora}
MCProfilesOf == carl :> {CarlOld, CarlNew} @@ dora :> {Dora}
MCMentions == text :> {senior}
MCPlanContents == {{}, PositionIds}
Symmetry ==
  Permutations(PositionIds) \union Permutations(PlanIds) \union Permutations(ProjectIds)
  \union Permutations(PMs)

\* Bound: the ids drawn in one behaviour, however they fall on the tables, the
\* recommendations' included; a position, which brings its matches along,
\* weighs two.
Budget ==
  Cardinality(minted) + Cardinality(minted \intersect PositionIds)
    + Cardinality(DOMAIN recommendations) <= 6
=============================================================================
