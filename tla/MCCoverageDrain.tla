-------------------------- MODULE MCCoverageDrain --------------------------
(* Small instances of CoverageDrain for TLC. *)
EXTENDS CoverageDrain, TLC

First(rev, dec) == [Untouched EXCEPT !.review = rev, !.decision = dec]

\* Two reviewers of the scope and one outside of it share the high-risk pack;
\* any result of the first run.
SharedMatches == 1 :> {"hot", "cold"} @@ 2 :> {"hot"} @@ 3 :> {"hot"}
BothReviewers == <<2, 1>>
FirstResults  == {First("none", "none"), First("failed", "none"), First("shallow", "none"),
                  First("shallow", "unresolved"), First("deep", "decided")}
=============================================================================
