---------------------------- MODULE MCResearchLive ----------------------------
(* A live task beside the demo task's machinery: evidence that arrives item  *)
(* by item or in one finalization, from producers and from reviewers that    *)
(* are independent or not, bind the right digests or not, pass or fail.      *)
EXTENDS ResearchLifecycle

CONSTANTS live, runner, judge

MCLiveTasks == {live}
MCNone == {}
MCAgents == {runner, judge}
MCDigests == {"dD", "dC", "dX", "dX2", "dO", "dM", "dF", "dR1", "dR2", "dR3", "dR4"}

Artifact(kind, digest) ==
    [kind |-> kind, producer |-> runner, digest |-> digest, intact |-> TRUE,
     verdicts |-> {}, review |-> NoReview]

Metric(digest, verdicts) ==
    [Artifact("metric", digest) EXCEPT !.verdicts = verdicts]

Review(digest, by, binds, verdict) ==
    [Artifact("review", digest) EXCEPT
        !.producer = by,
        !.review = [by |-> by, of |-> {runner}, binds |-> binds, verdict |-> verdict]]

\* The log and the trace are one payload, so they share a digest.
BaseItems == {Artifact("dataset_manifest", "dD"), Artifact("config", "dC"),
              Artifact("log", "dO"), Artifact("trace", "dO")}
Code == Artifact("code", "dX")
OtherCode == Artifact("code", "dX2")
BadCode == [Artifact("code", "dX") EXCEPT !.intact = FALSE]
Good == Metric("dM", {"PASS"})
Bad == Metric("dF", {"PASS", "FAIL"})
BaseDigests == {"dD", "dC", "dX", "dO"}
GoodReview == Review("dR1", judge, BaseDigests \cup {"dM"}, "PASS")
BadReview == Review("dR2", judge, BaseDigests \cup {"dF"}, "PASS")
SelfReview == Review("dR3", runner, BaseDigests \cup {"dM"}, "PASS")
Rejection == Review("dR4", judge, BaseDigests \cup {"dM"}, "FAIL")

MCItems == BaseItems \cup {Code, OtherCode, BadCode, Good, Bad, GoodReview, BadReview,
                           SelfReview, Rejection}

MCBundles == {BaseItems \cup {Code, Good, GoodReview},
              BaseItems \cup {Code, Bad, BadReview},
              BaseItems \cup {Code, Good, SelfReview},
              BaseItems \cup {OtherCode, Good, GoodReview},
              {Good, GoodReview}}
=============================================================================
