---------------------------- MODULE MCReviewSession ----------------------------
EXTENDS ReviewSession

MCItems     == {1, 2}
MCGrades    == {"again", "good"}
MCDelays == [again |-> {1}, good |-> {2}]
=============================================================================
