----------------------------- MODULE MCSession -----------------------------
(* Instances of Session for TLC.  A difficulty of 1.0 is 2 units, so that  *)
(* small numbers reach both tolerances: 2 and 12 differ for either, while  *)
(* 4 and 6 (left out) are close to difficulties_close and a rise from the  *)
(* one to the other is too large for decide_share_submit.                  *)
EXTENDS Session

CONSTANTS i1, j1, j2

OneThread == {i1}
NoJobs == {}

(* The pool uses one job id of the first connection again. *)
SharedJobIds == <<{j1, j2}, {j2}>>
OneSessionJobIds == <<{j1, j2}>>

OneDifficulty == {12}
SpacedDifficulties == {2, 12}

(* What a theorem of SessionShareProofs assumes holds in these instances. *)
ASSUME MCSessionAssumption == TolerancesAgree

Subscribed == Response(1, "subscription", FALSE)
Authorized(ok) == Response(2, IF ok THEN "true" ELSE "false", FALSE)

SubscribeReply == {Subscribed}

HandshakeReplies == {Subscribed, Authorized(TRUE)}

AllReplies ==
    {Subscribed, Response(1, "null", TRUE), Authorized(TRUE), Authorized(FALSE)}
      \cup {Response(3, r, FALSE) : r \in {"true", "false"}}
      \cup {Response(4, "null", TRUE), Response(NoId, "null", TRUE)}
=============================================================================
