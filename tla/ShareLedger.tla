---------------------------- MODULE ShareLedger ----------------------------
(***************************************************************************)
(* What the accounting of shares promises, without handlers, ids, channels *)
(* or connections: a submitted share is outstanding until the pool answers *)
(* it, is then counted once, as accepted or as rejected, or is given up    *)
(* uncounted with its session.  Session implements it, with `outstanding'  *)
(* the size of pending_submit_ids.                                         *)
(***************************************************************************)
EXTENDS Integers

VARIABLES submitted, outstanding, accepted, rejected

vars == <<submitted, outstanding, accepted, rejected>>

Init ==
    /\ submitted = 0
    /\ outstanding = 0
    /\ accepted = 0
    /\ rejected = 0

Submit ==
    /\ submitted' = submitted + 1
    /\ outstanding' = outstanding + 1
    /\ UNCHANGED <<accepted, rejected>>

Answered ==
    /\ outstanding > 0
    /\ outstanding' = outstanding - 1
    /\ UNCHANGED submitted

Accept == Answered /\ accepted' = accepted + 1 /\ UNCHANGED rejected

Reject == Answered /\ rejected' = rejected + 1 /\ UNCHANGED accepted

(* The session ends: the answers still due will never come. *)
GiveUp ==
    /\ outstanding' = 0
    /\ UNCHANGED <<submitted, accepted, rejected>>

Next == Submit \/ Accept \/ Reject \/ GiveUp

Spec == Init /\ [][Next]_vars

-----------------------------------------------------------------------------
(* No share is counted twice, and none that was never submitted. *)
Conservation == accepted + rejected + outstanding <= submitted
=============================================================================
