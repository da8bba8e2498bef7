------------------------------ MODULE Protocol ------------------------------
(***************************************************************************)
(* What the client understands of a line sent by the pool (protocol/mod.rs)*)
(*                                                                         *)
(* A line is a Response, a Notification the client reacts to               *)
(* (mining.set_difficulty, mining.notify) or a line without effect: one    *)
(* that does not parse, or a notification with another method or with      *)
(* ill-formed parameters.  Of a response only what the handlers test is    *)
(* kept: its id, the kind of its result and whether `error' is set (serde  *)
(* reads a JSON null as None).                                             *)
(***************************************************************************)
EXTENDS Integers

NoId == 0    \* `id: null', or an id this client never uses

Results == {"true", "false", "null", "subscription", "other"}

Response(id, result, error) ==
    [kind |-> "response", id |-> id, result |-> result, error |-> error]

SetDifficulty(d) == [kind |-> "set_difficulty", difficulty |-> d]

Notify(job, clean) == [kind |-> "notify", job_id |-> job, clean_jobs |-> clean]

Ignored == [kind |-> "ignored"]

(***************************************************************************)
(* The three ways a response is read.  They differ on purpose: a result    *)
(* `false' is a success for subscribe and a rejection for a share, and an  *)
(* authorize reply is judged by its result alone.                          *)
(***************************************************************************)
is_success(resp) == ~resp.error /\ resp.result # "null"

is_authorized(resp) == resp.result = "true"

share_accepted(resp) == ~resp.error /\ resp.result = "true"

(* parse_subscription succeeds: an array of ids, extranonce1 and a size. *)
parses_as_subscription(resp) == resp.result = "subscription"
=============================================================================
