----------------------------- MODULE MCWorkQueue -----------------------------
(* Instances of WorkQueue for TLC: one recurring poll whose handler enqueues  *)
(* a child, as poll_posts_feed enqueues fetch_post, and a key of a kind that  *)
(* no handler is registered for.                                              *)
EXTENDS WorkQueue

CONSTANTS poll, child, orphan

MCHandled == Keys \ {orphan}
MCSchedule == <<poll>>
MCEvery == [k \in {poll} |-> 2]
MCPriority == [k \in Keys |-> IF k = poll THEN 1 ELSE 0]
MCChildren == [k \in Keys |-> IF k = poll THEN Keys \ {poll} ELSE {}]
=============================================================================
