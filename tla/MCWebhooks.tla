----------------------------- MODULE MCWebhooks -----------------------------
(* One webhook, created, patched twice at a time and deleted, and three
   deliveries for it.  Webhooks share no state but the table, so a second one
   adds interleavings and no new case. *)
EXTENDS Webhooks

CONSTANTS w1, click, p1, p2

MCIds == {w1}
MCEvents == {click}
MCStatuses == {"active", "paused"}
MCProcs == {p1, p2}
=============================================================================
