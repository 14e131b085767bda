---------------------------- MODULE Notification ----------------------------
(***************************************************************************)
(* The state machine of one wake notification, cyclops-proto's             *)
(* NotificationState: which transitions an attempt may take, what a claim  *)
(* does to it, and which states end it.  quota_held, quota_reset_observed, *)
(* staged, submitting and withdrawn_after_staging only occur in journals   *)
(* of older daemons; no live path enters them and the models leave them    *)
(* out.                                                                    *)
(***************************************************************************)

NotificationState ==
  {"queued", "gating", "blocked_pre_write", "writing", "submitted",
   "submitted_unverified", "notified", "attention_required", "withdrawn",
   "withdrawn_by_operator", "superseded"}

NotificationTransport == {"doorbell", "raw", "mailbox"}

\* The causes of a pre-write block that the reopening rules tell apart;
\* "other_block" stands for the causes no route evidence reopens
\* (manifest, payload, spool, and the composer causes).
PreWriteCause ==
  {"session_unavailable", "worker_failed", "binding_unprovable",
   "write_readiness_changed", "other_block", "paste_command_unwritten",
   "claimed_before_write"}

\* can_withdraw_before_write
PreWrite == {"queued", "gating", "blocked_pre_write"}

\* The two states in which Enter was pressed and the receipt is awaited.
Submitted == {"submitted", "submitted_unverified"}

\* Between the write boundary and the receipt.
InFlight == {"writing"} \cup Submitted

\* is_terminal
Terminal ==
  {"notified", "attention_required", "withdrawn", "withdrawn_by_operator",
   "superseded"}

\* can_transition_to
NextStates(state) ==
  CASE state = "queued"            -> {"gating", "withdrawn_by_operator", "notified"}
    [] state = "gating"            -> {"blocked_pre_write", "writing", "withdrawn_by_operator"}
    [] state = "blocked_pre_write" -> {"gating", "withdrawn", "withdrawn_by_operator"}
    [] state = "writing"           -> Submitted \cup {"notified", "attention_required"}
    [] state \in Submitted         -> {"notified", "attention_required"}
    [] OTHER                       -> {}

\* settled_by_claim: a claim withdraws a doorbell that was not written and is
\* the receipt of one that was submitted; a write in progress keeps going.
SettledByClaim(state, transport) ==
  CASE transport = "doorbell" /\ state \in PreWrite  -> "withdrawn"
    [] transport = "doorbell" /\ state \in Submitted -> "notified"
    [] OTHER                                         -> state
=============================================================================
