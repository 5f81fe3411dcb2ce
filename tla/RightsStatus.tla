---------------------------- MODULE RightsStatus ----------------------------
(***************************************************************************)
(* The nine statuses of a rights request and the table of transitions that *)
(* every status-changing call of RightsRequestsService consults.           *)
(***************************************************************************)

Status == {"RECEIVED", "IN_VERIFICATION", "IN_REVIEW", "ON_HOLD",
           "ACTION_TAKEN", "PARTIAL_FULFILMENT", "ESCALATED",
           "COMPLETED", "REJECTED"}

\* STATUS_TRANSITIONS, as a relation.  COMPLETED and REJECTED lead nowhere.
StatusTransitions ==
  LET from(s, targets) == {s} \X targets
  IN  UNION { from("RECEIVED",           {"IN_VERIFICATION", "REJECTED"}),
              from("IN_VERIFICATION",    {"IN_REVIEW", "REJECTED"}),
              from("IN_REVIEW",          {"ACTION_TAKEN", "ON_HOLD",
                                          "REJECTED", "ESCALATED"}),
              from("ON_HOLD",            {"IN_REVIEW", "REJECTED"}),
              from("ACTION_TAKEN",       {"COMPLETED", "PARTIAL_FULFILMENT",
                                          "IN_REVIEW"}),
              from("PARTIAL_FULFILMENT", {"COMPLETED", "IN_REVIEW"}),
              from("ESCALATED",          {"IN_REVIEW", "ACTION_TAKEN",
                                          "REJECTED"}) }

\* Mutant: a table that lets a new request be taken up at once.
AllowedEarly(s, t) ==
  <<s, t>> \in StatusTransitions \union {<<"RECEIVED", "IN_REVIEW">>}

Allowed(s, t) == <<s, t>> \in StatusTransitions

\* The two statuses the SLA monitor and the metrics take for the end of a case.
Terminal == {"COMPLETED", "REJECTED"}

\* The statuses of a case whose review has begun and not ended.
InHand == {"IN_REVIEW", "ON_HOLD", "ACTION_TAKEN", "PARTIAL_FULFILMENT",
           "ESCALATED"}
=============================================================================
