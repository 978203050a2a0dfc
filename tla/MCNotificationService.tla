------------------------ MODULE MCNotificationService ------------------------
(* Instances of NotificationService for TLC. Alerts and clients are model    *)
(* values; toasts and notifications are strings, so that the first of each   *)
(* can share the source "mail" and the others be of "news".                  *)
EXTENDS NotificationService, TLC

MCSourceOf  == [x \in Toasts \cup Notes |-> IF x \in {"t1", "n1"} THEN "mail" ELSE "news"]
MCDisplayOf == [t \in Toasts |-> IF t = "t1" \/ 1 \notin Displays THEN 0 ELSE 1]

\* What tells the states of the alerts run apart. forced and closed only record
\* what happened: no action of an alert reads them, and no property of that run
\* but TypeOK, which the theorem TypeCorrect has for every one of their values.
AlertsView ==
    <<gateVars, alertVars, toastVars, noteVars, toastCount, uriChecks, reply, restarts>>
=============================================================================
