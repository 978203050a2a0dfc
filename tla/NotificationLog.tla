--------------------------- MODULE NotificationLog ---------------------------
(* What the daemon promises about the notification panel's rows in db8,      *)
(* whatever its gates do: changes are applied in the order they were asked   *)
(* for. While the shell is away they wait in line, the line is bounded, it   *)
(* empties in one go, and no change asked for later overtakes one that       *)
(* waits. Toasts keep to themselves: their rows come and go beside the line, *)
(* and never bring a notification's row into being.                          *)
EXTENDS Messages

CONSTANTS
    Rows,            \* what db8 can hold: notifications and persistent toasts
    Notes,           \* the notifications among them
    RowsOfOneSource, \* the sets of rows that one application's id deletes
    Room             \* how many changes can wait

VARIABLES waiting, stored

logVars == <<waiting, stored>>

LogInit == waiting = <<>> /\ stored = {}

\* A change asked for while nothing waits is applied at once, ...
Accept(m) ==
    /\ waiting = <<>>
    /\ stored' = Apply(stored, m)
    /\ UNCHANGED waiting

\* ... or takes its place at the end of the line. A full line refuses it,
\* which changes nothing here.
Hold(m) ==
    /\ Len(waiting) < Room
    /\ waiting' = Append(waiting, m)
    /\ UNCHANGED stored

Release ==
    /\ waiting' = <<>>
    /\ stored' = After(stored, waiting)

\* The daemon ended with changes still in line.
Lose == waiting' = <<>> /\ UNCHANGED stored

\* A persistent toast, or closeToast of one row's id or of a source's.
BesideTheLine ==
    /\ \/ \E gone \in RowsOfOneSource \cup {{x} : x \in Rows} :
             stored' = stored \ gone
       \/ \E t \in Rows \ Notes : stored' = stored \cup {t}
    /\ UNCHANGED waiting

\* A new notification, or a removal.
Changes == {Adding(n) : n \in Notes} \cup {Dropping(gone) : gone \in SUBSET Rows}

LogNext ==
    \/ \E m \in Changes : Accept(m) \/ Hold(m)
    \/ Release
    \/ Lose
    \/ BesideTheLine

LogSpec == LogInit /\ [][LogNext]_logVars
=============================================================================
