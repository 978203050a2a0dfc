------------------------------ MODULE UiStatus ------------------------------
(* The gates of the user interface, translated from UiStatus.cpp: four       *)
(* components, each with a mask of three bits that different parties own.    *)
(*   "system"   the system properties (never cleared: see the README)        *)
(*   "external" the enable and disable methods                               *)
(*   "ui"       whether the shell is subscribed                              *)
(* A component's m_reason is wording only and is left out.                   *)

Bits  == {"system", "external", "ui"}
Comps == {"alert", "input", "prompt", "toast"}

\* The masks of all components.
Status == [Comps -> SUBSET Bits]

\* UiComp::UiComp
InitialStatus == [c \in Comps |-> {"system", "external"}]

\* UiComp::isEnabled
IsEnabled(st, c, mask) == mask \subseteq st[c]

\* UiStatus::isEnabled
AllEnabled(st, mask) == \A c \in Comps : IsEnabled(st, c, mask)

\* UiComp::enable on one component
EnableComp(st, c, mask) == [st EXCEPT ![c] = @ \cup mask]

\* UiStatus::enable and UiStatus::disable, on every component
Enable(st, mask)  == [c \in Comps |-> st[c] \cup mask]
Disable(st, mask) == [c \in Comps |-> st[c] \ mask]

\* Does going from one status to the next emit the component's sigStatus(true)?
SignalsEnabled(before, after, c) ==
    ~IsEnabled(before, c, Bits) /\ IsEnabled(after, c, Bits)
=============================================================================
