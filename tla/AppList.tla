------------------------------ MODULE AppList -------------------------------
(* The mirror of the application manager's list, AppList.cpp: the first      *)
(* reply to listApps carries the whole list, later ones a change each. The   *)
(* daemon asks again whenever the bus says that the manager is connected,    *)
(* also when two such messages wait and only one manager is there to answer: *)
(* it is then subscribed twice, and every change comes twice.                *)
(*                                                                           *)
(* External, and modelled from what AppList.cpp expects of them: the manager *)
(* with its list and its subscriptions, and the bus with its status signal.  *)
EXTENDS Naturals, Sequences

CONSTANTS
    Apps,
    Icons,
    MaxChanges,     \* bound: changes of the manager's list
    MaxStops,       \* bound: times the manager leaves the bus
    MaxRestarts     \* bound: restarts of the daemon

ASSUME AppListAssumption == {MaxChanges, MaxStops, MaxRestarts} \subseteq Nat

VARIABLES
    applist,        \* m_applist: the icons of each application's entries, in order
    statusMsgs,     \* the bus's status messages on their way here
    appMsgs,        \* replies of listApps on their way here
    listCalls,      \* calls of listApps on their way to the manager
    registered,     \* registerServerStatus could be called when the daemon started
    askFailed,      \* the last listApps call could not be made
    installed,      \* the manager's list: a function from its applications to icons
    managerUp,
    subscriptions,  \* how often this daemon is subscribed to the manager
    changes, stops, restarts

daemonVars  == <<applist, registered, askFailed>>
busVars     == <<statusMsgs, appMsgs, listCalls>>
managerVars == <<installed, managerUp, subscriptions, changes, stops>>
appListVars == <<daemonVars, busVars, managerVars, restarts>>

Lists   == UNION {[S -> Icons] : S \in SUBSET Apps}
Kinds   == {"apps", "added", "updated", "removed", "none"}
AppMsgs == [change : Kinds, apps : Lists]

\* registerServerStatus is answered with what the bus knows. A call of it that
\* fails is only logged, and no status message ever comes.
FirstStatus(success) == IF success THEN <<managerUp>> ELSE <<>>

\* The bus tells of the manager's coming or going, if it was asked to.
ToldOf(connected) == IF registered THEN Append(statusMsgs, connected) ELSE statusMsgs

InitAppList ==
    /\ applist = [a \in Apps |-> <<>>]
    /\ registered \in BOOLEAN
    /\ askFailed = FALSE
    /\ installed \in Lists
    /\ managerUp \in BOOLEAN
    /\ statusMsgs = FirstStatus(registered)
    /\ appMsgs = <<>> /\ listCalls = 0
    /\ subscriptions = 0
    /\ changes = 0 /\ stops = 0 /\ restarts = 0

\* isAppExist and getIcon: the first entry of the id speaks for it.
IsAppExist(a) == applist[a] # <<>>
GetIcon(entries) == Head(entries)

-----------------------------------------------------------------------------
(* What a reply does to the entries of one application.                      *)

\* updateFromList: the first entry is changed, or one is added.
Updated(entries, icon) ==
    IF entries = <<>> THEN <<icon>> ELSE [entries EXCEPT ![1] = icon]

\* removeFromList: the first entry goes.
Removed(entries) == IF entries = <<>> THEN <<>> ELSE Tail(entries)

AddToWhatWasThere(entries, m, a) ==
    IF a \notin DOMAIN m.apps THEN entries
    ELSE CASE m.change \in {"apps", "added"} -> Append(entries, m.apps[a])
           [] m.change = "updated" -> Updated(entries, m.apps[a])
           [] m.change = "removed" -> Removed(entries)
           [] OTHER -> entries

\* cbAppMgrAppList: a whole list replaces what was there, a change goes
\* through handleAppResponse, and anything else is ignored.
AppResponse(entries, m, a) ==
    IF m.change = "apps" THEN IF a \in DOMAIN m.apps THEN <<m.apps[a]>> ELSE <<>>
    ELSE IF a \notin DOMAIN m.apps THEN entries
    ELSE CASE m.change = "added"   -> Append(entries, m.apps[a])
           [] m.change = "updated" -> Updated(entries, m.apps[a])
           [] m.change = "removed" -> Removed(entries)
           [] OTHER -> entries

-----------------------------------------------------------------------------
(* The daemon.                                                               *)

ListAppsRegardless(connected) ==
    /\ askFailed' \in BOOLEAN
    /\ listCalls' = IF askFailed' THEN listCalls ELSE listCalls + 1

ListAppsIfEmpty(connected) ==
    IF connected /\ \A a \in Apps : ~IsAppExist(a)
    THEN ListAppsRegardless(connected)
    ELSE UNCHANGED <<listCalls, askFailed>>

\* Connected: listApps is called, or that fails and is only logged.
ListApps(connected) ==
    IF connected
    THEN /\ askFailed' \in BOOLEAN
         /\ listCalls' = IF askFailed' THEN listCalls ELSE listCalls + 1
    ELSE UNCHANGED <<listCalls, askFailed>>

\* cbAppMgrBusStatusNotification
AppMgrBusStatusNotification ==
    /\ statusMsgs # <<>>
    /\ statusMsgs' = Tail(statusMsgs)
    /\ ListApps(Head(statusMsgs))
    /\ UNCHANGED <<applist, registered, appMsgs, managerVars, restarts>>

AppMgrAppList ==
    /\ appMsgs # <<>>
    /\ appMsgs' = Tail(appMsgs)
    /\ applist' = [a \in Apps |-> AppResponse(applist[a], Head(appMsgs), a)]
    /\ UNCHANGED <<registered, askFailed, statusMsgs, listCalls, managerVars, restarts>>

RestartMissingFirstStatus ==
    /\ restarts < MaxRestarts
    /\ restarts' = restarts + 1
    /\ applist' = [a \in Apps |-> <<>>]
    /\ registered' \in BOOLEAN
    /\ askFailed' = FALSE
    /\ statusMsgs' = <<>> /\ appMsgs' = <<>> /\ listCalls' = 0
    /\ subscriptions' = 0
    /\ UNCHANGED <<installed, managerUp, changes, stops>>

\* AppList::init after a restart: an empty list, and a new registration.
RestartAppList ==
    /\ restarts < MaxRestarts
    /\ restarts' = restarts + 1
    /\ applist' = [a \in Apps |-> <<>>]
    /\ registered' \in BOOLEAN
    /\ askFailed' = FALSE
    /\ statusMsgs' = FirstStatus(registered')
    /\ appMsgs' = <<>> /\ listCalls' = 0
    /\ subscriptions' = 0
    /\ UNCHANGED <<installed, managerUp, changes, stops>>

-----------------------------------------------------------------------------
(* The application manager and the bus.                                      *)

\* A call that waits for the manager is answered with its list, ...
AnswerListApps ==
    /\ managerUp /\ listCalls > 0
    /\ listCalls' = listCalls - 1
    /\ subscriptions' = subscriptions + 1
    /\ appMsgs' = Append(appMsgs, [change |-> "apps", apps |-> installed])
    /\ UNCHANGED <<daemonVars, statusMsgs, installed, managerUp, changes, stops, restarts>>

\* ... or, when there is no manager, with an error of the bus.
RefuseListApps ==
    /\ ~managerUp /\ listCalls > 0
    /\ listCalls' = listCalls - 1
    /\ appMsgs' = Append(appMsgs, [change |-> "none", apps |-> <<>>])
    /\ UNCHANGED <<daemonVars, statusMsgs, managerVars, restarts>>

\* A list of one application.
Only(a, icon) == [x \in {a} |-> icon]

\* An application comes, changes its icon or goes; each subscription is told.
ChangeApp(kind, a, icon) ==
    /\ changes < MaxChanges
    /\ changes' = changes + 1
    /\ (a \in DOMAIN installed) = (kind # "added")
    /\ installed' = IF kind = "removed"
                    THEN [x \in DOMAIN installed \ {a} |-> installed[x]]
                    ELSE [x \in DOMAIN installed \cup {a} |->
                             IF x = a THEN icon ELSE installed[x]]
    /\ appMsgs' = appMsgs \o [i \in 1 .. subscriptions |->
                                 [change |-> kind, apps |-> Only(a, icon)]]
    /\ UNCHANGED <<daemonVars, statusMsgs, listCalls, managerUp, subscriptions, stops, restarts>>

\* The manager leaves the bus. What it had written last may be lost with it.
StopManager ==
    /\ managerUp /\ stops < MaxStops
    /\ stops' = stops + 1
    /\ managerUp' = FALSE
    /\ subscriptions' = 0
    /\ statusMsgs' = ToldOf(FALSE)
    /\ \E n \in 0 .. Len(appMsgs) : appMsgs' = SubSeq(appMsgs, 1, n)
    /\ UNCHANGED <<daemonVars, listCalls, installed, changes, restarts>>

StartManager ==
    /\ ~managerUp
    /\ managerUp' = TRUE
    /\ statusMsgs' = ToldOf(TRUE)
    /\ UNCHANGED <<daemonVars, appMsgs, listCalls, installed, subscriptions, changes,
                   stops, restarts>>

Manager ==
    \/ AnswerListApps
    \/ RefuseListApps
    \/ \E kind \in {"added", "updated", "removed"}, a \in Apps, icon \in Icons :
          ChangeApp(kind, a, icon)
    \/ StopManager
    \/ StartManager

AppListNext ==
    \/ AppMgrBusStatusNotification
    \/ AppMgrAppList
    \/ RestartAppList
    \/ Manager

\* The main loop dispatches what the bus delivers, and a manager that is there
\* answers. Applications, the manager's comings and goings and restarts of the
\* daemon oblige nobody.
AppListFairness ==
    /\ WF_appListVars(AppMgrBusStatusNotification)
    /\ WF_appListVars(AppMgrAppList)
    /\ WF_appListVars(AnswerListApps)

AppListSpec == InitAppList /\ [][AppListNext]_appListVars /\ AppListFairness

-----------------------------------------------------------------------------
(* Properties.                                                               *)

\* Types; and the daemon is never subscribed, nor about to be, more often than
\* the manager came to the bus (cbAppMgrBusStatusNotification).
AppListTypeOK ==
    /\ applist \in [Apps -> Seq(Icons)]
    /\ registered \in BOOLEAN /\ askFailed \in BOOLEAN
    /\ statusMsgs \in Seq(BOOLEAN)
    /\ appMsgs \in Seq(AppMsgs)
    /\ listCalls \in Nat
    /\ installed \in Lists
    /\ managerUp \in BOOLEAN
    /\ subscriptions \in Nat
    /\ {changes, stops, restarts} \subseteq Nat
    /\ listCalls + subscriptions <= stops + 1

\* Entries of one application show what the manager's list says of it.
Shows(entries, a) ==
    IF a \in DOMAIN installed
    THEN entries # <<>> /\ GetIcon(entries) = installed[a]
    ELSE entries = <<>>

Mirrored == \A a \in Apps : Shows(applist[a], a)

\* Entries of an application as the given replies leave them, one after the other.
After(entries, msgs, a) ==
    LET after[n \in 0 .. Len(msgs)] ==
            IF n = 0 THEN entries ELSE AppResponse(after[n - 1], msgs[n], a)
    IN  after[Len(msgs)]

\* Entries as they will be when the replies on their way were handled.
EntriesAfter(a) == After(applist[a], appMsgs, a)

\* Nothing that the manager tells is missed or counted twice: once the replies
\* on their way are handled the mirror is the manager's list, however the
\* first reply, the changes, a second subscription and what an earlier manager
\* left interleave (cbAppMgrAppList).
MirrorCatchesUp ==
    managerUp /\ subscriptions > 0 => \A a \in Apps : Shows(EntriesAfter(a), a)

\* When nothing is under way the mirror is the manager's list, whatever restarted
\* before, in which order, and whichever messages of the bus waited together:
\* the safety half of MirrorConverges. Not if the registration or the last
\* listApps call failed, after which the code does not try again.
MirrorAtRest ==
    /\ managerUp /\ registered /\ ~askFailed
    /\ statusMsgs = <<>> /\ appMsgs = <<>> /\ listCalls = 0
    => Mirrored

\* When applications and the manager come to rest, the mirror becomes the
\* manager's list and stays it, whatever restarted in which order: the daemon
\* asks again after each restart of the manager. Not if one of its calls failed.
MirrorConverges == <>[](managerUp /\ registered /\ ~askFailed => Mirrored)
=============================================================================
