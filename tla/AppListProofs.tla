---------------------------- MODULE AppListProofs ----------------------------
(* What holds of the bus between the daemon and the manager, for every value *)
(* of AppList's constants: how often the daemon asks and is subscribed. The   *)
(* mirror itself is the subject of MirrorProofs.                              *)
EXTENDS AppList, Integers, TLAPS

-----------------------------------------------------------------------------
(* Each message that says the manager is there may become one subscription,  *)
(* so that those messages must be counted in. The bus tells of every coming  *)
(* and going: the messages alternate, and the last one is still true.        *)

Numbers ==
    /\ listCalls \in Nat /\ subscriptions \in Nat
    /\ changes \in Nat /\ stops \in Nat /\ restarts \in Nat

DaemonTypes ==
    /\ applist \in [Apps -> Seq(Icons)]
    /\ registered \in BOOLEAN /\ askFailed \in BOOLEAN

BusTypes == statusMsgs \in Seq(BOOLEAN) /\ appMsgs \in Seq(AppMsgs)

ManagerTypes == installed \in Lists /\ managerUp \in BOOLEAN

Even(n) == n % 2 = 0

LastIsTrue ==
    \A i \in 1 .. Len(statusMsgs) :
        IF Even(Len(statusMsgs) - i) THEN statusMsgs[i] = managerUp
        ELSE statusMsgs[i] # managerUp

\* The sum counts the messages that say the manager is there.
SubscribedAtMost ==
    /\ managerUp = TRUE  => listCalls + subscriptions + (Len(statusMsgs) + 1) \div 2 <= stops + 1
    /\ managerUp = FALSE => listCalls + subscriptions + Len(statusMsgs) \div 2 <= stops

Types  == Numbers /\ DaemonTypes /\ BusTypes /\ ManagerTypes
Untold == ~registered => statusMsgs = <<>>
BusInv == Types /\ Untold /\ LastIsTrue /\ SubscribedAtMost

LEMMA Halves ==
    ASSUME NEW n \in Nat
    PROVE  /\ n \div 2 \in Nat
           /\ Even(n) => (n + 1) \div 2 = n \div 2 /\ (n + 2) \div 2 = (n + 1) \div 2 + 1
           /\ ~Even(n) => (n + 1) \div 2 = n \div 2 + 1 /\ (n + 2) \div 2 = (n + 1) \div 2
           /\ Even(0) /\ Even(n + 1) # Even(n)
  BY DEF Even

\* The strengthening gives the bound: no number of messages is negative.
LEMMA BusInvSuffices == BusInv => AppListTypeOK
  <1> SUFFICES ASSUME BusInv PROVE AppListTypeOK
    OBVIOUS
  <1>1. Types /\ Len(statusMsgs) \in Nat
    BY DEF BusInv, Types, BusTypes
  <1>2. Len(statusMsgs) \div 2 \in Nat /\ (Len(statusMsgs) + 1) \div 2 \in Nat
    BY <1>1, Halves
  <1>3. listCalls \in Nat /\ subscriptions \in Nat /\ stops \in Nat
    BY <1>1 DEF Types, Numbers
  <1>4. managerUp = TRUE \/ managerUp = FALSE
    BY <1>1 DEF Types, ManagerTypes
  <1>5. listCalls + subscriptions <= stops + 1
    BY <1>2, <1>3, <1>4 DEF BusInv, SubscribedAtMost
  <1> QED BY <1>1, <1>5 DEF AppListTypeOK, Types, Numbers, DaemonTypes, BusTypes, ManagerTypes

\* One message that says what the bus knows, or none, and nothing asked yet.
JustRegistered ==
    /\ managerUp \in BOOLEAN /\ registered \in BOOLEAN /\ statusMsgs = FirstStatus(registered)
    /\ listCalls = 0 /\ subscriptions = 0 /\ stops \in Nat

LEMMA FirstMessage == JustRegistered => Untold /\ LastIsTrue /\ SubscribedAtMost
  <1> SUFFICES ASSUME JustRegistered PROVE Untold /\ LastIsTrue /\ SubscribedAtMost
    OBVIOUS
  <1>1. 0 \div 2 = 0 /\ 1 \div 2 = 0 /\ (0 + 1) \div 2 = 0 /\ (1 + 1) \div 2 = 1 /\ Even(1 - 1)
    BY DEF Even
  <1>2. CASE registered
    <2>1. statusMsgs = <<managerUp>>
      BY <1>2 DEF JustRegistered, FirstStatus
    <2>2. Len(statusMsgs) = 1 /\ statusMsgs[1] = managerUp
      BY <2>1
    <2>3. LastIsTrue
      BY <1>1, <2>2 DEF LastIsTrue
    <2>4. SubscribedAtMost
      BY <1>1, <2>2 DEF SubscribedAtMost, JustRegistered
    <2> QED BY <1>2, <2>3, <2>4 DEF Untold
  <1>3. CASE ~registered
    <2>1. statusMsgs = <<>>
      BY <1>3 DEF JustRegistered, FirstStatus
    <2>2. Len(statusMsgs) = 0
      BY <2>1
    <2>3. LastIsTrue
      BY <2>2 DEF LastIsTrue
    <2>4. SubscribedAtMost
      BY <1>1, <2>2 DEF SubscribedAtMost, JustRegistered
    <2> QED BY <2>1, <2>3, <2>4 DEF Untold
  <1> QED BY <1>2, <1>3

LEMMA BusInvInit == InitAppList => BusInv
  <1> SUFFICES ASSUME InitAppList PROVE BusInv
    OBVIOUS
  <1>1. applist \in [Apps -> Seq(Icons)] /\ statusMsgs \in Seq(BOOLEAN) /\ appMsgs \in Seq(AppMsgs)
    <2>1. managerUp \in BOOLEAN /\ (statusMsgs = <<managerUp>> \/ statusMsgs = <<>>)
      BY DEF InitAppList, FirstStatus
    <2>2. CASE statusMsgs = <<managerUp>>
      BY <2>1, <2>2 DEF InitAppList
    <2>3. CASE statusMsgs = <<>>
      BY <2>3 DEF InitAppList
    <2> QED BY <2>1, <2>2, <2>3
  <1>2. Types
    BY <1>1 DEF InitAppList, Types, Numbers, DaemonTypes, BusTypes, ManagerTypes
  <1>3. Untold /\ LastIsTrue /\ SubscribedAtMost
    BY FirstMessage DEF InitAppList, JustRegistered
  <1> QED BY <1>2, <1>3 DEF BusInv

-----------------------------------------------------------------------------
(* The steps of the daemon.                                                  *)

\* A reply leaves a sequence of icons for each application.
LEMMA ResponseType ==
    ASSUME NEW entries \in Seq(Icons), NEW m \in AppMsgs, NEW a \in Apps
    PROVE  AppResponse(entries, m, a) \in Seq(Icons)
  <1>1. a \in DOMAIN m.apps => m.apps[a] \in Icons
    BY DEF AppMsgs, Lists
  <1>2. a \in DOMAIN m.apps => <<m.apps[a]>> \in Seq(Icons) /\ Append(entries, m.apps[a]) \in Seq(Icons)
    BY <1>1
  <1>3. a \in DOMAIN m.apps => Updated(entries, m.apps[a]) \in Seq(Icons)
    <2>1. CASE entries = <<>>
      BY <1>2, <2>1 DEF Updated
    <2>2. CASE entries # <<>>
      BY <1>1, <2>2 DEF Updated
    <2> QED BY <2>1, <2>2
  <1>4. Removed(entries) \in Seq(Icons)
    BY DEF Removed
  <1>5. <<>> \in Seq(Icons)
    OBVIOUS
  <1>6. m.change \in Kinds
    BY DEF AppMsgs
  <1>7. CASE m.change = "apps"
    <2>1. CASE a \in DOMAIN m.apps
      <3>1. AppResponse(entries, m, a) = <<m.apps[a]>>
        BY <1>7, <2>1 DEF AppResponse
      <3> QED BY <1>2, <2>1, <3>1
    <2>2. CASE a \notin DOMAIN m.apps
      <3>1. AppResponse(entries, m, a) = <<>>
        BY <1>7, <2>2 DEF AppResponse
      <3> QED BY <1>5, <3>1
    <2> QED BY <2>1, <2>2
  <1>8. CASE m.change # "apps" /\ a \notin DOMAIN m.apps
    BY <1>6, <1>8 DEF AppResponse, Kinds
  <1>9. CASE m.change # "apps" /\ a \in DOMAIN m.apps
    BY <1>2, <1>3, <1>4, <1>6, <1>9 DEF AppResponse, Kinds
  <1> QED BY <1>7, <1>8, <1>9

\* A status message is handled: one that says the manager is there may become
\* a call of listApps, and one such message less waits.
LEMMA StatusStep == BusInv /\ AppMgrBusStatusNotification => BusInv'
  <1> SUFFICES ASSUME BusInv, AppMgrBusStatusNotification PROVE BusInv'
    OBVIOUS
  <1> DEFINE n == Len(statusMsgs') + 1
  <1>0. /\ statusMsgs \in Seq(BOOLEAN) /\ statusMsgs # <<>> /\ statusMsgs' = Tail(statusMsgs)
        /\ managerUp \in BOOLEAN /\ listCalls \in Nat /\ subscriptions \in Nat /\ stops \in Nat
    BY DEF BusInv, Types, Numbers, BusTypes, ManagerTypes, AppMgrBusStatusNotification
  <1>1. /\ statusMsgs' \in Seq(BOOLEAN) /\ Len(statusMsgs') \in Nat /\ n = Len(statusMsgs)
        /\ \A i \in 1 .. Len(statusMsgs') : statusMsgs'[i] = statusMsgs[i + 1]
        /\ Head(statusMsgs) = statusMsgs[1] /\ Head(statusMsgs) \in BOOLEAN
    BY <1>0
  <1>2. UNCHANGED <<applist, registered, appMsgs, installed, managerUp, subscriptions, changes, stops,
                    restarts>>
    BY DEF AppMgrBusStatusNotification, managerVars
  <1>3. /\ askFailed' \in BOOLEAN
        /\ listCalls' \in {listCalls, listCalls + 1}
    BY DEF AppMgrBusStatusNotification, ListApps, BusInv, Types, DaemonTypes
  <1>7. Head(statusMsgs) = FALSE => listCalls' = listCalls
    BY DEF AppMgrBusStatusNotification, ListApps
  <1>8. listCalls' \in Nat /\ listCalls' <= listCalls + 1
    <2>1. listCalls \in Nat
      BY DEF BusInv, Types, Numbers
    <2> QED BY ONLY <1>3, <2>1
  <1>4. Types'
    <2>2. Numbers'
      BY <1>2, <1>8 DEF BusInv, Types, Numbers
    <2>3. DaemonTypes' /\ BusTypes' /\ ManagerTypes'
      BY <1>1, <1>2, <1>3 DEF BusInv, Types, DaemonTypes, BusTypes, ManagerTypes
    <2> QED BY <2>2, <2>3 DEF Types
  <1> HIDE DEF n
  <1>5. LastIsTrue'
    <2>1. ASSUME NEW i \in 1 .. Len(statusMsgs')
          PROVE  IF Even(Len(statusMsgs') - i) THEN statusMsgs'[i] = managerUp
                 ELSE statusMsgs'[i] # managerUp
      <3>1. i + 1 \in 1 .. Len(statusMsgs) /\ Len(statusMsgs') - i = Len(statusMsgs) - (i + 1)
        BY <1>1 DEF n
      <3> QED BY <1>1, <3>1 DEF BusInv, LastIsTrue
    <2> QED BY <1>2, <2>1 DEF LastIsTrue
  <1>6. SubscribedAtMost'
    <2> DEFINE k == Len(statusMsgs')
    <2>0. k \in Nat /\ Len(statusMsgs) = k + 1
      BY <1>1 DEF n
    <2>1. IF Even(k) THEN Head(statusMsgs) = managerUp ELSE Head(statusMsgs) # managerUp
      <3>1. 1 \in 1 .. Len(statusMsgs) /\ Len(statusMsgs) - 1 = k
        BY <2>0
      <3> QED BY <1>1, <3>1 DEF BusInv, LastIsTrue
    <2> HIDE DEF k
    <2>2. k \div 2 \in Nat /\ (k + 1) \div 2 \in Nat /\ (k + 1) + 1 = k + 2
      BY <2>0, Halves
    <2>3. /\ Even(k) => (k + 1) \div 2 = k \div 2 /\ (k + 2) \div 2 = (k + 1) \div 2 + 1
          /\ ~Even(k) => (k + 1) \div 2 = k \div 2 + 1 /\ (k + 2) \div 2 = (k + 1) \div 2
      BY <2>0, Halves
    <2>4. CASE managerUp = TRUE
      <3>1. listCalls + subscriptions + (k + 2) \div 2 <= stops + 1
        BY <2>0, <2>2, <2>4 DEF BusInv, SubscribedAtMost
      <3>2. CASE Even(k)
        <4>2. listCalls' + subscriptions + (k + 1) \div 2 <= stops + 1
          BY <1>8, <2>2, <2>3, <3>1, <3>2 DEF BusInv, Types, Numbers
        <4> QED BY <1>2, <2>4, <4>2 DEF SubscribedAtMost, k
      <3>3. CASE ~Even(k)
        <4>1. listCalls' = listCalls
          BY <1>1, <1>7, <2>1, <2>4, <3>3
        <4> QED BY <1>2, <2>3, <2>4, <3>1, <3>3, <4>1 DEF SubscribedAtMost, k
      <3> QED BY <3>2, <3>3
    <2>5. CASE managerUp = FALSE
      <3>1. listCalls + subscriptions + (k + 1) \div 2 <= stops
        BY <2>0, <2>5 DEF BusInv, SubscribedAtMost
      <3>2. CASE ~Even(k)
        <4>2. listCalls' + subscriptions + k \div 2 <= stops
          BY <1>8, <2>2, <2>3, <3>1, <3>2 DEF BusInv, Types, Numbers
        <4> QED BY <1>2, <2>5, <4>2 DEF SubscribedAtMost, k
      <3>3. CASE Even(k)
        <4>1. listCalls' = listCalls
          BY <1>1, <1>7, <2>1, <2>5, <3>3
        <4> QED BY <1>2, <2>3, <2>5, <3>1, <3>3, <4>1 DEF SubscribedAtMost, k
      <3> QED BY <3>2, <3>3
    <2> QED BY <1>0, <2>4, <2>5
  <1>9. Untold'
    BY <1>0, <1>2 DEF BusInv, Untold
  <1> QED BY <1>4, <1>5, <1>6, <1>9 DEF BusInv

LEMMA FewerStillFit ==
    ASSUME NEW a \in Nat, NEW b \in Nat, NEW c \in Nat, NEW d \in Nat,
           NEW u \in Nat, NEW s \in Nat, c + d <= a + b, a + b + u <= s
    PROVE  c + d + u <= s
  OBVIOUS

\* Of what the inductive invariant counts, only the calls may have changed.
LEMMA Uncounted ==
    ASSUME BusInv, Types', UNCHANGED <<registered, statusMsgs, managerUp, stops>>,
           listCalls' + subscriptions' <= listCalls + subscriptions
    PROVE  BusInv'
  <1>0. listCalls' + subscriptions' <= listCalls + subscriptions
    OBVIOUS
  <1>1. LastIsTrue' /\ Untold'
    BY DEF BusInv, LastIsTrue, Untold
  <1>2. /\ listCalls \in Nat /\ subscriptions \in Nat /\ stops \in Nat
        /\ listCalls' \in Nat /\ subscriptions' \in Nat
    BY DEF BusInv, Types, Numbers
  <1>3. Len(statusMsgs) \in Nat /\ managerUp \in BOOLEAN
    BY DEF BusInv, Types, BusTypes, ManagerTypes
  <1>4. Len(statusMsgs) \div 2 \in Nat /\ (Len(statusMsgs) + 1) \div 2 \in Nat
    BY <1>3, Halves
  <1>5. CASE managerUp = TRUE
    <2> DEFINE ups == (Len(statusMsgs) + 1) \div 2
    <2>1. listCalls + subscriptions + ups <= stops + 1 /\ ups \in Nat
      BY <1>4, <1>5 DEF BusInv, SubscribedAtMost
    <2> HIDE DEF ups
    <2>2. \A c, d \in Nat : c + d <= listCalls + subscriptions => c + d + ups <= stops + 1
      BY <1>2, <2>1, FewerStillFit
    <2>3. listCalls' + subscriptions' + ups <= stops + 1
      BY <1>0, <1>2, <2>2
    <2> QED BY <1>1, <1>5, <2>3 DEF SubscribedAtMost, BusInv, ups
  <1>6. CASE managerUp = FALSE
    <2> DEFINE ups == Len(statusMsgs) \div 2
    <2>1. listCalls + subscriptions + ups <= stops /\ ups \in Nat
      BY <1>4, <1>6 DEF BusInv, SubscribedAtMost
    <2> HIDE DEF ups
    <2>2. \A c, d \in Nat : c + d <= listCalls + subscriptions => c + d + ups <= stops
      BY <1>2, <2>1, FewerStillFit
    <2>3. listCalls' + subscriptions' + ups <= stops
      BY <1>0, <1>2, <2>2
    <2> QED BY <1>1, <1>6, <2>3 DEF SubscribedAtMost, BusInv, ups
  <1> QED BY <1>3, <1>5, <1>6

LEMMA ReplyStep == BusInv /\ AppMgrAppList => BusInv'
  <1> SUFFICES ASSUME BusInv, AppMgrAppList PROVE BusInv'
    OBVIOUS
  <1>1. Head(appMsgs) \in AppMsgs /\ appMsgs' \in Seq(AppMsgs)
    BY DEF AppMgrAppList, BusInv, Types, BusTypes
  <1>2. applist' \in [Apps -> Seq(Icons)]
    BY <1>1, ResponseType DEF AppMgrAppList, BusInv, Types, DaemonTypes
  <1>3. Types'
    <2>1. Numbers'
      BY DEF AppMgrAppList, BusInv, Types, Numbers, managerVars
    <2>2. DaemonTypes' /\ BusTypes' /\ ManagerTypes'
      BY <1>1, <1>2 DEF AppMgrAppList, BusInv, Types, DaemonTypes, BusTypes, ManagerTypes, managerVars
    <2> QED BY <2>1, <2>2 DEF Types
  <1>4. listCalls' + subscriptions' <= listCalls + subscriptions
    BY DEF AppMgrAppList, managerVars, BusInv, Types, Numbers
  <1> QED BY <1>3, <1>4, Uncounted DEF AppMgrAppList, managerVars

\* The first message of a new registration says what the bus knows.
LEMMA RestartStep == BusInv /\ RestartAppList => BusInv'
  <1> SUFFICES ASSUME BusInv, RestartAppList PROVE BusInv'
    OBVIOUS
  <1>1. Types'
    <2>1. Numbers'
      BY DEF RestartAppList, BusInv, Types, Numbers
    <2>2. applist' \in [Apps -> Seq(Icons)] /\ appMsgs' \in Seq(AppMsgs)
      BY DEF RestartAppList
    <2>3. registered' \in BOOLEAN /\ askFailed' \in BOOLEAN /\ ManagerTypes'
      BY DEF RestartAppList, BusInv, Types, ManagerTypes
    <2>4. statusMsgs' \in Seq(BOOLEAN)
      <3>1. managerUp \in BOOLEAN /\ (statusMsgs' = <<managerUp>> \/ statusMsgs' = <<>>)
        BY DEF RestartAppList, FirstStatus, BusInv, Types, ManagerTypes
      <3>2. CASE statusMsgs' = <<managerUp>>
        BY ONLY <3>1, <3>2
      <3>3. CASE statusMsgs' = <<>>
        BY ONLY <3>3
      <3> QED BY <3>1, <3>2, <3>3
    <2> QED BY <2>1, <2>2, <2>3, <2>4 DEF Types, DaemonTypes, BusTypes
  <1>2. JustRegistered'
    <2>1. stops' \in Nat
      BY <1>1 DEF Types, Numbers
    <2> QED BY <2>1 DEF RestartAppList, FirstStatus, BusInv, Types, ManagerTypes, JustRegistered
  <1>3. Untold' /\ LastIsTrue' /\ SubscribedAtMost'
    BY <1>2, FirstMessage, PTL
  <1> QED BY <1>1, <1>3 DEF BusInv

-----------------------------------------------------------------------------
(* The steps of the application manager.                                     *)

LEMMA NoAppsType == <<>> \in Lists
  <1>1. <<>> \in [{} -> Icons]
    OBVIOUS
  <1> QED BY <1>1 DEF Lists

LEMMA AnswerStep == BusInv /\ (AnswerListApps \/ RefuseListApps) => BusInv'
  <1> SUFFICES ASSUME BusInv, AnswerListApps \/ RefuseListApps PROVE BusInv'
    OBVIOUS
  <1>1. appMsgs' \in Seq(AppMsgs)
    <2>1. \E m \in AppMsgs : appMsgs' = Append(appMsgs, m)
      BY NoAppsType DEF AnswerListApps, RefuseListApps, AppMsgs, Kinds, BusInv, Types, ManagerTypes
    <2> QED BY <2>1 DEF BusInv, Types, BusTypes
  <1>2. Types'
    <2>1. Numbers'
      BY DEF AnswerListApps, RefuseListApps, BusInv, Types, Numbers, managerVars
    <2>2. DaemonTypes' /\ BusTypes' /\ ManagerTypes'
      BY <1>1 DEF AnswerListApps, RefuseListApps, BusInv, Types, DaemonTypes, BusTypes, ManagerTypes,
                  daemonVars, managerVars
    <2> QED BY <2>1, <2>2 DEF Types
  <1>3. listCalls' + subscriptions' <= listCalls + subscriptions
    BY DEF AnswerListApps, RefuseListApps, BusInv, Types, Numbers, managerVars
  <1> QED BY <1>2, <1>3, Uncounted DEF AnswerListApps, RefuseListApps, daemonVars, managerVars

LEMMA ChangeStep ==
    ASSUME BusInv, NEW kind \in {"added", "updated", "removed"}, NEW a \in Apps, NEW icon \in Icons,
           ChangeApp(kind, a, icon)
    PROVE  BusInv'
  <1>1. Only(a, icon) \in Lists
    <2>1. Only(a, icon) \in [{a} -> Icons]
      BY DEF Only
    <2> QED BY <2>1 DEF Lists
  <1>2. installed' \in Lists
    <2>0. PICK S \in SUBSET Apps : installed \in [S -> Icons]
      BY DEF BusInv, Types, ManagerTypes, Lists
    <2>1. CASE kind = "removed"
      <3>1. installed' \in [S \ {a} -> Icons]
        BY <2>0, <2>1 DEF ChangeApp
      <3> QED BY <3>1 DEF Lists
    <2>2. CASE kind # "removed"
      <3>1. installed' \in [S \cup {a} -> Icons]
        BY <2>0, <2>2 DEF ChangeApp
      <3> QED BY <3>1 DEF Lists
    <2> QED BY <2>1, <2>2
  <1>3. appMsgs' \in Seq(AppMsgs)
    <2> DEFINE told == [i \in 1 .. subscriptions |-> [change |-> kind, apps |-> Only(a, icon)]]
    <2>1. told \in Seq(AppMsgs)
      BY <1>1 DEF AppMsgs, Kinds, BusInv, Types, Numbers
    <2>2. appMsgs' = appMsgs \o told
      BY DEF ChangeApp
    <2> HIDE DEF told
    <2> QED BY <2>1, <2>2 DEF BusInv, Types, BusTypes
  <1>4. Types'
    <2>1. Numbers'
      BY DEF ChangeApp, BusInv, Types, Numbers
    <2>2. DaemonTypes' /\ BusTypes' /\ ManagerTypes'
      BY <1>2, <1>3 DEF ChangeApp, BusInv, Types, DaemonTypes, BusTypes, ManagerTypes, daemonVars
    <2> QED BY <2>1, <2>2 DEF Types
  <1>5. listCalls' + subscriptions' <= listCalls + subscriptions
    BY DEF ChangeApp, BusInv, Types, Numbers
  <1> QED BY <1>4, <1>5, Uncounted DEF ChangeApp, daemonVars

\* The manager comes or goes, and the bus says so.
LEMMA BusStep == BusInv /\ registered /\ (StopManager \/ StartManager) => BusInv'
  <1> SUFFICES ASSUME BusInv, registered, StopManager \/ StartManager PROVE BusInv'
    OBVIOUS
  <1> DEFINE n == Len(statusMsgs)
  <1>0. /\ statusMsgs \in Seq(BOOLEAN) /\ n \in Nat /\ DOMAIN statusMsgs = 1 .. n
        /\ appMsgs \in Seq(AppMsgs)
        /\ managerUp \in BOOLEAN /\ listCalls \in Nat /\ subscriptions \in Nat /\ stops \in Nat
    BY DEF BusInv, Types, Numbers, BusTypes, ManagerTypes
  <1>1. /\ managerUp' = ~managerUp /\ statusMsgs' = Append(statusMsgs, managerUp')
        /\ managerUp' \in BOOLEAN
    BY <1>0 DEF StopManager, StartManager, ToldOf
  <1>2. appMsgs' \in Seq(AppMsgs)
    <2>1. \A k \in 0 .. Len(appMsgs) : SubSeq(appMsgs, 1, k) \in Seq(AppMsgs)
      BY <1>0
    <2> QED BY <1>0, <2>1 DEF StopManager, StartManager
  <1>3. Types'
    <2>1. Numbers'
      <3>1. CASE StopManager
        BY <3>1 DEF StopManager, BusInv, Types, Numbers
      <3>2. CASE StartManager
        BY <3>2 DEF StartManager, BusInv, Types, Numbers
      <3> QED BY <3>1, <3>2
    <2>2. statusMsgs' \in Seq(BOOLEAN)
      BY <1>0, <1>1
    <2>3. DaemonTypes' /\ BusTypes' /\ ManagerTypes'
      BY <1>1, <1>2, <2>2
      DEF StopManager, StartManager, BusInv, Types, DaemonTypes, BusTypes, ManagerTypes, daemonVars
    <2> QED BY <2>1, <2>3 DEF Types
  <1>4. LastIsTrue'
    <2>1. /\ Len(statusMsgs') = n + 1 /\ statusMsgs'[n + 1] = managerUp'
          /\ \A i \in 1 .. n : statusMsgs'[i] = statusMsgs[i] /\ statusMsgs[i] \in BOOLEAN
      BY <1>0, <1>1
    <2>2. ASSUME NEW i \in 1 .. n + 1
          PROVE  IF Even(n + 1 - i) THEN statusMsgs'[i] = managerUp'
                 ELSE statusMsgs'[i] # managerUp'
      <3>1. CASE i = n + 1
        <4>1. Even(n + 1 - i)
          BY <1>0, <3>1 DEF Even
        <4> QED BY <2>1, <3>1, <4>1
      <3>2. CASE i \in 1 .. n
        <4>1. IF Even(n - i) THEN statusMsgs[i] = managerUp ELSE statusMsgs[i] # managerUp
          BY <3>2 DEF BusInv, LastIsTrue
        <4>2. Even(n + 1 - i) <=> ~Even(n - i)
          BY <1>0, <3>2 DEF Even
        <4> QED BY <1>0, <1>1, <2>1, <3>2, <4>1, <4>2
      <3> QED BY <1>0, <2>2, <3>1, <3>2
    <2> QED BY <2>1, <2>2 DEF LastIsTrue
  <1>5. SubscribedAtMost'
    <2>0. Len(statusMsgs') = n + 1 /\ (n + 1) + 1 = n + 2
      BY <1>0, <1>1
    <2>1. (n + 2) \div 2 = n \div 2 + 1 /\ n \div 2 \in Nat /\ (n + 1) \div 2 \in Nat
      <3>1. n + 1 \in Nat
        BY <1>0
      <3> QED BY <1>0, <3>1, Halves
    <2>2. CASE managerUp = TRUE
      <3>1. listCalls + subscriptions + (n + 1) \div 2 <= stops + 1
        BY <2>2 DEF BusInv, SubscribedAtMost
      <3>2. listCalls' = listCalls /\ subscriptions' = 0 /\ stops' = stops + 1 /\ managerUp' = FALSE
        BY <2>2 DEF StopManager, StartManager
      <3> QED BY <1>0, <2>0, <2>1, <3>1, <3>2 DEF SubscribedAtMost
    <2>3. CASE managerUp = FALSE
      <3>1. listCalls + subscriptions + n \div 2 <= stops
        BY <2>3 DEF BusInv, SubscribedAtMost
      <3>2. UNCHANGED <<listCalls, subscriptions, stops>> /\ managerUp' = TRUE
        BY <2>3 DEF StopManager, StartManager
      <3> QED BY <1>0, <2>0, <2>1, <3>1, <3>2 DEF SubscribedAtMost
    <2> QED BY <1>0, <2>2, <2>3
  <1>6. Untold'
    BY DEF StopManager, StartManager, daemonVars, Untold
  <1> QED BY <1>3, <1>4, <1>5, <1>6 DEF BusInv

\* Without a registration it says nothing.
LEMMA UntoldStep == BusInv /\ ~registered /\ (StopManager \/ StartManager) => BusInv'
  <1> SUFFICES ASSUME BusInv, ~registered, StopManager \/ StartManager PROVE BusInv'
    OBVIOUS
  <1>1. /\ statusMsgs = <<>> /\ statusMsgs' = <<>> /\ managerUp' = ~managerUp
        /\ UNCHANGED <<applist, registered, askFailed, listCalls, installed, changes, restarts>>
    BY DEF BusInv, Untold, StopManager, StartManager, ToldOf, daemonVars
  <1>2. /\ StopManager  => managerUp /\ subscriptions' = 0 /\ stops' = stops + 1
        /\ StartManager => ~managerUp /\ subscriptions' = subscriptions /\ stops' = stops
    BY DEF StopManager, StartManager
  <1>3. Numbers /\ appMsgs \in Seq(AppMsgs) /\ managerUp \in BOOLEAN
    BY DEF BusInv, Types, BusTypes, ManagerTypes
  <1>4. Numbers'
    BY <1>1, <1>2, <1>3 DEF Numbers
  <1>5. appMsgs' \in Seq(AppMsgs)
    <2>1. \A k \in 0 .. Len(appMsgs) : SubSeq(appMsgs, 1, k) \in Seq(AppMsgs)
      BY <1>3
    <2> QED BY <1>3, <2>1 DEF StopManager, StartManager
  <1>6. DaemonTypes' /\ BusTypes' /\ ManagerTypes'
    BY <1>1, <1>3, <1>5 DEF BusInv, Types, DaemonTypes, BusTypes, ManagerTypes
  <1>7. Len(statusMsgs) = 0 /\ Len(statusMsgs') = 0 /\ 0 \div 2 = 0 /\ (0 + 1) \div 2 = 0
    BY <1>1
  <1>8. LastIsTrue'
    BY <1>7 DEF LastIsTrue
  <1>9. SubscribedAtMost'
    <2>1. CASE StopManager
      <3>1. listCalls + subscriptions <= stops + 1
        BY <1>2, <1>3, <1>7, <2>1 DEF BusInv, SubscribedAtMost, Numbers
      <3> QED BY <1>1, <1>2, <1>3, <1>7, <2>1, <3>1 DEF SubscribedAtMost, Numbers
    <2>2. CASE StartManager
      <3>1. listCalls + subscriptions <= stops
        BY <1>2, <1>3, <1>7, <2>2 DEF BusInv, SubscribedAtMost, Numbers
      <3> QED BY <1>1, <1>2, <1>3, <1>7, <2>2, <3>1 DEF SubscribedAtMost, Numbers
    <2> QED BY <2>1, <2>2
  <1> QED BY <1>1, <1>4, <1>6, <1>8, <1>9 DEF BusInv, Types, Untold

LEMMA BusInvNext == BusInv /\ [AppListNext]_appListVars => BusInv'
  <1>1. BusInv /\ UNCHANGED appListVars => BusInv'
    BY DEF appListVars, daemonVars, busVars, managerVars, BusInv, Types, Numbers, DaemonTypes, BusTypes,
           ManagerTypes, Untold, LastIsTrue, SubscribedAtMost
  <1> QED BY <1>1, StatusStep, ReplyStep, RestartStep, AnswerStep, ChangeStep, BusStep, UntoldStep
          DEF AppListNext, Manager

\* Every variable keeps its type, and the daemon is never subscribed, nor about
\* to be, more often than the manager came to the bus, whatever messages of its
\* comings and goings wait together (cbAppMgrBusStatusNotification).
THEOREM MirrorTypeCorrect == AppListSpec => []AppListTypeOK
  BY BusInvInit, BusInvNext, BusInvSuffices, PTL DEF AppListSpec
=============================================================================
