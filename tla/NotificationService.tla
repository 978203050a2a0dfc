------------------------ MODULE NotificationService -------------------------
(* The daemon's core: NotificationService.cpp together with the gates of     *)
(* UiStatus.cpp. One action per bus method, per callback and per function    *)
(* handed to Utils::async. The daemon is single threaded, so an action is a  *)
(* whole handler; handlers, deferred functions, replies of other services    *)
(* and restarts interleave freely.                                           *)
(*                                                                           *)
(* Alerts, Toasts and Notes name the requests of createAlert, createToast    *)
(* and createNotification: one element is one request, and also the          *)
(* timestamp id that the request is given.                                   *)
EXTENDS Messages, UiStatus

CONSTANTS
    Clients,            \* bus connections of the shell
    Alerts,
    Toasts,
    Notes,
    Sources,            \* applications that send toasts and notifications
    SourceOf,           \* the sourceId of a toast or notification
    Displays,
    DisplayOf,          \* the displayId of a toast
    Subscribable,       \* the subscription methods the shell uses here
    Failing,            \* the subscription lists to which a post may fail
    kMaxQueuedMessages, \* room in each queue (256 in the code)
    MaxUris,            \* bound: uris in an alert that need isCallAllowed
    MaxAsync,           \* bound: functions waiting for the main loop
    MaxCount,           \* bound: value of a toast counter
    MaxRestarts         \* bound: restarts of the daemon

PostMethods == {"getNotification", "getToastNotification", "getAlertNotification"}
Methods     == PostMethods \cup {"getToastCount"}

ASSUME ConstantsAssumption ==
    /\ SourceOf \in [Toasts \cup Notes -> Sources]
    /\ DisplayOf \in [Toasts -> Displays]
    /\ Subscribable \subseteq Methods
    /\ kMaxQueuedMessages \in Nat \ {0}
    /\ {MaxUris, MaxAsync, MaxCount, MaxRestarts} \subseteq Nat
    /\ Alerts \cap Toasts = {}
    /\ Alerts \cap Notes = {}
    /\ Toasts \cap Notes = {}

VARIABLES
    uiStatus,       \* masks of the UiStatus components
    silence,        \* UiToast::m_silence
    UI_ENABLED,
    asyncCalls,     \* functions handed to Utils::async, in order
    alertMsgQueue, toastMsgQueue, notiMsgQueue,
    subs,           \* the bus's subscription list of each method
    uriChecks,      \* createAlert calls in their isCallAllowed round trips:
                    \* uris not yet allowed, 0 when none is in flight
    history,        \* rows of db8, in the order its calls were made
    readRows,       \* rows whose readStatus is true
    toastCount,     \* toastCountVector
    alertsOn,       \* what each client of the shell has on screen
    toastsOn,
    reply,          \* what the caller of each request was answered
    forced,         \* alerts created with ignoreDisable
    closed,         \* alerts whose close was answered with success, and
                    \* notifications whose removal was posted or queued
    restarts

gateVars   == <<uiStatus, silence, UI_ENABLED, asyncCalls, subs>>
alertVars  == <<alertMsgQueue, alertsOn>>
toastVars  == <<toastMsgQueue, toastsOn>>
storeVars  == <<history, readRows>>
noteVars   == <<notiMsgQueue, history, readRows>>
callVars   == <<uriChecks, reply, forced, closed, restarts>>
vars == <<gateVars, alertVars, toastVars, noteVars, toastCount, callVars>>

Requests == Alerts \cup Toasts \cup Notes
Rows     == Toasts \cup Notes
Calls    == {"enableUi", "enableToastUi", "disableUi"}
\* What became of a request: nothing yet, success, an error, the error of a
\* post that failed, no answer before the daemon ended, or two of them.
Replies  == {"none", "ok", "error", "unposted", "lost", "twice"}
NoCount  == [readCount |-> 0, unreadCount |-> 0]

RowsOf(source)    == {x \in Rows : SourceOf[x] = source}
ToastsAt(display) == {t \in Toasts : DisplayOf[t] = display}

Init ==
    /\ uiStatus = InitialStatus
    /\ silence = FALSE
    /\ UI_ENABLED = FALSE
    /\ asyncCalls = <<>>
    /\ alertMsgQueue = <<>> /\ toastMsgQueue = <<>> /\ notiMsgQueue = <<>>
    /\ subs = [m \in Methods |-> {}]
    /\ uriChecks = [a \in Alerts |-> 0]
    /\ history = {} /\ readRows = {}
    /\ toastCount = [d \in Displays |-> NoCount]
    /\ alertsOn = [c \in Clients |-> {}]
    /\ toastsOn = [c \in Clients |-> {}]
    /\ reply = [x \in Requests |-> "none"]
    /\ forced = {} /\ closed = {}
    /\ restarts = 0

-----------------------------------------------------------------------------
(* Queues, posts and replies.                                                *)

PushAnyway(queue, m) == Append(queue, m)

\* queueHasRoom and the push it guards: a full queue drops the new message.
Push(queue, m) ==
    IF Len(queue) < kMaxQueuedMessages THEN Append(queue, m) ELSE queue

\* LSSubscriptionPost: the message goes to the clients on the list just now; a
\* post that fails may have reached some of them by then.
Reach(list, receivers, success) ==
    IF success THEN {receivers} ELSE IF list \in Failing THEN SUBSET receivers ELSE {}

\* The same when nobody asks whether it succeeded.
ReachAnyhow(list, receivers) == UNION {Reach(list, receivers, success) : success \in BOOLEAN}

\* What clients hold once each message of q reached the clients in reached[i].
Posted(on, q, reached) ==
    [c \in Clients |->
        After(on[c], [i \in DOMAIN q |-> IF c \in reached[i] THEN q[i] ELSE Dropping({})])]

\* LSMessageReply and LSMessageRespond. A second answer would show as "twice".
Answer(x, result) ==
    reply' = [reply EXCEPT ![x] = IF @ = "none" THEN result ELSE "twice"]

\* History::saveMessage, deleteMessage, deleteNotiMessage, resetUserNotifications:
\* the db8 calls go out on one handle and are applied in order.
Store(q) ==
    /\ history' = After(history, q)
    /\ readRows' = readRows \cap history'

\* postAlertNotification. A message that is queued is answered like one whose
\* post failed.
PostAlert(m, success) ==
    IF UI_ENABLED
    THEN /\ \E reached \in Reach("getAlertNotification", subs["getAlertNotification"], success) :
               alertsOn' = Posted(alertsOn, <<m>>, <<reached>>)
         /\ UNCHANGED alertMsgQueue
    ELSE /\ success = FALSE
         /\ alertMsgQueue' = Push(alertMsgQueue, m)
         /\ UNCHANGED alertsOn

RequeueFailedToast(m, stale, success) ==
    IF stale \/ silence THEN success = TRUE /\ UNCHANGED toastVars
    ELSE /\ IF UI_ENABLED
            THEN \E reached \in Reach("getToastNotification", subs["getToastNotification"], success) :
                    toastsOn' = Posted(toastsOn, <<m>>, <<reached>>)
            ELSE success = FALSE /\ UNCHANGED toastsOn
         /\ toastMsgQueue' = IF success THEN toastMsgQueue ELSE Push(toastMsgQueue, m)

\* postToastNotification, without the save of a persistent toast.
PostToast(m, stale, success) ==
    IF stale \/ silence THEN success = TRUE /\ UNCHANGED toastVars
    ELSE IF UI_ENABLED
    THEN /\ \E reached \in Reach("getToastNotification", subs["getToastNotification"], success) :
               toastsOn' = Posted(toastsOn, <<m>>, <<reached>>)
         /\ UNCHANGED toastMsgQueue
    ELSE /\ success = FALSE
         /\ toastMsgQueue' = Push(toastMsgQueue, m)
         /\ UNCHANGED toastsOn

StoreRemovalsAtOnce(m) ==
    IF UI_ENABLED \/ m.add = {}
    THEN Store(<<m>>) /\ UNCHANGED notiMsgQueue
    ELSE notiMsgQueue' = Push(notiMsgQueue, m) /\ UNCHANGED storeVars

\* postNotification. What the panel is sent is not tracked: the row it is
\* about is.
PostNotification(m) ==
    IF UI_ENABLED
    THEN Store(<<m>>) /\ UNCHANGED notiMsgQueue
    ELSE notiMsgQueue' = Push(notiMsgQueue, m) /\ UNCHANGED storeVars

PostWithoutTaking(enabled, receivers) ==
    /\ alertsOn' = IF enabled
                   THEN Posted(alertsOn, alertMsgQueue, [i \in DOMAIN alertMsgQueue |-> receivers])
                   ELSE alertsOn
    /\ UNCHANGED alertMsgQueue

\* processAlertMsgQueue: the queue is taken away, then posted message by
\* message; while UI_ENABLED is false every post puts its message back. What
\* became of a post is not asked: a message whose post fails is gone.
ProcessAlertMsgQueue(enabled, receivers) ==
    IF enabled
    THEN /\ alertMsgQueue' = <<>>
         /\ \E reached \in [DOMAIN alertMsgQueue -> ReachAnyhow("getAlertNotification", receivers)] :
               alertsOn' = Posted(alertsOn, alertMsgQueue, reached)
    ELSE UNCHANGED alertVars

SkipToastMsgQueue(enabled, receivers) == UNCHANGED toastVars

\* processToastMsgQueue: a silenced toast component swallows what is drained.
ProcessToastMsgQueue(enabled, receivers) ==
    IF silence THEN toastMsgQueue' = <<>> /\ UNCHANGED toastsOn
    ELSE IF enabled
    THEN /\ toastMsgQueue' = <<>>
         /\ \E reached \in [DOMAIN toastMsgQueue -> ReachAnyhow("getToastNotification", receivers)] :
               toastsOn' = Posted(toastsOn, toastMsgQueue, reached)
    ELSE UNCHANGED toastVars

SkipNotiMsgQueue(enabled) == UNCHANGED noteVars

DrainNewestFirst(enabled) ==
    IF enabled
    THEN /\ notiMsgQueue' = <<>>
         /\ Store([i \in DOMAIN notiMsgQueue |-> notiMsgQueue[Len(notiMsgQueue) + 1 - i]])
    ELSE UNCHANGED noteVars

\* processNotiMsgQueue
ProcessNotiMsgQueue(enabled) ==
    IF enabled
    THEN notiMsgQueue' = <<>> /\ Store(notiMsgQueue)
    ELSE UNCHANGED noteVars

ForgetAlertStatus(after) == UNCHANGED alertVars

\* UiAlert's sigStatus(true) is connected to onAlertStatus.
OnAlertStatus(after) ==
    IF SignalsEnabled(uiStatus, after, "alert")
    THEN ProcessAlertMsgQueue(UI_ENABLED, subs["getAlertNotification"])
    ELSE UNCHANGED alertVars

-----------------------------------------------------------------------------
(* The shell: its subscriptions, and the functions they put off.             *)

\* Utils::async, guarded by the model's bound on waiting functions.
Async(call) ==
    /\ Len(asyncCalls) < MaxAsync
    /\ asyncCalls' = Append(asyncCalls, call)

\* What processes the subscription of client c to method m.
Subscribe(c, m) ==
    /\ c \notin subs[m]
    /\ subs' = [subs EXCEPT ![m] = @ \cup {c}]

LeaveUiEnabledForLater(c, m) ==
    /\ m \in PostMethods \cap Subscribable
    /\ Subscribe(c, m)
    /\ Async("enableUi")
    /\ ProcessNotiMsgQueue(UI_ENABLED)
    /\ ProcessAlertMsgQueue(UI_ENABLED, subs'["getAlertNotification"])
    /\ ProcessToastMsgQueue(UI_ENABLED, subs'["getToastNotification"])
    /\ UNCHANGED <<uiStatus, silence, UI_ENABLED, toastCount, callVars>>

EnableUiOnce(c, m) ==
    /\ m \in PostMethods \cap Subscribable
    /\ Subscribe(c, m)
    /\ IF UI_ENABLED THEN UNCHANGED asyncCalls ELSE Async("enableUi")
    /\ UI_ENABLED' = TRUE
    /\ ProcessNotiMsgQueue(TRUE)
    /\ ProcessAlertMsgQueue(TRUE, subs'["getAlertNotification"])
    /\ ProcessToastMsgQueue(TRUE, subs'["getToastNotification"])
    /\ UNCHANGED <<uiStatus, silence, toastCount, callVars>>

\* cb_getNotification: the three post methods share the handler, and each of
\* them drains all three queues, whatever lists have subscribers.
GetNotification(c, m) ==
    /\ m \in PostMethods \cap Subscribable
    /\ Subscribe(c, m)
    /\ Async("enableUi")
    /\ UI_ENABLED' = TRUE
    /\ ProcessNotiMsgQueue(TRUE)
    /\ ProcessAlertMsgQueue(TRUE, subs'["getAlertNotification"])
    /\ ProcessToastMsgQueue(TRUE, subs'["getToastNotification"])
    /\ UNCHANGED <<uiStatus, silence, toastCount, callVars>>

\* cb_getToastCount, subscribing: only the notification queue is drained.
GetToastCount(c) ==
    /\ "getToastCount" \in Subscribable
    /\ Subscribe(c, "getToastCount")
    /\ Async("enableToastUi")
    /\ UI_ENABLED' = TRUE
    /\ ProcessNotiMsgQueue(TRUE)
    /\ UNCHANGED <<uiStatus, silence, alertVars, toastVars, toastCount, callVars>>

\* cb_SubscriptionCanceled, while the client is still counted on its list. The
\* count is the list's own; the bit it clears belongs to every component. A
\* client that leaves a list takes what it showed with it.
SubscriptionCanceled(c, m) ==
    /\ c \in subs[m]
    /\ subs' = [subs EXCEPT ![m] = @ \ {c}]
    /\ IF m \in {"getToastNotification", "getAlertNotification"} /\ subs[m] = {c}
       THEN Async("disableUi")
       ELSE UNCHANGED asyncCalls
    /\ alertsOn' = IF m = "getAlertNotification" THEN [alertsOn EXCEPT ![c] = {}] ELSE alertsOn
    /\ toastsOn' = IF m = "getToastNotification" THEN [toastsOn EXCEPT ![c] = {}] ELSE toastsOn
    /\ UNCHANGED <<uiStatus, silence, UI_ENABLED, alertMsgQueue, toastMsgQueue,
                   noteVars, toastCount, callVars>>

EnableAlertUiOnly(call) ==
    CASE call = "enableUi"      -> EnableComp(uiStatus, "alert", {"ui"})
      [] call = "enableToastUi" -> EnableComp(uiStatus, "toast", {"ui"})
      [] call = "disableUi"     -> Disable(uiStatus, {"ui"})

\* The status a function handed to Utils::async leaves.
AfterCall(call) ==
    CASE call = "enableUi"      -> Enable(uiStatus, {"ui"})
      [] call = "enableToastUi" -> EnableComp(uiStatus, "toast", {"ui"})
      [] call = "disableUi"     -> Disable(uiStatus, {"ui"})

\* cbAsync: the main loop runs the functions one by one, oldest first.
RunAsync ==
    /\ asyncCalls # <<>>
    /\ asyncCalls' = Tail(asyncCalls)
    /\ uiStatus' = AfterCall(Head(asyncCalls))
    /\ OnAlertStatus(uiStatus')
    /\ UNCHANGED <<silence, UI_ENABLED, subs, toastVars, noteVars, toastCount, callVars>>

\* cb_enable
EnableExternal ==
    /\ uiStatus' = Enable(uiStatus, {"external"})
    /\ OnAlertStatus(uiStatus')
    /\ UNCHANGED <<silence, UI_ENABLED, asyncCalls, subs, toastVars, noteVars,
                   toastCount, callVars>>

\* cb_disable
DisableExternal ==
    /\ uiStatus' = Disable(uiStatus, {"external"})
    /\ UNCHANGED <<silence, UI_ENABLED, asyncCalls, subs, alertVars, toastVars,
                   noteVars, toastCount, callVars>>

\* Settings::cb_getSystemSettingForOption: the toasts of a shop demo.
SystemSettingForOption ==
    /\ silence' \in BOOLEAN
    /\ UNCHANGED <<uiStatus, UI_ENABLED, asyncCalls, subs, alertVars, toastVars,
                   noteVars, toastCount, callVars>>

-----------------------------------------------------------------------------
(* Alerts.                                                                   *)

\* alertRespond: an alert whose queue is full is answered like one that waits.
AlertRespond(a) ==
    IF ~AllEnabled(uiStatus, {"ui"})
    THEN /\ alertMsgQueue' = Push(alertMsgQueue, Adding(a))
         /\ Answer(a, "ok")
         /\ UNCHANGED alertsOn
    ELSE \E success \in BOOLEAN :
            PostAlert(Adding(a), success) /\ Answer(a, IF success THEN "ok" ELSE "unposted")

\* alertRespondWithError
AlertRespondWithError(a) == Answer(a, "error") /\ UNCHANGED alertVars

\* The isCallAllowed call for the next of n uris goes out, or fails to.
CheckNextUri(a, n) ==
    \/ /\ uriChecks' = [uriChecks EXCEPT ![a] = n]
       /\ UNCHANGED <<reply, alertVars>>
    \/ /\ uriChecks' = [uriChecks EXCEPT ![a] = 0]
       /\ AlertRespondWithError(a)

\* cb_createAlert. "bad" stands for every flaw of the request or its caller;
\* n counts the uris of its buttons and its onclose.
CreateAlert(a, bad, ignoreDisable, n) ==
    /\ reply[a] = "none" /\ uriChecks[a] = 0
    /\ forced' = IF ignoreDisable THEN forced \cup {a} ELSE forced
    /\ IF bad \/ (~ignoreDisable /\ ~IsEnabled(uiStatus, "alert", {"system", "external"}))
       THEN AlertRespondWithError(a) /\ UNCHANGED uriChecks
       ELSE IF n = 0
       THEN AlertRespond(a) /\ UNCHANGED uriChecks
       ELSE CheckNextUri(a, n)
    /\ UNCHANGED <<gateVars, toastVars, noteVars, toastCount, closed, restarts>>

KeepCheckingRefused(a, allowed) ==
    /\ uriChecks[a] > 0
    /\ IF ~allowed
       THEN /\ uriChecks' = [uriChecks EXCEPT ![a] = @ - 1]
            /\ AlertRespondWithError(a)
       ELSE IF uriChecks[a] = 1
       THEN /\ uriChecks' = [uriChecks EXCEPT ![a] = 0]
            /\ AlertRespond(a)
       ELSE CheckNextUri(a, uriChecks[a] - 1)
    /\ UNCHANGED <<gateVars, toastVars, noteVars, toastCount, forced, closed, restarts>>

ShowBeforeAllUrisChecked(a, allowed) ==
    /\ uriChecks[a] > 0
    /\ IF ~allowed
       THEN /\ uriChecks' = [uriChecks EXCEPT ![a] = 0]
            /\ AlertRespondWithError(a)
       ELSE /\ uriChecks' = [uriChecks EXCEPT ![a] = @ - 1]
            /\ IF uriChecks[a] = 1 THEN AlertRespond(a)
               ELSE PostAlert(Adding(a), UI_ENABLED) /\ UNCHANGED reply
    /\ UNCHANGED <<gateVars, toastVars, noteVars, toastCount, forced, closed, restarts>>

\* cb_createAlertIsAllowed: the answer about one uri, an error included.
CreateAlertIsAllowed(a, allowed) ==
    /\ uriChecks[a] > 0
    /\ IF ~allowed
       THEN /\ uriChecks' = [uriChecks EXCEPT ![a] = 0]
            /\ AlertRespondWithError(a)
       ELSE IF uriChecks[a] = 1
       THEN /\ uriChecks' = [uriChecks EXCEPT ![a] = 0]
            /\ AlertRespond(a)
       ELSE CheckNextUri(a, uriChecks[a] - 1)
    /\ UNCHANGED <<gateVars, toastVars, noteVars, toastCount, forced, closed, restarts>>

\* The ids that somebody was told: with the answer, or with the row or the
\* message of a request whose post failed.
IsIdKnown(x) == reply[x] \in {"ok", "unposted"}

\* What cb_closeAlert and cb_closeAllAlerts share: the close is answered with
\* success when it was posted, and with an error when that failed or it waits.
CloseAlerts(gone) ==
    /\ \E success \in BOOLEAN :
          /\ PostAlert(Dropping(gone), success)
          /\ closed' = IF success THEN closed \cup gone ELSE closed
    /\ UNCHANGED <<gateVars, toastVars, noteVars, toastCount, uriChecks, reply, forced, restarts>>

\* cb_closeAlert
CloseAlert(a) == IsIdKnown(a) /\ CloseAlerts({a})

\* cb_closeAllAlerts
CloseAllAlerts == CloseAlerts({a \in Alerts : IsIdKnown(a)})

-----------------------------------------------------------------------------
(* Toasts.                                                                   *)

\* What is wrong with a createToast: nothing, a message or displayId that is
\* no good, a source or content that is no good, an application blocked in
\* Settings, or an expiry in the past or before the clock is set.
ToastFlaws == {"none", "unknown", "unsound", "appBlocked", "badSchedule"}

AcceptToastBeforeUi(flaw, ignoreDisable, stale) ==
    \/ flaw \in {"unsound", "badSchedule"}
    \/ ~ignoreDisable /\ ~IsEnabled(uiStatus, "toast", {"system", "external"})
    \/ ~ignoreDisable /\ flaw = "appBlocked"

\* Every check of cb_createToast after the counter was incremented.
IsToastRefused(flaw, ignoreDisable, stale) ==
    \/ flaw \in {"unsound", "badSchedule"}
    \/ ~ignoreDisable /\ ~IsEnabled(uiStatus, "toast", {"system", "external"})
    \/ ~ignoreDisable /\ flaw = "appBlocked"
    \/ ~stale /\ ~IsEnabled(uiStatus, "toast", {"ui"})

CountUnread(d) ==
    /\ toastCount[d].unreadCount < MaxCount
    /\ toastCount' = [toastCount EXCEPT ![d].unreadCount = @ + 1]

\* cb_createToast: the toast is counted before it is checked, and a persistent
\* one is stored before it is posted: its row stays when the post fails.
CreateToast(t, flaw, ignoreDisable, stale, persistent) ==
    /\ reply[t] = "none"
    /\ IF flaw = "unknown"
       THEN Answer(t, "error") /\ UNCHANGED <<toastCount, toastVars, storeVars>>
       ELSE /\ CountUnread(DisplayOf[t])
            /\ IF IsToastRefused(flaw, ignoreDisable, stale)
               THEN Answer(t, "error") /\ UNCHANGED <<toastVars, storeVars>>
               ELSE /\ IF persistent THEN Store(<<Adding(t)>>) ELSE UNCHANGED storeVars
                    /\ \E success \in BOOLEAN :
                          /\ PostToast(Adding(t), stale, success)
                          /\ Answer(t, IF success THEN "ok" ELSE "unposted")
    /\ UNCHANGED <<gateVars, alertVars, notiMsgQueue, uriChecks, forced, closed, restarts>>

\* What the two forms of cb_closeToast share: rows go, then a close is posted,
\* and the answer is success whatever became of it.
CloseToasts(rows, gone) ==
    /\ Store(<<Dropping(rows)>>)
    /\ \E success \in BOOLEAN : PostToast(Dropping(gone), FALSE, success)
    /\ UNCHANGED <<gateVars, alertVars, notiMsgQueue, toastCount, callVars>>

\* cb_closeToast by toastId, of which only the timestamp is looked at, and by
\* the sourceId of a privileged caller's choice. Either deletes the row of a
\* notification as well.
CloseToast(x) == IsIdKnown(x) /\ CloseToasts({x}, {x} \cap Toasts)
CloseToastsOf(source) == CloseToasts(RowsOf(source), RowsOf(source) \cap Toasts)

MovedBelowZero(count, from, to) == [count EXCEPT ![from] = @ - 1, ![to] = @ + 1]

MovedForgettingRest(count, from, to) == [NoCount EXCEPT ![to] = count[to] + 1]

\* One toast of a display's counters changes sides.
Moved(count, from, to) ==
    [count EXCEPT ![from] = IF @ > 0 THEN @ - 1 ELSE 0, ![to] = @ + 1]

\* cb_setToastStatus: the row that has this timestamp is merged, if there is
\* one, and the counters of the display the caller names follow regardless.
SetToastStatus(t, d, status) ==
    /\ IsIdKnown(t)
    /\ readRows' = IF status THEN readRows \cup ({t} \cap history) ELSE readRows \ {t}
    /\ toastCount' = [toastCount EXCEPT ![d] =
                         IF status THEN Moved(@, "unreadCount", "readCount")
                         ELSE Moved(@, "readCount", "unreadCount")]
    /\ toastCount'[d].readCount <= MaxCount /\ toastCount'[d].unreadCount <= MaxCount
    /\ UNCHANGED <<gateVars, alertVars, toastVars, notiMsgQueue, history, callVars>>

-----------------------------------------------------------------------------
(* Notifications.                                                            *)

PostBeforeChecking(n, bad) ==
    /\ reply[n] = "none"
    /\ PostNotification(Adding(n))
    /\ Answer(n, IF bad THEN "error" ELSE "ok")
    /\ UNCHANGED <<gateVars, alertVars, toastVars, toastCount, uriChecks, forced, closed, restarts>>

\* cb_createNotification, answered with success once it is posted or queued.
CreateNotification(n, bad) ==
    /\ reply[n] = "none"
    /\ IF bad THEN Answer(n, "error") /\ UNCHANGED noteVars
       ELSE PostNotification(Adding(n)) /\ Answer(n, "ok")
    /\ UNCHANGED <<gateVars, alertVars, toastVars, toastCount, uriChecks, forced, closed, restarts>>

\* What the two forms of cb_removeNotification share. A full queue drops the
\* removal, and the answer is success all the same.
RemoveRows(rows) ==
    /\ PostNotification(Dropping(rows))
    /\ closed' = IF UI_ENABLED \/ Len(notiMsgQueue) < kMaxQueuedMessages
                 THEN closed \cup {n \in rows \cap Notes : reply[n] = "ok"}
                 ELSE closed
    /\ UNCHANGED <<gateVars, alertVars, toastVars, toastCount, uriChecks, reply, forced, restarts>>

\* cb_removeNotification by ids, which only notifications have, and by source.
RemoveNotification(gone) ==
    gone # {} /\ (\A n \in gone : reply[n] = "ok") /\ RemoveRows(gone)

RemoveNotificationsOf(source) == RemoveRows(RowsOf(source))

\* cb_removeAllNotification: db8 forgets the rows with this displayId, which
\* only toasts have; the counters are zeroed even when that must wait.
RemoveAllNotification(d) ==
    /\ PostNotification(Dropping(ToastsAt(d)))
    /\ toastCount' = [toastCount EXCEPT ![d] = NoCount]
    /\ UNCHANGED <<gateVars, alertVars, toastVars, callVars>>

-----------------------------------------------------------------------------
\* The daemon ends and its unit starts it again: memory and subscriptions are
\* gone, the database and what the shell shows are not.
Restart ==
    /\ restarts < MaxRestarts
    /\ restarts' = restarts + 1
    /\ uiStatus' = InitialStatus /\ silence' = FALSE /\ UI_ENABLED' = FALSE
    /\ asyncCalls' = <<>>
    /\ alertMsgQueue' = <<>> /\ toastMsgQueue' = <<>> /\ notiMsgQueue' = <<>>
    /\ subs' = [m \in Methods |-> {}]
    /\ uriChecks' = [a \in Alerts |-> 0]
    /\ toastCount' = [d \in Displays |-> NoCount]
    /\ reply' = [x \in Requests |->
                    IF x \in Alerts /\ uriChecks[x] > 0 THEN "lost" ELSE reply[x]]
    /\ UNCHANGED <<storeVars, alertsOn, toastsOn, forced, closed>>

Next ==
    \/ \E c \in Clients, m \in Methods : GetNotification(c, m) \/ SubscriptionCanceled(c, m)
    \/ \E c \in Clients : GetToastCount(c)
    \/ RunAsync
    \/ EnableExternal
    \/ DisableExternal
    \/ SystemSettingForOption
    \/ \E a \in Alerts, bad, ignoreDisable \in BOOLEAN, n \in 0 .. MaxUris :
          CreateAlert(a, bad, ignoreDisable, n)
    \/ \E a \in Alerts, allowed \in BOOLEAN : CreateAlertIsAllowed(a, allowed)
    \/ \E a \in Alerts : CloseAlert(a)
    \/ CloseAllAlerts
    \/ \E t \in Toasts, flaw \in ToastFlaws, ignoreDisable, stale, persistent \in BOOLEAN :
          CreateToast(t, flaw, ignoreDisable, stale, persistent)
    \/ \E x \in Rows : CloseToast(x)
    \/ \E t \in Toasts, d \in Displays, status \in BOOLEAN : SetToastStatus(t, d, status)
    \/ \E s \in Sources : CloseToastsOf(s) \/ RemoveNotificationsOf(s)
    \/ \E n \in Notes, bad \in BOOLEAN : CreateNotification(n, bad)
    \/ \E gone \in SUBSET Notes : RemoveNotification(gone)
    \/ \E d \in Displays : RemoveAllNotification(d)
    \/ Restart

\* glib dispatches a ready source again and again until it is gone: a deferred
\* function is run in the end. Nothing else is sure to happen.
Spec == Init /\ [][Next]_vars /\ WF_vars(RunAsync)

-----------------------------------------------------------------------------
(* Properties.                                                               *)

QueuesOf(items) ==
    {q \in Seq(MessagesOver(items)) : Len(q) <= kMaxQueuedMessages}

\* Every variable has its type; no queue ever holds more than
\* kMaxQueuedMessages messages, however a handler comes to fill it
\* (queueHasRoom), and no counter goes below zero.
TypeOK ==
    /\ uiStatus \in Status
    /\ silence \in BOOLEAN
    /\ UI_ENABLED \in BOOLEAN
    /\ asyncCalls \in Seq(Calls)
    /\ alertMsgQueue \in QueuesOf(Alerts)
    /\ toastMsgQueue \in QueuesOf(Toasts)
    /\ notiMsgQueue \in QueuesOf(Rows)
    /\ subs \in [Methods -> SUBSET Clients]
    /\ uriChecks \in [Alerts -> 0 .. MaxUris]
    /\ history \subseteq Rows
    /\ readRows \subseteq history
    /\ toastCount \in [Displays -> [readCount : Nat, unreadCount : Nat]]
    /\ alertsOn \in [Clients -> SUBSET Alerts]
    /\ toastsOn \in [Clients -> SUBSET Toasts]
    /\ reply \in [Requests -> Replies]
    /\ forced \subseteq Alerts
    /\ closed \subseteq Alerts \cup Notes
    /\ restarts \in Nat

\* No component's ui bit is set, nor about to be by a deferred function, while
\* UI_ENABLED is false: whoever is let through by UiStatus is let through by
\* the flag as well. The comment on the drains (NotificationService.cpp:3010)
\* asserts the opposite: that onAlertStatus can find UI_ENABLED false.
UiBitImpliesUiEnabled ==
    \/ UI_ENABLED
    \/ /\ \A c \in Comps : "ui" \notin uiStatus[c]
       /\ \A i \in DOMAIN asyncCalls : asyncCalls[i] = "disableUi"

\* An alert component with all its gates open holds no alert back: whichever
\* of enable, a deferred function or a subscription opened the last of them,
\* and whatever happened between a subscription and its deferred enabling.
EnabledAlertsNotHeld ==
    IsEnabled(uiStatus, "alert", Bits) => alertMsgQueue = <<>>

\* A request that was refused, that got no answer, or that is still having its
\* uris checked has left nothing anywhere: not in a queue, not on a screen and
\* not in the database. One whose post failed waits in no queue, so that it
\* does not come up after its error; what stays of it is what the post reached
\* before it failed and the row of a persistent toast, which
\* postToastNotification saves first (NotificationService.cpp:1688).
OnlyAcceptedIsKnown ==
    \A x \in Requests :
        /\ x \in AddedBy(alertMsgQueue) \cup AddedBy(toastMsgQueue) \cup AddedBy(notiMsgQueue)
               => reply[x] = "ok"
        /\ x \in history \/ (\E c \in Clients : x \in alertsOn[c] \cup toastsOn[c])
               => reply[x] \in {"ok", "unposted"}

\* An alert is posted in one step of its life at most: it is queued or posted by
\* the handler that answers its caller and by no other, and the post of one that
\* was queued takes it away, whoever drains the queue and however often: by three
\* handlers and by a signal (the comment on the drains, line 3006).
AlertsPostedOnce ==
    [][\A a \in Alerts :
          LET answered == reply[a] = "none" /\ reply'[a] \in {"ok", "unposted"}
          IN  /\ a \in AddedBy(alertMsgQueue') => a \in AddedBy(alertMsgQueue) \/ answered
              /\ \A c \in Clients : a \in alertsOn[c]' \ alertsOn[c] =>
                    /\ a \notin AddedBy(alertMsgQueue')
                    /\ a \in AddedBy(alertMsgQueue) \/ answered]_vars

\* The caller of an alert is answered once, however its uri checks end, and
\* none is being checked that was answered already (AlertData).
AnsweredOnce ==
    \A x \in Requests :
        /\ reply[x] # "twice"
        /\ x \in Alerts /\ uriChecks[x] > 0 => reply[x] = "none"

\* A toast reaches a screen only in the handler that creates it: none is ever
\* released from toastMsgQueue later, when it is no longer news. (createToast
\* refuses before postToastNotification would queue it.)
ToastsShownAtOnce ==
    [][\A t \in Toasts, c \in Clients :
          t \in toastsOn[c]' \ toastsOn[c] =>
              reply[t] = "none" /\ reply'[t] \in {"ok", "unposted"}]_vars

\* A close waits in toastMsgQueue only while nobody is subscribed to toasts,
\* although getToastCount lets the user interface in without draining it.
ToastQueueDrained ==
    subs["getToastNotification"] # {} => toastMsgQueue = <<>>

\* The two counters of a display trade with each other but lose nothing, other
\* than all of it at once (cb_setToastStatus, cb_removeAllNotification).
CountsConserved ==
    [][\A d \in Displays :
          LET total(count) == count[d].readCount + count[d].unreadCount
          IN  total(toastCount') >= total(toastCount) \/ total(toastCount') = 0]_vars

\* Once the shell was let in, no change of the panel waits any more: each of
\* the subscriptions that set UI_ENABLED drains this queue.
NotiQueueDrained == UI_ENABLED => notiMsgQueue = <<>>

\* The panel's rows change as NotificationLog promises.
Log == INSTANCE NotificationLog WITH
    waiting <- notiMsgQueue, stored <- history, Room <- kMaxQueuedMessages,
    RowsOfOneSource <- {RowsOf(s) : s \in Sources}

AppliedInOrder == Log!LogSpec

\* A notification that was removed does not come back: when its creation still
\* waits, the removal waits behind it and undoes it in the same drain
\* (postNotification and processNotiMsgQueue). A restart may lose the removal
\* with the queue, but brings nothing back either.
RemovedStaysRemoved ==
    [][\A n \in Notes \cap closed : n \in history' => n \in history]_vars

\* An alert that comes between a subscription and the deferred enabling it
\* asked for is not stranded in the queue, unless alerts were disabled or the
\* shell left meanwhile.
IsAsyncPending(call) == \E i \in DOMAIN asyncCalls : asyncCalls[i] = call

HeldAlertIsReleased ==
    IsAsyncPending("enableUi") /\ alertMsgQueue # <<>>
        ~> \/ alertMsgQueue = <<>>
           \/ "external" \notin uiStatus["alert"]
           \/ IsAsyncPending("disableUi")

\* A list that loses its last subscriber clears the ui bits of all components
\* (cb_SubscriptionCanceled), those of alerts too. While both lists that can do
\* so have subscribers, though, an alert waits only for an enabling that is
\* deferred and that no deferred disabling undoes, in whatever order clients came
\* and went: the safety half of HeldAlertIsReleased.
ReleaseIsComing ==
    /\ alertMsgQueue # <<>>
    /\ subs["getAlertNotification"] # {} /\ subs["getToastNotification"] # {}
    /\ "external" \in uiStatus["alert"]
    => \E i \in DOMAIN asyncCalls :
          /\ asyncCalls[i] = "enableUi"
          /\ \A j \in DOMAIN asyncCalls : j > i => asyncCalls[j] # "disableUi"

-----------------------------------------------------------------------------
(* What the comments and the API documentation say and the code does not do. *)

IsShown(a) == \E c \in Clients : a \in alertsOn[c]

\* "Keep the most recent kMaxQueuedMessages" (NotificationService.cpp:197): an
\* alert that is accepted while the shell is away is among those kept.
NewestIsKept ==
    [][\A a \in Alerts :
          reply[a] = "none" /\ reply'[a] = "ok" /\ ~AllEnabled(uiStatus, {"ui"})
              => a \in AddedBy(alertMsgQueue')]_vars

\* "Everything that arrives before the shell has subscribed is held until it
\* does" (NotificationService.cpp:194): an alert leaves the queue for a screen.
HeldUntilShown ==
    [][\A a \in After({}, alertMsgQueue) :
          restarts' = restarts =>
              \/ a \in AddedBy(alertMsgQueue')
              \/ \E c \in Clients : a \in alertsOn'[c]]_vars

\* The same sentence from its other end: an alert is held only until the shell
\* has subscribed. With nothing deferred and alerts not disabled, no alert
\* waits while a client is subscribed to alerts.
HeldOnlyUntilSubscribed ==
    asyncCalls = <<>> /\ "external" \in uiStatus["alert"]
        /\ subs["getAlertNotification"] # {}
        => alertMsgQueue = <<>>

\* disable: "Block any notifications" (NotificationService.cpp:2942). No alert
\* comes to a screen while disabled, but one with ignoreDisable.
DisableBlocksAlerts ==
    [][\A a \in Alerts \ forced' :
          "external" \notin uiStatus["alert"] /\ "external" \notin uiStatus'["alert"]
              => \A c \in Clients : a \in alertsOn'[c] => a \in alertsOn[c]]_vars

\* closeAlert: "Closes the alert that is being displayed"
\* (NotificationService.cpp:2207), of the id that createAlert returned. An
\* alert whose close succeeded is on no screen afterwards.
ClosedAlertStaysClosed == \A a \in Alerts \cap closed : ~IsShown(a)
=============================================================================
