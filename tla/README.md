# notificationmgr in TLA+

A model of the webOS notification manager: the daemon (`src/src/`) that takes
alerts, toasts and notifications from applications over the Luna bus, lets them
through a set of gates, keeps them while the shell is away, stores some of them
in db8 and posts them to the shell's subscriptions; the list of
applications that may not show toasts, with its file; the mirror of the
application manager's list; and the daemon's side of db8. The modules are
checked with TLC on small instances, and the theorems in the `...Proofs` modules
are proved with TLAPS for every value of the constants.

All line numbers below are of `src/src/NotificationService.cpp` unless a file is
named.

## 1. The system

One process, one thread, one glib main loop. Everything happens in a callback:
a bus method, a reply of another service, a cancelled subscription, a deferred
function (`Utils::async`, a `g_timeout_add(0)`), a settings change. A callback
runs to its end, so *handlers are atomic and their order is not*. Every hard
behaviour comes from what may run between two handlers that belong together.

| Part | State | Operations | Talks to |
|---|---|---|---|
| Gates (`UiStatus.cpp`) | a mask of `ENABLE_SYSTEM`, `ENABLE_EXTERNAL`, `ENABLE_UI` for each of alert, input, prompt, toast; `m_silence` of the toast component | enable, disable (all components or one), `setSilence`; `sigStatus` when all bits of a component are set | drains the alert queue by signal (`onAlertStatus`) |
| Shell subscriptions and waiting queues | the flag `UI_ENABLED`; three queues of at most `kMaxQueuedMessages` (256); the bus's subscription lists | subscribe to the three post methods or to `getToastCount`, cancel, drain, deferred enabling and disabling | gates, posts, db8 |
| Alerts | the `AlertData` that travels with each `isCallAllowed` call | `createAlert`, `cb_createAlertIsAllowed`, `closeAlert`, `closeAllAlerts` | bus hub, gates, alert queue |
| Toasts and counters | `toastCountVector` | `createToast`, `closeToast`, `setToastStatus` | gates, toast queue, db8 |
| Panel | rows in db8 | `createNotification`, `removeNotification`, `removeAllNotification` | notification queue, db8 |
| Toast settings (`Settings.cpp`) | the block list and its file | `enableToast`, `disableToast`, `getToastSettings` | the application list, which decides whose ids are taken; `createToast` reads the block list |
| Settings from the system | store-demo silence | two settings-service callbacks | gates |
| History (`History.cpp`, `SystemTime.cpp`) | the calls in flight to db8, the flag of the purge, whether the clock is right | `getNotificationInfo`, `getToastList`, put, delete, merge, purge after the first time sync | db8 by two service names, the system service |
| Application list (`AppList.cpp`) | a mirror of the application manager's list | status of the manager on the bus, first reply, changes | titles and icons of toasts, toast settings |

What makes each part correct, in one line:

- **gates** - what is let through by one of the two gates (the `UI_ENABLED` flag
  and the `ENABLE_UI` bits) is not stopped by the other, and opening the last
  gate releases what waited;
- **queues** - bounded, drained in order, nothing stays behind once the shell is in;
- **alerts** - answered once, shown only when every uri was allowed, not shown
  when refused;
- **toasts** - shown when they are created or never; counters lose nothing;
- **panel** - the rows change in the order the changes were asked for, although
  some wait in a queue and others do not;
- **toast settings** - memory and file hold the list as it is or as it once
  was, never something else, and whoever draws the list knows it;
- **application list** - nothing the manager tells is missed or counted twice,
  and the mirror is right again after either side restarted;
- **history** - db8 comes to what its calls were made for, each query is answered
  once, to its caller, with the rows of its moment; expired rows go and read
  marks stay.

The hazards, each at its line, are in `PROJECT.json`.

## 2. The modules

| Module | What it is |
|---|---|
| `UiStatus` | the gates as operators on the record of masks |
| `Messages` | what a message, and a sequence of messages, does to what its receiver holds |
| `NotificationService` | the daemon: one action per method, reply, cancel, deferred function and restart |
| `NotificationLog` | the abstract specification of the panel: changes in line, applied in order |
| `NotificationServiceProofs`, `RequestProofs` | its theorems: gates, queues and panel; requests, toasts and counters |
| `MCNotificationService` | its instances for TLC |
| `AppList` | the application list, with the manager and the bus's status signal as environment |
| `ToastSettings` | `enableToast`, `disableToast`, `getToastSettings` and the saving of the block list; composes `AppList` (whose ids the methods take) and the gates of `UiStatus` (what the payload tells) |
| `BlockList` | the abstract specification of the block list: blocked, let go, saved, recovered |
| `History` | the calls to db8 in flight, queries, merges, the clock and the purge |
| `MCHistory` | its instance for TLC |
| `AppListProofs`, `MirrorProofs` | theorems of `AppList`: how often the daemon asks and is subscribed; what the mirror holds |
| `ToastSettingsProofs`, `HistoryProofs` | theorems of `ToastSettings` (it extends `MirrorProofs`, since the module composes `AppList`) and of `History` |
| `NatInduction` | induction on the natural numbers, in a form the provers can use |

`NotificationService` applies a put or a deletion to db8's rows in the handler
that makes the call. That this is no loss is what `History` shows
(`RowsAsCalled`): calls of one service name are taken in the order in which they
are made. In the same way the core has a blocked application as one of the flaws
a toast can have, and `ToastSettings` says when an application is blocked.

### State of the core

| Variable | In the code |
|---|---|
| `uiStatus`, `silence` | `UiComp::m_enabled` of the four components, `UiToast::m_silence` |
| `UI_ENABLED` | the static flag; set by subscriptions, never cleared before a restart |
| `asyncCalls` | the sources `Utils::async` gave to the main loop, oldest first |
| `alertMsgQueue`, `toastMsgQueue`, `notiMsgQueue` | the vectors of the same names |
| `subs` | the bus library's subscription list of each method |
| `uriChecks` | for an alert in its `isCallAllowed` round trips, the uris not yet allowed (`AlertData::uriList`) |
| `history`, `readRows` | the rows of db8, and those with `readStatus` true |
| `toastCount` | `toastCountVector`, by display |
| `alertsOn`, `toastsOn` | what each shell client has on screen (external: the sum of the posts it got) |
| `reply` | what the caller of each request was answered: `"ok"`; `"error"` when it was refused; `"unposted"`, an error as well, when it passed every check and its post failed; `"lost"` when a restart took the request, `"twice"` when it was answered again |
| `forced`, `closed` | history variables for three properties: alerts with `ignoreDisable`; alerts whose close was answered with success, and notifications whose removal was posted or queued |

`Failing`, a constant, names the lists to which a post may fail. A post that
fails (1723, 1774) may have reached any of the subscribers by then (`Reach`);
`postAlertNotification` and `postToastNotification` tell their callers, who
answer with an error, and the drains do not ask. An id can be used in later calls
(`IsIdKnown`) by whoever was told of it: with the answer, or, when the post
failed, by the shell that got the message or reads the row.

### Actions of the core

| Action | Handler |
|---|---|
| `GetNotification` | `cb_getNotification`, the common handler of `getNotification`, `getToastNotification`, `getAlertNotification` |
| `GetToastCount` | `cb_getToastCount`, subscribing |
| `SubscriptionCanceled` | `cb_SubscriptionCanceled` |
| `RunAsync` | `Utils::Private::cbAsync` with the function it calls, the `sigStatus` it emits and the drain that is connected to it |
| `EnableExternal`, `DisableExternal` | `cb_enable`, `cb_disable` |
| `SystemSettingForOption` | `Settings::cb_getSystemSettingForOption` |
| `CreateAlert`, `CreateAlertIsAllowed` | `cb_createAlert`, `cb_createAlertIsAllowed`, with `alertRespond` and `alertRespondWithError` |
| `CloseAlert`, `CloseAllAlerts` | `cb_closeAlert`, `cb_closeAllAlerts` |
| `CreateToast` | `cb_createToast` with `postToastNotification` |
| `CloseToast`, `CloseToastsOf` | the two forms of `cb_closeToast`; the id is only a timestamp, so that a notification's row goes as well |
| `SetToastStatus` | `cb_setToastStatus` |
| `CreateNotification` | `cb_createNotification` with `postNotification` |
| `RemoveNotification`, `RemoveNotificationsOf` | the two forms of `cb_removeNotification`; when both are given, the ids win (`deleteNotiMessageFromDb`) |
| `RemoveAllNotification` | `cb_removeAllNotification` |
| `Restart` | the end of the process and its start by the service unit (`main`) |

### The other modules

`AppList`

| Variable or action | In the code |
|---|---|
| `applist` | `m_applist`, taken apart by application: the icons of its entries in order. Entries of different ids do not touch each other in any function of `AppList.cpp`, and the first entry of an id speaks for it (`isAppExist`, `getIcon`) |
| `AppMgrBusStatusNotification`, `AppMgrAppList` | the two callbacks of the same names |
| `registered`, `askFailed` | the `registerServerStatus` call could be made; the last `listApps` call could not. Either failure is only logged, and without the first no status message comes |
| `RestartAppList` | a new process: `AppList::init` registers again, or fails to |
| `statusMsgs`, `appMsgs`, `listCalls` | what is on its way between the daemon, the bus and the manager |
| `installed`, `subscriptions`, `ChangeApp`, `StopManager`, ... | the manager (external): a change is told once to each subscription; what it wrote last may be lost when it leaves |

`ToastSettings`

| Variable or action | In the code |
|---|---|
| `blockedToastApps`, `disableToastTimestamp` | the members of the same names; of the timestamp only whether it is zero, and nothing reads it |
| `file`, `tmpFile` | the list's file and the temporary one beside it: absent, half-written, or a list |
| `saving`, `OpenTmp`, `WriteTmp`, `RenameTmp` | how far `saveBlockedToastApps` has come. A handler runs to its end, but the process may end in the middle of one, so that a save is a chain of steps; no other handler runs between them |
| `EndSave` | the rest of the handler: the post and an answer of success, whatever became of the save |
| `DisableToastForApp`, `EnableToastForApp`, `SetToastNotification` | `cb_disableToast` and `cb_enableToast`, with a source and without |
| `views` | what each subscriber of `getToastSettings` last got |
| `SetExternal` | `cb_enable` and `cb_disable`, as far as the payload tells of them |
| `promised`, `unsaved` | history variables: blocks answered with success by a call in which nothing failed; whether the last save failed |

`History`

| Variable or action | In the code |
|---|---|
| `dbCalls`, `merges` | calls of `LSCallOneReply` on their way, by service name: `palm://com.palm.db` and `luna://com.webos.service.db` |
| `answers`, `GetResponse` | replies to finds; `cbDb8getNotiResponse` and `cbDb8getToastResponse` |
| `SaveMessage`, `DeleteMessage`, `SetReadStatus` | the functions of the same names; `DeleteMessage` is any one deletion (`deleteMessage`, one id of `deleteNotiMessageFromDb`, `resetUserNotifications`) |
| `Ask`, `RefuseQuery` | `cb_getNotificationInfo` and `cb_getToastList` with `selectMessage` and `selectToastMessage` |
| `refs` | `LSMessageRef` less `LSMessageUnref` on the message of each query |
| `GetSystemTime`, `OnSystemTimeSync` | `cbGetSystemTime` with `setSync`; `onSystemTimeSync` with `purgeExpireData` |
| `db`, `readRows`, `TakeCall`, `TakeMerge` | db8 (external) takes the calls of one name in order, and each may fail |
| `rows`, `due`, `got`, `marked`, `syncedAt` | history variables: the table as the calls would leave it, what a query was to find and found, what was marked by somebody who was told of the row, the time of the purge |

### Abstractions

- An alert, toast or notification is one element, which also stands for the
  timestamp id it is given. Two requests in the same millisecond would share an
  id in the code; here they do not.
- A payload is a set of items it adds and a set it takes away (`Messages`).
  Wording, icons, schemas and logging are left out.
- The many ways in which a request can be malformed are one choice (`bad`, or a
  member of `ToastFlaws` where the code reacts differently: before or after it
  counts the toast, and with or without regard to `ignoreDisable`).
- `LSSubscriptionPost` may fail to the lists that `Failing` names, and then
  reaches any of their subscribers; each message of a drain does so by itself.
  A post to the panel (2430) is not looked at by anything, and what the panel is
  sent is not tracked. `LSMessageReply` and the db8 calls of the core are taken
  to succeed when made; the failure of the `isCallAllowed` call is modelled,
  since it ends a chain of round trips. The core applies the db8 calls in the order they are
  made, merges included; `History` has them in flight, lets them fail, and lets
  merges pass the others, since they go by another service name.
- Where a call's failure is of interest (`registerServerStatus`, `listApps`,
  db8's calls, the three file operations) it is a choice of the step that makes it.
- The shell's screens and db8 are external. A client that leaves a list, or
  whose connection ends, shows nothing of that list any more; what it shows
  survives a restart of the daemon.
- The system bits stay set: `cbGetSystemProperties`, which alone could clear
  them, is registered nowhere.
- Only privileged callers reach the subscriptions' side effects; the model has
  no others subscribe.

## 3. What is checked

Bounds are constants of the model with these names: `MaxUris`, `MaxAsync`,
`MaxCount`, `MaxRestarts`, `MaxChanges`, `MaxStops`, `MaxFailures`, `MaxCalls`,
`MaxFaults`, `MaxTime`; the queue's room `kMaxQueuedMessages` is the code's own
constant made small.

| Run | Instance | Question | States |
|---|---|---|---|
| `alerts` | 2 alerts, 2 clients, lists of alerts and toasts, room 2, 2 uris, 2 deferred functions, posts of alerts that fail, 1 restart | do the two gates agree, is no alert held behind open gates or stranded, does a refused alert leave no trace, is each answered once? | about 130 000, see below |
| `toasts` | 2 toasts of 2 sources, 1 client, lists of toasts and counts, room 1, counters to 2, 1 deferred function, posts of toasts that fail, 1 restart | are toasts shown at once or never, do queued closes outlast a subscription, do the counters lose anything? | about 360 000 |
| `notifications` | a notification and a persistent toast of one source, 1 client, room 2, posts of toasts that fail, 1 restart | do the rows of db8 change in the order asked for (`NotificationLog`), and does what was removed stay so? | about 220 000 |
| `app_list` | 2 applications, 2 icons, 3 changes, the manager leaves once, 1 restart | is the mirror right once the replies on their way are handled, and in the end? | about 380 000 |
| `settings` | 2 applications, 1 panel, 1 change, 1 failing file operation, 1 restart | do list and file keep their promise between any two steps of a save, and does the panel know the list? | about 150 000 |
| `history` | 1 row, 2 queries, 2 calls in flight, the clock at 0 to 2, 1 failure or restart | do calls, queries, merges and the purge come out right in every order? | about 640 000 |

Why these bounds are enough for the cases that matter: with two clients and two
lists a cancel can leave another list's subscriber behind; with two deferred
functions an enabling and a disabling can be in flight together in either order;
room for two messages has an empty, a partly filled and a full queue, and closes
compete with openings for the last place; two uris give a chain in which
something can happen between the round trips; one restart separates what
survives (db8, the screens) from what does not. A queue's length and the number
of clients are arbitrary in the theorems, and so is `Failing`. In the runs a post
fails to the list whose items the run is about; with two clients it reaches none,
one or both of them.

`Alerts.cfg` names a `VIEW`: TLC tells the states of that run apart without
`forced` and `closed` (`AlertsView`), which leaves a fraction of them. The two only
record what happened. No action of the run reads them, so that states which
differ in them alone have the same steps; no property of the run speaks of them
except `TypeOK`, in the conjunct that says what they are sets of; and the
fairness is that of `RunAsync`, which always changes `asyncCalls`.

In `app_list`, one departure of the manager is enough for two status messages
with the same content to wait and for the daemon to be subscribed twice, and
three changes add, change and remove an application while it is. In `settings`,
the manager stays (`app_list` is about its coming and going), two applications
make a list that can change again before or after a failed save, and the failure
may be in any of the three file operations. In `history`, one row is enough for
TLC because every call treats each row by itself: a put, a deletion or a merge
of one row neither reads nor changes another. Two queries overlap, and with two
calls on their way one can pass another or fail in front of it. The theorems are
about any number of rows, queries and calls.

The properties:

- `TypeOK` - types, the bound of every queue, no counter below zero.
- `UiBitImpliesUiEnabled` - the `ENABLE_UI` bits are never ahead of `UI_ENABLED`,
  counting enablings that wait in the main loop.
- `EnabledAlertsNotHeld` - an alert component whose gates are all open has
  nothing waiting.
- `OnlyAcceptedIsKnown` - a request that was refused, lost, or not answered yet is
  in no queue, on no screen and not in db8; one whose post failed is in no queue,
  and what is left of it is what the post reached before it failed and, of a
  persistent toast, the row that is saved first (1688). It relates the answer to
  six other pieces of state; the order of check, store, post and answer in four
  handlers has to be right.
- `AnsweredOnce` - whatever ends a chain of `isCallAllowed` replies, the caller
  gets one answer and the chain stops.
- `HeldAlertIsReleased` (liveness) - an alert that came between a subscription
  and the deferred enabling is released, unless alerts are disabled or a
  disabling of the gates is under way.
- `ReleaseIsComing` - its safety half: while alerts and toasts both have
  subscribers and alerts are enabled, an alert waits only for an enabling that is
  deferred and that no deferred disabling undoes. That only these two lists
  clear the ui bits when they empty, and that every subscription defers an
  enabling, also when the ui is enabled, has to fit together.
- `AlertsPostedOnce` - an alert is queued or posted by the handler that answers
  its caller, whether its post fails or not; a drain posts what it takes out of the
  queue and nothing twice, although three handlers and a signal drain it.
- `ToastsShownAtOnce`, `ToastQueueDrained` - `toastMsgQueue` holds closes only,
  and none while toasts have a subscriber, though `getToastCount` opens
  `UI_ENABLED` without draining it.
- `CountsConserved` - the two counters of a display trade without loss.
- `NotiQueueDrained` - once `UI_ENABLED` is set nothing waits for the panel.
- `RemovedStaysRemoved` - a notification that was removed does not come back to
  db8, although its creation may still wait when the removal is asked for.
- `AppliedInOrder` - the daemon's queue and rows implement `NotificationLog`
  (`waiting <- notiMsgQueue`, `stored <- history`).

- `AppListTypeOK` - types, and the daemon is not subscribed, nor about to be,
  more often than the manager came to the bus.
- `MirrorCatchesUp` - a mirror to which the replies on their way are applied is
  the manager's list, although the daemon may be subscribed twice and get every
  change twice.
- `MirrorAtRest` - when nothing is under way the mirror is the manager's list,
  whatever restarted before, unless `registerServerStatus` or the last `listApps`
  could not be made.
- `MirrorConverges` (liveness) - when applications and the manager come to rest,
  the mirror becomes their list, unless the daemon could not ask. Checked of the
  application list alone and of its composition with the settings, where
  handlers that save delay its messages.
- `TypeOK` of `ToastSettings` - types, and the list's file is never half-written.
- `ListKept` - list and file implement `BlockList`
  (`blocked <- blockedToastApps`, `saved <- Loaded(file)`).
- `IdleListIsSaved` - between handlers the file holds the list unless the last
  save failed; a save that succeeds makes up for those that failed.
- `PanelsKnowTheList` - a subscriber of `getToastSettings` knows the list as it is.
- `BlockHoldsUnlessSaveFails` - a block that was answered with success holds,
  wherever in a save the process ended since, as long as no save failed. What
  happens when one did is `block_lost` in section 4.
- `TypeOK` of `History` - types, and only rows of the table are read, whichever
  of a merge and a deletion is taken first.
- `RowsAsCalled` - without failures the table comes to what the calls were made
  for, in the order they were made.
- `AnswersAsOfCall` - a query gets the rows of the moment it was asked, to its
  own caller, though others overlap with it.
- `ReferencesBalance` - each query is answered once, and its message referenced
  exactly while it waits.
- `WaitingIsUnderWay` - a query that waits has its find on the way to db8 or the
  reply to it on the way back.
- `QueryIsAnswered` (liveness) - a query is answered, with an error if need be.
- `ExpiredAtSyncIsGone` - what had expired when the clock was known to be right
  is gone and does not come in later. Before that the clock may be set to any
  time, back or forward; once it is known to be right it only advances.
- `MarkIsKept` - a merge may pass the put of its row and is lost then, but not
  if the row was given to a caller first.

Every property of these runs has a mutant in `PROJECT.json`: a definition of the
model changed as a plausible bug would change the code, under which TLC finds
the property violated.

### Fairness

`Spec` asks for weak fairness of `RunAsync` and of nothing else. `Utils::async`
installs a glib timeout of zero milliseconds; the main loop dispatches every
ready source, and sources of one priority in the order they became ready. That
is why `asyncCalls` is a sequence and why its head is run in the end. Nothing
obliges the shell to subscribe, the hub to answer, or anyone to close anything,
so no action of theirs is fair.

- `AppList` - weak fairness of the two callbacks (the main loop dispatches what
  the bus delivers) and of `AnswerListApps`: a manager that is there answers.
  Applications, restarts and the manager's coming and going are not fair.
- `ToastSettings` - weak fairness of the steps of a save, since a handler goes
  on with what it began. The two callbacks of the application list are enabled
  only between handlers, and other handlers may come again and again: they have
  strong fairness, because the main loop gives every ready source its turn.
- `History` - weak fairness of `TakeCall` and of the dispatch of replies.

The deadlock check is on in all configurations but `AppList.cfg`, where
everything may come to rest: no application changes, and no message is on its
way.

## 4. What the code does otherwise than it says

Six runs each check one sentence of the repository and end in a counterexample.

| Run | The sentence | What happens |
|---|---|---|
| `queue_keeps_oldest` | "Keep the most recent kMaxQueuedMessages" (197) | `queueHasRoom` refuses the newest message; `createAlert` answers with success all the same |
| `drained_unseen` | "held until it does [subscribe]" (194) | subscribing to any list drains all three queues; alerts are posted to a list without subscribers |
| `alert_stranded` | the same sentence | when the last subscriber of toasts leaves, the ui bits of all components are cleared; alerts are queued although a client is subscribed to them |
| `disabled_yet_shown` | "Block any notifications" (2942) | an alert queued before `disable` is posted by the next subscription |
| `closed_yet_shown` | `closeAlert` "closes the alert" of the id (2207) | a close is posted as soon as `UI_ENABLED` is set, the alert waits for the ui bits; the close overtakes it |
| `block_lost` | the list is kept "so it survives a restart" (`Settings.h.in`, 31) | the save of a block fails, which is only logged; asked again, `disableToast` finds the application in the list, answers with success and writes nothing; after a restart the application is not blocked |

Two disagreements come out of what is proved, without a counterexample of their
own:

- The comment on the drains says "onAlertStatus() can reach
  processAlertMsgQueue() while UI_ENABLED is still false, so that was a live hang"
  (3010). It asserts the opposite of `UiBitImpliesUiEnabled`, which holds in the
  code and is proved (`GatesAgree`): the signal is emitted only when all bits of
  the alert component are set, and no ui bit is set, nor an enabling of one
  deferred, before `UI_ENABLED` is.
- A caller of `createToast` who gets an error may take it that there is no such
  toast. `OnlyAcceptedIsKnown` has to except `"unposted"`: a persistent toast is
  saved (1688) before its post fails (1723), and its row stays in db8. No sentence
  of the repository says otherwise, so that there is no run for it.

Seen while modelling, and without a run of their own because the code shows them
at a glance:

- `disableToast` and `enableToast` without a source set `m_disableToastTimestamp`,
  which nothing reads: "Disable Toast globally" (1978) has no effect, nor has it
  on `enabled` of `getToastSettings` (1863).
- The subscribers of `getToastSettings` get "the same object, whenever it
  changes" (1868), but `enable` and `disable`, which change `enabled`, post nothing.
- An application that is uninstalled while it is blocked, or not yet mirrored
  after a restart, cannot be let go: "This should never happen" (1927).
- A message with `schedule.expire` is said to be "removed by automatically when
  current time has been passed" (`createToast.schema`, 57); the purge runs once
  in the life of a process.
- The temporary file is not synced before the rename, so that a power failure
  may leave what the comment in `Settings.cpp` (415) means to rule out.

## 5. What is proved

`NotificationServiceProofs` and `RequestProofs` extend the core and TLAPS. They
prove every invariant and action property that the three runs of the core check.
Their only assumption is `ConstantsAssumption` (types of the constants, a queue has
room for something, alerts, toasts and notifications are different things).

| Theorem | States | Argument |
|---|---|---|
| `TypeCorrect` | `Spec => []TypeOK` | `TypeOK` is inductive. It is split into parts by subsystem (`GateTypes`, `AlertTypes`, ...), each helper of the handlers has a lemma that it keeps its part, and there is one lemma per group of actions |
| `GatesAgree` | `Spec => []UiBitImpliesUiEnabled` | inductive with `TypeOK`, because the property also speaks of the enablings that wait in `asyncCalls` |
| `AlertsNotHeld` | `Spec => []EnabledAlertsNotHeld` | needs `HeldInv`: `alertRespond` asks for the ui bit of *all* components, the signal that drains speaks for the alert component alone. `AlertUiStandsForAll` says that the alert component's ui bit is set only when every component's is. With `GatesAgree`, a post behind open gates is not queued |
| `ReleasesCome` | `Spec => []ReleaseIsComing` | `ReleaseInv`: while both lists have subscribers, either the ui gate of alerts is open and nothing deferred closes it, or the last deferred function that touches it opens it (`OpenOrOpening`); and the system gate stays open. Lemmas say what handing in a function and running the first one do to that (`OpeningAppended`, `OpeningTaken`). With `HeldInv`, an alert that waits while external is open finds the ui gate closed, so the second case holds |
| `PanelDrained` | `Spec => []NotiQueueDrained` | inductive: both handlers that set the flag drain this queue in the same step |
| `LogImplemented` | `Spec => AppliedInOrder` | step simulation. An action that posts maps to `Accept` or `Hold` (a full queue to a stutter), a drain to `Release`, a restart to `Lose`, toasts to `BesideTheLine`. `PanelDrained` is what makes `Accept` possible: it asks that nothing waits |
| `RemovalHolds` | `Spec => RemovedStaysRemoved` | the invariant `RemovalInv`: a removed notification was answered, so no second creation of it can come, and what waits in the queue leaves nothing of it (`n \notin After({}, notiMsgQueue)`). Each step either keeps out of the matter, empties the queue, or puts one change behind the others (`AsideStep`, `EmptyingStep`, `PostStep`) |
| `PostedOneByOne` | the closed form `After(held, Append(q, m))` is `Apply(After(held, q), m)`, and `After(held, <<>>)` is `held` | a drain posts one message after the other; `After` says in one formula what is left, so that it can be reasoned about without recursion |
| `DrainedPostByPost` | for a queue `q` of any length, if `f[0] = held` and each `f[i]` is `Apply(f[i - 1], q[i])`, then `f[Len(q)] = After(held, q)` | induction on the number of posts, with `PostedOneByOne` for each: the drains of the model, one step each, do what the loops of the code do |

The theorems of `RequestProofs`:

| Theorem | States | Argument |
|---|---|---|
| `ToastsDrained` | `Spec => []ToastQueueDrained` | `ToastQueueInv`: `toastMsgQueue` adds nothing, and a subscriber of toasts means that `UI_ENABLED` is set. The handler that makes the first subscriber drains the queue in the same step, and a close is queued only while the flag is clear |
| `ToastsAreNews` | `Spec => ToastsShownAtOnce` | from `ToastQueueInv`: a queue that adds nothing shows nothing when drained, whomever its posts reach |
| `CountsKept` | `Spec => CountsConserved` | a step is one of those that leave the counters, zero a display, count one toast, or move one |
| `AlertsComeOnce` | `Spec => AlertsPostedOnce` | each step either leaves queue and screens as they are for an alert, or answers it, or takes it out of the queue (`PostedOnce`); from `OnlyAcceptedIsKnown`, an alert that is being answered is in neither |
| `OneAnswer` | `Spec => []AnsweredOnce` | inductive with the types: what is still being checked has no answer, and a step answers only what it takes out of `uriChecks` |
| `KnownIsAccepted` | `Spec => []OnlyAcceptedIsKnown` | `AcceptedInv`: queues are covered by the requests answered with success (`Accepted`), screens and rows by these and the ones whose post failed (`Sent`); what `After` can add comes from the queue or was there (`PostedFrom`), whomever the posts reach, and an answer only ever adds to both sets |

The theorems of the other modules, from the named assumptions on their constants
(`AppListAssumption`, `ToastSettingsAssumption`, `HistoryAssumption`):

| Theorem | States | Argument |
|---|---|---|
| `MirrorTypeCorrect` | `AppListSpec => []AppListTypeOK` | the bound on calls and subscriptions is not inductive: it needs that the status messages alternate and that the last one tells the truth (`LastIsTrue`). A daemon that is not registered is told nothing (`Untold`). Then the messages `TRUE` still waiting, the calls and the subscriptions are together at most the times the manager came (`SubscribedAtMost`) |
| `MirrorHolds` | `AppListSpec => []MirrorCatchesUp` | see below |
| `MirrorRests` | `AppListSpec => []MirrorAtRest` | `Asked`: once a registered daemon was told of the manager that is there, and its call could be made, a call is on its way or the daemon is subscribed; with the invariant of `MirrorHolds`, nothing under way then means subscribed and caught up |
| `MirrorHoldsBesideSaves` | `Spec => [](AppListTypeOK /\ MirrorCatchesUp /\ MirrorAtRest)`, of `ToastSettings` | its steps are steps of `AppList` or leave the list alone (`AppListSteps`): saves delay its messages and change nothing about them |
| `BlocksHold` | `Spec => []BlockHoldsUnlessSaveFails` | `PromisesKept`: as long as no save failed, what was promised is in the file, and the list that is being saved holds it too, so that a restart finds it wherever it cuts the save short |
| `SettingsTypeCorrect` | `Spec => []TypeOK` | inductive with `WrittenIsTheList`: once written, the temporary file holds the list in memory, and so `RenameTmp` moves a whole list into the file's place |
| `SavedWhenIdle` | `Spec => []IdleListIsSaved` | the same invariant: what `RenameTmp` moves is the list in memory |
| `PanelsFollow` | `Spec => []PanelsKnowTheList` | inductive: each way out of a handler that changed the list goes through a post |
| `BlockListImplemented` | `Spec => ListKept` | step simulation: the methods map to `Block` and `Unblock`, `RenameTmp` to `Save`, a restart to `Recover`, everything else to a stutter |
| `HistoryTypeCorrect` | `Spec => []TypeOK` | inductive with `AskedOnce`, without which a reference count could fall below zero |
| `ReferencesHeld` | `Spec => []ReferencesBalance` | `AskedOnce`: a query is in one place at most, among the calls or among the answers, and one that is there waits and holds one reference |
| `CallsKept` | `Spec => []RowsAsCalled` | inductive: a call adds its effect at the end of `dbCalls`, db8 takes it from the front |
| `QueriesFindTheirMoment` | `Spec => []AnswersAsOfCall` | `FindsAsDue`: the calls in front of a find, applied to the table, leave the rows that were due when it was made |
| `WaitingQueriesUnderWay` | `Spec => []WaitingIsUnderWay` | inductive with the types: a find leaves `dbCalls` with a reply, failed or not, and the reply leaves with the answer |
| `PurgeHolds` | `Spec => []ExpiredAtSyncIsGone` | with `PutOnce` (a row is put once) and `ClockBounds` (the clock does not go back behind the sync): the purge leaves what has not expired, and a later row is accepted only with an expiry that is not past |
| `MarksHold` | `Spec => []MarkIsKept` | `MarksPending`: a marked row was found, so its put is over; it is not in the table, or it is read, or the last merge of it on its way marks it |

`MirrorCatchesUp` is about a recursion: `After(entries, msgs, a)` applies the
replies on their way to the entries of an application one after the other. In
`MirrorProofs` it is a recursive function on the number of replies, which exists
and is unique by induction (`HandlesExists`, `HandlesUnique`). From there:
what one more reply at the end of the line does (`AfterAppend`), and what the
handling of the first does (`AfterFirst`). The invariant `CaughtUp` is stronger
than the property. It says that once all is handled the mirror shows what is
installed *and* has no more entries of an application than the daemon has
subscriptions: with two subscriptions an `added` comes twice and makes two
entries, a `removed` comes twice and takes one entry each time. Further, only a
manager that is there has subscribers (`OnlyToManager`).

The library's induction theorems take an operator as a parameter, which the
installed provers cannot instantiate. `NatInduction` proves induction for a set
instead, from the library's well-foundedness of `<` on `Nat`.

Only model-checked: `HeldAlertIsReleased`, `MirrorConverges`, `QueryIsAnswered`,
which are liveness under fairness and out of this prover's reach. Their safety
halves are proved (`ReleaseIsComing`, `MirrorAtRest`, `WaitingIsUnderWay`): at
no time does one of them wait for something that is not under way.

## 6. Not modelled

- **`cbGetSystemProperties`** and the settings file - the callback is registered
  nowhere, and the file is read once at start into values that stay.
- **`purgeAllData`, `onBoot`, remote rows of `History.cpp`** - called from nowhere.
- **Power failure** - the process ends in the model, not the machine: what was
  written stays written.
- **Process start** - registration on the bus is a straight line of calls;
  `Restart` has its effect on the state.
- **PIN prompt, input alert, markup parser, remote notifications** - no bus
  method reaches this code (`PincodeValidator.cpp`, `sax_parser.cpp`, the remote
  branches of `History.cpp`).
- **`JUtil`, `JsonParser`, `LSUtils`, `Logging`** - parsing and wording, no state.

## 7. Running

    tlc -workers 2 -config Alerts.cfg MCNotificationService.tla
    tlc -workers 2 -config Toasts.cfg MCNotificationService.tla
    tlc -workers 2 -config Notifications.cfg MCNotificationService.tla
    tlc -workers 2 -config AppList.cfg AppList.tla
    tlc -workers 2 -config Settings.cfg ToastSettings.tla
    tlc -workers 2 -config History.cfg MCHistory.tla
    tlapm NotificationServiceProofs.tla
    tlapm RequestProofs.tla
    tlapm NatInduction.tla
    tlapm AppListProofs.tla
    tlapm MirrorProofs.tla
    tlapm ToastSettingsProofs.tla
    tlapm HistoryProofs.tla

The runs take from half a minute to two minutes each; the six configurations of
section 4 (`QueueKeepsOldest`, `DrainedUnseen`, `AlertStranded`,
`DisabledYetShown` and `ClosedYetShown` of `MCNotificationService`, `BlockLost`
of `ToastSettings`) end in a counterexample within seconds.

## 8. Plan

What stands: the core with its abstract panel, the toast settings with their
abstract list, the application list and the history, each checked, and every
invariant and action property of the runs proved. What would add to it:

1. `EnabledAlertsNotHeld` and `UiBitImpliesUiEnabled` under a silence that
   changes while deferred functions wait, with more than one client of each list.
2. A clock that is set back after the purge: rows saved then may expire before
   `syncedAt`, and `ExpiredAtSyncIsGone` would have to speak of two clocks.
3. `NotificationService` over `History`: the core with its db8 calls in flight,
   proved to implement the core as it stands as long as no call fails, which is
   now shown by `RowsAsCalled` on the side of `History` alone.
4. The settings and the core in one module, so that `createToast` reads the list
   that `disableToast` changes.
