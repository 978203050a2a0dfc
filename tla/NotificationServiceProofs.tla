---------------------- MODULE NotificationServiceProofs ----------------------
(* What holds of NotificationService for every value of its constants.       *)
EXTENDS NotificationService, NatInduction

-----------------------------------------------------------------------------
(* Type correctness, by the parts of the state that actions change together. *)

GateTypes ==
    /\ uiStatus \in Status
    /\ silence \in BOOLEAN
    /\ UI_ENABLED \in BOOLEAN
    /\ asyncCalls \in Seq(Calls)
    /\ subs \in [Methods -> SUBSET Clients]

AlertTypes ==
    /\ alertMsgQueue \in QueuesOf(Alerts)
    /\ alertsOn \in [Clients -> SUBSET Alerts]

ToastTypes ==
    /\ toastMsgQueue \in QueuesOf(Toasts)
    /\ toastsOn \in [Clients -> SUBSET Toasts]

StoreTypes == history \in SUBSET Rows /\ readRows \in SUBSET history
NoteTypes  == notiMsgQueue \in QueuesOf(Rows) /\ StoreTypes

CountTypes == toastCount \in [Displays -> [readCount : Nat, unreadCount : Nat]]

CallTypes ==
    /\ uriChecks \in [Alerts -> 0 .. MaxUris]
    /\ reply \in [Requests -> Replies]
    /\ forced \in SUBSET Alerts
    /\ closed \in SUBSET (Alerts \cup Notes)
    /\ restarts \in Nat

Typed ==
    GateTypes /\ AlertTypes /\ ToastTypes /\ NoteTypes /\ CountTypes /\ CallTypes

\* TypeOK is these parts and nothing more.
LEMMA TypeParts == TypeOK <=> Typed
  BY DEF TypeOK, Typed, GateTypes, AlertTypes, ToastTypes, NoteTypes, StoreTypes, CountTypes, CallTypes

\* Setting and clearing bits of one or all components gives a status.
LEMMA StatusType ==
    ASSUME NEW st \in Status, NEW mask \in SUBSET Bits
    PROVE  /\ Enable(st, mask) \in Status
           /\ Disable(st, mask) \in Status
           /\ \A c \in Comps : EnableComp(st, c, mask) \in Status
  BY DEF Status, Enable, Disable, EnableComp

LEMMA MessageType ==
    ASSUME NEW items
    PROVE  /\ \A x \in items : Adding(x) \in MessagesOver(items)
           /\ \A gone \in SUBSET items : Dropping(gone) \in MessagesOver(items)
  BY DEF Adding, Dropping, MessagesOver

\* What is held after a sequence of messages are items of theirs.
LEMMA AfterType ==
    ASSUME NEW items, NEW held \in SUBSET items, NEW q \in Seq(MessagesOver(items))
    PROVE  After(held, q) \in SUBSET items
  <1>1. \A i \in DOMAIN q : q[i] \in MessagesOver(items)
    OBVIOUS
  <1>2. \A i \in DOMAIN q : q[i].add \in SUBSET items
    BY <1>1 DEF MessagesOver
  <1> QED BY <1>2 DEF After

\* A push keeps a queue within its bound.
LEMMA PushType ==
    ASSUME NEW items, NEW q \in QueuesOf(items), NEW m \in MessagesOver(items)
    PROVE  Push(q, m) \in QueuesOf(items)
  BY ConstantsAssumption DEF QueuesOf, Push

LEMMA EmptyQueueType == ASSUME NEW items PROVE <<>> \in QueuesOf(items)
  BY ConstantsAssumption DEF QueuesOf

\* Whomever its messages reach, a queue brings clients its items only.
LEMMA PostedType ==
    ASSUME NEW items, NEW on \in [Clients -> SUBSET items],
           NEW q \in Seq(MessagesOver(items)), NEW reached
    PROVE  Posted(on, q, reached) \in [Clients -> SUBSET items]
  <1> DEFINE got(c) == [i \in DOMAIN q |-> IF c \in reached[i] THEN q[i] ELSE Dropping({})]
  <1>1. Dropping({}) \in MessagesOver(items)
    BY MessageType
  <1>2. ASSUME NEW c \in Clients PROVE got(c) \in Seq(MessagesOver(items))
    <2>1. DOMAIN q = 1 .. Len(q) /\ Len(q) \in Nat
      OBVIOUS
    <2>2. \A i \in 1 .. Len(q) : got(c)[i] \in MessagesOver(items)
      BY <1>1, <2>1
    <2> QED BY <2>1, <2>2
  <1>3. \A c \in Clients : After(on[c], got(c)) \in SUBSET items
    BY <1>2, AfterType
  <1> QED BY <1>3 DEF Posted

LEMMA SingleType ==
    ASSUME NEW items, NEW m \in MessagesOver(items)
    PROVE  <<m>> \in Seq(MessagesOver(items))
  OBVIOUS

LEMMA AnswerType ==
    ASSUME CallTypes, NEW x \in Requests, NEW result \in Replies, Answer(x, result)
    PROVE  reply' \in [Requests -> Replies]
  BY DEF CallTypes, Answer, Replies

-----------------------------------------------------------------------------
(* The helpers of the handlers keep their part of the types.                 *)

LEMMA PostAlertType ==
    ASSUME AlertTypes, NEW m \in MessagesOver(Alerts), NEW success, PostAlert(m, success)
    PROVE  AlertTypes'
  <1>1. CASE UI_ENABLED
    <2>1. <<m>> \in Seq(MessagesOver(Alerts))
      BY SingleType
    <2>2. \A reached : Posted(alertsOn, <<m>>, <<reached>>) \in [Clients -> SUBSET Alerts]
      BY <2>1, PostedType DEF AlertTypes
    <2> QED BY <1>1, <2>2 DEF AlertTypes, PostAlert
  <1>2. CASE ~UI_ENABLED
    BY <1>2, PushType DEF AlertTypes, PostAlert
  <1> QED BY <1>1, <1>2

LEMMA ProcessAlertType ==
    ASSUME AlertTypes, NEW enabled, NEW receivers, ProcessAlertMsgQueue(enabled, receivers)
    PROVE  AlertTypes'
  <1>1. alertMsgQueue \in Seq(MessagesOver(Alerts))
    BY DEF AlertTypes, QueuesOf
  <1> QED BY <1>1, EmptyQueueType, PostedType DEF AlertTypes, ProcessAlertMsgQueue, alertVars

LEMMA OnAlertStatusType ==
    ASSUME AlertTypes, NEW after, OnAlertStatus(after)
    PROVE  AlertTypes'
  BY ProcessAlertType DEF OnAlertStatus, AlertTypes, alertVars

LEMMA PostToastType ==
    ASSUME ToastTypes, NEW m \in MessagesOver(Toasts), NEW stale, NEW success,
           PostToast(m, stale, success)
    PROVE  ToastTypes'
  <1>1. CASE stale \/ silence
    BY <1>1 DEF ToastTypes, PostToast, toastVars
  <1>2. CASE ~(stale \/ silence) /\ UI_ENABLED
    <2>1. <<m>> \in Seq(MessagesOver(Toasts))
      BY SingleType
    <2>2. \A reached : Posted(toastsOn, <<m>>, <<reached>>) \in [Clients -> SUBSET Toasts]
      BY <2>1, PostedType DEF ToastTypes
    <2> QED BY <1>2, <2>2 DEF ToastTypes, PostToast
  <1>3. CASE ~(stale \/ silence) /\ ~UI_ENABLED
    BY <1>3, PushType DEF ToastTypes, PostToast
  <1> QED BY <1>1, <1>2, <1>3

LEMMA ProcessToastType ==
    ASSUME ToastTypes, NEW enabled, NEW receivers, ProcessToastMsgQueue(enabled, receivers)
    PROVE  ToastTypes'
  <1>1. toastMsgQueue \in Seq(MessagesOver(Toasts))
    BY DEF ToastTypes, QueuesOf
  <1> QED BY <1>1, EmptyQueueType, PostedType DEF ToastTypes, ProcessToastMsgQueue, toastVars

LEMMA StoreType ==
    ASSUME StoreTypes, NEW q \in Seq(MessagesOver(Rows)), Store(q)
    PROVE  StoreTypes'
  BY AfterType DEF StoreTypes, Store

LEMMA PostNotificationType ==
    ASSUME NoteTypes, NEW m \in MessagesOver(Rows), PostNotification(m)
    PROVE  NoteTypes'
  <1>1. CASE UI_ENABLED
    BY <1>1, StoreType, SingleType DEF NoteTypes, PostNotification
  <1>2. CASE ~UI_ENABLED
    BY <1>2, PushType DEF NoteTypes, PostNotification, StoreTypes, storeVars
  <1> QED BY <1>1, <1>2

LEMMA ProcessNotiType ==
    ASSUME NoteTypes, NEW enabled, ProcessNotiMsgQueue(enabled)
    PROVE  NoteTypes'
  <1>1. notiMsgQueue \in Seq(MessagesOver(Rows))
    BY DEF NoteTypes, QueuesOf
  <1>2. CASE enabled
    BY <1>1, <1>2, StoreType, EmptyQueueType DEF NoteTypes, ProcessNotiMsgQueue
  <1>3. CASE ~enabled
    BY <1>3 DEF NoteTypes, StoreTypes, ProcessNotiMsgQueue, noteVars
  <1> QED BY <1>2, <1>3

\* What the answer to an alert, right away or after its checks, may change.
LEMMA AlertRespondType ==
    ASSUME AlertTypes, CallTypes, NEW a \in Alerts,
           AlertRespond(a) \/ AlertRespondWithError(a)
    PROVE  AlertTypes' /\ reply' \in [Requests -> Replies]
  <1>1. Adding(a) \in MessagesOver(Alerts)
    BY MessageType
  <1>2. a \in Requests
    BY DEF Requests
  <1>3. CASE AlertRespondWithError(a)
    BY <1>2, <1>3, AnswerType DEF AlertRespondWithError, AlertTypes, alertVars, Replies
  <1>4. CASE AlertRespond(a) /\ ~AllEnabled(uiStatus, {"ui"})
    <2>1. reply' \in [Requests -> Replies]
      BY <1>2, <1>4, AnswerType DEF AlertRespond, Replies
    <2>2. AlertTypes'
      BY <1>1, <1>4, PushType DEF AlertRespond, AlertTypes
    <2> QED BY <2>1, <2>2
  <1>5. CASE AlertRespond(a) /\ AllEnabled(uiStatus, {"ui"})
    <2>1. reply' \in [Requests -> Replies]
      BY <1>2, <1>5, AnswerType DEF AlertRespond, Replies
    <2>2. AlertTypes'
      BY <1>1, <1>5, PostAlertType DEF AlertRespond
    <2> QED BY <2>1, <2>2
  <1> QED BY <1>3, <1>4, <1>5

LEMMA CheckNextUriType ==
    ASSUME AlertTypes, CallTypes, NEW a \in Alerts, NEW n \in 0 .. MaxUris, CheckNextUri(a, n)
    PROVE  /\ AlertTypes'
           /\ reply' \in [Requests -> Replies]
           /\ uriChecks' \in [Alerts -> 0 .. MaxUris]
  <1>1. 0 \in 0 .. MaxUris
    BY ConstantsAssumption
  <1>2. uriChecks' \in [Alerts -> 0 .. MaxUris]
    BY <1>1 DEF CheckNextUri, CallTypes
  <1>3. AlertTypes' /\ reply' \in [Requests -> Replies]
    BY AlertRespondType DEF CheckNextUri, CallTypes, AlertTypes, alertVars
  <1> QED BY <1>2, <1>3

\* The subscriptions' own part of the types.
LEMMA SubscribeType ==
    ASSUME GateTypes, NEW c \in Clients, NEW m \in Methods, NEW call \in Calls,
           Subscribe(c, m), Async(call)
    PROVE  subs' \in [Methods -> SUBSET Clients] /\ asyncCalls' \in Seq(Calls)
  BY DEF GateTypes, Subscribe, Async

\* What a deferred function leaves is a status.
LEMMA AfterCallType ==
    ASSUME GateTypes, NEW call \in Calls
    PROVE  AfterCall(call) \in Status
  BY StatusType DEF GateTypes, AfterCall, Calls, Bits, Comps

LEMMA MovedType ==
    ASSUME NEW count \in [readCount : Nat, unreadCount : Nat]
    PROVE  /\ Moved(count, "unreadCount", "readCount") \in [readCount : Nat, unreadCount : Nat]
           /\ Moved(count, "readCount", "unreadCount") \in [readCount : Nat, unreadCount : Nat]
  BY DEF Moved

-----------------------------------------------------------------------------
(* Every action keeps the types.                                             *)

LEMMA InitTypes == Init => TypeOK
  <1> SUFFICES ASSUME Init PROVE TypeOK
    OBVIOUS
  <1>1. GateTypes
    <2>1. InitialStatus \in Status
      BY DEF InitialStatus, Status, Bits
    <2>2. subs \in [Methods -> SUBSET Clients]
      BY DEF Init
    <2>3. asyncCalls \in Seq(Calls)
      BY DEF Init
    <2> QED BY <2>1, <2>2, <2>3 DEF Init, GateTypes
  <1>2. AlertTypes /\ ToastTypes
    BY EmptyQueueType DEF Init, AlertTypes, ToastTypes
  <1>3. NoteTypes
    BY EmptyQueueType DEF Init, NoteTypes, StoreTypes
  <1>4. CountTypes
    BY DEF Init, CountTypes, NoCount
  <1>5. CallTypes
    BY ConstantsAssumption DEF Init, CallTypes, Replies
  <1> QED BY <1>1, <1>2, <1>3, <1>4, <1>5, TypeParts DEF Typed

LEMMA GateActionTypes ==
    ASSUME TypeOK,
           \/ \E c \in Clients, m \in Methods : GetNotification(c, m) \/ SubscriptionCanceled(c, m)
           \/ \E c \in Clients : GetToastCount(c)
           \/ RunAsync \/ EnableExternal \/ DisableExternal \/ SystemSettingForOption
    PROVE  TypeOK'
  <1>0. GateTypes /\ AlertTypes /\ ToastTypes /\ NoteTypes /\ CountTypes /\ CallTypes
    BY TypeParts DEF Typed
  <1> SUFFICES Typed'
    BY TypeParts, PTL
  <1>1. ASSUME NEW c \in Clients, NEW m \in Methods, GetNotification(c, m) PROVE Typed'
    <2>1. GateTypes'
      BY <1>0, <1>1, SubscribeType DEF GetNotification, Calls, GateTypes
    <2>2. AlertTypes' /\ ToastTypes' /\ NoteTypes'
      BY <1>0, <1>1, ProcessAlertType, ProcessToastType, ProcessNotiType DEF GetNotification
    <2>3. CountTypes' /\ CallTypes'
      BY <1>0, <1>1 DEF GetNotification, CountTypes, CallTypes, callVars
    <2> QED BY <2>1, <2>2, <2>3 DEF Typed
  <1>2. ASSUME NEW c \in Clients, NEW m \in Methods, SubscriptionCanceled(c, m) PROVE Typed'
    <2>1. asyncCalls' \in Seq(Calls)
      <3>1. asyncCalls' = asyncCalls \/ asyncCalls' = Append(asyncCalls, "disableUi")
        BY <1>2 DEF SubscriptionCanceled, Async
      <3> QED BY <1>0, <3>1 DEF GateTypes, Calls
    <2>4. GateTypes'
      BY <1>0, <1>2, <2>1 DEF SubscriptionCanceled, GateTypes
    <2>2. AlertTypes' /\ ToastTypes'
      BY <1>0, <1>2 DEF SubscriptionCanceled, AlertTypes, ToastTypes
    <2>3. NoteTypes' /\ CountTypes' /\ CallTypes'
      BY <1>0, <1>2 DEF SubscriptionCanceled, NoteTypes, StoreTypes, CountTypes, CallTypes,
                        noteVars, callVars
    <2> QED BY <2>2, <2>3, <2>4 DEF Typed
  <1>3. ASSUME NEW c \in Clients, GetToastCount(c) PROVE Typed'
    <2>1. GateTypes'
      BY <1>0, <1>3, SubscribeType DEF GetToastCount, Methods, Calls, GateTypes
    <2>2. NoteTypes'
      BY <1>0, <1>3, ProcessNotiType DEF GetToastCount
    <2>3. AlertTypes' /\ ToastTypes' /\ CountTypes' /\ CallTypes'
      BY <1>0, <1>3 DEF GetToastCount, AlertTypes, ToastTypes, CountTypes, CallTypes,
                        alertVars, toastVars, callVars
    <2> QED BY <2>1, <2>2, <2>3 DEF Typed
  <1>4. ASSUME RunAsync PROVE Typed'
    <2>1. Head(asyncCalls) \in Calls /\ asyncCalls' \in Seq(Calls)
      BY <1>0, <1>4 DEF RunAsync, GateTypes
    <2>2. uiStatus' \in Status
      BY <1>0, <1>4, <2>1, AfterCallType DEF RunAsync
    <2>3. GateTypes'
      BY <1>0, <1>4, <2>1, <2>2 DEF RunAsync, GateTypes
    <2>4. AlertTypes'
      BY <1>0, <1>4, OnAlertStatusType DEF RunAsync
    <2>5. ToastTypes' /\ NoteTypes' /\ CountTypes' /\ CallTypes'
      BY <1>0, <1>4 DEF RunAsync, ToastTypes, NoteTypes, StoreTypes, CountTypes, CallTypes,
                        toastVars, noteVars, callVars
    <2> QED BY <2>3, <2>4, <2>5 DEF Typed
  <1>5. ASSUME EnableExternal \/ DisableExternal \/ SystemSettingForOption PROVE Typed'
    <2>1. GateTypes'
      BY <1>0, <1>5, StatusType
      DEF EnableExternal, DisableExternal, SystemSettingForOption, GateTypes, Bits
    <2>2. AlertTypes'
      BY <1>0, <1>5, OnAlertStatusType
      DEF EnableExternal, DisableExternal, SystemSettingForOption, AlertTypes, alertVars
    <2>3. ToastTypes' /\ NoteTypes' /\ CountTypes' /\ CallTypes'
      BY <1>0, <1>5
      DEF EnableExternal, DisableExternal, SystemSettingForOption, ToastTypes, NoteTypes,
          StoreTypes, CountTypes, CallTypes, toastVars, noteVars, callVars
    <2> QED BY <2>1, <2>2, <2>3 DEF Typed
  <1> QED BY <1>1, <1>2, <1>3, <1>4, <1>5

LEMMA AlertActionTypes ==
    ASSUME TypeOK,
           \/ \E a \in Alerts, bad, ignoreDisable \in BOOLEAN, n \in 0 .. MaxUris :
                 CreateAlert(a, bad, ignoreDisable, n)
           \/ \E a \in Alerts, allowed \in BOOLEAN : CreateAlertIsAllowed(a, allowed)
           \/ \E a \in Alerts : CloseAlert(a)
           \/ CloseAllAlerts
    PROVE  TypeOK'
  <1>0. GateTypes /\ AlertTypes /\ ToastTypes /\ NoteTypes /\ CountTypes /\ CallTypes
    BY TypeParts DEF Typed
  <1> SUFFICES Typed'
    BY TypeParts, PTL
  <1>1. ASSUME NEW a \in Alerts, NEW bad \in BOOLEAN, NEW ignoreDisable \in BOOLEAN,
               NEW n \in 0 .. MaxUris, CreateAlert(a, bad, ignoreDisable, n)
        PROVE  Typed'
    <2>1. \/ AlertRespondWithError(a) /\ UNCHANGED uriChecks
          \/ AlertRespond(a) /\ UNCHANGED uriChecks
          \/ CheckNextUri(a, n)
      BY <1>1 DEF CreateAlert
    <2>2. /\ AlertTypes'
          /\ reply' \in [Requests -> Replies]
          /\ uriChecks' \in [Alerts -> 0 .. MaxUris]
      BY <1>0, <2>1, AlertRespondType, CheckNextUriType DEF CallTypes
    <2>3. CallTypes'
      BY <1>0, <1>1, <2>2 DEF CreateAlert, CallTypes
    <2>4. GateTypes' /\ ToastTypes' /\ NoteTypes' /\ CountTypes'
      BY <1>0, <1>1 DEF CreateAlert, GateTypes, ToastTypes, NoteTypes, StoreTypes, CountTypes,
                        gateVars, toastVars, noteVars
    <2> QED BY <2>2, <2>3, <2>4 DEF Typed
  <1>2. ASSUME NEW a \in Alerts, NEW allowed \in BOOLEAN, CreateAlertIsAllowed(a, allowed)
        PROVE  Typed'
    <2>1. \/ /\ AlertRespondWithError(a) \/ AlertRespond(a)
             /\ uriChecks' = [uriChecks EXCEPT ![a] = 0]
          \/ CheckNextUri(a, uriChecks[a] - 1)
      BY <1>2 DEF CreateAlertIsAllowed
    <2>2. uriChecks[a] - 1 \in 0 .. MaxUris /\ 0 \in 0 .. MaxUris
      BY <1>0, <1>2, ConstantsAssumption DEF CreateAlertIsAllowed, CallTypes
    <2>3. /\ AlertTypes'
          /\ reply' \in [Requests -> Replies]
          /\ uriChecks' \in [Alerts -> 0 .. MaxUris]
      BY <1>0, <2>1, <2>2, AlertRespondType, CheckNextUriType DEF CallTypes
    <2>4. CallTypes'
      BY <1>0, <1>2, <2>3 DEF CreateAlertIsAllowed, CallTypes
    <2>5. GateTypes' /\ ToastTypes' /\ NoteTypes' /\ CountTypes'
      BY <1>0, <1>2 DEF CreateAlertIsAllowed, GateTypes, ToastTypes, NoteTypes, StoreTypes,
                        CountTypes, gateVars, toastVars, noteVars
    <2> QED BY <2>3, <2>4, <2>5 DEF Typed
  <1>3. ASSUME NEW gone \in SUBSET Alerts, CloseAlerts(gone) PROVE Typed'
    <2>1. AlertTypes'
      BY <1>0, <1>3, MessageType, PostAlertType DEF CloseAlerts
    <2>2. CallTypes'
      BY <1>0, <1>3 DEF CloseAlerts, CallTypes, Requests
    <2>3. GateTypes' /\ ToastTypes' /\ NoteTypes' /\ CountTypes'
      BY <1>0, <1>3 DEF CloseAlerts, GateTypes, ToastTypes, NoteTypes, StoreTypes, CountTypes,
                        gateVars, toastVars, noteVars
    <2> QED BY <2>1, <2>2, <2>3 DEF Typed
  <1>4. ASSUME (\E a \in Alerts : CloseAlert(a)) \/ CloseAllAlerts PROVE Typed'
    <2>1. \E gone \in SUBSET Alerts : CloseAlerts(gone)
      BY <1>4 DEF CloseAlert, CloseAllAlerts
    <2> QED BY <1>3, <2>1
  <1> QED BY <1>1, <1>2, <1>4

LEMMA ToastActionTypes ==
    ASSUME TypeOK,
           \/ \E t \in Toasts, flaw \in ToastFlaws, ignoreDisable, stale, persistent \in BOOLEAN :
                 CreateToast(t, flaw, ignoreDisable, stale, persistent)
           \/ \E x \in Rows : CloseToast(x)
           \/ \E s \in Sources : CloseToastsOf(s)
           \/ \E t \in Toasts, d \in Displays, status \in BOOLEAN : SetToastStatus(t, d, status)
    PROVE  TypeOK'
  <1>0. GateTypes /\ AlertTypes /\ ToastTypes /\ NoteTypes /\ CountTypes /\ CallTypes
    BY TypeParts DEF Typed
  <1> SUFFICES Typed'
    BY TypeParts, PTL
  <1>1. ASSUME NEW t \in Toasts, NEW flaw \in ToastFlaws, NEW ignoreDisable \in BOOLEAN,
               NEW stale \in BOOLEAN, NEW persistent \in BOOLEAN,
               CreateToast(t, flaw, ignoreDisable, stale, persistent)
        PROVE  Typed'
    <2>1. \E result \in Replies : Answer(t, result)
      BY <1>1 DEF CreateToast, Replies
    <2>2. reply' \in [Requests -> Replies]
      BY <1>0, <2>1, AnswerType DEF Requests
    <2>3. ToastTypes'
      <3>1. UNCHANGED toastVars \/ \E success : PostToast(Adding(t), stale, success)
        BY <1>1 DEF CreateToast
      <3> QED BY <1>0, <3>1, MessageType, PostToastType DEF ToastTypes, toastVars
    <2>4. NoteTypes'
      <3>1. <<Adding(t)>> \in Seq(MessagesOver(Rows))
        BY MessageType DEF Rows
      <3>2. UNCHANGED storeVars \/ Store(<<Adding(t)>>)
        BY <1>1 DEF CreateToast
      <3>3. StoreTypes'
        BY <1>0, <3>1, <3>2, StoreType DEF NoteTypes, StoreTypes, storeVars
      <3> QED BY <1>0, <1>1, <3>3 DEF CreateToast, NoteTypes
    <2>5. CountTypes'
      <3>1. DisplayOf[t] \in Displays
        BY ConstantsAssumption
      <3>2. UNCHANGED toastCount \/ CountUnread(DisplayOf[t])
        BY <1>1 DEF CreateToast
      <3> QED BY <1>0, <3>1, <3>2 DEF CountTypes, CountUnread
    <2>6. CallTypes'
      BY <1>0, <1>1, <2>2 DEF CreateToast, CallTypes
    <2>7. GateTypes' /\ AlertTypes'
      BY <1>0, <1>1 DEF CreateToast, GateTypes, AlertTypes, gateVars, alertVars
    <2> QED BY <2>3, <2>4, <2>5, <2>6, <2>7 DEF Typed
  <1>2. ASSUME NEW rows \in SUBSET Rows, NEW gone \in SUBSET Toasts, CloseToasts(rows, gone)
        PROVE  Typed'
    <2>1. ToastTypes'
      BY <1>0, <1>2, MessageType, PostToastType DEF CloseToasts
    <2>2. NoteTypes'
      <3>1. <<Dropping(rows)>> \in Seq(MessagesOver(Rows))
        BY MessageType
      <3>2. StoreTypes'
        BY <1>0, <1>2, <3>1, StoreType DEF CloseToasts, NoteTypes
      <3> QED BY <1>0, <1>2, <3>2 DEF CloseToasts, NoteTypes
    <2>3. CallTypes'
      BY <1>0, <1>2 DEF CloseToasts, CallTypes, callVars
    <2>4. GateTypes' /\ AlertTypes' /\ CountTypes'
      BY <1>0, <1>2 DEF CloseToasts, GateTypes, AlertTypes, CountTypes, gateVars, alertVars
    <2> QED BY <2>1, <2>2, <2>3, <2>4 DEF Typed
  <1>3. ASSUME (\E x \in Rows : CloseToast(x)) \/ (\E s \in Sources : CloseToastsOf(s))
        PROVE  Typed'
    <2>1. \E rows \in SUBSET Rows, gone \in SUBSET Toasts : CloseToasts(rows, gone)
      BY <1>3 DEF CloseToast, CloseToastsOf, RowsOf, Rows
    <2> QED BY <1>2, <2>1
  <1>4. ASSUME NEW t \in Toasts, NEW d \in Displays, NEW status \in BOOLEAN,
               SetToastStatus(t, d, status)
        PROVE  Typed'
    <2>1. CountTypes'
      BY <1>0, <1>4, MovedType DEF SetToastStatus, CountTypes
    <2>2. NoteTypes'
      BY <1>0, <1>4 DEF SetToastStatus, NoteTypes, StoreTypes
    <2>3. GateTypes' /\ AlertTypes' /\ ToastTypes' /\ CallTypes'
      BY <1>0, <1>4 DEF SetToastStatus, GateTypes, AlertTypes, ToastTypes, CallTypes,
                        gateVars, alertVars, toastVars, callVars
    <2> QED BY <2>1, <2>2, <2>3 DEF Typed
  <1> QED BY <1>1, <1>3, <1>4

LEMMA NoteActionTypes ==
    ASSUME TypeOK,
           \/ \E n \in Notes, bad \in BOOLEAN : CreateNotification(n, bad)
           \/ \E gone \in SUBSET Notes : RemoveNotification(gone)
           \/ \E s \in Sources : RemoveNotificationsOf(s)
           \/ \E d \in Displays : RemoveAllNotification(d)
           \/ Restart
    PROVE  TypeOK'
  <1>0. GateTypes /\ AlertTypes /\ ToastTypes /\ NoteTypes /\ CountTypes /\ CallTypes
    BY TypeParts DEF Typed
  <1> SUFFICES Typed'
    BY TypeParts, PTL
  <1>1. ASSUME NEW n \in Notes, NEW bad \in BOOLEAN, CreateNotification(n, bad) PROVE Typed'
    <2>1. Adding(n) \in MessagesOver(Rows)
      BY MessageType DEF Rows
    <2>2. NoteTypes'
      BY <1>0, <1>1, <2>1, PostNotificationType
      DEF CreateNotification, NoteTypes, StoreTypes, noteVars
    <2>3. \E result \in Replies : Answer(n, result)
      BY <1>1 DEF CreateNotification, Replies
    <2>4. CallTypes'
      BY <1>0, <1>1, <2>3, AnswerType DEF CreateNotification, CallTypes, Requests
    <2>5. GateTypes' /\ AlertTypes' /\ ToastTypes' /\ CountTypes'
      BY <1>0, <1>1 DEF CreateNotification, GateTypes, AlertTypes, ToastTypes, CountTypes,
                        gateVars, alertVars, toastVars
    <2> QED BY <2>2, <2>4, <2>5 DEF Typed
  <1>2. ASSUME NEW rows \in SUBSET Rows, PostNotification(Dropping(rows)),
               UNCHANGED <<gateVars, alertVars, toastVars>>, CallTypes', CountTypes'
        PROVE  Typed'
    <2>1. NoteTypes'
      BY <1>0, <1>2, MessageType, PostNotificationType
    <2>2. GateTypes' /\ AlertTypes' /\ ToastTypes'
      BY <1>0, <1>2 DEF GateTypes, AlertTypes, ToastTypes, gateVars, alertVars, toastVars
    <2> QED BY <1>2, <2>1, <2>2 DEF Typed
  <1>3. ASSUME NEW rows \in SUBSET Rows, RemoveRows(rows) PROVE Typed'
    <2>1. closed' \in SUBSET Requests
      BY <1>0, <1>3 DEF RemoveRows, CallTypes, Requests
    <2>2. CallTypes' /\ CountTypes'
      BY <1>0, <1>3, <2>1 DEF RemoveRows, CallTypes, CountTypes
    <2> QED BY <1>2, <1>3, <2>2 DEF RemoveRows
  <1>4. ASSUME NEW gone \in SUBSET Notes, RemoveNotification(gone) PROVE Typed'
    <2>1. gone \in SUBSET Rows
      BY DEF Rows
    <2> QED BY <1>4, <1>3, <2>1 DEF RemoveNotification
  <1>5. ASSUME NEW s \in Sources, RemoveNotificationsOf(s) PROVE Typed'
    <2>1. RowsOf(s) \in SUBSET Rows
      BY DEF RowsOf
    <2> QED BY <1>5, <1>3, <2>1 DEF RemoveNotificationsOf
  <1>6. ASSUME NEW d \in Displays, RemoveAllNotification(d) PROVE Typed'
    <2>1. ToastsAt(d) \in SUBSET Rows /\ CountTypes'
      BY <1>0, <1>6 DEF RemoveAllNotification, ToastsAt, Rows, CountTypes, NoCount
    <2>2. CallTypes'
      BY <1>0, <1>6 DEF RemoveAllNotification, CallTypes, callVars
    <2> QED BY <1>2, <1>6, <2>1, <2>2 DEF RemoveAllNotification
  <1>7. ASSUME Restart PROVE Typed'
    <2>1. GateTypes'
      <3>1. InitialStatus \in Status
        BY DEF InitialStatus, Status, Bits
      <3>2. subs' \in [Methods -> SUBSET Clients] /\ asyncCalls' \in Seq(Calls)
        BY <1>7 DEF Restart
      <3> QED BY <1>7, <3>1, <3>2 DEF Restart, GateTypes
    <2>2. AlertTypes' /\ ToastTypes'
      BY <1>0, <1>7, EmptyQueueType DEF Restart, AlertTypes, ToastTypes
    <2>3. NoteTypes'
      BY <1>0, <1>7, EmptyQueueType DEF Restart, NoteTypes, StoreTypes, storeVars
    <2>4. CountTypes'
      BY <1>7 DEF Restart, CountTypes, NoCount
    <2>5. CallTypes'
      <3>1. reply' \in [Requests -> Replies]
        BY <1>0, <1>7 DEF Restart, CallTypes, Replies
      <3>2. uriChecks' \in [Alerts -> 0 .. MaxUris]
        BY <1>7, ConstantsAssumption DEF Restart
      <3> QED BY <1>0, <1>7, <3>1, <3>2 DEF Restart, CallTypes
    <2> QED BY <2>1, <2>2, <2>3, <2>4, <2>5 DEF Typed
  <1> QED BY <1>1, <1>4, <1>5, <1>6, <1>7

LEMMA StutterTypes == ASSUME TypeOK, UNCHANGED vars PROVE TypeOK'
  BY DEF TypeOK, vars, gateVars, alertVars, toastVars, noteVars, callVars

LEMMA NextTypes == TypeOK /\ [Next]_vars => TypeOK'
  BY GateActionTypes, AlertActionTypes, ToastActionTypes, NoteActionTypes, StutterTypes DEF Next

\* In every reachable state every variable has its type and every queue stays
\* within kMaxQueuedMessages, whatever that number is.
THEOREM TypeCorrect == Spec => []TypeOK
  BY InitTypes, NextTypes, PTL DEF Spec

-----------------------------------------------------------------------------
(* The gates. UI_ENABLED is set by the handlers that hand the enabling of    *)
(* the ui bits to the main loop, so it is never behind them.                 *)

LEMMA GateStep == TypeOK /\ UiBitImpliesUiEnabled /\ [Next]_vars => UiBitImpliesUiEnabled'
  <1> SUFFICES ASSUME TypeOK, UiBitImpliesUiEnabled, [Next]_vars PROVE UiBitImpliesUiEnabled'
    OBVIOUS
  <1>1. CASE UI_ENABLED'
    BY <1>1 DEF UiBitImpliesUiEnabled
  <1>2. ASSUME UNCHANGED <<uiStatus, UI_ENABLED, asyncCalls>> PROVE UiBitImpliesUiEnabled'
    BY <1>2 DEF UiBitImpliesUiEnabled
  <1>3. ASSUME NEW c \in Clients, NEW m \in Methods, SubscriptionCanceled(c, m), ~UI_ENABLED
        PROVE  UiBitImpliesUiEnabled'
    <2>1. asyncCalls' = asyncCalls \/ asyncCalls' = Append(asyncCalls, "disableUi")
      BY <1>3 DEF SubscriptionCanceled, Async
    <2>0. asyncCalls \in Seq(Calls) /\ \A i \in DOMAIN asyncCalls : asyncCalls[i] = "disableUi"
      BY <1>3 DEF UiBitImpliesUiEnabled, TypeOK
    <2>2. \A i \in DOMAIN asyncCalls' : asyncCalls'[i] = "disableUi"
      BY <2>0, <2>1 DEF Calls
    <2> QED BY <1>3, <2>2 DEF SubscriptionCanceled, UiBitImpliesUiEnabled
  <1>4. ASSUME RunAsync, ~UI_ENABLED PROVE UiBitImpliesUiEnabled'
    <2>0. asyncCalls \in Seq(Calls) /\ asyncCalls # <<>> /\ asyncCalls' = Tail(asyncCalls)
      BY <1>4 DEF RunAsync, TypeOK
    <2>5. \A i \in DOMAIN asyncCalls : asyncCalls[i] = "disableUi"
      BY <1>4 DEF UiBitImpliesUiEnabled
    <2>1. Head(asyncCalls) = "disableUi"
      BY <2>0, <2>5
    <2>2. \A i \in DOMAIN asyncCalls' : asyncCalls'[i] = "disableUi"
      BY <2>0, <2>5
    <2>3. \A c \in Comps : "ui" \notin uiStatus'[c]
      BY <1>4, <2>1 DEF RunAsync, AfterCall, Disable
    <2> QED BY <2>2, <2>3 DEF UiBitImpliesUiEnabled
  <1>5. ASSUME EnableExternal \/ DisableExternal, ~UI_ENABLED PROVE UiBitImpliesUiEnabled'
    BY <1>5 DEF EnableExternal, DisableExternal, Enable, Disable, UiBitImpliesUiEnabled
  <1>6. ASSUME Restart PROVE UiBitImpliesUiEnabled'
    BY <1>6 DEF Restart, UiBitImpliesUiEnabled, InitialStatus
  <1>7. \/ UI_ENABLED'
        \/ UNCHANGED <<uiStatus, UI_ENABLED, asyncCalls>>
        \/ ~UI_ENABLED /\ \E c \in Clients, m \in Methods : SubscriptionCanceled(c, m)
        \/ ~UI_ENABLED /\ (RunAsync \/ EnableExternal \/ DisableExternal)
        \/ Restart
    BY DEF Next, vars, gateVars, GetNotification, SubscriptionCanceled, GetToastCount, RunAsync,
           EnableExternal, DisableExternal, SystemSettingForOption, CreateAlert,
           CreateAlertIsAllowed, CloseAlert, CloseAllAlerts, CloseAlerts, CreateToast, CloseToast,
           CloseToastsOf, CloseToasts, SetToastStatus, CreateNotification, RemoveNotification,
           RemoveNotificationsOf, RemoveRows, RemoveAllNotification, TypeOK
  <1> QED BY <1>1, <1>2, <1>3, <1>4, <1>5, <1>6, <1>7

\* Whatever UiStatus lets through, UI_ENABLED lets through as well: the hang
\* that the comment on the drains describes cannot arise from this flag.
THEOREM GatesAgree == Spec => []UiBitImpliesUiEnabled
  <1>1. Init => UiBitImpliesUiEnabled
    BY DEF Init, InitialStatus, UiBitImpliesUiEnabled
  <1> QED BY <1>1, GateStep, TypeCorrect, PTL DEF Spec

-----------------------------------------------------------------------------
(* No alert is held behind open gates. alertRespond asks all components,     *)
(* sigStatus speaks for one: the invariant needs that the two agree.         *)

AlertUiStandsForAll ==
    IsEnabled(uiStatus, "alert", {"ui"}) => AllEnabled(uiStatus, {"ui"})

HeldInv == AlertUiStandsForAll /\ EnabledAlertsNotHeld

\* Only the toast component's ui bit is ever set on its own.
LEMMA AlertUiStep == TypeOK /\ AlertUiStandsForAll /\ [Next]_vars => AlertUiStandsForAll'
  <1> SUFFICES ASSUME TypeOK, AlertUiStandsForAll, [Next]_vars PROVE AlertUiStandsForAll'
    OBVIOUS
  <1> USE DEF AlertUiStandsForAll, IsEnabled, AllEnabled
  <1>1. CASE UNCHANGED uiStatus
    BY <1>1
  <1>2. ASSUME RunAsync PROVE AlertUiStandsForAll'
    <2>1. Head(asyncCalls) \in Calls
      BY <1>2 DEF RunAsync, TypeOK
    <2>2. uiStatus \in [Comps -> SUBSET Bits]
      BY DEF TypeOK, Status
    <2>3. \/ uiStatus' = Enable(uiStatus, {"ui"})
          \/ uiStatus' = EnableComp(uiStatus, "toast", {"ui"})
          \/ uiStatus' = Disable(uiStatus, {"ui"})
      BY <1>2, <2>1 DEF RunAsync, AfterCall, Calls
    <2> QED BY <2>2, <2>3 DEF Enable, EnableComp, Disable, Comps
  <1>3. ASSUME EnableExternal \/ DisableExternal PROVE AlertUiStandsForAll'
    BY <1>3 DEF EnableExternal, DisableExternal, Enable, Disable, Comps
  <1>4. ASSUME Restart PROVE AlertUiStandsForAll'
    BY <1>4 DEF Restart, InitialStatus, Comps
  <1>5. \/ UNCHANGED uiStatus
        \/ RunAsync \/ EnableExternal \/ DisableExternal \/ Restart
    BY DEF Next, vars, gateVars, GetNotification, SubscriptionCanceled, GetToastCount,
           SystemSettingForOption, CreateAlert, CreateAlertIsAllowed, CloseAlert, CloseAllAlerts,
           CloseAlerts, CreateToast, CloseToast, CloseToastsOf, CloseToasts, SetToastStatus,
           CreateNotification, RemoveNotification, RemoveNotificationsOf, RemoveRows, RemoveAllNotification
  <1> QED BY <1>1, <1>2, <1>3, <1>4, <1>5

\* With the alert component's ui bit set, an answer or a close is not queued.
LEMMA OpenGatesPost ==
    ASSUME UiBitImpliesUiEnabled, AlertUiStandsForAll, "ui" \in uiStatus["alert"]
    PROVE  /\ \A a \in Alerts : AlertRespond(a) => UNCHANGED alertMsgQueue
           /\ \A gone \in SUBSET Alerts : CloseAlerts(gone) => UNCHANGED alertMsgQueue
  <1>1. UI_ENABLED
    BY DEF UiBitImpliesUiEnabled, Comps
  <1>2. AllEnabled(uiStatus, {"ui"})
    BY DEF AlertUiStandsForAll, IsEnabled
  <1> QED BY <1>1, <1>2 DEF AlertRespond, CloseAlerts, PostAlert

\* Opening the last gate of the alert component drains its queue.
LEMMA LastGateDrains ==
    ASSUME EnabledAlertsNotHeld, NEW after, OnAlertStatus(after), IsEnabled(after, "alert", Bits),
           UI_ENABLED
    PROVE  alertMsgQueue' = <<>>
  BY DEF EnabledAlertsNotHeld, OnAlertStatus, SignalsEnabled, ProcessAlertMsgQueue, alertVars

LEMMA HeldStep ==
    TypeOK /\ UiBitImpliesUiEnabled /\ HeldInv /\ [Next]_vars => HeldInv'
  <1> SUFFICES ASSUME TypeOK, UiBitImpliesUiEnabled, HeldInv, [Next]_vars,
                      IsEnabled(uiStatus', "alert", Bits)
               PROVE  alertMsgQueue' = <<>>
    BY AlertUiStep DEF HeldInv, EnabledAlertsNotHeld
  <1>1. CASE UNCHANGED <<uiStatus, alertMsgQueue>>
    BY <1>1 DEF HeldInv, EnabledAlertsNotHeld
  <1>2. ASSUME NEW c \in Clients, NEW m \in Methods, GetNotification(c, m)
        PROVE  alertMsgQueue' = <<>>
    BY <1>2 DEF GetNotification, ProcessAlertMsgQueue
  <1>3. ASSUME RunAsync PROVE alertMsgQueue' = <<>>
    <2>1. UI_ENABLED
      <3>1. CASE "ui" \in uiStatus["alert"]
        BY <3>1 DEF UiBitImpliesUiEnabled, Comps
      <3>2. CASE "ui" \notin uiStatus["alert"]
        <4>1. asyncCalls \in Seq(Calls) /\ asyncCalls # <<>>
          BY <1>3 DEF RunAsync, TypeOK
        <4>2. Head(asyncCalls) # "disableUi"
          BY <1>3 DEF RunAsync, AfterCall, Disable, IsEnabled, Bits, Comps
        <4> QED BY <4>1, <4>2 DEF UiBitImpliesUiEnabled
      <3> QED BY <3>1, <3>2
    <2> QED BY <1>3, <2>1, LastGateDrains DEF RunAsync, HeldInv
  <1>4. ASSUME EnableExternal PROVE alertMsgQueue' = <<>>
    <2>1. "ui" \in uiStatus["alert"]
      BY <1>4 DEF EnableExternal, Enable, IsEnabled, Bits, Comps
    <2>2. UI_ENABLED
      BY <2>1 DEF UiBitImpliesUiEnabled, Comps
    <2> QED BY <1>4, <2>2, LastGateDrains DEF EnableExternal, HeldInv
  <1>5. ASSUME DisableExternal PROVE FALSE
    BY <1>5 DEF DisableExternal, Disable, IsEnabled, Bits, Comps
  <1>6. ASSUME UNCHANGED uiStatus,
               \/ \E a \in Alerts : AlertRespond(a)
               \/ \E gone \in SUBSET Alerts : CloseAlerts(gone)
        PROVE  alertMsgQueue' = <<>>
    <2>1. IsEnabled(uiStatus, "alert", Bits) /\ "ui" \in uiStatus["alert"]
      BY <1>6 DEF IsEnabled, Bits
    <2> QED BY <1>6, <2>1, OpenGatesPost DEF HeldInv, EnabledAlertsNotHeld
  <1>7. ASSUME Restart PROVE alertMsgQueue' = <<>>
    BY <1>7 DEF Restart
  <1>8. \/ UNCHANGED <<uiStatus, alertMsgQueue>>
        \/ \E c \in Clients, m \in Methods : GetNotification(c, m)
        \/ RunAsync \/ EnableExternal \/ DisableExternal \/ Restart
        \/ /\ UNCHANGED uiStatus
           /\ \/ \E a \in Alerts : AlertRespond(a)
              \/ \E gone \in SUBSET Alerts : CloseAlerts(gone)
    <2>1. ASSUME NEW a \in Alerts, NEW bad \in BOOLEAN, NEW ignoreDisable \in BOOLEAN,
                 NEW n \in 0 .. MaxUris, CreateAlert(a, bad, ignoreDisable, n)
          PROVE  UNCHANGED uiStatus /\ (UNCHANGED alertMsgQueue \/ AlertRespond(a))
      BY <2>1 DEF CreateAlert, CheckNextUri, AlertRespondWithError, alertVars, gateVars
    <2>2. ASSUME NEW a \in Alerts, NEW allowed \in BOOLEAN, CreateAlertIsAllowed(a, allowed)
          PROVE  UNCHANGED uiStatus /\ (UNCHANGED alertMsgQueue \/ AlertRespond(a))
      BY <2>2 DEF CreateAlertIsAllowed, CheckNextUri, AlertRespondWithError, alertVars, gateVars
    <2>3. ASSUME CloseAllAlerts \/ \E a \in Alerts : CloseAlert(a)
          PROVE  UNCHANGED uiStatus /\ \E gone \in SUBSET Alerts : CloseAlerts(gone)
      <3>1. \E gone \in SUBSET Alerts : CloseAlerts(gone)
        BY <2>3 DEF CloseAllAlerts, CloseAlert
      <3> QED BY <3>1 DEF CloseAlerts, gateVars
    <2> QED
      BY <2>1, <2>2, <2>3
      DEF Next, vars, gateVars, alertVars, SubscriptionCanceled, GetToastCount,
          SystemSettingForOption, CreateToast, CloseToast, CloseToastsOf, CloseToasts,
          SetToastStatus, CreateNotification, RemoveNotification, RemoveNotificationsOf, RemoveRows,
          RemoveAllNotification
  <1> QED BY <1>1, <1>2, <1>3, <1>4, <1>5, <1>6, <1>7, <1>8

\* An alert waits only while one of the alert component's gates is closed.
THEOREM AlertsNotHeld == Spec => []EnabledAlertsNotHeld
  <1>1. Init => HeldInv
    BY DEF Init, InitialStatus, HeldInv, AlertUiStandsForAll, EnabledAlertsNotHeld, IsEnabled, Comps
  <1>2. HeldInv => EnabledAlertsNotHeld
    BY DEF HeldInv
  <1> QED BY <1>1, <1>2, HeldStep, TypeCorrect, GatesAgree, PTL DEF Spec

-----------------------------------------------------------------------------
(* What opens the ui gate of alerts while the shell shows both alerts and    *)
(* toasts: it is open, and nothing deferred closes it, or the last deferred  *)
(* function that touches it opens it. Only the last subscriber of one of the *)
(* two lists defers a closing, and every subscription an opening behind it.  *)

NoClosing(calls) == \A i \in DOMAIN calls : calls[i] # "disableUi"

OpensLast(calls) ==
    \E i \in DOMAIN calls :
        /\ calls[i] = "enableUi"
        /\ \A j \in DOMAIN calls : j > i => calls[j] # "disableUi"

ShellShowsBoth == subs["getAlertNotification"] # {} /\ subs["getToastNotification"] # {}

OpenOrOpening(st, calls) == OpensLast(calls) \/ ("ui" \in st["alert"] /\ NoClosing(calls))

\* The system gate of alerts is never closed, so their queue depends on the rest.
ReleaseInv ==
    /\ "system" \in uiStatus["alert"]
    /\ ShellShowsBoth => OpenOrOpening(uiStatus, asyncCalls)

\* What handing in one more function does to the order.
LEMMA OpeningAppended ==
    ASSUME NEW calls \in Seq(Calls)
    PROVE  /\ OpensLast(Append(calls, "enableUi"))
           /\ OpensLast(calls) => OpensLast(Append(calls, "enableToastUi"))
           /\ NoClosing(calls) => NoClosing(Append(calls, "enableToastUi"))
  <1>1. \A call \in Calls :
           /\ Len(Append(calls, call)) = Len(calls) + 1
           /\ Append(calls, call)[Len(calls) + 1] = call
           /\ \A i \in 1 .. Len(calls) : Append(calls, call)[i] = calls[i]
           /\ DOMAIN Append(calls, call) = 1 .. Len(calls) + 1
    OBVIOUS
  <1>2. "enableUi" \in Calls /\ "enableToastUi" \in Calls
    BY DEF Calls
  <1>3. OpensLast(Append(calls, "enableUi"))
    BY <1>1, <1>2 DEF OpensLast
  <1>4. ASSUME OpensLast(calls) PROVE OpensLast(Append(calls, "enableToastUi"))
    <2>1. PICK i \in DOMAIN calls :
             calls[i] = "enableUi" /\ \A j \in DOMAIN calls : j > i => calls[j] # "disableUi"
      BY <1>4 DEF OpensLast
    <2> QED BY <1>1, <1>2, <2>1 DEF OpensLast
  <1>5. ASSUME NoClosing(calls) PROVE NoClosing(Append(calls, "enableToastUi"))
    BY <1>1, <1>2, <1>5 DEF NoClosing
  <1> QED BY <1>3, <1>4, <1>5

\* What running the first function does: the ones behind it keep their order.
LEMMA OpeningTaken ==
    ASSUME NEW calls \in Seq(Calls), calls # <<>>
    PROVE  /\ NoClosing(calls) => Head(calls) # "disableUi" /\ NoClosing(Tail(calls))
           /\ OpensLast(calls) => \/ Head(calls) = "enableUi" /\ NoClosing(Tail(calls))
                                  \/ OpensLast(Tail(calls))
  <1>1. /\ Len(calls) \in Nat \ {0} /\ Head(calls) = calls[1]
        /\ DOMAIN calls = 1 .. Len(calls) /\ DOMAIN Tail(calls) = 1 .. Len(calls) - 1
        /\ \A i \in 1 .. Len(calls) - 1 : Tail(calls)[i] = calls[i + 1]
    OBVIOUS
  <1>2. ASSUME NoClosing(calls) PROVE Head(calls) # "disableUi" /\ NoClosing(Tail(calls))
    BY <1>1, <1>2 DEF NoClosing
  <1>3. ASSUME OpensLast(calls), ~(Head(calls) = "enableUi" /\ NoClosing(Tail(calls)))
        PROVE  OpensLast(Tail(calls))
    <2>1. PICK i \in DOMAIN calls :
             calls[i] = "enableUi" /\ \A j \in DOMAIN calls : j > i => calls[j] # "disableUi"
      BY <1>3 DEF OpensLast
    <2>2. CASE i = 1
      BY <1>1, <1>3, <2>1, <2>2 DEF NoClosing
    <2>3. CASE i # 1
      <3>1. i - 1 \in DOMAIN Tail(calls) /\ Tail(calls)[i - 1] = "enableUi"
        BY <1>1, <2>1, <2>3
      <3>2. \A j \in DOMAIN Tail(calls) : j > i - 1 => Tail(calls)[j] # "disableUi"
        BY <1>1, <2>1, <2>3
      <3> QED BY <3>1, <3>2 DEF OpensLast
    <2> QED BY <2>2, <2>3
  <1> QED BY <1>2, <1>3

LEMMA ReleaseStep == TypeOK /\ ReleaseInv /\ [Next]_vars => ReleaseInv'
  <1> SUFFICES ASSUME TypeOK, ReleaseInv, [Next]_vars PROVE ReleaseInv'
    OBVIOUS
  <1>0. /\ asyncCalls \in Seq(Calls) /\ subs \in [Methods -> SUBSET Clients]
        /\ uiStatus \in [Comps -> SUBSET Bits]
    BY DEF TypeOK, Status
  <1>1. CASE UNCHANGED <<uiStatus, asyncCalls, subs>>
    BY <1>1 DEF ReleaseInv, ShellShowsBoth
  <1>2. ASSUME NEW c \in Clients, NEW m \in Methods, GetNotification(c, m) PROVE ReleaseInv'
    <2>1. UNCHANGED uiStatus /\ asyncCalls' = Append(asyncCalls, "enableUi")
      BY <1>2 DEF GetNotification, Async
    <2> QED BY <1>0, <2>1, OpeningAppended DEF ReleaseInv, OpenOrOpening
  <1>3. ASSUME NEW c \in Clients, GetToastCount(c) PROVE ReleaseInv'
    <2>1. UNCHANGED uiStatus /\ asyncCalls' = Append(asyncCalls, "enableToastUi")
      BY <1>3 DEF GetToastCount, Async
    <2>2. ShellShowsBoth' => ShellShowsBoth
      BY <1>0, <1>3 DEF GetToastCount, Subscribe, ShellShowsBoth, Methods, PostMethods
    <2> QED BY <1>0, <2>1, <2>2, OpeningAppended DEF ReleaseInv, OpenOrOpening
  <1>4. ASSUME NEW c \in Clients, NEW m \in Methods, SubscriptionCanceled(c, m) PROVE ReleaseInv'
    <2>1. UNCHANGED uiStatus
      BY <1>4 DEF SubscriptionCanceled
    <2>2. ShellShowsBoth' => ShellShowsBoth /\ UNCHANGED asyncCalls
      BY <1>0, <1>4 DEF SubscriptionCanceled, ShellShowsBoth, Methods, PostMethods
    <2> QED BY <2>1, <2>2 DEF ReleaseInv
  <1>5. ASSUME RunAsync PROVE ReleaseInv'
    <2>1. /\ asyncCalls # <<>> /\ asyncCalls' = Tail(asyncCalls) /\ UNCHANGED subs
          /\ uiStatus' = AfterCall(Head(asyncCalls)) /\ Head(asyncCalls) \in Calls
      BY <1>0, <1>5 DEF RunAsync
    <2>2. "system" \in uiStatus'["alert"]
      BY <1>0, <2>1 DEF ReleaseInv, AfterCall, Enable, EnableComp, Disable, Calls, Comps
    <2>3. /\ Head(asyncCalls) = "enableUi" => "ui" \in uiStatus'["alert"]
          /\ Head(asyncCalls) # "disableUi" /\ "ui" \in uiStatus["alert"]
                => "ui" \in uiStatus'["alert"]
      BY <1>0, <2>1 DEF AfterCall, Enable, EnableComp, Calls, Comps
    <2>4. ASSUME ShellShowsBoth PROVE OpenOrOpening(uiStatus', Tail(asyncCalls))
      BY <1>0, <2>1, <2>3, <2>4, OpeningTaken DEF ReleaseInv, OpenOrOpening
    <2>5. ShellShowsBoth' => ShellShowsBoth
      BY <2>1 DEF ShellShowsBoth
    <2> QED BY <2>1, <2>2, <2>4, <2>5 DEF ReleaseInv
  <1>6. ASSUME EnableExternal \/ DisableExternal PROVE ReleaseInv'
    <2>1. UNCHANGED <<asyncCalls, subs>> /\ "system" \in uiStatus'["alert"]
      BY <1>6 DEF EnableExternal, DisableExternal, Enable, Disable, ReleaseInv, Comps
    <2>2. "ui" \in uiStatus["alert"] => "ui" \in uiStatus'["alert"]
      BY <1>6 DEF EnableExternal, DisableExternal, Enable, Disable, Comps
    <2> QED BY <2>1, <2>2 DEF ReleaseInv, ShellShowsBoth, OpenOrOpening
  <1>7. ASSUME Restart PROVE ReleaseInv'
    BY <1>7 DEF Restart, ReleaseInv, ShellShowsBoth, InitialStatus, Comps, Methods, PostMethods
  <1>8. \/ UNCHANGED <<uiStatus, asyncCalls, subs>>
        \/ \E c \in Clients, m \in Methods : GetNotification(c, m) \/ SubscriptionCanceled(c, m)
        \/ \E c \in Clients : GetToastCount(c)
        \/ RunAsync \/ EnableExternal \/ DisableExternal \/ Restart
    BY DEF Next, vars, gateVars, SystemSettingForOption, CreateAlert,
           CreateAlertIsAllowed, CloseAlert, CloseAllAlerts, CloseAlerts, CreateToast, CloseToast,
           CloseToastsOf, CloseToasts, SetToastStatus, CreateNotification, RemoveNotification,
           RemoveNotificationsOf, RemoveRows, RemoveAllNotification
  <1> QED BY <1>1, <1>2, <1>3, <1>4, <1>5, <1>6, <1>7, <1>8

\* However clients come and go, an alert that waits while both lists have
\* subscribers and external is open has an enabling ahead of it that no deferred
\* disabling undoes.
THEOREM ReleasesCome == Spec => []ReleaseIsComing
  <1>1. Init => HeldInv /\ ReleaseInv
    BY DEF Init, InitialStatus, HeldInv, AlertUiStandsForAll, EnabledAlertsNotHeld, IsEnabled,
           ReleaseInv, ShellShowsBoth, Comps, Methods, PostMethods
  <1>2. TypeOK /\ HeldInv /\ ReleaseInv => ReleaseIsComing
    BY DEF TypeOK, Status, HeldInv, EnabledAlertsNotHeld, IsEnabled, Bits, ReleaseInv,
           ShellShowsBoth, OpenOrOpening, OpensLast, ReleaseIsComing
  <1> QED BY <1>1, <1>2, HeldStep, ReleaseStep, TypeCorrect, GatesAgree, PTL DEF Spec

-----------------------------------------------------------------------------
(* The panel's rows change in the order asked for.                           *)

\* One message applied as a sequence, or by itself.
LEMMA AfterOne ==
    ASSUME NEW items, NEW held, NEW m \in MessagesOver(items)
    PROVE  After(held, <<m>>) = Apply(held, m)
  <1>1. DOMAIN <<m>> = {1} /\ <<m>>[1] = m
    OBVIOUS
  <1>2. UNION {<<m>>[i].add : i \in DOMAIN <<m>>} = m.add
    BY <1>1
  <1> QED BY <1>1, <1>2 DEF After, Apply

LEMMA PushAppendsOrKeeps ==
    ASSUME NEW queue, NEW m
    PROVE  \/ Push(queue, m) = queue
           \/ Len(queue) < kMaxQueuedMessages /\ Push(queue, m) = Append(queue, m)
  BY DEF Push

\* What each action does to the queue and the rows, in the terms of
\* NotificationLog.
LEMMA NoteSteps ==
    ASSUME TypeOK, [Next]_vars
    PROVE  \/ UNCHANGED <<notiMsgQueue, history, UI_ENABLED>>
           \/ UI_ENABLED' /\ ProcessNotiMsgQueue(TRUE)
           \/ UNCHANGED UI_ENABLED /\ \E m \in Log!Changes : PostNotification(m)
           \/ UNCHANGED <<UI_ENABLED, notiMsgQueue>> /\ \E t \in Toasts : Store(<<Adding(t)>>)
           \/ /\ UNCHANGED <<UI_ENABLED, notiMsgQueue>>
              /\ \/ \E x \in Rows : Store(<<Dropping({x})>>)
                 \/ \E s \in Sources : Store(<<Dropping(RowsOf(s))>>)
           \/ ~UI_ENABLED' /\ notiMsgQueue' = <<>> /\ UNCHANGED history
  <1> DEFINE Step ==
        \/ UNCHANGED <<notiMsgQueue, history, UI_ENABLED>>
        \/ UI_ENABLED' /\ ProcessNotiMsgQueue(TRUE)
        \/ UNCHANGED UI_ENABLED /\ \E m \in Log!Changes : PostNotification(m)
        \/ UNCHANGED <<UI_ENABLED, notiMsgQueue>> /\ \E t \in Toasts : Store(<<Adding(t)>>)
        \/ /\ UNCHANGED <<UI_ENABLED, notiMsgQueue>>
           /\ \/ \E x \in Rows : Store(<<Dropping({x})>>)
              \/ \E s \in Sources : Store(<<Dropping(RowsOf(s))>>)
        \/ ~UI_ENABLED' /\ notiMsgQueue' = <<>> /\ UNCHANGED history
  <1> SUFFICES Step
    OBVIOUS
  <1>1. CASE UNCHANGED vars
    BY <1>1 DEF vars, gateVars, noteVars
  <1>2. ASSUME \/ \E c \in Clients, m \in Methods : GetNotification(c, m)
               \/ \E c \in Clients : GetToastCount(c)
        PROVE  Step
    BY <1>2 DEF GetNotification, GetToastCount
  <1>3. ASSUME \/ \E c \in Clients, m \in Methods : SubscriptionCanceled(c, m)
               \/ RunAsync \/ EnableExternal \/ DisableExternal \/ SystemSettingForOption
        PROVE  Step
    BY <1>3 DEF SubscriptionCanceled, RunAsync, EnableExternal, DisableExternal,
                SystemSettingForOption, noteVars
  <1>4. ASSUME \/ \E a \in Alerts, bad, ignoreDisable \in BOOLEAN, n \in 0 .. MaxUris :
                     CreateAlert(a, bad, ignoreDisable, n)
               \/ \E a \in Alerts, allowed \in BOOLEAN : CreateAlertIsAllowed(a, allowed)
               \/ \E a \in Alerts : CloseAlert(a)
               \/ CloseAllAlerts
        PROVE  Step
    BY <1>4 DEF CreateAlert, CreateAlertIsAllowed, CloseAlert, CloseAllAlerts, CloseAlerts,
                noteVars, gateVars
  <1>5. ASSUME NEW t \in Toasts, NEW flaw \in ToastFlaws, NEW ignoreDisable \in BOOLEAN,
               NEW stale \in BOOLEAN, NEW persistent \in BOOLEAN,
               CreateToast(t, flaw, ignoreDisable, stale, persistent)
        PROVE  Step
    <2>1. UNCHANGED <<UI_ENABLED, notiMsgQueue>>
      BY <1>5 DEF CreateToast, gateVars
    <2>2. UNCHANGED history \/ Store(<<Adding(t)>>)
      BY <1>5 DEF CreateToast, storeVars
    <2> QED BY <2>1, <2>2
  <1>6. ASSUME (\E x \in Rows : CloseToast(x)) \/ (\E s \in Sources : CloseToastsOf(s))
        PROVE  Step
    BY <1>6 DEF CloseToast, CloseToastsOf, CloseToasts, gateVars
  <1>7. ASSUME \E t \in Toasts, d \in Displays, status \in BOOLEAN : SetToastStatus(t, d, status)
        PROVE  Step
    BY <1>7 DEF SetToastStatus, gateVars
  <1>8. ASSUME NEW n \in Notes, NEW bad \in BOOLEAN, CreateNotification(n, bad) PROVE Step
    <2>1. Adding(n) \in Log!Changes
      BY DEF Log!Changes, Log!Adding, Adding
    <2> QED BY <1>8, <2>1 DEF CreateNotification, noteVars, gateVars
  <1>9. ASSUME NEW rows \in SUBSET Rows, PostNotification(Dropping(rows)), UNCHANGED UI_ENABLED
        PROVE  Step
    <2>1. Dropping(rows) \in Log!Changes
      BY DEF Log!Changes, Log!Dropping, Dropping
    <2> QED BY <1>9, <2>1
  <1>10. ASSUME \/ \E gone \in SUBSET Notes : RemoveNotification(gone)
                \/ \E s \in Sources : RemoveNotificationsOf(s)
                \/ \E d \in Displays : RemoveAllNotification(d)
         PROVE  Step
    <2>1. \E rows \in SUBSET Rows : PostNotification(Dropping(rows)) /\ UNCHANGED UI_ENABLED
      <3>1. \A gone \in SUBSET Notes : gone \in SUBSET Rows
        BY DEF Rows
      <3>2. \A s \in Sources : RowsOf(s) \in SUBSET Rows
        BY DEF RowsOf
      <3>3. \A d \in Displays : ToastsAt(d) \in SUBSET Rows
        BY DEF ToastsAt, Rows
      <3> QED BY <1>10, <3>1, <3>2, <3>3
              DEF RemoveNotification, RemoveNotificationsOf, RemoveRows, RemoveAllNotification, gateVars
    <2> QED BY <1>9, <2>1
  <1>11. ASSUME Restart PROVE Step
    BY <1>11 DEF Restart, storeVars
  <1> QED BY <1>1, <1>2, <1>3, <1>4, <1>5, <1>6, <1>7, <1>8, <1>10, <1>11 DEF Next

LEMMA DrainedStep == TypeOK /\ NotiQueueDrained /\ [Next]_vars => NotiQueueDrained'
  BY NoteSteps DEF NotiQueueDrained, ProcessNotiMsgQueue, PostNotification

\* Once the shell was let in, no change of the panel waits.
THEOREM PanelDrained == Spec => []NotiQueueDrained
  <1>1. Init => NotiQueueDrained
    BY DEF Init, NotiQueueDrained
  <1> QED BY <1>1, DrainedStep, TypeCorrect, PTL DEF Spec

LEMMA LogStep ==
    ASSUME TypeOK, NotiQueueDrained, [Next]_vars
    PROVE  [Log!LogNext]_(Log!logVars)
  <1>1. CASE UNCHANGED <<notiMsgQueue, history>>
    BY <1>1 DEF Log!logVars
  <1>2. ASSUME ProcessNotiMsgQueue(TRUE) PROVE Log!Release
    BY <1>2 DEF ProcessNotiMsgQueue, Store, Log!Release, Log!After, After
  <1>3. ASSUME NEW m \in Log!Changes, PostNotification(m)
        PROVE  Log!Accept(m) \/ Log!Hold(m) \/ UNCHANGED <<notiMsgQueue, history>>
    <2>1. m \in MessagesOver(Rows)
      BY DEF Log!Changes, Log!Adding, Log!Dropping, MessagesOver, Rows
    <2>2. CASE UI_ENABLED
      <3>1. history' = Apply(history, m) /\ notiMsgQueue = <<>> /\ UNCHANGED notiMsgQueue
        BY <1>3, <2>1, <2>2, AfterOne DEF PostNotification, Store, NotiQueueDrained
      <3> QED BY <3>1 DEF Log!Accept, Log!Apply, Apply
    <2>3. CASE ~UI_ENABLED
      BY <1>3, <2>3, PushAppendsOrKeeps DEF PostNotification, storeVars, Log!Hold
    <2> QED BY <2>2, <2>3
  <1>4. ASSUME NEW t \in Toasts, Store(<<Adding(t)>>), UNCHANGED notiMsgQueue
        PROVE  Log!BesideTheLine
    <2>1. history' = history \cup {t}
      BY <1>4, AfterOne, MessageType DEF Store, Apply, Adding
    <2>2. t \in Rows \ Notes
      BY ConstantsAssumption DEF Rows
    <2> QED BY <1>4, <2>1, <2>2 DEF Log!BesideTheLine
  <1>5. ASSUME NEW gone \in SUBSET Rows, Store(<<Dropping(gone)>>)
        PROVE  history' = history \ gone
    BY <1>5, AfterOne, MessageType DEF Store, Apply, Dropping
  <1>6. ASSUME NEW x \in Rows, Store(<<Dropping({x})>>), UNCHANGED notiMsgQueue
        PROVE  Log!BesideTheLine
    <2>1. history' = history \ {x}
      BY <1>5, <1>6
    <2> QED BY <1>6, <2>1 DEF Log!BesideTheLine
  <1>7. ASSUME NEW s \in Sources, Store(<<Dropping(RowsOf(s))>>), UNCHANGED notiMsgQueue
        PROVE  Log!BesideTheLine
    <2>1. RowsOf(s) \in SUBSET Rows
      BY DEF RowsOf
    <2> QED BY <1>5, <1>7, <2>1 DEF Log!BesideTheLine
  <1>8. ASSUME notiMsgQueue' = <<>>, UNCHANGED history PROVE Log!Lose
    BY <1>8 DEF Log!Lose
  <1> QED BY <1>1, <1>2, <1>3, <1>4, <1>6, <1>7, <1>8, NoteSteps DEF Log!LogNext, Log!logVars

\* The daemon implements NotificationLog: whatever the gates, the restarts and
\* the interleaving, panel changes are applied in order.
THEOREM LogImplemented == Spec => AppliedInOrder
  <1>1. Init => Log!LogInit
    BY DEF Init, Log!LogInit
  <1> QED BY <1>1, LogStep, TypeCorrect, PanelDrained, PTL DEF Spec, AppliedInOrder, Log!LogSpec

-----------------------------------------------------------------------------
(* A drain is its loop: the closed form of After, message by message.        *)

LEMMA AfterNothing == ASSUME NEW held PROVE After(held, <<>>) = held
  <1>1. DOMAIN <<>> = {}
    OBVIOUS
  <1>2. UNION {<<>>[i].add : i \in DOMAIN <<>>} = {}
    BY <1>1
  <1> QED BY <1>1, <1>2 DEF After

\* The closed form of After is what posting message by message does: one more
\* message at the end of a queue is applied to what the others left
\* (the loops of processAlertMsgQueue, processNotiMsgQueue, processToastMsgQueue).
THEOREM PostedOneByOne ==
    ASSUME NEW items, NEW held, NEW q \in Seq(MessagesOver(items)), NEW m \in MessagesOver(items)
    PROVE  /\ After(held, <<>>) = held
           /\ After(held, Append(q, m)) = Apply(After(held, q), m)
  <1>1. After(held, <<>>) = held
    BY AfterNothing
  <1> DEFINE n == Len(q) + 1
             r == Append(q, m)
  <1>2. /\ DOMAIN q = 1 .. Len(q) /\ DOMAIN r = 1 .. n /\ Len(q) \in Nat
        /\ r[n] = m /\ \A i \in DOMAIN q : r[i] = q[i]
    OBVIOUS
  <1> HIDE DEF r
  <1>3. \A i \in DOMAIN q : i \in DOMAIN r /\ n > i /\ i # n
    BY <1>2
  <1>4. n \in DOMAIN r /\ \A i \in DOMAIN r : i # n => i \in DOMAIN q
    BY <1>2
  <1>5. \A j \in DOMAIN r : ~(j > n)
    BY <1>2
  <1>6. ASSUME NEW x, x \in After(held, r) PROVE x \in Apply(After(held, q), m)
    <2>1. CASE x \in m.add
      BY <2>1 DEF Apply
    <2>2. CASE x \notin m.add /\ \E i \in DOMAIN r : x \in r[i].add
                                     /\ \A j \in DOMAIN r : j > i => x \notin r[j].drop
      <3>1. PICK i \in DOMAIN r : x \in r[i].add /\ \A j \in DOMAIN r : j > i => x \notin r[j].drop
        BY <2>2
      <3>2. i \in DOMAIN q /\ x \notin m.drop /\ x \in q[i].add
        BY <1>2, <1>3, <1>4, <2>2, <3>1
      <3>3. \A j \in DOMAIN q : j > i => x \notin q[j].drop
        BY <1>2, <1>3, <3>1
      <3>4. x \in After(held, q)
        BY <3>2, <3>3 DEF After
      <3> QED BY <3>2, <3>4 DEF Apply
    <2>3. CASE x \in held /\ \A i \in DOMAIN r : x \notin r[i].drop
      <3>1. x \notin m.drop /\ \A i \in DOMAIN q : x \notin q[i].drop
        BY <1>2, <1>3, <1>4, <2>3
      <3> QED BY <2>3, <3>1 DEF After, Apply
    <2> QED BY <1>6, <2>1, <2>2, <2>3 DEF After
  <1>7. ASSUME NEW x, x \in Apply(After(held, q), m) PROVE x \in After(held, r)
    <2>1. CASE x \in m.add
      <3>1. x \in r[n].add /\ \A j \in DOMAIN r : j > n => x \notin r[j].drop
        BY <1>2, <1>5, <2>1
      <3> QED BY <1>4, <3>1 DEF After
    <2>2. CASE x \notin m.add
      <3>1. x \in After(held, q) /\ x \notin m.drop
        BY <1>7, <2>2 DEF Apply
      <3>2. CASE x \in held /\ \A i \in DOMAIN q : x \notin q[i].drop
        <4>1. \A i \in DOMAIN r : x \notin r[i].drop
          BY <1>2, <1>4, <3>1, <3>2
        <4> QED BY <3>2, <4>1 DEF After
      <3>3. CASE \E i \in DOMAIN q : x \in q[i].add /\ \A j \in DOMAIN q : j > i => x \notin q[j].drop
        <4>1. PICK i \in DOMAIN q :
                x \in q[i].add /\ \A j \in DOMAIN q : j > i => x \notin q[j].drop
          BY <3>3
        <4>2. i \in DOMAIN r /\ x \in r[i].add
          BY <1>2, <1>3, <4>1
        <4>3. \A j \in DOMAIN r : j > i => x \notin r[j].drop
          BY <1>2, <1>4, <3>1, <4>1
        <4> QED BY <4>2, <4>3 DEF After
      <3> QED BY <3>1, <3>2, <3>3 DEF After
    <2> QED BY <2>1, <2>2
  <1>8. After(held, r) = Apply(After(held, q), m)
    BY <1>6, <1>7
  <1> QED BY <1>1, <1>8 DEF r

\* The loops themselves: f is what is held after each of the posts (f[0] before
\* the first), and what it comes to is the closed form. So the drains of the
\* model, done in one step, are those of processAlertMsgQueue,
\* processToastMsgQueue and processNotiMsgQueue, of queues of any length.
THEOREM DrainedPostByPost ==
    ASSUME NEW items, NEW held, NEW q \in Seq(MessagesOver(items)), NEW f, f[0] = held,
           \A i \in 1 .. Len(q) : f[i] = Apply(f[i - 1], q[i])
    PROVE  f[Len(q)] = After(held, q)
  <1> DEFINE First(k) == SubSeq(q, 1, k)
             S == {k \in Nat : k <= Len(q) => f[k] = After(held, First(k))}
  <1>1. 0 \in S
    <2>1. First(0) = <<>>
      OBVIOUS
    <2>2. After(held, <<>>) = held
      BY AfterNothing
    <2> QED BY <2>1, <2>2
  <1>0. \A p \in Seq(MessagesOver(items)), m \in MessagesOver(items) :
           After(held, Append(p, m)) = Apply(After(held, p), m)
    BY PostedOneByOne
  <1>2. ASSUME NEW k \in Nat, k \in S PROVE k + 1 \in S
    <2> SUFFICES ASSUME k + 1 <= Len(q) PROVE f[k + 1] = After(held, First(k + 1))
      OBVIOUS
    <2>1. /\ First(k) \in Seq(MessagesOver(items)) /\ q[k + 1] \in MessagesOver(items)
          /\ First(k + 1) = Append(First(k), q[k + 1])
      OBVIOUS
    <2>2. f[k] = After(held, First(k)) /\ f[k + 1] = Apply(f[k], q[k + 1])
      BY <1>2
    <2> HIDE DEF First
    <2>3. After(held, First(k + 1)) = Apply(After(held, First(k)), q[k + 1])
      BY <1>0, <2>1
    <2> QED BY <2>2, <2>3
  <1>3. Len(q) \in Nat /\ First(Len(q)) = q
    OBVIOUS
  <1> HIDE DEF S, First
  <1>4. Nat \subseteq S
    BY <1>1, <1>2, Induction
  <1> QED BY <1>3, <1>4 DEF S

-----------------------------------------------------------------------------
(* A removed notification does not come back. The invariant is about one     *)
(* notification: once it was removed, no creation of it waits without a      *)
(* removal behind it.                                                        *)

Undone(n) == n \in closed => reply[n] = "ok" /\ n \notin After({}, notiMsgQueue)

RemovalInv == \A n \in Notes : Undone(n)

\* What a step owes to notification n.
Owed(n) == Undone(n)' /\ (n \in closed /\ n \in history' => n \in history)

\* A sequence of messages leaves what was held before or what it adds itself.
LEMMA AfterAddsItsOwn ==
    ASSUME NEW items, NEW held, NEW q \in Seq(MessagesOver(items))
    PROVE  After(held, q) \subseteq held \cup After({}, q)
  BY DEF After

\* Steps that have nothing to do with n, or at most forget its row.
LEMMA AsideStep ==
    ASSUME NEW n \in Notes, Undone(n), UNCHANGED notiMsgQueue,
           reply'[n] = reply[n], n \in closed' => n \in closed,
           n \in history' => n \in history
    PROVE  Owed(n)
  BY DEF Undone, Owed

\* A drain, or a restart.
LEMMA EmptyingStep ==
    ASSUME TypeOK, NEW n \in Notes, Undone(n), notiMsgQueue' = <<>>,
           reply'[n] = reply[n], closed' = closed,
           history' = history \/ history' = After(history, notiMsgQueue)
    PROVE  Owed(n)
  <1>1. Undone(n)'
    BY AfterNothing DEF Undone
  <1>2. notiMsgQueue \in Seq(MessagesOver(Rows))
    BY DEF TypeOK, QueuesOf
  <1>3. After(history, notiMsgQueue) \subseteq history \cup After({}, notiMsgQueue)
    BY <1>2, AfterAddsItsOwn
  <1> QED BY <1>1, <1>3 DEF Undone, Owed

\* A change that does not create n, and may be its removal.
LEMMA PostStep ==
    ASSUME TypeOK, NotiQueueDrained, NEW n \in Notes, Undone(n),
           NEW m \in MessagesOver(Rows), PostNotification(m), n \notin m.add,
           reply'[n] = reply[n],
           n \in closed' =>
               \/ n \in closed
               \/ /\ reply[n] = "ok" /\ n \in m.drop
                  /\ UI_ENABLED \/ Len(notiMsgQueue) < kMaxQueuedMessages
    PROVE  Owed(n)
  <1>1. CASE UI_ENABLED
    <2>1. notiMsgQueue = <<>> /\ notiMsgQueue' = <<>> /\ history' = Apply(history, m)
      BY <1>1, AfterOne DEF PostNotification, Store, NotiQueueDrained
    <2>2. n \in history' => n \in history
      BY <2>1 DEF Apply
    <2> QED BY <2>1, <2>2, AfterNothing DEF Undone, Owed
  <1>2. CASE ~UI_ENABLED
    <2>1. notiMsgQueue' = Push(notiMsgQueue, m) /\ history' = history
      BY <1>2 DEF PostNotification, storeVars
    <2>2. notiMsgQueue \in Seq(MessagesOver(Rows))
      BY DEF TypeOK, QueuesOf
    <2>3. After({}, Append(notiMsgQueue, m)) = Apply(After({}, notiMsgQueue), m)
      BY <2>2, PostedOneByOne
    <2>4. CASE Len(notiMsgQueue) < kMaxQueuedMessages
      <3>1. n \in After({}, notiMsgQueue') => n \in After({}, notiMsgQueue) /\ n \notin m.drop
        BY <2>1, <2>3, <2>4 DEF Push, Apply
      <3> QED BY <2>1, <3>1 DEF Undone, Owed
    <2>5. CASE ~(Len(notiMsgQueue) < kMaxQueuedMessages)
      BY <1>2, <2>1, <2>5 DEF Push, Undone, Owed
    <2> QED BY <2>4, <2>5
  <1> QED BY <1>1, <1>2

LEMMA RemovalStep ==
    ASSUME TypeOK, NotiQueueDrained, [Next]_vars, NEW n \in Notes, Undone(n)
    PROVE  Owed(n)
  <1>0. n \notin Alerts /\ n \notin Toasts /\ n \in Rows /\ n \in Requests
    BY ConstantsAssumption DEF Rows, Requests
  <1>1. CASE UNCHANGED vars
    BY <1>1, AsideStep DEF vars, noteVars, callVars
  <1>2. ASSUME \/ \E c \in Clients, m \in Methods : GetNotification(c, m)
               \/ \E c \in Clients : GetToastCount(c)
        PROVE  Owed(n)
    BY <1>2, EmptyingStep DEF GetNotification, GetToastCount, ProcessNotiMsgQueue, Store, callVars
  <1>3. ASSUME \/ \E c \in Clients, m \in Methods : SubscriptionCanceled(c, m)
               \/ RunAsync \/ EnableExternal \/ DisableExternal \/ SystemSettingForOption
        PROVE  Owed(n)
    BY <1>3, AsideStep
    DEF SubscriptionCanceled, RunAsync, EnableExternal, DisableExternal, SystemSettingForOption,
        noteVars, callVars
  <1>4. ASSUME NEW x \in Requests \ Notes, NEW result, Answer(x, result)
        PROVE  reply'[n] = reply[n]
    BY <1>0, <1>4 DEF Answer, TypeOK
  <1>5. ASSUME NEW a \in Alerts,
               \/ \E bad, ignoreDisable \in BOOLEAN, k \in 0 .. MaxUris :
                     CreateAlert(a, bad, ignoreDisable, k)
               \/ \E allowed \in BOOLEAN : CreateAlertIsAllowed(a, allowed)
        PROVE  Owed(n)
    <2>1. a \in Requests \ Notes
      BY ConstantsAssumption DEF Requests
    <2>2. UNCHANGED <<notiMsgQueue, history, closed>>
      BY <1>5 DEF CreateAlert, CreateAlertIsAllowed, noteVars
    <2>3. UNCHANGED reply \/ \E result : Answer(a, result)
      BY <1>5 DEF CreateAlert, CreateAlertIsAllowed, CheckNextUri, AlertRespond,
                  AlertRespondWithError
    <2> QED BY <1>4, <2>1, <2>2, <2>3, AsideStep
  <1>6. ASSUME CloseAllAlerts \/ \E a \in Alerts : CloseAlert(a) PROVE Owed(n)
    <2>1. UNCHANGED <<notiMsgQueue, history, reply>> /\ closed' \subseteq closed \cup Alerts
      BY <1>6 DEF CloseAllAlerts, CloseAlert, CloseAlerts, noteVars
    <2> QED BY <1>0, <2>1, AsideStep
  <1>7. ASSUME NEW t \in Toasts, NEW flaw \in ToastFlaws, NEW ignoreDisable \in BOOLEAN,
               NEW stale \in BOOLEAN, NEW persistent \in BOOLEAN,
               CreateToast(t, flaw, ignoreDisable, stale, persistent)
        PROVE  Owed(n)
    <2>1. t \in Requests \ Notes
      BY ConstantsAssumption DEF Requests
    <2>2. UNCHANGED <<notiMsgQueue, closed>> /\ \E result : Answer(t, result)
      BY <1>7 DEF CreateToast
    <2>3. UNCHANGED history \/ history' = After(history, <<Adding(t)>>)
      BY <1>7 DEF CreateToast, Store, storeVars
    <2>4. Adding(t) \in MessagesOver(Rows)
      BY MessageType DEF Rows
    <2>5. history' \subseteq history \cup {t}
      BY <2>3, <2>4, AfterOne DEF Apply, Adding
    <2> QED BY <1>0, <1>4, <2>1, <2>2, <2>5, AsideStep
  <1>8. ASSUME (\E x \in Rows : CloseToast(x)) \/ (\E s \in Sources : CloseToastsOf(s))
        PROVE  Owed(n)
    <2>1. PICK rows \in SUBSET Rows, gone \in SUBSET Toasts : CloseToasts(rows, gone)
      BY <1>8 DEF CloseToast, CloseToastsOf, RowsOf, Rows
    <2>2. UNCHANGED <<notiMsgQueue, reply, closed>>
      BY <2>1 DEF CloseToasts, callVars
    <2>3. history' = Apply(history, Dropping(rows))
      BY <2>1, AfterOne, MessageType DEF CloseToasts, Store
    <2>4. history' \subseteq history
      BY <2>3 DEF Apply, Dropping
    <2> QED BY <1>0, <2>2, <2>4, AsideStep
  <1>9. ASSUME \E t \in Toasts, d \in Displays, status \in BOOLEAN : SetToastStatus(t, d, status)
        PROVE  Owed(n)
    BY <1>9, AsideStep DEF SetToastStatus, callVars
  <1>10. ASSUME NEW k \in Notes, NEW bad \in BOOLEAN, CreateNotification(k, bad) PROVE Owed(n)
    <2>1. CASE k = n
      <3>1. reply[n] = "none" /\ closed' = closed
        BY <1>10, <2>1 DEF CreateNotification
      <3> QED BY <3>1 DEF Undone, Owed
    <2>2. CASE k # n
      <3>1. reply'[n] = reply[n] /\ closed' = closed
        BY <1>10, <2>2, <1>0 DEF CreateNotification, Answer, TypeOK
      <3>2. CASE UNCHANGED noteVars
        BY <3>1, <3>2, AsideStep DEF noteVars
      <3>3. CASE PostNotification(Adding(k))
        <4>1. Adding(k) \in MessagesOver(Rows) /\ n \notin Adding(k).add
          BY <2>2, MessageType DEF Rows, Adding
        <4> QED BY <3>1, <3>3, <4>1, PostStep
      <3> QED BY <1>10, <3>2, <3>3 DEF CreateNotification
    <2> QED BY <2>1, <2>2
  <1>11. ASSUME NEW rows \in SUBSET Rows, RemoveRows(rows) PROVE Owed(n)
    <2>1. Dropping(rows) \in MessagesOver(Rows) /\ n \notin Dropping(rows).add
          /\ Dropping(rows).drop = rows
      BY MessageType DEF Dropping
    <2>2. PostNotification(Dropping(rows)) /\ reply' = reply
      BY <1>11 DEF RemoveRows
    <2>3. n \in closed' =>
             \/ n \in closed
             \/ /\ reply[n] = "ok" /\ n \in rows
                /\ UI_ENABLED \/ Len(notiMsgQueue) < kMaxQueuedMessages
      BY <1>11 DEF RemoveRows
    <2> QED BY <2>1, <2>2, <2>3, PostStep
  <1>12. ASSUME \/ \E gone \in SUBSET Notes : RemoveNotification(gone)
                \/ \E s \in Sources : RemoveNotificationsOf(s)
         PROVE  Owed(n)
    <2>1. \E rows \in SUBSET Rows : RemoveRows(rows)
      BY <1>12 DEF RemoveNotification, RemoveNotificationsOf, RowsOf, Rows
    <2> QED BY <1>11, <2>1
  <1>13. ASSUME NEW d \in Displays, RemoveAllNotification(d) PROVE Owed(n)
    <2>1. /\ Dropping(ToastsAt(d)) \in MessagesOver(Rows)
          /\ n \notin Dropping(ToastsAt(d)).add
      BY MessageType DEF Dropping, ToastsAt, Rows
    <2>2. PostNotification(Dropping(ToastsAt(d))) /\ reply' = reply /\ closed' = closed
      BY <1>13 DEF RemoveAllNotification, callVars
    <2> QED BY <2>1, <2>2, PostStep
  <1>14. ASSUME Restart PROVE Owed(n)
    <2>1. notiMsgQueue' = <<>> /\ UNCHANGED <<history, closed>> /\ reply'[n] = reply[n]
      BY <1>0, <1>14 DEF Restart, storeVars
    <2> QED BY <2>1, EmptyingStep
  <1> QED
    BY <1>1, <1>2, <1>3, <1>5, <1>6, <1>7, <1>8, <1>9, <1>10, <1>12, <1>13, <1>14 DEF Next

LEMMA RemovalInvStep ==
    TypeOK /\ NotiQueueDrained /\ RemovalInv /\ [Next]_vars
        => RemovalInv' /\ (\A n \in Notes \cap closed : n \in history' => n \in history)
  BY RemovalStep DEF RemovalInv, Owed

\* A notification whose removal was posted or queued never comes to db8 again,
\* by whatever drains, restarts and other requests follow (postNotification,
\* processNotiMsgQueue).
THEOREM RemovalHolds == Spec => RemovedStaysRemoved
  <1>1. Init => RemovalInv
    BY DEF Init, RemovalInv, Undone
  <1>2. TypeOK /\ NotiQueueDrained /\ RemovalInv /\ [Next]_vars
            => [\A n \in Notes \cap closed : n \in history' => n \in history]_vars
    BY RemovalInvStep
  <1> QED
    BY <1>1, <1>2, RemovalInvStep, TypeCorrect, PanelDrained, PTL DEF Spec, RemovedStaysRemoved
=============================================================================
