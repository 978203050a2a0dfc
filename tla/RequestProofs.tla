---------------------------- MODULE RequestProofs ----------------------------
(* What becomes of a request, for every value of NotificationService's       *)
(* constants: its one answer, where it may be known after it, the moment a   *)
(* toast may come to a screen, and the counters it leaves.                   *)
EXTENDS NotificationServiceProofs

-----------------------------------------------------------------------------
(* Toasts: what each action does to their queue and their screens.           *)

\* Nothing new is shown or queued.
KeepsToasts ==
    /\ UNCHANGED toastMsgQueue
    /\ \A c \in Clients : toastsOn'[c] \subseteq toastsOn[c]
    /\ UI_ENABLED => UI_ENABLED'
    /\ subs'["getToastNotification"] \subseteq subs["getToastNotification"]

DrainsToasts ==
    UI_ENABLED' /\ \E receivers \in SUBSET Clients : ProcessToastMsgQueue(TRUE, receivers)

ClosesToasts ==
    /\ UNCHANGED <<UI_ENABLED, subs>>
    /\ \E gone \in SUBSET Toasts, success \in BOOLEAN : PostToast(Dropping(gone), FALSE, success)

\* A toast that can be shown has the shell let in.
OpensToast ==
    /\ UNCHANGED <<UI_ENABLED, subs>>
    /\ \E t \in Toasts, stale, success \in BOOLEAN :
          /\ stale \/ UI_ENABLED
          /\ PostToast(Adding(t), stale, success)
          /\ reply[t] = "none" /\ reply'[t] \in {"ok", "unposted"}

ForgetsToasts ==
    /\ toastMsgQueue' = <<>> /\ UNCHANGED toastsOn
    /\ subs'["getToastNotification"] = {}

LEMMA ToastSteps ==
    ASSUME TypeOK, UiBitImpliesUiEnabled, [Next]_vars
    PROVE  KeepsToasts \/ DrainsToasts \/ ClosesToasts \/ OpensToast \/ ForgetsToasts
  <1> DEFINE Step == KeepsToasts \/ DrainsToasts \/ ClosesToasts \/ OpensToast \/ ForgetsToasts
  <1>0. /\ toastsOn \in [Clients -> SUBSET Toasts] /\ subs \in [Methods -> SUBSET Clients]
        /\ reply \in [Requests -> Replies]
        /\ "getToastNotification" \in Methods
    BY DEF TypeOK, Methods, PostMethods
  <1>1. ASSUME UNCHANGED <<toastVars, UI_ENABLED, subs>> PROVE Step
    BY <1>1 DEF KeepsToasts, toastVars
  <1>2. ASSUME NEW c \in Clients, NEW m \in Methods, GetNotification(c, m) PROVE Step
    <2>1. subs'["getToastNotification"] \in SUBSET Clients
      BY <1>0, <1>2 DEF GetNotification, Subscribe
    <2> QED BY <1>2, <2>1 DEF GetNotification, DrainsToasts
  <1>3. ASSUME NEW c \in Clients, GetToastCount(c) PROVE Step
    <2>1. subs'["getToastNotification"] = subs["getToastNotification"]
      BY <1>0, <1>3 DEF GetToastCount, Subscribe
    <2> QED BY <1>3, <2>1 DEF GetToastCount, KeepsToasts, toastVars
  <1>4. ASSUME NEW c \in Clients, NEW m \in Methods, SubscriptionCanceled(c, m) PROVE Step
    <2>1. subs'["getToastNotification"] \subseteq subs["getToastNotification"]
      BY <1>0, <1>4 DEF SubscriptionCanceled
    <2>2. \A d \in Clients : toastsOn'[d] \subseteq toastsOn[d]
      BY <1>0, <1>4 DEF SubscriptionCanceled
    <2> QED BY <1>4, <2>1, <2>2 DEF SubscriptionCanceled, KeepsToasts
  <1>5. ASSUME NEW t \in Toasts, NEW flaw \in ToastFlaws, NEW ignoreDisable \in BOOLEAN,
               NEW stale \in BOOLEAN, NEW persistent \in BOOLEAN,
               CreateToast(t, flaw, ignoreDisable, stale, persistent)
        PROVE  Step
    <2>1. UNCHANGED <<UI_ENABLED, subs>>
      BY <1>5 DEF CreateToast, gateVars
    <2>2. CASE flaw = "unknown" \/ IsToastRefused(flaw, ignoreDisable, stale)
      BY <1>1, <1>5, <2>1, <2>2 DEF CreateToast
    <2>3. CASE flaw # "unknown" /\ ~IsToastRefused(flaw, ignoreDisable, stale)
      <3>1. stale \/ UI_ENABLED
        BY <2>3 DEF IsToastRefused, IsEnabled, UiBitImpliesUiEnabled, Comps
      <3>2. PICK success \in BOOLEAN :
                /\ reply[t] = "none" /\ PostToast(Adding(t), stale, success)
                /\ Answer(t, IF success THEN "ok" ELSE "unposted")
        BY <1>5, <2>3 DEF CreateToast
      <3>3. t \in Requests
        BY DEF Requests
      <3>4. reply'[t] \in {"ok", "unposted"}
        BY <1>0, <3>2, <3>3 DEF Answer
      <3> QED BY <2>1, <3>1, <3>2, <3>4 DEF OpensToast
    <2> QED BY <2>2, <2>3
  <1>6. ASSUME (\E x \in Rows : CloseToast(x)) \/ (\E s \in Sources : CloseToastsOf(s))
        PROVE  Step
    <2>1. \E rows, gone \in SUBSET Rows : gone \in SUBSET Toasts /\ CloseToasts(rows, gone)
      <3>1. \A s \in Sources : RowsOf(s) \in SUBSET Rows
        BY DEF RowsOf
      <3>2. \A x \in Rows : {x} \in SUBSET Rows /\ {x} \cap Toasts \in SUBSET Toasts
        OBVIOUS
      <3> QED BY <1>6, <3>1, <3>2 DEF CloseToast, CloseToastsOf
    <2> QED BY <2>1 DEF CloseToasts, ClosesToasts, gateVars
  <1>7. ASSUME Restart PROVE Step
    BY <1>0, <1>7 DEF Restart, ForgetsToasts
  <1>8. \/ UNCHANGED <<toastVars, UI_ENABLED, subs>>
        \/ \E c \in Clients, m \in Methods : GetNotification(c, m) \/ SubscriptionCanceled(c, m)
        \/ \E c \in Clients : GetToastCount(c)
        \/ \E t \in Toasts, flaw \in ToastFlaws, ignoreDisable, stale, persistent \in BOOLEAN :
              CreateToast(t, flaw, ignoreDisable, stale, persistent)
        \/ \E x \in Rows : CloseToast(x)
        \/ \E s \in Sources : CloseToastsOf(s)
        \/ Restart
    BY DEF Next, vars, gateVars, RunAsync, EnableExternal, DisableExternal,
           SystemSettingForOption, CreateAlert, CreateAlertIsAllowed, CloseAlert, CloseAllAlerts,
           CloseAlerts, SetToastStatus, CreateNotification, RemoveNotification,
           RemoveNotificationsOf, RemoveRows, RemoveAllNotification
  <1> QED BY <1>1, <1>2, <1>3, <1>4, <1>5, <1>6, <1>7, <1>8

-----------------------------------------------------------------------------
(* The queue of toasts. Only closes are ever put in it, and none while a     *)
(* client is subscribed to toasts.                                           *)

ToastQueueInv ==
    /\ subs["getToastNotification"] # {} => UI_ENABLED /\ toastMsgQueue = <<>>
    /\ AddedBy(toastMsgQueue) = {}

LEMMA PushAdds ==
    ASSUME NEW items, NEW q \in Seq(MessagesOver(items)), NEW m \in MessagesOver(items)
    PROVE  AddedBy(Push(q, m)) \subseteq AddedBy(q) \cup m.add
  <1>1. CASE Push(q, m) = q
    BY <1>1
  <1>2. CASE Push(q, m) = Append(q, m)
    <2>1. \A i \in DOMAIN Append(q, m) :
              Append(q, m)[i] = m \/ (i \in DOMAIN q /\ Append(q, m)[i] = q[i])
      OBVIOUS
    <2> QED BY <1>2, <2>1 DEF AddedBy
  <1> QED BY <1>1, <1>2 DEF Push

LEMMA EmptyAddsNothing == AddedBy(<<>>) = {}
  <1>1. DOMAIN <<>> = {}
    OBVIOUS
  <1> QED BY <1>1 DEF AddedBy

\* What a client holds afterwards it held before, or some message added it.
LEMMA AfterFrom ==
    ASSUME NEW held, NEW q
    PROVE  After(held, q) \subseteq held \cup AddedBy(q)
  BY DEF After, AddedBy

\* Whomever the messages reach.
LEMMA PostedFrom ==
    ASSUME NEW on, NEW q, NEW reached, NEW c \in Clients
    PROVE  Posted(on, q, reached)[c] \subseteq on[c] \cup AddedBy(q)
  <1> DEFINE got == [i \in DOMAIN q |-> IF c \in reached[i] THEN q[i] ELSE Dropping({})]
  <1>1. Posted(on, q, reached)[c] = After(on[c], got)
    BY DEF Posted
  <1>2. \A i \in DOMAIN q : got[i].add \subseteq q[i].add
    BY DEF Dropping
  <1>3. AddedBy(got) \subseteq AddedBy(q)
    BY <1>2 DEF AddedBy
  <1> QED BY <1>1, <1>3, AfterFrom

LEMMA AddingAdds == ASSUME NEW x PROVE AddedBy(<<Adding(x)>>) = {x}
  <1>1. DOMAIN <<Adding(x)>> = {1} /\ <<Adding(x)>>[1] = Adding(x)
    OBVIOUS
  <1> QED BY <1>1 DEF AddedBy, Adding

LEMMA DroppingAdds == ASSUME NEW gone PROVE AddedBy(<<Dropping(gone)>>) = {}
  <1>1. DOMAIN <<Dropping(gone)>> = {1} /\ <<Dropping(gone)>>[1] = Dropping(gone)
    OBVIOUS
  <1> QED BY <1>1 DEF AddedBy, Dropping

LEMMA ToastQueueStep ==
    TypeOK /\ UiBitImpliesUiEnabled /\ ToastQueueInv /\ [Next]_vars => ToastQueueInv'
  <1> SUFFICES ASSUME TypeOK, UiBitImpliesUiEnabled, ToastQueueInv, [Next]_vars
               PROVE  ToastQueueInv'
    OBVIOUS
  <1>0. toastMsgQueue \in Seq(MessagesOver(Toasts))
    BY DEF TypeOK, QueuesOf
  <1>1. CASE KeepsToasts
    BY <1>1 DEF KeepsToasts, ToastQueueInv
  <1>2. CASE DrainsToasts \/ ForgetsToasts
    <2>1. toastMsgQueue' = <<>> /\ (UI_ENABLED' \/ subs'["getToastNotification"] = {})
      BY <1>2 DEF DrainsToasts, ForgetsToasts, ProcessToastMsgQueue
    <2> QED BY <2>1, EmptyAddsNothing DEF ToastQueueInv
  <1>3. ASSUME NEW gone \in SUBSET Toasts, NEW success \in BOOLEAN,
               PostToast(Dropping(gone), FALSE, success), UNCHANGED <<UI_ENABLED, subs>>
        PROVE  ToastQueueInv'
    <2>1. CASE UNCHANGED toastMsgQueue
      BY <1>3, <2>1 DEF ToastQueueInv
    <2>2. CASE ~UI_ENABLED /\ toastMsgQueue' = Push(toastMsgQueue, Dropping(gone))
      <3>1. Dropping(gone) \in MessagesOver(Toasts) /\ Dropping(gone).add = {}
        BY DEF MessagesOver, Dropping
      <3>2. AddedBy(toastMsgQueue') = {}
        BY <1>0, <2>2, <3>1, PushAdds DEF ToastQueueInv
      <3> QED BY <1>3, <2>2, <3>2 DEF ToastQueueInv
    <2> QED BY <1>3, <2>1, <2>2 DEF PostToast, toastVars
  <1>4. CASE OpensToast
    <2>1. UNCHANGED toastMsgQueue
      BY <1>4 DEF OpensToast, PostToast, toastVars
    <2> QED BY <1>4, <2>1 DEF OpensToast, ToastQueueInv
  <1> QED BY <1>1, <1>2, <1>3, <1>4, ToastSteps DEF ClosesToasts

LEMMA ToastQueueInit == Init => ToastQueueInv
  <1> SUFFICES ASSUME Init PROVE ToastQueueInv
    OBVIOUS
  <1>1. toastMsgQueue = <<>> /\ subs["getToastNotification"] = {}
    BY DEF Init, Methods, PostMethods
  <1> QED BY <1>1, EmptyAddsNothing DEF ToastQueueInv

\* No close waits in toastMsgQueue while a client is subscribed to toasts:
\* getToastCount lets the shell in without draining that queue, and still none
\* is stranded, because only cb_getNotification makes a client of the list.
THEOREM ToastsDrained == Spec => []ToastQueueDrained
  <1>1. ToastQueueInv => ToastQueueDrained
    BY DEF ToastQueueInv, ToastQueueDrained
  <1> QED BY <1>1, ToastQueueInit, ToastQueueStep, TypeCorrect, GatesAgree, PTL DEF Spec

LEMMA ShownStep ==
    ASSUME TypeOK, UiBitImpliesUiEnabled, ToastQueueInv, [Next]_vars,
           NEW t \in Toasts, NEW c \in Clients, t \in toastsOn'[c] \ toastsOn[c]
    PROVE  reply[t] = "none" /\ reply'[t] \in {"ok", "unposted"}
  <1>1. ~KeepsToasts /\ ~ForgetsToasts
    BY DEF KeepsToasts, ForgetsToasts
  <1>2. ~DrainsToasts
    <2>1. ASSUME NEW receivers, ProcessToastMsgQueue(TRUE, receivers) PROVE FALSE
      <3>1. \E reached : toastsOn' = Posted(toastsOn, toastMsgQueue, reached)
        BY <2>1 DEF ProcessToastMsgQueue
      <3> QED BY <3>1, PostedFrom DEF ToastQueueInv
    <2> QED BY <2>1 DEF DrainsToasts
  <1>3. ASSUME NEW m, NEW stale, NEW success, PostToast(m, stale, success)
        PROVE  t \in AddedBy(<<m>>)
    <2>1. \E reached : toastsOn' = Posted(toastsOn, <<m>>, reached)
      BY <1>3 DEF PostToast, toastVars
    <2> QED BY <2>1, PostedFrom
  <1>4. ~ClosesToasts
    BY <1>3, DroppingAdds DEF ClosesToasts
  <1>5. PICK s \in Toasts, stale \in BOOLEAN, success \in BOOLEAN :
            /\ PostToast(Adding(s), stale, success)
            /\ reply[s] = "none" /\ reply'[s] \in {"ok", "unposted"}
    BY <1>1, <1>2, <1>4, ToastSteps DEF OpensToast
  <1>6. t = s
    BY <1>3, <1>5, AddingAdds
  <1> QED BY <1>5, <1>6

\* A toast comes to a screen only in the handler that creates it and posts it
\* there: none is released from the queue when it is no longer news.
THEOREM ToastsAreNews == Spec => ToastsShownAtOnce
  <1>1. TypeOK /\ UiBitImpliesUiEnabled /\ ToastQueueInv /\ [Next]_vars
            => [\A t \in Toasts, c \in Clients :
                   t \in toastsOn[c]' \ toastsOn[c] =>
                       reply[t] = "none" /\ reply'[t] \in {"ok", "unposted"}]_vars
    BY ShownStep
  <1> QED BY <1>1, ToastQueueInit, ToastQueueStep, TypeCorrect, GatesAgree, PTL
          DEF Spec, ToastsShownAtOnce

-----------------------------------------------------------------------------
(* Counters.                                                                 *)

Total(count, d) == count[d].readCount + count[d].unreadCount

\* Moving one toast of a display from one counter to the other.
LEMMA MovedTotal ==
    ASSUME NEW count \in [readCount : Nat, unreadCount : Nat],
           NEW from \in {"readCount", "unreadCount"}, NEW to \in {"readCount", "unreadCount"},
           from # to
    PROVE  Moved(count, from, to).readCount + Moved(count, from, to).unreadCount
               >= count.readCount + count.unreadCount
  <1>1. CASE from = "readCount" /\ to = "unreadCount"
    BY <1>1 DEF Moved
  <1>2. CASE from = "unreadCount" /\ to = "readCount"
    BY <1>2 DEF Moved
  <1> QED BY <1>1, <1>2

LEMMA CountStep ==
    ASSUME TypeOK, [Next]_vars, NEW d \in Displays
    PROVE  Total(toastCount', d) >= Total(toastCount, d) \/ Total(toastCount', d) = 0
  <1> DEFINE Kept == Total(toastCount', d) >= Total(toastCount, d) \/ Total(toastCount', d) = 0
  <1>0. toastCount \in [Displays -> [readCount : Nat, unreadCount : Nat]]
    BY DEF TypeOK
  <1>1. ASSUME UNCHANGED toastCount PROVE Kept
    BY <1>0, <1>1 DEF Total
  <1>2. ASSUME NEW e \in Displays, CountUnread(e) PROVE Kept
    <2>1. toastCount' = [toastCount EXCEPT ![e].unreadCount = @ + 1]
      BY <1>2 DEF CountUnread
    <2>2. CASE e = d
      BY <1>0, <2>1, <2>2 DEF Total
    <2>3. CASE e # d
      BY <1>0, <2>1, <2>3 DEF Total
    <2> QED BY <2>2, <2>3
  <1>3. ASSUME NEW t \in Toasts, NEW flaw \in ToastFlaws, NEW ignoreDisable \in BOOLEAN,
               NEW stale \in BOOLEAN, NEW persistent \in BOOLEAN,
               CreateToast(t, flaw, ignoreDisable, stale, persistent)
        PROVE  Kept
    <2>1. UNCHANGED toastCount \/ CountUnread(DisplayOf[t])
      BY <1>3 DEF CreateToast
    <2> QED BY <1>1, <1>2, <2>1, ConstantsAssumption
  <1>4. ASSUME NEW t \in Toasts, NEW e \in Displays, NEW status \in BOOLEAN,
               SetToastStatus(t, e, status)
        PROVE  Kept
    <2>1. PICK from \in {"readCount", "unreadCount"}, to \in {"readCount", "unreadCount"} :
              /\ from # to
              /\ toastCount' = [toastCount EXCEPT ![e] = Moved(toastCount[e], from, to)]
      <3>1. CASE status
        <4>1. toastCount' = [toastCount EXCEPT ![e] =
                                Moved(toastCount[e], "unreadCount", "readCount")]
          BY <1>0, <1>4, <3>1 DEF SetToastStatus
        <4> QED BY <4>1
      <3>2. CASE ~status
        <4>1. toastCount' = [toastCount EXCEPT ![e] =
                                Moved(toastCount[e], "readCount", "unreadCount")]
          BY <1>0, <1>4, <3>2 DEF SetToastStatus
        <4> QED BY <4>1
      <3> QED BY <3>1, <3>2
    <2>2. CASE e = d
      <3>1. toastCount'[d] = Moved(toastCount[d], from, to)
        BY <1>0, <2>1, <2>2
      <3> QED BY <1>0, <2>1, <3>1, MovedTotal DEF Total
    <2>3. CASE e # d
      <3>1. toastCount'[d] = toastCount[d]
        BY <1>0, <2>1, <2>3
      <3> QED BY <1>0, <3>1 DEF Total
    <2> QED BY <2>2, <2>3
  <1>5. ASSUME NEW e \in Displays, RemoveAllNotification(e) PROVE Kept
    <2>1. toastCount'[d] \in {NoCount, toastCount[d]}
      BY <1>0, <1>5 DEF RemoveAllNotification
    <2> QED BY <1>0, <2>1 DEF Total, NoCount
  <1>6. ASSUME Restart PROVE Kept
    BY <1>6 DEF Restart, Total, NoCount
  <1>7. \/ UNCHANGED toastCount
        \/ \E t \in Toasts, flaw \in ToastFlaws, ignoreDisable, stale, persistent \in BOOLEAN :
              CreateToast(t, flaw, ignoreDisable, stale, persistent)
        \/ \E t \in Toasts, e \in Displays, status \in BOOLEAN : SetToastStatus(t, e, status)
        \/ \E e \in Displays : RemoveAllNotification(e)
        \/ Restart
    BY DEF Next, vars, GetNotification, SubscriptionCanceled, GetToastCount, RunAsync,
           EnableExternal, DisableExternal, SystemSettingForOption, CreateAlert,
           CreateAlertIsAllowed, CloseAlert, CloseAllAlerts, CloseAlerts, CloseToast,
           CloseToastsOf, CloseToasts, CreateNotification, RemoveNotification,
           RemoveNotificationsOf, RemoveRows
  <1> QED BY <1>1, <1>3, <1>4, <1>5, <1>6, <1>7

\* The two counters of a display trade with each other but lose nothing, other
\* than all of it at once, whatever setToastStatus is asked and how often.
THEOREM CountsKept == Spec => CountsConserved
  <1>1. TypeOK /\ [Next]_vars
            => [\A d \in Displays :
                   LET total(count) == count[d].readCount + count[d].unreadCount
                   IN  total(toastCount') >= total(toastCount) \/ total(toastCount') = 0]_vars
    BY CountStep DEF Total
  <1> QED BY <1>1, TypeCorrect, PTL DEF Spec, CountsConserved

-----------------------------------------------------------------------------
(* Answers. What an action does to reply and uriChecks together.             *)

\* One request that was not answered is answered, or no request is.
AnswersOne(x) ==
    /\ reply[x] = "none"
    /\ \E result \in {"ok", "error", "unposted"} : reply' = [reply EXCEPT ![x] = result]

LEMMA AnswerOnce ==
    ASSUME NEW x \in Requests, NEW result \in {"ok", "error", "unposted"}, reply[x] = "none",
           Answer(x, result)
    PROVE  AnswersOne(x)
  BY DEF Answer, AnswersOne

LEMMA AlertAnswers ==
    ASSUME NEW a \in Alerts, reply[a] = "none",
           \/ AlertRespondWithError(a)
           \/ AlertRespond(a)
    PROVE  AnswersOne(a)
  <1>1. \E result \in {"ok", "error", "unposted"} : Answer(a, result)
    BY DEF AlertRespondWithError, AlertRespond
  <1>2. a \in Requests
    BY DEF Requests
  <1> QED BY <1>1, <1>2, AnswerOnce

\* A step answers nothing, or answers one request that waits for it and ends
\* its uri checks, or starts or continues the checks of one, or forgets all.
LEMMA AnswerSteps ==
    ASSUME TypeOK, AnsweredOnce, [Next]_vars
    PROVE  \/ UNCHANGED <<reply, uriChecks>>
           \/ \E x \in Rows : AnswersOne(x) /\ UNCHANGED uriChecks
           \/ \E a \in Alerts :
                 /\ AnswersOne(a)
                 /\ uriChecks' \in {uriChecks, [uriChecks EXCEPT ![a] = 0]}
                 /\ uriChecks'[a] = 0
           \/ \E a \in Alerts, n \in Nat :
                 /\ reply[a] = "none" /\ UNCHANGED reply
                 /\ uriChecks' = [uriChecks EXCEPT ![a] = n]
           \/ Restart
  <1> DEFINE Step ==
           \/ UNCHANGED <<reply, uriChecks>>
           \/ \E x \in Rows : AnswersOne(x) /\ UNCHANGED uriChecks
           \/ \E a \in Alerts :
                 /\ AnswersOne(a)
                 /\ uriChecks' \in {uriChecks, [uriChecks EXCEPT ![a] = 0]}
                 /\ uriChecks'[a] = 0
           \/ \E a \in Alerts, n \in Nat :
                 /\ reply[a] = "none" /\ UNCHANGED reply
                 /\ uriChecks' = [uriChecks EXCEPT ![a] = n]
           \/ Restart
  <1> SUFFICES Step
    OBVIOUS
  <1>0. uriChecks \in [Alerts -> 0 .. MaxUris] /\ MaxUris \in Nat
    BY ConstantsAssumption DEF TypeOK
  <1>1. ASSUME NEW a \in Alerts, NEW n \in Nat, reply[a] = "none", CheckNextUri(a, n)
        PROVE  Step
    <2>1. CASE uriChecks' = [uriChecks EXCEPT ![a] = n] /\ UNCHANGED reply
      BY <1>1, <2>1
    <2>2. CASE uriChecks' = [uriChecks EXCEPT ![a] = 0] /\ AlertRespondWithError(a)
      <3>1. uriChecks'[a] = 0
        BY <1>0, <2>2
      <3> QED BY <1>1, <2>2, <3>1, AlertAnswers
    <2> QED BY <1>1, <2>1, <2>2 DEF CheckNextUri
  <1>2. ASSUME NEW a \in Alerts, NEW bad \in BOOLEAN, NEW ignoreDisable \in BOOLEAN,
               NEW n \in 0 .. MaxUris, CreateAlert(a, bad, ignoreDisable, n)
        PROVE  Step
    <2>1. reply[a] = "none" /\ uriChecks[a] = 0 /\ n \in Nat
      BY <1>0, <1>2 DEF CreateAlert
    <2>2. CASE (AlertRespondWithError(a) \/ AlertRespond(a)) /\ UNCHANGED uriChecks
      BY <2>1, <2>2, AlertAnswers
    <2>3. CASE CheckNextUri(a, n)
      BY <1>1, <2>1, <2>3
    <2> QED BY <1>2, <2>2, <2>3 DEF CreateAlert
  <1>3. ASSUME NEW a \in Alerts, NEW allowed \in BOOLEAN, CreateAlertIsAllowed(a, allowed)
        PROVE  Step
    <2>1. reply[a] = "none" /\ uriChecks[a] > 0
      BY <1>3 DEF CreateAlertIsAllowed, AnsweredOnce, Requests
    <2>2. CASE /\ AlertRespondWithError(a) \/ AlertRespond(a)
               /\ uriChecks' = [uriChecks EXCEPT ![a] = 0]
      <3>1. uriChecks'[a] = 0
        BY <1>0, <2>2
      <3> QED BY <2>1, <2>2, <3>1, AlertAnswers
    <2>3. CASE CheckNextUri(a, uriChecks[a] - 1)
      <3>1. uriChecks[a] - 1 \in Nat
        BY <1>0, <2>1
      <3> QED BY <1>1, <2>1, <2>3, <3>1
    <2> QED BY <1>3, <2>2, <2>3 DEF CreateAlertIsAllowed
  <1>4. ASSUME NEW t \in Toasts, NEW flaw \in ToastFlaws, NEW ignoreDisable \in BOOLEAN,
               NEW stale \in BOOLEAN, NEW persistent \in BOOLEAN,
               CreateToast(t, flaw, ignoreDisable, stale, persistent)
        PROVE  Step
    <2>1. reply[t] = "none" /\ UNCHANGED uriChecks
      BY <1>4 DEF CreateToast
    <2>2. \E result \in {"ok", "error", "unposted"} : Answer(t, result)
      BY <1>4 DEF CreateToast
    <2> QED BY <2>1, <2>2, AnswerOnce DEF Rows, Requests
  <1>5. ASSUME NEW n \in Notes, NEW bad \in BOOLEAN, CreateNotification(n, bad) PROVE Step
    <2>1. reply[n] = "none" /\ UNCHANGED uriChecks
      BY <1>5 DEF CreateNotification
    <2>2. \E result \in {"ok", "error", "unposted"} : Answer(n, result)
      BY <1>5 DEF CreateNotification
    <2> QED BY <2>1, <2>2, AnswerOnce DEF Rows, Requests
  <1>6. \/ UNCHANGED <<reply, uriChecks>>
        \/ \E a \in Alerts, bad, ignoreDisable \in BOOLEAN, n \in 0 .. MaxUris :
              CreateAlert(a, bad, ignoreDisable, n)
        \/ \E a \in Alerts, allowed \in BOOLEAN : CreateAlertIsAllowed(a, allowed)
        \/ \E t \in Toasts, flaw \in ToastFlaws, ignoreDisable, stale, persistent \in BOOLEAN :
              CreateToast(t, flaw, ignoreDisable, stale, persistent)
        \/ \E n \in Notes, bad \in BOOLEAN : CreateNotification(n, bad)
        \/ Restart
    BY DEF Next, vars, callVars, GetNotification, SubscriptionCanceled, GetToastCount, RunAsync,
           EnableExternal, DisableExternal, SystemSettingForOption, CloseAlert, CloseAllAlerts,
           CloseAlerts, CloseToast, CloseToastsOf, CloseToasts, SetToastStatus,
           RemoveNotification, RemoveNotificationsOf, RemoveRows, RemoveAllNotification
  <1> QED BY <1>2, <1>3, <1>4, <1>5, <1>6

LEMMA AnsweredStep == TypeOK /\ AnsweredOnce /\ [Next]_vars => AnsweredOnce'
  <1> SUFFICES ASSUME TypeOK, AnsweredOnce, [Next]_vars PROVE AnsweredOnce'
    OBVIOUS
  <1>0. /\ uriChecks \in [Alerts -> 0 .. MaxUris] /\ reply \in [Requests -> Replies]
        /\ Alerts \cap Rows = {} /\ Rows \subseteq Requests /\ Alerts \subseteq Requests
    BY ConstantsAssumption DEF TypeOK, Rows, Requests
  <1>1. CASE UNCHANGED <<reply, uriChecks>>
    BY <1>1 DEF AnsweredOnce
  <1>2. ASSUME NEW x \in Rows, AnswersOne(x), UNCHANGED uriChecks PROVE AnsweredOnce'
    BY <1>0, <1>2 DEF AnswersOne, AnsweredOnce
  <1>3. ASSUME NEW a \in Alerts, AnswersOne(a), uriChecks'[a] = 0,
               uriChecks' \in {uriChecks, [uriChecks EXCEPT ![a] = 0]}
        PROVE  AnsweredOnce'
    BY <1>0, <1>3 DEF AnswersOne, AnsweredOnce
  <1>4. ASSUME NEW a \in Alerts, NEW n \in Nat, reply[a] = "none", UNCHANGED reply,
               uriChecks' = [uriChecks EXCEPT ![a] = n]
        PROVE  AnsweredOnce'
    BY <1>0, <1>4 DEF AnsweredOnce
  <1>5. CASE Restart
    <2>1. /\ \A a \in Alerts : uriChecks'[a] = 0
          /\ \A x \in Requests : reply'[x] \in {"lost", reply[x]}
      BY <1>5 DEF Restart
    <2> QED BY <2>1 DEF AnsweredOnce
  <1> QED BY <1>1, <1>2, <1>3, <1>4, <1>5, AnswerSteps

\* The caller of a request is answered at most once, however the uri checks of
\* an alert end, and an alert whose uris are being checked was not answered yet
\* (AlertData's two ways out: alertRespond and alertRespondWithError).
THEOREM OneAnswer == Spec => []AnsweredOnce
  <1>1. Init => AnsweredOnce
    BY DEF Init, AnsweredOnce
  <1> QED BY <1>1, AnsweredStep, TypeCorrect, PTL DEF Spec

-----------------------------------------------------------------------------
(* Where a request may be known: only what was answered with success is in a *)
(* queue, and only that and what was posted, though the post failed, is on a *)
(* screen or in the database.                                                *)

Accepted == {x \in Requests : reply[x] = "ok"}
Sent     == {x \in Requests : reply[x] \in {"ok", "unposted"}}

AlertsWithin(waiting, shown) ==
    /\ AddedBy(alertMsgQueue) \subseteq waiting
    /\ \A c \in Clients : alertsOn[c] \subseteq shown

ToastsWithin(shown) == \A c \in Clients : toastsOn[c] \subseteq shown

RowsWithin(waiting, stored) == AddedBy(notiMsgQueue) \subseteq waiting /\ history \subseteq stored

AcceptedInv == AlertsWithin(Accepted, Sent) /\ ToastsWithin(Sent) /\ RowsWithin(Accepted, Sent)

\* An answer stands.
LEMMA AcceptedGrows ==
    ASSUME TypeOK, AnsweredOnce, [Next]_vars
    PROVE  Accepted \subseteq Accepted' /\ Sent \subseteq Sent' /\ Accepted' \subseteq Sent'
  <1> DEFINE Grown == Accepted \subseteq Accepted' /\ Sent \subseteq Sent'
  <1>0. reply \in [Requests -> Replies] /\ Alerts \subseteq Requests /\ Rows \subseteq Requests
    BY DEF TypeOK, Requests, Rows
  <1>1. ASSUME NEW x \in Requests, AnswersOne(x) PROVE Grown
    BY <1>0, <1>1 DEF AnswersOne, Accepted, Sent
  <1>2. CASE UNCHANGED reply
    BY <1>2 DEF Accepted, Sent
  <1>3. CASE Restart
    BY <1>0, <1>3 DEF Restart, Accepted, Sent, AnsweredOnce
  <1>4. Accepted' \subseteq Sent'
    BY DEF Accepted, Sent
  <1> QED BY <1>0, <1>1, <1>2, <1>3, <1>4, AnswerSteps

\* The helpers add to what is held only what their messages add.
LEMMA PostAlertWithin ==
    ASSUME TypeOK, NEW waiting, NEW shown, AlertsWithin(waiting, shown),
           NEW m \in MessagesOver(Alerts), m.add \subseteq shown,
           UI_ENABLED \/ m.add \subseteq waiting, NEW success, PostAlert(m, success)
    PROVE  /\ AddedBy(alertMsgQueue') \subseteq waiting
           /\ \A c \in Clients : alertsOn'[c] \subseteq shown
  <1>1. CASE UI_ENABLED
    <2>1. AddedBy(<<m>>) = m.add
      <3>1. DOMAIN <<m>> = {1} /\ <<m>>[1] = m
        OBVIOUS
      <3> QED BY <3>1 DEF AddedBy
    <2>2. \E reached : alertsOn' = Posted(alertsOn, <<m>>, reached)
      BY <1>1 DEF PostAlert
    <2>3. \A c \in Clients : alertsOn'[c] \subseteq shown
      BY <2>1, <2>2, PostedFrom DEF AlertsWithin
    <2>4. UNCHANGED alertMsgQueue
      BY <1>1 DEF PostAlert
    <2> QED BY <2>3, <2>4 DEF AlertsWithin
  <1>2. CASE ~UI_ENABLED
    <2>1. alertMsgQueue \in Seq(MessagesOver(Alerts))
      BY DEF TypeOK, QueuesOf
    <2> QED BY <1>2, <2>1, PushAdds DEF PostAlert, AlertsWithin
  <1> QED BY <1>1, <1>2

LEMMA ProcessAlertWithin ==
    ASSUME NEW waiting, NEW shown, waiting \subseteq shown, AlertsWithin(waiting, shown),
           NEW enabled, NEW receivers, ProcessAlertMsgQueue(enabled, receivers)
    PROVE  /\ AddedBy(alertMsgQueue') \subseteq waiting
           /\ \A c \in Clients : alertsOn'[c] \subseteq shown
  <1>1. CASE enabled
    <2>1. \E reached : alertsOn' = Posted(alertsOn, alertMsgQueue, reached)
      BY <1>1 DEF ProcessAlertMsgQueue
    <2>2. \A c \in Clients : alertsOn'[c] \subseteq shown
      BY <2>1, PostedFrom DEF AlertsWithin
    <2>3. AddedBy(alertMsgQueue') = {}
      BY <1>1, EmptyAddsNothing DEF ProcessAlertMsgQueue
    <2> QED BY <2>2, <2>3
  <1>2. CASE ~enabled
    BY <1>2 DEF ProcessAlertMsgQueue, AlertsWithin, alertVars
  <1> QED BY <1>1, <1>2

LEMMA StoreWithin ==
    ASSUME NEW items, history \subseteq items, NEW q, AddedBy(q) \subseteq items, Store(q)
    PROVE  history' \subseteq items
  BY AfterFrom DEF Store

\* alertRespond queues an alert only together with the answer "ok", and shows it
\* only together with that or the error of its post: when every component lets
\* it through, UI_ENABLED does as well.
LEMMA AlertRespondAccepts ==
    ASSUME TypeOK, UiBitImpliesUiEnabled, NEW a \in Alerts, reply[a] = "none", AlertRespond(a)
    PROVE  \/ /\ reply'[a] = "ok"
              /\ alertMsgQueue' = Push(alertMsgQueue, Adding(a)) /\ UNCHANGED alertsOn
           \/ /\ reply'[a] \in {"ok", "unposted"}
              /\ UI_ENABLED /\ \E success \in BOOLEAN : PostAlert(Adding(a), success)
  <1>1. reply \in [Requests -> Replies] /\ a \in Requests
    BY DEF TypeOK, Requests
  <1>2. CASE ~AllEnabled(uiStatus, {"ui"})
    BY <1>1, <1>2 DEF AlertRespond, Answer
  <1>3. CASE AllEnabled(uiStatus, {"ui"})
    <2>1. UI_ENABLED
      BY <1>3 DEF AllEnabled, IsEnabled, UiBitImpliesUiEnabled, Comps
    <2>2. PICK success \in BOOLEAN :
              PostAlert(Adding(a), success) /\ Answer(a, IF success THEN "ok" ELSE "unposted")
      BY <1>3 DEF AlertRespond
    <2>3. reply'[a] \in {"ok", "unposted"}
      BY <1>1, <2>2 DEF Answer
    <2> QED BY <2>1, <2>2, <2>3
  <1> QED BY <1>2, <1>3

LEMMA AlertsWithinStep ==
    ASSUME TypeOK, UiBitImpliesUiEnabled, AnsweredOnce, AlertsWithin(Accepted, Sent), [Next]_vars
    PROVE  AlertsWithin(Accepted, Sent)'
  <1> DEFINE waiting == Accepted'
             shown   == Sent'
             Step    == /\ AddedBy(alertMsgQueue') \subseteq waiting
                        /\ \A c \in Clients : alertsOn'[c] \subseteq shown
  <1> SUFFICES Step
    BY DEF AlertsWithin
  <1>0. AlertsWithin(waiting, shown) /\ waiting \subseteq shown
    BY AcceptedGrows DEF AlertsWithin
  <1>1. CASE UNCHANGED alertVars
    BY <1>0, <1>1 DEF AlertsWithin, alertVars
  <1>2. ASSUME NEW enabled, NEW receivers, ProcessAlertMsgQueue(enabled, receivers) PROVE Step
    BY <1>0, <1>2, ProcessAlertWithin
  <1>3. ASSUME NEW after, OnAlertStatus(after) PROVE Step
    BY <1>1, <1>2, <1>3 DEF OnAlertStatus
  <1>4. ASSUME NEW c \in Clients, NEW m \in Methods, SubscriptionCanceled(c, m) PROVE Step
    <2>1. \A d \in Clients : alertsOn'[d] \subseteq alertsOn[d]
      <3>1. alertsOn \in [Clients -> SUBSET Alerts]
        BY DEF TypeOK
      <3> QED BY <1>4, <3>1 DEF SubscriptionCanceled
    <2> QED BY <1>0, <1>4, <2>1 DEF SubscriptionCanceled, AlertsWithin
  <1>5. ASSUME NEW a \in Alerts, reply[a] = "none", AlertRespond(a) PROVE Step
    <2>1. /\ a \in Requests
          /\ Adding(a) \in MessagesOver(Alerts) /\ Adding(a).add = {a}
          /\ alertMsgQueue \in Seq(MessagesOver(Alerts))
      BY DEF Requests, MessagesOver, Adding, TypeOK, QueuesOf
    <2>2. CASE /\ reply'[a] = "ok"
               /\ alertMsgQueue' = Push(alertMsgQueue, Adding(a)) /\ UNCHANGED alertsOn
      <3>1. a \in waiting
        BY <2>1, <2>2 DEF Accepted
      <3> QED BY <1>0, <2>1, <2>2, <3>1, PushAdds DEF AlertsWithin
    <2>3. CASE /\ reply'[a] \in {"ok", "unposted"}
               /\ UI_ENABLED /\ \E success \in BOOLEAN : PostAlert(Adding(a), success)
      <3>1. a \in shown
        BY <2>1, <2>3 DEF Sent
      <3> QED BY <1>0, <2>1, <2>3, <3>1, PostAlertWithin
    <2> QED BY <1>5, <2>2, <2>3, AlertRespondAccepts
  <1>6. ASSUME NEW a \in Alerts, NEW bad \in BOOLEAN, NEW ignoreDisable \in BOOLEAN,
               NEW n \in 0 .. MaxUris, CreateAlert(a, bad, ignoreDisable, n)
        PROVE  Step
    <2>1. reply[a] = "none" /\ (UNCHANGED alertVars \/ AlertRespond(a))
      BY <1>6 DEF CreateAlert, CheckNextUri, AlertRespondWithError
    <2> QED BY <1>1, <1>5, <2>1
  <1>7. ASSUME NEW a \in Alerts, NEW allowed \in BOOLEAN, CreateAlertIsAllowed(a, allowed)
        PROVE  Step
    <2>1. reply[a] = "none" /\ (UNCHANGED alertVars \/ AlertRespond(a))
      BY <1>7 DEF CreateAlertIsAllowed, CheckNextUri, AlertRespondWithError, AnsweredOnce, Requests
    <2> QED BY <1>1, <1>5, <2>1
  <1>8. ASSUME NEW gone \in SUBSET Alerts, NEW success, PostAlert(Dropping(gone), success)
        PROVE  Step
    <2>1. Dropping(gone) \in MessagesOver(Alerts) /\ Dropping(gone).add = {}
      BY DEF MessagesOver, Dropping
    <2> QED BY <1>0, <1>8, <2>1, PostAlertWithin
  <1>9. CASE (\E a \in Alerts : CloseAlert(a)) \/ CloseAllAlerts
    <2>1. \E gone \in SUBSET Alerts, success \in BOOLEAN : PostAlert(Dropping(gone), success)
      BY <1>9 DEF CloseAlert, CloseAllAlerts, CloseAlerts
    <2> QED BY <1>8, <2>1
  <1>10. CASE Restart
    BY <1>0, <1>10, EmptyAddsNothing DEF Restart, AlertsWithin
  <1>11. \/ UNCHANGED alertVars
         \/ \E c \in Clients, m \in Methods : SubscriptionCanceled(c, m)
         \/ \E enabled, receivers : ProcessAlertMsgQueue(enabled, receivers)
         \/ \E after : OnAlertStatus(after)
         \/ \E a \in Alerts, bad, ignoreDisable \in BOOLEAN, n \in 0 .. MaxUris :
               CreateAlert(a, bad, ignoreDisable, n)
         \/ \E a \in Alerts, allowed \in BOOLEAN : CreateAlertIsAllowed(a, allowed)
         \/ \E a \in Alerts : CloseAlert(a)
         \/ CloseAllAlerts
         \/ Restart
    BY DEF Next, vars, GetNotification, GetToastCount, RunAsync, EnableExternal, DisableExternal,
           SystemSettingForOption, CreateToast, CloseToast, CloseToastsOf, CloseToasts,
           SetToastStatus, CreateNotification, RemoveNotification, RemoveNotificationsOf,
           RemoveRows, RemoveAllNotification
  <1> QED BY <1>1, <1>2, <1>3, <1>4, <1>6, <1>7, <1>9, <1>10, <1>11

LEMMA ToastsWithinStep ==
    ASSUME TypeOK, UiBitImpliesUiEnabled, AnsweredOnce, ToastQueueInv, ToastsWithin(Sent),
           [Next]_vars
    PROVE  ToastsWithin(Sent)'
  <1> SUFFICES ASSUME NEW c \in Clients, NEW t \in toastsOn'[c]
               PROVE  t \in Sent'
    BY DEF ToastsWithin
  <1>1. CASE t \in toastsOn[c]
    BY <1>1, AcceptedGrows DEF ToastsWithin
  <1>2. CASE t \notin toastsOn[c]
    <2>1. t \in Toasts
      BY NextTypes DEF TypeOK
    <2>2. reply'[t] \in {"ok", "unposted"}
      BY <1>2, <2>1, ShownStep
    <2> QED BY <2>1, <2>2 DEF Sent, Requests
  <1> QED BY <1>1, <1>2

LEMMA RowsWithinStep ==
    ASSUME TypeOK, UiBitImpliesUiEnabled, AnsweredOnce, RowsWithin(Accepted, Sent), [Next]_vars
    PROVE  RowsWithin(Accepted, Sent)'
  <1> DEFINE waiting == Accepted'
             stored  == Sent'
             Step    == AddedBy(notiMsgQueue') \subseteq waiting /\ history' \subseteq stored
  <1> SUFFICES Step
    BY DEF RowsWithin
  <1>0. /\ AddedBy(notiMsgQueue) \subseteq waiting /\ history \subseteq stored
        /\ waiting \subseteq stored
        /\ notiMsgQueue \in Seq(MessagesOver(Rows))
        /\ reply \in [Requests -> Replies] /\ Rows \subseteq Requests
    BY AcceptedGrows DEF RowsWithin, TypeOK, QueuesOf, Requests, Rows
  <1>1. CASE UNCHANGED <<notiMsgQueue, history>>
    BY <1>0, <1>1
  <1>2. CASE ProcessNotiMsgQueue(TRUE)
    BY <1>0, <1>2, StoreWithin, EmptyAddsNothing DEF ProcessNotiMsgQueue
  <1>3. ASSUME NEW m \in MessagesOver(Rows), AddedBy(<<m>>) \subseteq waiting, m.add \subseteq waiting,
               PostNotification(m)
        PROVE  Step
    <2>1. CASE UI_ENABLED
      BY <1>0, <1>3, <2>1, StoreWithin DEF PostNotification
    <2>2. CASE ~UI_ENABLED
      BY <1>0, <1>3, <2>2, PushAdds DEF PostNotification, storeVars
    <2> QED BY <2>1, <2>2
  <1>4. ASSUME NEW gone \in SUBSET Rows, PostNotification(Dropping(gone)) PROVE Step
    <2>1. Dropping(gone) \in MessagesOver(Rows) /\ Dropping(gone).add = {}
      BY DEF MessagesOver, Dropping
    <2> QED BY <1>3, <1>4, <2>1, DroppingAdds
  <1>5. ASSUME NEW gone, Store(<<Dropping(gone)>>), UNCHANGED notiMsgQueue PROVE Step
    BY <1>0, <1>5, StoreWithin, DroppingAdds
  <1>6. ASSUME NEW t \in Toasts, NEW flaw \in ToastFlaws, NEW ignoreDisable \in BOOLEAN,
               NEW stale \in BOOLEAN, NEW persistent \in BOOLEAN,
               CreateToast(t, flaw, ignoreDisable, stale, persistent)
        PROVE  Step
    <2>1. UNCHANGED notiMsgQueue /\ t \in Requests
      BY <1>6 DEF CreateToast, Requests
    <2>2. CASE UNCHANGED storeVars
      BY <1>0, <2>1, <2>2 DEF storeVars
    <2>3. CASE /\ ~(flaw = "unknown" \/ IsToastRefused(flaw, ignoreDisable, stale))
               /\ Store(<<Adding(t)>>)
      <3>1. reply[t] = "none" /\ \E result \in {"ok", "unposted"} : Answer(t, result)
        BY <1>6, <2>3 DEF CreateToast
      <3>2. t \in stored
        BY <1>0, <2>1, <3>1 DEF Answer, Sent
      <3> QED BY <1>0, <2>1, <2>3, <3>2, StoreWithin, AddingAdds
    <2> QED BY <1>6, <2>2, <2>3 DEF CreateToast
  <1>7. ASSUME (\E x \in Rows : CloseToast(x)) \/ (\E s \in Sources : CloseToastsOf(s))
        PROVE  Step
    <2>1. UNCHANGED notiMsgQueue /\ \E gone : Store(<<Dropping(gone)>>)
      BY <1>7 DEF CloseToast, CloseToastsOf, CloseToasts
    <2> QED BY <1>5, <2>1
  <1>8. ASSUME NEW n \in Notes, NEW bad \in BOOLEAN, CreateNotification(n, bad) PROVE Step
    <2>1. CASE bad
      BY <1>1, <1>8, <2>1 DEF CreateNotification, noteVars
    <2>2. CASE ~bad
      <3>1. reply[n] = "none" /\ PostNotification(Adding(n)) /\ Answer(n, "ok")
        BY <1>8, <2>2 DEF CreateNotification
      <3>2. n \in Requests /\ n \in Rows
        BY DEF Rows, Requests
      <3>3. n \in waiting
        BY <1>0, <3>1, <3>2 DEF Answer, Accepted
      <3>4. Adding(n) \in MessagesOver(Rows) /\ Adding(n).add = {n}
        BY <3>2 DEF MessagesOver, Adding
      <3> QED BY <1>3, <3>1, <3>3, <3>4, AddingAdds
    <2> QED BY <2>1, <2>2
  <1>9. ASSUME \/ \E gone \in SUBSET Notes : RemoveNotification(gone)
               \/ \E s \in Sources : RemoveNotificationsOf(s)
               \/ \E d \in Displays : RemoveAllNotification(d)
        PROVE  Step
    <2>1. /\ \A gone \in SUBSET Notes : gone \in SUBSET Rows
          /\ \A s \in Sources : RowsOf(s) \in SUBSET Rows
          /\ \A d \in Displays : ToastsAt(d) \in SUBSET Rows
      BY DEF Rows, RowsOf, ToastsAt
    <2>2. \E gone \in SUBSET Rows : PostNotification(Dropping(gone))
      BY <1>9, <2>1 DEF RemoveNotification, RemoveNotificationsOf, RemoveRows, RemoveAllNotification
    <2> QED BY <1>4, <2>2
  <1>10. CASE Restart
    BY <1>0, <1>10, EmptyAddsNothing DEF Restart, storeVars
  <1>11. \/ UNCHANGED <<notiMsgQueue, history>>
         \/ ProcessNotiMsgQueue(TRUE)
         \/ \E t \in Toasts, flaw \in ToastFlaws, ignoreDisable, stale, persistent \in BOOLEAN :
               CreateToast(t, flaw, ignoreDisable, stale, persistent)
         \/ \E x \in Rows : CloseToast(x)
         \/ \E s \in Sources : CloseToastsOf(s)
         \/ \E n \in Notes, bad \in BOOLEAN : CreateNotification(n, bad)
         \/ \E gone \in SUBSET Notes : RemoveNotification(gone)
         \/ \E s \in Sources : RemoveNotificationsOf(s)
         \/ \E d \in Displays : RemoveAllNotification(d)
         \/ Restart
    BY DEF Next, vars, noteVars, GetNotification, SubscriptionCanceled, GetToastCount, RunAsync,
           EnableExternal, DisableExternal, SystemSettingForOption, CreateAlert,
           CreateAlertIsAllowed, CloseAlert, CloseAllAlerts, CloseAlerts, SetToastStatus
  <1> QED BY <1>1, <1>2, <1>6, <1>7, <1>8, <1>9, <1>10, <1>11

LEMMA AcceptedInit == Init => AcceptedInv
  BY EmptyAddsNothing DEF Init, AcceptedInv, AlertsWithin, ToastsWithin, RowsWithin

LEMMA AcceptedSuffices == TypeOK /\ ToastQueueInv /\ AcceptedInv => OnlyAcceptedIsKnown
  BY DEF AcceptedInv, AlertsWithin, ToastsWithin, RowsWithin, ToastQueueInv, Accepted, Sent,
         OnlyAcceptedIsKnown

\* A request that was refused, got no answer or still has its uris checked is
\* in no queue, on no screen and not in the database, whatever the gates did
\* between its parts; one that was sent to the shell in vain is in no queue.
THEOREM KnownIsAccepted == Spec => []OnlyAcceptedIsKnown
  <1>1. TypeOK /\ UiBitImpliesUiEnabled /\ AnsweredOnce /\ ToastQueueInv /\ AcceptedInv
            /\ [Next]_vars => AcceptedInv'
    BY AlertsWithinStep, ToastsWithinStep, RowsWithinStep DEF AcceptedInv
  <1> QED BY <1>1, AcceptedInit, AcceptedSuffices, ToastQueueInit, ToastQueueStep, TypeCorrect,
             GatesAgree, OneAnswer, PTL DEF Spec
-----------------------------------------------------------------------------
(* An alert is posted in one step of its life at most. A step either leaves  *)
(* queue and screens as they are for it, or is the one that answers it, or   *)
(* takes it out of the queue: a request that was not answered is in neither. *)

IsAnswered(a) == reply[a] = "none" /\ reply'[a] \in {"ok", "unposted"}

\* What a step may do with alert a.
PostedOnce(a) ==
    /\ a \in AddedBy(alertMsgQueue') => a \in AddedBy(alertMsgQueue) \/ IsAnswered(a)
    /\ \A c \in Clients : a \in alertsOn'[c] \ alertsOn[c] =>
          /\ a \notin AddedBy(alertMsgQueue')
          /\ a \in AddedBy(alertMsgQueue) \/ IsAnswered(a)

\* A message that is posted or queued is posted or queued, not both, and nothing
\* comes but what it adds.
LEMMA PostAlertAdds ==
    ASSUME TypeOK, NEW m \in MessagesOver(Alerts), NEW success, PostAlert(m, success)
    PROVE  /\ AddedBy(alertMsgQueue') \subseteq AddedBy(alertMsgQueue) \cup m.add
           /\ \A c \in Clients : alertsOn'[c] \subseteq alertsOn[c] \cup m.add
           /\ UNCHANGED alertsOn \/ UNCHANGED alertMsgQueue
  <1>1. CASE UI_ENABLED
    <2>1. AddedBy(<<m>>) = m.add
      <3>1. DOMAIN <<m>> = {1} /\ <<m>>[1] = m
        OBVIOUS
      <3> QED BY <3>1 DEF AddedBy
    <2>2. \E reached : alertsOn' = Posted(alertsOn, <<m>>, reached)
      BY <1>1 DEF PostAlert
    <2>3. \A c \in Clients : alertsOn'[c] \subseteq alertsOn[c] \cup m.add
      BY <2>1, <2>2, PostedFrom
    <2> QED BY <1>1, <2>3 DEF PostAlert
  <1>2. CASE ~UI_ENABLED
    <2>1. alertMsgQueue \in Seq(MessagesOver(Alerts))
      BY DEF TypeOK, QueuesOf
    <2> QED BY <1>2, <2>1, PushAdds DEF PostAlert
  <1> QED BY <1>1, <1>2

\* A drain posts what it takes out of the queue and nothing else.
LEMMA ProcessAlertPosts ==
    ASSUME NEW enabled, NEW receivers, ProcessAlertMsgQueue(enabled, receivers)
    PROVE  \A a \in Alerts : PostedOnce(a)
  <1>1. CASE enabled
    <2>1. \E reached : alertsOn' = Posted(alertsOn, alertMsgQueue, reached)
      BY <1>1 DEF ProcessAlertMsgQueue
    <2>2. \A c \in Clients : alertsOn'[c] \subseteq alertsOn[c] \cup AddedBy(alertMsgQueue)
      BY <2>1, PostedFrom
    <2>3. AddedBy(alertMsgQueue') = {}
      BY <1>1, EmptyAddsNothing DEF ProcessAlertMsgQueue
    <2> QED BY <2>2, <2>3 DEF PostedOnce
  <1>2. CASE ~enabled
    BY <1>2 DEF ProcessAlertMsgQueue, PostedOnce, alertVars
  <1> QED BY <1>1, <1>2

LEMMA AlertRespondPosts ==
    ASSUME TypeOK, UiBitImpliesUiEnabled, OnlyAcceptedIsKnown, NEW a \in Alerts,
           reply[a] = "none", AlertRespond(a)
    PROVE  \A b \in Alerts : PostedOnce(b)
  <1>1. IsAnswered(a)
    BY AlertRespondAccepts DEF IsAnswered
  <1>2. a \notin AddedBy(alertMsgQueue)
    BY DEF OnlyAcceptedIsKnown, Requests
  <1>3. Adding(a) \in MessagesOver(Alerts) /\ Adding(a).add = {a}
    BY DEF MessagesOver, Adding
  <1>4. ASSUME NEW success, PostAlert(Adding(a), success)
        PROVE  \A b \in Alerts : PostedOnce(b)
    <2>1. /\ AddedBy(alertMsgQueue') \subseteq AddedBy(alertMsgQueue) \cup {a}
          /\ \A c \in Clients : alertsOn'[c] \subseteq alertsOn[c] \cup {a}
          /\ UNCHANGED alertsOn \/ UNCHANGED alertMsgQueue
      BY <1>3, <1>4, PostAlertAdds
    <2> QED BY <1>1, <1>2, <2>1 DEF PostedOnce
  <1>5. CASE alertMsgQueue' = Push(alertMsgQueue, Adding(a)) /\ UNCHANGED alertsOn
    <2>1. alertMsgQueue \in Seq(MessagesOver(Alerts))
      BY DEF TypeOK, QueuesOf
    <2>2. AddedBy(alertMsgQueue') \subseteq AddedBy(alertMsgQueue) \cup {a}
      BY <1>3, <1>5, <2>1, PushAdds
    <2> QED BY <1>1, <1>5, <2>2 DEF PostedOnce
  <1> QED BY <1>4, <1>5, AlertRespondAccepts

LEMMA PostedOnceStep ==
    ASSUME TypeOK, UiBitImpliesUiEnabled, AnsweredOnce, OnlyAcceptedIsKnown, [Next]_vars
    PROVE  \A a \in Alerts : PostedOnce(a)
  <1> DEFINE Step == \A a \in Alerts : PostedOnce(a)
  <1>1. CASE UNCHANGED alertVars
    BY <1>1 DEF PostedOnce, alertVars
  <1>2. ASSUME NEW after, OnAlertStatus(after) PROVE Step
    BY <1>1, <1>2, ProcessAlertPosts DEF OnAlertStatus
  <1>3. ASSUME NEW c \in Clients, NEW m \in Methods, SubscriptionCanceled(c, m) PROVE Step
    <2>1. \A d \in Clients : alertsOn'[d] \subseteq alertsOn[d]
      <3>1. alertsOn \in [Clients -> SUBSET Alerts]
        BY DEF TypeOK
      <3> QED BY <1>3, <3>1 DEF SubscriptionCanceled
    <2> QED BY <1>3, <2>1 DEF SubscriptionCanceled, PostedOnce
  <1>4. ASSUME NEW a \in Alerts, NEW bad \in BOOLEAN, NEW ignoreDisable \in BOOLEAN,
               NEW n \in 0 .. MaxUris, CreateAlert(a, bad, ignoreDisable, n)
        PROVE  Step
    <2>1. reply[a] = "none" /\ (UNCHANGED alertVars \/ AlertRespond(a))
      BY <1>4 DEF CreateAlert, CheckNextUri, AlertRespondWithError
    <2> QED BY <1>1, <2>1, AlertRespondPosts
  <1>5. ASSUME NEW a \in Alerts, NEW allowed \in BOOLEAN, CreateAlertIsAllowed(a, allowed)
        PROVE  Step
    <2>1. reply[a] = "none" /\ (UNCHANGED alertVars \/ AlertRespond(a))
      BY <1>5 DEF CreateAlertIsAllowed, CheckNextUri, AlertRespondWithError, AnsweredOnce, Requests
    <2> QED BY <1>1, <2>1, AlertRespondPosts
  <1>6. CASE (\E a \in Alerts : CloseAlert(a)) \/ CloseAllAlerts
    <2>1. PICK gone \in SUBSET Alerts, success \in BOOLEAN : PostAlert(Dropping(gone), success)
      BY <1>6 DEF CloseAlert, CloseAllAlerts, CloseAlerts
    <2>2. Dropping(gone) \in MessagesOver(Alerts) /\ Dropping(gone).add = {}
      BY DEF MessagesOver, Dropping
    <2> QED BY <2>1, <2>2, PostAlertAdds DEF PostedOnce
  <1>7. CASE Restart
    BY <1>7, EmptyAddsNothing DEF Restart, PostedOnce
  <1>8. \/ UNCHANGED alertVars
        \/ \E c \in Clients, m \in Methods : SubscriptionCanceled(c, m)
        \/ \E enabled, receivers : ProcessAlertMsgQueue(enabled, receivers)
        \/ \E after : OnAlertStatus(after)
        \/ \E a \in Alerts, bad, ignoreDisable \in BOOLEAN, n \in 0 .. MaxUris :
              CreateAlert(a, bad, ignoreDisable, n)
        \/ \E a \in Alerts, allowed \in BOOLEAN : CreateAlertIsAllowed(a, allowed)
        \/ \E a \in Alerts : CloseAlert(a)
        \/ CloseAllAlerts
        \/ Restart
    BY DEF Next, vars, GetNotification, GetToastCount, RunAsync, EnableExternal, DisableExternal,
           SystemSettingForOption, CreateToast, CloseToast, CloseToastsOf, CloseToasts,
           SetToastStatus, CreateNotification, RemoveNotification, RemoveNotificationsOf,
           RemoveRows, RemoveAllNotification
  <1> QED BY <1>1, <1>2, <1>3, <1>4, <1>5, <1>6, <1>7, <1>8, ProcessAlertPosts

\* However often the queue is drained, by whichever handler, and wherever the
\* daemon is restarted: an alert that was posted is never posted again later.
THEOREM AlertsComeOnce == Spec => AlertsPostedOnce
  <1>1. TypeOK /\ UiBitImpliesUiEnabled /\ AnsweredOnce /\ OnlyAcceptedIsKnown /\ [Next]_vars
           => [\A a \in Alerts :
                  LET answered == reply[a] = "none" /\ reply'[a] \in {"ok", "unposted"}
                  IN  /\ a \in AddedBy(alertMsgQueue') => a \in AddedBy(alertMsgQueue) \/ answered
                      /\ \A c \in Clients : a \in alertsOn[c]' \ alertsOn[c] =>
                            /\ a \notin AddedBy(alertMsgQueue')
                            /\ a \in AddedBy(alertMsgQueue) \/ answered]_vars
    BY PostedOnceStep DEF PostedOnce, IsAnswered
  <1> QED BY <1>1, TypeCorrect, GatesAgree, OneAnswer, KnownIsAccepted, PTL
          DEF Spec, AlertsPostedOnce
=============================================================================
