--------------------------- MODULE ToastSettings ----------------------------
(* Which applications may show toasts: enableToast, disableToast and         *)
(* getToastSettings of NotificationService.cpp, the block list of            *)
(* Settings.cpp with its file, and the application list that decides whose   *)
(* ids the methods take. A handler is atomic for the other handlers, which   *)
(* are blocked while a list is saved; what cuts it short is the end of the   *)
(* process, so that the save is a chain of steps here.                       *)
EXTENDS AppList, UiStatus

CONSTANTS
    Panels,         \* clients that may subscribe to getToastSettings
    MaxFailures     \* bound: file operations that fail

ASSUME ToastSettingsAssumption == MaxFailures \in Nat

VARIABLES
    blockedToastApps,       \* m_blockedToastApps
    disableToastTimestamp,  \* m_disableToastTimestamp # 0
    uiStatus,               \* the gates, of which the toasts' are told
    file, tmpFile,          \* the two files of the list
    saving,                 \* how far saveBlockedToastApps has come
    settingsSubs, views,    \* subscribers of getToastSettings, and what each last got
    unsaved,                \* the last save failed
    promised,               \* blocked by a call answered with success in which
                            \* nothing failed, and not let go since
    failures

listVars   == <<blockedToastApps, file, tmpFile, saving, unsaved, promised, failures>>
globalVars == <<disableToastTimestamp, uiStatus>>
viewVars   == <<settingsSubs, views>>
vars       == <<appListVars, listVars, globalVars, viewVars>>

Stages   == {"idle", "begun", "opened", "written"}
Contents == [kind : {"absent", "partial", "list"}, ids : SUBSET Apps]
Payloads == [enabled : BOOLEAN, blockedApps : SUBSET Apps]

Absent    == [kind |-> "absent", ids |-> {}]
Partial   == [kind |-> "partial", ids |-> {}]
List(ids) == [kind |-> "list", ids |-> ids]

\* Of a panel that is not subscribed.
NoView == [enabled |-> TRUE, blockedApps |-> {}]

\* loadBlockedToastApps: no file, or one that is no array, is an empty list.
Loaded(f) == IF f.kind = "list" THEN f.ids ELSE {}

\* toastSettingsPayload
ToastSettingsPayload(status, ids) ==
    [enabled |-> IsEnabled(status, "toast", Bits \ {"ui"}), blockedApps |-> ids]

Init ==
    /\ InitAppList
    /\ file \in {Absent} \cup {List(ids) : ids \in SUBSET Apps}
    /\ tmpFile = Absent
    /\ blockedToastApps = Loaded(file)
    /\ disableToastTimestamp = FALSE
    /\ uiStatus = InitialStatus
    /\ saving = "idle"
    /\ settingsSubs = {}
    /\ views = [c \in Panels |-> NoView]
    /\ unsaved = FALSE /\ promised = {} /\ failures = 0

\* Steps of the application list change nothing else.
Beside(A) == A /\ UNCHANGED <<listVars, globalVars, viewVars>>

-----------------------------------------------------------------------------
(* What the subscribers are told.                                            *)

\* postToastSettings, of the list that the handler leaves.
PostToastSettings(ids) ==
    views' = [c \in Panels |->
                 IF c \in settingsSubs THEN ToastSettingsPayload(uiStatus, ids) ELSE views[c]]

\* cb_getToastSettings, subscribing: the answer is the first payload.
GetToastSettings(c) ==
    /\ saving = "idle"
    /\ c \notin settingsSubs
    /\ settingsSubs' = settingsSubs \cup {c}
    /\ views' = [views EXCEPT ![c] = ToastSettingsPayload(uiStatus, blockedToastApps)]
    /\ UNCHANGED <<appListVars, listVars, globalVars>>

CancelToastSettings(c) ==
    /\ c \in settingsSubs
    /\ settingsSubs' = settingsSubs \ {c}
    /\ views' = [views EXCEPT ![c] = NoView]
    /\ UNCHANGED <<appListVars, listVars, globalVars>>

-----------------------------------------------------------------------------
(* saveBlockedToastApps, and the end of the handler that called it: the post *)
(* and an answer of success, whatever became of the save.                    *)

EndSaveSilently(succeeded) ==
    /\ saving' = "idle"
    /\ unsaved' = ~succeeded
    /\ promised' = IF succeeded THEN promised \cup blockedToastApps ELSE promised
    /\ failures' = IF succeeded THEN failures ELSE failures + 1
    /\ IF succeeded THEN PostToastSettings(blockedToastApps) ELSE UNCHANGED views
    /\ UNCHANGED <<blockedToastApps, appListVars, globalVars, settingsSubs>>

EndSave(succeeded) ==
    /\ saving' = "idle"
    /\ unsaved' = ~succeeded
    /\ promised' = IF succeeded THEN promised \cup blockedToastApps ELSE promised
    /\ failures' = IF succeeded THEN failures ELSE failures + 1
    /\ PostToastSettings(blockedToastApps)
    /\ UNCHANGED <<blockedToastApps, appListVars, globalVars, settingsSubs>>

CanFail == failures < MaxFailures

OpenFinal ==
    /\ saving = "begun"
    /\ saving' = "opened"
    /\ file' = Partial
    /\ tmpFile' = Partial
    /\ UNCHANGED <<blockedToastApps, unsaved, promised, failures, appListVars, globalVars, viewVars>>

\* The temporary file is opened and truncated, or cannot be.
OpenTmp ==
    /\ saving = "begun"
    /\ \/ /\ saving' = "opened"
          /\ tmpFile' = Partial
          /\ UNCHANGED <<blockedToastApps, file, unsaved, promised, failures, appListVars,
                         globalVars, viewVars>>
       \/ CanFail /\ EndSave(FALSE) /\ UNCHANGED <<file, tmpFile>>

\* It is written and flushed, or removed.
WriteTmp ==
    /\ saving = "opened"
    /\ \/ /\ saving' = "written"
          /\ tmpFile' = List(blockedToastApps)
          /\ UNCHANGED <<blockedToastApps, file, unsaved, promised, failures, appListVars,
                         globalVars, viewVars>>
       \/ CanFail /\ EndSave(FALSE) /\ tmpFile' = Absent /\ UNCHANGED file

\* It takes the place of the file, or is removed.
RenameTmp ==
    /\ saving = "written"
    /\ tmpFile' = Absent
    /\ \/ EndSave(TRUE) /\ file' = tmpFile
       \/ CanFail /\ EndSave(FALSE) /\ UNCHANGED file

SaveBlockedToastApps == OpenTmp \/ WriteTmp \/ RenameTmp

-----------------------------------------------------------------------------
(* The methods.                                                              *)

\* A list that did not change is not saved; the call is answered at once.
KeepList ==
    /\ PostToastSettings(blockedToastApps)
    /\ UNCHANGED <<blockedToastApps, file, tmpFile, saving, unsaved, failures>>

ChangeList(ids) ==
    /\ blockedToastApps' = ids
    /\ saving' = "begun"
    /\ UNCHANGED <<file, tmpFile, unsaved, failures, views>>

ChangeListUnsaved(ids) ==
    /\ blockedToastApps' = ids
    /\ PostToastSettings(ids)
    /\ UNCHANGED <<file, tmpFile, saving, unsaved, failures>>

\* cb_disableToast of a source, which has to be a listed application.
DisableToastForApp(a) ==
    /\ saving = "idle" /\ IsAppExist(a)
    /\ IF a \in blockedToastApps
       THEN KeepList /\ promised' = promised \cup {a}
       ELSE ChangeList(blockedToastApps \cup {a}) /\ UNCHANGED promised
    /\ UNCHANGED <<appListVars, globalVars, settingsSubs>>

EnableWithoutSaving(a) ==
    /\ saving = "idle" /\ IsAppExist(a)
    /\ promised' = promised \ {a}
    /\ ChangeListUnsaved(blockedToastApps \ {a})
    /\ UNCHANGED <<appListVars, globalVars, settingsSubs>>

\* cb_enableToast of a source.
EnableToastForApp(a) ==
    /\ saving = "idle" /\ IsAppExist(a)
    /\ promised' = promised \ {a}
    /\ IF a \notin blockedToastApps THEN KeepList ELSE ChangeList(blockedToastApps \ {a})
    /\ UNCHANGED <<appListVars, globalVars, settingsSubs>>

\* The same methods without a source: a time is noted that nobody reads.
SetToastNotification(disabled) ==
    /\ saving = "idle"
    /\ disableToastTimestamp' = disabled
    /\ PostToastSettings(blockedToastApps)
    /\ UNCHANGED <<appListVars, listVars, uiStatus, settingsSubs>>

\* cb_enable and cb_disable; neither posts the settings it changes.
SetExternal(enabled) ==
    /\ saving = "idle"
    /\ uiStatus' = IF enabled THEN Enable(uiStatus, {"external"})
                   ELSE Disable(uiStatus, {"external"})
    /\ UNCHANGED <<appListVars, listVars, disableToastTimestamp, viewVars>>

\* The replies about the application list are handled between the others.
HandleAppList ==
    /\ saving = "idle"
    /\ Beside(AppMgrBusStatusNotification \/ AppMgrAppList)

-----------------------------------------------------------------------------
\* The process ends, in the middle of a save or not, and starts again: the
\* list is read back, and what was left of a temporary file is not looked at.
Restart ==
    /\ RestartAppList
    /\ blockedToastApps' = Loaded(file)
    /\ disableToastTimestamp' = FALSE
    /\ uiStatus' = InitialStatus
    /\ saving' = "idle"
    /\ settingsSubs' = {}
    /\ views' = [c \in Panels |-> NoView]
    /\ unsaved' = FALSE
    /\ UNCHANGED <<file, tmpFile, promised, failures>>

Next ==
    \/ \E a \in Apps : DisableToastForApp(a) \/ EnableToastForApp(a)
    \/ \E b \in BOOLEAN : SetToastNotification(b) \/ SetExternal(b)
    \/ \E c \in Panels : GetToastSettings(c) \/ CancelToastSettings(c)
    \/ SaveBlockedToastApps
    \/ HandleAppList
    \/ Beside(Manager)
    \/ Restart

\* A handler that began a save goes on with it. The main loop gives every
\* source that is ready its turn, so that the application manager's messages
\* are handled although other handlers come in between (hence SF), and a
\* manager that is there answers.
Fairness ==
    /\ WF_vars(SaveBlockedToastApps)
    /\ SF_vars(saving = "idle" /\ Beside(AppMgrBusStatusNotification))
    /\ SF_vars(saving = "idle" /\ Beside(AppMgrAppList))
    /\ WF_vars(Beside(AnswerListApps))

Spec == Init /\ [][Next]_vars /\ Fairness

-----------------------------------------------------------------------------
(* Properties.                                                               *)

\* Types; and the file itself is never found half-written, whatever step of a
\* save the process ended in.
TypeOK ==
    /\ blockedToastApps \subseteq Apps
    /\ disableToastTimestamp \in BOOLEAN
    /\ uiStatus \in Status
    /\ file \in Contents \ {Partial} /\ tmpFile \in Contents
    /\ saving \in Stages
    /\ settingsSubs \subseteq Panels
    /\ views \in [Panels -> Payloads]
    /\ unsaved \in BOOLEAN
    /\ promised \subseteq Apps
    /\ failures \in Nat

\* The list in memory and in its file keeps the promise of BlockList through
\* every failure and every end of the process: a reader of the file finds the
\* old list or the new one (the comment at Settings.cpp:415).
Promise == INSTANCE BlockList WITH blocked <- blockedToastApps, saved <- Loaded(file)

ListKept == Promise!BlockListSpec

\* Between two handlers the file holds what the memory holds, unless the last
\* save failed; one that succeeds makes up for all that failed before it.
IdleListIsSaved ==
    saving = "idle" /\ ~unsaved => Loaded(file) = blockedToastApps

\* Whoever subscribed to getToastSettings knows the list as it is: each of the
\* ways in which it changes ends in a post, a failed save and a restart (which
\* ends the subscription) included.
PanelsKnowTheList ==
    \A c \in settingsSubs :
        saving = "idle" => views[c].blockedApps = blockedToastApps

\* As long as no save failed, a block that was answered with success holds,
\* wherever the process ended since: in the save of this block, of another one,
\* or of a release.
BlockHoldsUnlessSaveFails ==
    failures = 0 /\ saving = "idle" => promised \subseteq blockedToastApps

-----------------------------------------------------------------------------
(* What the comments and the API documentation say and the code does not do. *)

\* The list is kept "so it survives a restart the way every other notification
\* setting a person changes is expected to" (Settings.h.in:31): an application
\* stays blocked whose block was answered with success by a call in which
\* nothing failed.
BlockSurvivesRestart ==
    saving = "idle" => promised \subseteq blockedToastApps
=============================================================================
