------------------------- MODULE ToastSettingsProofs --------------------------
(* What holds of ToastSettings for every value of its constants: however many *)
(* applications, subscribers, failures and ends of the process there are.     *)
EXTENDS ToastSettings, MirrorProofs

\* What a save is about to put in the file's place is the list.
WrittenIsTheList == saving = "written" => tmpFile = List(blockedToastApps)

\* The inductive invariant. WrittenIsTheList is what makes the rename keep
\* the file whole (TypeOK) and up to date (IdleListIsSaved).
Inv == TypeOK /\ WrittenIsTheList /\ IdleListIsSaved /\ PanelsKnowTheList

USE DEF Absent, Partial, List, NoView, Contents, Payloads, Stages

-----------------------------------------------------------------------------
(* Lemmas about the helpers.                                                 *)

LEMMA PayloadType ==
    ASSUME NEW status, NEW ids \in SUBSET Apps
    PROVE  /\ ToastSettingsPayload(status, ids) \in Payloads
           /\ ToastSettingsPayload(status, ids).blockedApps = ids
  BY DEF ToastSettingsPayload, IsEnabled

LEMMA LoadedType ==
    ASSUME NEW f \in Contents
    PROVE  Loaded(f) \in SUBSET Apps
  BY DEF Loaded

LEMMA LoadedList == \A ids : Loaded(List(ids)) = ids
  BY DEF Loaded

\* After a post every subscriber knows the list that was posted.
LEMMA PostTells ==
    ASSUME TypeOK, NEW ids \in SUBSET Apps, PostToastSettings(ids)
    PROVE  /\ views' \in [Panels -> Payloads]
           /\ \A c \in settingsSubs : views'[c].blockedApps = ids
  BY PayloadType DEF TypeOK, PostToastSettings

LEMMA GatesType ==
    ASSUME NEW st \in Status, NEW mask \in SUBSET Bits
    PROVE  Enable(st, mask) \in Status /\ Disable(st, mask) \in Status
  BY DEF Status, Enable, Disable

LEMMA InitialType == InitialStatus \in Status
  BY DEF InitialStatus, Status, Bits

-----------------------------------------------------------------------------
(* The invariant, one lemma for each group of actions.                       *)

LEMMA InvInit == Init => Inv
  <1> SUFFICES ASSUME Init PROVE Inv
    OBVIOUS
  <1>1. file \in Contents \ {Partial}
    BY DEF Init
  <1>2. TypeOK
    BY <1>1, LoadedType, InitialType DEF Init, TypeOK
  <1> QED BY <1>2 DEF Init, Inv, WrittenIsTheList, IdleListIsSaved, PanelsKnowTheList

LEMMA InvUnchanged ==
    ASSUME Inv, UNCHANGED <<listVars, globalVars, viewVars>>
    PROVE  Inv'
  BY DEF Inv, TypeOK, WrittenIsTheList, IdleListIsSaved, PanelsKnowTheList, listVars, globalVars,
         viewVars

\* A list that is kept is posted; one that changes is about to be saved.
LEMMA InvKeep ==
    ASSUME Inv, saving = "idle", KeepList, promised' \in SUBSET Apps,
           UNCHANGED <<globalVars, settingsSubs>>
    PROVE  Inv'
  <1>1. /\ views' \in [Panels -> Payloads]
        /\ \A c \in settingsSubs : views'[c].blockedApps = blockedToastApps
    BY PostTells DEF Inv, KeepList, TypeOK
  <1> QED BY <1>1 DEF Inv, KeepList, TypeOK, WrittenIsTheList, IdleListIsSaved, PanelsKnowTheList,
                      globalVars

LEMMA InvChange ==
    ASSUME Inv, NEW ids \in SUBSET Apps, ChangeList(ids), promised' \in SUBSET Apps,
           UNCHANGED <<globalVars, settingsSubs>>
    PROVE  Inv'
  BY DEF Inv, ChangeList, TypeOK, WrittenIsTheList, IdleListIsSaved, PanelsKnowTheList, globalVars

LEMMA InvDisable ==
    ASSUME Inv, NEW a \in Apps, DisableToastForApp(a)
    PROVE  Inv'
  <1>1. /\ saving = "idle"
        /\ UNCHANGED <<globalVars, settingsSubs>>
        /\ blockedToastApps \in SUBSET Apps /\ promised \in SUBSET Apps
    BY DEF DisableToastForApp, Inv, TypeOK
  <1>2. CASE a \in blockedToastApps
    BY <1>1, <1>2, InvKeep DEF DisableToastForApp
  <1>3. CASE a \notin blockedToastApps
    <2>1. ChangeList(blockedToastApps \cup {a}) /\ promised' = promised
      BY <1>3 DEF DisableToastForApp
    <2> QED BY <1>1, <2>1, InvChange
  <1> QED BY <1>2, <1>3

LEMMA InvEnable ==
    ASSUME Inv, NEW a \in Apps, EnableToastForApp(a)
    PROVE  Inv'
  <1>1. /\ saving = "idle"
        /\ UNCHANGED <<globalVars, settingsSubs>>
        /\ blockedToastApps \in SUBSET Apps /\ promised' \in SUBSET Apps
    BY DEF EnableToastForApp, Inv, TypeOK
  <1>2. CASE a \notin blockedToastApps
    BY <1>1, <1>2, InvKeep DEF EnableToastForApp
  <1>3. CASE a \in blockedToastApps
    <2>1. ChangeList(blockedToastApps \ {a})
      BY <1>3 DEF EnableToastForApp
    <2> QED BY <1>1, <2>1, InvChange
  <1> QED BY <1>2, <1>3

LEMMA InvGlobal ==
    ASSUME Inv, NEW b \in BOOLEAN, SetToastNotification(b) \/ SetExternal(b)
    PROVE  Inv'
  <1>1. CASE SetToastNotification(b)
    <2>1. /\ views' \in [Panels -> Payloads]
          /\ \A c \in settingsSubs : views'[c].blockedApps = blockedToastApps
      BY <1>1, PostTells DEF SetToastNotification, Inv, TypeOK
    <2> QED BY <1>1, <2>1 DEF SetToastNotification, Inv, TypeOK, WrittenIsTheList,
                              IdleListIsSaved, PanelsKnowTheList, listVars
  <1>2. CASE SetExternal(b)
    <2>1. uiStatus' \in Status
      BY <1>2, GatesType DEF SetExternal, Inv, TypeOK, Bits
    <2> QED BY <1>2, <2>1 DEF SetExternal, Inv, TypeOK, WrittenIsTheList, IdleListIsSaved,
                              PanelsKnowTheList, listVars, viewVars
  <1> QED BY <1>1, <1>2

LEMMA InvSubscribers ==
    ASSUME Inv, NEW c \in Panels, GetToastSettings(c) \/ CancelToastSettings(c)
    PROVE  Inv'
  <1>1. CASE GetToastSettings(c)
    <2>1. /\ ToastSettingsPayload(uiStatus, blockedToastApps) \in Payloads
          /\ ToastSettingsPayload(uiStatus, blockedToastApps).blockedApps = blockedToastApps
      BY PayloadType DEF Inv, TypeOK
    <2> QED BY <1>1, <2>1 DEF GetToastSettings, Inv, TypeOK, WrittenIsTheList, IdleListIsSaved,
                              PanelsKnowTheList, listVars, globalVars
  <1>2. CASE CancelToastSettings(c)
    BY <1>2 DEF CancelToastSettings, Inv, TypeOK, WrittenIsTheList, IdleListIsSaved,
                PanelsKnowTheList, listVars, globalVars
  <1> QED BY <1>1, <1>2

\* The end of a save, given that what became of the file is right.
LEMMA InvEndSave ==
    ASSUME Inv, NEW succeeded \in BOOLEAN, EndSave(succeeded),
           file' \in Contents \ {Partial}, tmpFile' \in Contents,
           succeeded => Loaded(file') = blockedToastApps
    PROVE  Inv'
  <1>1. /\ views' \in [Panels -> Payloads]
        /\ \A c \in settingsSubs : views'[c].blockedApps = blockedToastApps
    BY PostTells DEF EndSave, Inv, TypeOK
  <1>2. TypeOK'
    BY <1>1 DEF EndSave, Inv, TypeOK, globalVars
  <1>3. IdleListIsSaved'
    BY DEF EndSave, Inv, TypeOK, IdleListIsSaved
  <1> QED BY <1>1, <1>2, <1>3 DEF EndSave, Inv, WrittenIsTheList, PanelsKnowTheList

LEMMA InvSave ==
    ASSUME Inv, SaveBlockedToastApps
    PROVE  Inv'
  <1>1. CASE OpenTmp
    <2>1. CASE EndSave(FALSE) /\ UNCHANGED <<file, tmpFile>>
      BY <2>1, InvEndSave DEF Inv, TypeOK
    <2>2. CASE saving' = "opened" /\ tmpFile' = Partial
      BY <1>1, <2>2 DEF OpenTmp, EndSave, Inv, TypeOK, WrittenIsTheList, IdleListIsSaved,
                        PanelsKnowTheList, globalVars, viewVars
    <2> QED BY <1>1, <2>1, <2>2 DEF OpenTmp
  <1>2. CASE WriteTmp
    <2>1. CASE EndSave(FALSE) /\ tmpFile' = Absent /\ UNCHANGED file
      BY <2>1, InvEndSave DEF Inv, TypeOK
    <2>2. CASE saving' = "written" /\ tmpFile' = List(blockedToastApps)
      BY <1>2, <2>2 DEF WriteTmp, EndSave, Inv, TypeOK, WrittenIsTheList, IdleListIsSaved,
                        PanelsKnowTheList, globalVars, viewVars
    <2> QED BY <1>2, <2>1, <2>2 DEF WriteTmp
  <1>3. CASE RenameTmp
    <2>1. tmpFile = List(blockedToastApps) /\ tmpFile' = Absent
      BY <1>3 DEF RenameTmp, Inv, WrittenIsTheList
    <2>2. CASE EndSave(TRUE) /\ file' = tmpFile
      <3>1. file' \in Contents \ {Partial} /\ Loaded(file') = blockedToastApps
        BY <2>1, <2>2, LoadedList DEF Inv, TypeOK
      <3> QED BY <2>1, <2>2, <3>1, InvEndSave
    <2>3. CASE EndSave(FALSE) /\ UNCHANGED file
      BY <2>1, <2>3, InvEndSave DEF Inv, TypeOK
    <2> QED BY <1>3, <2>2, <2>3 DEF RenameTmp
  <1> QED BY <1>1, <1>2, <1>3 DEF SaveBlockedToastApps

LEMMA InvRestart ==
    ASSUME Inv, Restart
    PROVE  Inv'
  <1>1. Loaded(file) \in SUBSET Apps
    BY LoadedType DEF Inv, TypeOK
  <1> QED BY <1>1, InitialType DEF Restart, Inv, TypeOK, WrittenIsTheList, IdleListIsSaved,
                                   PanelsKnowTheList

LEMMA InvNext == Inv /\ [Next]_vars => Inv'
  <1> SUFFICES ASSUME Inv, [Next]_vars PROVE Inv'
    OBVIOUS
  <1>1. ASSUME NEW a \in Apps, DisableToastForApp(a) PROVE Inv'
    BY <1>1, InvDisable
  <1>2. ASSUME NEW a \in Apps, EnableToastForApp(a) PROVE Inv'
    BY <1>2, InvEnable
  <1>3. ASSUME NEW b \in BOOLEAN, SetToastNotification(b) \/ SetExternal(b) PROVE Inv'
    BY <1>3, InvGlobal
  <1>4. ASSUME NEW c \in Panels, GetToastSettings(c) \/ CancelToastSettings(c) PROVE Inv'
    BY <1>4, InvSubscribers
  <1>5. CASE SaveBlockedToastApps
    BY <1>5, InvSave
  <1>6. CASE HandleAppList \/ Beside(Manager)
    BY <1>6, InvUnchanged DEF HandleAppList, Beside
  <1>7. CASE Restart
    BY <1>7, InvRestart
  <1>8. CASE UNCHANGED vars
    BY <1>8, InvUnchanged DEF vars
  <1> QED BY <1>1, <1>2, <1>3, <1>4, <1>5, <1>6, <1>7, <1>8 DEF Next

LEMMA Invariance == Spec => []Inv
  BY InvInit, InvNext, PTL DEF Spec

-----------------------------------------------------------------------------
(* Theorems.                                                                 *)

\* Every variable keeps its type, and the file of saveBlockedToastApps is
\* never found half-written, whenever the process ends.
THEOREM SettingsTypeCorrect == Spec => []TypeOK
  <1>1. Inv => TypeOK
    BY DEF Inv
  <1> QED BY <1>1, Invariance, PTL

\* Between two handlers of enableToast and disableToast the file holds the
\* list, unless the last save failed.
THEOREM SavedWhenIdle == Spec => []IdleListIsSaved
  <1>1. Inv => IdleListIsSaved
    BY DEF Inv
  <1> QED BY <1>1, Invariance, PTL

\* The subscribers of getToastSettings know the list as it is, whatever failed
\* in saving it (postToastSettings).
THEOREM PanelsFollow == Spec => []PanelsKnowTheList
  <1>1. Inv => PanelsKnowTheList
    BY DEF Inv
  <1> QED BY <1>1, Invariance, PTL

-----------------------------------------------------------------------------
(* The refinement.                                                           *)

LEMMA KeptInit == Init => Promise!BlockListInit
  BY LoadedType DEF Init, Promise!BlockListInit

\* What each action does to the list and its file is a step of BlockList.
LEMMA KeptNext == Inv /\ [Next]_vars => [Promise!BlockListNext]_Promise!blockListVars
  <1> SUFFICES ASSUME Inv, [Next]_vars
               PROVE  Promise!BlockListNext \/ UNCHANGED <<blockedToastApps, Loaded(file)>>
    BY DEF Promise!blockListVars
  <1>1. ASSUME NEW a \in Apps, DisableToastForApp(a)
        PROVE  Promise!Block(a) \/ UNCHANGED <<blockedToastApps, Loaded(file)>>
    BY <1>1 DEF DisableToastForApp, KeepList, ChangeList, Promise!Block
  <1>2. ASSUME NEW a \in Apps, EnableToastForApp(a)
        PROVE  Promise!Unblock(a) \/ UNCHANGED <<blockedToastApps, Loaded(file)>>
    BY <1>2 DEF EnableToastForApp, KeepList, ChangeList, Promise!Unblock
  <1>3. CASE SaveBlockedToastApps
    <2>1. CASE OpenTmp \/ WriteTmp
      BY <2>1 DEF OpenTmp, WriteTmp, EndSave
    <2>2. CASE RenameTmp
      BY <2>2, LoadedList DEF RenameTmp, EndSave, Inv, WrittenIsTheList, Promise!Save,
                              Promise!BlockListNext
    <2> QED BY <1>3, <2>1, <2>2 DEF SaveBlockedToastApps
  <1>4. CASE Restart
    BY <1>4 DEF Restart, Promise!Recover, Promise!BlockListNext
  <1>5. ASSUME NEW b \in BOOLEAN, SetToastNotification(b) \/ SetExternal(b)
        PROVE  UNCHANGED <<blockedToastApps, Loaded(file)>>
    BY <1>5 DEF SetToastNotification, SetExternal, listVars
  <1>6. ASSUME NEW c \in Panels, GetToastSettings(c) \/ CancelToastSettings(c)
        PROVE  UNCHANGED <<blockedToastApps, Loaded(file)>>
    BY <1>6 DEF GetToastSettings, CancelToastSettings, listVars
  <1>7. CASE HandleAppList \/ Beside(Manager) \/ UNCHANGED vars
    BY <1>7 DEF HandleAppList, Beside, vars, listVars
  <1> QED BY <1>1, <1>2, <1>3, <1>4, <1>5, <1>6, <1>7 DEF Next, Promise!BlockListNext

\* enableToast, disableToast, the save in its steps with every failure, and
\* the end of the process anywhere among them implement BlockList.
THEOREM BlockListImplemented == Spec => ListKept
  BY KeptInit, KeptNext, Invariance, PTL DEF Spec, ListKept, Promise!BlockListSpec

-----------------------------------------------------------------------------
(* A block that was answered with success.                                   *)

\* The promises are in the file, and the list that is being saved keeps them:
\* a restart finds them wherever it cuts the save short.
PromisesKept ==
    failures = 0 =>
        /\ ~unsaved
        /\ promised \subseteq Loaded(file)
        /\ saving # "idle" => promised \subseteq blockedToastApps

LEMMA PromisesInit == Init => PromisesKept
  BY DEF Init, PromisesKept

\* A save that ends: it failed, and more is not said, or the file is the list.
LEMMA PromisesEndSave ==
    ASSUME Inv, PromisesKept, saving # "idle", NEW succeeded \in BOOLEAN, EndSave(succeeded),
           succeeded => Loaded(file') = blockedToastApps
    PROVE  PromisesKept'
  <1>1. CASE succeeded = TRUE
    BY <1>1 DEF EndSave, PromisesKept
  <1>2. CASE succeeded = FALSE
    <2>1. failures' = failures + 1 /\ failures \in Nat
      BY <1>2 DEF EndSave, Inv, TypeOK
    <2>2. failures' # 0
      BY <2>1
    <2> QED BY <2>2 DEF PromisesKept
  <1> QED BY <1>1, <1>2

LEMMA PromisesNext == Inv /\ PromisesKept /\ [Next]_vars => PromisesKept'
  <1> SUFFICES ASSUME Inv, PromisesKept, [Next]_vars PROVE PromisesKept'
    OBVIOUS
  <1>1. ASSUME NEW a \in Apps, DisableToastForApp(a) PROVE PromisesKept'
    <2>1. saving = "idle"
      BY <1>1 DEF DisableToastForApp
    <2>2. failures = 0 => promised \subseteq blockedToastApps /\ Loaded(file) = blockedToastApps
      BY <2>1 DEF PromisesKept, Inv, IdleListIsSaved
    <2>3. CASE a \in blockedToastApps
      BY <1>1, <2>1, <2>2, <2>3 DEF DisableToastForApp, KeepList, PromisesKept
    <2>4. CASE a \notin blockedToastApps
      BY <1>1, <2>1, <2>2, <2>4 DEF DisableToastForApp, ChangeList, PromisesKept
    <2> QED BY <2>3, <2>4
  <1>2. ASSUME NEW a \in Apps, EnableToastForApp(a) PROVE PromisesKept'
    <2>1. saving = "idle"
      BY <1>2 DEF EnableToastForApp
    <2>2. failures = 0 => promised \subseteq blockedToastApps /\ Loaded(file) = blockedToastApps
      BY <2>1 DEF PromisesKept, Inv, IdleListIsSaved
    <2> QED BY <1>2, <2>1, <2>2 DEF EnableToastForApp, KeepList, ChangeList, PromisesKept
  <1>3. CASE SaveBlockedToastApps
    <2>1. CASE OpenTmp
      <3>1. CASE EndSave(FALSE) /\ UNCHANGED <<file, tmpFile>>
        BY <2>1, <3>1, PromisesEndSave DEF OpenTmp
      <3>2. CASE saving' = "opened" /\ UNCHANGED <<blockedToastApps, file, unsaved, promised, failures>>
        BY <2>1, <3>2 DEF OpenTmp, PromisesKept
      <3> QED BY <2>1, <3>1, <3>2 DEF OpenTmp
    <2>2. CASE WriteTmp
      <3>1. CASE EndSave(FALSE) /\ UNCHANGED file
        BY <2>2, <3>1, PromisesEndSave DEF WriteTmp
      <3>2. CASE saving' = "written" /\ UNCHANGED <<blockedToastApps, file, unsaved, promised, failures>>
        BY <2>2, <3>2 DEF WriteTmp, PromisesKept
      <3> QED BY <2>2, <3>1, <3>2 DEF WriteTmp
    <2>3. CASE RenameTmp
      <3>1. saving # "idle" /\ tmpFile = List(blockedToastApps)
        BY <2>3 DEF RenameTmp, Inv, WrittenIsTheList
      <3>2. CASE EndSave(TRUE) /\ file' = tmpFile
        <4>1. Loaded(file') = blockedToastApps
          BY <3>1, <3>2, LoadedList
        <4> QED BY <3>1, <3>2, <4>1, PromisesEndSave
      <3>3. CASE EndSave(FALSE) /\ UNCHANGED file
        BY <3>1, <3>3, PromisesEndSave
      <3> QED BY <2>3, <3>2, <3>3 DEF RenameTmp
    <2> QED BY <1>3, <2>1, <2>2, <2>3 DEF SaveBlockedToastApps
  <1>4. CASE Restart
    BY <1>4 DEF Restart, PromisesKept
  <1>5. ASSUME NEW b \in BOOLEAN, SetToastNotification(b) \/ SetExternal(b)
        PROVE  PromisesKept'
    BY <1>5 DEF SetToastNotification, SetExternal, listVars, PromisesKept
  <1>6. ASSUME NEW c \in Panels, GetToastSettings(c) \/ CancelToastSettings(c)
        PROVE  PromisesKept'
    BY <1>6 DEF GetToastSettings, CancelToastSettings, listVars, PromisesKept
  <1>7. CASE HandleAppList \/ Beside(Manager) \/ UNCHANGED vars
    BY <1>7 DEF HandleAppList, Beside, vars, listVars, PromisesKept
  <1> QED BY <1>1, <1>2, <1>3, <1>4, <1>5, <1>6, <1>7 DEF Next

\* A block that disableToast answered with success holds, wherever the process
\* ended since, as long as no save failed (saveBlockedToastApps).
THEOREM BlocksHold == Spec => []BlockHoldsUnlessSaveFails
  <1>1. Inv /\ PromisesKept => BlockHoldsUnlessSaveFails
    BY DEF Inv, IdleListIsSaved, PromisesKept, BlockHoldsUnlessSaveFails
  <1> QED BY <1>1, PromisesInit, PromisesNext, Invariance, PTL DEF Spec

-----------------------------------------------------------------------------
(* The application list beside the saves.                                    *)

\* The composition adds no step to those of the application list, so that what
\* is proved of it alone holds here.
LEMMA AppListSteps == [Next]_vars => [AppListNext]_appListVars
  <1> SUFFICES ASSUME [Next]_vars PROVE AppListNext \/ UNCHANGED appListVars
    OBVIOUS
  <1>1. ASSUME NEW a \in Apps, DisableToastForApp(a) \/ EnableToastForApp(a)
        PROVE  UNCHANGED appListVars
    BY <1>1 DEF DisableToastForApp, EnableToastForApp
  <1>2. ASSUME NEW b \in BOOLEAN, SetToastNotification(b) \/ SetExternal(b)
        PROVE  UNCHANGED appListVars
    BY <1>2 DEF SetToastNotification, SetExternal
  <1>3. ASSUME NEW c \in Panels, GetToastSettings(c) \/ CancelToastSettings(c)
        PROVE  UNCHANGED appListVars
    BY <1>3 DEF GetToastSettings, CancelToastSettings
  <1>4. CASE SaveBlockedToastApps
    BY <1>4 DEF SaveBlockedToastApps, OpenTmp, WriteTmp, RenameTmp, EndSave
  <1>5. CASE HandleAppList \/ Beside(Manager) \/ Restart
    BY <1>5 DEF HandleAppList, Beside, Restart, AppListNext
  <1>6. CASE UNCHANGED vars
    BY <1>6 DEF vars
  <1> QED BY <1>1, <1>2, <1>3, <1>4, <1>5, <1>6 DEF Next

\* The mirror that decides whose ids disableToast and enableToast take is right
\* in the same sense when handlers that save delay its messages (cb_disableToast).
THEOREM MirrorHoldsBesideSaves == Spec => [](AppListTypeOK /\ MirrorCatchesUp /\ MirrorAtRest)
  <1>1. Init => InitAppList
    BY DEF Init
  <1> QED BY <1>1, AppListSteps, MirrorInvariance, MirrorInvSuffices, PTL DEF Spec
=============================================================================
