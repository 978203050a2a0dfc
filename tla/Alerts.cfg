SPECIFICATION Spec
CONSTANTS
    Clients = {c1, c2}
    Alerts = {a1, a2}
    Toasts = {}
    Notes = {}
    Sources = {}
    SourceOf <- MCSourceOf
    Displays = {}
    DisplayOf <- MCDisplayOf
    Subscribable = {"getAlertNotification", "getToastNotification"}
    Failing = {"getAlertNotification"}
    kMaxQueuedMessages = 2
    MaxUris = 2
    MaxAsync = 2
    MaxCount = 0
    MaxRestarts = 1
INVARIANTS
    TypeOK
    UiBitImpliesUiEnabled
    EnabledAlertsNotHeld
    OnlyAcceptedIsKnown
    AnsweredOnce
    ReleaseIsComing
PROPERTIES
    AlertsPostedOnce
    HeldAlertIsReleased
VIEW AlertsView
