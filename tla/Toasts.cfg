SPECIFICATION Spec
CONSTANTS
    Clients = {c1}
    Alerts = {}
    Toasts = {"t1", "t2"}
    Notes = {}
    Sources = {"mail", "news"}
    SourceOf <- MCSourceOf
    Displays = {0}
    DisplayOf <- MCDisplayOf
    Subscribable = {"getToastNotification", "getToastCount"}
    Failing = {"getToastNotification"}
    kMaxQueuedMessages = 1
    MaxUris = 0
    MaxAsync = 1
    MaxCount = 2
    MaxRestarts = 1

INVARIANTS
    TypeOK
    UiBitImpliesUiEnabled
    OnlyAcceptedIsKnown
    ToastQueueDrained
    NotiQueueDrained
PROPERTIES
    ToastsShownAtOnce
    CountsConserved
