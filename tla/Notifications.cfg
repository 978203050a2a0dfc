SPECIFICATION Spec
CONSTANTS
    Clients = {c1}
    Alerts = {}
    Toasts = {"t1"}
    Notes = {"n1"}
    Sources = {"mail", "news"}
    SourceOf <- MCSourceOf
    Displays = {0}
    DisplayOf <- MCDisplayOf
    Subscribable = {"getNotification", "getToastCount"}
    Failing = {"getToastNotification"}
    kMaxQueuedMessages = 2
    MaxUris = 0
    MaxAsync = 1
    MaxCount = 1
    MaxRestarts = 1
INVARIANTS
    OnlyAcceptedIsKnown
    NotiQueueDrained
PROPERTIES
    AppliedInOrder
    RemovedStaysRemoved
