SPECIFICATION Spec
CONSTANTS
    Clients = {c1, c2}
    Alerts = {a1, a2}
    Toasts = {}
    Notes = {}
    Sources = {}
    SourceOf <- MCSourceOf
    Displays = {}
    DisplayOf <- MCDisplayOf
    Subscribable = {"getAlertNotification", "getToastNotification"}
    Failing = {}
    kMaxQueuedMessages = 2
    MaxUris = 0
    MaxAsync = 2
    MaxCount = 0
    MaxRestarts = 0
PROPERTIES
    HeldUntilShown
