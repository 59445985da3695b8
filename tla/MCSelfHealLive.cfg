CONSTANTS
    self = self
    a = a
    b = b
    Node = {self, a, b}
    Local = self
    None = None
    Dht <- NoDht
    Custom <- NoRoutes
    Direct = {}
    MaxEntries = 2
    MaxCandidates = 2
    Threshold = 2
    Monitored = {a}
    Removed = {b}
    Beating = {a, b}
    MaxAttempts = 1
    Senders = {b}
    Failing = {}
    Tracked = {}
SPECIFICATION FairHealSpec
INVARIANTS RecoveredWasHeard
PROPERTIES SilentFoundOffline
