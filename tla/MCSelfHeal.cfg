CONSTANTS
    self = self
    a = a
    b = b
    Node = {self, a, b}
    Local = self
    None = None
    Dht <- SmallDht
    Custom <- RelayRoute
    Direct = {a}
    MaxEntries = 1
    MaxCandidates = 2
    Threshold = 2
    Monitored = {b}
    Removed = {}
    Beating = {a, b}
    MaxAttempts = 2
    Senders = {}
    Failing = {a, b}
    Tracked = {b}
SPECIFICATION HealSpec
INVARIANTS  CallbacksFollow TableBounded
