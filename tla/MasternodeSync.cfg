SPECIFICATION SyncSpec
CONSTANTS
    MaxPeers = 1
    Attempts = 2
    StageTimeout = 2
    QuietTime = 1
    RetryAfter = 1
    ItemsToCome = 2
    MaxResyncs = 1
    MaxResets = 1
    Never = Never
INVARIANT FinishedIsReady
PROPERTY SyncEnds
