\* Two jobs of any kind but the http PDF (a page to this model), two workers.
SPECIFICATION Spec
CONSTANTS
    Jobs = {j1, j2}
    Workers = {w1, w2}
    Kinds = {"page", "file_pdf", "youtube", "media"}
    MaxAttempts = 2
    MaxPauses = 1
    MaxRestarts = 1
    NoJob = NoJob
SYMMETRY Symmetry
INVARIANTS
    SingleExecutor
    PendingIsExecuted
    FinishedIsAtRest
    BufferIsStreaming
    PausedStageIsParked
PROPERTIES
    PauseGatesHeavySteps
    PromiseSpec
CHECK_DEADLOCK FALSE
