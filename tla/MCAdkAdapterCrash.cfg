(* Overlapping invocations, a fresh session and crashes. *)
CONSTANTS
    Agents <- MCAgents
    StepIds = {"s1"}
    Synthesis = "synthesis"
    DataQuality = "data_quality"
    Texts <- FewTexts
    PlanIds = {"p1"}
    NewDrafts <- MCDrafts
    Registries <- OneRegistry
    Handlers <- MCAgents
    GuardedMode = TRUE
    EditKinds = {"instruct"}
    MaxVersion = 2
    MaxAttempts = 2
    Invocations = {"i1", "i2"}
    Free = Free
    Redact <- OnceMasked
    FreshSession = TRUE
    Crashes = TRUE
SPECIFICATION ASpec
INVARIANTS
    ContextTracksDraft
    GuardOpenOnlyForApproved
    NoPlanStuckFailed
