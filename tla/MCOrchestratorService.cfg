(* Two plans of one session, failures and retries, a registry that changes. *)
CONSTANTS
    Agents <- MCAgents
    StepIds = {"s1", "s2", "s3"}
    Synthesis = "synthesis"
    DataQuality = "data_quality"
    Texts = {"note"}
    PlanIds = {"p1", "p2"}
    NewDrafts <- MCDrafts
    Registries <- TwoRegistries
    Handlers <- MCHandlers
    GuardedMode = TRUE
    EditKinds <- MCKinds
    MaxVersion = 2
    MaxAttempts = 2
SPECIFICATION SSpec
INVARIANTS
    ContextTracksDraft
    GuardOpenOnlyForApproved
    NoPlanStuckFailed
    SurfaceWhilePending
PROPERTIES
    ImplementsLifecycle
