(* Invocations that begin before the session has any state. *)
CONSTANTS
    Agents <- MCAgents
    StepIds = {"s1"}
    Synthesis = "synthesis"
    DataQuality = "data_quality"
    Texts <- MCTexts
    PlanIds = {"p1"}
    NewDrafts <- MCDrafts
    Registries <- OneRegistry
    Handlers <- MCAgents
    GuardedMode = TRUE
    EditKinds = {"instruct"}
    MaxVersion = 1
    MaxAttempts = 2
    Invocations = {"i1", "i2", "i3"}
    Free = Free
    Redact <- MCRedact
    FreshSession = TRUE
    Crashes = FALSE
SPECIFICATION ASpec
INVARIANT
    DecidedPlansStayClosed
