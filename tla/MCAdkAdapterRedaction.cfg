(* One invocation at a time: what an export does to an instruction. *)
CONSTANTS
    Agents <- MCAgents
    StepIds = {"s1"}
    Synthesis = "synthesis"
    DataQuality = "data_quality"
    Texts <- MCTexts
    PlanIds = {"p1"}
    NewDrafts <- MCDrafts
    Registries <- OneRegistry
    Handlers <- MCAgents
    GuardedMode = TRUE
    EditKinds = {"instruct"}
    MaxVersion = 2
    MaxAttempts = 2
    Invocations = {"i1"}
    Free = Free
    Redact <- MCRedact
    FreshSession = FALSE
    Crashes = FALSE
SPECIFICATION ASpec
INVARIANT
    ExecutedAsShown
