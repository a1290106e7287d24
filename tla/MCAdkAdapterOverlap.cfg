(* Overlapping invocations of a session in a process that lives on. *)
CONSTANTS
    Agents <- MCAgents
    StepIds = {"s1"}
    Synthesis = "synthesis"
    DataQuality = "data_quality"
    Texts <- MCTexts
    PlanIds = {"p1"}
    NewDrafts <- MCDrafts
    Registries <- OneRegistry
    Handlers <- MCAgents
    GuardedMode = TRUE
    EditKinds = {"instruct"}
    MaxVersion = 2
    MaxAttempts = 2
    Invocations = {"i1", "i2", "i3"}
    Free = Free
    Redact <- MCRedact
    FreshSession = FALSE
    Crashes = FALSE
SPECIFICATION ASpec
INVARIANTS
    AdapterTypeOK
    OneSuccessfulExecution
    DecidedPlansStayClosed
    DraftsNeverRegress
    ExecutedAsShownButRedacted
PROPERTIES
    SessionImplementsLifecycle
