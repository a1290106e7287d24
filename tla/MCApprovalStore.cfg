(* One plan, every edit, approvals, failures, resets and retries. *)
CONSTANTS
    Agents <- MCAgents
    StepIds = {"s1", "s2", "s3", "s4"}
    Synthesis = "synthesis"
    DataQuality = "data_quality"
    Texts = {"note"}
    PlanIds = {"p1"}
    NewDrafts <- MCDrafts
    Registries <- TwoRegistries
    Handlers <- MCAgents
    GuardedMode = FALSE
    EditKinds <- MCKinds
    MaxVersion = 3
    MaxAttempts = 2
SPECIFICATION Spec
INVARIANTS
    TypeOK
    FrozenPlanIsDraft
    ExecutedAsShown
    OneSuccessfulExecution
PROPERTIES
    EditsKeepPrecedence
    ConditionalReviewKept
    SynthesisKeepsCoverage
    DecisionsAreFinal
    ImplementsLifecycle
