(* Every plan of three steps and a synthesis.  A finished execution stops. *)
CONSTANTS
    Agents <- MCAgents
    StepIds <- MCStepIds
    Synthesis = "synthesis"
    DataQuality = "data_quality"
    Texts = {"note"}
    Workflows <- AllWorkflows
    HandlerSets <- MCHandlerSets
SPECIFICATION GSpec
INVARIANTS
    RuntimeTypeOK
    GuardNeverRefuses
    RequestedOnce
    CompletionIsFull
    BuiltGraphAgrees
PROPERTIES
    ImplementsPlanRun
    ExecutionEnds
CHECK_DEADLOCK FALSE
