(* One plan with a step behind the conditional review.                     *)
CONSTANTS
    Agents <- MCAgents
    StepIds <- MCStepIds
    Synthesis = "synthesis"
    DataQuality = "data_quality"
    Texts = {"note"}
    Workflows <- DetourOnly
    HandlerSets <- AllHandlers
SPECIFICATION GSpec
INVARIANTS
    CompletedRanAll
CHECK_DEADLOCK FALSE
