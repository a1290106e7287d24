(* Two requests of the same scope, and reloads at any time. *)
CONSTANTS
    Agents <- MCAgents
    StepIds <- MCStepIds
    Synthesis = "synthesis"
    DataQuality = "data_quality"
    Texts = {}
    Requests = {"r1", "r2"}
    Inputs <- MCInputs
    Opinions <- MCOpinions
    Scopes = {"scope"}
    Tries = {1, 2, 3}
    Handlers = {"credit_risk", "compliance_policy", "relationship_summary", "internal_knowledge", "industry_research", "synthesis"}
    Slug <- MCSlug
    Numbered <- MCNumbered
    Sources <- MCSources
SPECIFICATION QSpec
INVARIANTS
    GuardrailsKept
    PlannedWellFormed
    PlanIdsOwned
