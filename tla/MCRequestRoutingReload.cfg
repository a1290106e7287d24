(* A reload while the classifier of a sensitive request is awaited. *)
CONSTANTS
    Agents <- MCAgents
    StepIds <- MCStepIds
    Synthesis = "synthesis"
    DataQuality = "data_quality"
    Texts = {}
    Requests = {"r1"}
    Inputs <- MCInputs
    Opinions <- MCOpinions
    Scopes = {"scope"}
    Tries = {1}
    Handlers = {"credit_risk", "compliance_policy", "relationship_summary", "internal_knowledge", "industry_research", "synthesis"}
    Slug <- MCSlug
    Numbered <- MCNumbered
    Sources <- MCSources
SPECIFICATION QSpec
INVARIANT SensitivePlansGuarded
