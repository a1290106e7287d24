(* Three specialists, one of them without user actions, two of their surfaces, one plan, two user actions under way. *)
CONSTANTS
    ComponentIds = {"root", "a", "b"}
    PlanIds = {"p1"}
    Screens = {"s1", "s2"}
    Fallback = "fallback"
    Agents = {"credit", "policy", "market"}
    Handlers = {"credit", "policy"}
    Answers <- MCAnswers
    Executions <- MCExecutions
    Snapshots <- MCSnapshots
    Canvases <- MCCanvases
    Calls = {"c1", "c2"}
SPECIFICATION RSpec
INVARIANTS
    FallbackKeepsNothing
