------------------------ MODULE IntentClassification ------------------------
(***************************************************************************)
(* What the two classifiers make of a request: the small model's           *)
(* suggestion (intent/slm_mock_client.py), the rule-based assessment       *)
(* (intent/classifier.py) and the confidence merged of both                *)
(* (intent/merge.py).                                                      *)
(*                                                                         *)
(* A request is the set of the phrases in it that a rule looks for.  One   *)
(* phrase stands for all that no rule tells apart: "loan" for every        *)
(* sensitive word but credit and policy, "retail trade" for every sector   *)
(* word the suggestion does not know, "risky" for every word that only     *)
(* contains risk.  Intents and agents are sets: their order only words the *)
(* plan and numbers its steps.  Confidences are hundredths.                *)
(***************************************************************************)
EXTENDS Naturals

Phrases == {"prospect", "research", "opportunities", "product opportunities",
            "talking points", "meeting", "prepare", "seeing", "tomorrow",
            "compare", "relationship history", "relationship summary",
            "recommend", "credit", "loan", "policy", "risk", "risks", "risky",
            "internal notes", "relationship notes",
            "web search", "recent public", "industry", "retail trade",
            "data quality", "stale context"}

Risks == {"risk", "risks", "risky"}

Mentions(text, phrases) == text \cap phrases # {}

IsProductOpportunity(text) == "product opportunities" \in text

IsProspectResearch(text) ==
    \/ "prospect" \in text
    \/ /\ "research" \in text
       /\ ~ IsProductOpportunity(text)
       /\ Mentions(text, {"risks", "opportunities", "talking points"})

IsComparison(text) == /\ Mentions(text, {"compare", "relationship history"})
                      /\ Mentions(text, {"industry"} \cup Risks)
                      /\ "recommend" \in text

IsMeetingPrep(text) == \/ Mentions(text, {"meeting", "talking points"})
                       \/ {"seeing", "tomorrow"} \subseteq text

IsSensitiveText(text) == Mentions(text, {"credit", "loan", "policy"})

IsIndustryResearch(text) == Mentions(text, {"industry", "retail trade"})

IsStandaloneRisk(text) == /\ ~ IsIndustryResearch(text)
                          /\ Mentions(text, {"risk", "risks"})

-----------------------------------------------------------------------------
Guardrails == {"credit_risk", "compliance_policy"}

(* repeats: a list of the assessment names something twice, so that it is  *)
(* longer than the set.                                                    *)
Assessment(topic, intents, agents, complex, confidence) ==
    [topic |-> topic, intents |-> intents, agents |-> agents, repeats |-> FALSE,
     complex |-> complex, confidence |-> confidence]

Simple(agent, confidence) == Assessment(agent, {agent}, {agent}, FALSE, confidence)

(* Sensitive words bring both guardrail agents into whatever is planned.   *)
WithGuardrails(text, assessment) ==
    IF IsSensitiveText(text)
      THEN [assessment EXCEPT !.intents = @ \cup Guardrails,
                              !.agents  = @ \cup Guardrails]
      ELSE assessment

ProspectResearch ==
    Assessment("prospect_research",
               {"prospect_research", "web_search", "industry_research",
                "product_opportunity", "credit_risk"},
               {"web_search", "industry_research", "product_opportunity",
                "credit_risk", "synthesis"}, TRUE, 90)

Comparison ==
    Assessment("relationship_summary",
               {"relationship_summary", "industry_research", "credit_risk",
                "meeting_prep"},
               {"relationship_summary", "industry_research", "credit_risk",
                "synthesis"}, TRUE, 88)

MeetingPrep ==
    Assessment("meeting_prep",
               {"meeting_prep", "relationship_summary", "internal_knowledge",
                "industry_research"},
               {"relationship_summary", "internal_knowledge",
                "industry_research", "synthesis"}, TRUE, 91)

SensitiveReview == Assessment("credit_risk", Guardrails, Guardrails \cup {"synthesis"},
                              TRUE, 87)

Unclear == Assessment("data_quality", {"unknown"}, {"data_quality"}, TRUE, 42)

(* Mutant: the guardrails are added to prospect research only.             *)
RulesForgetting(text) ==
    << [fits |-> IsProspectResearch(text), says |-> WithGuardrails(text, ProspectResearch)],
       [fits |-> IsComparison(text),       says |-> Comparison],
       [fits |-> IsMeetingPrep(text),      says |-> MeetingPrep],
       [fits |-> IsSensitiveText(text),    says |-> SensitiveReview],
       [fits |-> TRUE,                     says |-> Unclear] >>

(* The rules in the order they are tried.                                  *)
Rules(text) ==
    << [fits |-> IsProspectResearch(text), says |-> WithGuardrails(text, ProspectResearch)],
       [fits |-> IsComparison(text),       says |-> WithGuardrails(text, Comparison)],
       [fits |-> IsMeetingPrep(text),      says |-> WithGuardrails(text, MeetingPrep)],
       [fits |-> IsSensitiveText(text),    says |-> SensitiveReview],
       [fits |-> IsStandaloneRisk(text),   says |-> Simple("credit_risk", 89)],
       [fits |-> Mentions(text, {"internal notes", "relationship notes"}),
                                           says |-> Simple("internal_knowledge", 93)],
       [fits |-> IsProductOpportunity(text), says |-> Simple("product_opportunity", 90)],
       [fits |-> Mentions(text, {"web search", "recent public"}),
                                           says |-> Simple("web_search", 89)],
       [fits |-> IsIndustryResearch(text), says |-> Simple("industry_research", 90)],
       [fits |-> Mentions(text, {"relationship history", "relationship summary"}),
                                           says |-> Simple("relationship_summary", 88)],
       [fits |-> Mentions(text, {"data quality", "stale context"}),
                                           says |-> Simple("data_quality", 84)],
       [fits |-> TRUE,                     says |-> Unclear] >>

First(rules) ==
    rules[CHOOSE i \in DOMAIN rules :
             rules[i].fits /\ \A j \in 1..(i - 1) : ~ rules[j].fits].says

Assessed(text) == First(Rules(text))

(* The confidence of the suggestion; which intent it suggests is not used  *)
(* by the routing.                                                         *)
Suggested(text) ==
    First(<< [fits |-> "internal notes" \in text,                says |-> 90],
             [fits |-> Mentions(text, {"meeting", "prepare"}),   says |-> 82],
             [fits |-> "web search" \in text,                    says |-> 86],
             [fits |-> "industry" \in text,                      says |-> 88],
             [fits |-> "product opportunities" \in text,         says |-> 87],
             [fits |-> "prospect" \in text,                      says |-> 78],
             [fits |-> Mentions(text, {"credit"} \cup Risks),    says |-> 80],
             [fits |-> Mentions(text, {"relationship history",
                                       "relationship summary"}), says |-> 84],
             [fits |-> "policy" \in text,                        says |-> 83],
             [fits |-> "data quality" \in text,                  says |-> 81],
             [fits |-> "research" \in text,                      says |-> 78],
             [fits |-> TRUE,                                     says |-> 35] >>)

(* Four parts of the suggestion and six of the assessment, in thousandths. *)
MergedConfidence(text, assessment) == 4 * Suggested(text) + 6 * assessment.confidence
=============================================================================
