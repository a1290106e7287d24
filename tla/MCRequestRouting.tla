-------------------------- MODULE MCRequestRouting --------------------------
(* A small instance of RequestRouting.                                     *)
EXTENDS RequestRouting

MCAgents == {"credit_risk", "compliance_policy", "relationship_summary",
             "internal_knowledge", "industry_research", "data_quality",
             "synthesis"}

(* Two agents whose ids differ only in what a step id leaves out, and one  *)
(* whose stem is the id that the second of them gets.                      *)
MCSlug == [a \in MCAgents |->
             CASE a \in {"credit_risk", "internal_knowledge"} -> "review"
               [] a = "industry_research"                     -> "review_2"
               [] OTHER                                       -> a]
MCStems   == {MCSlug[a] : a \in MCAgents}
MCNumbers == 1..Cardinality(MCAgents)

MCNumbered == [x \in MCStems \X MCNumbers |->
                 CASE x[2] = 1           -> <<x[1]>>
                   [] x = <<"review", 2>> -> <<"review_2">>
                   [] OTHER              -> x]
MCStepIds  == {MCNumbered[x] : x \in MCStems \X MCNumbers}

(* Sensitive or not, one specialist or several, sure or not.               *)
MCInputs == { {"internal notes"}, {"meeting", "loan"}, {"meeting"},
              {"relationship notes", "credit"}, {"data quality"}, {} }

(* A language model forgets the guardrails, is unsure what it wants,       *)
(* or asks for the synthesis alone.                                        *)
MCOpinions ==
    { Assessment("internal_knowledge", {"internal_knowledge"},
                 {"credit_risk"}, FALSE, 95),
      Assessment("internal_knowledge", {"internal_knowledge", "unknown"},
                 {"credit_risk", "internal_knowledge"}, FALSE, 95),
      Assessment("data_quality", {"data_quality"}, {"data_quality"}, FALSE, 99),
      Assessment("internal_knowledge", {"unknown"}, {"synthesis"}, FALSE, 95) }

MCSources == { [kind |-> "valid",    agents |-> MCAgents],
               [kind |-> "valid",    agents |-> MCAgents \ {"compliance_policy"}],
               [kind |-> "valid",    agents |-> {"data_quality", "internal_knowledge"}],
               [kind |-> "refused",  agents |-> {"synthesis"}] }
=============================================================================
