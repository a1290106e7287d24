---------------------------- MODULE MCAdkAdapter ----------------------------
(* Small instances of AdkAdapter.                                          *)
EXTENDS AdkAdapter

Single == [version |-> 1, selected |-> {"credit"}, immutable |-> TRUE,
           steps |-> <<[id |-> "s1", agent |-> "credit", added |-> <<>>,
                        deps |-> {}, cond |-> "none"]>>]

MCAgents   == {"credit", "data_quality", "synthesis"}
MCDrafts   == {Single}
OneRegistry == {MCAgents}

(* "token" stands for a harmless text that the export rewrites because it  *)
(* holds a word like token, "partly" for what it becomes, which the next   *)
(* export rewrites again, and "masked" for what stays: "db.token: token"   *)
(* becomes "db.token: <redacted-key>" and then "db.<redacted-secret>".     *)
MCTexts  == {"token", "partly", "masked"}
MCRedact == [t \in MCTexts |-> IF t = "token" THEN "partly" ELSE "masked"]

(* With crashes, fewer texts: one that an export rewrites, and its result. *)
FewTexts   == {"token", "masked"}
OnceMasked == [t \in FewTexts |-> "masked"]
=============================================================================
