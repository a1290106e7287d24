------------------------------ MODULE PlanRun ------------------------------
(***************************************************************************)
(* What an execution of an approved plan promises, without a graph: every  *)
(* step begins at most once, after what it depends on has finished; a      *)
(* conditional review begins only when its source asked for it, and the    *)
(* synthesis goes without it only when its source did not.                 *)
(***************************************************************************)
EXTENDS PlanGraph

CONSTANT Workflows   \* the step lists that may be executed

VARIABLES steps,     \* the approved steps
          begun,     \* ids of the steps whose specialist was asked
          done,      \* ids of the steps that answered
          asked,     \* the source of the review reported missing data
          outcome    \* "open", then "completed" or "failed"

rvars == <<steps, begun, done, asked, outcome>>

RInit == /\ steps \in Workflows
         /\ begun = {}
         /\ done = {}
         /\ asked = FALSE
         /\ outcome = "open"

(* What t needs has finished, a skipped review replaced by its source.     *)
Ready(t) ==
    \/ /\ DependsOn(steps, t) \subseteq done
       /\ \A b \in Branches(steps) : t = b.review => asked
    \/ \E b \in Branches(steps) :
          /\ t = b.synthesis
          /\ ~ asked
          /\ (DependsOn(steps, t) \ {b.review}) \cup {b.source} \subseteq done

RBegin(t) == /\ outcome = "open"
             /\ t \in Ids(steps) \ begun
             /\ Ready(t)
             /\ begun' = begun \cup {t}
             /\ UNCHANGED <<steps, done, asked, outcome>>

RFinish(t) == /\ outcome = "open"
              /\ t \in begun \ done
              /\ done' = done \cup {t}
              /\ asked' \in IF \E b \in Branches(steps) : t = b.source
                              THEN BOOLEAN ELSE {asked}
              /\ UNCHANGED <<steps, begun, outcome>>

(* An execution completes only with an answer from every step it began.    *)
RClose == /\ outcome = "open"
          /\ \/ outcome' = "completed" /\ begun = done
             \/ outcome' = "failed"
          /\ UNCHANGED <<steps, begun, done, asked>>

RNext == (\E t \in Ids(steps) : RBegin(t) \/ RFinish(t)) \/ RClose

RSpec == RInit /\ [][RNext]_rvars
=============================================================================
