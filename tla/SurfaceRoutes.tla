---------------------------- MODULE SurfaceRoutes ----------------------------
(***************************************************************************)
(* SurfaceRouteRegistry (orchestrator/surface_routes.py) and the service   *)
(* operations that use it (orchestrator/service.py,                        *)
(* a2ui_support/renderer_contract.py): who owns each surface the renderer  *)
(* shows, which components it has, where a user action goes, and what an   *)
(* answer may do to the surfaces.                                          *)
(*                                                                         *)
(* A user action on a specialist's surface awaits the specialist; other    *)
(* user actions, requests and approvals run while it is awaited.  What     *)
(* follows the answer runs without an await: the registry takes in the     *)
(* answer, and the service then prepares the same answer for the renderer, *)
(* through the same checks, a second time.                                 *)
(***************************************************************************)
EXTENDS ComponentGraph, Sequences, SequencesExt

CONSTANTS
    PlanIds,     \* plans; the approval surface of a plan has the plan's name
    Screens,     \* surfaces of specialists
    Fallback,    \* the surface of a fallback message
    Agents,
    Handlers,    \* agents with a handler for user actions
    Answers,     \* what specialists may answer
    Executions,  \* what the steps of an execution may answer, in order
    Canvases,    \* component sets of approval canvases
    Calls,       \* bound: user actions under way at once
    Snapshots    \* bound: registries a caller keeps to restore them later

ASSUME HandlersAssumption == Handlers \subseteq Agents

Surfaces == PlanIds \cup Screens \cup {Fallback}

VARIABLES owners,    \* surface -> owner
          canvases,  \* surface -> components known to be on it
          calls,     \* user action -> the specialist it was sent to, or Idle
          plans,     \* plan id -> new, pending or decided
          saved      \* a snapshot of owners and canvases

registry == <<owners, canvases>>
rvars    == <<owners, canvases, calls, plans, saved>>

NoOwner       == <<"nobody">>
Orchestrator  == <<"orchestrator">>
Specialist(a) == <<"specialist", a>>
Owners        == {NoOwner, Orchestrator} \cup {Specialist(a) : a \in Agents}

(* Only updates bring components.                                          *)
Messages == [kind    : {"create", "update", "delete"},
             surface : Surfaces,
             parts   : ComponentSets,
             replace : BOOLEAN,
             shaped  : BOOLEAN]

(* An answer carries messages, or a note that its messages were invalid.   *)
AnswerForms == [messages : Seq(Messages), noted : BOOLEAN]

ASSUME AnswersAssumption == Answers \subseteq AnswerForms

ASSUME ExecutionsAssumption ==
    Executions \subseteq Seq([agent : Agents, answer : AnswerForms, listed : BOOLEAN])

(* An approval canvas is one tree under a root, whatever the steps of the  *)
(* plan: its ids are made of step ids, which are names of agents, and no   *)
(* agent is named like another with _label or _input behind.               *)
ASSUME CanvasesAssumption ==
    /\ Canvases \subseteq ComponentSets
    /\ \A cs \in Canvases : StandsAlone(cs) /\ UpdateAccepted({}, cs, TRUE)

Message(kind, s, cs, replace) ==
    [kind |-> kind, surface |-> s, parts |-> cs, replace |-> replace, shaped |-> TRUE]

Idle     == "idle"
EmptyRegistry == [owners   |-> [s \in Surfaces |-> NoOwner],
                  canvases |-> [s \in Surfaces |-> {}]]
NoSnapshot    == [from |-> "none", reg |-> EmptyRegistry]
Remembered(from, reg) == IF reg \in Snapshots THEN [from |-> from, reg |-> reg] ELSE NoSnapshot

RInit == /\ owners = EmptyRegistry.owners
         /\ canvases = EmptyRegistry.canvases
         /\ calls = [c \in Calls |-> Idle]
         /\ plans = [p \in PlanIds |-> "new"]
         /\ saved = NoSnapshot

-----------------------------------------------------------------------------
(* Messages and the registry.                                              *)

(* A message that has the shape the schema asks for (shaped) and, when it  *)
(* updates components, suits the canvas it is for.                         *)
Valid(cans, m, strict) ==
    /\ m.shaped
    /\ m.kind = "update" =>
          /\ UpdateAccepted(Baseline(cans[m.surface], m.replace), m.parts,
                            strict \/ m.replace)
          /\ m.surface \in PlanIds => StandsAlone(m.parts)

Applied(cans, m) ==
    CASE m.kind = "delete" -> [cans EXCEPT ![m.surface] = {}]
      [] m.kind = "update" -> [cans EXCEPT ![m.surface] = Updated(@, m.parts, m.replace)]
      [] OTHER             -> cans

(* Messages are checked one after the other, each against what the ones    *)
(* before it have made of the canvases.                                    *)
Staged(cans, messages, strict) ==
    LET Step(st, m) == IF st.ok /\ Valid(st.canvases, m, strict)
                         THEN [ok |-> TRUE, canvases |-> Applied(st.canvases, m)]
                         ELSE [st EXCEPT !.ok = FALSE]
    IN  FoldLeft(Step, [ok |-> TRUE, canvases |-> cans], messages)

(* Mutant: the owner a surface has already is not looked at.               *)
MayTakeOver(own, s, a) == s \notin PlanIds

(* Mutant: approval surfaces are not reserved.                             *)
MayTouchReserved(own, s, a) == own[s] \in {NoOwner, Specialist(a)}

(* A specialist may name a surface that nobody owns or that is its own,    *)
(* and no approval surface.                                                *)
MayTouch(own, s, a) == s \notin PlanIds /\ own[s] \in {NoOwner, Specialist(a)}

(* Mutant: what a specialist may not touch is passed over.                 *)
ClaimedPartly(own, messages, a) ==
    LET Step(st, m) == IF MayTouch(st.owners, m.surface, a)
                         THEN [st EXCEPT !.owners[m.surface] =
                                  IF m.kind = "delete" THEN NoOwner ELSE Specialist(a)]
                         ELSE st
    IN  FoldLeft(Step, [ok |-> TRUE, owners |-> own], messages)

Claimed(own, messages, a) ==
    LET Step(st, m) == IF st.ok /\ MayTouch(st.owners, m.surface, a)
                         THEN [ok |-> TRUE,
                               owners |-> [st.owners EXCEPT ![m.surface] =
                                  IF m.kind = "delete" THEN NoOwner ELSE Specialist(a)]]
                         ELSE [st EXCEPT !.ok = FALSE]
    IN  FoldLeft(Step, [ok |-> TRUE, owners |-> own], messages)

(* The orchestrator's own messages: a deletion leaves the surfaces of      *)
(* others, and anything else on a surface of another is refused.           *)
ClaimedForPlan(own, messages) ==
    LET Step(st, m) ==
          CASE m.kind = "delete" ->
                 [st EXCEPT !.owners[m.surface] =
                    IF @ = Orchestrator THEN NoOwner ELSE @]
            [] m.kind # "delete" /\ st.owners[m.surface] \in {NoOwner, Orchestrator} ->
                 [st EXCEPT !.owners[m.surface] = Orchestrator]
            [] OTHER -> [st EXCEPT !.ok = FALSE]
    IN  FoldLeft(Step, [ok |-> TRUE, owners |-> own], messages)

(* Mutant: components are stored before the owners are known to agree.     *)
CommittedEarly(reg, staged, claimed) ==
    CASE ~ staged.ok                 -> [result |-> "invalid", reg |-> reg]
      [] staged.ok /\ ~ claimed.ok   ->
           [result |-> "conflict", reg |-> [reg EXCEPT !.canvases = staged.canvases]]
      [] staged.ok /\ claimed.ok     ->
           [result |-> "ok",
            reg |-> [owners |-> claimed.owners, canvases |-> staged.canvases]]

(* Both maps are worked out on copies and replaced together, or not at     *)
(* all.                                                                    *)
Committed(reg, staged, claimed) ==
    CASE ~ staged.ok                 -> [result |-> "invalid", reg |-> reg]
      [] staged.ok /\ ~ claimed.ok   -> [result |-> "conflict", reg |-> reg]
      [] staged.ok /\ claimed.ok     ->
           [result |-> "ok",
            reg |-> [owners |-> claimed.owners, canvases |-> staged.canvases]]

Taken(reg, messages, a) ==
    Committed(reg, Staged(reg.canvases, messages, TRUE),
              Claimed(reg.owners, messages, a))

PlanTaken(reg, messages) ==
    Committed(reg, Staged(reg.canvases, messages, TRUE),
              ClaimedForPlan(reg.owners, messages))

FallbackMessages ==
    << Message("create", Fallback, {}, FALSE),
       Message("update", Fallback, {[id |-> "root", refs |-> {}, inline |-> {}]}, FALSE) >>

(* An answer is prepared for the renderer; when the registry refuses it a  *)
(* fallback message is prepared in its place, and when that is refused as  *)
(* well the operation raises.                                              *)
Prepared(reg, answer, a) ==
    LET first  == Taken(reg, answer.messages, a)
        second == Taken(reg, FallbackMessages, a)
        needed == \/ answer.messages = <<>> /\ answer.noted
                  \/ first.result # "ok"
    IN  CASE ~ needed /\ answer.messages = <<>> -> [sent |-> "nothing", reg |-> reg]
          [] ~ needed /\ answer.messages # <<>> -> [sent |-> "answer", reg |-> first.reg]
          [] needed /\ second.result = "ok"     -> [sent |-> "fallback", reg |-> second.reg]
          [] needed /\ second.result # "ok"     -> [sent |-> "error", reg |-> reg]

CurrentRegistry == [owners |-> owners, canvases |-> canvases]
SetRegistry(reg) == owners' = reg.owners /\ canvases' = reg.canvases
-----------------------------------------------------------------------------
(* Operations of the service.                                              *)

CanvasMessages(p, cs) ==
    << Message("create", p, {}, FALSE), Message("update", p, cs, FALSE) >>

(* A new plan is stored and its canvas is shown; the plan stays stored     *)
(* when its canvas is refused.                                             *)
ProposePlan(p) ==
    /\ plans[p] = "new"
    /\ plans' = [plans EXCEPT ![p] = "pending"]
    /\ \E cs \in Canvases :
          SetRegistry(PlanTaken(CurrentRegistry, CanvasMessages(p, cs)).reg)
    /\ UNCHANGED <<calls, saved>>

(* An accepted edit shows the canvas of the new version on top of the old. *)
EditPlan(p) ==
    /\ owners[p] = Orchestrator /\ plans[p] = "pending"
    /\ \E cs \in Canvases :
          SetRegistry(PlanTaken(CurrentRegistry, CanvasMessages(p, cs)).reg)
    /\ UNCHANGED <<calls, plans, saved>>

(* An answer of a request or a graph step was checked before, by itself:   *)
(* a list of messages strictly, a lone message leniently, and all of them  *)
(* for one surface.                                                        *)
Invoked(answer, listed) ==
    LET messages == answer.messages
        alone    == Staged(EmptyRegistry.canvases, messages, listed).ok
        single   == \A i, j \in DOMAIN messages :
                        messages[i].surface = messages[j].surface
    IN  IF messages = <<>> \/ (alone /\ single)
          THEN answer ELSE [messages |-> <<>>, noted |-> TRUE]

Forms(answer) == IF Len(answer.messages) = 1 THEN BOOLEAN ELSE {TRUE}

(* The steps' answers are prepared in order; one that cannot be delivered  *)
(* at all ends the operation, and what was prepared before it stays.       *)
Delivered(reg, parts) ==
    LET Step(st, part) ==
          IF st.sent = "error" THEN st
          ELSE Prepared(st.reg, Invoked(part.answer, part.listed), part.agent)
    IN  FoldLeft(Step, [sent |-> "nothing", reg |-> reg], parts)

(* The approval surface is gone before the answers of the execution are    *)
(* prepared.  A rejection has no answers.                                  *)
DecidePlan(p) ==
    /\ owners[p] = Orchestrator /\ plans[p] = "pending"
    /\ plans' = [plans EXCEPT ![p] = "decided"]
    /\ LET closed == PlanTaken(CurrentRegistry, <<Message("delete", p, {}, FALSE)>>).reg
       IN  \/ SetRegistry(closed)
           \/ \E parts \in Executions : SetRegistry(Delivered(closed, parts).reg)
    /\ UNCHANGED <<calls, saved>>

(* A request that one specialist answers at once.                          *)
DirectRequest(a) ==
    /\ \E x \in Answers : \E f \in Forms(x) :
          SetRegistry(Prepared(CurrentRegistry, Invoked(x, f), a).reg)
    /\ UNCHANGED <<calls, plans, saved>>

(* Mutant: the handler is not looked for before the action is sent.        *)
UserActsUnhandled(c, s) ==
    /\ calls[c] = Idle
    /\ \E a \in Agents :
          /\ owners[s] = Specialist(a)
          /\ calls' = [calls EXCEPT ![c] = a]
    /\ UNCHANGED <<owners, canvases, plans, saved>>

(* The owner is looked up now and used when the answer has come.           *)
UserActs(c, s) ==
    /\ calls[c] = Idle
    /\ \E a \in Handlers :
          /\ owners[s] = Specialist(a)
          /\ calls' = [calls EXCEPT ![c] = a]
    /\ UNCHANGED <<owners, canvases, plans, saved>>

(* The registry takes the answer in, silently not when it is invalid; an   *)
(* answer it accepts is then prepared again, unless it cannot be read as a *)
(* specialist response.                                                    *)
Handled(reg, answer, a, readable) ==
    LET first == Taken(reg, answer.messages, a)
    IN  IF first.result = "conflict" \/ ~ readable
          THEN [sent |-> "nothing", reg |-> first.reg]
          ELSE Prepared(first.reg, answer, a)

HandlerAnswers(c) ==
    /\ calls[c] # Idle
    /\ calls' = [calls EXCEPT ![c] = Idle]
    /\ \E x \in Answers, readable \in BOOLEAN :
          SetRegistry(Handled(CurrentRegistry, x, calls[c], readable).reg)
    /\ UNCHANGED <<plans, saved>>

HandlerFails(c) ==
    /\ calls[c] # Idle
    /\ calls' = [calls EXCEPT ![c] = Idle]
    /\ UNCHANGED <<owners, canvases, plans, saved>>

(* The user interface is emptied and, when its refresh fails, restored.    *)
ClearSurfaces ==
    /\ saved' = Remembered("clear", CurrentRegistry)
    /\ SetRegistry(EmptyRegistry)
    /\ UNCHANGED <<calls, plans>>

ExportSession ==
    /\ saved' = Remembered("session", CurrentRegistry)
    /\ UNCHANGED <<owners, canvases, calls, plans>>

(* A session is restored between user actions, under the session lock.     *)
Restore ==
    /\ saved.from # "none"
    /\ saved.from = "session" => \A c \in Calls : calls[c] = Idle
    /\ SetRegistry(saved.reg)
    /\ saved' = NoSnapshot
    /\ UNCHANGED <<calls, plans>>

RNext == \/ \E p \in PlanIds : ProposePlan(p) \/ EditPlan(p) \/ DecidePlan(p)
         \/ \E a \in Agents : DirectRequest(a)
         \/ \E c \in Calls, s \in Surfaces : UserActs(c, s)
         \/ \E c \in Calls : HandlerAnswers(c) \/ HandlerFails(c)
         \/ ClearSurfaces \/ ExportSession \/ Restore

RSpec == RInit /\ [][RNext]_rvars

-----------------------------------------------------------------------------
(* Correctness.                                                            *)

RegistryTypeOK ==
    /\ owners \in [Surfaces -> Owners]
    /\ plans \in [PlanIds -> {"new", "pending", "decided"}]
    /\ calls \in [Calls -> Handlers \cup {Idle}]

(* Updates are judged one at a time, against what they leave on a canvas.  *)
(* However many are applied, and whatever was replaced or deleted between, *)
(* the canvas as a whole has no dangling reference and no circle, so the   *)
(* renderer can draw it (_validate_update_component_graph_integrity).      *)
CanvasesSound == \A s \in Surfaces : Sound(canvases[s])

(* The two maps of the registry agree: components are known of a surface   *)
(* only as long as somebody owns it (staging and commit of both).          *)
OnlyOwnedCanvases ==
    \A s \in Surfaces : canvases[s] # {} => owners[s] # NoOwner

(* No history of specialists' answers, of earlier versions of the plan, of *)
(* clearing or restoring makes the orchestrator unable to show an approval *)
(* canvas (reserved prefix, prepare_approval_a2ui_for_renderer).           *)
CanvasNeverRefused ==
    \A p \in PlanIds, cs \in Canvases :
        PlanTaken(CurrentRegistry, CanvasMessages(p, cs)).result = "ok"

SameSurface(before, after, s) ==
    before.owners[s] = after.owners[s] /\ before.canvases[s] = after.canvases[s]

(* The owner a user action was sent to is used when its answer comes, by   *)
(* when the surfaces may have been given to others: still an answer        *)
(* changes no surface of another owner, and no approval surface.           *)
SpecialistsStayOut ==
    [][\A c \in Calls : calls[c] # Idle /\ calls'[c] = Idle =>
          \A s \in Surfaces :
             s \in PlanIds \/ owners[s] \notin {NoOwner, Specialist(calls[c])}
             => SameSurface(CurrentRegistry, CurrentRegistry', s)]_rvars

LastMessage(answer, s) ==
    LET here == {i \in DOMAIN answer.messages : answer.messages[i].surface = s}
    IN  answer.messages[CHOOSE i \in here : \A j \in here : j <= i]

Touched(answer) ==
    {answer.messages[i].surface : i \in DOMAIN answer.messages} \ {Fallback}

(* An answer that deletes, creates and updates several surfaces leaves     *)
(* each of them as its last word on it says, or leaves all of them as they *)
(* were; all of it is kept when it is what the renderer gets               *)
(* (_register_specialist_response_surfaces,                                *)
(* _prepare_specialist_response_for_delivery).                             *)
AnswersWhole ==
    \A c \in Calls : calls[c] # Idle =>
       \A x \in Answers, readable \in BOOLEAN :
          LET after    == Handled(CurrentRegistry, x, calls[c], readable)
              Final(s) == IF LastMessage(x, s).kind = "delete"
                            THEN after.reg.owners[s] = NoOwner /\ after.reg.canvases[s] = {}
                            ELSE after.reg.owners[s] = Specialist(calls[c])
              Same(S)  == \A s \in S : SameSurface(CurrentRegistry, after.reg, s)
          IN  /\ Same(Surfaces \ (Touched(x) \cup {Fallback}))
              /\ \/ \A s \in Touched(x) : Final(s)
                 \/ after.sent # "answer" /\ Same(Touched(x))

(* A test says of a fallback that the surfaces of the answer it stands for *)
(* are not kept in the registry                                            *)
(* (test_specialist_user_action_invalid_a2ui_fallback_does_not_keep_stale_owner). *)
FallbackKeepsNothing ==
    \A c \in Calls : calls[c] # Idle =>
       \A x \in Answers, readable \in BOOLEAN :
          LET after == Handled(CurrentRegistry, x, calls[c], readable)
          IN  after.sent = "fallback" =>
                 \A s \in Touched(x) : SameSurface(CurrentRegistry, after.reg, s)
=============================================================================
