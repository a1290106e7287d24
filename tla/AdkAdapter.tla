----------------------------- MODULE AdkAdapter -----------------------------
(***************************************************************************)
(* AdkOrchestratorAdapter (orchestrator/agent.py): the ADK tools around    *)
(* one service, for one ADK session.                                       *)
(*                                                                         *)
(* An invocation works on the copy of the session state it loaded when it  *)
(* began, and its state changes are stored later, with its events.  So the *)
(* state a tool call finds may be older than what other invocations have   *)
(* done.  Every tool call runs under one lock: it restores the service     *)
(* from its copy, corrected by two caches the process keeps (decided plans *)
(* and newest drafts), performs one operation and exports the service back *)
(* into the copy.  The session store keeps the last state written.         *)
(***************************************************************************)
EXTENDS OrchestratorService

CONSTANTS Invocations,   \* invocations that may overlap
          Free,          \* the lock holder when nobody holds it
          Redact,        \* instruction text -> text after an export
          FreshSession,  \* TRUE: the session has no orchestrator state yet
          Crashes        \* TRUE: the process may crash and restart

ASSUME AdapterAssumption ==
    /\ Free \notin Invocations
    /\ Redact \in [Texts -> Texts]
    /\ FreshSession \in BOOLEAN
    /\ Crashes \in BOOLEAN

VARIABLES store,      \* session state held by the ADK session service
          calls,      \* invocation -> its phase, state copy and unsent canvases
          lock,       \* the invocation inside a tool call, or Free
          finals,     \* cache of decided plans
          newest,     \* cache of the newest drafts
          delivered,  \* history: canvases that reached the user
          decided,    \* history: plans rejected or executed successfully
          proposed    \* history: plan ids used, which are never drawn again

avars == <<svars, store, calls, lock, finals, newest, delivered, decided,
           proposed>>

(* present is FALSE for a session without orchestrator state (None).       *)
Snapshots == [present  : BOOLEAN,
              records  : [PlanIds -> Records],
              contexts : [PlanIds -> Contexts],
              surfaces : SUBSET PlanIds]

Entries == [record : Records, context : Contexts, surface : BOOLEAN]

Calls == [phase  : {"idle", "loaded", "written"},
          view   : Snapshots,
          outbox : SUBSET Canvases]

NoRecords  == [p \in PlanIds |-> NoRecord]
NoContexts == [p \in PlanIds |-> NoContext]

NoSnapshot == [present |-> FALSE, records |-> NoRecords,
               contexts |-> NoContexts, surfaces |-> {}]
NoEntry == [record |-> NoRecord, context |-> NoContext, surface |-> FALSE]
NoCache == [p \in PlanIds |-> NoEntry]
NoCall  == [phase |-> "idle", view |-> NoSnapshot, outbox |-> {}]

AInit == /\ SInit
         /\ store = [NoSnapshot EXCEPT !.present = ~ FreshSession]
         /\ calls = [i \in Invocations |-> NoCall]
         /\ lock = Free
         /\ finals = NoCache
         /\ newest = NoCache
         /\ delivered = {}
         /\ decided = {}
         /\ proposed = {}

-----------------------------------------------------------------------------
(* Export: every text is redacted on the way into the session state.       *)

RedactedStep(step) ==
    [step EXCEPT !.added = [k \in DOMAIN step.added |-> Redact[step.added[k]]]]

RedactedPlan(plan) ==
    [plan EXCEPT !.steps = [i \in DOMAIN plan.steps |-> RedactedStep(plan.steps[i])]]

RedactedRecord(rec)  == [rec EXCEPT !.draft = RedactedPlan(@),
                                    !.approved = RedactedPlan(@)]
RedactedContext(ctx) == [ctx EXCEPT !.draft = RedactedPlan(@),
                                    !.approved = RedactedPlan(@)]

Exported(recs, ctxs, surfs) ==
    [present  |-> TRUE,
     records  |-> [p \in PlanIds |-> RedactedRecord(recs[p])],
     contexts |-> [p \in PlanIds |-> RedactedContext(ctxs[p])],
     surfaces |-> surfs]

Entry(snap, p) == [record  |-> snap.records[p],
                   context |-> snap.contexts[p],
                   surface |-> p \in snap.surfaces]

-----------------------------------------------------------------------------
(* Restore: an incoming draft gives way to a decision this process knows   *)
(* of, and then to a strictly newer draft.                                 *)

(* Mutant: decisions of other invocations are ignored.                     *)
NeverDecidedEarlier(snap, p) == FALSE

DecidedEarlier(snap, p) == /\ snap.records[p].status = "draft"
                           /\ finals[p] # NoEntry

(* Mutant: the comparison of the versions is swapped.                      *)
EditedLater(snap, p) ==
    /\ snap.records[p].status = "draft"
    /\ newest[p].record.status = "draft"
    /\ newest[p].record.draft.version < snap.records[p].draft.version

EditedEarlier(snap, p) ==
    /\ snap.records[p].status = "draft"
    /\ newest[p].record.status = "draft"
    /\ newest[p].record.draft.version > snap.records[p].draft.version

(* The entry of p in a restored session.                                   *)
Merged(snap, p) ==
    CASE DecidedEarlier(snap, p) -> finals[p]
      [] EditedEarlier(snap, p) /\ ~ DecidedEarlier(snap, p) ->
           [newest[p] EXCEPT !.surface = @ \/ p \in snap.surfaces]
      [] OTHER -> Entry(snap, p)

(* Mutant: records are corrected, their contexts are not.                  *)
CorrectedRecords(snap) ==
    [present  |-> TRUE,
     records  |-> [p \in PlanIds |-> Merged(snap, p).record],
     contexts |-> snap.contexts,
     surfaces |-> {p \in PlanIds : Merged(snap, p).surface}]

Corrected(snap) ==
    [present  |-> TRUE,
     records  |-> [p \in PlanIds |-> Merged(snap, p).record],
     contexts |-> [p \in PlanIds |->
                      IF Merged(snap, p).context.exists
                        THEN Merged(snap, p).context ELSE snap.contexts[p]],
     surfaces |-> {p \in PlanIds : Merged(snap, p).surface}]

(* What a snapshot teaches the caches: a decision replaces the draft, and  *)
(* a draft no older than the cached one replaces it and any decision.      *)
IsFinal(rec) == rec.status \in Final

NoOlder(rec, p) == /\ rec.status = "draft"
                   /\ newest[p].record.draft.version <= rec.draft.version

(* Mutant: rejections are not remembered.                                  *)
LearntApprovals(snap) ==
    [p \in PlanIds |->
        CASE snap.records[p].status \in Approved -> Entry(snap, p)
          [] NoOlder(snap.records[p], p)         -> NoEntry
          [] OTHER                               -> finals[p]]

LearntFinals(snap) ==
    [p \in PlanIds |->
        CASE IsFinal(snap.records[p])    -> Entry(snap, p)
          [] NoOlder(snap.records[p], p) -> NoEntry
          [] OTHER                       -> finals[p]]

LearntNewest(snap) ==
    [p \in PlanIds |->
        CASE IsFinal(snap.records[p])    -> NoEntry
          [] NoOlder(snap.records[p], p) -> Entry(snap, p)
          [] OTHER                       -> newest[p]]

Learn(snap) == /\ finals' = LearntFinals(snap)
               /\ newest' = LearntNewest(snap)

-----------------------------------------------------------------------------
(* The session service loads the stored state for a new invocation.        *)
Begin(i) ==
    /\ calls[i].phase = "idle"
    /\ calls' = [calls EXCEPT ![i] = [NoCall EXCEPT !.phase = "loaded",
                                                    !.view = store]]
    /\ UNCHANGED <<svars, store, lock, finals, newest, delivered, decided,
                   proposed>>

LoadMemory(snap) == /\ records' = snap.records
                    /\ contexts' = snap.contexts
                    /\ surfaces' = snap.surfaces

(* A tool call takes the lock and restores the service.  Without session   *)
(* state it forgets what the caches know of the session.                   *)
Restore(i) ==
    /\ calls[i].phase # "idle"
    /\ lock = Free
    /\ lock' = i
    /\ IF calls[i].view.present
         THEN LET snap == Corrected(calls[i].view)
              IN  LoadMemory(snap) /\ Learn(snap)
         ELSE /\ LoadMemory(NoSnapshot)
              /\ finals' = NoCache
              /\ newest' = NoCache
    /\ UNCHANGED <<registry, shown, execs, kept, retired, store, calls,
                   delivered, decided, proposed>>

(* The operation of a tool call; a refused one changes nothing.  The user  *)
(* acts on canvases that were delivered, and a new plan id is fresh.       *)
Operation ==
    \/ \E p \in PlanIds \ proposed : ProposePlan(p)
    \/ \E p \in PlanIds, c \in delivered : \/ UserEdits(p, c)
                                           \/ UserApproves(p, c)
                                           \/ UserRejects(p, c)
    \/ UNCHANGED svars

(* Mutant: the canvas of a new draft is sent although it was refused.      *)
NewCanvasesRefused ==
    {[plan |-> p, body |-> records'[p].draft] :
        p \in {q \in PlanIds : records'[q].draft # records[q].draft}}

(* Plans this step shows, decides or creates.                              *)
NewCanvases ==
    {[plan |-> p, body |-> records'[p].draft] :
        p \in {q \in surfaces' : records'[q].draft # records[q].draft}}

NewDecisions == {p \in PlanIds : /\ records[p].status = "draft"
                                 /\ records'[p].status \in {"approved", "rejected"}}

NewPlans == {p \in PlanIds : /\ records[p].status = "none"
                             /\ records'[p].status # "none"}

(* The operation, its export and the release of the lock; failures are     *)
(* exported too.                                                           *)
Handle(i) ==
    /\ lock = i
    /\ Operation
    /\ LET snap == Exported(records', contexts', surfaces')
       IN  /\ Learn(snap)
           /\ calls' = [calls EXCEPT ![i].phase = "written",
                                     ![i].view = snap,
                                     ![i].outbox = @ \cup NewCanvases]
    /\ decided' = decided \cup NewDecisions
    /\ proposed' = proposed \cup NewPlans
    /\ lock' = Free
    /\ UNCHANGED <<store, delivered>>

(* The event of the finished tool calls is appended: its state replaces    *)
(* the stored one and its canvases reach the user.  The invocation goes on *)
(* or ends.                                                                *)
Commit(i) ==
    /\ calls[i].phase = "written"
    /\ lock # i
    /\ store' = calls[i].view
    /\ delivered' = delivered \cup calls[i].outbox
    /\ \E ends \in BOOLEAN :
          calls' = [calls EXCEPT ![i] =
              IF ends THEN NoCall
                      ELSE [@ EXCEPT !.phase = "loaded", !.outbox = {}]]
    /\ UNCHANGED <<svars, lock, finals, newest, decided, proposed>>

(* The process stops; only the session store is left.                      *)
Crash ==
    /\ Crashes
    /\ LoadMemory(NoSnapshot)
    /\ calls' = [i \in Invocations |-> NoCall]
    /\ lock' = Free
    /\ finals' = NoCache
    /\ newest' = NoCache
    /\ UNCHANGED <<registry, shown, execs, kept, retired, store, delivered,
                   decided, proposed>>

ANext == \/ \E i \in Invocations : \/ Begin(i) \/ Restore(i)
                                   \/ Handle(i) \/ Commit(i)
         \/ Crash

ASpec == AInit /\ [][ANext]_avars

-----------------------------------------------------------------------------
(* Correctness.                                                            *)

(* Every snapshot, cache entry and copy keeps its type, and every canvas   *)
(* the user has is one the store's emitter accepted.                       *)
AdapterTypeOK ==
    /\ ServiceTypeOK
    /\ store \in Snapshots
    /\ calls \in [Invocations -> Calls]
    /\ lock \in Invocations \cup {Free}
    /\ finals \in [PlanIds -> Entries]
    /\ newest \in [PlanIds -> Entries]
    /\ delivered \subseteq shown
    /\ decided \subseteq PlanIds
    /\ proposed \subseteq PlanIds

(* While the process lives, no tool call finds a decided plan open again,  *)
(* however old the session state of its invocation is                      *)
(* (_snapshot_preserving_finalized_plans).                                 *)
DecidedPlansStayClosed ==
    \A p \in decided : records[p].status \in Final \cup {"none"}

(* A tool call on a draft works on its newest version: an edit that the    *)
(* user was shown is never overwritten by one made on an older copy        *)
(* (_snapshot_preserving_latest_drafts).                                   *)
DraftsNeverRegress ==
    lock # Free =>
        \A c \in delivered : records[c.plan].status = "draft" =>
            c.body.version <= records[c.plan].draft.version

(* What any number of exports may make of a text: every set of texts that  *)
(* holds it and that an export does not leave.                             *)
Redactions(text) ==
    {t \in Texts : \A S \in SUBSET Texts :
                      text \in S /\ (\A u \in S : Redact[u] \in S) => t \in S}

(* reading is plan but for its added instructions, each of which exports   *)
(* may have redacted.                                                      *)
IsStepReading(reading, step) ==
    /\ reading = [step EXCEPT !.added = reading.added]
    /\ DOMAIN reading.added = DOMAIN step.added
    /\ \A k \in DOMAIN step.added : reading.added[k] \in Redactions(step.added[k])

IsReading(reading, plan) ==
    /\ reading = [plan EXCEPT !.steps = reading.steps]
    /\ DOMAIN reading.steps = DOMAIN plan.steps
    /\ \A i \in DOMAIN plan.steps : IsStepReading(reading.steps[i], plan.steps[i])

(* What runs is what the user saw, but for what exports redacted since:    *)
(* no instruction is another's, is lost, or is less redacted than shown,   *)
(* and nothing else of the plan differs, in whatever order stale copies    *)
(* come (_snapshot_preserving_latest_drafts, export_session_snapshot).     *)
ExecutedAsShownButRedacted ==
    \A i \in DOMAIN execs : IsReading(execs[i].ran, execs[i].seen)

(* The record of p as the caches know it, whatever the copies hold.        *)
CachedRecord(p) == IF finals[p] # NoEntry THEN finals[p].record
                                          ELSE newest[p].record

Session == INSTANCE PlanLifecycle WITH
    status  <- [p \in PlanIds |-> CachedRecord(p).status],
    version <- [p \in PlanIds |-> CachedRecord(p).draft.version],
    bound   <- [p \in PlanIds |-> CachedRecord(p).approvedVersion]

(* Seen through the caches, the tool calls of overlapping invocations are  *)
(* one life of each plan: a restore from a copy of any age is no step of   *)
(* it, and an operation is one step on from the newest version             *)
(* (_remember_finalized_plans, _remember_latest_drafts).                   *)
SessionImplementsLifecycle == Session!LSpec
=============================================================================
