-------------------------- MODULE AdkAdapter_proofs --------------------------
(***************************************************************************)
(* The adapter keeps a plan in many places at once: the service's memory,  *)
(* the stored session state, the copies of the invocations and two caches. *)
(* Each place holds the record, the context and the surface of the plan,   *)
(* and a restore mixes places.  It mixes whole entries, and every entry is *)
(* coherent by itself; the invariant says so of all places.                *)
(*                                                                         *)
(* That holds through crashes and for fresh sessions.  In a process that   *)
(* lives on the caches also keep every decision and the newest draft, and  *)
(* stale copies cannot undo either (second invariant, LInv).  Every copy   *)
(* of a version is then its canvas, further redacted (RInv), and the caches *)
(* see one history of each plan: the session implements the abstract       *)
(* lifecycle.                                                              *)
(***************************************************************************)
EXTENDS AdkAdapter, OrchestratorService_proofs

(* What the record, context and surface of one plan say of each other.     *)
Coherent(rec, ctx, surface) ==
    /\ FrozenIsDraft(rec)
    /\ rec.status = "draft" => ctx = NewContext(rec.draft)
    /\ ctx.approved # NoPlan => rec.status = "approved" /\ ctx.approved = rec.approved
    /\ rec.status # "approved_execution_failed"
    /\ rec.status # "none" => ctx.exists
    /\ surface => rec.status = "draft"

CoherentEntry(e) == Coherent(e.record, e.context, e.surface)

CoherentSnapshot(snap) == \A p \in PlanIds : CoherentEntry(Entry(snap, p))

CoherentMemory ==
    \A p \in PlanIds : Coherent(records[p], contexts[p], p \in surfaces)

(* A cache holds nothing of a plan, or an entry of its kind.               *)
DecisionEntry(e) == e # NoEntry => IsFinal(e.record) /\ CoherentEntry(e)
DraftEntry(e) == e # NoEntry => e.record.status = "draft" /\ CoherentEntry(e)

CachesSound ==
    \A p \in PlanIds : DecisionEntry(finals[p]) /\ DraftEntry(newest[p])

AInv == /\ AdapterTypeOK
        /\ CoherentMemory
        /\ CoherentSnapshot(store)
        /\ \A i \in Invocations : /\ CoherentSnapshot(calls[i].view)
                                  /\ calls[i].outbox \subseteq shown
        /\ CachesSound

-----------------------------------------------------------------------------
(* Export.                                                                 *)

(* Redaction rewrites texts and nothing else.                              *)
LEMMA RedactedPlans ==
    ASSUME NEW plan \in Plans
    PROVE  /\ RedactedPlan(plan) \in Plans
           /\ RedactedPlan(plan).version = plan.version
<1>1. ASSUME NEW s \in Steps
      PROVE  RedactedStep(s) \in Steps
  <2>1. s.added \in Seq(Texts)
    BY DEF Steps
  <2>2. [k \in DOMAIN s.added |-> Redact[s.added[k]]] \in Seq(Texts)
    BY <2>1, AdapterAssumption
  <2> QED
    BY <2>2 DEF Steps, RedactedStep
<1>2. plan.steps \in Seq(Steps)
  BY DEF Plans
<1>3. [i \in DOMAIN plan.steps |-> RedactedStep(plan.steps[i])] \in Seq(Steps)
  BY <1>1, <1>2
<1> QED
  BY <1>3 DEF RedactedPlan, Plans

(* The absent plan has no texts.                                           *)
LEMMA RedactedNoPlan == RedactedPlan(NoPlan) = NoPlan
<1>1. NoPlan.steps = <<>>
  BY DEF NoPlan
<1>2. [i \in DOMAIN <<>> |-> RedactedStep(<<>>[i])] = <<>>
  OBVIOUS
<1>3. RedactedPlan(NoPlan) = [NoPlan EXCEPT !.steps = <<>>]
  BY <1>1, <1>2 DEF RedactedPlan
<1> QED
  BY <1>3 DEF NoPlan

(* An export redacts the plans of a record and of a context, not the rest. *)
LEMMA RedactedParts ==
    ASSUME NEW rec \in Records, NEW ctx \in Contexts
    PROVE  /\ RedactedRecord(rec) \in Records
           /\ RedactedRecord(rec).status = rec.status
           /\ RedactedRecord(rec).draft = RedactedPlan(rec.draft)
           /\ RedactedRecord(rec).approved = RedactedPlan(rec.approved)
           /\ RedactedRecord(rec).approvedVersion = rec.approvedVersion
           /\ RedactedContext(ctx) = [exists   |-> ctx.exists,
                                      draft    |-> RedactedPlan(ctx.draft),
                                      approved |-> RedactedPlan(ctx.approved)]
           /\ RedactedContext(ctx) \in Contexts
<1>1. /\ RedactedPlan(rec.draft) \in Plans /\ RedactedPlan(rec.approved) \in Plans
      /\ RedactedPlan(ctx.draft) \in Plans /\ RedactedPlan(ctx.approved) \in Plans
  BY RedactedPlans DEF Records, Contexts
<1>2. RedactedContext(ctx) = [exists   |-> ctx.exists,
                              draft    |-> RedactedPlan(ctx.draft),
                              approved |-> RedactedPlan(ctx.approved)]
  <2>1. /\ RedactedContext(ctx) \in Contexts
        /\ RedactedContext(ctx).exists = ctx.exists
        /\ RedactedContext(ctx).draft = RedactedPlan(ctx.draft)
        /\ RedactedContext(ctx).approved = RedactedPlan(ctx.approved)
    BY <1>1 DEF RedactedContext, Contexts
  <2> QED
    BY <2>1 DEF Contexts
<1> QED
  BY <1>1, <1>2 DEF RedactedRecord, RedactedContext, Records, Contexts

(* The copies of one plan still agree after an export: all of them were    *)
(* redacted alike, and an absent plan stays absent.                        *)
LEMMA RedactedCoherent ==
    ASSUME NEW rec \in Records, NEW ctx \in Contexts, NEW surface,
           Coherent(rec, ctx, surface)
    PROVE  Coherent(RedactedRecord(rec), RedactedContext(ctx), surface)
<1> DEFINE r == RedactedRecord(rec)
           c == RedactedContext(ctx)
<1>1. /\ r.status = rec.status /\ r.approvedVersion = rec.approvedVersion
      /\ r.draft = RedactedPlan(rec.draft)
      /\ r.approved = RedactedPlan(rec.approved)
      /\ r.draft.version = rec.draft.version
  BY RedactedParts, RedactedPlans DEF Records
<1>2. /\ c = [exists |-> ctx.exists, draft |-> RedactedPlan(ctx.draft),
              approved |-> RedactedPlan(ctx.approved)]
      /\ c.exists = ctx.exists /\ c.approved = RedactedPlan(ctx.approved)
  BY RedactedParts
<1> HIDE DEF r, c
<1>3. FrozenIsDraft(r)
  BY <1>1, RedactedNoPlan DEF Coherent, FrozenIsDraft
<1>4. ASSUME r.status = "draft"
      PROVE  c = NewContext(r.draft)
  <2>1. ctx.exists = TRUE /\ ctx.draft = rec.draft /\ ctx.approved = NoPlan
    BY <1>1, <1>4 DEF Coherent, NewContext
  <2> QED
    BY <1>1, <1>2, <2>1, RedactedNoPlan DEF NewContext
<1>5. c.approved # NoPlan => r.status = "approved" /\ c.approved = r.approved
  BY <1>1, <1>2, RedactedNoPlan DEF Coherent
<1>6. /\ r.status # "approved_execution_failed"
      /\ r.status # "none" => c.exists
      /\ surface => r.status = "draft"
  BY <1>1, <1>2 DEF Coherent
<1> QED
  BY <1>3, <1>4, <1>5, <1>6 DEF Coherent, r, c

(* What is exported of a coherent service is a coherent snapshot.          *)
LEMMA ExportedSound ==
    ASSUME NEW recs \in [PlanIds -> Records], NEW ctxs \in [PlanIds -> Contexts],
           NEW surfs \in SUBSET PlanIds,
           \A p \in PlanIds : Coherent(recs[p], ctxs[p], p \in surfs)
    PROVE  /\ Exported(recs, ctxs, surfs) \in Snapshots
           /\ CoherentSnapshot(Exported(recs, ctxs, surfs))
<1> DEFINE snap == Exported(recs, ctxs, surfs)
<1>1. \A p \in PlanIds : /\ RedactedRecord(recs[p]) \in Records
                         /\ RedactedContext(ctxs[p]) \in Contexts
  BY RedactedParts
<1>2. snap \in Snapshots
  BY <1>1 DEF Exported, Snapshots
<1>3. ASSUME NEW p \in PlanIds
      PROVE  CoherentEntry(Entry(snap, p))
  <2>1. Entry(snap, p) = [record  |-> RedactedRecord(recs[p]),
                          context |-> RedactedContext(ctxs[p]),
                          surface |-> p \in surfs]
    BY DEF Exported, Entry
  <2>2. Coherent(RedactedRecord(recs[p]), RedactedContext(ctxs[p]), p \in surfs)
    BY RedactedCoherent
  <2> QED
    BY <2>1, <2>2 DEF CoherentEntry
<1> QED
  BY <1>2, <1>3 DEF CoherentSnapshot

-----------------------------------------------------------------------------
(* Restore.                                                                *)

CacheTypes == finals \in [PlanIds -> Entries] /\ newest \in [PlanIds -> Entries]

(* An entry of a snapshot has its type.                                    *)
LEMMA EntryType ==
    ASSUME NEW snap \in Snapshots, NEW p \in PlanIds
    PROVE  /\ Entry(snap, p) \in Entries
           /\ Entry(snap, p).record = snap.records[p]
           /\ Entry(snap, p).context = snap.contexts[p]
           /\ Entry(snap, p).surface = (p \in snap.surfaces)
BY DEF Entry, Entries, Snapshots

(* The absent entry is an entry, and nothing contradicts itself in it.     *)
LEMMA NoEntryType == NoEntry \in Entries /\ NoCache \in [PlanIds -> Entries]
<1>1. NoContext \in Contexts
  BY NoPlanType DEF NoContext, Contexts
<1> QED
  BY <1>1, NoRecordType DEF NoEntry, Entries, NoCache

(* A restore takes a plan from one place as a whole, its context included. *)
LEMMA CorrectedSound ==
    ASSUME NEW snap \in Snapshots, CoherentSnapshot(snap), CacheTypes, CachesSound
    PROVE  /\ Corrected(snap) \in Snapshots
           /\ CoherentSnapshot(Corrected(snap))
           /\ \A p \in PlanIds : Entry(Corrected(snap), p) = Merged(snap, p)
<1>1. ASSUME NEW p \in PlanIds
      PROVE  /\ Merged(snap, p) \in Entries
             /\ CoherentEntry(Merged(snap, p))
             /\ ~ Merged(snap, p).context.exists =>
                   Merged(snap, p).context = snap.contexts[p]
  <2>1. CASE DecidedEarlier(snap, p)
    <3>1. Merged(snap, p) = finals[p] /\ finals[p] # NoEntry
      BY <2>1 DEF Merged, DecidedEarlier
    <3>2. IsFinal(finals[p].record) /\ CoherentEntry(finals[p])
      BY <3>1 DEF CachesSound, DecisionEntry
    <3>3. finals[p].context.exists
      BY <3>2 DEF IsFinal, Final, Approved, CoherentEntry, Coherent
    <3> QED
      BY <3>1, <3>2, <3>3 DEF CacheTypes
  <2>2. CASE EditedEarlier(snap, p) /\ ~ DecidedEarlier(snap, p)
    <3>1. Merged(snap, p) = [newest[p] EXCEPT !.surface = @ \/ p \in snap.surfaces]
      BY <2>2 DEF Merged
    <3>2. newest[p].record.status = "draft"
      BY <2>2 DEF EditedEarlier
    <3>3. CoherentEntry(newest[p])
      BY <3>2 DEF CachesSound, DraftEntry, NoEntry, NoRecord
    <3>4. /\ Merged(snap, p).record = newest[p].record
          /\ Merged(snap, p).context = newest[p].context
          /\ Merged(snap, p) \in Entries
      BY <3>1 DEF CacheTypes, Entries
    <3>5. newest[p].context.exists
      BY <3>2, <3>3 DEF CoherentEntry, Coherent
    <3>6. CoherentEntry(Merged(snap, p))
      BY <3>2, <3>3, <3>4 DEF CoherentEntry, Coherent
    <3> QED
      BY <3>4, <3>5, <3>6
  <2>3. CASE ~ DecidedEarlier(snap, p) /\ ~ EditedEarlier(snap, p)
    <3>1. Merged(snap, p) = Entry(snap, p)
      BY <2>3 DEF Merged
    <3> QED
      BY <3>1, EntryType DEF CoherentSnapshot
  <2> QED
    BY <2>1, <2>2, <2>3
<1>2. ASSUME NEW p \in PlanIds
      PROVE  /\ Corrected(snap).records[p] = Merged(snap, p).record
             /\ Corrected(snap).contexts[p] = Merged(snap, p).context
             /\ p \in Corrected(snap).surfaces <=> Merged(snap, p).surface
  BY <1>1 DEF Corrected
<1>3. Corrected(snap) \in Snapshots
  <2>1. \A p \in PlanIds : /\ Merged(snap, p).record \in Records
                           /\ Merged(snap, p).context \in Contexts
                           /\ snap.contexts[p] \in Contexts
    BY <1>1 DEF Entries, Snapshots
  <2> QED
    BY <2>1 DEF Corrected, Snapshots
<1>4. ASSUME NEW p \in PlanIds
      PROVE  Entry(Corrected(snap), p) = Merged(snap, p)
  <2>1. Merged(snap, p) = [record  |-> Merged(snap, p).record,
                           context |-> Merged(snap, p).context,
                           surface |-> Merged(snap, p).surface]
    BY <1>1 DEF Entries
  <2>2. Merged(snap, p).surface \in BOOLEAN
    BY <1>1 DEF Entries
  <2>3. (p \in Corrected(snap).surfaces) = Merged(snap, p).surface
    BY <1>2, <2>2
  <2> QED
    BY <1>2, <2>1, <2>3 DEF Entry
<1> QED
  BY <1>1, <1>3, <1>4 DEF CoherentSnapshot

(* A coherent snapshot teaches the caches coherent entries.                *)
LEMMA LearnSound ==
    ASSUME NEW snap \in Snapshots, CoherentSnapshot(snap), CacheTypes, CachesSound,
           Learn(snap)
    PROVE  CacheTypes' /\ CachesSound'
<1>1. ASSUME NEW p \in PlanIds
      PROVE  /\ \/ finals'[p] = Entry(snap, p) /\ IsFinal(snap.records[p])
                \/ finals'[p] = NoEntry
                \/ finals'[p] = finals[p]
             /\ \/ newest'[p] = Entry(snap, p) /\ snap.records[p].status = "draft"
                \/ newest'[p] = NoEntry
                \/ newest'[p] = newest[p]
  BY DEF Learn, LearntFinals, LearntNewest, NoOlder
<1>2. /\ finals' = [p \in PlanIds |-> finals'[p]]
      /\ newest' = [p \in PlanIds |-> newest'[p]]
  BY DEF Learn, LearntFinals, LearntNewest
<1>3. CacheTypes'
  BY <1>1, <1>2, EntryType, NoEntryType DEF CacheTypes
<1>4. ASSUME NEW p \in PlanIds
      PROVE  DecisionEntry(finals'[p]) /\ DraftEntry(newest'[p])
  <2>1. CoherentEntry(Entry(snap, p)) /\ Entry(snap, p).record = snap.records[p]
    BY EntryType DEF CoherentSnapshot
  <2>2. /\ IsFinal(snap.records[p]) => DecisionEntry(Entry(snap, p))
        /\ snap.records[p].status = "draft" => DraftEntry(Entry(snap, p))
    BY <2>1 DEF DecisionEntry, DraftEntry
  <2>3. DecisionEntry(NoEntry) /\ DraftEntry(NoEntry)
    BY DEF DecisionEntry, DraftEntry
  <2>4. DecisionEntry(finals[p]) /\ DraftEntry(newest[p])
    BY DEF CachesSound
  <2>5. DecisionEntry(finals'[p])
    BY <1>1, <2>2, <2>3, <2>4
  <2>6. DraftEntry(newest'[p])
    BY <1>1, <2>2, <2>3, <2>4
  <2> QED
    BY <2>5, <2>6
<1>5. CachesSound'
  BY <1>4 DEF CachesSound
<1> QED
  BY <1>3, <1>5

-----------------------------------------------------------------------------
(* Operations.                                                             *)

(* An operation changes one plan: it drafts it, makes the next version of  *)
(* the draft, or decides it.                                               *)
Changed(p, rec, ctx, surface) ==
    /\ records' = [records EXCEPT ![p] = rec]
    /\ contexts' = [contexts EXCEPT ![p] = ctx]
    /\ surfaces' = IF surface THEN surfaces \cup {p} ELSE surfaces \ {p}

Drafted(p, rec)  == /\ records[p].status = "none" /\ p \notin proposed
                    /\ rec.status = "draft" /\ rec.draft.version # 0
Advanced(p, rec) == /\ records[p].status = "draft" /\ rec.status = "draft"
                    /\ rec.draft.version = records[p].draft.version + 1
Settled(p, rec)  == /\ records[p].status = "draft" /\ rec.draft = records[p].draft
                    /\ rec.status \in {"approved", "rejected"}

OneChange ==
    \E p \in PlanIds, rec \in Records, ctx \in Contexts, surface \in BOOLEAN :
       /\ Changed(p, rec, ctx, surface)
       /\ Coherent(rec, ctx, surface)
       /\ Drafted(p, rec) \/ Advanced(p, rec) \/ Settled(p, rec)
       /\ surface /\ rec.draft # records[p].draft
             => [plan |-> p, body |-> rec.draft] \in shown'

(* An execution that succeeds decides its plan.                            *)
Executed ==
    \/ execs' = execs
    \/ \E e \in Executions : /\ execs' = Append(execs, e)
                             /\ e.ok => /\ records[e.plan].status = "draft"
                                        /\ records'[e.plan].status = "approved"

Outcome ==
    /\ UNCHANGED <<registry, kept, retired>>
    /\ shown \subseteq shown' /\ shown' \subseteq Canvases
    /\ UNCHANGED <<records, contexts, surfaces>> \/ OneChange
    /\ Executed

(* Every operation, refused or not, is one of these.                       *)
LEMMA OperationCases ==
    ASSUME ServiceTypeOK, CoherentMemory, delivered \subseteq shown, Operation
    PROVE  Outcome
<1>1. /\ records \in [PlanIds -> Records] /\ contexts \in [PlanIds -> Contexts]
      /\ surfaces \subseteq PlanIds /\ shown \subseteq Canvases
      /\ execs \in Seq(Executions) /\ registry \subseteq Agents
  BY DEF ServiceTypeOK, TypeOK
<1>2. DraftsKept
  <2>1. FrozenPlanIsDraft
    BY DEF CoherentMemory, Coherent, FrozenPlanIsDraft, FrozenIsDraft
  <2>2. ContextTracksDraft
    BY DEF CoherentMemory, Coherent, ContextTracksDraft
  <2> QED
    BY <2>1, <2>2 DEF DraftsKept
<1>3. ASSUME NEW p \in PlanIds \ proposed, ProposePlan(p)
      PROVE  Outcome
  <2>1. PICK d \in NewDrafts, canvasOk \in BOOLEAN :
          /\ records' = [records EXCEPT ![p] = DraftRecord(d)]
          /\ contexts' = [contexts EXCEPT ![p] = NewContext(d)]
          /\ surfaces' = IF canvasOk THEN surfaces \cup {p} ELSE surfaces
          /\ shown' = IF canvasOk THEN shown \cup {[plan |-> p, body |-> d]}
                                  ELSE shown
    BY <1>3 DEF ProposePlan
  <2>2. /\ d \in Plans /\ d.version # 0
        /\ records[p].status = "none" /\ p \notin surfaces
        /\ UNCHANGED <<registry, execs, kept, retired>>
    BY <1>3, StoreAssumption DEF ProposePlan, CoherentMemory, Coherent
  <2>3. /\ DraftRecord(d) \in Records
        /\ DraftRecord(d).status = "draft" /\ DraftRecord(d).draft = d
        /\ DraftRecord(d).approved = NoPlan /\ DraftRecord(d).approvedVersion = 0
    BY <2>2, DraftRecordType DEF DraftRecord, NoRecord
  <2>4. /\ NewContext(d) \in Contexts
        /\ NewContext(d).exists /\ NewContext(d).approved = NoPlan
    BY <2>2, NoPlanType DEF NewContext, Contexts
  <2>5. Coherent(DraftRecord(d), NewContext(d), canvasOk)
    BY <2>3, <2>4 DEF Coherent, FrozenIsDraft, Approved
  <2>6. Changed(p, DraftRecord(d), NewContext(d), canvasOk)
    <3>1. surfaces' = IF canvasOk THEN surfaces \cup {p} ELSE surfaces \ {p}
      BY <2>1, <2>2
    <3> QED
      BY <2>1, <3>1 DEF Changed
  <2>7. Drafted(p, DraftRecord(d))
    BY <1>3, <2>2, <2>3 DEF Drafted
  <2>8. canvasOk => [plan |-> p, body |-> DraftRecord(d).draft] \in shown'
    BY <2>1, <2>3
  <2>9. OneChange
    BY <2>3, <2>4, <2>5, <2>6, <2>7, <2>8 DEF OneChange
  <2>10. shown' \subseteq Canvases /\ shown \subseteq shown'
    BY <1>1, <2>1, <2>2 DEF Canvases
  <2> QED
    BY <2>2, <2>9, <2>10 DEF Outcome, Executed
<1>4. ASSUME NEW p \in PlanIds, Edited(p)
      PROVE  Outcome
  <2>1. PICK next \in Plans :
          /\ next.version = records[p].draft.version + 1
          /\ records' = [records EXCEPT ![p] = [@ EXCEPT !.draft = next]]
          /\ shown' = shown \cup {[plan |-> p, body |-> next]}
    BY <1>4 DEF Edited, Mutated
  <2>2. /\ p \in surfaces /\ records[p].status = "draft"
        /\ UNCHANGED <<surfaces, registry, execs, kept, retired>>
        /\ contexts' = [contexts EXCEPT ![p] = NewContext(records'[p].draft)]
    BY <1>4 DEF Edited, Mutated
  <2> DEFINE rec == [records[p] EXCEPT !.draft = next]
  <2>3. /\ rec \in Records
        /\ rec.status = "draft" /\ rec.draft = next
        /\ rec.approved = records[p].approved
        /\ rec.approvedVersion = records[p].approvedVersion
        /\ records' = [records EXCEPT ![p] = rec]
    BY <1>1, <2>1, <2>2 DEF Records
  <2> HIDE DEF rec
  <2>4. /\ NewContext(next) \in Contexts
        /\ NewContext(next).exists /\ NewContext(next).approved = NoPlan
        /\ contexts' = [contexts EXCEPT ![p] = NewContext(next)]
    BY <1>1, <2>2, <2>3, NoPlanType DEF NewContext, Contexts
  <2>5. Coherent(rec, NewContext(next), TRUE)
    <3>1. records[p].approved = NoPlan /\ records[p].approvedVersion = 0
      BY <2>2 DEF CoherentMemory, Coherent, FrozenIsDraft, Approved
    <3> QED
      BY <2>3, <2>4, <3>1 DEF Coherent, FrozenIsDraft, Approved
  <2>6. Changed(p, rec, NewContext(next), TRUE)
    BY <2>2, <2>3, <2>4 DEF Changed
  <2>7. Advanced(p, rec)
    BY <2>1, <2>2, <2>3 DEF Advanced
  <2>8. [plan |-> p, body |-> rec.draft] \in shown'
    BY <2>1, <2>3
  <2>9. OneChange
    BY <2>3, <2>4, <2>5, <2>6, <2>7, <2>8 DEF OneChange
  <2>10. shown' \subseteq Canvases /\ shown \subseteq shown'
    BY <1>1, <2>1 DEF Canvases
  <2> QED
    BY <2>2, <2>9, <2>10 DEF Outcome, Executed
<1>5. ASSUME NEW p \in PlanIds, NEW c \in shown, Succeeded(p, c)
      PROVE  Outcome
  <2> DEFINE rec == Frozen(records[p], "approved")
             ctx == Opened(contexts[p], records[p].draft)
             e == [plan |-> p, seen |-> c.body, ran |-> records[p].draft,
                   known |-> registry, ok |-> TRUE]
  <2>1. /\ p \in surfaces /\ records[p].status = "draft"
        /\ records' = [records EXCEPT ![p] = rec]
        /\ contexts' = [contexts EXCEPT ![p] = ctx]
        /\ surfaces' = surfaces \ {p}
        /\ UNCHANGED <<registry, shown, kept, retired>>
        /\ execs' = Append(execs, e)
    BY <1>5 DEF Succeeded
  <2>2. /\ rec \in Records /\ rec.status = "approved"
        /\ rec.draft = records[p].draft /\ rec.approved = records[p].draft
        /\ rec.approvedVersion = records[p].draft.version
    BY <1>1, FrozenType DEF Frozen, Records, Approved
  <2>3. ctx \in Contexts /\ ctx.approved = records[p].draft /\ ctx.exists
    <3>1. contexts[p].exists
      BY <2>1 DEF CoherentMemory, Coherent
    <3> QED
      BY <1>1, <3>1 DEF Opened, Contexts, Records
  <2>4. e \in Executions /\ e.plan = p
    BY <1>1 DEF Executions, Canvases, Records
  <2> HIDE DEF rec, ctx, e
  <2>5. Coherent(rec, ctx, FALSE)
    BY <2>2, <2>3 DEF Coherent, FrozenIsDraft, Approved
  <2>6. Changed(p, rec, ctx, FALSE) /\ Settled(p, rec)
    BY <2>1, <2>2 DEF Changed, Settled
  <2>7. OneChange
    BY <2>2, <2>3, <2>5, <2>6 DEF OneChange
  <2>8. Executed
    BY <1>1, <2>1, <2>2, <2>4 DEF Executed
  <2> QED
    BY <1>1, <2>1, <2>7, <2>8 DEF Outcome
<1>6. ASSUME NEW p \in PlanIds, NEW c \in shown, Failed(p, c)
      PROVE  Outcome
  <2> DEFINE e == [plan |-> p, seen |-> c.body, ran |-> records[p].draft,
                   known |-> registry, ok |-> FALSE]
  <2>1. e \in Executions /\ e.ok = FALSE
    BY <1>1 DEF Executions, Canvases, Records
  <2>2. execs' = Append(execs, e)
    BY <1>6 DEF Failed
  <2> HIDE DEF e
  <2>3. Executed
    BY <2>1, <2>2 DEF Executed
  <2> QED
    BY <1>1, <1>6, <2>3 DEF Failed, Outcome
<1>7. ASSUME NEW p \in PlanIds, NEW c \in shown, UserRejects(p, c)
      PROVE  Outcome
  <2> DEFINE rec == [records[p] EXCEPT !.status = "rejected"]
  <2>1. /\ p \in surfaces /\ records[p].status = "draft"
        /\ records' = [records EXCEPT ![p] = rec]
        /\ surfaces' = surfaces \ {p}
        /\ UNCHANGED <<contexts, registry, shown, execs, kept, retired>>
    BY <1>7 DEF UserRejects, Reject
  <2>2. /\ rec \in Records /\ rec.status = "rejected"
        /\ rec.draft = records[p].draft
        /\ rec.approved = records[p].approved
        /\ rec.approvedVersion = records[p].approvedVersion
    BY <1>1 DEF Records, Statuses
  <2> HIDE DEF rec
  <2>3. /\ contexts[p] = NewContext(records[p].draft)
        /\ records[p].approved = NoPlan /\ records[p].approvedVersion = 0
    BY <2>1 DEF CoherentMemory, Coherent, FrozenIsDraft, Approved
  <2>4. contexts[p].exists /\ contexts[p].approved = NoPlan
    BY <2>3 DEF NewContext
  <2>5. Coherent(rec, contexts[p], FALSE)
    BY <2>2, <2>3, <2>4 DEF Coherent, FrozenIsDraft, Approved
  <2>6. contexts' = [contexts EXCEPT ![p] = contexts[p]] /\ contexts[p] \in Contexts
    BY <1>1, <2>1
  <2>7. Changed(p, rec, contexts[p], FALSE) /\ Settled(p, rec)
    BY <2>1, <2>2, <2>6 DEF Changed, Settled
  <2>8. OneChange
    BY <2>2, <2>5, <2>6, <2>7 DEF OneChange
  <2> QED
    BY <1>1, <2>1, <2>8 DEF Outcome, Executed
<1>8. CASE UNCHANGED svars
  BY <1>1, <1>8 DEF svars, vars, Outcome, Executed
<1> QED
  BY <1>2, <1>3, <1>4, <1>5, <1>6, <1>7, <1>8, EditsKeepContexts,
     ApprovalsSucceedOrFail DEF Operation

(* After an operation every plan is coherent, and what is new on a surface *)
(* has been shown.                                                         *)
LEMMA OutcomeSound ==
    ASSUME ServiceTypeOK, CoherentMemory, Outcome
    PROVE  /\ ServiceTypeOK' /\ CoherentMemory'
           /\ NewCanvases \subseteq shown'
<1>1. /\ records \in [PlanIds -> Records] /\ contexts \in [PlanIds -> Contexts]
      /\ surfaces \subseteq PlanIds /\ execs \in Seq(Executions)
      /\ registry \subseteq Agents
      /\ kept \in KeptSurfaces /\ retired \subseteq PlanIds
  BY DEF ServiceTypeOK, TypeOK
<1>2. /\ execs' \in Seq(Executions)
      /\ registry' \subseteq Agents /\ shown' \subseteq Canvases
      /\ kept' \in KeptSurfaces /\ retired' \subseteq PlanIds
  BY <1>1 DEF Outcome, Executed
<1>3. CASE UNCHANGED <<records, contexts, surfaces>>
  <2>1. NewCanvases = {}
    BY <1>3 DEF NewCanvases
  <2> QED
    BY <1>1, <1>2, <1>3, <2>1 DEF ServiceTypeOK, TypeOK, CoherentMemory
<1>4. CASE OneChange
  <2>1. PICK p \in PlanIds, rec \in Records, ctx \in Contexts, surface \in BOOLEAN :
          /\ Changed(p, rec, ctx, surface)
          /\ Coherent(rec, ctx, surface)
          /\ surface /\ rec.draft # records[p].draft
                => [plan |-> p, body |-> rec.draft] \in shown'
    BY <1>4 DEF OneChange
  <2>2. /\ records' \in [PlanIds -> Records] /\ contexts' \in [PlanIds -> Contexts]
        /\ surfaces' \subseteq PlanIds
        /\ records'[p] = rec /\ contexts'[p] = ctx /\ (p \in surfaces') = surface
        /\ \A q \in PlanIds \ {p} : /\ records'[q] = records[q]
                                    /\ contexts'[q] = contexts[q]
                                    /\ (q \in surfaces') = (q \in surfaces)
    BY <1>1, <2>1 DEF Changed
  <2>3. ASSUME NEW q \in PlanIds
        PROVE  Coherent(records'[q], contexts'[q], q \in surfaces')
    <3>1. CASE q = p
      BY <2>1, <2>2, <3>1
    <3>2. CASE q # p
      BY <2>2, <3>2 DEF CoherentMemory
    <3> QED
      BY <3>1, <3>2
  <2>4. NewCanvases \subseteq shown'
    BY <2>1, <2>2 DEF NewCanvases
  <2> QED
    BY <1>2, <2>2, <2>3, <2>4 DEF ServiceTypeOK, TypeOK, CoherentMemory
<1> QED
  BY <1>3, <1>4 DEF Outcome

-----------------------------------------------------------------------------
(* The invariant.                                                          *)

(* Nothing contradicts itself where there is nothing.                      *)
LEMMA EmptyPlaces ==
    /\ NoSnapshot \in Snapshots /\ CoherentSnapshot(NoSnapshot)
    /\ [NoSnapshot EXCEPT !.present = ~ FreshSession] \in Snapshots
    /\ CoherentSnapshot([NoSnapshot EXCEPT !.present = ~ FreshSession])
    /\ NoCall \in Calls /\ NoCall.view = NoSnapshot /\ NoCall.outbox = {}
    /\ \A p \in PlanIds : Coherent(NoRecord, NoContext, p \in {})
<1>1. NoContext \in Contexts /\ NoRecord \in Records
  BY NoPlanType, NoRecordType DEF NoContext, Contexts
<1>2. \A p \in PlanIds : Coherent(NoRecord, NoContext, p \in {})
  BY DEF Coherent, FrozenIsDraft, NoRecord, NoContext, Approved
<1>3. NoSnapshot \in Snapshots
  BY <1>1 DEF NoSnapshot, Snapshots, NoRecords, NoContexts
<1>4. ASSUME NEW b \in BOOLEAN, NEW snap,
             snap = [present |-> b, records |-> NoRecords,
                     contexts |-> NoContexts, surfaces |-> {}]
      PROVE  CoherentSnapshot(snap)
  <2>1. ASSUME NEW p \in PlanIds
        PROVE  Entry(snap, p) = [record |-> NoRecord, context |-> NoContext,
                                 surface |-> p \in {}]
    BY <1>4 DEF Entry, NoRecords, NoContexts
  <2>2. ASSUME NEW p \in PlanIds, NEW e,
               e = [record |-> NoRecord, context |-> NoContext, surface |-> p \in {}]
        PROVE  CoherentEntry(e)
    <3>1. e.record = NoRecord /\ e.context = NoContext /\ e.surface = (p \in {})
      BY <2>2
    <3> QED
      BY <1>2, <3>1 DEF CoherentEntry
  <2> QED
    BY <2>1, <2>2 DEF CoherentSnapshot
<1>5. [NoSnapshot EXCEPT !.present = ~ FreshSession]
        = [present |-> ~ FreshSession, records |-> NoRecords,
           contexts |-> NoContexts, surfaces |-> {}]
  BY DEF NoSnapshot
<1>6. [NoSnapshot EXCEPT !.present = ~ FreshSession] \in Snapshots
  BY <1>1, <1>5 DEF Snapshots, NoRecords, NoContexts
<1> QED
  BY <1>2, <1>3, <1>4, <1>5, <1>6 DEF NoSnapshot, NoCall, Calls

(* A session without plans satisfies the invariant.                        *)
LEMMA AInvInit == AInit => AInv
<1> SUFFICES ASSUME AInit
             PROVE  AInv
  OBVIOUS
<1>1. SInv
  BY SInvInit DEF AInit
<1>2. records = NoRecords /\ contexts = NoContexts /\ surfaces = {}
  BY DEF AInit, SInit, Init, NoRecords, NoContexts
<1>3. CoherentMemory
  <2>1. \A p \in PlanIds : /\ records[p] = NoRecord /\ contexts[p] = NoContext
                           /\ (p \in surfaces) = (p \in {})
    BY <1>2 DEF NoRecords, NoContexts
  <2> QED
    BY <2>1, EmptyPlaces DEF CoherentMemory
<1>4. CachesSound
  BY DEF AInit, CachesSound, DecisionEntry, DraftEntry, NoCache
<1> QED
  BY <1>1, <1>3, <1>4, EmptyPlaces, NoEntryType
     DEF AInit, AInv, AdapterTypeOK, SInv

(* One step per action of the adapter.                                     *)
LEMMA AInvNext == AInv /\ [ANext]_avars => AInv'
<1> SUFFICES ASSUME AInv, [ANext]_avars
             PROVE  AInv'
  OBVIOUS
<1>0. /\ ServiceTypeOK /\ CoherentMemory /\ CacheTypes /\ CachesSound
      /\ store \in Snapshots /\ CoherentSnapshot(store)
      /\ calls \in [Invocations -> Calls]
      /\ \A i \in Invocations : /\ calls[i].view \in Snapshots
                                /\ CoherentSnapshot(calls[i].view)
                                /\ calls[i].outbox \subseteq shown
      /\ lock \in Invocations \cup {Free}
      /\ delivered \subseteq shown /\ decided \subseteq PlanIds
      /\ proposed \subseteq PlanIds
  BY DEF AInv, AdapterTypeOK, CacheTypes, Calls
<1>1. CASE UNCHANGED avars
  BY <1>1 DEF avars, svars, vars, AInv, AdapterTypeOK, ServiceTypeOK, TypeOK,
     CoherentMemory, CachesSound
<1>2. ASSUME NEW i \in Invocations, Begin(i)
      PROVE  AInv'
  <2> DEFINE call == [NoCall EXCEPT !.phase = "loaded", !.view = store]
  <2>1. /\ calls' = [calls EXCEPT ![i] = call]
        /\ UNCHANGED <<svars, store, lock, finals, newest, delivered, decided,
                       proposed>>
    BY <1>2 DEF Begin
  <2>2. call \in Calls /\ call.view = store /\ call.outbox = {}
    BY <1>0, EmptyPlaces DEF Calls
  <2> HIDE DEF call
  <2>3. /\ calls' \in [Invocations -> Calls]
        /\ \A j \in Invocations : /\ CoherentSnapshot(calls'[j].view)
                                  /\ calls'[j].outbox \subseteq shown'
    BY <1>0, <2>1, <2>2 DEF svars, vars
  <2> QED
    BY <2>1, <2>3 DEF svars, vars, AInv, AdapterTypeOK, ServiceTypeOK, TypeOK,
       CoherentMemory, CachesSound
<1>3. ASSUME NEW i \in Invocations, Restore(i), calls[i].view.present
      PROVE  AInv'
  <2> DEFINE snap == Corrected(calls[i].view)
  <2>1. LoadMemory(snap) /\ Learn(snap) /\ lock' = i
        /\ UNCHANGED <<registry, shown, execs, kept, retired, store, calls,
                       delivered, decided, proposed>>
    BY <1>3 DEF Restore
  <2>2. snap \in Snapshots /\ CoherentSnapshot(snap)
    BY <1>0, CorrectedSound
  <2> HIDE DEF snap
  <2>3. CacheTypes' /\ CachesSound'
    BY <1>0, <2>1, <2>2, LearnSound
  <2>4. ServiceTypeOK' /\ CoherentMemory'
    <3>1. /\ records' \in [PlanIds -> Records] /\ contexts' \in [PlanIds -> Contexts]
          /\ surfaces' \subseteq PlanIds
      BY <2>1, <2>2 DEF LoadMemory, Snapshots
    <3>2. \A p \in PlanIds : Coherent(records'[p], contexts'[p], p \in surfaces')
      BY <2>1, <2>2 DEF LoadMemory, CoherentSnapshot, CoherentEntry, Entry
    <3> QED
      BY <1>0, <2>1, <3>1, <3>2 DEF ServiceTypeOK, TypeOK, CoherentMemory
  <2> QED
    BY <1>0, <2>1, <2>3, <2>4 DEF AInv, AdapterTypeOK, CacheTypes
<1>4. ASSUME LoadMemory(NoSnapshot), finals' = NoCache, newest' = NoCache
      PROVE  /\ CacheTypes' /\ CachesSound'
             /\ UNCHANGED <<registry, shown, execs, kept, retired>> => ServiceTypeOK'
             /\ CoherentMemory'
  <2>1. CacheTypes' /\ CachesSound'
    BY <1>4, NoEntryType DEF CacheTypes, CachesSound, DecisionEntry, DraftEntry, NoCache
  <2>2. records' = NoRecords /\ contexts' = NoContexts /\ surfaces' = {}
    BY <1>4 DEF LoadMemory, NoSnapshot
  <2>3. CoherentMemory'
    <3>1. \A p \in PlanIds : /\ records'[p] = NoRecord /\ contexts'[p] = NoContext
                             /\ (p \in surfaces') = (p \in {})
      BY <2>2 DEF NoRecords, NoContexts
    <3> QED
      BY <3>1, EmptyPlaces DEF CoherentMemory
  <2>4. NoRecords \in [PlanIds -> Records] /\ NoContexts \in [PlanIds -> Contexts]
    BY EmptyPlaces DEF Snapshots, NoSnapshot
  <2>5. UNCHANGED <<registry, shown, execs, kept, retired>> => ServiceTypeOK'
    BY <1>0, <2>2, <2>4 DEF ServiceTypeOK, TypeOK
  <2> QED
    BY <2>1, <2>3, <2>5
<1>5. ASSUME NEW i \in Invocations, Restore(i), ~ calls[i].view.present
      PROVE  AInv'
  <2>1. /\ LoadMemory(NoSnapshot) /\ finals' = NoCache /\ newest' = NoCache
        /\ lock' = i
        /\ UNCHANGED <<registry, shown, execs, kept, retired, store, calls,
                       delivered, decided, proposed>>
    BY <1>5 DEF Restore
  <2> QED
    BY <1>0, <1>4, <2>1 DEF AInv, AdapterTypeOK, CacheTypes
<1>6. ASSUME NEW i \in Invocations, Handle(i)
      PROVE  AInv'
  <2> DEFINE snap == Exported(records', contexts', surfaces')
             call == [calls[i] EXCEPT !.phase = "written", !.view = snap,
                                      !.outbox = @ \cup NewCanvases]
  <2>1. /\ Operation /\ Learn(snap)
        /\ calls' = [calls EXCEPT ![i] = call]
        /\ decided' = decided \cup NewDecisions
        /\ proposed' = proposed \cup NewPlans
        /\ lock' = Free /\ UNCHANGED <<store, delivered>>
    BY <1>6 DEF Handle
  <2>2. Outcome
    BY <1>0, <2>1, OperationCases
  <2>3. ServiceTypeOK' /\ CoherentMemory' /\ NewCanvases \subseteq shown'
    BY <1>0, <2>2, OutcomeSound
  <2>4. snap \in Snapshots /\ CoherentSnapshot(snap)
    <3>1. /\ records' \in [PlanIds -> Records] /\ contexts' \in [PlanIds -> Contexts]
          /\ surfaces' \in SUBSET PlanIds
      BY <2>3 DEF ServiceTypeOK, TypeOK
    <3>2. \A p \in PlanIds : Coherent(records'[p], contexts'[p], p \in surfaces')
      BY <2>3 DEF CoherentMemory
    <3> QED
      BY <3>1, <3>2, ExportedSound
  <2> HIDE DEF snap
  <2>5. CacheTypes' /\ CachesSound'
    BY <1>0, <2>1, <2>4, LearnSound
  <2>6. /\ call \in Calls /\ call.view = snap
        /\ call.outbox = calls[i].outbox \cup NewCanvases
    <3>1. calls[i].outbox \cup NewCanvases \subseteq Canvases
      BY <1>0, <2>3 DEF ServiceTypeOK, TypeOK, Calls
    <3> QED
      BY <1>0, <2>4, <3>1 DEF Calls
  <2> HIDE DEF call
  <2>7. shown \subseteq shown'
    BY <2>2 DEF Outcome
  <2>8. /\ calls' \in [Invocations -> Calls]
        /\ \A j \in Invocations : /\ CoherentSnapshot(calls'[j].view)
                                  /\ calls'[j].outbox \subseteq shown'
    BY <1>0, <2>1, <2>3, <2>4, <2>6, <2>7
  <2>9. /\ decided' \subseteq PlanIds /\ proposed' \subseteq PlanIds
        /\ delivered' \subseteq shown'
    BY <1>0, <2>1, <2>7 DEF NewDecisions, NewPlans
  <2> QED
    BY <1>0, <2>1, <2>3, <2>5, <2>8, <2>9 DEF AInv, AdapterTypeOK, CacheTypes
<1>7. ASSUME NEW i \in Invocations, Commit(i)
      PROVE  AInv'
  <2>1. /\ store' = calls[i].view
        /\ delivered' = delivered \cup calls[i].outbox
        /\ UNCHANGED <<svars, lock, finals, newest, decided, proposed>>
    BY <1>7 DEF Commit
  <2>2. PICK call \in Calls : /\ calls' = [calls EXCEPT ![i] = call]
                              /\ call.view \in {NoSnapshot, calls[i].view}
                              /\ call.outbox = {}
    <3>1. PICK ends \in BOOLEAN :
             calls' = [calls EXCEPT ![i] =
                IF ends THEN NoCall
                        ELSE [calls[i] EXCEPT !.phase = "loaded", !.outbox = {}]]
      BY <1>7 DEF Commit
    <3>2. [calls[i] EXCEPT !.phase = "loaded", !.outbox = {}] \in Calls
      BY <1>0 DEF Calls
    <3> QED
      BY <1>0, <3>1, <3>2, EmptyPlaces DEF Calls
  <2>3. /\ calls' \in [Invocations -> Calls]
        /\ \A j \in Invocations : /\ CoherentSnapshot(calls'[j].view)
                                  /\ calls'[j].outbox \subseteq shown
    BY <1>0, <2>2, EmptyPlaces
  <2> QED
    BY <1>0, <2>1, <2>3 DEF svars, vars, AInv, AdapterTypeOK, ServiceTypeOK, TypeOK,
       CoherentMemory, CachesSound
<1>8. CASE Crash
  <2>1. /\ LoadMemory(NoSnapshot) /\ finals' = NoCache /\ newest' = NoCache
        /\ lock' = Free /\ calls' = [i \in Invocations |-> NoCall]
        /\ UNCHANGED <<registry, shown, execs, kept, retired, store, delivered,
                       decided, proposed>>
    BY <1>8 DEF Crash
  <2>2. /\ calls' \in [Invocations -> Calls]
        /\ \A j \in Invocations : /\ CoherentSnapshot(calls'[j].view)
                                  /\ calls'[j].outbox \subseteq shown'
    BY <2>1, EmptyPlaces
  <2> QED
    BY <1>0, <1>4, <2>1, <2>2 DEF AInv, AdapterTypeOK, CacheTypes
<1> QED
  BY <1>1, <1>2, <1>3, <1>5, <1>6, <1>7, <1>8 DEF ANext

(* The invariant holds throughout, crashes and fresh sessions included.    *)
LEMMA AdapterInvariant == ASpec => []AInv
BY AInvInit, AInvNext, PTL DEF ASpec

(* Whatever is restored, the snapshots, caches and copies keep their types *)
(* and the user holds only canvases the store's emitter accepted.          *)
THEOREM AdapterTypesCorrect == ASpec => []AdapterTypeOK
<1>1. AInv => AdapterTypeOK
  BY DEF AInv
<1> QED
  BY <1>1, AdapterInvariant, PTL

(* Restored together from places of different age, the guard's copy of a   *)
(* draft is still the store's (_snapshot_preserving_latest_drafts).        *)
THEOREM RestoredContextsTrackDrafts == ASpec => []ContextTracksDraft
<1>1. AInv => ContextTracksDraft
  BY DEF AInv, CoherentMemory, Coherent, ContextTracksDraft
<1> QED
  BY <1>1, AdapterInvariant, PTL

(* No restore, however old its copy, opens the guard for a plan that is    *)
(* not approved (_snapshot_preserving_finalized_plans).                    *)
THEOREM RestoredGuardsOpenOnlyForApproved == ASpec => []GuardOpenOnlyForApproved
<1>1. AInv => GuardOpenOnlyForApproved
  BY DEF AInv, CoherentMemory, Coherent, GuardOpenOnlyForApproved
<1> QED
  BY <1>1, AdapterInvariant, PTL

(* No restore brings a plan back in the failed state.                      *)
THEOREM NoRestoredPlanStuck == ASpec => []NoPlanStuckFailed
<1>1. AInv => NoPlanStuckFailed
  BY DEF AInv, CoherentMemory, Coherent, NoPlanStuckFailed
<1> QED
  BY <1>1, AdapterInvariant, PTL

-----------------------------------------------------------------------------
(* A process that lives on.                                                *)
(*                                                                         *)
(* Without crashes, and in a session that has state from the start, the    *)
(* caches are never cleared.  Then a decision stays in the cache, and of   *)
(* an open draft the cache keeps a version no older than any canvas that   *)
(* was built.  What the session store and the copies hold does not matter, *)
(* as long as they know no plan that was never proposed.                   *)

(* What Learn does for one plan.                                           *)
LEMMA LearnEffect ==
    ASSUME NEW snap \in Snapshots, Learn(snap), NEW p \in PlanIds
    PROVE  /\ IsFinal(snap.records[p]) => finals'[p].record = snap.records[p]
           /\ NoOlder(snap.records[p], p)
                 => finals'[p] = NoEntry /\ newest'[p].record = snap.records[p]
           /\ snap.records[p].status = "none"
                 => finals'[p] = finals[p] /\ newest'[p] = newest[p]
<1>1. /\ NoOlder(snap.records[p], p) => ~ IsFinal(snap.records[p])
      /\ snap.records[p].status = "none"
            => ~ IsFinal(snap.records[p]) /\ ~ NoOlder(snap.records[p], p)
  BY DEF NoOlder, IsFinal, Final, Approved
<1>2. Entry(snap, p).record = snap.records[p]
  BY EntryType
<1>3. /\ finals'[p] = CASE IsFinal(snap.records[p])    -> Entry(snap, p)
                        [] NoOlder(snap.records[p], p) -> NoEntry
                        [] OTHER                       -> finals[p]
      /\ newest'[p] = CASE IsFinal(snap.records[p])    -> NoEntry
                        [] NoOlder(snap.records[p], p) -> Entry(snap, p)
                        [] OTHER                       -> newest[p]
  BY DEF Learn, LearntFinals, LearntNewest
<1> HIDE DEF NoOlder, IsFinal
<1> QED
  BY <1>1, <1>2, <1>3

(* The caches move forward for p: a decision stays one, and a draft is     *)
(* followed by a decision or a draft no older.                             *)
Forward(p) ==
    /\ IsFinal(finals[p].record) => IsFinal(finals'[p].record)
    /\ newest[p].record.status = "draft" =>
          \/ IsFinal(finals'[p].record)
          \/ /\ newest'[p].record.status = "draft"
             /\ newest[p].record.draft.version <= newest'[p].record.draft.version

(* What the caches say of p once rec has been learnt.                      *)
Agrees(rec, p) ==
    /\ rec.status = "draft" =>
          /\ finals'[p] = NoEntry
          /\ newest'[p].record.status = "draft"
          /\ newest'[p].record.draft.version = rec.draft.version
    /\ IsFinal(rec) => IsFinal(finals'[p].record)
    /\ rec.status = "none" => finals'[p] = finals[p] /\ newest'[p] = newest[p]

(* A snapshot whose drafts are undecided and no older than the cached ones *)
(* moves the caches forward.                                               *)
LEMMA LearnForward ==
    ASSUME NEW snap \in Snapshots, Learn(snap), CacheTypes, CachesSound,
           NEW p \in PlanIds,
           snap.records[p].status = "draft" =>
              /\ finals[p] = NoEntry
              /\ newest[p].record.draft.version <= snap.records[p].draft.version
    PROVE  Forward(p) /\ Agrees(snap.records[p], p)
<1>1. /\ snap.records[p] \in Records
      /\ newest[p].record \in Records
      /\ newest[p].record.draft.version \in Nat
      /\ snap.records[p].draft.version \in Nat
  BY DEF Snapshots, CacheTypes, Entries, Records, Plans
<1>2. CASE snap.records[p].status = "draft"
  <2>1. NoOlder(snap.records[p], p) /\ ~ IsFinal(snap.records[p])
    BY <1>2 DEF NoOlder, IsFinal, Final, Approved
  <2>2. finals'[p] = NoEntry /\ newest'[p].record = snap.records[p]
    BY <2>1, LearnEffect
  <2>3. ~ IsFinal(finals[p].record)
    BY <1>2 DEF NoEntry, NoRecord, IsFinal, Final, Approved
  <2> QED
    BY <1>1, <1>2, <2>1, <2>2, <2>3 DEF Forward, Agrees
<1>3. CASE IsFinal(snap.records[p])
  <2>1. finals'[p].record = snap.records[p]
    BY <1>3, LearnEffect
  <2> QED
    BY <1>3, <2>1 DEF Forward, Agrees, IsFinal, Final, Approved
<1>4. CASE snap.records[p].status = "none"
  <2>1. finals'[p] = finals[p] /\ newest'[p] = newest[p]
    BY <1>4, LearnEffect
  <2> QED
    BY <1>1, <1>4, <2>1 DEF Forward, Agrees, IsFinal, Final, Approved
<1> QED
  BY <1>1, <1>2, <1>3, <1>4 DEF Records, Statuses, IsFinal, Final, Approved

(* The drafts a restore leaves open are undecided and the newest known.    *)
LEMMA CorrectedDrafts ==
    ASSUME NEW snap \in Snapshots, CacheTypes, CachesSound, NEW p \in PlanIds
    PROVE  /\ Corrected(snap).records[p].status = "draft" =>
                 /\ finals[p] = NoEntry
                 /\ newest[p].record.draft.version
                       <= Corrected(snap).records[p].draft.version
           /\ snap.records[p].status = "none" =>
                 Corrected(snap).records[p].status = "none"
<1>1. Corrected(snap).records[p] = Merged(snap, p).record
  BY DEF Corrected
<1>2. /\ newest[p] \in Entries /\ newest[p].record.draft.version \in Nat
      /\ snap.records[p] \in Records /\ snap.records[p].draft.version \in Nat
  BY DEF CacheTypes, Entries, Records, Plans, Snapshots
<1>3. CASE DecidedEarlier(snap, p)
  <2>1. Merged(snap, p) = finals[p] /\ finals[p] # NoEntry
    BY <1>3 DEF Merged, DecidedEarlier
  <2>2. IsFinal(finals[p].record)
    BY <2>1 DEF CachesSound, DecisionEntry
  <2> QED
    BY <1>1, <1>3, <2>1, <2>2 DEF IsFinal, Final, Approved, DecidedEarlier
<1>4. CASE EditedEarlier(snap, p) /\ ~ DecidedEarlier(snap, p)
  <2>1. Merged(snap, p) = [newest[p] EXCEPT !.surface = @ \/ p \in snap.surfaces]
    BY <1>4 DEF Merged
  <2>2. Merged(snap, p).record = newest[p].record
    BY <1>2, <2>1 DEF Entries
  <2>3. snap.records[p].status = "draft" /\ finals[p] = NoEntry
    BY <1>4 DEF EditedEarlier, DecidedEarlier
  <2> QED
    BY <1>1, <1>2, <2>2, <2>3
<1>5. CASE ~ DecidedEarlier(snap, p) /\ ~ EditedEarlier(snap, p)
  <2>1. Merged(snap, p).record = snap.records[p]
    BY <1>5, EntryType DEF Merged
  <2>2. ASSUME snap.records[p].status = "draft"
        PROVE  /\ finals[p] = NoEntry
               /\ newest[p].record.draft.version <= snap.records[p].draft.version
    <3>1. finals[p] = NoEntry
      BY <1>5, <2>2 DEF DecidedEarlier
    <3>2. CASE newest[p].record.status = "draft"
      <4>1. ~ (newest[p].record.draft.version > snap.records[p].draft.version)
        BY <1>5, <2>2, <3>2 DEF EditedEarlier
      <4>2. \A m, n \in Nat : ~ (m > n) => m <= n
        OBVIOUS
      <4> QED
        BY <1>2, <3>1, <4>1, <4>2
    <3>3. CASE newest[p].record.status # "draft"
      <4>1. newest[p] = NoEntry
        BY <3>3 DEF CachesSound, DraftEntry
      <4>2. newest[p].record.draft.version = 0
        BY <4>1 DEF NoEntry, NoRecord, NoPlan
      <4> QED
        BY <1>2, <3>1, <4>2
    <3> QED
      BY <3>1, <3>2, <3>3
  <2> QED
    BY <1>1, <2>1, <2>2
<1> QED
  BY <1>3, <1>4, <1>5

-----------------------------------------------------------------------------
(* The invariant of a process that lives on.                               *)

(* Every copy an invocation works on is one of a session with state.       *)
Present == /\ store.present
           /\ \A i \in Invocations : calls[i].phase # "idle" => calls[i].view.present

(* A plan id that was never drawn is known nowhere.                        *)
OnlyProposedKnown ==
    \A p \in PlanIds \ proposed :
       /\ records[p].status = "none"
       /\ finals[p] = NoEntry /\ newest[p] = NoEntry
       /\ store.records[p].status = "none"
       /\ \A i \in Invocations : calls[i].view.records[p].status = "none"

DecisionsCached == \A p \in decided : IsFinal(finals[p].record)

(* What is open in memory is the cached draft.                             *)
DraftsCached ==
    \A p \in PlanIds : records[p].status = "draft" =>
       /\ finals[p] = NoEntry
       /\ newest[p].record.status = "draft"
       /\ newest[p].record.draft.version = records[p].draft.version

(* No canvas, sent or not, is ahead of what the caches know of its plan.   *)
Covered(c) ==
    \/ IsFinal(finals[c.plan].record)
    \/ /\ newest[c.plan].record.status = "draft"
       /\ c.body.version <= newest[c.plan].record.draft.version

CanvasesCovered ==
    /\ \A c \in delivered : Covered(c)
    /\ \A i \in Invocations : \A c \in calls[i].outbox : Covered(c)

SuccessDecided == \A k \in DOMAIN execs : execs[k].ok => execs[k].plan \in decided

LInv == /\ Present
        /\ OnlyProposedKnown
        /\ DecisionsCached
        /\ DraftsCached
        /\ CanvasesCovered
        /\ SuccessDecided
        /\ OneSuccessfulExecution

(* Caches that move forward leave no canvas behind.                        *)
LEMMA CoveredKept ==
    ASSUME CacheTypes, CacheTypes', NEW c \in Canvases, Forward(c.plan), Covered(c)
    PROVE  Covered(c)'
<1>1. /\ newest[c.plan].record.draft.version \in Nat
      /\ newest'[c.plan].record.draft.version \in Nat
      /\ c.body.version \in Nat
  BY DEF CacheTypes, Entries, Records, Plans, Canvases
<1> QED
  BY <1>1 DEF Covered, Forward

(* The draft an operation leaves in memory is undecided and the newest.    *)
LEMMA OutcomeDrafts ==
    ASSUME AInv, OnlyProposedKnown, DraftsCached, Outcome,
           NEW p \in PlanIds, records'[p].status = "draft"
    PROVE  /\ finals[p] = NoEntry
           /\ newest[p].record.draft.version <= records'[p].draft.version
<1>1. /\ records \in [PlanIds -> Records] /\ newest[p].record.draft.version \in Nat
      /\ records[p].draft.version \in Nat
  BY DEF AInv, AdapterTypeOK, ServiceTypeOK, TypeOK, Entries, Records, Plans
<1>2. CASE records'[p] = records[p]
  BY <1>1, <1>2 DEF DraftsCached
<1>3. CASE OneChange /\ records'[p] # records[p]
  <2>1. PICK q \in PlanIds, rec \in Records :
          /\ records' = [records EXCEPT ![q] = rec]
          /\ Drafted(q, rec) \/ Advanced(q, rec) \/ Settled(q, rec)
    BY <1>3 DEF OneChange, Changed
  <2>2. q = p /\ records'[p] = rec
    BY <1>1, <1>3, <2>1
  <2>3. CASE Drafted(p, rec)
    <3>1. finals[p] = NoEntry /\ newest[p] = NoEntry
      BY <2>3 DEF Drafted, OnlyProposedKnown
    <3>2. newest[p].record.draft.version = 0 /\ rec.draft.version \in Nat
      BY <3>1 DEF NoEntry, NoRecord, NoPlan, Records, Plans
    <3> QED
      BY <2>2, <3>1, <3>2
  <2>4. CASE Advanced(p, rec)
    BY <1>1, <2>2, <2>4 DEF Advanced, DraftsCached
  <2>5. CASE Settled(p, rec)
    BY <2>2, <2>5 DEF Settled
  <2> QED
    BY <2>1, <2>2, <2>3, <2>4, <2>5
<1> QED
  BY <1>2, <1>3 DEF Outcome

(* An export changes no status and no version, and moves the caches on.    *)
LEMMA ExportLearnt ==
    ASSUME AInv, AInv', LInv, NEW i \in Invocations, Handle(i),
           NEW snap, snap = Exported(records', contexts', surfaces')
    PROVE  /\ Outcome
           /\ snap \in Snapshots /\ snap.present
           /\ \A p \in PlanIds :
                 /\ snap.records[p].status = records'[p].status
                 /\ snap.records[p].draft = RedactedPlan(records'[p].draft)
                 /\ snap.records[p].draft.version = records'[p].draft.version
                 /\ snap.records[p].approvedVersion = records'[p].approvedVersion
                 /\ Forward(p) /\ Agrees(snap.records[p], p)
<1>1. Operation /\ Learn(snap)
  BY DEF Handle
<1>2. /\ ServiceTypeOK /\ CoherentMemory /\ CacheTypes /\ CachesSound
      /\ delivered \subseteq shown
      /\ records' \in [PlanIds -> Records] /\ contexts' \in [PlanIds -> Contexts]
      /\ surfaces' \in SUBSET PlanIds /\ CoherentMemory'
  BY DEF AInv, AdapterTypeOK, ServiceTypeOK, TypeOK, CacheTypes
<1>3. Outcome
  BY <1>1, <1>2, OperationCases
<1>4. snap \in Snapshots /\ snap.present
  BY <1>2, ExportedSound DEF CoherentMemory, Exported
<1>5. ASSUME NEW p \in PlanIds
      PROVE  /\ snap.records[p].status = records'[p].status
             /\ snap.records[p].draft = RedactedPlan(records'[p].draft)
             /\ snap.records[p].draft.version = records'[p].draft.version
             /\ snap.records[p].approvedVersion = records'[p].approvedVersion
  <2>1. snap.records[p] = RedactedRecord(records'[p])
    BY DEF Exported
  <2>2. /\ records'[p] \in Records /\ contexts'[p] \in Contexts
        /\ records'[p].draft \in Plans
    BY <1>2 DEF Records
  <2>3. /\ RedactedRecord(records'[p]).status = records'[p].status
        /\ RedactedRecord(records'[p]).draft = RedactedPlan(records'[p].draft)
        /\ RedactedRecord(records'[p]).approvedVersion = records'[p].approvedVersion
    BY <2>2, RedactedParts
  <2>4. RedactedPlan(records'[p].draft).version = records'[p].draft.version
    BY <2>2, RedactedPlans
  <2> QED
    BY <2>1, <2>3, <2>4
<1>6. ASSUME NEW p \in PlanIds
      PROVE  Forward(p) /\ Agrees(snap.records[p], p)
  BY <1>1, <1>2, <1>3, <1>4, <1>5, LearnForward, OutcomeDrafts DEF LInv
<1> QED
  BY <1>3, <1>4, <1>5, <1>6

(* The invariant survives an operation and its export.                     *)
LEMMA HandleLives ==
    ASSUME AInv, AInv', LInv, NEW i \in Invocations, Handle(i)
    PROVE  LInv'
<1> DEFINE snap == Exported(records', contexts', surfaces')
<1>1. /\ Operation /\ Learn(snap)
      /\ calls' = [calls EXCEPT ![i].phase = "written", ![i].view = snap,
                                ![i].outbox = @ \cup NewCanvases]
      /\ decided' = decided \cup NewDecisions
      /\ proposed' = proposed \cup NewPlans
      /\ UNCHANGED <<store, delivered>>
  BY DEF Handle
<1>2. /\ ServiceTypeOK /\ CoherentMemory /\ CacheTypes /\ CachesSound /\ CacheTypes'
      /\ calls \in [Invocations -> Calls] /\ calls' \in [Invocations -> Calls]
      /\ delivered \subseteq shown /\ decided \subseteq PlanIds
      /\ records' \in [PlanIds -> Records] /\ contexts' \in [PlanIds -> Contexts]
      /\ surfaces' \in SUBSET PlanIds /\ CoherentMemory'
      /\ execs \in Seq(Executions) /\ shown \subseteq Canvases
      /\ \A j \in Invocations : calls[j].outbox \subseteq Canvases
  BY DEF AInv, AdapterTypeOK, ServiceTypeOK, TypeOK, CacheTypes, Calls
<1>3. /\ Outcome
      /\ snap \in Snapshots /\ snap.present
      /\ \A p \in PlanIds : /\ snap.records[p].status = records'[p].status
                             /\ snap.records[p].draft.version
                                   = records'[p].draft.version
                             /\ Forward(p) /\ Agrees(snap.records[p], p)
  BY ExportLearnt
<1> HIDE DEF snap
<1>4. \A j \in Invocations :
         /\ calls'[j].view = IF j = i THEN snap ELSE calls[j].view
         /\ calls'[j].outbox = IF j = i THEN calls[i].outbox \cup NewCanvases
                                        ELSE calls[j].outbox
         /\ j # i => calls'[j] = calls[j]
  BY <1>1, <1>2 DEF Calls
<1>5. Present'
  BY <1>1, <1>3, <1>4 DEF LInv, Present
<1>6. OnlyProposedKnown'
  <2>1. ASSUME NEW p \in PlanIds \ proposed'
        PROVE  /\ records'[p].status = "none"
               /\ finals'[p] = NoEntry /\ newest'[p] = NoEntry
               /\ store'.records[p].status = "none"
               /\ \A j \in Invocations : calls'[j].view.records[p].status = "none"
    <3>1. /\ p \notin proposed /\ p \notin NewPlans
          /\ records[p].status = "none"
          /\ finals[p] = NoEntry /\ newest[p] = NoEntry
          /\ store.records[p].status = "none"
          /\ \A j \in Invocations : calls[j].view.records[p].status = "none"
      BY <1>1, <2>1 DEF LInv, OnlyProposedKnown
    <3>2. records'[p].status = "none"
      BY <3>1 DEF NewPlans
    <3>3. snap.records[p].status = "none"
      BY <1>3, <3>2
    <3>4. finals'[p] = NoEntry /\ newest'[p] = NoEntry
      BY <1>3, <3>1, <3>3 DEF Agrees
    <3>5. \A j \in Invocations : calls'[j].view.records[p].status = "none"
      BY <1>4, <3>1, <3>3
    <3> QED
      BY <1>1, <3>1, <3>2, <3>4, <3>5
  <2> QED
    BY <2>1 DEF OnlyProposedKnown
<1>7. DecisionsCached'
  <2>1. ASSUME NEW p \in NewDecisions
        PROVE  p \in PlanIds /\ IsFinal(finals'[p].record)
    BY <1>3, <2>1 DEF NewDecisions, Agrees, IsFinal, Final, Approved
  <2> QED
    BY <1>1, <1>2, <1>3, <2>1 DEF LInv, DecisionsCached, Forward
<1>8. DraftsCached'
  BY <1>3 DEF DraftsCached, Agrees
<1>9. CanvasesCovered'
  <2>1. ASSUME NEW c \in Canvases, Covered(c)
        PROVE  Covered(c)'
    <3>1. c.plan \in PlanIds
      BY DEF Canvases
    <3> QED
      BY <1>2, <1>3, <2>1, <3>1, CoveredKept
  <2>2. ASSUME NEW c \in NewCanvases
        PROVE  Covered(c)'
    <3>1. PICK p \in surfaces' : c = [plan |-> p, body |-> records'[p].draft]
      BY DEF NewCanvases
    <3>2. records'[p].status = "draft" /\ p \in PlanIds
      BY <1>2, <3>1 DEF CoherentMemory, Coherent
    <3>3. /\ newest'[p].record.status = "draft"
          /\ newest'[p].record.draft.version = records'[p].draft.version
      BY <1>3, <3>2 DEF Agrees
    <3>4. records'[p].draft.version \in Nat
      BY <1>2, <3>2 DEF Records, Plans
    <3> QED
      BY <3>1, <3>3, <3>4 DEF Covered
  <2>3. \A c \in delivered : Covered(c)'
    BY <1>2, <2>1 DEF LInv, CanvasesCovered
  <2>4. \A j \in Invocations : \A c \in calls'[j].outbox : Covered(c)'
    BY <1>2, <1>4, <2>1, <2>2 DEF LInv, CanvasesCovered
  <2> QED
    BY <1>1, <2>3, <2>4 DEF CanvasesCovered
<1>10. SuccessDecided' /\ OneSuccessfulExecution'
  <2>1. CASE execs' = execs
    BY <1>1, <2>1 DEF LInv, SuccessDecided, OneSuccessfulExecution
  <2>2. ASSUME NEW e \in Executions, execs' = Append(execs, e),
               e.ok => /\ records[e.plan].status = "draft"
                       /\ records'[e.plan].status = "approved"
        PROVE  SuccessDecided' /\ OneSuccessfulExecution'
    <3>1. /\ DOMAIN execs' = 1..(Len(execs) + 1)
          /\ DOMAIN execs = 1..Len(execs) /\ Len(execs) \in Nat
          /\ \A k \in DOMAIN execs : execs'[k] = execs[k]
          /\ execs'[Len(execs) + 1] = e
      BY <1>2, <2>2
    <3>2. e.ok => e.plan \in NewDecisions /\ e.plan \notin decided
      <4>1. e.plan \in PlanIds
        BY DEF Executions
      <4>2. e.ok => finals[e.plan] = NoEntry
        BY <2>2, <4>1 DEF LInv, DraftsCached
      <4>3. ~ IsFinal(NoEntry.record)
        BY DEF NoEntry, NoRecord, IsFinal, Final, Approved
      <4> QED
        BY <2>2, <4>1, <4>2, <4>3 DEF LInv, DecisionsCached, NewDecisions
    <3>3. SuccessDecided'
      BY <1>1, <3>1, <3>2 DEF LInv, SuccessDecided
    <3>4. OneSuccessfulExecution'
      BY <3>1, <3>2 DEF LInv, SuccessDecided, OneSuccessfulExecution
    <3> QED
      BY <3>3, <3>4
  <2> QED
    BY <1>3, <2>1, <2>2 DEF Outcome, Executed
<1> QED
  BY <1>5, <1>6, <1>7, <1>8, <1>9, <1>10 DEF LInv

(* The invariant survives a restore, whatever copy it starts from.         *)
LEMMA RestoreLives ==
    ASSUME AInv, AInv', LInv, NEW i \in Invocations, Restore(i)
    PROVE  LInv'
<1> DEFINE snap == Corrected(calls[i].view)
<1>1. calls[i].view.present
  BY DEF Restore, LInv, Present
<1>2. /\ LoadMemory(snap) /\ Learn(snap)
      /\ UNCHANGED <<registry, shown, execs, store, calls, delivered, decided,
                     proposed>>
  BY <1>1 DEF Restore
<1>3. /\ CacheTypes /\ CachesSound /\ CacheTypes'
      /\ calls[i].view \in Snapshots /\ CoherentSnapshot(calls[i].view)
      /\ delivered \subseteq Canvases /\ decided \subseteq PlanIds
      /\ \A j \in Invocations : calls[j].outbox \subseteq Canvases
  BY DEF AInv, AdapterTypeOK, ServiceTypeOK, TypeOK, CacheTypes, Calls
<1>4. snap \in Snapshots
  BY <1>3, CorrectedSound
<1>5. \A p \in PlanIds :
         /\ snap.records[p].status = "draft" =>
               /\ finals[p] = NoEntry
               /\ newest[p].record.draft.version <= snap.records[p].draft.version
         /\ calls[i].view.records[p].status = "none" => snap.records[p].status = "none"
  BY <1>3, CorrectedDrafts
<1> HIDE DEF snap
<1>6. ASSUME NEW p \in PlanIds
      PROVE  Forward(p) /\ Agrees(snap.records[p], p) /\ records'[p] = snap.records[p]
  BY <1>2, <1>3, <1>4, <1>5, LearnForward DEF LoadMemory
<1>7. Present'
  BY <1>2 DEF LInv, Present
<1>8. OnlyProposedKnown'
  <2>1. ASSUME NEW p \in PlanIds \ proposed
        PROVE  /\ records'[p].status = "none"
               /\ finals'[p] = NoEntry /\ newest'[p] = NoEntry
    <3>1. /\ finals[p] = NoEntry /\ newest[p] = NoEntry
          /\ calls[i].view.records[p].status = "none"
      BY DEF LInv, OnlyProposedKnown
    <3> QED
      BY <1>5, <1>6, <3>1 DEF Agrees
  <2> QED
    BY <1>2, <2>1 DEF LInv, OnlyProposedKnown
<1>9. DecisionsCached'
  BY <1>2, <1>3, <1>6 DEF LInv, DecisionsCached, Forward
<1>10. DraftsCached'
  BY <1>6 DEF DraftsCached, Agrees
<1>11. CanvasesCovered'
  <2>1. ASSUME NEW c \in Canvases, Covered(c)
        PROVE  Covered(c)'
    <3>1. c.plan \in PlanIds
      BY DEF Canvases
    <3> QED
      BY <1>3, <1>6, <2>1, <3>1, CoveredKept
  <2> QED
    BY <1>2, <1>3, <2>1 DEF LInv, CanvasesCovered
<1>12. SuccessDecided' /\ OneSuccessfulExecution'
  BY <1>2 DEF LInv, SuccessDecided, OneSuccessfulExecution
<1> QED
  BY <1>7, <1>8, <1>9, <1>10, <1>11, <1>12 DEF LInv

(* Caches and memory as they are keep what the invariant says of them.     *)
LEMMA CoveredSame ==
    ASSUME UNCHANGED <<finals, newest>>, NEW c, Covered(c)
    PROVE  Covered(c)'
BY DEF Covered

(* A session with state, empty as yet, satisfies the invariant.            *)
LEMMA LInvInit == ~ FreshSession /\ AInit => LInv
<1> SUFFICES ASSUME ~ FreshSession, AInit
             PROVE  LInv
  OBVIOUS
<1>1. /\ \A p \in PlanIds : records[p].status = "none"
      /\ finals = NoCache /\ newest = NoCache /\ delivered = {} /\ decided = {}
      /\ execs = <<>> /\ calls = [i \in Invocations |-> NoCall]
  BY DEF AInit, SInit, Init, NoRecord
<1>2. /\ NoCall.phase = "idle" /\ NoCall.view = NoSnapshot /\ NoCall.outbox = {}
      /\ \A p \in PlanIds : NoSnapshot.records[p].status = "none"
  BY DEF NoCall, NoSnapshot, NoRecords, NoRecord
<1>3. store.present /\ store.records = NoRecords
  BY DEF AInit, NoSnapshot
<1>4. \A p \in PlanIds : store.records[p].status = "none"
  BY <1>3 DEF NoRecords, NoRecord
<1>5. Present /\ OnlyProposedKnown
  BY <1>1, <1>2, <1>3, <1>4 DEF Present, OnlyProposedKnown, NoCache
<1> QED
  BY <1>1, <1>2, <1>5 DEF LInv, DecisionsCached, DraftsCached, CanvasesCovered,
     SuccessDecided, OneSuccessfulExecution

(* One step per action; the two that teach the caches are above.           *)
LEMMA LInvNext ==
    ASSUME ~ Crashes, AInv, AInv', LInv, [ANext]_avars
    PROVE  LInv'
<1>0. /\ calls \in [Invocations -> Calls] /\ store \in Snapshots
      /\ \A j \in Invocations : calls[j].phase \in {"idle", "loaded", "written"}
  BY DEF AInv, AdapterTypeOK, Calls
<1>1. ASSUME UNCHANGED <<svars, finals, newest, decided, proposed>>,
             Present',
             \A p \in PlanIds \ proposed :
                /\ store'.records[p].status = "none"
                /\ \A j \in Invocations : calls'[j].view.records[p].status = "none",
             \A c \in delivered' : Covered(c),
             \A j \in Invocations : \A c \in calls'[j].outbox : Covered(c)
      PROVE  LInv'
  <2>1. OnlyProposedKnown'
    BY <1>1 DEF LInv, OnlyProposedKnown, svars, vars
  <2>2. CanvasesCovered'
    BY <1>1, CoveredSame DEF CanvasesCovered
  <2>3. DecisionsCached' /\ DraftsCached'
    BY <1>1 DEF LInv, DecisionsCached, DraftsCached, svars, vars
  <2>4. SuccessDecided' /\ OneSuccessfulExecution'
    BY <1>1 DEF LInv, SuccessDecided, OneSuccessfulExecution, svars, vars
  <2> QED
    BY <1>1, <2>1, <2>2, <2>3, <2>4 DEF LInv
<1>2. /\ \A p \in PlanIds \ proposed :
            /\ store.records[p].status = "none"
            /\ \A j \in Invocations : calls[j].view.records[p].status = "none"
      /\ \A c \in delivered : Covered(c)
      /\ \A j \in Invocations : \A c \in calls[j].outbox : Covered(c)
  BY DEF LInv, OnlyProposedKnown, CanvasesCovered
<1>3. CASE UNCHANGED avars
  <2>1. Present'
    BY <1>3 DEF LInv, Present, avars
  <2> QED
    BY <1>1, <1>2, <1>3, <2>1 DEF avars
<1>4. ASSUME NEW i \in Invocations, Begin(i)
      PROVE  LInv'
  <2> DEFINE call == [NoCall EXCEPT !.phase = "loaded", !.view = store]
  <2>1. /\ calls' = [calls EXCEPT ![i] = call]
        /\ UNCHANGED <<svars, store, lock, finals, newest, delivered, decided,
                       proposed>>
    BY <1>4 DEF Begin
  <2>2. call.view = store /\ call.outbox = {}
    BY DEF NoCall
  <2> HIDE DEF call
  <2>3. \A j \in Invocations : calls'[j] = IF j = i THEN call ELSE calls[j]
    BY <1>0, <2>1
  <2>4. Present'
    BY <2>1, <2>2, <2>3 DEF LInv, Present
  <2> QED
    BY <1>1, <1>2, <2>1, <2>2, <2>3, <2>4
<1>5. ASSUME NEW i \in Invocations, Commit(i)
      PROVE  LInv'
  <2>1. /\ store' = calls[i].view /\ calls[i].view.present
        /\ delivered' = delivered \cup calls[i].outbox
        /\ UNCHANGED <<svars, lock, finals, newest, decided, proposed>>
    BY <1>5 DEF Commit, LInv, Present
  <2>2. PICK call : /\ calls' = [calls EXCEPT ![i] = call]
                    /\ \/ call = NoCall
                       \/ call.view = calls[i].view /\ call.outbox = {}
    <3>1. PICK ends \in BOOLEAN :
             calls' = [calls EXCEPT ![i] =
                IF ends THEN NoCall
                        ELSE [calls[i] EXCEPT !.phase = "loaded", !.outbox = {}]]
      BY <1>5 DEF Commit
    <3> DEFINE next == [calls[i] EXCEPT !.phase = "loaded", !.outbox = {}]
    <3>2. next.view = calls[i].view /\ next.outbox = {}
      BY <1>0 DEF Calls
    <3> QED
      BY <3>1, <3>2
  <2>3. \A j \in Invocations : calls'[j] = IF j = i THEN call ELSE calls[j]
    BY <1>0, <2>2
  <2>4. /\ NoCall.phase = "idle" /\ NoCall.outbox = {}
        /\ \A p \in PlanIds : NoCall.view.records[p].status = "none"
    BY DEF NoCall, NoSnapshot, NoRecords, NoRecord
  <2>5. Present'
    BY <2>1, <2>2, <2>3, <2>4 DEF LInv, Present
  <2>6. \A p \in PlanIds \ proposed :
           \A j \in Invocations : calls'[j].view.records[p].status = "none"
    BY <1>2, <2>2, <2>3, <2>4
  <2>7. \A j \in Invocations : \A c \in calls'[j].outbox : Covered(c)
    BY <1>2, <2>2, <2>3, <2>4
  <2>8. /\ \A p \in PlanIds \ proposed : store'.records[p].status = "none"
        /\ \A c \in delivered' : Covered(c)
    BY <1>2, <2>1
  <2> QED
    BY <1>1, <2>1, <2>5, <2>6, <2>7, <2>8
<1> QED
  BY <1>3, <1>4, <1>5, HandleLives, RestoreLives DEF ANext, Crash

(* The invariant holds as long as the process lives.                       *)
LEMMA LivingInvariant ==
    ASSUME ~ Crashes, ~ FreshSession
    PROVE  ASpec => []LInv
<1>1. AInit => LInv
  BY LInvInit
<1>2. AInv /\ AInv' /\ LInv /\ [ANext]_avars => LInv'
  BY LInvNext
<1> QED
  BY <1>1, <1>2, AdapterInvariant, PTL DEF ASpec

(* No tool call finds a decided plan open again, however old the copy of   *)
(* its invocation (_snapshot_preserving_finalized_plans).                  *)
THEOREM DecisionsStayClosed ==
    ASSUME ~ Crashes, ~ FreshSession
    PROVE  ASpec => []DecidedPlansStayClosed
<1>1. AInv /\ LInv => DecidedPlansStayClosed
  <2> SUFFICES ASSUME AInv, LInv, NEW p \in decided
               PROVE  records[p].status \in Final \cup {"none"}
    BY DEF DecidedPlansStayClosed
  <2>1. p \in PlanIds /\ records[p] \in Records
    BY DEF AInv, AdapterTypeOK, ServiceTypeOK, TypeOK
  <2>2. finals[p] # NoEntry
    BY DEF LInv, DecisionsCached, IsFinal, Final, Approved, NoEntry, NoRecord
  <2>3. records[p].status # "draft"
    BY <2>1, <2>2 DEF LInv, DraftsCached
  <2> QED
    BY <2>1, <2>3 DEF Records, Statuses, Final, Approved
<1> QED
  BY <1>1, AdapterInvariant, LivingInvariant, PTL

(* A tool call works on the newest version of a draft, so an edit that was *)
(* shown is not overwritten by one made on an older copy                   *)
(* (_snapshot_preserving_latest_drafts).                                   *)
THEOREM ShownDraftsStayNewest ==
    ASSUME ~ Crashes, ~ FreshSession
    PROVE  ASpec => []DraftsNeverRegress
<1>1. AInv /\ LInv => DraftsNeverRegress
  <2> SUFFICES ASSUME AInv, LInv, NEW c \in delivered, records[c.plan].status = "draft"
               PROVE  c.body.version <= records[c.plan].draft.version
    BY DEF DraftsNeverRegress
  <2>1. c.plan \in PlanIds
    BY DEF AInv, AdapterTypeOK, ServiceTypeOK, TypeOK, Canvases
  <2>2. /\ finals[c.plan] = NoEntry
        /\ newest[c.plan].record.draft.version = records[c.plan].draft.version
    BY <2>1 DEF LInv, DraftsCached
  <2>3. ~ IsFinal(finals[c.plan].record)
    BY <2>2 DEF IsFinal, Final, Approved, NoEntry, NoRecord
  <2> QED
    BY <2>2, <2>3 DEF LInv, CanvasesCovered, Covered
<1> QED
  BY <1>1, AdapterInvariant, LivingInvariant, PTL

(* Overlapping invocations with stale copies do not execute a plan to its  *)
(* end twice.                                                              *)
THEOREM ExecutedOnceAcrossInvocations ==
    ASSUME ~ Crashes, ~ FreshSession
    PROVE  ASpec => []OneSuccessfulExecution
<1>1. LInv => OneSuccessfulExecution
  BY DEF LInv
<1> QED
  BY <1>1, LivingInvariant, PTL

-----------------------------------------------------------------------------
(* What was seen and what ran.                                             *)
(*                                                                         *)
(* A canvas is made of a draft when its version is new, and from then on   *)
(* exports only redact the draft further.  So whatever draft of that       *)
(* version is open anywhere is a reading of the canvas.  A new version     *)
(* keeps that, because it is ahead of every copy there is.                 *)

OpenIn(recs, c) == recs[c.plan].status = "draft" /\ recs[c.plan].draft = c.body

CachedDraft(c) == /\ newest[c.plan].record.status = "draft"
                  /\ newest[c.plan].record.draft = c.body

(* The canvases that the user has seen or is about to see.                 *)
OnItsWay(c) == \/ c \in delivered
               \/ \E i \in Invocations : c \in calls[i].outbox

(* Those, and the drafts that are open in some place.                      *)
Known(c) ==
    \/ OnItsWay(c)
    \/ OpenIn(records, c)
    \/ OpenIn(store.records, c)
    \/ \E i \in Invocations : OpenIn(calls[i].view.records, c)
    \/ CachedDraft(c)

SameDraft(c, d) == c.plan = d.plan /\ c.body.version = d.body.version

CanvasesRead ==
    \A c, d \in Canvases :
        OnItsWay(c) /\ Known(d) /\ SameDraft(c, d) => IsReading(d.body, c.body)

AllCovered == \A c \in Canvases : Known(c) => Covered(c)

RInv == /\ CanvasesRead
        /\ AllCovered
        /\ ExecutedAsShownButRedacted

(* A text is a redaction of itself, an export makes one of it, and a       *)
(* redaction of a redaction is one.                                        *)
LEMMA RedactedTexts ==
    ASSUME NEW t \in Texts
    PROVE  /\ t \in Redactions(t) /\ Redact[t] \in Redactions(t)
           /\ \A u \in Redactions(t) : Redactions(u) \subseteq Redactions(t)
<1>1. t \in Redactions(t)
  BY DEF Redactions
<1>2. Redact[t] \in Redactions(t)
  BY AdapterAssumption DEF Redactions
<1>3. ASSUME NEW u \in Redactions(t), NEW v \in Redactions(u)
      PROVE  v \in Redactions(t)
  BY <1>3 DEF Redactions
<1> QED
  BY <1>1, <1>2, <1>3

(* An unchanged plan is a reading of itself.                               *)
LEMMA ReadingOfItself ==
    ASSUME NEW plan \in Plans
    PROVE  IsReading(plan, plan)
<1>1. plan.steps \in Seq(Steps)
  BY DEF Plans
<1>2. ASSUME NEW i \in DOMAIN plan.steps
      PROVE  IsStepReading(plan.steps[i], plan.steps[i])
  <2> DEFINE step == plan.steps[i]
  <2>1. step \in Steps
    BY <1>1
  <2>2. step.added \in Seq(Texts) /\ step = [step EXCEPT !.added = step.added]
    BY <2>1 DEF Steps
  <2>3. \A k \in DOMAIN step.added : step.added[k] \in Texts
    BY <2>2
  <2> HIDE DEF step
  <2> QED
    BY <2>2, <2>3, RedactedTexts DEF IsStepReading, step
<1>3. plan = [plan EXCEPT !.steps = plan.steps]
  BY DEF Plans
<1> QED
  BY <1>2, <1>3 DEF IsReading

(* What an export makes of a plan is a reading of it.                      *)
LEMMA ReadingOfExport ==
    ASSUME NEW plan \in Plans
    PROVE  IsReading(RedactedPlan(plan), plan)
<1>1. plan.steps \in Seq(Steps)
  BY DEF Plans
<1>2. ASSUME NEW i \in DOMAIN plan.steps
      PROVE  IsStepReading(RedactedStep(plan.steps[i]), plan.steps[i])
  <2> DEFINE step == plan.steps[i]
             texts == [k \in DOMAIN step.added |-> Redact[step.added[k]]]
  <2>1. step \in Steps
    BY <1>1
  <2>2. step.added \in Seq(Texts)
    BY <2>1 DEF Steps
  <2>3. \A k \in DOMAIN step.added : texts[k] \in Redactions(step.added[k])
    BY <2>2, RedactedTexts
  <2>4. DOMAIN texts = DOMAIN step.added
    OBVIOUS
  <2>5. /\ RedactedStep(step) = [step EXCEPT !.added = texts]
        /\ RedactedStep(step).added = texts
    BY <2>1 DEF RedactedStep, Steps
  <2> HIDE DEF step, texts
  <2> QED
    BY <2>3, <2>4, <2>5 DEF IsStepReading, step
<1> DEFINE steps == [i \in DOMAIN plan.steps |-> RedactedStep(plan.steps[i])]
<1>3. DOMAIN steps = DOMAIN plan.steps
  OBVIOUS
<1>4. /\ RedactedPlan(plan) = [plan EXCEPT !.steps = steps]
      /\ RedactedPlan(plan).steps = steps
  BY DEF RedactedPlan, Plans
<1>5. \A i \in DOMAIN plan.steps : IsStepReading(steps[i], plan.steps[i])
  BY <1>2
<1> HIDE DEF steps
<1> QED
  BY <1>3, <1>4, <1>5 DEF IsReading

(* A reading of a reading is one.                                          *)
LEMMA ReadingOfReading ==
    ASSUME NEW a \in Plans, NEW b \in Plans, NEW c \in Plans,
           IsReading(b, a), IsReading(c, b)
    PROVE  IsReading(c, a)
<1>1. /\ DOMAIN a.steps = DOMAIN b.steps /\ DOMAIN b.steps = DOMAIN c.steps
      /\ a.steps \in Seq(Steps)
  BY DEF IsReading, Plans
<1>2. ASSUME NEW i \in DOMAIN a.steps
      PROVE  IsStepReading(c.steps[i], a.steps[i])
  <2> DEFINE r == a.steps[i]
             s == b.steps[i]
             t == c.steps[i]
  <2>1. IsStepReading(s, r) /\ IsStepReading(t, s) /\ r \in Steps
    BY <1>1 DEF IsReading
  <2>2. r.added \in Seq(Texts)
    BY <2>1 DEF Steps
  <2> HIDE DEF r, s, t
  <2>3. ASSUME NEW k \in DOMAIN r.added
        PROVE  t.added[k] \in Redactions(r.added[k])
    <3>1. s.added[k] \in Redactions(r.added[k]) /\ t.added[k] \in Redactions(s.added[k])
      BY <2>1 DEF IsStepReading
    <3>2. r.added[k] \in Texts
      BY <2>2
    <3> QED
      BY <3>1, <3>2, RedactedTexts
  <2>4. t = [r EXCEPT !.added = t.added]
    <3>1. s = [r EXCEPT !.added = s.added] /\ t = [s EXCEPT !.added = t.added]
      BY <2>1 DEF IsStepReading
    <3>2. \A x, y : [[r EXCEPT !.added = x] EXCEPT !.added = y] = [r EXCEPT !.added = y]
      BY <2>1 DEF Steps
    <3> QED
      BY <3>1, <3>2
  <2>5. DOMAIN t.added = DOMAIN r.added
    BY <2>1 DEF IsStepReading
  <2> QED
    BY <2>3, <2>4, <2>5 DEF IsStepReading, r, t
<1>3. c = [a EXCEPT !.steps = c.steps]
  <2>1. b = [a EXCEPT !.steps = b.steps] /\ c = [b EXCEPT !.steps = c.steps]
    BY DEF IsReading
  <2>2. \A x, y : [[a EXCEPT !.steps = x] EXCEPT !.steps = y] = [a EXCEPT !.steps = y]
    BY DEF Plans
  <2> QED
    BY <2>1, <2>2
<1> QED
  BY <1>1, <1>2, <1>3 DEF IsReading

(* An approval executes the open draft, and comes from a canvas of its     *)
(* version that was delivered.                                             *)
LEMMA ExecutedFromDelivered ==
    ASSUME ServiceTypeOK, CoherentMemory, delivered \subseteq shown, Operation
    PROVE  \/ execs' = execs
           \/ \E c \in delivered, e \in Executions :
                 /\ records[c.plan].status = "draft"
                 /\ c.body.version = records[c.plan].draft.version
                 /\ e.seen = c.body /\ e.ran = records[c.plan].draft
                 /\ execs' = Append(execs, e)
<1>1. /\ records \in [PlanIds -> Records] /\ shown \subseteq Canvases
      /\ registry \subseteq Agents
  BY DEF ServiceTypeOK, TypeOK
<1>2. DraftsKept
  <2>1. FrozenPlanIsDraft
    BY DEF CoherentMemory, Coherent, FrozenPlanIsDraft, FrozenIsDraft
  <2>2. ContextTracksDraft
    BY DEF CoherentMemory, Coherent, ContextTracksDraft
  <2> QED
    BY <2>1, <2>2 DEF DraftsKept
<1>3. ASSUME NEW p \in PlanIds, ProposePlan(p)
      PROVE  execs' = execs
  BY <1>3 DEF ProposePlan
<1>4. ASSUME NEW p \in PlanIds, NEW c \in shown, UserEdits(p, c)
      PROVE  execs' = execs
  <2>1. Edited(p)
    BY <1>2, <1>4, EditsKeepContexts
  <2> QED
    BY <2>1 DEF Edited, Mutated
<1>5. ASSUME NEW p \in PlanIds, NEW c \in shown, UserRejects(p, c)
      PROVE  execs' = execs
  BY <1>5 DEF UserRejects, Reject
<1>6. ASSUME NEW p \in PlanIds, NEW c \in delivered, UserApproves(p, c)
      PROVE  \E e \in Executions :
                 /\ records[c.plan].status = "draft"
                 /\ c.body.version = records[c.plan].draft.version
                 /\ e.seen = c.body /\ e.ran = records[c.plan].draft
                 /\ execs' = Append(execs, e)
  <2>1. /\ records[p].status = "draft" /\ c.plan = p
        /\ c.body.version = records[p].draft.version
    BY <1>6 DEF UserApproves, MayApprove, IsCurrent
  <2>2. PICK ok \in BOOLEAN :
          execs' = Append(execs, [plan |-> p, seen |-> c.body,
                                  ran |-> records[p].draft,
                                  known |-> registry, ok |-> ok])
    BY <1>2, <1>6, ApprovalsSucceedOrFail DEF Succeeded, Failed
  <2> DEFINE e == [plan |-> p, seen |-> c.body, ran |-> records[p].draft,
                   known |-> registry, ok |-> ok]
  <2>3. e \in Executions /\ e.seen = c.body /\ e.ran = records[p].draft
    BY <1>1 DEF Executions, Canvases, Records
  <2> HIDE DEF e
  <2> QED
    BY <2>1, <2>2, <2>3 DEF e
<1>7. CASE UNCHANGED svars
  BY <1>7 DEF svars, vars
<1> QED
  BY <1>3, <1>4, <1>5, <1>6, <1>7 DEF Operation

(* What d leaves elsewhere is a reading of it; d was known before, or is   *)
(* an open draft ahead of every copy.                                      *)
Origin(c, d) == /\ d \in Canvases /\ SameDraft(c, d) /\ IsReading(c.body, d.body)
                /\ Known(d) \/ OpenIn(records', d)

Ahead(d) == \A c \in Canvases : Known(c) => ~ SameDraft(c, d)

LEMMA ReadingsKept ==
    ASSUME CanvasesRead,
           \A d \in Canvases : OpenIn(records', d) => Known(d) \/ Ahead(d),
           \A c \in Canvases :
              OnItsWay(c)' => OnItsWay(c) \/ (OpenIn(records', c) /\ Ahead(c)),
           \A d \in Canvases : Known(d)' => \E b \in Canvases : Origin(d, b)
    PROVE  CanvasesRead'
<1> SUFFICES ASSUME NEW c \in Canvases, NEW d \in Canvases, OnItsWay(c)', Known(d)',
                    SameDraft(c, d)
             PROVE  IsReading(d.body, c.body)
  BY DEF CanvasesRead, SameDraft, IsReading, IsStepReading, Redactions
<1>1. PICK b \in Canvases : Origin(d, b)
  OBVIOUS
<1>2. SameDraft(c, b) /\ SameDraft(b, c)
  BY <1>1 DEF Origin, SameDraft
<1>3. c.body \in Plans /\ b.body \in Plans /\ d.body \in Plans
  BY DEF Canvases
<1>4. IsReading(b.body, c.body)
  <2>1. CASE OnItsWay(c)
    <3>1. CASE Known(b)
      BY <1>2, <2>1, <3>1 DEF CanvasesRead
    <3>2. CASE ~ Known(b)
      <4>1. Ahead(b)
        BY <1>1, <3>2 DEF Origin
      <4>2. Known(c)
        BY <2>1 DEF Known
      <4> QED
        BY <1>2, <4>1, <4>2 DEF Ahead
    <3> QED
      BY <3>1, <3>2
  <2>2. CASE OpenIn(records', c) /\ Ahead(c)
    <3>1. OpenIn(records', b)
      BY <1>1, <1>2, <2>2 DEF Origin, Ahead
    <3>2. b.body = c.body
      BY <1>2, <2>2, <3>1 DEF OpenIn, SameDraft
    <3> QED
      BY <1>3, <3>2, ReadingOfItself
  <2> QED
    BY <2>1, <2>2
<1> QED
  BY <1>1, <1>3, <1>4, ReadingOfReading DEF Origin

(* A step that opens no draft, shows none and executes nothing changes no  *)
(* reading, as long as the caches move forward.                            *)
LEMMA NothingNew ==
    ASSUME RInv, CacheTypes, CacheTypes', execs' = execs,
           \A p \in PlanIds : Forward(p),
           \A c \in Canvases : Known(c)' => Known(c),
           \A c \in Canvases : OnItsWay(c)' => OnItsWay(c)
    PROVE  RInv'
<1>1. CanvasesRead'
  BY DEF RInv, CanvasesRead, SameDraft, IsReading, IsStepReading, Redactions
<1>2. AllCovered'
  <2>1. ASSUME NEW c \in Canvases, Known(c)'
        PROVE  Covered(c)'
    <3>1. Known(c) /\ c.plan \in PlanIds
      BY <2>1 DEF Canvases
    <3>2. Covered(c) /\ Forward(c.plan)
      BY <3>1 DEF RInv, AllCovered
    <3> QED
      BY <3>2, CoveredKept
  <2> QED
    BY <2>1 DEF AllCovered
<1>3. ExecutedAsShownButRedacted'
  BY DEF RInv, ExecutedAsShownButRedacted
<1> QED
  BY <1>1, <1>2, <1>3 DEF RInv

(* Caches that stay as they are have moved forward.                        *)
LEMMA ForwardStill ==
    ASSUME AInv, UNCHANGED <<finals, newest>>, NEW p \in PlanIds
    PROVE  Forward(p)
<1>1. newest[p].record.draft.version \in Nat
  BY DEF AInv, AdapterTypeOK, Entries, Records, Plans
<1> QED
  BY <1>1 DEF Forward

(* Loading and storing a state moves drafts and canvases from one place to *)
(* another.                                                                *)
LEMMA MovesKeepReadings ==
    ASSUME AInv, AInv', LInv, RInv, NEW i \in Invocations, Begin(i) \/ Commit(i)
    PROVE  RInv'
<1>1. /\ calls \in [Invocations -> Calls] /\ CacheTypes /\ CacheTypes'
  BY DEF AInv, AdapterTypeOK, CacheTypes
<1>2. UNCHANGED <<records, execs, finals, newest>>
  BY DEF Begin, Commit, svars, vars
<1>3. \A p \in PlanIds : Forward(p)
  BY <1>2, ForwardStill
<1>4. ASSUME NEW c \in Canvases
      PROVE  ~ OpenIn(NoCall.view.records, c)
  BY DEF Canvases, OpenIn, NoCall, NoSnapshot, NoRecords, NoRecord
<1>5. NoCall.outbox = {}
  BY DEF NoCall
<1>6. CASE Begin(i)
  <2> DEFINE call == [NoCall EXCEPT !.phase = "loaded", !.view = store]
  <2>1. /\ calls' = [calls EXCEPT ![i] = call]
        /\ UNCHANGED <<store, delivered>>
    BY <1>6 DEF Begin
  <2>2. call.view = store /\ call.outbox = {}
    BY DEF NoCall
  <2> HIDE DEF call
  <2>3. \A j \in Invocations : calls'[j] = IF j = i THEN call ELSE calls[j]
    BY <1>1, <2>1
  <2>4. ASSUME NEW c \in Canvases, Known(c)'
        PROVE  Known(c)
    <3>1. CASE c \in delivered' \/ OpenIn(records', c) \/ OpenIn(store'.records, c)
                 \/ CachedDraft(c)'
      BY <1>2, <2>1, <3>1 DEF Known, OnItsWay, CachedDraft
    <3>2. ASSUME NEW j \in Invocations,
                 c \in calls'[j].outbox \/ OpenIn(calls'[j].view.records, c)
          PROVE  Known(c)
      BY <2>2, <2>3, <3>2 DEF Known, OnItsWay
    <3> QED
      BY <2>4, <3>1, <3>2 DEF Known, OnItsWay
  <2>5. \A c \in Canvases : OnItsWay(c)' => OnItsWay(c)
    BY <2>1, <2>2, <2>3 DEF OnItsWay
  <2> QED
    BY <1>1, <1>2, <1>3, <2>4, <2>5, NothingNew
<1>7. CASE Commit(i)
  <2>1. /\ store' = calls[i].view
        /\ delivered' = delivered \cup calls[i].outbox
    BY <1>7 DEF Commit
  <2>2. PICK call : /\ calls' = [calls EXCEPT ![i] = call]
                    /\ call.outbox = {}
                    /\ call.view \in {NoCall.view, calls[i].view}
    <3>1. PICK ends \in BOOLEAN :
             calls' = [calls EXCEPT ![i] =
                IF ends THEN NoCall
                        ELSE [calls[i] EXCEPT !.phase = "loaded", !.outbox = {}]]
      BY <1>7 DEF Commit
    <3> DEFINE next == [calls[i] EXCEPT !.phase = "loaded", !.outbox = {}]
    <3>2. next.view = calls[i].view /\ next.outbox = {}
      BY <1>1 DEF Calls
    <3> HIDE DEF next
    <3>3. calls' = [calls EXCEPT ![i] = IF ends THEN NoCall ELSE next]
      BY <3>1 DEF next
    <3> QED
      BY <1>5, <3>2, <3>3
  <2>3. \A j \in Invocations : calls'[j] = IF j = i THEN call ELSE calls[j]
    BY <1>1, <2>2
  <2>4. ASSUME NEW c \in Canvases, Known(c)'
        PROVE  Known(c)
    <3>1. CASE c \in delivered' \/ OpenIn(records', c) \/ OpenIn(store'.records, c)
                 \/ CachedDraft(c)'
      BY <1>2, <2>1, <3>1 DEF Known, OnItsWay, CachedDraft
    <3>2. ASSUME NEW j \in Invocations,
                 c \in calls'[j].outbox \/ OpenIn(calls'[j].view.records, c)
          PROVE  Known(c)
      BY <1>4, <2>2, <2>3, <3>2 DEF Known, OnItsWay
    <3> QED
      BY <2>4, <3>1, <3>2 DEF Known, OnItsWay
  <2>5. \A c \in Canvases : OnItsWay(c)' => OnItsWay(c)
    BY <2>1, <2>2, <2>3 DEF OnItsWay
  <2> QED
    BY <1>1, <1>2, <1>3, <2>4, <2>5, NothingNew
<1> QED
  BY <1>6, <1>7

(* A snapshot that is learnt replaces a cached draft or leaves it.         *)
LEMMA LearntDraft ==
    ASSUME NEW snap \in Snapshots, Learn(snap), NEW p \in PlanIds,
           newest'[p].record.status = "draft"
    PROVE  newest'[p].record = snap.records[p] \/ newest'[p] = newest[p]
<1>1. \/ newest'[p] = Entry(snap, p)
      \/ newest'[p] = NoEntry
      \/ newest'[p] = newest[p]
  BY DEF Learn, LearntNewest
<1>2. NoEntry.record.status # "draft"
  BY DEF NoEntry, NoRecord
<1> QED
  BY <1>1, <1>2, EntryType

(* A restore takes the record of a plan from the copy or from a cache.     *)
LEMMA CorrectedPlaces ==
    ASSUME NEW snap \in Snapshots, CacheTypes, NEW p \in PlanIds
    PROVE  Corrected(snap).records[p] \in {finals[p].record, newest[p].record,
                                           snap.records[p]}
<1>1. Corrected(snap).records[p] = Merged(snap, p).record
  BY DEF Corrected
<1>2. \/ Merged(snap, p) = finals[p]
      \/ Merged(snap, p) = [newest[p] EXCEPT !.surface = @ \/ p \in snap.surfaces]
      \/ Merged(snap, p) = Entry(snap, p)
  BY DEF Merged
<1>3. [newest[p] EXCEPT !.surface = @ \/ p \in snap.surfaces].record
        = newest[p].record
  BY DEF CacheTypes, Entries
<1> QED
  BY <1>1, <1>2, <1>3, EntryType

(* A restore opens only drafts that were open in the copy or cached.       *)
LEMMA RestoredDraftsKnown ==
    ASSUME AInv, NEW i \in Invocations, NEW c \in Canvases,
           OpenIn(Corrected(calls[i].view).records, c)
    PROVE  Known(c)
<1>1. /\ CacheTypes /\ CachesSound /\ calls[i].view \in Snapshots
      /\ c.plan \in PlanIds
  BY DEF AInv, AdapterTypeOK, CacheTypes, Calls, Canvases
<1>2. finals[c.plan].record.status # "draft"
  BY <1>1 DEF CachesSound, DecisionEntry, IsFinal, Final, Approved, NoEntry, NoRecord
<1> DEFINE rec == Corrected(calls[i].view).records[c.plan]
<1>3. rec.status = "draft" /\ rec.draft = c.body
  BY DEF OpenIn
<1>4. rec \in {finals[c.plan].record, newest[c.plan].record,
              calls[i].view.records[c.plan]}
  BY <1>1, CorrectedPlaces
<1> HIDE DEF rec
<1> QED
  BY <1>2, <1>3, <1>4 DEF Known, OpenIn, CachedDraft

(* A restore opens nothing new, and nothing is shown or executed.          *)
LEMMA RestoreKeepsReadings ==
    ASSUME AInv, AInv', LInv, RInv, NEW i \in Invocations, Restore(i)
    PROVE  RInv'
<1> DEFINE snap == Corrected(calls[i].view)
<1>1. calls[i].view.present
  BY DEF Restore, LInv, Present
<1>2. /\ LoadMemory(snap) /\ Learn(snap)
      /\ UNCHANGED <<execs, store, calls, delivered>>
  BY <1>1 DEF Restore
<1>3. /\ CacheTypes /\ CachesSound /\ CacheTypes'
      /\ calls[i].view \in Snapshots /\ CoherentSnapshot(calls[i].view)
  BY DEF AInv, AdapterTypeOK, CacheTypes, Calls
<1>4. snap \in Snapshots
  BY <1>3, CorrectedSound
<1>5. \A p \in PlanIds :
         snap.records[p].status = "draft" =>
            /\ finals[p] = NoEntry
            /\ newest[p].record.draft.version <= snap.records[p].draft.version
  BY <1>3, CorrectedDrafts
<1>6. ASSUME NEW c \in Canvases, OpenIn(snap.records, c)
      PROVE  Known(c)
  BY <1>6, RestoredDraftsKnown
<1> HIDE DEF snap
<1>7. ASSUME NEW c \in Canvases, Known(c)'
      PROVE  Known(c)
  <2>1. CASE OpenIn(records', c)
    BY <1>2, <1>6, <2>1 DEF LoadMemory
  <2>2. CASE CachedDraft(c)'
    <3>1. c.plan \in PlanIds
      BY DEF Canvases
    <3>2. newest'[c.plan].record = snap.records[c.plan] \/ newest'[c.plan] = newest[c.plan]
      BY <1>2, <1>4, <2>2, <3>1, LearntDraft DEF CachedDraft
    <3>3. CASE newest'[c.plan].record = snap.records[c.plan]
      BY <1>6, <2>2, <3>3 DEF CachedDraft, OpenIn
    <3>4. CASE newest'[c.plan] = newest[c.plan]
      BY <2>2, <3>4 DEF CachedDraft, Known
    <3> QED
      BY <3>2, <3>3, <3>4
  <2>3. CASE ~ OpenIn(records', c) /\ ~ CachedDraft(c)'
    BY <1>2, <1>7, <2>3 DEF Known, OnItsWay
  <2> QED
    BY <2>1, <2>2, <2>3
<1>8. \A p \in PlanIds : Forward(p)
  BY <1>2, <1>3, <1>4, <1>5, LearnForward
<1>9. \A c \in Canvases : OnItsWay(c)' => OnItsWay(c)
  BY <1>2 DEF OnItsWay
<1> QED
  BY <1>2, <1>3, <1>7, <1>8, <1>9, NothingNew

(* A draft that is open after an operation is the one from before, or it   *)
(* is ahead of every copy of its plan.                                              *)
LEMMA OpenDraftsAhead ==
    ASSUME AInv, LInv, RInv, Outcome, NEW d \in Canvases, OpenIn(records', d)
    PROVE  records'[d.plan] = records[d.plan] \/ Ahead(d)
<1>1. /\ records \in [PlanIds -> Records] /\ d.plan \in PlanIds
      /\ \A p \in PlanIds : /\ records[p].draft.version \in Nat
                            /\ newest[p].record.draft.version \in Nat
      /\ \A c \in Canvases : c.body.version \in Nat
  BY DEF AInv, AdapterTypeOK, ServiceTypeOK, TypeOK, Entries, Records, Plans,
     Canvases
<1>2. ~ IsFinal(NoEntry.record) /\ NoEntry.record.status # "draft"
  BY DEF NoEntry, NoRecord, IsFinal, Final, Approved
<1>3. CASE records' = records
  BY <1>3
<1>4. ASSUME NEW p \in PlanIds, NEW rec \in Records,
             records' = [records EXCEPT ![p] = rec],
             Drafted(p, rec) \/ Advanced(p, rec) \/ Settled(p, rec)
      PROVE  records'[d.plan] = records[d.plan] \/ Ahead(d)
  <2>1. CASE d.plan # p
    BY <1>1, <1>4, <2>1
  <2>2. CASE d.plan = p
    <3>1. records'[p] = rec /\ d.body = rec.draft /\ rec.status = "draft"
      BY <1>1, <1>4, <2>2 DEF OpenIn
    <3>2. CASE Drafted(p, rec)
      <4>1. finals[p] = NoEntry /\ newest[p] = NoEntry
        BY <3>2 DEF Drafted, LInv, OnlyProposedKnown
      <4>2. ASSUME NEW c \in Canvases, Known(c)
            PROVE  c.plan # p
        BY <1>2, <4>1, <4>2 DEF RInv, AllCovered, Covered
      <4> QED
        BY <2>2, <4>2 DEF Ahead, SameDraft
    <3>3. CASE Advanced(p, rec)
      <4>1. /\ finals[p] = NoEntry
            /\ newest[p].record.draft.version = records[p].draft.version
        BY <3>3 DEF Advanced, LInv, DraftsCached
      <4>2. ASSUME NEW c \in Canvases, Known(c), c.plan = p
            PROVE  c.body.version <= records[p].draft.version
        BY <1>2, <4>1, <4>2 DEF RInv, AllCovered, Covered
      <4>3. d.body.version = records[p].draft.version + 1
        BY <3>1, <3>3 DEF Advanced
      <4>4. ASSUME NEW c \in Canvases, Known(c)
            PROVE  ~ SameDraft(c, d)
        BY <1>1, <2>2, <4>2, <4>3, <4>4 DEF SameDraft
      <4> QED
        BY <4>4 DEF Ahead
    <3>4. CASE Settled(p, rec)
      BY <3>1, <3>4 DEF Settled
    <3> QED
      BY <1>4, <3>2, <3>3, <3>4
  <2> QED
    BY <2>1, <2>2
<1> QED
  BY <1>3, <1>4 DEF Outcome, OneChange, Changed

(* What an operation leaves anywhere is a copy of what was known, or of a  *)
(* draft that is open now.                                                 *)
LEMMA HandleOrigins ==
    ASSUME AInv, AInv', LInv, NEW i \in Invocations, Handle(i),
           NEW c \in Canvases, Known(c)'
    PROVE  \E d \in Canvases : Origin(c, d)
<1> DEFINE snap == Exported(records', contexts', surfaces')
<1>1. /\ Learn(snap)
      /\ calls' = [calls EXCEPT ![i].phase = "written", ![i].view = snap,
                                ![i].outbox = @ \cup NewCanvases]
      /\ UNCHANGED <<store, delivered>>
  BY DEF Handle
<1>2. /\ calls \in [Invocations -> Calls]
      /\ records' \in [PlanIds -> Records] /\ CoherentMemory'
      /\ surfaces' \subseteq PlanIds
  BY DEF AInv, AdapterTypeOK, ServiceTypeOK, TypeOK
<1>3. /\ snap \in Snapshots
      /\ \A p \in PlanIds :
            /\ snap.records[p].status = records'[p].status
            /\ snap.records[p].draft = RedactedPlan(records'[p].draft)
  BY ExportLearnt
<1> HIDE DEF snap
<1>4. c.plan \in PlanIds
  BY DEF Canvases
<1>5. \A j \in Invocations :
         /\ calls'[j].view = IF j = i THEN snap ELSE calls[j].view
         /\ calls'[j].outbox = IF j = i THEN calls[i].outbox \cup NewCanvases
                                        ELSE calls[j].outbox
  BY <1>1, <1>2 DEF Calls
<1>6. ASSUME Known(c) \/ OpenIn(records', c)
      PROVE  Origin(c, c)
  <2>1. IsReading(c.body, c.body)
    BY ReadingOfItself DEF Canvases
  <2> QED
    BY <1>6, <2>1 DEF Origin, SameDraft
<1>7. ASSUME OpenIn(snap.records, c)
      PROVE  \E d \in Canvases : Origin(c, d)
  <2> DEFINE plan == records'[c.plan].draft
             d == [plan |-> c.plan, body |-> plan]
  <2>1. plan \in Plans
    BY <1>2, <1>4 DEF Records
  <2>2. /\ records'[c.plan].status = "draft"
        /\ c.body = RedactedPlan(plan)
    BY <1>3, <1>4, <1>7 DEF OpenIn
  <2>3. d \in Canvases /\ d.plan = c.plan /\ d.body = plan
    BY <1>4, <2>1 DEF Canvases
  <2> HIDE DEF d
  <2>4. SameDraft(c, d) /\ IsReading(c.body, d.body)
    BY <2>1, <2>2, <2>3, RedactedPlans, ReadingOfExport DEF SameDraft
  <2>5. OpenIn(records', d)
    BY <2>2, <2>3 DEF OpenIn
  <2> QED
    BY <2>3, <2>4, <2>5 DEF Origin
<1>8. CASE CachedDraft(c)'
  <2>1. newest'[c.plan].record = snap.records[c.plan] \/ newest'[c.plan] = newest[c.plan]
    BY <1>1, <1>3, <1>4, <1>8, LearntDraft DEF CachedDraft
  <2>2. CASE newest'[c.plan].record = snap.records[c.plan]
    BY <1>7, <1>8, <2>2 DEF CachedDraft, OpenIn
  <2>3. CASE newest'[c.plan] = newest[c.plan]
    BY <1>6, <1>8, <2>3 DEF CachedDraft, Known
  <2> QED
    BY <2>1, <2>2, <2>3
<1>9. ASSUME NEW j \in Invocations, OpenIn(calls'[j].view.records, c)
      PROVE  \E d \in Canvases : Origin(c, d)
  BY <1>5, <1>6, <1>7, <1>9 DEF Known, OnItsWay
<1>10. ASSUME NEW j \in Invocations, c \in calls'[j].outbox
       PROVE  \E d \in Canvases : Origin(c, d)
  <2>1. CASE c \in calls[j].outbox
    BY <1>6, <2>1 DEF Known, OnItsWay
  <2>2. CASE c \in NewCanvases
    <3>1. PICK p \in surfaces' : c = [plan |-> p, body |-> records'[p].draft]
      BY <2>2 DEF NewCanvases
    <3>2. records'[p].status = "draft"
      BY <1>2, <3>1 DEF CoherentMemory, Coherent
    <3>3. OpenIn(records', c)
      BY <3>1, <3>2 DEF OpenIn
    <3> QED
      BY <1>6, <3>3
  <2> QED
    BY <1>5, <1>10, <2>1, <2>2
<1>11. CASE c \in delivered' \/ OpenIn(records', c) \/ OpenIn(store'.records, c)
  BY <1>1, <1>6, <1>11 DEF Known, OnItsWay
<1> QED
  BY <1>8, <1>9, <1>10, <1>11 DEF Known, OnItsWay

(* A canvas that is new on its way shows an open draft ahead of every copy. *)
LEMMA NewCanvasesAhead ==
    ASSUME AInv, AInv', LInv, RInv, NEW i \in Invocations, Handle(i), Outcome,
           NEW c \in Canvases, OnItsWay(c)'
    PROVE  OnItsWay(c) \/ (OpenIn(records', c) /\ Ahead(c))
<1>1. /\ calls \in [Invocations -> Calls] /\ CoherentMemory'
      /\ surfaces' \subseteq PlanIds
  BY DEF AInv, AdapterTypeOK, ServiceTypeOK
<1>2. /\ delivered' = delivered
      /\ \A j \in Invocations : calls'[j].outbox \subseteq calls[j].outbox \cup NewCanvases
  BY <1>1 DEF Handle, Calls
<1>3. OnItsWay(c) \/ c \in NewCanvases
  BY <1>2 DEF OnItsWay
<1>4. ASSUME c \in NewCanvases
      PROVE  OpenIn(records', c) /\ Ahead(c)
  <2>1. PICK p \in surfaces' : /\ c = [plan |-> p, body |-> records'[p].draft]
                              /\ records'[p].draft # records[p].draft
    BY <1>4 DEF NewCanvases
  <2>2. records'[p].status = "draft"
    BY <1>1, <2>1 DEF CoherentMemory, Coherent
  <2>3. OpenIn(records', c) /\ c.plan = p
    BY <2>1, <2>2 DEF OpenIn
  <2> QED
    BY <2>1, <2>3, OpenDraftsAhead
<1> QED
  BY <1>3, <1>4

(* An operation keeps the readings, and runs one of what the user saw.     *)
LEMMA HandleKeepsReadings ==
    ASSUME AInv, AInv', LInv, RInv, NEW i \in Invocations, Handle(i)
    PROVE  RInv'
<1> DEFINE snap == Exported(records', contexts', surfaces')
<1>1. /\ ServiceTypeOK /\ CoherentMemory /\ CacheTypes /\ CacheTypes'
      /\ delivered \subseteq shown /\ shown \subseteq Canvases
      /\ records \in [PlanIds -> Records] /\ execs \in Seq(Executions)
      /\ records' \in [PlanIds -> Records]
  BY DEF AInv, AdapterTypeOK, ServiceTypeOK, TypeOK, CacheTypes
<1>2. /\ Outcome /\ snap \in Snapshots
      /\ \A p \in PlanIds :
            /\ snap.records[p].status = records'[p].status
            /\ snap.records[p].draft.version = records'[p].draft.version
            /\ Forward(p) /\ Agrees(snap.records[p], p)
  BY ExportLearnt
<1> HIDE DEF snap
<1>3. \A c \in Canvases : Known(c)' => \E d \in Canvases : Origin(c, d)
  BY HandleOrigins
<1>4. CanvasesRead'
  <2>1. ASSUME NEW d \in Canvases, OpenIn(records', d)
        PROVE  Known(d) \/ Ahead(d)
    BY <1>2, <2>1, OpenDraftsAhead DEF Known, OpenIn
  <2>2. \A c \in Canvases :
           OnItsWay(c)' => OnItsWay(c) \/ (OpenIn(records', c) /\ Ahead(c))
    BY <1>2, NewCanvasesAhead
  <2> QED
    BY <1>3, <2>1, <2>2, ReadingsKept DEF RInv
<1>5. AllCovered'
  <2>1. ASSUME NEW c \in Canvases, Known(c)'
        PROVE  Covered(c)'
    <3>1. PICK d \in Canvases : Origin(c, d)
      BY <1>3, <2>1
    <3>2. d.plan \in PlanIds /\ d.plan = c.plan /\ d.body.version = c.body.version
      BY <3>1 DEF Origin, SameDraft, Canvases
    <3>3. Covered(d)'
      <4>1. CASE Known(d)
        <5>1. Covered(d) /\ Forward(d.plan)
          BY <1>2, <3>2, <4>1 DEF RInv, AllCovered
        <5> QED
          BY <1>1, <5>1, CoveredKept
      <4>2. CASE OpenIn(records', d)
        <5>1. /\ newest'[d.plan].record.status = "draft"
              /\ newest'[d.plan].record.draft.version = d.body.version
          BY <1>2, <3>2, <4>2 DEF Agrees, OpenIn
        <5>2. d.body.version \in Nat
          BY DEF Canvases, Plans
        <5> QED
          BY <5>1, <5>2 DEF Covered
      <4> QED
        BY <3>1, <4>1, <4>2 DEF Origin
    <3> QED
      BY <3>2, <3>3 DEF Covered
  <2> QED
    BY <2>1 DEF AllCovered
<1>6. ExecutedAsShownButRedacted'
  <2>1. CASE execs' = execs
    BY <2>1 DEF RInv, ExecutedAsShownButRedacted
  <2>2. ASSUME NEW c \in delivered, NEW e \in Executions,
               records[c.plan].status = "draft",
               c.body.version = records[c.plan].draft.version,
               e.seen = c.body, e.ran = records[c.plan].draft,
               execs' = Append(execs, e)
        PROVE  ExecutedAsShownButRedacted'
    <3> DEFINE d == [plan |-> c.plan, body |-> records[c.plan].draft]
    <3>1. /\ d \in Canvases /\ c \in Canvases
          /\ d.plan = c.plan /\ d.body = records[c.plan].draft
      BY <1>1 DEF Canvases, Records
    <3> HIDE DEF d
    <3>2. OnItsWay(c) /\ Known(d) /\ SameDraft(c, d)
      BY <2>2, <3>1 DEF Known, OnItsWay, OpenIn, SameDraft
    <3>3. IsReading(e.ran, e.seen)
      BY <2>2, <3>1, <3>2 DEF RInv, CanvasesRead
    <3>4. /\ DOMAIN execs' = 1..(Len(execs) + 1)
          /\ DOMAIN execs = 1..Len(execs) /\ Len(execs) \in Nat
          /\ \A k \in DOMAIN execs : execs'[k] = execs[k]
          /\ execs'[Len(execs) + 1] = e
      BY <1>1, <2>2
    <3> QED
      BY <3>3, <3>4 DEF RInv, ExecutedAsShownButRedacted
  <2>3. Operation
    BY DEF Handle
  <2> QED
    BY <1>1, <2>1, <2>2, <2>3, ExecutedFromDelivered
<1> QED
  BY <1>4, <1>5, <1>6 DEF RInv

(* A session without plans knows no draft.                                 *)
LEMMA RInvInit == AInit => RInv
<1> SUFFICES ASSUME AInit
             PROVE  RInv
  OBVIOUS
<1>1. /\ \A p \in PlanIds : records[p].status = "none"
      /\ \A p \in PlanIds : newest[p].record.status = "none"
      /\ delivered = {} /\ execs = <<>> /\ calls = [i \in Invocations |-> NoCall]
  BY DEF AInit, SInit, Init, NoRecord, NoCache, NoEntry
<1>2. NoCall.outbox = {} /\ NoCall.view.records = NoRecords
  BY DEF NoCall, NoSnapshot
<1>3. store.records = NoRecords
  BY DEF AInit, NoSnapshot
<1>4. \A p \in PlanIds : NoRecords[p].status = "none"
  BY DEF NoRecords, NoRecord
<1>5. ASSUME NEW c \in Canvases
      PROVE  ~ Known(c)
  BY <1>1, <1>2, <1>3, <1>4 DEF Known, OnItsWay, OpenIn, CachedDraft, Canvases
<1> QED
  BY <1>1, <1>5 DEF RInv, CanvasesRead, AllCovered, ExecutedAsShownButRedacted

(* One step per action; nothing crashes.                                   *)
LEMMA RInvNext ==
    ASSUME ~ Crashes, AInv, AInv', LInv, RInv, [ANext]_avars
    PROVE  RInv'
<1>1. CASE UNCHANGED avars
  <2>1. CacheTypes /\ CacheTypes'
    BY DEF AInv, AdapterTypeOK, CacheTypes
  <2>2. /\ execs' = execs /\ UNCHANGED <<finals, newest>>
        /\ \A c \in Canvases : /\ Known(c)' => Known(c)
                               /\ OnItsWay(c)' => OnItsWay(c)
    BY <1>1 DEF avars, svars, vars, Known, OnItsWay, CachedDraft
  <2>3. \A p \in PlanIds : Forward(p)
    BY <2>2, ForwardStill
  <2> QED
    BY <2>1, <2>2, <2>3, NothingNew
<1>2. CASE ANext
  BY <1>2, MovesKeepReadings, RestoreKeepsReadings, HandleKeepsReadings
     DEF ANext, Crash
<1> QED
  BY <1>1, <1>2

(* What runs is what the user saw, but for what exports redacted since, in *)
(* every interleaving of invocations with stale copies and whatever an     *)
(* export makes of a text (_snapshot_preserving_latest_drafts).            *)
THEOREM ExecutedAsShownRedacted ==
    ASSUME ~ Crashes, ~ FreshSession
    PROVE  ASpec => []ExecutedAsShownButRedacted
<1>1. AInit => RInv
  BY RInvInit
<1>2. AInv /\ AInv' /\ LInv /\ RInv /\ [ANext]_avars => RInv'
  BY RInvNext
<1>3. RInv => ExecutedAsShownButRedacted
  BY DEF RInv
<1> QED
  BY <1>1, <1>2, <1>3, AdapterInvariant, LivingInvariant, PTL DEF ASpec

-----------------------------------------------------------------------------
(* One life of each plan.                                                  *)
(*                                                                         *)
(* The caches see one history of a plan where the copies see many.  That a *)
(* restore is no step of it needs one fact more: whatever copy holds a     *)
(* decision of a plan, it is the decision the cache holds.                 *)

SameLife(r, s) == /\ r.status = s.status
                  /\ r.draft.version = s.draft.version
                  /\ r.approvedVersion = s.approvedVersion

CopyAgrees(p, rec) ==
    IsFinal(rec) => finals[p] # NoEntry /\ SameLife(finals[p].record, rec)

OneDecision ==
    \A p \in PlanIds :
       /\ CopyAgrees(p, records[p])
       /\ CopyAgrees(p, store.records[p])
       /\ \A i \in Invocations : CopyAgrees(p, calls[i].view.records[p])

(* A decision that is cached stays the same decision.                      *)
DecisionKept(p) ==
    finals[p] # NoEntry =>
       finals'[p] # NoEntry /\ SameLife(finals'[p].record, finals[p].record)

LifeKept(p) == SameLife(CachedRecord(p)', CachedRecord(p))

(* What is learnt of a plan is what the caches then say of it.             *)
LEMMA LearntLife ==
    ASSUME NEW snap \in Snapshots, Learn(snap), NEW p \in PlanIds
    PROVE  /\ IsFinal(snap.records[p]) =>
                 /\ finals'[p] # NoEntry /\ finals'[p].record = snap.records[p]
                 /\ CachedRecord(p)' = snap.records[p]
           /\ NoOlder(snap.records[p], p) =>
                 finals'[p] = NoEntry /\ CachedRecord(p)' = snap.records[p]
           /\ snap.records[p].status = "none" =>
                 finals'[p] = finals[p] /\ CachedRecord(p)' = CachedRecord(p)
<1>1. ~ IsFinal(NoEntry.record)
  BY DEF NoEntry, NoRecord, IsFinal, Final, Approved
<1>2. /\ IsFinal(snap.records[p]) => finals'[p].record = snap.records[p]
      /\ NoOlder(snap.records[p], p)
            => finals'[p] = NoEntry /\ newest'[p].record = snap.records[p]
      /\ snap.records[p].status = "none"
            => finals'[p] = finals[p] /\ newest'[p] = newest[p]
  BY LearnEffect
<1> HIDE DEF IsFinal, NoOlder
<1> QED
  BY <1>1, <1>2 DEF CachedRecord

(* A draft is bound to no version.                                         *)
LEMMA DraftsUnbound ==
    ASSUME NEW rec, NEW ctx, NEW surface, Coherent(rec, ctx, surface),
           rec.status = "draft"
    PROVE  rec.approvedVersion = 0
BY DEF Coherent, FrozenIsDraft, Approved

(* To learn what the caches already say changes nothing in a plan's life.  *)
LEMMA KnownLifeKept ==
    ASSUME CacheTypes, CachesSound, NEW snap \in Snapshots, CoherentSnapshot(snap),
           Learn(snap), NEW p \in PlanIds, CopyAgrees(p, snap.records[p]),
           snap.records[p].status = "draft" =>
              /\ finals[p] = NoEntry
              /\ newest[p].record.status = "draft"
              /\ newest[p].record.draft.version = snap.records[p].draft.version
    PROVE  LifeKept(p) /\ DecisionKept(p)
<1>1. /\ snap.records[p] \in Records
      /\ snap.records[p].draft.version \in Nat
      /\ snap.records[p].status \in {"draft", "none"} \/ IsFinal(snap.records[p])
  BY DEF Snapshots, Records, Plans, Statuses, IsFinal, Final, Approved
<1>2. CASE snap.records[p].status = "draft"
  <2>1. NoOlder(snap.records[p], p)
    BY <1>1, <1>2 DEF NoOlder
  <2>2. CachedRecord(p)' = snap.records[p] /\ CachedRecord(p) = newest[p].record
    BY <1>2, <2>1, LearntLife DEF CachedRecord
  <2>3. snap.records[p].approvedVersion = 0
    <3>1. Coherent(snap.records[p], snap.contexts[p], p \in snap.surfaces)
      BY EntryType DEF CoherentSnapshot, CoherentEntry
    <3> QED
      BY <1>2, <3>1, DraftsUnbound
  <2>4. newest[p].record.approvedVersion = 0
    <3>1. newest[p] # NoEntry
      BY <1>2 DEF NoEntry, NoRecord
    <3>2. Coherent(newest[p].record, newest[p].context, newest[p].surface)
      BY <3>1 DEF CachesSound, DraftEntry, CoherentEntry
    <3> QED
      BY <1>2, <3>2, DraftsUnbound
  <2> QED
    BY <1>2, <2>2, <2>3, <2>4 DEF LifeKept, SameLife, DecisionKept
<1>3. CASE IsFinal(snap.records[p])
  <2>1. finals[p] # NoEntry /\ SameLife(finals[p].record, snap.records[p])
    BY <1>3 DEF CopyAgrees
  <2>2. /\ finals'[p] # NoEntry /\ finals'[p].record = snap.records[p]
        /\ CachedRecord(p)' = snap.records[p]
    BY <1>3, LearntLife
  <2>3. CachedRecord(p) = finals[p].record
    BY <2>1 DEF CachedRecord
  <2> QED
    BY <2>1, <2>2, <2>3 DEF LifeKept, SameLife, DecisionKept
<1>4. CASE snap.records[p].status = "none"
  <2>1. finals'[p] = finals[p] /\ CachedRecord(p)' = CachedRecord(p)
    BY <1>4, LearntLife
  <2> QED
    BY <2>1 DEF LifeKept, SameLife, DecisionKept
<1> QED
  BY <1>1, <1>2, <1>3, <1>4

(* A restore is no step in the life of any plan.                           *)
LEMMA RestoreKeepsLives ==
    ASSUME AInv, AInv', LInv, RInv, OneDecision, NEW i \in Invocations, Restore(i)
    PROVE  OneDecision' /\ \A p \in PlanIds : LifeKept(p)
<1> DEFINE snap == Corrected(calls[i].view)
<1>1. calls[i].view.present
  BY DEF Restore, LInv, Present
<1>2. LoadMemory(snap) /\ Learn(snap) /\ UNCHANGED <<store, calls>>
  BY <1>1 DEF Restore
<1>3. /\ CacheTypes /\ CachesSound
      /\ calls[i].view \in Snapshots /\ CoherentSnapshot(calls[i].view)
  BY DEF AInv, AdapterTypeOK, CacheTypes, Calls
<1>4. snap \in Snapshots /\ CoherentSnapshot(snap)
  BY <1>3, CorrectedSound
<1>5. ASSUME NEW p \in PlanIds
      PROVE  /\ LifeKept(p) /\ DecisionKept(p)
             /\ CopyAgrees(p, snap.records[p])
  <2>1. CopyAgrees(p, snap.records[p])
    <3>1. snap.records[p] \in {finals[p].record, newest[p].record,
                               calls[i].view.records[p]}
      BY <1>3, CorrectedPlaces
    <3>2. CASE snap.records[p] = finals[p].record
      BY <3>2 DEF CopyAgrees, SameLife, NoEntry, NoRecord, IsFinal, Final, Approved
    <3>3. CASE snap.records[p] = newest[p].record
      <4>1. ~ IsFinal(newest[p].record)
        BY <1>3 DEF CachesSound, DraftEntry, NoEntry, NoRecord, IsFinal, Final, Approved
      <4> QED
        BY <3>3, <4>1 DEF CopyAgrees
    <3>4. CASE snap.records[p] = calls[i].view.records[p]
      BY <3>4 DEF OneDecision
    <3> QED
      BY <3>1, <3>2, <3>3, <3>4
  <2>2. ASSUME snap.records[p].status = "draft"
        PROVE  /\ finals[p] = NoEntry
               /\ newest[p].record.status = "draft"
               /\ newest[p].record.draft.version = snap.records[p].draft.version
    <3> DEFINE c == [plan |-> p, body |-> snap.records[p].draft]
    <3>1. /\ c \in Canvases /\ c.plan = p /\ c.body = snap.records[p].draft
          /\ snap.records[p].draft.version \in Nat
          /\ newest[p].record.draft.version \in Nat
      BY <1>3, <1>4 DEF Canvases, Snapshots, Records, Plans, CacheTypes, Entries
    <3>2. /\ finals[p] = NoEntry
          /\ newest[p].record.draft.version <= snap.records[p].draft.version
      BY <1>3, <2>2, CorrectedDrafts
    <3>3. ~ IsFinal(finals[p].record)
      BY <3>2 DEF NoEntry, NoRecord, IsFinal, Final, Approved
    <3> HIDE DEF c
    <3>4. Known(c)
      <4>1. OpenIn(snap.records, c)
        BY <2>2, <3>1 DEF OpenIn
      <4> QED
        BY <3>1, <4>1, RestoredDraftsKnown
    <3>5. Covered(c)
      BY <3>1, <3>4 DEF RInv, AllCovered
    <3> QED
      BY <3>1, <3>2, <3>3, <3>5 DEF Covered
  <2> HIDE DEF snap
  <2>3. LifeKept(p) /\ DecisionKept(p)
    BY <1>2, <1>3, <1>4, <2>1, <2>2, KnownLifeKept
  <2> QED
    BY <2>1, <2>3
<1> HIDE DEF snap
<1>6. ASSUME NEW p \in PlanIds
      PROVE  /\ CopyAgrees(p, records[p])'
             /\ CopyAgrees(p, store.records[p])'
             /\ \A j \in Invocations : CopyAgrees(p, calls[j].view.records[p])'
  <2>1. records'[p] = snap.records[p]
    BY <1>2 DEF LoadMemory
  <2>2. /\ CopyAgrees(p, store.records[p])
        /\ \A j \in Invocations : CopyAgrees(p, calls[j].view.records[p])
    BY DEF OneDecision
  <2>3. CopyAgrees(p, records[p])'
    BY <1>5, <2>1 DEF CopyAgrees, DecisionKept, SameLife
  <2>4. CopyAgrees(p, store.records[p])'
    BY <1>2, <1>5, <2>2 DEF CopyAgrees, DecisionKept, SameLife
  <2>5. \A j \in Invocations : CopyAgrees(p, calls[j].view.records[p])'
    BY <1>2, <1>5, <2>2 DEF CopyAgrees, DecisionKept, SameLife
  <2> QED
    BY <2>3, <2>4, <2>5
<1> QED
  BY <1>5, <1>6 DEF OneDecision

(* A plan the operation leaves alone is exported as it was.                *)
LEMMA OtherLivesKept ==
    ASSUME AInv, AInv', LInv, OneDecision, NEW i \in Invocations, Handle(i),
           NEW p \in PlanIds, records'[p] = records[p]
    PROVE  LifeKept(p) /\ DecisionKept(p) /\ CopyAgrees(p, records[p])'
<1> DEFINE snap == Exported(records', contexts', surfaces')
<1>1. Learn(snap)
  BY DEF Handle
<1>2. /\ CacheTypes /\ CachesSound
      /\ records' \in [PlanIds -> Records] /\ contexts' \in [PlanIds -> Contexts]
      /\ surfaces' \in SUBSET PlanIds /\ CoherentMemory'
  BY DEF AInv, AdapterTypeOK, ServiceTypeOK, TypeOK, CacheTypes
<1>3. snap \in Snapshots /\ CoherentSnapshot(snap)
  BY <1>2, ExportedSound DEF CoherentMemory
<1>4. SameLife(snap.records[p], records[p])
  BY ExportLearnt DEF SameLife
<1> HIDE DEF snap
<1>5. CopyAgrees(p, snap.records[p])
  BY <1>4 DEF OneDecision, CopyAgrees, SameLife, IsFinal
<1>6. snap.records[p].status = "draft" =>
         /\ finals[p] = NoEntry
         /\ newest[p].record.status = "draft"
         /\ newest[p].record.draft.version = snap.records[p].draft.version
  BY <1>4 DEF LInv, DraftsCached, SameLife
<1>7. LifeKept(p) /\ DecisionKept(p)
  BY <1>1, <1>2, <1>3, <1>5, <1>6, KnownLifeKept
<1>8. CopyAgrees(p, records[p])
  BY DEF OneDecision
<1> QED
  BY <1>7, <1>8 DEF CopyAgrees, DecisionKept, SameLife

(* One step in the life of p.                                              *)
Moved(r, s) ==
    \/ /\ r.status = "none" /\ s.status = "draft"
       /\ s.draft.version \in Nat \ {0} /\ s.approvedVersion = r.approvedVersion
    \/ /\ r.status = "draft" /\ s.status = "draft"
       /\ s.draft.version = r.draft.version + 1
       /\ s.approvedVersion = r.approvedVersion
    \/ /\ r.status = "draft" /\ s.status = "approved"
       /\ s.draft.version = r.draft.version /\ s.approvedVersion = r.draft.version
    \/ /\ r.status = "draft" /\ s.status = "rejected"
       /\ s.draft.version = r.draft.version
       /\ s.approvedVersion = r.approvedVersion

(* The plan the operation changes makes one step from the newest version.  *)
LEMMA ChangedLifeMoves ==
    ASSUME AInv, AInv', LInv, NEW i \in Invocations, Handle(i),
           NEW p \in PlanIds, NEW rec \in Records, records'[p] = rec,
           Drafted(p, rec) \/ Advanced(p, rec) \/ Settled(p, rec)
    PROVE  /\ Moved(CachedRecord(p), CachedRecord(p)')
           /\ DecisionKept(p) /\ CopyAgrees(p, records[p])'
<1> DEFINE snap == Exported(records', contexts', surfaces')
<1>1. Learn(snap)
  BY DEF Handle
<1>2. /\ CacheTypes /\ CachesSound /\ newest[p].record.draft.version \in Nat
      /\ rec.draft.version \in Nat
      /\ Coherent(rec, contexts'[p], p \in surfaces')
  BY DEF AInv, AdapterTypeOK, CacheTypes, Entries, Records, Plans, CoherentMemory
<1>3. /\ snap \in Snapshots /\ Outcome
      /\ SameLife(snap.records[p], rec)
  BY ExportLearnt DEF SameLife
<1> HIDE DEF snap
<1>4. finals[p] = NoEntry
  BY DEF Drafted, Advanced, Settled, LInv, OnlyProposedKnown, DraftsCached
<1>5. DecisionKept(p) /\ CachedRecord(p) = newest[p].record
  BY <1>4 DEF DecisionKept, CachedRecord
<1>6. rec.status = "draft" => NoOlder(snap.records[p], p)
  <2>1. rec.status = "draft" => newest[p].record.draft.version <= rec.draft.version
    BY <1>3, OutcomeDrafts DEF LInv
  <2> QED
    BY <1>3, <2>1 DEF NoOlder, SameLife
<1>7. rec.status \in {"approved", "rejected"} => IsFinal(snap.records[p])
  BY <1>3 DEF SameLife, IsFinal, Final, Approved
<1>8. CachedRecord(p)' = snap.records[p]
  BY <1>1, <1>3, <1>6, <1>7, LearntLife DEF Drafted, Advanced, Settled
<1>9. CopyAgrees(p, records[p])'
  <2>1. IsFinal(rec) => IsFinal(snap.records[p])
    BY <1>3 DEF SameLife, IsFinal
  <2> QED
    BY <1>1, <1>3, <2>1, LearntLife DEF CopyAgrees
<1>10. records[p].status = "draft" =>
          /\ newest[p].record.status = "draft"
          /\ newest[p].record.draft.version = records[p].draft.version
          /\ newest[p].record.approvedVersion = 0
  <2>1. ASSUME newest[p].record.status = "draft"
        PROVE  newest[p].record.approvedVersion = 0
    <3>1. newest[p] # NoEntry
      BY <2>1 DEF NoEntry, NoRecord
    <3>2. Coherent(newest[p].record, newest[p].context, newest[p].surface)
      BY <1>2, <3>1 DEF CachesSound, DraftEntry, CoherentEntry
    <3> QED
      BY <2>1, <3>2, DraftsUnbound
  <2> QED
    BY <2>1 DEF LInv, DraftsCached
<1>11. Moved(newest[p].record, rec)
  <2>1. CASE Drafted(p, rec)
    <3>1. newest[p] = NoEntry
      BY <2>1 DEF Drafted, LInv, OnlyProposedKnown
    <3>2. newest[p].record.status = "none" /\ newest[p].record.approvedVersion = 0
      BY <3>1 DEF NoEntry, NoRecord
    <3>3. rec.approvedVersion = 0
      BY <1>2, <2>1, DraftsUnbound DEF Drafted
    <3> QED
      BY <1>2, <2>1, <3>2, <3>3 DEF Drafted, Moved
  <2>2. CASE Advanced(p, rec)
    <3>1. rec.approvedVersion = 0
      BY <1>2, <2>2, DraftsUnbound DEF Advanced
    <3> QED
      BY <1>10, <2>2, <3>1 DEF Advanced, Moved
  <2>3. CASE Settled(p, rec)
    <3>1. /\ rec.status = "approved" => rec.approvedVersion = rec.draft.version
          /\ rec.status = "rejected" => rec.approvedVersion = 0
      BY <1>2 DEF Coherent, FrozenIsDraft, Approved
    <3> QED
      BY <1>10, <2>3, <3>1 DEF Settled, Moved
  <2> QED
    BY <2>1, <2>2, <2>3
<1> QED
  BY <1>3, <1>5, <1>8, <1>9, <1>11 DEF Moved, SameLife

(* When no plan moves, the lives stutter.                                  *)
LEMMA LivesStutter ==
    ASSUME \A p \in PlanIds : LifeKept(p)
    PROVE  UNCHANGED Session!lvars
BY DEF LifeKept, SameLife, Session!lvars

(* When one plan moves, that is a step of its life.                        *)
LEMMA OneLifeMoves ==
    ASSUME NEW p \in PlanIds, Moved(CachedRecord(p), CachedRecord(p)'),
           \A q \in PlanIds \ {p} : LifeKept(q)
    PROVE  Session!LNext
<1> DEFINE r(q) == CachedRecord(q)
           s(q) == CachedRecord(q)'
           st  == [q \in PlanIds |-> r(q).status]
           st1 == [q \in PlanIds |-> s(q).status]
           vs  == [q \in PlanIds |-> r(q).draft.version]
           vs1 == [q \in PlanIds |-> s(q).draft.version]
           bd  == [q \in PlanIds |-> r(q).approvedVersion]
           bd1 == [q \in PlanIds |-> s(q).approvedVersion]
<1>1. \A q \in PlanIds \ {p} : SameLife(s(q), r(q))
  BY DEF LifeKept
<1>2. Moved(r(p), s(p))
  OBVIOUS
<1> HIDE DEF r, s
<1>3. /\ st1 = [st EXCEPT ![p] = s(p).status]
      /\ vs1 = [vs EXCEPT ![p] = s(p).draft.version]
      /\ bd1 = [bd EXCEPT ![p] = s(p).approvedVersion]
      /\ st[p] = r(p).status /\ vs[p] = r(p).draft.version
      /\ bd[p] = r(p).approvedVersion
      /\ vs1[p] = s(p).draft.version
  BY <1>1 DEF SameLife
<1>4. /\ s(p).approvedVersion = r(p).approvedVersion => bd1 = bd
      /\ s(p).draft.version = r(p).draft.version => vs1 = vs
      /\ s(p).status = r(p).status => st1 = st
  BY <1>1 DEF SameLife
<1> HIDE DEF st, st1, vs, vs1, bd, bd1
<1>5. \/ /\ st[p] = "none" /\ st1 = [st EXCEPT ![p] = "draft"]
         /\ vs1[p] \in Nat \ {0} /\ vs1 = [vs EXCEPT ![p] = vs1[p]] /\ bd1 = bd
      \/ /\ st[p] = "draft" /\ vs1 = [vs EXCEPT ![p] = vs[p] + 1]
         /\ st1 = st /\ bd1 = bd
      \/ /\ st[p] = "draft" /\ st1 = [st EXCEPT ![p] = "approved"]
         /\ bd1 = [bd EXCEPT ![p] = vs[p]] /\ vs1 = vs
      \/ /\ st[p] = "draft" /\ st1 = [st EXCEPT ![p] = "rejected"]
         /\ vs1 = vs /\ bd1 = bd
  BY <1>2, <1>3, <1>4 DEF Moved
<1>6. Session!LDraft(p) \/ Session!LEdit(p) \/ Session!LApprove(p) \/ Session!LReject(p)
  BY <1>5 DEF st, st1, vs, vs1, bd, bd1, r, s, Session!LDraft, Session!LEdit,
     Session!LApprove, Session!LReject
<1> QED
  BY <1>6 DEF Session!LNext

(* An operation is one step in the life of one plan, or none.              *)
LEMMA HandleMovesOneLife ==
    ASSUME AInv, AInv', LInv, OneDecision, NEW i \in Invocations, Handle(i)
    PROVE  OneDecision' /\ [Session!LNext]_(Session!lvars)
<1> DEFINE snap == Exported(records', contexts', surfaces')
<1>1. /\ calls' = [calls EXCEPT ![i].phase = "written", ![i].view = snap,
                                ![i].outbox = @ \cup NewCanvases]
      /\ UNCHANGED store
  BY DEF Handle
<1>2. /\ calls \in [Invocations -> Calls] /\ records \in [PlanIds -> Records]
  BY DEF AInv, AdapterTypeOK, ServiceTypeOK, TypeOK
<1>3. /\ Outcome
      /\ \A p \in PlanIds : SameLife(snap.records[p], records'[p])
  BY ExportLearnt DEF SameLife
<1> HIDE DEF snap
<1>4. ASSUME \A p \in PlanIds : DecisionKept(p) /\ CopyAgrees(p, records[p])'
      PROVE  OneDecision'
  <2>1. ASSUME NEW p \in PlanIds
        PROVE  /\ CopyAgrees(p, store.records[p])'
               /\ \A j \in Invocations : CopyAgrees(p, calls[j].view.records[p])'
    <3>1. /\ CopyAgrees(p, store.records[p])
          /\ \A j \in Invocations : CopyAgrees(p, calls[j].view.records[p])
          /\ DecisionKept(p) /\ CopyAgrees(p, records[p])'
      BY <1>4 DEF OneDecision
    <3>2. CopyAgrees(p, store.records[p])'
      BY <1>1, <3>1 DEF CopyAgrees, DecisionKept, SameLife
    <3>3. ASSUME NEW j \in Invocations
          PROVE  CopyAgrees(p, calls[j].view.records[p])'
      <4>1. CASE j = i
        <5>1. calls'[j].view = snap
          BY <1>1, <1>2, <4>1 DEF Calls
        <5> QED
          BY <1>3, <3>1, <5>1 DEF CopyAgrees, SameLife, IsFinal
      <4>2. CASE j # i
        <5>1. calls'[j] = calls[j]
          BY <1>1, <1>2, <4>2
        <5> QED
          BY <3>1, <5>1 DEF CopyAgrees, DecisionKept, SameLife
      <4> QED
        BY <4>1, <4>2
    <3> QED
      BY <3>2, <3>3
  <2> QED
    BY <1>4, <2>1 DEF OneDecision
<1>5. CASE records' = records
  BY <1>4, <1>5, LivesStutter, OtherLivesKept
<1>6. ASSUME NEW p \in PlanIds, NEW rec \in Records,
             records' = [records EXCEPT ![p] = rec],
             Drafted(p, rec) \/ Advanced(p, rec) \/ Settled(p, rec)
      PROVE  OneDecision' /\ Session!LNext
  <2>1. /\ records'[p] = rec
        /\ \A q \in PlanIds \ {p} : records'[q] = records[q]
    BY <1>2, <1>6
  <2>2. /\ Moved(CachedRecord(p), CachedRecord(p)')
        /\ DecisionKept(p) /\ CopyAgrees(p, records[p])'
    BY <1>6, <2>1, ChangedLifeMoves
  <2>3. \A q \in PlanIds \ {p} :
           LifeKept(q) /\ DecisionKept(q) /\ CopyAgrees(q, records[q])'
    BY <2>1, OtherLivesKept
  <2>4. Session!LNext
    BY <2>2, <2>3, OneLifeMoves
  <2>5. OneDecision'
    BY <1>4, <2>2, <2>3
  <2> QED
    BY <2>4, <2>5
<1> QED
  BY <1>3, <1>5, <1>6 DEF Outcome, OneChange, Changed

(* Loading and storing a state is no step in the life of any plan.         *)
LEMMA MovesKeepLives ==
    ASSUME AInv, OneDecision, NEW i \in Invocations, Begin(i) \/ Commit(i)
    PROVE  OneDecision' /\ \A p \in PlanIds : LifeKept(p)
<1>1. calls \in [Invocations -> Calls]
  BY DEF AInv, AdapterTypeOK
<1>2. UNCHANGED <<records, finals, newest>>
  BY DEF Begin, Commit, svars, vars
<1>3. \A p \in PlanIds : LifeKept(p)
  BY <1>2 DEF LifeKept, SameLife, CachedRecord
<1>4. /\ store' = store \/ store' = calls[i].view
      /\ \A j \in Invocations : calls'[j].view \in {NoCall.view, store, calls[j].view}
  <2>1. CASE Begin(i)
    <3> DEFINE call == [NoCall EXCEPT !.phase = "loaded", !.view = store]
    <3>1. calls' = [calls EXCEPT ![i] = call] /\ UNCHANGED store
      BY <2>1 DEF Begin
    <3>2. call.view = store
      BY DEF NoCall
    <3> HIDE DEF call
    <3> QED
      BY <1>1, <3>1, <3>2
  <2>2. CASE Commit(i)
    <3> DEFINE next == [calls[i] EXCEPT !.phase = "loaded", !.outbox = {}]
    <3>1. PICK ends \in BOOLEAN :
             calls' = [calls EXCEPT ![i] = IF ends THEN NoCall ELSE next]
      BY <2>2 DEF Commit
    <3>2. next.view = calls[i].view
      BY <1>1 DEF Calls
    <3>3. store' = calls[i].view
      BY <2>2 DEF Commit
    <3> HIDE DEF next
    <3> QED
      BY <1>1, <3>1, <3>2, <3>3
  <2> QED
    BY <2>1, <2>2
<1>5. ASSUME NEW p \in PlanIds
      PROVE  /\ CopyAgrees(p, records[p])'
             /\ CopyAgrees(p, store.records[p])'
             /\ \A j \in Invocations : CopyAgrees(p, calls[j].view.records[p])'
  <2>1. ~ IsFinal(NoCall.view.records[p])
    BY DEF NoCall, NoSnapshot, NoRecords, NoRecord, IsFinal, Final, Approved
  <2>2. /\ CopyAgrees(p, records[p]) /\ CopyAgrees(p, store.records[p])
        /\ \A j \in Invocations : CopyAgrees(p, calls[j].view.records[p])
    BY DEF OneDecision
  <2>3. CopyAgrees(p, records[p])'
    BY <1>2, <2>2 DEF CopyAgrees
  <2>4. CopyAgrees(p, store.records[p])'
    BY <1>2, <1>4, <2>2 DEF CopyAgrees
  <2>5. ASSUME NEW j \in Invocations
        PROVE  CopyAgrees(p, calls[j].view.records[p])'
    <3>1. calls'[j].view \in {NoCall.view, store, calls[j].view}
      BY <1>4
    <3> QED
      BY <1>2, <2>1, <2>2, <3>1 DEF CopyAgrees
  <2> QED
    BY <2>3, <2>4, <2>5
<1> QED
  BY <1>3, <1>5 DEF OneDecision

(* Nothing is decided in a session without plans, and its caches show      *)
(* plans that are still to be drafted.                                     *)
LEMMA SessionInit == AInit => OneDecision /\ Session!LInit
<1> SUFFICES ASSUME AInit
             PROVE  OneDecision /\ Session!LInit
  OBVIOUS
<1>1. /\ records = NoRecords /\ store.records = NoRecords
      /\ \A i \in Invocations : calls[i].view.records = NoRecords
      /\ finals = NoCache /\ newest = NoCache
  BY DEF AInit, SInit, Init, NoSnapshot, NoCall, NoRecords
<1>2. \A p \in PlanIds : NoRecords[p] = NoRecord
  BY DEF NoRecords
<1>3. ~ IsFinal(NoRecord)
  BY DEF NoRecord, IsFinal, Final, Approved
<1>4. OneDecision
  BY <1>1, <1>2, <1>3 DEF OneDecision, CopyAgrees
<1>5. /\ NoRecord.status = "none" /\ NoRecord.draft.version = 0
      /\ NoRecord.approvedVersion = 0
  BY DEF NoRecord, NoPlan
<1>6. \A p \in PlanIds : CachedRecord(p) = NoRecord
  BY <1>1 DEF CachedRecord, NoCache, NoEntry
<1>7. Session!LInit
  BY <1>5, <1>6 DEF Session!LInit
<1> QED
  BY <1>4, <1>7

(* One step per action; nothing crashes.                                   *)
LEMMA SessionNext ==
    ASSUME ~ Crashes, AInv, AInv', LInv, RInv, OneDecision, [ANext]_avars
    PROVE  OneDecision' /\ [Session!LNext]_(Session!lvars)
<1>1. CASE UNCHANGED avars
  <2>1. UNCHANGED <<records, store, calls, finals, newest>>
    BY <1>1 DEF avars, svars, vars
  <2>2. OneDecision'
    BY <2>1 DEF OneDecision, CopyAgrees
  <2>3. \A p \in PlanIds : LifeKept(p)
    BY <2>1 DEF LifeKept, SameLife, CachedRecord
  <2> QED
    BY <2>2, <2>3, LivesStutter
<1>2. ASSUME NEW i \in Invocations, Begin(i) \/ Commit(i)
      PROVE  OneDecision' /\ UNCHANGED Session!lvars
  BY <1>2, MovesKeepLives, LivesStutter
<1>3. ASSUME NEW i \in Invocations, Restore(i)
      PROVE  OneDecision' /\ UNCHANGED Session!lvars
  BY <1>3, RestoreKeepsLives, LivesStutter
<1>4. ASSUME NEW i \in Invocations, Handle(i)
      PROVE  OneDecision' /\ [Session!LNext]_(Session!lvars)
  BY <1>4, HandleMovesOneLife
<1> QED
  BY <1>1, <1>2, <1>3, <1>4 DEF ANext, Crash

(* Seen through the caches, overlapping invocations with copies of any age *)
(* live one life of each plan: a restore is no step of it, an operation is *)
(* one step on from the newest version, and a decision is the last one     *)
(* (_remember_finalized_plans, _remember_latest_drafts).                   *)
THEOREM SessionIsOneLife ==
    ASSUME ~ Crashes, ~ FreshSession
    PROVE  ASpec => SessionImplementsLifecycle
<1>1. AInit => RInv /\ OneDecision /\ Session!LInit
  BY RInvInit, SessionInit
<1>2. AInv /\ AInv' /\ LInv /\ RInv /\ OneDecision /\ [ANext]_avars
        => RInv' /\ OneDecision' /\ [Session!LNext]_(Session!lvars)
  BY RInvNext, SessionNext
<1> QED
  BY <1>1, <1>2, AdapterInvariant, LivingInvariant, PTL
     DEF ASpec, SessionImplementsLifecycle, Session!LSpec
=============================================================================
