---------------------------- MODULE EvidenceGate ----------------------------
(***************************************************************************)
(* What the model has seen of the source and which reads it is therefore   *)
(* refused: the projection of the tool history into a request              *)
(* (pico/context/context_projection.py), the working set that is           *)
(* prefetched for a run (working_set.py), the ledger of path revisions and *)
(* the preflight of pico/progress/progress_controller.py, and the work     *)
(* plan that gates discovery (pico/domain/work_plan.py).                   *)
(*                                                                         *)
(* A read is refused when its source is in the last request, so the        *)
(* account of what was sent must not claim more than was sent, over edits, *)
(* compactions, interrupted calls, later runs and later transactions.      *)
(*                                                                         *)
(* Simplifications:                                                        *)
(*   - a file has numbered units, each small enough to be sent whole; its  *)
(*     content is a number, which is also its freshness hash;              *)
(*   - the size of a group of events is 2 when it holds several units, 1   *)
(*     when they were compacted away or when it holds one unit or none;    *)
(*     the ranges of a unit are not modelled;                              *)
(*   - a search quotes lines of one file; inspect_repository and delegate  *)
(*     are searches, too: their output is no read evidence;                *)
(*   - requests in the native event protocol only, not as text prompts;    *)
(*   - of a work item only its status is kept.                             *)
(***************************************************************************)
EXTENDS Selection, FiniteSets

CONSTANTS
    Paths, Units, Items,
    MaxContent,            \* bound on the contents of a file
    MaxItems,              \* MAX_WORK_ITEMS
    Recent,                \* RECENT_EVENT_GROUPS
    Budget,                \* event_char_budget, in sizes of groups
    MaxEvents, MaxBuilds, MaxBatch, MaxRuns  \* bounds

ASSUME FiniteAssumption == IsFiniteSet(Paths) /\ IsFiniteSet(Items)
ASSUME UnitsAssumption == Units \subseteq Nat
ASSUME WindowAssumption == {MaxItems, Recent, Budget} \subseteq Nat \ {0}
ASSUME BoundsAssumption == {MaxContent, MaxEvents, MaxBuilds, MaxBatch, MaxRuns} \subseteq Nat

Contents == 0 .. MaxContent
First == CHOOSE u \in Units : \A v \in Units : u <= v

(* _read_evidence: source that was delivered, with the revision of the     *)
(* path in the ledger and the freshness of the file at that time.          *)
Evidence == [path: Paths, unit: Units, revision: Nat, fresh: Contents]

(* The output of a call: source that is evidence, or that is only quoted.  *)
Groups(records) == [quotes: BOOLEAN, source: SUBSET records]

Statuses == {"orienting", "needs_evidence", "actionable", "decision_due", "implemented",
             "verified", "repair"}

VARIABLES
    content,    \* the files of the shadow
    revision,   \* ledger.path_revisions
    events,     \* session model_events: the source of its groups, oldest first
    prefetch,   \* _prefetched_reads
    visible,    \* _visible_reads
    shown,      \* history: the source in the last request: [path, unit, fresh]
    clipped,    \* history: prefetched source that was cut from the last request
    older,      \* history: evidence in events from before the transaction
    plan,       \* work_plan.items
    active,     \* work_plan.active_id
    phase,      \* ended, building or turn
    refused,    \* history: what the last refused read asked for: [path, units]
    decided,    \* history: items on which the last step decided
    builds, batch, runs

request == <<visible, shown, clipped>>
context == <<events, older, prefetch, request>>
workPlan == <<plan, active, decided>>
bounds == <<builds, batch, runs>>
vars == <<content, revision, context, workPlan, phase, refused, bounds>>

None == "none"
NoRefusal == [path |-> None, units |-> {}]

Init ==
    /\ content = [p \in Paths |-> 0] /\ revision = [p \in Paths |-> 0]
    /\ events = <<>> /\ prefetch = {} /\ visible = {} /\ shown = {}
    /\ clipped = {} /\ older = {}
    /\ plan = <<>> /\ active = None /\ decided = {}
    /\ phase = "ended" /\ refused = NoRefusal
    /\ builds = 0 /\ batch = 0 /\ runs = 0

Delivered(p, units, rev) ==
    {[path |-> p, unit |-> u, revision |-> rev, fresh |-> content[p]] : u \in units}

-----------------------------------------------------------------------------
(* The projection of a request *)

(* discard_stale_read_groups: units whose file has changed are removed,    *)
(* and with its last unit a group; what is quoted stays.  Mutant: the      *)
(* whole history is kept.                                                  *)
AllGroups(g) == g

FreshGroups(g) ==
    LET current(group) == IF group.quotes THEN group.source
                          ELSE {r \in group.source : r.fresh = content[r.path]}
        fresh == [i \in DOMAIN g |-> [quotes |-> g[i].quotes, source |-> current(g[i])]]
    IN  Picked(fresh, {i \in DOMAIN g : g[i].source = {} \/ fresh[i].source # {}})

EvidenceIn(group) == IF group.quotes THEN {} ELSE group.source

(* The newest group of each path keeps its source, however old it is.      *)
Prioritised(g) ==
    {i \in DOMAIN g : \E r \in EvidenceIn(g[i]) :
        \A j \in DOMAIN g : j > i => \A s \in EvidenceIn(g[j]) : s.path # r.path}

Big(group) == Cardinality(group.source) > 1

Size(group, whole) == IF Big(group) /\ whole THEN 2 ELSE 1

TextOf(group, whole) == IF whole \/ ~Big(group) THEN group.source ELSE {}

(* visible_read_coverage of the compacted text: what was left out is no    *)
(* evidence.  Mutant: a group keeps its evidence without its text.         *)
EvidenceOfGroup(group, whole) == EvidenceIn(group)

EvidenceOfText(group, whole) == IF group.quotes THEN {} ELSE TextOf(group, whole)

(* project_model_events: groups from the newest to the oldest, whole while *)
(* they are recent or prioritised and fit, else compacted, until one does  *)
(* not fit at all.                                                         *)
WithGroup(g, i, s) ==
    LET whole == /\ i > Len(g) - Recent \/ i \in Prioritised(g)
                 /\ s.used + Size(g[i], TRUE) <= Budget
        size == Size(g[i], whole)
        text == TextOf(g[i], whole)
    IN  IF s.open /\ s.used + size <= Budget
        THEN [used |-> s.used + size, open |-> TRUE,
              sent |-> IF g[i].quotes THEN s.sent ELSE s.sent \cup text,
              claimed |-> s.claimed \cup EvidenceOfText(g[i], whole)]
        ELSE [s EXCEPT !.open = FALSE]

NothingSent == [used |-> 0, open |-> TRUE, sent |-> {}, claimed |-> {}]

Projection(g) ==
    LET state[k \in 0 .. Len(g)] ==
            IF k = 0 THEN NothingSent ELSE WithGroup(g, Len(g) - k + 1, state[k - 1])
    IN  state[Len(g)]

(* project_current_working_set.  Mutant: the prefetched text stays. *)
PrefetchedText == prefetch

CurrentPrefetch == {r \in prefetch : r.revision = revision[r.path]}

(* _project_runtime_state cuts the text of the working set when the state  *)
(* as a whole exceeds its budget: any part of it may remain.               *)
WorkingSets == SUBSET CurrentPrefetch

Sent(records) == {[path |-> r.path, unit |-> r.unit, fresh |-> r.fresh] : r \in records}

(* build(): the request is sent, and set_visible_tool_outputs takes note.  *)
Build ==
    /\ phase = "building" /\ builds < MaxBuilds
    /\ LET p == Projection(FreshGroups(events))
       IN  /\ visible' = prefetch \cup p.claimed
           /\ \E w \in WorkingSets :
                 shown' = Sent(w \cup p.sent) /\ clipped' = CurrentPrefetch \ w
    /\ phase' = "turn" /\ batch' = 0 /\ builds' = builds + 1
    /\ refused' = NoRefusal /\ decided' = {}
    /\ UNCHANGED <<content, revision, events, older, prefetch, plan, active, runs>>

-----------------------------------------------------------------------------
(* The work plan *)

Tracked == {plan[i].id : i \in DOMAIN plan}

StatusOf(id) ==
    IF id \in Tracked THEN plan[CHOOSE i \in DOMAIN plan : plan[i].id = id].status ELSE None

(* An item of the model's update: whether it names a blocker and a         *)
(* candidate action, and a new assessment that decides on evidence.        *)
Drafts == [id: Items, blocker: BOOLEAN, action: BOOLEAN, assessed: BOOLEAN]

Updates ==
    {drafts \in UNION {[1 .. n -> Drafts] : n \in 1 .. MaxItems} :
        \A i, j \in DOMAIN drafts : drafts[i].id = drafts[j].id => i = j}

Drafted(d) ==
    IF d.blocker THEN "needs_evidence" ELSE IF d.action THEN "actionable" ELSE "orienting"

(* Mutant: any update of an item that waits for a decision decides it. *)
RewordedStatus(d) ==
    IF StatusOf(d.id) \in {"implemented", "verified"} THEN StatusOf(d.id) ELSE Drafted(d)

UpdatedStatus(d) ==
    CASE StatusOf(d.id) \in {"implemented", "verified"} -> StatusOf(d.id)
      [] StatusOf(d.id) = "decision_due" ->
            IF d.assessed /\ d.action THEN "actionable"
            ELSE IF d.assessed /\ d.blocker THEN "needs_evidence" ELSE "decision_due"
      [] OTHER -> Drafted(d)

(* update(): known items keep their place, new ones follow, and the last   *)
(* MaxItems of them stay.                                                  *)
Updated(drafts) ==
    LET updates(id) == {i \in DOMAIN drafts : drafts[i].id = id}
        item(d) == [id |-> d.id, status |-> UpdatedStatus(d)]
        known == [i \in DOMAIN plan |->
                    IF updates(plan[i].id) = {} THEN plan[i]
                    ELSE item(drafts[CHOOSE k \in updates(plan[i].id) : TRUE])]
        new == Picked(drafts, {i \in DOMAIN drafts : drafts[i].id \notin Tracked})
        all == known \o [i \in DOMAIN new |-> item(new[i])]
    IN  SubSeq(all, IF Len(all) > MaxItems THEN Len(all) - MaxItems + 1 ELSE 1, Len(all))

WithStatus(ids, status) ==
    [i \in DOMAIN plan |->
        IF plan[i].id \in ids THEN [plan[i] EXCEPT !.status = status] ELSE plan[i]]

(* bind_evidence: evidence for an item that is not done makes a decision   *)
(* due, for the item the call names or the active one.                     *)
Bound(id) ==
    IF StatusOf(id) \in {"implemented", "verified"} THEN plan ELSE WithStatus({id}, "decision_due")

-----------------------------------------------------------------------------
(* The calls of a turn *)

Calling == phase = "turn" /\ batch < MaxBatch /\ batch' = batch + 1

Requests == [path: Paths, units: SUBSET Units \ {{}}]

(* _visible_source_covers, for every file of the call. *)
Visible(q) ==
    \A u \in q.units : \E r \in visible :
        r.path = q.path /\ r.unit = u /\ r.revision = revision[q.path]

DecisionDue == StatusOf(active) = "decision_due"

(* The call and its output. *)
Record(quotes, source) ==
    /\ Len(events) < MaxEvents
    /\ events' = Append(events, [quotes |-> quotes, source |-> source])
    /\ UNCHANGED <<older, prefetch, request>>

(* Refused by preflight, for its evidence or for the open decision. *)
RefuseRead(q) ==
    /\ Calling
    /\ \/ DecisionDue /\ refused' = NoRefusal
       \/ ~DecisionDue /\ Visible(q) /\ refused' = q
    /\ Record(FALSE, {}) /\ decided' = {}
    /\ UNCHANGED <<content, revision, plan, active, phase, builds, runs>>

Discovered(id) ==
    /\ plan' = Bound(id)
    /\ refused' = NoRefusal /\ decided' = {}
    /\ UNCHANGED <<content, revision, active, phase, builds, runs>>

Read(q, id) ==
    /\ Calling /\ ~DecisionDue /\ ~Visible(q)
    /\ Record(FALSE, Delivered(q.path, q.units, revision[q.path]))
    /\ Discovered(id)

(* search: the lines that match are in the output, without evidence. *)
Search(q, id) ==
    /\ Calling /\ ~DecisionDue
    /\ Record(TRUE, Delivered(q.path, q.units, revision[q.path]))
    /\ Discovered(id)

(* The items that a call which changed files implements, and those that a  *)
(* check, passed or not, speaks of: the ones it names, or a default.       *)
Touched(ids) == IF ids # {} THEN ids ELSE {active}

Checked(ids) ==
    IF ids # {} THEN ids ELSE {id \in Tracked : StatusOf(id) \in {"implemented", "repair"}}

Marked(ids, status) ==
    /\ plan' = WithStatus(ids, status) /\ decided' = ids
    /\ refused' = NoRefusal
    /\ UNCHANGED <<active, phase, builds, runs>>

(* mark_mutation and the receipt of an edit, which shows the new source.   *)
(* Mutant: the path keeps its revision.                                    *)
SameRevision(p) == revision

NextRevision(p) == [revision EXCEPT ![p] = @ + 1]

Edit(q, c, ids) ==
    /\ Calling /\ c # content[q.path]
    /\ content' = [content EXCEPT ![q.path] = c]
    /\ revision' = NextRevision(q.path)
    /\ Record(FALSE, {[r EXCEPT !.fresh = c] :
                         r \in Delivered(q.path, q.units, revision'[q.path])})
    /\ Marked(Touched(ids), "implemented")

(* A command that changes a file; the event has no source in it.  A check  *)
(* that does is no passing one.                                            *)
Command(p, c, ids) ==
    /\ Calling /\ c # content[p]
    /\ content' = [content EXCEPT ![p] = c] /\ revision' = NextRevision(p)
    /\ Record(FALSE, {})
    /\ Marked(Touched(ids), "implemented") \/ Marked(Touched(ids) \cup Checked(ids), "repair")

(* An acceptance check, of the items it names or of those implemented. *)
Verify(ids, passed) ==
    /\ Calling /\ Record(FALSE, {})
    /\ Marked(Checked(ids), IF passed THEN "verified" ELSE "repair")
    /\ UNCHANGED <<content, revision>>

UpdatePlan(drafts, id) ==
    /\ Calling /\ \E i \in DOMAIN drafts : drafts[i].id = id
    /\ plan' = Updated(drafts) /\ active' = id
    /\ decided' = {item \in Items : \E i \in DOMAIN drafts :
                      /\ drafts[i].id = item /\ drafts[i].assessed
                      /\ drafts[i].action \/ drafts[i].blocker}
    /\ Record(FALSE, {}) /\ refused' = NoRefusal
    /\ UNCHANGED <<content, revision, phase, builds, runs>>

(* The next request, or the end of the run.                                *)
EndTurn ==
    /\ phase = "turn" /\ phase' \in {"building", "ended"}
    /\ refused' = NoRefusal /\ decided' = {}
    /\ UNCHANGED <<content, revision, context, plan, active, bounds>>

(* An interrupt or a crash inside a mutating call: the shadow has the      *)
(* change, the ledger and the events do not.                               *)
LostEdit(p, c) ==
    /\ phase = "turn" /\ c # content[p]
    /\ content' = [content EXCEPT ![p] = c] /\ phase' = "ended"
    /\ refused' = NoRefusal /\ decided' = {}
    /\ UNCHANGED <<revision, context, plan, active, bounds>>

(* The last transaction is over and the next one starts: its shadow has    *)
(* whatever the source has by then, its ledger starts over.  An automatic  *)
(* delivery has cleared the events of the session, a command has not.      *)
NewTransaction ==
    /\ content' \in [Paths -> Contents]
    /\ revision' = [p \in Paths |-> 0] /\ plan' = <<>> /\ active' = None
    /\ \/ events' = <<>> /\ older' = {}
       \/ events' = events /\ older' = UNION {EvidenceIn(events[i]) : i \in DOMAIN events}

(* The working set has the beginning of the files the request names, and   *)
(* what else in them is relevant.                                          *)
NewRun(files, units) ==
    /\ phase = "ended" /\ runs < MaxRuns
    /\ First \in units
    /\ NewTransaction \/ UNCHANGED <<content, revision, events, older, plan, active>>
    /\ prefetch' = {[path |-> p, unit |-> u, revision |-> revision'[p], fresh |-> content'[p]] :
                      p \in files, u \in units}
    /\ visible' = {} /\ shown' = {} /\ clipped' = {}
    /\ phase' = "building"
    /\ refused' = NoRefusal /\ decided' = {}
    /\ runs' = runs + 1 /\ batch' = 0 /\ UNCHANGED builds

Ended == phase \in {"ended", "building"} /\ (runs = MaxRuns \/ builds = MaxBuilds) /\ UNCHANGED vars

Next ==
    \/ Build \/ EndTurn \/ Ended
    \/ \E q \in Requests :
          \/ RefuseRead(q)
          \/ \E id \in Items \cup {active} : Read(q, id) \/ Search(q, id)
          \/ \E c \in Contents, ids \in SUBSET Items : Edit(q, c, ids)
    \/ \E p \in Paths, c \in Contents :
          \/ \E ids \in SUBSET Items : Command(p, c, ids)
          \/ LostEdit(p, c)
    \/ \E ids \in SUBSET Items, passed \in BOOLEAN : Verify(ids, passed)
    \/ \E drafts \in Updates, id \in Items : UpdatePlan(drafts, id)
    \/ \E files \in SUBSET Paths, units \in SUBSET Units : NewRun(files, units)

Spec == Init /\ [][Next]_vars

-----------------------------------------------------------------------------
(* Properties *)

(* Types of the state. *)
TypeOK ==
    /\ content \in [Paths -> Contents] /\ revision \in [Paths -> Nat]
    /\ \A i \in DOMAIN events : events[i] \in Groups(Evidence)
    /\ prefetch \subseteq Evidence /\ visible \subseteq Evidence
    /\ clipped \subseteq Evidence /\ older \subseteq Evidence
    /\ shown \subseteq [path: Paths, unit: Units, fresh: Contents]
    /\ \A i \in DOMAIN plan : plan[i].id \in Items /\ plan[i].status \in Statuses
    /\ \A i, j \in DOMAIN plan : plan[i].id = plan[j].id => i = j
    /\ Len(plan) <= MaxItems
    /\ active \in Items \cup {None} /\ decided \subseteq Items \cup {None}
    /\ phase \in {"ended", "building", "turn"}
    /\ Len(events) <= MaxEvents /\ builds <= MaxBuilds /\ batch <= MaxBatch /\ runs <= MaxRuns

InRequest(p, u) == [path |-> p, unit |-> u, fresh |-> content[p]] \in shown

Among(records, p, u) == \E r \in records : r.path = p /\ r.unit = u

(* A read is refused as a repetition only if the model has, in the request *)
(* it answers, the very source the read would return.  Excepted are units  *)
(* of the working set that were cut from this request, and units of which  *)
(* the session holds evidence from before /apply or /discard.              *)
RefusedIsShown ==
    \A u \in refused.units :
        InRequest(refused.path, u) \/ Among(clipped \cup older, refused.path, u)

(* What a request shows of reads, of the receipts of edits and of the      *)
(* working set is the code of the workspace at that time, whatever the     *)
(* session remembers of earlier edits and runs.                            *)
ShownIsCurrent ==
    phase = "turn" /\ batch = 0 => \A s \in shown : s.fresh = content[s.path]

(* A decision that evidence made due stays due until the model assesses    *)
(* the evidence, or the item is changed or verified; rewording its plan    *)
(* does not do (work_plan.py, in update).                                  *)
DecisionKept ==
    [][\A i \in DOMAIN plan :
          (/\ plan[i].status = "decision_due" /\ plan' # <<>>
           /\ \E j \in DOMAIN plan' : plan'[j].id = plan[i].id /\ plan'[j].status # "decision_due")
              => plan[i].id \in decided']_vars
=============================================================================
