---------------------- MODULE DeliveryLifecycleProofs ----------------------
(***************************************************************************)
(* DeliveryLifecycle, for any processes, sessions, runs, transactions,     *)
(* crashes and faults: its types, the leases of its runs, and, when no two *)
(* processes open one session, the truth of its reports and the reach of   *)
(* the work in its shadows.  While one process works at a time and no call *)
(* fails, a run that committed is also reported as delivered.              *)
(*                                                                         *)
(* Four invariants, each a predicate of one process and of the disk:       *)
(* LeaseInv (which step holds which lease), DeliveryInv (what a process    *)
(* may hold of a transaction against its journal), ShadowInv (which trees  *)
(* a pointer must name) and ReportInv (what becomes of a committed run).   *)
(* What a step of a process p does to all but p is said once, by Confined, *)
(* LeaseKept, TxnStep, SessionStep, TreeStep and Leaves, and these suffice *)
(* for the other processes.  Each fact about the steps is proved in three  *)
(* lemmas, for opening a session (Open...), for the bootstrap and the work *)
(* of a run (Bootstrap...), and for its end, apply and discard             *)
(* (Deliver...).                                                           *)
(***************************************************************************)
EXTENDS DeliveryLifecycle, TLAPS

(* TypeOK in four parts, for small obligations.                            *)
TxnTypes ==
    /\ record \in [Txns -> TxnStates \cup {"NONE"}]
    /\ journal \in [Txns -> {"NONE", "COMMITTING", "COMMIT_FAILED", "COMMITTED"}]
    /\ staged \in [Txns -> {"none", "clean", "edited"}]
    /\ shadow \in [Txns -> {"none", "clean", "edited"}]
    /\ author \in [Txns -> Runs \cup {None}]

StoreTypes ==
    /\ pointer \in [Sessions -> Txns \cup {None}]
    /\ run \in [Runs -> Tasks]
    /\ lease \in [Runs -> Procs \cup {Nobody}]
    /\ crashes \in 0..MaxCrashes /\ faults \in 0..MaxFaults

ContextTypes ==
    /\ pc \in [Procs -> Steps] /\ fresh \in [Procs -> BOOLEAN]
    /\ ctx \in [Procs -> Txns \cup {None}]
    /\ held \in [Procs -> TxnStates \cup {"NONE"}]

RunTypes ==
    /\ cur \in [Procs -> Runs \cup {None}] /\ task \in [Procs -> Tasks]
    /\ mutating \in [Procs -> BOOLEAN] /\ todo \in [Procs -> SUBSET Runs]
    /\ claim \in [Procs -> [run : Runs \cup {None}, txn : Txns \cup {None}]]

LEMMA TaskParts ==
    ASSUME NEW s \in Statuses, NEW t \in Txns \cup {None}, NEW d \in BOOLEAN
    PROVE  Task(s, t, d) \in Tasks
BY DEF Task, Tasks

LEMMA NoTaskParts ==
    /\ NoTask \in Tasks
    /\ NoTask.status = "none" /\ NoTask.txn = None /\ ~NoTask.delivered
    /\ NoClaim \in [run : Runs \cup {None}, txn : Txns \cup {None}]
    /\ NoClaim.run = None /\ NoClaim.txn = None
BY DEF NoTask, NoClaim, Statuses, Task, Tasks

LEMMA LoadedType ==
    ASSUME TypeOK, NEW t \in Txns
    PROVE  Loaded(t) \in TxnStates \cup {"NONE"}
BY DEF TypeOK, Loaded, TxnStates, Uncertain, Interruptible, Terminal

LEMMA StatesListed ==
    /\ TxnStates = {"ACTIVE", "STAGED", "VALIDATING", "INTERRUPTED",
           "COMMITTING", "COMMIT_FAILED", "RECOVERY_REQUIRED", "COMMITTED",
           "DISCARDED", "READY_FOR_REVIEW", "CONFLICTED"}
    /\ Steps = {"down", "idle", "report", "restore", "scan", "claim", "settle",
           "close", "begin", "prepare", "point", "bind", "greet", "work",
           "finish", "finalize", "validate", "halt", "outcome", "write",
           "abort", "commit", "recheck", "apply", "seal", "restoreView"}
BY DEF TxnStates, Uncertain, Interruptible, Terminal, Steps, OpenSteps,
       AskSteps, CommitSteps

LEMMA InitTypes == Init => TypeOK
BY IdAssumption, BoundAssumption, StatesListed
   DEF Init, TypeOK, Statuses, Tasks, Task, NoTask, NoClaim, None

LEMMA ExitTypes ==
    ASSUME TypeOK, NEW p \in Procs, Exit(p)
    PROVE  ContextTypes' /\ RunTypes' /\ lease' \in [Runs -> Procs \cup {Nobody}]
<1>1. ContextTypes'
  BY IdAssumption, StatesListed DEF TypeOK, Exit, ContextTypes, Go
<1>2. RunTypes'
  BY IdAssumption, NoTaskParts DEF TypeOK, Exit, RunTypes
<1>3. lease' \in [Runs -> Procs \cup {Nobody}]
  BY DEF TypeOK, Exit
<1> QED BY <1>1, <1>2, <1>3

LEMMA InterruptContextTypes ==
    ASSUME TypeOK, NEW p \in Procs, InterruptContext(p)
    PROVE  TxnTypes' /\ held' \in [Procs -> TxnStates \cup {"NONE"}]
<1> DEFINE s == Interrupted(held[p])
<1>1. s \in TxnStates \cup {"NONE"}
  BY StatesListed DEF Interrupted, TypeOK
<1>2. held' = [held EXCEPT ![p] = s]
  BY DEF InterruptContext
<1>3. record' = record \/ record' = [record EXCEPT ![ctx[p]] = s]
  BY DEF InterruptContext
<1>4. UNCHANGED <<journal, staged, shadow, author>>
  BY DEF InterruptContext
<1> HIDE DEF s
<1> QED BY <1>1, <1>2, <1>3, <1>4 DEF TypeOK, TxnTypes

LEMMA SavedTypes ==
    ASSUME TypeOK, NEW p \in Procs, NEW t \in Txns \cup {None}, Saved(p, t)
    PROVE  /\ pointer' \in [Sessions -> Txns \cup {None}]
           /\ fresh' \in [Procs -> BOOLEAN]
           /\ faults' \in 0..MaxFaults
BY DEF TypeOK, Saved

LEMMA FaultTypes == ASSUME TypeOK, Fault PROVE faults' \in 0..MaxFaults
BY BoundAssumption DEF TypeOK, Fault

LEMMA ExistingType == Existing \in SUBSET Runs
BY DEF Existing

LEMMA OpenTypes ==
    ASSUME TypeOK, NEW p \in Procs, Start(p) \/ Open(p)
    PROVE  TypeOK'
<1> SUFFICES TxnTypes' /\ StoreTypes' /\ ContextTypes' /\ RunTypes'
  BY DEF TypeOK, TxnTypes, StoreTypes, ContextTypes, RunTypes
<1> USE IdAssumption, BoundAssumption, StatesListed
<1> USE DEF TypeOK, Go, Pointed
<1>1. CASE Start(p)
  BY <1>1 DEF Start, disk, bounds, TxnTypes, StoreTypes, ContextTypes, RunTypes
<1>2. CASE RestoreNothing(p)
  BY <1>2 DEF RestoreNothing, disk, bounds, Existing, TxnTypes, StoreTypes,
     ContextTypes, RunTypes
<1>3. CASE RestoreTerminal(p)
  <2>1. TxnTypes'
    BY <1>3, LoadedType DEF RestoreTerminal, TxnTypes
  <2>2. StoreTypes'
    BY <1>3, ExitTypes, SavedTypes, FaultTypes DEF RestoreTerminal, StoreTypes
  <2>3. ContextTypes'
    BY <1>3, ExitTypes, SavedTypes, FaultTypes DEF RestoreTerminal, ContextTypes
  <2>4. RunTypes'
    <3>1. CASE Exit(p)
      BY <3>1, ExitTypes
    <3>2. CASE UNCHANGED <<cur, task, mutating, claim>> /\ todo' = [todo EXCEPT ![p] = Existing]
      BY <3>2, ExistingType DEF RunTypes
    <3> QED BY <1>3, <3>1, <3>2 DEF RestoreTerminal
  <2> QED BY <2>1, <2>2, <2>3, <2>4
<1>4. CASE RestoreUnavailable(p)
  <2>1. TxnTypes'
    BY <1>4, LoadedType DEF RestoreUnavailable, TxnTypes
  <2>2. StoreTypes' /\ ContextTypes' /\ RunTypes'
    BY <1>4, ExitTypes DEF RestoreUnavailable, StoreTypes, bounds
  <2> QED BY <2>1, <2>2
<1>5. CASE RestoreContext(p)
  <2>1. TxnTypes'
    BY <1>5, LoadedType DEF RestoreContext, TxnTypes
  <2>2. StoreTypes' /\ RunTypes'
    BY <1>5 DEF RestoreContext, bounds, StoreTypes, RunTypes, Existing
  <2>3. ContextTypes'
    BY <1>5, LoadedType DEF RestoreContext, ContextTypes
  <2> QED BY <2>1, <2>2, <2>3
<1>6. ASSUME NEW r \in Runs, Examine(p, r)
      PROVE TxnTypes' /\ StoreTypes' /\ ContextTypes' /\ RunTypes'
  <2>1. TxnTypes' /\ StoreTypes' /\ ContextTypes'
    BY <1>6 DEF Examine, disk, bounds, TxnTypes, StoreTypes, ContextTypes
  <2>2. RunTypes'
    <3>1. run[r].txn \in Txns \cup {None}
      BY DEF Tasks
    <3>2. [run |-> r, txn |-> run[r].txn] \in [run : Runs \cup {None}, txn : Txns \cup {None}]
      BY <3>1
    <3>3. claim' \in [Procs -> [run : Runs \cup {None}, txn : Txns \cup {None}]]
      <4> DEFINE C == [run : Runs \cup {None}, txn : Txns \cup {None}]
                 c == [run |-> r, txn |-> run[r].txn]
      <4>1. claim' = claim \/ claim' = [claim EXCEPT ![p] = c]
        BY <1>6 DEF Examine
      <4>2. c \in C /\ claim \in [Procs -> C]
        BY <3>2
      <4> HIDE DEF C, c
      <4>3. claim' \in [Procs -> C]
        BY <4>1, <4>2
      <4> QED BY <4>3 DEF C
    <3>4. todo' \in [Procs -> SUBSET Runs]
      BY <1>6 DEF Examine
    <3>5. UNCHANGED <<cur, task, mutating>>
      BY <1>6 DEF Examine
    <3> QED BY <3>3, <3>4, <3>5 DEF RunTypes
  <2> QED BY <2>1, <2>2
<1>7. CASE Claim(p)
  <2>1. TxnTypes' /\ StoreTypes' /\ ContextTypes'
    <3>1. TxnTypes'
      BY <1>7 DEF Claim, disk, TxnTypes
    <3>2. StoreTypes'
      BY SMTT(30), <1>7 DEF Claim, disk, bounds, StoreTypes
    <3>3. ContextTypes'
      <4>1. Go(p, "settle") \/ Go(p, "scan")
        BY <1>7 DEF Claim
      <4>2. UNCHANGED <<fresh, ctx, held>>
        BY <1>7 DEF Claim
      <4> QED BY <4>1, <4>2 DEF ContextTypes
    <3> QED BY <3>1, <3>2, <3>3
  <2>2. RunTypes'
    BY <1>7, NoTaskParts DEF Claim, RunTypes
  <2> QED BY <2>1, <2>2
<1>8. CASE SettleOrphan(p)
  <2>1. claim[p].txn \in Txns \cup {None}
    OBVIOUS
  <2>2. TxnTypes'
    <3>1. CASE UNCHANGED txnDisk
      BY <3>1 DEF txnDisk, TxnTypes
    <3>2. CASE InterruptContext(p)
      BY <3>2, InterruptContextTypes
    <3>3. CASE claim[p].txn # None /\ Settle(claim[p].txn, Interrupted(Loaded(claim[p].txn)))
      <4>1. Interrupted(Loaded(claim[p].txn)) \in TxnStates \cup {"NONE"}
        BY <3>3, <2>1, LoadedType DEF Interrupted
      <4> QED BY <4>1, <3>3 DEF Settle, TxnTypes
    <3> QED BY <1>8, <3>1, <3>2, <3>3 DEF SettleOrphan
  <2>3. StoreTypes'
    BY <1>8, FaultTypes DEF SettleOrphan, StoreTypes
  <2>4. ContextTypes'
    BY <1>8, InterruptContextTypes DEF SettleOrphan, ContextTypes
  <2>5. RunTypes'
    <3>1. \E k \in Tasks : task' = [task EXCEPT ![p] = k]
      BY <1>8, <2>1, TaskParts DEF SettleOrphan, Statuses
    <3>2. UNCHANGED <<cur, mutating, todo, claim>>
      BY <1>8 DEF SettleOrphan
    <3> QED BY <3>1, <3>2 DEF RunTypes
  <2> QED BY <2>2, <2>3, <2>4, <2>5
<1>9. CASE CloseOrphan(p)
  <2>1. TxnTypes'
    BY <1>9 DEF CloseOrphan, txnDisk, TxnTypes
  <2>2. StoreTypes'
    BY SMTT(30), <1>9, ExitTypes, SavedTypes, FaultTypes DEF CloseOrphan, StoreTypes
  <2>3. ContextTypes'
    <3>1. CASE Exit(p)
      BY <3>1, ExitTypes
    <3>2. CASE ~Exit(p)
      <4>1. Go(p, "scan") /\ UNCHANGED <<fresh, ctx, held>>
        BY <1>9, <3>2 DEF CloseOrphan
      <4> QED BY <4>1 DEF ContextTypes
    <3> QED BY <3>1, <3>2
  <2>4. RunTypes'
    <3>1. CASE Exit(p)
      BY <3>1, ExitTypes
    <3>2. CASE ~Exit(p)
      <4>1. /\ task' = [task EXCEPT ![p] = NoTask] /\ claim' = [claim EXCEPT ![p] = NoClaim]
            /\ UNCHANGED <<cur, mutating, todo>>
        BY <1>9, <3>2 DEF CloseOrphan
      <4> QED BY <4>1, NoTaskParts DEF RunTypes
    <3> QED BY <3>1, <3>2
  <2> QED BY <2>1, <2>2, <2>3, <2>4
<1>10. CASE Opened(p)
  <2>1. TxnTypes'
    BY <1>10 DEF Opened, txnDisk, TxnTypes
  <2>2. StoreTypes'
    <3>1. lease' \in [Runs -> Procs \cup {Nobody}]
      BY <1>10, ExitTypes DEF Opened
    <3>2. pointer' \in [Sessions -> Txns \cup {None}] /\ faults' \in 0..MaxFaults
      BY <1>10, SavedTypes, FaultTypes DEF Opened
    <3>3. UNCHANGED <<run, crashes>>
      BY <1>10 DEF Opened
    <3> QED BY <3>1, <3>2, <3>3 DEF StoreTypes
  <2>3. ContextTypes'
    <3>1. CASE Exit(p)
      BY <3>1, ExitTypes
    <3>2. CASE ~Exit(p)
      <4>1. Saved(p, Pointed(p)) /\ Go(p, "idle") /\ UNCHANGED <<ctx, held>>
        BY <1>10, <3>2 DEF Opened
      <4> QED BY <4>1, SavedTypes DEF ContextTypes
    <3> QED BY <3>1, <3>2
  <2>4. RunTypes'
    BY <1>10, ExitTypes, SavedTypes, FaultTypes DEF Opened, RunTypes
  <2> QED BY <2>1, <2>2, <2>3, <2>4
<1> QED BY <1>1, <1>2, <1>3, <1>4, <1>5, <1>6, <1>7, <1>8, <1>9, <1>10 DEF Open

LEMMA SaveSessionTypes ==
    ASSUME TypeOK, NEW p \in Procs, NEW from \in Steps, NEW to \in Steps,
           SaveSession(p, from, to)
    PROVE  TxnTypes' /\ StoreTypes' /\ ContextTypes' /\ RunTypes'
<1> USE DEF TypeOK, Go, Pointed
<1>1. TxnTypes' /\ RunTypes'
  BY DEF SaveSession, txnDisk, TxnTypes, RunTypes
<1>2. StoreTypes' /\ fresh' \in [Procs -> BOOLEAN]
  BY FaultTypes, SavedTypes DEF SaveSession, SaveFails, StoreTypes
<1>3. ContextTypes'
  BY <1>2, StatesListed DEF SaveSession, Raise, ContextTypes
<1> QED BY <1>1, <1>2, <1>3

LEMMA BootstrapTypes ==
    ASSUME TypeOK, NEW p \in Procs,
           \/ \E r \in Runs, m \in BOOLEAN : Ask(p, r, m)
           \/ Bootstrap(p) \/ LeaveWork(p) \/ Edit(p) \/ Break(p)
           \/ SaveSession(p, "work", "work")
    PROVE  TypeOK'
<1> SUFFICES TxnTypes' /\ StoreTypes' /\ ContextTypes' /\ RunTypes'
  BY DEF TypeOK, TxnTypes, StoreTypes, ContextTypes, RunTypes
<1> USE IdAssumption, BoundAssumption, StatesListed
<1> USE DEF TypeOK, Go, Pointed
<1>1. ASSUME NEW r \in Runs, NEW m \in BOOLEAN, Ask(p, r, m)
      PROVE  TxnTypes' /\ StoreTypes' /\ ContextTypes' /\ RunTypes'
  <2>1. TxnTypes' /\ StoreTypes'
    BY <1>1 DEF Ask, disk, bounds, TxnTypes, StoreTypes
  <2>2. ContextTypes'
    BY <1>1 DEF Ask, ContextTypes
  <2>3. RunTypes'
    BY <1>1, TaskParts DEF Ask, RunTypes, Statuses
  <2> QED BY <2>1, <2>2, <2>3
<1>2. CASE StartRun(p)
  <2>1. TxnTypes' /\ RunTypes'
    BY <1>2 DEF StartRun, txnDisk, TxnTypes, RunTypes
  <2>2. StoreTypes'
    BY <1>2, FaultTypes DEF StartRun, StoreTypes
  <2>3. ContextTypes'
    BY ZenonT(40), <1>2 DEF StartRun, Raise, ContextTypes
  <2> QED BY <2>1, <2>2, <2>3
<1>3. ASSUME NEW t \in Txns, BeginTransaction(p, t)
      PROVE  TxnTypes' /\ StoreTypes' /\ ContextTypes' /\ RunTypes'
  <2>1. TxnTypes'
    BY ZenonT(40), <1>3 DEF BeginTransaction, TxnTypes
  <2>2. StoreTypes' /\ RunTypes'
    BY <1>3, FaultTypes DEF BeginTransaction, StoreTypes, RunTypes
  <2>3. ContextTypes'
    <3>1. \E step \in Steps : pc' = [pc EXCEPT ![p] = step]
      BY <1>3 DEF BeginTransaction, Raise
    <3>2. \/ UNCHANGED <<ctx, held>>
          \/ /\ ctx' = [ctx EXCEPT ![p] = t]
             /\ held' = [held EXCEPT ![p] = "ACTIVE"]
      BY <1>3 DEF BeginTransaction
    <3>3. UNCHANGED fresh
      BY <1>3 DEF BeginTransaction
    <3>4. pc' \in [Procs -> Steps]
      BY <3>1
    <3>5. ctx' \in [Procs -> Txns \cup {None}] /\ held' \in [Procs -> TxnStates \cup {"NONE"}]
      BY SMTT(30), <3>2
    <3> QED BY <3>3, <3>4, <3>5 DEF ContextTypes
  <2> QED BY <2>1, <2>2, <2>3
<1>4. CASE PointSession(p)
  <2>1. TxnTypes'
    BY SMTT(30), <1>4 DEF PointSession, TxnTypes
  <2>2. StoreTypes' /\ fresh' \in [Procs -> BOOLEAN]
    BY ZenonT(40), <1>4, FaultTypes, SavedTypes
       DEF PointSession, SaveFails, StoreTypes
  <2>3. RunTypes'
    BY <1>4 DEF PointSession, RunTypes
  <2>4. ContextTypes'
    BY ZenonT(40), <1>4, <2>2 DEF PointSession, Raise, ContextTypes
  <2> QED BY <2>1, <2>2, <2>3, <2>4
<1>5. CASE ResumeEditing(p)
  <2>1. TxnTypes'
    BY <1>5 DEF ResumeEditing, TxnTypes
  <2>2. StoreTypes' /\ RunTypes'
    BY <1>5 DEF ResumeEditing, StoreTypes, RunTypes, bounds
  <2>3. ContextTypes'
    BY ZenonT(40), <1>5 DEF ResumeEditing, ContextTypes
  <2> QED BY <2>1, <2>2, <2>3
<1>6. CASE BindRun(p)
  <2>1. TxnTypes'
    BY <1>6 DEF BindRun, txnDisk, TxnTypes
  <2>2. RunTypes'
    BY <1>6, TaskParts DEF BindRun, RunTypes, Statuses
  <2>3. StoreTypes'
    BY ZenonT(40), <1>6, <2>2, FaultTypes DEF BindRun, StoreTypes, RunTypes
  <2>4. ContextTypes'
    BY ZenonT(40), <1>6 DEF BindRun, Raise, ContextTypes
  <2> QED BY <2>1, <2>2, <2>3, <2>4
<1>7. ASSUME NEW from \in Steps, NEW to \in Steps, SaveSession(p, from, to)
      PROVE  TxnTypes' /\ StoreTypes' /\ ContextTypes' /\ RunTypes'
  BY <1>7, SaveSessionTypes
<1>8. CASE LeaveWork(p)
  BY <1>8 DEF LeaveWork, disk, bounds, TxnTypes, StoreTypes, ContextTypes,
     RunTypes
<1>9. CASE Edit(p)
  BY <1>9 DEF Edit, process, bounds, TxnTypes, StoreTypes, ContextTypes,
     RunTypes
<1>10. CASE Break(p)
  BY <1>10, FaultTypes DEF Break, disk, TxnTypes, StoreTypes, ContextTypes,
     RunTypes
<1> QED BY <1>1, <1>2, <1>3, <1>4, <1>5, <1>6, <1>7, <1>8, <1>9, <1>10
   DEF Bootstrap

LEMMA AbortedType ==
    ASSUME TypeOK, NEW p \in Procs
    PROVE  Aborted(p) \in Tasks
<1>1. CASE task[p].status = "closed"
  BY <1>1 DEF Aborted, TypeOK
<1>2. CASE task[p].status # "closed"
  BY <1>2, TaskParts DEF Aborted, TypeOK, Tasks, Statuses
<1> QED BY <1>1, <1>2

LEMMA DeliverTypes ==
    ASSUME TypeOK, NEW p \in Procs, Deliver(p) \/ Apply(p) \/ Discard(p)
    PROVE  TypeOK'
<1> SUFFICES TxnTypes' /\ StoreTypes' /\ ContextTypes' /\ RunTypes'
  BY DEF TypeOK, TxnTypes, StoreTypes, ContextTypes, RunTypes
<1> USE IdAssumption, BoundAssumption, StatesListed
<1> USE DEF TypeOK, Go, Pointed
<1>1. CASE LeavePending(p)
  <2>1. TxnTypes'
    BY <1>1, InterruptContextTypes DEF LeavePending, TxnTypes
  <2>2. StoreTypes' /\ fresh' \in [Procs -> BOOLEAN]
    BY <1>1 DEF LeavePending, StoreTypes, bounds
  <2>3. ContextTypes'
    BY <1>1, <2>2, InterruptContextTypes DEF LeavePending, ContextTypes
  <2>4. RunTypes'
    BY <1>1, TaskParts DEF LeavePending, RunTypes, Statuses, Tasks
  <2> QED BY <2>1, <2>2, <2>3, <2>4
<1>2. CASE Stage(p)
  <2>1. TxnTypes'
    BY <1>2 DEF Stage, TxnTypes
  <2>2. StoreTypes' /\ fresh' \in [Procs -> BOOLEAN]
    BY <1>2 DEF Stage, StoreTypes, bounds
  <2>3. ContextTypes'
    BY <1>2, <2>2 DEF Stage, ContextTypes
  <2>4. RunTypes'
    BY <1>2, TaskParts DEF Stage, RunTypes
  <2> QED BY <2>1, <2>2, <2>3, <2>4
<1>3. CASE Blocked(p)
  <2>1. TxnTypes'
    <3>1. PICK s \in TxnStates : record' = [record EXCEPT ![ctx[p]] = s]
      BY <1>3 DEF Blocked
    <3>2. UNCHANGED <<journal, staged, shadow, author>>
      BY <1>3 DEF Blocked
    <3> QED BY <3>1, <3>2 DEF TxnTypes
  <2>2. StoreTypes' /\ fresh' \in [Procs -> BOOLEAN]
    BY <1>3 DEF Blocked, StoreTypes, bounds
  <2>3. ContextTypes'
    BY <1>3, <2>2 DEF Blocked, ContextTypes
  <2>4. RunTypes'
    BY <1>3, TaskParts DEF Blocked, RunTypes, Statuses, Tasks
  <2> QED BY <2>1, <2>2, <2>3, <2>4
<1>4. CASE Validated(p)
  <2>1. TxnTypes'
    BY <1>4 DEF Validated, TxnTypes
  <2>2. StoreTypes' /\ fresh' \in [Procs -> BOOLEAN]
    BY <1>4 DEF Validated, StoreTypes, bounds
  <2>3. ContextTypes'
    <3>1. pc' \in [Procs -> Steps]
      <4>1. Go(p, "commit") \/ Go(p, "outcome")
        BY <1>4, Zenon DEF Validated
      <4> QED BY <4>1
    <3>2. UNCHANGED ctx /\ held' \in [Procs -> TxnStates \cup {"NONE"}]
      BY <1>4 DEF Validated
    <3> QED BY <2>2, <3>1, <3>2 DEF ContextTypes
  <2>4. RunTypes'
    <3>1. \/ UNCHANGED task
          \/ task' = [task EXCEPT ![p] = Task("closed", @.txn, FALSE)]
      BY <1>4 DEF Validated
    <3>2. task' \in [Procs -> Tasks]
      <4>1. task[p].txn \in Txns \cup {None}
        BY DEF Tasks
      <4>2. Task("closed", task[p].txn, FALSE) \in Tasks
        BY <4>1, TaskParts DEF Statuses
      <4>3. Task("closed", task[p].txn, held[p] = "COMMITTED") \in Tasks
        BY <4>1, TaskParts DEF Statuses
      <4> QED BY <3>1, <4>2, <4>3
    <3>3. UNCHANGED <<cur, mutating, todo, claim>>
      BY <1>4 DEF Validated
    <3> QED BY <3>2, <3>3 DEF RunTypes
  <2> QED BY <2>1, <2>2, <2>3, <2>4
<1>5. CASE Apply(p)
  <2>1. TxnTypes'
    BY <1>5 DEF Apply, TxnTypes, disk
  <2>2. StoreTypes' /\ fresh' \in [Procs -> BOOLEAN]
    BY <1>5 DEF Apply, StoreTypes, bounds, disk
  <2>3. ContextTypes'
    BY <1>5, <2>2 DEF Apply, ContextTypes
  <2>4. RunTypes'
    BY <1>5, TaskParts DEF Apply, RunTypes
  <2> QED BY <2>1, <2>2, <2>3, <2>4
<1>6. CASE Revalidate(p)
  <2>1. TxnTypes'
    BY <1>6 DEF Revalidate, TxnTypes
  <2>2. StoreTypes' /\ fresh' \in [Procs -> BOOLEAN]
    BY <1>6 DEF Revalidate, StoreTypes, bounds
  <2>3. ContextTypes'
    BY <1>6, <2>2 DEF Revalidate, ContextTypes
  <2>4. RunTypes'
    BY <1>6, TaskParts DEF Revalidate, RunTypes
  <2> QED BY <2>1, <2>2, <2>3, <2>4
<1>7. CASE RefuseCommit(p)
  <2>1. TxnTypes'
    BY <1>7 DEF RefuseCommit, TxnTypes
  <2>2. StoreTypes' /\ fresh' \in [Procs -> BOOLEAN]
    BY <1>7 DEF RefuseCommit, StoreTypes, bounds
  <2>3. ContextTypes'
    BY <1>7, <2>2 DEF RefuseCommit, ContextTypes, Raise
  <2>4. RunTypes'
    BY <1>7, TaskParts DEF RefuseCommit, RunTypes
  <2> QED BY <2>1, <2>2, <2>3, <2>4
<1>8. CASE OpenJournal(p)
  <2>1. TxnTypes'
    BY <1>8 DEF OpenJournal, TxnTypes
  <2>2. StoreTypes' /\ fresh' \in [Procs -> BOOLEAN]
    BY <1>8 DEF OpenJournal, StoreTypes, bounds
  <2>3. ContextTypes'
    BY <1>8, <2>2 DEF OpenJournal, ContextTypes
  <2>4. RunTypes'
    BY <1>8, TaskParts DEF OpenJournal, RunTypes
  <2> QED BY <2>1, <2>2, <2>3, <2>4
<1>9. CASE ApplyFails(p)
  <2>1. TxnTypes'
    <3>1. PICK s \in TxnStates : record' = [record EXCEPT ![ctx[p]] = s]
      BY <1>9 DEF ApplyFails
    <3>2. /\ UNCHANGED <<staged, shadow, author>>
          /\ journal' = [journal EXCEPT ![ctx[p]] = "COMMIT_FAILED"]
      BY <1>9 DEF ApplyFails
    <3> QED BY <3>1, <3>2 DEF TxnTypes
  <2>2. StoreTypes' /\ fresh' \in [Procs -> BOOLEAN]
    BY <1>9, FaultTypes DEF ApplyFails, StoreTypes
  <2>3. ContextTypes'
    BY <1>9, <2>2 DEF ApplyFails, ContextTypes, Raise
  <2>4. RunTypes'
    BY <1>9, TaskParts DEF ApplyFails, RunTypes
  <2> QED BY <2>1, <2>2, <2>3, <2>4
<1>10. CASE SealJournal(p)
  <2>1. TxnTypes'
    BY <1>10 DEF SealJournal, TxnTypes
  <2>2. StoreTypes' /\ fresh' \in [Procs -> BOOLEAN]
    BY <1>10 DEF SealJournal, StoreTypes, bounds
  <2>3. ContextTypes'
    BY <1>10, <2>2 DEF SealJournal, ContextTypes
  <2>4. RunTypes'
    BY <1>10, TaskParts DEF SealJournal, RunTypes
  <2> QED BY <2>1, <2>2, <2>3, <2>4
<1>11. CASE SealRecord(p)
  <2>1. TxnTypes'
    BY <1>11 DEF SealRecord, TxnTypes, txnDisk, Settle
  <2>2. StoreTypes' /\ fresh' \in [Procs -> BOOLEAN]
    BY <1>11, FaultTypes DEF SealRecord, StoreTypes
  <2>3. ContextTypes'
    BY <1>11, <2>2 DEF SealRecord, ContextTypes, Raise
  <2>4. RunTypes'
    BY <1>11, TaskParts DEF SealRecord, RunTypes
  <2> QED BY <2>1, <2>2, <2>3, <2>4
<1>12. CASE Discard(p)
  <2>1. TxnTypes'
    BY <1>12 DEF Discard, TxnTypes
  <2>2. StoreTypes' /\ fresh' \in [Procs -> BOOLEAN]
    BY <1>12 DEF Discard, StoreTypes, bounds
  <2>3. ContextTypes'
    BY <1>12, <2>2 DEF Discard, ContextTypes
  <2>4. RunTypes'
    BY <1>12, TaskParts DEF Discard, RunTypes
  <2> QED BY <2>1, <2>2, <2>3, <2>4
<1>13. CASE RestoreSourceView(p)
  <2>1. TxnTypes'
    BY <1>13 DEF RestoreSourceView, TxnTypes, txnDisk
  <2>2. StoreTypes' /\ fresh' \in [Procs -> BOOLEAN]
    BY <1>13, FaultTypes, SavedTypes DEF RestoreSourceView, StoreTypes,
       SaveFails
  <2>3. ContextTypes'
    <3>1. pc' \in [Procs -> Steps]
      BY <1>13 DEF RestoreSourceView, Raise, InAsk
    <3>2. /\ ctx' \in [Procs -> Txns \cup {None}]
          /\ held' \in [Procs -> TxnStates \cup {"NONE"}]
      BY <1>13 DEF RestoreSourceView
    <3> QED BY <2>2, <3>1, <3>2 DEF ContextTypes
  <2>4. RunTypes'
    <3>1. \/ UNCHANGED task
          \/ task' = [task EXCEPT ![p] = Task("closed", @.txn, held[p] = "COMMITTED")]
      BY <1>13 DEF RestoreSourceView
    <3>2. task' \in [Procs -> Tasks]
      <4>1. task[p].txn \in Txns \cup {None}
        BY DEF Tasks
      <4>2. Task("closed", task[p].txn, FALSE) \in Tasks
        BY <4>1, TaskParts DEF Statuses
      <4>3. Task("closed", task[p].txn, held[p] = "COMMITTED") \in Tasks
        BY <4>1, TaskParts DEF Statuses
      <4> QED BY SMTT(30), <3>1, <4>2, <4>3
    <3>3. UNCHANGED <<cur, mutating, todo, claim>>
      BY <1>13 DEF RestoreSourceView
    <3> QED BY <3>2, <3>3 DEF RunTypes
  <2> QED BY <2>1, <2>2, <2>3, <2>4
<1>14. CASE Report(p)
  <2>1. TxnTypes'
    BY <1>14 DEF Report, TxnTypes, txnDisk
  <2>2. StoreTypes' /\ fresh' \in [Procs -> BOOLEAN]
    BY <1>14, FaultTypes DEF Report, StoreTypes
  <2>3. ContextTypes'
    BY <1>14, <2>2 DEF Report, ContextTypes
  <2>4. RunTypes'
    BY <1>14, TaskParts DEF Report, RunTypes
  <2> QED BY <2>1, <2>2, <2>3, <2>4
<1>15. CASE Halt(p)
  <2>1. TxnTypes'
    BY <1>15, InterruptContextTypes DEF Halt, TxnTypes
  <2>2. StoreTypes' /\ fresh' \in [Procs -> BOOLEAN]
    BY ZenonT(40), <1>15, FaultTypes, SavedTypes DEF Halt, StoreTypes, SaveFails
  <2>3. ContextTypes'
    BY ZenonT(40), <1>15, <2>2, InterruptContextTypes DEF Halt, ContextTypes, Raise
  <2>4. RunTypes'
    BY <1>15, TaskParts DEF Halt, RunTypes, Statuses, Tasks
  <2> QED BY <2>1, <2>2, <2>3, <2>4
<1>16. CASE WriteRun(p)
  <2>1. TxnTypes'
    BY <1>16 DEF WriteRun, TxnTypes, txnDisk
  <2>2. StoreTypes' /\ fresh' \in [Procs -> BOOLEAN]
    BY <1>16, FaultTypes DEF WriteRun, StoreTypes, Release
  <2>3. ContextTypes'
    BY <1>16, <2>2 DEF WriteRun, ContextTypes, Raise, Release
  <2>4. RunTypes'
    BY <1>16, TaskParts DEF WriteRun, RunTypes
  <2> QED BY <2>1, <2>2, <2>3, <2>4
<1>17. CASE CloseAborted(p)
  <2>1. TxnTypes'
    BY <1>17, InterruptContextTypes DEF CloseAborted, TxnTypes, txnDisk
  <2>2. StoreTypes' /\ fresh' \in [Procs -> BOOLEAN]
    <3>1. run' \in [Runs -> Tasks]
      BY <1>17, AbortedType DEF CloseAborted
    <3>2. lease' \in [Runs -> Procs \cup {Nobody}]
      BY <1>17 DEF CloseAborted, Release
    <3>3. /\ pointer' \in [Sessions -> Txns \cup {None}]
          /\ faults' \in 0..MaxFaults
          /\ fresh' \in [Procs -> BOOLEAN]
      BY <1>17, FaultTypes, SavedTypes DEF CloseAborted
    <3> QED BY <1>17, <3>1, <3>2, <3>3 DEF CloseAborted, StoreTypes
  <2>3. ContextTypes'
    BY <1>17, <2>2, InterruptContextTypes DEF CloseAborted, ContextTypes,
       Release
  <2>4. RunTypes'
    BY <1>17, AbortedType DEF CloseAborted, RunTypes
  <2> QED BY <2>1, <2>2, <2>3, <2>4
<1>18. ASSUME NEW from \in Steps, NEW to \in Steps, SaveSession(p, from, to)
      PROVE  TxnTypes' /\ StoreTypes' /\ ContextTypes' /\ RunTypes'
  BY <1>18, SaveSessionTypes
<1> QED BY <1>1, <1>2, <1>3, <1>4, <1>5, <1>6, <1>7, <1>8, <1>9, <1>10, <1>11,
   <1>12, <1>13, <1>14, <1>15, <1>16, <1>17, <1>18 DEF Deliver

LEMMA NextTypes == TypeOK /\ [Next]_vars => TypeOK'
<1> SUFFICES ASSUME TypeOK, [Next]_vars PROVE TypeOK'
  OBVIOUS
<1>1. CASE UNCHANGED vars
  BY <1>1 DEF TypeOK, vars, disk, process, bounds
<1>2. ASSUME NEW p \in Procs, Quit(p) \/ Crash(p)
      PROVE  TypeOK'
  <2>1. ContextTypes' /\ RunTypes' /\ lease' \in [Runs -> Procs \cup {Nobody}]
    BY <1>2, ExitTypes DEF Quit, Crash
  <2>2. TxnTypes'
    BY <1>2 DEF Quit, Crash, disk, TypeOK, TxnTypes
  <2>3. StoreTypes'
    BY <1>2, <2>1, BoundAssumption DEF Quit, Crash, disk, bounds, TypeOK,
       StoreTypes
  <2> QED BY <2>1, <2>2, <2>3 DEF TypeOK, TxnTypes, StoreTypes, ContextTypes,
     RunTypes
<1>3. ASSUME NEW p \in Procs, Start(p) \/ Open(p)
      PROVE  TypeOK'
  BY <1>3, OpenTypes
<1>4. ASSUME NEW p \in Procs,
             \/ \E r \in Runs, m \in BOOLEAN : Ask(p, r, m)
             \/ Bootstrap(p) \/ LeaveWork(p) \/ Edit(p) \/ Break(p)
             \/ SaveSession(p, "work", "work")
      PROVE  TypeOK'
  BY <1>4, BootstrapTypes
<1>5. ASSUME NEW p \in Procs, Deliver(p) \/ Apply(p) \/ Discard(p)
      PROVE  TypeOK'
  BY <1>5, DeliverTypes
<1> QED BY <1>1, <1>2, <1>3, <1>4, <1>5 DEF Next, Step

(***************************************************************************)
(* Every record, pointer, run, lease and step of a process has its type.   *)
(***************************************************************************)
THEOREM TypesHold == Spec => []TypeOK
BY InitTypes, NextTypes, PTL DEF Spec

(***************************************************************************)
(* A step of a process leaves what the others hold alone.                  *)
(***************************************************************************)
Same(q) ==
    /\ pc'[q] = pc[q] /\ ctx'[q] = ctx[q] /\ held'[q] = held[q]
    /\ cur'[q] = cur[q] /\ task'[q] = task[q] /\ claim'[q] = claim[q]

Confined(p) == \A q \in Procs : q # p => Same(q)

LeaseKept(p) == \A r \in Runs, q \in Procs : q # p /\ lease[r] = q => lease'[r] = q

(* A run in execution is leased by its process; so is a run being closed. *)
LeaseOK(p) ==
    /\ task[p].status = "running" \/ pc[p] \in AskSteps =>
           cur[p] # None /\ lease[cur[p]] = p
    /\ pc[p] \in {"idle", "outcome", "write", "report"} => task[p].status # "running"
    /\ pc[p] \in {"claim", "settle", "close"} => claim[p].run # None
    /\ pc[p] \in {"settle", "close"} => lease[claim[p].run] = p
    /\ pc[p] \in OpenSteps \cup {"down"} => cur[p] = None

LeaseInv == \A p \in Procs : LeaseOK(p)

LEMMA TypeParts == TypeOK => TxnTypes /\ StoreTypes /\ ContextTypes /\ RunTypes
BY DEF TypeOK, TxnTypes, StoreTypes, ContextTypes, RunTypes

LEMMA ExitConfined ==
    ASSUME TypeOK, NEW p \in Procs, Exit(p)
    PROVE  Confined(p) /\ LeaseKept(p)
<1> USE TypeParts DEF StoreTypes, ContextTypes, RunTypes
<1>1. Confined(p)
  BY DEF Exit, Go, Confined, Same
<1>2. LeaseKept(p)
  BY IdAssumption DEF Exit, LeaseKept
<1> QED BY <1>1, <1>2

LEMMA InterruptContextConfined ==
    ASSUME TypeOK, NEW p \in Procs, InterruptContext(p)
    PROVE  \A q \in Procs : q # p => held'[q] = held[q]
<1>1. held' = [held EXCEPT ![p] = Interrupted(held[p])]
  BY DEF InterruptContext
<1> QED BY <1>1 DEF TypeOK

LEMMA OpenConfined ==
    ASSUME TypeOK, NEW p \in Procs, LeaseOK(p),
           Start(p) \/ Open(p)
    PROVE  Confined(p) /\ LeaseKept(p)
<1> USE TypeParts DEF Go, StoreTypes, ContextTypes, RunTypes
<1>1. CASE Start(p)
  <2>1. Confined(p)
    BY <1>1 DEF Start, Confined, Same
  <2>2. LeaseKept(p)
    BY <1>1, IdAssumption DEF Start, LeaseKept
  <2> QED BY <2>1, <2>2
<1>2. CASE RestoreNothing(p)
  <2>1. Confined(p)
    BY <1>2 DEF RestoreNothing, Confined, Same
  <2>2. LeaseKept(p)
    BY <1>2, IdAssumption DEF RestoreNothing, LeaseKept
  <2> QED BY <2>1, <2>2
<1>3. CASE RestoreTerminal(p)
  <2>1. CASE Exit(p)
    BY <2>1, ExitConfined
  <2>2. CASE ~Exit(p)
    <3>1. Confined(p)
      BY <1>3, <2>2 DEF RestoreTerminal, Confined, Same
    <3>2. LeaseKept(p)
      BY <1>3, <2>2, IdAssumption DEF RestoreTerminal, LeaseKept, LeaseOK
    <3> QED BY <3>1, <3>2
  <2> QED BY <2>1, <2>2
<1>4. CASE RestoreUnavailable(p)
  <2>1. CASE Exit(p)
    BY <2>1, ExitConfined
  <2> QED BY <1>4, <2>1 DEF RestoreUnavailable
<1>5. CASE RestoreContext(p)
  <2>1. Confined(p)
    BY <1>5 DEF RestoreContext, Confined, Same
  <2>2. LeaseKept(p)
    BY <1>5, IdAssumption DEF RestoreContext, LeaseKept
  <2> QED BY <2>1, <2>2
<1>6. ASSUME NEW r \in Runs, Examine(p, r)
      PROVE  Confined(p) /\ LeaseKept(p)
  <2>1. Confined(p)
    BY <1>6 DEF Examine, Confined, Same
  <2>2. LeaseKept(p)
    BY <1>6, IdAssumption DEF Examine, LeaseKept
  <2> QED BY <2>1, <2>2
<1>7. CASE Claim(p)
  <2>1. Confined(p)
    BY <1>7 DEF Claim, Confined, Same
  <2>2. LeaseKept(p)
    BY <1>7, IdAssumption DEF Claim, LeaseKept, LeaseFree
  <2> QED BY <2>1, <2>2
<1>8. CASE SettleOrphan(p)
  <2>1. Confined(p)
    BY <1>8, InterruptContextConfined DEF SettleOrphan, Confined, Same
  <2>2. LeaseKept(p)
    BY <1>8, IdAssumption DEF SettleOrphan, LeaseKept
  <2> QED BY <2>1, <2>2
<1>9. CASE CloseOrphan(p)
  <2>1. CASE Exit(p)
    BY <2>1, ExitConfined
  <2>2. CASE ~Exit(p)
    <3>1. Confined(p)
      BY <1>9, <2>2 DEF CloseOrphan, Confined, Same
    <3>2. LeaseKept(p)
      BY <1>9, <2>2, IdAssumption DEF CloseOrphan, LeaseKept, LeaseOK
    <3> QED BY <3>1, <3>2
  <2> QED BY <2>1, <2>2
<1>10. CASE Opened(p)
  <2>1. CASE Exit(p)
    BY <2>1, ExitConfined
  <2>2. CASE ~Exit(p)
    <3>1. Confined(p)
      BY <1>10, <2>2 DEF Opened, Confined, Same
    <3>2. LeaseKept(p)
      BY <1>10, <2>2, IdAssumption DEF Opened, LeaseKept, LeaseOK
    <3> QED BY <3>1, <3>2
  <2> QED BY <2>1, <2>2
<1> QED BY <1>1, <1>2, <1>3, <1>4, <1>5, <1>6, <1>7, <1>8, <1>9, <1>10 DEF Open

LEMMA BootstrapConfined ==
    ASSUME TypeOK, NEW p \in Procs, LeaseOK(p),
           \/ \E r \in Runs, m \in BOOLEAN : Ask(p, r, m)
           \/ Bootstrap(p) \/ LeaveWork(p) \/ Edit(p) \/ Break(p)
           \/ SaveSession(p, "work", "work")
    PROVE  Confined(p) /\ LeaseKept(p)
<1> USE TypeParts DEF Go, StoreTypes, ContextTypes, RunTypes
<1>1. ASSUME NEW r \in Runs, NEW m \in BOOLEAN, Ask(p, r, m)
      PROVE  Confined(p) /\ LeaseKept(p)
  <2>1. Confined(p)
    BY <1>1 DEF Ask, Confined, Same
  <2>2. LeaseKept(p)
    BY <1>1, IdAssumption DEF Ask, LeaseKept, NextRun, Unused
  <2> QED BY <2>1, <2>2
<1>2. CASE StartRun(p)
  <2>1. Confined(p)
    BY <1>2 DEF StartRun, Confined, Same, Raise
  <2>2. LeaseKept(p)
    BY <1>2, IdAssumption DEF StartRun, LeaseKept
  <2> QED BY <2>1, <2>2
<1>3. ASSUME NEW t \in Txns, BeginTransaction(p, t)
      PROVE  Confined(p) /\ LeaseKept(p)
  <2>1. Confined(p)
    BY <1>3 DEF BeginTransaction, Confined, Same, Raise
  <2>2. LeaseKept(p)
    BY <1>3, IdAssumption DEF BeginTransaction, LeaseKept
  <2> QED BY <2>1, <2>2
<1>4. CASE PointSession(p)
  <2>1. Confined(p)
    BY <1>4 DEF PointSession, Confined, Same, Raise
  <2>2. LeaseKept(p)
    BY <1>4, IdAssumption DEF PointSession, LeaseKept
  <2> QED BY <2>1, <2>2
<1>5. CASE ResumeEditing(p)
  <2>1. Confined(p)
    BY <1>5 DEF ResumeEditing, Confined, Same
  <2>2. LeaseKept(p)
    BY <1>5, IdAssumption DEF ResumeEditing, LeaseKept
  <2> QED BY <2>1, <2>2
<1>6. CASE BindRun(p)
  <2>1. Confined(p)
    BY <1>6 DEF BindRun, Confined, Same, Raise
  <2>2. LeaseKept(p)
    BY <1>6, IdAssumption DEF BindRun, LeaseKept
  <2> QED BY <2>1, <2>2
<1>7. CASE LeaveWork(p)
  <2>1. Confined(p)
    BY <1>7 DEF LeaveWork, Confined, Same
  <2>2. LeaseKept(p)
    BY <1>7, IdAssumption DEF LeaveWork, LeaseKept
  <2> QED BY <2>1, <2>2
<1>8. CASE Edit(p)
  <2>1. Confined(p)
    BY <1>8 DEF Edit, Confined, Same, process
  <2>2. LeaseKept(p)
    BY <1>8, IdAssumption DEF Edit, LeaseKept
  <2> QED BY <2>1, <2>2
<1>9. CASE Break(p)
  <2>1. Confined(p)
    BY <1>9 DEF Break, Confined, Same
  <2>2. LeaseKept(p)
    BY <1>9, IdAssumption DEF Break, LeaseKept
  <2> QED BY <2>1, <2>2
<1>10. ASSUME NEW from, NEW to, SaveSession(p, from, to)
      PROVE  Confined(p) /\ LeaseKept(p)
  BY <1>10 DEF SaveSession, Raise, Confined, Same, LeaseKept
<1> QED BY <1>1, <1>2, <1>3, <1>4, <1>5, <1>6, <1>7, <1>8, <1>9, <1>10
   DEF Bootstrap

LEMMA DeliverConfined ==
    ASSUME TypeOK, NEW p \in Procs, LeaseOK(p),
           Deliver(p) \/ Apply(p) \/ Discard(p)
    PROVE  Confined(p) /\ LeaseKept(p)
<1> USE TypeParts DEF Go, StoreTypes, ContextTypes, RunTypes
<1>1. CASE LeavePending(p)
  <2>1. Confined(p)
    BY <1>1, InterruptContextConfined DEF LeavePending, Confined, Same
  <2>2. LeaseKept(p)
    BY <1>1, IdAssumption DEF LeavePending, LeaseKept
  <2> QED BY <2>1, <2>2
<1>2. CASE Stage(p)
  <2>1. Confined(p)
    BY <1>2 DEF Stage, Confined, Same
  <2>2. LeaseKept(p)
    BY <1>2, IdAssumption DEF Stage, LeaseKept
  <2> QED BY <2>1, <2>2
<1>3. CASE Blocked(p)
  <2>1. Confined(p)
    BY <1>3 DEF Blocked, Confined, Same
  <2>2. LeaseKept(p)
    BY <1>3, IdAssumption DEF Blocked, LeaseKept
  <2> QED BY <2>1, <2>2
<1>4. CASE Validated(p)
  <2>1. Confined(p)
    BY <1>4 DEF Validated, Confined, Same
  <2>2. LeaseKept(p)
    BY <1>4, IdAssumption DEF Validated, LeaseKept
  <2> QED BY <2>1, <2>2
<1>5. CASE Apply(p)
  <2>1. Confined(p)
    BY <1>5 DEF Apply, Confined, Same
  <2>2. LeaseKept(p)
    BY <1>5, IdAssumption DEF Apply, LeaseKept
  <2> QED BY <2>1, <2>2
<1>6. CASE Revalidate(p)
  <2>1. Confined(p)
    BY <1>6 DEF Revalidate, Confined, Same
  <2>2. LeaseKept(p)
    BY <1>6, IdAssumption DEF Revalidate, LeaseKept
  <2> QED BY <2>1, <2>2
<1>7. CASE RefuseCommit(p)
  <2>1. Confined(p)
    BY <1>7 DEF RefuseCommit, Confined, Same, Raise
  <2>2. LeaseKept(p)
    BY <1>7, IdAssumption DEF RefuseCommit, LeaseKept
  <2> QED BY <2>1, <2>2
<1>8. CASE OpenJournal(p)
  <2>1. Confined(p)
    BY <1>8 DEF OpenJournal, Confined, Same
  <2>2. LeaseKept(p)
    BY <1>8, IdAssumption DEF OpenJournal, LeaseKept
  <2> QED BY <2>1, <2>2
<1>9. CASE ApplyFails(p)
  <2>1. Confined(p)
    BY <1>9 DEF ApplyFails, Confined, Same, Raise
  <2>2. LeaseKept(p)
    BY <1>9, IdAssumption DEF ApplyFails, LeaseKept
  <2> QED BY <2>1, <2>2
<1>10. CASE SealJournal(p)
  <2>1. Confined(p)
    BY <1>10 DEF SealJournal, Confined, Same
  <2>2. LeaseKept(p)
    BY <1>10, IdAssumption DEF SealJournal, LeaseKept
  <2> QED BY <2>1, <2>2
<1>11. CASE SealRecord(p)
  <2>1. Confined(p)
    BY <1>11 DEF SealRecord, Confined, Same, Raise
  <2>2. LeaseKept(p)
    BY <1>11, IdAssumption DEF SealRecord, LeaseKept
  <2> QED BY <2>1, <2>2
<1>12. CASE Discard(p)
  <2>1. Confined(p)
    BY <1>12 DEF Discard, Confined, Same
  <2>2. LeaseKept(p)
    BY <1>12, IdAssumption DEF Discard, LeaseKept
  <2> QED BY <2>1, <2>2
<1>13. CASE RestoreSourceView(p)
  <2>1. Confined(p)
    BY <1>13 DEF RestoreSourceView, Confined, Same, Raise
  <2>2. LeaseKept(p)
    BY <1>13, IdAssumption DEF RestoreSourceView, LeaseKept
  <2> QED BY <2>1, <2>2
<1>14. CASE Report(p)
  <2>1. Confined(p)
    BY <1>14 DEF Report, Confined, Same
  <2>2. LeaseKept(p)
    BY <1>14, IdAssumption DEF Report, LeaseKept
  <2> QED BY <2>1, <2>2
<1>15. CASE Halt(p)
  <2>1. Confined(p)
    BY <1>15, InterruptContextConfined DEF Halt, Confined, Same, Raise
  <2>2. LeaseKept(p)
    BY <1>15, IdAssumption DEF Halt, LeaseKept
  <2> QED BY <2>1, <2>2
<1>16. CASE WriteRun(p)
  <2>1. Confined(p)
    BY <1>16 DEF WriteRun, Confined, Same, Raise, Release
  <2>2. LeaseKept(p)
    BY <1>16, IdAssumption DEF WriteRun, LeaseKept, Release, LeaseOK, AskSteps
  <2> QED BY <2>1, <2>2
<1>17. CASE CloseAborted(p)
  <2>1. Confined(p)
    BY <1>17, InterruptContextConfined DEF CloseAborted, Confined, Same, Release
  <2>2. LeaseKept(p)
    BY <1>17, IdAssumption DEF CloseAborted, LeaseKept, Release, LeaseOK,
       AskSteps
  <2> QED BY <2>1, <2>2
<1>18. ASSUME NEW from, NEW to, SaveSession(p, from, to)
      PROVE  Confined(p) /\ LeaseKept(p)
  BY <1>18 DEF SaveSession, Raise, Confined, Same, LeaseKept
<1> QED BY <1>1, <1>2, <1>3, <1>4, <1>5, <1>6, <1>7, <1>8, <1>9, <1>10, <1>11,
   <1>12, <1>13, <1>14, <1>15, <1>16, <1>17, <1>18 DEF Deliver

LEMMA ExitLease ==
    ASSUME TypeOK, NEW p \in Procs, Exit(p)
    PROVE  LeaseOK(p)'
BY TypeParts, NoTaskParts
   DEF Exit, Go, StoreTypes, ContextTypes, RunTypes, LeaseOK, OpenSteps, AskSteps

LEMMA OpenLease ==
    ASSUME TypeOK, NEW p \in Procs, LeaseOK(p),
           Start(p) \/ Open(p)
    PROVE  LeaseOK(p)'
<1> USE TypeParts, IdAssumption DEF Go, StoreTypes, ContextTypes, RunTypes
<1> USE DEF LeaseOK, AskSteps, OpenSteps
<1>1. CASE Start(p)
  BY <1>1 DEF Start
<1>2. CASE RestoreNothing(p)
  BY <1>2 DEF RestoreNothing
<1>3. CASE RestoreTerminal(p)
  <2>1. CASE Exit(p)
    BY <2>1, ExitLease
  <2>2. CASE ~Exit(p)
    BY <1>3, <2>2 DEF RestoreTerminal
  <2> QED BY <2>1, <2>2
<1>4. CASE RestoreUnavailable(p)
  <2>1. CASE Exit(p)
    BY <2>1, ExitLease
  <2> QED BY <1>4, <2>1 DEF RestoreUnavailable
<1>5. CASE RestoreContext(p)
  BY <1>5 DEF RestoreContext
<1>6. ASSUME NEW r \in Runs, Examine(p, r)
      PROVE  LeaseOK(p)'
  BY <1>6 DEF Examine
<1>7. CASE Claim(p)
  BY <1>7 DEF Claim, LeaseFree
<1>8. CASE SettleOrphan(p)
  BY <1>8 DEF SettleOrphan, Task
<1>9. CASE CloseOrphan(p)
  <2>1. CASE Exit(p)
    BY <2>1, ExitLease
  <2>2. CASE ~Exit(p)
    BY <1>9, <2>2, NoTaskParts DEF CloseOrphan
  <2> QED BY <2>1, <2>2
<1>10. CASE Opened(p)
  <2>1. CASE Exit(p)
    BY <2>1, ExitLease
  <2>2. CASE ~Exit(p)
    BY <1>10, <2>2 DEF Opened
  <2> QED BY <2>1, <2>2
<1> QED BY <1>1, <1>2, <1>3, <1>4, <1>5, <1>6, <1>7, <1>8, <1>9, <1>10 DEF Open

LEMMA BootstrapLease ==
    ASSUME TypeOK, NEW p \in Procs, LeaseOK(p),
           \/ \E r \in Runs, m \in BOOLEAN : Ask(p, r, m)
           \/ Bootstrap(p) \/ LeaveWork(p) \/ Edit(p) \/ Break(p)
           \/ SaveSession(p, "work", "work")
    PROVE  LeaseOK(p)'
<1> USE TypeParts, IdAssumption DEF Go, StoreTypes, ContextTypes, RunTypes
<1> USE DEF LeaseOK, AskSteps, OpenSteps
<1>1. ASSUME NEW r \in Runs, NEW m \in BOOLEAN, Ask(p, r, m)
      PROVE  LeaseOK(p)'
  BY <1>1 DEF Ask, Task
<1>2. CASE StartRun(p)
  BY <1>2 DEF StartRun, Raise, InAsk
<1>3. ASSUME NEW t \in Txns, BeginTransaction(p, t)
      PROVE  LeaseOK(p)'
  BY <1>3 DEF BeginTransaction, Raise, InAsk
<1>4. CASE PointSession(p)
  BY <1>4 DEF PointSession, Raise, InAsk
<1>5. CASE ResumeEditing(p)
  BY <1>5 DEF ResumeEditing
<1>6. CASE BindRun(p)
  BY <1>6 DEF BindRun, Raise, InAsk, Task
<1>7. CASE LeaveWork(p)
  BY <1>7 DEF LeaveWork
<1>8. CASE Edit(p)
  BY <1>8 DEF Edit, process
<1>9. CASE Break(p)
  BY <1>9 DEF Break, InAsk
<1>10. CASE SaveSession(p, "greet", "work")
  BY <1>10 DEF SaveSession, Raise, InAsk
<1>11. CASE SaveSession(p, "work", "work")
  BY <1>11 DEF SaveSession, Raise, InAsk
<1> QED BY <1>1, <1>2, <1>3, <1>4, <1>5, <1>6, <1>7, <1>8, <1>9, <1>10, <1>11
   DEF Bootstrap

LEMMA DeliverLease ==
    ASSUME TypeOK, NEW p \in Procs, LeaseOK(p),
           Deliver(p) \/ Apply(p) \/ Discard(p)
    PROVE  LeaseOK(p)'
<1> USE TypeParts, IdAssumption DEF Go, StoreTypes, ContextTypes, RunTypes
<1> USE DEF LeaseOK, AskSteps, OpenSteps
<1>1. CASE LeavePending(p)
  BY <1>1 DEF LeavePending, Task
<1>2. CASE Stage(p)
  BY <1>2 DEF Stage
<1>3. CASE Blocked(p)
  BY <1>3 DEF Blocked, Task
<1>4. CASE Validated(p)
  BY <1>4 DEF Validated, Changed, Task
<1>5. CASE Apply(p)
  BY <1>5 DEF Apply
<1>6. CASE Revalidate(p)
  BY <1>6 DEF Revalidate
<1>7. CASE RefuseCommit(p)
  BY <1>7 DEF RefuseCommit, Raise, InAsk
<1>8. CASE OpenJournal(p)
  BY <1>8 DEF OpenJournal
<1>9. CASE ApplyFails(p)
  BY <1>9 DEF ApplyFails, Raise, InAsk
<1>10. CASE SealJournal(p)
  BY <1>10 DEF SealJournal
<1>11. CASE SealRecord(p)
  BY <1>11 DEF SealRecord, Raise, InAsk
<1>12. CASE Discard(p)
  BY <1>12 DEF Discard
<1>13. CASE RestoreSourceView(p)
  BY <1>13 DEF RestoreSourceView, Raise, InAsk, Task
<1>14. CASE Report(p)
  BY <1>14 DEF Report
<1>15. CASE Halt(p)
  BY <1>15 DEF Halt, Raise, Task
<1>16. CASE WriteRun(p)
  BY <1>16 DEF WriteRun, Raise, Release
<1>17. CASE CloseAborted(p)
  BY <1>17 DEF CloseAborted, Release, Aborted, Task
<1>18. CASE SaveSession(p, "finish", "finalize")
  BY <1>18 DEF SaveSession, Raise, InAsk
<1>19. CASE SaveSession(p, "outcome", "write")
  BY <1>19 DEF SaveSession, Raise
<1> QED BY <1>1, <1>2, <1>3, <1>4, <1>5, <1>6, <1>7, <1>8, <1>9, <1>10, <1>11,
   <1>12, <1>13, <1>14, <1>15, <1>16, <1>17, <1>18, <1>19 DEF Deliver

(***************************************************************************)
(* What one process does in a step of Next.                                *)
(***************************************************************************)
StepOf(p) ==
    \/ Start(p) \/ Open(p) \/ Quit(p) \/ Crash(p)
    \/ \E r \in Runs, m \in BOOLEAN : Ask(p, r, m)
    \/ Bootstrap(p) \/ LeaveWork(p) \/ Edit(p) \/ Break(p)
    \/ SaveSession(p, "work", "work")
    \/ Deliver(p) \/ Apply(p) \/ Discard(p)

LEMMA NextIsAStep == Next => \E p \in Procs : StepOf(p)
BY DEF Next, Step, StepOf

LEMMA StepConfined ==
    ASSUME TypeOK, NEW p \in Procs, LeaseOK(p), StepOf(p)
    PROVE  Confined(p) /\ LeaseKept(p)
<1>1. CASE Quit(p) \/ Crash(p)
  BY <1>1, ExitConfined DEF Quit, Crash
<1> QED BY <1>1, OpenConfined, BootstrapConfined, DeliverConfined DEF StepOf

LEMMA StepLease ==
    ASSUME TypeOK, NEW p \in Procs, LeaseOK(p), StepOf(p)
    PROVE  LeaseOK(p)'
<1>1. CASE Quit(p) \/ Crash(p)
  BY <1>1, ExitLease DEF Quit, Crash
<1> QED BY <1>1, OpenLease, BootstrapLease, DeliverLease DEF StepOf

LEMMA OthersLease ==
    ASSUME TypeOK, NEW p \in Procs, NEW q \in Procs, q # p,
           Confined(p), LeaseKept(p), LeaseOK(q)
    PROVE  LeaseOK(q)'
<1>1. Same(q)
  BY DEF Confined
<1>2. \A r \in Runs : lease[r] = q => lease'[r] = q
  BY DEF LeaseKept
<1>3. cur[q] \in Runs \cup {None} /\ claim[q].run \in Runs \cup {None}
  BY DEF TypeOK
<1>4. pc[q] \in {"settle", "close"} => claim[q].run # None /\ lease[claim[q].run] = q
  BY DEF LeaseOK
<1> QED BY <1>1, <1>2, <1>3, <1>4 DEF Same, LeaseOK

LEMMA NextLease == TypeOK /\ LeaseInv /\ [Next]_vars => LeaseInv'
<1> SUFFICES ASSUME TypeOK, LeaseInv, [Next]_vars PROVE LeaseInv'
  OBVIOUS
<1>1. CASE UNCHANGED vars
  BY <1>1 DEF LeaseInv, LeaseOK, vars, process
<1>2. ASSUME NEW p \in Procs, StepOf(p)
      PROVE  LeaseInv'
  <2>1. LeaseOK(p)' /\ Confined(p) /\ LeaseKept(p)
    BY <1>2, StepLease, StepConfined DEF LeaseInv
  <2>2. ASSUME NEW q \in Procs, q # p
        PROVE  LeaseOK(q)'
    BY <2>1, <2>2, OthersLease DEF LeaseInv
  <2> QED BY <2>1, <2>2 DEF LeaseInv
<1> QED BY <1>1, <1>2, NextIsAStep

LEMMA InitLease == Init => LeaseInv
BY NoTaskParts DEF Init, LeaseInv, LeaseOK, AskSteps, OpenSteps

(***************************************************************************)
(* At every step of a process that executes or closes a run, the process   *)
(* holds the owner lease of that run (pico/persistence/run_store.py).      *)
(***************************************************************************)
THEOREM LeaseHolds == Spec => []LeaseInv
<1>1. TypeOK /\ TypeOK' /\ LeaseInv /\ [Next]_vars => LeaseInv'
  BY NextLease
<1> QED BY <1>1, InitLease, TypesHold, PTL DEF Spec

(***************************************************************************)
(* Nobody closes a run that another process is still executing: the lease  *)
(* is what claim_orphaned_runs asks for (pico/persistence/run_store.py).   *)
(***************************************************************************)
THEOREM ExecutingRunsAreOwned == Spec => []OrphanHasNoOwner
<1>1. TypeOK /\ LeaseInv => OrphanHasNoOwner
  <2> SUFFICES ASSUME TypeOK, LeaseInv, NEW p \in Procs, NEW q \in Procs, p # q,
                      pc[p] \in {"settle", "close"}, Executing(q, claim[p].run)
               PROVE  FALSE
    BY DEF OrphanHasNoOwner
  <2>1. lease[claim[p].run] = p
    BY DEF LeaseInv, LeaseOK
  <2>2. lease[cur[q]] = q /\ cur[q] = claim[p].run
    BY DEF LeaseInv, LeaseOK, Executing
  <2> QED BY <2>1, <2>2
<1> QED BY <1>1, TypesHold, LeaseHolds, PTL

(***************************************************************************)
(* Which phase of a delivery allows which state of the transaction held,   *)
(* and what the journal says of it.                                        *)
(***************************************************************************)
OneProcessPerSession ==
    \A p, q \in Procs : SessionOf[p] = SessionOf[q] => p = q

(* No other process holds a transaction of the session of this one. *)
Apart(p) == \A q \in Procs : q # p /\ ctx[q] # None => SessionOf[q] # SessionOf[p]

OpenStates == Interruptible \cup {"READY_FOR_REVIEW", "CONFLICTED"}
BoundSteps == {"greet", "work", "finish", "finalize", "halt"}
EditSteps == {"point", "bind"} \cup BoundSteps

PhaseOK(p) ==
    /\ pc[p] \in {"down", "restore"} => held[p] = "NONE"
    /\ pc[p] \in {"begin", "prepare"} => ctx[p] = None \/ held[p] \in Askable
    /\ pc[p] \in EditSteps => ctx[p] # None /\ held[p] \in Askable
    /\ pc[p] = "validate" => ctx[p] # None /\ held[p] = "STAGED"
    /\ pc[p] = "commit" => ctx[p] # None /\ held[p] = "READY_FOR_REVIEW"
    /\ pc[p] = "recheck" => ctx[p] # None /\ held[p] = "VALIDATING"
    /\ pc[p] \in {"apply", "seal"} => ctx[p] # None /\ held[p] = "COMMITTING"
    /\ pc[p] = "restoreView" => ctx[p] # None /\ held[p] \in Terminal

SealedOK(p) ==
    ctx[p] # None =>
        /\ held[p] \in OpenStates \/ pc[p] = "apply" => journal[ctx[p]] # "COMMITTED"
        /\ held[p] = "COMMITTED" \/ pc[p] = "seal" => journal[ctx[p]] = "COMMITTED"

BoundOK(p) ==
    /\ pc[p] \in BoundSteps => task[p].txn = ctx[p]
    /\ cur[p] # None /\ ctx[p] # None /\ held[p] \notin Askable \cup {"DISCARDED"}
          => task[p].txn = ctx[p]

Truthful(t) == t.delivered => t.txn # None /\ journal[t.txn] = "COMMITTED"

ProcessOK(p) == PhaseOK(p) /\ SealedOK(p) /\ BoundOK(p) /\ Truthful(task[p])

RecordOK == \A t \in Txns : record[t] = "COMMITTED" => journal[t] = "COMMITTED"

(***************************************************************************)
(* A transaction belongs to one session, and to one process.               *)
(***************************************************************************)
Owned ==
    /\ \A p, q \in Procs : ctx[p] # None /\ ctx[p] = ctx[q] => p = q
    /\ \A p \in Procs, s \in Sessions :
          ctx[p] # None /\ pointer[s] = ctx[p] => s = SessionOf[p]
    /\ \A s, u \in Sessions : pointer[s] # None /\ pointer[s] = pointer[u] => s = u
    /\ \A p \in Procs : ctx[p] # None => record[ctx[p]] # "NONE"
    /\ \A s \in Sessions : pointer[s] # None => record[pointer[s]] # "NONE"
    /\ \A t \in Txns : record[t] = "NONE" => journal[t] = "NONE"

DeliveryInv ==
    /\ Owned /\ RecordOK
    /\ \A p \in Procs : ProcessOK(p)
    /\ \A r \in Runs : Truthful(run[r])

(***************************************************************************)
(* What a step of a process does to the disk: it writes the journal of its *)
(* own transaction only, no sealed journal is opened again, no record is   *)
(* forgotten, and its pointer names nothing but its own transaction.       *)
(***************************************************************************)
TxnStep(p) ==
    \A t \in Txns :
        /\ t # ctx[p] => journal'[t] = journal[t]
        /\ journal[t] = "COMMITTED" => journal'[t] = "COMMITTED"
        /\ record[t] # "NONE" => record'[t] # "NONE"
        /\ record'[t] = "COMMITTED" => journal'[t] = "COMMITTED"

SessionStep(p) ==
    /\ \A s \in Sessions :
          \/ pointer'[s] = pointer[s]
          \/ s = SessionOf[p] /\ pointer'[s] \in {None, ctx[p]}
    /\ \/ ctx'[p] = ctx[p] \/ ctx'[p] = None
       \/ ctx'[p] = pointer[SessionOf[p]] /\ pointer' = pointer
       \/ /\ ctx'[p] \in Txns /\ pointer' = pointer
          /\ record[ctx'[p]] = "NONE" /\ record'[ctx'[p]] # "NONE"
    /\ \A r \in Runs : run'[r] \in {run[r], task[p], task'[p]}

LEMMA LoadedFacts ==
    ASSUME RecordOK, NEW t \in Txns
    PROVE  /\ Loaded(t) \in OpenStates => journal[t] # "COMMITTED"
           /\ Loaded(t) = "COMMITTED" => journal[t] = "COMMITTED"
           /\ record[t] # "NONE" => Loaded(t) # "NONE"
           /\ Interrupted(Loaded(t)) = "COMMITTED" => journal[t] = "COMMITTED"
           /\ record[t] # "NONE" => Interrupted(Loaded(t)) # "NONE"
BY DEF Loaded, RecordOK, OpenStates, Interruptible, Interrupted

LEMMA ExitSteps ==
    ASSUME TypeOK, NEW p \in Procs, Exit(p)
    PROVE  /\ ctx'[p] = None /\ task'[p] = NoTask
           /\ ProcessOK(p)'
BY TypeParts, NoTaskParts
   DEF Exit, Go, ContextTypes, RunTypes, ProcessOK, PhaseOK, SealedOK, BoundOK,
       Truthful, EditSteps, BoundSteps

LEMMA InterruptContextSteps ==
    ASSUME TypeOK, NEW p \in Procs, InterruptContext(p)
    PROVE  /\ held' = [held EXCEPT ![p] = Interrupted(held[p])]
           /\ \/ record' = record
              \/ record' = [record EXCEPT ![ctx[p]] = "INTERRUPTED"]
           /\ journal' = journal
BY DEF InterruptContext, Interrupted

LEMMA OpenDisk ==
    ASSUME TypeOK, RecordOK, NEW p \in Procs, ProcessOK(p), LeaseOK(p),
           ctx[p] # None => record[ctx[p]] # "NONE",
           Start(p) \/ Open(p)
    PROVE  TxnStep(p) /\ SessionStep(p)
<1> USE TypeParts, IdAssumption DEF Go, TxnTypes, StoreTypes, ContextTypes,
   RunTypes
<1> USE DEF ProcessOK, PhaseOK, RecordOK, EditSteps, BoundSteps, Terminal
<1>1. CASE Start(p)
  <2>1. TxnStep(p)
    BY <1>1 DEF Start, TxnStep, disk
  <2>2. SessionStep(p)
    BY <1>1 DEF Start, SessionStep, disk
  <2> QED BY <2>1, <2>2
<1>2. CASE RestoreNothing(p)
  <2>1. TxnStep(p)
    BY <1>2 DEF RestoreNothing, TxnStep, disk
  <2>2. SessionStep(p)
    BY <1>2 DEF RestoreNothing, SessionStep, disk
  <2> QED BY <2>1, <2>2
<1>3. CASE RestoreTerminal(p)
  <2>1. TxnStep(p)
    BY <1>3, LoadedFacts DEF RestoreTerminal, TxnStep
  <2>2. SessionStep(p)
    BY <1>3, ExitSteps DEF RestoreTerminal, SessionStep, Saved, Pointed
  <2> QED BY <2>1, <2>2
<1>4. CASE RestoreUnavailable(p)
  <2>1. TxnStep(p)
    BY <1>4, LoadedFacts DEF RestoreUnavailable, TxnStep
  <2>2. SessionStep(p)
    BY <1>4, ExitSteps DEF RestoreUnavailable, SessionStep
  <2> QED BY <2>1, <2>2
<1>5. CASE RestoreContext(p)
  <2>1. TxnStep(p)
    BY <1>5, LoadedFacts DEF RestoreContext, TxnStep
  <2>2. SessionStep(p)
    BY <1>5 DEF RestoreContext, SessionStep
  <2> QED BY <2>1, <2>2
<1>6. ASSUME NEW r \in Runs, Examine(p, r)
      PROVE  TxnStep(p) /\ SessionStep(p)
  <2>1. TxnStep(p)
    BY <1>6 DEF Examine, TxnStep, disk
  <2>2. SessionStep(p)
    BY <1>6 DEF Examine, SessionStep, disk
  <2> QED BY <2>1, <2>2
<1>7. CASE Claim(p)
  <2>1. TxnStep(p)
    BY <1>7 DEF Claim, TxnStep, disk
  <2>2. SessionStep(p)
    BY <1>7 DEF Claim, SessionStep, disk
  <2> QED BY <2>1, <2>2
<1>8. CASE SettleOrphan(p)
  <2>1. TxnStep(p)
    <3>1. CASE UNCHANGED txnDisk
      BY <3>1 DEF txnDisk, TxnStep
    <3>2. CASE InterruptContext(p)
      BY <3>2, InterruptContextSteps DEF TxnStep
    <3>3. CASE claim[p].txn # None /\ Settle(claim[p].txn, Interrupted(Loaded(claim[p].txn)))
      <4>1. claim[p].txn \in Txns /\ journal' = journal
        BY <3>3 DEF Settle
      <4>2. record' = [record EXCEPT ![claim[p].txn] = Interrupted(Loaded(claim[p].txn))]
        BY <3>3 DEF Settle
      <4> QED BY <4>1, <4>2, LoadedFacts DEF TxnStep
    <3> QED BY <1>8, <3>1, <3>2, <3>3 DEF SettleOrphan
  <2>2. SessionStep(p)
    BY <1>8 DEF SettleOrphan, SessionStep
  <2> QED BY <2>1, <2>2
<1>9. CASE CloseOrphan(p)
  <2>1. TxnStep(p)
    BY <1>9 DEF CloseOrphan, TxnStep, txnDisk
  <2>2. SessionStep(p)
    BY <1>9, ExitSteps DEF CloseOrphan, SessionStep
  <2> QED BY <2>1, <2>2
<1>10. CASE Opened(p)
  <2>1. TxnStep(p)
    BY <1>10 DEF Opened, TxnStep, txnDisk
  <2>2. SessionStep(p)
    BY <1>10, ExitSteps DEF Opened, SessionStep, Saved, Pointed
  <2> QED BY <2>1, <2>2
<1> QED BY <1>1, <1>2, <1>3, <1>4, <1>5, <1>6, <1>7, <1>8, <1>9, <1>10 DEF Open

LEMMA BootstrapDisk ==
    ASSUME TypeOK, RecordOK, NEW p \in Procs, ProcessOK(p), LeaseOK(p),
           ctx[p] # None => record[ctx[p]] # "NONE",
           \/ \E r \in Runs, m \in BOOLEAN : Ask(p, r, m)
           \/ Bootstrap(p) \/ LeaveWork(p) \/ Edit(p) \/ Break(p)
           \/ SaveSession(p, "work", "work")
    PROVE  TxnStep(p) /\ SessionStep(p)
<1> USE TypeParts, IdAssumption DEF Go, TxnTypes, StoreTypes, ContextTypes,
   RunTypes
<1> USE DEF ProcessOK, PhaseOK, RecordOK, EditSteps, BoundSteps, Terminal
<1>1. ASSUME NEW r \in Runs, NEW m \in BOOLEAN, Ask(p, r, m)
      PROVE  TxnStep(p) /\ SessionStep(p)
  <2>1. TxnStep(p)
    BY <1>1 DEF Ask, TxnStep, disk
  <2>2. SessionStep(p)
    BY <1>1 DEF Ask, SessionStep, disk
  <2> QED BY <2>1, <2>2
<1>2. CASE StartRun(p)
  <2>1. TxnStep(p)
    BY <1>2 DEF StartRun, TxnStep, txnDisk
  <2>2. SessionStep(p)
    BY <1>2 DEF StartRun, SessionStep
  <2> QED BY <2>1, <2>2
<1>3. ASSUME NEW t \in Txns, BeginTransaction(p, t)
      PROVE  TxnStep(p) /\ SessionStep(p)
  <2>1. TxnStep(p)
    BY <1>3 DEF BeginTransaction, TxnStep
  <2>2. SessionStep(p)
    BY <1>3 DEF BeginTransaction, SessionStep
  <2> QED BY <2>1, <2>2
<1>4. CASE PointSession(p)
  <2>1. TxnStep(p)
    BY <1>4 DEF PointSession, TxnStep
  <2>2. SessionStep(p)
    BY <1>4 DEF PointSession, SessionStep, Saved, Pointed, SaveFails
  <2> QED BY <2>1, <2>2
<1>5. CASE ResumeEditing(p)
  <2>1. TxnStep(p)
    BY <1>5 DEF ResumeEditing, TxnStep
  <2>2. SessionStep(p)
    BY <1>5 DEF ResumeEditing, SessionStep
  <2> QED BY <2>1, <2>2
<1>6. CASE BindRun(p)
  <2>1. TxnStep(p)
    BY <1>6 DEF BindRun, TxnStep, txnDisk
  <2>2. SessionStep(p)
    BY <1>6 DEF BindRun, SessionStep
  <2> QED BY <2>1, <2>2
<1>7. CASE LeaveWork(p)
  <2>1. TxnStep(p)
    BY <1>7 DEF LeaveWork, TxnStep, disk
  <2>2. SessionStep(p)
    BY <1>7 DEF LeaveWork, SessionStep, disk
  <2> QED BY <2>1, <2>2
<1>8. CASE Edit(p)
  <2>1. TxnStep(p)
    BY <1>8 DEF Edit, TxnStep
  <2>2. SessionStep(p)
    BY <1>8 DEF Edit, SessionStep, process
  <2> QED BY <2>1, <2>2
<1>9. CASE Break(p)
  <2>1. TxnStep(p)
    BY <1>9 DEF Break, TxnStep, disk
  <2>2. SessionStep(p)
    BY <1>9 DEF Break, SessionStep, disk
  <2> QED BY <2>1, <2>2
<1>10. ASSUME NEW from, NEW to, SaveSession(p, from, to)
      PROVE  TxnStep(p) /\ SessionStep(p)
  BY <1>10 DEF SaveSession, Saved, SaveFails, Pointed, txnDisk, TxnStep,
     SessionStep
<1> QED BY <1>1, <1>2, <1>3, <1>4, <1>5, <1>6, <1>7, <1>8, <1>9, <1>10
   DEF Bootstrap

LEMMA DeliverDisk ==
    ASSUME TypeOK, RecordOK, NEW p \in Procs, ProcessOK(p), LeaseOK(p),
           ctx[p] # None => record[ctx[p]] # "NONE",
           Deliver(p) \/ Apply(p) \/ Discard(p)
    PROVE  TxnStep(p) /\ SessionStep(p)
<1> USE TypeParts, IdAssumption DEF Go, TxnTypes, StoreTypes, ContextTypes,
   RunTypes
<1> USE DEF ProcessOK, PhaseOK, RecordOK, EditSteps, BoundSteps, Terminal
<1>1. CASE LeavePending(p)
  <2>1. TxnStep(p)
    BY <1>1, InterruptContextSteps DEF LeavePending, TxnStep
  <2>2. SessionStep(p)
    BY <1>1 DEF LeavePending, SessionStep
  <2> QED BY <2>1, <2>2
<1>2. CASE Stage(p)
  <2>1. TxnStep(p)
    BY <1>2 DEF Stage, TxnStep
  <2>2. SessionStep(p)
    BY <1>2 DEF Stage, SessionStep
  <2> QED BY <2>1, <2>2
<1>3. CASE Blocked(p)
  <2>1. TxnStep(p)
    BY <1>3 DEF Blocked, TxnStep
  <2>2. SessionStep(p)
    BY <1>3 DEF Blocked, SessionStep
  <2> QED BY <2>1, <2>2
<1>4. CASE Validated(p)
  <2>1. TxnStep(p)
    BY <1>4 DEF Validated, TxnStep
  <2>2. SessionStep(p)
    BY <1>4 DEF Validated, SessionStep
  <2> QED BY <2>1, <2>2
<1>5. CASE Apply(p)
  <2>1. TxnStep(p)
    BY <1>5 DEF Apply, TxnStep, disk
  <2>2. SessionStep(p)
    BY <1>5 DEF Apply, SessionStep, disk
  <2> QED BY <2>1, <2>2
<1>6. CASE Revalidate(p)
  <2>1. TxnStep(p)
    BY <1>6 DEF Revalidate, TxnStep
  <2>2. SessionStep(p)
    BY <1>6 DEF Revalidate, SessionStep
  <2> QED BY <2>1, <2>2
<1>7. CASE RefuseCommit(p)
  <2>1. TxnStep(p)
    BY <1>7 DEF RefuseCommit, TxnStep
  <2>2. SessionStep(p)
    BY <1>7 DEF RefuseCommit, SessionStep
  <2> QED BY <2>1, <2>2
<1>8. CASE OpenJournal(p)
  <2>1. TxnStep(p)
    BY <1>8 DEF OpenJournal, TxnStep, SealedOK, OpenStates, Interruptible
  <2>2. SessionStep(p)
    BY <1>8 DEF OpenJournal, SessionStep
  <2> QED BY <2>1, <2>2
<1>9. CASE ApplyFails(p)
  <2>1. TxnStep(p)
    BY <1>9 DEF ApplyFails, TxnStep, SealedOK
  <2>2. SessionStep(p)
    BY <1>9 DEF ApplyFails, SessionStep
  <2> QED BY <2>1, <2>2
<1>10. CASE SealJournal(p)
  <2>1. TxnStep(p)
    BY <1>10 DEF SealJournal, TxnStep
  <2>2. SessionStep(p)
    BY <1>10 DEF SealJournal, SessionStep
  <2> QED BY <2>1, <2>2
<1>11. CASE SealRecord(p)
  <2>1. TxnStep(p)
    BY <1>11 DEF SealRecord, TxnStep, txnDisk, Settle, SealedOK
  <2>2. SessionStep(p)
    BY <1>11 DEF SealRecord, SessionStep
  <2> QED BY <2>1, <2>2
<1>12. CASE Discard(p)
  <2>1. TxnStep(p)
    BY <1>12 DEF Discard, TxnStep
  <2>2. SessionStep(p)
    BY <1>12 DEF Discard, SessionStep
  <2> QED BY <2>1, <2>2
<1>13. CASE RestoreSourceView(p)
  <2>1. TxnStep(p)
    BY <1>13 DEF RestoreSourceView, TxnStep, txnDisk
  <2>2. SessionStep(p)
    BY <1>13 DEF RestoreSourceView, SessionStep, Saved, Pointed, SaveFails
  <2> QED BY <2>1, <2>2
<1>14. CASE Report(p)
  <2>1. TxnStep(p)
    BY <1>14 DEF Report, TxnStep, txnDisk
  <2>2. SessionStep(p)
    BY <1>14 DEF Report, SessionStep
  <2> QED BY <2>1, <2>2
<1>15. CASE Halt(p)
  <2>1. TxnStep(p)
    BY <1>15, InterruptContextSteps DEF Halt, TxnStep
  <2>2. SessionStep(p)
    BY <1>15 DEF Halt, SessionStep, Saved, Pointed, SaveFails
  <2> QED BY <2>1, <2>2
<1>16. CASE WriteRun(p)
  <2>1. TxnStep(p)
    BY <1>16 DEF WriteRun, TxnStep, txnDisk
  <2>2. SessionStep(p)
    BY <1>16 DEF WriteRun, SessionStep
  <2> QED BY <2>1, <2>2
<1>17. CASE CloseAborted(p)
  <2>1. TxnStep(p)
    BY <1>17, InterruptContextSteps DEF CloseAborted, TxnStep, txnDisk
  <2>2. SessionStep(p)
    BY <1>17 DEF CloseAborted, SessionStep, Saved, Pointed
  <2> QED BY <2>1, <2>2
<1>18. ASSUME NEW from, NEW to, SaveSession(p, from, to)
      PROVE  TxnStep(p) /\ SessionStep(p)
  BY <1>18 DEF SaveSession, Saved, SaveFails, Pointed, txnDisk, TxnStep,
     SessionStep
<1> QED BY <1>1, <1>2, <1>3, <1>4, <1>5, <1>6, <1>7, <1>8, <1>9, <1>10, <1>11,
   <1>12, <1>13, <1>14, <1>15, <1>16, <1>17, <1>18 DEF Deliver

LEMMA InterruptedFacts ==
    ASSUME NEW s
    PROVE  /\ Interrupted(s) \in OpenStates <=> s \in OpenStates
           /\ Interrupted(s) \in Askable \/ Interrupted(s) = s
           /\ Interrupted(s) = "COMMITTED" <=> s = "COMMITTED"
           /\ s \in Askable => Interrupted(s) \in Askable
BY DEF Interrupted, OpenStates, Interruptible, Askable

LEMMA OpenProcess ==
    ASSUME TypeOK, RecordOK, NEW p \in Procs, ProcessOK(p), LeaseOK(p),
           ctx[p] # None => record[ctx[p]] # "NONE",
           Start(p) \/ Open(p)
    PROVE  ProcessOK(p)'
<1> USE TypeParts, IdAssumption DEF Go, TxnTypes, StoreTypes, ContextTypes,
   RunTypes
<1> USE DEF ProcessOK
<1>1. CASE Start(p)
  <2>1. PhaseOK(p)'
    BY <1>1 DEF Start, disk, PhaseOK, EditSteps, BoundSteps
  <2>2. SealedOK(p)'
    BY <1>1 DEF Start, disk, SealedOK, PhaseOK, OpenStates, Interruptible
  <2>3. BoundOK(p)'
    BY <1>1 DEF Start, disk, BoundOK, LeaseOK, AskSteps, EditSteps, BoundSteps
  <2>4. Truthful(task[p])'
    BY <1>1 DEF Start, disk, Truthful
  <2> QED BY <2>1, <2>2, <2>3, <2>4
<1>2. CASE RestoreNothing(p)
  <2>1. PhaseOK(p)'
    BY <1>2 DEF RestoreNothing, disk, PhaseOK, EditSteps, BoundSteps
  <2>2. SealedOK(p)'
    BY <1>2 DEF RestoreNothing, disk, SealedOK
  <2>3. BoundOK(p)'
    BY <1>2 DEF RestoreNothing, disk, BoundOK, EditSteps, BoundSteps
  <2>4. Truthful(task[p])'
    BY <1>2 DEF RestoreNothing, disk, Truthful
  <2> QED BY <2>1, <2>2, <2>3, <2>4
<1>3. CASE RestoreTerminal(p)
  <2>1. CASE Exit(p)
    BY <2>1, ExitSteps
  <2>2. CASE ~Exit(p)
    <3>1. PhaseOK(p)'
      BY <1>3, <2>2 DEF RestoreTerminal, PhaseOK, EditSteps, BoundSteps
    <3>2. SealedOK(p)'
      BY <1>3, <2>2, LoadedFacts DEF RestoreTerminal, SealedOK
    <3>3. BoundOK(p)'
      BY <1>3, <2>2 DEF RestoreTerminal, BoundOK, EditSteps, BoundSteps
    <3>4. Truthful(task[p])'
      BY <1>3, <2>2, LoadedFacts DEF RestoreTerminal, Truthful
    <3> QED BY <3>1, <3>2, <3>3, <3>4
  <2> QED BY <2>1, <2>2
<1>4. CASE RestoreUnavailable(p)
  <2>1. CASE Exit(p)
    BY <2>1, ExitSteps
  <2> QED BY <1>4, <2>1 DEF RestoreUnavailable
<1>5. CASE RestoreContext(p)
  <2>1. PhaseOK(p)'
    BY <1>5 DEF RestoreContext, PhaseOK, EditSteps, BoundSteps
  <2>2. SealedOK(p)'
    BY <1>5, LoadedFacts DEF RestoreContext, SealedOK
  <2>3. BoundOK(p)'
    BY <1>5 DEF RestoreContext, BoundOK, LeaseOK, AskSteps, OpenSteps,
       EditSteps, BoundSteps
  <2>4. Truthful(task[p])'
    BY <1>5, LoadedFacts DEF RestoreContext, Truthful
  <2> QED BY <2>1, <2>2, <2>3, <2>4
<1>6. ASSUME NEW r \in Runs, Examine(p, r)
      PROVE  ProcessOK(p)'
  <2>1. PhaseOK(p)'
    BY <1>6 DEF Examine, disk, PhaseOK, EditSteps, BoundSteps
  <2>2. SealedOK(p)'
    BY <1>6 DEF Examine, disk, SealedOK
  <2>3. BoundOK(p)'
    BY <1>6 DEF Examine, disk, BoundOK, EditSteps, BoundSteps
  <2>4. Truthful(task[p])'
    BY <1>6 DEF Examine, disk, Truthful
  <2> QED BY <2>1, <2>2, <2>3, <2>4
<1>7. CASE Claim(p)
  <2>1. PhaseOK(p)'
    BY <1>7 DEF Claim, disk, PhaseOK, EditSteps, BoundSteps
  <2>2. SealedOK(p)'
    BY <1>7 DEF Claim, disk, SealedOK
  <2>3. BoundOK(p)'
    BY <1>7 DEF Claim, disk, BoundOK, EditSteps, BoundSteps
  <2>4. Truthful(task[p])'
    BY <1>7 DEF Claim, disk, Truthful
  <2> QED BY <2>1, <2>2, <2>3, <2>4
<1>8. CASE SettleOrphan(p)
  <2>1. PhaseOK(p)'
    BY <1>8, InterruptContextSteps, InterruptedFacts DEF SettleOrphan, PhaseOK,
       EditSteps, BoundSteps
  <2>2. SealedOK(p)'
    <3>1. pc'[p] = "close" /\ ctx' = ctx
      BY <1>8 DEF SettleOrphan
    <3>2. CASE held' = held /\ journal' = journal
      BY <3>1, <3>2 DEF SealedOK
    <3>3. CASE InterruptContext(p)
      BY <3>1, <3>3, InterruptContextSteps, InterruptedFacts DEF SealedOK
    <3> QED BY <1>8, <3>2, <3>3 DEF SettleOrphan, Settle, txnDisk
  <2>3. BoundOK(p)'
    BY <1>8, InterruptContextSteps, InterruptedFacts DEF SettleOrphan, Task,
       BoundOK, LeaseOK, AskSteps, OpenSteps, EditSteps, BoundSteps
  <2>4. Truthful(task[p])'
    <3>1. CASE ~task'[p].delivered
      BY <3>1 DEF Truthful
    <3>2. CASE task'[p].delivered
      <4>1. \/ task'[p] = Task("closed", claim[p].txn, FALSE)
            \/ /\ task'[p] = Task("closed", claim[p].txn, Loaded(claim[p].txn) = "COMMITTED")
               /\ claim[p].txn # None /\ journal' = journal
        BY <1>8 DEF SettleOrphan, Settle
      <4>2. /\ task'[p].txn = claim[p].txn /\ Loaded(claim[p].txn) = "COMMITTED"
            /\ claim[p].txn # None /\ journal' = journal
        <5>1. ~Task("closed", claim[p].txn, FALSE).delivered
          BY DEF Task
        <5>2. /\ task'[p] = Task("closed", claim[p].txn, Loaded(claim[p].txn) = "COMMITTED")
              /\ claim[p].txn # None /\ journal' = journal
          BY <3>2, <4>1, <5>1
        <5>3. task'[p].txn = claim[p].txn
          BY <5>2 DEF Task
        <5>4. CASE Loaded(claim[p].txn) # "COMMITTED"
          <6>1. (Loaded(claim[p].txn) = "COMMITTED") = FALSE
            BY <5>4
          <6>2. task'[p] = Task("closed", claim[p].txn, FALSE)
            BY <5>2, <6>1, Zenon
          <6> QED BY <3>2, <5>1, <6>2
        <5> QED BY <5>2, <5>3, <5>4
      <4> QED BY <4>2, LoadedFacts DEF Truthful
    <3> QED BY <3>1, <3>2
  <2> QED BY <2>1, <2>2, <2>3, <2>4
<1>9. CASE CloseOrphan(p)
  <2>1. CASE Exit(p)
    BY <2>1, ExitSteps
  <2>2. CASE ~Exit(p)
    <3>1. PhaseOK(p)'
      BY <1>9, <2>2 DEF CloseOrphan, PhaseOK, EditSteps, BoundSteps
    <3>2. SealedOK(p)'
      BY <1>9, <2>2 DEF CloseOrphan, txnDisk, SealedOK
    <3>3. BoundOK(p)'
      BY <1>9, <2>2, NoTaskParts DEF CloseOrphan, BoundOK, LeaseOK, AskSteps,
         OpenSteps, EditSteps, BoundSteps
    <3>4. Truthful(task[p])'
      BY <1>9, <2>2, NoTaskParts DEF CloseOrphan, Truthful
    <3> QED BY <3>1, <3>2, <3>3, <3>4
  <2> QED BY <2>1, <2>2
<1>10. CASE Opened(p)
  <2>1. CASE Exit(p)
    BY <2>1, ExitSteps
  <2>2. CASE ~Exit(p)
    <3>1. PhaseOK(p)'
      BY <1>10, <2>2 DEF Opened, PhaseOK, EditSteps, BoundSteps
    <3>2. SealedOK(p)'
      BY <1>10, <2>2 DEF Opened, txnDisk, SealedOK
    <3>3. BoundOK(p)'
      BY <1>10, <2>2 DEF Opened, BoundOK, EditSteps, BoundSteps
    <3>4. Truthful(task[p])'
      BY <1>10, <2>2 DEF Opened, txnDisk, Truthful
    <3> QED BY <3>1, <3>2, <3>3, <3>4
  <2> QED BY <2>1, <2>2
<1> QED BY <1>1, <1>2, <1>3, <1>4, <1>5, <1>6, <1>7, <1>8, <1>9, <1>10 DEF Open

LEMMA BootstrapProcess ==
    ASSUME TypeOK, RecordOK, NEW p \in Procs, ProcessOK(p), LeaseOK(p),
           ctx[p] # None => record[ctx[p]] # "NONE",
           \A t \in Txns : record[t] = "NONE" => journal[t] = "NONE",
           \/ \E r \in Runs, m \in BOOLEAN : Ask(p, r, m)
           \/ Bootstrap(p) \/ LeaveWork(p) \/ Edit(p) \/ Break(p)
           \/ SaveSession(p, "work", "work")
    PROVE  ProcessOK(p)'
<1> USE TypeParts, IdAssumption DEF Go, TxnTypes, StoreTypes, ContextTypes,
   RunTypes
<1> USE DEF ProcessOK
<1>1. ASSUME NEW r \in Runs, NEW m \in BOOLEAN, Ask(p, r, m)
      PROVE  ProcessOK(p)'
  <2>1. PhaseOK(p)'
    BY <1>1 DEF Ask, disk, PhaseOK, EditSteps, BoundSteps
  <2>2. SealedOK(p)'
    BY <1>1 DEF Ask, disk, SealedOK
  <2>3. BoundOK(p)'
    BY <1>1 DEF Ask, disk, Task, BoundOK, EditSteps, BoundSteps
  <2>4. Truthful(task[p])'
    BY <1>1 DEF Ask, disk, Task, Truthful
  <2> QED BY <2>1, <2>2, <2>3, <2>4
<1>2. CASE StartRun(p)
  <2>1. PhaseOK(p)'
    BY <1>2 DEF StartRun, Raise, PhaseOK, EditSteps, BoundSteps
  <2>2. SealedOK(p)'
    BY <1>2 DEF StartRun, Raise, txnDisk, SealedOK
  <2>3. BoundOK(p)'
    BY <1>2 DEF StartRun, Raise, BoundOK, EditSteps, BoundSteps
  <2>4. Truthful(task[p])'
    BY <1>2 DEF StartRun, txnDisk, Truthful
  <2> QED BY <2>1, <2>2, <2>3, <2>4
<1>3. ASSUME NEW t \in Txns, BeginTransaction(p, t)
      PROVE  ProcessOK(p)'
  <2>1. PhaseOK(p)'
    BY <1>3 DEF BeginTransaction, Raise, PhaseOK, EditSteps, BoundSteps, Askable
  <2>2. SealedOK(p)'
    BY <1>3 DEF BeginTransaction, SealedOK
  <2>3. BoundOK(p)'
    BY <1>3 DEF BeginTransaction, Raise, BoundOK, EditSteps, BoundSteps, Askable
  <2>4. Truthful(task[p])'
    BY <1>3 DEF BeginTransaction, Truthful
  <2> QED BY <2>1, <2>2, <2>3, <2>4
<1>4. CASE PointSession(p)
  <2>1. PhaseOK(p)'
    BY <1>4 DEF PointSession, Raise, PhaseOK, EditSteps, BoundSteps
  <2>2. SealedOK(p)'
    BY <1>4 DEF PointSession, SealedOK
  <2>3. BoundOK(p)'
    BY <1>4 DEF PointSession, Raise, BoundOK, EditSteps, BoundSteps
  <2>4. Truthful(task[p])'
    BY <1>4 DEF PointSession, Truthful
  <2> QED BY <2>1, <2>2, <2>3, <2>4
<1>5. CASE ResumeEditing(p)
  <2>1. PhaseOK(p)'
    BY <1>5 DEF ResumeEditing, PhaseOK, Askable
  <2>2. SealedOK(p)'
    BY <1>5 DEF ResumeEditing, SealedOK, PhaseOK, OpenStates, Interruptible,
       Askable
  <2>3. BoundOK(p)'
    BY <1>5 DEF ResumeEditing, BoundOK, EditSteps, BoundSteps, Askable
  <2>4. Truthful(task[p])'
    BY <1>5 DEF ResumeEditing, Truthful
  <2> QED BY <2>1, <2>2, <2>3, <2>4
<1>6. CASE BindRun(p)
  <2>1. PhaseOK(p)'
    <3>1. pc[p] = "bind" /\ UNCHANGED <<ctx, held>>
      BY <1>6 DEF BindRun
    <3>2. Go(p, "greet") \/ Go(p, "abort") \/ Go(p, "idle")
      BY <1>6, Zenon DEF BindRun, Raise
    <3> QED BY <3>1, <3>2 DEF PhaseOK, EditSteps, BoundSteps, Askable
  <2>2. SealedOK(p)'
    BY ZenonT(40), <1>6 DEF BindRun, Raise, InAsk, txnDisk, SealedOK, PhaseOK, OpenStates,
       Interruptible, EditSteps, BoundSteps, Askable
  <2>3. BoundOK(p)'
    BY <1>6 DEF BindRun, Task, BoundOK
  <2>4. Truthful(task[p])'
    BY <1>6 DEF BindRun, Task, Truthful
  <2> QED BY <2>1, <2>2, <2>3, <2>4
<1>7. CASE LeaveWork(p)
  <2>1. PhaseOK(p)'
    BY <1>7 DEF LeaveWork, disk, PhaseOK, EditSteps, BoundSteps
  <2>2. SealedOK(p)'
    BY <1>7 DEF LeaveWork, disk, SealedOK
  <2>3. BoundOK(p)'
    BY <1>7 DEF LeaveWork, disk, BoundOK, EditSteps, BoundSteps
  <2>4. Truthful(task[p])'
    BY <1>7 DEF LeaveWork, disk, Truthful
  <2> QED BY <2>1, <2>2, <2>3, <2>4
<1>8. CASE Edit(p)
  <2>1. PhaseOK(p)'
    BY <1>8 DEF Edit, process, PhaseOK
  <2>2. SealedOK(p)'
    BY <1>8 DEF Edit, process, SealedOK
  <2>3. BoundOK(p)'
    BY <1>8 DEF Edit, process, BoundOK
  <2>4. Truthful(task[p])'
    BY <1>8 DEF Edit, process, Truthful
  <2> QED BY <2>1, <2>2, <2>3, <2>4
<1>9. CASE Break(p)
  <2>1. PhaseOK(p)'
    BY <1>9 DEF Break, disk, PhaseOK, EditSteps, BoundSteps
  <2>2. SealedOK(p)'
    BY <1>9 DEF Break, disk, SealedOK
  <2>3. BoundOK(p)'
    BY <1>9 DEF Break, disk, BoundOK, EditSteps, BoundSteps
  <2>4. Truthful(task[p])'
    BY <1>9 DEF Break, disk, Truthful
  <2> QED BY <2>1, <2>2, <2>3, <2>4
<1>10. CASE SaveSession(p, "greet", "work")
  BY <1>10 DEF SaveSession, Raise, txnDisk, PhaseOK, SealedOK, BoundOK,
     Truthful, EditSteps, BoundSteps
<1>11. CASE SaveSession(p, "work", "work")
  BY <1>11 DEF SaveSession, Raise, txnDisk, PhaseOK, SealedOK, BoundOK,
     Truthful, EditSteps, BoundSteps
<1> QED BY <1>1, <1>2, <1>3, <1>4, <1>5, <1>6, <1>7, <1>8, <1>9, <1>10, <1>11
   DEF Bootstrap

LEMMA DeliverProcess ==
    ASSUME TypeOK, RecordOK, NEW p \in Procs, ProcessOK(p), LeaseOK(p),
           ctx[p] # None => record[ctx[p]] # "NONE",
           Deliver(p) \/ Apply(p) \/ Discard(p)
    PROVE  ProcessOK(p)'
<1> USE TypeParts, IdAssumption DEF Go, TxnTypes, StoreTypes, ContextTypes,
   RunTypes
<1> USE DEF ProcessOK
<1>1. CASE LeavePending(p)
  <2>1. PhaseOK(p)'
    BY <1>1, InterruptContextSteps, InterruptedFacts DEF LeavePending, PhaseOK,
       EditSteps, BoundSteps
  <2>2. SealedOK(p)'
    BY <1>1, InterruptContextSteps, InterruptedFacts DEF LeavePending, SealedOK
  <2>3. BoundOK(p)'
    BY <1>1, InterruptContextSteps, InterruptedFacts DEF LeavePending, Task,
       BoundOK, EditSteps, BoundSteps
  <2>4. Truthful(task[p])'
    BY <1>1, InterruptContextSteps, InterruptedFacts DEF LeavePending, Task,
       Truthful
  <2> QED BY <2>1, <2>2, <2>3, <2>4
<1>2. CASE Stage(p)
  <2>1. PhaseOK(p)'
    BY <1>2 DEF Stage, PhaseOK, EditSteps, BoundSteps
  <2>2. SealedOK(p)'
    BY <1>2 DEF Stage, SealedOK, PhaseOK, OpenStates, Interruptible, EditSteps,
       BoundSteps, Askable
  <2>3. BoundOK(p)'
    BY <1>2 DEF Stage, BoundOK, EditSteps, BoundSteps
  <2>4. Truthful(task[p])'
    BY <1>2 DEF Stage, Truthful
  <2> QED BY <2>1, <2>2, <2>3, <2>4
<1>3. CASE Blocked(p)
  <2>1. PhaseOK(p)'
    BY <1>3 DEF Blocked, PhaseOK, EditSteps, BoundSteps
  <2>2. SealedOK(p)'
    BY <1>3 DEF Blocked, SealedOK, PhaseOK, OpenStates, Interruptible
  <2>3. BoundOK(p)'
    BY <1>3 DEF Blocked, Task, BoundOK, PhaseOK, LeaseOK, AskSteps, Askable
  <2>4. Truthful(task[p])'
    BY <1>3 DEF Blocked, Task, Truthful
  <2> QED BY <2>1, <2>2, <2>3, <2>4
<1>4. CASE Validated(p)
  <2>1. PhaseOK(p)'
    <3>1. held'[p] = "READY_FOR_REVIEW" /\ UNCHANGED ctx /\ ctx[p] # None
      BY <1>4 DEF Validated, PhaseOK
    <3>2. Go(p, "commit") \/ Go(p, "outcome")
      BY <1>4, Zenon DEF Validated
    <3> QED BY <3>1, <3>2 DEF PhaseOK, EditSteps, BoundSteps
  <2>2. SealedOK(p)'
    BY <1>4 DEF Validated, Changed, SealedOK, PhaseOK, OpenStates, Interruptible
  <2>3. BoundOK(p)'
    BY <1>4 DEF Validated, Changed, Task, BoundOK, PhaseOK, LeaseOK, AskSteps,
       Askable
  <2>4. Truthful(task[p])'
    BY <1>4 DEF Validated, Changed, Task, Truthful
  <2> QED BY <2>1, <2>2, <2>3, <2>4
<1>5. CASE Apply(p)
  <2>1. PhaseOK(p)'
    BY <1>5 DEF Apply, disk, PhaseOK, EditSteps, BoundSteps
  <2>2. SealedOK(p)'
    BY <1>5 DEF Apply, disk, SealedOK
  <2>3. BoundOK(p)'
    BY <1>5 DEF Apply, disk, BoundOK, EditSteps, BoundSteps
  <2>4. Truthful(task[p])'
    BY <1>5 DEF Apply, disk, Truthful
  <2> QED BY <2>1, <2>2, <2>3, <2>4
<1>6. CASE Revalidate(p)
  <2>1. PhaseOK(p)'
    BY <1>6 DEF Revalidate, PhaseOK, EditSteps, BoundSteps
  <2>2. SealedOK(p)'
    BY <1>6 DEF Revalidate, SealedOK, PhaseOK, OpenStates, Interruptible
  <2>3. BoundOK(p)'
    BY <1>6 DEF Revalidate, BoundOK, PhaseOK, EditSteps, BoundSteps, Askable
  <2>4. Truthful(task[p])'
    BY <1>6 DEF Revalidate, Truthful
  <2> QED BY <2>1, <2>2, <2>3, <2>4
<1>7. CASE RefuseCommit(p)
  <2>1. PhaseOK(p)'
    BY <1>7 DEF RefuseCommit, Raise, PhaseOK, EditSteps, BoundSteps
  <2>2. SealedOK(p)'
    BY <1>7 DEF RefuseCommit, Raise, SealedOK, PhaseOK, OpenStates,
       Interruptible
  <2>3. BoundOK(p)'
    BY <1>7 DEF RefuseCommit, Raise, BoundOK, PhaseOK, EditSteps, BoundSteps,
       Askable
  <2>4. Truthful(task[p])'
    BY <1>7 DEF RefuseCommit, Truthful
  <2> QED BY <2>1, <2>2, <2>3, <2>4
<1>8. CASE OpenJournal(p)
  <2>1. PhaseOK(p)'
    BY <1>8 DEF OpenJournal, PhaseOK, EditSteps, BoundSteps
  <2>2. SealedOK(p)'
    BY <1>8 DEF OpenJournal, SealedOK
  <2>3. BoundOK(p)'
    BY <1>8 DEF OpenJournal, BoundOK, PhaseOK, EditSteps, BoundSteps, Askable
  <2>4. Truthful(task[p])'
    BY <1>8 DEF OpenJournal, Truthful, OpenStates, Interruptible, SealedOK,
       PhaseOK
  <2> QED BY <2>1, <2>2, <2>3, <2>4
<1>9. CASE ApplyFails(p)
  <2>1. PhaseOK(p)'
    BY <1>9 DEF ApplyFails, Raise, PhaseOK, EditSteps, BoundSteps
  <2>2. SealedOK(p)'
    BY <1>9 DEF ApplyFails, Raise, SealedOK
  <2>3. BoundOK(p)'
    BY <1>9 DEF ApplyFails, Raise, BoundOK, PhaseOK, EditSteps, BoundSteps,
       Askable
  <2>4. Truthful(task[p])'
    BY <1>9 DEF ApplyFails, Truthful, SealedOK
  <2> QED BY <2>1, <2>2, <2>3, <2>4
<1>10. CASE SealJournal(p)
  <2>1. PhaseOK(p)'
    BY <1>10 DEF SealJournal, PhaseOK, EditSteps, BoundSteps
  <2>2. SealedOK(p)'
    BY <1>10 DEF SealJournal, SealedOK, PhaseOK, OpenStates, Interruptible
  <2>3. BoundOK(p)'
    BY <1>10 DEF SealJournal, BoundOK, EditSteps, BoundSteps
  <2>4. Truthful(task[p])'
    BY <1>10 DEF SealJournal, Truthful
  <2> QED BY <2>1, <2>2, <2>3, <2>4
<1>11. CASE SealRecord(p)
  <2>1. PhaseOK(p)'
    BY <1>11 DEF SealRecord, Raise, PhaseOK, EditSteps, BoundSteps, Terminal
  <2>2. SealedOK(p)'
    BY <1>11 DEF SealRecord, Raise, txnDisk, SealedOK, OpenStates,
       Interruptible, RecordOK, Settle
  <2>3. BoundOK(p)'
    BY <1>11 DEF SealRecord, Raise, BoundOK, PhaseOK, EditSteps, BoundSteps,
       Askable
  <2>4. Truthful(task[p])'
    BY <1>11 DEF SealRecord, txnDisk, Truthful, Settle
  <2> QED BY <2>1, <2>2, <2>3, <2>4
<1>12. CASE Discard(p)
  <2>1. PhaseOK(p)'
    BY <1>12 DEF Discard, PhaseOK, EditSteps, BoundSteps, Terminal
  <2>2. SealedOK(p)'
    BY <1>12 DEF Discard, SealedOK, OpenStates, Interruptible
  <2>3. BoundOK(p)'
    BY <1>12 DEF Discard, BoundOK, EditSteps, BoundSteps
  <2>4. Truthful(task[p])'
    BY <1>12 DEF Discard, Truthful
  <2> QED BY <2>1, <2>2, <2>3, <2>4
<1>13. CASE RestoreSourceView(p)
  <2>1. PhaseOK(p)'
    BY <1>13 DEF RestoreSourceView, Raise, PhaseOK, EditSteps, BoundSteps
  <2>2. SealedOK(p)'
    BY <1>13 DEF RestoreSourceView, SealedOK
  <2>3. BoundOK(p)'
    BY <1>13 DEF RestoreSourceView, Raise, Task, BoundOK, EditSteps, BoundSteps
  <2>4. Truthful(task[p])'
    <3>1. journal' = journal /\ ctx[p] # None
      BY <1>13 DEF RestoreSourceView, PhaseOK, txnDisk
    <3>2. CASE task' = task
      BY <3>1, <3>2 DEF Truthful
    <3>3. CASE /\ cur[p] # None
               /\ task' = [task EXCEPT ![p] = Task("closed", @.txn, held[p] = "COMMITTED")]
      <4>1. task'[p].txn = task[p].txn /\ (task'[p].delivered <=> held[p] = "COMMITTED")
        BY <3>3 DEF Task
      <4>2. held[p] = "COMMITTED" => task[p].txn = ctx[p] /\ journal[ctx[p]] = "COMMITTED"
        BY <3>1, <3>3 DEF BoundOK, SealedOK, Askable
      <4> QED BY <3>1, <4>1, <4>2 DEF Truthful
    <3> QED BY <1>13, <3>2, <3>3 DEF RestoreSourceView, InAsk
  <2> QED BY <2>1, <2>2, <2>3, <2>4
<1>14. CASE Report(p)
  <2>1. PhaseOK(p)'
    BY <1>14 DEF Report, PhaseOK, EditSteps, BoundSteps
  <2>2. SealedOK(p)'
    BY <1>14 DEF Report, txnDisk, SealedOK
  <2>3. BoundOK(p)'
    BY <1>14 DEF Report, BoundOK, EditSteps, BoundSteps
  <2>4. Truthful(task[p])'
    BY <1>14 DEF Report, txnDisk, Truthful
  <2> QED BY <2>1, <2>2, <2>3, <2>4
<1>15. CASE Halt(p)
  <2>1. PhaseOK(p)'
    BY <1>15, InterruptContextSteps, InterruptedFacts DEF Halt, Raise, PhaseOK,
       EditSteps, BoundSteps
  <2>2. SealedOK(p)'
    BY <1>15, InterruptContextSteps, InterruptedFacts DEF Halt, Raise, SealedOK
  <2>3. BoundOK(p)'
    BY <1>15, InterruptContextSteps, InterruptedFacts DEF Halt, Task, BoundOK,
       EditSteps, BoundSteps
  <2>4. Truthful(task[p])'
    BY <1>15, InterruptContextSteps, InterruptedFacts DEF Halt, Task, Truthful
  <2> QED BY <2>1, <2>2, <2>3, <2>4
<1>16. CASE WriteRun(p)
  <2>1. PhaseOK(p)'
    BY <1>16 DEF WriteRun, Raise, Release, PhaseOK, EditSteps, BoundSteps
  <2>2. SealedOK(p)'
    BY <1>16 DEF WriteRun, Raise, txnDisk, Release, SealedOK
  <2>3. BoundOK(p)'
    BY <1>16 DEF WriteRun, Raise, Release, BoundOK, EditSteps, BoundSteps
  <2>4. Truthful(task[p])'
    BY <1>16 DEF WriteRun, txnDisk, Truthful
  <2> QED BY <2>1, <2>2, <2>3, <2>4
<1>17. CASE CloseAborted(p)
  <2>1. PhaseOK(p)'
    BY <1>17, InterruptContextSteps, InterruptedFacts DEF CloseAborted, Release,
       PhaseOK, EditSteps, BoundSteps
  <2>2. SealedOK(p)'
    BY <1>17, InterruptContextSteps, InterruptedFacts DEF CloseAborted, txnDisk,
       Release, SealedOK
  <2>3. BoundOK(p)'
    BY <1>17, InterruptContextSteps, InterruptedFacts DEF CloseAborted, Release,
       Task, Aborted, BoundOK, EditSteps, BoundSteps
  <2>4. Truthful(task[p])'
    <3>1. journal' = journal /\ task'[p] = Aborted(p) /\ cur[p] # None
      BY <1>17, InterruptContextSteps DEF CloseAborted, txnDisk, LeaseOK,
         AskSteps
    <3>2. CASE task[p].status = "closed"
      BY <3>1, <3>2 DEF Aborted, Truthful
    <3>3. CASE task[p].status # "closed"
      <4>1. /\ Aborted(p).txn = task[p].txn
            /\ Aborted(p).delivered => ctx[p] # None /\ held[p] = "COMMITTED"
                                          /\ journal[ctx[p]] = "COMMITTED"
        BY <3>3 DEF Aborted, Task
      <4> QED BY <3>1, <4>1 DEF Truthful, BoundOK, Askable
    <3> QED BY <3>2, <3>3
  <2> QED BY <2>1, <2>2, <2>3, <2>4
<1>18. CASE SaveSession(p, "finish", "finalize")
  BY <1>18 DEF SaveSession, Raise, txnDisk, PhaseOK, SealedOK, BoundOK,
     Truthful, EditSteps, BoundSteps
<1>19. CASE SaveSession(p, "outcome", "write")
  BY <1>19 DEF SaveSession, Raise, txnDisk, PhaseOK, SealedOK, BoundOK,
     Truthful, EditSteps, BoundSteps
<1> QED BY <1>1, <1>2, <1>3, <1>4, <1>5, <1>6, <1>7, <1>8, <1>9, <1>10, <1>11,
   <1>12, <1>13, <1>14, <1>15, <1>16, <1>17, <1>18, <1>19 DEF Deliver

LEMMA StepDelivers ==
    ASSUME TypeOK, RecordOK, NEW p \in Procs, ProcessOK(p), LeaseOK(p),
           ctx[p] # None => record[ctx[p]] # "NONE",
           \A t \in Txns : record[t] = "NONE" => journal[t] = "NONE",
           StepOf(p)
    PROVE  TxnStep(p) /\ SessionStep(p) /\ ProcessOK(p)'
<1>1. CASE Quit(p) \/ Crash(p)
  <2>1. ctx'[p] = None /\ ProcessOK(p)' /\ UNCHANGED disk
    BY <1>1, ExitSteps DEF Quit, Crash
  <2> QED BY <2>1 DEF disk, TxnStep, SessionStep, RecordOK
<1>2. CASE Start(p) \/ Open(p)
  BY <1>2, OpenDisk, OpenProcess
<1>3. CASE \/ \E r \in Runs, m \in BOOLEAN : Ask(p, r, m)
           \/ Bootstrap(p) \/ LeaveWork(p) \/ Edit(p) \/ Break(p)
           \/ SaveSession(p, "work", "work")
  BY <1>3, BootstrapDisk, BootstrapProcess
<1>4. CASE Deliver(p) \/ Apply(p) \/ Discard(p)
  BY <1>4, DeliverDisk, DeliverProcess
<1> QED BY <1>1, <1>2, <1>3, <1>4 DEF StepOf

LEMMA StepOwned ==
    ASSUME TypeOK, Owned, NEW p \in Procs, Apart(p),
           Confined(p), TxnStep(p), SessionStep(p)
    PROVE  Owned'
<1> USE TypeParts, IdAssumption DEF TxnTypes, StoreTypes, ContextTypes
<1>1. \A q \in Procs : q # p => ctx'[q] = ctx[q]
  BY DEF Confined, Same
<1>2. ASSUME NEW q \in Procs, q # p, ctx[q] # None
      PROVE  ctx'[p] # ctx[q]
  BY <1>2 DEF Owned, SessionStep, Apart
<1>3. \A q, r \in Procs : ctx'[q] # None /\ ctx'[q] = ctx'[r] => q = r
  BY <1>1, <1>2 DEF Owned
<1>4. ASSUME NEW q \in Procs, NEW s \in Sessions, ctx'[q] # None, pointer'[s] = ctx'[q]
      PROVE  s = SessionOf[q]
  <2>1. CASE q # p
    BY <1>1, <1>4, <2>1 DEF Owned, SessionStep
  <2>2. CASE q = p
    BY <1>4, <2>2 DEF Owned, SessionStep
  <2> QED BY <2>1, <2>2
<1>5. ASSUME NEW s \in Sessions, NEW u \in Sessions,
             pointer'[s] # None, pointer'[s] = pointer'[u]
      PROVE  s = u
  BY <1>5 DEF Owned, SessionStep
<1>6. ASSUME NEW q \in Procs, ctx'[q] # None
      PROVE  record'[ctx'[q]] # "NONE"
  <2>1. CASE q # p
    <3>1. ctx'[q] = ctx[q] /\ ctx[q] \in Txns /\ record[ctx[q]] # "NONE"
      BY <1>1, <1>6, <2>1 DEF Owned
    <3> QED BY <3>1 DEF TxnStep
  <2>2. CASE q = p
    <3>1. \/ ctx'[p] = ctx[p] /\ ctx[p] # None
          \/ ctx'[p] = pointer[SessionOf[p]] /\ ctx'[p] # None
          \/ record'[ctx'[p]] # "NONE"
      BY <1>6, <2>2 DEF SessionStep
    <3>2. CASE ctx'[p] \in Txns /\ record[ctx'[p]] # "NONE"
      BY <2>2, <3>2 DEF TxnStep
    <3> QED BY <2>2, <3>1, <3>2 DEF Owned
  <2> QED BY <2>1, <2>2
<1>7. ASSUME NEW s \in Sessions, pointer'[s] # None
      PROVE  record'[pointer'[s]] # "NONE"
  <2>1. pointer'[s] = pointer[s] \/ pointer'[s] = ctx[p]
    BY <1>7 DEF SessionStep
  <2>2. pointer'[s] \in Txns /\ record[pointer'[s]] # "NONE"
    BY <1>7, <2>1 DEF Owned
  <2> QED BY <2>2 DEF TxnStep
<1>8. ASSUME NEW t \in Txns, record'[t] = "NONE"
      PROVE  journal'[t] = "NONE"
  BY <1>8 DEF Owned, TxnStep
<1> QED BY <1>3, <1>4, <1>5, <1>6, <1>7, <1>8 DEF Owned

LEMMA OthersDeliver ==
    ASSUME TypeOK, Owned, NEW p \in Procs, NEW q \in Procs, q # p,
           Confined(p), TxnStep(p), ProcessOK(q)
    PROVE  ProcessOK(q)'
<1>1. Same(q)
  BY DEF Confined
<1>2. ctx[q] \in Txns \cup {None} /\ task[q].txn \in Txns \cup {None}
  BY DEF TypeOK, Tasks
<1>3. ctx[q] # None => journal'[ctx[q]] = journal[ctx[q]]
  BY <1>2 DEF Owned, TxnStep
<1>4. PhaseOK(q)' /\ BoundOK(q)'
  BY <1>1 DEF ProcessOK, PhaseOK, BoundOK, Same
<1>5. SealedOK(q)'
  BY <1>1, <1>3 DEF ProcessOK, SealedOK, Same
<1>6. Truthful(task[q])'
  BY <1>1, <1>2 DEF ProcessOK, Truthful, TxnStep, Same
<1> QED BY <1>4, <1>5, <1>6 DEF ProcessOK

LEMMA StepKeepsDelivery ==
    ASSUME TypeOK, LeaseInv, DeliveryInv, NEW p \in Procs, Apart(p), StepOf(p)
    PROVE  DeliveryInv'
<1>1. Confined(p) /\ TxnStep(p) /\ SessionStep(p) /\ ProcessOK(p)'
  BY StepConfined, StepDelivers DEF LeaseInv, DeliveryInv, Owned
<1>2. Owned'
  BY <1>1, StepOwned DEF DeliveryInv
<1>3. RecordOK'
  BY <1>1 DEF TxnStep, RecordOK
<1>4. ASSUME NEW q \in Procs
      PROVE  ProcessOK(q)'
  BY <1>1, OthersDeliver DEF DeliveryInv
<1>5. ASSUME NEW r \in Runs
      PROVE  Truthful(run[r])'
  <2>1. \A k \in Tasks : Truthful(k) => (k.delivered => k.txn # None /\ journal'[k.txn] = "COMMITTED")
    BY <1>1 DEF Truthful, TxnStep, Tasks
  <2>2. run'[r] \in {run[r], task[p], task'[p]}
    BY <1>1 DEF SessionStep
  <2>3. run[r] \in Tasks /\ task[p] \in Tasks /\ Truthful(run[r]) /\ Truthful(task[p])
    BY DEF TypeOK, DeliveryInv, ProcessOK
  <2>4. Truthful(task[p])'
    BY <1>1 DEF ProcessOK
  <2> QED BY <2>1, <2>2, <2>3, <2>4 DEF Truthful
<1> QED BY <1>2, <1>3, <1>4, <1>5 DEF DeliveryInv

LEMMA DeliveryKept == DeliveryInv /\ UNCHANGED vars => DeliveryInv'
BY DEF DeliveryInv, Owned, RecordOK, ProcessOK, PhaseOK, SealedOK, BoundOK,
   Truthful, vars, disk, process

LEMMA NextDelivery ==
    ASSUME OneProcessPerSession
    PROVE  TypeOK /\ LeaseInv /\ DeliveryInv /\ [Next]_vars => DeliveryInv'
<1> SUFFICES ASSUME TypeOK, LeaseInv, DeliveryInv, [Next]_vars PROVE DeliveryInv'
  OBVIOUS
<1>1. \A p \in Procs : Apart(p)
  BY DEF Apart, OneProcessPerSession
<1> QED BY <1>1, StepKeepsDelivery, DeliveryKept, NextIsAStep

LEMMA InitDelivery == Init => DeliveryInv
BY NoTaskParts
   DEF Init, DeliveryInv, Owned, RecordOK, ProcessOK, PhaseOK, SealedOK, BoundOK,
       Truthful, EditSteps, BoundSteps

(***************************************************************************)
(* A run that reports delivered paths names a transaction whose commit     *)
(* journal is sealed, when no two processes open one session.              *)
(***************************************************************************)
THEOREM ReportsAreTruthful ==
    ASSUME OneProcessPerSession
    PROVE  Spec => []DeliveredIsCommitted
<1>1. Init => DeliveryInv
  BY InitDelivery
<1>2. TypeOK /\ LeaseInv /\ DeliveryInv /\ [Next]_vars => DeliveryInv'
  BY NextDelivery
<1>3. DeliveryInv => DeliveredIsCommitted
  BY DEF DeliveryInv, DeliveredIsCommitted, Truthful
<1> QED BY <1>1, <1>2, <1>3, TypesHold, LeaseHolds, PTL DEF Spec

(***************************************************************************)
(* The shadows: work that is not settled has a pointer, and what a pointer *)
(* or a process names can be opened.                                       *)
(***************************************************************************)
Settled(t) == shadow[t] # "edited" \/ Loaded(t) \in Terminal

Openable(t) ==
    Loaded(t) \in Terminal \/ shadow[t] # "none" \/ journal[t] = "COMMIT_FAILED"

HeldOK(p) ==
    /\ pc[p] = "down" => ctx[p] = None
    /\ pc[p] = "work" => pointer[SessionOf[p]] = ctx[p]
    /\ ctx[p] # None =>
        /\ pointer[SessionOf[p]] = ctx[p] \/ shadow[ctx[p]] # "edited"
        /\ pc[p] = "point" \/ (pc[p] = "restoreView" /\ held[p] = "DISCARDED")
              => shadow[ctx[p]] # "edited"
        /\ held[p] \notin {"NONE", "DISCARDED"}
              => journal[ctx[p]] = "COMMITTED" \/ shadow[ctx[p]] # "none"
        /\ held[p] \in OpenStates \cup {"COMMIT_FAILED", "DISCARDED"}
              => journal[ctx[p]] \notin {"COMMITTING", "COMMITTED"}
        /\ pc[p] \notin {"down", "restore"} => held[p] # "NONE"
        /\ Openable(ctx[p])

PointerOK(p) ==
    pc[p] # "down" /\ pointer[SessionOf[p]] \notin {None, ctx[p]}
        => Settled(pointer[SessionOf[p]])

ShadowInv ==
    /\ \A p \in Procs : HeldOK(p) /\ PointerOK(p)
    /\ \A t \in Txns : Settled(t) \/ \E s \in Sessions : pointer[s] = t
    /\ \A s \in Sessions : pointer[s] # None => Openable(pointer[s])

(***************************************************************************)
(* A step of a process keeps what it does not hold, and does not leave     *)
(* unsettled work behind when it drops its transaction.                    *)
(***************************************************************************)
Elsewhere(p) ==
    \A t \in Txns : t # ctx[p] =>
        record'[t] = record[t] /\ journal'[t] = journal[t] /\ shadow'[t] = shadow[t]

TreeStep(p) ==
    \A t \in Txns : t # ctx[p] =>
        /\ Settled(t) => Settled(t)'
        /\ Openable(t) => Openable(t)'
        /\ shadow[t] # "edited" => shadow'[t] # "edited"
        /\ journal[t] = "COMMITTED" \/ shadow[t] # "none"
              => journal'[t] = "COMMITTED" \/ shadow'[t] # "none"

Leaves(p) ==
    /\ pc[p] = "down" => pointer' = pointer /\ ctx'[p] = pointer[SessionOf[p]]
    /\ \A t \in Txns : t = ctx[p] =>
        /\ Openable(t)'
        /\ ctx'[p] # t =>
              Settled(t)' \/ (pc'[p] = "down" /\ pointer'[SessionOf[p]] = t)

LEMMA ElsewhereKept == ASSUME NEW p \in Procs, Elsewhere(p) PROVE TreeStep(p)
BY DEF Elsewhere, TreeStep, Settled, Openable, Loaded

LEMMA SettleKeeps ==
    ASSUME TypeOK, RecordOK, NEW t \in Txns, Settle(t, Interrupted(Loaded(t)))
    PROVE  /\ Settled(t) => Settled(t)'
           /\ Openable(t) => Openable(t)'
           /\ shadow[t] # "edited" => shadow'[t] # "edited"
           /\ journal[t] = "COMMITTED" \/ shadow[t] # "none"
                 => journal'[t] = "COMMITTED" \/ shadow'[t] # "none"
<1>1. /\ record'[t] = Interrupted(Loaded(t)) /\ journal'[t] = journal[t]
      /\ shadow'[t] = IF Interrupted(Loaded(t)) = "COMMITTED" THEN "none" ELSE shadow[t]
  BY DEF Settle, TypeOK
<1> QED BY <1>1 DEF Settled, Openable, Loaded, Interrupted, Interruptible,
   Terminal, RecordOK

LEMMA LeavesNothing ==
    ASSUME NEW p \in Procs, HeldOK(p), pc[p] # "down",
           UNCHANGED <<record, journal, shadow>>,
           ctx'[p] = ctx[p] \/ (pc'[p] = "down" /\ pointer' = pointer)
    PROVE  Leaves(p)
<1>1. ASSUME NEW t \in Txns
      PROVE  (Openable(t)' <=> Openable(t)) /\ (Settled(t)' <=> Settled(t))
  BY DEF Openable, Settled, Loaded
<1> QED BY <1>1, IdAssumption DEF HeldOK, Leaves, Settled

LEMMA ExitHeld ==
    ASSUME NEW p \in Procs, Exit(p), TypeOK
    PROVE  HeldOK(p)'
BY ExitSteps, TypeParts DEF HeldOK, Exit, Go, ContextTypes

LEMMA OpenTrees ==
    ASSUME TypeOK, RecordOK, NEW p \in Procs, ProcessOK(p), HeldOK(p),
           ctx[p] # None => record[ctx[p]] # "NONE",
           Start(p) \/ Open(p)
    PROVE  TreeStep(p) /\ Leaves(p)
<1> USE TypeParts, IdAssumption DEF Go, TxnTypes, StoreTypes, ContextTypes
<1> USE DEF ProcessOK, PhaseOK, SealedOK
<1>1. CASE Start(p)
  <2>1. TreeStep(p)
    <3>1. Elsewhere(p)
      BY <1>1 DEF Start, disk, Elsewhere
    <3> QED BY <3>1, ElsewhereKept
  <2>2. Leaves(p)
    BY <1>1 DEF Start, disk, Leaves, HeldOK
  <2> QED BY <2>1, <2>2
<1>2. CASE RestoreNothing(p)
  <2>1. TreeStep(p)
    <3>1. Elsewhere(p)
      BY <1>2 DEF RestoreNothing, disk, Elsewhere
    <3> QED BY <3>1, ElsewhereKept
  <2>2. Leaves(p)
    BY <1>2 DEF RestoreNothing, disk, Leaves
  <2> QED BY <2>1, <2>2
<1>3. CASE RestoreTerminal(p)
  <2>1. TreeStep(p)
    <3>1. Elsewhere(p)
      BY <1>3 DEF RestoreTerminal, Saved, Pointed, Elsewhere
    <3> QED BY <3>1, ElsewhereKept
  <2>2. Leaves(p)
    <3>1. pc[p] = "restore" /\ ctx[p] \in Txns /\ journal' = journal
      BY <1>3 DEF RestoreTerminal
    <3>2. ASSUME NEW t \in Txns, t = ctx[p]
          PROVE  Openable(t)' /\ Settled(t)'
      <4>1. record'[t] = Loaded(t) /\ Loaded(t) \in Terminal
        BY <1>3, <3>2 DEF RestoreTerminal
      <4>2. Loaded(t)' \in Terminal
        BY <3>1, <4>1 DEF Loaded
      <4> QED BY <4>2 DEF Openable, Settled
    <3> QED BY <3>1, <3>2 DEF Leaves
  <2> QED BY <2>1, <2>2
<1>4. CASE RestoreUnavailable(p)
  <2>1. TreeStep(p)
    <3>1. Elsewhere(p)
      BY <1>4 DEF RestoreUnavailable, Elsewhere
    <3> QED BY <3>1, ElsewhereKept
  <2>2. Leaves(p)
    <3>1. pc[p] = "restore" /\ shadow[ctx[p]] = "none" /\ Loaded(ctx[p]) \notin Terminal
      BY <1>4 DEF RestoreUnavailable
    <3>2. journal[ctx[p]] = "COMMIT_FAILED"
      BY <1>4, <3>1 DEF RestoreUnavailable, HeldOK, Openable
    <3>3. journal' = journal /\ shadow' = shadow
      BY <1>4 DEF RestoreUnavailable
    <3> QED BY <3>1, <3>2, <3>3 DEF Leaves, Openable, Settled
  <2> QED BY <2>1, <2>2
<1>5. CASE RestoreContext(p)
  <2>1. TreeStep(p)
    <3>1. Elsewhere(p)
      BY <1>5 DEF RestoreContext, Elsewhere
    <3> QED BY <3>1, ElsewhereKept
  <2>2. Leaves(p)
    BY <1>5 DEF RestoreContext, Leaves, Openable
  <2> QED BY <2>1, <2>2
<1>6. ASSUME NEW r \in Runs, Examine(p, r)
      PROVE  TreeStep(p) /\ Leaves(p)
  <2>1. TreeStep(p)
    <3>1. Elsewhere(p)
      BY <1>6 DEF Examine, disk, Elsewhere
    <3> QED BY <3>1, ElsewhereKept
  <2>2. Leaves(p)
    BY <1>6 DEF Examine, disk, Leaves, HeldOK, Openable, Loaded
  <2> QED BY <2>1, <2>2
<1>7. CASE Claim(p)
  <2>1. TreeStep(p)
    <3>1. Elsewhere(p)
      BY <1>7 DEF Claim, disk, Elsewhere
    <3> QED BY <3>1, ElsewhereKept
  <2>2. Leaves(p)
    BY <1>7 DEF Claim, disk, Leaves, HeldOK, OpenStates, Interruptible,
       Openable, Loaded
  <2> QED BY <2>1, <2>2
<1>8. CASE SettleOrphan(p)
  <2>1. TreeStep(p)
    <3>1. CASE UNCHANGED txnDisk
      BY <3>1, ElsewhereKept DEF txnDisk, Elsewhere
    <3>2. CASE InterruptContext(p)
      BY <3>2, ElsewhereKept DEF InterruptContext, Elsewhere
    <3>3. CASE claim[p].txn # None /\ Settle(claim[p].txn, Interrupted(Loaded(claim[p].txn)))
      <4>1. claim[p].txn \in Txns
        BY <3>3 DEF RunTypes
      <4>2. \A t \in Txns : t # claim[p].txn =>
               record'[t] = record[t] /\ journal'[t] = journal[t] /\ shadow'[t] = shadow[t]
        BY <3>3 DEF Settle
      <4>3. \A t \in Txns : t # claim[p].txn =>
               Settled(t)' = Settled(t) /\ Openable(t)' = Openable(t)
        BY <4>2 DEF Settled, Openable, Loaded
      <4> QED BY <3>3, <4>1, <4>2, <4>3, SettleKeeps DEF TreeStep
    <3> QED BY <1>8, <3>1, <3>2, <3>3 DEF SettleOrphan
  <2>2. Leaves(p)
    <3>1. pc[p] = "settle" /\ ctx' = ctx
      BY <1>8 DEF SettleOrphan
    <3>2. CASE UNCHANGED txnDisk
      BY <3>1, <3>2, LeavesNothing DEF txnDisk
    <3>3. CASE InterruptContext(p)
      <4>1. journal' = journal /\ shadow' = shadow
        BY <3>3 DEF InterruptContext
      <4>2. CASE record' = record
        BY <3>1, <4>1, <4>2, LeavesNothing
      <4>3. CASE held[p] \in Interruptible
        BY <3>1, <4>1, <4>3 DEF Leaves, HeldOK, Openable, OpenStates,
           Interruptible
      <4> QED BY <3>3, <4>2, <4>3 DEF InterruptContext
    <3>4. CASE claim[p].txn # ctx[p] /\ Settle(claim[p].txn, Interrupted(Loaded(claim[p].txn)))
      <4>1. ASSUME NEW t \in Txns, t = ctx[p]
            PROVE  Openable(t)'
        <5>1. Openable(t)' <=> Openable(t)
          BY <3>4, <4>1 DEF Settle, Openable, Loaded
        <5> QED BY <4>1, <5>1 DEF HeldOK
      <4> QED BY <3>1, <4>1 DEF Leaves
    <3> QED BY <1>8, <3>2, <3>3, <3>4 DEF SettleOrphan
  <2> QED BY <2>1, <2>2
<1>9. CASE CloseOrphan(p)
  <2>1. TreeStep(p)
    <3>1. Elsewhere(p)
      BY <1>9 DEF CloseOrphan, txnDisk, Elsewhere
    <3> QED BY <3>1, ElsewhereKept
  <2>2. Leaves(p)
    <3>1. pc[p] = "close" /\ UNCHANGED <<pointer, record, journal, shadow>>
      BY <1>9 DEF CloseOrphan, txnDisk
    <3>2. ctx'[p] = ctx[p] \/ pc'[p] = "down"
      BY <1>9 DEF CloseOrphan, Exit
    <3> QED BY <3>1, <3>2, LeavesNothing
  <2> QED BY <2>1, <2>2
<1>10. CASE Opened(p)
  <2>1. TreeStep(p)
    <3>1. Elsewhere(p)
      BY <1>10 DEF Opened, txnDisk, Saved, Pointed, Elsewhere
    <3> QED BY <3>1, ElsewhereKept
  <2>2. Leaves(p)
    <3>1. pc[p] = "scan" /\ UNCHANGED <<record, journal, shadow>>
      BY <1>10 DEF Opened, txnDisk
    <3>2. ctx'[p] = ctx[p] \/ (pc'[p] = "down" /\ pointer' = pointer)
      BY <1>10 DEF Opened, Exit
    <3> QED BY <3>1, <3>2, LeavesNothing
  <2> QED BY <2>1, <2>2
<1> QED BY <1>1, <1>2, <1>3, <1>4, <1>5, <1>6, <1>7, <1>8, <1>9, <1>10 DEF Open

LEMMA BootstrapTrees ==
    ASSUME TypeOK, RecordOK, NEW p \in Procs, ProcessOK(p), HeldOK(p),
           ctx[p] # None => record[ctx[p]] # "NONE",
           \A t \in Txns : record[t] = "NONE" => journal[t] = "NONE",
           \/ \E r \in Runs, m \in BOOLEAN : Ask(p, r, m)
           \/ Bootstrap(p) \/ LeaveWork(p) \/ Edit(p) \/ Break(p)
           \/ SaveSession(p, "work", "work")
    PROVE  TreeStep(p) /\ Leaves(p)
<1> USE TypeParts, IdAssumption DEF Go, TxnTypes, StoreTypes, ContextTypes
<1> USE DEF ProcessOK, PhaseOK, SealedOK
<1>1. ASSUME NEW r \in Runs, NEW m \in BOOLEAN, Ask(p, r, m)
      PROVE  TreeStep(p) /\ Leaves(p)
  <2>1. TreeStep(p)
    <3>1. Elsewhere(p)
      BY <1>1 DEF Ask, disk, Elsewhere
    <3> QED BY <3>1, ElsewhereKept
  <2>2. Leaves(p)
    BY <1>1 DEF Ask, disk, Leaves, HeldOK, Openable, Loaded
  <2> QED BY <2>1, <2>2
<1>2. CASE StartRun(p)
  <2>1. TreeStep(p)
    <3>1. Elsewhere(p)
      BY <1>2 DEF StartRun, txnDisk, Elsewhere
    <3> QED BY <3>1, ElsewhereKept
  <2>2. Leaves(p)
    BY <1>2 DEF StartRun, txnDisk, Leaves, HeldOK, Openable, Loaded
  <2> QED BY <2>1, <2>2
<1>3. ASSUME NEW t \in Txns, BeginTransaction(p, t)
      PROVE  TreeStep(p) /\ Leaves(p)
  <2>1. TreeStep(p)
    BY <1>3 DEF BeginTransaction, TreeStep, Openable, Settled, Loaded
  <2>2. Leaves(p)
    BY <1>3 DEF BeginTransaction, Leaves
  <2> QED BY <2>1, <2>2
<1>4. CASE PointSession(p)
  <2>1. TreeStep(p)
    <3>1. Elsewhere(p)
      BY <1>4 DEF PointSession, Elsewhere
    <3> QED BY <3>1, ElsewhereKept
  <2>2. Leaves(p)
    <3>1. pc[p] = "point" /\ journal' = journal /\ ctx[p] \in Txns
      BY <1>4 DEF PointSession, EditSteps
    <3>2. CASE ctx' = ctx /\ record' = record /\ shadow' = shadow
      BY <3>1, <3>2, LeavesNothing
    <3>3. CASE /\ record' = [record EXCEPT ![ctx[p]] = "DISCARDED"]
               /\ shadow' = [shadow EXCEPT ![ctx[p]] = "none"]
      <4>1. journal[ctx[p]] \notin {"COMMITTING", "COMMITTED"}
        BY <3>1 DEF HeldOK, EditSteps, Askable, OpenStates, Interruptible
      <4>2. ASSUME NEW t \in Txns, t = ctx[p]
            PROVE  Openable(t)' /\ Settled(t)'
        <5>1. record'[t] = "DISCARDED" /\ shadow'[t] = "none"
          BY <3>3, <4>2
        <5>2. journal'[t] \notin {"COMMITTING", "COMMITTED"}
          BY <3>1, <4>1, <4>2
        <5> QED BY <5>1, <5>2 DEF Openable, Settled, Loaded, Terminal
      <4> QED BY <3>1, <4>2 DEF Leaves
    <3>4. CASE record' = record /\ shadow' = shadow
      <4>1. ASSUME NEW t \in Txns, t = ctx[p]
            PROVE  Openable(t)' /\ Settled(t)'
        <5>1. (Openable(t)' <=> Openable(t)) /\ shadow'[t] # "edited"
          BY <3>1, <3>4, <4>1 DEF HeldOK, Openable, Loaded
        <5> QED BY <4>1, <5>1 DEF HeldOK, Settled
      <4> QED BY <3>1, <4>1 DEF Leaves
    <3> QED BY <1>4, <3>2, <3>3, <3>4 DEF PointSession
  <2> QED BY <2>1, <2>2
<1>5. CASE ResumeEditing(p)
  <2>1. TreeStep(p)
    <3>1. Elsewhere(p)
      BY <1>5 DEF ResumeEditing, Elsewhere
    <3> QED BY <3>1, ElsewhereKept
  <2>2. Leaves(p)
    BY <1>5 DEF ResumeEditing, Leaves, HeldOK, Askable, Openable, Loaded
  <2> QED BY <2>1, <2>2
<1>6. CASE BindRun(p)
  <2>1. TreeStep(p)
    <3>1. Elsewhere(p)
      BY <1>6 DEF BindRun, txnDisk, Elsewhere
    <3> QED BY <3>1, ElsewhereKept
  <2>2. Leaves(p)
    BY <1>6 DEF BindRun, txnDisk, Leaves, HeldOK, Openable, Loaded
  <2> QED BY <2>1, <2>2
<1>7. CASE LeaveWork(p)
  <2>1. TreeStep(p)
    <3>1. Elsewhere(p)
      BY <1>7 DEF LeaveWork, disk, Elsewhere
    <3> QED BY <3>1, ElsewhereKept
  <2>2. Leaves(p)
    BY <1>7 DEF LeaveWork, disk, Leaves, HeldOK, EditSteps, BoundSteps,
       Openable, Loaded
  <2> QED BY <2>1, <2>2
<1>8. CASE Edit(p)
  <2>1. TreeStep(p)
    <3>1. Elsewhere(p)
      BY <1>8 DEF Edit, process, Elsewhere
    <3> QED BY <3>1, ElsewhereKept
  <2>2. Leaves(p)
    BY <1>8 DEF Edit, process, Leaves, Openable
  <2> QED BY <2>1, <2>2
<1>9. CASE Break(p)
  <2>1. TreeStep(p)
    <3>1. Elsewhere(p)
      BY <1>9 DEF Break, disk, Elsewhere
    <3> QED BY <3>1, ElsewhereKept
  <2>2. Leaves(p)
    <3>1. /\ pc[p] # "down" /\ UNCHANGED <<record, journal, shadow>> /\ ctx' = ctx
      BY <1>9 DEF Break, disk
    <3> QED BY <3>1, LeavesNothing
  <2> QED BY <2>1, <2>2
<1>10. ASSUME NEW from, NEW to, from # "down", SaveSession(p, from, to)
      PROVE  TreeStep(p) /\ Leaves(p)
  <2>1. Elsewhere(p)
    BY <1>10 DEF SaveSession, txnDisk, Elsewhere
  <2>2. Leaves(p)
    BY <1>10 DEF SaveSession, txnDisk, Leaves, HeldOK, Openable, Settled, Loaded
  <2> QED BY <2>1, <2>2, ElsewhereKept
<1> QED BY <1>1, <1>2, <1>3, <1>4, <1>5, <1>6, <1>7, <1>8, <1>9, <1>10
   DEF Bootstrap

LEMMA DeliverTrees ==
    ASSUME TypeOK, RecordOK, NEW p \in Procs, ProcessOK(p), HeldOK(p),
           ctx[p] # None => record[ctx[p]] # "NONE",
           Deliver(p) \/ Apply(p) \/ Discard(p)
    PROVE  TreeStep(p) /\ Leaves(p)
<1> USE TypeParts, IdAssumption DEF Go, TxnTypes, StoreTypes, ContextTypes
<1> USE DEF ProcessOK, PhaseOK, SealedOK
<1>1. CASE LeavePending(p)
  <2>1. TreeStep(p)
    <3>1. Elsewhere(p)
      BY <1>1, InterruptContextSteps DEF LeavePending, Elsewhere,
         InterruptContext
    <3> QED BY <3>1, ElsewhereKept
  <2>2. Leaves(p)
    BY <1>1, InterruptContextSteps DEF LeavePending, Leaves, HeldOK, Askable,
       EditSteps, BoundSteps, Openable, Loaded, InterruptContext, Interrupted
  <2> QED BY <2>1, <2>2
<1>2. CASE Stage(p)
  <2>1. TreeStep(p)
    <3>1. Elsewhere(p)
      BY <1>2 DEF Stage, Elsewhere
    <3> QED BY <3>1, ElsewhereKept
  <2>2. Leaves(p)
    BY <1>2 DEF Stage, Leaves, HeldOK, Askable, EditSteps, BoundSteps, Openable,
       Loaded
  <2> QED BY <2>1, <2>2
<1>3. CASE Blocked(p)
  <2>1. TreeStep(p)
    <3>1. Elsewhere(p)
      BY <1>3 DEF Blocked, Elsewhere
    <3> QED BY <3>1, ElsewhereKept
  <2>2. Leaves(p)
    BY <1>3 DEF Blocked, Leaves, HeldOK, Openable, Loaded
  <2> QED BY <2>1, <2>2
<1>4. CASE Validated(p)
  <2>1. TreeStep(p)
    <3>1. Elsewhere(p)
      BY <1>4 DEF Validated, Elsewhere
    <3> QED BY <3>1, ElsewhereKept
  <2>2. Leaves(p)
    BY <1>4 DEF Validated, Leaves, HeldOK, Openable, Loaded
  <2> QED BY <2>1, <2>2
<1>5. CASE Apply(p)
  <2>1. TreeStep(p)
    <3>1. Elsewhere(p)
      BY <1>5 DEF Apply, disk, Elsewhere
    <3> QED BY <3>1, ElsewhereKept
  <2>2. Leaves(p)
    BY <1>5 DEF Apply, disk, Leaves, HeldOK, Openable, Loaded
  <2> QED BY <2>1, <2>2
<1>6. CASE Revalidate(p)
  <2>1. TreeStep(p)
    <3>1. Elsewhere(p)
      BY <1>6 DEF Revalidate, Elsewhere
    <3> QED BY <3>1, ElsewhereKept
  <2>2. Leaves(p)
    BY <1>6 DEF Revalidate, Leaves, HeldOK, Openable, Loaded
  <2> QED BY <2>1, <2>2
<1>7. CASE RefuseCommit(p)
  <2>1. TreeStep(p)
    <3>1. Elsewhere(p)
      BY <1>7 DEF RefuseCommit, Elsewhere
    <3> QED BY <3>1, ElsewhereKept
  <2>2. Leaves(p)
    BY <1>7 DEF RefuseCommit, Leaves, HeldOK, Openable, Loaded
  <2> QED BY <2>1, <2>2
<1>8. CASE OpenJournal(p)
  <2>1. TreeStep(p)
    <3>1. Elsewhere(p)
      BY <1>8 DEF OpenJournal, Elsewhere
    <3> QED BY <3>1, ElsewhereKept
  <2>2. Leaves(p)
    BY <1>8 DEF OpenJournal, Leaves, HeldOK, OpenStates, Interruptible, Openable
  <2> QED BY <2>1, <2>2
<1>9. CASE ApplyFails(p)
  <2>1. TreeStep(p)
    <3>1. Elsewhere(p)
      BY <1>9 DEF ApplyFails, Elsewhere
    <3> QED BY <3>1, ElsewhereKept
  <2>2. Leaves(p)
    BY <1>9 DEF ApplyFails, Leaves, Openable
  <2> QED BY <2>1, <2>2
<1>10. CASE SealJournal(p)
  <2>1. TreeStep(p)
    <3>1. Elsewhere(p)
      BY <1>10 DEF SealJournal, Elsewhere
    <3> QED BY <3>1, ElsewhereKept
  <2>2. Leaves(p)
    BY <1>10 DEF SealJournal, Leaves, Openable, Loaded, Terminal
  <2> QED BY <2>1, <2>2
<1>11. CASE SealRecord(p)
  <2>1. TreeStep(p)
    <3>1. Elsewhere(p)
      BY <1>11 DEF SealRecord, txnDisk, Settle, Elsewhere
    <3> QED BY <3>1, ElsewhereKept
  <2>2. Leaves(p)
    BY <1>11 DEF SealRecord, txnDisk, Settle, Leaves, Openable, Loaded, Terminal
  <2> QED BY <2>1, <2>2
<1>12. CASE Discard(p)
  <2>1. TreeStep(p)
    <3>1. Elsewhere(p)
      BY <1>12 DEF Discard, Elsewhere
    <3> QED BY <3>1, ElsewhereKept
  <2>2. Leaves(p)
    <3>1. pc[p] = "idle" /\ journal' = journal /\ ctx' = ctx /\ ctx[p] \in Txns
      BY <1>12 DEF Discard
    <3>2. journal[ctx[p]] \notin {"COMMITTING", "COMMITTED"}
      BY <1>12, <3>1, StatesListed DEF Discard, HeldOK, OpenStates,
         Interruptible
    <3>3. record'[ctx[p]] = "DISCARDED"
      BY <1>12, <3>1 DEF Discard
    <3>4. \A t \in Txns : t = ctx[p] => Openable(t)'
      BY <3>1, <3>2, <3>3 DEF Openable, Loaded, Terminal
    <3> QED BY <3>1, <3>4 DEF Leaves
  <2> QED BY <2>1, <2>2
<1>13. CASE RestoreSourceView(p)
  <2>1. TreeStep(p)
    <3>1. Elsewhere(p)
      BY <1>13 DEF RestoreSourceView, txnDisk, Elsewhere
    <3> QED BY <3>1, ElsewhereKept
  <2>2. Leaves(p)
    <3>1. /\ pc[p] = "restoreView" /\ UNCHANGED <<record, journal, shadow>>
          /\ ctx[p] \in Txns /\ held[p] \in Terminal
      BY <1>13 DEF RestoreSourceView, txnDisk
    <3>2. ASSUME NEW t \in Txns, t = ctx[p]
          PROVE  Openable(t)' /\ Settled(t)'
      <4>1. (Openable(t)' <=> Openable(t)) /\ (Settled(t)' <=> Settled(t))
        BY <3>1 DEF Openable, Settled, Loaded
      <4>2. Settled(t)
        BY <3>1, <3>2 DEF HeldOK, Settled, Loaded, Terminal
      <4> QED BY <3>2, <4>1, <4>2 DEF HeldOK
    <3> QED BY <3>1, <3>2 DEF Leaves
  <2> QED BY <2>1, <2>2
<1>14. CASE Report(p)
  <2>1. TreeStep(p)
    <3>1. Elsewhere(p)
      BY <1>14 DEF Report, txnDisk, Elsewhere
    <3> QED BY <3>1, ElsewhereKept
  <2>2. Leaves(p)
    BY <1>14 DEF Report, txnDisk, Leaves, HeldOK, OpenStates, Interruptible,
       Openable, Loaded
  <2> QED BY <2>1, <2>2
<1>15. CASE Halt(p)
  <2>1. TreeStep(p)
    <3>1. Elsewhere(p)
      BY <1>15, InterruptContextSteps DEF Halt, Elsewhere, InterruptContext
    <3> QED BY <3>1, ElsewhereKept
  <2>2. Leaves(p)
    BY <1>15, InterruptContextSteps DEF Halt, Leaves, HeldOK, Askable,
       EditSteps, BoundSteps, Openable, Loaded, InterruptContext, Interrupted
  <2> QED BY <2>1, <2>2
<1>16. CASE WriteRun(p)
  <2>1. TreeStep(p)
    <3>1. Elsewhere(p)
      BY <1>16 DEF WriteRun, txnDisk, Elsewhere
    <3> QED BY <3>1, ElsewhereKept
  <2>2. Leaves(p)
    BY <1>16 DEF WriteRun, txnDisk, Leaves, HeldOK, OpenStates, Interruptible,
       Openable, Loaded
  <2> QED BY <2>1, <2>2
<1>17. CASE CloseAborted(p)
  <2>1. TreeStep(p)
    <3>1. Elsewhere(p)
      BY <1>17, InterruptContextSteps DEF CloseAborted, txnDisk, Saved, Pointed,
         Elsewhere, InterruptContext
    <3> QED BY <3>1, ElsewhereKept
  <2>2. Leaves(p)
    BY <1>17, InterruptContextSteps DEF CloseAborted, txnDisk, Saved, Pointed,
       Leaves, HeldOK, OpenStates, Interruptible, Openable, Loaded,
       InterruptContext, Interrupted
  <2> QED BY <2>1, <2>2
<1>18. ASSUME NEW from, NEW to, from # "down", SaveSession(p, from, to)
      PROVE  TreeStep(p) /\ Leaves(p)
  <2>1. Elsewhere(p)
    BY <1>18 DEF SaveSession, txnDisk, Elsewhere
  <2>2. Leaves(p)
    BY <1>18 DEF SaveSession, txnDisk, Leaves, HeldOK, Openable, Loaded,
       Terminal
  <2> QED BY <2>1, <2>2, ElsewhereKept
<1> QED BY <1>1, <1>2, <1>3, <1>4, <1>5, <1>6, <1>7, <1>8, <1>9, <1>10, <1>11,
   <1>12, <1>13, <1>14, <1>15, <1>16, <1>17, <1>18 DEF Deliver

LEMMA KeepsHeld ==
    ASSUME NEW p \in Procs, HeldOK(p), TypeOK,
           UNCHANGED <<record, journal, shadow, ctx>>, held'[p] = held[p],
           pc[p] # "down", pc'[p] # "down",
           pointer' = pointer \/ pointer' = [pointer EXCEPT ![SessionOf[p]] = ctx[p]],
           pc'[p] = "point" => pc[p] = "point",
           pc'[p] = "work" => pointer'[SessionOf[p]] = ctx[p],
           pc[p] = "restore" => held[p] # "NONE" \/ ctx[p] = None,
           pc'[p] = "restoreView" => held[p] # "DISCARDED"
    PROVE  HeldOK(p)'
<1>1. ASSUME NEW t \in Txns
      PROVE  Openable(t)' <=> Openable(t)
  BY DEF Openable, Loaded
<1>2. ctx[p] \in Txns \cup {None} /\ pointer \in [Sessions -> Txns \cup {None}]
      /\ SessionOf[p] \in Sessions
  BY IdAssumption DEF TypeOK
<1>3. ctx'[p] # None => (Openable(ctx[p])' <=> Openable(ctx[p]))
  BY <1>2 DEF Openable, Loaded
<1> QED BY <1>1, <1>2, <1>3 DEF HeldOK

LEMMA OpenHeld ==
    ASSUME TypeOK, RecordOK, NEW p \in Procs, ProcessOK(p), HeldOK(p),
           ctx[p] # None => record[ctx[p]] # "NONE",
           pointer[SessionOf[p]] # None => Openable(pointer[SessionOf[p]]),
           Start(p) \/ Open(p)
    PROVE  HeldOK(p)'
<1> USE TypeParts, IdAssumption DEF Go, TxnTypes, StoreTypes, ContextTypes
<1> USE DEF ProcessOK, PhaseOK, SealedOK
<1>1. CASE Start(p)
  BY <1>1 DEF Start, disk, HeldOK, OpenStates, Interruptible, Openable, Loaded
<1>2. CASE RestoreNothing(p)
  BY <1>2 DEF RestoreNothing, disk, HeldOK
<1>3. CASE RestoreTerminal(p)
  <2>1. CASE Exit(p)
    BY <2>1, ExitHeld
  <2>2. CASE ~Exit(p)
    BY <1>3, <2>2 DEF RestoreTerminal, Saved, Pointed, HeldOK
  <2> QED BY <2>1, <2>2
<1>4. CASE RestoreUnavailable(p)
  <2>1. CASE Exit(p)
    BY <2>1, ExitHeld
  <2> QED BY <1>4, <2>1 DEF RestoreUnavailable
<1>5. CASE RestoreContext(p)
  BY <1>5 DEF RestoreContext, HeldOK, OpenStates, Interruptible, Openable,
     Loaded
<1>6. ASSUME NEW r \in Runs, Examine(p, r)
      PROVE  HeldOK(p)'
  BY <1>6 DEF Examine, disk, HeldOK, Openable, Loaded
<1>7. CASE Claim(p)
  BY <1>7 DEF Claim, disk, HeldOK, Openable, Loaded
<1>8. CASE SettleOrphan(p)
  <2>1. /\ pc[p] = "settle" /\ pc'[p] = "close" /\ UNCHANGED <<pointer, ctx>>
    BY <1>8 DEF SettleOrphan
  <2>2. CASE UNCHANGED txnDisk /\ held' = held
    BY <2>1, <2>2, KeepsHeld DEF txnDisk
  <2>3. CASE InterruptContext(p)
    <3>1. journal' = journal /\ shadow' = shadow
      BY <2>3 DEF InterruptContext
    <3>2. CASE record' = record /\ held'[p] = held[p]
      BY <2>1, <3>1, <3>2, KeepsHeld
    <3>3. CASE held[p] \in Interruptible /\ held'[p] = "INTERRUPTED"
      <4>1. ctx[p] # None => journal[ctx[p]] \notin {"COMMITTING", "COMMITTED"}
                                 /\ shadow[ctx[p]] # "none"
        BY <2>1, <3>3 DEF HeldOK, OpenStates, Interruptible
      <4> QED BY <2>1, <3>1, <3>3, <4>1 DEF HeldOK, Openable
    <3> QED BY <2>3, <3>2, <3>3 DEF InterruptContext, Interrupted
  <2>4. CASE claim[p].txn # ctx[p] /\ Settle(claim[p].txn, Interrupted(Loaded(claim[p].txn)))
                 /\ held' = held
    <3>1. ctx[p] # None => /\ record'[ctx[p]] = record[ctx[p]] /\ journal'[ctx[p]] = journal[ctx[p]]
                           /\ shadow'[ctx[p]] = shadow[ctx[p]]
      BY <2>4 DEF Settle
    <3> QED BY <2>1, <2>4, <3>1 DEF HeldOK, Openable, Loaded
  <2> QED BY <1>8, <2>2, <2>3, <2>4 DEF SettleOrphan
<1>9. CASE CloseOrphan(p)
  <2>1. CASE Exit(p)
    BY <2>1, ExitHeld
  <2>2. CASE ~Exit(p)
    BY <1>9, <2>2 DEF CloseOrphan, txnDisk, HeldOK, Openable, Loaded
  <2> QED BY <2>1, <2>2
<1>10. CASE Opened(p)
  <2>1. CASE Exit(p)
    BY <2>1, ExitHeld
  <2>2. CASE ~Exit(p)
    BY <1>10, <2>2 DEF Opened, txnDisk, Saved, Pointed, HeldOK, Openable, Loaded
  <2> QED BY <2>1, <2>2
<1> QED BY <1>1, <1>2, <1>3, <1>4, <1>5, <1>6, <1>7, <1>8, <1>9, <1>10 DEF Open

LEMMA BootstrapHeld ==
    ASSUME TypeOK, RecordOK, NEW p \in Procs, ProcessOK(p), HeldOK(p), LeaseOK(p),
           ctx[p] # None => record[ctx[p]] # "NONE",
           \A t \in Txns : record[t] = "NONE" => journal[t] = "NONE",
           \/ \E r \in Runs, m \in BOOLEAN : Ask(p, r, m)
           \/ Bootstrap(p) \/ LeaveWork(p) \/ Edit(p) \/ Break(p)
           \/ SaveSession(p, "work", "work")
    PROVE  HeldOK(p)'
<1> USE TypeParts, IdAssumption DEF Go, TxnTypes, StoreTypes, ContextTypes
<1> USE DEF ProcessOK, PhaseOK, SealedOK
<1>1. ASSUME NEW r \in Runs, NEW m \in BOOLEAN, Ask(p, r, m)
      PROVE  HeldOK(p)'
  BY <1>1 DEF Ask, disk, HeldOK, Openable, Loaded
<1>2. CASE StartRun(p)
  BY <1>2 DEF StartRun, Raise, txnDisk, HeldOK, Openable, Loaded
<1>3. ASSUME NEW t \in Txns, BeginTransaction(p, t)
      PROVE  HeldOK(p)'
  BY <1>3 DEF BeginTransaction, Raise, HeldOK, Openable
<1>4. CASE PointSession(p)
  BY <1>4 DEF PointSession, Raise, HeldOK, Openable, Loaded
<1>5. CASE ResumeEditing(p)
  BY <1>5 DEF ResumeEditing, HeldOK, OpenStates, Interruptible, Askable,
     Openable
<1>6. CASE BindRun(p)
  <2>1. /\ pc[p] = "bind" /\ UNCHANGED <<pointer, record, journal, shadow, ctx, held>>
    BY <1>6 DEF BindRun, txnDisk
  <2>2. Go(p, "greet") \/ Go(p, "abort") \/ Go(p, "idle")
    BY <1>6, Zenon DEF BindRun, Raise
  <2> QED BY <2>1, <2>2, KeepsHeld
<1>7. CASE LeaveWork(p)
  BY <1>7 DEF LeaveWork, disk, HeldOK, Openable, Loaded
<1>8. CASE Edit(p)
  BY <1>8 DEF Edit, process, HeldOK, Openable
<1>9. CASE Break(p)
  <2>1. /\ pc[p] \notin {"down", "restore"} /\ pc'[p] = "abort"
        /\ UNCHANGED <<pointer, record, journal, shadow, ctx, held>>
    BY <1>9 DEF Break, disk, InAsk, LeaseOK, OpenSteps
  <2> QED BY <2>1, KeepsHeld
<1>10. CASE SaveSession(p, "greet", "work")
  BY <1>10, KeepsHeld DEF SaveSession, Saved, SaveFails, Pointed, Raise, txnDisk
<1>11. CASE SaveSession(p, "work", "work")
  BY <1>11, KeepsHeld DEF SaveSession, Saved, SaveFails, Pointed, Raise, txnDisk
<1> QED BY ZenonT(40), <1>1, <1>2, <1>3, <1>4, <1>5, <1>6, <1>7, <1>8, <1>9, <1>10, <1>11
   DEF Bootstrap

LEMMA DeliverHeld ==
    ASSUME TypeOK, RecordOK, NEW p \in Procs, ProcessOK(p), HeldOK(p),
           ctx[p] # None => record[ctx[p]] # "NONE",
           Deliver(p) \/ Apply(p) \/ Discard(p)
    PROVE  HeldOK(p)'
<1> USE TypeParts, IdAssumption DEF Go, TxnTypes, StoreTypes, ContextTypes
<1> USE DEF ProcessOK, PhaseOK, SealedOK
<1>1. CASE LeavePending(p)
  BY <1>1, InterruptContextSteps DEF LeavePending, HeldOK, OpenStates,
     Interruptible, Openable, Loaded, InterruptContext, Interrupted
<1>2. CASE Stage(p)
  BY <1>2 DEF Stage, HeldOK, OpenStates, Interruptible, Askable, EditSteps,
     BoundSteps, Openable
<1>3. CASE Blocked(p)
  BY <1>3 DEF Blocked, HeldOK, OpenStates, Interruptible, Openable
<1>4. CASE Validated(p)
  <2>1. /\ pc[p] = "validate" /\ UNCHANGED <<pointer, journal, shadow, ctx>>
        /\ held'[p] = "READY_FOR_REVIEW" /\ held[p] = "STAGED" /\ ctx[p] \in Txns
    BY <1>4 DEF Validated
  <2>2. Go(p, "commit") \/ Go(p, "outcome")
    BY <1>4, Zenon DEF Validated
  <2>3. /\ journal[ctx[p]] \notin {"COMMITTING", "COMMITTED"} /\ shadow[ctx[p]] # "none"
    BY <2>1 DEF HeldOK, OpenStates, Interruptible
  <2> QED BY <2>1, <2>2, <2>3 DEF HeldOK, Openable
<1>5. CASE Apply(p)
  BY <1>5 DEF Apply, disk, HeldOK, Openable, Loaded
<1>6. CASE Revalidate(p)
  BY <1>6 DEF Revalidate, HeldOK, OpenStates, Interruptible, Openable
<1>7. CASE RefuseCommit(p)
  BY <1>7 DEF RefuseCommit, Raise, HeldOK, OpenStates, Interruptible, Openable
<1>8. CASE OpenJournal(p)
  BY <1>8 DEF OpenJournal, HeldOK, OpenStates, Interruptible, Openable
<1>9. CASE ApplyFails(p)
  BY <1>9 DEF ApplyFails, Raise, HeldOK, Openable
<1>10. CASE SealJournal(p)
  BY <1>10 DEF SealJournal, HeldOK, OpenStates, Interruptible, Openable
<1>11. CASE SealRecord(p)
  BY <1>11 DEF SealRecord, Raise, txnDisk, Settle, HeldOK, OpenStates,
     Interruptible, Openable, Loaded, Terminal
<1>12. CASE Discard(p)
  <2>1. /\ pc[p] = "idle" /\ pc'[p] = "restoreView" /\ held'[p] = "DISCARDED"
        /\ UNCHANGED <<pointer, journal, ctx>>
    BY <1>12 DEF Discard
  <2>2. journal[ctx[p]] \notin {"COMMITTING", "COMMITTED"} /\ ctx[p] \in Txns
    BY <1>12, <2>1, StatesListed DEF Discard, HeldOK, OpenStates, Interruptible
  <2>3. record'[ctx[p]] = "DISCARDED" /\ shadow'[ctx[p]] = "none"
    BY <1>12, <2>2 DEF Discard
  <2>4. Openable(ctx[p])'
    BY <2>1, <2>2, <2>3 DEF Openable, Loaded, Terminal
  <2> QED BY <2>1, <2>2, <2>3, <2>4 DEF HeldOK
<1>13. CASE RestoreSourceView(p)
  BY <1>13 DEF RestoreSourceView, Raise, HeldOK
<1>14. CASE Report(p)
  BY <1>14 DEF Report, txnDisk, HeldOK, Openable, Loaded
<1>15. CASE Halt(p)
  BY <1>15, InterruptContextSteps DEF Halt, Raise, Saved, Pointed, SaveFails,
     HeldOK, OpenStates, Interruptible, Openable, Loaded, InterruptContext,
     Interrupted
<1>16. CASE WriteRun(p)
  BY <1>16 DEF WriteRun, Raise, txnDisk, Release, HeldOK, Openable, Loaded
<1>17. CASE CloseAborted(p)
  BY <1>17, InterruptContextSteps DEF CloseAborted, txnDisk, Release, Saved,
     Pointed, HeldOK, OpenStates, Interruptible, Openable, Loaded,
     InterruptContext, Interrupted
<1>18. CASE SaveSession(p, "finish", "finalize")
  BY <1>18, KeepsHeld DEF SaveSession, Saved, SaveFails, Pointed, Raise, txnDisk
<1>19. CASE SaveSession(p, "outcome", "write")
  BY <1>19, KeepsHeld DEF SaveSession, Saved, SaveFails, Pointed, Raise, txnDisk
<1> QED BY <1>1, <1>2, <1>3, <1>4, <1>5, <1>6, <1>7, <1>8, <1>9, <1>10, <1>11,
   <1>12, <1>13, <1>14, <1>15, <1>16, <1>17, <1>18, <1>19 DEF Deliver

LEMMA StepShadows ==
    ASSUME TypeOK, RecordOK, NEW p \in Procs, ProcessOK(p), HeldOK(p), LeaseOK(p),
           ctx[p] # None => record[ctx[p]] # "NONE",
           \A t \in Txns : record[t] = "NONE" => journal[t] = "NONE",
           pointer[SessionOf[p]] # None => Openable(pointer[SessionOf[p]]),
           StepOf(p)
    PROVE  TreeStep(p) /\ Leaves(p) /\ HeldOK(p)'
<1>1. CASE Quit(p) \/ Crash(p)
  <2>1. /\ Exit(p) /\ UNCHANGED disk /\ pc[p] # "down" /\ pc'[p] = "down"
    BY <1>1 DEF Quit, Crash, Exit, Go, TypeOK
  <2>2. TreeStep(p)
    BY <2>1, ElsewhereKept DEF disk, Elsewhere
  <2>3. Leaves(p)
    BY <2>1, LeavesNothing DEF disk
  <2>4. HeldOK(p)'
    BY <2>1, ExitHeld
  <2> QED BY <2>2, <2>3, <2>4
<1>2. CASE Start(p) \/ Open(p)
  BY <1>2, OpenTrees, OpenHeld
<1>3. CASE \/ \E r \in Runs, m \in BOOLEAN : Ask(p, r, m)
           \/ Bootstrap(p) \/ LeaveWork(p) \/ Edit(p) \/ Break(p)
           \/ SaveSession(p, "work", "work")
  BY <1>3, BootstrapTrees, BootstrapHeld
<1>4. CASE Deliver(p) \/ Apply(p) \/ Discard(p)
  BY <1>4, DeliverTrees, DeliverHeld
<1> QED BY <1>1, <1>2, <1>3, <1>4 DEF StepOf

LEMMA StepPointer ==
    ASSUME TypeOK, NEW p \in Procs, PointerOK(p), TreeStep(p), Leaves(p), SessionStep(p)
    PROVE  PointerOK(p)'
<1> SUFFICES ASSUME NEW u \in Txns, pc'[p] # "down", pointer'[SessionOf[p]] = u, u # ctx'[p]
             PROVE  Settled(u)'
  <2>1. SessionOf[p] \in Sessions
    BY IdAssumption
  <2>2. pointer'[SessionOf[p]] \in Txns \cup {None}
    BY <2>1 DEF SessionStep, TypeOK
  <2>3. ASSUME NEW u \in Txns, pointer'[SessionOf[p]] = u, Settled(u)'
        PROVE  Settled(pointer[SessionOf[p]])'
    BY <2>3 DEF Loaded
  <2> QED BY <2>2, <2>3 DEF PointerOK
<1>1. CASE u = ctx[p]
  BY <1>1 DEF Leaves
<1>2. CASE u # ctx[p]
  <2>1. pointer[SessionOf[p]] = u /\ u # None
    BY <1>2, IdAssumption DEF SessionStep
  <2>2. pc[p] # "down"
    BY <2>1 DEF Leaves
  <2>3. Settled(u)
    BY <1>2, <2>1, <2>2 DEF PointerOK
  <2> QED BY <1>2, <2>3 DEF TreeStep
<1> QED BY <1>1, <1>2

LEMMA OthersShadows ==
    ASSUME OneProcessPerSession, TypeOK, Owned, NEW p \in Procs, NEW q \in Procs, q # p,
           Confined(p), TxnStep(p), TreeStep(p), SessionStep(p), HeldOK(q), PointerOK(q)
    PROVE  HeldOK(q)' /\ PointerOK(q)'
<1>1. Same(q)
  BY DEF Confined
<1>2. /\ SessionOf[q] \in Sessions /\ ctx[q] \in Txns \cup {None}
      /\ pointer[SessionOf[q]] \in Txns \cup {None}
  BY IdAssumption DEF TypeOK
<1>3. SessionOf[q] # SessionOf[p]
  BY DEF OneProcessPerSession
<1>4. pointer'[SessionOf[q]] = pointer[SessionOf[q]]
  BY <1>2, <1>3 DEF SessionStep
<1>5. ctx[q] # None => ctx[q] # ctx[p]
  BY DEF Owned
<1>6. pointer[SessionOf[q]] # None => pointer[SessionOf[q]] # ctx[p]
  BY <1>2, <1>3 DEF Owned
<1>7. HeldOK(q)'
  <2>1. CASE ctx[q] = None
    BY <1>1, <1>4, <2>1 DEF Same, HeldOK
  <2>2. CASE ctx[q] # None
    <3> DEFINE t == ctx[q]
    <3>1. t \in Txns /\ t # ctx[p] /\ ctx'[q] = t
      BY <1>1, <1>2, <1>5, <2>2 DEF Same
    <3>2. /\ journal'[t] = journal[t]
          /\ shadow[t] # "edited" => shadow'[t] # "edited"
          /\ journal[t] = "COMMITTED" \/ shadow[t] # "none"
                => journal'[t] = "COMMITTED" \/ shadow'[t] # "none"
      BY <3>1 DEF TxnStep, TreeStep
    <3>3. Openable(ctx[q])'
      <4>1. ASSUME NEW u \in Txns, u = ctx[q]
            PROVE  Openable(u)'
        BY <3>1, <4>1, <2>2 DEF TreeStep, HeldOK
      <4> QED BY <3>1, <4>1 DEF Openable, Loaded
    <3> QED BY <1>1, <1>4, <2>2, <3>1, <3>2, <3>3 DEF Same, HeldOK
  <2> QED BY <2>1, <2>2
<1>8. PointerOK(q)'
  <2>1. ASSUME NEW u \in Txns, u = pointer[SessionOf[q]], u # ctx[q], pc[q] # "down"
        PROVE  Settled(u)'
    <3>1. Settled(u) /\ u # ctx[p]
      BY <1>6, <2>1, IdAssumption DEF PointerOK, None
    <3> QED BY <3>1 DEF TreeStep
  <2>2. ASSUME NEW u \in Txns, u = pointer[SessionOf[q]], Settled(u)'
        PROVE  Settled(pointer[SessionOf[q]])'
    BY <1>4, <2>2 DEF Loaded
  <2> QED BY <1>1, <1>2, <1>4, <2>1, <2>2 DEF PointerOK, Same
<1> QED BY <1>7, <1>8

LEMMA NextShadows ==
    ASSUME OneProcessPerSession
    PROVE  TypeOK /\ LeaseInv /\ DeliveryInv /\ ShadowInv /\ [Next]_vars => ShadowInv'
<1> SUFFICES ASSUME TypeOK, LeaseInv, DeliveryInv, ShadowInv, [Next]_vars PROVE ShadowInv'
  OBVIOUS
<1>1. CASE UNCHANGED vars
  BY <1>1 DEF ShadowInv, HeldOK, PointerOK, Settled, Openable, Loaded, vars,
     disk, process
<1>2. ASSUME NEW p \in Procs, StepOf(p)
      PROVE  ShadowInv'
  <2>1. Confined(p) /\ TxnStep(p) /\ SessionStep(p)
    BY <1>2, StepConfined, StepDelivers DEF LeaseInv, DeliveryInv, Owned
  <2>2. SessionOf[p] \in Sessions
    BY IdAssumption
  <2>3. TreeStep(p) /\ Leaves(p) /\ HeldOK(p)'
    BY <1>2, <2>2, StepShadows DEF LeaseInv, DeliveryInv, Owned, ShadowInv
  <2>4. PointerOK(p)'
    BY <2>1, <2>3, StepPointer DEF ShadowInv
  <2>5. ASSUME NEW q \in Procs
        PROVE  HeldOK(q)' /\ PointerOK(q)'
    BY <2>1, <2>3, <2>4, OthersShadows DEF DeliveryInv, ShadowInv
  <2>6. ASSUME NEW t \in Txns, ~Settled(t)'
        PROVE  \E s \in Sessions : pointer'[s] = t
    <3>1. CASE t = ctx[p] /\ ctx'[p] = t
      <4>1. shadow'[t] = "edited"
        BY <2>6 DEF Settled
      <4> QED BY <2>2, <2>3, <3>1, <4>1, IdAssumption DEF HeldOK, None
    <3>2. CASE t = ctx[p] /\ ctx'[p] # t
      BY <2>2, <2>3, <2>6, <3>2 DEF Leaves
    <3>3. CASE t # ctx[p]
      <4>1. ~Settled(t)
        BY <2>3, <2>6, <3>3 DEF TreeStep
      <4>2. PICK s \in Sessions : pointer[s] = t
        BY <4>1 DEF ShadowInv
      <4>3. CASE pc[p] = "down"
        BY <2>3, <4>2, <4>3 DEF Leaves
      <4>4. CASE pc[p] # "down"
        <5>1. s # SessionOf[p]
          BY <3>3, <4>1, <4>2, <4>4, IdAssumption DEF ShadowInv, PointerOK, None
        <5> QED BY <2>1, <4>2, <5>1 DEF SessionStep
      <4> QED BY <4>3, <4>4
    <3> QED BY <3>1, <3>2, <3>3
  <2>7. ASSUME NEW s \in Sessions, pointer'[s] # None
        PROVE  Openable(pointer[s])'
    <3> DEFINE u == pointer'[s]
    <3>1. u \in Txns /\ (u = pointer[s] \/ u = ctx[p])
      BY <2>1, <2>7 DEF SessionStep, TypeOK
    <3>2. ASSUME NEW t \in Txns, t = u
          PROVE  Openable(t)'
      <4>1. CASE t = ctx[p]
        BY <2>3, <4>1 DEF Leaves
      <4>2. CASE t # ctx[p]
        <5>1. Openable(t)
          BY <2>7, <3>1, <3>2, <4>2 DEF ShadowInv
        <5> QED BY <2>3, <4>2, <5>1 DEF TreeStep
      <4> QED BY <4>1, <4>2
    <3>3. \E t \in Txns : t = u /\ Openable(t)'
      BY <3>1, <3>2
    <3> QED BY <3>3 DEF Openable, Loaded
  <2> QED BY <2>5, <2>6, <2>7 DEF ShadowInv
<1> QED BY <1>1, <1>2, NextIsAStep

LEMMA InitShadows == Init => ShadowInv
BY DEF Init, ShadowInv, HeldOK, PointerOK, Settled

LEMMA ShadowsHold ==
    ASSUME OneProcessPerSession
    PROVE  Spec => []ShadowInv
<1>1. Init => DeliveryInv /\ ShadowInv
  BY InitDelivery, InitShadows
<1>2. TypeOK /\ LeaseInv /\ DeliveryInv /\ ShadowInv /\ [Next]_vars => DeliveryInv' /\ ShadowInv'
  BY NextDelivery, NextShadows
<1> QED BY <1>1, <1>2, TypesHold, LeaseHolds, PTL DEF Spec

(***************************************************************************)
(* Work that is neither delivered nor thrown away is found again by the    *)
(* next process that opens its session, when no two processes open it.     *)
(***************************************************************************)
THEOREM WorkIsNeverLost ==
    ASSUME OneProcessPerSession
    PROVE  Spec => []WorkIsReachable
<1>1. ShadowInv => WorkIsReachable
  BY DEF ShadowInv, Settled, WorkIsReachable
<1> QED BY <1>1, ShadowsHold, PTL

(***************************************************************************)
(* A session that no process has open can be opened by the next start,     *)
(* when no two processes open one session.                                 *)
(***************************************************************************)
THEOREM SessionsOpen ==
    ASSUME OneProcessPerSession
    PROVE  Spec => []SessionOpens
<1>1. ShadowInv => SessionOpens
  BY DEF ShadowInv, Openable, SessionOpens
<1> QED BY <1>1, ShadowsHold, PTL

(***************************************************************************)
(* What a finalization committed is what its run reports, while one        *)
(* process works at a time and until a call fails: a run that committed is *)
(* either still recorded as running with its transaction, for the process  *)
(* that executes it or for the recovery of orphans, or closed as           *)
(* delivered.                                                              *)
(***************************************************************************)
OneAtATime == \A p, q \in Procs : pc[p] # "down" /\ pc[q] # "down" => p = q

(* The records of a run whose finalization committed t. *)
Verdicts(t) == {Task("running", t, FALSE), Task("closed", t, TRUE)}

AuthorOK ==
    \A t \in Txns : author[t] # None =>
        journal[t] = "COMMITTED" /\ run[author[t]] \in Verdicts(t)

(* From the binding of a run to the seal of its commit. *)
SealSteps == BoundSteps \cup {"validate", "commit", "recheck", "apply"}

FreshOK(p) ==
    /\ pc[p] # "down" => fresh[p]
    /\ pc[p] = "down" => ctx[p] = None
    /\ pc[p] \in {"idle", "report"} => ~InAsk(p)

RunningOK(p) ==
    pc[p] \in SealSteps /\ InAsk(p) => run[cur[p]] = Task("running", ctx[p], FALSE)

(* The transaction read with an orphan is still its own, and the context   *)
(* of a process that opens a session is not committed.                     *)
OrphanOK(p) ==
    /\ pc[p] \in OpenSteps \ {"restore"} /\ ctx[p] # None => journal[ctx[p]] # "COMMITTED"
    /\ pc[p] \in {"claim", "settle", "close"} => claim[p].txn = run[claim[p].run].txn
    /\ pc[p] = "close" => \A t \in Txns :
          author[t] = claim[p].run => task[p] = Task("closed", t, TRUE)

(* After the seal the run of the process is on its way to a report that    *)
(* names t as delivered, or has written one and holds no context.          *)
Announces(p, t) ==
    \/ pc[p] = "seal" /\ ctx[p] = t /\ InAsk(p)
    \/ pc[p] = "restoreView" /\ ctx[p] = t /\ InAsk(p) /\ held[p] = "COMMITTED"
    \/ pc[p] \in {"outcome", "write"} /\ ctx[p] = None /\ task[p] = Task("closed", t, TRUE)
    \/ pc[p] = "idle" /\ ctx[p] = None

AnnounceOK(p) ==
    \A t \in Txns : author[t] # None /\ author[t] = cur[p] => Announces(p, t)

ReportOK(p) == FreshOK(p) /\ RunningOK(p) /\ OrphanOK(p) /\ AnnounceOK(p)

LEMMA NoFault == ASSUME faults' = 0, TypeOK PROVE ~Fault
BY DEF TypeOK, Fault

(* What has failed remains counted. *)
LEMMA FaultsStay ==
    ASSUME TypeOK, NEW p \in Procs, StepOf(p), faults' = 0
    PROVE  faults = 0
<1> USE NoFault
<1>1. ~Start(p) \/ UNCHANGED faults
  BY DEF Start, bounds
<1>2. ~Open(p) \/ UNCHANGED faults
  <2>1. /\ ~RestoreNothing(p) \/ UNCHANGED faults
        /\ ~RestoreTerminal(p) \/ UNCHANGED faults
        /\ ~RestoreUnavailable(p) \/ UNCHANGED faults
        /\ ~RestoreContext(p) \/ UNCHANGED faults
    BY DEF RestoreNothing, RestoreTerminal, RestoreUnavailable, RestoreContext, Saved, bounds
  <2>2. /\ \A r \in Runs : ~Examine(p, r) \/ UNCHANGED faults
        /\ ~Claim(p) \/ UNCHANGED faults
        /\ ~SettleOrphan(p) \/ UNCHANGED faults
    BY DEF Examine, Claim, SettleOrphan, bounds
  <2>3. /\ ~CloseOrphan(p) \/ UNCHANGED faults
        /\ ~Opened(p) \/ UNCHANGED faults
    BY DEF CloseOrphan, Opened, Saved, bounds
  <2> QED BY <2>1, <2>2, <2>3 DEF Open
<1>3. ~(Quit(p) \/ Crash(p)) \/ UNCHANGED faults
  BY DEF Quit, Crash, bounds
<1>4. \A from, to : ~SaveSession(p, from, to) \/ UNCHANGED faults
  BY DEF SaveSession, Saved, SaveFails
<1>5. /\ \A r \in Runs, m \in BOOLEAN : ~Ask(p, r, m) \/ UNCHANGED faults
      /\ ~LeaveWork(p) \/ UNCHANGED faults
      /\ ~Edit(p) \/ UNCHANGED faults
      /\ ~Break(p) \/ UNCHANGED faults
  BY DEF Ask, LeaveWork, Edit, Break, bounds
<1>6. ~Bootstrap(p) \/ UNCHANGED faults
  <2>1. /\ ~StartRun(p) \/ UNCHANGED faults
        /\ \A t \in Txns : ~BeginTransaction(p, t) \/ UNCHANGED faults
        /\ ~PointSession(p) \/ UNCHANGED faults
    BY DEF StartRun, BeginTransaction, PointSession, Saved, SaveFails, bounds
  <2>2. /\ ~ResumeEditing(p) \/ UNCHANGED faults
        /\ ~BindRun(p) \/ UNCHANGED faults
    BY DEF ResumeEditing, BindRun, bounds
  <2> QED BY <1>4, <2>1, <2>2 DEF Bootstrap
<1>7. ~(Apply(p) \/ Discard(p)) \/ UNCHANGED faults
  BY DEF Apply, Discard, bounds
<1>8. ~Deliver(p) \/ UNCHANGED faults
  <2>1. /\ ~LeavePending(p) \/ UNCHANGED faults
        /\ ~Stage(p) \/ UNCHANGED faults
        /\ ~Blocked(p) \/ UNCHANGED faults
        /\ ~Validated(p) \/ UNCHANGED faults
        /\ ~Revalidate(p) \/ UNCHANGED faults
        /\ ~RefuseCommit(p) \/ UNCHANGED faults
    BY DEF LeavePending, Stage, Blocked, Validated, Revalidate, RefuseCommit, bounds
  <2>2. /\ ~OpenJournal(p) \/ UNCHANGED faults
        /\ ~ApplyFails(p)
        /\ ~SealJournal(p) \/ UNCHANGED faults
        /\ ~SealRecord(p) \/ UNCHANGED faults
        /\ ~RestoreSourceView(p) \/ UNCHANGED faults
    BY DEF OpenJournal, ApplyFails, SealJournal, SealRecord, RestoreSourceView,
       Saved, SaveFails, bounds
  <2>3. /\ ~Report(p) \/ UNCHANGED faults
        /\ ~Halt(p) \/ UNCHANGED faults
        /\ ~WriteRun(p) \/ UNCHANGED faults
        /\ ~CloseAborted(p) \/ UNCHANGED faults
    BY DEF Report, Halt, WriteRun, CloseAborted, Saved, SaveFails, bounds
  <2> QED BY <1>4, <2>1, <2>2, <2>3 DEF Deliver
<1> QED BY <1>1, <1>2, <1>3, <1>4, <1>5, <1>6, <1>7, <1>8 DEF StepOf

(* No sealed journal is opened again. *)
Sealed == \A t \in Txns : journal[t] = "COMMITTED" => journal'[t] = "COMMITTED"

(* The run of the process has committed nothing. *)
NoAuthor(p) == \A t \in Txns : author[t] # None => author[t] # cur[p]

LEMMA RunsKept ==
    ASSUME AuthorOK, UNCHANGED <<run, author>>, Sealed
    PROVE  AuthorOK'
BY DEF AuthorOK, Verdicts, Sealed

LEMMA RunsWritten ==
    ASSUME AuthorOK, UNCHANGED author, Sealed,
           \A t \in Txns : author[t] # None
               => run'[author[t]] = run[author[t]] \/ run'[author[t]] \in Verdicts(t)
    PROVE  AuthorOK'
<1>1. \A t : Verdicts(t)' = Verdicts(t)
  BY DEF Verdicts
<1> QED BY <1>1 DEF AuthorOK, Sealed

LEMMA OtherRunWritten ==
    ASSUME TypeOK, NEW p \in Procs, AuthorOK, NoAuthor(p), UNCHANGED author, Sealed,
           NEW k, run' = [run EXCEPT ![cur[p]] = k]
    PROVE  AuthorOK'
<1>1. \A t \in Txns : author[t] # None => run'[author[t]] = run[author[t]]
  BY DEF TypeOK, NoAuthor
<1> QED BY <1>1, RunsWritten

(* A step of a run that has committed nothing and leaves its record. *)
LEMMA QuietStep ==
    ASSUME NEW p \in Procs, AuthorOK, ReportOK(p), NoAuthor(p),
           UNCHANGED <<run, author, lease>>, Sealed,
           cur'[p] = cur[p], fresh'[p], pc'[p] \notin OpenSteps \cup {"down"},
           pc'[p] \in {"idle", "report"} => ~InAsk(p),
           pc'[p] \in SealSteps /\ InAsk(p)
               => run[cur[p]] = Task("running", ctx'[p], FALSE)
    PROVE  AuthorOK' /\ ReportOK(p)'
<1>1. AuthorOK' BY RunsKept
<1>2. InAsk(p)' = InAsk(p) BY DEF InAsk
<1>3. FreshOK(p)' BY <1>2 DEF FreshOK
<1>4. RunningOK(p)' BY <1>2 DEF RunningOK
<1>5. OrphanOK(p)' BY DEF OrphanOK, OpenSteps
<1>6. AnnounceOK(p)' BY DEF NoAuthor, AnnounceOK
<1> QED BY <1>1, <1>3, <1>4, <1>5, <1>6 DEF ReportOK

LEMMA ExitReports ==
    ASSUME TypeOK, NEW p \in Procs, Exit(p), UNCHANGED <<run, author, journal>>, AuthorOK
    PROVE  AuthorOK' /\ ReportOK(p)'
<1>1. pc'[p] = "down" /\ ctx'[p] = None /\ cur'[p] = None
  BY DEF Exit, Go, TypeOK
<1>2. AuthorOK'
  BY RunsKept DEF Sealed
<1> QED BY <1>1, <1>2 DEF ReportOK, FreshOK, RunningOK, OrphanOK, AnnounceOK,
   BoundSteps, SealSteps, OpenSteps

(* A process with no run of its own. *)
LEMMA NobodyWrites ==
    ASSUME NEW p \in Procs, cur'[p] = None, FreshOK(p)', OrphanOK(p)'
    PROVE  ReportOK(p)'
BY DEF ReportOK, RunningOK, AnnounceOK, InAsk

LEMMA OpenReports ==
    ASSUME faults' = 0, TypeOK, NEW p \in Procs, LeaseOK(p), ProcessOK(p),
           RecordOK, AuthorOK, ReportOK(p), Start(p) \/ Open(p)
    PROVE  AuthorOK' /\ ReportOK(p)'
<1> USE TypeParts, IdAssumption, NoFault DEF Go, Sealed, TxnTypes, StoreTypes,
   ContextTypes, RunTypes
<1> USE DEF ReportOK
<1>1. CASE Start(p)
  <2>2. AuthorOK'
    BY <1>1, RunsKept DEF Start, disk
  <2>3. FreshOK(p)'
    BY <1>1 DEF Start, disk, FreshOK, OpenSteps
  <2>4. OrphanOK(p)'
    BY <1>1 DEF Start, disk, OrphanOK, OpenSteps
  <2>5. cur'[p] = None
    BY <1>1 DEF Start, disk, LeaseOK, OpenSteps
  <2> QED BY <2>2, <2>3, <2>4, <2>5, NobodyWrites
<1>2. CASE RestoreNothing(p)
  <2>2. AuthorOK'
    BY <1>2, RunsKept DEF RestoreNothing, disk
  <2>3. FreshOK(p)'
    BY <1>2 DEF RestoreNothing, disk, FreshOK, OpenSteps
  <2>4. OrphanOK(p)'
    BY <1>2 DEF RestoreNothing, disk, OrphanOK, OpenSteps
  <2>5. cur'[p] = None
    BY <1>2 DEF RestoreNothing, disk, LeaseOK, OpenSteps
  <2> QED BY <2>2, <2>3, <2>4, <2>5, NobodyWrites
<1>3. CASE RestoreTerminal(p)
  <2>1. CASE Exit(p)
    BY <1>3, <2>1, ExitReports DEF RestoreTerminal
  <2>2. CASE ~Exit(p)
    <3>1. pc'[p] = "scan" /\ ctx'[p] = None /\ cur'[p] = None /\ fresh'[p]
      BY <1>3, <2>2 DEF RestoreTerminal, Saved, LeaseOK, OpenSteps
    <3>2. AuthorOK'
      BY <1>3, RunsKept DEF RestoreTerminal
    <3> QED BY <3>1, <3>2, NobodyWrites DEF FreshOK, OrphanOK
  <2> QED BY <2>1, <2>2
<1>4. CASE RestoreUnavailable(p)
  BY <1>4, ExitReports DEF RestoreUnavailable
<1>5. CASE RestoreContext(p)
  <2>1. journal[ctx[p]] # "COMMITTED"
    BY <1>5 DEF RestoreContext, Loaded, Terminal
  <2>2. AuthorOK'
    BY <1>5, RunsKept DEF RestoreContext
  <2>3. FreshOK(p)'
    BY <1>5 DEF RestoreContext, FreshOK, OpenSteps
  <2>4. OrphanOK(p)'
    BY <1>5, <2>1 DEF RestoreContext, OrphanOK, OpenSteps
  <2>5. cur'[p] = None
    BY <1>5 DEF RestoreContext, LeaseOK, OpenSteps
  <2> QED BY <2>2, <2>3, <2>4, <2>5, NobodyWrites
<1>6. ASSUME NEW r \in Runs, Examine(p, r)
      PROVE  AuthorOK' /\ ReportOK(p)'
  <2>2. AuthorOK'
    BY <1>6, RunsKept DEF Examine, disk
  <2>3. FreshOK(p)'
    BY <1>6 DEF Examine, disk, FreshOK, OpenSteps
  <2>4. OrphanOK(p)'
    <3>1. ctx'[p] = ctx[p] /\ journal' = journal /\ run' = run /\ pc[p] = "scan"
      BY <1>6 DEF Examine, disk
    <3>2. \/ pc'[p] = "scan"
          \/ pc'[p] = "claim" /\ claim'[p].run = r /\ claim'[p].txn = run[r].txn
      BY <1>6 DEF Examine
    <3> QED BY <3>1, <3>2 DEF OrphanOK, OpenSteps
  <2>5. cur'[p] = None
    BY <1>6 DEF Examine, disk, LeaseOK, OpenSteps
  <2> QED BY <2>2, <2>3, <2>4, <2>5, NobodyWrites
<1>7. CASE Claim(p)
  <2>2. AuthorOK'
    BY <1>7, RunsKept DEF Claim, disk
  <2>3. FreshOK(p)'
    BY <1>7 DEF Claim, disk, FreshOK, OpenSteps
  <2>4. OrphanOK(p)'
    <3>1. ctx'[p] = ctx[p] /\ journal' = journal /\ run' = run /\ pc[p] = "claim"
      BY <1>7 DEF Claim, disk
    <3>2. pc'[p] = "scan" \/ (pc'[p] = "settle" /\ claim'[p] = claim[p])
      BY <1>7 DEF Claim
    <3> QED BY <3>1, <3>2 DEF OrphanOK, OpenSteps
  <2>5. cur'[p] = None
    BY <1>7 DEF Claim, disk, LeaseOK, OpenSteps
  <2> QED BY <2>2, <2>3, <2>4, <2>5, NobodyWrites
<1>8. CASE SettleOrphan(p)
  <2>1. /\ UNCHANGED <<run, author, journal>> /\ pc[p] = "settle" /\ pc'[p] = "close"
        /\ ctx'[p] = ctx[p] /\ claim'[p] = claim[p] /\ claim[p].run # None
    BY <1>8 DEF SettleOrphan, txnDisk, InterruptContext, Settle, LeaseOK
  <2>2. AuthorOK'
    BY <2>1, RunsKept
  <2>3. FreshOK(p)'
    BY <1>8 DEF SettleOrphan, FreshOK, OpenSteps
  <2>4. ASSUME NEW t \in Txns, author[t] = claim[p].run
        PROVE  task'[p] = Task("closed", t, TRUE)
    <3>1. claim[p].txn = t /\ journal[t] = "COMMITTED"
      BY <2>1, <2>4 DEF OrphanOK, AuthorOK, Verdicts, Task
    <3>2. t # None /\ t # ctx[p]
      BY <2>1, <3>1 DEF OrphanOK, OpenSteps, None
    <3>3. task'[p] = Task("closed", t, Loaded(t) = "COMMITTED")
      BY <1>8, <3>1, <3>2 DEF SettleOrphan
    <3>4. (Loaded(t) = "COMMITTED") = TRUE
      BY <3>1 DEF Loaded
    <3> QED BY <3>3, <3>4, Zenon
  <2>5. OrphanOK(p)'
    BY <2>1, <2>4 DEF OrphanOK, OpenSteps
  <2>6. cur'[p] = None
    BY <1>8 DEF SettleOrphan, LeaseOK, OpenSteps
  <2> QED BY <2>2, <2>3, <2>5, <2>6, NobodyWrites
<1>9. CASE CloseOrphan(p)
  <2>1. /\ run' = [run EXCEPT ![claim[p].run] = task[p]]
        /\ pc[p] = "close" /\ pc'[p] = "scan" /\ ctx'[p] = ctx[p] /\ fresh'[p] = fresh[p]
        /\ cur'[p] = None /\ UNCHANGED <<author, journal>>
    BY <1>9 DEF CloseOrphan, txnDisk, LeaseOK, OpenSteps
  <2>2. ASSUME NEW t \in Txns, author[t] # None
        PROVE  run'[author[t]] = run[author[t]] \/ run'[author[t]] \in Verdicts(t)
    <3>1. CASE author[t] = claim[p].run
      BY <2>1, <2>2, <3>1 DEF OrphanOK, Verdicts
    <3>2. CASE author[t] # claim[p].run
      BY <2>1, <2>2, <3>2
    <3> QED BY <3>1, <3>2
  <2>3. AuthorOK'
    BY <2>1, <2>2, RunsWritten DEF Sealed
  <2>4. FreshOK(p)' /\ OrphanOK(p)'
    BY <2>1 DEF FreshOK, OrphanOK, OpenSteps
  <2> QED BY <2>1, <2>3, <2>4, NobodyWrites
<1>10. CASE Opened(p)
  <2>1. CASE Exit(p)
    BY <1>10, <2>1, ExitReports DEF Opened, txnDisk
  <2>2. CASE ~Exit(p)
    <3>1. pc'[p] = "idle" /\ cur'[p] = None /\ fresh'[p]
      BY <1>10, <2>2 DEF Opened, Saved, LeaseOK, OpenSteps
    <3>2. AuthorOK'
      BY <1>10, RunsKept DEF Opened, txnDisk
    <3> QED BY <3>1, <3>2, NobodyWrites DEF FreshOK, OrphanOK, OpenSteps, InAsk
  <2> QED BY <2>1, <2>2
<1> QED BY <1>1, <1>2, <1>3, <1>4, <1>5, <1>6, <1>7, <1>8, <1>9, <1>10 DEF Open

LEMMA SilentStep ==
    ASSUME NEW p \in Procs, AnnounceOK(p),
           pc[p] \notin {"seal", "restoreView", "outcome", "write", "idle"}
    PROVE  NoAuthor(p)
BY DEF NoAuthor, AnnounceOK, Announces

LEMMA SaveReports ==
    ASSUME faults' = 0, TypeOK, NEW p \in Procs, AuthorOK, ReportOK(p),
           NEW from \in SealSteps, NEW to \in SealSteps, SaveSession(p, from, to)
    PROVE  AuthorOK' /\ ReportOK(p)'
<1> USE DEF ReportOK
<1>1. /\ UNCHANGED <<run, author, lease, journal>> /\ cur'[p] = cur[p] /\ fresh'[p]
      /\ ctx'[p] = ctx[p] /\ pc[p] = from /\ pc'[p] = to
  <2>1. pc[p] = from /\ fresh[p] /\ ~SaveFails(p)
    BY NoFault DEF SaveSession, SaveFails, FreshOK, SealSteps, BoundSteps
  <2> QED BY <2>1 DEF SaveSession, Saved, Go, TypeOK, txnDisk
<1>2. InAsk(p) => run[cur[p]] = Task("running", ctx'[p], FALSE)
  BY <1>1 DEF RunningOK
<1> QED BY <1>1, <1>2, SilentStep, QuietStep DEF Sealed, OpenSteps, SealSteps, BoundSteps

LEMMA BootstrapReports ==
    ASSUME faults' = 0, TypeOK, NEW p \in Procs, LeaseOK(p), ProcessOK(p),
           AuthorOK, ReportOK(p),
           \/ \E r \in Runs, m \in BOOLEAN : Ask(p, r, m)
           \/ Bootstrap(p) \/ LeaveWork(p) \/ Edit(p) \/ Break(p)
           \/ SaveSession(p, "work", "work")
    PROVE  AuthorOK' /\ ReportOK(p)'
<1> USE TypeParts, IdAssumption, NoFault DEF Go, TxnTypes, StoreTypes,
   ContextTypes, RunTypes
<1> USE DEF ReportOK
<1>1. ASSUME NEW r \in Runs, NEW m \in BOOLEAN, Ask(p, r, m)
      PROVE  AuthorOK' /\ ReportOK(p)'
  <2>1. /\ UNCHANGED disk /\ pc'[p] = "begin" /\ cur'[p] = r /\ fresh'[p]
        /\ run[r].status = "none"
    BY <1>1 DEF Ask, NextRun, Unused, Existing, FreshOK
  <2>2. AuthorOK'
    BY <2>1, RunsKept DEF disk, Sealed
  <2>3. ASSUME NEW t \in Txns, author[t] # None PROVE author[t] # r
    BY <2>1, <2>3 DEF AuthorOK, Verdicts, Task
  <2> QED BY <2>1, <2>2, <2>3 DEF disk, FreshOK, RunningOK, OrphanOK, AnnounceOK,
     BoundSteps, SealSteps, OpenSteps
<1>2. CASE StartRun(p)
  <2>1. /\ run' = [run EXCEPT ![cur[p]] = task[p]] /\ pc[p] = "begin" /\ pc'[p] = "prepare"
        /\ UNCHANGED <<author, journal>> /\ cur'[p] = cur[p] /\ fresh'[p]
    BY <1>2 DEF StartRun, txnDisk, FreshOK
  <2>2. NoAuthor(p)
    BY <2>1 DEF NoAuthor, AnnounceOK, Announces
  <2>3. AuthorOK'
    BY <2>1, <2>2, OtherRunWritten DEF Sealed
  <2> QED BY <2>1, <2>2, <2>3 DEF FreshOK, RunningOK, OrphanOK, AnnounceOK,
     NoAuthor, BoundSteps, SealSteps, OpenSteps
<1>3. ASSUME NEW t \in Txns, BeginTransaction(p, t)
      PROVE  AuthorOK' /\ ReportOK(p)'
  <2>1. /\ UNCHANGED <<run, author, lease, journal>> /\ cur'[p] = cur[p] /\ fresh'[p]
        /\ pc[p] = "prepare" /\ pc'[p] = "point"
    BY <1>3 DEF BeginTransaction, FreshOK
  <2> QED BY <2>1, SilentStep, QuietStep DEF Sealed, SealSteps, BoundSteps, OpenSteps
<1>4. CASE PointSession(p)
  <2>1. /\ UNCHANGED <<run, author, lease, journal>> /\ cur'[p] = cur[p] /\ fresh'[p]
        /\ pc[p] = "point" /\ pc'[p] = "bind"
    BY <1>4 DEF PointSession, FreshOK, Saved, SaveFails
  <2> QED BY <2>1, SilentStep, QuietStep DEF Sealed, SealSteps, BoundSteps, OpenSteps
<1>5. CASE ResumeEditing(p)
  <2>1. /\ UNCHANGED <<run, author, lease, journal>> /\ cur'[p] = cur[p] /\ fresh'[p]
        /\ pc[p] = "prepare" /\ pc'[p] = "bind"
    BY <1>5 DEF ResumeEditing, FreshOK
  <2> QED BY <2>1, SilentStep, QuietStep DEF Sealed, SealSteps, BoundSteps, OpenSteps
<1>6. CASE BindRun(p)
  <2>1. /\ run' = [run EXCEPT ![cur[p]] = Task("running", ctx[p], FALSE)]
        /\ pc[p] = "bind" /\ pc'[p] = "greet" /\ cur[p] # None
        /\ UNCHANGED <<author, journal>> /\ cur'[p] = cur[p] /\ ctx'[p] = ctx[p] /\ fresh'[p]
    <3>1. task'[p] = Task("running", ctx[p], FALSE)
      BY <1>6 DEF BindRun
    <3>2. run' = [run EXCEPT ![cur[p]] = task'[p]] /\ pc'[p] = "greet"
      BY <1>6 DEF BindRun
    <3>3. cur[p] # None /\ fresh[p] /\ pc[p] = "bind"
      BY <1>6 DEF BindRun, LeaseOK, AskSteps, FreshOK
    <3> QED BY <1>6, <3>1, <3>2, <3>3 DEF BindRun, txnDisk
  <2>2. NoAuthor(p)
    BY <2>1 DEF NoAuthor, AnnounceOK, Announces
  <2>3. AuthorOK'
    BY <2>1, <2>2, OtherRunWritten DEF Sealed
  <2>4. run'[cur[p]] = Task("running", ctx[p], FALSE)
    BY <2>1
  <2> QED BY <2>1, <2>2, <2>3, <2>4 DEF FreshOK, RunningOK, OrphanOK, AnnounceOK,
     NoAuthor, OpenSteps
<1>7. CASE LeaveWork(p)
  <2>1. /\ UNCHANGED <<run, author, lease, journal>> /\ cur'[p] = cur[p] /\ fresh'[p]
        /\ ctx'[p] = ctx[p] /\ pc[p] = "work" /\ pc'[p] \in {"finish", "halt", "abort"}
    BY <1>7 DEF LeaveWork, disk, FreshOK
  <2>2. InAsk(p) => run[cur[p]] = Task("running", ctx'[p], FALSE)
    BY <2>1 DEF RunningOK, SealSteps, BoundSteps
  <2> QED BY <2>1, <2>2, SilentStep, QuietStep DEF Sealed, OpenSteps
<1>8. CASE Edit(p)
  <2>1. /\ UNCHANGED <<run, author, lease, journal>> /\ cur'[p] = cur[p] /\ fresh'[p]
        /\ ctx'[p] = ctx[p] /\ pc[p] = "work" /\ pc'[p] = "work"
    BY <1>8 DEF Edit, process, FreshOK
  <2>2. InAsk(p) => run[cur[p]] = Task("running", ctx'[p], FALSE)
    BY <2>1 DEF RunningOK, SealSteps, BoundSteps
  <2> QED BY <2>1, <2>2, SilentStep, QuietStep DEF Sealed, OpenSteps
<1>9. CASE Break(p)
  BY <1>9 DEF Break
<1>10. CASE SaveSession(p, "greet", "work")
  BY <1>10, SaveReports DEF SealSteps, BoundSteps
<1>11. CASE SaveSession(p, "work", "work")
  BY <1>11, SaveReports DEF SealSteps, BoundSteps
<1> QED BY <1>1, <1>2, <1>3, <1>4, <1>5, <1>6, <1>7, <1>8, <1>9, <1>10, <1>11
   DEF Bootstrap

LEMMA DeliverReports ==
    ASSUME faults' = 0, TypeOK, NEW p \in Procs, LeaseOK(p), ProcessOK(p),
           AuthorOK, ReportOK(p), Deliver(p) \/ Apply(p) \/ Discard(p)
    PROVE  AuthorOK' /\ ReportOK(p)'
<1> USE TypeParts, IdAssumption, NoFault DEF Go, TxnTypes, StoreTypes,
   ContextTypes, RunTypes
<1> USE DEF ReportOK
<1>1. CASE LeavePending(p)
  <2>1. /\ UNCHANGED <<run, author, lease>> /\ Sealed /\ cur'[p] = cur[p] /\ fresh'[p]
        /\ pc[p] = "finalize" /\ pc'[p] = "outcome"
    BY <1>1 DEF LeavePending, Sealed, FreshOK, InterruptContext
  <2> QED BY <2>1, SilentStep, QuietStep DEF SealSteps, BoundSteps, OpenSteps
<1>2. CASE Stage(p)
  <2>1. /\ UNCHANGED <<run, author, lease>> /\ Sealed /\ cur'[p] = cur[p] /\ fresh'[p]
        /\ pc[p] = "finalize" /\ pc'[p] = "validate" /\ ctx'[p] = ctx[p]
    BY <1>2 DEF Stage, Sealed, FreshOK
  <2>2. InAsk(p) => run[cur[p]] = Task("running", ctx'[p], FALSE)
    BY <2>1 DEF RunningOK, SealSteps, BoundSteps
  <2> QED BY <2>1, <2>2, SilentStep, QuietStep DEF OpenSteps
<1>3. CASE Blocked(p)
  <2>1. /\ UNCHANGED <<run, author, lease>> /\ Sealed /\ cur'[p] = cur[p] /\ fresh'[p]
        /\ pc[p] = "validate" /\ pc'[p] = "outcome"
    BY <1>3 DEF Blocked, Sealed, FreshOK
  <2> QED BY <2>1, SilentStep, QuietStep DEF SealSteps, BoundSteps, OpenSteps
<1>4. CASE Validated(p)
  <2>1. /\ UNCHANGED <<run, author, lease>> /\ Sealed /\ cur'[p] = cur[p] /\ fresh'[p]
        /\ pc[p] = "validate" /\ pc'[p] \in {"commit", "outcome"} /\ ctx'[p] = ctx[p]
    BY <1>4 DEF Validated, Sealed, FreshOK
  <2>2. InAsk(p) => run[cur[p]] = Task("running", ctx'[p], FALSE)
    BY <2>1 DEF RunningOK, SealSteps, BoundSteps
  <2> QED BY <2>1, <2>2, SilentStep, QuietStep DEF OpenSteps
<1>5. CASE Apply(p)
  <2>1. /\ UNCHANGED <<run, author, lease, journal>> /\ cur'[p] = cur[p] /\ fresh'[p]
        /\ ctx[p] # None /\ pc[p] = "idle" /\ pc'[p] = "commit"
    BY <1>5 DEF Apply, disk, FreshOK
  <2>2. NoAuthor(p) /\ ~InAsk(p)
    BY <2>1 DEF NoAuthor, AnnounceOK, Announces, FreshOK
  <2> QED BY <2>1, <2>2, QuietStep DEF Sealed, OpenSteps
<1>6. CASE Revalidate(p)
  <2>1. /\ UNCHANGED <<run, author, lease>> /\ Sealed /\ cur'[p] = cur[p] /\ fresh'[p]
        /\ pc[p] = "commit" /\ pc'[p] = "recheck" /\ ctx'[p] = ctx[p]
    BY <1>6 DEF Revalidate, Sealed, FreshOK
  <2>2. InAsk(p) => run[cur[p]] = Task("running", ctx'[p], FALSE)
    BY <2>1 DEF RunningOK, SealSteps, BoundSteps
  <2> QED BY <2>1, <2>2, SilentStep, QuietStep DEF OpenSteps
<1>7. CASE RefuseCommit(p)
  <2>1. /\ UNCHANGED <<run, author, lease, journal>> /\ cur'[p] = cur[p] /\ fresh'[p]
        /\ pc[p] = "recheck" /\ pc'[p] = IF InAsk(p) THEN "abort" ELSE "idle"
    BY <1>7 DEF RefuseCommit, Raise, FreshOK
  <2> QED BY <2>1, SilentStep, QuietStep DEF Sealed, SealSteps, BoundSteps, OpenSteps
<1>8. CASE OpenJournal(p)
  <2>1. /\ UNCHANGED <<run, author, lease>> /\ Sealed /\ cur'[p] = cur[p] /\ fresh'[p]
        /\ pc[p] = "recheck" /\ pc'[p] = "apply" /\ ctx'[p] = ctx[p]
    BY <1>8 DEF OpenJournal, Sealed, FreshOK, SealedOK, PhaseOK, ProcessOK, OpenStates, Interruptible
  <2>2. InAsk(p) => run[cur[p]] = Task("running", ctx'[p], FALSE)
    BY <2>1 DEF RunningOK, SealSteps, BoundSteps
  <2> QED BY <2>1, <2>2, SilentStep, QuietStep DEF OpenSteps
<1>9. CASE ApplyFails(p)
  BY <1>9 DEF ApplyFails
<1>10. CASE SealJournal(p)
  <2>1. /\ pc[p] = "apply" /\ pc'[p] = "seal" /\ UNCHANGED <<run, lease, cur, ctx>> /\ fresh'[p]
        /\ Sealed /\ ctx[p] \in Txns /\ journal'[ctx[p]] = "COMMITTED"
        /\ journal[ctx[p]] # "COMMITTED"
    BY <1>10 DEF SealJournal, FreshOK, Sealed, ProcessOK, PhaseOK, SealedOK
  <2>2. author[ctx[p]] = None /\ NoAuthor(p)
    BY <2>1, SilentStep DEF AuthorOK
  <2>3. CASE InAsk(p) /\ staged[ctx[p]] # "clean"
    <3>1. /\ author'[ctx[p]] = cur[p] /\ run[cur[p]] = Task("running", ctx[p], FALSE)
          /\ InAsk(p)'
      BY <1>10, <2>1, <2>3 DEF SealJournal, RunningOK, SealSteps, InAsk
    <3>2. \A t \in Txns : t # ctx[p] => author'[t] = author[t]
      BY <1>10 DEF SealJournal
    <3>3. AuthorOK'
      <4>1. ASSUME NEW t \in Txns, author'[t] # None
            PROVE  journal'[t] = "COMMITTED" /\ run'[author'[t]] \in Verdicts(t)
        <5>1. CASE t = ctx[p]
          BY <2>1, <3>1, <5>1 DEF Verdicts
        <5>2. CASE t # ctx[p]
          BY <2>1, <3>2, <4>1, <5>2 DEF AuthorOK, Sealed
        <5> QED BY <5>1, <5>2
      <4>2. \A t : Verdicts(t)' = Verdicts(t)
        BY DEF Verdicts
      <4> QED BY <4>1, <4>2 DEF AuthorOK
    <3>4. AnnounceOK(p)'
      BY <2>1, <2>2, <3>1, <3>2 DEF AnnounceOK, Announces, NoAuthor
    <3> QED BY <2>1, <3>3, <3>4 DEF FreshOK, RunningOK, OrphanOK, OpenSteps,
       SealSteps, BoundSteps
  <2>4. CASE ~(InAsk(p) /\ staged[ctx[p]] # "clean")
    <3>1. author' = author
      BY <1>10, <2>4 DEF SealJournal
    <3>2. InAsk(p) => run[cur[p]] = Task("running", ctx'[p], FALSE)
      BY <2>1 DEF RunningOK, SealSteps
    <3> QED BY <2>1, <2>2, <3>1, <3>2, QuietStep DEF OpenSteps
  <2> QED BY <2>3, <2>4
<1>11. CASE SealRecord(p)
  <2>1. /\ pc[p] = "seal" /\ pc'[p] = "restoreView" /\ held'[p] = "COMMITTED"
        /\ UNCHANGED <<run, author, journal, lease, cur, ctx>> /\ fresh'[p]
    BY <1>11 DEF SealRecord, Settle, FreshOK
  <2>2. AuthorOK'
    BY <2>1, RunsKept DEF Sealed
  <2>3. AnnounceOK(p)'
    BY <2>1 DEF AnnounceOK, Announces, InAsk
  <2> QED BY <2>1, <2>2, <2>3 DEF FreshOK, RunningOK, OrphanOK, OpenSteps,
     SealSteps, BoundSteps
<1>12. CASE Discard(p)
  <2>1. /\ UNCHANGED <<run, author, lease, journal>> /\ cur'[p] = cur[p] /\ fresh'[p]
        /\ ctx[p] # None /\ pc[p] = "idle" /\ pc'[p] = "restoreView"
    BY <1>12 DEF Discard, FreshOK
  <2>2. NoAuthor(p) /\ ~InAsk(p)
    BY <2>1 DEF NoAuthor, AnnounceOK, Announces, FreshOK
  <2> QED BY <2>1, <2>2, QuietStep DEF Sealed, OpenSteps
<1>13. CASE RestoreSourceView(p)
  <2>1. /\ pc[p] = "restoreView" /\ ctx'[p] = None /\ fresh'[p] /\ Sealed
        /\ UNCHANGED <<run, author, lease, cur>>
    BY <1>13 DEF RestoreSourceView, txnDisk, FreshOK, Saved, SaveFails, Sealed
  <2>2. CASE InAsk(p)
    <3>1. /\ pc'[p] = "outcome"
          /\ task'[p] = Task("closed", task[p].txn, held[p] = "COMMITTED")
      BY <1>13, <2>1, <2>2 DEF RestoreSourceView, SaveFails, FreshOK
    <3>2. ASSUME NEW t \in Txns, author[t] # None, author[t] = cur[p]
          PROVE  task'[p] = Task("closed", t, TRUE)
      <4>1. ctx[p] = t /\ held[p] = "COMMITTED" /\ cur[p] # None
        BY <2>1, <3>2 DEF AnnounceOK, Announces
      <4>2. task[p].txn = t
        BY <4>1 DEF ProcessOK, BoundOK, Askable, None
      <4>3. (held[p] = "COMMITTED") = TRUE
        BY <4>1
      <4> QED BY <3>1, <4>2, <4>3, Zenon
    <3>3. AuthorOK'
      BY <2>1, RunsKept
    <3>4. AnnounceOK(p)'
      BY <2>1, <3>1, <3>2 DEF AnnounceOK, Announces
    <3> QED BY <2>1, <3>1, <3>3, <3>4 DEF FreshOK, RunningOK, OrphanOK, OpenSteps,
       SealSteps, BoundSteps
  <2>3. CASE ~InAsk(p)
    <3>1. pc'[p] \in {"report", "idle"}
      BY <1>13, <2>1, <2>3 DEF RestoreSourceView, SaveFails, FreshOK
    <3>2. NoAuthor(p)
      BY <2>1, <2>3 DEF NoAuthor, AnnounceOK, Announces
    <3> QED BY <2>1, <2>3, <3>1, <3>2, QuietStep DEF OpenSteps, SealSteps, BoundSteps
  <2> QED BY <2>2, <2>3
<1>14. CASE Report(p)
  <2>1. /\ pc[p] = "report" /\ pc'[p] = "idle" /\ UNCHANGED <<author, lease, cur, fresh>>
        /\ Sealed /\ run' = [run EXCEPT ![cur[p]] = task[p]]
    BY <1>14 DEF Report, txnDisk, Sealed
  <2>2. NoAuthor(p)
    BY <2>1, SilentStep
  <2>3. AuthorOK'
    BY <2>1, <2>2, OtherRunWritten
  <2>4. FreshOK(p)'
    BY <2>1 DEF FreshOK, InAsk
  <2> QED BY <2>1, <2>2, <2>3, <2>4 DEF RunningOK, OrphanOK, AnnounceOK, NoAuthor,
     OpenSteps, SealSteps, BoundSteps
<1>15. CASE Halt(p)
  <2>1. /\ UNCHANGED <<run, author, lease, journal>> /\ cur'[p] = cur[p] /\ fresh'[p]
        /\ pc[p] = "halt" /\ pc'[p] = "outcome"
    BY <1>15 DEF Halt, InterruptContext, Saved, SaveFails, FreshOK
  <2> QED BY <2>1, SilentStep, QuietStep DEF Sealed, SealSteps, BoundSteps, OpenSteps
<1>16. CASE WriteRun(p)
  <2>1. /\ pc[p] = "write" /\ pc'[p] = "idle" /\ UNCHANGED <<author, ctx, cur, fresh>>
        /\ Sealed /\ run' = [run EXCEPT ![cur[p]] = task[p]]
        /\ ~InAsk(p)'
    BY <1>16 DEF WriteRun, Release, txnDisk, Sealed, InAsk
  <2>2. AuthorOK'
    <3>1. ASSUME NEW t \in Txns, author[t] # None
          PROVE  run'[author[t]] = run[author[t]] \/ run'[author[t]] \in Verdicts(t)
      BY <2>1, <3>1 DEF AnnounceOK, Announces, Verdicts
    <3> QED BY <2>1, <3>1, RunsWritten
  <2>3. FreshOK(p)'
    BY <2>1 DEF FreshOK
  <2>4. AnnounceOK(p)'
    BY <2>1 DEF AnnounceOK, Announces
  <2> QED BY <2>1, <2>2, <2>3, <2>4 DEF RunningOK, OrphanOK,
     OpenSteps, SealSteps, BoundSteps
<1>17. CASE CloseAborted(p)
  <2>1. /\ pc[p] = "abort" /\ pc'[p] = "idle" /\ UNCHANGED <<author, journal, cur>>
        /\ ~InAsk(p)'
    BY <1>17 DEF CloseAborted, InterruptContext, Release, txnDisk, InAsk
  <2>2. fresh'[p] /\ run' = [run EXCEPT ![cur[p]] = Aborted(p)]
    BY <1>17 DEF CloseAborted, Saved, FreshOK
  <2>3. NoAuthor(p)
    BY <2>1, SilentStep
  <2>4. AuthorOK'
    BY <2>1, <2>2, <2>3, OtherRunWritten DEF Sealed
  <2>5. FreshOK(p)'
    BY <2>1, <2>2 DEF FreshOK
  <2> QED BY <2>1, <2>3, <2>4, <2>5 DEF RunningOK, OrphanOK, AnnounceOK, NoAuthor,
     OpenSteps, SealSteps, BoundSteps
<1>18. CASE SaveSession(p, "finish", "finalize")
  BY <1>18, SaveReports DEF SealSteps, BoundSteps
<1>19. CASE SaveSession(p, "outcome", "write")
  <2>1. /\ pc[p] = "outcome" /\ pc'[p] = "write" /\ fresh'[p]
        /\ UNCHANGED <<run, author, journal, ctx, cur, task>>
    BY <1>19 DEF SaveSession, Saved, SaveFails, txnDisk, FreshOK
  <2>2. AuthorOK'
    BY <2>1, RunsKept DEF Sealed
  <2>3. AnnounceOK(p)'
    BY <2>1 DEF AnnounceOK, Announces
  <2> QED BY <2>1, <2>2, <2>3 DEF FreshOK, RunningOK, OrphanOK, OpenSteps,
     SealSteps, BoundSteps
<1> QED BY <1>1, <1>2, <1>3, <1>4, <1>5, <1>6, <1>7, <1>8, <1>9, <1>10, <1>11,
   <1>12, <1>13, <1>14, <1>15, <1>16, <1>17, <1>18, <1>19 DEF Deliver

LEMMA StepReports ==
    ASSUME faults' = 0, TypeOK, NEW p \in Procs, LeaseOK(p), ProcessOK(p),
           RecordOK, AuthorOK, ReportOK(p), StepOf(p)
    PROVE  AuthorOK' /\ ReportOK(p)'
<1>1. CASE Quit(p) \/ Crash(p)
  BY <1>1, ExitReports DEF Quit, Crash, disk
<1> QED BY <1>1, OpenReports, BootstrapReports, DeliverReports DEF StepOf

(* A process that is down only starts. *)
LEMMA DownStarts ==
    ASSUME TypeOK, NEW p \in Procs, StepOf(p), pc[p] = "down"
    PROVE  pc'[p] # "down"
<1>1. CASE Start(p)
  BY <1>1 DEF Start, Go, TypeOK
<1>2. ~Open(p)
  BY DEF Open, RestoreNothing, RestoreTerminal, RestoreUnavailable, RestoreContext,
     Examine, Claim, SettleOrphan, CloseOrphan, Opened
<1>3. ~Bootstrap(p)
  BY DEF Bootstrap, StartRun, BeginTransaction, PointSession, ResumeEditing,
     BindRun, SaveSession
<1>4. ~Deliver(p)
  BY DEF Deliver, SaveSession, LeavePending, Stage, Blocked, Validated, Revalidate,
     RefuseCommit, OpenJournal, ApplyFails, SealJournal, SealRecord,
     RestoreSourceView, Report, Halt, WriteRun, CloseAborted
<1>5. \A r \in Runs, m \in BOOLEAN : ~Ask(p, r, m)
  BY DEF Ask
<1>6. /\ ~Apply(p) /\ ~Discard(p) /\ ~Edit(p) /\ ~Break(p) /\ ~LeaveWork(p)
      /\ ~Quit(p) /\ ~Crash(p) /\ ~SaveSession(p, "work", "work")
  BY DEF Apply, Discard, Edit, Break, LeaveWork, Quit, Crash, SaveSession
<1> QED BY <1>1, <1>2, <1>3, <1>4, <1>5, <1>6 DEF StepOf

LEMMA OthersReport ==
    ASSUME TypeOK, NEW p \in Procs, NEW q \in Procs, q # p, Confined(p),
           pc[q] = "down", LeaseOK(q), ReportOK(q)
    PROVE  ReportOK(q)'
<1>1. pc'[q] = "down" /\ ctx'[q] = None /\ cur'[q] = None
  BY DEF Confined, Same, LeaseOK, ReportOK, FreshOK
<1> QED BY <1>1 DEF ReportOK, FreshOK, RunningOK, OrphanOK, AnnounceOK,
   BoundSteps, SealSteps, OpenSteps

ReportInv == AuthorOK /\ \A p \in Procs : ReportOK(p)

LEMMA NextReports ==
    /\ TypeOK /\ LeaseInv /\ OneAtATime /\ OneAtATime'
    /\ faults = 0 => DeliveryInv /\ ReportInv
    /\ [Next]_vars
    => (faults' = 0 => DeliveryInv' /\ ReportInv')
<1> SUFFICES ASSUME TypeOK, LeaseInv, OneAtATime, OneAtATime', [Next]_vars, faults' = 0,
                    faults = 0 => DeliveryInv /\ ReportInv
             PROVE  DeliveryInv' /\ ReportInv'
  OBVIOUS
<1>0. DeliveryInv /\ ReportInv
  BY NextIsAStep, FaultsStay DEF vars, bounds
<1>1. CASE UNCHANGED vars
  <2>1. DeliveryInv'
    BY <1>0, <1>1, DeliveryKept
  <2>2. AuthorOK'
    BY <1>0, <1>1, RunsKept DEF vars, disk, ReportInv, Sealed
  <2>3. ASSUME NEW p \in Procs
        PROVE  ReportOK(p)'
    <3>1. FreshOK(p) /\ RunningOK(p) /\ OrphanOK(p) /\ AnnounceOK(p)
      BY <1>0 DEF ReportInv, ReportOK
    <3>2. UNCHANGED <<pc, fresh, ctx, held, cur, task, claim, lease, run, author, journal>>
      BY <1>1 DEF vars, disk, process
    <3>3. FreshOK(p)' /\ RunningOK(p)'
      BY <3>1, <3>2 DEF FreshOK, RunningOK, InAsk
    <3>4. OrphanOK(p)'
      BY <3>1, <3>2 DEF OrphanOK
    <3>5. AnnounceOK(p)'
      BY <3>1, <3>2 DEF AnnounceOK, Announces, InAsk
    <3> QED BY <3>3, <3>4, <3>5 DEF ReportOK
  <2> QED BY <2>1, <2>2, <2>3 DEF ReportInv
<1>2. ASSUME NEW p \in Procs, StepOf(p)
      PROVE  DeliveryInv' /\ ReportInv'
  <2>1. Confined(p)
    BY <1>2, StepConfined DEF LeaseInv
  <2>2. ASSUME NEW q \in Procs, q # p
        PROVE  pc[q] = "down"
    <3>1. pc[p] # "down" \/ pc'[p] # "down"
      BY <1>2, DownStarts
    <3>2. pc'[q] = pc[q]
      BY <2>1, <2>2 DEF Confined, Same
    <3> QED BY <2>2, <3>1, <3>2 DEF OneAtATime
  <2>3. Apart(p)
    BY <1>0, <2>2 DEF Apart, ReportInv, ReportOK, FreshOK
  <2>4. DeliveryInv'
    BY <1>0, <1>2, <2>3, StepKeepsDelivery
  <2>5. AuthorOK' /\ ReportOK(p)'
    BY <1>0, <1>2, StepReports DEF LeaseInv, DeliveryInv, ReportInv
  <2>6. ASSUME NEW q \in Procs, q # p
        PROVE  ReportOK(q)'
    BY <1>0, <2>1, <2>2, <2>6, OthersReport DEF LeaseInv, ReportInv
  <2> QED BY <2>4, <2>5, <2>6 DEF ReportInv
<1> QED BY <1>1, <1>2, NextIsAStep

LEMMA InitReports == Init => ReportInv
BY DEF Init, ReportInv, AuthorOK, ReportOK, FreshOK, RunningOK, OrphanOK,
   AnnounceOK, OpenSteps, SealSteps, BoundSteps

(***************************************************************************)
(* A run whose finalization committed is never closed with a report that   *)
(* nothing was delivered, however often the process crashes between the    *)
(* journal and the record of the run and whichever process recovers the    *)
(* orphan: while one process works at a time and until a call fails.       *)
(* (delivery_runtime.py, _close_aborted_run and claim_orphaned_runs)       *)
(***************************************************************************)
THEOREM CommitsAreReported == Spec /\ []OneAtATime => []CommitReported
<1> DEFINE Inv == faults = 0 => DeliveryInv /\ ReportInv
<1>1. Init => Inv
  BY InitDelivery, InitReports
<1>2. TypeOK /\ LeaseInv /\ OneAtATime /\ OneAtATime' /\ Inv /\ [Next]_vars => Inv'
  BY NextReports
<1>3. Inv => CommitReported
  <2> SUFFICES ASSUME Inv, NEW t \in Txns, author[t] # None,
                      run[author[t]].status = "closed", faults = 0
               PROVE  run[author[t]].delivered
    BY DEF CommitReported
  <2>1. run[author[t]] \in {Task("running", t, FALSE), Task("closed", t, TRUE)}
    BY DEF ReportInv, AuthorOK, Verdicts
  <2> QED BY <2>1 DEF Task
<1> HIDE DEF Inv
<1> QED BY <1>1, <1>2, <1>3, TypesHold, LeaseHolds, PTL DEF Spec
=============================================================================
