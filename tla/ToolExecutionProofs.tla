------------------------ MODULE ToolExecutionProofs ------------------------
(***************************************************************************)
(* ToolExecution: the account the results give of the files, the obedience *)
(* to an interrupt, the evidence of a verification and the atomicity of a  *)
(* patch set, for any files, edits, commands and numbers of calls, faults  *)
(* and interrupts.                                                         *)
(*                                                                         *)
(* The properties speak of an idle executor.  What must hold on the way   *)
(* there: the snapshot a call began with is what was accounted for, a      *)
(* process of the command is alive only while the executor waits for it    *)
(* or kills it, and an interrupt is not forgotten.                         *)
(***************************************************************************)
EXTENDS ToolExecution, RecursionLemmas, TLAPS

FilesOK ==
    /\ file = [p \in Paths |-> file[p]]
    /\ accounted = [p \in Paths |-> accounted[p]]

ProcessesOK ==
    /\ escapes \in Nat /\ (escapes = 0 => daemon = "none")
    /\ main \/ group => pc \in {"waiting", "killing"}

(* Between two calls nothing is open; during one the snapshot closes it.   *)
AccountOK ==
    escapes = 0 =>
        /\ pc \in {"idle", "asking"} => accounted = file
        /\ pc # "idle" => before = accounted

AccountInv == FilesOK /\ ProcessesOK /\ AccountOK

(* The interrupt is on its way out, or the error of a rollback hides it.   *)
InterruptInv ==
    /\ interrupts \in Nat
    /\ interrupts > 0 /\ ~unrestored =>
          \/ pc = "stopped"
          \/ trouble = "interrupt" /\ pc \in {"restoring", "killing", "draining", "closing"}

----------------------------------------------------------------------------
(* A result that lists what differs from the snapshot balances the account.*)

LEMMA ConcludeBalances ==
    ASSUME NEW status, NEW code, NEW changed,
           FilesOK, file' = file, Conclude(status, code, changed),
           \A p \in Paths : p \notin changed => accounted[p] = file[p]
    PROVE  accounted' = file /\ pc' = "idle"
<1>1. accounted' = [p \in Paths |-> IF p \in changed THEN file[p] ELSE accounted[p]]
  BY DEF Conclude
<1>2. \A p \in Paths : (IF p \in changed THEN file[p] ELSE accounted[p]) = file[p]
  OBVIOUS
<1>3. accounted' = [p \in Paths |-> file[p]]
  BY <1>1, <1>2
<1> QED  BY <1>3 DEF FilesOK, Conclude

LEMMA ConcludeShape ==
    ASSUME NEW status, NEW code, NEW changed, Conclude(status, code, changed)
    PROVE  /\ accounted' = [p \in Paths |-> accounted'[p]]
           /\ pc' = "idle" /\ trouble' = "none"
BY DEF Conclude

(* Steps that change neither the account nor the snapshot, within a call.  *)
LEMMA InsideCall ==
    ASSUME AccountInv, pc # "idle", pc' \notin {"idle", "asking"},
           file' = [p \in Paths |-> file'[p]],
           UNCHANGED <<accounted, before, escapes, daemon>>,
           main' \/ group' => pc' \in {"waiting", "killing"}
    PROVE  AccountInv'
BY DEF AccountInv, FilesOK, ProcessesOK, AccountOK

(* Steps of processes: the executor stays where it is. *)
LEMMA ProcessStep ==
    ASSUME AccountInv, Still, file' = [p \in Paths |-> file'[p]],
           file' = file \/ main \/ group \/ daemon # "none",
           main' \/ group' => main \/ group,
           escapes' \in Nat, escapes' = 0 => escapes = 0 /\ daemon' = "none"
    PROVE  AccountInv'
BY DEF AccountInv, FilesOK, ProcessesOK, AccountOK, Still, document

LEMMA InitAccount == Init => AccountInv
BY TextAssumption DEF Init, AccountInv, FilesOK, ProcessesOK, AccountOK

LEMMA RequestAccount ==
    ASSUME AccountInv, NEW c \in Calls, NEW valid \in BOOLEAN, NEW fresh \in BOOLEAN,
           Request(c, valid, fresh)
    PROVE  AccountInv'
<1>1. /\ pc = "idle" /\ before' = file
      /\ UNCHANGED <<file, main, group, daemon, escapes>>
  BY DEF Request
<1>2. CASE \E code : Conclude("rejected", code, {}) \/ Conclude("ok", code, {})
  <2>1. PICK status, code : Conclude(status, code, {})
    BY <1>2
  <2>2. accounted' = accounted /\ pc' = "idle"
    BY <2>1 DEF Conclude, AccountInv, FilesOK
  <2> QED  BY <1>1, <2>2 DEF AccountInv, FilesOK, ProcessesOK, AccountOK
<1>3. CASE pc' = "asking" /\ UNCHANGED accounted
  BY <1>1, <1>3 DEF AccountInv, FilesOK, ProcessesOK, AccountOK
<1> QED  BY <1>2, <1>3 DEF Request

LEMMA ApproveAccount ==
    ASSUME AccountInv, Approve PROVE AccountInv'
<1>1. pc = "asking" /\ UNCHANGED <<file, main, group, daemon, escapes>>
  BY DEF Approve, command, bounds
<1>2. CASE before' = file /\ pc' \in {"starting", "planning"} /\ UNCHANGED accounted
  BY <1>1, <1>2 DEF AccountInv, FilesOK, ProcessesOK, AccountOK
<1>3. CASE Conclude("rejected", "approval_denied", {}) /\ UNCHANGED before
  <2>1. accounted' = accounted /\ pc' = "idle"
    BY <1>3 DEF Conclude, AccountInv, FilesOK
  <2> QED  BY <1>1, <2>1 DEF AccountInv, FilesOK, ProcessesOK, AccountOK
<1> QED  BY <1>2, <1>3 DEF Approve

(* The two ways a call ends that may have changed files. *)
LEMMA EndAccount ==
    ASSUME AccountInv, pc # "idle", pc # "waiting", pc # "killing",
           NEW status, NEW code, Conclude(status, code, Changed),
           UNCHANGED <<file, before, main, group, daemon, escapes>>
    PROVE  AccountInv'
<1>1. accounted' = [p \in Paths |-> accounted'[p]] /\ pc' = "idle"
  BY ConcludeShape
<1>2. ASSUME escapes = 0 PROVE accounted' = file
  <2>1. before = accounted
    BY <1>2 DEF AccountInv, AccountOK
  <2>2. \A p \in Paths : p \notin Changed => accounted[p] = file[p]
    BY <2>1 DEF Changed
  <2> QED  BY <2>2, ConcludeBalances DEF AccountInv
<1> QED  BY <1>1, <1>2 DEF AccountInv, FilesOK, ProcessesOK, AccountOK

LEMMA NextAccount == AccountInv /\ [Next]_vars => AccountInv'
<1> SUFFICES ASSUME AccountInv, [Next]_vars PROVE AccountInv'
  OBVIOUS
<1> USE DEF command, bounds, document
<1>0. /\ file = [p \in Paths |-> file[p]]
      /\ \A q \in Paths : \A v : [file EXCEPT ![q] = v] = [p \in Paths |-> [file EXCEPT ![q] = v][p]]
  BY DEF AccountInv, FilesOK
<1>f. pc \notin {"waiting", "killing"} => ~main /\ ~group
  BY DEF AccountInv, ProcessesOK
<1>1. ASSUME NEW c \in Calls, NEW valid \in BOOLEAN, NEW fresh \in BOOLEAN,
             Request(c, valid, fresh)
      PROVE  AccountInv'
  BY <1>1, RequestAccount
<1>2. CASE Approve
  BY <1>2, ApproveAccount
<1>3. CASE PlanEdits
  BY <1>3, <1>0, <1>f, InsideCall DEF PlanEdits
<1>4. ASSUME NEW p \in Paths, Write(p) PROVE AccountInv'
  BY <1>4, <1>0, <1>f, InsideCall DEF Write
<1>5. ASSUME NEW p \in Paths, Restore(p) PROVE AccountInv'
  BY <1>5, <1>0, <1>f, InsideCall DEF Restore
<1>6. ASSUME NEW p \in Paths, WriteFails(p) PROVE AccountInv'
  BY <1>6, <1>0, <1>f, InsideCall DEF WriteFails
<1>7. ASSUME NEW p \in Paths, RestoreFails(p) PROVE AccountInv'
  BY <1>7, <1>0, <1>f, InsideCall DEF RestoreFails
<1>8. CASE RaiseAgain
  BY <1>8, <1>0, <1>f, InsideCall DEF RaiseAgain
<1>9. CASE Start
  BY <1>9, <1>0, <1>f, InsideCall DEF Start
<1>10. CASE Wait
  BY <1>10, <1>0, <1>f, InsideCall DEF Wait
<1>11. CASE Kill
  BY <1>11, <1>0, <1>f, InsideCall DEF Kill
<1>12. CASE Drain \/ Close
  BY <1>12, <1>0, <1>f, InsideCall DEF Drain, Close, AfterPipes
<1>13. CASE Interrupt
  BY <1>13, <1>0, <1>f, InsideCall DEF Interrupt
<1>14. CASE Return
  <2>1. CASE pc' = "failing" /\ UNCHANGED accounted
    BY <1>14, <2>1, <1>0, <1>f, InsideCall DEF Return
  <2>2. CASE \E status, code : Conclude(status, code, Changed)
    BY <1>14, <2>2, EndAccount DEF Return
  <2> QED  BY <1>14, <2>1, <2>2 DEF Return
<1>15. CASE Fail
  BY <1>15, EndAccount DEF Fail, ChangedAfterError
<1>16. ASSUME NEW p \in Paths, CommandWrites(p) \/ DaemonWrites(p) PROVE AccountInv'
  BY <1>16, <1>0, ProcessStep DEF CommandWrites, DaemonWrites, AccountInv, ProcessesOK
<1>17. CASE \/ CommandTests \/ CommandForks \/ DaemonTests \/ DaemonEnds
             \/ \E status \in {0, 1} : CommandExits(status)
  BY <1>17, <1>0, ProcessStep
     DEF CommandTests, CommandForks, DaemonTests, DaemonEnds, CommandExits, AccountInv, ProcessesOK
<1>18. ASSUME NEW pipe \in {"holds", "detached"}, CommandEscapes(pipe) PROVE AccountInv'
  BY <1>18, <1>0, ProcessStep DEF CommandEscapes, AccountInv, ProcessesOK
<1>19. CASE UNCHANGED vars
  BY <1>19 DEF vars, AccountInv, FilesOK, ProcessesOK, AccountOK
<1>20. CASE Ended
  BY <1>19, <1>20 DEF Ended
<1> QED
  BY <1>1, <1>2, <1>3, <1>4, <1>5, <1>6, <1>7, <1>8, <1>9, <1>10, <1>11, <1>12, <1>13, <1>14,
     <1>15, <1>16, <1>17, <1>18, <1>19, <1>20 DEF Next, Runner

(* Between two calls every change of the files was reported by the call    *)
(* that made it, unless a process of a command escaped its group: also     *)
(* after failing writes, failing rollbacks and time-outs (execute).        *)
THEOREM EveryChangeIsReported == Spec => []ChangesReported
<1>1. AccountInv => ChangesReported
  BY DEF AccountInv, AccountOK, ChangesReported
<1> QED  BY <1>1, InitAccount, NextAccount, PTL DEF Spec

----------------------------------------------------------------------------
LEMMA NextInterrupt == InterruptInv /\ [Next]_vars => InterruptInv'
<1> SUFFICES ASSUME InterruptInv, [Next]_vars PROVE InterruptInv'
  OBVIOUS
<1> USE DEF bounds, document, command
<1>1. ASSUME UNCHANGED <<interrupts, unrestored, trouble, pc>> PROVE InterruptInv'
  BY <1>1 DEF InterruptInv
<1>2. ASSUME pc \in {"idle", "asking", "planning", "writing", "starting", "waiting", "returning",
                     "failing"},
             UNCHANGED <<interrupts, unrestored>>
      PROVE  InterruptInv'
  BY <1>2 DEF InterruptInv
<1>3. ASSUME NEW c \in Calls, NEW valid \in BOOLEAN, NEW fresh \in BOOLEAN,
             Request(c, valid, fresh)
      PROVE  InterruptInv'
  BY <1>2, <1>3 DEF Request
<1>4. CASE Approve \/ PlanEdits \/ Start \/ Wait \/ Return \/ Fail
  BY <1>2, <1>4 DEF Approve, PlanEdits, Start, Wait, Return, Fail
<1>5. ASSUME NEW p \in Paths, Write(p) PROVE InterruptInv'
  BY <1>2, <1>5 DEF Write
<1>6. ASSUME NEW p \in Paths, WriteFails(p) PROVE InterruptInv'
  BY <1>6 DEF WriteFails, InterruptInv
<1>7. ASSUME NEW p \in Paths, Restore(p) PROVE InterruptInv'
  BY <1>1, <1>7 DEF Restore
<1>8. ASSUME NEW p \in Paths, RestoreFails(p) PROVE InterruptInv'
  BY <1>8 DEF RestoreFails, InterruptInv
<1>9. CASE RaiseAgain
  BY <1>9 DEF RaiseAgain, InterruptInv
<1>10. CASE Kill \/ Drain \/ Close
  BY <1>10 DEF Kill, Drain, Close, AfterPipes, InterruptInv
<1>11. CASE Interrupt
  BY <1>11 DEF Interrupt, InterruptInv
<1>12. ASSUME Still PROVE InterruptInv'
  BY <1>1, <1>12 DEF Still
<1>13. ASSUME NEW p \in Paths, CommandWrites(p) \/ DaemonWrites(p) PROVE InterruptInv'
  BY <1>12, <1>13 DEF CommandWrites, DaemonWrites
<1>14. CASE \/ CommandTests \/ CommandForks \/ DaemonTests \/ DaemonEnds
            \/ \E pipe \in {"holds", "detached"} : CommandEscapes(pipe)
            \/ \E status \in {0, 1} : CommandExits(status)
  BY <1>12, <1>14
     DEF CommandTests, CommandForks, DaemonTests, DaemonEnds, CommandEscapes, CommandExits
<1>15. CASE UNCHANGED vars \/ Ended
  BY <1>1, <1>15 DEF Ended, vars
<1> QED
  BY <1>3, <1>4, <1>5, <1>6, <1>7, <1>8, <1>9, <1>10, <1>11, <1>13, <1>14, <1>15 DEF Next, Runner

(* An interrupt reaches the end of the turn, whatever wait, drain or       *)
(* rollback it meets; only a rollback that failed hides it (execute, which *)
(* catches Exception and no KeyboardInterrupt).                            *)
THEOREM InterruptIsObeyed == Spec => []InterruptObeyed
<1>1. Init => InterruptInv
  BY DEF Init, InterruptInv
<1>2. InterruptInv => InterruptObeyed
  BY DEF InterruptInv, InterruptObeyed
<1> QED  BY <1>1, <1>2, NextInterrupt, PTL DEF Spec

----------------------------------------------------------------------------
(* Evidence.  The probe of a verification saw the files as they were when  *)
(* the call was approved, and a report that is not the one from before was *)
(* written by this call's command, unless a process has escaped.           *)

Probed == {"waiting", "killing", "draining", "closing", "returning"}

ProbeOK ==
    /\ pc = "starting" => before = file
    /\ pc \in Probed /\ call.tool \in Commands /\ before[TestPath] # InitialText[TestPath]
          => pending = {TestPath}
    /\ report # probe => tested

EvidenceInv ==
    /\ pc \in {"planning", "writing", "restoring"} => call.tool \notin Commands
    /\ escapes = 0 => ProbeOK
    /\ EvidenceOfThisRun

(* Steps within a call that run no process. *)
LEMMA InsideEvidence ==
    ASSUME EvidenceInv, pc # "idle", pc' \notin {"idle", "starting"},
           UNCHANGED <<call, before, report, probe, pending, tested, escapes>>,
           pc' \in Probed /\ call.tool \in Commands => pc \in Probed,
           pc' \in {"planning", "writing", "restoring"} =>
               pc \in {"planning", "writing", "restoring"}
    PROVE  EvidenceInv'
BY DEF EvidenceInv, ProbeOK, EvidenceOfThisRun

(* Steps of processes.  One that writes files or a report belongs to a     *)
(* command the executor waits for, or has escaped.                         *)
LEMMA ProcessEvidence ==
    ASSUME EvidenceInv, Still, escapes' = 0 => escapes = 0,
           tested => tested',
           \/ UNCHANGED <<file, report>>
           \/ pc \in {"waiting", "killing"} /\ (report' = report \/ tested')
           \/ escapes' # 0
    PROVE  EvidenceInv'
BY DEF EvidenceInv, ProbeOK, EvidenceOfThisRun, Still

LEMMA RequestEvidence ==
    ASSUME EvidenceInv, NEW c \in Calls, NEW valid \in BOOLEAN, NEW fresh \in BOOLEAN,
           Request(c, valid, fresh)
    PROVE  EvidenceInv'
<1>1. pc' \in {"idle", "asking"} /\ call' = c /\ probe' = report' /\ UNCHANGED escapes
  BY DEF Request, Conclude
<1>2. "run_verification" \in Risky
  BY DEF Risky, Tools
<1>3. ASSUME pc' = "idle" PROVE result'.status = "rejected" \/ c.tool \notin Risky
  <2>1. \/ \E code : Conclude("rejected", code, {})
        \/ c.tool \notin Risky
    BY <1>3 DEF Request
  <2> QED
    BY <2>1 DEF Conclude
<1> QED
  BY <1>1, <1>2, <1>3 DEF EvidenceInv, ProbeOK, Probed, EvidenceOfThisRun

LEMMA ApproveEvidence ==
    ASSUME EvidenceInv, Approve
    PROVE  EvidenceInv'
<1>1. UNCHANGED <<file, report, probe, tested, call, escapes>>
  BY DEF Approve, command, bounds
<1>2. CASE before' = file /\ pc' = IF call.tool \in Commands THEN "starting" ELSE "planning"
  BY <1>1, <1>2 DEF EvidenceInv, ProbeOK, Probed, EvidenceOfThisRun
<1>3. CASE Conclude("rejected", "approval_denied", {})
  BY <1>1, <1>3 DEF Conclude, EvidenceInv, ProbeOK, Probed, EvidenceOfThisRun
<1> QED
  BY <1>2, <1>3 DEF Approve

(* A verification that ends well with tests pending has a new report, or   *)
(* its argv names them.                                                    *)
LEMMA ReturnEvidence ==
    ASSUME EvidenceInv, Return
    PROVE  EvidenceInv'
<1>1. /\ pc = "returning"
      /\ UNCHANGED <<file, before, call, tested, report, probe, pending, exit, escapes>>
  BY DEF Return, command
<1>2. CASE pc' = "failing"
  BY <1>1, <1>2, InsideEvidence DEF Probed
<1>3. CASE /\ call.tool \in Commands /\ exit # 0
           /\ Conclude(IF Changed # {} THEN "partial_success" ELSE "error",
                       IF Changed # {} THEN "tool_partial_success" ELSE "tool_failed", Changed)
  <2>1. pc' = "idle" /\ result'.status # "ok"
    BY <1>3 DEF Conclude
  <2> QED
    BY <1>1, <2>1 DEF EvidenceInv, ProbeOK, Probed, EvidenceOfThisRun
<1>4. CASE /\ call.tool = "run_verification" /\ exit = 0 /\ Missing # {}
           /\ Conclude("error", "verification_incomplete", Changed)
  <2>1. pc' = "idle" /\ result'.status # "ok"
    BY <1>4 DEF Conclude
  <2> QED
    BY <1>1, <2>1 DEF EvidenceInv, ProbeOK, Probed, EvidenceOfThisRun
<1>5. CASE /\ ~(call.tool \in Commands /\ exit # 0)
           /\ ~(call.tool = "run_verification" /\ exit = 0 /\ Missing # {})
           /\ Conclude("ok", "", Changed)
  <2>1. pc' = "idle"
    BY <1>5 DEF Conclude
  <2>2. ASSUME escapes = 0, call.tool = "run_verification", before[TestPath] # InitialText[TestPath]
        PROVE  tested \/ call.selects
    <3>1. ProbeOK /\ pending = {TestPath}
      BY <1>1, <2>2 DEF EvidenceInv, ProbeOK, Probed, Commands
    <3>2. Missing = {}
      BY <1>5, <2>2 DEF Commands
    <3> QED
      BY <3>1, <3>2 DEF Missing, NewReport, ProbeOK
  <2> QED
    BY <1>1, <2>1, <2>2 DEF EvidenceInv, ProbeOK, Probed, EvidenceOfThisRun
<1> QED
  BY <1>2, <1>3, <1>4, <1>5 DEF Return

LEMMA InitEvidence == Init => EvidenceInv
BY DEF Init, EvidenceInv, ProbeOK, Probed, EvidenceOfThisRun, NoResult

LEMMA NextEvidence == AccountInv /\ EvidenceInv /\ [Next]_vars => EvidenceInv'
<1> SUFFICES ASSUME AccountInv, EvidenceInv, [Next]_vars PROVE EvidenceInv'
  OBVIOUS
<1> USE DEF command, bounds, document
<1>p. main \/ group => pc \in {"waiting", "killing"}
  BY DEF AccountInv, ProcessesOK
<1>d. escapes = 0 => daemon = "none"
  BY DEF AccountInv, ProcessesOK
<1>1. ASSUME NEW c \in Calls, NEW valid \in BOOLEAN, NEW fresh \in BOOLEAN,
             Request(c, valid, fresh)
      PROVE  EvidenceInv'
  BY <1>1, RequestEvidence
<1>2. CASE Approve
  BY <1>2, ApproveEvidence
<1>3. ASSUME NEW p \in Paths, Write(p) \/ Restore(p) \/ WriteFails(p) \/ RestoreFails(p)
      PROVE  EvidenceInv'
  <2>1. /\ pc \in {"writing", "restoring"}
        /\ UNCHANGED <<call, before, report, probe, pending, tested, escapes>>
        /\ pc' \in {"writing", "restoring", "returning", "failing", "stopped"}
    BY <1>3 DEF Write, Restore, WriteFails, RestoreFails
  <2> QED
    BY <2>1, InsideEvidence DEF EvidenceInv
<1>4. CASE PlanEdits \/ RaiseAgain
  <2>1. /\ pc \in {"planning", "restoring"}
        /\ UNCHANGED <<call, before, report, probe, pending, tested, escapes>>
        /\ pc' \in {"writing", "failing", "stopped"}
    BY <1>4 DEF PlanEdits, RaiseAgain
  <2> QED
    BY <2>1, InsideEvidence DEF Probed
<1>5. CASE Start
  <2>1. CASE probe' = report /\ pending' = Tests /\ pc' = "waiting"
    BY <1>5, <2>1 DEF Start, Tests, EvidenceInv, ProbeOK, Probed, EvidenceOfThisRun
  <2>2. CASE pc' = "failing" /\ UNCHANGED <<probe, pending>>
    BY <1>5, <2>2, InsideEvidence DEF Start, Probed
  <2> QED
    BY <1>5, <2>1, <2>2 DEF Start
<1>6. CASE Wait \/ Kill \/ Drain \/ Close \/ Interrupt
  <2>1. /\ pc' \in Probed \cup {"failing", "stopped"}
        /\ pc' \in Probed => pc \in Probed
        /\ pc # "idle"
        /\ UNCHANGED <<call, before, report, probe, pending, tested, escapes>>
    BY <1>6 DEF Wait, Kill, Drain, Close, Interrupt, AfterPipes, Probed
  <2> QED
    BY <2>1, InsideEvidence DEF Probed
<1>7. CASE Return
  BY <1>7, ReturnEvidence
<1>8. CASE Fail
  BY <1>8 DEF Fail, Conclude, EvidenceInv, ProbeOK, Probed, EvidenceOfThisRun
<1>9. ASSUME NEW p \in Paths, CommandWrites(p) \/ DaemonWrites(p) PROVE EvidenceInv'
  BY <1>9, <1>p, <1>d, ProcessEvidence DEF CommandWrites, DaemonWrites
<1>10. CASE CommandTests \/ CommandForks \/ DaemonTests \/ DaemonEnds
  BY <1>10, <1>p, <1>d, ProcessEvidence DEF CommandTests, CommandForks, DaemonTests, DaemonEnds
<1>11. ASSUME NEW status \in {0, 1}, CommandExits(status) PROVE EvidenceInv'
  BY <1>11, ProcessEvidence DEF CommandExits
<1>12. ASSUME NEW pipe \in {"holds", "detached"}, CommandEscapes(pipe) PROVE EvidenceInv'
  <2>1. escapes' # 0
    BY <1>12 DEF CommandEscapes, AccountInv, ProcessesOK
  <2> QED
    BY <1>12, <2>1, ProcessEvidence DEF CommandEscapes
<1>13. CASE UNCHANGED vars
  BY <1>13 DEF vars, EvidenceInv, ProbeOK, EvidenceOfThisRun
<1>14. CASE Ended
  BY <1>13, <1>14 DEF Ended
<1> QED
  BY <1>1, <1>2, <1>3, <1>4, <1>5, <1>6, <1>7, <1>8, <1>9, <1>10, <1>11, <1>12, <1>13, <1>14
     DEF Next, Runner

(* A verification that is accepted although a test had been changed before *)
(* it ran tests in this very call, or its argv names the changed test and  *)
(* its runner writes no reports (finish, with the report's signature and   *)
(* the pending tests taken before the command): after any number of calls, *)
(* faults and interrupts, as long as no process has escaped its command.   *)
THEOREM EvidenceIsOfThisRun == Spec => []EvidenceOfThisRun
<1>1. EvidenceInv => EvidenceOfThisRun
  BY DEF EvidenceInv
<1> QED
  BY <1>1, InitAccount, NextAccount, InitEvidence, NextEvidence, PTL DEF Spec

----------------------------------------------------------------------------
(* The text a plan writes.  An edit's span lies in the text, compatible    *)
(* spans lie apart, and replacing them from the last to the first gives    *)
(* what replacing all of them at once means: PatchedIsReplaced.            *)

(* An old text that is counted is found somewhere. *)
LEMMA CountedIsFound ==
    ASSUME NEW X, NEW text \in Seq(X), NEW old \in Seq(X), old # <<>>, Unique(text, old)
    PROVE  Places(text, old) # {}
<1> SUFFICES ASSUME Places(text, old) = {} PROVE FALSE
  OBVIOUS
<1> DEFINE n == Len(text)
           w == Len(old)
           D == 1 .. n + 1
           Scan(f) == [i \in D |->
                         IF i + w - 1 > n THEN 0
                         ELSE IF FoundAt(text, old, i) THEN 1 + f[i + w] ELSE f[i + 1]]
           found == CHOOSE f : f = Scan(f)
<1>1. n \in Nat /\ w \in Nat /\ w > 0
  OBVIOUS
<1>2. Count(text, old) = found[1]
  BY DEF Count
<1>3. \A i \in D : i + w - 1 <= n => ~FoundAt(text, old, i) /\ i + 1 \in D /\ i \in 1 .. n
  BY <1>1 DEF Places
<1> HIDE DEF n, w
<1>4. \E f : f = Scan(f)
  <2> DEFINE z == [i \in D |-> 0]
  <2>1. z = Scan(z)
    BY <1>1, <1>3
  <2> QED
    BY <2>1
<1>5. found = Scan(found)
  BY <1>4, Zenon
<1> HIDE DEF found
<1>6. \A i \in D : found[i] = IF i + w - 1 > n THEN 0
                               ELSE IF FoundAt(text, old, i) THEN 1 + found[i + w]
                               ELSE found[i + 1]
  <2> HIDE DEF D
  <2> QED
    BY <1>5, Zenon
<1>7. \A i \in D : found[i] = IF i + w - 1 > n THEN 0 ELSE found[i + 1]
  BY <1>1, <1>3, <1>6
<1> DEFINE S == {k \in 0 .. n : found[n + 1 - k] = 0}
<1>8. 0 \in S
  BY <1>1, <1>7
<1>9. \A k \in 1 .. n : k - 1 \in S => k \in S
  <2> TAKE k \in 1 .. n
  <2> HAVE k - 1 \in S
  <2>1. n + 1 - k \in D /\ n + 1 - (k - 1) = (n + 1 - k) + 1
    BY <1>1
  <2>2. found[(n + 1 - k) + 1] = 0
    BY <1>1, <2>1
  <2>3. found[n + 1 - k] = 0
    BY <1>7, <2>1, <2>2
  <2> QED
    BY <1>1, <2>3
<1>10. n \in S
  <2> HIDE DEF S
  <2>1. n \in 0 .. n
    BY <1>1
  <2> QED
    BY <1>1, <1>8, <1>9, <2>1, UpTo
<1>11. found[1] = 0
  BY <1>1, <1>10
<1> QED
  BY <1>2, <1>11 DEF Unique

(* A span lies within the text. *)
LEMMA SpanWithin ==
    ASSUME NEW X, NEW text \in Seq(X), NEW edit, edit.old \in Seq(X), edit.old # <<>>,
           Unique(text, edit.old)
    PROVE  LET s == Span(text, edit)
           IN  /\ s.first \in 1 .. Len(text) /\ s.next \in s.first + 1 .. Len(text) + 1
               /\ s.new = edit.new
<1> DEFINE P == Places(text, edit.old)
           first == CHOOSE i \in P : \A j \in P : i <= j
<1>1. P # {}
  BY CountedIsFound
<1>2. P \subseteq Nat
  BY DEF Places
<1>3. first \in P
  <2> HIDE DEF P
  <2>1. \E i \in P : \A j \in P : i <= j
    BY <1>1, <1>2, Least
  <2> QED
    BY <2>1
<1>4. Span(text, edit) = [first |-> first, next |-> first + Len(edit.old), new |-> edit.new]
  BY DEF Span
<1>5. Len(edit.old) \in Nat /\ Len(edit.old) > 0 /\ Len(text) \in Nat
  OBVIOUS
<1>6. first \in 1 .. Len(text) /\ first + Len(edit.old) - 1 <= Len(text)
  <2> HIDE DEF first
  <2> QED
    BY <1>3 DEF Places
<1> HIDE DEF first
<1> QED
  BY <1>4, <1>5, <1>6

(* Texts over X.  A name of its own keeps the provers from unfolding Seq. *)
Texts(X) == Seq(X)

(* Spans that lie within a text of length n and apart from each other.     *)
Fits(X, n, s) ==
    s.first \in 1 .. n /\ s.next \in s.first + 1 .. n + 1 /\ s.new \in Texts(X)

Apart(X, n, spans) ==
    /\ \A s \in spans : Fits(X, n, s)
    /\ \A s, t \in spans : s # t => s.next <= t.first \/ t.next <= s.first

LEMMA SpansApart ==
    ASSUME NEW X, NEW text \in Seq(X), NEW edits, Plannable(text, edits),
           \A i \in DOMAIN edits :
              edits[i].old \in Seq(X) /\ edits[i].old # <<>> /\ edits[i].new \in Seq(X)
    PROVE  Apart(X, Len(text), Spans(text, edits))
<1>1. \A i \in DOMAIN edits :
         LET s == Span(text, edits[i])
         IN  /\ s.first \in 1 .. Len(text) /\ s.next \in s.first + 1 .. Len(text) + 1
             /\ s.new \in Seq(X)
  BY SpanWithin DEF Plannable, Matching
<1>2. \A i, j \in DOMAIN edits : 
         LET s == Span(text, edits[i])
             t == Span(text, edits[j])
         IN  i # j => s.next <= t.first \/ t.next <= s.first
  BY <1>1 DEF Plannable, Compatible, Overlap
<1>3. \A s \in Spans(text, edits) : \E i \in DOMAIN edits : s = Span(text, edits[i])
  BY DEF Spans
<1> QED
  BY <1>1, <1>2, <1>3 DEF Apart, Fits, Texts

(* Where the text is still the original one when the positions from i on   *)
(* are done: before i, and to the end of the span that i is in.            *)
Inside(spans, i) == {s \in spans : s.first < i /\ i < s.next}

Edge(spans, i) ==
    IF Inside(spans, i) = {} THEN i - 1 ELSE (CHOOSE s \in Inside(spans, i) : TRUE).next - 1

LEMMA SpanAtPosition ==
    ASSUME NEW X, NEW text \in Seq(X), NEW spans, Apart(X, Len(text), spans),
           NEW i \in 1 .. Len(text)
    PROVE  \/ \E s \in spans :
                 /\ s.first = i /\ Edge(spans, i) = i - 1 /\ Edge(spans, i + 1) = s.next - 1
                 /\ \A t : SpliceAt(t, spans, i) = Splice(t, s)
                 /\ Piece(text, spans, i) = s.new
           \/ /\ Edge(spans, i) = Edge(spans, i + 1)
              /\ Edge(spans, i) \in 0 .. Len(text)
              /\ \A t : SpliceAt(t, spans, i) = t
              /\ Piece(text, spans, i) = <<>>
           \/ /\ Edge(spans, i) = i - 1 /\ Edge(spans, i + 1) = i
              /\ \A t : SpliceAt(t, spans, i) = t
              /\ Piece(text, spans, i) = <<text[i]>>
<1> DEFINE n == Len(text)
<1>1. n \in Nat /\ i \in 1 .. n
  OBVIOUS
<1>2. /\ \A s \in spans : s.first \in 1 .. n /\ s.next \in s.first + 1 .. n + 1
      /\ \A s, t \in spans : s # t => s.next <= t.first \/ t.next <= s.first
  BY DEF Apart, Fits
<1> HIDE DEF n
<1>3. ASSUME NEW j \in 1 .. n + 1, NEW s \in Inside(spans, j)
      PROVE  Edge(spans, j) = s.next - 1
  <2>1. \A t \in Inside(spans, j) : t = s
    BY <1>1, <1>2, <1>3 DEF Inside
  <2>2. (CHOOSE t \in Inside(spans, j) : TRUE) = s
    BY <2>1, <1>3
  <2> QED
    BY <1>3, <2>2 DEF Edge
<1>4. ASSUME NEW s \in spans, s.first < i + 1, i < s.next
      PROVE  Edge(spans, i + 1) = s.next - 1
  <2>1. CASE i + 1 < s.next
    BY <1>1, <1>3, <1>4, <2>1 DEF Inside
  <2>2. CASE i + 1 = s.next
    <3>1. Inside(spans, i + 1) = {}
      BY <1>1, <1>2, <1>4, <2>2 DEF Inside
    <3>2. Edge(spans, i + 1) = (i + 1) - 1
      BY <3>1 DEF Edge
    <3> QED
      BY <2>2, <3>2, <1>2, <1>1
  <2> QED
    BY <1>1, <1>2, <1>4, <2>1, <2>2
<1>5. CASE StartAt(spans, i) # {}
  <2>1. PICK s \in spans : s.first = i
    BY <1>5 DEF StartAt
  <2>2. \A t \in StartAt(spans, i) : t = s
    BY <1>1, <1>2, <2>1 DEF StartAt
  <2>3. (CHOOSE t \in StartAt(spans, i) : TRUE) = s
    BY <1>5, <2>2
  <2>4. Inside(spans, i) = {}
    BY <1>1, <1>2, <2>1 DEF Inside
  <2>5. Edge(spans, i) = i - 1
    BY <2>4 DEF Edge
  <2>6. Edge(spans, i + 1) = s.next - 1
    BY <1>1, <1>2, <1>4, <2>1
  <2>7. \A t : SpliceAt(t, spans, i) = Splice(t, s)
    BY <1>5, <2>3 DEF SpliceAt
  <2>8. Piece(text, spans, i) = s.new
    BY <1>5, <2>3 DEF Piece
  <2> QED
    BY <2>1, <2>5, <2>6, <2>7, <2>8
<1>6. CASE StartAt(spans, i) = {} /\ Inside(spans, i) # {}
  <2>1. PICK s \in spans : s.first < i /\ i < s.next
    BY <1>6 DEF Inside
  <2>2. Edge(spans, i) = s.next - 1
    BY <1>1, <1>3, <2>1 DEF Inside
  <2>3. Edge(spans, i + 1) = s.next - 1
    BY <1>1, <1>2, <1>4, <2>1
  <2>4. \A t : SpliceAt(t, spans, i) = t
    BY <1>6 DEF SpliceAt
  <2>5. Piece(text, spans, i) = <<>>
    BY <1>6, <2>1 DEF Piece
  <2>6. s.next - 1 \in 0 .. n
    BY <1>1, <1>2
  <2> QED
    BY <2>2, <2>3, <2>4, <2>5, <2>6 DEF n
<1>7. CASE StartAt(spans, i) = {} /\ Inside(spans, i) = {}
  <2>1. Edge(spans, i) = i - 1
    BY <1>7 DEF Edge
  <2>2. Inside(spans, i + 1) = {}
    BY <1>1, <1>2, <1>7 DEF Inside, StartAt
  <2>3. Edge(spans, i + 1) = i
    BY <1>1, <2>2 DEF Edge
  <2>4. \A t : SpliceAt(t, spans, i) = t
    BY <1>7 DEF SpliceAt
  <2>5. Piece(text, spans, i) = <<text[i]>>
    BY <1>7 DEF Piece, Inside
  <2> QED
    BY <2>1, <2>3, <2>4, <2>5
<1> QED
  BY <1>5, <1>6, <1>7

LEMMA Regrouped ==
    ASSUME NEW X, NEW a \in Texts(X), NEW b \in Texts(X), NEW c \in Texts(X)
    PROVE  (a \o b) \o c = a \o (b \o c)
BY DEF Texts

LEMMA Joined ==
    ASSUME NEW X, NEW a \in Texts(X), NEW b \in Texts(X)
    PROVE  /\ a \o b \in Texts(X) /\ Len(a \o b) = Len(a) + Len(b)
           /\ \A j \in 1 .. Len(a) : (a \o b)[j] = a[j]
           /\ \A j \in 1 .. Len(b) : (a \o b)[Len(a) + j] = b[j]
           /\ (a = <<>> => a \o b = b) /\ (b = <<>> => a \o b = a)
BY DEF Texts

(* A splice leaves what is before its span and what is behind it.          *)
Leaves(text, rest, s) ==
    Splice(SubSeq(text, 1, s.next - 1) \o rest, s)
        = SubSeq(text, 1, s.first - 1) \o (s.new \o rest)

LEMMA SpliceParts ==
    ASSUME NEW X, NEW text \in Texts(X), NEW rest \in Texts(X), NEW s, Fits(X, Len(text), s)
    PROVE  Leaves(text, rest, s)
<1> DEFINE i == s.first
           m == s.next
           q == SubSeq(text, 1, m - 1) \o rest
           front == SubSeq(text, 1, i - 1)
<1>1. Len(text) \in Nat /\ i \in 1 .. Len(text) /\ m \in i + 1 .. Len(text) + 1 /\ Len(rest) \in Nat
  BY DEF Texts, Fits
<1>2. /\ SubSeq(text, 1, m - 1) \in Texts(X) /\ Len(SubSeq(text, 1, m - 1)) = m - 1
      /\ \A j \in 1 .. m - 1 : SubSeq(text, 1, m - 1)[j] = text[j]
  BY <1>1 DEF Texts
<1>3. /\ q \in Texts(X) /\ Len(q) = m - 1 + Len(rest)
      /\ \A j \in 1 .. m - 1 : q[j] = text[j]
      /\ \A j \in 1 .. Len(rest) : q[m - 1 + j] = rest[j]
  <2> DEFINE head == SubSeq(text, 1, m - 1)
  <2>1. head \in Texts(X) /\ Len(head) = m - 1 /\ \A j \in 1 .. m - 1 : head[j] = text[j]
    BY <1>2
  <2> HIDE DEF head, m
  <2>2. /\ head \o rest \in Texts(X) /\ Len(head \o rest) = Len(head) + Len(rest)
        /\ \A j \in 1 .. Len(head) : (head \o rest)[j] = head[j]
        /\ \A j \in 1 .. Len(rest) : (head \o rest)[Len(head) + j] = rest[j]
    <3>1. head \in Texts(X)
      BY <2>1
    <3> QED
      BY <3>1, Joined
  <2> QED
    BY <2>1, <2>2 DEF head
<1>4. /\ front \in Texts(X) /\ Len(front) = i - 1
      /\ \A j \in 1 .. i - 1 : front[j] = text[j]
  BY <1>1 DEF Texts
<1> HIDE DEF q, i, m, front
<1>5. SubSeq(q, 1, i - 1) = front
  <2>1. /\ SubSeq(q, 1, i - 1) \in Texts(X) /\ Len(SubSeq(q, 1, i - 1)) = i - 1
        /\ \A j \in 1 .. i - 1 : SubSeq(q, 1, i - 1)[j] = q[j]
    BY <1>1, <1>3 DEF Texts
  <2> QED
    BY <1>1, <1>3, <1>4, <2>1 DEF Texts
<1>6. SubSeq(q, m, Len(q)) = rest
  <2>1. /\ SubSeq(q, m, Len(q)) \in Texts(X) /\ Len(SubSeq(q, m, Len(q))) = Len(rest)
        /\ \A j \in 1 .. Len(rest) : SubSeq(q, m, Len(q))[j] = q[m - 1 + j]
    BY <1>1, <1>3 DEF Texts
  <2> QED
    BY <1>1, <1>3, <2>1 DEF Texts
<1>7. Splice(q, s) = (front \o s.new) \o rest
  BY <1>5, <1>6 DEF Splice, i, m
<1>8. (front \o s.new) \o rest = front \o (s.new \o rest)
  <2> DEFINE new == s.new
  <2>1. front \in Texts(X) /\ new \in Texts(X)
    BY <1>4 DEF Fits
  <2> HIDE DEF new
  <2>2. (front \o new) \o rest = front \o (new \o rest)
    BY <2>1, Regrouped
  <2> QED
    BY <2>2 DEF new
<1> QED
  BY <1>7, <1>8 DEF q, front, i, m, Leaves

LEMMA KeepOne ==
    ASSUME NEW X, NEW text \in Texts(X), NEW rest \in Texts(X), NEW i \in 1 .. Len(text)
    PROVE  SubSeq(text, 1, i) \o rest = SubSeq(text, 1, i - 1) \o (<<text[i]>> \o rest)
<1> DEFINE front == SubSeq(text, 1, i - 1)
<1>1. /\ front \in Texts(X) /\ Len(front) = i - 1
      /\ \A j \in 1 .. i - 1 : front[j] = text[j]
  BY DEF Texts
<1>2. SubSeq(text, 1, i) = Append(front, text[i])
  BY <1>1 DEF Texts
<1>3. text[i] \in X
  BY DEF Texts
<1> HIDE DEF front
<1>4. Append(front, text[i]) = front \o <<text[i]>>
  BY <1>1, <1>3 DEF Texts
<1>5. (front \o <<text[i]>>) \o rest = front \o (<<text[i]>> \o rest)
  BY <1>1, <1>3 DEF Texts
<1> QED
  BY <1>2, <1>4, <1>5 DEF front

(* Spans that lie apart may be replaced one after the other, from the last *)
(* to the first: every splice finds its span where it was in the original. *)
LEMMA PatchedIsReplaced ==
    ASSUME NEW X, NEW text \in Texts(X), NEW edits, Apart(X, Len(text), Spans(text, edits))
    PROVE  Patched(text, edits) = Replaced(text, edits) /\ Patched(text, edits) \in Texts(X)
<1> DEFINE n == Len(text)
           spans == Spans(text, edits)
           Keep(f) == [k \in 0 .. n |->
                          IF k = 0 THEN <<>> ELSE Piece(text, spans, n - k + 1) \o f[k - 1]]
           Do(f) == [k \in 0 .. n |->
                        IF k = 0 THEN text ELSE SpliceAt(f[k - 1], spans, n - k + 1)]
           kept == CHOOSE f : f = Keep(f)
           done == CHOOSE f : f = Do(f)
           reached(k) == SubSeq(text, 1, Edge(spans, n - k + 1)) \o kept[k]
<1>0. Patched(text, edits) = done[n] /\ Replaced(text, edits) = kept[n]
  BY DEF Patched, Replaced
<1>1. n \in Nat /\ \A k \in 1 .. n : n - k + 1 \in 1 .. n /\ k - 1 \in 0 .. n /\ k \in 0 .. n
  BY DEF Texts
<1>2. Apart(X, n, spans)
  OBVIOUS
<1>3. \A i \in 1 .. n : Piece(text, spans, i) \in Texts(X)
  <2> TAKE i \in 1 .. n
  <2>1. text[i] \in X /\ \A s \in spans : s.new \in Texts(X)
    BY <1>2 DEF Apart, Fits, Texts
  <2>2. \/ \E s \in spans : Piece(text, spans, i) = s.new
        \/ Piece(text, spans, i) = <<>> \/ Piece(text, spans, i) = <<text[i]>>
    BY <1>2, SpanAtPosition DEF Texts
  <2>3. <<>> \in Texts(X) /\ <<text[i]>> \in Texts(X)
    BY <2>1 DEF Texts
  <2> QED
    BY <2>1, <2>2, <2>3, Zenon
<1> HIDE DEF n, spans
<1>4. \E f : f = Keep(f) /\ f \in [0 .. n -> Texts(X)]
  <2> DEFINE T == Texts(X)
             step == [k \in 1 .. n |-> [q \in T |-> Piece(text, spans, n - k + 1) \o q]]
             e == << >>
  <2>1. step \in [1 .. n -> [T -> T]]
    BY <1>1, <1>3, Joined
  <2>2. e \in T
    BY DEF Texts
  <2>3. \A k \in 1 .. n : \A q \in T : step[k][q] = Piece(text, spans, n - k + 1) \o q
    OBVIOUS
  <2> HIDE DEF step, T, e
  <2>4. PICK f : f \in Walks(n, T, e, step)
    <3>1. step \in Steps(n, T)
      BY <2>1 DEF Steps
    <3> QED
      BY <1>1, <2>2, <3>1, Walk
  <2>5. /\ f \in [0 .. n -> T] /\ f[0] = e
        /\ \A k \in 1 .. n : f[k] = step[k][f[k - 1]]
    BY <2>4 DEF Walks
  <2>6. \A k \in 1 .. n : f[k] = Piece(text, spans, n - k + 1) \o f[k - 1]
    BY <1>1, <2>3, <2>5
  <2>7. \A k \in 0 .. n : f[k] = IF k = 0 THEN <<>> ELSE Piece(text, spans, n - k + 1) \o f[k - 1]
    <3>1. \A k \in 0 .. n : k = 0 \/ (k \in 1 .. n /\ k # 0)
      BY <1>1
    <3>2. f[0] = <<>>
      BY <2>5, Zenon DEF e
    <3> QED
      BY <2>6, <3>1, <3>2, Zenon
  <2>8. f = [k \in 0 .. n |-> f[k]]
    BY <2>5
  <2>9. f = Keep(f)
    BY <2>7, <2>8
  <2> QED
    BY <2>5, <2>9 DEF T
<1>5. kept = Keep(kept)
  <2>1. \E f : f = Keep(f)
    BY <1>4, Zenon
  <2> QED
    BY <2>1, Zenon
<1> HIDE DEF kept
<1>6. kept[0] = <<>> /\ \A k \in 1 .. n : kept[k] = Piece(text, spans, n - k + 1) \o kept[k - 1]
  <2>1. \A k \in 0 .. n : kept[k] = IF k = 0 THEN <<>>
                                     ELSE Piece(text, spans, n - k + 1) \o kept[k - 1]
    BY <1>5, Zenon
  <2>2. 0 \in 0 .. n /\ \A k \in 1 .. n : k # 0 /\ k \in 0 .. n
    BY <1>1
  <2> QED
    BY <2>1, <2>2, Zenon
<1>7. \A k \in 0 .. n : kept[k] \in Texts(X)
  <2> DEFINE S == {k \in 0 .. n : kept[k] \in Texts(X)}
  <2>1. 0 \in S
    <3>1. 0 \in 0 .. n /\ <<>> \in Texts(X)
      BY <1>1 DEF Texts
    <3> QED
      BY <1>6, <3>1, Zenon
  <2>2. \A k \in 1 .. n : k - 1 \in S => k \in S
    <3> TAKE k \in 1 .. n
    <3> HAVE k - 1 \in S
    <3> DEFINE piece == Piece(text, spans, n - k + 1)
               rest == kept[k - 1]
    <3>1. rest \in Texts(X) /\ piece \in Texts(X)
      BY <1>1, <1>3
    <3>2. kept[k] = piece \o rest
      BY <1>6, Zenon
    <3> HIDE DEF piece, rest
    <3>3. piece \o rest \in Texts(X)
      BY <3>1, Joined
    <3> QED
      BY <1>1, <3>2, <3>3
  <2>3. \A k \in 0 .. n : k \in S
    <3> HIDE DEF S
    <3> QED
      BY <1>1, <2>1, <2>2, UpTo, Zenon
  <2> QED
    BY <2>3
<1>8. reached(0) = text
  <2>1. Inside(spans, n + 1) = {}
    BY <1>1, <1>2 DEF Inside, Apart, Fits
  <2>2. Edge(spans, n - 0 + 1) = n
    BY <1>1, <2>1 DEF Edge
  <2>3. kept[0] = <<>>
    BY <1>1, <1>6
  <2>4. SubSeq(text, 1, n) = text
    BY DEF n, Texts
  <2> QED
    BY <2>2, <2>3, <2>4
<1>9. reached(n) = kept[n]
  <2>1. Inside(spans, 1) = {}
    BY <1>1, <1>2 DEF Inside, Apart, Fits
  <2>2. Edge(spans, n - n + 1) = 0
    BY <1>1, <2>1 DEF Edge
  <2>3. SubSeq(text, 1, 0) = <<>>
    BY DEF Texts
  <2>4. kept[n] \in Texts(X)
    BY <1>1, <1>7
  <2>5. <<>> \in Texts(X) /\ <<>> \o kept[n] = kept[n]
    BY <2>4 DEF Texts
  <2> QED
    BY <2>2, <2>3, <2>5, Zenon
<1>10. ASSUME NEW k \in 1 .. n
       PROVE  reached(k) = SpliceAt(reached(k - 1), spans, n - k + 1)
  <2> DEFINE i == n - k + 1
             rest == kept[k - 1]
  <2>1. i \in 1 .. n /\ n - (k - 1) + 1 = i + 1 /\ rest \in Texts(X)
    BY <1>1, <1>7
  <2>2. kept[k] = Piece(text, spans, i) \o rest
    BY <1>1, <1>6
  <2>3. /\ reached(k) = SubSeq(text, 1, Edge(spans, i)) \o kept[k]
        /\ reached(k - 1) = SubSeq(text, 1, Edge(spans, i + 1)) \o rest
    BY <2>1
  <2> HIDE DEF reached, i, rest
  <2>4. ASSUME NEW s \in spans,
               s.first = i /\ Edge(spans, i) = i - 1 /\ Edge(spans, i + 1) = s.next - 1,
               \A t : SpliceAt(t, spans, i) = Splice(t, s),
               Piece(text, spans, i) = s.new
        PROVE  reached(k) = SpliceAt(reached(k - 1), spans, i)
    <3>1. Fits(X, Len(text), s)
      BY <1>2 DEF Apart, n
    <3>2. Leaves(text, rest, s)
      BY <2>1, <3>1, SpliceParts
    <3> QED
      BY <2>2, <2>3, <2>4, <3>2 DEF Leaves
  <2>5. ASSUME Edge(spans, i) = Edge(spans, i + 1), Edge(spans, i) \in 0 .. n,
               \A t : SpliceAt(t, spans, i) = t, Piece(text, spans, i) = <<>>
        PROVE  reached(k) = SpliceAt(reached(k - 1), spans, i)
    <3>1. kept[k] = rest
      BY <2>1, <2>2, <2>5
    <3> QED
      BY <2>3, <2>5, <3>1
  <2>6. ASSUME Edge(spans, i) = i - 1, Edge(spans, i + 1) = i,
               \A t : SpliceAt(t, spans, i) = t, Piece(text, spans, i) = <<text[i]>>
        PROVE  reached(k) = SpliceAt(reached(k - 1), spans, i)
    <3>1. SubSeq(text, 1, i) \o rest = SubSeq(text, 1, i - 1) \o (<<text[i]>> \o rest)
      BY <2>1, KeepOne DEF n
    <3> QED
      BY <2>2, <2>3, <2>6, <3>1
  <2> QED
    <3>1. i \in 1 .. Len(text) /\ Apart(X, Len(text), spans)
      BY <1>2, <2>1 DEF n
    <3>2. reached(k) = SpliceAt(reached(k - 1), spans, i)
      BY <2>4, <2>5, <2>6, <3>1, SpanAtPosition DEF n, Texts
    <3> QED
      BY <3>2 DEF i
<1>11. \E f : f = Do(f)
  <2> DEFINE w == [k \in 0 .. n |-> reached(k)]
  <2>1. \A k \in 0 .. n : w[k] = IF k = 0 THEN text ELSE SpliceAt(w[k - 1], spans, n - k + 1)
    <3> TAKE k \in 0 .. n
    <3>1. CASE k = 0
      BY <1>8, <3>1
    <3>2. CASE k # 0
      <4>1. k \in 1 .. n
        BY <1>1, <3>2
      <4>2. w[k - 1] = reached(k - 1) /\ w[k] = reached(k)
        BY <1>1, <4>1
      <4> HIDE DEF reached, w
      <4> QED
        BY <1>10, <3>2, <4>1, <4>2
    <3> QED
      BY <3>1, <3>2
  <2>2. w = [k \in 0 .. n |-> w[k]]
    OBVIOUS
  <2> HIDE DEF w
  <2>3. w = Do(w)
    BY <2>1, <2>2
  <2> QED
    BY <2>3
<1>12. done = Do(done)
  BY <1>11, Zenon
<1> HIDE DEF done
<1>13. \A k \in 0 .. n : done[k] = IF k = 0 THEN text ELSE SpliceAt(done[k - 1], spans, n - k + 1)
  BY <1>12, Zenon
<1>14. done[n] = reached(n)
  <2> DEFINE S == {k \in 0 .. n : done[k] = reached(k)}
  <2> HIDE DEF reached
  <2>1. 0 \in S
    BY <1>1, <1>8, <1>13
  <2>2. \A k \in 1 .. n : k - 1 \in S => k \in S
    <3> TAKE k \in 1 .. n
    <3> HAVE k - 1 \in S
    <3>1. done[k] = SpliceAt(done[k - 1], spans, n - k + 1)
      BY <1>1, <1>13
    <3> QED
      BY <1>1, <1>10, <3>1
  <2>3. \A k \in 0 .. n : k \in S
    <3> HIDE DEF S
    <3> QED
      BY <1>1, <2>1, <2>2, UpTo, Zenon
  <2> QED
    BY <1>1, <2>3
<1> HIDE DEF reached
<1>15. kept[n] \in Texts(X)
  BY <1>1, <1>7
<1> QED
  BY <1>0, <1>9, <1>14, <1>15 DEF n

----------------------------------------------------------------------------
(* Patch sets.  All texts are over some alphabet X.                        *)
TextsGiven(X) ==
    /\ InitialText \in [Paths -> Texts(X)] /\ CommandText \in Texts(X)
    /\ \A e \in Edits : e.old \in Texts(X) /\ e.new \in Texts(X)

(* The texts of files, plans and originals are texts. *)
TextsOK(X) ==
    /\ file \in [Paths -> Texts(X)] /\ call.edits \in Seq(Edits)
    /\ DOMAIN plan \subseteq Paths /\ DOMAIN original = DOMAIN plan
    /\ \A p \in DOMAIN plan : plan[p] \in Texts(X) /\ original[p] \in Texts(X)
    /\ attempted \subseteq DOMAIN plan

(* Patches are planned in this call, and no command runs meanwhile. *)
StageOK ==
    /\ pc \in {"asking", "planning"} => DOMAIN plan = {}
    /\ pc \in {"starting", "waiting", "killing", "draining", "closing"} => call.tool \in Commands

PlanOK ==
    call.tool = "apply_patch" =>
        \A p \in DOMAIN plan : plan[p] = Replaced(original[p], EditsOf(p))

Applied == \A p \in DOMAIN plan : file[p] = plan[p]
Undone == \A p \in DOMAIN plan : file[p] = original[p]

(* How far the patch set is written, or undone. *)
ProgressOK ==
    call.tool = "apply_patch" /\ escapes = 0 /\ ~unrestored =>
        /\ pc = "writing" =>
              \A p \in DOMAIN plan : file[p] = IF p \in attempted THEN plan[p] ELSE original[p]
        /\ pc = "restoring" => \A p \in DOMAIN plan \ attempted : file[p] = original[p]
        /\ pc \in {"returning", "failing", "stopped", "idle"} /\ attempted = {} => Applied \/ Undone

PatchInv(X) == ProcessesOK /\ TextsOK(X) /\ StageOK /\ PlanOK /\ ProgressOK

LEMMA CallsAreSequences == \A c \in Calls : c.edits \in Seq(Edits)
<1> SUFFICES ASSUME NEW c \in Calls PROVE c.edits \in Seq(Edits)
  OBVIOUS
<1>1. c.edits \in {<<>>} \cup {<<e>> : e \in Edits} \cup (Edits \X Edits)
  BY DEF Calls
<1>2. CASE c.edits \in Edits \X Edits
  <2>1. PICK a, b \in Edits : c.edits = <<a, b>>
    BY <1>2
  <2> QED
    BY <2>1
<1>3. CASE \E e \in Edits : c.edits = <<e>>
  <2>1. PICK e \in Edits : c.edits = <<e>>
    BY <1>3
  <2> QED
    BY <2>1
<1>4. CASE c.edits = <<>>
  BY <1>4
<1> QED
  BY <1>1, <1>2, <1>3, <1>4

(* What a plan writes into a file is what its edits mean. *)
LEMMA PlannedText ==
    ASSUME NEW X, TextsGiven(X), TextsOK(X), NEW p \in Paths, Plannable(file[p], EditsOf(p))
    PROVE  /\ Patched(file[p], EditsOf(p)) = Replaced(file[p], EditsOf(p))
           /\ Patched(file[p], EditsOf(p)) \in Texts(X)
<1> DEFINE edits == EditsOf(p)
<1>1. edits \in Seq(Edits)
  BY PickedFrom DEF EditsOf, TextsOK
<1>2. \A i \in DOMAIN edits : edits[i] \in Edits
  BY <1>1
<1>3. \A i \in DOMAIN edits :
         edits[i].old \in Seq(X) /\ edits[i].old # <<>> /\ edits[i].new \in Seq(X)
  BY <1>2, EditsAssumption DEF TextsGiven, Texts
<1> HIDE DEF edits
<1>4. file[p] \in Seq(X) /\ file[p] \in Texts(X)
  BY DEF TextsOK, Texts
<1>5. Plannable(file[p], edits)
  BY DEF edits
<1>6. Apart(X, Len(file[p]), Spans(file[p], edits))
  BY <1>3, <1>4, <1>5, SpansApart
<1>7. /\ Patched(file[p], edits) = Replaced(file[p], edits)
      /\ Patched(file[p], edits) \in Texts(X)
  BY <1>4, <1>6, PatchedIsReplaced
<1> QED
  BY <1>7 DEF edits

----------------------------------------------------------------------------
LEMMA InitPatch ==
    ASSUME NEW X, TextsGiven(X), Init PROVE PatchInv(X)
<1>1. ProcessesOK
  BY InitAccount DEF AccountInv
<1>2. TextsOK(X)
  BY DEF Init, TextsOK, TextsGiven, NoCall
<1>3. StageOK /\ PlanOK /\ ProgressOK
  BY DEF Init, StageOK, PlanOK, ProgressOK, NoCall
<1> QED
  BY <1>1, <1>2, <1>3 DEF PatchInv

LEMMA TornText ==
    ASSUME NEW X, TextsOK(X), NEW p \in Paths, NEW text \in {file[p], Torn}
    PROVE  text \in Texts(X)
<1>1. file[p] \in Texts(X)
  BY DEF TextsOK
<1>2. Torn \in Texts(X)
  BY DEF Torn, Texts
<1> QED
  BY <1>1, <1>2

(* Steps that leave files and plan alone.  *)
LEMMA QuietPatch ==
    ASSUME NEW X, PatchInv(X), ProcessesOK',
           UNCHANGED <<file, call, plan, original, attempted, unrestored>>,
           escapes' = 0 => escapes = 0,
           \/ pc' = pc
           \/ pc = "asking" /\ pc' = "planning"
           \/ /\ pc' \in {"starting", "waiting", "killing", "draining", "closing"}
              /\ call.tool \in Commands
           \/ /\ pc' \in {"returning", "failing", "stopped", "idle"}
              /\ \/ pc \in {"returning", "failing", "asking", "planning", "restoring"}
                 \/ call.tool \in Commands
    PROVE  PatchInv(X)'
<1>1. TextsOK(X)'
  BY DEF PatchInv, TextsOK
<1>2. StageOK'
  BY DEF PatchInv, StageOK
<1>3. PlanOK'
  BY DEF PatchInv, PlanOK, EditsOf
<1>4. ProgressOK'
  BY DEF PatchInv, ProgressOK, StageOK, Applied, Undone, Commands
<1> QED
  BY <1>1, <1>2, <1>3, <1>4 DEF PatchInv

(* Steps that write a file while no patch set is being applied or undone.  *)
LEMMA OtherWrite ==
    ASSUME NEW X, PatchInv(X), ProcessesOK', NEW p \in Paths, NEW text \in Texts(X),
           file' = [file EXCEPT ![p] = text],
           UNCHANGED <<call, plan, original>>,
           attempted' \subseteq DOMAIN plan,
           pc' \in {"asking", "planning"} => pc' = pc,
           pc' \in {"starting", "waiting", "killing", "draining", "closing"} => pc' = pc,
           call.tool # "apply_patch" \/ escapes' # 0 \/ unrestored'
    PROVE  PatchInv(X)'
<1>1. TextsOK(X)'
  BY DEF PatchInv, TextsOK
<1>2. StageOK'
  BY DEF PatchInv, StageOK
<1>3. PlanOK'
  BY DEF PatchInv, PlanOK, EditsOf
<1>4. ProgressOK'
  BY DEF ProgressOK
<1> QED
  BY <1>1, <1>2, <1>3, <1>4 DEF PatchInv

LEMMA RequestPatch ==
    ASSUME NEW X, PatchInv(X), ProcessesOK', NEW c \in Calls, NEW valid, NEW fresh,
           Request(c, valid, fresh)
    PROVE  PatchInv(X)'
<1>1. /\ call' = c /\ plan' = <<>> /\ original' = <<>> /\ attempted' = {} /\ file' = file
      /\ pc' \in {"idle", "asking"}
  BY DEF Request, Conclude
<1>2. c.edits \in Seq(Edits)
  BY CallsAreSequences
<1>3. DOMAIN plan' = {} /\ DOMAIN original' = {}
  BY <1>1
<1>4. TextsOK(X)'
  BY <1>1, <1>2, <1>3 DEF PatchInv, TextsOK
<1>5. StageOK' /\ PlanOK'
  BY <1>1, <1>3 DEF StageOK, PlanOK
<1>6. ProgressOK'
  BY <1>1, <1>3 DEF ProgressOK, Applied
<1> QED
  BY <1>4, <1>5, <1>6 DEF PatchInv

LEMMA PlanPatch ==
    ASSUME NEW X, TextsGiven(X), PatchInv(X), ProcessesOK', PlanEdits
    PROVE  PatchInv(X)'
<1>1. pc = "planning" /\ UNCHANGED <<file, call, attempted, unrestored, escapes>>
  BY DEF PlanEdits, bounds
<1>2. CASE ~Admissible
  <2>1. pc' = "failing" /\ UNCHANGED <<plan, original>>
    BY <1>2 DEF PlanEdits
  <2> QED
    BY <1>1, <2>1, QuietPatch
<1>3. CASE Admissible
  <2> DEFINE text(p) == IF call.tool = "write_file" THEN call.edits[1].new
                        ELSE Patched(file[p], EditsOf(p))
             paths == MutationPaths(call)
  <2>1. /\ plan' = [p \in paths |-> text(p)]
        /\ original' = [p \in paths |-> file[p]]
        /\ pc' = "writing"
    BY <1>3 DEF PlanEdits
  <2>2. paths \subseteq Paths
    BY EditsAssumption DEF PatchInv, TextsOK, MutationPaths
  <2>3. attempted = {} /\ TextsOK(X)
    BY <1>1 DEF PatchInv, TextsOK, StageOK
  <2>4. ASSUME NEW p \in paths PROVE text(p) \in Texts(X)
    <3>1. CASE call.tool = "write_file"
      <4>1. call.edits \in Seq(Edits) /\ DOMAIN call.edits # {}
        BY <2>3, <2>4 DEF TextsOK, MutationPaths
      <4>2. call.edits[1] \in Edits
        BY <4>1
      <4> QED
        BY <3>1, <4>2 DEF TextsGiven
    <3>2. CASE call.tool # "write_file"
      BY <1>3, <2>2, <2>3, <2>4, <3>2, PlannedText DEF Admissible
    <3> QED
      BY <3>1, <3>2
  <2>5. ASSUME call.tool = "apply_patch", NEW p \in paths
        PROVE  text(p) = Replaced(file[p], EditsOf(p))
    BY <1>3, <2>2, <2>3, <2>5, PlannedText DEF Admissible
  <2> HIDE DEF text, paths
  <2>6. DOMAIN plan' = paths /\ DOMAIN original' = paths
    BY <2>1
  <2>7. \A p \in paths : plan'[p] = text(p) /\ original'[p] = file[p]
    BY <2>1
  <2>8. TextsOK(X)'
    BY <1>1, <2>2, <2>3, <2>4, <2>6, <2>7 DEF TextsOK
  <2>9. StageOK'
    BY <2>1 DEF StageOK
  <2>10. PlanOK'
    BY <1>1, <2>5, <2>6, <2>7 DEF PlanOK, EditsOf
  <2>11. ProgressOK'
    BY <1>1, <2>1, <2>3, <2>6, <2>7 DEF ProgressOK
  <2> QED
    BY <2>8, <2>9, <2>10, <2>11 DEF PatchInv
<1> QED
  BY <1>2, <1>3

(* A step of a patch set that writes one of its files. *)
LEMMA PatchWrite ==
    ASSUME NEW X, PatchInv(X), ProcessesOK', NEW p \in DOMAIN plan, NEW text \in Texts(X),
           file' = [file EXCEPT ![p] = text],
           UNCHANGED <<call, plan, original>>,
           attempted' \subseteq DOMAIN plan,
           pc' \in {"writing", "restoring", "returning", "failing", "stopped"},
           ProgressOK'
    PROVE  PatchInv(X)'
<1>1. TextsOK(X)'
  BY DEF PatchInv, TextsOK
<1>2. StageOK'
  BY DEF StageOK
<1>3. PlanOK'
  BY DEF PatchInv, PlanOK, EditsOf
<1> QED
  BY <1>1, <1>2, <1>3 DEF PatchInv

LEMMA WritePatch ==
    ASSUME NEW X, PatchInv(X), ProcessesOK', NEW p \in Paths, Write(p)
    PROVE  PatchInv(X)'
<1>1. /\ pc = "writing" /\ p \in DOMAIN plan /\ p \notin attempted
      /\ file' = [file EXCEPT ![p] = plan[p]]
      /\ UNCHANGED <<call, plan, original, unrestored, escapes>>
  BY DEF Write, Pending, bounds
<1>2. /\ TextsOK(X) /\ plan[p] \in Texts(X) /\ file'[p] = plan[p]
      /\ \A q \in Paths : q # p => file'[q] = file[q]
  BY <1>1 DEF PatchInv, TextsOK
<1>3. CASE Pending = {p}
  <2>1. pc' = "returning" /\ attempted' = {}
    BY <1>3 DEF Write
  <2>2. \A q \in DOMAIN plan : q = p \/ q \in attempted
    BY <1>3 DEF Pending
  <2>3. ProgressOK'
    BY <1>1, <1>2, <2>1, <2>2 DEF PatchInv, ProgressOK, Applied, TextsOK
  <2> QED
    BY <1>1, <1>2, <2>1, <2>3, PatchWrite
<1>4. CASE Pending # {p}
  <2>1. pc' = pc /\ attempted' = attempted \cup {p}
    BY <1>4 DEF Write
  <2>2. ProgressOK'
    BY <1>1, <1>2, <2>1 DEF PatchInv, ProgressOK, TextsOK
  <2>3. attempted' \subseteq DOMAIN plan
    BY <1>1, <1>2, <2>1 DEF TextsOK
  <2> QED
    BY <1>1, <1>2, <2>1, <2>2, <2>3, PatchWrite
<1> QED
  BY <1>3, <1>4

LEMMA WriteFailsPatch ==
    ASSUME NEW X, PatchInv(X), ProcessesOK', NEW p \in Paths, WriteFails(p)
    PROVE  PatchInv(X)'
<1>1. /\ pc = "writing" /\ p \in DOMAIN plan /\ p \notin attempted
      /\ UNCHANGED <<call, plan, original, unrestored, escapes>>
  BY DEF WriteFails, Pending
<1>2. PICK text \in {file[p], Torn} : file' = [file EXCEPT ![p] = text]
  BY DEF WriteFails
<1>3. /\ TextsOK(X) /\ text \in Texts(X)
      /\ \A q \in Paths : q # p => file'[q] = file[q]
  <2>1. TextsOK(X)
    BY DEF PatchInv
  <2>2. \A q \in Paths : q # p => file'[q] = file[q]
    BY <1>2, <2>1 DEF TextsOK
  <2> QED
    BY <1>2, <2>1, <2>2, TornText
<1>4. CASE RollsBack
  <2>1. pc' = "restoring" /\ attempted' = attempted \cup {p}
    BY <1>4 DEF WriteFails, AttemptedWith
  <2>2. ProgressOK'
    BY <1>1, <1>3, <2>1 DEF PatchInv, ProgressOK, TextsOK
  <2>3. attempted' \subseteq DOMAIN plan
    BY <1>1, <1>3, <2>1 DEF TextsOK
  <2> QED
    BY <1>1, <1>2, <1>3, <2>1, <2>2, <2>3, PatchWrite
<1>5. CASE ~RollsBack
  <2>1. pc' \in {"failing", "stopped"} /\ attempted' = attempted /\ call.tool # "apply_patch"
    BY <1>5 DEF WriteFails, RollsBack
  <2>2. attempted' \subseteq DOMAIN plan
    BY <1>3, <2>1 DEF TextsOK
  <2> QED
    BY <1>1, <1>2, <1>3, <2>1, <2>2, OtherWrite
<1> QED
  BY <1>4, <1>5

LEMMA RestorePatch ==
    ASSUME NEW X, PatchInv(X), ProcessesOK', NEW p \in Paths, Restore(p)
    PROVE  PatchInv(X)'
<1>1. /\ pc = "restoring" /\ pc' = pc /\ p \in attempted /\ attempted' = attempted \ {p}
      /\ file' = [file EXCEPT ![p] = original[p]]
      /\ UNCHANGED <<call, plan, original, unrestored, escapes>>
  BY DEF Restore, bounds
<1>2. /\ TextsOK(X) /\ p \in DOMAIN plan /\ original[p] \in Texts(X) /\ file'[p] = original[p]
      /\ \A q \in Paths : q # p => file'[q] = file[q]
      /\ attempted' \subseteq DOMAIN plan
  BY <1>1 DEF PatchInv, TextsOK
<1>3. ProgressOK'
  BY <1>1, <1>2 DEF PatchInv, ProgressOK, TextsOK
<1> QED
  BY <1>1, <1>2, <1>3, PatchWrite

LEMMA RestoreFailsPatch ==
    ASSUME NEW X, PatchInv(X), ProcessesOK', NEW p \in Paths, RestoreFails(p)
    PROVE  PatchInv(X)'
<1>1. /\ pc = "restoring" /\ pc' = pc /\ p \in attempted /\ attempted' = attempted \ {p}
      /\ unrestored' /\ UNCHANGED <<call, plan, original>>
  BY DEF RestoreFails
<1>2. PICK text \in {file[p], Torn} : file' = [file EXCEPT ![p] = text]
  BY DEF RestoreFails
<1>3. text \in Texts(X) /\ attempted' \subseteq DOMAIN plan
  BY <1>1, <1>2, TornText DEF PatchInv, TextsOK
<1> QED
  BY <1>1, <1>2, <1>3, OtherWrite

(* A process that writes belongs to a command, or has escaped one. *)
LEMMA ProcessPatch ==
    ASSUME NEW X, TextsGiven(X), PatchInv(X), ProcessesOK', NEW p \in Paths,
           CommandWrites(p) \/ DaemonWrites(p)
    PROVE  PatchInv(X)'
<1>1. /\ UNCHANGED <<pc, call, plan, original, attempted>> /\ escapes' = escapes
      /\ file' = [file EXCEPT ![p] = CommandText] /\ CommandText \in Texts(X)
  BY DEF CommandWrites, DaemonWrites, Still, document, TextsGiven
<1>2. attempted' \subseteq DOMAIN plan
  BY <1>1 DEF PatchInv, TextsOK
<1>3. call.tool # "apply_patch" \/ escapes' # 0
  BY <1>1 DEF CommandWrites, DaemonWrites, PatchInv, ProcessesOK, StageOK, Commands
<1> QED
  BY <1>1, <1>2, <1>3, OtherWrite

LEMMA NextPatch ==
    ASSUME NEW X, TextsGiven(X), PatchInv(X), ProcessesOK', [Next]_vars
    PROVE  PatchInv(X)'
<1> USE DEF command, bounds, document
<1>0. pc \in {"starting", "waiting", "killing", "draining", "closing"} => call.tool \in Commands
  BY DEF PatchInv, StageOK
<1>1. ASSUME NEW c \in Calls, NEW valid \in BOOLEAN, NEW fresh \in BOOLEAN,
             Request(c, valid, fresh)
      PROVE  PatchInv(X)'
  BY <1>1, RequestPatch
<1>2. CASE Approve
  BY <1>2, QuietPatch DEF Approve, Conclude
<1>3. CASE PlanEdits
  BY <1>3, PlanPatch
<1>4. ASSUME NEW p \in Paths, Write(p) PROVE PatchInv(X)'
  BY <1>4, WritePatch
<1>5. ASSUME NEW p \in Paths, WriteFails(p) PROVE PatchInv(X)'
  BY <1>5, WriteFailsPatch
<1>6. ASSUME NEW p \in Paths, Restore(p) PROVE PatchInv(X)'
  BY <1>6, RestorePatch
<1>7. ASSUME NEW p \in Paths, RestoreFails(p) PROVE PatchInv(X)'
  BY <1>7, RestoreFailsPatch
<1>8. CASE RaiseAgain
  BY <1>8, QuietPatch DEF RaiseAgain
<1>9. CASE Start
  BY <1>0, <1>9, QuietPatch DEF Start
<1>10. CASE Wait \/ Kill
  BY <1>0, <1>10, QuietPatch DEF Wait, Kill
<1>11. CASE Drain \/ Close
  BY <1>0, <1>11, QuietPatch DEF Drain, Close, AfterPipes
<1>12. CASE Interrupt
  BY <1>0, <1>12, QuietPatch DEF Interrupt
<1>13. CASE Return
  BY <1>13, QuietPatch DEF Return, Conclude
<1>14. CASE Fail
  BY <1>14, QuietPatch DEF Fail, Conclude
<1>15. ASSUME NEW p \in Paths, CommandWrites(p) \/ DaemonWrites(p) PROVE PatchInv(X)'
  BY <1>15, ProcessPatch
<1>16. CASE \/ CommandTests \/ CommandForks \/ DaemonTests \/ DaemonEnds
            \/ \E status \in {0, 1} : CommandExits(status)
  BY <1>16, QuietPatch DEF CommandTests, CommandForks, DaemonTests, DaemonEnds, CommandExits, Still
<1>17. ASSUME NEW pipe \in {"holds", "detached"}, CommandEscapes(pipe) PROVE PatchInv(X)'
  BY <1>17, QuietPatch DEF CommandEscapes, Still, PatchInv, ProcessesOK
<1>18. CASE UNCHANGED vars
  BY <1>18, QuietPatch DEF vars
<1>19. CASE Ended
  BY <1>18, <1>19 DEF Ended
<1> QED
  BY <1>1, <1>2, <1>3, <1>4, <1>5, <1>6, <1>7, <1>8, <1>9, <1>10, <1>11, <1>12, <1>13, <1>14,
     <1>15, <1>16, <1>17, <1>18, <1>19 DEF Next, Runner

(* A patch set is applied as a whole or not at all (commit_patch_set), and *)
(* what it applies is every edit on the text it was matched on, although   *)
(* each splice moves what is behind it (plan_patch_set): for any files,    *)
(* texts and edits, any failing write and any interrupt.                   *)
THEOREM PatchesAreAtomic ==
    ASSUME NEW Symbols,
           InitialText \in [Paths -> Seq(Symbols)], CommandText \in Seq(Symbols),
           \A e \in Edits : e.old \in Seq(Symbols) /\ e.new \in Seq(Symbols)
    PROVE  Spec => []PatchAtomic
<1> DEFINE Inv == AccountInv /\ PatchInv(Symbols)
<1>1. TextsGiven(Symbols)
  BY DEF TextsGiven, Texts
<1>2. Init => Inv
  BY <1>1, InitAccount, InitPatch
<1>3. Inv /\ [Next]_vars => Inv'
  BY <1>1, NextAccount, NextPatch DEF AccountInv
<1>4. Inv => PatchAtomic
  BY DEF PatchInv, PlanOK, ProgressOK, Applied, Undone, PatchAtomic
<1> HIDE DEF Inv
<1> QED
  BY <1>2, <1>3, <1>4, PTL DEF Spec
=============================================================================
