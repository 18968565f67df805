--------------------------- MODULE SessionMemory ---------------------------
(***************************************************************************)
(* What outlives a prompt: the session file, the working memory inside it, *)
(* and the durable facts of the workspace.  Several processes may have the *)
(* same session open; each keeps a copy of it and saves the whole copy.    *)
(* The file is protected by a lock and a revision; the facts by neither.   *)
(* A file's text is its version number.  A summary is the version it was   *)
(* read from, which is also its freshness: reading a file and hashing it   *)
(* are one step here.  History, notes and checkpoints are clipped by the   *)
(* code at sizes these instances do not reach.                             *)
(***************************************************************************)
EXTENDS Integers, SequencesExt, Selection

CONSTANTS Procs, Nobody, Paths, Marks, Facts, SubjectOf, Legacy,
          MaxVersion, MaxCrashes, MaxRevision,
          SummaryLimit,   \* FILE_SUMMARY_LIMIT
          WorkingLimit,   \* WORKING_FILE_LIMIT
          Masks,          \* a file may change and be read again with no prompt between
          Overlap,        \* two processes may promote facts at the same time
          Tears           \* a crash may stop a plain write_text halfway

ASSUME NobodyAssumption == Nobody \notin Procs
ASSUME LegacyAssumption ==
    Legacy \subseteq Facts /\ \A x, y \in Legacy : SubjectOf[x] = SubjectOf[y] => x = y
ASSUME LimitsAssumption ==
    SummaryLimit \in Nat \ {0} /\ WorkingLimit \in Nat /\ WorkingLimit >= SummaryLimit

VARIABLES text,     \* the version of each file in the root the tools see
          disk,     \* the session file; revision 0 while there is none
          backup,   \* its .bak copy
          lock,     \* the owner of the session's lock file
          pc, live, \* per process: where it is, and the session it holds
          shown,    \* per process: the source its last prompt showed
          resume,   \* per process: the resume status of that prompt
          index, records, topic,  \* MEMORY.md, records.json, topics/*.md
          work,     \* per process: the records it is about to write
          saved, stated, latest, crashes

vars == <<text, disk, backup, lock, pc, live, shown, resume, index, records,
          topic, work, saved, stated, latest, crashes>>
factVars == <<index, records, topic, work, stated, latest>>
fileVars == <<disk, backup, lock, saved>>

None == -1

Unread == [f \in Paths |-> None]
NewSession == [marks |-> {}, summary |-> Unread, notes |-> {}, recent |-> <<>>,
               checkpoint |-> Unread, taken |-> FALSE]
Absent == [rev |-> 0, body |-> NewSession]
Torn == [rev |-> None, body |-> NewSession]

Subjects == {SubjectOf[x] : x \in Facts}
NoFacts == [x \in Facts |-> "absent"]
Unwritten == [file |-> "missing", of |-> NoFacts]
(* A legacy workspace has topic files and no records.json.                 *)
Init ==
    /\ text = [f \in Paths |-> 0]
    /\ disk = Absent /\ backup = Absent /\ lock = Nobody
    /\ pc = [p \in Procs |-> "down"] /\ live = [p \in Procs |-> Absent]
    /\ shown = [p \in Procs |-> {}] /\ resume = [p \in Procs |-> "no-checkpoint"]
    /\ topic \in {{}, Legacy}
    /\ index = (topic # {}) /\ records = Unwritten
    /\ work = [p \in Procs |-> NoFacts]
    /\ saved = {} /\ stated = topic /\ crashes = 0
    /\ latest = [s \in Subjects |->
                    IF \E x \in topic : SubjectOf[x] = s
                    THEN CHOOSE x \in topic : SubjectOf[x] = s ELSE None]

----------------------------------------------------------------------------
(* Working memory: recent files, their summaries, and notes about them.    *)
Remember(b, f) ==
    LET others == {i \in DOMAIN b.recent : b.recent[i] # f}
        all == Append(Picked(b.recent, others), f)
    IN  [b EXCEPT !.recent = SubSeq(all, Max({1, Len(all) - WorkingLimit + 1}), Len(all))]

(* Summaries beyond the limit go, those of files no longer recent first.   *)
Retained(b) ==
    LET have == {f \in Paths : b.summary[f] # None}
        recent == Picked(b.recent, {i \in DOMAIN b.recent : b.recent[i] \in have})
        order == SetToSeq(have \ ToSet(recent)) \o recent
        kept == {order[i] : i \in {j \in DOMAIN order : j > Len(order) - SummaryLimit}}
    IN  [b EXCEPT !.summary = [f \in Paths |-> IF f \in kept THEN @[f] ELSE None]]

Summarised(b, f) ==
    LET c == Remember(b, f)
    IN  [Retained([c EXCEPT !.summary[f] = text[f]])
            EXCEPT !.notes = @ \cup {<<f, text[f]>>}]

(* The summary goes and the note it came with stays.                       *)
ForgottenSummary(b, gone) ==
    [b EXCEPT !.summary = [f \in Paths |-> IF f \in gone THEN None ELSE @[f]]]

(* The summary goes with every note about its file.                        *)
Forgotten(b, gone) ==
    [b EXCEPT !.summary = [f \in Paths |-> IF f \in gone THEN None ELSE @[f]],
              !.notes = {n \in @ : n[1] \notin gone}]

StaleSummaries(b) == {f \in Paths : b.summary[f] \notin {None, text[f]}}
Invalidated(b) == Forgotten(b, StaleSummaries(b))

ResumeStatus(b, invalidated) ==
    CASE ~b.taken -> "no-checkpoint"
      [] b.taken /\ (invalidated # {} \/ \E f \in Paths : b.checkpoint[f] \notin {None, text[f]})
             -> "partial-stale"
      [] OTHER -> "full-valid"

ShownBy(b) ==
    {<<f, b.summary[f]>> : f \in {g \in ToSet(b.recent) : b.summary[g] = text[g]}} \cup b.notes

----------------------------------------------------------------------------
Idle(p) == pc[p] = "idle"
Keep(p, b) == live' = [live EXCEPT ![p].body = b]
Goto(p, l) == pc' = [pc EXCEPT ![p] = l]
(* MaxRevision bounds the saves.                                           *)
Saves(p, b) == disk.rev < MaxRevision /\ Keep(p, b) /\ Goto(p, "save")

(* A process opens the session, drops what changed meanwhile and saves.    *)
Open(p) ==
    /\ pc[p] = "down" /\ lock = Nobody
    /\ live' = [live EXCEPT ![p] = [disk EXCEPT !.body = Invalidated(@)]]
    /\ resume' = [resume EXCEPT ![p] =
                    ResumeStatus(disk.body, StaleSummaries(disk.body))]
    /\ Goto(p, "save")
    /\ UNCHANGED <<text, shown, crashes, fileVars, factVars>>

(* record(): one more thing the session must not lose.                     *)
Record(p, m) ==
    /\ Idle(p) /\ m \notin UNION {live[q].body.marks : q \in Procs} \cup saved
    /\ Saves(p, [live[p].body EXCEPT !.marks = @ \cup {m}])
    /\ UNCHANGED <<text, shown, resume, crashes, fileVars, factVars>>

ReadFile(p, f) ==
    /\ Idle(p)
    /\ Masks \/ live[p].body.summary[f] \in {None, text[f]}
    /\ Saves(p, Summarised(live[p].body, f))
    /\ UNCHANGED <<text, shown, resume, crashes, fileVars, factVars>>

WriteFile(p, f) ==
    /\ Idle(p) /\ text[f] < MaxVersion
    /\ text' = [text EXCEPT ![f] = @ + 1]
    /\ Saves(p, Forgotten(Remember(live[p].body, f), {f}))
    /\ shown' = [q \in Procs |-> {}] /\ resume' = [q \in Procs |-> "no-checkpoint"]
    /\ UNCHANGED <<crashes, fileVars, factVars>>

(* A user, a command, or the switch between source and shadow.             *)
Edit(f) ==
    /\ text[f] < MaxVersion
    /\ text' = [text EXCEPT ![f] = @ + 1]
    /\ shown' = [q \in Procs |-> {}] /\ resume' = [q \in Procs |-> "no-checkpoint"]
    /\ UNCHANGED <<pc, live, crashes, fileVars, factVars>>

Checkpoint(p) ==
    /\ Idle(p)
    /\ LET b == live[p].body IN
       Saves(p, [b EXCEPT !.taken = TRUE,
                   !.checkpoint = [f \in Paths |->
                       IF f \in ToSet(b.recent) THEN text[f] ELSE None]])
    /\ UNCHANGED <<text, shown, resume, crashes, fileVars, factVars>>

BuildPrompt(p) ==
    /\ Idle(p)
    /\ LET b == Invalidated(live[p].body) IN
       /\ Keep(p, b)
       /\ shown' = [shown EXCEPT ![p] = ShownBy(b)]
       /\ resume' = [resume EXCEPT ![p] = ResumeStatus(b, StaleSummaries(live[p].body))]
    /\ UNCHANGED <<text, pc, crashes, fileVars, factVars>>

----------------------------------------------------------------------------
(* SessionStore.save().                                                    *)
(* Only a file older than the copy is refused.                             *)
ConflictsWithOlder(p) == disk.rev < live[p].rev

(* The file is not at the revision this copy was taken from.               *)
Conflicts(p) == disk.rev # live[p].rev
Refuse(p) ==
    /\ pc[p] = "save" /\ lock = Nobody /\ Conflicts(p)
    /\ Goto(p, "idle")
    /\ UNCHANGED <<text, live, shown, resume, crashes, fileVars, factVars>>

Lock(p) ==
    /\ pc[p] = "save" /\ lock = Nobody /\ ~Conflicts(p)
    /\ lock' = p /\ Goto(p, "backup")
    /\ UNCHANGED <<text, disk, backup, live, shown, resume, saved, crashes, factVars>>

Backup(p) ==
    /\ pc[p] = "backup"
    /\ backup' = disk /\ Goto(p, "replace")
    /\ UNCHANGED <<text, disk, lock, live, shown, resume, saved, crashes, factVars>>

Replace(p) ==
    /\ pc[p] = "replace"
    /\ disk' = [live[p] EXCEPT !.rev = @ + 1]
    /\ live' = [live EXCEPT ![p].rev = @ + 1]
    /\ saved' = saved \cup live[p].body.marks
    /\ lock' = Nobody /\ Goto(p, "idle")
    /\ UNCHANGED <<text, backup, shown, resume, crashes, factVars>>

----------------------------------------------------------------------------
(* DurableMemoryStore.promote(): read everything, then write three files.  *)
Loaded ==
    CASE records.file = "torn" -> NoFacts
      [] records.file = "missing" ->
            [x \in Facts |-> IF index /\ x \in topic THEN "active" ELSE "absent"]
      [] records.file = "whole" -> records.of

ActiveIn(r) == {x \in Facts : r[x] = "active"}

(* The replaced fact keeps its status.                                     *)
PromotedBeside(r, x) == [r EXCEPT ![x] = "active"]

(* The facts of the same subject make way.                                 *)
Promoted(r, x) ==
    [y \in Facts |->
        CASE y = x -> "active"
          [] y # x /\ r[y] = "active" /\ SubjectOf[y] = SubjectOf[x] -> "superseded"
          [] OTHER -> r[y]]

Promoting(p) == pc[p] \in {"index", "records", "topics"}

Promote(p, x) ==
    /\ Idle(p) /\ x \notin stated /\ disk.rev < MaxRevision
    /\ Overlap \/ ~\E q \in Procs : Promoting(q)
    /\ stated' = stated \cup {x}
    /\ work' = [work EXCEPT ![p] = Promoted(Loaded, x)]
    /\ Goto(p, "index")
    /\ UNCHANGED <<text, live, shown, resume, index, records, topic, latest, crashes, fileVars>>

WriteIndex(p) ==
    /\ pc[p] = "index" /\ index' = TRUE /\ Goto(p, "records")
    /\ UNCHANGED <<text, live, shown, resume, records, topic, work, stated, latest, crashes, fileVars>>

WriteRecords(p) ==
    /\ pc[p] = "records"
    /\ records' = [file |-> "whole", of |-> work[p]]
    /\ latest' = [s \in Subjects |->
                    LET new == {x \in ActiveIn(work[p]) \ ActiveIn(Loaded) : SubjectOf[x] = s}
                    IN  IF new = {} THEN latest[s] ELSE CHOOSE x \in new : TRUE]
    /\ Goto(p, "topics")
    /\ UNCHANGED <<text, live, shown, resume, index, topic, work, stated, crashes, fileVars>>

WriteTopics(p) ==
    /\ pc[p] = "topics"
    /\ topic' = ActiveIn(work[p]) /\ Goto(p, "save")
    /\ work' = [work EXCEPT ![p] = NoFacts]
    /\ UNCHANGED <<text, live, shown, resume, index, records, stated, latest, crashes, fileVars>>

----------------------------------------------------------------------------
(* A kill.  The kernel drops the lock; temporary files are not read.       *)
OrTorn(before, writing, torn) == {before} \cup IF writing THEN {torn} ELSE {}

Crash(p) ==
    /\ pc[p] # "down" /\ crashes < MaxCrashes
    /\ crashes' = crashes + 1
    /\ Goto(p, "down")
    /\ live' = [live EXCEPT ![p] = Absent]
    /\ lock' = IF lock = p THEN Nobody ELSE lock
    /\ backup' \in OrTorn(backup, pc[p] = "backup", Torn)
    /\ index' \in OrTorn(index, Tears /\ pc[p] = "index", FALSE)
    /\ records' \in OrTorn(records, Tears /\ pc[p] = "records", [Unwritten EXCEPT !.file = "torn"])
    /\ topic' \in OrTorn(topic, Tears /\ pc[p] = "topics", {})
    /\ shown' = [shown EXCEPT ![p] = {}]
    /\ resume' = [resume EXCEPT ![p] = "no-checkpoint"]
    /\ work' = [work EXCEPT ![p] = NoFacts]
    /\ UNCHANGED <<text, disk, saved, stated, latest>>

Step(p) ==
    \/ Open(p) \/ Checkpoint(p) \/ BuildPrompt(p)
    \/ \E m \in Marks : Record(p, m)
    \/ \E f \in Paths : ReadFile(p, f) \/ WriteFile(p, f)
    \/ Refuse(p) \/ Lock(p) \/ Backup(p) \/ Replace(p)
    \/ \E x \in Facts : Promote(p, x)
    \/ WriteIndex(p) \/ WriteRecords(p) \/ WriteTopics(p)

Next == (\E p \in Procs : Step(p) \/ Crash(p)) \/ \E f \in Paths : Edit(f)

Spec == Init /\ [][Next]_vars

----------------------------------------------------------------------------
(* What a process was told is saved stays in the session file, whatever    *)
(* other processes on the session save and whenever one of them is killed  *)
(* (SessionStore.save: lock, revision, replace).                           *)
SavedIsKept == saved \subseteq disk.body.marks

(* A prompt shows no summary or note of a file that has changed since it   *)
(* was read, and is told that a checkpoint is fully valid only if none of  *)
(* its key files has changed: through crashes, other processes' edits and  *)
(* sessions saved with what was fresh then (invalidate_stale_memory).      *)
ShownIsFresh ==
    \A p \in Procs :
        /\ \A s \in shown[p] : text[s[1]] = s[2]
        /\ resume[p] = "full-valid" =>
              \A f \in Paths : live[p].body.checkpoint[f] \in {None, text[f]}

(* The fact a user stated last on a subject is the only active one of that *)
(* subject, also after a crash between the three files of a promotion and  *)
(* in a workspace that had topic files only (DurableMemoryStore.promote).  *)
LatestIsActive ==
    \A s \in Subjects : latest[s] # None =>
        {x \in ActiveIn(Loaded) : SubjectOf[x] = s} = {latest[s]}
=============================================================================
