------------------------ MODULE SessionMemoryProofs ------------------------
(***************************************************************************)
(* SessionMemory: what was saved stays in the session file, a prompt shows *)
(* no old summary or note, and the fact stated last is the active one, for *)
(* any number of processes, files, facts and crashes.                      *)
(*                                                                         *)
(* For what is saved, the revision alone does not show it: a copy at the  *)
(* revision of the file must also contain what the file contains, and      *)
(* between the comparison and the replacement nobody else may advance the  *)
(* file.  Both are in SaveInv.  For what is shown, MemoryInv ties every    *)
(* note of every copy to the summary it came with.                         *)
(***************************************************************************)
EXTENDS SessionMemory, RecursionLemmas, FiniteSetTheorems

Labels == {"down", "idle", "save", "backup", "replace", "index", "records", "topics"}

IsBody(b) == "marks" \in DOMAIN b

IsCopy(c) == {"rev", "body"} \subseteq DOMAIN c /\ c.rev \in Nat /\ IsBody(c.body)

ShapeOK ==
    /\ pc \in [Procs -> Labels]
    /\ DOMAIN live = Procs
    /\ IsCopy(disk)
    /\ \A p \in Procs : IsCopy(live[p])

(* No copy is ahead of the file, one at its revision has all it has.       *)
CopiesOK ==
    \A p \in Procs :
        /\ live[p].rev <= disk.rev
        /\ pc[p] # "down" /\ live[p].rev = disk.rev => disk.body.marks \subseteq live[p].body.marks

(* Who is past the comparison owns the lock and is still up to date.       *)
WriterOK ==
    \A p \in Procs : pc[p] \in {"backup", "replace"} => lock = p /\ live[p].rev = disk.rev

SaveInv == ShapeOK /\ CopiesOK /\ WriterOK /\ SavedIsKept

----------------------------------------------------------------------------
(* The operators of working memory keep the shape and the marks.           *)

LEMMA FieldShape ==
    ASSUME NEW b, IsBody(b), NEW k, k # "marks", NEW v
    PROVE  IsBody([b EXCEPT ![k] = v]) /\ [b EXCEPT ![k] = v].marks = b.marks
BY DEF IsBody

LEMMA RememberShape ==
    ASSUME NEW b, IsBody(b), NEW f
    PROVE  IsBody(Remember(b, f)) /\ Remember(b, f).marks = b.marks
<1>1. ASSUME NEW v PROVE IsBody([b EXCEPT !.recent = v]) /\ [b EXCEPT !.recent = v].marks = b.marks
  BY FieldShape
<1> QED  BY <1>1, Zenon DEF Remember

LEMMA RetainedShape ==
    ASSUME NEW b, IsBody(b)
    PROVE  IsBody(Retained(b)) /\ Retained(b).marks = b.marks
<1>1. ASSUME NEW v PROVE IsBody([b EXCEPT !.summary = v]) /\ [b EXCEPT !.summary = v].marks = b.marks
  BY FieldShape
<1> QED  BY <1>1, Zenon DEF Retained

LEMMA ForgottenShape ==
    ASSUME NEW b, IsBody(b), NEW gone
    PROVE  IsBody(Forgotten(b, gone)) /\ Forgotten(b, gone).marks = b.marks
BY DEF IsBody, Forgotten

LEMMA SummarisedShape ==
    ASSUME NEW b, IsBody(b), NEW f
    PROVE  IsBody(Summarised(b, f)) /\ Summarised(b, f).marks = b.marks
<1> DEFINE c == Remember(b, f)
           d == [c EXCEPT !.summary[f] = text[f]]
           e == Retained(d)
<1>1. IsBody(c) /\ c.marks = b.marks
  BY RememberShape
<1>2. IsBody(d) /\ d.marks = c.marks
  <2> HIDE DEF c
  <2> QED  BY <1>1 DEF IsBody
<1>3. IsBody(e) /\ e.marks = d.marks
  <2> HIDE DEF d
  <2> QED  BY <1>2, RetainedShape
<1>4. Summarised(b, f) = [e EXCEPT !.notes = @ \cup {<<f, text[f]>>}]
  BY DEF Summarised
<1> HIDE DEF c, d, e
<1> QED  BY <1>1, <1>2, <1>3, <1>4 DEF IsBody

LEMMA NewShape == IsBody(NewSession) /\ IsCopy(Absent)
BY DEF IsBody, IsCopy, NewSession, Absent

----------------------------------------------------------------------------
(* Steps that change one copy and nothing on disk.                         *)

LEMMA KeepPreserves ==
    ASSUME SaveInv, NEW p \in Procs, pc[p] = "idle",
           NEW b, IsBody(b), live[p].body.marks \subseteq b.marks, Keep(p, b),
           pc' = pc \/ Goto(p, "save"),
           UNCHANGED <<disk, lock, saved>>
    PROVE  SaveInv'
<1> USE DEF SaveInv
<1>1. /\ pc' \in [Procs -> Labels]
      /\ \A q \in Procs : pc'[q] # pc[q] => q = p /\ pc'[q] = "save"
  BY DEF ShapeOK, Goto, Labels
<1>2. live'[p] = [live[p] EXCEPT !.body = b]
  BY DEF ShapeOK, Keep
<1>3. \A q \in Procs \ {p} : live'[q] = live[q]
  BY DEF ShapeOK, Keep
<1>4. DOMAIN live' = Procs
  BY DEF ShapeOK, Keep
<1>5. \A q \in Procs : live'[q].rev = live[q].rev /\ live[q].body.marks \subseteq live'[q].body.marks
  BY <1>2, <1>3 DEF ShapeOK, IsCopy
<1>6. ShapeOK'
  <2>1. IsCopy(live'[p])
    <3>1. DOMAIN live'[p] = DOMAIN live[p] /\ IsCopy(live[p])
      BY <1>2 DEF ShapeOK
    <3>2. live'[p].rev = live[p].rev /\ live'[p].body = b
      BY <1>2, <3>1 DEF IsCopy
    <3> QED  BY <3>1, <3>2 DEF IsCopy
  <2>2. \A q \in Procs : IsCopy(live'[q])
    BY <2>1, <1>3 DEF ShapeOK
  <2> QED  BY <2>2, <1>1, <1>4 DEF ShapeOK
<1>7. CopiesOK'
  BY <1>1, <1>5 DEF CopiesOK
<1>8. WriterOK'
  BY <1>1, <1>5 DEF WriterOK
<1>9. SavedIsKept'
  BY DEF SavedIsKept
<1> QED  BY <1>6, <1>7, <1>8, <1>9

LEMMA MovePreserves ==
    ASSUME SaveInv, NEW p \in Procs, pc[p] # "down",
           NEW l \in Labels \ {"down", "backup", "replace"}, Goto(p, l),
           UNCHANGED <<live, disk, lock, saved>>
    PROVE  SaveInv'
<1>1. /\ pc' \in [Procs -> Labels]
      /\ \A q \in Procs : pc'[q] # pc[q] => q = p /\ pc'[q] = l
  BY DEF SaveInv, ShapeOK, Goto
<1>2. CopiesOK'
  BY <1>1 DEF SaveInv, CopiesOK
<1>3. WriterOK'
  BY <1>1 DEF SaveInv, WriterOK
<1> QED  BY <1>1, <1>2, <1>3 DEF SaveInv, ShapeOK, SavedIsKept

----------------------------------------------------------------------------
LEMMA InitSave == Init => SaveInv
<1> SUFFICES ASSUME Init PROVE SaveInv
  OBVIOUS
<1>1. /\ pc = [p \in Procs |-> "down"] /\ live = [p \in Procs |-> Absent]
      /\ disk = Absent /\ saved = {}
  BY DEF Init
<1>2. ShapeOK
  BY <1>1, NewShape, Zenon DEF ShapeOK, Labels
<1>3. CopiesOK
  BY <1>1, NewShape DEF CopiesOK, IsCopy
<1>4. WriterOK
  BY <1>1 DEF WriterOK
<1> QED  BY <1>1, <1>2, <1>3, <1>4 DEF SaveInv, SavedIsKept

LEMMA NextSave == SaveInv /\ [Next]_vars => SaveInv'
<1> SUFFICES ASSUME SaveInv, [Next]_vars PROVE SaveInv'
  OBVIOUS
<1> USE DEF fileVars
<1>1. ASSUME NEW p \in Procs, Open(p) PROVE SaveInv'
  <2> DEFINE b == Invalidated(disk.body)
  <2>1. IsBody(b) /\ b.marks = disk.body.marks
    BY ForgottenShape DEF SaveInv, ShapeOK, IsCopy, Invalidated
  <2>2. live' = [live EXCEPT ![p] = [disk EXCEPT !.body = b]]
    BY <1>1 DEF Open, SaveInv, ShapeOK, IsCopy
  <2> HIDE DEF b
  <2>3. pc' \in [Procs -> Labels] /\ \A q \in Procs \ {p} : pc'[q] = pc[q]
    BY <1>1 DEF Open, Goto, SaveInv, ShapeOK, Labels
  <2>4. live'[p] = [disk EXCEPT !.body = b] /\ \A q \in Procs \ {p} : live'[q] = live[q]
    BY <2>2 DEF SaveInv, ShapeOK
  <2>5. pc'[p] = "save" /\ UNCHANGED <<disk, lock, saved>>
    BY <1>1 DEF Open, Goto, SaveInv, ShapeOK
  <2>6. ShapeOK'
    <3>1. IsCopy(live'[p])
      BY <2>1, <2>4 DEF IsCopy, SaveInv, ShapeOK
    <3>2. DOMAIN live' = Procs
      BY <2>2 DEF SaveInv, ShapeOK
    <3>3. \A q \in Procs : IsCopy(live'[q])
      BY <3>1, <2>4 DEF SaveInv, ShapeOK
    <3> QED  BY <3>2, <3>3, <2>3, <2>5 DEF SaveInv, ShapeOK
  <2>7. CopiesOK'
    BY <2>1, <2>3, <2>4, <2>5 DEF SaveInv, CopiesOK, ShapeOK, IsCopy
  <2>8. WriterOK'
    BY <2>3, <2>4, <2>5 DEF SaveInv, WriterOK
  <2> QED  BY <2>5, <2>6, <2>7, <2>8 DEF SaveInv, SavedIsKept
<1>2. ASSUME NEW p \in Procs, NEW m \in Marks, Record(p, m) PROVE SaveInv'
  <2> DEFINE b == [live[p].body EXCEPT !.marks = @ \cup {m}]
  <2>1. IsBody(b) /\ live[p].body.marks \subseteq b.marks
    BY DEF SaveInv, ShapeOK, IsCopy, IsBody
  <2> QED  BY <1>2, <2>1, KeepPreserves DEF Record, Idle, Saves
<1>3. ASSUME NEW p \in Procs, NEW f \in Paths, ReadFile(p, f) PROVE SaveInv'
  <2> DEFINE b == Summarised(live[p].body, f)
  <2>1. IsBody(b) /\ live[p].body.marks \subseteq b.marks
    BY SummarisedShape DEF SaveInv, ShapeOK, IsCopy
  <2> QED  BY <1>3, <2>1, KeepPreserves DEF ReadFile, Idle, Saves
<1>4. ASSUME NEW p \in Procs, NEW f \in Paths, WriteFile(p, f) PROVE SaveInv'
  <2> DEFINE c == Remember(live[p].body, f)
             b == Forgotten(c, {f})
  <2>1. IsBody(c) /\ live[p].body.marks = c.marks
    BY RememberShape DEF SaveInv, ShapeOK, IsCopy
  <2>2. IsBody(b) /\ c.marks = b.marks
    <3> HIDE DEF c
    <3> QED  BY <2>1, ForgottenShape
  <2>3. Idle(p) /\ Saves(p, b) /\ UNCHANGED fileVars
    BY <1>4 DEF WriteFile
  <2> HIDE DEF b, c
  <2> QED  BY <2>1, <2>2, <2>3, KeepPreserves DEF Idle, Saves
<1>5. ASSUME NEW f \in Paths, Edit(f) PROVE SaveInv'
  BY <1>5 DEF Edit, SaveInv, ShapeOK, CopiesOK, WriterOK, SavedIsKept
<1>6. ASSUME NEW p \in Procs, Checkpoint(p) PROVE SaveInv'
  <2> DEFINE body == live[p].body
             b == [body EXCEPT !.taken = TRUE,
                     !.checkpoint = [f \in Paths |->
                         IF f \in ToSet(body.recent) THEN text[f] ELSE None]]
  <2>1. IsBody(b) /\ live[p].body.marks \subseteq b.marks
    BY DEF SaveInv, ShapeOK, IsCopy, IsBody
  <2>2. Idle(p) /\ Saves(p, b) /\ UNCHANGED fileVars
    BY <1>6 DEF Checkpoint
  <2> HIDE DEF b
  <2> QED  BY <2>1, <2>2, KeepPreserves DEF Idle, Saves
<1>7. ASSUME NEW p \in Procs, BuildPrompt(p) PROVE SaveInv'
  <2> DEFINE b == Invalidated(live[p].body)
  <2>1. IsBody(b) /\ live[p].body.marks \subseteq b.marks
    BY ForgottenShape DEF SaveInv, ShapeOK, IsCopy, Invalidated
  <2>2. Idle(p) /\ Keep(p, b) /\ pc' = pc /\ UNCHANGED fileVars
    BY <1>7 DEF BuildPrompt
  <2> HIDE DEF b
  <2> QED  BY <2>1, <2>2, KeepPreserves DEF Idle
<1>8. ASSUME NEW p \in Procs, Refuse(p) PROVE SaveInv'
  BY <1>8, MovePreserves DEF Refuse, Labels
<1>9. ASSUME NEW p \in Procs, Lock(p) PROVE SaveInv'
  <2>1. /\ pc' \in [Procs -> Labels] /\ pc[p] = "save"
        /\ \A q \in Procs \ {p} : pc'[q] = pc[q]
        /\ lock = Nobody /\ lock' = p /\ live[p].rev = disk.rev
        /\ UNCHANGED <<live, disk, saved>>
    BY <1>9 DEF Lock, Goto, Conflicts, SaveInv, ShapeOK, Labels
  <2>2. \A q \in Procs : pc[q] \notin {"backup", "replace"}
    BY <2>1, NobodyAssumption DEF SaveInv, WriterOK
  <2>3. WriterOK'
    BY <2>1, <2>2 DEF WriterOK
  <2>4. CopiesOK'
    BY <2>1 DEF SaveInv, CopiesOK
  <2> QED  BY <2>1, <2>3, <2>4 DEF SaveInv, ShapeOK, SavedIsKept
<1>10. ASSUME NEW p \in Procs, Backup(p) PROVE SaveInv'
  <2>1. /\ pc' \in [Procs -> Labels] /\ pc[p] = "backup"
        /\ \A q \in Procs \ {p} : pc'[q] = pc[q]
        /\ UNCHANGED <<live, disk, lock, saved>>
    BY <1>10 DEF Backup, Goto, SaveInv, ShapeOK, Labels
  <2>2. WriterOK'
    BY <2>1 DEF SaveInv, WriterOK
  <2>3. CopiesOK'
    BY <2>1 DEF SaveInv, CopiesOK
  <2> QED  BY <2>1, <2>2, <2>3 DEF SaveInv, ShapeOK, SavedIsKept
<1>11. ASSUME NEW p \in Procs, Replace(p) PROVE SaveInv'
  <2>1. /\ pc' \in [Procs -> Labels] /\ pc[p] = "replace" /\ pc'[p] = "idle"
        /\ \A q \in Procs \ {p} : pc'[q] = pc[q]
        /\ saved' = saved \cup live[p].body.marks
    BY <1>11 DEF Replace, Goto, SaveInv, ShapeOK, Labels
  <2>2. lock = p /\ live[p].rev = disk.rev /\ disk.body.marks \subseteq live[p].body.marks
    BY <2>1 DEF SaveInv, WriterOK, CopiesOK
  <2>3. disk' = [live[p] EXCEPT !.rev = @ + 1] /\ live'[p] = disk'
    BY <1>11 DEF Replace, SaveInv, ShapeOK, IsCopy
  <2>4. \A q \in Procs \ {p} : live'[q] = live[q]
    BY <1>11 DEF Replace, SaveInv, ShapeOK
  <2>5. DOMAIN live' = Procs
    BY <1>11 DEF Replace, SaveInv, ShapeOK
  <2>6. ShapeOK'
    <3>1. IsCopy(disk')
      BY <2>3 DEF SaveInv, ShapeOK, IsCopy
    <3>2. \A q \in Procs : IsCopy(live'[q])
      BY <3>1, <2>3, <2>4 DEF SaveInv, ShapeOK
    <3> QED  BY <3>1, <3>2, <2>1, <2>5 DEF ShapeOK
  <2>7. \A q \in Procs \ {p} : live'[q].rev < disk'.rev
    BY <2>2, <2>3, <2>4 DEF SaveInv, CopiesOK, ShapeOK, IsCopy
  <2>8. CopiesOK'
    <3>1. live'[p].rev <= disk'.rev /\ disk'.body.marks \subseteq live'[p].body.marks
      BY <2>3, <2>6 DEF ShapeOK, IsCopy
    <3>2. \A q \in Procs \ {p} : live'[q].rev <= disk'.rev /\ live'[q].rev # disk'.rev
      BY <2>7, <2>6 DEF ShapeOK, IsCopy
    <3> QED  BY <3>1, <3>2 DEF CopiesOK
  <2>9. WriterOK'
    BY <2>1, <2>2 DEF SaveInv, WriterOK
  <2>10. SavedIsKept'
    BY <2>1, <2>2, <2>3 DEF SaveInv, SavedIsKept
  <2> QED  BY <2>6, <2>8, <2>9, <2>10 DEF SaveInv
<1>12. ASSUME NEW p \in Procs, NEW x \in Facts, Promote(p, x) PROVE SaveInv'
  BY <1>12, MovePreserves DEF Promote, Idle, Labels
<1>13. ASSUME NEW p \in Procs, WriteIndex(p) \/ WriteRecords(p) \/ WriteTopics(p) PROVE SaveInv'
  BY <1>13, MovePreserves DEF WriteIndex, WriteRecords, WriteTopics, Labels
<1>14. ASSUME NEW p \in Procs, Crash(p) PROVE SaveInv'
  <2>1. /\ pc' \in [Procs -> Labels] /\ pc'[p] = "down"
        /\ \A q \in Procs \ {p} : pc'[q] = pc[q]
        /\ UNCHANGED <<disk, saved>>
    BY <1>14 DEF Crash, Goto, SaveInv, ShapeOK, Labels
  <2>2. live'[p] = Absent /\ \A q \in Procs \ {p} : live'[q] = live[q]
    BY <1>14 DEF Crash, SaveInv, ShapeOK
  <2>3. DOMAIN live' = Procs
    BY <1>14 DEF Crash, SaveInv, ShapeOK
  <2>4. ShapeOK'
    <3>1. \A q \in Procs : IsCopy(live'[q])
      BY <2>2, NewShape DEF SaveInv, ShapeOK
    <3> QED  BY <3>1, <2>1, <2>3 DEF SaveInv, ShapeOK
  <2>5. CopiesOK'
    <3>1. live'[p].rev <= disk'.rev
      BY <2>1, <2>2 DEF Absent, SaveInv, ShapeOK, IsCopy
    <3> QED  BY <3>1, <2>1, <2>2 DEF SaveInv, CopiesOK
  <2>6. WriterOK'
    <3>1. \A q \in Procs \ {p} : lock = q => lock' = q
      BY <1>14 DEF Crash
    <3> QED  BY <3>1, <2>1, <2>2 DEF SaveInv, WriterOK
  <2> QED  BY <2>1, <2>4, <2>5, <2>6 DEF SaveInv, SavedIsKept
<1>15. ASSUME UNCHANGED vars PROVE SaveInv'
  BY <1>15 DEF vars, SaveInv, ShapeOK, CopiesOK, WriterOK, SavedIsKept
<1> QED
  BY <1>1, <1>2, <1>3, <1>4, <1>5, <1>6, <1>7, <1>8, <1>9, <1>10, <1>11, <1>12, <1>13, <1>14, <1>15
     DEF Next, Step

(* Nothing a process was told is saved ever leaves the session file: no    *)
(* save by another process or a later one drops it (SessionStore.save).    *)
THEOREM SavedSessionIsKept == Spec => []SavedIsKept
<1>1. SaveInv => SavedIsKept
  BY DEF SaveInv
<1> QED  BY <1>1, InitSave, NextSave, PTL DEF Spec

----------------------------------------------------------------------------
(* The facts.  A promotion writes three files; what it is about to write   *)
(* is what the files say with one fact more, until the second is written.  *)

OneWriter == \A p, q \in Procs : Promoting(p) /\ Promoting(q) => p = q

FilesOK ==
    /\ records.file \in {"missing", "whole"} /\ index \in BOOLEAN
    /\ records.file = "missing" /\ topic # {} => index
    /\ \A p \in Procs : pc[p] = "topics" => records.file = "whole"

WorkOK ==
    /\ ActiveIn(Loaded) \subseteq stated
    /\ \A p \in Procs : pc[p] \in {"index", "records"} =>
          \E x \in Facts : /\ x \in stated /\ x \notin ActiveIn(Loaded)
                          /\ work[p] = Promoted(Loaded, x)

FactInv ==
    /\ pc \in [Procs -> Labels] /\ DOMAIN work = Procs
    /\ OneWriter /\ FilesOK /\ WorkOK /\ LatestIsActive

LEMMA PromotedFacts ==
    ASSUME NEW r, NEW x \in Facts
    PROVE  /\ \A y \in Facts : Promoted(r, x)[y] = "active" <=>
                 y = x \/ (r[y] = "active" /\ SubjectOf[y] # SubjectOf[x])
           /\ ActiveIn(Promoted(r, x)) =
                 {x} \cup {y \in ActiveIn(r) : SubjectOf[y] # SubjectOf[x]}
<1>1. \A y \in Facts : Promoted(r, x)[y] = "active" <=>
          y = x \/ (r[y] = "active" /\ SubjectOf[y] # SubjectOf[x])
  BY DEF Promoted
<1> QED  BY <1>1 DEF ActiveIn

LEMMA SameFacts ==
    ASSUME FactInv, UNCHANGED <<index, records, topic, stated, latest>>,
           pc' \in [Procs -> Labels], DOMAIN work' = Procs,
           \A p \in Procs : Promoting(p)' => pc'[p] = pc[p] /\ work'[p] = work[p]
    PROVE  FactInv'
<1>1. Loaded' = Loaded
  BY DEF Loaded
<1>2. OneWriter' /\ FilesOK'
  BY DEF FactInv, OneWriter, FilesOK, Promoting
<1>3. WorkOK'
  <2>1. \A x : Promoted(Loaded, x)' = Promoted(Loaded, x)
    BY <1>1 DEF Promoted
  <2> QED  BY <1>1, <2>1 DEF FactInv, WorkOK, Promoting, ActiveIn
<1>4. LatestIsActive'
  BY <1>1 DEF FactInv, LatestIsActive, ActiveIn
<1> QED  BY <1>2, <1>3, <1>4 DEF FactInv

LEMMA InitFacts == Init => FactInv
<1> SUFFICES ASSUME Init PROVE FactInv
  OBVIOUS
<1>1. /\ pc = [p \in Procs |-> "down"] /\ work = [p \in Procs |-> NoFacts]
      /\ topic \subseteq Legacy /\ index = (topic # {}) /\ records.file = "missing"
      /\ stated = topic
  BY DEF Init, Unwritten
<1>2. OneWriter /\ FilesOK
  BY <1>1 DEF OneWriter, FilesOK, Promoting
<1>3. \A x \in Facts : Loaded[x] = "active" <=> x \in topic
  BY <1>1 DEF Loaded
<1>4. ActiveIn(Loaded) = topic
  BY <1>1, <1>3, LegacyAssumption DEF ActiveIn
<1>5. WorkOK
  BY <1>1, <1>4 DEF WorkOK
<1>6. LatestIsActive
  <2> SUFFICES ASSUME NEW s \in Subjects, latest[s] # None
               PROVE  {x \in topic : SubjectOf[x] = s} = {latest[s]}
    BY <1>4 DEF LatestIsActive
  <2>1. latest[s] = IF \E x \in topic : SubjectOf[x] = s
                    THEN CHOOSE x \in topic : SubjectOf[x] = s ELSE None
    BY DEF Init
  <2>2. latest[s] \in topic /\ SubjectOf[latest[s]] = s
    BY <2>1
  <2> QED  BY <2>2, <1>1, LegacyAssumption
<1> QED  BY <1>1, <1>2, <1>5, <1>6 DEF FactInv, Labels

LEMMA PromoteFacts ==
    ASSUME ~Overlap, FactInv, NEW p \in Procs, NEW x \in Facts, Promote(p, x)
    PROVE  FactInv'
<1>1. /\ pc' = [pc EXCEPT ![p] = "index"] /\ work' = [work EXCEPT ![p] = Promoted(Loaded, x)]
      /\ stated' = stated \cup {x} /\ x \notin stated /\ \A q \in Procs : ~Promoting(q)
      /\ UNCHANGED <<index, records, topic, latest>>
  BY DEF Promote, Goto
<1>2. Loaded' = Loaded
  BY <1>1 DEF Loaded
<1>3. OneWriter' /\ FilesOK'
  BY <1>1 DEF FactInv, OneWriter, FilesOK, Promoting
<1>4. WorkOK'
  <2>1. \A q \in Procs : pc'[q] \in {"index", "records"} => q = p
    BY <1>1 DEF FactInv, Promoting
  <2>2. work'[p] = Promoted(Loaded, x)'
    BY <1>1, <1>2 DEF FactInv, Promoted
  <2>3. x \notin ActiveIn(Loaded)' /\ ActiveIn(Loaded)' \subseteq stated'
    BY <1>1, <1>2 DEF FactInv, WorkOK, ActiveIn
  <2> QED  BY <1>1, <2>1, <2>2, <2>3 DEF WorkOK
<1>5. LatestIsActive'
  BY <1>1, <1>2 DEF FactInv, LatestIsActive, ActiveIn
<1> QED  BY <1>1, <1>3, <1>4, <1>5 DEF FactInv, Labels

LEMMA WriteIndexFacts ==
    ASSUME FactInv, NEW p \in Procs, WriteIndex(p)
    PROVE  FactInv'
<1>1. /\ pc[p] = "index" /\ pc' = [pc EXCEPT ![p] = "records"] /\ index' = TRUE
      /\ UNCHANGED <<work, stated, records, topic, latest>>
  BY DEF WriteIndex, Goto
<1>2. Loaded' = Loaded
  BY <1>1 DEF Loaded, FactInv, FilesOK
<1>3. OneWriter' /\ FilesOK'
  BY <1>1 DEF FactInv, OneWriter, FilesOK, Promoting
<1>4. WorkOK'
  <2>1. \A y : Promoted(Loaded, y)' = Promoted(Loaded, y)
    BY <1>2 DEF Promoted
  <2> QED  BY <1>1, <1>2, <2>1 DEF FactInv, WorkOK, ActiveIn
<1>5. LatestIsActive'
  BY <1>1, <1>2 DEF FactInv, LatestIsActive, ActiveIn
<1> QED  BY <1>1, <1>3, <1>4, <1>5 DEF FactInv, Labels

LEMMA WriteRecordsFacts ==
    ASSUME FactInv, NEW p \in Procs, WriteRecords(p)
    PROVE  FactInv'
<1>1. /\ pc[p] = "records" /\ pc' = [pc EXCEPT ![p] = "topics"]
      /\ records' = [file |-> "whole", of |-> work[p]]
      /\ UNCHANGED <<work, stated, index, topic>>
  BY DEF WriteRecords, Goto
<1>2. PICK x \in Facts : /\ x \in stated /\ x \notin ActiveIn(Loaded)
                        /\ work[p] = Promoted(Loaded, x)
  BY <1>1 DEF FactInv, WorkOK
<1>3. Loaded' = work[p]
  BY <1>1 DEF Loaded
<1>4. ActiveIn(work[p]) = {x} \cup {y \in ActiveIn(Loaded) : SubjectOf[y] # SubjectOf[x]}
  BY <1>2, PromotedFacts
<1>5. ActiveIn(Loaded)' = ActiveIn(work[p])
  BY <1>3 DEF ActiveIn
<1>6. OneWriter' /\ FilesOK'
  BY <1>1 DEF FactInv, OneWriter, FilesOK, Promoting
<1>7. WorkOK'
  <2>1. \A q \in Procs : pc'[q] \notin {"index", "records"}
    BY <1>1 DEF FactInv, OneWriter, Promoting
  <2> QED  BY <1>1, <1>2, <1>4, <1>5, <2>1 DEF FactInv, WorkOK
<1>8. LatestIsActive'
  <2> SUFFICES ASSUME NEW s \in Subjects, latest'[s] # None
               PROVE  {y \in ActiveIn(work[p]) : SubjectOf[y] = s} = {latest'[s]}
    BY <1>5 DEF LatestIsActive
  <2> DEFINE new == {y \in ActiveIn(work[p]) \ ActiveIn(Loaded) : SubjectOf[y] = s}
  <2>1. latest'[s] = IF new = {} THEN latest[s] ELSE CHOOSE y \in new : TRUE
    BY DEF WriteRecords
  <2>2. CASE s = SubjectOf[x]
    <3>1. new = {x}
      BY <1>2, <1>4, <2>2
    <3>2. latest'[s] = x
      <4> HIDE DEF new
      <4> QED  BY <2>1, <3>1
    <3> QED  BY <1>4, <2>2, <3>2
  <2>3. CASE s # SubjectOf[x]
    <3>1. new = {}
      BY <1>2, <1>4, <2>3
    <3>2. latest'[s] = latest[s]
      <4> HIDE DEF new
      <4> QED  BY <2>1, <3>1
    <3>3. {y \in ActiveIn(Loaded) : SubjectOf[y] = s} = {latest[s]}
      BY <3>2 DEF FactInv, LatestIsActive
    <3>4. {y \in ActiveIn(work[p]) : SubjectOf[y] = s} = {y \in ActiveIn(Loaded) : SubjectOf[y] = s}
      BY <1>4, <2>3
    <3> QED  BY <3>2, <3>3, <3>4
  <2> QED  BY <2>2, <2>3
<1> QED  BY <1>1, <1>6, <1>7, <1>8 DEF FactInv, Labels

LEMMA WriteTopicsFacts ==
    ASSUME FactInv, NEW p \in Procs, WriteTopics(p)
    PROVE  FactInv'
<1>1. /\ pc[p] = "topics" /\ pc' = [pc EXCEPT ![p] = "save"]
      /\ work' = [work EXCEPT ![p] = NoFacts]
      /\ UNCHANGED <<records, stated, index, latest>>
  BY DEF WriteTopics, Goto
<1>2. records.file = "whole"
  BY <1>1 DEF FactInv, FilesOK
<1>3. Loaded' = Loaded
  BY <1>1, <1>2 DEF Loaded
<1>4. OneWriter' /\ FilesOK'
  BY <1>1, <1>2 DEF FactInv, OneWriter, FilesOK, Promoting
<1>5. WorkOK'
  <2>1. \A q \in Procs : pc'[q] \notin {"index", "records"}
    BY <1>1 DEF FactInv, OneWriter, Promoting
  <2> QED  BY <1>1, <1>3, <2>1 DEF FactInv, WorkOK, ActiveIn
<1>6. LatestIsActive'
  BY <1>1, <1>3 DEF FactInv, LatestIsActive, ActiveIn
<1> QED  BY <1>1, <1>4, <1>5, <1>6 DEF FactInv, Labels

LEMMA CrashFacts ==
    ASSUME ~Tears, FactInv, NEW p \in Procs, Crash(p)
    PROVE  FactInv'
<1>1. UNCHANGED <<index, records, topic, stated, latest>>
  BY DEF Crash, OrTorn
<1>2. pc' = [pc EXCEPT ![p] = "down"] /\ work' = [work EXCEPT ![p] = NoFacts]
  BY DEF Crash, Goto
<1> QED  BY <1>1, <1>2, SameFacts DEF FactInv, Labels, Promoting

LEMMA NextFacts == ~Overlap /\ ~Tears /\ FactInv /\ [Next]_vars => FactInv'
<1> SUFFICES ASSUME ~Overlap, ~Tears, FactInv, [Next]_vars PROVE FactInv'
  OBVIOUS
<1>1. ASSUME NEW p \in Procs, NEW l \in Labels \ {"index", "records", "topics"},
             Goto(p, l) \/ UNCHANGED pc, UNCHANGED factVars
      PROVE  FactInv'
  <2>1. /\ pc' \in [Procs -> Labels]
        /\ \A q \in Procs : Promoting(q)' => pc'[q] = pc[q]
    BY <1>1 DEF FactInv, Goto, Promoting
  <2> QED  BY <1>1, <2>1, SameFacts DEF FactInv, factVars
<1>2. ASSUME NEW p \in Procs, \/ Open(p) \/ Checkpoint(p) \/ Refuse(p) \/ Lock(p)
                              \/ Backup(p) \/ Replace(p)
      PROVE  FactInv'
  BY <1>1, <1>2 DEF Open, Checkpoint, Saves, Refuse, Lock, Backup, Replace, Labels
<1>3. ASSUME NEW p \in Procs, BuildPrompt(p) PROVE FactInv'
  <2>1. UNCHANGED <<pc, factVars>>
    BY <1>3 DEF BuildPrompt
  <2> QED  BY <1>1, <2>1 DEF Labels
<1>4. ASSUME NEW p \in Procs, NEW m \in Marks, Record(p, m) PROVE FactInv'
  BY <1>1, <1>4 DEF Record, Saves, Labels
<1>5. ASSUME NEW p \in Procs, NEW f \in Paths, ReadFile(p, f) \/ WriteFile(p, f) PROVE FactInv'
  BY <1>1, <1>5 DEF ReadFile, WriteFile, Saves, Labels
<1>6. ASSUME NEW p \in Procs, NEW x \in Facts, Promote(p, x) PROVE FactInv'
  BY <1>6, PromoteFacts
<1>7. ASSUME NEW p \in Procs, WriteIndex(p) \/ WriteRecords(p) \/ WriteTopics(p) PROVE FactInv'
  BY <1>7, WriteIndexFacts, WriteRecordsFacts, WriteTopicsFacts
<1>8. ASSUME NEW p \in Procs, Crash(p) PROVE FactInv'
  BY <1>8, CrashFacts
<1>9. CASE UNCHANGED vars \/ \E f \in Paths : Edit(f)
  <2>1. UNCHANGED <<pc, factVars>>
    BY <1>9 DEF Edit, vars, factVars
  <2> QED  BY <2>1, SameFacts DEF FactInv, factVars
<1> QED  BY <1>2, <1>3, <1>4, <1>5, <1>6, <1>7, <1>8, <1>9 DEF Next, Step

(* When promotions do not overlap and no plain write is torn, the fact     *)
(* stated last on a subject is its only active one, wherever a promotion   *)
(* is killed between its three files (DurableMemoryStore.promote).         *)
THEOREM LatestFactIsActive ==
    ASSUME ~Overlap, ~Tears
    PROVE  Spec => []LatestIsActive
<1>1. FactInv => LatestIsActive
  BY DEF FactInv
<1>2. FactInv /\ [Next]_vars => FactInv'
  BY NextFacts
<1> QED  BY <1>1, <1>2, InitFacts, PTL DEF Spec
----------------------------------------------------------------------------
(* Working memory: a note is as old as the summary of its file, so that    *)
(* what makes the summary go makes the note go.                            *)

Version == Nat \cup {None}

Bodies == [marks: SUBSET Marks, summary: [Paths -> Version], notes: SUBSET (Paths \X Nat),
           recent: Seq(Paths), checkpoint: [Paths -> Version], taken: BOOLEAN]

Once(r) == \A i, j \in 1 .. Len(r) : r[i] = r[j] => i = j

(* A note is as old as the summary of its file.                            *)
NotesHeld(b) == \A n \in b.notes : b.summary[n[1]] = n[2]

IsMemory(b) == b \in Bodies /\ Once(b.recent) /\ NotesHeld(b)

MemoryInv ==
    /\ text \in [Paths -> Nat]
    /\ disk \in [rev: Int, body: Bodies] /\ IsMemory(disk.body)
    /\ live \in [Procs -> [rev: Int, body: Bodies]]
    /\ \A p \in Procs : IsMemory(live[p].body)
    /\ DOMAIN shown = Procs /\ DOMAIN resume = Procs
    /\ ShownIsFresh

LEMMA PickedOnce ==
    ASSUME NEW r \in Seq(Paths), Once(r), NEW I \in SUBSET DOMAIN r
    PROVE  /\ Picked(r, I) \in Seq(Paths) /\ Once(Picked(r, I))
           /\ \A j \in 1 .. Len(Picked(r, I)) : \E i \in I : Picked(r, I)[j] = r[i]
           /\ \A i \in I : \E j \in 1 .. Len(Picked(r, I)) : Picked(r, I)[j] = r[i]
<1> DEFINE q == Picked(r, I)
<1>1. q \in Seq(Paths)
  BY PickedFrom
<1>2. PICK h \in [1 .. Len(q) -> I \cap (1 .. Len(r))] :
         /\ \A i, j \in 1 .. Len(q) : h[i] = h[j] => i = j
         /\ \A j \in 1 .. Len(q) : q[j] = r[h[j]]
         /\ \A i \in I \cap (1 .. Len(r)) : \E j \in 1 .. Len(q) : h[j] = i
  BY PickedFrom
<1> HIDE DEF q
<1>3. I = I \cap (1 .. Len(r))
  OBVIOUS
<1>4. \A j \in 1 .. Len(q) : h[j] \in I /\ h[j] \in 1 .. Len(r)
  BY <1>2
<1>5. Once(q)
  BY <1>2, <1>4 DEF Once
<1>6. \A j \in 1 .. Len(q) : \E i \in I : q[j] = r[i]
  BY <1>2, <1>4
<1>7. \A i \in I : \E j \in 1 .. Len(q) : q[j] = r[i]
  BY <1>2, <1>3
<1> QED
  BY <1>1, <1>5, <1>6, <1>7 DEF q

LEMMA RememberHolds ==
    ASSUME NEW b \in Bodies, Once(b.recent), NEW f \in Paths
    PROVE  \E r \in Seq(Paths) : Once(r) /\ Remember(b, f) = [b EXCEPT !.recent = r]
<1> DEFINE others == {i \in DOMAIN b.recent : b.recent[i] # f}
           q == Picked(b.recent, others)
           all == Append(q, f)
           m == Max({1, Len(all) - WorkingLimit + 1})
           r == SubSeq(all, m, Len(all))
<1>1. b.recent \in Seq(Paths)
  BY DEF Bodies
<1>2. /\ q \in Seq(Paths) /\ Once(q)
      /\ \A j \in 1 .. Len(q) : \E i \in others : q[j] = b.recent[i]
  <2>1. others \in SUBSET DOMAIN b.recent
    OBVIOUS
  <2> HIDE DEF others
  <2> QED
    BY <1>1, <2>1, PickedOnce
<1>3. \A j \in 1 .. Len(q) : q[j] # f
  BY <1>2
<1> HIDE DEF q
<1>4. all \in Seq(Paths) /\ Len(all) \in Nat \ {0}
  BY <1>2
<1>5. Once(all)
  BY <1>2, <1>3 DEF Once
<1> HIDE DEF all
<1>6. m \in 1 .. Len(all)
  <2> DEFINE x == Len(all) - WorkingLimit + 1
  <2>1. x \in Int /\ x <= Len(all)
    BY <1>4, LimitsAssumption
  <2>2. \E y \in {1, x} : \A z \in {1, x} : y >= z
    <3>1. CASE x >= 1
      BY <2>1, <3>1
    <3>2. CASE x < 1
      BY <2>1, <3>2
    <3> QED
      BY <2>1, <3>1, <3>2
  <2> HIDE DEF x
  <2>3. Max({1, x}) \in {1, x} /\ \A z \in {1, x} : Max({1, x}) >= z
    BY <2>2, Zenon DEF Max
  <2> QED
    BY <1>4, <2>1, <2>3 DEF x
<1> HIDE DEF m
<1>7. /\ r \in Seq(Paths) /\ Len(r) = Len(all) - m + 1
      /\ \A i \in 1 .. Len(r) : r[i] = all[m + i - 1]
  BY <1>4, <1>6
<1>8. Once(r)
  <2> SUFFICES ASSUME NEW i \in 1 .. Len(r), NEW j \in 1 .. Len(r), r[i] = r[j] PROVE i = j
    BY DEF Once
  <2> HIDE DEF r
  <2>1. m + i - 1 \in 1 .. Len(all) /\ m + j - 1 \in 1 .. Len(all)
    BY <1>4, <1>6, <1>7
  <2>2. m + i - 1 = m + j - 1
    BY <1>5, <1>7, <2>1 DEF Once
  <2> QED
    BY <1>4, <1>6, <2>2
<1>9. Remember(b, f) = [b EXCEPT !.recent = r]
  BY Zenon DEF Remember, r, m, all, q
<1> HIDE DEF r
<1> QED
  BY <1>7, <1>8, <1>9, Zenon

LEMMA SetToSeqLists ==
    ASSUME NEW S, IsFiniteSet(S)
    PROVE  /\ SetToSeq(S) \in Seq(S) /\ Once(SetToSeq(S))
           /\ \A x \in S : \E i \in 1 .. Len(SetToSeq(S)) : SetToSeq(S)[i] = x
<1> DEFINE n == Cardinality(S)
           s == SetToSeq(S)
<1>1. n \in Nat /\ ExistsBijection(1 .. n, S)
  BY FS_CardinalityType
<1>2. PICK g : g \in Bijection(1 .. n, S)
  BY <1>1 DEF ExistsBijection
<1>3. g \in [1 .. n -> S] /\ IsInjective(g)
  BY <1>2 DEF Bijection, Injection
<1>4. s \in [1 .. n -> S] /\ IsInjective(s)
  BY <1>3, Zenon DEF SetToSeq
<1>5. s \in Seq(S) /\ Len(s) = n /\ DOMAIN s = 1 .. n
  BY <1>1, <1>4
<1> HIDE DEF s
<1>6. s \in Injection(1 .. n, S)
  BY <1>4 DEF Injection
<1>7. IsFiniteSet(1 .. n) /\ Cardinality(1 .. n) = n
  BY <1>1, FS_Interval
<1>8. s \in Surjection(1 .. n, S)
  BY <1>6, <1>7, FS_Injection
<1>9. \A x \in S : \E i \in 1 .. n : s[i] = x
  BY <1>8 DEF Surjection
<1> QED
  BY <1>4, <1>5, <1>9 DEF Once, IsInjective, s

(* With no more files than summaries are kept, none is dropped.            *)
Few == IsFiniteSet(Paths) /\ Cardinality(Paths) <= SummaryLimit

LEMMA OnceIsShort ==
    ASSUME IsFiniteSet(Paths), NEW r \in Seq(Paths), Once(r)
    PROVE  Len(r) <= Cardinality(Paths)
<1>1. r \in Injection(1 .. Len(r), Paths)
  BY DEF Once, Injection, IsInjective
<1>2. Len(r) \in Nat /\ Cardinality(1 .. Len(r)) = Len(r)
  <2>1. Len(r) \in Nat /\ 1 \in Int /\ Len(r) \in Int
    OBVIOUS
  <2>2. Cardinality(1 .. Len(r)) = IF 1 > Len(r) THEN 0 ELSE Len(r) - 1 + 1
    BY <2>1, FS_Interval, Zenon
  <2> QED
    BY <2>1, <2>2
<1> QED
  BY <1>1, <1>2, FS_Injection

LEMMA RetainedKeeps ==
    ASSUME Few, NEW b \in Bodies, Once(b.recent)
    PROVE  Retained(b) = b
<1> DEFINE have == {f \in Paths : b.summary[f] # None}
           chosen == {i \in DOMAIN b.recent : b.recent[i] \in have}
           recent == Picked(b.recent, chosen)
           old == have \ ToSet(recent)
           rest == SetToSeq(old)
           order == rest \o recent
           kept == {order[i] : i \in {j \in DOMAIN order : j > Len(order) - SummaryLimit}}
<1>1. b.recent \in Seq(Paths)
  BY DEF Bodies
<1>2. recent \in Seq(Paths) /\ Once(recent)
  <2>1. chosen \in SUBSET DOMAIN b.recent
    OBVIOUS
  <2> HIDE DEF chosen
  <2> QED
    BY <1>1, <2>1, PickedOnce
<1> HIDE DEF recent
<1>3. /\ rest \in Seq(old) /\ Once(rest)
      /\ \A x \in old : \E i \in 1 .. Len(rest) : rest[i] = x
  <2>1. IsFiniteSet(old)
    BY FS_Subset DEF Few
  <2> HIDE DEF old
  <2> QED
    BY <2>1, SetToSeqLists
<1>4. rest \in Seq(Paths)
  <2>1. old \subseteq Paths
    OBVIOUS
  <2> HIDE DEF old, rest
  <2> QED
    BY <1>3, <2>1
<1>5. \A i \in 1 .. Len(rest), j \in 1 .. Len(recent) : rest[i] # recent[j]
  <2>1. \A i \in 1 .. Len(rest) : rest[i] \in old
    <3> HIDE DEF rest, old
    <3> QED
      BY <1>3
  <2>2. \A j \in 1 .. Len(recent) : recent[j] \in ToSet(recent)
    BY <1>2 DEF ToSet
  <2> HIDE DEF rest
  <2> QED
    BY <2>1, <2>2
<1>6. have \subseteq ToSet(recent) \cup old
  OBVIOUS
<1> HIDE DEF rest
<1>7. /\ order \in Seq(Paths) /\ Len(order) = Len(rest) + Len(recent)
      /\ \A i \in 1 .. Len(rest) : order[i] = rest[i]
      /\ \A i \in 1 .. Len(recent) : order[Len(rest) + i] = recent[i]
  BY <1>2, <1>4
<1> HIDE DEF order
<1>8. Once(order)
  <2> SUFFICES ASSUME NEW i \in 1 .. Len(order), NEW j \in 1 .. Len(order),
                      order[i] = order[j]
               PROVE  i = j
    BY DEF Once
  <2>1. Len(rest) \in Nat /\ Len(recent) \in Nat
    BY <1>2, <1>4
  <2>2. CASE i <= Len(rest) /\ j <= Len(rest)
    BY <1>3, <1>7, <2>1, <2>2 DEF Once
  <2>3. CASE i > Len(rest) /\ j > Len(rest)
    <3>1. i - Len(rest) \in 1 .. Len(recent) /\ j - Len(rest) \in 1 .. Len(recent)
      BY <1>7, <2>1, <2>3
    <3>2. /\ order[Len(rest) + (i - Len(rest))] = recent[i - Len(rest)]
          /\ order[Len(rest) + (j - Len(rest))] = recent[j - Len(rest)]
      BY <1>7, <3>1
    <3>4. Len(rest) + (i - Len(rest)) = i /\ Len(rest) + (j - Len(rest)) = j
      BY <1>7, <2>1
    <3>3. i - Len(rest) = j - Len(rest)
      BY <1>2, <3>1, <3>2, <3>4 DEF Once
    <3> QED
      BY <2>1, <3>3
  <2>4. ASSUME NEW k \in 1 .. Len(order), NEW l \in 1 .. Len(order),
               order[k] = order[l], k <= Len(rest), l > Len(rest)
        PROVE  FALSE
    <3>1. k \in 1 .. Len(rest) /\ l - Len(rest) \in 1 .. Len(recent)
      BY <1>7, <2>1, <2>4
    <3>2. order[k] = rest[k] /\ order[Len(rest) + (l - Len(rest))] = recent[l - Len(rest)]
      BY <1>7, <3>1
    <3>3. Len(rest) + (l - Len(rest)) = l
      BY <1>7, <2>1
    <3> QED
      BY <1>5, <2>4, <3>1, <3>2, <3>3
  <2> QED
    BY <2>1, <2>2, <2>3, <2>4
<1>9. Len(order) <= SummaryLimit /\ Len(order) \in Nat /\ DOMAIN order = 1 .. Len(order)
  <2>1. Len(order) <= Cardinality(Paths)
    BY <1>7, <1>8, OnceIsShort DEF Few
  <2>2. Cardinality(Paths) \in Nat /\ Len(order) \in Nat /\ SummaryLimit \in Nat
    BY <1>7, FS_CardinalityType, LimitsAssumption DEF Few
  <2> QED
    BY <1>7, <2>1, <2>2 DEF Few
<1>10. kept = {order[i] : i \in 1 .. Len(order)}
  BY <1>9, LimitsAssumption
<1>11. have \subseteq kept
  <2> SUFFICES ASSUME NEW x \in have PROVE \E i \in 1 .. Len(order) : order[i] = x
    BY <1>10
  <2> HIDE DEF have
  <2>1. CASE x \in old
    <3>1. PICK i \in 1 .. Len(rest) : rest[i] = x
      BY <1>3, <2>1
    <3> QED
      BY <1>2, <1>4, <1>7, <3>1
  <2>2. CASE x \in ToSet(recent)
    <3>1. PICK i \in 1 .. Len(recent) : recent[i] = x
      BY <1>2, <2>2 DEF ToSet
    <3>2. Len(rest) + i \in 1 .. Len(order)
      BY <1>2, <1>4, <1>7
    <3> QED
      BY <1>7, <3>1, <3>2
  <2> QED
    BY <1>6, <2>1, <2>2
<1>12. b.summary = [f \in Paths |-> IF f \in kept THEN b.summary[f] ELSE None]
  <2>1. b.summary \in [Paths -> Version]
    BY DEF Bodies
  <2>2. \A f \in Paths : f \notin kept => b.summary[f] = None
    BY <1>11
  <2> HIDE DEF kept
  <2> QED
    BY <2>1, <2>2
<1>13. Retained(b)
         = [b EXCEPT !.summary = [f \in Paths |-> IF f \in kept THEN @[f] ELSE None]]
  BY Zenon DEF Retained, kept, order, rest, recent, old, chosen, have
<1> HIDE DEF kept
<1>14. Retained(b) = [b EXCEPT !.summary = b.summary]
  BY <1>12, <1>13
<1> QED
  BY <1>14 DEF Bodies

LEMMA SummarisedHolds ==
    ASSUME Few, text \in [Paths -> Nat], NEW b, IsMemory(b), NEW f \in Paths,
           b.summary[f] \in {None, text[f]}
    PROVE  IsMemory(Summarised(b, f)) /\ Summarised(b, f).checkpoint = b.checkpoint
<1>1. b \in Bodies /\ Once(b.recent) /\ text[f] \in Nat
  BY DEF IsMemory
<1>2. PICK r \in Seq(Paths) : Once(r) /\ Remember(b, f) = [b EXCEPT !.recent = r]
  BY <1>1, RememberHolds, Zenon
<1> DEFINE c == Remember(b, f)
           d == [c EXCEPT !.summary[f] = text[f]]
           e == [d EXCEPT !.notes = @ \cup {<<f, text[f]>>}]
<1>3. /\ c \in Bodies /\ c.recent = r /\ c.summary = b.summary
      /\ c.notes = b.notes /\ c.checkpoint = b.checkpoint
  BY <1>1, <1>2 DEF Bodies
<1> HIDE DEF c
<1>4. /\ d \in Bodies /\ d.recent = r /\ d.summary = [b.summary EXCEPT ![f] = text[f]]
      /\ d.notes = b.notes /\ d.checkpoint = b.checkpoint
  BY <1>1, <1>3 DEF Bodies, Version
<1> HIDE DEF d
<1>5. Retained(d) = d
  BY <1>2, <1>4, RetainedKeeps
<1>6. Summarised(b, f) = e
  BY <1>5 DEF Summarised, c, d
<1>7. /\ e \in Bodies /\ e.recent = r /\ e.summary = d.summary
      /\ e.notes = b.notes \cup {<<f, text[f]>>} /\ e.checkpoint = b.checkpoint
  <2>1. d.notes \cup {<<f, text[f]>>} \in SUBSET (Paths \X Nat)
    BY <1>1, <1>4 DEF Bodies
  <2> QED
    BY <1>4, <2>1 DEF Bodies
<1> HIDE DEF e
<1>8. NotesHeld(e)
  <2> SUFFICES ASSUME NEW n \in e.notes PROVE e.summary[n[1]] = n[2]
    BY DEF NotesHeld
  <2>1. b.summary \in [Paths -> Version] /\ b.notes \subseteq Paths \X Nat
    BY <1>1 DEF Bodies
  <2>2. CASE n \in b.notes
    <3>1. n[1] \in Paths /\ n[2] \in Nat /\ b.summary[n[1]] = n[2]
      BY <2>1, <2>2 DEF IsMemory, NotesHeld
    <3>2. n[1] = f => n[2] = text[f]
      BY <3>1 DEF None
    <3> QED
      BY <1>4, <1>7, <2>1, <3>1, <3>2
  <2>3. CASE n = <<f, text[f]>>
    BY <1>4, <1>7, <2>1, <2>3
  <2> QED
    BY <1>7, <2>2, <2>3
<1> QED
  BY <1>2, <1>6, <1>7, <1>8 DEF IsMemory

LEMMA ForgottenHolds ==
    ASSUME NEW b, IsMemory(b), NEW gone
    PROVE  /\ IsMemory(Forgotten(b, gone))
           /\ Forgotten(b, gone).checkpoint = b.checkpoint
           /\ Forgotten(b, gone).taken = b.taken
           /\ Forgotten(b, gone).recent = b.recent
           /\ Forgotten(b, gone).notes = {n \in b.notes : n[1] \notin gone}
<1> DEFINE e == Forgotten(b, gone)
<1>1. b \in Bodies /\ b.summary \in [Paths -> Version] /\ b.notes \subseteq Paths \X Nat
  BY DEF IsMemory, Bodies
<1>2. /\ e.summary = [f \in Paths |-> IF f \in gone THEN None ELSE b.summary[f]]
      /\ e.notes = {n \in b.notes : n[1] \notin gone}
      /\ e.recent = b.recent /\ e.checkpoint = b.checkpoint /\ e.taken = b.taken
      /\ e \in Bodies
  BY <1>1 DEF Forgotten, Bodies, Version
<1> HIDE DEF e
<1>3. NotesHeld(e)
  <2> SUFFICES ASSUME NEW n \in e.notes PROVE e.summary[n[1]] = n[2]
    BY DEF NotesHeld
  <2>1. n \in b.notes /\ n[1] \in Paths /\ n[1] \notin gone /\ b.summary[n[1]] = n[2]
    BY <1>1, <1>2 DEF IsMemory, NotesHeld
  <2> QED
    BY <1>2, <2>1
<1>4. IsMemory(e)
  BY <1>2, <1>3 DEF IsMemory
<1> QED
  BY <1>2, <1>4 DEF e

(* What survives the invalidation is what the files say now.               *)
LEMMA InvalidatedIsFresh ==
    ASSUME text \in [Paths -> Nat], NEW b, IsMemory(b)
    PROVE  /\ IsMemory(Invalidated(b))
           /\ Invalidated(b).checkpoint = b.checkpoint
           /\ Invalidated(b).taken = b.taken
           /\ \A s \in ShownBy(Invalidated(b)) : text[s[1]] = s[2]
<1> DEFINE e == Invalidated(b)
<1>1. /\ IsMemory(e) /\ e.checkpoint = b.checkpoint /\ e.taken = b.taken
      /\ e.notes = {n \in b.notes : n[1] \notin StaleSummaries(b)}
  <2> DEFINE gone == StaleSummaries(b)
  <2>1. e = Forgotten(b, gone)
    BY DEF Invalidated
  <2> HIDE DEF gone, e
  <2>2. /\ IsMemory(Forgotten(b, gone))
        /\ Forgotten(b, gone).checkpoint = b.checkpoint
        /\ Forgotten(b, gone).taken = b.taken
        /\ Forgotten(b, gone).notes = {n \in b.notes : n[1] \notin gone}
    BY ForgottenHolds
  <2> QED
    BY <2>1, <2>2 DEF gone
<1>2. ASSUME NEW n \in e.notes PROVE text[n[1]] = n[2]
  <2>1. b.notes \subseteq Paths \X Nat
    BY DEF IsMemory, Bodies
  <2>2. /\ n \in b.notes /\ n[1] \in Paths /\ n[2] \in Nat /\ b.summary[n[1]] = n[2]
        /\ n[1] \notin StaleSummaries(b)
    BY <1>1, <1>2, <2>1 DEF IsMemory, NotesHeld
  <2> QED
    BY <2>2 DEF StaleSummaries, None
<1> HIDE DEF e
<1>3. ASSUME NEW s \in ShownBy(e) PROVE text[s[1]] = s[2]
  <2>1. CASE s \in e.notes
    BY <1>2, <2>1
  <2>2. CASE \E f \in {g \in ToSet(e.recent) : e.summary[g] = text[g]} :
                s = <<f, e.summary[f]>>
    BY <2>2
  <2> QED
    BY <1>3, <2>1, <2>2 DEF ShownBy
<1> QED
  BY <1>1, <1>3 DEF e

----------------------------------------------------------------------------
(* A copy is exchanged for another; files, prompts and the disk stay.      *)
LEMMA KeepMemory ==
    ASSUME MemoryInv, NEW p \in Procs, NEW b, IsMemory(b), Keep(p, b),
           \A f \in Paths : b.checkpoint[f] \in {live[p].body.checkpoint[f], None, text[f]},
           UNCHANGED <<text, disk, shown, resume>>
    PROVE  MemoryInv'
<1>1. live' = [live EXCEPT ![p].body = b] /\ live \in [Procs -> [rev: Int, body: Bodies]]
  BY DEF Keep, MemoryInv
<1>2. b \in Bodies
  BY DEF IsMemory
<1>3. /\ live' \in [Procs -> [rev: Int, body: Bodies]]
      /\ live'[p].body = b /\ \A q \in Procs \ {p} : live'[q] = live[q]
  BY <1>1, <1>2
<1>4. \A q \in Procs : IsMemory(live'[q].body)
  BY <1>3 DEF MemoryInv
<1>5. ShownIsFresh'
  <2> SUFFICES ASSUME NEW q \in Procs
               PROVE  /\ \A s \in shown[q] : text[s[1]] = s[2]
                      /\ resume[q] = "full-valid" =>
                           \A f \in Paths : live'[q].body.checkpoint[f] \in {None, text[f]}
    BY DEF ShownIsFresh
  <2>1. CASE q = p
    BY <1>3, <2>1 DEF MemoryInv, ShownIsFresh
  <2>2. CASE q # p
    BY <1>3, <2>2 DEF MemoryInv, ShownIsFresh
  <2> QED
    BY <2>1, <2>2
<1> QED
  BY <1>3, <1>4, <1>5 DEF MemoryInv, IsMemory

(* Whoever changes a file ends every prompt.                               *)
LEMMA EditMemory ==
    ASSUME MemoryInv, NEW f \in Paths, text' = [text EXCEPT ![f] = @ + 1],
           shown' = [q \in Procs |-> {}], resume' = [q \in Procs |-> "no-checkpoint"],
           disk' = disk, live' \in [Procs -> [rev: Int, body: Bodies]],
           \A q \in Procs : IsMemory(live'[q].body)
    PROVE  MemoryInv'
<1>1. text' \in [Paths -> Nat]
  BY DEF MemoryInv
<1>2. ShownIsFresh'
  BY DEF ShownIsFresh
<1> QED
  BY <1>1, <1>2 DEF MemoryInv, IsMemory

LEMMA NewMemory == IsMemory(NewSession)
BY DEF IsMemory, NewSession, Unread, Bodies, Version, Once, NotesHeld

LEMMA InitMemory == Init => MemoryInv
<1> SUFFICES ASSUME Init PROVE MemoryInv
  OBVIOUS
<1>1. text \in [Paths -> Nat]
  BY DEF Init
<1>2. Absent \in [rev: Int, body: Bodies] /\ Absent.body = NewSession
  BY NewMemory DEF IsMemory, Absent
<1>3. ShownIsFresh /\ DOMAIN shown = Procs /\ DOMAIN resume = Procs
  BY DEF Init, ShownIsFresh
<1>4. /\ disk \in [rev: Int, body: Bodies] /\ IsMemory(disk.body)
      /\ live \in [Procs -> [rev: Int, body: Bodies]]
      /\ \A p \in Procs : IsMemory(live[p].body)
  BY <1>2, NewMemory DEF Init
<1> QED
  BY <1>1, <1>3, <1>4 DEF MemoryInv

LEMMA NextMemory ==
    ASSUME Few, ~Masks, MemoryInv, [Next]_vars
    PROVE  MemoryInv'
<1>1. /\ text \in [Paths -> Nat] /\ live \in [Procs -> [rev: Int, body: Bodies]]
      /\ \A p \in Procs : IsMemory(live[p].body) /\ live[p].body \in Bodies
  BY DEF MemoryInv, IsMemory
<1>2. ASSUME NEW p \in Procs, Open(p) PROVE MemoryInv'
  <2> DEFINE b == Invalidated(disk.body)
  <2>1. /\ IsMemory(b) /\ b.checkpoint = disk.body.checkpoint /\ b.taken = disk.body.taken
    BY <1>1, InvalidatedIsFresh DEF MemoryInv
  <2>2. b \in Bodies /\ disk \in [rev: Int, body: Bodies]
    BY <2>1 DEF MemoryInv, IsMemory
  <2>3. /\ live' = [live EXCEPT ![p] = [disk EXCEPT !.body = b]]
        /\ resume' = [resume EXCEPT ![p] =
                        ResumeStatus(disk.body, StaleSummaries(disk.body))]
        /\ UNCHANGED <<text, disk, shown>>
    BY <1>2 DEF Open, fileVars
  <2> HIDE DEF b
  <2>4. /\ live' \in [Procs -> [rev: Int, body: Bodies]] /\ live'[p].body = b
        /\ \A q \in Procs \ {p} : live'[q] = live[q]
    BY <1>1, <2>2, <2>3
  <2>5. resume'[p] = "full-valid" =>
           \A f \in Paths : disk.body.checkpoint[f] \in {None, text[f]}
    BY <2>3 DEF ResumeStatus, MemoryInv
  <2>6. ShownIsFresh'
    <3> SUFFICES ASSUME NEW q \in Procs
                 PROVE  /\ \A s \in shown[q] : text[s[1]] = s[2]
                        /\ resume'[q] = "full-valid" =>
                             \A f \in Paths : live'[q].body.checkpoint[f] \in {None, text[f]}
      BY <2>3 DEF ShownIsFresh
    <3>1. CASE q = p
      BY <2>1, <2>4, <2>5, <3>1 DEF MemoryInv, ShownIsFresh
    <3>2. CASE q # p
      BY <2>3, <2>4, <3>2 DEF MemoryInv, ShownIsFresh
    <3> QED
      BY <3>1, <3>2
  <2> QED
    BY <1>1, <2>1, <2>3, <2>4, <2>6 DEF MemoryInv, IsMemory
<1>3. ASSUME NEW p \in Procs, NEW m \in Marks, Record(p, m) PROVE MemoryInv'
  <2> DEFINE b == [live[p].body EXCEPT !.marks = @ \cup {m}]
  <2>1. IsMemory(b) /\ b.checkpoint = live[p].body.checkpoint
    BY <1>1 DEF IsMemory, Bodies, NotesHeld
  <2> HIDE DEF b
  <2>2. Keep(p, b) /\ UNCHANGED <<text, disk, shown, resume>>
    BY <1>3 DEF Record, Saves, fileVars, b
  <2> QED
    BY <2>1, <2>2, KeepMemory
<1>4. ASSUME NEW p \in Procs, NEW f \in Paths, ReadFile(p, f) PROVE MemoryInv'
  <2> DEFINE b == Summarised(live[p].body, f)
  <2>1. live[p].body.summary[f] \in {None, text[f]}
    BY <1>4 DEF ReadFile
  <2>2. IsMemory(b) /\ b.checkpoint = live[p].body.checkpoint
    BY <1>1, <2>1, SummarisedHolds
  <2> HIDE DEF b
  <2>3. Keep(p, b) /\ UNCHANGED <<text, disk, shown, resume>>
    BY <1>4 DEF ReadFile, Saves, fileVars, b
  <2> QED
    BY <2>2, <2>3, KeepMemory
<1>5. ASSUME NEW p \in Procs, NEW f \in Paths, WriteFile(p, f) PROVE MemoryInv'
  <2> DEFINE c == Remember(live[p].body, f)
             b == Forgotten(c, {f})
  <2>1. IsMemory(c)
    <3>1. live[p].body \in Bodies /\ Once(live[p].body.recent)
      BY <1>1 DEF IsMemory
    <3>2. PICK r \in Seq(Paths) : Once(r) /\ c = [live[p].body EXCEPT !.recent = r]
      BY <3>1, RememberHolds, Zenon
    <3> HIDE DEF c
    <3> QED
      BY <1>1, <3>1, <3>2 DEF IsMemory, Bodies, NotesHeld
  <2>2. IsMemory(b) /\ b \in Bodies
    BY <2>1, ForgottenHolds DEF IsMemory
  <2> HIDE DEF b
  <2>3. /\ text' = [text EXCEPT ![f] = @ + 1] /\ disk' = disk
        /\ live' = [live EXCEPT ![p].body = b]
        /\ shown' = [q \in Procs |-> {}] /\ resume' = [q \in Procs |-> "no-checkpoint"]
    BY <1>5 DEF WriteFile, Saves, Keep, fileVars, b
  <2>4. /\ live' \in [Procs -> [rev: Int, body: Bodies]]
        /\ \A q \in Procs : IsMemory(live'[q].body)
    BY <1>1, <2>2, <2>3
  <2> QED
    BY <2>3, <2>4, EditMemory
<1>6. ASSUME NEW f \in Paths, Edit(f) PROVE MemoryInv'
  <2>1. /\ text' = [text EXCEPT ![f] = @ + 1] /\ UNCHANGED <<disk, live>>
        /\ shown' = [q \in Procs |-> {}] /\ resume' = [q \in Procs |-> "no-checkpoint"]
    BY <1>6 DEF Edit, fileVars
  <2> QED
    BY <1>1, <2>1, EditMemory
<1>7. ASSUME NEW p \in Procs, Checkpoint(p) PROVE MemoryInv'
  <2> DEFINE key == [f \in Paths |-> IF f \in ToSet(live[p].body.recent)
                                     THEN text[f] ELSE None]
             b == [live[p].body EXCEPT !.taken = TRUE, !.checkpoint = key]
  <2>1. key \in [Paths -> Version] /\ \A f \in Paths : key[f] \in {None, text[f]}
    BY <1>1 DEF Version
  <2>2. Keep(p, b) /\ UNCHANGED <<text, disk, shown, resume>>
    BY <1>7 DEF Checkpoint, Saves, fileVars
  <2> HIDE DEF key
  <2>3. IsMemory(b) /\ b.checkpoint = key
    BY <1>1, <2>1 DEF IsMemory, Bodies, NotesHeld
  <2> HIDE DEF b
  <2> QED
    BY <2>1, <2>2, <2>3, KeepMemory
<1>8. ASSUME NEW p \in Procs, BuildPrompt(p) PROVE MemoryInv'
  <2> DEFINE b == Invalidated(live[p].body)
  <2>1. /\ IsMemory(b) /\ b.checkpoint = live[p].body.checkpoint
        /\ \A s \in ShownBy(b) : text[s[1]] = s[2]
    BY <1>1, InvalidatedIsFresh
  <2>2. /\ live' = [live EXCEPT ![p].body = b] /\ UNCHANGED <<text, disk>>
        /\ shown' = [shown EXCEPT ![p] = ShownBy(b)]
        /\ resume' = [resume EXCEPT ![p] = ResumeStatus(b, StaleSummaries(live[p].body))]
    BY <1>8 DEF BuildPrompt, Keep, fileVars
  <2> HIDE DEF b
  <2>3. /\ live' \in [Procs -> [rev: Int, body: Bodies]] /\ live'[p].body = b
        /\ \A q \in Procs \ {p} : live'[q] = live[q]
    BY <1>1, <2>1, <2>2 DEF IsMemory
  <2>4. resume'[p] = "full-valid" => \A f \in Paths : b.checkpoint[f] \in {None, text[f]}
    BY <2>2 DEF ResumeStatus, MemoryInv
  <2>5. ShownIsFresh'
    <3> SUFFICES ASSUME NEW q \in Procs
                 PROVE  /\ \A s \in shown'[q] : text[s[1]] = s[2]
                        /\ resume'[q] = "full-valid" =>
                             \A f \in Paths : live'[q].body.checkpoint[f] \in {None, text[f]}
      BY <2>2 DEF ShownIsFresh
    <3>1. CASE q = p
      BY <2>1, <2>2, <2>3, <2>4, <3>1 DEF MemoryInv
    <3>2. CASE q # p
      BY <2>2, <2>3, <3>2 DEF MemoryInv, ShownIsFresh
    <3> QED
      BY <3>1, <3>2
  <2> QED
    BY <1>1, <2>1, <2>2, <2>3, <2>5 DEF MemoryInv, IsMemory
<1>9. ASSUME NEW p \in Procs, Replace(p) PROVE MemoryInv'
  <2>1. /\ live' = [live EXCEPT ![p].rev = @ + 1] /\ disk' = [live[p] EXCEPT !.rev = @ + 1]
        /\ UNCHANGED <<text, shown, resume>>
    BY <1>9 DEF Replace
  <2>2. /\ live' \in [Procs -> [rev: Int, body: Bodies]]
        /\ disk' \in [rev: Int, body: Bodies] /\ disk'.body = live[p].body
        /\ \A q \in Procs : live'[q].body = live[q].body
    BY <1>1, <2>1
  <2>3. ShownIsFresh'
    BY <2>1, <2>2 DEF MemoryInv, ShownIsFresh
  <2> QED
    BY <1>1, <2>1, <2>2, <2>3 DEF MemoryInv, IsMemory
<1>10. ASSUME NEW p \in Procs, Crash(p) PROVE MemoryInv'
  <2>1. /\ live' = [live EXCEPT ![p] = Absent] /\ UNCHANGED <<text, disk>>
        /\ shown' = [shown EXCEPT ![p] = {}]
        /\ resume' = [resume EXCEPT ![p] = "no-checkpoint"]
    BY <1>10 DEF Crash
  <2>2. Absent \in [rev: Int, body: Bodies] /\ IsMemory(Absent.body)
    BY NewMemory DEF IsMemory, Absent
  <2>3. /\ live' \in [Procs -> [rev: Int, body: Bodies]] /\ live'[p] = Absent
        /\ \A q \in Procs \ {p} : live'[q] = live[q]
    BY <1>1, <2>1, <2>2
  <2>4. ShownIsFresh'
    <3> SUFFICES ASSUME NEW q \in Procs
                 PROVE  /\ \A s \in shown'[q] : text[s[1]] = s[2]
                        /\ resume'[q] = "full-valid" =>
                             \A f \in Paths : live'[q].body.checkpoint[f] \in {None, text[f]}
      BY <2>1 DEF ShownIsFresh
    <3>1. CASE q = p
      BY <2>1, <3>1 DEF MemoryInv
    <3>2. CASE q # p
      BY <2>1, <2>3, <3>2 DEF MemoryInv, ShownIsFresh
    <3> QED
      BY <3>1, <3>2
  <2> QED
    BY <1>1, <2>1, <2>2, <2>3, <2>4 DEF MemoryInv, IsMemory
<1>11. ASSUME UNCHANGED <<text, disk, live, shown, resume>> PROVE MemoryInv'
  BY <1>11 DEF MemoryInv, ShownIsFresh, IsMemory, NotesHeld
<1>12. ASSUME NEW p \in Procs, Refuse(p) \/ Lock(p) \/ Backup(p) PROVE MemoryInv'
  BY <1>11, <1>12 DEF Refuse, Lock, Backup, fileVars
<1>13. ASSUME NEW p \in Procs,
              WriteIndex(p) \/ WriteRecords(p) \/ WriteTopics(p) \/ \E x \in Facts : Promote(p, x)
       PROVE  MemoryInv'
  <2>1. UNCHANGED <<text, disk, live, shown, resume>>
    BY <1>13 DEF WriteIndex, WriteRecords, WriteTopics, Promote, fileVars
  <2> QED
    BY <1>11, <2>1
<1>14. CASE UNCHANGED vars
  BY <1>11, <1>14 DEF vars
<1> QED
  BY <1>2, <1>3, <1>4, <1>5, <1>6, <1>7, <1>8, <1>9, <1>10, <1>12, <1>13, <1>14, Zenon
     DEF Next, Step

(* A prompt shows no summary or note of a file that has changed since it   *)
(* was read, and takes no checkpoint with a changed key file for valid,    *)
(* while no summary is evicted (no more files than FILE_SUMMARY_LIMIT) and *)
(* no file changes and is read again between two prompts: through crashes, *)
(* refused saves, other processes' edits and any number of processes.      *)
THEOREM FreshMemoryIsShown ==
    ASSUME Few, ~Masks
    PROVE  Spec => []ShownIsFresh
<1>1. MemoryInv => ShownIsFresh
  BY DEF MemoryInv
<1>2. MemoryInv /\ [Next]_vars => MemoryInv'
  BY NextMemory
<1> QED
  BY <1>1, <1>2, InitMemory, PTL DEF Spec
=============================================================================
