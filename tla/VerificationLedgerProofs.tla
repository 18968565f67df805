---------------------- MODULE VerificationLedgerProofs ----------------------
(***************************************************************************)
(* VerificationLedger: what is delivered was tested, no failure is         *)
(* delivered and the review is current, for any paths, checks, windows and *)
(* revisions, when no call is torn from its record.                        *)
(*                                                                         *)
(* The ledger does not say which revision was tested.  EvidenceOK is what  *)
(* it does say: with nothing unverified in it, either the last passing     *)
(* check ran on the code as it is, or nothing was ever changed and no      *)
(* passing check is on record.  It holds while no call is half done, and   *)
(* of whichever copy of the ledger the next run will resume.  The types    *)
(* and the windows of the ledger (TypesInv) need no such assumption.       *)
(***************************************************************************)
EXTENDS VerificationLedger, FiniteSetTheorems, FunctionTheorems, TLAPS

(* No effect of a tool is lost with its record. *)
NothingTorn == MaxTorn = 0

Record == [kind: {"validation", "other"}, ok: BOOLEAN]

Ledger == [unverified: SUBSET Paths, failures: SUBSET Checks, validations: Seq(Record),
           mutated: BOOLEAN]

Session == [ledger: Ledger, need: BOOLEAN, needTest: BOOLEAN]

(* The ledger the session has now: in memory, or in its file. *)
Current == IF process = "down" THEN file.ledger ELSE session.ledger

ShapeOK ==
    /\ ledger \in Ledger /\ session \in Session /\ file \in Session
    /\ call \in Calls \cup {NoCall} /\ stage \in {"none", "ran", "returned"}
    /\ stage = "none" <=> call = NoCall
    /\ process \in {"down", "idle", "running"}
    /\ txn \in {"none", "open", "blocked", "committed"}
    /\ verdict \in [Checks -> {"none", "passed", "failed"}] /\ torn = 0

(* Where the copies agree. *)
CopiesOK ==
    /\ stage # "none" => process = "running"
    /\ process # "down" /\ stage # "returned" => file = session
    /\ process = "running" => session.ledger = ledger /\ txn = "open"
    /\ txn \in {"none", "committed"} => Current = EmptyLedger

(* No tool has changed the shadow that has not returned yet. *)
Settling == stage = "ran" => call.changed = {}

EvidenceOK ==
    Settling =>
        /\ last = "passed" => tested = revision
        /\ review => tested = revision
        /\ Current.unverified = {} =>
              tested = revision \/ (~Current.mutated /\ ~HasPassed(Current))

VerdictOK ==
    txn \in {"open", "blocked"} =>
        \A c \in Checks : verdict[c] = "failed" => c \in Current.failures

LedgerInv == ShapeOK /\ CopiesOK /\ EvidenceOK /\ VerdictOK

----------------------------------------------------------------------------
(* What a call leaves in the ledger.                                       *)

LEMMA SubsetOfSize ==
    ASSUME NEW S, IsFiniteSet(S), NEW k \in Nat, k <= Cardinality(S)
    PROVE  \E T \in SUBSET S : Cardinality(T) = k
<1> DEFINE n == Cardinality(S)
<1>1. n \in Nat /\ ExistsBijection(1..n, S)
  BY FS_CardinalityType
<1>2. PICK f \in Bijection(1..n, S) : TRUE
  BY <1>1 DEF ExistsBijection
<1> DEFINE T == {f[i] : i \in 1..k}
           g == [i \in 1..k |-> f[i]]
<1>3. /\ f \in [1..n -> S] /\ \A i, j \in 1..n : f[i] = f[j] => i = j
  BY <1>2, Fun_BijectionProperties
<1>4. 1..k \subseteq 1..n
  BY <1>1
<1>5. g \in Bijection(1..k, T)
  <2>1. g \in [1..k -> T] /\ \A i, j \in 1..k : g[i] = g[j] => i = j
    BY <1>3, <1>4
  <2>2. \A t \in T : \E i \in 1..k : g[i] = t
    OBVIOUS
  <2> HIDE DEF g, T
  <2> QED  BY <2>1, <2>2, Fun_IsBij
<1>6. ExistsBijection(1..k, T)
  BY <1>5 DEF ExistsBijection
<1>7. IsFiniteSet(1..k) /\ Cardinality(1..k) = k
  BY FS_Interval
<1>8. Cardinality(T) = k
  BY <1>6, <1>7, FS_Bijection
<1>9. T \in SUBSET S
  BY <1>3, <1>4
<1> QED  BY <1>8, <1>9

LEMMA MarkedLedger ==
    ASSUME NEW l \in Ledger, NEW paths \in SUBSET Paths
    PROVE  /\ Marked(l, paths) \in Ledger
           /\ Marked(l, paths).failures = l.failures
           /\ Marked(l, paths).validations = l.validations
           /\ paths = {} => Marked(l, paths) = l
           /\ paths # {} => Marked(l, paths).unverified # {}
<1> DEFINE all == l.unverified \cup paths
           kept == IF Cardinality(all) <= MaxUnverified THEN all
                   ELSE CHOOSE some \in SUBSET all : Cardinality(some) = MaxUnverified
<1>1. CASE paths = {}
  BY <1>1 DEF Marked, Ledger
<1>2. CASE paths # {}
  <2>1. all \subseteq Paths /\ all # {} /\ IsFiniteSet(all) /\ Cardinality(all) \in Nat
    <3>1. all \subseteq Paths /\ all # {}
      BY <1>2 DEF Ledger
    <3>2. IsFiniteSet(all)
      BY <3>1, PathAssumption, FS_Subset
    <3> QED  BY <3>1, <3>2, FS_CardinalityType
  <2>2. kept \subseteq Paths /\ kept # {}
    <3>1. CASE Cardinality(all) <= MaxUnverified
      BY <2>1, <3>1
    <3>2. CASE ~(Cardinality(all) <= MaxUnverified)
      <4>1. MaxUnverified \in Nat /\ MaxUnverified # 0
        BY WindowAssumption
      <4>2. \E some \in SUBSET all : Cardinality(some) = MaxUnverified
        <5> HIDE DEF all
        <5> QED  BY <2>1, <3>2, <4>1, SubsetOfSize
      <4>3. kept \in SUBSET all /\ Cardinality(kept) = MaxUnverified
        BY <3>2, <4>2
      <4>4. kept # {}
        BY <4>1, <4>3, FS_EmptySet
      <4> QED  BY <2>1, <4>3, <4>4
    <3> QED  BY <3>1, <3>2
  <2>3. Marked(l, paths) = [l EXCEPT !.unverified = kept, !.mutated = TRUE]
    BY <1>2 DEF Marked
  <2> HIDE DEF kept
  <2> QED  BY <1>2, <2>2, <2>3 DEF Ledger
<1> QED  BY <1>1, <1>2

LEMMA WindowedRecords ==
    ASSUME NEW s \in Seq(Record)
    PROVE  /\ Windowed(s) \in Seq(Record)
           /\ \A i \in DOMAIN Windowed(s) : \E j \in DOMAIN s : Windowed(s)[i] = s[j]
<1>1. CASE Len(s) <= MaxValidations
  BY <1>1 DEF Windowed
<1>2. CASE Len(s) > MaxValidations
  <2> DEFINE m == Len(s) - MaxValidations + 1
  <2>1. m \in Nat /\ m >= 1 /\ m <= Len(s) /\ Len(s) \in Nat
    BY <1>2, WindowAssumption
  <2>2. Windowed(s) = SubSeq(s, m, Len(s))
    BY <1>2, WindowAssumption DEF Windowed
  <2> HIDE DEF m
  <2>3. /\ SubSeq(s, m, Len(s)) \in Seq(Record)
        /\ Len(SubSeq(s, m, Len(s))) = Len(s) - m + 1
        /\ \A i \in 1 .. Len(s) - m + 1 : SubSeq(s, m, Len(s))[i] = s[m + i - 1]
    BY <2>1
  <2>4. /\ Windowed(s) \in Seq(Record)
        /\ DOMAIN Windowed(s) = 1 .. Len(s) - m + 1
        /\ \A i \in DOMAIN Windowed(s) : Windowed(s)[i] = s[m + i - 1]
    BY <2>1, <2>2, <2>3
  <2>5. \A i \in 1 .. Len(s) - m + 1 : m + i - 1 \in DOMAIN s
    BY <2>1
  <2> QED  BY <2>4, <2>5
<1> QED  BY <1>1, <1>2, WindowAssumption

LEMMA RecordedLedger ==
    ASSUME NEW l \in Ledger, NEW c \in Calls
    PROVE  /\ Recorded(l, c) \in Ledger
           /\ Recorded(l, c).failures = l.failures
           /\ Recorded(l, c).unverified = l.unverified
           /\ Recorded(l, c).mutated = l.mutated
           /\ HasPassed(Recorded(l, c)) => HasPassed(l) \/ (c.tool = "acceptance" /\ c.ok)
<1> DEFINE r == [kind |-> IF c.tool = "acceptance" THEN "validation" ELSE "other", ok |-> c.ok]
           s == Append(l.validations, r)
<1>1. CASE c.tool = "write"
  BY <1>1 DEF Recorded
<1>2. CASE c.tool # "write"
  <2>1. r \in Record
    BY DEF Record, Calls
  <2>2. s \in Seq(Record) /\ l.validations \in Seq(Record)
    <3> HIDE DEF r
    <3> QED  BY <2>1 DEF Ledger
  <2>3. \A j \in DOMAIN s : s[j] = r \/ (j \in DOMAIN l.validations /\ s[j] = l.validations[j])
    <3> HIDE DEF r
    <3> QED  BY <2>1, <2>2
  <2>4. Recorded(l, c) = [l EXCEPT !.validations = Windowed(s)]
    BY <1>2 DEF Recorded
  <2> HIDE DEF s
  <2>5. /\ Windowed(s) \in Seq(Record)
        /\ \A i \in DOMAIN Windowed(s) : \E j \in DOMAIN s : Windowed(s)[i] = s[j]
    BY <2>2, WindowedRecords
  <2>6. /\ Recorded(l, c) \in Ledger /\ Recorded(l, c).failures = l.failures
        /\ Recorded(l, c).unverified = l.unverified /\ Recorded(l, c).mutated = l.mutated
        /\ Recorded(l, c).validations = Windowed(s)
    BY <2>4, <2>5 DEF Ledger
  <2>7. ASSUME HasPassed(Recorded(l, c)) PROVE HasPassed(l) \/ (c.tool = "acceptance" /\ c.ok)
    <3>1. PICK i \in DOMAIN Windowed(s) : Windowed(s)[i].kind = "validation" /\ Windowed(s)[i].ok
      BY <2>6, <2>7 DEF HasPassed, Validations
    <3>2. PICK j \in DOMAIN s : Windowed(s)[i] = s[j]
      BY <2>5
    <3>3. CASE s[j] = r
      BY <3>1, <3>2, <3>3
    <3>4. CASE j \in DOMAIN l.validations /\ s[j] = l.validations[j]
      BY <3>1, <3>2, <3>4 DEF HasPassed, Validations
    <3> QED  BY <2>3, <3>3, <3>4
  <2> QED  BY <2>6, <2>7
<1> QED  BY <1>1, <1>2

LEMMA ObservedLedger ==
    ASSUME NEW l \in Ledger, NEW c \in Calls
    PROVE  /\ Observed(l, c) \in Ledger
           /\ Observed(l, c).failures =
                 IF c.tool # "acceptance" THEN l.failures
                 ELSE IF Passed(c) THEN l.failures \ {c.check} ELSE l.failures \cup {c.check}
           /\ Observed(l, c).unverified = {} => Passed(c) \/ (c.changed = {} /\ l.unverified = {})
           /\ c.changed = {} => Observed(l, c).mutated = l.mutated
           /\ HasPassed(Observed(l, c)) => HasPassed(l) \/ (c.tool = "acceptance" /\ c.ok)
<1> DEFINE m == Marked(l, c.changed)
           r == Recorded(m, c)
<1>1. c.changed \in SUBSET Paths /\ c.check \in Checks
  BY DEF Calls
<1>2. /\ m \in Ledger /\ m.failures = l.failures /\ m.validations = l.validations
      /\ c.changed = {} => m = l
      /\ c.changed # {} => m.unverified # {}
  BY <1>1, MarkedLedger
<1>3. HasPassed(m) = HasPassed(l)
  BY <1>2 DEF HasPassed, Validations
<1>4. Observed(l, c) = Settled(r, c)
  BY DEF Observed
<1> HIDE DEF m
<1>5. /\ r \in Ledger /\ r.failures = m.failures /\ r.unverified = m.unverified
      /\ r.mutated = m.mutated
      /\ HasPassed(r) => HasPassed(m) \/ (c.tool = "acceptance" /\ c.ok)
  BY <1>2, RecordedLedger
<1> HIDE DEF r
<1>6. /\ Settled(r, c) \in Ledger
      /\ Settled(r, c).validations = r.validations /\ Settled(r, c).mutated = r.mutated
      /\ Settled(r, c).failures =
            IF c.tool # "acceptance" THEN r.failures
            ELSE IF Passed(c) THEN r.failures \ {c.check} ELSE r.failures \cup {c.check}
      /\ Settled(r, c).unverified = IF Passed(c) THEN {} ELSE r.unverified
  <2>1. CASE c.tool # "acceptance"
    BY <1>5, <2>1 DEF Settled, Passed
  <2>2. CASE c.tool = "acceptance" /\ Passed(c)
    <3>1. Settled(r, c) = [r EXCEPT !.unverified = {}, !.failures = @ \ {c.check}]
      BY <2>2 DEF Settled
    <3> QED  BY <1>1, <1>5, <2>2, <3>1 DEF Ledger
  <2>3. CASE c.tool = "acceptance" /\ ~Passed(c)
    <3>1. Settled(r, c) = [r EXCEPT !.failures = @ \cup {c.check}]
      BY <2>3 DEF Settled
    <3>2. /\ Settled(r, c) \in Ledger /\ Settled(r, c).validations = r.validations
          /\ Settled(r, c).mutated = r.mutated /\ Settled(r, c).unverified = r.unverified
          /\ Settled(r, c).failures = r.failures \cup {c.check}
      BY <1>1, <1>5, <3>1 DEF Ledger
    <3> QED  BY <2>3, <3>2
  <2> QED  BY <2>1, <2>2, <2>3
<1>7. HasPassed(Settled(r, c)) = HasPassed(r)
  BY <1>6 DEF HasPassed, Validations
<1> QED  BY <1>2, <1>3, <1>4, <1>5, <1>6, <1>7

LEMMA LeastOfFive ==
    ASSUME NEW S, S \subseteq 1..5, S # {}
    PROVE  \E i \in S : \A j \in S : i <= j
<1>1. CASE 1 \in S
  BY <1>1
<1>2. CASE 1 \notin S /\ 2 \in S
  BY <1>2
<1>3. CASE 1 \notin S /\ 2 \notin S /\ 3 \in S
  BY <1>3
<1>4. CASE 1 \notin S /\ 2 \notin S /\ 3 \notin S /\ 4 \in S
  BY <1>4
<1>5. CASE 1 \notin S /\ 2 \notin S /\ 3 \notin S /\ 4 \notin S
  <2>1. \A i \in S : i = 5
    <3> TAKE i \in S
    <3>1. i \in 1..5 /\ i # 1 /\ i # 2 /\ i # 3 /\ i # 4
      BY <1>5
    <3> QED  BY <3>1
  <2>2. PICK i \in S : TRUE
    OBVIOUS
  <2> QED  BY <2>1, <2>2
<1> QED  BY <1>1, <1>2, <1>3, <1>4, <1>5

LEMMA FiveIndices ==
    /\ 2 \in 1..5 /\ 5 \in 1..5
    /\ \A i \in 1..5 : i = 1 \/ i = 2 \/ i = 3 \/ i = 4 \/ i = 5
<1>1. 2 \in 1..5 /\ 5 \in 1..5
  OBVIOUS
<1>2. ASSUME NEW i \in 1..5 PROVE i = 1 \/ i = 2 \/ i = 3 \/ i = 4 \/ i = 5
  <2>1. i \in Int /\ 1 <= i /\ i <= 5
    OBVIOUS
  <2> QED  BY <2>1
<1> QED  BY <1>1, <1>2

LEMMA FiveReasons ==
    ASSUME NEW h1, NEW h2, NEW h3, NEW h4, NEW h5, NEW all,
           all = << [reason |-> "required_test_artifact_missing", holds |-> h1],
                    [reason |-> "verification_failed", holds |-> h2],
                    [reason |-> "verification_stale", holds |-> h3],
                    [reason |-> "verification_failed", holds |-> h4],
                    [reason |-> "verification_required", holds |-> h5] >>
    PROVE  /\ DOMAIN all = 1..5
           /\ all[1].reason # "" /\ all[2].reason # "" /\ all[3].reason # ""
           /\ all[4].reason # "" /\ all[5].reason # ""
           /\ (h2 => all[2].holds) /\ (h5 => all[5].holds)
<1>1. DOMAIN all = 1..5
  OBVIOUS
<1>2. /\ all[1].reason = "required_test_artifact_missing"
      /\ all[2].reason = "verification_failed"
      /\ all[3].reason = "verification_stale"
      /\ all[4].reason = "verification_failed"
      /\ all[5].reason = "verification_required"
  OBVIOUS
<1>3. (h2 => all[2].holds) /\ (h5 => all[5].holds)
  OBVIOUS
<1> QED  BY <1>1, <1>2, <1>3

(* A delivery has nothing against it: every objection has a reason.  Of    *)
(* what speaks against it, no check has failed and the change was tested.  *)
LEMMA NoObjection ==
    ASSUME NEW changes, Reason(changes) = ""
    PROVE  /\ ledger.failures = {}
           /\ changes # {} /\ (session.need \/ asked.need) =>
                 (HasPassed(ledger) /\ ledger.unverified = {}) \/ last = "passed"
<1> DEFINE all == Objections(changes)
           open == {i \in DOMAIN all : all[i].holds}
           failing == ledger.failures # {}
           unverified == ledger.unverified # {}
           passed == HasPassed(ledger) /\ ~failing /\ ~unverified
           h1 == session.needTest /\ changes # {} /\ changes \cap TestPaths = {}
           h3 == stale \/ (Validations(ledger) # {} /\ unverified)
           h4 == last = "failed"
           h5 == /\ changes # {} /\ (session.need \/ asked.need)
                 /\ ~(passed \/ last = "passed")
<1>1. /\ DOMAIN all = 1..5 /\ \A i \in 1..5 : all[i].reason # ""
      /\ (failing => all[2].holds) /\ (h5 => all[5].holds)
  <2>1. all = << [reason |-> "required_test_artifact_missing", holds |-> h1],
                 [reason |-> "verification_failed", holds |-> failing],
                 [reason |-> "verification_stale", holds |-> h3],
                 [reason |-> "verification_failed", holds |-> h4],
                 [reason |-> "verification_required", holds |-> h5] >>
    BY Zenon DEF Objections
  <2> HIDE DEF all, failing, h1, h3, h4, h5
  <2>2. /\ DOMAIN all = 1..5
        /\ all[1].reason # "" /\ all[2].reason # "" /\ all[3].reason # ""
        /\ all[4].reason # "" /\ all[5].reason # ""
        /\ (failing => all[2].holds) /\ (h5 => all[5].holds)
    BY <2>1, FiveReasons
  <2>3. \A i \in 1..5 : i = 1 \/ i = 2 \/ i = 3 \/ i = 4 \/ i = 5
    BY FiveIndices, Zenon
  <2>4. ASSUME NEW i \in 1..5 PROVE all[i].reason # ""
    BY <2>2, <2>3, Zenon
  <2> QED  BY <2>2, <2>4
<1>2. Reason(changes) = IF open = {} THEN ""
                        ELSE all[CHOOSE i \in open : \A j \in open : i <= j].reason
  BY DEF Reason
<1> HIDE DEF all
<1>3. open \subseteq 1..5
  BY <1>1
<1>4. open # {} => \E i \in open : \A j \in open : i <= j
  <2> HIDE DEF open
  <2> QED  BY <1>3, LeastOfFive
<1>5. open = {}
  <2> SUFFICES ASSUME open # {} PROVE FALSE
    OBVIOUS
  <2> DEFINE first == CHOOSE i \in open : \A j \in open : i <= j
  <2>1. first \in open
    <3> HIDE DEF open
    <3> QED  BY <1>4
  <2>2. all[first].reason # ""
    BY <1>1, <1>3, <2>1
  <2>3. Reason(changes) = all[first].reason
    <3> HIDE DEF first, open
    <3> QED  BY <1>2 DEF first
  <2> QED  BY <2>2, <2>3
<1>6. ~all[2].holds /\ ~all[5].holds
  <2>1. 2 \in 1..5 /\ 5 \in 1..5
    BY FiveIndices, Zenon
  <2> QED  BY <1>1, <1>5, <2>1, Zenon
<1>7. ~failing /\ ~h5
  <2> HIDE DEF failing, h5
  <2> QED  BY <1>1, <1>6, Zenon
<1> QED  BY <1>7, Zenon

----------------------------------------------------------------------------
(* LedgerInv is inductive.                                                 *)

LEMMA InitLedger == NothingTorn /\ Init => LedgerInv
<1> SUFFICES ASSUME NothingTorn, Init PROVE LedgerInv
  OBVIOUS
<1>1. EmptyLedger \in Ledger /\ EmptySession \in Session /\ ~HasPassed(EmptyLedger)
  BY DEF EmptyLedger, EmptySession, Ledger, Session, HasPassed, Validations
<1>2. ShapeOK
  BY <1>1 DEF Init, ShapeOK
<1>3. CopiesOK
  BY DEF Init, CopiesOK, Current, EmptySession
<1>4. EvidenceOK
  <2>1. Current = EmptyLedger
    BY DEF Init, Current, EmptySession
  <2> QED  BY <1>1, <2>1 DEF Init, EvidenceOK, EmptyLedger
<1>5. VerdictOK
  BY DEF Init, VerdictOK
<1> QED  BY <1>2, <1>3, <1>4, <1>5 DEF LedgerInv

(* What a run that never changed anything starts from. *)
LEMMA EmptyRecords ==
    /\ EmptyLedger \in Ledger /\ EmptySession \in Session
    /\ EmptySession.ledger = EmptyLedger
    /\ EmptyLedger.unverified = {} /\ ~EmptyLedger.mutated /\ ~HasPassed(EmptyLedger)
  BY DEF EmptyLedger, EmptySession, Ledger, Session, HasPassed, Validations

LEMMA NoTear == NothingTorn /\ ShapeOK => ~Tear
  BY DEF NothingTorn, ShapeOK, Tear

LEMMA OpenStep == LedgerInv /\ Open => LedgerInv'
<1> SUFFICES ASSUME LedgerInv, Open PROVE LedgerInv'
  OBVIOUS
<1> USE DEF LedgerInv
<1>1. Current' = Current /\ stage = "none" /\ stage' = "none"
  BY DEF Open, Current, CopiesOK, ShapeOK
<1>2. ShapeOK'
  BY DEF ShapeOK, Open, shadow, history
<1>3. CopiesOK'
  BY <1>1 DEF CopiesOK, ShapeOK, Open
<1>4. EvidenceOK'
  BY <1>1 DEF EvidenceOK, Settling, Open, shadow, history
<1>5. VerdictOK'
  BY <1>1 DEF VerdictOK, Open, history
<1> QED  BY <1>2, <1>3, <1>4, <1>5

LEMMA StartRunStep ==
    ASSUME NEW need \in BOOLEAN, NEW needTest \in BOOLEAN, LedgerInv, StartRun(need, needTest)
    PROVE  LedgerInv'
<1> USE DEF LedgerInv
<1>1. /\ Current = session.ledger /\ Current' = session.ledger /\ ledger' = session.ledger
      /\ review' = ReviewOf(session.ledger) /\ stage = "none" /\ stage' = "none"
  BY DEF StartRun, Resumed, Current, CopiesOK, ShapeOK
<1>2. session.ledger \in Ledger
  BY DEF ShapeOK, Session
<1>3. CASE txn = "open"
  <2>1. txn' = txn /\ last' = last /\ tested' = tested /\ verdict' = verdict /\ revision' = revision
    BY <1>3 DEF StartRun, shadow
  <2>2. ShapeOK'
    BY <1>1, <1>2, <2>1 DEF ShapeOK, StartRun
  <2>3. CopiesOK'
    BY <1>1, <1>3, <2>1 DEF CopiesOK, StartRun
  <2>4. EvidenceOK'
    BY <1>1, <2>1 DEF EvidenceOK, Settling, ReviewOf
  <2>5. VerdictOK'
    BY <1>1, <2>1 DEF VerdictOK
  <2> QED  BY <2>2, <2>3, <2>4, <2>5
<1>4. CASE txn # "open"
  <2>1. /\ txn' = "open" /\ last' = "none" /\ verdict' = [c \in Checks |-> "none"]
        /\ session.ledger = EmptyLedger
    BY <1>1, <1>4 DEF StartRun, CopiesOK, ShapeOK
  <2>2. ShapeOK'
    BY <1>1, <1>2, <2>1 DEF ShapeOK, StartRun
  <2>3. CopiesOK'
    BY <1>1, <2>1 DEF CopiesOK, StartRun
  <2>4. EvidenceOK'
    BY <1>1, <2>1, EmptyRecords DEF EvidenceOK, ReviewOf
  <2>5. VerdictOK'
    BY <2>1 DEF VerdictOK
  <2> QED  BY <2>2, <2>3, <2>4, <2>5
<1> QED  BY <1>3, <1>4

LEMMA RunToolStep ==
    ASSUME NEW c \in Calls, LedgerInv, RunTool(c)
    PROVE  LedgerInv'
<1> USE DEF LedgerInv
<1>1. /\ Current' = Current /\ stage = "none" /\ stage' = "ran" /\ call' = c /\ c # NoCall
      /\ c.changed = {} => revision' = revision
  BY DEF RunTool, memory, Current, ShapeOK, Calls, NoCall
<1>2. ShapeOK'
  BY <1>1 DEF ShapeOK, RunTool, memory, history
<1>3. CopiesOK'
  BY <1>1 DEF CopiesOK, RunTool, memory
<1>4. EvidenceOK'
  BY <1>1 DEF EvidenceOK, Settling, RunTool, memory, history
<1>5. VerdictOK'
  BY <1>1 DEF VerdictOK, RunTool, history
<1> QED  BY <1>2, <1>3, <1>4, <1>5

LEMMA ReturnStep == LedgerInv /\ Return => LedgerInv'
<1> SUFFICES ASSUME LedgerInv, Return PROVE LedgerInv'
  OBVIOUS
<1> USE DEF LedgerInv
<1>1. /\ stage = "ran" /\ stage' = "returned" /\ process = "running" /\ process' = "running"
      /\ txn = "open" /\ txn' = "open" /\ call' = call /\ revision' = revision
  BY DEF Return, CopiesOK, shadow
<1>2. call \in Calls /\ call # NoCall
  BY <1>1 DEF ShapeOK
<1>3. /\ Current = ledger /\ ledger' = Observed(ledger, call) /\ session'.ledger = ledger'
      /\ Current' = ledger' /\ ledger \in Ledger
  BY <1>1 DEF Return, SessionAfter, Current, CopiesOK, ShapeOK
<1>4. /\ ledger' \in Ledger
      /\ ledger'.failures =
            IF call.tool # "acceptance" THEN ledger.failures
            ELSE IF Passed(call) THEN ledger.failures \ {call.check}
            ELSE ledger.failures \cup {call.check}
      /\ ledger'.unverified = {} => Passed(call) \/ (call.changed = {} /\ ledger.unverified = {})
      /\ call.changed = {} => ledger'.mutated = ledger.mutated
      /\ HasPassed(ledger') => HasPassed(ledger) \/ (call.tool = "acceptance" /\ call.ok)
  <2> DEFINE next == Observed(ledger, call)
  <2>1. /\ next \in Ledger
        /\ next.failures =
              IF call.tool # "acceptance" THEN ledger.failures
              ELSE IF Passed(call) THEN ledger.failures \ {call.check}
              ELSE ledger.failures \cup {call.check}
        /\ next.unverified = {} => Passed(call) \/ (call.changed = {} /\ ledger.unverified = {})
        /\ call.changed = {} => next.mutated = ledger.mutated
        /\ HasPassed(next) => HasPassed(ledger) \/ (call.tool = "acceptance" /\ call.ok)
    BY <1>2, <1>3, ObservedLedger
  <2>2. ledger' = next
    BY <1>3
  <2> HIDE DEF next
  <2> QED  BY <2>1, <2>2
<1>5. call.check \in Checks /\ call.ok \in BOOLEAN /\ call.raised \in BOOLEAN
      /\ call.changed \in SUBSET Paths
  BY <1>2 DEF Calls
<1>6. tested' = IF Passed(call) THEN revision ELSE tested
  BY DEF Return, Passed
<1>7. verdict' = IF call.tool # "acceptance" THEN verdict
                 ELSE [verdict EXCEPT ![call.check] = IF Passed(call) THEN "passed" ELSE "failed"]
  BY DEF Return
<1>8. ShapeOK'
  <2>1. session' \in Session
    <3>1. session' = [ledger |-> ledger',
                      need |-> session.need \/ (call.changed # {} /\ asked.need),
                      needTest |-> session.needTest \/ (call.changed # {} /\ asked.needTest)]
      BY DEF Return, SessionAfter
    <3> QED  BY <1>4, <3>1 DEF Session
  <2>2. verdict' \in [Checks -> {"none", "passed", "failed"}]
    BY <1>5, <1>7 DEF ShapeOK
  <2>3. file' = file /\ torn' = torn
    BY DEF Return
  <2> QED  BY <1>1, <1>2, <1>4, <2>1, <2>2, <2>3 DEF ShapeOK
<1>9. CopiesOK'
  BY <1>1, <1>3 DEF CopiesOK
<1>10. EvidenceOK'
  <2>1. CASE call.changed # {}
    <3>1. ~Passed(call)
      BY <2>1 DEF Passed
    <3>2. last' # "passed"
      BY <1>5, <2>1 DEF Return, FlagsAfter
    <3>3. ~review'
      BY <2>1, <3>1 DEF Return, ReviewAfter
    <3>4. Current'.unverified # {}
      BY <1>3, <1>4, <2>1, <3>1
    <3> QED  BY <3>2, <3>3, <3>4 DEF EvidenceOK
  <2>2. CASE call.changed = {}
    <3>1. Settling
      BY <2>2 DEF Settling
    <3>2. last' = "passed" => tested' = revision'
      BY <1>1, <1>6, <2>2, <3>1 DEF Return, FlagsAfter, Passed, EvidenceOK
    <3>3. review' => tested' = revision'
      BY <1>1, <1>6, <3>1 DEF Return, ReviewAfter, EvidenceOK
    <3>4. ASSUME Current'.unverified = {}
          PROVE  tested' = revision' \/ (~Current'.mutated /\ ~HasPassed(Current'))
      <4>1. CASE Passed(call)
        BY <1>1, <1>6, <4>1
      <4>2. CASE ~Passed(call)
        <5>1. ledger.unverified = {} /\ tested' = tested
          BY <1>3, <1>4, <1>6, <3>4, <4>2
        <5>2. ~(call.tool = "acceptance" /\ call.ok)
          BY <2>2, <4>2 DEF Passed
        <5>3. HasPassed(ledger') => HasPassed(ledger)
          BY <1>4, <5>2
        <5> QED  BY <1>1, <1>3, <1>4, <2>2, <3>1, <5>1, <5>3 DEF EvidenceOK
      <4> QED  BY <4>1, <4>2
    <3> QED  BY <3>2, <3>3, <3>4 DEF EvidenceOK
  <2> QED  BY <2>1, <2>2
<1>11. VerdictOK'
  <2> SUFFICES ASSUME NEW c \in Checks, verdict'[c] = "failed" PROVE c \in ledger'.failures
    BY <1>3 DEF VerdictOK
  <2>1. verdict[c] = "failed" => c \in ledger.failures
    BY <1>1, <1>3 DEF VerdictOK
  <2>2. CASE call.tool # "acceptance"
    BY <1>4, <1>7, <2>1, <2>2
  <2>3. CASE call.tool = "acceptance" /\ c = call.check
    <3>1. verdict'[c] = IF Passed(call) THEN "passed" ELSE "failed"
      BY <1>7, <2>3 DEF ShapeOK
    <3> QED  BY <1>4, <2>3, <3>1
  <2>4. CASE call.tool = "acceptance" /\ c # call.check
    <3>1. verdict'[c] = verdict[c]
      BY <1>7, <2>4 DEF ShapeOK
    <3> QED  BY <1>4, <2>1, <2>4, <3>1
  <2> QED  BY <2>2, <2>3, <2>4
<1> QED  BY <1>8, <1>9, <1>10, <1>11

LEMMA SaveStep == LedgerInv /\ Save => LedgerInv'
<1> SUFFICES ASSUME LedgerInv, Save PROVE LedgerInv'
  OBVIOUS
<1> USE DEF LedgerInv
<1>1. /\ Current' = Current /\ stage = "returned" /\ stage' = "none" /\ process = "running"
      /\ call' = NoCall
  BY DEF Save, memory, Current, CopiesOK
<1>2. ShapeOK'
  BY <1>1 DEF ShapeOK, Save, memory, history
<1>3. CopiesOK'
  BY <1>1 DEF CopiesOK, Save, memory
<1>4. EvidenceOK'
  BY <1>1 DEF EvidenceOK, Settling, Save, memory, history, shadow
<1>5. VerdictOK'
  BY <1>1 DEF VerdictOK, Save, history
<1> QED  BY <1>2, <1>3, <1>4, <1>5

LEMMA InterruptStep == NothingTorn /\ LedgerInv /\ Interrupt => LedgerInv'
<1> SUFFICES ASSUME NothingTorn, LedgerInv, Interrupt PROVE LedgerInv'
  OBVIOUS
<1> USE DEF LedgerInv
<1>1. ~(stage = "ran" /\ call.changed # {}) /\ torn' = torn
  BY NoTear DEF Interrupt
<1>2. /\ Current' = Current /\ stage' = "none" /\ call' = NoCall /\ process' = "idle"
      /\ process = "running"
  BY DEF Interrupt, Leave, memory, Current
<1>3. ShapeOK'
  BY <1>1, <1>2 DEF ShapeOK, Interrupt, memory
<1>4. CopiesOK'
  BY <1>2 DEF CopiesOK, Interrupt, memory
<1>5. EvidenceOK'
  BY <1>1, <1>2 DEF EvidenceOK, Settling, Interrupt, memory, shadow
<1>6. VerdictOK'
  BY <1>2 DEF VerdictOK, Interrupt
<1> QED  BY <1>3, <1>4, <1>5, <1>6

LEMMA KillStep == NothingTorn /\ LedgerInv /\ Kill => LedgerInv'
<1> SUFFICES ASSUME NothingTorn, LedgerInv, Kill PROVE LedgerInv'
  OBVIOUS
<1> USE DEF LedgerInv
<1>1. ~(stage = "returned" \/ (stage = "ran" /\ call.changed # {})) /\ torn' = torn
  BY NoTear DEF Kill
<1>2. /\ Current' = file.ledger /\ Current = session.ledger /\ file = session
      /\ stage' = "none" /\ call' = NoCall /\ process' = "down" /\ file' = file
  BY <1>1 DEF Kill, Leave, Current, CopiesOK
<1>3. ShapeOK'
  BY <1>1, <1>2, EmptyRecords DEF ShapeOK, Kill
<1>4. CopiesOK'
  BY <1>2 DEF CopiesOK, Kill
<1>5. EvidenceOK'
  BY <1>1, <1>2 DEF EvidenceOK, Settling, Kill, shadow
<1>6. VerdictOK'
  BY <1>2 DEF VerdictOK, Kill
<1> QED  BY <1>3, <1>4, <1>5, <1>6

LEMMA ClearedStep ==
    ASSUME LedgerInv, ClearEvidence, txn' \in {"none", "committed"}, process' = "idle",
           stage = "none", stage' = "none", call' = NoCall, ledger' = ledger, review' = review,
           shadow' = shadow, history' = history
    PROVE  LedgerInv'
<1> USE DEF LedgerInv
<1>1. Current' = EmptyLedger /\ session' = EmptySession /\ file' = EmptySession /\ last' = last
  BY EmptyRecords DEF Current, ClearEvidence
<1>2. ShapeOK'
  BY <1>1, EmptyRecords DEF ShapeOK, history
<1>3. CopiesOK'
  BY <1>1 DEF CopiesOK
<1>4. EvidenceOK'
  BY <1>1, EmptyRecords DEF EvidenceOK, Settling, history, shadow
<1>5. VerdictOK'
  BY DEF VerdictOK
<1> QED  BY <1>2, <1>3, <1>4, <1>5

LEMMA DeliverStep == LedgerInv /\ Deliver => LedgerInv'
<1> SUFFICES ASSUME LedgerInv, Deliver PROVE LedgerInv'
  OBVIOUS
<1>1. /\ process = "running" /\ process' = "idle" /\ stage = "none" /\ stage' = "none"
      /\ call' = NoCall /\ ledger' = ledger /\ review' = review /\ shadow' = shadow
      /\ history' = history
  BY DEF Deliver, Leave, LedgerInv, ShapeOK
<1>2. CASE Reason(differs) = ""
  BY <1>1, <1>2, ClearedStep DEF Deliver
<1>3. CASE Reason(differs) # ""
  <2> USE DEF LedgerInv
  <2>1. /\ txn' \in {"open", "blocked"} /\ session' = session /\ file' = file /\ last' = last
        /\ Current' = Current
    BY <1>1, <1>3 DEF Deliver, Current
  <2>2. txn = "open"
    BY <1>1 DEF CopiesOK
  <2>3. ShapeOK'
    BY <1>1, <2>1 DEF ShapeOK, history
  <2>4. CopiesOK'
    BY <1>1, <2>1 DEF CopiesOK
  <2>5. EvidenceOK'
    BY <1>1, <2>1 DEF EvidenceOK, Settling, history, shadow
  <2>6. VerdictOK'
    BY <1>1, <2>1, <2>2 DEF VerdictOK, history
  <2> QED  BY <2>3, <2>4, <2>5, <2>6
<1> QED  BY <1>2, <1>3

LEMMA DiscardStep == LedgerInv /\ Discard => LedgerInv'
<1> SUFFICES ASSUME LedgerInv, Discard PROVE LedgerInv'
  OBVIOUS
<1>1. stage = "none" /\ call = NoCall
  BY DEF LedgerInv, CopiesOK, ShapeOK, Discard
<1> QED  BY <1>1, ClearedStep DEF Discard

LEMMA LedgerStep == NothingTorn /\ LedgerInv /\ [Next]_vars => LedgerInv'
<1> SUFFICES ASSUME NothingTorn, LedgerInv, [Next]_vars PROVE LedgerInv'
  OBVIOUS
<1>1. CASE UNCHANGED vars
  BY <1>1 DEF LedgerInv, ShapeOK, CopiesOK, EvidenceOK, VerdictOK, Settling, Current, vars,
              shadow, memory, history
<1>2. CASE Open  BY <1>2, OpenStep
<1>3. CASE Return  BY <1>3, ReturnStep
<1>4. CASE Save  BY <1>4, SaveStep
<1>5. CASE Interrupt  BY <1>5, InterruptStep
<1>6. CASE Kill  BY <1>6, KillStep
<1>7. CASE Deliver  BY <1>7, DeliverStep
<1>8. CASE Discard  BY <1>8, DiscardStep
<1>9. CASE \E need, needTest \in BOOLEAN : StartRun(need, needTest)
  BY <1>9, StartRunStep
<1>10. CASE \E c \in Calls : RunTool(c)
  BY <1>10, RunToolStep
<1> QED  BY <1>1, <1>2, <1>3, <1>4, <1>5, <1>6, <1>7, <1>8, <1>9, <1>10 DEF Next

(* The ledger, its copies and the flags say of the shadow what EvidenceOK  *)
(* and VerdictOK name, in every state of a session whose calls are all     *)
(* recorded (pico/progress/progress_controller.py, tools/tool_executor.py).*)
THEOREM LedgerInvariant ==
    ASSUME NothingTorn PROVE Spec => []LedgerInv
<1>1. Init => LedgerInv
  BY InitLedger
<1>2. LedgerInv /\ [Next]_vars => LedgerInv'
  BY LedgerStep
<1> QED  BY <1>1, <1>2, PTL DEF Spec

(* A delivery is the only step that commits, and nothing objects to it. *)
LEMMA DeliveryStep ==
    ASSUME LedgerInv, [Next]_vars, Delivers
    PROVE  Deliver /\ Reason(differs) = ""
<1>1. txn = "open" /\ txn' = "committed"
  BY DEF Delivers
<1>2. CASE UNCHANGED vars  BY <1>1, <1>2 DEF vars
<1>3. CASE Open  BY <1>1, <1>3 DEF Open
<1>4. CASE Return  BY <1>1, <1>4 DEF Return
<1>5. CASE Save  BY <1>1, <1>5 DEF Save
<1>6. CASE Interrupt  BY <1>1, <1>6 DEF Interrupt
<1>7. CASE Kill  BY <1>1, <1>7 DEF Kill
<1>8. CASE Deliver
  BY <1>1, <1>8 DEF Deliver
<1>9. CASE Discard  BY <1>1, <1>9 DEF Discard
<1>10. CASE \E need, needTest \in BOOLEAN : StartRun(need, needTest)
  BY <1>1, <1>10 DEF StartRun
<1>11. CASE \E c \in Calls : RunTool(c)
  BY <1>1, <1>11 DEF RunTool
<1> QED  BY <1>2, <1>3, <1>4, <1>5, <1>6, <1>7, <1>8, <1>9, <1>10, <1>11 DEF Next

(* What is delivered under a request that wants validation is the code the *)
(* last passing acceptance check ran on (pico/runtime/pico_runtime.py:692  *)
(* verification_failure_reason), whatever was edited, checked, interrupted *)
(* or restarted before, as long as no call is torn from its record.        *)
THEOREM DeliveredCodeIsTested ==
    ASSUME NothingTorn PROVE Spec => DeliveredIsTested
<1>1. ASSUME LedgerInv, [Next]_vars, Delivers, differs # {}, session.need \/ asked.need
      PROVE  tested = revision
  <2>1. Deliver /\ Reason(differs) = ""
    BY <1>1, DeliveryStep
  <2>2. stage = "none" /\ Current = ledger
    BY <1>1, <2>1 DEF Deliver, LedgerInv, ShapeOK, CopiesOK, Current
  <2>3. (HasPassed(ledger) /\ ledger.unverified = {}) \/ last = "passed"
    BY <1>1, <2>1, NoObjection
  <2> QED  BY <1>1, <2>2, <2>3 DEF LedgerInv, EvidenceOK, Settling
<1>2. LedgerInv /\ [Next]_vars =>
         [Delivers /\ differs # {} /\ (session.need \/ asked.need) => tested = revision]_vars
  BY <1>1
<1> QED  BY <1>2, LedgerInvariant, PTL DEF Spec, DeliveredIsTested

(* Nothing is delivered while the last word of any check of the            *)
(* transaction is a failure, also one of an earlier run or process: the    *)
(* unresolved failures of the ledger (pico/progress/progress_controller.py *)
(* :165) survive every window, restart and interrupt.                      *)
THEOREM FailuresBlockDelivery ==
    ASSUME NothingTorn PROVE Spec => NoFailureDelivered
<1>1. ASSUME LedgerInv, [Next]_vars, Delivers, NEW c \in Checks
      PROVE  verdict[c] # "failed"
  <2>1. Deliver /\ Reason(differs) = ""
    BY <1>1, DeliveryStep
  <2>2. Current = ledger /\ txn = "open"
    BY <1>1, <2>1 DEF Deliver, LedgerInv, CopiesOK, Current
  <2>3. ledger.failures = {}
    BY <2>1, NoObjection
  <2> QED  BY <1>1, <2>2, <2>3 DEF LedgerInv, VerdictOK
<1>2. LedgerInv /\ [Next]_vars => [Delivers => \A c \in Checks : verdict[c] # "failed"]_vars
  BY <1>1
<1> QED  BY <1>2, LedgerInvariant, PTL DEF Spec, NoFailureDelivered

(* The delivery review is pending only for the code that passed its check, *)
(* in the controller of the run and in the one a later run makes from the  *)
(* session's ledger (pico/progress/progress_controller.py).                *)
THEOREM ReviewIsOfTestedCode ==
    ASSUME NothingTorn PROVE Spec => []ReviewIsCurrent
<1>1. LedgerInv => ReviewIsCurrent
  BY DEF LedgerInv, EvidenceOK, Settling, ReviewIsCurrent
<1> QED  BY <1>1, LedgerInvariant, PTL
----------------------------------------------------------------------------
(* The windows of the ledger.                                              *)
Bounded(l) ==
    /\ l \in Ledger
    /\ Cardinality(l.unverified) <= MaxUnverified /\ Len(l.validations) <= MaxValidations

LEMMA MarkedBounded ==
    ASSUME NEW l, Bounded(l), NEW paths \in SUBSET Paths
    PROVE  Bounded(Marked(l, paths))
<1> DEFINE all == l.unverified \cup paths
           kept == IF Cardinality(all) <= MaxUnverified THEN all
                   ELSE CHOOSE some \in SUBSET all : Cardinality(some) = MaxUnverified
<1>1. l \in Ledger /\ Marked(l, paths) \in Ledger
  BY MarkedLedger DEF Bounded
<1>2. CASE paths = {}
  BY <1>2 DEF Marked, Bounded
<1>3. CASE paths # {}
  <2>1. all \subseteq Paths
    BY <1>1 DEF Ledger
  <2>2. IsFiniteSet(all) /\ Cardinality(all) \in Nat
    BY <2>1, PathAssumption, FS_Subset, FS_CardinalityType
  <2>3. Cardinality(kept) <= MaxUnverified
    <3> HIDE DEF all
    <3>1. CASE Cardinality(all) <= MaxUnverified
      BY <3>1
    <3>2. CASE ~(Cardinality(all) <= MaxUnverified)
      <4>1. MaxUnverified \in Nat /\ MaxUnverified <= Cardinality(all)
        BY <2>2, <3>2, WindowAssumption
      <4>2. \E some \in SUBSET all : Cardinality(some) = MaxUnverified
        BY <2>2, <4>1, SubsetOfSize
      <4>3. Cardinality(kept) = MaxUnverified
        BY <3>2, <4>2
      <4> QED
        BY <4>1, <4>3
    <3> QED
      BY <3>1, <3>2
  <2>4. Marked(l, paths) = [l EXCEPT !.unverified = kept, !.mutated = TRUE]
    BY <1>3 DEF Marked
  <2> HIDE DEF kept
  <2>5. Marked(l, paths).unverified = kept /\ Marked(l, paths).validations = l.validations
    BY <1>1, <2>4 DEF Ledger
  <2> QED
    BY <1>1, <2>3, <2>5 DEF Bounded
<1> QED
  BY <1>2, <1>3

LEMMA WindowedBounded ==
    ASSUME NEW s \in Seq(Record)
    PROVE  Len(Windowed(s)) <= MaxValidations
<1>1. CASE Len(s) <= MaxValidations
  BY <1>1 DEF Windowed
<1>2. CASE Len(s) > MaxValidations
  <2> DEFINE m == Len(s) - MaxValidations + 1
  <2>1. m \in Nat /\ m >= 1 /\ m <= Len(s) /\ Len(s) \in Nat
    BY <1>2, WindowAssumption
  <2>2. Windowed(s) = SubSeq(s, m, Len(s))
    BY <1>2, WindowAssumption DEF Windowed
  <2>3. Len(s) - m + 1 = MaxValidations
    BY <1>2, WindowAssumption
  <2> HIDE DEF m
  <2>4. Len(SubSeq(s, m, Len(s))) = Len(s) - m + 1
    BY <2>1
  <2> QED
    BY <2>2, <2>3, <2>4, WindowAssumption
<1> QED
  BY <1>1, <1>2, WindowAssumption

LEMMA RecordedBounded ==
    ASSUME NEW l, Bounded(l), NEW c \in Calls
    PROVE  Bounded(Recorded(l, c))
<1> DEFINE r == [kind |-> IF c.tool = "acceptance" THEN "validation" ELSE "other",
                 ok |-> c.ok]
           s == Append(l.validations, r)
<1>1. /\ l \in Ledger /\ Recorded(l, c) \in Ledger
      /\ Recorded(l, c).unverified = l.unverified
  BY RecordedLedger DEF Bounded
<1>2. CASE c.tool = "write"
  BY <1>2 DEF Recorded
<1>3. CASE c.tool # "write"
  <2>1. r \in Record
    BY DEF Record, Calls
  <2>2. s \in Seq(Record)
    <3> HIDE DEF r
    <3> QED
      BY <1>1, <2>1 DEF Ledger
  <2>3. Recorded(l, c) = [l EXCEPT !.validations = Windowed(s)]
    BY <1>3 DEF Recorded
  <2> HIDE DEF s
  <2>4. Recorded(l, c).validations = Windowed(s)
    BY <1>1, <2>3 DEF Ledger
  <2> QED
    BY <1>1, <2>2, <2>4, WindowedBounded DEF Bounded
<1> QED
  BY <1>2, <1>3

LEMMA SettledBounded ==
    ASSUME NEW l, Bounded(l), NEW c \in Calls
    PROVE  Bounded(Settled(l, c))
<1>1. l \in Ledger /\ c.check \in Checks /\ Cardinality({}) <= MaxUnverified
  BY FS_EmptySet, WindowAssumption DEF Bounded, Calls
<1>2. CASE c.tool # "acceptance"
  BY <1>2 DEF Settled, Passed
<1>3. CASE Passed(c)
  <2>1. Settled(l, c) = [l EXCEPT !.unverified = {}, !.failures = @ \ {c.check}]
    BY <1>3 DEF Settled, Passed
  <2> QED
    BY <1>1, <2>1 DEF Ledger, Bounded
<1>4. CASE c.tool = "acceptance" /\ ~Passed(c)
  <2>1. Settled(l, c) = [l EXCEPT !.failures = @ \cup {c.check}]
    BY <1>4 DEF Settled
  <2> QED
    BY <1>1, <2>1 DEF Ledger, Bounded
<1> QED
  BY <1>2, <1>3, <1>4 DEF Passed

LEMMA ObservedBounded ==
    ASSUME NEW l, Bounded(l), NEW c \in Calls
    PROVE  Bounded(Observed(l, c))
<1>1. c.changed \in SUBSET Paths
  BY DEF Calls
<1>2. Bounded(Marked(l, c.changed))
  BY <1>1, MarkedBounded
<1>3. Bounded(Recorded(Marked(l, c.changed), c))
  BY <1>2, RecordedBounded
<1> QED
  BY <1>3, SettledBounded DEF Observed

LEMMA EmptyBounded == Bounded(EmptyLedger) /\ EmptySession \in Session
BY EmptyRecords, FS_EmptySet, WindowAssumption DEF Bounded, EmptyLedger

----------------------------------------------------------------------------
(* The records the steps build on.                                         *)
TypesInv ==
    /\ TypeOK
    /\ Bounded(ledger) /\ Bounded(session.ledger) /\ Bounded(file.ledger)
    /\ session \in Session /\ file \in Session
    /\ stage = "none" <=> call = NoCall

LEMMA BoundedIsOK ==
    ASSUME NEW l, Bounded(l)
    PROVE  LedgerOK(l) /\ Cardinality(l.unverified) <= MaxUnverified
BY DEF Bounded, LedgerOK, Ledger

LEMMA InitTypes == Init => TypesInv
<1> SUFFICES ASSUME Init PROVE TypesInv
  OBVIOUS
<1>1. /\ Bounded(ledger) /\ Bounded(session.ledger) /\ Bounded(file.ledger)
      /\ session \in Session /\ file \in Session
  BY EmptyBounded, EmptyRecords DEF Init
<1>2. TypeOK
  <2>1. /\ LedgerOK(ledger) /\ LedgerOK(session.ledger) /\ LedgerOK(file.ledger)
        /\ Cardinality(ledger.unverified) <= MaxUnverified
    BY <1>1, BoundedIsOK
  <2>2. asked \in [need: BOOLEAN, needTest: BOOLEAN]
    BY DEF Init, NothingAsked
  <2>3. /\ revision \in 0 .. MaxRevisions /\ differs \subseteq Paths
        /\ tested \in -1 .. revision /\ torn \in 0 .. MaxTorn
    BY BoundAssumption DEF Init
  <2> QED
    BY <2>1, <2>2, <2>3 DEF Init, TypeOK
<1> QED
  BY <1>1, <1>2 DEF TypesInv, Init

LEMMA NextTypes == TypesInv /\ [Next]_vars => TypesInv'
<1> SUFFICES ASSUME TypesInv, [Next]_vars PROVE TypesInv'
  OBVIOUS
<1> USE DEF TypesInv
<1>t. /\ revision \in 0 .. MaxRevisions /\ differs \subseteq Paths
      /\ tested \in -1 .. revision /\ torn \in 0 .. MaxTorn
      /\ review \in BOOLEAN /\ stale \in BOOLEAN /\ last \in {"none", "passed", "failed"}
      /\ MaxRevisions \in Nat /\ MaxTorn \in Nat
  BY BoundAssumption DEF TypeOK
<1>b. ASSUME NEW l \in {ledger, session.ledger, file.ledger, EmptyLedger}
      PROVE  Bounded(l)
  BY <1>b, EmptyBounded
<1>s. /\ session.need \in BOOLEAN /\ session.needTest \in BOOLEAN
      /\ asked.need \in BOOLEAN /\ asked.needTest \in BOOLEAN
      /\ EmptySession.ledger = EmptyLedger /\ EmptySession \in Session
  BY EmptyRecords DEF Session, TypeOK
(* The ledgers of a step are ledgers there were, or the observed one.      *)
<1>k. ASSUME Bounded(ledger'), session' \in Session, file' \in Session,
             Bounded(session'.ledger), Bounded(file'.ledger),
             stage' = "none" <=> call' = NoCall,
             revision' \in 0 .. MaxRevisions, differs' \subseteq Paths,
             txn' \in {"none", "open", "blocked", "committed"},
             process' \in {"down", "idle", "running"},
             review' \in BOOLEAN, stale' \in BOOLEAN,
             last' \in {"none", "passed", "failed"},
             asked' \in [need: BOOLEAN, needTest: BOOLEAN],
             call' \in Calls \cup {NoCall}, stage' \in {"none", "ran", "returned"},
             tested' \in -1 .. revision', torn' \in 0 .. MaxTorn
      PROVE  TypesInv'
  BY <1>k, BoundedIsOK DEF TypeOK
<1>1. CASE Open
  BY <1>1, <1>k, <1>t DEF Open, TypeOK, shadow, history
<1>2. ASSUME NEW need \in BOOLEAN, NEW needTest \in BOOLEAN, StartRun(need, needTest)
      PROVE  TypesInv'
  <2>1. /\ process' = "running" /\ asked' = [need |-> need, needTest |-> needTest]
        /\ ledger' = session.ledger /\ review' = ReviewOf(session.ledger)
        /\ file' = session /\ UNCHANGED <<session, call, stage, torn>>
    BY <1>2 DEF StartRun, Resumed
  <2>2. review' \in BOOLEAN
    <3>1. session.ledger.mutated \in BOOLEAN
      BY DEF Session, Ledger
    <3> QED
      BY <2>1, <3>1 DEF ReviewOf
  <2>3. /\ txn' = "open" /\ revision' \in 0 .. MaxRevisions /\ differs' \subseteq Paths
        /\ last' \in {"none", "passed", "failed"} /\ stale' \in BOOLEAN
        /\ tested' \in -1 .. revision'
    <3>1. CASE txn = "open"
      BY <1>2, <1>t, <3>1 DEF StartRun, shadow
    <3>2. CASE txn # "open"
      <4>1. /\ txn' = "open" /\ revision' = 0 /\ differs' = {} /\ tested' = -1
            /\ last' = "none" /\ stale' = FALSE
        BY <1>2, <3>2 DEF StartRun
      <4>2. revision' \in 0 .. MaxRevisions /\ tested' \in -1 .. revision'
        BY <1>t, <4>1
      <4>3. stale' \in BOOLEAN
        BY <4>1
      <4> QED
        BY <4>1, <4>2, <4>3
    <3> QED
      BY <3>1, <3>2
  <2> QED
    BY <1>k, <1>t, <2>1, <2>2, <2>3 DEF TypeOK
<1>3. ASSUME NEW c \in Calls, RunTool(c) PROVE TypesInv'
  <2>1. /\ call' = c /\ stage' = "ran" /\ c # NoCall
        /\ c.changed \subseteq Paths /\ c.kept \subseteq c.changed
        /\ revision' = IF c.changed = {} THEN revision ELSE revision + 1
        /\ c.changed # {} => revision < MaxRevisions
        /\ differs' = (differs \ c.changed) \cup c.kept
        /\ UNCHANGED <<txn, process, memory, file, history>>
    BY <1>3 DEF RunTool, Calls, NoCall
  <2>2. revision' \in 0 .. MaxRevisions /\ tested \in -1 .. revision'
    BY <1>t, <2>1
  <2>3. differs' \subseteq Paths
    BY <1>t, <2>1
  <2> QED
    BY <1>k, <1>t, <2>1, <2>2, <2>3 DEF memory, history, TypeOK
<1>4. CASE Return
  <2>1. /\ stage = "ran" /\ stage' = "returned" /\ call \in Calls
        /\ ledger' = Observed(ledger, call)
        /\ FlagsAfter(call) /\ review' = ReviewAfter(call) /\ SessionAfter(call)
        /\ UNCHANGED <<shadow, txn, process, asked, file, call, torn>>
    BY <1>4 DEF Return, TypeOK
  <2>2. Bounded(ledger')
    BY <2>1, ObservedBounded
  <2>3. ledger' \in Ledger
    BY <2>2 DEF Bounded
  <2>4. session' \in Session /\ session'.ledger = ledger'
    <3>1. /\ (session.need \/ (call.changed # {} /\ asked.need)) \in BOOLEAN
          /\ (session.needTest \/ (call.changed # {} /\ asked.needTest)) \in BOOLEAN
      OBVIOUS
    <3> QED
      BY <2>1, <2>3, <3>1 DEF SessionAfter, Session
  <2>5. review' \in BOOLEAN
    BY <1>t, <2>1 DEF ReviewAfter
  <2>6. last' \in {"none", "passed", "failed"} /\ stale' \in BOOLEAN
    BY <1>t, <2>1 DEF FlagsAfter, Calls
  <2>7. tested' \in -1 .. revision'
    BY <1>4, <1>t DEF Return, shadow
  <2> QED
    BY <1>k, <1>t, <2>1, <2>2, <2>4, <2>5, <2>6, <2>7 DEF shadow, TypeOK
<1>5. CASE Save
  BY <1>5, <1>k, <1>t DEF Save, TypeOK, shadow, memory, history
<1>6. CASE Interrupt
  <2>1. torn' \in 0 .. MaxTorn
    BY <1>6, <1>t DEF Interrupt, Tear
  <2> QED
    BY <1>6, <1>k, <1>t, <2>1 DEF Interrupt, Leave, TypeOK, shadow, memory
<1>7. CASE Kill
  <2>1. torn' \in 0 .. MaxTorn
    BY <1>7, <1>t DEF Kill, Tear
  <2> QED
    BY <1>7, <1>b, <1>k, <1>s, <1>t, <2>1
       DEF Kill, Leave, TypeOK, shadow, NothingAsked
<1>8. CASE Deliver
  <2>1. /\ process' = "idle" /\ call' = NoCall /\ stage' = "none"
        /\ txn' \in {"open", "blocked", "committed"}
        /\ UNCHANGED <<shadow, ledger, review, history, last, stale, asked>>
        /\ \/ session' = EmptySession /\ file' = EmptySession
           \/ UNCHANGED <<session, file>>
    BY <1>8 DEF Deliver, Leave, ClearEvidence
  <2> QED
    BY <1>b, <1>k, <1>s, <1>t, <2>1 DEF TypeOK, shadow, history
<1>9. CASE Discard
  <2>1. /\ txn' = "none" /\ session' = EmptySession /\ file' = EmptySession
        /\ UNCHANGED <<shadow, process, ledger, review, call, stage, history,
                       last, stale, asked>>
    BY <1>9 DEF Discard, ClearEvidence
  <2> QED
    BY <1>b, <1>k, <1>s, <1>t, <2>1 DEF TypeOK, shadow, history
<1>10. CASE UNCHANGED vars
  BY <1>10, <1>k, <1>t DEF vars, TypeOK, shadow, memory, history
<1> QED
  BY <1>1, <1>2, <1>3, <1>4, <1>5, <1>6, <1>7, <1>8, <1>9, <1>10 DEF Next

(* Every variable keeps its type, and the ledger its windows, in memory    *)
(* and in the session file: also when calls are torn from their records    *)
(* (progress_controller.py, MAX_LEDGER_VALIDATIONS and                     *)
(* MAX_LEDGER_UNVERIFIED_CHANGES).                                         *)
THEOREM LedgerTypes == Spec => []TypeOK
<1>1. TypesInv => TypeOK
  BY DEF TypesInv
<1> QED
  BY <1>1, InitTypes, NextTypes, PTL DEF Spec
=============================================================================
