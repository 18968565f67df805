------------------------- MODULE EvidenceGateProofs -------------------------
(***************************************************************************)
(* What a request shows is the code of the workspace, what is refused was  *)
(* shown, and a decision stays due, for every number of files, units,      *)
(* requests and runs, every window and every budget.                       *)
(***************************************************************************)
EXTENDS EvidenceGate, RecursionLemmas, SequenceTheorems

-----------------------------------------------------------------------------
(* What the recursive operators compute *)

(* Groups of a history: all they hold is in R, their evidence in S. *)
GroupsOf(R, S) == {group \in Groups(R) : EvidenceIn(group) \subseteq S}

(* What a projection sends is evidence of the groups it is given, and it   *)
(* claims what it sends and nothing else.                                  *)
LEMMA ProjectionSends ==
    ASSUME NEW R, NEW S \in SUBSET R, NEW g \in Seq(GroupsOf(R, S))
    PROVE  /\ Projection(g).sent \subseteq S
           /\ Projection(g).claimed = Projection(g).sent
<1> DEFINE n == Len(g)
           T == {q \in [used: Nat, open: BOOLEAN, sent: SUBSET S, claimed: SUBSET S] : q.sent = q.claimed}
           e == NothingSent
           step == [k \in 1 .. n |-> [q \in T |-> WithGroup(g, n - k + 1, q)]]
           After(f) == [k \in 0 .. n |->
                          IF k = 0 THEN e ELSE WithGroup(g, n - k + 1, f[k - 1])]
           p == CHOOSE f : f = After(f)
<1>1. n \in Nat /\ \A k \in 1 .. n : n - k + 1 \in 1 .. n /\ g[n - k + 1] \in GroupsOf(R, S)
  OBVIOUS
<1>2. e \in T
  BY DEF NothingSent
<1>3. ASSUME NEW i \in 1 .. n, g[i] \in GroupsOf(R, S), NEW q \in T
      PROVE  WithGroup(g, i, q) \in T
  <2> DEFINE whole == /\ i > Len(g) - Recent \/ i \in Prioritised(g)
                      /\ q.used + Size(g[i], TRUE) <= Budget
             size == Size(g[i], whole)
             text == TextOf(g[i], whole)
             sent == IF g[i].quotes THEN q.sent ELSE q.sent \cup text
             claimed == q.claimed \cup EvidenceOfText(g[i], whole)
  <2>1. size \in Nat
    BY DEF Size
  <2>2. EvidenceOfText(g[i], whole) = IF g[i].quotes THEN {} ELSE text
    BY Zenon DEF EvidenceOfText
  <2>3. ~g[i].quotes => text \subseteq S
    <3>1. text \subseteq g[i].source
      BY Zenon DEF TextOf
    <3>2. ~g[i].quotes => g[i].source \subseteq S
      BY <1>3 DEF GroupsOf, Groups, EvidenceIn
    <3> QED
      BY <3>1, <3>2
  <2>4. WithGroup(g, i, q) =
            IF q.open /\ q.used + size <= Budget
            THEN [used |-> q.used + size, open |-> TRUE, sent |-> sent,
                  claimed |-> claimed]
            ELSE [q EXCEPT !.open = FALSE]
    BY Zenon DEF WithGroup
  <2> HIDE DEF whole, size, text
  <2>5. [q EXCEPT !.open = FALSE] \in T
    OBVIOUS
  <2>6. [used |-> q.used + size, open |-> TRUE, sent |-> sent,
         claimed |-> claimed] \in T
    <3>1. q.used + size \in Nat /\ sent \in SUBSET S /\ sent = claimed
      BY <2>1, <2>2, <2>3
    <3> HIDE DEF sent, claimed
    <3> QED
      BY <3>1
  <2> HIDE DEF T
  <2> QED
    BY <2>4, <2>5, <2>6
<1> HIDE DEF T, e
<1>4. \E f : f = After(f)
  <2>1. \A k \in 1 .. n : \A q \in T : WithGroup(g, n - k + 1, q) \in T
    BY <1>1, <1>3
  <2>2. step \in Steps(n, T)
    BY <2>1 DEF Steps
  <2>3. PICK f : f \in Walks(n, T, e, step)
    <3> HIDE DEF step, n
    <3> QED
      BY <1>1, <1>2, <2>2, Walk
  <2>4. /\ f \in [0 .. n -> T] /\ f[0] = e
        /\ \A k \in 1 .. n : f[k] = step[k][f[k - 1]]
    BY <2>3 DEF Walks
  <2>5. \A k \in 1 .. n : \A q \in T : step[k][q] = WithGroup(g, n - k + 1, q)
    OBVIOUS
  <2> HIDE DEF step, n
  <2>6. \A k \in 0 .. n : k # 0 => k \in 1 .. n /\ f[k - 1] \in T
    BY <1>1, <2>4
  <2>7. \A k \in 0 .. n : f[k] = IF k = 0 THEN e ELSE WithGroup(g, n - k + 1, f[k - 1])
    BY <2>4, <2>5, <2>6
  <2>8. f = After(f)
    <3>1. f = [k \in 0 .. n |-> f[k]]
      BY <2>4
    <3> QED
      BY <2>7, <3>1
  <2> QED
    BY <2>8
<1>5. p = After(p)
  BY <1>4, Zenon
<1>6. Projection(g) = p[n]
  BY DEF Projection, e
<1> HIDE DEF p
<1>7. \A k \in 0 .. n : p[k] = IF k = 0 THEN e ELSE WithGroup(g, n - k + 1, p[k - 1])
  <2> HIDE DEF n
  <2> QED
    BY <1>5, Zenon
<1> DEFINE Reached == {k \in 0 .. n : p[k] \in T}
<1>8. 0 \in Reached
  <2>1. 0 \in 0 .. n
    BY <1>1
  <2> QED
    BY <1>2, <1>7, <2>1, Zenon
<1>9. ASSUME NEW k \in 1 .. n, k - 1 \in Reached
      PROVE  k \in Reached
  <2>1. k \in 0 .. n /\ k # 0
    BY <1>1
  <2>2. p[k] = WithGroup(g, n - k + 1, p[k - 1])
    BY <1>7, <2>1, Zenon
  <2>3. p[k - 1] \in T
    BY <1>9
  <2> QED
    BY <1>1, <1>3, <2>1, <2>2, <2>3
<1>10. p[n] \in T
  <2> HIDE DEF Reached, n
  <2>1. \A k \in 1 .. n : k - 1 \in Reached => k \in Reached
    BY <1>9
  <2>2. \A k \in 0 .. n : k \in Reached
    BY <1>1, <1>8, <2>1, UpTo, Zenon
  <2>3. n \in Reached
    BY <1>1, <2>2
  <2> QED
    BY <2>3 DEF Reached
<1> QED
  BY <1>6, <1>10 DEF T

(* A projection is given only evidence that is the code of the workspace.  *)
LEMMA FreshAreCurrent ==
    ASSUME NEW R, NEW S \in SUBSET R, NEW g \in Seq(GroupsOf(R, S))
    PROVE  FreshGroups(g) \in Seq(GroupsOf(R, {r \in S : r.fresh = content[r.path]}))
<1> DEFINE X == GroupsOf(R, {r \in S : r.fresh = content[r.path]})
           current(group) == IF group.quotes THEN group.source
                             ELSE {r \in group.source : r.fresh = content[r.path]}
           fresh == [i \in DOMAIN g |-> [quotes |-> g[i].quotes, source |-> current(g[i])]]
           I == {i \in DOMAIN g : g[i].source = {} \/ fresh[i].source # {}}
           n == Len(g)
<1>1. n \in Nat /\ DOMAIN g = 1 .. n /\ \A i \in 1 .. n : g[i] \in GroupsOf(R, S)
  OBVIOUS
<1>2. \A group \in GroupsOf(R, S) : [quotes |-> group.quotes, source |-> current(group)] \in X
  BY DEF GroupsOf, Groups, EvidenceIn
<1>3. FreshGroups(g) = Picked(fresh, I)
  BY Zenon DEF FreshGroups
<1>4. fresh \in Seq(X)
  <2>1. \A i \in 1 .. n : fresh[i] = [quotes |-> g[i].quotes, source |-> current(g[i])]
    BY <1>1
  <2>2. fresh = [i \in 1 .. n |-> fresh[i]]
    BY <1>1
  <2> HIDE DEF fresh, X, current
  <2>3. \A i \in 1 .. n : fresh[i] \in X
    BY <1>1, <1>2, <2>1
  <2>4. fresh \in [1 .. n -> X]
    BY <2>2, <2>3
  <2> QED
    BY <1>1, <2>4
<1> HIDE DEF fresh, I, X
<1>5. Picked(fresh, I) \in Seq(X)
  BY <1>4, PickedFrom
<1> QED
  BY <1>3, <1>5 DEF X

-----------------------------------------------------------------------------
(* The work plan *)

WorkItem == [id: Items, status: Statuses]

(* A plan has items of different names. *)
Named(s) ==
    /\ s \in Seq(WorkItem)
    /\ \A i, j \in DOMAIN s : s[i].id = s[j].id => i = j

(* The status of a name is that of its item. *)
LEMMA StatusOfItem ==
    ASSUME Named(plan), NEW i \in DOMAIN plan
    PROVE  StatusOf(plan[i].id) = plan[i].status
<1> DEFINE id == plan[i].id
           c == CHOOSE j \in DOMAIN plan : plan[j].id = id
<1>1. c \in DOMAIN plan /\ plan[c].id = id
  OBVIOUS
<1>2. c = i
  BY <1>1 DEF Named
<1>3. id \in Tracked
  BY DEF Tracked
<1>4. StatusOf(id) = plan[c].status
  BY <1>3, Zenon DEF StatusOf
<1> QED
  BY <1>2, <1>4

(* A change of status keeps the items, and changes those it names. *)
LEMMA WithStatusNamed ==
    ASSUME Named(plan), NEW ids, NEW status \in Statuses
    PROVE  /\ Named(WithStatus(ids, status))
           /\ DOMAIN WithStatus(ids, status) = DOMAIN plan
           /\ \A i \in DOMAIN plan :
                 /\ WithStatus(ids, status)[i].id = plan[i].id
                 /\ WithStatus(ids, status)[i].status =
                       IF plan[i].id \in ids THEN status ELSE plan[i].status
<1> DEFINE n == Len(plan)
           q == [i \in 1 .. n |->
                   IF plan[i].id \in ids THEN [plan[i] EXCEPT !.status = status] ELSE plan[i]]
<1>1. n \in Nat /\ DOMAIN plan = 1 .. n /\ \A i \in 1 .. n : plan[i] \in WorkItem
  BY DEF Named
<1>2. WithStatus(ids, status) = q
  BY <1>1, Zenon DEF WithStatus
<1>3. \A i \in 1 .. n :
         /\ q[i] \in WorkItem /\ q[i].id = plan[i].id
         /\ q[i].status = IF plan[i].id \in ids THEN status ELSE plan[i].status
  BY <1>1 DEF WorkItem
<1>4. q \in [1 .. n -> WorkItem]
  BY <1>3
<1> HIDE DEF q
<1>5. q \in Seq(WorkItem) /\ DOMAIN q = 1 .. n
  BY <1>1, <1>4
<1>6. \A i, j \in DOMAIN q : q[i].id = q[j].id => i = j
  BY <1>1, <1>3, <1>5 DEF Named
<1> QED
  BY <1>1, <1>2, <1>3, <1>5, <1>6 DEF Named

(* An update is a sequence of drafts with different names. *)
LEMMA UpdatesAreDrafts ==
    ASSUME NEW drafts \in Updates
    PROVE  /\ drafts \in Seq(Drafts)
           /\ \A i, j \in DOMAIN drafts : drafts[i].id = drafts[j].id => i = j
<1>1. PICK n \in 1 .. MaxItems : drafts \in [1 .. n -> Drafts]
  BY DEF Updates
<1>2. n \in Nat
  BY <1>1, WindowAssumption
<1> QED
  BY <1>1, <1>2 DEF Updates

(* The status of an updated item is a status. *)
LEMMA UpdatedStatuses ==
    ASSUME NEW d \in Drafts
    PROVE  UpdatedStatus(d) \in Statuses
<1>1. Drafted(d) \in Statuses
  BY Zenon DEF Drafted, Statuses
<1> QED
  BY <1>1 DEF UpdatedStatus, Statuses

(* Updated keeps names different; an item that was tracked has the status  *)
(* it had, or the one that the update of its name gives it.                *)
LEMMA UpdatedNamed ==
    ASSUME Named(plan), NEW drafts \in Updates
    PROVE  /\ Named(Updated(drafts)) /\ Len(Updated(drafts)) <= MaxItems
           /\ \A i \in DOMAIN Updated(drafts) : \A j \in DOMAIN plan :
                 Updated(drafts)[i].id = plan[j].id =>
                    \/ Updated(drafts)[i].status = plan[j].status
                    \/ \E k \in DOMAIN drafts :
                          /\ drafts[k].id = plan[j].id
                          /\ Updated(drafts)[i].status = UpdatedStatus(drafts[k])
<1> DEFINE updates(id) == {i \in DOMAIN drafts : drafts[i].id = id}
           item(d) == [id |-> d.id, status |-> UpdatedStatus(d)]
           known == [i \in DOMAIN plan |->
                       IF updates(plan[i].id) = {} THEN plan[i]
                       ELSE item(drafts[CHOOSE k \in updates(plan[i].id) : TRUE])]
           fresh == {i \in DOMAIN drafts : drafts[i].id \notin Tracked}
           new == Picked(drafts, fresh)
           added == [i \in DOMAIN new |-> item(new[i])]
           all == known \o added
           first == IF Len(all) > MaxItems THEN Len(all) - MaxItems + 1 ELSE 1
           kept == SubSeq(all, first, Len(all))
           n == Len(plan)
           m == Len(new)
<1>1. Updated(drafts) = kept
  BY Zenon DEF Updated
<1>2. /\ drafts \in Seq(Drafts)
      /\ \A i, j \in DOMAIN drafts : drafts[i].id = drafts[j].id => i = j
  BY UpdatesAreDrafts
<1>3. n \in Nat /\ DOMAIN plan = 1 .. n /\ \A i \in 1 .. n : plan[i] \in WorkItem
  BY DEF Named
<1>4. \A k \in DOMAIN drafts : /\ item(drafts[k]) \in WorkItem
                               /\ item(drafts[k]).id = drafts[k].id
                               /\ item(drafts[k]).status = UpdatedStatus(drafts[k])
  <2>1. \A k \in DOMAIN drafts : drafts[k] \in Drafts
    BY <1>2
  <2>2. \A d \in Drafts : d.id \in Items /\ UpdatedStatus(d) \in Statuses
    BY UpdatedStatuses DEF Drafts
  <2>3. \A d \in Drafts : item(d) \in WorkItem /\ item(d).id = d.id
                         /\ item(d).status = UpdatedStatus(d)
    BY <2>2 DEF WorkItem
  <2> HIDE DEF item
  <2> QED
    BY <2>1, <2>3
<1> HIDE DEF item
<1>5. \A i \in 1 .. n :
        /\ known[i] \in WorkItem /\ known[i].id = plan[i].id
        /\ \/ known[i].status = plan[i].status
           \/ \E k \in DOMAIN drafts : /\ drafts[k].id = plan[i].id
                                       /\ known[i].status = UpdatedStatus(drafts[k])
  <2> SUFFICES ASSUME NEW i \in 1 .. n
               PROVE  /\ known[i] \in WorkItem /\ known[i].id = plan[i].id
                      /\ \/ known[i].status = plan[i].status
                         \/ \E k \in DOMAIN drafts :
                               /\ drafts[k].id = plan[i].id
                               /\ known[i].status = UpdatedStatus(drafts[k])
    OBVIOUS
  <2>1. CASE updates(plan[i].id) = {}
    <3>1. known[i] = plan[i]
      BY <1>3, <2>1
    <3> HIDE DEF known
    <3> QED
      BY <1>3, <3>1
  <2>2. CASE updates(plan[i].id) # {}
    <3> DEFINE k == CHOOSE k \in updates(plan[i].id) : TRUE
    <3>1. k \in DOMAIN drafts /\ drafts[k].id = plan[i].id
      BY <2>2
    <3>2. known[i] = item(drafts[k])
      BY <1>3, <2>2
    <3> HIDE DEF known, k
    <3> QED
      BY <1>4, <3>1, <3>2
  <2> QED
    BY <2>1, <2>2
<1>6. DOMAIN known = 1 .. n
  BY <1>3
<1> HIDE DEF known
<1>7. known \in Seq(WorkItem) /\ Len(known) = n
  <2>1. known \in [1 .. n -> WorkItem]
    <3>1. known = [i \in 1 .. n |-> known[i]]
      BY <1>3 DEF known
    <3> QED
      BY <1>5, <3>1
  <2> QED
    BY <1>3, <2>1
<1>8. PICK h \in [1 .. m -> fresh \cap (1 .. Len(drafts))] :
          /\ \A i, j \in 1 .. m : h[i] = h[j] => i = j
          /\ \A j \in 1 .. m : new[j] = drafts[h[j]]
  <2> HIDE DEF fresh
  <2> QED
    BY <1>2, PickedFrom
<1>9. new \in Seq(Drafts)
  <2> HIDE DEF fresh
  <2> QED
    BY <1>2, PickedFrom
<1> HIDE DEF new
<1>10. m \in Nat /\ DOMAIN new = 1 .. m
  BY <1>9
<1>11. \A i \in 1 .. m : /\ h[i] \in DOMAIN drafts /\ h[i] \in fresh
                         /\ added[i] = item(drafts[h[i]])
  BY <1>2, <1>8, <1>10
<1>12. \A i \in 1 .. m : /\ added[i] \in WorkItem /\ added[i].id = drafts[h[i]].id
                         /\ \A j \in 1 .. n : plan[j].id # added[i].id
  <2>1. \A k \in fresh : \A j \in 1 .. n : plan[j].id # drafts[k].id
    BY <1>3 DEF Tracked
  <2> HIDE DEF added, fresh, m, n
  <2> QED
    BY <1>4, <1>11, <2>1
<1>13. added \in Seq(WorkItem) /\ Len(added) = m
  <2>1. added = [i \in 1 .. m |-> item(new[i])]
    BY <1>10
  <2> HIDE DEF added
  <2>2. added = [i \in 1 .. m |-> added[i]]
    BY <2>1
  <2>3. added \in [1 .. m -> WorkItem]
    BY <1>12, <2>2
  <2> QED
    BY <1>10, <2>3
<1>14. \A i, j \in 1 .. m : added[i].id = added[j].id => i = j
  <2> HIDE DEF added, m, fresh
  <2>1. \A i, j \in 1 .. m : added[i].id = added[j].id => h[i] = h[j]
    BY <1>2, <1>11, <1>12
  <2> QED
    BY <1>8, <2>1
<1> HIDE DEF added, m, n
<1>15. /\ all \in Seq(WorkItem) /\ Len(all) = n + m
       /\ \A i \in 1 .. n : all[i] = known[i]
       /\ \A i \in 1 .. m : all[n + i] = added[i]
  <2>1. /\ all \in Seq(WorkItem) /\ Len(all) = n + m
        /\ \A i \in 1 .. n + m : all[i] = IF i <= n THEN known[i] ELSE added[i - n]
    BY <1>7, <1>13, ConcatProperties, Zenon
  <2> HIDE DEF all
  <2>2. \A i \in 1 .. n : i \in 1 .. n + m /\ i <= n
    BY <1>3, <1>10
  <2>3. \A i \in 1 .. n : all[i] = known[i]
    BY <2>1, <2>2, Zenon
  <2>4. ASSUME NEW i \in 1 .. m PROVE all[n + i] = added[i]
    <3>1. n + i \in 1 .. n + m /\ ~(n + i <= n) /\ (n + i) - n = i
      BY <1>3, <1>10
    <3> QED
      BY <2>1, <3>1, Zenon
  <2> QED
    BY <2>1, <2>3, <2>4
<1> HIDE DEF all
<1>16. \A i, j \in 1 .. n + m : all[i].id = all[j].id => i = j
  <2>1. \A i \in 1 .. n + m : i \in 1 .. n \/ (i - n \in 1 .. m /\ i = n + (i - n))
    BY <1>3, <1>10
  <2>2. \A i, j \in 1 .. n : all[i].id = all[j].id => i = j
    <3>1. \A i \in 1 .. n : all[i].id = plan[i].id
      BY <1>5, <1>15
    <3>2. \A i, j \in 1 .. n : plan[i].id = plan[j].id => i = j
      BY <1>3 DEF Named
    <3> QED
      BY <3>1, <3>2
  <2>3. \A i \in 1 .. n, j \in 1 .. m : all[i].id # all[n + j].id
    BY <1>5, <1>12, <1>15
  <2>4. \A i, j \in 1 .. m : all[n + i].id = all[n + j].id => i = j
    BY <1>14, <1>15
  <2> QED
    BY <2>1, <2>2, <2>3, <2>4
<1>17. \A i \in 1 .. n + m : \A j \in 1 .. n : all[i].id = plan[j].id => i = j
  <2>1. \A i \in 1 .. n + m : i \in 1 .. n \/ (i - n \in 1 .. m /\ i = n + (i - n))
    BY <1>3, <1>10
  <2>2. \A i, j \in 1 .. n : all[i].id = plan[j].id => i = j
    <3>1. \A i \in 1 .. n : all[i].id = plan[i].id
      BY <1>5, <1>15
    <3>2. \A i, j \in 1 .. n : plan[i].id = plan[j].id => i = j
      BY <1>3 DEF Named
    <3> QED
      BY <3>1, <3>2
  <2>3. \A i \in 1 .. m, j \in 1 .. n : all[n + i].id # plan[j].id
    BY <1>12, <1>15
  <2> QED
    BY <2>1, <2>2, <2>3
<1>18. MaxItems \in Nat \ {0} /\ first \in 1 .. n + m + 1
  BY <1>3, <1>10, <1>15, WindowAssumption
<1> HIDE DEF first
<1>19. /\ kept \in Seq(WorkItem) /\ Len(kept) = n + m - first + 1
       /\ \A i \in 1 .. n + m - first + 1 : kept[i] = all[first + i - 1]
  <2>1. first \in Int /\ Len(all) \in Int
    BY <1>3, <1>10, <1>15, <1>18
  <2>2. \A i \in first .. Len(all) : all[i] \in WorkItem
    BY <1>3, <1>10, <1>15, <1>18
  <2>3. /\ kept \in Seq(WorkItem)
        /\ Len(kept) = IF first <= Len(all) THEN Len(all) - first + 1 ELSE 0
        /\ \A i \in 1 .. Len(all) - first + 1 : kept[i] = all[first + i - 1]
    BY <2>1, <2>2, SubSeqProperties
  <2> HIDE DEF kept
  <2> QED
    BY <1>3, <1>10, <1>15, <1>18, <2>3
<1> HIDE DEF kept
<1>20. \A i \in DOMAIN kept : first + i - 1 \in 1 .. n + m /\ kept[i] = all[first + i - 1]
  BY <1>3, <1>10, <1>18, <1>19
<1>21. Named(kept)
  <2>1. DOMAIN kept \subseteq Int /\ first \in Int
    BY <1>3, <1>10, <1>18, <1>19
  <2>2. \A i, j \in DOMAIN kept : kept[i].id = kept[j].id => i = j
    BY <1>16, <1>20, <2>1
  <2> QED
    BY <1>19, <2>2 DEF Named
<1>22. ASSUME NEW i \in DOMAIN kept, NEW j \in DOMAIN plan, kept[i].id = plan[j].id
       PROVE  \/ kept[i].status = plan[j].status
              \/ \E k \in DOMAIN drafts : /\ drafts[k].id = plan[j].id
                                          /\ kept[i].status = UpdatedStatus(drafts[k])
  <2>1. j \in 1 .. n
    BY <1>3
  <2>2. kept[i] = known[j]
    BY <1>15, <1>17, <1>20, <1>22, <2>1
  <2> QED
    BY <1>5, <2>1, <2>2
<1>23. Len(kept) <= MaxItems
  <2>1. first = IF n + m > MaxItems THEN n + m - MaxItems + 1 ELSE 1
    BY <1>3, <1>10, <1>15, <1>18 DEF first
  <2> QED
    BY <1>3, <1>10, <1>18, <1>19, <2>1
<1> QED
  BY <1>1, <1>21, <1>22, <1>23

-----------------------------------------------------------------------------
(* Types *)

(* A step is one of the actions, with its parameters, or changes nothing. *)
LEMMA NextCases ==
    ASSUME [Next]_vars
    PROVE  \/ Build \/ EndTurn \/ UNCHANGED vars
           \/ \E q \in Requests : RefuseRead(q)
           \/ \E q \in Requests, id \in Items \cup {active} : Read(q, id)
           \/ \E q \in Requests, id \in Items \cup {active} : Search(q, id)
           \/ \E q \in Requests, c \in Contents, ids \in SUBSET Items : Edit(q, c, ids)
           \/ \E p \in Paths, c \in Contents, ids \in SUBSET Items : Command(p, c, ids)
           \/ \E p \in Paths, c \in Contents : LostEdit(p, c)
           \/ \E ids \in SUBSET Items, passed \in BOOLEAN : Verify(ids, passed)
           \/ \E drafts \in Updates, id \in Items : UpdatePlan(drafts, id)
           \/ \E files \in SUBSET Paths, units \in SUBSET Units : NewRun(files, units)
<1> USE DEF Ended
<1> QED
  BY Zenon DEF Next

(* TypeOK, with what it leaves to the shape of the model. *)
Typed ==
    /\ TypeOK
    /\ events \in Seq(Groups(Evidence)) /\ plan \in Seq(WorkItem)
    /\ builds \in Nat /\ batch \in Nat /\ runs \in Nat

LEMMA TypedPlan ==
    ASSUME Typed
    PROVE  Named(plan)
BY DEF Typed, TypeOK, Named

(* A plan in any state is typed as the plan of this one. *)
PlanTyped(s) == Named(s) /\ Len(s) <= MaxItems

LEMMA PlanTypes ==
    ASSUME NEW s, PlanTyped(s)
    PROVE  /\ s \in Seq(WorkItem) /\ Len(s) <= MaxItems
           /\ \A i \in DOMAIN s : s[i].id \in Items /\ s[i].status \in Statuses
           /\ \A i, j \in DOMAIN s : s[i].id = s[j].id => i = j
<1>1. s \in Seq(WorkItem)
  BY DEF PlanTyped, Named
<1>2. \A i \in DOMAIN s : s[i] \in WorkItem
  BY <1>1
<1> QED
  BY <1>1, <1>2 DEF PlanTyped, Named, WorkItem

LEMMA DeliveredTyped ==
    ASSUME Typed, NEW p \in Paths, NEW units \in SUBSET Units, NEW rev \in Nat
    PROVE  Delivered(p, units, rev) \subseteq Evidence
BY DEF Typed, TypeOK, Delivered, Evidence

(* What a call adds to the history, and what it leaves. *)
LEMMA EventsTyped ==
    ASSUME Typed, NEW quotes \in BOOLEAN, NEW source \in SUBSET Evidence,
           Record(quotes, source)
    PROVE  /\ events' \in Seq(Groups(Evidence)) /\ Len(events') <= MaxEvents
           /\ \A i \in DOMAIN events' : events'[i] \in Groups(Evidence)
           /\ \A i \in DOMAIN events' : \A r \in EvidenceIn(events'[i]) :
                 \/ ~quotes /\ r \in source
                 \/ \E j \in DOMAIN events : r \in EvidenceIn(events[j])
           /\ UNCHANGED <<older, prefetch, visible, shown, clipped>>
<1> DEFINE group == [quotes |-> quotes, source |-> source]
<1>1. /\ events \in Seq(Groups(Evidence)) /\ Len(events) < MaxEvents
      /\ events' = Append(events, group) /\ MaxEvents \in Nat
      /\ group \in Groups(Evidence)
  BY BoundsAssumption DEF Typed, Record, Groups
<1>2. UNCHANGED <<older, prefetch, visible, shown, clipped>>
  BY DEF Record, request
<1>3. EvidenceIn(group) = IF quotes THEN {} ELSE source
  BY DEF EvidenceIn
<1> HIDE DEF group
<1>4. /\ events' \in Seq(Groups(Evidence)) /\ Len(events') = Len(events) + 1
      /\ \A i \in DOMAIN events' :
            events'[i] = group \/ (i \in DOMAIN events /\ events'[i] = events[i])
  BY <1>1
<1>5. Len(events') <= MaxEvents /\ \A i \in DOMAIN events' : events'[i] \in Groups(Evidence)
  BY <1>1, <1>4
<1>6. ASSUME NEW i \in DOMAIN events', NEW r \in EvidenceIn(events'[i])
      PROVE  \/ ~quotes /\ r \in source
             \/ \E j \in DOMAIN events : r \in EvidenceIn(events[j])
  <2>1. CASE events'[i] = group
    BY <1>3, <1>6, <2>1
  <2>2. CASE i \in DOMAIN events /\ events'[i] = events[i]
    BY <1>6, <2>2
  <2> QED
    BY <1>4, <2>1, <2>2
<1> QED
  BY <1>2, <1>4, <1>5, <1>6

(* The evidence of the present revisions in a history whose evidence is in *)
(* S is what a request shows of it.                                        *)
LEMMA RequestShows ==
    ASSUME NEW S \in SUBSET Evidence, events \in Seq(Groups(Evidence)),
           \A i \in DOMAIN events : EvidenceIn(events[i]) \subseteq S
    PROVE  /\ Projection(FreshGroups(events)).sent \subseteq {r \in S : r.fresh = content[r.path]}
           /\ Projection(FreshGroups(events)).claimed = Projection(FreshGroups(events)).sent
<1> DEFINE Known == {r \in S : r.fresh = content[r.path]}
           n == Len(events)
           X == GroupsOf(Evidence, S)
<1>1. n \in Nat /\ events \in [1 .. n -> Groups(Evidence)]
  OBVIOUS
<1>2. \A i \in 1 .. n : events[i] \in X
  BY <1>1 DEF GroupsOf
<1>3. events \in Seq(X)
  <2> HIDE DEF X
  <2>1. events \in [1 .. n -> X]
    BY <1>1, <1>2
  <2> QED
    BY <1>1, <2>1
<1>4. FreshGroups(events) \in Seq(GroupsOf(Evidence, Known))
  BY <1>3, FreshAreCurrent
<1>5. Known \in SUBSET Evidence
  OBVIOUS
<1> HIDE DEF Known
<1>6. /\ Projection(FreshGroups(events)).sent \subseteq Known
      /\ Projection(FreshGroups(events)).claimed = Projection(FreshGroups(events)).sent
  BY <1>4, <1>5, ProjectionSends
<1> QED
  BY <1>6 DEF Known

LEMMA SentTyped ==
    ASSUME NEW records \in SUBSET Evidence
    PROVE  Sent(records) \subseteq [path: Paths, unit: Units, fresh: Contents]
BY DEF Sent, Evidence

LEMMA InitTyped == Init => Typed
<1> SUFFICES ASSUME Init PROVE Typed
  OBVIOUS
<1>1. 0 \in Contents /\ {MaxContent, MaxEvents, MaxBuilds, MaxBatch, MaxRuns} \subseteq Nat
      /\ MaxItems \in Nat
  BY BoundsAssumption, WindowAssumption DEF Contents
<1> QED
  BY <1>1 DEF Init, Typed, TypeOK, Evidence, WorkItem, Statuses

(* A call of a turn with a typed outcome. *)
LEMMA CallTyped ==
    ASSUME Typed, Calling, NEW quotes \in BOOLEAN, NEW source \in SUBSET Evidence,
           Record(quotes, source),
           content' \in [Paths -> Contents], revision' \in [Paths -> Nat],
           PlanTyped(plan'), active' \in Items \cup {None}, decided' \subseteq Items \cup {None},
           UNCHANGED <<phase, builds, runs>>
    PROVE  Typed'
<1>1. /\ events' \in Seq(Groups(Evidence)) /\ Len(events') <= MaxEvents
      /\ \A i \in DOMAIN events' : events'[i] \in Groups(Evidence)
      /\ UNCHANGED <<older, prefetch, visible, shown, clipped>>
  BY EventsTyped
<1>2. batch < MaxBatch /\ batch' = batch + 1 /\ MaxBatch \in Nat
  BY BoundsAssumption DEF Calling
<1>3. /\ plan' \in Seq(WorkItem) /\ Len(plan') <= MaxItems
      /\ \A i \in DOMAIN plan' : plan'[i].id \in Items /\ plan'[i].status \in Statuses
      /\ \A i, j \in DOMAIN plan' : plan'[i].id = plan'[j].id => i = j
  BY PlanTypes
<1> QED
  BY <1>1, <1>2, <1>3 DEF Typed, TypeOK

LEMMA NextTyped == Typed /\ [Next]_vars => Typed'
<1> SUFFICES ASSUME Typed, [Next]_vars PROVE Typed'
  OBVIOUS
<1>n. /\ Named(plan) /\ PlanTyped(plan) /\ 0 \in Contents
      /\ MaxBuilds \in Nat /\ MaxBatch \in Nat /\ MaxRuns \in Nat
  BY TypedPlan, BoundsAssumption DEF Contents, PlanTyped, Typed, TypeOK
<1>t. /\ content \in [Paths -> Contents] /\ revision \in [Paths -> Nat]
      /\ active \in Items \cup {None}
  BY DEF Typed, TypeOK
<1>p. ASSUME NEW ids, NEW status \in Statuses, plan' = WithStatus(ids, status)
      PROVE  PlanTyped(plan')
  <2>1. Named(plan') /\ DOMAIN plan' = DOMAIN plan
    BY <1>p, <1>n, WithStatusNamed
  <2> QED
    BY <1>n, <2>1 DEF PlanTyped, Named
<1>e. {} \in SUBSET Evidence /\ {TRUE, FALSE} \subseteq BOOLEAN
      /\ {"decision_due", "implemented", "verified", "repair"} \subseteq Statuses
  BY DEF Statuses
<1>q. ASSUME NEW q \in Requests, NEW rev, rev \in [Paths -> Nat]
      PROVE  Delivered(q.path, q.units, rev[q.path]) \in SUBSET Evidence
  <2>1. q.path \in Paths /\ q.units \in SUBSET Units /\ rev[q.path] \in Nat
    BY <1>q DEF Requests
  <2> QED
    BY <2>1, DeliveredTyped
<1>0. ASSUME UNCHANGED vars PROVE Typed'
  BY <1>0 DEF Typed, TypeOK, vars, context, request, workPlan, bounds, Evidence, Delivered
<1>1. ASSUME Build PROVE Typed'
  <2> DEFINE p == Projection(FreshGroups(events))
  <2>1. PICK w \in WorkingSets :
            /\ visible' = prefetch \cup p.claimed
            /\ shown' = Sent(w \cup p.sent) /\ clipped' = CurrentPrefetch \ w
    BY <1>1, Zenon DEF Build
  <2>2. p.sent \subseteq Evidence /\ p.claimed \subseteq Evidence
    <3>1. \A i \in DOMAIN events : EvidenceIn(events[i]) \subseteq Evidence
      BY DEF Typed, TypeOK, Groups, EvidenceIn
    <3>2. events \in Seq(Groups(Evidence)) /\ Evidence \in SUBSET Evidence
      BY DEF Typed
    <3> QED
      BY <3>1, <3>2, RequestShows
  <2> HIDE DEF p
  <2>3. w \subseteq Evidence /\ prefetch \subseteq Evidence /\ clipped' \subseteq Evidence
    BY <2>1 DEF WorkingSets, CurrentPrefetch, Typed, TypeOK
  <2>4. /\ visible' \subseteq Evidence
        /\ shown' \subseteq [path: Paths, unit: Units, fresh: Contents]
    BY <2>1, <2>2, <2>3, SentTyped
  <2>5. /\ UNCHANGED <<content, revision, events, older, prefetch, plan, active, runs>>
        /\ builds < MaxBuilds /\ phase' = "turn" /\ batch' = 0 /\ builds' = builds + 1
        /\ decided' = {}
    BY <1>1 DEF Build
  <2> QED
    BY <1>n, <2>3, <2>4, <2>5 DEF Typed, TypeOK
<1>2. ASSUME EndTurn PROVE Typed'
  BY <1>2 DEF Typed, TypeOK, EndTurn, context, request, bounds
<1>3. ASSUME NEW q \in Requests, RefuseRead(q) PROVE Typed'
  BY <1>3, <1>n, <1>t, <1>e, CallTyped DEF RefuseRead
<1>d. ASSUME NEW id, Discovered(id)
      PROVE  /\ PlanTyped(plan') /\ decided' = {}
             /\ UNCHANGED <<content, revision, active, phase, builds, runs>>
  BY <1>d, <1>p, <1>n, <1>e DEF Discovered, Bound
<1>4. ASSUME NEW q \in Requests, NEW id \in Items \cup {active}, Read(q, id)
      PROVE  Typed'
  <2>1. /\ Calling /\ Discovered(id)
        /\ Record(FALSE, Delivered(q.path, q.units, revision[q.path]))
    BY <1>4 DEF Read
  <2>2. Delivered(q.path, q.units, revision[q.path]) \in SUBSET Evidence
    BY <1>q, <1>t
  <2> QED
    BY <1>d, <1>e, <1>t, <2>1, <2>2, CallTyped
<1>5. ASSUME NEW q \in Requests, NEW id \in Items \cup {active}, Search(q, id)
      PROVE  Typed'
  <2>1. /\ Calling /\ Discovered(id)
        /\ Record(TRUE, Delivered(q.path, q.units, revision[q.path]))
    BY <1>5 DEF Search
  <2>2. Delivered(q.path, q.units, revision[q.path]) \in SUBSET Evidence
    BY <1>q, <1>t
  <2> QED
    BY <1>d, <1>e, <1>t, <2>1, <2>2, CallTyped
<1>m. ASSUME NEW ids, NEW status \in Statuses, Marked(ids, status), ids \subseteq Items \cup {None}
      PROVE  /\ PlanTyped(plan') /\ decided' \subseteq Items \cup {None}
             /\ UNCHANGED <<active, phase, builds, runs>>
  BY <1>m, <1>p DEF Marked
<1>i. ASSUME NEW ids \in SUBSET Items
      PROVE  Touched(ids) \subseteq Items \cup {None} /\ Checked(ids) \subseteq Items \cup {None}
  BY <1>t DEF Touched, Checked, Tracked, Typed, TypeOK
<1>6. ASSUME NEW q \in Requests, NEW c \in Contents, NEW ids \in SUBSET Items, Edit(q, c, ids)
      PROVE  Typed'
  <2> DEFINE source == {[r EXCEPT !.fresh = c] :
                          r \in Delivered(q.path, q.units, revision'[q.path])}
  <2>1. content' \in [Paths -> Contents] /\ revision' \in [Paths -> Nat]
    BY <1>6, <1>t DEF Edit, NextRevision, Requests
  <2>2. source \in SUBSET Evidence
    <3>1. Delivered(q.path, q.units, revision'[q.path]) \in SUBSET Evidence
      BY <1>q, <2>1
    <3> QED
      BY <3>1 DEF Evidence
  <2>3. Calling /\ Record(FALSE, source) /\ Marked(Touched(ids), "implemented")
    BY <1>6 DEF Edit
  <2> HIDE DEF source
  <2> QED
    BY <1>e, <1>i, <1>m, <1>t, <2>1, <2>2, <2>3, CallTyped
<1>7. ASSUME NEW p \in Paths, NEW c \in Contents, NEW ids \in SUBSET Items, Command(p, c, ids)
      PROVE  Typed'
  <2>1. content' \in [Paths -> Contents] /\ revision' \in [Paths -> Nat]
    BY <1>7, <1>t DEF Command, NextRevision
  <2>2. PICK marked \in SUBSET (Items \cup {None}), status \in Statuses : Marked(marked, status)
    BY <1>7, <1>e, <1>i DEF Command
  <2>3. Calling /\ Record(FALSE, {})
    BY <1>7 DEF Command
  <2> QED
    BY <1>e, <1>m, <1>t, <2>1, <2>2, <2>3, CallTyped
<1>8. ASSUME NEW p \in Paths, NEW c \in Contents, LostEdit(p, c) PROVE Typed'
  BY <1>8 DEF Typed, TypeOK, LostEdit, context, request, bounds
<1>9. ASSUME NEW ids \in SUBSET Items, NEW passed \in BOOLEAN, Verify(ids, passed)
      PROVE  Typed'
  <2>1. PICK status \in Statuses : Marked(Checked(ids), status)
    BY <1>9, <1>e DEF Verify
  <2>2. Calling /\ Record(FALSE, {}) /\ UNCHANGED <<content, revision>>
    BY <1>9 DEF Verify
  <2> QED
    BY <1>e, <1>i, <1>m, <1>t, <2>1, <2>2, CallTyped
<1>10. ASSUME NEW drafts \in Updates, NEW id \in Items, UpdatePlan(drafts, id)
       PROVE  Typed'
  <2>1. PlanTyped(plan')
    <3>1. plan' = Updated(drafts)
      BY <1>10 DEF UpdatePlan
    <3> QED
      BY <1>n, <3>1, UpdatedNamed DEF PlanTyped
  <2>2. /\ decided' \subseteq Items /\ active' \in Items
        /\ Calling /\ Record(FALSE, {})
        /\ UNCHANGED <<content, revision, phase, builds, runs>>
    BY <1>10 DEF UpdatePlan
  <2> QED
    BY <1>e, <1>t, <2>1, <2>2, CallTyped
<1>11. ASSUME NEW files \in SUBSET Paths, NEW units \in SUBSET Units, NewRun(files, units)
       PROVE  Typed'
  <2>1. \/ NewTransaction
        \/ UNCHANGED <<content, revision, events, older, plan, active>>
    BY <1>11 DEF NewRun
  <2>2. content' \in [Paths -> Contents] /\ revision' \in [Paths -> Nat]
    BY <1>t, <2>1 DEF NewTransaction
  <2>3. prefetch' \subseteq Evidence
    BY <1>11, <2>2 DEF NewRun, Evidence
  <2>4. /\ visible' = {} /\ shown' = {} /\ clipped' = {}
        /\ phase' = "building" /\ decided' = {}
        /\ runs < MaxRuns /\ runs' = runs + 1 /\ batch' = 0 /\ builds' = builds
    BY <1>11 DEF NewRun
  <2>5. /\ events' \in Seq(Groups(Evidence)) /\ Len(events') <= MaxEvents
        /\ \A i \in DOMAIN events' : events'[i] \in Groups(Evidence)
    <3>1. CASE events' = <<>>
      <4>1. Len(events') = 0 /\ DOMAIN events' = {} /\ MaxEvents \in Nat
        BY <3>1, BoundsAssumption
      <4> QED
        BY <3>1, <4>1
    <3>2. CASE events' = events
      BY <3>2 DEF Typed, TypeOK
    <3> QED
      BY <2>1, <3>1, <3>2 DEF NewTransaction
  <2>6. older' \subseteq Evidence
    <3>1. \A i \in DOMAIN events : EvidenceIn(events[i]) \subseteq Evidence
      BY DEF Typed, TypeOK, Groups, EvidenceIn
    <3>2. older \subseteq Evidence
      BY DEF Typed, TypeOK
    <3> QED
      BY <2>1, <3>1, <3>2 DEF NewTransaction
  <2>7. PlanTyped(plan') /\ active' \in Items \cup {None}
    <3>1. CASE plan' = <<>> /\ active' = None
      <4>1. Len(plan') = 0 /\ DOMAIN plan' = {} /\ MaxItems \in Nat
        BY <3>1, WindowAssumption
      <4> QED
        BY <3>1, <4>1 DEF PlanTyped, Named
    <3>2. CASE plan' = plan /\ active' = active
      BY <1>n, <1>t, <3>2
    <3> QED
      BY <2>1, <3>1, <3>2 DEF NewTransaction
  <2>8. /\ plan' \in Seq(WorkItem) /\ Len(plan') <= MaxItems
        /\ \A i \in DOMAIN plan' : plan'[i].id \in Items /\ plan'[i].status \in Statuses
        /\ \A i, j \in DOMAIN plan' : plan'[i].id = plan'[j].id => i = j
    BY <2>7, PlanTypes
  <2>9. builds <= MaxBuilds /\ builds \in Nat /\ runs \in Nat
    BY DEF Typed, TypeOK
  <2> QED
    BY <1>n, <2>2, <2>3, <2>4, <2>5, <2>6, <2>7, <2>8, <2>9 DEF Typed, TypeOK
<1> QED
  BY NextCases, <1>0, <1>1, <1>2, <1>3, <1>4, <1>5, <1>6, <1>7, <1>8, <1>9, <1>10, <1>11, Zenon

-----------------------------------------------------------------------------
(* What a request shows *)

(* Records of evidence are of a revision the ledger has reached, and when  *)
(* it is still the revision of the path they are the code of the path.     *)
Timely(records) ==
    \A r \in records :
        /\ r.revision <= revision[r.path]
        /\ r.revision = revision[r.path] => r.fresh = content[r.path]

(* A change of a file makes the evidence of it one of an earlier revision. *)
LEMMA ChangeIsTimely ==
    ASSUME Typed, NEW p \in Paths, NEW c \in Contents,
           content' = [content EXCEPT ![p] = c], revision' = NextRevision(p),
           NEW r \in Evidence, r.revision <= revision[r.path]
    PROVE  /\ r.revision <= revision'[r.path]
           /\ r.revision = revision'[r.path] =>
                 r.revision = revision[r.path] /\ content'[r.path] = content[r.path]
<1>1. r.path \in Paths /\ r.revision \in Nat /\ revision \in [Paths -> Nat]
      /\ content \in [Paths -> Contents]
  BY DEF Typed, TypeOK, Evidence
<1>2. CASE r.path = p
  BY <1>1, <1>2 DEF NextRevision
<1>3. CASE r.path # p
  BY <1>1, <1>3 DEF NextRevision
<1> QED
  BY <1>2, <1>3

(* The working set of a run, until it ends, is timely. *)
PrefetchTimely == phase # "ended" => Timely(prefetch)

(* The steps that change the files, the ledger or the working set. *)
LEMMA NextPrefetch == Typed /\ PrefetchTimely /\ [Next]_vars => PrefetchTimely'
<1> SUFFICES ASSUME Typed, PrefetchTimely, [Next]_vars PROVE PrefetchTimely'
  OBVIOUS
<1> DEFINE Same == /\ UNCHANGED <<content, revision, prefetch>>
                   /\ phase' # "ended" => phase # "ended"
           Changed == /\ \E p \in Paths, c \in Contents :
                            /\ content' = [content EXCEPT ![p] = c]
                            /\ revision' = NextRevision(p)
                      /\ UNCHANGED <<prefetch, phase>>
<1>1. ASSUME Same PROVE PrefetchTimely'
  BY <1>1 DEF PrefetchTimely, Timely
<1>2. ASSUME Changed PROVE PrefetchTimely'
  <2>1. PICK p \in Paths, c \in Contents :
            content' = [content EXCEPT ![p] = c] /\ revision' = NextRevision(p)
    BY <1>2
  <2>2. SUFFICES ASSUME phase # "ended", NEW r \in prefetch
                 PROVE  /\ r.revision <= revision'[r.path]
                        /\ r.revision = revision'[r.path] => r.fresh = content'[r.path]
    BY <1>2 DEF PrefetchTimely, Timely
  <2>3. /\ r \in Evidence /\ r.revision <= revision[r.path]
        /\ r.revision = revision[r.path] => r.fresh = content[r.path]
    BY <2>2 DEF PrefetchTimely, Timely, Typed, TypeOK
  <2> QED
    BY <2>1, <2>3, ChangeIsTimely
<1>3. ASSUME phase' = "ended" PROVE PrefetchTimely'
  BY <1>3 DEF PrefetchTimely
<1>4. ASSUME NEW files \in SUBSET Paths, NEW units \in SUBSET Units, NewRun(files, units)
      PROVE  PrefetchTimely'
  <2>1. revision' \in [Paths -> Nat]
    BY <1>4 DEF NewRun, NewTransaction, Typed, TypeOK
  <2>2. prefetch' = {[path |-> p, unit |-> u, revision |-> revision'[p], fresh |-> content'[p]] :
                       p \in files, u \in units}
    BY <1>4 DEF NewRun
  <2> QED
    BY <2>1, <2>2 DEF PrefetchTimely, Timely
<1>r. \A quotes, source : Record(quotes, source) => prefetch' = prefetch
  BY DEF Record
<1>5. UNCHANGED vars => Same
  BY DEF vars, context
<1>6. Build => Same
  BY DEF Build
<1>7. EndTurn => Same
  BY DEF EndTurn, context
<1>8. \A q \in Requests : RefuseRead(q) => Same
  BY <1>r DEF RefuseRead
<1>9. \A q \in Requests, id \in Items \cup {active} : Read(q, id) \/ Search(q, id) => Same
  BY <1>r DEF Read, Search, Discovered
<1>10. \A q \in Requests, c \in Contents, ids \in SUBSET Items : Edit(q, c, ids) => Changed
  BY <1>r DEF Edit, Marked, Requests
<1>11. \A p \in Paths, c \in Contents, ids \in SUBSET Items : Command(p, c, ids) => Changed
  BY <1>r DEF Command, Marked
<1>12. \A p \in Paths, c \in Contents : LostEdit(p, c) => phase' = "ended"
  BY DEF LostEdit
<1>13. \A ids \in SUBSET Items, passed \in BOOLEAN : Verify(ids, passed) => Same
  BY <1>r DEF Verify, Marked
<1>14. \A drafts \in Updates, id \in Items : UpdatePlan(drafts, id) => Same
  BY <1>r DEF UpdatePlan
<1> HIDE DEF Same, Changed
<1> QED
  BY NextCases, <1>1, <1>2, <1>3, <1>4, <1>5, <1>6, <1>7, <1>8, <1>9, <1>10, <1>11, <1>12,
     <1>13, <1>14, Zenon

(* Only a request changes what was shown last; what it shows is prefetched *)
(* source of the present revision and evidence whose source is unchanged.  *)
LEMMA BuildShowsCurrent ==
    ASSUME Typed, PrefetchTimely, Build
    PROVE  \A s \in shown' : s.fresh = content[s.path]
<1> DEFINE p == Projection(FreshGroups(events))
<1>1. PICK w \in WorkingSets : shown' = Sent(w \cup p.sent)
  BY Zenon DEF Build
<1>2. p.sent \subseteq {r \in Evidence : r.fresh = content[r.path]}
  <2>1. \A i \in DOMAIN events : EvidenceIn(events[i]) \subseteq Evidence
    BY DEF Typed, TypeOK, Groups, EvidenceIn
  <2>2. events \in Seq(Groups(Evidence)) /\ Evidence \in SUBSET Evidence
    BY DEF Typed
  <2> QED
    BY <2>1, <2>2, RequestShows
<1> HIDE DEF p
<1>3. Timely(prefetch) /\ w \subseteq CurrentPrefetch
  BY DEF Build, PrefetchTimely, WorkingSets
<1>4. \A r \in w \cup p.sent : r.fresh = content[r.path]
  BY <1>2, <1>3 DEF CurrentPrefetch, Timely
<1> QED
  BY <1>1, <1>4 DEF Sent

LEMMA NextShown ==
    ASSUME Typed, PrefetchTimely, ShownIsCurrent, [Next]_vars
    PROVE  ShownIsCurrent'
<1> DEFINE Later == batch' # 0 \/ phase' # "turn"
<1>1. ASSUME Later PROVE ShownIsCurrent'
  BY <1>1 DEF ShownIsCurrent
<1>2. ASSUME UNCHANGED vars PROVE ShownIsCurrent'
  BY <1>2 DEF vars, context, request, bounds, ShownIsCurrent
<1>3. ASSUME Build PROVE ShownIsCurrent'
  <2>1. content' = content
    BY <1>3 DEF Build
  <2> QED
    BY <1>3, <2>1, BuildShowsCurrent DEF ShownIsCurrent
<1>4. Calling => Later
  BY DEF Calling, Typed
<1>5. EndTurn => Later
  BY DEF EndTurn
<1>6. \A q \in Requests : RefuseRead(q) => Later
  BY <1>4 DEF RefuseRead
<1>7. \A q \in Requests, id \in Items \cup {active} : Read(q, id) \/ Search(q, id) => Later
  BY <1>4 DEF Read, Search
<1>8. \A q \in Requests, c \in Contents, ids \in SUBSET Items : Edit(q, c, ids) => Later
  BY <1>4 DEF Edit
<1>9. \A p \in Paths, c \in Contents, ids \in SUBSET Items : Command(p, c, ids) => Later
  BY <1>4 DEF Command
<1>10. \A p \in Paths, c \in Contents : LostEdit(p, c) => Later
  BY DEF LostEdit
<1>11. \A ids \in SUBSET Items, passed \in BOOLEAN : Verify(ids, passed) => Later
  BY <1>4 DEF Verify
<1>12. \A drafts \in Updates, id \in Items : UpdatePlan(drafts, id) => Later
  BY <1>4 DEF UpdatePlan
<1>13. \A files \in SUBSET Paths, units \in SUBSET Units : NewRun(files, units) => Later
  BY DEF NewRun
<1> HIDE DEF Later
<1> QED
  BY NextCases, <1>1, <1>2, <1>3, <1>5, <1>6, <1>7, <1>8, <1>9, <1>10, <1>11, <1>12,
     <1>13, Zenon

(* Every state has the types of TypeOK: a plan of at most MaxItems items   *)
(* with different names, evidence of paths, units and revisions (the state *)
(* of ProgressController, WorkPlan and the session's model_events).        *)
THEOREM GateTypes == Spec => []TypeOK
<1>1. Init => Typed
  BY InitTyped
<1>2. Typed /\ [Next]_vars => Typed'
  BY NextTyped
<1>3. Typed => TypeOK
  BY DEF Typed
<1> QED
  BY <1>1, <1>2, <1>3, PTL DEF Spec

(* What a request shows of reads, receipts and the working set is the code *)
(* of the workspace at that time: the working set is cut to the present    *)
(* revisions and the evidence of the events to unchanged files             *)
(* (project_current_working_set, discard_stale_read_groups), for every     *)
(* history of edits, interrupted calls, runs, transactions, /apply and     *)
(* /discard.  What searches quote is not in shown, and may be stale.       *)
THEOREM ShowsCurrentCode == Spec => []ShownIsCurrent
<1>1. Init => Typed /\ PrefetchTimely /\ ShownIsCurrent
  BY InitTyped DEF Init, PrefetchTimely, ShownIsCurrent
<1>2. Typed /\ PrefetchTimely /\ ShownIsCurrent /\ [Next]_vars
         => Typed' /\ PrefetchTimely' /\ ShownIsCurrent'
  BY NextTyped, NextPrefetch, NextShown
<1> QED
  BY <1>1, <1>2, PTL DEF Spec

-----------------------------------------------------------------------------
(* What is refused *)

(* The evidence in the events of a session is of revisions that the        *)
(* present ledger has reached, or from before the transaction.             *)
Held(r) == r \in older \/ r.revision <= revision[r.path]

EventsHeld == \A i \in DOMAIN events : \A r \in EvidenceIn(events[i]) : Held(r)

(* During a turn evidence that counts as visible is from before the        *)
(* transaction; or it is timely and, if it is of the present revision, in  *)
(* the request, unless it was cut from it.                                 *)
Accounted(r) ==
    \/ r \in older
    \/ /\ r.revision <= revision[r.path]
       /\ r.revision = revision[r.path] =>
             /\ r.fresh = content[r.path]
             /\ \/ r \in clipped
                \/ [path |-> r.path, unit |-> r.unit, fresh |-> r.fresh] \in shown

VisibleShown == phase = "turn" => \A r \in visible : Accounted(r)

RefusedInv == Typed /\ PrefetchTimely /\ EventsHeld /\ VisibleShown /\ RefusedIsShown

LEMMA NextEventsHeld ==
    ASSUME Typed, EventsHeld, [Next]_vars
    PROVE  EventsHeld'
<1> DEFINE Same == UNCHANGED <<revision, events, older>>
           Called == \E quotes \in BOOLEAN, source \in SUBSET Evidence :
                        /\ Record(quotes, source) /\ UNCHANGED revision
                        /\ quotes \/ \A r \in source : r.revision <= revision[r.path]
           Changed == \E p \in Paths, c \in Contents :
                         /\ content' = [content EXCEPT ![p] = c]
                         /\ revision' = NextRevision(p)
                         /\ \E source \in SUBSET Evidence :
                               /\ Record(FALSE, source)
                               /\ \A r \in source : r.revision = revision'[r.path]
<1>t. revision \in [Paths -> Nat]
  BY DEF Typed, TypeOK
<1>1. ASSUME Same PROVE EventsHeld'
  BY <1>1 DEF EventsHeld, Held, EvidenceIn
<1>2. ASSUME Called PROVE EventsHeld'
  <2>1. PICK quotes \in BOOLEAN, source \in SUBSET Evidence :
            /\ Record(quotes, source) /\ UNCHANGED revision
            /\ quotes \/ \A r \in source : r.revision <= revision[r.path]
    BY <1>2
  <2>2. /\ \A i \in DOMAIN events' : \A r \in EvidenceIn(events'[i]) :
              \/ ~quotes /\ r \in source
              \/ \E j \in DOMAIN events : r \in EvidenceIn(events[j])
        /\ older' = older
    BY <2>1, EventsTyped
  <2>3. \A i \in DOMAIN events' : \A r \in EvidenceIn(events'[i]) : Held(r)
    BY <2>1, <2>2 DEF EventsHeld, Held
  <2> QED
    BY <2>1, <2>2, <2>3 DEF EventsHeld, Held, EvidenceIn
<1>3. ASSUME Changed PROVE EventsHeld'
  <2>1. PICK p \in Paths, c \in Contents, source \in SUBSET Evidence :
            /\ content' = [content EXCEPT ![p] = c] /\ revision' = NextRevision(p)
            /\ Record(FALSE, source) /\ \A r \in source : r.revision = revision'[r.path]
    BY <1>3
  <2>2. /\ \A i \in DOMAIN events' : \A r \in EvidenceIn(events'[i]) :
              \/ ~FALSE /\ r \in source
              \/ \E j \in DOMAIN events : r \in EvidenceIn(events[j])
        /\ older' = older
    BY <2>1, EventsTyped
  <2>3. ASSUME NEW j \in DOMAIN events, NEW r \in EvidenceIn(events[j])
        PROVE  r \in older \/ r.revision <= revision'[r.path]
    <3>1. r \in Evidence
      BY DEF Typed, TypeOK, Groups, EvidenceIn
    <3> QED
      BY <2>1, <3>1, ChangeIsTimely DEF EventsHeld, Held
  <2>4. \A r \in source : r.revision \in Nat
    BY DEF Evidence
  <2>5. \A i \in DOMAIN events' : \A r \in EvidenceIn(events'[i]) :
            r \in older' \/ r.revision <= revision'[r.path]
    BY <2>1, <2>2, <2>3, <2>4
  <2> QED
    BY <2>5 DEF EventsHeld, Held, EvidenceIn
<1>e. {} \in SUBSET Evidence /\ FALSE \in BOOLEAN /\ TRUE \in BOOLEAN
      /\ \A r \in {} : r.revision <= revision[r.path] /\ r.revision = revision'[r.path]
  OBVIOUS
<1>4. Record(FALSE, {}) /\ UNCHANGED revision => Called
  BY <1>e, Zenon
<1>q. ASSUME NEW q \in Requests
      PROVE  /\ Delivered(q.path, q.units, revision[q.path]) \in SUBSET Evidence
             /\ \A r \in Delivered(q.path, q.units, revision[q.path]) :
                   r.revision <= revision[r.path]
  <2>1. q.path \in Paths /\ q.units \in SUBSET Units /\ revision[q.path] \in Nat
    BY <1>t DEF Requests
  <2> QED
    BY <2>1, DeliveredTyped DEF Delivered
<1>5. UNCHANGED vars => Same
  BY DEF vars, context
<1>6. Build => Same
  BY DEF Build
<1>7. EndTurn => Same
  BY DEF EndTurn, context
<1>8. \A q \in Requests : RefuseRead(q) => Called
  BY <1>4 DEF RefuseRead
<1>9. ASSUME NEW q \in Requests, NEW id \in Items \cup {active}, Read(q, id) \/ Search(q, id)
      PROVE  Called
  <2> DEFINE source == Delivered(q.path, q.units, revision[q.path])
  <2>1. source \in SUBSET Evidence /\ \A r \in source : r.revision <= revision[r.path]
    BY <1>q
  <2>2. (Record(FALSE, source) \/ Record(TRUE, source)) /\ UNCHANGED revision
    BY <1>9 DEF Read, Search, Discovered
  <2> HIDE DEF source
  <2> QED
    BY <1>e, <2>1, <2>2
<1>10. ASSUME NEW q \in Requests, NEW c \in Contents, NEW ids \in SUBSET Items, Edit(q, c, ids)
       PROVE  Changed
  <2> DEFINE sent == Delivered(q.path, q.units, revision'[q.path])
             source == {[r EXCEPT !.fresh = c] : r \in sent}
  <2>1. /\ q.path \in Paths /\ q.units \in SUBSET Units /\ revision'[q.path] \in Nat
        /\ content' = [content EXCEPT ![q.path] = c] /\ revision' = NextRevision(q.path)
    BY <1>10, <1>t DEF Requests, Edit, NextRevision
  <2>2. sent \subseteq Evidence /\ \A r \in sent : r.revision = revision'[r.path]
    BY <2>1, DeliveredTyped DEF Delivered
  <2> HIDE DEF sent
  <2>3. source \subseteq Evidence /\ \A r \in source : r.revision = revision'[r.path]
    BY <2>2 DEF Evidence
  <2>4. Record(FALSE, source)
    BY <1>10 DEF Edit, sent
  <2> HIDE DEF source
  <2> QED
    BY <2>1, <2>3, <2>4
<1>11. ASSUME NEW p \in Paths, NEW c \in Contents, NEW ids \in SUBSET Items, Command(p, c, ids)
       PROVE  Changed
  <2>1. /\ Record(FALSE, {}) /\ revision' = NextRevision(p)
        /\ content' = [content EXCEPT ![p] = c]
    BY <1>11 DEF Command
  <2> QED
    BY <1>e, <2>1, Zenon
<1>12. \A p \in Paths, c \in Contents : LostEdit(p, c) => Same
  BY DEF LostEdit, context
<1>13. \A ids \in SUBSET Items, passed \in BOOLEAN : Verify(ids, passed) => Called
  BY <1>4 DEF Verify
<1>14. \A drafts \in Updates, id \in Items : UpdatePlan(drafts, id) => Called
  BY <1>4 DEF UpdatePlan
<1>15. ASSUME NEW files \in SUBSET Paths, NEW units \in SUBSET Units, NewRun(files, units)
       PROVE  EventsHeld'
  <2>1. \/ events' = <<>>
        \/ events' = events /\ older' = UNION {EvidenceIn(events[i]) : i \in DOMAIN events}
        \/ Same
    BY <1>15 DEF NewRun, NewTransaction
  <2>2. events' = <<>> => DOMAIN events' = {}
    OBVIOUS
  <2>3. CASE events' = events /\ older' = UNION {EvidenceIn(events[i]) : i \in DOMAIN events}
    BY <2>3 DEF EventsHeld, Held, EvidenceIn
  <2> QED
    BY <1>1, <2>1, <2>2, <2>3 DEF EventsHeld
<1> HIDE DEF Same, Called, Changed
<1> QED
  BY NextCases, <1>1, <1>2, <1>3, <1>5, <1>6, <1>7, <1>8, <1>9, <1>10, <1>11, <1>12, <1>13,
     <1>14, <1>15, Zenon

(* A request shows all that it claims, but for what was cut from it and    *)
(* for evidence from before the transaction.                               *)
LEMMA BuildShowsVisible ==
    ASSUME Typed, PrefetchTimely, EventsHeld, Build
    PROVE  VisibleShown'
<1> DEFINE p == Projection(FreshGroups(events))
           S == {r \in Evidence : Held(r)}
<1>1. PICK w \in WorkingSets :
          /\ visible' = prefetch \cup p.claimed
          /\ shown' = Sent(w \cup p.sent) /\ clipped' = CurrentPrefetch \ w
  BY Zenon DEF Build
<1>2. p.sent \subseteq {r \in S : r.fresh = content[r.path]} /\ p.claimed = p.sent
  <2>1. events \in Seq(Groups(Evidence)) /\ S \in SUBSET Evidence
    BY DEF Typed
  <2>2. \A i \in DOMAIN events : EvidenceIn(events[i]) \subseteq S
    BY DEF Typed, TypeOK, EventsHeld, Groups, EvidenceIn
  <2> HIDE DEF S
  <2> QED
    BY <2>1, <2>2, RequestShows
<1> HIDE DEF p
<1>3. Timely(prefetch) /\ content' = content /\ revision' = revision /\ older' = older
  BY DEF Build, PrefetchTimely
<1>4. \A r \in w \cup p.sent :
          [path |-> r.path, unit |-> r.unit, fresh |-> r.fresh] \in shown'
  BY <1>1 DEF Sent
<1>5. ASSUME NEW r \in prefetch
      PROVE  /\ r.revision <= revision[r.path]
             /\ r.revision = revision[r.path] =>
                   r.fresh = content[r.path] /\ (r \in clipped' \/ r \in w)
  BY <1>1, <1>3 DEF Timely, CurrentPrefetch
<1>6. ASSUME NEW r \in p.claimed
      PROVE  r \in p.sent /\ Held(r) /\ r.fresh = content[r.path]
  BY <1>2
<1>7. \A r \in visible' :
          \/ r \in older'
          \/ /\ r.revision <= revision'[r.path]
             /\ r.revision = revision'[r.path] =>
                   /\ r.fresh = content'[r.path]
                   /\ \/ r \in clipped'
                      \/ [path |-> r.path, unit |-> r.unit, fresh |-> r.fresh] \in shown'
  BY <1>1, <1>3, <1>4, <1>5, <1>6 DEF Held
<1> QED
  BY <1>7 DEF VisibleShown, Accounted

LEMMA NextVisible ==
    ASSUME Typed, PrefetchTimely, EventsHeld, VisibleShown, [Next]_vars
    PROVE  VisibleShown'
<1> DEFINE Same == UNCHANGED <<content, revision, older, clipped, visible, shown, phase>>
           Changed == /\ \E p \in Paths, c \in Contents :
                            /\ content' = [content EXCEPT ![p] = c]
                            /\ revision' = NextRevision(p)
                      /\ UNCHANGED <<older, clipped, visible, shown, phase>>
           Over == phase' # "turn"
<1>1. ASSUME Same PROVE VisibleShown'
  BY <1>1 DEF VisibleShown, Accounted
<1>2. ASSUME Changed PROVE VisibleShown'
  <2>1. PICK p \in Paths, c \in Contents :
            content' = [content EXCEPT ![p] = c] /\ revision' = NextRevision(p)
    BY <1>2
  <2>2. ASSUME phase = "turn", NEW r \in visible
        PROVE  \/ r \in older
               \/ /\ r.revision <= revision'[r.path]
                  /\ r.revision = revision'[r.path] =>
                        /\ r.fresh = content'[r.path]
                        /\ \/ r \in clipped
                           \/ [path |-> r.path, unit |-> r.unit, fresh |-> r.fresh] \in shown
    <3>1. r \in Evidence /\ Accounted(r)
      BY <2>2 DEF VisibleShown, Typed, TypeOK
    <3> QED
      BY <2>1, <3>1, ChangeIsTimely DEF Accounted
  <2> QED
    BY <1>2, <2>2 DEF VisibleShown, Accounted
<1>3. ASSUME Over PROVE VisibleShown'
  BY <1>3 DEF VisibleShown
<1>r. \A quotes, source :
          Record(quotes, source) => UNCHANGED <<older, clipped, visible, shown>>
  BY DEF Record, request
<1>4. Build => VisibleShown'
  BY BuildShowsVisible
<1>5. UNCHANGED vars => Same
  BY DEF vars, context, request
<1>6. EndTurn => Over
  BY DEF EndTurn
<1>7. \A q \in Requests : RefuseRead(q) => Same
  BY <1>r DEF RefuseRead
<1>8. \A q \in Requests, id \in Items \cup {active} : Read(q, id) \/ Search(q, id) => Same
  BY <1>r DEF Read, Search, Discovered
<1>9. \A q \in Requests, c \in Contents, ids \in SUBSET Items : Edit(q, c, ids) => Changed
  BY <1>r DEF Edit, Marked, Requests
<1>10. \A p \in Paths, c \in Contents, ids \in SUBSET Items : Command(p, c, ids) => Changed
  BY <1>r DEF Command, Marked
<1>11. \A p \in Paths, c \in Contents : LostEdit(p, c) => Over
  BY DEF LostEdit
<1>12. \A ids \in SUBSET Items, passed \in BOOLEAN : Verify(ids, passed) => Same
  BY <1>r DEF Verify, Marked
<1>13. \A drafts \in Updates, id \in Items : UpdatePlan(drafts, id) => Same
  BY <1>r DEF UpdatePlan
<1>14. \A files \in SUBSET Paths, units \in SUBSET Units : NewRun(files, units) => Over
  BY DEF NewRun
<1> HIDE DEF Same, Changed, Over
<1> QED
  BY NextCases, <1>1, <1>2, <1>3, <1>4, <1>5, <1>6, <1>7, <1>8, <1>9, <1>10, <1>11, <1>12,
     <1>13, <1>14, Zenon

LEMMA NextRefused ==
    ASSUME Typed, VisibleShown, RefusedIsShown, [Next]_vars
    PROVE  RefusedIsShown'
<1> DEFINE Nothing == refused' = NoRefusal
<1>1. ASSUME Nothing PROVE RefusedIsShown'
  BY <1>1 DEF RefusedIsShown, NoRefusal
<1>2. ASSUME UNCHANGED vars PROVE RefusedIsShown'
  BY <1>2 DEF vars, context, request, RefusedIsShown, InRequest, Among
<1>3. ASSUME NEW q \in Requests, RefuseRead(q) PROVE RefusedIsShown'
  <2>1. CASE Nothing
    BY <1>1, <2>1
  <2>2. CASE Visible(q) /\ refused' = q
    <3>1. phase = "turn" /\ UNCHANGED <<content, older, clipped, shown>>
      BY <1>3 DEF RefuseRead, Calling, Record, request
    <3>2. ASSUME NEW u \in q.units
          PROVE  \/ [path |-> q.path, unit |-> u, fresh |-> content[q.path]] \in shown
                 \/ \E r \in clipped \cup older : r.path = q.path /\ r.unit = u
      <4>1. PICK r \in visible : r.path = q.path /\ r.unit = u /\ r.revision = revision[q.path]
        BY <2>2 DEF Visible
      <4>2. Accounted(r)
        BY <3>1 DEF VisibleShown
      <4> QED
        BY <4>1, <4>2 DEF Accounted
    <3> QED
      BY <2>2, <3>1, <3>2 DEF RefusedIsShown, InRequest, Among
  <2> QED
    BY <1>3, <2>1, <2>2 DEF RefuseRead
<1>4. Build \/ EndTurn => Nothing
  BY DEF Build, EndTurn
<1>5. \A q \in Requests, id \in Items \cup {active} : Read(q, id) \/ Search(q, id) => Nothing
  BY DEF Read, Search, Discovered
<1>6. \A q \in Requests, c \in Contents, ids \in SUBSET Items : Edit(q, c, ids) => Nothing
  BY DEF Edit, Marked
<1>7. \A p \in Paths, c \in Contents, ids \in SUBSET Items : Command(p, c, ids) => Nothing
  BY DEF Command, Marked
<1>8. \A p \in Paths, c \in Contents : LostEdit(p, c) => Nothing
  BY DEF LostEdit
<1>9. \A ids \in SUBSET Items, passed \in BOOLEAN : Verify(ids, passed) => Nothing
  BY DEF Verify, Marked
<1>10. \A drafts \in Updates, id \in Items : UpdatePlan(drafts, id) => Nothing
  BY DEF UpdatePlan
<1>11. \A files \in SUBSET Paths, units \in SUBSET Units : NewRun(files, units) => Nothing
  BY DEF NewRun
<1> HIDE DEF Nothing
<1> QED
  BY NextCases, <1>1, <1>2, <1>3, <1>4, <1>5, <1>6, <1>7, <1>8, <1>9, <1>10, <1>11, Zenon

(* A read is refused as a repetition only if the request it answers has    *)
(* the very source the read would return, or the unit was cut from the     *)
(* working set of this request, or the session has evidence of it from     *)
(* before /apply or /discard (_visible_source_covers and                   *)
(* set_visible_tool_outputs, after project_model_events): whatever was     *)
(* edited, compacted, lost or carried over from earlier runs.              *)
THEOREM RefusesOnlyWhatIsShown == Spec => []RefusedIsShown
<1>1. Init => RefusedInv
  <2> SUFFICES ASSUME Init PROVE RefusedInv
    OBVIOUS
  <2>1. DOMAIN events = {}
    BY DEF Init
  <2> QED
    BY <2>1, InitTyped DEF Init, RefusedInv, PrefetchTimely, EventsHeld, VisibleShown,
       RefusedIsShown, NoRefusal
<1>2. RefusedInv /\ [Next]_vars => RefusedInv'
  BY NextTyped, NextPrefetch, NextEventsHeld, NextVisible, NextRefused DEF RefusedInv
<1>3. RefusedInv => RefusedIsShown
  BY DEF RefusedInv
<1> QED
  BY <1>1, <1>2, <1>3, PTL DEF Spec

-----------------------------------------------------------------------------
(* Decisions *)

(* A step that may take a decision of the plan back without deciding. *)
Undecided ==
    \A i \in DOMAIN plan :
       (/\ plan[i].status = "decision_due" /\ plan' # <<>>
        /\ \E j \in DOMAIN plan' :
              plan'[j].id = plan[i].id /\ plan'[j].status # "decision_due")
           => plan[i].id \in decided'

(* A change of the status of items decides on those items. *)
LEMMA StatusDecides ==
    ASSUME Named(plan), NEW ids, NEW status \in Statuses, plan' = WithStatus(ids, status),
           status = "decision_due" \/ ids \subseteq decided'
    PROVE  Undecided
<1>1. /\ DOMAIN plan' = DOMAIN plan
      /\ \A i \in DOMAIN plan :
            /\ plan'[i].id = plan[i].id
            /\ plan'[i].status = IF plan[i].id \in ids THEN status ELSE plan[i].status
  BY WithStatusNamed
<1>2. SUFFICES ASSUME NEW i \in DOMAIN plan, plan[i].status = "decision_due",
                      NEW j \in DOMAIN plan', plan'[j].id = plan[i].id,
                      plan'[j].status # "decision_due"
               PROVE  plan[i].id \in decided'
  BY DEF Undecided
<1>3. j = i
  BY <1>1, <1>2 DEF Named
<1> QED
  BY <1>1, <1>2, <1>3

LEMMA StepDecides ==
    ASSUME Typed, [Next]_vars
    PROVE  Undecided
<1> DEFINE Kept == plan' = plan \/ plan' = <<>>
<1>0. Named(plan)
  BY TypedPlan
<1>1. ASSUME Kept PROVE Undecided
  BY <1>0, <1>1 DEF Undecided, Named
<1>2. ASSUME NEW ids, NEW status \in Statuses, plan' = WithStatus(ids, status),
             status = "decision_due" \/ ids \subseteq decided'
      PROVE  Undecided
  BY <1>0, <1>2, StatusDecides
<1>3. "decision_due" \in Statuses /\ "implemented" \in Statuses
      /\ "verified" \in Statuses /\ "repair" \in Statuses
  BY DEF Statuses
<1>4. UNCHANGED vars \/ Build \/ EndTurn => Kept
  BY DEF vars, workPlan, Build, EndTurn
<1>5. \A q \in Requests : RefuseRead(q) => Kept
  BY DEF RefuseRead
<1>6. ASSUME NEW q \in Requests, NEW id \in Items \cup {active}, Read(q, id) \/ Search(q, id)
      PROVE  Undecided
  BY <1>1, <1>2, <1>3, <1>6 DEF Read, Search, Discovered, Bound
<1>m. ASSUME NEW ids, NEW status \in Statuses, Marked(ids, status) PROVE Undecided
  BY <1>m, <1>2 DEF Marked
<1>7. ASSUME NEW q \in Requests, NEW c \in Contents, NEW ids \in SUBSET Items, Edit(q, c, ids)
      PROVE  Undecided
  BY <1>m, <1>3, <1>7 DEF Edit
<1>8. ASSUME NEW p \in Paths, NEW c \in Contents, NEW ids \in SUBSET Items, Command(p, c, ids)
      PROVE  Undecided
  BY <1>m, <1>3, <1>8 DEF Command
<1>9. \A p \in Paths, c \in Contents : LostEdit(p, c) => Kept
  BY DEF LostEdit
<1>10. ASSUME NEW ids \in SUBSET Items, NEW passed \in BOOLEAN, Verify(ids, passed)
       PROVE  Undecided
  BY <1>m, <1>3, <1>10 DEF Verify
<1>11. ASSUME NEW drafts \in Updates, NEW id \in Items, UpdatePlan(drafts, id)
       PROVE  Undecided
  <2>1. SUFFICES ASSUME NEW i \in DOMAIN plan, plan[i].status = "decision_due",
                        NEW j \in DOMAIN plan', plan'[j].id = plan[i].id,
                        plan'[j].status # "decision_due"
                 PROVE  plan[i].id \in decided'
    BY DEF Undecided
  <2>2. plan' = Updated(drafts)
    BY <1>11 DEF UpdatePlan
  <2>3. PICK k \in DOMAIN drafts : /\ drafts[k].id = plan[i].id
                                  /\ plan'[j].status = UpdatedStatus(drafts[k])
    BY <1>0, <2>1, <2>2, UpdatedNamed
  <2>4. StatusOf(drafts[k].id) = "decision_due"
    BY <1>0, <2>1, <2>3, StatusOfItem
  <2>5. drafts[k].assessed /\ (drafts[k].action \/ drafts[k].blocker)
    BY <2>1, <2>3, <2>4, Zenon DEF UpdatedStatus
  <2>6. plan[i].id \in Items
    BY DEF Typed, TypeOK
  <2> QED
    BY <1>11, <2>3, <2>5, <2>6 DEF UpdatePlan
<1>12. \A files \in SUBSET Paths, units \in SUBSET Units : NewRun(files, units) => Kept
  BY DEF NewRun, NewTransaction
<1> HIDE DEF Kept
<1> QED
  BY NextCases, <1>1, <1>4, <1>5, <1>6, <1>7, <1>8, <1>9, <1>10, <1>11, <1>12, Zenon

(* A decision that evidence made due stays due until the model assesses    *)
(* the evidence or the item is changed or verified, however its plan is    *)
(* reworded and whatever items are added (WorkPlan.update).                *)
THEOREM KeepsDecisions == Spec => DecisionKept
<1>1. Init => Typed
  BY InitTyped
<1>2. Typed /\ [Next]_vars => Typed'
  BY NextTyped
<1>3. Typed /\ [Next]_vars => Undecided
  BY StepDecides
<1> QED
  BY <1>1, <1>2, <1>3, PTL DEF Spec, DecisionKept, Undecided
=============================================================================
