------------------------- MODULE ProjectLists_proofs -------------------------
(* Theorems about Projects and ProjectLists, for every value of their constants:  *)
(* what a removal promises holds, statuses move forward, and the pages of a walk  *)
(* are exact.                                                                     *)
EXTENDS ProjectLists, FiniteSetTheorems, WellFoundedInduction, TLAPS

USE DEF histVars, projectVars

-----------------------------------------------------------------------------
(* The inductive invariant: calls                                          *)

RowType  == [there : BOOLEAN, status : Statuses, active : BOOLEAN, deleted : BOOLEAN]
Steps    == {"idle", "save", "count", "hard delete", "deactivate", "soft delete", "retire"}
CallType == [step : Steps, id : Ids \cup {0}, entity : RowType]

RowsInv ==
  /\ row \in [Ids -> RowType] /\ created \in [Ids -> Times \cup {0}]
  /\ retirement \cup overlapped \cup failed \cup removed \cup raced \subseteq Ids
  /\ \A p \in Ids : ~row[p].there => row[p] = NoRow
CallsInv ==
  /\ call \in [Calls -> CallType] /\ calls \in 0..MaxCalls /\ errors \in 0..MaxErrors
  /\ \A c \in Calls : call[c].step # "idle" => call[c].id \in Editable
TypeInv == RowsInv /\ CallsInv

Busy(c)    == call[c].step \notin {"idle", "retire"}
Carries(c) == call[c].step \in {"save", "count", "hard delete", "deactivate"}
Removes(c) == call[c].step \in {"hard delete", "deactivate", "soft delete"}

\* The entity of a call is of a project that was there, and two calls that may
\* change a project overlap.
EntityInv == \A c \in Calls : Carries(c) => call[c].entity.there /\ ~call[c].entity.deleted
AloneInv  ==
  \A c \in Calls, d \in Calls :
    c # d /\ Busy(c) /\ Busy(d) /\ call[c].id = call[d].id => call[c].id \in overlapped

\* Without an overlap the entity is the row but for what the call changes, and the
\* project was not removed meanwhile.
FreshInv ==
  \A c \in Calls : LET p == call[c].id IN
    /\ Carries(c) /\ p \notin overlapped =>
         \/ call[c].entity.status = row[p].status
         \/ call[c].step = "save" /\ ValidTransition(row[p].status, call[c].entity.status)
    /\ Carries(c) /\ p \notin overlapped \cup failed => call[c].entity.active
    /\ Busy(c) /\ p \in removed => p \in overlapped

\* A call that deletes has counted no retirement: one there is now overtook it.
RecordsInv ==
  /\ RecordsRetained /\ RecordsStayVisible
  /\ \A c \in Calls : Removes(c) /\ call[c].id \in retirement => call[c].id \in raced

\* Without an overlap or a failure the row is half removed only in front of softRemove.
Halfway(p) == \E c \in Calls : call[c].step = "soft delete" /\ call[c].id = p
WholeInv ==
  \A p \in Ids \ (overlapped \cup failed) :
    IF Halfway(p) THEN row[p].there /\ ~row[p].active /\ ~row[p].deleted
    ELSE row[p].deleted <=> ~row[p].active

ProjectsInv ==
  /\ EntityInv /\ AloneInv /\ FreshInv
  /\ RecordsInv /\ RemovedStaysRemoved /\ WholeInv
IInvA == TypeInv /\ ProjectsInv

USE DEF Busy, Carries, Removes

-----------------------------------------------------------------------------
(* Rows and calls are well typed                                           *)

LEMMA Bounds ==
  /\ 0 \in Nat /\ 0 \notin Ids /\ Ids \subseteq Nat /\ Editable \subseteq Ids
  /\ Times \subseteq Nat /\ MaxCalls \in Nat /\ MaxErrors \in Nat
  /\ StartStatuses \subseteq Statuses /\ NoRow \in RowType /\ NoCall \in CallType
BY ProjectConstants, StartAssumption DEF NoRow, NoCall, RowType, CallType, Steps, Statuses

LEMMA BeginIs ==
  ASSUME TypeInv, NEW c \in Calls, NEW p \in Ids, NEW step \in Steps, NEW entity \in RowType,
         Begin(c, p, step, entity)
  PROVE  /\ call[c].step = "idle" /\ p \in Editable /\ Live(p)
         /\ call' \in [Calls -> CallType] /\ calls' \in 0..MaxCalls
         /\ call'[c] = [step |-> step, id |-> p, entity |-> entity]
         /\ \A d \in Calls \ {c} : call'[d] = call[d]
         /\ overlapped' = IF On(p) = {} THEN overlapped ELSE overlapped \cup {p}
         /\ UNCHANGED <<row, created, retirement, errors, failed, removed, raced>>
<1>1. [step |-> step, id |-> p, entity |-> entity] \in CallType  BY DEF CallType
<1>2. calls' \in 0..MaxCalls  BY Bounds DEF Begin, TypeInv, CallsInv
<1> QED BY <1>1, <1>2 DEF Begin, TypeInv, CallsInv

\* update and remove start with findById.
LEMMA UpdateOrRemove ==
  ASSUME TypeInv, NEW c \in Calls, NEW p \in Ids, Update(c, p) \/ Remove(c, p)
  PROVE  \E step \in {"save", "count"}, entity \in RowType :
           /\ Begin(c, p, step, entity)
           /\ entity.there = row[p].there /\ entity.deleted = row[p].deleted
           /\ entity.active = row[p].active
           /\ \/ entity.status = row[p].status
              \/ step = "save" /\ ValidTransition(row[p].status, entity.status)
<1>1. row[p] \in RowType  BY DEF TypeInv, RowsInv
<1>2. CASE Update(c, p)
  <2>1. PICK to \in Statuses :
          /\ to = row[p].status \/ ValidTransition(row[p].status, to)
          /\ Begin(c, p, "save", [row[p] EXCEPT !.status = to])
    BY <1>2 DEF Update
  <2> DEFINE e == [row[p] EXCEPT !.status = to]
  <2>2. /\ e \in RowType /\ e.there = row[p].there /\ e.deleted = row[p].deleted
        /\ e.active = row[p].active /\ e.status = to
    BY <1>1 DEF RowType
  <2> HIDE DEF e
  <2>3. Begin(c, p, "save", e)  BY <2>1 DEF e
  <2> QED BY <2>1, <2>2, <2>3
<1>3. CASE Remove(c, p)
  BY <1>1, <1>3 DEF Remove
<1> QED BY <1>2, <1>3

LEMMA EndIs ==
  ASSUME TypeInv, NEW c \in Calls, End(c)
  PROVE  /\ call' \in [Calls -> CallType] /\ call'[c] = NoCall /\ NoCall.step = "idle"
         /\ \A d \in Calls \ {c} : call'[d] = call[d]
BY Bounds DEF End, TypeInv, CallsInv, NoCall

\* A handler goes on to its next step.
LEMMA StepIs ==
  ASSUME TypeInv, NEW c \in Calls, NEW step \in Steps, call' = [call EXCEPT ![c].step = step]
  PROVE  /\ call' \in [Calls -> CallType] /\ call'[c].step = step
         /\ call'[c].id = call[c].id /\ call'[c].entity = call[c].entity
         /\ \A d \in Calls \ {c} : call'[d] = call[d]
<1>1. [call[c] EXCEPT !.step = step] \in CallType  BY DEF TypeInv, CallsInv, CallType
<1> QED BY <1>1 DEF TypeInv, CallsInv, CallType

LEMMA InitCalls == ProjectsInit => IInvA
<1> SUFFICES ASSUME ProjectsInit PROVE IInvA
  OBVIOUS
<1> USE Bounds DEF ProjectsInit
<1>1. PICK s \in StartStatuses :
        row = [p \in Ids |-> IF p \in Editable THEN [NoRow EXCEPT !.there = TRUE, !.status = s]
                             ELSE NoRow]
  OBVIOUS
<1> DEFINE e == [NoRow EXCEPT !.there = TRUE, !.status = s]
<1>2. /\ e \in RowType /\ e.there /\ e.active /\ ~e.deleted
      /\ ~NoRow.there /\ NoRow.active /\ ~NoRow.deleted
  BY DEF RowType, NoRow
<1>3. row \in [Ids -> RowType] /\ \A p \in Ids : row[p] \in {e, NoRow}  BY <1>1, <1>2
<1> HIDE DEF e
<1>4. RowsInv  BY <1>2, <1>3 DEF RowsInv
<1>5. /\ call \in [Calls -> CallType] /\ \A c \in Calls : call[c].step = "idle"
  BY DEF NoCall
<1>6. CallsInv  BY <1>5 DEF CallsInv
<1>7. EntityInv /\ AloneInv /\ FreshInv /\ RecordsInv /\ RemovedStaysRemoved
  BY <1>5 DEF EntityInv, AloneInv, FreshInv, RecordsInv, RecordsRetained, RecordsStayVisible,
              RemovedStaysRemoved
<1>8. WholeInv  BY <1>2, <1>3, <1>5 DEF WholeInv, Halfway
<1> QED BY <1>4, <1>6, <1>7, <1>8 DEF IInvA, TypeInv, ProjectsInv

-----------------------------------------------------------------------------
(* Every step of a call                                                    *)

\* What the handler of an entity may write.
LEMMA WriteIs ==
  ASSUME TypeInv, EntityInv, NEW c \in Calls, Save(c) \/ Deactivate(c)
  PROVE  \E e \in RowType : LET p == call[c].id IN
           /\ p \in Editable /\ e.there /\ ~e.deleted
           /\ e.status = call[c].entity.status
           /\ e.active = IF Save(c) THEN call[c].entity.active ELSE FALSE
           /\ row' = [row EXCEPT ![p] = e]
           /\ UNCHANGED <<created, retirement, calls, errors, histVars>>
<1>1. /\ call[c].entity \in RowType /\ call[c].entity.there /\ ~call[c].entity.deleted
      /\ call[c].id \in Editable
  BY DEF TypeInv, CallsInv, CallType, EntityInv, Save, Deactivate
<1>2. CASE Save(c)
  BY <1>1, <1>2 DEF Save
<1>3. CASE Deactivate(c)
  <2> DEFINE e == [call[c].entity EXCEPT !.active = FALSE]
  <2>1. /\ e \in RowType /\ e.there /\ ~e.deleted /\ e.active = FALSE
        /\ e.status = call[c].entity.status
    BY <1>1 DEF RowType
  <2>2. /\ row' = [row EXCEPT ![call[c].id] = e]
        /\ UNCHANGED <<created, retirement, calls, errors, histVars>>
    BY <1>3 DEF Deactivate
  <2>3. ~Save(c)  BY <1>3 DEF Deactivate, Save
  <2> HIDE DEF e
  <2> QED BY <1>1, <2>1, <2>2, <2>3
<1> QED BY <1>2, <1>3

LEMMA SoftDeletedIs ==
  ASSUME NEW r \in RowType
  PROVE  /\ SoftDeleted(r) \in RowType /\ SoftDeleted(r).deleted
         /\ SoftDeleted(r).there = r.there /\ SoftDeleted(r).active = r.active
         /\ SoftDeleted(r).status = r.status
BY DEF SoftDeleted, RowType

LEMMA CreateIs ==
  ASSUME TypeInv, NEW p \in Ids, NEW t \in Times, Create(p, t)
  PROVE  /\ ~row[p].there /\ p \notin removed /\ row'[p] \in RowType /\ row'[p].there
         /\ row'[p].status = row[p].status /\ row'[p].active /\ ~row'[p].deleted
         /\ row[p].active /\ ~row[p].deleted
         /\ \A q \in Ids \ {p} : row'[q] = row[q] /\ created'[q] = created[q]
         /\ row' \in [Ids -> RowType] /\ created' \in [Ids -> Times \cup {0}]
         /\ UNCHANGED <<retirement, call, calls, errors, histVars>>
<1>1. row[p] = NoRow  BY DEF Create, TypeInv, RowsInv
<1>2. [row[p] EXCEPT !.there = TRUE] \in RowType  BY DEF TypeInv, RowsInv, RowType
<1> QED BY <1>1, <1>2, Bounds DEF Create, TypeInv, RowsInv, NoRow, RowType

\* The rows of the calls themselves: one moves, the others wait.
LEMMA CallMoves ==
  ASSUME TypeInv, NEW c \in Calls,
         \/ Save(c) \/ Count(c) \/ HardDelete(c) \/ Deactivate(c) \/ SoftDelete(c)
         \/ InsertRetirement(c) \/ StatementFails(c)
  PROVE  /\ call' \in [Calls -> CallType] /\ call[c].step # "idle" /\ call[c].id \in Editable
         /\ \A d \in Calls \ {c} : call'[d] = call[d]
         /\ \/ call'[c].step = "idle"
            \/ /\ call'[c].id = call[c].id /\ call'[c].entity = call[c].entity
               /\ \/ /\ Count(c) /\ call'[c].step \in {"hard delete", "deactivate"}
                     /\ ~HasRecords(call[c].id)
                  \/ Deactivate(c) /\ call'[c].step = "soft delete"
<1>1. call[c].step # "idle" /\ call[c].id \in Editable
  BY DEF TypeInv, CallsInv, Save, Count, HardDelete, Deactivate, SoftDelete, InsertRetirement,
         StatementFails
<1>2. CASE End(c)
  BY <1>1, <1>2, EndIs
<1>3. CASE Count(c) /\ ~End(c)
  <2>1. PICK step \in {"hard delete", "deactivate"} : call' = [call EXCEPT ![c].step = step]
    BY <1>3 DEF Count
  <2> QED BY <1>1, <1>3, <2>1, StepIs DEF Count, Steps
<1>4. CASE Deactivate(c)
  BY <1>1, <1>4, StepIs DEF Deactivate, Steps
<1> QED BY <1>2, <1>3, <1>4 DEF Save, Count, HardDelete, SoftDelete, InsertRetirement,
                                StatementFails

LEMMA CreateKeeps ==
  ASSUME IInvA, NEW p \in Ids, NEW t \in Times, Create(p, t)
  PROVE  IInvA'
<1> USE DEF IInvA
<1>1. TypeInv'
  BY CreateIs DEF TypeInv, RowsInv, CallsInv
<1>2. UNCHANGED <<call, overlapped, failed, removed>>  BY CreateIs
<1>3. EntityInv' /\ AloneInv'  BY <1>2 DEF ProjectsInv, EntityInv, AloneInv
<1>4. FreshInv'
  <2>1. \A c \in Calls : Busy(c) => row'[call[c].id].status = row[call[c].id].status
    BY CreateIs, Bounds DEF TypeInv, CallsInv
  <2> QED BY <1>2, <2>1 DEF ProjectsInv, FreshInv
<1>5. RecordsInv' /\ RemovedStaysRemoved'
  BY CreateIs DEF TypeInv, RowsInv, ProjectsInv, RecordsInv, RecordsRetained,
                  RecordsStayVisible, RemovedStaysRemoved, Live
<1>6. WholeInv'
  <2>1. \A q \in Ids : Halfway(q)' <=> Halfway(q)  BY <1>2 DEF Halfway
  <2>2. p \notin overlapped \cup failed => ~Halfway(p)
    BY CreateIs DEF ProjectsInv, WholeInv
  <2>3. \A q \in Ids \ {p} : row'[q] = row[q]  BY CreateIs
  <2>4. row'[p].active /\ ~row'[p].deleted  BY CreateIs
  <2> QED BY <1>2, <2>1, <2>2, <2>3, <2>4 DEF ProjectsInv, WholeInv
<1> QED BY <1>1, <1>3, <1>4, <1>5, <1>6 DEF ProjectsInv

LEMMA BeginKeeps ==
  ASSUME IInvA, NEW c \in Calls, NEW p \in Ids, Update(c, p) \/ Remove(c, p)
  PROVE  IInvA'
<1> USE DEF IInvA
<1>1. PICK step \in {"save", "count"}, entity \in RowType :
        /\ Begin(c, p, step, entity)
        /\ entity.there = row[p].there /\ entity.deleted = row[p].deleted
        /\ entity.active = row[p].active
        /\ \/ entity.status = row[p].status
           \/ step = "save" /\ ValidTransition(row[p].status, entity.status)
  BY UpdateOrRemove
<1>2. /\ call[c].step = "idle" /\ p \in Editable /\ Live(p)
      /\ call' \in [Calls -> CallType] /\ calls' \in 0..MaxCalls
      /\ call'[c] = [step |-> step, id |-> p, entity |-> entity]
      /\ \A d \in Calls \ {c} : call'[d] = call[d]
      /\ overlapped' = IF On(p) = {} THEN overlapped ELSE overlapped \cup {p}
      /\ UNCHANGED <<row, created, retirement, errors, failed, removed, raced>>
  <2>1. step \in Steps  BY DEF Steps
  <2>2. Begin(c, p, step, entity)  BY <1>1
  <2> QED BY <2>1, <2>2, BeginIs
<1>3. call'[c].step = step /\ call'[c].id = p /\ call'[c].entity = entity
  BY <1>2
<1>4. TypeInv'  BY <1>2, <1>3 DEF TypeInv, RowsInv, CallsInv
<1>5. overlapped \subseteq overlapped'  BY <1>2
<1>6. \A d \in Calls : Busy(d) /\ call[d].id = p => p \in overlapped'  BY <1>2 DEF On
<1>7. EntityInv' /\ AloneInv'
  <2>1. EntityInv'
    BY <1>1, <1>2, <1>3 DEF ProjectsInv, EntityInv, Live
  <2>2. ASSUME NEW d \in Calls, NEW e \in Calls, d # e, Busy(d)', Busy(e)',
               call'[d].id = call'[e].id
        PROVE  call'[d].id \in overlapped'
    <3>1. CASE d # c /\ e # c  BY <1>2, <1>5, <2>2, <3>1 DEF ProjectsInv, AloneInv
    <3>2. CASE d = c \/ e = c  BY <1>2, <1>3, <1>6, <2>2, <3>2
    <3> QED BY <3>1, <3>2
  <2> QED BY <2>1, <2>2 DEF AloneInv
<1>8. p \notin overlapped' \cup failed => row[p].active
  BY <1>2, <1>6 DEF ProjectsInv, WholeInv, Halfway, Live
<1>9. FreshInv'
  <2>1. p \in removed => p \in overlapped'
    BY <1>2, <1>5 DEF ProjectsInv, RemovedStaysRemoved
  <2>2. ASSUME NEW d \in Calls \ {c}
        PROVE  LET q == call'[d].id IN
               /\ Carries(d)' /\ q \notin overlapped' =>
                    \/ call'[d].entity.status = row[q].status
                    \/ /\ call'[d].step = "save"
                       /\ ValidTransition(row[q].status, call'[d].entity.status)
               /\ Carries(d)' /\ q \notin overlapped' \cup failed => call'[d].entity.active
               /\ Busy(d)' /\ q \in removed => q \in overlapped'
    BY <1>2, <1>5 DEF ProjectsInv, FreshInv
  <2> QED BY <1>1, <1>2, <1>3, <1>8, <2>1, <2>2 DEF FreshInv
<1>10. RecordsInv' /\ RemovedStaysRemoved'
  BY <1>2, <1>3, <1>5 DEF ProjectsInv, RecordsInv, RecordsRetained, RecordsStayVisible,
                          RemovedStaysRemoved, Live
<1>11. WholeInv'
  <2>1. \A q \in Ids : Halfway(q)' <=> Halfway(q)  BY <1>2, <1>3 DEF Halfway
  <2> QED BY <1>2, <1>5, <2>1 DEF ProjectsInv, WholeInv
<1> QED BY <1>4, <1>7, <1>9, <1>10, <1>11 DEF ProjectsInv

LEMMA RetireKeeps ==
  ASSUME IInvA, NEW c \in Calls, NEW p \in Ids, Retire(c, p)
  PROVE  IInvA'
<1> USE DEF IInvA
<1> DEFINE x == [step |-> "retire", id |-> p, entity |-> NoRow]
<1>1. x \in CallType /\ x.step = "retire" /\ x.id = p  BY Bounds DEF CallType, Steps
<1> HIDE DEF x
<1>2. /\ call' \in [Calls -> CallType] /\ call'[c] = x /\ calls' \in 0..MaxCalls
      /\ call[c].step = "idle" /\ p \in Editable
      /\ \A d \in Calls \ {c} : call'[d] = call[d]
      /\ UNCHANGED <<row, created, retirement, errors, histVars>>
  BY <1>1, Bounds DEF Retire, TypeInv, CallsInv, x
<1>3. TypeInv'  BY <1>1, <1>2 DEF TypeInv, RowsInv, CallsInv
<1>4. EntityInv' /\ AloneInv' /\ FreshInv'
  BY <1>1, <1>2 DEF ProjectsInv, EntityInv, AloneInv, FreshInv
<1>5. RecordsInv' /\ RemovedStaysRemoved'
  BY <1>1, <1>2 DEF ProjectsInv, RecordsInv, RecordsRetained, RecordsStayVisible,
                    RemovedStaysRemoved, Live
<1>6. WholeInv'
  <2>1. \A q \in Ids : Halfway(q)' <=> Halfway(q)  BY <1>1, <1>2 DEF Halfway
  <2> QED BY <1>2, <2>1 DEF ProjectsInv, WholeInv
<1> QED BY <1>3, <1>4, <1>5, <1>6 DEF ProjectsInv

\* A step of a call that has begun: what it writes, and what it leaves.
LEMMA CallKeepsTypes ==
  ASSUME IInvA, NEW c \in Calls,
         \/ Save(c) \/ Count(c) \/ HardDelete(c) \/ Deactivate(c) \/ SoftDelete(c)
         \/ InsertRetirement(c) \/ StatementFails(c)
  PROVE  TypeInv'
<1> USE DEF IInvA
<1>1. CallsInv'
  <2>1. calls' \in 0..MaxCalls /\ errors' \in 0..MaxErrors
    <3>1. CASE StatementFails(c)
      BY <3>1, Bounds DEF TypeInv, CallsInv, StatementFails
    <3>2. UNCHANGED <<calls, errors>> \/ StatementFails(c)
      BY DEF Save, Count, HardDelete, Deactivate, SoftDelete, InsertRetirement
    <3> QED BY <3>1, <3>2 DEF TypeInv, CallsInv
  <2> QED BY <2>1, CallMoves DEF TypeInv, CallsInv
<1>2. created' = created
  BY DEF Save, Count, HardDelete, Deactivate, SoftDelete, InsertRetirement, StatementFails
<1>3. RowsInv'
  <2>1. PICK p \in Ids : p = call[c].id  BY CallMoves, Bounds
  <2>2. CASE Save(c) \/ Deactivate(c)
    <3>1. PICK e \in RowType : /\ e.there /\ row' = [row EXCEPT ![p] = e]
                               /\ UNCHANGED <<retirement, histVars>>
      BY <2>1, <2>2, WriteIs DEF ProjectsInv
    <3> QED BY <1>2, <2>1, <3>1 DEF TypeInv, RowsInv
  <2>3. CASE Count(c)
    BY <2>3 DEF Count, TypeInv, RowsInv
  <2>4. CASE HardDelete(c)
    <3>1. /\ row' = row \/ row' = [row EXCEPT ![p] = NoRow]
          /\ removed' = removed \/ removed' = removed \cup {p}
          /\ UNCHANGED <<retirement, overlapped, failed, raced>>
      BY <2>1, <2>4 DEF HardDelete
    <3> QED BY <1>2, <2>1, <3>1, Bounds DEF TypeInv, RowsInv
  <2>5. CASE SoftDelete(c)
    <3>1. row' = row \/ (row[p].there /\ row' = [row EXCEPT ![p] = SoftDeleted(row[p])])
      BY <2>1, <2>5 DEF SoftDelete
    <3>2. row \in [Ids -> RowType] /\ SoftDeleted(row[p]) \in RowType
          /\ SoftDeleted(row[p]).there = row[p].there
      BY SoftDeletedIs DEF TypeInv, RowsInv
    <3>3. row' \in [Ids -> RowType] /\ \A q \in Ids : row'[q].there = row[q].there
      BY <3>1, <3>2
    <3>4. \A q \in Ids : ~row'[q].there => row'[q] = row[q]  BY <3>1, <3>2
    <3>5. /\ removed' = removed \cup {p}
          /\ UNCHANGED <<created, retirement, overlapped, failed, raced>>
      BY <2>1, <2>5 DEF SoftDelete
    <3> QED BY <2>1, <3>3, <3>4, <3>5 DEF TypeInv, RowsInv
  <2>6. CASE InsertRetirement(c) \/ StatementFails(c)
    BY <2>1, <2>6 DEF InsertRetirement, StatementFails, TypeInv, RowsInv
  <2> QED BY <2>2, <2>3, <2>4, <2>5, <2>6
<1> QED BY <1>1, <1>3 DEF TypeInv

\* A handler that is alone in changing its project is alone on its row.
LEMMA OthersOverlap ==
  ASSUME IInvA, NEW c \in Calls, Busy(c), NEW d \in Calls \ {c}, Busy(d), call[d].id = call[c].id
  PROVE  call[c].id \in overlapped
BY DEF IInvA, ProjectsInv, AloneInv

\* What a step does to the rows: only that of its project, and nothing unless it
\* is busy.
LEMMA RowMoves ==
  ASSUME IInvA, NEW c \in Calls,
         \/ Save(c) \/ Count(c) \/ HardDelete(c) \/ Deactivate(c) \/ SoftDelete(c)
         \/ InsertRetirement(c) \/ StatementFails(c)
  PROVE  /\ \A q \in Ids \ {call[c].id} : row'[q] = row[q]
         /\ Busy(c) \/ row' = row
         /\ overlapped' = overlapped /\ failed \subseteq failed' /\ removed \subseteq removed'
         /\ \A q \in removed' \ removed : q = call[c].id /\ Busy(c)
         /\ raced \subseteq raced'
<1> USE DEF IInvA
<1>1. CASE Save(c) \/ Deactivate(c)
  BY <1>1, WriteIs DEF ProjectsInv, Save, Deactivate, TypeInv, RowsInv
<1>2. CASE Count(c)
  BY <1>2 DEF Count
<1>3. CASE HardDelete(c)
  BY <1>3 DEF HardDelete, TypeInv, RowsInv
<1>4. CASE SoftDelete(c)
  BY <1>4 DEF SoftDelete, TypeInv, RowsInv
<1>5. CASE InsertRetirement(c) \/ StatementFails(c)
  BY <1>5 DEF InsertRetirement, StatementFails
<1> QED BY <1>1, <1>2, <1>3, <1>4, <1>5

LEMMA CallKeepsFresh ==
  ASSUME IInvA, NEW c \in Calls,
         \/ Save(c) \/ Count(c) \/ HardDelete(c) \/ Deactivate(c) \/ SoftDelete(c)
         \/ InsertRetirement(c) \/ StatementFails(c)
  PROVE  EntityInv' /\ AloneInv' /\ FreshInv'
<1> USE DEF IInvA
<1>0. PICK p \in Ids : p = call[c].id  BY CallMoves, Bounds
<1> USE <1>0
<1>1. /\ \A d \in Calls \ {c} : call'[d] = call[d]
      /\ p \in Ids
      /\ Busy(c)' => /\ Busy(c) /\ call'[c].id = p /\ call'[c].entity = call[c].entity
                     /\ Count(c) \/ Deactivate(c)
      /\ Carries(c)' => Carries(c) /\ Count(c)
  BY CallMoves, Bounds DEF Count, Deactivate
<1>2. EntityInv'  BY <1>1 DEF ProjectsInv, EntityInv
<1>3. AloneInv'
  <2>1. \A d \in Calls : Busy(d)' => Busy(d) /\ call'[d].id = call[d].id  BY <1>1
  <2> QED BY <2>1, RowMoves DEF ProjectsInv, AloneInv
<1>4. FreshInv'
  <2> SUFFICES ASSUME NEW d \in Calls, Busy(d)'
               PROVE  LET q == call'[d].id IN
                      /\ Carries(d)' /\ q \notin overlapped' =>
                           \/ call'[d].entity.status = row'[q].status
                           \/ /\ call'[d].step = "save"
                              /\ ValidTransition(row'[q].status, call'[d].entity.status)
                      /\ Carries(d)' /\ q \notin overlapped' \cup failed' =>
                           call'[d].entity.active
                      /\ q \in removed' => q \in overlapped'
    BY DEF FreshInv
  <2>1. Busy(d) /\ call'[d].id = call[d].id /\ call'[d].entity = call[d].entity
    BY <1>1
  <2>2. CASE d = c
    <3>1. Count(c) => row' = row /\ call[c].step = "count"  BY DEF Count
    <3>2. removed' = removed  BY <1>1, <2>2 DEF Count, Deactivate
    <3> QED BY <1>1, <2>1, <2>2, <3>1, <3>2, RowMoves DEF ProjectsInv, FreshInv
  <2>3. CASE d # c
    <3>1. call'[d] = call[d] /\ call[d].id \in Ids
      BY <1>1, <2>1, <2>3, Bounds DEF TypeInv, CallsInv
    <3>2. row'[call[d].id] = row[call[d].id] \/ call[d].id \in overlapped
      BY <2>1, <2>3, <3>1, RowMoves, OthersOverlap
    <3>3. call[d].id \in removed' => call[d].id \in removed \cup overlapped
      BY <2>1, <2>3, <3>1, RowMoves, OthersOverlap
    <3>4. PICK q \in Ids : q = call[d].id  BY <3>1
    <3>5. /\ Carries(d) /\ q \notin overlapped =>
               \/ call[d].entity.status = row[q].status
               \/ call[d].step = "save" /\ ValidTransition(row[q].status, call[d].entity.status)
          /\ Carries(d) /\ q \notin overlapped \cup failed => call[d].entity.active
          /\ q \in removed => q \in overlapped
      BY <2>1, <3>4 DEF ProjectsInv, FreshInv
    <3>6. overlapped' = overlapped /\ failed \subseteq failed'  BY RowMoves
    <3> QED BY <3>1, <3>2, <3>3, <3>4, <3>5, <3>6
  <2> QED BY <2>2, <2>3
<1> QED BY <1>2, <1>3, <1>4

LEMMA CallKeepsRecords ==
  ASSUME IInvA, NEW c \in Calls,
         \/ Save(c) \/ Count(c) \/ HardDelete(c) \/ Deactivate(c) \/ SoftDelete(c)
         \/ InsertRetirement(c) \/ StatementFails(c)
  PROVE  RecordsInv'
<1> USE DEF IInvA
<1>0. PICK p \in Ids : p = call[c].id  BY CallMoves, Bounds
<1> USE <1>0
<1>1. /\ \A d \in Calls \ {c} : call'[d] = call[d]
      /\ p \in Ids
      /\ Removes(c)' => /\ call'[c].id = p
                        /\ (Count(c) /\ ~HasRecords(p)) \/ Deactivate(c)
  BY CallMoves, Bounds
<1>2. CASE InsertRetirement(c)
  <2>1. /\ UNCHANGED row /\ call'[c].step = "idle"
        /\ retirement' \in {retirement, retirement \cup {p}} /\ raced \subseteq raced'
        /\ retirement' # retirement =>
             row[p].there /\ (p \in raced' \/ (Live(p) /\ Removing(p) = {}))
    BY <1>2, EndIs DEF InsertRetirement
  <2>2. RecordsRetained'  BY <2>1 DEF ProjectsInv, RecordsInv, RecordsRetained
  <2>3. RecordsStayVisible'
    BY <2>1 DEF ProjectsInv, RecordsInv, RecordsStayVisible, Live
  <2>4. \A d \in Calls \ {c} : Removes(d) /\ call[d].id \in retirement' => call[d].id \in raced'
    BY <2>1 DEF ProjectsInv, RecordsInv, Removing, On
  <2> QED BY <1>1, <2>1, <2>2, <2>3, <2>4 DEF RecordsInv
<1>3. CASE ~InsertRetirement(c)
  <2>1. UNCHANGED retirement /\ raced' = raced
    BY <1>3 DEF Save, Count, HardDelete, Deactivate, SoftDelete, StatementFails
  <2>2. RecordsRetained'
    <3>1. CASE Save(c) \/ Deactivate(c)
      <4>1. PICK e \in RowType : e.there /\ row' = [row EXCEPT ![p] = e]
        BY <3>1, WriteIs DEF ProjectsInv
      <4> QED BY <2>1, <4>1 DEF ProjectsInv, RecordsInv, RecordsRetained, TypeInv, RowsInv
    <3>2. CASE HardDelete(c)
      BY <2>1, <3>2, RowMoves
         DEF HardDelete, Restricted, ProjectsInv, RecordsInv, RecordsRetained, TypeInv, RowsInv
    <3>3. CASE SoftDelete(c)
      <4>1. row'[p].there = row[p].there
        BY <1>1, <3>3, SoftDeletedIs DEF SoftDelete, TypeInv, RowsInv
      <4> QED BY <2>1, <4>1, RowMoves DEF ProjectsInv, RecordsInv, RecordsRetained, TypeInv, RowsInv
    <3>4. CASE Count(c) \/ StatementFails(c)
      BY <2>1, <3>4 DEF Count, StatementFails, ProjectsInv, RecordsInv, RecordsRetained
    <3> QED BY <1>3, <3>1, <3>2, <3>3, <3>4
  <2>3. RecordsStayVisible'
    <3>1. CASE Save(c) \/ Deactivate(c)
      BY <1>1, <2>1, <3>1, RowMoves, WriteIs
         DEF ProjectsInv, RecordsInv, RecordsStayVisible, TypeInv, RowsInv
    <3>2. CASE HardDelete(c)
      BY <2>1, <3>2, RowMoves
         DEF HardDelete, Restricted, ProjectsInv, RecordsInv, RecordsStayVisible, TypeInv, RowsInv
    <3>3. CASE SoftDelete(c)
      <4>1. p \in retirement => p \in raced
        BY <3>3 DEF SoftDelete, ProjectsInv, RecordsInv
      <4> QED BY <2>1, <4>1, RowMoves
              DEF ProjectsInv, RecordsInv, RecordsStayVisible, TypeInv, RowsInv
    <3>4. CASE Count(c) \/ StatementFails(c)
      BY <2>1, <3>4 DEF Count, StatementFails, ProjectsInv, RecordsInv, RecordsStayVisible
    <3> QED BY <1>3, <3>1, <3>2, <3>3, <3>4
  <2>4. \A d \in Calls : Removes(d)' /\ call'[d].id \in retirement' => call'[d].id \in raced'
    <3>1. Deactivate(c) => Removes(c)  BY DEF Deactivate
    <3> QED BY <1>1, <2>1, <3>1 DEF ProjectsInv, RecordsInv, HasRecords
  <2> QED BY <2>2, <2>3, <2>4 DEF RecordsInv
<1> QED BY <1>2, <1>3

LEMMA CallKeepsRemoved ==
  ASSUME IInvA, NEW c \in Calls,
         \/ Save(c) \/ Count(c) \/ HardDelete(c) \/ Deactivate(c) \/ SoftDelete(c)
         \/ InsertRetirement(c) \/ StatementFails(c)
  PROVE  RemovedStaysRemoved'
<1> USE DEF IInvA
<1>0. PICK p \in Ids : p = call[c].id  BY CallMoves, Bounds
<1> USE <1>0
<1>1. p \in Ids  BY CallMoves, Bounds
<1>2. \A q \in Ids \ {p} : q \in removed' /\ Live(q)' => q \in overlapped'
  BY RowMoves DEF ProjectsInv, RemovedStaysRemoved, Live
<1>3. p \in removed' /\ Live(p)' => p \in overlapped'
  <2>1. CASE Save(c) \/ Deactivate(c)
    BY <2>1, RowMoves DEF Save, Deactivate, ProjectsInv, FreshInv
  <2>2. CASE HardDelete(c) \/ SoftDelete(c)
    <3>1. p \in removed => p \in overlapped
      BY <2>2 DEF HardDelete, SoftDelete, ProjectsInv, FreshInv
    <3>2. p \in removed' \ removed => ~Live(p)'
      <4>1. CASE HardDelete(c)
        <5>1. p \in removed' \ removed => row' = [row EXCEPT ![p] = NoRow]
          BY <4>1 DEF HardDelete
        <5> QED BY <5>1 DEF TypeInv, RowsInv, Live, NoRow
      <4>2. CASE SoftDelete(c)
        BY <1>1, <4>2, SoftDeletedIs DEF SoftDelete, TypeInv, RowsInv, Live
      <4> QED BY <2>2, <4>1, <4>2
    <3> QED BY <3>1, <3>2, RowMoves
  <2>3. CASE Count(c) \/ InsertRetirement(c) \/ StatementFails(c)
    BY <2>3 DEF Count, InsertRetirement, StatementFails, ProjectsInv, RemovedStaysRemoved, Live
  <2> QED BY <2>1, <2>2, <2>3
<1>4. removed' \subseteq Ids  BY CallKeepsTypes DEF TypeInv, RowsInv
<1> QED BY <1>2, <1>3, <1>4 DEF RemovedStaysRemoved

LEMMA CallKeepsWhole ==
  ASSUME IInvA, NEW c \in Calls,
         \/ Save(c) \/ Count(c) \/ HardDelete(c) \/ Deactivate(c) \/ SoftDelete(c)
         \/ InsertRetirement(c) \/ StatementFails(c)
  PROVE  WholeInv'
<1> USE DEF IInvA
<1>0. PICK p \in Ids : p = call[c].id  BY CallMoves, Bounds
<1> USE <1>0
<1>1. p \in Ids /\ (\A d \in Calls \ {c} : call'[d] = call[d])  BY CallMoves, Bounds
<1>2. call'[c].step = "soft delete" => Deactivate(c) /\ call'[c].id = p  BY CallMoves
<1>3. ASSUME NEW q \in Ids \ {p}, q \notin overlapped' \cup failed'
      PROVE  IF Halfway(q)' THEN row'[q].there /\ ~row'[q].active /\ ~row'[q].deleted
             ELSE row'[q].deleted <=> ~row'[q].active
  <2>1. Halfway(q)' <=> Halfway(q)  BY <1>1, <1>2, <1>3, CallMoves DEF Halfway
  <2> QED BY <1>3, <2>1, RowMoves DEF ProjectsInv, WholeInv
<1>4. ASSUME p \notin overlapped' \cup failed', Busy(c)
      PROVE  IF Halfway(p)' THEN row'[p].there /\ ~row'[p].active /\ ~row'[p].deleted
             ELSE row'[p].deleted <=> ~row'[p].active
  <2>1. \A d \in Calls \ {c} : ~(Busy(d) /\ call[d].id = p)
    BY <1>4, RowMoves, OthersOverlap
  <2>2. Halfway(p)' <=> call'[c].step = "soft delete"
    BY <1>1, <1>2, <2>1 DEF Halfway
  <2>3. Halfway(p) <=> call[c].step = "soft delete"  BY <2>1 DEF Halfway
  <2>4. p \notin overlapped \cup failed  BY <1>4, RowMoves
  <2>5. CASE Save(c)
    <3>1. call[c].entity.active /\ call'[c].step = "idle"
      BY <2>4, <2>5, EndIs DEF Save, ProjectsInv, FreshInv
    <3> QED BY <1>1, <2>2, <2>5, <3>1, WriteIs DEF ProjectsInv, TypeInv, RowsInv
  <2>6. CASE Deactivate(c)
    <3>1. call'[c].step = "soft delete"  BY <2>6, StepIs DEF Deactivate, Steps
    <3>2. ~Save(c)  BY <2>6 DEF Deactivate, Save
    <3>3. PICK e \in RowType :
            row' = [row EXCEPT ![p] = e] /\ e.there /\ ~e.deleted /\ ~e.active
      BY <2>6, <3>2, WriteIs DEF ProjectsInv
    <3>4. row'[p] = e  BY <1>1, <3>3 DEF TypeInv, RowsInv
    <3> QED BY <2>2, <3>1, <3>3, <3>4
  <2>7. CASE HardDelete(c)
    <3>1. call'[c].step = "idle" /\ row'[p] \in {row[p], NoRow} /\ call[c].step # "soft delete"
      BY <1>1, <2>7, EndIs DEF HardDelete, TypeInv, RowsInv
    <3>2. row[p].deleted <=> ~row[p].active
      BY <2>3, <2>4, <3>1 DEF ProjectsInv, WholeInv
    <3>3. NoRow.deleted <=> ~NoRow.active  BY DEF NoRow
    <3>4. row'[p].deleted <=> ~row'[p].active  BY <3>1, <3>2, <3>3
    <3> QED BY <2>2, <3>1, <3>4
  <2>8. CASE SoftDelete(c)
    <3>1. call'[c].step = "idle" /\ call[c].step = "soft delete"
      BY <2>8, EndIs DEF SoftDelete
    <3>2. row[p].there /\ ~row[p].active
      BY <1>1, <2>3, <2>4, <3>1 DEF ProjectsInv, WholeInv
    <3> QED BY <1>1, <2>2, <2>8, <3>1, <3>2, SoftDeletedIs DEF SoftDelete, TypeInv, RowsInv
  <2>9. CASE Count(c)
    <3>1. row' = row /\ call[c].step # "soft delete"  BY <2>9 DEF Count
    <3>2. call'[c].step # "soft delete"  BY <1>2, <2>9 DEF Count, Deactivate
    <3> QED BY <1>1, <2>2, <2>3, <2>4, <3>1, <3>2 DEF ProjectsInv, WholeInv
  <2>10. ~InsertRetirement(c) /\ ~StatementFails(c)
    BY <1>4 DEF InsertRetirement, StatementFails
  <2> QED BY <2>5, <2>6, <2>7, <2>8, <2>9, <2>10
<1>5. ASSUME p \notin overlapped' \cup failed', ~Busy(c)
      PROVE  IF Halfway(p)' THEN row'[p].there /\ ~row'[p].active /\ ~row'[p].deleted
             ELSE row'[p].deleted <=> ~row'[p].active
  <2>1. Halfway(p)' <=> Halfway(p)
    BY <1>1, <1>2, <1>5, CallMoves DEF Halfway, Deactivate
  <2> QED BY <1>1, <1>5, <2>1, RowMoves DEF ProjectsInv, WholeInv
<1> QED BY <1>3, <1>4, <1>5 DEF WholeInv

\* Every step of Projects keeps the invariant.
LEMMA ProjectsKeep ==
  ASSUME IInvA, ProjectsNext
  PROVE  IInvA'
<1>1. CASE \E p \in Ids, t \in Times : Create(p, t)
  BY <1>1, CreateKeeps
<1>2. CASE \E c \in Calls, p \in Ids : Update(c, p) \/ Remove(c, p)
  BY <1>2, BeginKeeps
<1>3. CASE \E c \in Calls, p \in Ids : Retire(c, p)
  BY <1>3, RetireKeeps
<1>4. ASSUME NEW c \in Calls,
             \/ Save(c) \/ Count(c) \/ HardDelete(c) \/ Deactivate(c) \/ SoftDelete(c)
             \/ InsertRetirement(c) \/ StatementFails(c)
      PROVE  IInvA'
  BY <1>4, CallKeepsTypes, CallKeepsFresh, CallKeepsRecords, CallKeepsRemoved, CallKeepsWhole
     DEF IInvA, ProjectsInv
<1> QED BY <1>1, <1>2, <1>3, <1>4 DEF ProjectsNext

LEMMA ProjectsStutter ==
  ASSUME IInvA, UNCHANGED projectVars
  PROVE  IInvA'
<1>1. TypeInv'  BY DEF IInvA, TypeInv, RowsInv, CallsInv
<1>2. EntityInv' /\ AloneInv' /\ FreshInv'
  BY DEF IInvA, ProjectsInv, EntityInv, AloneInv, FreshInv
<1>3. RecordsInv' /\ RemovedStaysRemoved'
  BY DEF IInvA, ProjectsInv, RecordsInv, RecordsRetained, RecordsStayVisible,
         RemovedStaysRemoved, Live
<1>4. WholeInv'  BY DEF IInvA, ProjectsInv, WholeInv, Halfway
<1> QED BY <1>1, <1>2, <1>3, <1>4 DEF IInvA, ProjectsInv

-----------------------------------------------------------------------------
(* What a removal promises, and the life cycle                             *)

\* The invariant of the calls holds in every state.
THEOREM ProjectsInvariance == Spec => []IInvA
<1>1. Init => IInvA  BY InitCalls DEF Init
<1>2. IInvA /\ [Next]_vars => IInvA'
  BY ProjectsKeep, ProjectsStutter DEF Next, Change, StartWalk, NextPage, LastPage, vars
<1> QED BY <1>1, <1>2, PTL DEF Spec

\* Financial records keep their project, one that is removed had none unless one
\* overtook the removal, it stays removed, and a removal is whole: however the
\* statements of update, remove and retire interleave, but for what an overlap or
\* a failed statement excuses.
THEOREM RemovalsHold == Spec => []RemovalHolds
<1>1. IInvA => RemovalHolds
  <2> SUFFICES ASSUME IInvA PROVE RemovalHolds
    OBVIOUS
  <2>1. RemovalIsWhole
    <3> SUFFICES ASSUME NEW p \in Ids, On(p) = {}, p \notin failed \cup overlapped
                 PROVE  row[p].deleted <=> ~row[p].active
      BY DEF RemovalIsWhole
    <3>1. ~Halfway(p)  BY DEF On, Halfway
    <3> QED BY <3>1 DEF IInvA, ProjectsInv, WholeInv
  <2> QED BY <2>1 DEF IInvA, ProjectsInv, RecordsInv, RemovalHolds
<1> QED BY <1>1, ProjectsInvariance, PTL

\* A write of a call moves the status by one transition or not at all, unless calls
\* on the project overlap.
LEMMA StatusMoves ==
  ASSUME IInvA, ProjectsNext, NEW p \in Ids, row[p].there, row'[p].there, p \notin overlapped
  PROVE  row'[p].status = row[p].status \/ ValidTransition(row[p].status, row'[p].status)
<1> USE DEF IInvA
<1>1. CASE \E q \in Ids, t \in Times : Create(q, t)
  BY <1>1, CreateIs
<1>2. CASE \E c \in Calls, q \in Ids : Update(c, q) \/ Remove(c, q) \/ Retire(c, q)
  BY <1>2 DEF Update, Remove, Retire, Begin
<1>3. ASSUME NEW c \in Calls, Save(c) \/ Deactivate(c)
      PROVE  row'[p].status = row[p].status \/ ValidTransition(row[p].status, row'[p].status)
  <2>1. PICK e \in RowType : /\ row' = [row EXCEPT ![call[c].id] = e]
                             /\ e.status = call[c].entity.status
    BY <1>3, WriteIs DEF ProjectsInv
  <2>2. CASE call[c].id = p
    BY <1>3, <2>1, <2>2 DEF Save, Deactivate, ProjectsInv, FreshInv, TypeInv, RowsInv
  <2> QED BY <2>1, <2>2
<1>4. ASSUME NEW c \in Calls, HardDelete(c)
      PROVE  row'[p].status = row[p].status
  <2>1. row'[p] = row[p] \/ row'[p] = NoRow  BY <1>4 DEF HardDelete, TypeInv, RowsInv
  <2> QED BY <2>1 DEF NoRow
<1>5. ASSUME NEW c \in Calls, SoftDelete(c)
      PROVE  row'[p].status = row[p].status
  BY <1>5, SoftDeletedIs DEF SoftDelete, TypeInv, RowsInv
<1>6. ASSUME NEW c \in Calls, Count(c) \/ InsertRetirement(c) \/ StatementFails(c)
      PROVE  row' = row
  BY <1>6 DEF Count, InsertRetirement, StatementFails
<1> QED BY <1>1, <1>2, <1>3, <1>4, <1>5, <1>6 DEF ProjectsNext

\* A transition is a step forward, and only the baseline leads to active.
LEMMA TransitionsForward ==
  ASSUME NEW s \in Statuses, NEW t \in Statuses, s = t \/ ValidTransition(s, t)
  PROVE  Stage[s] <= Stage[t] /\ (t = "active" => s \in {"baseline", "active"})
<1>1. /\ Stage.draft = 1 /\ Stage.registered = 2 /\ Stage.baseline = 3
      /\ Stage.active = 4 /\ Stage.completed = 5 /\ Stage.closed = 6
  BY DEF Stage
<1> QED BY <1>1 DEF Statuses, ValidTransition

\* No status goes back, and none skips the baseline, although each change is checked
\* on an entity read before: unless two calls on the project overlapped.
THEOREM StatusesMoveForward == Spec => LifecycleMovesForward
<1>1. IInvA /\ [Next]_vars =>
        [\A p \in Ids : row[p].there /\ row'[p].there /\ p \notin overlapped =>
           /\ Stage[row[p].status] <= Stage[row'[p].status]
           /\ row'[p].status = "active" => row[p].status \in {"baseline", "active"}]_projectVars
  <2> SUFFICES ASSUME IInvA, Next, ~UNCHANGED projectVars,
                      NEW p \in Ids, row[p].there, row'[p].there, p \notin overlapped
               PROVE  /\ Stage[row[p].status] <= Stage[row'[p].status]
                      /\ row'[p].status = "active" => row[p].status \in {"baseline", "active"}
    BY DEF vars
  <2>1. ProjectsNext  BY DEF Next, Change, StartWalk, NextPage, LastPage
  <2>2. row[p].status \in Statuses /\ row'[p].status \in Statuses
    BY <2>1, ProjectsKeep DEF IInvA, TypeInv, RowsInv, RowType
  <2> QED BY <2>1, <2>2, StatusMoves, TransitionsForward
<1> QED BY <1>1, ProjectsInvariance, PTL DEF Spec, LifecycleMovesForward

-----------------------------------------------------------------------------
(* The order of a list, and what a cursor keeps of it                      *)

LEMMA Whole ==
  ASSUME NEW t \in Nat, NEW k \in Nat \ {0}
  PROVE  \E a \in Nat : /\ t - (t % k) = k * a /\ k * a \in Nat
                        /\ k * a <= t /\ t < k * a + k
<1>1. t \div k \in Nat  OBVIOUS
<1>2. t % k \in 0..(k - 1)  OBVIOUS
<1>3. t - (t % k) = k * (t \div k)  OBVIOUS
<1> DEFINE a == t \div k
           r == t % k
<1>4. a \in Nat /\ r \in 0..(k - 1) /\ t - r = k * a  BY <1>1, <1>2, <1>3
<1>5. k * a \in Nat  BY <1>1
<1>6. k * a <= t /\ t < k * a + k
  <2> HIDE DEF a, r
  <2> QED BY <1>4, <1>5
<1> QED BY <1>4, <1>5, <1>6

\* serialiseSortValue rounds down to the millisecond.
LEMMA SerialisedRounds ==
  ASSUME NEW t \in Nat, NEW u \in Nat
  PROVE  /\ Serialised(t) \in Nat /\ Serialised(t) <= t
         /\ t <= u => Serialised(t) <= Serialised(u)
         /\ Serialised(u) <= t /\ t <= u => Serialised(t) = Serialised(u)
<1> DEFINE K == TicksPerMs
<1>1. K \in Nat \ {0}  BY ListConstants
<1>2. PICK a \in Nat : /\ Serialised(t) = K * a /\ K * a <= t /\ t < K * a + K
                       /\ K * a \in Nat
  BY <1>1, Whole DEF Serialised
<1>3. PICK b \in Nat : /\ Serialised(u) = K * b /\ K * b <= u /\ u < K * b + K
                       /\ K * b \in Nat
  BY <1>1, Whole DEF Serialised
<1>4. a <= b => K * a <= K * b  BY <1>1
<1>5. a > b => K * a >= K * b + K  BY <1>1
<1>6. b > a => K * b >= K * a + K  BY <1>1
<1> HIDE DEF K
<1> QED BY <1>1, <1>2, <1>3, <1>4, <1>5, <1>6

Dirs == {"ASC", "DESC"}

\* applyOrdering is a strict total order: the id decides between equal times.
LEMMA PrecedesOrders ==
  ASSUME NEW dir \in Dirs
  PROVE  /\ \A t \in Nat, p \in Nat : ~Precedes(dir, t, p, t, p)
         /\ \A t, u, v, p, q, r \in Nat :
              Precedes(dir, t, p, u, q) /\ Precedes(dir, u, q, v, r) => Precedes(dir, t, p, v, r)
         /\ \A t, u, p, q \in Nat :
              Precedes(dir, t, p, u, q) \/ Precedes(dir, u, q, t, p) \/ (t = u /\ p = q)
<1>1. CASE dir = "ASC"  BY <1>1 DEF Precedes
<1>2. CASE dir = "DESC"  BY <1>2 DEF Precedes
<1> QED BY <1>1, <1>2 DEF Dirs

\* A finite set with a strict order has an element that nothing precedes.
LEMMA Extremal ==
  ASSUME NEW S, IsFiniteSet(S), S # {}, NEW R,
         \A x \in S : <<x, x>> \notin R,
         \A x, y, z \in S : <<x, y>> \in R /\ <<y, z>> \in R => <<x, z>> \in R
  PROVE  \E x \in S : \A y \in S : <<y, x>> \notin R
<1> DEFINE Below(x) == {y \in S : <<y, x>> \in R}
           T == {Below(x) : x \in S}
<1>1. IsWellFoundedOn(StrictSubsetOrdering(S), SUBSET S)
  BY FS_StrictSubsetOrderingWellFounded, FS_FiniteSubsetsOfFinite
<1>2. T \subseteq SUBSET S /\ T # {}
  <2>1. PICK x \in S : TRUE  OBVIOUS
  <2>2. Below(x) \in T  BY <2>1
  <2>3. ASSUME NEW B \in T PROVE B \in SUBSET S  BY <2>1
  <2>4. T # {}  BY <2>2
  <2>5. T \subseteq SUBSET S  BY <2>3
  <2> QED BY <2>4, <2>5
<1> HIDE DEF T
<1>3. PICK B \in T : \A C \in T : <<C, B>> \notin StrictSubsetOrdering(S)
  BY <1>1, <1>2, WFMin
<1>4. PICK x \in S : B = Below(x)  BY DEF T
<1>5. ASSUME NEW y \in S, <<y, x>> \in R
      PROVE  FALSE
  <2>1. Below(y) \in T  BY DEF T
  <2>2. Below(y) \subseteq Below(x)  BY <1>5
  <2>3. y \in Below(x) /\ y \notin Below(y)  BY <1>5
  <2>4. <<Below(y), B>> \in StrictSubsetOrdering(S)
    BY <1>4, <2>2, <2>3 DEF StrictSubsetOrdering
  <2> QED BY <1>3, <2>1, <2>4
<1> QED BY <1>5

\* The rows of a list in the direction of a walk.
Before(p, q) == Precedes(walk.dir, created[p], p, created[q], q)

LEMMA BeforeOrders ==
  ASSUME created \in [Ids -> Nat], walk.dir \in Dirs
  PROVE  /\ \A p \in Ids : ~Before(p, p)
         /\ \A p, q, r \in Ids : Before(p, q) /\ Before(q, r) => Before(p, r)
         /\ \A p, q \in Ids : Before(p, q) \/ Before(q, p) \/ p = q
BY PrecedesOrders, Bounds DEF Before

\* The position of a row among those of a set.
Rank(p, S) == Cardinality(Ahead(p, S))

LEMMA RankIs ==
  ASSUME created \in [Ids -> Nat], walk.dir \in Dirs, NEW S \in SUBSET Ids
  PROVE  /\ IsFiniteSet(S) /\ Cardinality(S) \in Nat
         /\ \A p \in S : Rank(p, S) \in Nat /\ Rank(p, S) < Cardinality(S)
         /\ \A p, q \in S : Rank(p, S) < Rank(q, S) <=> Before(p, q)
<1>1. IsFiniteSet(S) /\ Cardinality(S) \in Nat
  BY ListConstants, FS_Subset, FS_CardinalityType
<1>2. \A p \in S : Ahead(p, S) = {q \in S : Before(q, p)}  BY DEF Ahead, Before
<1>3. ASSUME NEW p \in S
      PROVE  /\ IsFiniteSet(Ahead(p, S)) /\ Rank(p, S) \in Nat
             /\ Rank(p, S) < Cardinality(S)
  <2>1. Ahead(p, S) \in SUBSET S /\ p \notin Ahead(p, S)  BY <1>2, BeforeOrders
  <2>2. /\ IsFiniteSet(Ahead(p, S)) /\ Cardinality(Ahead(p, S)) \in Nat
        /\ Cardinality(Ahead(p, S)) <= Cardinality(S)
        /\ Cardinality(S) # Cardinality(Ahead(p, S))
    BY <1>1, <2>1, FS_Subset, FS_CardinalityType
  <2> QED BY <1>1, <2>2 DEF Rank
<1>4. ASSUME NEW p \in S, NEW q \in S, Before(p, q)
      PROVE  Rank(p, S) < Rank(q, S)
  <2>1. Ahead(p, S) \in SUBSET Ahead(q, S)  BY <1>2, <1>4, BeforeOrders
  <2>2. p \in Ahead(q, S) /\ p \notin Ahead(p, S)  BY <1>2, <1>4, BeforeOrders
  <2>3. /\ Cardinality(Ahead(p, S)) <= Cardinality(Ahead(q, S))
        /\ Cardinality(Ahead(q, S)) # Cardinality(Ahead(p, S))
    BY <1>3, <2>1, <2>2, FS_Subset
  <2> QED BY <1>3, <2>3 DEF Rank
<1>5. ASSUME NEW p \in S, NEW q \in S, Rank(p, S) < Rank(q, S)
      PROVE  Before(p, q)
  <2>1. ~(Rank(q, S) < Rank(p, S)) /\ Rank(p, S) # Rank(q, S)  BY <1>3, <1>5
  <2> QED BY <1>4, <2>1, BeforeOrders
<1> QED BY <1>1, <1>3, <1>4, <1>5

LEMMA FirstOf ==
  ASSUME created \in [Ids -> Nat], walk.dir \in Dirs, NEW S \in SUBSET Ids, S # {}
  PROVE  /\ \E p \in S : Rank(p, S) = 0
         /\ \E p \in S : \A q \in S \ {p} : q \in Ahead(p, S)
<1>1. IsFiniteSet(S)  BY RankIs
<1>2. /\ \A x \in S : ~Before(x, x)
      /\ \A x, y, z \in S : Before(x, y) /\ Before(y, z) => Before(x, z)
      /\ \A x, y \in S : Before(x, y) \/ Before(y, x) \/ x = y
  BY BeforeOrders
<1>3. \E p \in S : Rank(p, S) = 0
  <2> DEFINE R == {b \in S \X S : Before(b[1], b[2])}
  <2>1. \A x, y \in S : <<x, y>> \in R <=> Before(x, y)  OBVIOUS
  <2> HIDE DEF R
  <2>2. PICK p \in S : \A y \in S : <<y, p>> \notin R  BY <1>1, <1>2, <2>1, Extremal
  <2>3. Ahead(p, S) = {}  BY <2>1, <2>2 DEF Ahead, Before
  <2> QED BY <2>3, FS_EmptySet DEF Rank
<1>4. \E p \in S : \A q \in S \ {p} : q \in Ahead(p, S)
  <2> DEFINE R == {b \in S \X S : Before(b[2], b[1])}
  <2>1. \A x, y \in S : <<x, y>> \in R <=> Before(y, x)  OBVIOUS
  <2> HIDE DEF R
  <2>2. PICK p \in S : \A y \in S : <<y, p>> \notin R  BY <1>1, <1>2, <2>1, Extremal
  <2>3. \A q \in S \ {p} : Before(q, p)  BY <1>2, <2>1, <2>2
  <2> QED BY <2>3 DEF Ahead, Before
<1> QED BY <1>3, <1>4

-----------------------------------------------------------------------------
(* The inductive invariant: walks                                          *)

WalkType == [mode : {"idle", "keyset", "offset"}, dir : Dirs, limit : Nat \ {0},
             page : Nat \ {0}, cursor : [v : Nat, id : Nat]]
Known(p) == row[p].there \/ p \in removed

\* What a walk keeps refers to projects that are there or were removed: their
\* created_at does not change any more.
WalkInv ==
  /\ walk \in WalkType /\ times \in [Ids -> 0..2]
  /\ stayed \subseteq Listed /\ cuts \subseteq Ids
  /\ walk.cursor = NoCursor \/ \E p \in cuts : walk.cursor = Encode(p)
  /\ walk.mode = "idle" => walk = Resting /\ cuts = {} /\ stayed = {} /\ \A p \in Ids : times[p] = 0
  /\ \A p \in Ids : times[p] > 0 \/ p \in cuts => Known(p)

\* What was returned is not behind the cursor again, what was not is.
RepeatInv ==
  walk.mode = "keyset" => \A p \in Ids :
    times[p] > 0 => walk.cursor # NoCursor /\ (After(p, walk.cursor) => Again(p))
SkipInv ==
  walk.mode = "keyset" /\ walk.cursor # NoCursor =>
    \A p \in stayed : times[p] = 0 => After(p, walk.cursor) \/ Lost(p)

\* As long as nothing changes, the pages so far are those in front.
OffsetInv ==
  walk.mode = "offset" /\ still => \A p \in Listed :
    times[p] = IF Rank(p, Listed) < Skip(walk.page) THEN 1 ELSE 0

ListsInv == WalkInv /\ RepeatInv /\ SkipInv /\ OffsetInv
IInv     == IInvA /\ ListsInv

LEMMA CreatedNat ==
  ASSUME IInvA
  PROVE  created \in [Ids -> Nat]
BY Bounds DEF IInvA, TypeInv, RowsInv

LEMMA PageIs ==
  ASSUME IInv
  PROVE  /\ walk.dir \in Dirs /\ walk.limit \in Nat \ {0} /\ Skipped \in Nat
         /\ walk.mode # "offset" => Skipped = 0
         /\ Listed \in SUBSET Ids /\ Matching \in SUBSET Listed /\ Page \in SUBSET Matching
         /\ \A p \in Matching : p \in Page <=>
              Skipped <= Rank(p, Matching) /\ Rank(p, Matching) < Skipped + walk.limit
<1>1. walk.dir \in Dirs /\ walk.limit \in Nat \ {0} /\ walk.page \in Nat \ {0}
  BY DEF IInv, ListsInv, WalkInv, WalkType
<1>2. Skipped \in Nat /\ (walk.mode # "offset" => Skipped = 0)
  <2>1. (walk.page - 1) * walk.limit \in Nat  BY <1>1
  <2> QED BY <2>1 DEF Skipped, Skip
<1>3. Listed \in SUBSET Ids /\ Matching \in SUBSET Listed /\ Page \in SUBSET Matching
  BY DEF Listed, Matching, Page
<1>4. \A p \in Matching : Rank(p, Matching) \in Nat
  BY <1>1, <1>3, CreatedNat, RankIs DEF IInv
<1> QED BY <1>1, <1>2, <1>3, <1>4 DEF Page, Rank

\* The last page has everything that is left.
LEMMA LastPageIs ==
  ASSUME IInv, ~HasMore, NEW p \in Matching, Skipped <= Rank(p, Matching)
  PROVE  p \in Page
<1>1. Matching \in SUBSET Ids  BY PageIs
<1>2. /\ Rank(p, Matching) \in Nat /\ Cardinality(Matching) \in Nat
      /\ Rank(p, Matching) < Cardinality(Matching)
  BY <1>1, PageIs, CreatedNat, RankIs DEF IInv
<1>3. Cardinality(Matching) <= Skipped + walk.limit  BY <1>2, PageIs DEF HasMore
<1>4. Rank(p, Matching) < Skipped + walk.limit  BY <1>2, <1>3, PageIs
<1> QED BY <1>4, PageIs

\* nextCursor is that of the last row, and what is not on the page comes after it.
LEMMA LastRowIs ==
  ASSUME IInv, walk.mode = "keyset", HasMore
  PROVE  /\ LastRow \in Page
         /\ \A p \in Page : p = LastRow \/ Before(p, LastRow)
         /\ \A p \in Matching \ Page : Before(LastRow, p)
<1>1. /\ created \in [Ids -> Nat] /\ walk.dir \in Dirs /\ Matching \in SUBSET Ids
      /\ Page \in SUBSET Matching /\ Skipped = 0 /\ walk.limit \in Nat \ {0}
  BY PageIs, CreatedNat DEF IInv
<1>2. Page # {}
  <2>1. Cardinality(Matching) \in Nat /\ Cardinality(Matching) > 0
    BY <1>1, RankIs DEF HasMore
  <2>2. Matching # {}  BY <2>1, FS_EmptySet
  <2>3. PICK p \in Matching : Rank(p, Matching) = 0  BY <1>1, <2>2, FirstOf
  <2> QED BY <1>1, <2>3, PageIs
<1>3. Page \in SUBSET Ids  BY <1>1
<1>4. \E p \in Page : \A q \in Page \ {p} : q \in Ahead(p, Page)  BY <1>1, <1>2, <1>3, FirstOf
<1>5. LastRow \in Page /\ \A q \in Page \ {LastRow} : q \in Ahead(LastRow, Page)
  BY <1>4 DEF LastRow
<1>6. ASSUME NEW p \in Matching \ Page
      PROVE  Before(LastRow, p)
  <2>1. /\ Rank(p, Matching) \in Nat /\ Rank(LastRow, Matching) \in Nat
        /\ LastRow \in Matching
    BY <1>1, <1>5, RankIs
  <2>2. Rank(LastRow, Matching) < walk.limit /\ ~(Rank(p, Matching) < walk.limit)
    BY <1>1, <1>5, <2>1, PageIs
  <2>3. Rank(LastRow, Matching) < Rank(p, Matching)  BY <1>1, <2>1, <2>2
  <2> QED BY <1>1, <2>1, <2>3, RankIs
<1> QED BY <1>5, <1>6 DEF Ahead, Before

-----------------------------------------------------------------------------
(* Every step of a walk                                                    *)

LEMMA InitLists == Init => ListsInv
<1> SUFFICES ASSUME Init PROVE ListsInv
  OBVIOUS
<1>1. walk = Resting /\ times = [p \in Ids |-> 0] /\ stayed = {} /\ cuts = {}
  BY DEF Init, ListsInit
<1>2. Resting \in WalkType /\ Resting.mode = "idle" /\ Resting.cursor = NoCursor
  BY DEF Resting, NoCursor, WalkType, Dirs
<1> QED BY <1>1, <1>2 DEF ListsInv, WalkInv, RepeatInv, SkipInv, OffsetInv

LEMMA StartKeeps ==
  ASSUME IInv, StartWalk
  PROVE  ListsInv'
<1>1. /\ walk.mode = "idle" /\ cuts = {} /\ \A p \in Ids : times[p] = 0
      /\ UNCHANGED <<projectVars, times, cuts, still>>
  BY DEF StartWalk, IInv, ListsInv, WalkInv
<1>2. PICK mode \in {"keyset", "offset"}, dir \in {"ASC", "DESC"}, limit \in Limits :
        /\ walk' = [Resting EXCEPT !.mode = mode, !.dir = dir, !.limit = limit]
        /\ stayed' = IF mode = "keyset" THEN Listed ELSE {}
  BY DEF StartWalk
<1>3. /\ walk' \in WalkType /\ walk'.mode = mode /\ walk'.cursor = NoCursor
      /\ walk'.page = 1 /\ walk'.limit \in Nat
  <2>1. limit \in Nat \ {0} /\ NoCursor \in [v : Nat, id : Nat]
    BY ListConstants DEF NoCursor
  <2>2. walk' = [mode |-> mode, dir |-> dir, limit |-> limit, page |-> 1, cursor |-> NoCursor]
    BY <1>2 DEF Resting
  <2> QED BY <2>1, <2>2 DEF WalkType, Dirs
<1>4. Listed' = Listed  BY <1>1 DEF Listed, Live
<1>5. WalkInv'  BY <1>1, <1>2, <1>3, <1>4 DEF WalkInv, IInv, ListsInv
<1>6. RepeatInv' /\ SkipInv'  BY <1>1, <1>3 DEF RepeatInv, SkipInv
<1>7. OffsetInv'
  <2>1. Skip(walk.page)' = 0  BY <1>3 DEF Skip
  <2>2. \A p \in Listed : Rank(p, Listed)' \in Nat
    <3>1. Listed \in SUBSET Ids /\ walk'.dir \in Dirs /\ created' \in [Ids -> Nat]
      BY <1>1, <1>3, CreatedNat DEF WalkType, Listed, IInv
    <3>2. \A p \in Listed : Ahead(p, Listed)' \in SUBSET Ids
      BY <1>4, <3>1 DEF Ahead
    <3> QED BY <3>2, ListConstants, FS_Subset, FS_CardinalityType DEF Rank
  <2>3. \A p \in Listed : ~(Rank(p, Listed)' < Skip(walk.page)')  BY <2>1, <2>2
  <2>4. \A p \in Listed : times'[p] = 0  BY <1>1 DEF Listed
  <2> QED BY <1>4, <2>3, <2>4 DEF OffsetInv
<1> QED BY <1>5, <1>6, <1>7 DEF ListsInv

LEMMA RestKeeps ==
  ASSUME IInv, LastPage
  PROVE  ListsInv'
<1>1. walk' = Resting /\ times' = [p \in Ids |-> 0] /\ stayed' = {} /\ cuts' = {}
  BY DEF LastPage, Rest
<1>2. Resting \in WalkType /\ Resting.mode = "idle" /\ Resting.cursor = NoCursor
  BY DEF Resting, NoCursor, WalkType, Dirs
<1> QED BY <1>1, <1>2 DEF ListsInv, WalkInv, RepeatInv, SkipInv, OffsetInv

\* What the pages before have in front of them, they have for good.
LEMMA ChangeKnows ==
  ASSUME IInvA, ProjectsNext
  PROVE  /\ \A p \in Ids : Known(p) => created'[p] = created[p] /\ Known(p)'
         /\ row' = row => created' = created
<1> USE DEF IInvA
<1>1. ASSUME NEW p \in Ids, NEW t \in Times, Create(p, t)
      PROVE  /\ \A q \in Ids : Known(q) => created'[q] = created[q] /\ Known(q)'
             /\ row' # row
  BY <1>1, CreateIs DEF Known
<1>2. CASE \E c \in Calls, p \in Ids : Update(c, p) \/ Remove(c, p) \/ Retire(c, p)
  BY <1>2 DEF Update, Remove, Retire, Begin, Known
<1>3. ASSUME NEW c \in Calls,
             \/ Save(c) \/ Count(c) \/ HardDelete(c) \/ Deactivate(c) \/ SoftDelete(c)
             \/ InsertRetirement(c) \/ StatementFails(c)
      PROVE  created' = created /\ \A p \in Ids : Known(p) => Known(p)'
  <2>1. created' = created
    BY <1>3 DEF Save, Count, HardDelete, Deactivate, SoftDelete, InsertRetirement, StatementFails
  <2>2. PICK p \in Ids : p = call[c].id  BY <1>3, CallMoves, Bounds
  <2>3. \A q \in Ids \ {p} : Known(q) => Known(q)'  BY <1>3, <2>2, RowMoves DEF Known
  <2>4. Known(p) => Known(p)'
    <3>1. CASE Save(c) \/ Deactivate(c)
      BY <2>2, <3>1, WriteIs DEF ProjectsInv, TypeInv, RowsInv, Known
    <3>2. CASE HardDelete(c)
      BY <2>2, <3>2 DEF HardDelete, Known
    <3>3. CASE SoftDelete(c)
      BY <2>2, <3>3 DEF SoftDelete, Known
    <3>4. CASE Count(c) \/ InsertRetirement(c) \/ StatementFails(c)
      BY <3>4 DEF Count, InsertRetirement, StatementFails, Known
    <3> QED BY <1>3, <3>1, <3>2, <3>3, <3>4
  <2> QED BY <2>1, <2>3, <2>4
<1> QED BY <1>1, <1>2, <1>3 DEF ProjectsNext

\* What holds of known projects before a change holds of them after it.
LEMMA ChangeSees ==
  ASSUME IInvA, ProjectsNext, walk' = walk, cuts' = cuts, cuts \subseteq Ids,
         \A q \in cuts : Known(q), NEW p \in Ids, Known(p)
  PROVE  /\ \A k : After(p, k)' <=> After(p, k)
         /\ Again(p)' <=> Again(p)
         /\ Lost(p)' <=> Lost(p)
<1>1. created'[p] = created[p] /\ \A q \in cuts : created'[q] = created[q]
  BY ChangeKnows
<1>2. \A q \in cuts : Exact(q)' <=> Exact(q)  BY <1>1 DEF Exact, Serialised
<1> QED BY <1>1, <1>2 DEF After, Again, Lost, Precedes, Serialised

LEMMA ChangeKeeps ==
  ASSUME IInv, Change
  PROVE  ListsInv'
<1>1. /\ IInvA /\ ProjectsNext /\ UNCHANGED <<walk, times, cuts>>
      /\ stayed' = {p \in stayed : row'[p].there /\ ~row'[p].deleted}
      /\ still' = (still /\ (walk.mode # "offset" \/ row' = row))
  BY DEF Change, IInv
<1>2. /\ stayed \subseteq Listed /\ cuts \subseteq Ids
      /\ \A p \in Ids : times[p] > 0 \/ p \in cuts \cup stayed => Known(p)
  BY DEF IInv, ListsInv, WalkInv, Listed, Live, Known
<1>3. WalkInv'
  <2>1. stayed' \subseteq Listed'  BY <1>1, <1>2 DEF Listed, Live
  <2>2. walk'.cursor = NoCursor \/ \E p \in cuts' : walk'.cursor = Encode(p)'
    <3>1. \A p \in cuts : Encode(p)' = Encode(p)
      BY <1>1, <1>2, ChangeKnows DEF Encode, Serialised
    <3> QED BY <1>1, <3>1 DEF IInv, ListsInv, WalkInv
  <2>3. \A p \in Ids : times'[p] > 0 \/ p \in cuts' => Known(p)'
    BY <1>1, <1>2, ChangeKnows
  <2> QED BY <1>1, <2>1, <2>2, <2>3 DEF IInv, ListsInv, WalkInv
<1>4. RepeatInv'
  BY <1>1, <1>2, ChangeSees DEF IInv, ListsInv, RepeatInv
<1>5. SkipInv'
  <2>1. \A p \in stayed' : p \in stayed /\ p \in Ids /\ Known(p)  BY <1>1, <1>2 DEF Listed
  <2> QED BY <1>1, <1>2, <2>1, ChangeSees DEF IInv, ListsInv, SkipInv
<1>6. OffsetInv'
  <2> SUFFICES ASSUME walk.mode = "offset", still'
               PROVE  \A p \in Listed' :
                        times'[p] = IF Rank(p, Listed)' < Skip(walk.page)' THEN 1 ELSE 0
    BY <1>1 DEF OffsetInv
  <2>1. still /\ row' = row /\ created' = created  BY <1>1, ChangeKnows
  <2>2. Listed' = Listed  BY <2>1 DEF Listed, Live
  <2>3. \A p \in Listed : Rank(p, Listed)' = Rank(p, Listed)
    BY <1>1, <2>1, <2>2 DEF Rank, Ahead
  <2>4. Skip(walk.page)' = Skip(walk.page)  BY <1>1 DEF Skip
  <2> QED BY <1>1, <2>1, <2>2, <2>3, <2>4 DEF IInv, ListsInv, OffsetInv
<1> QED BY <1>3, <1>4, <1>5, <1>6 DEF ListsInv

\* The order of the rows and of their cursors, for the two directions.
LEMMA AfterIs ==
  ASSUME created \in [Ids -> Nat], walk.dir \in Dirs, NEW p \in Ids, NEW q \in Ids
  PROVE  /\ walk.dir = "ASC" =>
              /\ Before(p, q) <=> created[p] < created[q] \/ (created[p] = created[q] /\ p < q)
              /\ After(p, Encode(q)) <=>
                   \/ Serialised(created[q]) < created[p]
                   \/ Serialised(created[q]) = created[p] /\ q < p
         /\ walk.dir = "DESC" =>
              /\ Before(p, q) <=> created[p] > created[q] \/ (created[p] = created[q] /\ p > q)
              /\ After(p, Encode(q)) <=>
                   \/ Serialised(created[q]) > created[p]
                   \/ Serialised(created[q]) = created[p] /\ q > p
BY DEF Before, After, Encode, Precedes, Dirs

\* The page after a cursor starts behind it: a row that was not behind the old one is
\* behind the new one only where a fraction of a millisecond was lost.
LEMMA CursorAdvances ==
  ASSUME created \in [Ids -> Nat], walk.dir \in Dirs,
         NEW p \in Ids, NEW q \in Ids, NEW r \in Ids,
         After(r, Encode(q)), ~After(p, Encode(q)), After(p, Encode(r))
  PROVE  /\ walk.dir = "ASC" /\ ~Exact(r)
         /\ Serialised(created[r]) <= created[p] /\ created[p] <= created[r]
<1> DEFINE P == created[p]
           Q == created[q]
           R == created[r]
           SQ == Serialised(Q)
           SR == Serialised(R)
<1>1. P \in Nat /\ Q \in Nat /\ R \in Nat /\ p \in Nat /\ q \in Nat /\ r \in Nat  BY Bounds
<1>2. SQ \in Nat /\ SR \in Nat /\ SQ <= Q /\ SR <= R  BY <1>1, SerialisedRounds
<1>3. SQ <= R => SQ <= SR
  <2>1. Serialised(SQ) = SQ  BY <1>1, <1>2, SerialisedRounds
  <2> QED BY <1>1, <1>2, <2>1, SerialisedRounds
<1>4. Exact(r) <=> SR = R  BY DEF Exact
<1>5. CASE walk.dir = "ASC"
  <2>1. /\ SQ < R \/ (SQ = R /\ q < r)
        /\ ~(SQ < P \/ (SQ = P /\ q < p))
        /\ SR < P \/ (SR = P /\ r < p)
    BY <1>5, AfterIs
  <2> HIDE DEF P, Q, R, SQ, SR
  <2>2. SQ <= SR /\ SR <= P /\ P <= SQ  BY <1>1, <1>2, <1>3, <2>1
  <2>3. SR = P /\ SQ = P /\ r < p /\ ~(q < p)  BY <1>1, <1>2, <2>1, <2>2
  <2>4. SR # R /\ SR <= P /\ P <= R  BY <1>1, <1>2, <2>1, <2>3
  <2> QED BY <1>4, <1>5, <2>4 DEF P, R, SR
<1>6. CASE walk.dir = "DESC"
  <2>1. /\ SQ > R \/ (SQ = R /\ q > r)
        /\ ~(SQ > P \/ (SQ = P /\ q > p))
        /\ SR > P \/ (SR = P /\ r > p)
    BY <1>6, AfterIs
  <2> HIDE DEF P, Q, R, SQ, SR
  <2> QED BY <1>1, <1>2, <2>1
<1> QED BY <1>5, <1>6 DEF Dirs

\* What is on a page is not behind its cursor, except where a fraction was lost; and
\* what is behind the page is behind its cursor, except there.
LEMMA CursorOfPage ==
  ASSUME created \in [Ids -> Nat], walk.dir \in Dirs, NEW p \in Ids, NEW r \in Ids
  PROVE  /\ (p = r \/ Before(p, r)) /\ After(p, Encode(r)) =>
              /\ walk.dir = "ASC" /\ ~Exact(r)
              /\ Serialised(created[r]) <= created[p] /\ created[p] <= created[r]
         /\ Before(r, p) /\ ~After(p, Encode(r)) =>
              /\ walk.dir = "DESC" /\ ~Exact(r)
              /\ Serialised(created[r]) = Serialised(created[p])
<1> DEFINE P == created[p]
           R == created[r]
           SR == Serialised(R)
<1>1. P \in Nat /\ R \in Nat /\ p \in Nat /\ r \in Nat  BY Bounds
<1>2. SR \in Nat /\ SR <= R  BY <1>1, SerialisedRounds
<1>3. SR <= P /\ P <= R => Serialised(P) = SR  BY <1>1, SerialisedRounds
<1>4. Exact(r) <=> SR = R  BY DEF Exact
<1>5. CASE walk.dir = "ASC"
  <2>1. /\ Before(p, r) <=> P < R \/ (P = R /\ p < r)
        /\ Before(r, p) <=> R < P \/ (R = P /\ r < p)
        /\ After(p, Encode(r)) <=> SR < P \/ (SR = P /\ r < p)
    BY <1>5, AfterIs
  <2> HIDE DEF P, R, SR
  <2>2. (p = r \/ Before(p, r)) /\ After(p, Encode(r)) => SR <= P /\ P <= R /\ SR # R
    BY <1>1, <1>2, <2>1 DEF P, R
  <2>3. ~(Before(r, p) /\ ~After(p, Encode(r)))  BY <1>1, <1>2, <2>1
  <2> QED BY <1>4, <1>5, <2>2, <2>3 DEF P, R, SR
<1>6. CASE walk.dir = "DESC"
  <2>1. /\ Before(p, r) <=> P > R \/ (P = R /\ p > r)
        /\ Before(r, p) <=> R > P \/ (R = P /\ r > p)
        /\ After(p, Encode(r)) <=> SR > P \/ (SR = P /\ r > p)
    BY <1>6, AfterIs
  <2>2. p = r => P = R  OBVIOUS
  <2> HIDE DEF P, R, SR
  <2>3. ~((p = r \/ Before(p, r)) /\ After(p, Encode(r)))  BY <1>1, <1>2, <2>1, <2>2
  <2>4. Before(r, p) /\ ~After(p, Encode(r)) => SR <= P /\ P <= R /\ SR # R
    BY <1>1, <1>2, <2>1
  <2> QED BY <1>3, <1>4, <1>6, <2>3, <2>4 DEF P, R, SR
<1> QED BY <1>5, <1>6 DEF Dirs

\* 0 is no id: the cursor of a row is not the missing one.
LEMMA EncodeIs ==
  ASSUME created \in [Ids -> Nat], NEW p \in Ids
  PROVE  Encode(p) \in [v : Nat, id : Nat] /\ Encode(p) # NoCursor
BY Bounds, SerialisedRounds DEF Encode, NoCursor

LEMMA PageKeepsKeyset ==
  ASSUME IInv, NextPage, walk.mode = "keyset"
  PROVE  ListsInv'
<1>1. /\ created \in [Ids -> Nat] /\ walk.dir \in Dirs /\ Listed \in SUBSET Ids
      /\ Matching \in SUBSET Listed /\ Page \in SUBSET Matching
  BY PageIs, CreatedNat DEF IInv
<1>2. PICK r \in Page : /\ r = LastRow /\ \A p \in Page : p = r \/ Before(p, r)
                        /\ \A p \in Matching \ Page : Before(r, p)
  BY LastRowIs DEF NextPage
<1>3. r \in Ids /\ Live(r)  BY <1>1 DEF Listed
<1>4. /\ walk' = [walk EXCEPT !.cursor = Encode(r)] /\ cuts' = cuts \cup {r}
      /\ times' = [p \in Ids |-> IF p \in Page /\ times[p] < 2 THEN times[p] + 1 ELSE times[p]]
      /\ UNCHANGED <<projectVars, stayed, still>>
  BY <1>2 DEF NextPage
<1>5. /\ walk' \in WalkType /\ walk'.mode = walk.mode /\ walk'.dir = walk.dir
      /\ walk'.cursor = Encode(r) /\ Encode(r) # NoCursor
  BY <1>1, <1>3, <1>4, EncodeIs DEF IInv, ListsInv, WalkInv, WalkType
<1>6. times \in [Ids -> 0..2] /\ times' \in [Ids -> 0..2]
  BY <1>4 DEF IInv, ListsInv, WalkInv
<1>7. Listed' = Listed /\ created' = created /\ \A p \in Ids : Known(p)' <=> Known(p)
  BY <1>4 DEF Listed, Live, Known
<1>8. /\ \A p \in Ids, q \in Ids : After(p, Encode(q))' <=> After(p, Encode(q))
      /\ \A p \in Ids : Encode(p)' = Encode(p) /\ (Exact(p)' <=> Exact(p))
  BY <1>5, <1>7 DEF After, Encode, Serialised, Exact
<1>9. WalkInv'
  <2>1. \A p \in Page : Known(p)  BY <1>1 DEF Listed, Live, Known
  <2>2. \A p \in Ids : times'[p] > 0 \/ p \in cuts' => Known(p)'
    BY <1>2, <1>4, <1>7, <2>1 DEF IInv, ListsInv, WalkInv
  <2>3. walk'.cursor = Encode(r)' /\ r \in cuts'  BY <1>3, <1>4, <1>5, <1>8
  <2>4. walk.mode # "idle" /\ walk'.mode # "idle"  BY <1>5
  <2>5. stayed' \subseteq Listed' /\ cuts' \subseteq Ids
    BY <1>3, <1>4, <1>7 DEF IInv, ListsInv, WalkInv
  <2> QED BY <1>5, <1>6, <2>2, <2>3, <2>4, <2>5 DEF WalkInv
<1>10. walk.cursor = NoCursor \/ \E q \in Ids : q \in cuts /\ walk.cursor = Encode(q)
  BY DEF IInv, ListsInv, WalkInv
<1>11. RepeatInv'
  <2> SUFFICES ASSUME NEW p \in Ids, times'[p] > 0, After(p, Encode(r))
               PROVE  Again(p)'
    BY <1>3, <1>5, <1>8 DEF RepeatInv
  <2>1. CASE p \in Page
    <3>1. /\ walk.dir = "ASC" /\ ~Exact(r)
          /\ Serialised(created[r]) <= created[p] /\ created[p] <= created[r]
      BY <1>1, <1>2, <1>3, <2>1, CursorOfPage
    <3> QED BY <1>3, <1>4, <1>5, <1>7, <3>1 DEF Again, Exact, Serialised
  <2>2. CASE p \notin Page
    <3>1. times[p] > 0  BY <1>4, <2>2
    <3>2. PICK q \in Ids : walk.cursor = Encode(q)
      BY <1>10, <3>1 DEF IInv, ListsInv, RepeatInv
    <3>3. CASE After(p, Encode(q))
      <4>1. Again(p)  BY <3>1, <3>2, <3>3 DEF IInv, ListsInv, RepeatInv
      <4> QED BY <1>4, <1>5, <1>7, <4>1 DEF Again, Exact, Serialised
    <3>4. CASE ~After(p, Encode(q))
      <4>1. walk.cursor # NoCursor  BY <1>1, <3>2, EncodeIs
      <4>2. After(r, Encode(q))  BY <1>1, <1>2, <3>2, <4>1 DEF Matching
      <4>3. /\ walk.dir = "ASC" /\ ~Exact(r)
            /\ Serialised(created[r]) <= created[p] /\ created[p] <= created[r]
        BY <1>1, <1>3, <3>4, <4>2, CursorAdvances
      <4> QED BY <1>3, <1>4, <1>5, <1>7, <4>3 DEF Again, Exact, Serialised
    <3> QED BY <3>3, <3>4
  <2> QED BY <2>1, <2>2
<1>12. SkipInv'
  <2> SUFFICES ASSUME NEW p \in stayed, times'[p] = 0, ~After(p, Encode(r))
               PROVE  Lost(p)'
    BY <1>3, <1>4, <1>5, <1>8 DEF SkipInv, IInv, ListsInv, WalkInv, Listed
  <2>1. p \in Ids /\ p \in Listed  BY DEF IInv, ListsInv, WalkInv, Listed
  <2>2. p \notin Page /\ times[p] = 0  BY <1>4, <1>6, <2>1
  <2>3. CASE p \in Matching
    <3>1. /\ walk.dir = "DESC" /\ ~Exact(r)
          /\ Serialised(created[r]) = Serialised(created[p])
      BY <1>1, <1>2, <1>3, <2>1, <2>2, <2>3, CursorOfPage
    <3> QED BY <1>3, <1>4, <1>5, <1>7, <3>1 DEF Lost, Exact, Serialised
  <2>4. CASE p \notin Matching
    <3>1. walk.cursor # NoCursor /\ ~After(p, walk.cursor)  BY <2>1, <2>4 DEF Matching
    <3>2. Lost(p)  BY <2>2, <3>1 DEF IInv, ListsInv, SkipInv
    <3> QED BY <1>4, <1>5, <1>7, <3>2 DEF Lost, Exact, Serialised
  <2> QED BY <2>3, <2>4
<1>13. OffsetInv'  BY <1>5 DEF OffsetInv
<1> QED BY <1>9, <1>11, <1>12, <1>13 DEF ListsInv

LEMMA PageKeepsOffset ==
  ASSUME IInv, NextPage, walk.mode = "offset"
  PROVE  ListsInv'
<1>1. /\ walk' = [walk EXCEPT !.page = @ + 1] /\ UNCHANGED <<projectVars, stayed, still, cuts>>
      /\ times' = [p \in Ids |-> IF p \in Page /\ times[p] < 2 THEN times[p] + 1 ELSE times[p]]
  BY DEF NextPage
<1>2. /\ walk' \in WalkType /\ walk'.mode = walk.mode /\ walk'.dir = walk.dir
      /\ walk'.limit = walk.limit /\ walk'.cursor = walk.cursor
      /\ walk.page \in Nat \ {0} /\ walk'.page = walk.page + 1
  BY <1>1 DEF IInv, ListsInv, WalkInv, WalkType
<1>3. /\ times \in [Ids -> 0..2] /\ times' \in [Ids -> 0..2]
      /\ Listed \in SUBSET Ids /\ Page \in SUBSET Listed /\ Matching = Listed
      /\ walk.dir \in Dirs /\ walk.limit \in Nat \ {0} /\ created \in [Ids -> Nat]
  BY <1>1, PageIs, CreatedNat DEF IInv, ListsInv, WalkInv, Matching
<1>4. Listed' = Listed /\ created' = created  BY <1>1 DEF Listed, Live
<1>5. WalkInv'
  <2>1. \A p \in Ids : times'[p] > 0 \/ p \in cuts' => Known(p)'
    <3>1. \A p \in Page : Known(p)  BY <1>3 DEF Listed, Live, Known
    <3> QED BY <1>1, <3>1 DEF IInv, ListsInv, WalkInv, Known
  <2>2. \A p \in cuts : Encode(p)' = Encode(p)  BY <1>4 DEF Encode, Serialised
  <2> QED BY <1>1, <1>2, <1>3, <1>4, <2>1, <2>2 DEF IInv, ListsInv, WalkInv
<1>6. OffsetInv'
  <2> SUFFICES ASSUME still, NEW p \in Listed
               PROVE  times'[p] = IF Rank(p, Listed)' < Skip(walk.page)' THEN 1 ELSE 0
    BY <1>1, <1>4 DEF OffsetInv
  <2>1. Rank(p, Listed)' = Rank(p, Listed) /\ Rank(p, Listed) \in Nat
    <3>1. Rank(p, Listed)' = Rank(p, Listed)  BY <1>2, <1>4 DEF Rank, Ahead
    <3> QED BY <1>3, <3>1, RankIs
  <2>2. Skip(walk.page)' = Skip(walk.page) + walk.limit /\ Skip(walk.page) \in Nat
    <3>1. walk.page - 1 \in Nat  BY <1>2
    <3> DEFINE n == walk.page - 1
               m == walk.limit
    <3>2. n \in Nat /\ m \in Nat  BY <1>3, <3>1
    <3>3. Skip(walk.page) = n * m  BY DEF Skip
    <3>4. Skip(walk.page)' = (n + 1) * m  BY <1>2 DEF Skip
    <3> HIDE DEF n, m
    <3>5. n * m \in Nat /\ (n + 1) * m = n * m + m  BY <3>2
    <3> QED BY <3>3, <3>4, <3>5 DEF m
  <2>3. times[p] = IF Rank(p, Listed) < Skip(walk.page) THEN 1 ELSE 0
    BY DEF IInv, ListsInv, OffsetInv
  <2>4. Skipped = Skip(walk.page)  BY DEF Skipped
  <2>5. p \in Page <=> ~(Rank(p, Listed) < Skip(walk.page))
                       /\ Rank(p, Listed) < Skip(walk.page)'
    BY <1>3, <2>1, <2>2, <2>4, PageIs
  <2>6. times'[p] = IF p \in Page /\ times[p] < 2 THEN times[p] + 1 ELSE times[p]
    BY <1>1, <1>3
  <2>7. CASE Rank(p, Listed) < Skip(walk.page)
    BY <1>3, <2>1, <2>2, <2>3, <2>5, <2>6, <2>7
  <2>8. CASE ~(Rank(p, Listed) < Skip(walk.page))
    BY <1>3, <2>1, <2>2, <2>3, <2>5, <2>6, <2>8
  <2> QED BY <2>7, <2>8
<1> QED BY <1>2, <1>5, <1>6 DEF ListsInv, RepeatInv, SkipInv

LEMMA ListsStutter ==
  ASSUME IInv, UNCHANGED vars
  PROVE  ListsInv'
<1>1. UNCHANGED <<projectVars, walk, times, stayed, cuts, still>>  BY DEF vars, listVars
<1>2. Listed' = Listed /\ created' = created  BY <1>1 DEF Listed, Live
<1>3. WalkInv'
  BY <1>1, <1>2 DEF IInv, ListsInv, WalkInv, Known, Encode, Serialised
<1>4. RepeatInv' /\ SkipInv'
  BY <1>1, <1>2 DEF IInv, ListsInv, RepeatInv, SkipInv, After, Again, Lost, Exact, Serialised
<1>5. OffsetInv'
  BY <1>1, <1>2 DEF IInv, ListsInv, OffsetInv, Rank, Ahead, Skip
<1> QED BY <1>3, <1>4, <1>5 DEF ListsInv

-----------------------------------------------------------------------------
(* The pages of a walk                                                     *)

\* The inductive invariant holds in every state.
THEOREM Invariance == Spec => []IInv
<1>1. Init => IInv  BY InitCalls, InitLists DEF Init, IInv
<1>2. IInv /\ [Next]_vars => IInv'
  <2> SUFFICES ASSUME IInv, [Next]_vars PROVE IInv'
    OBVIOUS
  <2>1. IInvA'
    BY ProjectsKeep, ProjectsStutter DEF IInv, Next, Change, StartWalk, NextPage, LastPage, vars
  <2>2. CASE Change  BY <2>1, <2>2, ChangeKeeps DEF IInv
  <2>3. CASE StartWalk  BY <2>1, <2>3, StartKeeps DEF IInv
  <2>4. CASE NextPage
    <3>1. walk.mode \in {"keyset", "offset"}
      BY <2>4 DEF NextPage, IInv, ListsInv, WalkInv, WalkType
    <3> QED BY <2>1, <2>4, <3>1, PageKeepsKeyset, PageKeepsOffset DEF IInv
  <2>5. CASE LastPage  BY <2>1, <2>5, RestKeeps DEF IInv
  <2>6. CASE UNCHANGED vars  BY <2>1, <2>6, ListsStutter DEF IInv
  <2> QED BY <2>2, <2>3, <2>4, <2>5, <2>6 DEF Next
<1> QED BY <1>1, <1>2, PTL DEF Spec

\* Every page is the right one, for lists, page sizes and walks of any length: a keyset
\* walk repeats and skips nothing, whatever changes meanwhile, but what the lost
\* fraction of a millisecond costs, and a walk by offset is exact while nothing changes.
THEOREM PagesAreExact == Spec => []PagesExact
<1>1. IInv => PagesExact
  <2> SUFFICES ASSUME IInv PROVE PagesExact
    OBVIOUS
  <2>1. TypeOK
    <3>1. \A p \in Ids : row[p].status \in Statuses
                         /\ {row[p].there, row[p].active, row[p].deleted} \subseteq BOOLEAN
      BY DEF IInv, IInvA, TypeInv, RowsInv, RowType
    <3>2. ProjectsTypeOK
      BY <3>1 DEF IInv, IInvA, TypeInv, RowsInv, CallsInv, ProjectsTypeOK
    <3> QED BY <3>2 DEF IInv, ListsInv, WalkInv, WalkType, TypeOK
  <2>2. KeysetRepeatsNothing
    <3> SUFFICES ASSUME walk.mode = "keyset", NEW p \in Ids, times[p] > 0, p \in Page
                 PROVE  Again(p)
      BY DEF KeysetRepeatsNothing
    <3>1. walk.cursor # NoCursor  BY DEF IInv, ListsInv, RepeatInv
    <3>2. After(p, walk.cursor)  BY <3>1, PageIs DEF Matching
    <3> QED BY <3>2 DEF IInv, ListsInv, RepeatInv
  <2>3. KeysetSkipsNothing
    <3> SUFFICES ASSUME walk.mode = "keyset", ~HasMore, NEW p \in stayed \ Page, times[p] = 0
                 PROVE  Lost(p)
      BY DEF KeysetSkipsNothing
    <3>1. p \in Listed  BY DEF IInv, ListsInv, WalkInv
    <3>2. p \notin Matching
      <4> SUFFICES ASSUME p \in Matching PROVE FALSE
        OBVIOUS
      <4>1. Rank(p, Matching) \in Nat /\ Skipped = 0
        <5>1. Matching \in SUBSET Ids  BY PageIs
        <5> QED BY <5>1, PageIs, CreatedNat, RankIs DEF IInv
      <4> QED BY <4>1, LastPageIs
    <3>3. walk.cursor # NoCursor /\ ~After(p, walk.cursor)  BY <3>1, <3>2 DEF Matching
    <3> QED BY <3>3 DEF IInv, ListsInv, SkipInv
  <2>4. OffsetIsExactWhenStill
    <3> SUFFICES ASSUME walk.mode = "offset", still, ~HasMore, NEW p \in Listed
                 PROVE  times[p] = IF p \in Page THEN 0 ELSE 1
      BY DEF OffsetIsExactWhenStill
    <3>1. Matching = Listed /\ Skipped = Skip(walk.page)  BY DEF Matching, Skipped
    <3>2. times[p] = IF Rank(p, Listed) < Skipped THEN 1 ELSE 0
      BY <3>1 DEF IInv, ListsInv, OffsetInv
    <3>3. Rank(p, Listed) \in Nat /\ Skipped \in Nat
      BY PageIs, CreatedNat, RankIs DEF IInv
    <3>4. p \in Page <=> ~(Rank(p, Listed) < Skipped)
      BY <3>1, <3>3, PageIs, LastPageIs
    <3> QED BY <3>2, <3>4
  <2> QED BY <2>1, <2>2, <2>3, <2>4 DEF PagesExact
<1> QED BY <1>1, Invariance, PTL

=============================================================================
