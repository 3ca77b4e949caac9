------------------------------- MODULE Projects -------------------------------
(***************************************************************************)
(* Projects: their life cycle, their removal and the retirements that      *)
(* refer to them (ProjectsService, and what CreditsService.retire asks of  *)
(* a project).  Calls interleave at every awaited statement.  TypeORM's    *)
(* save reads the row again and writes every column in which it differs    *)
(* from the entity loaded before: the row becomes the entity, whatever     *)
(* happened in between, and a row that is gone is inserted anew.           *)
(*                                                                         *)
(* A statement may fail without effect, at most MaxErrors times.           *)
(* Left out: metadata, and callers that are refused.                       *)
(***************************************************************************)
EXTENDS Naturals

CONSTANTS
  Ids,        \* project ids (uuids, ordered as numbers)
  Editable,   \* bound: those that calls other than create are made on
  StartStatuses,   \* bound: statuses they have at the start
  Calls,      \* handlers
  Times,      \* values of created_at
  MaxCalls,   \* bound: calls on them
  MaxErrors   \* bound: statements that fail

ASSUME ProjectConstants ==
  /\ Ids \subseteq Nat \ {0} /\ Editable \subseteq Ids
  /\ Times \subseteq Nat /\ MaxCalls \in Nat /\ MaxErrors \in Nat

Statuses == {"draft", "registered", "baseline", "active", "completed", "closed"}

ASSUME StartAssumption == StartStatuses \subseteq Statuses

VARIABLES
  row,        \* projects: there, status, active, deleted
  created,    \* created_at
  retirement, \* projects with rows in retirements
  call,       \* of each handler: its step, its project, the entity it has
  calls, errors,
  overlapped, \* projects with two calls at a time (history)
  failed,     \* projects with a call that failed (history)
  removed,    \* projects that a call has removed (history)
  raced       \* projects whose retirement overtook a removal (history)

histVars    == <<overlapped, failed, removed, raced>>
projectVars == <<row, created, retirement, call, calls, errors, histVars>>

-----------------------------------------------------------------------------
NoRow   == [there |-> FALSE, status |-> "draft", active |-> TRUE, deleted |-> FALSE]
NoCall  == [step |-> "idle", id |-> 0, entity |-> NoRow]
Live(p) == row[p].there /\ ~row[p].deleted

\* The projects that calls change are there from the start.
ProjectsInit ==
  /\ \E s \in StartStatuses :
       row = [p \in Ids |-> IF p \in Editable THEN [NoRow EXCEPT !.there = TRUE, !.status = s]
                           ELSE NoRow]
  /\ \E t \in Times : created = [p \in Ids |-> IF p \in Editable THEN t ELSE 0]
  /\ retirement = {} /\ calls = 0 /\ errors = 0
  /\ call = [c \in Calls |-> NoCall]
  /\ overlapped = {} /\ failed = {} /\ removed = {} /\ raced = {}

Create(p, t) ==
  /\ ~row[p].there /\ p \notin removed
  /\ row' = [row EXCEPT ![p].there = TRUE]
  /\ created' = [created EXCEPT ![p] = t]
  /\ UNCHANGED <<retirement, call, calls, errors, histVars>>

-----------------------------------------------------------------------------
(* Calls on a project that exists                                          *)

End(c) == call' = [call EXCEPT ![c] = NoCall]
On(p)  == {c \in Calls : call[c].step # "idle" /\ call[c].id = p}

\* findById, and what the handler makes of the entity.
Begin(c, p, step, entity) ==
  /\ call[c].step = "idle" /\ p \in Editable /\ Live(p)
  /\ calls < MaxCalls /\ calls' = calls + 1
  /\ call' = [call EXCEPT ![c] = [step |-> step, id |-> p, entity |-> entity]]
  /\ overlapped' = IF On(p) = {} THEN overlapped ELSE overlapped \cup {p}
  /\ UNCHANGED <<row, created, retirement, errors, failed, removed, raced>>

\* VALID_TRANSITIONS.  Mutant: no check, as if the status were metadata.
AnyTransition(from, to) == TRUE
ValidTransition(from, to) ==
  <<from, to>> \in {<<"draft", "registered">>, <<"registered", "baseline">>,
                    <<"baseline", "active">>, <<"active", "completed">>,
                    <<"active", "closed">>, <<"completed", "closed">>}

\* update and updateStatus: the status is checked against the entity.
Update(c, p) ==
  \E to \in Statuses :
    /\ to = row[p].status \/ ValidTransition(row[p].status, to)
    /\ Begin(c, p, "save", [row[p] EXCEPT !.status = to])

Save(c) ==
  /\ call[c].step = "save"
  /\ row' = [row EXCEPT ![call[c].id] = call[c].entity]
  /\ End(c)
  /\ UNCHANGED <<created, retirement, calls, errors, histVars>>

\* remove: findById.
Remove(c, p) == Begin(c, p, "count", row[p])

\* Retirements of the project.  txHash is '' from the start and never null, so all
\* of them count.  Mutant: they are not counted.
NotCounted(p)  == FALSE
HasRecords(p)  == p \in retirement

\* An admin may ask for a hard delete.
Count(c) ==
  /\ call[c].step = "count"
  /\ \/ HasRecords(call[c].id) /\ End(c)
     \/ /\ ~HasRecords(call[c].id)
        /\ \E step \in {"hard delete", "deactivate"} :
             call' = [call EXCEPT ![c].step = step]
  /\ UNCHANGED <<row, created, retirement, calls, errors, histVars>>

\* DELETE is refused while rows of retirements refer to the project (ON DELETE
\* RESTRICT).
Restricted(p) == p \in retirement

HardDelete(c) ==
  LET p == call[c].id IN
  /\ call[c].step = "hard delete"
  /\ IF Restricted(p) THEN UNCHANGED <<row, removed>>
     ELSE row' = [row EXCEPT ![p] = NoRow] /\ removed' = removed \cup {p}
  /\ End(c)
  /\ UNCHANGED <<created, retirement, calls, errors, overlapped, failed, raced>>

\* isActive = false, and then softRemove.
Deactivate(c) ==
  LET e == [call[c].entity EXCEPT !.active = FALSE] IN
  /\ call[c].step = "deactivate"
  /\ row' = [row EXCEPT ![call[c].id] = e]
  /\ call' = [call EXCEPT ![c].step = "soft delete"]
  /\ UNCHANGED <<created, retirement, calls, errors, histVars>>

\* softRemove sets deleted_at, if the row is there.
SoftDeleted(r) == [r EXCEPT !.deleted = TRUE]

SoftDelete(c) ==
  LET p == call[c].id IN
  /\ call[c].step = "soft delete"
  /\ row' = IF row[p].there THEN [row EXCEPT ![p] = SoftDeleted(@)] ELSE row
  /\ removed' = removed \cup {p}
  /\ End(c)
  /\ UNCHANGED <<created, retirement, calls, errors, overlapped, failed, raced>>

\* retire finds the project, asks the chain, and inserts a row whose foreign key
\* holds as long as the row of the project is there.
Retire(c, p) ==
  /\ call[c].step = "idle" /\ p \in Editable /\ Live(p) /\ p \notin retirement
  /\ calls < MaxCalls /\ calls' = calls + 1
  /\ call' = [call EXCEPT ![c] = [step |-> "retire", id |-> p, entity |-> NoRow]]
  /\ UNCHANGED <<row, created, retirement, errors, histVars>>

Removing(p) == {c \in On(p) : call[c].step \in {"hard delete", "deactivate", "soft delete"}}

InsertRetirement(c) ==
  LET p == call[c].id IN
  /\ call[c].step = "retire"
  /\ IF row[p].there
     THEN /\ retirement' = retirement \cup {p}
          /\ raced' = IF Live(p) /\ Removing(p) = {} THEN raced ELSE raced \cup {p}
     ELSE UNCHANGED <<retirement, raced>>
  /\ End(c)
  /\ UNCHANGED <<row, created, calls, errors, overlapped, failed, removed>>

StatementFails(c) ==
  /\ call[c].step # "idle" /\ errors < MaxErrors
  /\ errors' = errors + 1
  /\ failed' = failed \cup {call[c].id}
  /\ End(c)
  /\ UNCHANGED <<row, created, retirement, calls, overlapped, removed, raced>>

-----------------------------------------------------------------------------
ProjectsNext ==
  \/ \E p \in Ids, t \in Times : Create(p, t)
  \/ \E c \in Calls :
       \/ \E p \in Ids : Update(c, p) \/ Remove(c, p) \/ Retire(c, p)
       \/ Save(c) \/ Count(c) \/ HardDelete(c) \/ Deactivate(c) \/ SoftDelete(c)
       \/ InsertRetirement(c) \/ StatementFails(c)

-----------------------------------------------------------------------------
(* Properties                                                              *)

\* Types of the rows and the handlers.
ProjectsTypeOK ==
  /\ \A p \in Ids : row[p].status \in Statuses /\ {row[p].there, row[p].active, row[p].deleted} \subseteq BOOLEAN
  /\ created \in [Ids -> Times \cup {0}] /\ calls \in 0..MaxCalls /\ errors \in 0..MaxErrors
  /\ retirement \cup overlapped \cup failed \cup removed \cup raced \subseteq Ids
  /\ \A c \in Calls : call[c].step # "idle" => call[c].id \in Editable

\* A status never goes back, and a project becomes active only from its baseline,
\* although each change is checked on an entity read before: unless two calls on
\* the project overlapped.
Stage == [draft |-> 1, registered |-> 2, baseline |-> 3, active |-> 4, completed |-> 5, closed |-> 6]
LifecycleMovesForward ==
  [][\A p \in Ids : row[p].there /\ row'[p].there /\ p \notin overlapped =>
       /\ Stage[row[p].status] <= Stage[row'[p].status]
       /\ row'[p].status = "active" => row[p].status \in {"baseline", "active"}]_projectVars

\* "Financial records must be retained": a project with retirements is never
\* deleted for good, also when a retirement comes in between the count and the
\* deletion.
RecordsRetained == \A p \in retirement : row[p].there

\* A project with retirements is not removed at all, unless one of them overtook
\* the removal.
RecordsStayVisible ==
  \A p \in retirement : row[p].deleted => p \in raced

\* A project that was removed does not come back, unless a call that overlapped the
\* removal saved the entity it had read before.
RemovedStaysRemoved == \A p \in removed : Live(p) => p \in overlapped

\* Between calls a project is inactive exactly if it is deleted, unless a call
\* failed half-way or two overlapped.
RemovalIsWhole ==
  \A p \in Ids :
    On(p) = {} /\ p \notin failed \cup overlapped => (row[p].deleted <=> ~row[p].active)

\* What a removal promises, to those who retired credits and to those who list.
RemovalHolds ==
  /\ RecordsRetained /\ RecordsStayVisible
  /\ RemovedStaysRemoved /\ RemovalIsWhole
=============================================================================
