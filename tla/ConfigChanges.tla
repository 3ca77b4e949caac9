---------------------------- MODULE ConfigChanges ----------------------------
(***************************************************************************)
(* ConfigChanges: the timelocked changes of the governance configuration   *)
(* (GovernanceService): propose, cancel, the emergency update and the cron *)
(* that applies due changes on every replica.  Every awaited call is a     *)
(* step; the transaction of applySingleChange takes effect when it         *)
(* commits, and holds the row of its change from the locking read on.      *)
(* TypeORM's save of an entity writes back every field as it was read.     *)
(* The value of a field is the number of the change that set it; changes   *)
(* and emergency records are numbered by insertion.                        *)
(*                                                                         *)
(* Left out: the best-effort events, and the provisioning of the row.      *)
(***************************************************************************)
EXTENDS Naturals, FiniteSets, Sequences, SequencesExt

CONSTANTS
  Replicas,     \* processes that run the cron
  Cancellers,   \* calls of cancelConfigChange
  Emergencies,  \* calls of emergencyConfigUpdate
  Fields,       \* columns of governance_config
  MaxChanges,   \* bound: rows of governance_config_changes
  FieldsOf,     \* proposed_values of each: the fields it sets
  Unusable,     \* changes the database refuses (a value out of range)
  MaxFaults     \* bound: other rejected calls and deaths

Changes == 1..MaxChanges

ASSUME ConfigConstants ==
  /\ MaxChanges \in Nat /\ MaxFaults \in Nat /\ Replicas \cap Emergencies = {}
  /\ Unusable \subseteq Nat /\ FieldsOf \in [Changes -> SUBSET Fields \ {{}}]

VARIABLES
  config,      \* governance_config: the change each field comes from, 0 at first
  status,      \* of each change
  due,         \* changes whose effective_at has passed, in that order
  list,        \* the changes a replica still has to lock in this run
  at,          \* the change that its transaction has locked, 0 for none
  pc, copy,    \* its step and its config entity
  cancel,      \* the change a cancelConfigChange has loaded, 0 for none
  urgent,      \* emergencyConfigUpdate: its step, its config entity, its change
  log,         \* changes in the order their values were written (history)
  stale,       \* actors whose entity predates another actor's write (history)
  torn,        \* some actor has written a stale entity (history)
  crossed,     \* changes whose cancellation was saved over APPLIED (history)
  faults

rowVars  == <<config, status, due>>
cronVars == <<list, at, pc, copy>>
histVars == <<log, stale, torn, crossed>>
vars == <<rowVars, cronVars, cancel, urgent, histVars, faults>>

-----------------------------------------------------------------------------
NoConfig == [f \in Fields |-> 0]
Idle     == [step |-> "idle", entity |-> NoConfig, change |-> 0]
Merge(entity, c) == [f \in Fields |-> IF f \in FieldsOf[c] THEN c ELSE entity[f]]
Unused   == {c \in Changes : status[c] = "absent" /\ \A d \in Changes : d < c => status[d] # "absent"}

\* Rows that a transaction has locked.
Held == {at[r] : r \in Replicas}

\* The write of an entity by `actor`: everybody else's entity is stale now.
Actors == Replicas \cup Emergencies
Reading(actor) == IF actor \in Replicas THEN pc[actor] = "commit"
                  ELSE urgent[actor].step # "idle"
Write(actor, entity) ==
  /\ config' = entity
  /\ torn' = (torn \/ actor \in stale)
  /\ stale' = {a \in Actors \ {actor} : a \in stale \/ Reading(a)}

Init ==
  /\ config = NoConfig
  /\ status = [c \in Changes |-> "absent"]
  /\ due = <<>>
  /\ list = [r \in Replicas |-> {}] /\ at = [r \in Replicas |-> 0]
  /\ pc = [r \in Replicas |-> "idle"] /\ copy = [r \in Replicas |-> NoConfig]
  /\ cancel = [k \in Cancellers |-> 0]
  /\ urgent = [e \in Emergencies |-> Idle]
  /\ log = <<>>
  /\ stale = {} /\ torn = FALSE /\ crossed = {}
  /\ faults = 0

-----------------------------------------------------------------------------
(* proposeConfigChange and cancelConfigChange                              *)

Propose(c) ==
  /\ c \in Unused
  /\ status' = [status EXCEPT ![c] = "pending"]
  /\ UNCHANGED <<config, due, cronVars, cancel, urgent, histVars, faults>>

\* effectiveAt = now + timelockPeriod: the period itself may change, so changes
\* need not fall due in the order of their proposal.
FallDue(c) ==
  /\ status[c] = "pending" /\ c \notin ToSet(due)
  /\ due' = Append(due, c)
  /\ UNCHANGED <<config, status, cronVars, cancel, urgent, histVars, faults>>

LoadToCancel(k, c) ==
  /\ cancel[k] = 0 /\ status[c] = "pending"
  /\ cancel' = [cancel EXCEPT ![k] = c]
  /\ UNCHANGED <<rowVars, cronVars, urgent, histVars, faults>>

\* The save waits for a transaction that holds the row, and then wins.
SaveCancelled(k) ==
  LET c == cancel[k] IN
  /\ c # 0 /\ c \notin Held
  /\ status' = [status EXCEPT ![c] = "cancelled"]
  /\ crossed' = IF status[c] = "applied" THEN crossed \cup {c} ELSE crossed
  /\ cancel' = [cancel EXCEPT ![k] = 0]
  /\ UNCHANGED <<config, due, cronVars, urgent, log, stale, torn, faults>>

CancelFails(k) ==
  /\ cancel[k] # 0 /\ faults < MaxFaults
  /\ faults' = faults + 1
  /\ cancel' = [cancel EXCEPT ![k] = 0]
  /\ UNCHANGED <<rowVars, cronVars, urgent, histVars>>

-----------------------------------------------------------------------------
(* emergencyConfigUpdate                                                   *)

ReadUrgently(e) ==
  /\ urgent[e].step = "idle"
  /\ urgent' = [urgent EXCEPT ![e] = [step |-> "record", entity |-> config, change |-> 0]]
  /\ UNCHANGED <<rowVars, cronVars, cancel, histVars, faults>>

\* The audit row, with status EMERGENCY, comes before the values.  Mutant: after.
RecordLater(e, c) ==
  /\ urgent[e].step = "record" /\ c \in Unused
  /\ urgent' = [urgent EXCEPT ![e] = [@ EXCEPT !.step = "save", !.change = c]]
  /\ UNCHANGED <<config, status, due, cronVars, cancel, histVars, faults>>
RecordEmergency(e, c) ==
  /\ urgent[e].step = "record" /\ c \in Unused
  /\ status' = [status EXCEPT ![c] = "emergency"]
  /\ urgent' = [urgent EXCEPT ![e] = [@ EXCEPT !.step = "save", !.change = c]]
  /\ UNCHANGED <<config, due, cronVars, cancel, histVars, faults>>

SaveUrgently(e) ==
  LET c == urgent[e].change IN
  /\ urgent[e].step = "save" /\ c \notin Unusable
  /\ Write(e, Merge(urgent[e].entity, c))
  /\ log' = Append(log, c)
  /\ urgent' = [urgent EXCEPT ![e] = Idle]
  /\ UNCHANGED <<status, due, cronVars, cancel, crossed, faults>>

EmergencyFails(e) ==
  /\ urgent[e].step # "idle"
  /\ \/ urgent[e].change \in Unusable /\ UNCHANGED faults
     \/ faults < MaxFaults /\ faults' = faults + 1
  /\ urgent' = [urgent EXCEPT ![e] = Idle]
  /\ stale' = stale \ {e}
  /\ UNCHANGED <<rowVars, cronVars, cancel, log, torn, crossed>>

-----------------------------------------------------------------------------
(* applyDueConfigChanges and applySingleChange                             *)

Goto(r, label) == pc' = [pc EXCEPT ![r] = label]

FindDue(r) ==
  LET found == {c \in ToSet(due) : status[c] = "pending"} IN
  /\ pc[r] = "idle" /\ found # {}
  /\ list' = [list EXCEPT ![r] = found]
  /\ Goto(r, "lock")
  /\ UNCHANGED <<rowVars, at, copy, cancel, urgent, histVars, faults>>

\* The loop takes them by effective_at.
Precedes(c, d) == \E n \in 1..Len(due) : \E m \in 1..n - 1 : due[m] = c /\ due[n] = d
First(r)       == {c \in list[r] : \A d \in list[r] : ~Precedes(d, c)}

\* The transaction ends; the loop goes on with the changes that are left.
NextChange(r, left) ==
  /\ list' = [list EXCEPT ![r] = left]
  /\ at' = [at EXCEPT ![r] = 0]
  /\ copy' = [copy EXCEPT ![r] = NoConfig]
  /\ Goto(r, IF left = {} THEN "idle" ELSE "lock")

\* The status as the locking read finds it.  Mutant: it is not checked.
Unchecked(c)    == TRUE
StillPending(c) == status[c] = "pending"

\* findOne ... FOR UPDATE waits for a transaction that holds the row.
LockChange(r) ==
  /\ pc[r] = "lock"
  /\ \E c \in First(r) \ Held :
       \/ /\ StillPending(c)
          /\ list' = [list EXCEPT ![r] = @ \ {c}]
          /\ at' = [at EXCEPT ![r] = c]
          /\ Goto(r, "read")
          /\ UNCHANGED copy
       \/ ~StillPending(c) /\ NextChange(r, list[r] \ {c})
  /\ UNCHANGED <<rowVars, cancel, urgent, histVars, faults>>

\* The entity is read anew for each change.  Mutant: it is created instead.
BlankConfig(r) == NoConfig
FreshConfig(r) == config

ReadConfig(r) ==
  /\ pc[r] = "read"
  /\ copy' = [copy EXCEPT ![r] = FreshConfig(r)]
  /\ Goto(r, "commit")
  /\ UNCHANGED <<rowVars, list, at, cancel, urgent, histVars, faults>>

CommitChange(r) ==
  LET c == at[r] IN
  /\ pc[r] = "commit" /\ c \notin Unusable
  /\ Write(r, Merge(copy[r], c))
  /\ status' = [status EXCEPT ![c] = "applied"]
  /\ log' = Append(log, c)
  /\ NextChange(r, list[r])
  /\ UNCHANGED <<due, cancel, urgent, crossed, faults>>

\* A query rejects: rollback, logged, next change.  Mutant: the run is over.
EndRun(r)     == NextChange(r, {})
SkipChange(r) == NextChange(r, IF pc[r] = "lock" THEN list[r] \ First(r) ELSE list[r])

ApplyFails(r) ==
  /\ pc[r] # "idle"
  /\ \/ pc[r] = "commit" /\ at[r] \in Unusable /\ UNCHANGED faults
     \/ faults < MaxFaults /\ faults' = faults + 1
  /\ SkipChange(r)
  /\ stale' = stale \ {r}
  /\ UNCHANGED <<rowVars, cancel, urgent, log, torn, crossed>>

ReplicaDies(r) ==
  /\ pc[r] # "idle" /\ faults < MaxFaults
  /\ faults' = faults + 1
  /\ NextChange(r, {})
  /\ stale' = stale \ {r}
  /\ UNCHANGED <<rowVars, cancel, urgent, log, torn, crossed>>

-----------------------------------------------------------------------------
Cron(r) ==
  FindDue(r) \/ LockChange(r) \/ ReadConfig(r) \/ CommitChange(r) \/ ApplyFails(r)

Next ==
  \/ \E c \in Changes : Propose(c) \/ FallDue(c)
  \/ \E k \in Cancellers :
       (\E c \in Changes : LoadToCancel(k, c)) \/ SaveCancelled(k) \/ CancelFails(k)
  \/ \E e \in Emergencies :
       \/ ReadUrgently(e) \/ SaveUrgently(e) \/ EmergencyFails(e)
       \/ \E c \in Changes : RecordEmergency(e, c)
  \/ \E r \in Replicas : Cron(r) \/ ReplicaDies(r)

Spec == Init /\ [][Next]_vars

\* The cron fires every minute in each replica and its queries settle.
FairSpec == Spec /\ \A r \in Replicas : WF_vars(Cron(r))

-----------------------------------------------------------------------------
(* Properties                                                              *)

\* Types; a locked row has one holder and is pending.
TypeOK ==
  /\ config \in [Fields -> 0..MaxChanges]
  /\ status \in [Changes -> {"absent", "pending", "applied", "cancelled", "emergency"}]
  /\ due \in Seq(Changes) /\ list \in [Replicas -> SUBSET Changes]
  /\ at \in [Replicas -> 0..MaxChanges]
  /\ pc \in [Replicas -> {"idle", "lock", "read", "commit"}]
  /\ copy \in [Replicas -> [Fields -> 0..MaxChanges]]
  /\ cancel \in [Cancellers -> 0..MaxChanges]
  /\ urgent \in [Emergencies -> [step : {"idle", "record", "save"},
                                entity : [Fields -> 0..MaxChanges], change : 0..MaxChanges]]
  /\ log \in Seq(Changes) /\ stale \subseteq Actors /\ torn \in BOOLEAN
  /\ crossed \subseteq Changes /\ faults \in 0..MaxFaults
  /\ \A r \in Replicas :
       IF pc[r] \in {"read", "commit"} THEN at[r] # 0 /\ status[at[r]] = "pending" ELSE at[r] = 0
  /\ \A q, r \in Replicas : at[q] = at[r] /\ at[r] # 0 => q = r

\* Two replicas, a retry after an error or a death never apply a change twice
\* ("re-fetch inside transaction to guard against concurrent applies").
AppliedOnce == \A m, n \in 1..Len(log) : log[m] = log[n] => m = n

\* Row locks and re-read statuses keep the queue of changes consistent.
ChangesConsistent == TypeOK /\ AppliedOnce

\* Every live value goes back to a change that was applied after its timelock or
\* recorded as an emergency; never to a pending one, and to a cancelled one only
\* if the cancellation had loaded it before it was applied.
LiveValuesAreAudited ==
  \A f \in Fields : LET c == config[f] IN
    c # 0 => \/ status[c] = "emergency"
             \/ (status[c] = "applied" \/ c \in crossed) /\ c \in ToSet(due)

\* As long as no actor saved a configuration that it had read before another one
\* wrote, no update is lost: every field is that of the last change to it, also
\* when one run applies several changes.
NoUpdateLostAlone ==
  ~torn => \A n \in 1..Len(log) : \A f \in FieldsOf[log[n]] :
    (\A m \in n + 1..Len(log) : f \notin FieldsOf[log[m]]) => config[f] = log[n]

\* "Each change is processed individually so a single failure does not block the
\* others": due changes do not stay pending, whatever the changes before them do.
DueIsSettled ==
  []<>(\A c \in ToSet(due) \ Unusable : status[c] # "pending")
=============================================================================
