------------------------- MODULE ConfigChanges_proofs -------------------------
(* Theorems about ConfigChanges, for any number of replicas, cancellations,     *)
(* emergency updates, fields, changes and faults, whatever the changes set and   *)
(* whichever of them the database refuses.                                       *)
EXTENDS ConfigChanges, TLAPS

USE DEF rowVars, cronVars, histVars

-----------------------------------------------------------------------------
(* The inductive invariant                                                 *)

\* Replicas work through due changes; a cancellation has loaded a proposed one; an
\* emergency update has a change of its own that is not in force yet; and what is
\* in the log is settled for good.
QueueInv ==
  /\ \A r \in Replicas : list[r] \subseteq ToSet(due) /\ (at[r] # 0 => at[r] \in ToSet(due))
  /\ \A k \in Cancellers :
       cancel[k] # 0 => status[cancel[k]] \in {"pending", "applied", "cancelled"}
  /\ \A e \in Emergencies : urgent[e].step = "save" =>
       /\ urgent[e].change # 0 /\ status[urgent[e].change] = "emergency"
       /\ urgent[e].change \notin ToSet(log)
  /\ \A d, e \in Emergencies :
       urgent[d].step = "save" /\ urgent[e].step = "save" /\ urgent[d].change = urgent[e].change
         => d = e
  /\ \A c \in ToSet(log) : status[c] \in {"applied", "cancelled", "emergency"}

TypeInv == TypeOK /\ QueueInv

Audited(c) ==
  c # 0 => \/ status[c] = "emergency"
           \/ (status[c] = "applied" \/ c \in crossed) /\ c \in ToSet(due)

\* The entities that will be saved hold audited values, too.
AuditInv ==
  \A f \in Fields :
    /\ Audited(config[f])
    /\ \A r \in Replicas : Audited(copy[r][f])
    /\ \A e \in Emergencies : Audited(urgent[e].entity[f])

\* Who is not stale has the configuration as it is.
FreshInv ==
  /\ \A r \in Replicas \ stale : pc[r] = "commit" => copy[r] = config
  /\ \A e \in Emergencies \ stale : urgent[e].step # "idle" => urgent[e].entity = config

IInv == TypeInv /\ AppliedOnce /\ AuditInv /\ FreshInv /\ NoUpdateLostAlone

-----------------------------------------------------------------------------
(* Sequences, fields and transactions                                      *)

\* The assumptions, in the form in which steps use them.
LEMMA Bounds ==
  /\ Changes \subseteq 0..MaxChanges /\ 0 \notin Changes /\ 0 \in 0..MaxChanges
  /\ \A c \in 0..MaxChanges : c # 0 => c \in Changes
  /\ MaxFaults \in Nat /\ Replicas \cap Emergencies = {}
BY ConfigConstants DEF Changes

LEMMA Appended ==
  ASSUME NEW S, NEW s \in Seq(S), NEW c \in S
  PROVE  /\ Append(s, c) \in Seq(S) /\ Len(s) \in Nat /\ Len(Append(s, c)) = Len(s) + 1
         /\ \A n \in 1..Len(s) : Append(s, c)[n] = s[n]
         /\ Append(s, c)[Len(s) + 1] = c
         /\ ToSet(s) \subseteq S /\ ToSet(Append(s, c)) = ToSet(s) \cup {c}
<1>1. /\ Append(s, c) \in Seq(S) /\ Len(s) \in Nat /\ Len(Append(s, c)) = Len(s) + 1
      /\ \A n \in 1..Len(s) : Append(s, c)[n] = s[n] /\ s[n] \in S
      /\ Append(s, c)[Len(s) + 1] = c
      /\ DOMAIN s = 1..Len(s) /\ DOMAIN Append(s, c) = 1..Len(s) + 1
  OBVIOUS
<1>2. ToSet(Append(s, c)) = ToSet(s) \cup {c}
  <2>1. 1..Len(s) + 1 = (1..Len(s)) \cup {Len(s) + 1}  BY <1>1
  <2> QED BY <1>1, <2>1 DEF ToSet
<1> QED BY <1>1, <1>2 DEF ToSet

LEMMA DueChanges == TypeOK => ToSet(due) \subseteq Changes /\ ToSet(log) \subseteq Changes
BY DEF TypeOK, ToSet

LEMMA NoConfigType == NoConfig \in [Fields -> 0..MaxChanges] /\ \A f \in Fields : NoConfig[f] = 0
BY Bounds DEF NoConfig

\* A change sets its fields and leaves the others as they are.
LEMMA MergeType ==
  ASSUME NEW entity \in [Fields -> 0..MaxChanges], NEW c \in Changes
  PROVE  /\ Merge(entity, c) \in [Fields -> 0..MaxChanges]
         /\ \A f \in Fields :
              Merge(entity, c)[f] = IF f \in FieldsOf[c] THEN c ELSE entity[f]
BY Bounds DEF Merge

\* Who writes is not stale, and nobody who reads at that time is fresh afterwards.
LEMMA WriteType ==
  ASSUME TypeOK, NEW a \in Actors, NEW entity \in [Fields -> 0..MaxChanges], Write(a, entity)
  PROVE  /\ config' = entity /\ config' \in [Fields -> 0..MaxChanges]
         /\ torn' \in BOOLEAN /\ stale' \subseteq Actors
         /\ ~torn' => ~torn /\ a \notin stale
         /\ \A b \in Actors \ {a} : b \notin stale' => b \notin stale /\ ~Reading(b)
BY DEF TypeOK, Write

\* The locals of a replica after a transaction.
LEMMA NextChangeType ==
  ASSUME TypeOK, NEW r \in Replicas, NEW left \in SUBSET Changes, NextChange(r, left)
  PROVE  /\ list' \in [Replicas -> SUBSET Changes] /\ at' \in [Replicas -> 0..MaxChanges]
         /\ pc' \in [Replicas -> {"idle", "lock", "read", "commit"}]
         /\ copy' \in [Replicas -> [Fields -> 0..MaxChanges]]
         /\ list'[r] = left /\ at'[r] = 0 /\ pc'[r] \in {"idle", "lock"} /\ copy'[r] = NoConfig
         /\ \A q \in Replicas \ {r} :
              list'[q] = list[q] /\ at'[q] = at[q] /\ pc'[q] = pc[q] /\ copy'[q] = copy[q]
BY Bounds, NoConfigType DEF TypeOK, NextChange, Goto

\* The transactions that are open hold different pending changes.
Locks(step, locked, state) ==
  /\ \A r \in Replicas :
       IF step[r] \in {"read", "commit"} THEN locked[r] # 0 /\ state[locked[r]] = "pending"
                                        ELSE locked[r] = 0
  /\ \A q, r \in Replicas : locked[q] = locked[r] /\ locked[r] # 0 => q = r

\* A transaction ends: the others keep their rows.
LEMMA LocksLeft ==
  ASSUME NEW r \in Replicas, Locks(pc, at, status), at'[r] = 0, pc'[r] \in {"idle", "lock"},
         \A q \in Replicas \ {r} : at'[q] = at[q] /\ pc'[q] = pc[q]
           /\ (at[q] # 0 => status'[at[q]] = status[at[q]])
  PROVE  Locks(pc, at, status)'
<1>1. \A q \in Replicas :
        IF pc'[q] \in {"read", "commit"} THEN at'[q] # 0 /\ status'[at'[q]] = "pending"
                                          ELSE at'[q] = 0
  BY DEF Locks
<1>2. \A p, q \in Replicas : at'[p] = at'[q] /\ at'[q] # 0 => p = q
  <2>1. \A q \in Replicas : at'[q] # 0 => q # r /\ at'[q] = at[q]  OBVIOUS
  <2> QED BY <2>1 DEF Locks
<1> QED BY <1>1, <1>2 DEF Locks

LEMMA InitInv == Init => IInv
<1> SUFFICES ASSUME Init
             PROVE  IInv
  OBVIOUS
<1> USE DEF Init
<1>1. TypeOK
  <2>1. Idle \in [step : {"idle", "record", "save"}, entity : [Fields -> 0..MaxChanges],
                  change : 0..MaxChanges]
    BY Bounds, NoConfigType DEF Idle
  <2>2. \A r \in Replicas :
         IF pc[r] \in {"read", "commit"} THEN at[r] # 0 /\ status[at[r]] = "pending" ELSE at[r] = 0
    OBVIOUS
  <2>3. due \in Seq(Changes) /\ log \in Seq(Changes)  OBVIOUS
  <2>4. status \in [Changes -> {"absent", "pending", "applied", "cancelled", "emergency"}]
    OBVIOUS
  <2>5. faults \in 0..MaxFaults  BY Bounds
  <2>6. urgent \in [Emergencies -> [step : {"idle", "record", "save"},
                                entity : [Fields -> 0..MaxChanges], change : 0..MaxChanges]]
    BY <2>1
  <2>7. /\ config \in [Fields -> 0..MaxChanges] /\ copy \in [Replicas -> [Fields -> 0..MaxChanges]]
        /\ at \in [Replicas -> 0..MaxChanges] /\ cancel \in [Cancellers -> 0..MaxChanges]
    BY Bounds, NoConfigType
  <2>8. \A q, r \in Replicas : at[q] = at[r] /\ at[r] # 0 => q = r  OBVIOUS
  <2>9. /\ list \in [Replicas -> SUBSET Changes]
        /\ pc \in [Replicas -> {"idle", "lock", "read", "commit"}]
        /\ stale \subseteq Actors /\ torn \in BOOLEAN /\ crossed \subseteq Changes
    OBVIOUS
  <2> QED BY <2>2, <2>3, <2>4, <2>5, <2>6, <2>7, <2>8, <2>9 DEF TypeOK
<1>2. QueueInv  BY DEF QueueInv, Idle, ToSet
<1>3. AppliedOnce /\ NoUpdateLostAlone  BY DEF AppliedOnce, NoUpdateLostAlone
<1>4. AuditInv  BY NoConfigType DEF AuditInv, Audited, Idle
<1>5. FreshInv  BY DEF FreshInv, Idle
<1> QED BY <1>1, <1>2, <1>3, <1>4, <1>5 DEF IInv, TypeInv

-----------------------------------------------------------------------------
(* Types and queues                                                        *)

LEMMA ProposeType ==
  ASSUME TypeInv, NEW c \in Changes, Propose(c) \/ FallDue(c)
  PROVE  TypeInv'
<1> USE DEF TypeInv, TypeOK, QueueInv
<1>1. CASE Propose(c)
  BY <1>1, Bounds, DueChanges DEF Propose, Unused
<1>2. CASE FallDue(c)
  <2>1. due' \in Seq(Changes) /\ ToSet(due) \subseteq ToSet(due')
    BY <1>2, Appended DEF FallDue
  <2> QED BY <1>2, <2>1 DEF FallDue
<1> QED BY <1>1, <1>2

LEMMA CancelType ==
  ASSUME TypeInv, NEW k \in Cancellers,
         (\E c \in Changes : LoadToCancel(k, c)) \/ SaveCancelled(k) \/ CancelFails(k)
  PROVE  TypeInv'
<1> USE DEF TypeInv, TypeOK, QueueInv
<1>1. ASSUME NEW c \in Changes, LoadToCancel(k, c)
      PROVE  TypeInv'
  BY <1>1, Bounds DEF LoadToCancel
<1>2. CASE SaveCancelled(k)
  <2> DEFINE c == cancel[k]
  <2>1. /\ c \in Changes /\ status[c] \in {"pending", "applied", "cancelled"}
        /\ \A r \in Replicas : at[r] # c
        /\ status' = [status EXCEPT ![c] = "cancelled"]
        /\ crossed' \subseteq Changes
        /\ cancel' = [cancel EXCEPT ![k] = 0]
        /\ UNCHANGED <<config, due, cronVars, urgent, log, stale, torn, faults>>
    <3>1. /\ c \in Changes /\ status[c] \in {"pending", "applied", "cancelled"}
          /\ crossed' = IF status[c] = "applied" THEN crossed \cup {c} ELSE crossed
      BY <1>2, Bounds DEF SaveCancelled
    <3>2. crossed' \subseteq Changes  BY <3>1
    <3> QED BY <1>2, <3>1, <3>2 DEF SaveCancelled, Held
  <2> HIDE DEF c
  <2> QED BY <2>1, Bounds, DueChanges
<1>3. CASE CancelFails(k)
  <2>1. faults' \in 0..MaxFaults  BY <1>3, Bounds DEF CancelFails
  <2> QED BY <1>3, <2>1, Bounds DEF CancelFails
<1> QED BY <1>1, <1>2, <1>3

LEMMA UrgentType ==
  ASSUME TypeInv, NEW e \in Emergencies,
         \/ ReadUrgently(e) \/ SaveUrgently(e) \/ EmergencyFails(e)
         \/ \E c \in Changes : RecordEmergency(e, c)
  PROVE  TypeInv'
<1> DEFINE U == [step : {"idle", "record", "save"}, entity : [Fields -> 0..MaxChanges],
                 change : 0..MaxChanges]
<1> USE DEF TypeInv, TypeOK, QueueInv
<1>1. CASE ReadUrgently(e)
  <2> DEFINE u == [step |-> "record", entity |-> config, change |-> 0]
  <2>1. u \in U /\ u.step = "record"  BY Bounds
  <2> HIDE DEF u
  <2>2. urgent' = [urgent EXCEPT ![e] = u]  BY <1>1 DEF ReadUrgently, u
  <2> QED BY <1>1, <2>1, <2>2 DEF ReadUrgently
<1>2. CASE SaveUrgently(e)
  <2> DEFINE c == urgent[e].change
  <2>1. /\ c \in Changes /\ status[c] = "emergency" /\ urgent[e].entity \in [Fields -> 0..MaxChanges]
        /\ Write(e, Merge(urgent[e].entity, c)) /\ log' = Append(log, c)
        /\ \A d \in Emergencies \ {e} : urgent[d].step = "save" => urgent[d].change # c
    BY <1>2, Bounds DEF SaveUrgently
  <2>2. urgent' = [urgent EXCEPT ![e] = Idle]  BY <1>2 DEF SaveUrgently
  <2> HIDE DEF c
  <2>3. Idle \in U /\ Idle.step = "idle"  BY Bounds, NoConfigType DEF Idle
  <2>4. urgent' \in [Emergencies -> U] /\ urgent'[e].step = "idle"
        /\ \A d \in Emergencies \ {e} : urgent'[d] = urgent[d]
    BY <2>2, <2>3
  <2>5. e \in Actors  BY DEF Actors
  <2>6. /\ config' \in [Fields -> 0..MaxChanges] /\ torn' \in BOOLEAN /\ stale' \subseteq Actors
    <3> HIDE DEF TypeInv, QueueInv, TypeOK
    <3>1. Merge(urgent[e].entity, c) \in [Fields -> 0..MaxChanges]  BY <2>1, MergeType
    <3> QED BY <2>1, <2>5, <3>1, WriteType DEF TypeInv
  <2>7. log' \in Seq(Changes) /\ ToSet(log') = ToSet(log) \cup {c}  BY <2>1, Appended
  <2>8. UNCHANGED <<status, due, cronVars, cancel, crossed, faults>>  BY <1>2 DEF SaveUrgently
  <2>9. TypeOK'
    <3>1. Locks(pc, at, status)'  BY <2>8 DEF Locks
    <3> HIDE DEF QueueInv
    <3> QED BY <2>4, <2>6, <2>7, <2>8, <3>1 DEF Locks
  <2>10. QueueInv'
    <3> HIDE DEF TypeOK
    <3>1. \A d \in Emergencies : urgent'[d].step = "save" =>
            urgent'[d] = urgent[d] /\ urgent[d].change # c
      BY <2>1, <2>4
    <3>2. \A d \in Emergencies : urgent'[d].step = "save" =>
            /\ urgent'[d].change # 0 /\ status'[urgent'[d].change] = "emergency"
            /\ urgent'[d].change \notin ToSet(log')
      BY <2>7, <2>8, <3>1
    <3>3. \A d \in ToSet(log') : status'[d] \in {"applied", "cancelled", "emergency"}
      BY <2>1, <2>7, <2>8
    <3> QED BY <2>8, <3>1, <3>2, <3>3
  <2> QED BY <2>9, <2>10
<1>3. CASE EmergencyFails(e)
  <2>1. Idle \in U /\ Idle.step = "idle"  BY Bounds, NoConfigType DEF Idle
  <2>2. urgent' = [urgent EXCEPT ![e] = Idle]  BY <1>3 DEF EmergencyFails
  <2>3. urgent' \in [Emergencies -> U] /\ urgent'[e].step = "idle"
        /\ \A d \in Emergencies \ {e} : urgent'[d] = urgent[d]
    BY <2>1, <2>2
  <2>4. faults' \in 0..MaxFaults  BY <1>3, Bounds DEF EmergencyFails
  <2> QED BY <1>3, <2>3, <2>4 DEF EmergencyFails
<1>4. ASSUME NEW c \in Changes, RecordEmergency(e, c)
      PROVE  TypeInv'
  <2> DEFINE u == [urgent[e] EXCEPT !.step = "save", !.change = c]
  <2>1. u \in U /\ u.step = "save" /\ u.change = c
    <3>1. urgent[e] \in U /\ c \in 0..MaxChanges  BY Bounds
    <3> HIDE DEF TypeInv, TypeOK, QueueInv
    <3> QED BY <3>1
  <2> HIDE DEF u
  <2>2. urgent' = [urgent EXCEPT ![e] = u]  BY <1>4 DEF RecordEmergency, u
  <2>3. urgent' \in [Emergencies -> U] /\ urgent'[e] = u
        /\ \A d \in Emergencies \ {e} : urgent'[d] = urgent[d]
    BY <2>1, <2>2
  <2>4. c \notin ToSet(log) /\ c # 0 /\ status[c] = "absent"  BY <1>4, Bounds DEF RecordEmergency, Unused
  <2>5. /\ status' = [status EXCEPT ![c] = "emergency"]
        /\ UNCHANGED <<config, due, cronVars, cancel, histVars, faults>>
    BY <1>4 DEF RecordEmergency
  <2>6. Locks(pc, at, status)'  BY <2>4, <2>5 DEF Locks
  <2>7. TypeOK'
    <3> HIDE DEF QueueInv
    <3> QED BY <2>3, <2>1, <2>5, <2>6 DEF Locks
  <2>8. QueueInv'
    <3>1. /\ \A d \in Changes \ {c} : status'[d] = status[d]
          /\ status'[c] = "emergency" /\ ToSet(log) \subseteq Changes
      BY <2>5, DueChanges
    <3>2. \A k \in Cancellers : cancel[k] # 0 => cancel[k] \in Changes \ {c}  BY <2>4, Bounds
    <3>3. \A d \in Emergencies : urgent[d].step = "save" => urgent[d].change \in Changes \ {c}
      BY <2>4, Bounds
    <3> HIDE DEF TypeOK
    <3> QED BY <2>1, <2>3, <2>4, <2>5, <3>1, <3>2, <3>3
  <2> QED BY <2>7, <2>8
<1> QED BY <1>1, <1>2, <1>3, <1>4

LEMMA CronType ==
  ASSUME TypeInv, NEW r \in Replicas, Cron(r) \/ ReplicaDies(r)
  PROVE  TypeInv'
<1> USE DEF TypeInv, TypeOK, QueueInv
<1>1. CASE FindDue(r)
  <2>1. list' \in [Replicas -> SUBSET Changes] /\ list'[r] \subseteq ToSet(due)
        /\ \A q \in Replicas \ {r} : list'[q] = list[q]
    BY <1>1, DueChanges DEF FindDue
  <2> QED BY <1>1, <2>1 DEF FindDue, Goto
\* The transaction of r ends without a trace.
<1>2. ASSUME NEW left \in SUBSET list[r], NextChange(r, left),
             stale' \subseteq stale, faults' \in 0..MaxFaults,
             UNCHANGED <<rowVars, cancel, urgent, log, torn, crossed>>
      PROVE  TypeInv'
  <2>1. /\ list' \in [Replicas -> SUBSET Changes] /\ at' \in [Replicas -> 0..MaxChanges]
        /\ pc' \in [Replicas -> {"idle", "lock", "read", "commit"}]
        /\ copy' \in [Replicas -> [Fields -> 0..MaxChanges]]
        /\ list'[r] = left /\ at'[r] = 0 /\ pc'[r] \in {"idle", "lock"}
        /\ \A q \in Replicas \ {r} : list'[q] = list[q] /\ at'[q] = at[q] /\ pc'[q] = pc[q]
    <3> HIDE DEF TypeInv, QueueInv, TypeOK
    <3>1. TypeOK /\ left \in SUBSET Changes  BY DEF TypeInv, TypeOK
    <3> QED BY <1>2, <3>1, NextChangeType
  <2>2. TypeOK'
    <3>1. Locks(pc, at, status)'
      <4>1. Locks(pc, at, status)  BY DEF Locks
      <4> HIDE DEF TypeInv, TypeOK, QueueInv
      <4> QED BY <1>2, <2>1, <4>1, LocksLeft
    <3> HIDE DEF QueueInv
    <3> QED BY <1>2, <2>1, <3>1 DEF Locks
  <2>3. QueueInv'
    <3> HIDE DEF TypeOK
    <3> QED BY <1>2, <2>1
  <2> QED BY <2>2, <2>3
<1>3. CASE LockChange(r)
  <2> PICK c \in First(r) \ Held :
         \/ /\ StillPending(c)
            /\ list' = [list EXCEPT ![r] = @ \ {c}]
            /\ at' = [at EXCEPT ![r] = c]
            /\ Goto(r, "read")
            /\ UNCHANGED copy
         \/ ~StillPending(c) /\ NextChange(r, list[r] \ {c})
    BY <1>3 DEF LockChange
  <2>1. /\ c \in list[r] /\ c \in Changes /\ c \in ToSet(due) /\ \A q \in Replicas : at[q] # c
        /\ c # 0 /\ c \in 0..MaxChanges
    BY Bounds DEF First, Held
  <2>2. UNCHANGED <<rowVars, cancel, urgent, histVars, faults>>  BY <1>3 DEF LockChange
  <2>3. CASE StillPending(c) /\ list' = [list EXCEPT ![r] = @ \ {c}]
             /\ at' = [at EXCEPT ![r] = c] /\ Goto(r, "read") /\ UNCHANGED copy
    <3>1. /\ list' \in [Replicas -> SUBSET Changes] /\ list'[r] \subseteq list[r]
          /\ \A q \in Replicas \ {r} : list'[q] = list[q]
      BY <2>3
    <3>2. /\ at' \in [Replicas -> 0..MaxChanges] /\ at'[r] = c
          /\ \A q \in Replicas \ {r} : at'[q] = at[q]
      BY <2>1, <2>3
    <3>3. /\ pc' \in [Replicas -> {"idle", "lock", "read", "commit"}] /\ pc'[r] = "read"
          /\ \A q \in Replicas \ {r} : pc'[q] = pc[q]
      BY <2>3 DEF Goto
    <3>4. TypeOK'
      <4> HIDE DEF QueueInv
      <4> QED BY <2>1, <2>2, <2>3, <3>1, <3>2, <3>3 DEF StillPending
    <3>5. QueueInv'
      <4> HIDE DEF TypeOK
      <4> QED BY <2>1, <2>2, <3>1, <3>2
    <3> QED BY <3>4, <3>5
  <2>4. CASE ~StillPending(c) /\ NextChange(r, list[r] \ {c})
    BY <1>2, <2>2, <2>4
  <2> QED BY <2>3, <2>4
<1>4. CASE ReadConfig(r)
  BY <1>4 DEF ReadConfig, FreshConfig, Goto
<1>5. CASE CommitChange(r)
  <2> DEFINE c == at[r]
  <2>1. /\ c \in Changes /\ c # 0 /\ status[c] = "pending" /\ Write(r, Merge(copy[r], c))
        /\ \A q \in Replicas \ {r} : at[q] # c
        /\ copy[r] \in [Fields -> 0..MaxChanges] /\ status' = [status EXCEPT ![c] = "applied"]
        /\ log' = Append(log, c) /\ NextChange(r, list[r])
    BY <1>5, Bounds DEF CommitChange
  <2>2. UNCHANGED <<due, cancel, urgent, crossed, faults>>  BY <1>5 DEF CommitChange
  <2> HIDE DEF c
  <2>3. r \in Actors  BY DEF Actors
  <2>4. config' \in [Fields -> 0..MaxChanges] /\ torn' \in BOOLEAN /\ stale' \subseteq Actors
    <3> HIDE DEF TypeInv, QueueInv, TypeOK
    <3>1. Merge(copy[r], c) \in [Fields -> 0..MaxChanges]  BY <2>1, MergeType
    <3> QED BY <2>1, <2>3, <3>1, WriteType DEF TypeInv
  <2>5. /\ list' \in [Replicas -> SUBSET Changes] /\ at' \in [Replicas -> 0..MaxChanges]
        /\ pc' \in [Replicas -> {"idle", "lock", "read", "commit"}]
        /\ copy' \in [Replicas -> [Fields -> 0..MaxChanges]]
        /\ list'[r] = list[r] /\ at'[r] = 0 /\ pc'[r] \in {"idle", "lock"}
        /\ \A q \in Replicas \ {r} : list'[q] = list[q] /\ at'[q] = at[q] /\ pc'[q] = pc[q]
    <3> HIDE DEF TypeInv, QueueInv, TypeOK
    <3>1. TypeOK /\ list[r] \in SUBSET Changes  BY DEF TypeInv, TypeOK
    <3> QED BY <2>1, <3>1, NextChangeType
  <2>6. log' \in Seq(Changes) /\ ToSet(log') = ToSet(log) \cup {c}  BY <2>1, Appended
  <2>7. TypeOK'
    <3>1. Locks(pc, at, status)'
      <4>1. Locks(pc, at, status)  BY DEF Locks
      <4>2. \A q \in Replicas \ {r} : at[q] # 0 => status'[at[q]] = status[at[q]]
        BY <2>1, Bounds
      <4> HIDE DEF TypeInv, TypeOK, QueueInv
      <4> QED BY <2>5, <4>1, <4>2, LocksLeft
    <3> HIDE DEF QueueInv
    <3> QED BY <2>1, <2>2, <2>4, <2>5, <2>6, <3>1 DEF Locks
  <2>8. QueueInv'
    <3>1. /\ \A d \in Changes \ {c} : status'[d] = status[d]
          /\ status'[c] = "applied" /\ ToSet(log) \subseteq Changes
      BY <2>1, DueChanges
    <3>2. \A k \in Cancellers : cancel[k] # 0 => cancel[k] \in Changes  BY Bounds
    <3>3. \A e \in Emergencies : urgent[e].step = "save" => urgent[e].change \in Changes \ {c}
      BY <2>1, Bounds
    <3> HIDE DEF TypeOK
    <3>4. \A d \in ToSet(log') : status'[d] \in {"applied", "cancelled", "emergency"}
      BY <2>6, <3>1
    <3>5. \A e \in Emergencies : urgent[e].step = "save" =>
            /\ urgent[e].change # 0 /\ status'[urgent[e].change] = "emergency"
            /\ urgent[e].change \notin ToSet(log')
      BY <2>6, <3>1, <3>3
    <3>6. \A k \in Cancellers :
            cancel[k] # 0 => status'[cancel[k]] \in {"pending", "applied", "cancelled"}
      BY <3>1, <3>2
    <3>7. \A q \in Replicas : list'[q] \subseteq ToSet(due) /\ (at'[q] # 0 => at'[q] \in ToSet(due))
      BY <2>5
    <3> QED BY <2>2, <3>4, <3>5, <3>6, <3>7
  <2> QED BY <2>7, <2>8
<1>6. CASE ApplyFails(r)
  <2>1. faults' \in 0..MaxFaults /\ stale' \subseteq stale
    BY <1>6, Bounds DEF ApplyFails
  <2>2. \E left \in SUBSET list[r] : NextChange(r, left)
    BY <1>6 DEF ApplyFails, SkipChange
  <2> QED BY <1>2, <1>6, <2>1, <2>2 DEF ApplyFails
<1>7. CASE ReplicaDies(r)
  <2>1. faults' \in 0..MaxFaults /\ stale' \subseteq stale
    BY <1>7, Bounds DEF ReplicaDies
  <2> QED BY <1>2, <1>7, <2>1 DEF ReplicaDies
<1> QED BY <1>1, <1>3, <1>4, <1>5, <1>6, <1>7 DEF Cron

LEMMA TypeStep == TypeInv /\ [Next]_vars => TypeInv'
<1> SUFFICES ASSUME TypeInv, [Next]_vars
             PROVE  TypeInv'
  OBVIOUS
<1>1. CASE UNCHANGED vars
  BY <1>1 DEF vars, TypeInv, TypeOK, QueueInv
<1>2. CASE Next
  BY <1>2, ProposeType, CancelType, UrgentType, CronType DEF Next
<1> QED BY <1>1, <1>2

-----------------------------------------------------------------------------
(* The log, the audit and the last writes                                  *)

\* The steps that write values.
Writes ==
  (\E r \in Replicas : CommitChange(r)) \/ (\E e \in Emergencies : SaveUrgently(e))

\* Actor a writes change c into the entity it holds.
WriteOf(a, c, entity) ==
  /\ Write(a, Merge(entity, c)) /\ log' = Append(log, c) /\ c \notin ToSet(log)
  /\ status'[c] \in {"applied", "emergency"} /\ (status'[c] = "applied" => c \in ToSet(due))
  /\ UNCHANGED <<due, crossed>>
  /\ \/ a \in Replicas /\ entity = copy[a] /\ pc[a] = "commit" /\ pc'[a] # "commit"
        /\ UNCHANGED urgent
        /\ \A q \in Replicas \ {a} : pc'[q] = pc[q] /\ copy'[q] = copy[q]
     \/ a \in Emergencies /\ entity = urgent[a].entity /\ urgent[a].step = "save"
        /\ urgent'[a].step = "idle" /\ UNCHANGED <<pc, copy>>
        /\ \A e \in Emergencies \ {a} : urgent'[e] = urgent[e]

LEMMA Written ==
  ASSUME TypeInv, Writes
  PROVE  \E a \in Actors, c \in Changes, entity \in [Fields -> 0..MaxChanges] : WriteOf(a, c, entity)
<1>1. ASSUME NEW r \in Replicas, CommitChange(r)
      PROVE  /\ at[r] \in Changes /\ r \in Actors /\ copy[r] \in [Fields -> 0..MaxChanges]
             /\ Write(r, Merge(copy[r], at[r])) /\ log' = Append(log, at[r])
             /\ at[r] \notin ToSet(log) /\ status'[at[r]] = "applied" /\ at[r] \in ToSet(due)
             /\ pc[r] = "commit" /\ pc'[r] # "commit" /\ UNCHANGED <<due, crossed, urgent>>
             /\ \A q \in Replicas \ {r} : pc'[q] = pc[q] /\ copy'[q] = copy[q]
  <2>1. /\ pc[r] = "commit" /\ at[r] \in Changes /\ status[at[r]] = "pending"
        /\ copy[r] \in [Fields -> 0..MaxChanges] /\ list[r] \in SUBSET Changes
    BY <1>1, Bounds DEF CommitChange, TypeInv, TypeOK
  <2>2. at[r] \notin ToSet(log) /\ at[r] \in ToSet(due)
    BY <2>1, Bounds DEF TypeInv, QueueInv
  <2>3. status'[at[r]] = "applied"  BY <1>1, <2>1 DEF CommitChange, TypeInv, TypeOK
  <2>4. TypeOK /\ NextChange(r, list[r])  BY <1>1 DEF CommitChange, TypeInv
  <2>5. pc'[r] # "commit" /\ \A q \in Replicas \ {r} : pc'[q] = pc[q] /\ copy'[q] = copy[q]
    BY <2>1, <2>4, NextChangeType
  <2> QED BY <1>1, <2>1, <2>2, <2>3, <2>5 DEF CommitChange, Actors
<1>2. ASSUME NEW e \in Emergencies, SaveUrgently(e)
      PROVE  LET c == urgent[e].change IN
             /\ c \in Changes /\ e \in Actors /\ urgent[e].entity \in [Fields -> 0..MaxChanges]
             /\ Write(e, Merge(urgent[e].entity, c)) /\ log' = Append(log, c)
             /\ c \notin ToSet(log) /\ status'[c] = "emergency"
             /\ urgent[e].step = "save" /\ urgent'[e].step = "idle"
             /\ UNCHANGED <<due, crossed, pc, copy>>
             /\ \A d \in Emergencies \ {e} : urgent'[d] = urgent[d]
  <2>1. /\ urgent[e].step = "save" /\ urgent[e].change \in Changes
        /\ status[urgent[e].change] = "emergency" /\ urgent[e].change \notin ToSet(log)
        /\ urgent[e].entity \in [Fields -> 0..MaxChanges]
    BY <1>2, Bounds DEF SaveUrgently, TypeInv, TypeOK, QueueInv
  <2>2. urgent'[e].step = "idle" /\ \A d \in Emergencies \ {e} : urgent'[d] = urgent[d]
    BY <1>2 DEF SaveUrgently, TypeInv, TypeOK, Idle
  <2> QED BY <1>2, <2>1, <2>2 DEF SaveUrgently, Actors
<1>3. ASSUME NEW r \in Replicas, CommitChange(r)
      PROVE  WriteOf(r, at[r], copy[r])
  BY <1>1, <1>3 DEF WriteOf
<1>4. ASSUME NEW e \in Emergencies, SaveUrgently(e)
      PROVE  WriteOf(e, urgent[e].change, urgent[e].entity)
  BY <1>2, <1>4 DEF WriteOf
<1> QED BY <1>1, <1>2, <1>3, <1>4 DEF Writes

\* What the other steps leave: the values, and entities that are as fresh as before
\* or were read from the configuration.
ReplicaFresh(r) ==
  pc'[r] = "commit" /\ r \notin stale' =>
    copy'[r] = config \/ (pc[r] = "commit" /\ r \notin stale /\ copy'[r] = copy[r])
EmergencyFresh(e) ==
  urgent'[e].step # "idle" /\ e \notin stale' =>
    \/ urgent'[e].entity = config
    \/ urgent[e].step # "idle" /\ e \notin stale /\ urgent'[e].entity = urgent[e].entity
KeepsFresh ==
  /\ UNCHANGED <<config, log, torn>>
  /\ \A r \in Replicas : ReplicaFresh(r)
  /\ \A e \in Emergencies : EmergencyFresh(e)

LEMMA Quiet ==
  ASSUME TypeInv, [Next]_vars, ~Writes
  PROVE  KeepsFresh
<1> USE DEF KeepsFresh, ReplicaFresh, EmergencyFresh
<1>1. CASE UNCHANGED <<config, pc, copy, urgent, log, stale, torn>>
  BY <1>1
<1>2. ASSUME NEW c \in Changes, Propose(c) \/ FallDue(c)
      PROVE  KeepsFresh
  BY <1>1, <1>2 DEF Propose, FallDue
<1>3. ASSUME NEW k \in Cancellers,
             (\E c \in Changes : LoadToCancel(k, c)) \/ SaveCancelled(k) \/ CancelFails(k)
      PROVE  KeepsFresh
  BY <1>1, <1>3 DEF LoadToCancel, SaveCancelled, CancelFails
\* Only the entity of e changes.
<1>4. ASSUME NEW e \in Emergencies, EmergencyFresh(e),
             UNCHANGED <<config, pc, copy, log, torn>>, stale' = stale \/ stale' = stale \ {e},
             \A d \in Emergencies \ {e} : urgent'[d] = urgent[d]
      PROVE  KeepsFresh
  BY <1>4, Bounds
<1>5. ASSUME NEW e \in Emergencies,
             ReadUrgently(e) \/ EmergencyFails(e) \/ \E c \in Changes : RecordEmergency(e, c)
      PROVE  KeepsFresh
  <2>1. CASE ReadUrgently(e)
    BY <1>4, <2>1 DEF ReadUrgently, TypeInv, TypeOK
  <2>2. CASE EmergencyFails(e)
    BY <1>4, <2>2 DEF EmergencyFails, TypeInv, TypeOK, Idle
  <2>3. ASSUME NEW c \in Changes, RecordEmergency(e, c)
        PROVE  KeepsFresh
    <3> DEFINE u == [urgent[e] EXCEPT !.step = "save", !.change = c]
    <3>1. /\ urgent' = [urgent EXCEPT ![e] = u] /\ urgent[e].step = "record"
          /\ UNCHANGED <<config, pc, copy, log, torn, stale>>
      BY <2>3 DEF RecordEmergency
    <3>2. u.entity = urgent[e].entity  BY DEF TypeInv, TypeOK
    <3> HIDE DEF u
    <3>3. urgent'[e] = u /\ \A d \in Emergencies \ {e} : urgent'[d] = urgent[d]
      BY <3>1 DEF TypeInv, TypeOK
    <3> QED BY <1>4, <3>1, <3>2, <3>3
  <2> QED BY <1>5, <2>1, <2>2, <2>3
<1>6. ASSUME NEW r \in Replicas, ReplicaFresh(r),
             UNCHANGED <<config, urgent, log, torn>>, stale' = stale \/ stale' = stale \ {r},
             \A q \in Replicas \ {r} : pc'[q] = pc[q] /\ copy'[q] = copy[q]
      PROVE  KeepsFresh
  BY <1>6, Bounds
<1>7. ASSUME NEW r \in Replicas,
             FindDue(r) \/ LockChange(r) \/ ReadConfig(r) \/ ApplyFails(r) \/ ReplicaDies(r)
      PROVE  KeepsFresh
  <2> USE DEF NextChange, Goto, TypeInv, TypeOK
  <2>1. CASE FindDue(r)  BY <1>6, <2>1 DEF FindDue
  <2>2. CASE LockChange(r)  BY <1>6, <2>2 DEF LockChange
  <2>3. CASE ReadConfig(r)  BY <1>6, <2>3 DEF ReadConfig, FreshConfig
  <2>4. CASE ApplyFails(r)  BY <1>6, <2>4 DEF ApplyFails, SkipChange
  <2>5. CASE ReplicaDies(r)  BY <1>6, <2>5 DEF ReplicaDies
  <2> QED BY <1>7, <2>1, <2>2, <2>3, <2>4, <2>5
<1>8. CASE UNCHANGED vars  BY <1>1, <1>8 DEF vars
<1> HIDE DEF KeepsFresh
<1> QED BY <1>2, <1>3, <1>5, <1>7, <1>8 DEF Next, Cron, Writes

\* What is audited stays so: an applied change is only ever crossed.
LEMMA AuditStays ==
  ASSUME TypeInv, [Next]_vars, NEW c \in 0..MaxChanges, Audited(c)
  PROVE  Audited(c)'
<1> SUFFICES ASSUME c \in Changes
             PROVE  /\ status[c] = "emergency" => status'[c] = "emergency"
                    /\ status[c] = "applied" \/ c \in crossed => status'[c] = "applied" \/ c \in crossed'
                    /\ c \in ToSet(due) => c \in ToSet(due')
  BY Bounds DEF Audited
<1> USE DEF TypeInv, TypeOK
<1>1. ASSUME NEW d \in Changes, Propose(d)
      PROVE  /\ status[c] \in {"emergency", "applied"} => status'[c] = status[c]
             /\ UNCHANGED <<due, crossed>>
  BY <1>1 DEF Propose, Unused
<1>2. ASSUME NEW d \in Changes, FallDue(d)
      PROVE  ToSet(due) \subseteq ToSet(due') /\ UNCHANGED <<status, crossed>>
  BY <1>2, Appended DEF FallDue
<1>3. ASSUME NEW k \in Cancellers, SaveCancelled(k)
      PROVE  /\ status[c] = "emergency" => status'[c] = "emergency"
             /\ status[c] = "applied" \/ c \in crossed => status'[c] = "applied" \/ c \in crossed'
             /\ due' = due
  <2> DEFINE d == cancel[k]
  <2>1. /\ d \in Changes /\ status[d] # "emergency"
        /\ status' = [status EXCEPT ![d] = "cancelled"] /\ due' = due
        /\ crossed' = IF status[d] = "applied" THEN crossed \cup {d} ELSE crossed
    BY <1>3, Bounds DEF SaveCancelled, QueueInv
  <2> HIDE DEF d
  <2>2. CASE c = d  BY <2>1, <2>2
  <2>3. CASE c # d  BY <2>1, <2>3
  <2> QED BY <2>2, <2>3
<1>4. ASSUME NEW e \in Emergencies, NEW d \in Changes, RecordEmergency(e, d)
      PROVE  /\ status[c] \in {"emergency", "applied"} => status'[c] = status[c]
             /\ UNCHANGED <<due, crossed>>
  BY <1>4 DEF RecordEmergency, Unused
<1>5. ASSUME NEW r \in Replicas, CommitChange(r)
      PROVE  /\ status[c] \in {"emergency", "applied"} => status'[c] = status[c]
             /\ UNCHANGED <<due, crossed>>
  BY <1>5, Bounds DEF CommitChange
<1>6. ASSUME NEW k \in Cancellers, (\E d \in Changes : LoadToCancel(k, d)) \/ CancelFails(k)
      PROVE  UNCHANGED <<status, due, crossed>>
  BY <1>6 DEF LoadToCancel, CancelFails
<1>7. ASSUME NEW e \in Emergencies, ReadUrgently(e) \/ SaveUrgently(e) \/ EmergencyFails(e)
      PROVE  UNCHANGED <<status, due, crossed>>
  BY <1>7 DEF ReadUrgently, SaveUrgently, EmergencyFails
<1>8. ASSUME NEW r \in Replicas,
             FindDue(r) \/ LockChange(r) \/ ReadConfig(r) \/ ApplyFails(r) \/ ReplicaDies(r)
      PROVE  UNCHANGED <<status, due, crossed>>
  BY <1>8 DEF FindDue, LockChange, ReadConfig, ApplyFails, ReplicaDies
<1>9. CASE UNCHANGED vars  BY <1>9 DEF vars
<1> HIDE DEF TypeInv, TypeOK
<1> QED BY <1>1, <1>2, <1>3, <1>4, <1>5, <1>6, <1>7, <1>8, <1>9 DEF Next, Cron

LEMMA OnceStep == TypeInv /\ AppliedOnce /\ [Next]_vars => AppliedOnce'
<1> SUFFICES ASSUME TypeInv, AppliedOnce, [Next]_vars
             PROVE  AppliedOnce'
  OBVIOUS
<1>1. CASE ~Writes  BY <1>1, Quiet DEF KeepsFresh, AppliedOnce
<1>2. CASE Writes
  <2>1. PICK c \in Changes : log' = Append(log, c) /\ c \notin ToSet(log)
    BY <1>2, Written DEF WriteOf
  <2>2. log \in Seq(Changes) /\ DOMAIN log = 1..Len(log)  BY DEF TypeInv, TypeOK
  <2>3. /\ Len(log) \in Nat /\ Len(log') = Len(log) + 1 /\ log'[Len(log) + 1] = c
        /\ \A n \in 1..Len(log) : log'[n] = log[n] /\ log[n] # c
    BY <2>1, <2>2, Appended DEF ToSet
  <2> QED BY <2>3 DEF AppliedOnce
<1> QED BY <1>1, <1>2

\* An entity is empty, or as it was, or the configuration.
LEMMA Entities ==
  ASSUME TypeInv, [Next]_vars
  PROVE  /\ \A r \in Replicas : copy'[r] \in {copy[r], NoConfig, config}
         /\ \A e \in Emergencies : urgent'[e].entity \in {urgent[e].entity, NoConfig, config}
<1> USE DEF TypeInv, TypeOK
<1>1. ASSUME NEW r \in Replicas, Cron(r) \/ ReplicaDies(r)
      PROVE  urgent' = urgent /\ \A q \in Replicas : copy'[q] \in {copy[q], NoConfig, config}
  BY <1>1 DEF Cron, FindDue, LockChange, ReadConfig, FreshConfig, CommitChange, ApplyFails,
              SkipChange, ReplicaDies, NextChange
<1>2. ASSUME NEW e \in Emergencies,
             \/ ReadUrgently(e) \/ SaveUrgently(e) \/ EmergencyFails(e)
             \/ \E c \in Changes : RecordEmergency(e, c)
      PROVE  /\ copy' = copy
             /\ \A d \in Emergencies : urgent'[d].entity \in {urgent[d].entity, NoConfig, config}
  <2>1. CASE ReadUrgently(e)  BY <2>1 DEF ReadUrgently
  <2>2. CASE SaveUrgently(e) \/ EmergencyFails(e)
    <3>1. urgent' = [urgent EXCEPT ![e] = Idle] /\ copy' = copy
      BY <2>2 DEF SaveUrgently, EmergencyFails
    <3>2. Idle.entity = NoConfig  BY DEF Idle
    <3> QED BY <3>1, <3>2
  <2>3. ASSUME NEW c \in Changes, RecordEmergency(e, c)
        PROVE  /\ copy' = copy
               /\ \A d \in Emergencies : urgent'[d].entity = urgent[d].entity
    BY <2>3 DEF RecordEmergency
  <2> QED BY <1>2, <2>1, <2>2, <2>3
<1>3. ASSUME NEW k \in Cancellers,
             (\E c \in Changes : LoadToCancel(k, c)) \/ SaveCancelled(k) \/ CancelFails(k)
      PROVE  UNCHANGED <<copy, urgent>>
  BY <1>3 DEF LoadToCancel, SaveCancelled, CancelFails
<1>4. ASSUME NEW c \in Changes, Propose(c) \/ FallDue(c)
      PROVE  UNCHANGED <<copy, urgent>>
  BY <1>4 DEF Propose, FallDue
<1>5. CASE UNCHANGED vars  BY <1>5 DEF vars
<1> HIDE DEF TypeInv, TypeOK
<1> QED BY <1>1, <1>2, <1>3, <1>4, <1>5 DEF Next

LEMMA AuditStep == TypeInv /\ AuditInv /\ [Next]_vars => AuditInv'
<1> SUFFICES ASSUME TypeInv, AuditInv, [Next]_vars, NEW f \in Fields
             PROVE  /\ Audited(config[f])'
                    /\ \A r \in Replicas : Audited(copy[r][f])'
                    /\ \A e \in Emergencies : Audited(urgent[e].entity[f])'
  BY DEF AuditInv
<1>1. \A c \in 0..MaxChanges : Audited(c) => Audited(c)'  BY AuditStays
<1>2. \A v : v \in 0..MaxChanges /\ Audited(v) =>
         \/ v = 0
         \/ status'[v] = "emergency"
         \/ (status'[v] = "applied" \/ v \in crossed') /\ v \in ToSet(due')
  BY <1>1 DEF Audited
<1>3. /\ config[f] \in 0..MaxChanges /\ \A r \in Replicas : copy[r][f] \in 0..MaxChanges
      /\ \A e \in Emergencies : urgent[e].entity[f] \in 0..MaxChanges
  BY DEF TypeInv, TypeOK
<1>4. /\ Audited(config[f]) /\ \A r \in Replicas : Audited(copy[r][f])
      /\ \A e \in Emergencies : Audited(urgent[e].entity[f])
  BY DEF AuditInv
<1>5. \A r \in Replicas : Audited(copy[r][f])'
  <2> SUFFICES ASSUME NEW r \in Replicas
               PROVE  Audited(copy[r][f])'
    OBVIOUS
  <2>1. copy'[r] \in {copy[r], NoConfig, config}  BY Entities
  <2> QED BY <1>2, <1>3, <1>4, <2>1, NoConfigType DEF Audited
<1>6. \A e \in Emergencies : Audited(urgent[e].entity[f])'
  <2> SUFFICES ASSUME NEW e \in Emergencies
               PROVE  Audited(urgent[e].entity[f])'
    OBVIOUS
  <2>1. urgent'[e].entity \in {urgent[e].entity, NoConfig, config}  BY Entities
  <2> QED BY <1>2, <1>3, <1>4, <2>1, NoConfigType DEF Audited
<1>7. Audited(config[f])'
  <2>1. CASE ~Writes  BY <1>2, <1>3, <1>4, <2>1, Quiet DEF KeepsFresh, Audited
  <2>2. CASE Writes
    <3>1. PICK a \in Actors, c \in Changes, entity \in [Fields -> 0..MaxChanges] :
                 WriteOf(a, c, entity)
      BY <2>2, Written
    <3>2. config' = Merge(entity, c)  BY <3>1 DEF WriteOf, Write
    <3>3. config'[f] = IF f \in FieldsOf[c] THEN c ELSE entity[f]  BY <3>2, MergeType
    <3>4. Audited(entity[f]) /\ entity[f] \in 0..MaxChanges  BY <1>3, <1>4, <3>1 DEF WriteOf
    <3>5. status'[c] \in {"applied", "emergency"} /\ (status'[c] = "applied" => c \in ToSet(due'))
      BY <3>1 DEF WriteOf
    <3> QED BY <1>2, <3>3, <3>4, <3>5 DEF Audited
  <2> QED BY <2>1, <2>2
<1> QED BY <1>5, <1>6, <1>7

LEMMA FreshStep == TypeInv /\ FreshInv /\ [Next]_vars => FreshInv'
<1> SUFFICES ASSUME TypeInv, FreshInv, [Next]_vars
             PROVE  FreshInv'
  OBVIOUS
<1>1. CASE ~Writes  BY <1>1, Quiet DEF KeepsFresh, ReplicaFresh, EmergencyFresh, FreshInv
<1>2. CASE Writes
  <2>1. PICK a \in Actors, c \in Changes, entity \in [Fields -> 0..MaxChanges] :
               WriteOf(a, c, entity)
    BY <1>2, Written
  <2>2. \A b \in Actors \ {a} : b \notin stale' => ~Reading(b)
    BY <2>1, MergeType, WriteType DEF WriteOf, TypeInv
  <2>3. \A r \in Replicas \ {a} : r \notin stale' => pc[r] # "commit"
    BY <2>2 DEF Reading, Actors
  <2>4. \A e \in Emergencies \ {a} : e \notin stale' => urgent[e].step = "idle"
    BY <2>2, Bounds DEF Reading, Actors
  <2> QED BY <2>1, <2>3, <2>4, Bounds DEF WriteOf, FreshInv
<1> QED BY <1>1, <1>2

\* A write that is not torn adds its change to the configuration as it is.
LEMMA LostStep == TypeInv /\ FreshInv /\ NoUpdateLostAlone /\ [Next]_vars => NoUpdateLostAlone'
<1> SUFFICES ASSUME TypeInv, FreshInv, NoUpdateLostAlone, [Next]_vars, ~torn'
             PROVE  \A n \in 1..Len(log') : \A f \in FieldsOf[log'[n]] :
                      (\A m \in n + 1..Len(log') : f \notin FieldsOf[log'[m]]) => config'[f] = log'[n]
  BY DEF NoUpdateLostAlone
<1>1. CASE ~Writes
  <2>1. UNCHANGED <<config, log>> /\ ~torn  BY <1>1, Quiet DEF KeepsFresh
  <2> QED BY <2>1 DEF NoUpdateLostAlone
<1>2. CASE Writes
  <2>1. PICK a \in Actors, c \in Changes, entity \in [Fields -> 0..MaxChanges] :
               WriteOf(a, c, entity)
    BY <1>2, Written
  <2>2. config' = Merge(entity, c) /\ ~torn /\ a \notin stale
    BY <2>1, MergeType, WriteType DEF WriteOf, TypeInv
  <2>3. entity = config  BY <2>1, <2>2 DEF WriteOf, FreshInv
  <2>4. log \in Seq(Changes)  BY DEF TypeInv, TypeOK
  <2>5. /\ Len(log) \in Nat /\ Len(log') = Len(log) + 1 /\ log'[Len(log) + 1] = c
        /\ \A n \in 1..Len(log) : log'[n] = log[n] /\ log[n] \in Changes
    BY <2>1, <2>4, Appended DEF WriteOf
  <2>6. \A d \in Changes : FieldsOf[d] \subseteq Fields  BY ConfigConstants
  <2>7. \A f \in Fields : config'[f] = IF f \in FieldsOf[c] THEN c ELSE config[f]
    BY <2>2, <2>3, MergeType
  <2> TAKE n \in 1..Len(log')
  <2> TAKE f \in FieldsOf[log'[n]]
  <2>8. CASE n = Len(log) + 1  BY <2>5, <2>6, <2>7, <2>8
  <2>9. CASE n \in 1..Len(log)
    <3> HAVE \A m \in n + 1..Len(log') : f \notin FieldsOf[log'[m]]
    <3>1. f \in Fields /\ f \in FieldsOf[log[n]]  BY <2>5, <2>6, <2>9
    <3>2. f \notin FieldsOf[c]  BY <2>5, <2>9
    <3>3. \A m \in n + 1..Len(log) : f \notin FieldsOf[log[m]]  BY <2>5, <2>9
    <3>4. config[f] = log[n]  BY <2>2, <2>9, <3>1, <3>3 DEF NoUpdateLostAlone
    <3> QED BY <2>5, <2>7, <2>9, <3>1, <3>2, <3>4
  <2> QED BY <2>5, <2>8, <2>9
<1> QED BY <1>1, <1>2

-----------------------------------------------------------------------------
(* Theorems                                                                *)

\* The inductive invariant holds in every state of the specification: row locks and
\* queues, what entities hold, and who may be stale.
THEOREM Invariance == Spec => []IInv
<1>1. IInv /\ [Next]_vars => IInv'
  BY TypeStep, OnceStep, AuditStep, FreshStep, LostStep DEF IInv
<1> QED BY InitInv, <1>1, PTL DEF Spec

\* However many replicas run applyDueConfigChanges, and whatever fails, a change is
\* written at most once, and a locked row is pending and has one holder.
THEOREM ChangesAppliedOnce == Spec => []ChangesConsistent
<1>1. IInv => ChangesConsistent  BY DEF IInv, TypeInv, ChangesConsistent
<1> QED BY Invariance, <1>1, PTL

\* A live value of governance_config goes back to an applied or an emergency row
\* (applySingleChange, emergencyConfigUpdate), never to a pending one.
THEOREM ValuesAreAudited == Spec => []LiveValuesAreAudited
<1>1. IInv => LiveValuesAreAudited
  BY DEF IInv, AuditInv, Audited, LiveValuesAreAudited
<1> QED BY Invariance, <1>1, PTL

\* Only the save of a configuration that was read before another write loses an
\* update (applySingleChange against emergencyConfigUpdate or another replica).
THEOREM NoUpdateIsLost == Spec => []NoUpdateLostAlone
<1>1. IInv => NoUpdateLostAlone  BY DEF IInv
<1> QED BY Invariance, <1>1, PTL
=============================================================================
