------------------------ MODULE OracleSubmissions_proofs ------------------------
(* Theorems about OracleSubmissions, for every value of its constants. *)
EXTENDS OracleSubmissions, TLAPS

USE DEF rowVars, chainVars, workVars, recVars, idxVars, faultVars

LEMMA InitType == Init => TypeOK
BY SubmissionConstants DEF Init, TypeOK, NoRow, NoJob, RowType, Rows, Jobs, Subs,
                           Status, Hashes, Saving

\* What a save of an entity of an existing row does to the table.
RowsKept ==
  /\ project' \in [Subs -> Projects \cup {NoProject}]
  /\ row' \in [Subs -> RowType]
  /\ Rows' = Rows
  /\ \A n \in Subs : row'[n].sub = n /\ (n \in Rows <=> project'[n] \in Projects)

LEMMA SaveKeeps ==
  ASSUME TypeOK, NEW e \in RowType, e.sub \in Rows, e.status # "absent", Save(e)
  PROVE  RowsKept
<1>1. e.sub \in Subs /\ row' = [row EXCEPT ![e.sub] = e] /\ project' = project
  BY DEF Save, Rows
<1>2. row' \in [Subs -> RowType]  BY <1>1 DEF TypeOK
<1>3. \A n \in Subs : row'[n] = IF n = e.sub THEN e ELSE row[n]
  BY <1>1 DEF TypeOK
<1>4. Rows' = Rows  BY <1>3 DEF Rows
<1>5. \A n \in Subs : row'[n].sub = n  BY <1>3 DEF TypeOK
<1> QED BY <1>1, <1>2, <1>4, <1>5 DEF TypeOK, RowsKept

\* A job that is added names an existing row.
LEMMA AddType ==
  ASSUME TypeOK, NEW n \in Rows, AddJob(n)
  PROVE  /\ waiting' \in [Jobs -> Nat]
         /\ \A j \in Jobs : waiting'[j] > 0 => j.sub \in Rows
<1> DEFINE k == [sub |-> n, left |-> Attempts, stalled |-> FALSE]
<1>1. k \in Jobs  BY SubmissionConstants DEF Jobs, Rows
<1>2. waiting' = [waiting EXCEPT ![k] = @ + 1]  BY DEF AddJob
<1>3. waiting[k] + 1 \in Nat  BY <1>1 DEF TypeOK
<1>4. \A j \in Jobs : waiting'[j] = IF j = k THEN waiting[k] + 1 ELSE waiting[j]
  BY <1>1, <1>2 DEF TypeOK
<1>5. waiting' \in [Jobs -> Nat]  BY <1>2, <1>3 DEF TypeOK
<1> HIDE DEF k
<1>6. k.sub = n  BY DEF k
<1> QED BY <1>4, <1>5, <1>6 DEF TypeOK

\* The types of a worker's locals.
WorkType ==
  /\ pc \in [Workers -> Saving \cup {"idle", "read", "check", "send", "poll", "credit"}]
  /\ job \in [Workers -> Jobs \cup {NoJob}]
  /\ held \in [Workers -> RowType]
  /\ seen \in [Workers -> Nat]
  /\ \A w \in Workers : pc[w] # "idle" =>
       /\ job[w] \in Jobs /\ held[w].sub = job[w].sub /\ job[w].sub \in Rows
       /\ held[w].status \notin {"absent", "confirmed"}

LEMMA NoRowType == NoRow(0) \in RowType
BY SubmissionConstants DEF NoRow, RowType, Status, Hashes

LEMMA EndJobType ==
  ASSUME TypeOK, Rows' = Rows, NEW w \in Workers, EndJob(w)
  PROVE  WorkType'
<1>1. NoRow(0) \in RowType  BY NoRowType
<1> QED BY <1>1 DEF TypeOK, EndJob, WorkType

LEMMA RetryType ==
  ASSUME TypeOK, Rows' = Rows, NEW w \in Workers, pc[w] # "idle", Retry(w)
  PROVE  /\ waiting' \in [Jobs -> Nat] /\ WorkType'
         /\ \A j \in Jobs : waiting'[j] > 0 => j.sub \in Rows
<1>1. WorkType'  BY EndJobType DEF Retry
<1> DEFINE k == [job[w] EXCEPT !.left = @ - 1]
<1>2. waiting' = [j \in Jobs |-> IF j = k THEN waiting[j] + 1 ELSE waiting[j]]
  BY DEF Retry
<1>3. k.sub \in Rows
  <2>1. job[w] \in Jobs /\ job[w].sub \in Rows  BY DEF TypeOK
  <2> QED BY <2>1 DEF Jobs
<1> HIDE DEF k
<1>4. waiting' \in [Jobs -> Nat]  BY <1>2 DEF TypeOK
<1>5. \A j \in Jobs : waiting'[j] > 0 => j.sub \in Rows
  BY <1>2, <1>3 DEF TypeOK
<1> QED BY <1>1, <1>4, <1>5

LEMMA TriggerType ==
  ASSUME TypeOK, NEW n \in Subs, NEW p \in Projects, TriggerSubmission(n, p)
  PROVE  TypeOK'
<1>1. PICK k \in TopNonce :
        row' = [row EXCEPT ![n] = [NoRow(n) EXCEPT !.status = "pending", !.nonce = k + 1]]
  BY DEF TriggerSubmission
<1> DEFINE e == [NoRow(n) EXCEPT !.status = "pending", !.nonce = k + 1]
<1>2. n \notin Rows /\ project' = [project EXCEPT ![n] = p] /\ unqueued' = unqueued \cup {n}
  BY DEF TriggerSubmission
<1>3. k \in Nat  BY DEF TopNonce, Nonces, Rows, TypeOK, RowType
<1>4. e \in RowType /\ e.sub = n /\ e.status = "pending"
  <2> DEFINE r == NoRow(n)
  <2>1. n \in 0..MaxSubs /\ k + 1 \in Nat  BY <1>3, SubmissionConstants DEF Subs
  <2>2. r \in RowType /\ r.sub = n
    BY <2>1 DEF NoRow, RowType, Status, Hashes
  <2> HIDE DEF r
  <2>3. /\ [r EXCEPT !.status = "pending", !.nonce = k + 1] \in RowType
        /\ [r EXCEPT !.status = "pending", !.nonce = k + 1].sub = n
        /\ [r EXCEPT !.status = "pending", !.nonce = k + 1].status = "pending"
    BY <2>1, <2>2 DEF RowType, Status
  <2> QED BY <2>3 DEF r
<1> HIDE DEF e
<1>5. \A m \in Subs : row'[m] = IF m = n THEN e ELSE row[m]
  BY <1>1 DEF TypeOK, e
<1>6. row' \in [Subs -> RowType]  BY <1>1, <1>4 DEF TypeOK, e
<1>7. Rows' = Rows \cup {n}  BY <1>4, <1>5 DEF Rows
<1>8. /\ \A m \in Subs : row'[m].sub = m /\ (m \in Rows' <=> project'[m] \in Projects)
      /\ project' \in [Subs -> Projects \cup {NoProject}]
  BY <1>2, <1>4, <1>5, <1>7 DEF TypeOK
<1>9. UNCHANGED <<waiting, credited, chainVars, workVars, recVars, idxVars, faultVars>>
  BY DEF TriggerSubmission
<1> QED BY <1>2, <1>6, <1>7, <1>8, <1>9 DEF TypeOK

LEMMA EnqueueType ==
  ASSUME TypeOK, NEW n \in Subs, Enqueue(n) \/ EnqueueFails(n) PROVE TypeOK'
<1>1. CASE Enqueue(n)
  <2>1. n \in Rows  BY <1>1 DEF Enqueue, TypeOK
  <2>2. Rows' = Rows  BY <1>1 DEF Enqueue, Rows
  <2>3. AddJob(n)  BY <1>1 DEF Enqueue
  <2> QED BY <1>1, <2>1, <2>2, <2>3, AddType DEF Enqueue, TypeOK
<1>2. CASE EnqueueFails(n)
  <2>1. Rows' = Rows  BY <1>2 DEF EnqueueFails, Rows
  <2> QED BY <1>2, <2>1, SubmissionConstants DEF EnqueueFails, TypeOK
<1> QED BY <1>1, <1>2

LEMMA TakeJobType ==
  ASSUME TypeOK, NEW w \in Workers, TakeJob(w)  PROVE TypeOK'
<1>1. PICK j \in Jobs :
        /\ waiting[j] > 0
        /\ waiting' = [waiting EXCEPT ![j] = @ - 1]
        /\ \/ row[j.sub].status = "confirmed" /\ UNCHANGED workVars
           \/ /\ row[j.sub].status # "confirmed"
              /\ job' = [job EXCEPT ![w] = j]
              /\ held' = [held EXCEPT ![w] = row[j.sub]]
              /\ pc' = [pc EXCEPT ![w] = "read"]
              /\ UNCHANGED seen
  BY DEF TakeJob
<1>2. j.sub \in Rows /\ j.sub \in Subs /\ row[j.sub].sub = j.sub
      /\ row[j.sub].status # "absent" /\ row[j.sub] \in RowType
  BY <1>1 DEF TypeOK, Rows
<1>3. Rows' = Rows  BY DEF TakeJob, Rows
<1>4. waiting[j] - 1 \in Nat  BY <1>1 DEF TypeOK
<1>5. waiting' \in [Jobs -> Nat] /\ \A i \in Jobs : waiting'[i] > 0 => waiting[i] > 0
  BY <1>1, <1>4 DEF TypeOK
<1>6. WorkType'
  <2>1. CASE UNCHANGED workVars  BY <2>1, <1>3 DEF TypeOK, WorkType
  <2>2. CASE /\ row[j.sub].status # "confirmed"
             /\ job' = [job EXCEPT ![w] = j]
             /\ held' = [held EXCEPT ![w] = row[j.sub]]
             /\ pc' = [pc EXCEPT ![w] = "read"]
             /\ UNCHANGED seen
    BY <2>2, <1>2, <1>3 DEF TypeOK, WorkType
  <2> QED BY <1>1, <2>1, <2>2
<1> QED BY <1>3, <1>5, <1>6 DEF TakeJob, TypeOK, WorkType

LEMMA ReadChainNonceType ==
  ASSUME TypeOK, NEW w \in Workers, ReadChainNonce(w)  PROVE TypeOK'
<1>1. Rows' = Rows  BY DEF ReadChainNonce, Rows
<1>2. held[w] \in RowType /\ chainNonce \in Nat  BY DEF TypeOK
<1>3. AfterRead(held[w].nonce, chainNonce) \in {"mark", "confirm", "stale", "check"}
  BY <1>2 DEF AfterRead, RowType
<1>4. ReconciledHash(held[w]) \in Hashes
  BY <1>2 DEF ReconciledHash, Hashes, RowType
<1>5. /\ pc' \in [Workers -> Saving \cup {"idle", "read", "check", "send", "poll", "credit"}]
      /\ pc' = [pc EXCEPT ![w] = pc'[w]]
  BY <1>3 DEF ReadChainNonce, TypeOK, Saving
<1>6. seen' \in [Workers -> Nat]  BY <1>2 DEF ReadChainNonce, TypeOK
<1> DEFINE h == IF held[w].nonce = chainNonce THEN ReconciledHash(held[w]) ELSE held[w].hash
           e == [held[w] EXCEPT !.hash = h]
<1>7. held' = [held EXCEPT ![w] = e]  BY DEF ReadChainNonce, TypeOK
<1>8. e \in RowType /\ e.sub = held[w].sub /\ e.status = held[w].status
  BY <1>2, <1>4 DEF RowType
<1> HIDE DEF e
<1>9. held' \in [Workers -> RowType]  BY <1>7, <1>8 DEF TypeOK
<1>10. WorkType'
  BY <1>1, <1>5, <1>6, <1>7, <1>8, <1>9 DEF ReadChainNonce, TypeOK, WorkType
<1> QED BY <1>1, <1>10 DEF ReadChainNonce, TypeOK, WorkType

\* A worker whose entity changes, but not the row it is an entity of.
LEMMA MoveType ==
  ASSUME TypeOK, Rows' = Rows, NEW w \in Workers, pc[w] # "idle",
         NEW s \in Saving \cup {"read", "check", "send", "poll", "credit"},
         NEW e \in RowType, e.sub = held[w].sub, e.status = held[w].status,
         pc' = [pc EXCEPT ![w] = s], held' = [held EXCEPT ![w] = e],
         job' = job, seen' \in [Workers -> Nat]
  PROVE  WorkType'
BY DEF TypeOK, WorkType

LEMMA StayType ==
  ASSUME TypeOK, Rows' = Rows, NEW w \in Workers, pc[w] # "idle",
         NEW s \in Saving \cup {"read", "check", "send", "poll", "credit"},
         pc' = [pc EXCEPT ![w] = s], UNCHANGED <<job, held, seen>>
  PROVE  WorkType'
BY DEF TypeOK, WorkType

LEMMA HeldType ==
  ASSUME TypeOK, NEW w \in Workers, pc[w] # "idle", NEW s \in Status \ {"absent"},
         Save([held[w] EXCEPT !.status = s])
  PROVE  RowsKept
<1> DEFINE e == [held[w] EXCEPT !.status = s]
<1>1. held[w] \in RowType /\ held[w].sub \in Rows  BY DEF TypeOK
<1>2. e \in RowType /\ e.sub \in Rows /\ e.status # "absent"  BY <1>1 DEF RowType
<1> HIDE DEF e
<1>3. Save(e)  BY DEF e
<1> QED BY <1>2, <1>3, SaveKeeps

LEMMA CheckNewerType ==
  ASSUME TypeOK, NEW w \in Workers, CheckNewer(w)  PROVE TypeOK'
<1>1. Rows' = Rows /\ pc[w] # "idle"  BY DEF CheckNewer, Rows
<1>2. seen' \in [Workers -> Nat]  BY DEF CheckNewer, TypeOK
<1>3. WorkType'
  <2>1. CASE pc' = [pc EXCEPT ![w] = "stale"] /\ UNCHANGED held
    <3>1. held' = [held EXCEPT ![w] = held[w]] /\ held[w] \in RowType
      BY <2>1 DEF TypeOK
    <3> QED BY <1>1, <1>2, <2>1, <3>1, MoveType DEF CheckNewer, Saving
  <2>2. CASE /\ held' = [held EXCEPT ![w].nonce = seen[w] + 1]
             /\ pc' = [pc EXCEPT ![w] = "resequence"]
    <3> DEFINE e == [held[w] EXCEPT !.nonce = seen[w] + 1]
    <3>1. held[w] \in RowType /\ seen[w] \in Nat  BY DEF TypeOK
    <3>2. e \in RowType /\ e.sub = held[w].sub /\ e.status = held[w].status
      BY <3>1 DEF RowType
    <3>3. held' = [held EXCEPT ![w] = e]  BY <2>2 DEF TypeOK
    <3> HIDE DEF e
    <3> QED BY <1>1, <1>2, <2>2, <3>2, <3>3, MoveType DEF CheckNewer, Saving
  <2> QED BY <2>1, <2>2 DEF CheckNewer
<1> QED BY <1>1, <1>3 DEF CheckNewer, TypeOK, WorkType

LEMMA SaveMoveType ==
  ASSUME TypeOK, NEW w \in Workers, Resequence(w) \/ MarkSubmitted(w) \/ SaveConfirmed(w)
  PROVE  TypeOK'
<1>1. CASE Resequence(w)
  <2>1. held[w] \in RowType /\ held[w].sub \in Rows /\ held[w].status # "absent"
    BY <1>1 DEF Resequence, TypeOK
  <2>2. RowsKept  BY <1>1, <2>1, SaveKeeps DEF Resequence
  <2>3. WorkType'
    BY <1>1, <2>2, StayType DEF Resequence, RowsKept, Saving
  <2> QED BY <1>1, <2>2, <2>3 DEF Resequence, TypeOK, WorkType, RowsKept
<1>2. CASE MarkSubmitted(w)
  <2>1. RowsKept  BY <1>2, HeldType DEF MarkSubmitted, Status
  <2>2. WorkType'
    BY <1>2, <2>1, StayType DEF MarkSubmitted, RowsKept, Saving
  <2> QED BY <1>2, <2>1, <2>2 DEF MarkSubmitted, TypeOK, WorkType, RowsKept
<1>3. CASE SaveConfirmed(w)
  <2>1. RowsKept  BY <1>3, HeldType DEF SaveConfirmed, Status
  <2>2. WorkType'
    BY <1>3, <2>1, StayType DEF SaveConfirmed, RowsKept, Saving
  <2> QED BY <1>3, <2>1, <2>2 DEF SaveConfirmed, TypeOK, WorkType, RowsKept
<1> QED BY <1>1, <1>2, <1>3

LEMMA SaveEndType ==
  ASSUME TypeOK, NEW w \in Workers, MappingFails(w) \/ SaveFailed(w) \/ SaveStale(w)
  PROVE  TypeOK'
<1>1. pc[w] # "idle" /\ Save([held[w] EXCEPT !.status = "failed"])
  BY DEF MappingFails, SaveFailed, SaveStale
<1>2. RowsKept  BY <1>1, HeldType DEF Status
<1>3. UNCHANGED <<unqueued, credited, chainVars, recVars, idxVars, faultVars>>
  BY DEF MappingFails, SaveFailed, SaveStale
<1>4. CASE Retry(w)
  BY <1>1, <1>2, <1>3, <1>4, RetryType DEF TypeOK, WorkType, RowsKept
<1>5. CASE EndJob(w) /\ UNCHANGED waiting
  BY <1>1, <1>2, <1>3, <1>5, EndJobType DEF TypeOK, WorkType, RowsKept
<1> QED BY <1>4, <1>5 DEF MappingFails, SaveFailed, SaveStale

LEMMA SendType ==
  ASSUME TypeOK, NEW w \in Workers, Send(w) \/ PollSucceeds(w) \/ ChainFails(w)
  PROVE  TypeOK'
<1>1. Rows' = Rows /\ pc[w] # "idle"
  BY DEF Send, PollSucceeds, ChainFails, Rows
<1>2. held[w] \in RowType /\ job[w].sub \in Rows  BY <1>1 DEF TypeOK
<1>3. CASE Send(w)
  <2>1. WorkType'  BY <1>1, <1>3, StayType DEF Send
  <2>2. <<job[w].sub, held[w].nonce>> \in Rows \X Nat  BY <1>2 DEF RowType
  <2> QED BY <1>1, <1>3, <2>1, <2>2 DEF Send, TypeOK, WorkType
<1>4. CASE PollSucceeds(w)
  <2> DEFINE e == [held[w] EXCEPT !.hash = "tx"]
  <2>1. e \in RowType /\ e.sub = held[w].sub /\ e.status = held[w].status
    BY <1>2 DEF RowType, Hashes
  <2>2. held' = [held EXCEPT ![w] = e]  BY <1>4 DEF PollSucceeds, TypeOK
  <2>3. seen' \in [Workers -> Nat]  BY <1>4 DEF PollSucceeds, TypeOK
  <2> HIDE DEF e
  <2>4. WorkType'
    BY <1>1, <1>4, <2>1, <2>2, <2>3, MoveType DEF PollSucceeds, Saving
  <2> QED BY <1>1, <1>4, <2>4 DEF PollSucceeds, TypeOK, WorkType
<1>5. CASE ChainFails(w)
  <2>1. WorkType'  BY <1>1, <1>5, StayType DEF ChainFails, Saving
  <2> QED BY <1>1, <1>5, <2>1 DEF ChainFails, TypeOK, WorkType
<1> QED BY <1>3, <1>4, <1>5

LEMMA ThrowType ==
  ASSUME TypeOK, Rows' = Rows, NEW w \in Workers, pc[w] # "idle", Throw(w)
  PROVE  /\ waiting' \in [Jobs -> Nat] /\ WorkType'
         /\ \A j \in Jobs : waiting'[j] > 0 => j.sub \in Rows
<1>1. CASE pc' = [pc EXCEPT ![w] = "fail"] /\ UNCHANGED <<waiting, job, held, seen>>
  <2>1. WorkType'  BY <1>1, StayType DEF Saving
  <2> QED BY <1>1, <2>1 DEF TypeOK
<1>2. CASE Retry(w)  BY <1>2, RetryType
<1> QED BY <1>1, <1>2 DEF Throw

LEMMA AbortType ==
  ASSUME TypeOK, NEW w \in Workers,
         Credit(w) \/ AttemptFails(w) \/ DatabaseFails(w) \/ WorkerDies(w)
  PROVE  TypeOK'
<1>1. Rows' = Rows
  BY DEF Credit, AttemptFails, DatabaseFails, WorkerDies, Rows
<1>2. pc[w] # "idle"
  BY DEF Credit, AttemptFails, DatabaseFails, WorkerDies, Saving
<1>3. CASE Credit(w)
  <2>1. WorkType'  BY <1>1, <1>3, EndJobType DEF Credit
  <2>2. job[w].sub \in Rows  BY <1>2 DEF TypeOK
  <2> QED BY <1>1, <1>3, <2>1, <2>2 DEF Credit, TypeOK, WorkType
<1>4. CASE AttemptFails(w)
  BY <1>1, <1>2, <1>4, ThrowType DEF AttemptFails, TypeOK, WorkType
<1>5. CASE DatabaseFails(w)
  <2>1. errors' \in 0..MaxErrors
    BY <1>5, SubmissionConstants DEF DatabaseFails, TypeOK
  <2>2. CASE Throw(w)
    BY <1>1, <1>2, <1>5, <2>1, <2>2, ThrowType DEF DatabaseFails, TypeOK, WorkType
  <2>3. CASE EndJob(w) /\ UNCHANGED waiting
    BY <1>1, <1>2, <1>5, <2>1, <2>3, EndJobType DEF DatabaseFails, TypeOK, WorkType
  <2> QED BY <1>5, <2>2, <2>3 DEF DatabaseFails
<1>6. CASE WorkerDies(w)
  <2>1. crashes' \in 0..MaxCrashes
    BY <1>6, SubmissionConstants DEF WorkerDies, TypeOK
  <2>2. WorkType'  BY <1>1, <1>6, EndJobType DEF WorkerDies
  <2> DEFINE k == [job[w] EXCEPT !.stalled = TRUE]
  <2>3. waiting' = [j \in Jobs |->
                      IF ~job[w].stalled /\ j = k THEN waiting[j] + 1 ELSE waiting[j]]
    BY <1>6 DEF WorkerDies
  <2>4. k.sub \in Rows
    <3>1. job[w] \in Jobs /\ job[w].sub \in Rows  BY <1>2 DEF TypeOK
    <3> QED BY <3>1 DEF Jobs
  <2> HIDE DEF k
  <2>5. waiting' \in [Jobs -> Nat]  BY <2>3 DEF TypeOK
  <2>6. \A j \in Jobs : waiting'[j] > 0 => j.sub \in Rows
    BY <2>3, <2>4 DEF TypeOK
  <2> QED BY <1>1, <1>6, <2>1, <2>2, <2>5, <2>6 DEF WorkerDies, TypeOK, WorkType
<1> QED BY <1>3, <1>4, <1>5, <1>6

LEMMA WorkerType ==
  ASSUME TypeOK, NEW w \in Workers, WorkerStep(w) \/ DatabaseFails(w) \/ WorkerDies(w)
  PROVE  TypeOK'
BY TakeJobType, ReadChainNonceType, CheckNewerType, SaveMoveType, SaveEndType,
   SendType, AbortType
   DEF WorkerStep

LEMMA ChainType ==
  ASSUME TypeOK, Redeploy \/ \E tx \in flying : Land(tx) \/ Drop(tx)
  PROVE  TypeOK'
<1>1. Rows' = Rows  BY DEF Redeploy, Land, Drop, Rows
<1>2. CASE Redeploy
  <2>1. resets' \in 0..MaxResets
    BY <1>2, SubmissionConstants DEF Redeploy, TypeOK
  <2> QED BY <1>1, <1>2, <2>1 DEF Redeploy, TypeOK
<1>3. ASSUME NEW tx \in flying, Land(tx) PROVE TypeOK'
  <2>1. tx \in sent /\ tx[2] \in Nat  BY DEF TypeOK
  <2> QED BY <1>1, <1>3, <2>1 DEF Land, TypeOK
<1>4. ASSUME NEW tx \in flying, Drop(tx) PROVE TypeOK'
  BY <1>1, <1>4 DEF Drop, TypeOK
<1> QED BY <1>2, <1>3, <1>4

-----------------------------------------------------------------------------
(* The reconciliation and the indexer keep the types                       *)

\* The types of a reconciler's locals.
RecType ==
  /\ recPc \in [Reconcilers -> {"idle", "again", "stale", "renumber", "requeue", "gap", "credit"}]
  /\ recChain \in [Reconcilers -> Nat] /\ recAgain \in [Reconcilers -> Nat]
  /\ recRows \in [Reconcilers -> SUBSET RowType]
  /\ recNext \in [Reconcilers -> Nat] /\ recRow \in [Reconcilers -> RowType]
  /\ \A r \in Reconcilers :
       /\ \A e \in recRows[r] : e.sub \in Rows
       /\ recPc[r] \in {"requeue", "credit"} => recRow[r].sub \in Rows

LEMMA EndReconcileType ==
  ASSUME TypeOK, Rows' = Rows, NEW r \in Reconcilers, EndReconcile(r)
  PROVE  RecType'
<1>1. NoRow(0) \in RowType  BY NoRowType
<1> QED BY <1>1 DEF TypeOK, EndReconcile, RecType

\* The rows a query returns.
LEMMA QueryType ==
  ASSUME TypeOK, NEW S \in SUBSET Rows
  PROVE  /\ {row[n] : n \in S} \in SUBSET RowType
         /\ \A e \in {row[n] : n \in S} : e.sub \in Rows
BY DEF TypeOK, Rows

LEMMA ReadType ==
  ASSUME TypeOK, NEW r \in Reconcilers,
         \/ StartReconcile(r) \/ ReadAgain(r) \/ ReadAgainFails(r)
         \/ FindStale(r) \/ FindGaps(r)
  PROVE  TypeOK'
<1>1. Rows' = Rows
  BY DEF StartReconcile, ReadAgain, ReadAgainFails, FindStale, FindGaps, Rows
<1>2. CASE StartReconcile(r)
  <2>1. RecType'  BY <1>1, <1>2 DEF StartReconcile, TypeOK, RecType
  <2> QED BY <1>1, <1>2, <2>1 DEF StartReconcile, TypeOK, RecType
<1>3. CASE ReadAgain(r)
  <2>1. RecType'  BY <1>1, <1>3 DEF ReadAgain, TypeOK, RecType
  <2> QED BY <1>1, <1>3, <2>1 DEF ReadAgain, TypeOK, RecType
<1>4. CASE ReadAgainFails(r)
  <2>1. RecType'  BY <1>1, <1>4 DEF ReadAgainFails, TypeOK, RecType
  <2> QED BY <1>1, <1>4, <2>1 DEF ReadAgainFails, TypeOK, RecType
<1>5. CASE FindStale(r)
  <2> DEFINE S == {m \in Rows : row[m].status = "confirmed" /\ row[m].nonce > recAgain[r]}
             E == {row[n] : n \in S}
  <2>1. E \in SUBSET RowType /\ \A e \in E : e.sub \in Rows
    <3> S \in SUBSET Rows  OBVIOUS
    <3> HIDE DEF S
    <3> QED BY QueryType
  <2>2. recRows' = [recRows EXCEPT ![r] = E]  BY <1>5 DEF FindStale
  <2>3. recChain[r] + 1 \in Nat  BY DEF TypeOK
  <2> HIDE DEF E
  <2>4. RecType'  BY <1>1, <1>5, <2>1, <2>2, <2>3 DEF FindStale, TypeOK, RecType
  <2> QED BY <1>1, <1>5, <2>4 DEF FindStale, TypeOK, RecType
<1>6. CASE FindGaps(r)
  <2> DEFINE S == {m \in Rows : row[m].status \in {"pending", "failed"}
                               /\ row[m].nonce <= recChain[r]}
             E == {row[n] : n \in S}
  <2>1. E \in SUBSET RowType /\ \A e \in E : e.sub \in Rows
    <3> S \in SUBSET Rows  OBVIOUS
    <3> HIDE DEF S
    <3> QED BY QueryType
  <2>2. recRows' = [recRows EXCEPT ![r] = E]  BY <1>6 DEF FindGaps
  <2> HIDE DEF E
  <2>3. RecType'  BY <1>1, <1>6, <2>1, <2>2 DEF FindGaps, TypeOK, RecType
  <2> QED BY <1>1, <1>6, <2>3 DEF FindGaps, TypeOK, RecType
<1> QED BY <1>2, <1>3, <1>4, <1>5, <1>6

\* What a reconciler's save of one of the entities it holds leaves.
LEMMA RepairType ==
  ASSUME TypeOK, NEW r \in Reconcilers, NEW e \in recRows[r], NEW f \in RowType,
         f.sub = e.sub, f.status # "absent", Save(f),
         NEW s \in {"requeue", "credit"},
         recRow' = [recRow EXCEPT ![r] = e],
         recRows' = [recRows EXCEPT ![r] = @ \ {e}],
         recPc' = [recPc EXCEPT ![r] = s],
         UNCHANGED <<unqueued, waiting, credited, chainVars, workVars, recChain,
                     recAgain, recNext, idxVars, faultVars>>
  PROVE  TypeOK'
<1>1. e \in RowType /\ f.sub \in Rows  BY DEF TypeOK
<1>2. RowsKept  BY <1>1, SaveKeeps
<1>3. recRow' \in [Reconcilers -> RowType] /\ recRow'[r].sub \in Rows
  BY <1>1 DEF TypeOK
<1>4. recRows' \in [Reconcilers -> SUBSET RowType] /\ \A q \in Reconcilers : recRows'[q] \subseteq recRows[q]
  BY DEF TypeOK
<1>5. RecType'
  <2>1. \A q \in Reconcilers : \A x \in recRows'[q] : x.sub \in Rows'
    BY <1>2, <1>4 DEF TypeOK, RowsKept
  <2>2. \A q \in Reconcilers : recPc'[q] \in {"requeue", "credit"} => recRow'[q].sub \in Rows'
    BY <1>2, <1>3 DEF TypeOK, RowsKept
  <2> QED BY <1>3, <1>4, <2>1, <2>2 DEF TypeOK, RecType
<1> QED BY <1>2, <1>5 DEF TypeOK, RecType, RowsKept

LEMMA RepairStepType ==
  ASSUME TypeOK, NEW r \in Reconcilers, Renumber(r) \/ ConfirmGap(r)
  PROVE  TypeOK'
<1>1. CASE Renumber(r)
  <2>1. PICK e \in First(recRows[r]) :
          /\ Save([e EXCEPT !.status = "pending", !.nonce = recNext[r]])
          /\ recRow' = [recRow EXCEPT ![r] = e]
          /\ recRows' = [recRows EXCEPT ![r] = @ \ {e}]
    BY <1>1 DEF Renumber
  <2> DEFINE f == [e EXCEPT !.status = "pending", !.nonce = recNext[r]]
  <2>2. e \in recRows[r] /\ e \in RowType /\ recNext[r] \in Nat
    BY DEF First, TypeOK
  <2>3. f \in RowType /\ f.sub = e.sub /\ f.status # "absent"
    BY <2>2 DEF RowType, Status
  <2> HIDE DEF f
  <2>4. Save(f)  BY <2>1 DEF f
  <2> QED BY <1>1, <2>1, <2>2, <2>3, <2>4, RepairType DEF Renumber
<1>2. CASE ConfirmGap(r)
  <2>1. PICK e \in First(recRows[r]) :
          /\ Save([e EXCEPT !.status = "confirmed", !.hash = ReconciledHash(e)])
          /\ recRow' = [recRow EXCEPT ![r] = e]
          /\ recRows' = [recRows EXCEPT ![r] = @ \ {e}]
    BY <1>2 DEF ConfirmGap
  <2> DEFINE f == [e EXCEPT !.status = "confirmed", !.hash = ReconciledHash(e)]
  <2>2. e \in recRows[r] /\ e \in RowType  BY DEF First, TypeOK
  <2>3. ReconciledHash(e) \in Hashes  BY <2>2 DEF ReconciledHash, Hashes, RowType
  <2>4. f \in RowType /\ f.sub = e.sub /\ f.status # "absent"
    BY <2>2, <2>3 DEF RowType, Status
  <2> HIDE DEF f
  <2>5. Save(f)  BY <2>1 DEF f
  <2> QED BY <1>2, <2>1, <2>2, <2>4, <2>5, RepairType DEF ConfirmGap
<1> QED BY <1>1, <1>2

LEMMA RequeueType ==
  ASSUME TypeOK, NEW r \in Reconcilers, Requeue(r) \/ CreditGap(r)
  PROVE  TypeOK'
<1>1. Rows' = Rows  BY DEF Requeue, CreditGap, Rows
<1>2. NoRow(0) \in RowType  BY NoRowType
<1>3. recRow[r].sub \in Rows  BY DEF Requeue, CreditGap, TypeOK
<1>4. CASE Requeue(r)
  <2>1. recNext[r] + 1 \in Nat  BY DEF TypeOK
  <2>2. RecType'  BY <1>1, <1>2, <1>4, <2>1 DEF Requeue, TypeOK, RecType
  <2>3. /\ waiting' \in [Jobs -> Nat]
        /\ \A j \in Jobs : waiting'[j] > 0 => j.sub \in Rows
    <3> DEFINE n == recRow[r].sub
    <3>1. n \in Rows /\ AddJob(n)  BY <1>3, <1>4 DEF Requeue
    <3> HIDE DEF n
    <3> QED BY <3>1, AddType
  <2> QED BY <1>1, <1>4, <2>2, <2>3 DEF Requeue, TypeOK, RecType
<1>5. CASE CreditGap(r)
  <2>1. RecType'  BY <1>1, <1>2, <1>5 DEF CreditGap, TypeOK, RecType
  <2>2. errors' \in 0..MaxErrors
    BY <1>5, SubmissionConstants DEF CreditGap, TypeOK
  <2>3. credited' \in SUBSET Rows  BY <1>3, <1>5 DEF CreditGap, TypeOK
  <2> QED BY <1>1, <1>5, <2>1, <2>2, <2>3 DEF CreditGap, TypeOK, RecType
<1> QED BY <1>4, <1>5

LEMMA ReconcileType ==
  ASSUME TypeOK, NEW r \in Reconcilers,
         ReconcileStep(r) \/ ReadAgainFails(r) \/ ReconcileStops(r)
  PROVE  TypeOK'
<1>1. CASE FinishReconcile(r) \/ ReconcileFails(r) \/ ReconcileStops(r)
  <2>1. Rows' = Rows /\ RecType'
    <3>1. Rows' = Rows
      BY <1>1 DEF FinishReconcile, ReconcileFails, ReconcileStops, Rows
    <3> QED BY <1>1, <3>1, EndReconcileType
            DEF FinishReconcile, ReconcileFails, ReconcileStops
  <2>2. crashes' \in 0..MaxCrashes
    BY <1>1, SubmissionConstants
       DEF FinishReconcile, ReconcileFails, ReconcileStops, TypeOK
  <2> QED BY <1>1, <2>1, <2>2
          DEF FinishReconcile, ReconcileFails, ReconcileStops, TypeOK, RecType
<1> QED BY <1>1, ReadType, RepairStepType, RequeueType DEF ReconcileStep

LEMMA IndexerType ==
  ASSUME TypeOK, NEW i \in Indexers, Index(i)
  PROVE  TypeOK'
<1> DEFINE IdxType == /\ idxPc \in [Indexers -> {"idle", "save", "batches"}]
                      /\ idxRow \in [Indexers -> RowType]
                      /\ \A q \in Indexers : idxPc[q] # "idle" => idxRow[q].sub \in Rows
<1>1. NoRow(0) \in RowType  BY NoRowType
<1>2. ASSUME NEW tx \in landed, IndexerLoads(i, tx) PROVE TypeOK'
  <2>1. Rows' = Rows  BY <1>2 DEF IndexerLoads, Rows
  <2>2. PICK n \in Rows : idxRow' = [idxRow EXCEPT ![i] = row[n]]
    BY <1>2 DEF IndexerLoads
  <2>3. row[n] \in RowType /\ row[n].sub \in Rows  BY DEF TypeOK, Rows
  <2>4. IdxType'  BY <1>2, <2>1, <2>2, <2>3 DEF IndexerLoads, TypeOK
  <2> QED BY <1>2, <2>1, <2>4 DEF IndexerLoads, TypeOK
<1>3. CASE IndexerSaves(i)
  <2> DEFINE e == [idxRow[i] EXCEPT !.status = "confirmed"]
  <2>1. idxRow[i] \in RowType /\ idxRow[i].sub \in Rows
    BY <1>3 DEF IndexerSaves, TypeOK
  <2>2. e \in RowType /\ e.sub \in Rows /\ e.status # "absent"
    BY <2>1 DEF RowType, Status
  <2> HIDE DEF e
  <2>3. Save(e)  BY <1>3 DEF IndexerSaves, e
  <2>4. RowsKept  BY <2>2, <2>3, SaveKeeps
  <2>5. IdxType'  BY <1>3, <2>1, <2>4 DEF IndexerSaves, TypeOK, RowsKept
  <2> QED BY <1>3, <2>4, <2>5 DEF IndexerSaves, TypeOK, RowsKept
<1>4. CASE IndexerCredits(i)
  <2>1. Rows' = Rows  BY <1>4 DEF IndexerCredits, Rows
  <2>2. IdxType'  BY <1>1, <1>4, <2>1 DEF IndexerCredits, TypeOK
  <2>3. credited' \in SUBSET Rows  BY <1>4 DEF IndexerCredits, TypeOK
  <2> QED BY <1>4, <2>1, <2>2, <2>3 DEF IndexerCredits, TypeOK
<1>5. CASE IndexerFails(i)
  <2>1. Rows' = Rows  BY <1>5 DEF IndexerFails, Rows
  <2>2. IdxType'  BY <1>1, <1>5, <2>1 DEF IndexerFails, TypeOK
  <2>3. errors' \in 0..MaxErrors
    BY <1>5, SubmissionConstants DEF IndexerFails, TypeOK
  <2> QED BY <1>5, <2>1, <2>2, <2>3 DEF IndexerFails, TypeOK
<1> QED BY <1>2, <1>3, <1>4, <1>5 DEF Index

LEMMA StepType == TypeOK /\ [Next]_vars => TypeOK'
<1>1. ASSUME TypeOK, UNCHANGED vars PROVE TypeOK'
  <2>1. Rows' = Rows  BY <1>1 DEF vars, Rows
  <2> QED BY <1>1, <2>1 DEF vars, TypeOK
<1> QED BY <1>1, TriggerType, EnqueueType, WorkerType, ChainType, ReconcileType,
           IndexerType
        DEF Next

\* Every behaviour, whatever the number of rows, workers, reconcilers and
\* indexers, keeps the types; entities, jobs and transactions name existing rows.
THEOREM TypeCorrect == Spec => []TypeOK
<1>1. Init => TypeOK  BY InitType
<1>2. TypeOK /\ [Next]_vars => TypeOK'  BY StepType
<1> QED BY <1>1, <1>2, PTL DEF Spec

-----------------------------------------------------------------------------
(* No CONFIRMED row is ahead of the contract                               *)

\* Whoever is about to write CONFIRMED knows the nonce to be the chain's or
\* behind it, because on one contract the chain's nonce only grows.
LandedBehind == \A tx \in landed : tx[2] <= chainNonce
RowsBehind   == \A n \in Rows : row[n].status = "confirmed" => row[n].nonce <= chainNonce
WorkBehind   == \A w \in Workers : pc[w] = "confirm" => held[w].nonce <= chainNonce
RecBehind    == \A r \in Reconcilers :
  /\ recChain[r] <= chainNonce
  /\ recPc[r] \in {"gap", "credit"} => \A e \in recRows[r] : e.nonce <= chainNonce
IdxBehind    == \A i \in Indexers : idxPc[i] = "save" => idxRow[i].nonce <= chainNonce
AllBehind    == LandedBehind /\ RowsBehind /\ WorkBehind /\ RecBehind /\ IdxBehind
NoneAhead    == resets = 0 => AllBehind

LEMMA SaveBehind ==
  ASSUME TypeOK, RowsBehind, NEW e \in RowType, e.sub \in Rows, Save(e),
         e.status = "confirmed" => e.nonce <= chainNonce, UNCHANGED chainNonce
  PROVE  RowsBehind'
<1>1. e.sub \in Subs /\ row' = [row EXCEPT ![e.sub] = e]  BY DEF Save, Rows
<1>2. \A n \in Subs : row'[n] = IF n = e.sub THEN e ELSE row[n]
  BY <1>1 DEF TypeOK
<1> QED BY <1>2 DEF RowsBehind, Rows

\* A worker that goes anywhere but to the CONFIRMED save.
LEMMA WorkStays ==
  ASSUME TypeOK, WorkBehind, NEW w \in Workers, pc'[w] # "confirm",
         \A v \in Workers \ {w} : pc'[v] = pc[v] /\ held'[v] = held[v],
         UNCHANGED chainNonce
  PROVE  WorkBehind'
BY DEF WorkBehind

LEMMA EndJobBehind ==
  ASSUME TypeOK, WorkBehind, NEW w \in Workers, EndJob(w), UNCHANGED chainNonce
  PROVE  WorkBehind'
<1>1. pc'[w] # "confirm" /\ \A v \in Workers \ {w} : pc'[v] = pc[v] /\ held'[v] = held[v]
  BY DEF EndJob, TypeOK
<1> QED BY <1>1, WorkStays

LEMMA WorkerBehind ==
  ASSUME TypeOK, AllBehind, NEW w \in Workers,
         WorkerStep(w) \/ DatabaseFails(w) \/ WorkerDies(w)
  PROVE  AllBehind'
<1> USE DEF AllBehind
<1>1. /\ UNCHANGED <<recVars, idxVars, chainNonce, landed>>
      /\ LandedBehind' /\ RecBehind' /\ IdxBehind'
  <2>1. UNCHANGED <<recVars, idxVars, chainNonce, landed>>
    BY DEF WorkerStep, TakeJob, ReadChainNonce, CheckNewer, Resequence, MappingFails,
           MarkSubmitted, Send, PollSucceeds, ChainFails, SaveFailed, SaveStale,
           SaveConfirmed, Credit, AttemptFails, DatabaseFails, WorkerDies
  <2> QED BY <2>1 DEF LandedBehind, RecBehind, IdxBehind
<1>2. ASSUME row' = row PROVE RowsBehind'
  BY <1>1, <1>2 DEF RowsBehind, Rows
<1>3. RowsBehind'
  <2>1. ASSUME NEW s \in {"failed", "submitted", "confirmed"}, pc[w] # "idle",
               s = "confirmed" => pc[w] = "confirm",
               Save([held[w] EXCEPT !.status = s])
        PROVE  RowsBehind'
    <3> DEFINE e == [held[w] EXCEPT !.status = s]
    <3>1. held[w] \in RowType /\ held[w].sub \in Rows  BY <2>1 DEF TypeOK
    <3>2. e \in RowType /\ e.sub \in Rows /\ e.status = s /\ e.nonce = held[w].nonce
      BY <3>1 DEF RowType, Status
    <3>3. e.status = "confirmed" => e.nonce <= chainNonce
      BY <2>1, <3>2 DEF WorkBehind
    <3> HIDE DEF e
    <3>4. Save(e)  BY <2>1 DEF e
    <3> QED BY <1>1, <3>2, <3>3, <3>4, SaveBehind
  <2>2. CASE Resequence(w)
    <3>1. held[w] \in RowType /\ held[w].sub \in Rows /\ held[w].status # "confirmed"
      BY <2>2 DEF Resequence, TypeOK
    <3> QED BY <1>1, <2>2, <3>1, SaveBehind DEF Resequence
  <2>3. CASE MappingFails(w) \/ SaveFailed(w) \/ SaveStale(w)
    BY <2>1, <2>3 DEF MappingFails, SaveFailed, SaveStale
  <2>4. CASE MarkSubmitted(w)  BY <2>1, <2>4 DEF MarkSubmitted
  <2>5. CASE SaveConfirmed(w)  BY <2>1, <2>5 DEF SaveConfirmed
  <2>6. CASE \/ TakeJob(w) \/ ReadChainNonce(w) \/ CheckNewer(w) \/ Send(w)
             \/ PollSucceeds(w) \/ ChainFails(w) \/ Credit(w) \/ AttemptFails(w)
             \/ DatabaseFails(w) \/ WorkerDies(w)
    <3>1. row' = row
      BY <2>6 DEF TakeJob, ReadChainNonce, CheckNewer, Send, PollSucceeds, ChainFails,
                  Credit, AttemptFails, DatabaseFails, WorkerDies
    <3> QED BY <1>2, <3>1
  <2> QED BY <2>2, <2>3, <2>4, <2>5, <2>6 DEF WorkerStep
<1>4. WorkBehind'
  <2>1. CASE TakeJob(w)
    <3>1. \A v \in Workers : (pc'[v] = pc[v] /\ held'[v] = held[v]) \/ pc'[v] = "read"
      BY <2>1 DEF TakeJob, TypeOK
    <3> QED BY <1>1, <3>1 DEF WorkBehind
  <2>2. CASE ReadChainNonce(w)
    <3>1. held[w] \in RowType /\ chainNonce \in Nat  BY DEF TypeOK
    <3>2. AfterRead(held[w].nonce, chainNonce) = "confirm" => held[w].nonce = chainNonce
      BY <3>1 DEF AfterRead, RowType
    <3>3. pc'[w] = "confirm" => held'[w].nonce <= chainNonce
      BY <2>2, <3>1, <3>2 DEF ReadChainNonce, TypeOK, RowType
    <3>4. \A v \in Workers \ {w} : pc'[v] = pc[v] /\ held'[v] = held[v]
      BY <2>2 DEF ReadChainNonce, TypeOK
    <3> QED BY <1>1, <3>3, <3>4 DEF WorkBehind
  <2>3. CASE PollSucceeds(w)
    <3>1. held[w] \in RowType /\ held[w].nonce <= chainNonce
      BY <2>3 DEF PollSucceeds, LandedBehind, TypeOK
    <3>2. held'[w].nonce <= chainNonce
      BY <2>3, <3>1 DEF PollSucceeds, TypeOK, RowType
    <3>3. \A v \in Workers \ {w} : pc'[v] = pc[v] /\ held'[v] = held[v]
      BY <2>3 DEF PollSucceeds, TypeOK
    <3> QED BY <1>1, <3>2, <3>3 DEF WorkBehind
  <2>4. CASE \/ CheckNewer(w) \/ Resequence(w) \/ MarkSubmitted(w) \/ Send(w)
             \/ ChainFails(w) \/ SaveConfirmed(w)
    <3>1. pc'[w] # "confirm"
      BY <2>4 DEF CheckNewer, Resequence, MarkSubmitted, Send, ChainFails, SaveConfirmed, TypeOK
    <3>2. \A v \in Workers \ {w} : pc'[v] = pc[v] /\ held'[v] = held[v]
      BY <2>4 DEF CheckNewer, Resequence, MarkSubmitted, Send, ChainFails, SaveConfirmed, TypeOK
    <3> QED BY <1>1, <3>1, <3>2, WorkStays
  <2>5. CASE EndJob(w)  BY <1>1, <2>5, EndJobBehind
  <2>6. CASE \/ MappingFails(w) \/ SaveFailed(w) \/ SaveStale(w) \/ Credit(w)
             \/ WorkerDies(w)
    BY <2>5, <2>6 DEF MappingFails, SaveFailed, SaveStale, Credit, WorkerDies, Retry
  <2>7. CASE Throw(w)
    <3>1. CASE pc' = [pc EXCEPT ![w] = "fail"] /\ UNCHANGED held
      <4>1. pc'[w] # "confirm" /\ \A v \in Workers \ {w} : pc'[v] = pc[v]
        BY <3>1 DEF TypeOK
      <4> QED BY <1>1, <3>1, <4>1, WorkStays
    <3> QED BY <2>5, <2>7, <3>1 DEF Throw, Retry
  <2>8. CASE AttemptFails(w) \/ DatabaseFails(w)
    BY <2>5, <2>7, <2>8 DEF AttemptFails, DatabaseFails
  <2> QED BY <2>1, <2>2, <2>3, <2>4, <2>6, <2>8 DEF WorkerStep
<1> QED BY <1>1, <1>3, <1>4

LEMMA ReconcileBehind ==
  ASSUME TypeOK, AllBehind, NEW r \in Reconcilers,
         ReconcileStep(r) \/ ReadAgainFails(r) \/ ReconcileStops(r)
  PROVE  AllBehind'
<1> USE DEF AllBehind
<1>1. /\ UNCHANGED <<workVars, idxVars, chainNonce, landed>>
      /\ LandedBehind' /\ WorkBehind' /\ IdxBehind'
  <2>1. UNCHANGED <<workVars, idxVars, chainNonce, landed>>
    BY DEF ReconcileStep, StartReconcile, ReadAgain, ReadAgainFails, FindStale, Renumber,
           Requeue, FindGaps, ConfirmGap, CreditGap, FinishReconcile, ReconcileFails,
           ReconcileStops
  <2> QED BY <2>1 DEF LandedBehind, WorkBehind, IdxBehind
<1>2. ASSUME row' = row PROVE RowsBehind'
  BY <1>1, <1>2 DEF RowsBehind, Rows
<1>3. CASE Renumber(r)
  <2>1. PICK e \in First(recRows[r]) :
          Save([e EXCEPT !.status = "pending", !.nonce = recNext[r]])
    BY <1>3 DEF Renumber
  <2> DEFINE f == [e EXCEPT !.status = "pending", !.nonce = recNext[r]]
  <2>2. e \in RowType /\ e.sub \in Rows /\ recNext[r] \in Nat  BY DEF First, TypeOK
  <2>3. f \in RowType /\ f.sub \in Rows /\ f.status # "confirmed"
    BY <2>2 DEF RowType, Status
  <2> HIDE DEF f
  <2>4. Save(f)  BY <2>1 DEF f
  <2>5. RowsBehind'  BY <1>1, <2>3, <2>4, SaveBehind
  <2>6. RecBehind'
    BY <1>1, <1>3 DEF Renumber, RecBehind, TypeOK
  <2> QED BY <1>1, <2>5, <2>6
<1>4. CASE ConfirmGap(r)
  <2>1. PICK e \in First(recRows[r]) :
          /\ Save([e EXCEPT !.status = "confirmed", !.hash = ReconciledHash(e)])
          /\ recRows' = [recRows EXCEPT ![r] = @ \ {e}]
    BY <1>4 DEF ConfirmGap
  <2> DEFINE f == [e EXCEPT !.status = "confirmed", !.hash = ReconciledHash(e)]
  <2>2. e \in recRows[r] /\ e \in RowType /\ e.sub \in Rows  BY DEF First, TypeOK
  <2>3. ReconciledHash(e) \in Hashes  BY <2>2 DEF ReconciledHash, Hashes, RowType
  <2>4. f \in RowType /\ f.sub \in Rows /\ f.nonce = e.nonce
    BY <2>2, <2>3 DEF RowType, Status
  <2>5. e.nonce <= chainNonce  BY <1>4, <2>2 DEF ConfirmGap, RecBehind
  <2> HIDE DEF f
  <2>6. Save(f)  BY <2>1 DEF f
  <2>7. RowsBehind'  BY <1>1, <2>4, <2>5, <2>6, SaveBehind
  <2>8. RecBehind'
    <3>1. \A q \in Reconcilers : recRows'[q] \subseteq recRows[q]  BY <2>1 DEF TypeOK
    <3>2. \A q \in Reconcilers :
            recPc'[q] \in {"gap", "credit"} => recPc[q] \in {"gap", "credit"}
      BY <1>4 DEF ConfirmGap, TypeOK
    <3> QED BY <1>1, <1>4, <3>1, <3>2 DEF ConfirmGap, RecBehind
  <2> QED BY <1>1, <2>7, <2>8
<1>5. CASE FindGaps(r)
  <2> DEFINE S == {m \in Rows : row[m].status \in {"pending", "failed"}
                               /\ row[m].nonce <= recChain[r]}
  <2>1. /\ recRows' = [recRows EXCEPT ![r] = {row[n] : n \in S}]
        /\ recChain' = [recChain EXCEPT ![r] = 0]
        /\ recPc' = [recPc EXCEPT ![r] = "gap"]
        /\ row' = row
    BY <1>5 DEF FindGaps
  <2>2. \A n \in S : row[n].nonce <= chainNonce
    <3>1. recChain[r] <= chainNonce /\ recChain[r] \in Nat /\ chainNonce \in Nat
      BY DEF RecBehind, TypeOK
    <3>2. \A n \in Rows : row[n].nonce \in Nat  BY DEF TypeOK, RowType, Rows
    <3> QED BY <3>1, <3>2
  <2> HIDE DEF S
  <2>3. \A e \in {row[n] : n \in S} : e.nonce <= chainNonce  BY <2>2
  <2>4. RecBehind'
    <3>1. \A q \in Reconcilers : recChain'[q] <= chainNonce
      BY <2>1 DEF RecBehind, TypeOK
    <3>2. \A q \in Reconcilers : recPc'[q] \in {"gap", "credit"} =>
            \A e \in recRows'[q] : e.nonce <= chainNonce
      BY <2>1, <2>3 DEF RecBehind, TypeOK
    <3> QED BY <1>1, <3>1, <3>2 DEF RecBehind
  <2> QED BY <1>1, <1>2, <2>1, <2>4
<1>6. CASE \/ StartReconcile(r) \/ ReadAgain(r) \/ ReadAgainFails(r) \/ FindStale(r)
           \/ Requeue(r)
  <2>1. RecBehind' /\ row' = row
    <3>1. \A q \in Reconcilers : recChain'[q] <= chainNonce
      BY <1>6 DEF StartReconcile, ReadAgain, ReadAgainFails, FindStale, Requeue,
                  RecBehind, TypeOK
    <3>2. \A q \in Reconcilers : recPc'[q] \in {"gap", "credit"} =>
            recPc'[q] = recPc[q] /\ recRows'[q] = recRows[q]
      BY <1>6 DEF StartReconcile, ReadAgain, ReadAgainFails, FindStale, Requeue, TypeOK
    <3> QED BY <1>1, <1>6, <3>1, <3>2
            DEF StartReconcile, ReadAgain, ReadAgainFails, FindStale, Requeue, RecBehind
  <2> QED BY <1>1, <1>2, <2>1
<1>7. CASE CreditGap(r)
  <2>1. RecBehind' /\ row' = row  BY <1>1, <1>7 DEF CreditGap, RecBehind, TypeOK
  <2> QED BY <1>1, <1>2, <2>1
<1>8. CASE FinishReconcile(r) \/ ReconcileFails(r) \/ ReconcileStops(r)
  <2>1. EndReconcile(r) /\ row' = row
    BY <1>8 DEF FinishReconcile, ReconcileFails, ReconcileStops
  <2>2. RecBehind'  BY <1>1, <2>1 DEF EndReconcile, RecBehind, TypeOK
  <2> QED BY <1>1, <1>2, <2>1, <2>2
<1> QED BY <1>3, <1>4, <1>5, <1>6, <1>7, <1>8 DEF ReconcileStep

LEMMA IndexBehind ==
  ASSUME TypeOK, AllBehind, NEW i \in Indexers, Index(i)
  PROVE  AllBehind'
<1> USE DEF AllBehind
<1>1. /\ UNCHANGED <<workVars, recVars, chainNonce, landed>>
      /\ LandedBehind' /\ WorkBehind' /\ RecBehind'
  <2>1. UNCHANGED <<workVars, recVars, chainNonce, landed>>
    BY DEF Index, IndexerLoads, IndexerSaves, IndexerCredits, IndexerFails
  <2> QED BY <2>1 DEF LandedBehind, WorkBehind, RecBehind
<1>2. ASSUME row' = row PROVE RowsBehind'
  BY <1>1, <1>2 DEF RowsBehind, Rows
<1>3. CASE IndexerSaves(i)
  <2> DEFINE e == [idxRow[i] EXCEPT !.status = "confirmed"]
  <2>1. idxRow[i] \in RowType /\ idxRow[i].sub \in Rows /\ idxRow[i].nonce <= chainNonce
    BY <1>3 DEF IndexerSaves, TypeOK, IdxBehind
  <2>2. e \in RowType /\ e.sub \in Rows /\ e.nonce = idxRow[i].nonce
    BY <2>1 DEF RowType, Status
  <2> HIDE DEF e
  <2>3. Save(e)  BY <1>3 DEF IndexerSaves, e
  <2>4. RowsBehind'  BY <1>1, <2>1, <2>2, <2>3, SaveBehind
  <2>5. IdxBehind'  BY <1>1, <1>3 DEF IndexerSaves, IdxBehind, TypeOK
  <2> QED BY <1>1, <2>4, <2>5
<1>4. ASSUME NEW tx \in landed, IndexerLoads(i, tx) PROVE AllBehind'
  <2>1. row' = row /\ tx[2] <= chainNonce  BY <1>4 DEF IndexerLoads, LandedBehind
  <2>2. idxRow'[i].nonce <= chainNonce
    BY <1>4, <2>1 DEF IndexerLoads, TypeOK
  <2>3. \A q \in Indexers \ {i} : idxPc'[q] = idxPc[q] /\ idxRow'[q] = idxRow[q]
    BY <1>4 DEF IndexerLoads, TypeOK
  <2>4. IdxBehind'  BY <1>1, <2>2, <2>3 DEF IdxBehind
  <2> QED BY <1>1, <1>2, <2>1, <2>4
<1>5. CASE IndexerCredits(i) \/ IndexerFails(i)
  <2>1. row' = row /\ IdxBehind'
    BY <1>1, <1>5 DEF IndexerCredits, IndexerFails, IdxBehind, TypeOK
  <2> QED BY <1>1, <1>2, <2>1
<1> QED BY <1>3, <1>4, <1>5 DEF Index

LEMMA ChainBehind ==
  ASSUME TypeOK, AllBehind, NEW tx \in flying, Land(tx) \/ Drop(tx)
  PROVE  AllBehind'
<1> USE DEF AllBehind
<1>1. UNCHANGED <<rowVars, workVars, recVars, idxVars>>  BY DEF Land, Drop
<1>2. chainNonce' \in Nat /\ chainNonce \in Nat /\ chainNonce <= chainNonce'
  BY DEF Land, Drop, TypeOK
<1>3. LandedBehind'
  <2>1. \A t \in landed' : t[2] \in Nat /\ (t \in landed \/ t[2] = chainNonce')
    BY DEF Land, Drop, TypeOK
  <2> QED BY <1>2, <2>1 DEF LandedBehind
<1>4. RowsBehind'
  <2>1. \A n \in Rows : row[n].nonce \in Nat  BY DEF TypeOK, RowType, Rows
  <2> QED BY <1>1, <1>2, <2>1 DEF RowsBehind, Rows
<1>5. WorkBehind'
  <2>1. \A w \in Workers : held[w].nonce \in Nat  BY DEF TypeOK, RowType
  <2> QED BY <1>1, <1>2, <2>1 DEF WorkBehind
<1>6. RecBehind'
  <2>1. \A r \in Reconcilers : recChain[r] \in Nat /\ \A e \in recRows[r] : e.nonce \in Nat
    BY DEF TypeOK, RowType
  <2> QED BY <1>1, <1>2, <2>1 DEF RecBehind
<1>7. IdxBehind'
  <2>1. \A i \in Indexers : idxRow[i].nonce \in Nat  BY DEF TypeOK, RowType
  <2> QED BY <1>1, <1>2, <2>1 DEF IdxBehind
<1> QED BY <1>3, <1>4, <1>5, <1>6, <1>7

LEMMA TriggerBehind ==
  ASSUME TypeOK, AllBehind, NEW n \in Subs,
         Enqueue(n) \/ EnqueueFails(n) \/ \E p \in Projects : TriggerSubmission(n, p)
  PROVE  AllBehind'
<1> USE DEF AllBehind
<1>1. /\ UNCHANGED <<chainVars, workVars, recVars, idxVars>>
      /\ LandedBehind' /\ WorkBehind' /\ RecBehind' /\ IdxBehind'
  <2>1. UNCHANGED <<chainVars, workVars, recVars, idxVars>>
    BY DEF Enqueue, EnqueueFails, TriggerSubmission
  <2> QED BY <2>1 DEF LandedBehind, WorkBehind, RecBehind, IdxBehind
<1>2. \A m \in Subs : row'[m] = row[m] \/ row'[m].status = "pending"
  <2>1. CASE Enqueue(n) \/ EnqueueFails(n)  BY <2>1 DEF Enqueue, EnqueueFails
  <2>2. CASE \E p \in Projects : TriggerSubmission(n, p)
    <3>1. PICK k \in TopNonce :
            row' = [row EXCEPT ![n] = [NoRow(n) EXCEPT !.status = "pending", !.nonce = k + 1]]
      BY <2>2 DEF TriggerSubmission
    <3>2. [NoRow(n) EXCEPT !.status = "pending", !.nonce = k + 1].status = "pending"
      BY DEF NoRow
    <3> QED BY <3>1, <3>2 DEF TypeOK
  <2> QED BY <2>1, <2>2
<1>3. RowsBehind'  BY <1>1, <1>2 DEF RowsBehind, Rows
<1> QED BY <1>1, <1>3

LEMMA ResetsGrow ==
  ASSUME TypeOK, [Next]_vars, resets' = 0
  PROVE  resets = 0
<1>1. ~Redeploy  BY DEF Redeploy, TypeOK
<1> QED
  BY <1>1
     DEF vars, Next, Enqueue, EnqueueFails, TriggerSubmission, WorkerStep, TakeJob,
         ReadChainNonce, CheckNewer, Resequence, MappingFails, MarkSubmitted, Send,
         PollSucceeds, ChainFails, SaveFailed, SaveStale, SaveConfirmed, Credit,
         AttemptFails, DatabaseFails, WorkerDies, Land, Drop, ReconcileStep,
         StartReconcile, ReadAgain, ReadAgainFails, FindStale, Renumber, Requeue,
         FindGaps, ConfirmGap, CreditGap, FinishReconcile, ReconcileFails,
         ReconcileStops, Index, IndexerLoads, IndexerSaves, IndexerCredits, IndexerFails

LEMMA StepBehind == TypeOK /\ NoneAhead /\ [Next]_vars => NoneAhead'
<1> SUFFICES ASSUME TypeOK, NoneAhead, [Next]_vars, resets' = 0 PROVE AllBehind'
  BY DEF NoneAhead
<1>1. ASSUME UNCHANGED vars PROVE AllBehind'
  BY <1>1 DEF vars, NoneAhead, AllBehind, LandedBehind, RowsBehind, WorkBehind,
              RecBehind, IdxBehind, Rows
<1>2. CASE Next
  <2>1. ~Redeploy  BY DEF Redeploy, TypeOK
  <2>2. resets = 0  BY ResetsGrow
  <2>3. AllBehind  BY <2>2 DEF NoneAhead
  <2> QED BY <1>2, <2>1, <2>3, WorkerBehind, ReconcileBehind, IndexBehind, ChainBehind,
             TriggerBehind
          DEF Next
<1> QED BY <1>1, <1>2

LEMMA InitBehind == Init => NoneAhead
BY DEF Init, NoneAhead, AllBehind, LandedBehind, RowsBehind, WorkBehind, RecBehind, IdxBehind,
       Rows, NoRow

\* Whatever the interleaving of workers, reconciliations and indexers, and
\* whatever fails, on one contract a CONFIRMED row is never ahead of the chain:
\* what reconcile finds stale was made stale by a redeployment (or by its own
\* two readings of the nonce).
THEOREM NotAheadCorrect == Spec => []ConfirmedNotAhead
<1>1. Init => TypeOK /\ NoneAhead  BY InitType, InitBehind
<1>2. TypeOK /\ NoneAhead /\ [Next]_vars => (TypeOK /\ NoneAhead)'
  BY StepType, StepBehind
<1>3. NoneAhead => ConfirmedNotAhead
  BY DEF NoneAhead, AllBehind, RowsBehind, ConfirmedNotAhead
<1> QED BY <1>1, <1>2, <1>3, PTL DEF Spec

-----------------------------------------------------------------------------
(* Where a row is                                                          *)

\* A row is in one place: not queued yet, one waiting job, or one worker.
Alone(n) ==
  /\ n \in unqueued => \A j \in Jobs : j.sub = n => waiting[j] = 0
  /\ n \in unqueued => \A w \in Workers : pc[w] # "idle" => job[w].sub # n
  /\ \A j \in Jobs : j.sub = n => waiting[j] <= 1
  /\ \A i, j \in Jobs : i.sub = n /\ j.sub = n /\ waiting[i] > 0 /\ waiting[j] > 0 => i = j
  /\ \A j \in Jobs : j.sub = n /\ waiting[j] > 0 =>
       \A w \in Workers : pc[w] # "idle" => job[w].sub # n
  /\ \A v, w \in Workers : pc[v] # "idle" /\ pc[w] # "idle" /\ job[v].sub = n /\ job[w].sub = n => v = w

LEMMA JobsStay ==
  ASSUME NEW n \in Subs, Alone(n), UNCHANGED <<unqueued, waiting, job>>,
         \A w \in Workers : pc'[w] # "idle" => pc[w] # "idle"
  PROVE  Alone(n)'
BY DEF Alone

\* The worker lets go of its job, which may go back to the queue.
LEMMA JobsReturn ==
  ASSUME TypeOK, NEW n \in Subs, Alone(n), NEW w \in Workers, pc[w] # "idle", EndJob(w),
         UNCHANGED unqueued, NEW k, k.sub = job[w].sub,
         \A j \in Jobs : waiting'[j] = waiting[j] \/ (j = k /\ waiting'[j] = waiting[j] + 1)
  PROVE  Alone(n)'
<1>1. \A v \in Workers : (v = w /\ pc'[v] = "idle") \/ (v # w /\ pc'[v] = pc[v] /\ job'[v] = job[v])
  BY DEF EndJob, TypeOK
<1>2. CASE job[w].sub = n
  <2>1. n \notin unqueued'  BY <1>2 DEF Alone
  <2>2. \A j \in Jobs : j.sub = n => waiting[j] = 0  BY <1>2 DEF Alone, TypeOK
  <2>3. \A j \in Jobs : j.sub = n => waiting'[j] = 0 \/ (j = k /\ waiting'[j] = 1)
    BY <2>2
  <2>4. \A v \in Workers : pc'[v] # "idle" => job'[v].sub # n
    BY <1>1, <1>2 DEF Alone
  <2> QED BY <2>1, <2>3, <2>4 DEF Alone
<1>3. CASE job[w].sub # n
  <2>1. \A j \in Jobs : j.sub = n => waiting'[j] = waiting[j]  BY <1>3
  <2> QED BY <1>1, <2>1 DEF Alone
<1> QED BY <1>2, <1>3

LEMMA JobsRetry ==
  ASSUME TypeOK, NEW n \in Subs, Alone(n), NEW w \in Workers, pc[w] # "idle", Retry(w),
         UNCHANGED unqueued
  PROVE  Alone(n)'
<1> DEFINE k == [job[w] EXCEPT !.left = @ - 1]
<1>1. k.sub = job[w].sub
  <2>1. job[w] \in Jobs  BY DEF TypeOK
  <2> QED BY <2>1 DEF Jobs
<1>2. \A j \in Jobs : waiting'[j] = waiting[j] \/ (j = k /\ waiting'[j] = waiting[j] + 1)
  BY DEF Retry
<1>3. EndJob(w)  BY DEF Retry
<1> HIDE DEF k
<1> QED BY <1>1, <1>2, <1>3, JobsReturn

LEMMA JobsEnd ==
  ASSUME TypeOK, NEW n \in Subs, Alone(n), NEW w \in Workers, pc[w] # "idle", EndJob(w),
         UNCHANGED <<unqueued, waiting>>
  PROVE  Alone(n)'
<1>1. PICK k : k = job[w]  OBVIOUS
<1> QED BY <1>1, JobsReturn

LEMMA JobsWorker ==
  ASSUME TypeOK, NEW n \in Subs, Alone(n), NEW w \in Workers,
         WorkerStep(w) \/ DatabaseFails(w) \/ WorkerDies(w)
  PROVE  Alone(n)'
<1>1. CASE TakeJob(w)
  <2>1. PICK j \in Jobs :
          /\ waiting[j] > 0
          /\ waiting' = [waiting EXCEPT ![j] = @ - 1]
          /\ \/ UNCHANGED workVars
             \/ /\ job' = [job EXCEPT ![w] = j]
                /\ pc' = [pc EXCEPT ![w] = "read"]
    BY <1>1 DEF TakeJob
  <2>2. waiting'[j] = waiting[j] - 1 /\ \A i \in Jobs \ {j} : waiting'[i] = waiting[i]
    BY <2>1 DEF TypeOK
  <2>3. unqueued' = unqueued /\ \A i \in Jobs : waiting[i] \in Nat
    BY <1>1 DEF TakeJob, TypeOK
  <2>4. \A v \in Workers : \/ pc'[v] = pc[v] /\ job'[v] = job[v]
                           \/ v = w /\ job'[v] = j
    BY <2>1 DEF TypeOK
  <2>5. CASE j.sub = n
    <3>1. n \notin unqueued  BY <2>1, <2>5 DEF Alone
    <3>2. \A i \in Jobs : i.sub = n => waiting'[i] = 0
      BY <2>1, <2>2, <2>3, <2>5 DEF Alone
    <3>3. \A v \in Workers : pc[v] # "idle" => job[v].sub # n  BY <2>1, <2>5 DEF Alone
    <3> QED BY <2>3, <2>4, <3>1, <3>2, <3>3 DEF Alone
  <2>6. CASE j.sub # n
    <3>1. \A i \in Jobs : i.sub = n => waiting'[i] = waiting[i]  BY <2>2, <2>6
    <3>2. \A v \in Workers : pc'[v] # "idle" /\ job'[v].sub = n => pc[v] # "idle" /\ job[v].sub = n
      BY <2>4, <2>6
    <3> QED BY <2>3, <3>1, <3>2 DEF Alone
  <2> QED BY <2>5, <2>6
<1>2. CASE \/ ReadChainNonce(w) \/ CheckNewer(w) \/ Resequence(w) \/ MarkSubmitted(w)
           \/ Send(w) \/ PollSucceeds(w) \/ ChainFails(w) \/ SaveConfirmed(w)
  <2>1. UNCHANGED <<unqueued, waiting, job>> /\ pc[w] # "idle"
    BY <1>2 DEF ReadChainNonce, CheckNewer, Resequence, MarkSubmitted, Send,
                PollSucceeds, ChainFails, SaveConfirmed
  <2>2. \A v \in Workers \ {w} : pc'[v] = pc[v]
    BY <1>2 DEF ReadChainNonce, CheckNewer, Resequence, MarkSubmitted, Send,
                PollSucceeds, ChainFails, SaveConfirmed, TypeOK
  <2> QED BY <2>1, <2>2, JobsStay
<1>3. CASE MappingFails(w) \/ SaveFailed(w)
  BY <1>3, JobsRetry DEF MappingFails, SaveFailed
<1>4. CASE SaveStale(w) \/ Credit(w)
  BY <1>4, JobsEnd DEF SaveStale, Credit
<1>5. ASSUME Throw(w), pc[w] # "idle", UNCHANGED unqueued PROVE Alone(n)'
  <2>1. CASE Retry(w)  BY <1>5, <2>1, JobsRetry
  <2>2. CASE pc' = [pc EXCEPT ![w] = "fail"] /\ UNCHANGED <<waiting, job, held, seen>>
    BY <1>5, <2>2, JobsStay DEF TypeOK
  <2> QED BY <1>5, <2>1, <2>2 DEF Throw
<1>6. CASE AttemptFails(w)  BY <1>5, <1>6 DEF AttemptFails, Saving
<1>7. CASE DatabaseFails(w)  BY <1>5, <1>7, JobsEnd DEF DatabaseFails, Saving
<1>8. CASE WorkerDies(w)
  <2> DEFINE k == [job[w] EXCEPT !.stalled = TRUE]
  <2>1. k.sub = job[w].sub
    <3>1. job[w] \in Jobs  BY <1>8 DEF WorkerDies, TypeOK
    <3> QED BY <3>1 DEF Jobs
  <2>2. \A j \in Jobs : waiting'[j] = waiting[j] \/ (j = k /\ waiting'[j] = waiting[j] + 1)
    BY <1>8 DEF WorkerDies
  <2> HIDE DEF k
  <2> QED BY <1>8, <2>1, <2>2, JobsReturn DEF WorkerDies
<1> QED BY <1>1, <1>2, <1>3, <1>4, <1>6, <1>7, <1>8 DEF WorkerStep

\* A new job of a row that has none, or of another row.
LEMMA JobsAdd ==
  ASSUME TypeOK, NEW n \in Subs, Alone(n), NEW m \in Subs, AddJob(m),
         m = n => n \in unqueued /\ n \notin unqueued',
         unqueued' \subseteq unqueued, UNCHANGED <<pc, job>>
  PROVE  Alone(n)'
<1> DEFINE k == [sub |-> m, left |-> Attempts, stalled |-> FALSE]
<1>1. waiting' = [waiting EXCEPT ![k] = @ + 1]  BY DEF AddJob
<1>2. k.sub = m  OBVIOUS
<1> HIDE DEF k
<1>3. \A j \in Jobs : waiting'[j] = IF j = k THEN waiting[j] + 1 ELSE waiting[j]
  BY <1>1 DEF TypeOK
<1>4. CASE m = n
  <2>1. \A j \in Jobs : j.sub = n => waiting'[j] = IF j = k THEN 1 ELSE 0
    BY <1>3, <1>4 DEF Alone
  <2>2. \A v \in Workers : pc[v] # "idle" => job[v].sub # n  BY <1>4 DEF Alone
  <2> QED BY <1>4, <2>1, <2>2 DEF Alone
<1>5. CASE m # n
  <2>1. \A j \in Jobs : j.sub = n => waiting'[j] = waiting[j]  BY <1>2, <1>3, <1>5
  <2> QED BY <2>1 DEF Alone
<1> QED BY <1>4, <1>5

LEMMA JobsTrigger ==
  ASSUME TypeOK, NEW n \in Subs, Alone(n), NEW m \in Subs,
         Enqueue(m) \/ EnqueueFails(m) \/ \E p \in Projects : TriggerSubmission(m, p)
  PROVE  Alone(n)'
<1>1. CASE Enqueue(m)
  BY <1>1, JobsAdd DEF Enqueue
<1>2. CASE EnqueueFails(m)
  BY <1>2 DEF EnqueueFails, Alone
<1>3. CASE \E p \in Projects : TriggerSubmission(m, p)
  <2>1. m \notin Rows /\ unqueued' = unqueued \cup {m} /\ UNCHANGED <<waiting, pc, job>>
    BY <1>3 DEF TriggerSubmission
  <2>2. \A j \in Jobs : j.sub = m => waiting[j] = 0  BY <2>1 DEF TypeOK
  <2>3. \A w \in Workers : pc[w] # "idle" => job[w].sub # m  BY <2>1 DEF TypeOK
  <2> QED BY <2>1, <2>2, <2>3 DEF Alone
<1> QED BY <1>1, <1>2, <1>3

\* What the chain, the indexer and most steps of reconcile do.
LEMMA JobsBesides ==
  ASSUME NEW n \in Subs, Alone(n), UNCHANGED <<unqueued, waiting, pc, job>>
  PROVE  Alone(n)'
BY DEF Alone

-----------------------------------------------------------------------------
(* Nonces of a submission, on one contract                                 *)

\* While it has not landed, a row is in one place; reconcile only gives new jobs
\* to rows that have.
Exclusive == \A n \in Subs : ~Landed(n) => Alone(n)

LEMMA ExclusiveStays ==
  ASSUME Exclusive, landed \subseteq landed',
         \A n \in Subs : ~Landed(n) /\ Alone(n) => Alone(n)'
  PROVE  Exclusive'
BY DEF Exclusive, Landed

\* Rows of a project differ in their nonces; a worker holds its row's nonce,
\* except while it persists a new one, and then nothing was sent for the row.
Unique    == \A n, m \in Rows : n # m /\ project[n] = project[m] => row[n].nonce # row[m].nonce
OwnNonce  == \A w \in Workers : pc[w] \notin {"idle", "resequence"} =>
               held[w].nonce = row[job[w].sub].nonce
SentOwn   == \A tx \in sent : tx[2] = row[tx[1]].nonce /\ tx[2] <= chainNonce + 1
Unsent    == \A w \in Workers : pc[w] \in {"check", "resequence"} =>
               \A tx \in sent : tx[1] # job[w].sub
IdxLanded == \A i \in Indexers : idxPc[i] = "save" =>
               idxRow[i].nonce = row[idxRow[i].sub].nonce /\ Landed(idxRow[i].sub)

\* Nonces start at 1, and the contract accepted each one up to its own.
Positive  == /\ \A n \in Rows : row[n].nonce >= 1
             /\ \A w \in Workers : pc[w] = "resequence" => held[w].nonce >= 1
AllLanded == \A k \in Nat : k >= 1 /\ k <= chainNonce => \E tx \in landed : tx[2] = k

\* A submission that landed, or whose nonce another project's took.
Excused(n, k) == \/ Landed(n)
                 \/ \E m \in Rows : project[m] # project[n] /\ <<m, k>> \in landed
RowsExcused == \A n \in Rows : row[n].status = "confirmed" => Excused(n, row[n].nonce)
WorkExcused == \A w \in Workers : pc[w] = "confirm" => Excused(job[w].sub, held[w].nonce)

\* Reconcile takes rows in hand that landed, each under the nonce it shows; of the
\* stale ones, the first shows no nonce below the next it gives.
LandedOnly(r) ==
  /\ recPc[r] \in {"idle", "again", "stale"} => recRows[r] = {}
  /\ recPc[r] = "stale" => recChain[r] <= recAgain[r]
  /\ \A e \in recRows[r] : Landed(e.sub) /\ e.nonce = row[e.sub].nonce
  /\ \A e, f \in recRows[r] : e.nonce = f.nonce => e = f
  /\ recPc[r] = "renumber" => \A e \in recRows[r] : 1 <= recNext[r] /\ recNext[r] <= e.nonce
  /\ recPc[r] = "requeue" =>
       Landed(recRow[r].sub) /\ \A e \in recRows[r] : recNext[r] < e.nonce
RecLanded == \A r \in Reconcilers : LandedOnly(r)

NonceInv == Exclusive /\ Unique /\ OwnNonce /\ SentOwn /\ Unsent /\ IdxLanded
            /\ Positive /\ AllLanded /\ RowsExcused /\ WorkExcused /\ RecLanded
OneContract == resets = 0 => NonceInv

\* What the theorems of this section assume: no reconciliation, or one project.
Undisturbed == Reconcilers = {} \/ \A p, q \in Projects : p = q

\* The rows are the same, under the same nonces.
NoncesKept == /\ Rows' = Rows /\ project' = project
              /\ \A n \in Rows : row'[n].nonce = row[n].nonce

LEMMA SaveKeepsNonces ==
  ASSUME TypeOK, NEW e \in RowType, e.sub \in Rows, e.status # "absent",
         e.nonce = row[e.sub].nonce, Save(e)
  PROVE  /\ NoncesKept
         /\ \A n \in Rows : row'[n].status = row[n].status \/ (n = e.sub /\ row'[n].status = e.status)
<1>1. e.sub \in Subs /\ row' = [row EXCEPT ![e.sub] = e] /\ project' = project
  BY DEF Save, Rows
<1>2. \A n \in Subs : row'[n] = IF n = e.sub THEN e ELSE row[n]
  BY <1>1 DEF TypeOK
<1> QED BY <1>1, <1>2 DEF NoncesKept, Rows

LEMMA HeldKeepsNonces ==
  ASSUME TypeOK, OwnNonce, NEW w \in Workers, pc[w] \notin {"idle", "resequence"},
         NEW s \in Status \ {"absent"}, Save([held[w] EXCEPT !.status = s])
  PROVE  /\ NoncesKept
         /\ \A n \in Rows : row'[n].status = row[n].status \/ (n = job[w].sub /\ row'[n].status = s)
<1> DEFINE e == [held[w] EXCEPT !.status = s]
<1>1. held[w] \in RowType /\ held[w].sub \in Rows /\ held[w].sub = job[w].sub  BY DEF TypeOK
<1>2. /\ e \in RowType /\ e.sub = job[w].sub /\ e.sub \in Rows /\ e.status = s
      /\ e.status # "absent" /\ e.nonce = row[e.sub].nonce
  BY <1>1 DEF RowType, OwnNonce
<1> HIDE DEF e
<1>3. Save(e)  BY DEF e
<1> QED BY <1>2, <1>3, SaveKeepsNonces

\* A step beside reconcile that changes no nonce of a landed row.
LEMMA RecKept ==
  ASSUME TypeOK, RecLanded, UNCHANGED recVars, landed \subseteq landed',
         \A n \in Rows : Landed(n) => row'[n].nonce = row[n].nonce
  PROVE  RecLanded'
<1>1. \A n \in Subs : Landed(n) => Landed(n)'  BY DEF Landed
<1>2. \A r \in Reconcilers : \A e \in recRows[r] : e.sub \in Rows /\ e.sub \in Subs
  BY DEF TypeOK, Rows
<1>3. \A r \in Reconcilers : recPc[r] = "requeue" => recRow[r].sub \in Subs
  BY DEF TypeOK, Rows
<1> QED BY <1>1, <1>2, <1>3 DEF RecLanded, LandedOnly

\* A worker's step that keeps the nonces and sends nothing.
LEMMA WorkerKeeps ==
  ASSUME TypeOK, TypeOK', NonceInv, Exclusive', NoncesKept, NEW w \in Workers,
         UNCHANGED <<chainVars, idxVars, recVars>>,
         \A v \in Workers \ {w} : pc'[v] = pc[v] /\ job'[v] = job[v] /\ held'[v] = held[v],
         pc'[w] \notin {"idle", "resequence"} => held'[w].nonce = row[job'[w].sub].nonce,
         pc'[w] \in {"check", "resequence"} => \A tx \in sent : tx[1] # job'[w].sub,
         pc'[w] = "resequence" => held'[w].nonce >= 1,
         pc'[w] = "confirm" => Excused(job'[w].sub, held'[w].nonce),
         \A n \in Rows : row'[n].status = "confirmed" =>
           row[n].status = "confirmed" \/ Excused(n, row[n].nonce)
  PROVE  NonceInv'
<1> USE DEF NonceInv
<1>1. \A v \in Workers : pc'[v] # "idle" => job'[v].sub \in Rows
  BY DEF TypeOK, NoncesKept
<1>2. \A tx \in sent : tx[1] \in Rows  BY DEF TypeOK
<1>3. \A i \in Indexers : idxPc[i] = "save" => idxRow[i].sub \in Rows  BY DEF TypeOK
<1>5. Unique'     BY DEF Unique, NoncesKept
<1>6. OwnNonce'   BY <1>1 DEF OwnNonce, NoncesKept
<1>7. SentOwn'    BY <1>2 DEF SentOwn, NoncesKept
<1>8. Unsent'     BY DEF Unsent
<1>9. IdxLanded'  BY <1>3 DEF IdxLanded, Landed, NoncesKept
<1>10. Positive'  BY DEF Positive, NoncesKept
<1>11. AllLanded' BY DEF AllLanded
<1>12. RowsExcused'
  <2>1. \A n \in Rows : row'[n].status = "confirmed" => Excused(n, row[n].nonce)
    BY DEF RowsExcused
  <2> QED BY <2>1 DEF RowsExcused, Excused, Landed, NoncesKept
<1>13. WorkExcused'
  <2>1. \A v \in Workers : pc'[v] = "confirm" => Excused(job'[v].sub, held'[v].nonce)
    BY DEF WorkExcused
  <2> QED BY <2>1 DEF WorkExcused, Excused, Landed, NoncesKept
<1>14. RecLanded'  BY RecKept DEF NoncesKept
<1> QED BY <1>5, <1>6, <1>7, <1>8, <1>9, <1>10, <1>11, <1>12, <1>13, <1>14

\* Its nonce is the chain's: it landed, or another project's submission did.
LEMMA ConfirmExcused ==
  ASSUME TypeOK, NonceInv, NEW n \in Rows, row[n].nonce = chainNonce
  PROVE  Excused(n, chainNonce)
<1>1. chainNonce \in Nat /\ chainNonce >= 1  BY DEF TypeOK, NonceInv, Positive
<1>2. PICK tx \in landed : tx[2] = chainNonce  BY <1>1 DEF NonceInv, AllLanded
<1>3. tx \in sent /\ tx[1] \in Rows /\ tx = <<tx[1], tx[2]>>  BY DEF TypeOK
<1>4. row[tx[1]].nonce = row[n].nonce  BY <1>2, <1>3 DEF NonceInv, SentOwn
<1>5. tx[1] = n \/ project[tx[1]] # project[n]  BY <1>3, <1>4 DEF NonceInv, Unique
<1> QED BY <1>2, <1>3, <1>5 DEF Excused, Landed

\* Steps of a worker that write no row.
LEMMA NoncesRead ==
  ASSUME TypeOK, TypeOK', NonceInv, Exclusive', NEW w \in Workers,
         \/ TakeJob(w) \/ ReadChainNonce(w) \/ CheckNewer(w) \/ PollSucceeds(w)
         \/ ChainFails(w)
  PROVE  NonceInv'
<1>1. UNCHANGED <<rowVars, chainVars, idxVars, recVars>> /\ NoncesKept
  <2>1. UNCHANGED <<rowVars, chainVars, idxVars, recVars>>
    BY DEF TakeJob, ReadChainNonce, CheckNewer, PollSucceeds, ChainFails
  <2> QED BY <2>1 DEF NoncesKept, Rows
<1>2. \A v \in Workers \ {w} : pc'[v] = pc[v] /\ job'[v] = job[v] /\ held'[v] = held[v]
  BY DEF TakeJob, ReadChainNonce, CheckNewer, PollSucceeds, ChainFails, TypeOK
<1>3. held[w] \in RowType /\ chainNonce \in Nat /\ seen[w] \in Nat  BY DEF TypeOK
<1>4. pc[w] \notin {"idle", "resequence"} =>
        held[w].nonce = row[job[w].sub].nonce /\ job[w].sub \in Rows
  BY DEF NonceInv, OwnNonce, TypeOK
<1>5. CASE TakeJob(w)
  <2>1. \/ UNCHANGED workVars
        \/ pc'[w] = "read" /\ held'[w] = row[job'[w].sub]
    BY <1>5 DEF TakeJob, TypeOK
  <2>2. CASE UNCHANGED workVars
    <3>1. pc[w] = "idle"  BY <1>5 DEF TakeJob
    <3> QED BY <1>1, <1>2, <2>2, <3>1, WorkerKeeps
  <2>3. CASE pc'[w] = "read" /\ held'[w] = row[job'[w].sub]
    BY <1>1, <1>2, <2>3, WorkerKeeps
  <2> QED BY <2>1, <2>2, <2>3
<1>6. CASE ReadChainNonce(w)
  <2>1. /\ pc'[w] = AfterRead(held[w].nonce, chainNonce) /\ job' = job
        /\ held'[w].nonce = held[w].nonce /\ pc[w] = "read"
    BY <1>3, <1>6 DEF ReadChainNonce, TypeOK, RowType
  <2>2. /\ pc'[w] \in {"mark", "confirm", "stale", "check"}
        /\ pc'[w] = "check" => held[w].nonce > chainNonce + 1
        /\ pc'[w] = "confirm" => held[w].nonce = chainNonce
    BY <1>3, <2>1 DEF AfterRead, RowType
  <2>3. pc'[w] = "check" => \A tx \in sent : tx[1] # job'[w].sub
    <3>1. \A tx \in sent : tx[2] \in Nat  BY DEF TypeOK
    <3> QED BY <1>3, <1>4, <2>1, <2>2, <3>1 DEF NonceInv, SentOwn, RowType
  <2>4. pc'[w] = "confirm" => Excused(job'[w].sub, held'[w].nonce)
    BY <1>4, <2>1, <2>2, ConfirmExcused
  <2> QED BY <1>1, <1>2, <1>4, <2>1, <2>2, <2>3, <2>4, WorkerKeeps
<1>7. CASE CheckNewer(w)
  <2>1. /\ pc[w] = "check" /\ job' = job
        /\ \/ pc'[w] = "stale" /\ held'[w] = held[w]
           \/ pc'[w] = "resequence" /\ held'[w].nonce = seen[w] + 1
    BY <1>3, <1>7 DEF CheckNewer, TypeOK, RowType
  <2>2. \A tx \in sent : tx[1] # job'[w].sub  BY <2>1 DEF NonceInv, Unsent
  <2>3. pc'[w] = "resequence" => held'[w].nonce >= 1  BY <1>3, <2>1
  <2> QED BY <1>1, <1>2, <1>4, <2>1, <2>2, <2>3, WorkerKeeps
<1>8. CASE PollSucceeds(w)
  <2>1. /\ pc[w] = "poll" /\ pc'[w] = "confirm" /\ job' = job
        /\ held'[w].nonce = held[w].nonce
        /\ <<job[w].sub, held[w].nonce>> \in landed
    BY <1>3, <1>8 DEF PollSucceeds, TypeOK, RowType
  <2>2. Excused(job'[w].sub, held'[w].nonce)  BY <2>1 DEF Excused, Landed
  <2> QED BY <1>1, <1>2, <1>4, <2>1, <2>2, WorkerKeeps
<1>9. CASE ChainFails(w)
  <2>1. pc[w] \in {"send", "poll"} /\ pc'[w] = "fail" /\ job' = job /\ held' = held
    BY <1>9 DEF ChainFails, TypeOK
  <2> QED BY <1>1, <1>2, <1>4, <2>1, WorkerKeeps
<1> QED BY <1>5, <1>6, <1>7, <1>8, <1>9

\* Steps of a worker that save the row, its nonce as it was.
LEMMA NoncesSave ==
  ASSUME TypeOK, TypeOK', NonceInv, Exclusive', NEW w \in Workers,
         \/ MappingFails(w) \/ MarkSubmitted(w) \/ SaveFailed(w) \/ SaveStale(w)
         \/ SaveConfirmed(w)
  PROVE  NonceInv'
<1>1. pc[w] \notin {"idle", "resequence"} /\ UNCHANGED <<chainVars, idxVars, recVars>>
  BY DEF MappingFails, MarkSubmitted, SaveFailed, SaveStale, SaveConfirmed
<1>2. \A v \in Workers \ {w} : pc'[v] = pc[v] /\ job'[v] = job[v] /\ held'[v] = held[v]
  BY DEF MappingFails, MarkSubmitted, SaveFailed, SaveStale, SaveConfirmed, Retry, EndJob, TypeOK
<1>3. held[w].nonce = row[job[w].sub].nonce /\ job[w].sub \in Rows
  BY <1>1 DEF NonceInv, OwnNonce, TypeOK
<1>4. CASE MappingFails(w) \/ SaveFailed(w) \/ SaveStale(w)
  <2>1. NoncesKept /\ \A n \in Rows : row'[n].status = "confirmed" => row[n].status = "confirmed"
    BY <1>1, <1>4, HeldKeepsNonces
       DEF MappingFails, SaveFailed, SaveStale, Status, NonceInv
  <2>2. pc'[w] = "idle"
    BY <1>4 DEF MappingFails, SaveFailed, SaveStale, Retry, EndJob, TypeOK
  <2> QED BY <1>1, <1>2, <2>1, <2>2, WorkerKeeps
<1>5. CASE MarkSubmitted(w)
  <2>1. NoncesKept /\ \A n \in Rows : row'[n].status = "confirmed" => row[n].status = "confirmed"
    BY <1>1, <1>5, HeldKeepsNonces DEF MarkSubmitted, Status, NonceInv
  <2>2. pc'[w] = "send" /\ job' = job /\ held' = held
    BY <1>5 DEF MarkSubmitted, TypeOK
  <2> QED BY <1>1, <1>2, <1>3, <2>1, <2>2, WorkerKeeps
<1>6. CASE SaveConfirmed(w)
  <2>1. /\ NoncesKept
        /\ \A n \in Rows : row'[n].status = row[n].status \/ n = job[w].sub
    BY <1>1, <1>6, HeldKeepsNonces DEF SaveConfirmed, Status, NonceInv
  <2>2. pc[w] = "confirm" /\ pc'[w] = "credit" /\ job' = job /\ held' = held
    BY <1>6 DEF SaveConfirmed, TypeOK
  <2>3. \A n \in Rows : row'[n].status = "confirmed" =>
          row[n].status = "confirmed" \/ Excused(n, row[n].nonce)
    BY <1>3, <2>1, <2>2 DEF NonceInv, WorkExcused
  <2> QED BY <1>1, <1>2, <1>3, <2>1, <2>2, <2>3, WorkerKeeps
<1> QED BY <1>4, <1>5, <1>6

\* Steps that end or abort an attempt without a save.
LEMMA NoncesEnd ==
  ASSUME TypeOK, TypeOK', NonceInv, Exclusive', NEW w \in Workers,
         Credit(w) \/ AttemptFails(w) \/ DatabaseFails(w) \/ WorkerDies(w)
  PROVE  NonceInv'
<1>1. UNCHANGED <<rowVars, chainVars, idxVars, recVars>> /\ NoncesKept
  <2>1. UNCHANGED <<rowVars, chainVars, idxVars, recVars>>
    BY DEF Credit, AttemptFails, DatabaseFails, WorkerDies
  <2> QED BY <2>1 DEF NoncesKept, Rows
<1>2. ASSUME EndJob(w) PROVE NonceInv'
  <2>1. /\ pc'[w] = "idle"
        /\ \A v \in Workers \ {w} : pc'[v] = pc[v] /\ job'[v] = job[v] /\ held'[v] = held[v]
    BY <1>2 DEF EndJob, TypeOK
  <2> QED BY <1>1, <2>1, WorkerKeeps
<1>3. ASSUME Throw(w) PROVE NonceInv'
  <2>1. CASE pc[w] = "mark" /\ pc' = [pc EXCEPT ![w] = "fail"] /\ UNCHANGED <<job, held>>
    <3>1. /\ pc'[w] = "fail"
          /\ \A v \in Workers \ {w} : pc'[v] = pc[v] /\ job'[v] = job[v] /\ held'[v] = held[v]
      BY <2>1 DEF TypeOK
    <3>2. held'[w].nonce = row[job'[w].sub].nonce
      BY <2>1 DEF NonceInv, OwnNonce
    <3> QED BY <1>1, <3>1, <3>2, WorkerKeeps
  <2> QED BY <1>2, <1>3, <2>1 DEF Throw, Retry
<1> QED BY <1>2, <1>3 DEF Credit, AttemptFails, DatabaseFails, WorkerDies

\* A new nonce: nothing was sent for the row, and no one else holds it.
LEMMA NoncesResequence ==
  ASSUME TypeOK, TypeOK', NonceInv, Exclusive', NEW w \in Workers, Resequence(w)
  PROVE  NonceInv'
<1> USE DEF NonceInv
<1> DEFINE e == held[w]
<1>1. /\ e \in RowType /\ e.sub \in Rows /\ e.sub = job[w].sub /\ e.sub \in Subs
      /\ e.status \notin {"absent", "confirmed"}
      /\ pc[w] = "resequence" /\ ~Taken(e) /\ row' = [row EXCEPT ![e.sub] = e]
      /\ pc' = [pc EXCEPT ![w] = "mark"]
      /\ UNCHANGED <<project, job, held, chainVars, idxVars, recVars>>
  BY DEF Resequence, Save, TypeOK, Rows
<1>2. \A n \in Subs : row'[n] = IF n = e.sub THEN e ELSE row[n]  BY <1>1 DEF TypeOK
<1>3. Rows' = Rows  BY <1>1, <1>2 DEF Rows
<1>4. \A tx \in sent : tx[1] # e.sub /\ tx[1] \in Rows  BY <1>1 DEF Unsent, TypeOK
<1>5. \A v \in Workers \ {w} : /\ pc'[v] = pc[v]
                               /\ pc[v] # "idle" => job[v].sub # e.sub /\ job[v].sub \in Rows
  <2>1. ~Landed(e.sub)  BY <1>4 DEF Landed, TypeOK
  <2>2. Alone(e.sub)  BY <1>1, <2>1 DEF Exclusive
  <2> QED BY <1>1, <2>2 DEF Alone, TypeOK
<1>6. pc'[w] = "mark"  BY <1>1 DEF TypeOK
<1>7. Unique'
  <2>1. \A m \in Rows \ {e.sub} : project[m] = project[e.sub] => row[m].nonce # e.nonce
    BY <1>1 DEF Taken
  <2> QED BY <1>1, <1>2, <1>3, <2>1 DEF Unique, Rows
<1>8. OwnNonce'  BY <1>1, <1>2, <1>5, <1>6 DEF OwnNonce, Rows
<1>9. SentOwn'  BY <1>1, <1>2, <1>4 DEF SentOwn, Rows
<1>10. Unsent'  BY <1>1, <1>5, <1>6 DEF Unsent
<1>11. IdxLanded'
  <2>1. \A i \in Indexers : idxPc[i] = "save" => idxRow[i].sub # e.sub /\ idxRow[i].sub \in Rows
    <3>1. \A tx \in landed : tx \in sent  BY DEF TypeOK
    <3> QED BY <1>4, <3>1 DEF IdxLanded, Landed, TypeOK
  <2> QED BY <1>1, <1>2, <2>1 DEF IdxLanded, Landed, Rows
<1>12. Positive'
  <2>1. e.nonce >= 1  BY <1>1 DEF Positive
  <2>2. \A n \in Rows' : row'[n].nonce >= 1  BY <1>2, <1>3, <2>1 DEF Positive, Rows
  <2> QED BY <1>1, <1>5, <1>6, <2>2 DEF Positive
<1>13. AllLanded'  BY <1>1 DEF AllLanded
<1>14. RowsExcused'
  <2>1. \A n \in Rows : row'[n].status = "confirmed" => row'[n] = row[n]
    BY <1>1, <1>2 DEF Rows
  <2> QED BY <1>1, <1>3, <2>1 DEF RowsExcused, Excused, Landed
<1>15. WorkExcused'
  BY <1>1, <1>3, <1>5, <1>6 DEF WorkExcused, Excused, Landed
<1>16. RecLanded'
  <2>1. \A n \in Rows : Landed(n) => n # e.sub  BY <1>4 DEF Landed, TypeOK
  <2> QED BY <1>1, <1>2, <2>1, RecKept DEF Rows
<1> QED BY <1>7, <1>8, <1>9, <1>10, <1>11, <1>12, <1>13, <1>14, <1>15, <1>16

LEMMA NoncesSend ==
  ASSUME TypeOK, TypeOK', NonceInv, Exclusive', NEW w \in Workers, Send(w)
  PROVE  NonceInv'
<1> USE DEF NonceInv
<1> DEFINE t == <<job[w].sub, held[w].nonce>>
<1>1. /\ pc[w] = "send" /\ held[w].nonce = chainNonce + 1 /\ sent' = sent \cup {t}
      /\ pc' = [pc EXCEPT ![w] = "poll"]
      /\ UNCHANGED <<rowVars, job, held, chainNonce, landed, idxVars, recVars>>
  BY DEF Send
<1>2. Rows' = Rows  BY <1>1 DEF Rows
<1>3. held[w].nonce = row[job[w].sub].nonce  BY <1>1 DEF OwnNonce
<1>4. pc'[w] = "poll" /\ \A v \in Workers \ {w} : pc'[v] = pc[v]
  BY <1>1 DEF TypeOK
<1>5. \A v \in Workers \ {w} : pc[v] \in {"check", "resequence"} => job[v].sub # job[w].sub
  <2>1. job[w].sub \in Subs /\ \A tx \in landed : tx \in sent  BY <1>1 DEF TypeOK, Rows
  <2>2. CASE Landed(job[w].sub)  BY <2>1, <2>2 DEF Landed, Unsent
  <2>3. CASE ~Landed(job[w].sub)
    <3>1. Alone(job[w].sub)  BY <2>1, <2>3 DEF Exclusive
    <3> QED BY <1>1, <3>1 DEF Alone
  <2> QED BY <2>2, <2>3
<1>6. t[1] = job[w].sub /\ t[2] = held[w].nonce  OBVIOUS
<1> HIDE DEF t
<1>7. SentOwn'
  <2>1. chainNonce \in Nat  BY DEF TypeOK
  <2> QED BY <1>1, <1>3, <1>6, <2>1 DEF SentOwn
<1>8. Unsent'  BY <1>1, <1>4, <1>5, <1>6 DEF Unsent
<1>9. Unique' /\ OwnNonce' /\ IdxLanded' /\ Positive' /\ AllLanded'
  BY <1>1, <1>2, <1>3, <1>4 DEF Unique, OwnNonce, IdxLanded, Landed, Positive, AllLanded
<1>10. RowsExcused'  BY <1>1, <1>2 DEF RowsExcused, Excused, Landed
<1>11. WorkExcused'  BY <1>1, <1>2, <1>4 DEF WorkExcused, Excused, Landed
<1>12. RecLanded'  BY <1>1, RecKept
<1> QED BY <1>7, <1>8, <1>9, <1>10, <1>11, <1>12

LEMMA NoncesChain ==
  ASSUME TypeOK, TypeOK', NonceInv, Exclusive', NEW tx \in flying, Land(tx) \/ Drop(tx)
  PROVE  NonceInv'
<1> USE DEF NonceInv
<1>1. UNCHANGED <<rowVars, sent, workVars, idxVars, recVars>> /\ Rows' = Rows
  BY DEF Land, Drop, Rows
<1>2. /\ landed \subseteq landed' /\ chainNonce <= chainNonce'
      /\ chainNonce \in Nat /\ chainNonce' \in Nat
  BY DEF Land, Drop, TypeOK
<1>3. \A t \in sent : t[2] \in Nat  BY DEF TypeOK
<1>4. SentOwn'  BY <1>1, <1>2, <1>3 DEF SentOwn
<1>5. AllLanded'
  <2>1. CASE Land(tx)
    <3>1. tx \in landed' /\ tx[2] = chainNonce' /\ chainNonce' = chainNonce + 1
      BY <2>1 DEF Land
    <3> QED BY <1>2, <3>1 DEF AllLanded
  <2>2. CASE Drop(tx)  BY <2>2 DEF Drop, AllLanded
  <2> QED BY <2>1, <2>2
<1>6. Unique' /\ OwnNonce' /\ Unsent' /\ IdxLanded' /\ Positive'
  BY <1>1, <1>2 DEF Unique, OwnNonce, Unsent, IdxLanded, Landed, Positive
<1>7. RowsExcused' /\ WorkExcused'
  BY <1>1, <1>2 DEF RowsExcused, WorkExcused, Excused, Landed
<1>8. RecLanded'  BY <1>1, <1>2, RecKept
<1> QED BY <1>4, <1>5, <1>6, <1>7, <1>8

\* A step of the indexer or of reconcile that keeps the nonces.
LEMMA BesidesKeeps ==
  ASSUME TypeOK, NonceInv, Exclusive', NoncesKept, IdxLanded', RecLanded',
         UNCHANGED <<chainVars, workVars>>,
         \A n \in Rows : row'[n].status = "confirmed" =>
           row[n].status = "confirmed" \/ Landed(n)
  PROVE  NonceInv'
<1> USE DEF NonceInv
<1>1. \A v \in Workers : pc[v] # "idle" => job[v].sub \in Rows  BY DEF TypeOK
<1>2. \A tx \in sent : tx[1] \in Rows  BY DEF TypeOK
<1>3. Unique' /\ OwnNonce' /\ SentOwn' /\ Unsent' /\ Positive' /\ AllLanded'
  BY <1>1, <1>2 DEF Unique, OwnNonce, SentOwn, Unsent, Positive, AllLanded, NoncesKept
<1>4. \A n \in Rows : row'[n].status = "confirmed" => Excused(n, row[n].nonce)
  BY DEF RowsExcused, Excused
<1>5. RowsExcused' /\ WorkExcused'
  BY <1>1, <1>4 DEF RowsExcused, WorkExcused, Excused, Landed, NoncesKept
<1> QED BY <1>3, <1>5

\* The indexer's copy is of a landed row, so its nonce is the row's.
LEMMA NoncesIndex ==
  ASSUME TypeOK, TypeOK', NonceInv, Exclusive', NEW i \in Indexers, Index(i)
  PROVE  NonceInv'
<1> USE DEF NonceInv
<1>1. UNCHANGED <<chainVars, workVars, recVars>>
  BY DEF Index, IndexerLoads, IndexerSaves, IndexerCredits, IndexerFails
<1>2. ASSUME NoncesKept, IdxLanded',
             \A n \in Rows : row'[n].status = "confirmed" =>
               row[n].status = "confirmed" \/ Landed(n)
      PROVE  NonceInv'
  BY <1>1, <1>2, RecKept, BesidesKeeps DEF NoncesKept
<1>3. ASSUME UNCHANGED rowVars PROVE NoncesKept
  BY <1>3 DEF NoncesKept, Rows
<1>4. ASSUME NEW tx \in landed, IndexerLoads(i, tx) PROVE NonceInv'
  <2>1. PICK n \in Rows : /\ project[n] = project[tx[1]] /\ row[n].nonce = tx[2]
                          /\ idxRow' = [idxRow EXCEPT ![i] = row[n]]
    BY <1>4 DEF IndexerLoads
  <2>2. tx \in sent /\ tx[1] \in Rows  BY DEF TypeOK
  <2>3. n = tx[1]  BY <2>1, <2>2 DEF SentOwn, Unique
  <2>4. idxRow'[i] = row[n] /\ row[n].sub = n /\ Landed(n)
    BY <2>1, <2>3 DEF Landed, TypeOK, Rows
  <2>5. \A q \in Indexers \ {i} : idxPc'[q] = idxPc[q] /\ idxRow'[q] = idxRow[q]
    BY <1>4 DEF IndexerLoads, TypeOK
  <2>6. UNCHANGED rowVars  BY <1>4 DEF IndexerLoads
  <2>7. IdxLanded'  BY <1>1, <2>4, <2>5, <2>6 DEF IdxLanded, Landed
  <2> QED BY <1>2, <1>3, <2>6, <2>7
<1>5. CASE IndexerSaves(i)
  <2> DEFINE e == [idxRow[i] EXCEPT !.status = "confirmed"]
  <2>1. /\ idxRow[i] \in RowType /\ idxRow[i].sub \in Rows
        /\ idxRow[i].nonce = row[idxRow[i].sub].nonce /\ Landed(idxRow[i].sub)
    BY <1>5 DEF IndexerSaves, IdxLanded, TypeOK
  <2>2. /\ e \in RowType /\ e.sub = idxRow[i].sub /\ e.sub \in Rows
        /\ e.status # "absent" /\ e.nonce = row[e.sub].nonce
    BY <2>1 DEF RowType, Status
  <2> HIDE DEF e
  <2>3. Save(e)  BY <1>5 DEF IndexerSaves, e
  <2>4. /\ NoncesKept
        /\ \A n \in Rows : row'[n].status = row[n].status \/ n = idxRow[i].sub
    BY <2>2, <2>3, SaveKeepsNonces
  <2>5. \A q \in Indexers : idxPc'[q] = "save" => idxPc[q] = "save" /\ idxRow' = idxRow
    BY <1>5 DEF IndexerSaves, TypeOK
  <2>6. IdxLanded'
    <3>1. \A q \in Indexers : idxPc[q] = "save" => idxRow[q].sub \in Rows  BY DEF TypeOK
    <3> QED BY <1>1, <2>4, <2>5, <3>1 DEF IdxLanded, Landed, NoncesKept
  <2> QED BY <1>2, <2>1, <2>4, <2>6
<1>6. CASE IndexerCredits(i) \/ IndexerFails(i)
  <2>1. UNCHANGED rowVars  BY <1>6 DEF IndexerCredits, IndexerFails
  <2>2. IdxLanded'
    BY <1>1, <1>6, <2>1 DEF IndexerCredits, IndexerFails, IdxLanded, Landed, TypeOK
  <2> QED BY <1>2, <1>3, <2>1, <2>2
<1> QED BY <1>4, <1>5, <1>6 DEF Index

LEMMA NoncesTrigger ==
  ASSUME TypeOK, TypeOK', NonceInv, Exclusive', NEW n \in Subs, NEW p \in Projects,
         TriggerSubmission(n, p)
  PROVE  NonceInv'
<1> USE DEF NonceInv
<1>1. PICK k \in TopNonce :
        row' = [row EXCEPT ![n] = [NoRow(n) EXCEPT !.status = "pending", !.nonce = k + 1]]
  BY DEF TriggerSubmission
<1> DEFINE e == [NoRow(n) EXCEPT !.status = "pending", !.nonce = k + 1]
<1>2. /\ n \notin Rows /\ project' = [project EXCEPT ![n] = p]
      /\ UNCHANGED <<chainVars, workVars, idxVars, recVars>>
  BY DEF TriggerSubmission
<1>3. e.status = "pending" /\ e.nonce = k + 1  BY DEF NoRow
<1> HIDE DEF e
<1>4. \A m \in Subs : /\ row'[m] = IF m = n THEN e ELSE row[m]
                      /\ project'[m] = IF m = n THEN p ELSE project[m]
  BY <1>1, <1>2 DEF TypeOK, e
<1>5. Rows' = Rows \cup {n} /\ \A m \in Rows : m # n /\ m \in Subs
  BY <1>2, <1>3, <1>4 DEF Rows
<1>6. k \in Nat /\ \A m \in Rows : row[m].nonce \in Nat /\ row[m].nonce <= k
  BY DEF TopNonce, Nonces, TypeOK, RowType, Rows
<1>7. Unique'  BY <1>3, <1>4, <1>5, <1>6 DEF Unique
<1>8. /\ \A v \in Workers : pc[v] # "idle" => job[v].sub \in Rows
      /\ \A tx \in sent : tx[1] \in Rows
      /\ \A i \in Indexers : idxPc[i] = "save" => idxRow[i].sub \in Rows
  BY DEF TypeOK
<1>9. OwnNonce' /\ Unsent'  BY <1>2, <1>4, <1>5, <1>8 DEF OwnNonce, Unsent
<1>10. SentOwn'  BY <1>2, <1>4, <1>5, <1>8 DEF SentOwn
<1>11. IdxLanded'  BY <1>2, <1>4, <1>5, <1>8 DEF IdxLanded, Landed
<1>12. Positive' /\ AllLanded'
  BY <1>2, <1>3, <1>4, <1>5, <1>6 DEF Positive, AllLanded
<1>13. RowsExcused'
  <2> SUFFICES ASSUME NEW m \in Rows', row'[m].status = "confirmed"
               PROVE  Excused(m, row[m].nonce)'
    BY DEF RowsExcused
  <2>1. m # n /\ m \in Rows /\ m \in Subs  BY <1>3, <1>4, <1>5
  <2>2. row'[m] = row[m] /\ project'[m] = project[m]  BY <1>4, <2>1
  <2>3. Excused(m, row[m].nonce)  BY <2>1, <2>2 DEF RowsExcused
  <2> QED BY <1>2, <1>4, <1>5, <2>2, <2>3 DEF Excused, Landed
<1>14. WorkExcused'
  BY <1>2, <1>4, <1>5, <1>8 DEF WorkExcused, Excused, Landed
<1>15. RecLanded'  BY <1>2, <1>4, <1>5, RecKept
<1> QED BY <1>7, <1>9, <1>10, <1>11, <1>12, <1>13, <1>14, <1>15

\* With one project, the rows whose nonce the chain has reached are those that landed.
LEMMA PassedLanded ==
  ASSUME TypeOK, NonceInv, \A p, q \in Projects : p = q,
         NEW n \in Rows, row[n].nonce <= chainNonce
  PROVE  Landed(n)
<1>1. row[n].nonce \in Nat /\ row[n].nonce >= 1  BY DEF TypeOK, RowType, Rows, NonceInv, Positive
<1>2. PICK tx \in landed : tx[2] = row[n].nonce  BY <1>1 DEF NonceInv, AllLanded
<1>3. tx \in sent /\ tx[1] \in Rows /\ row[tx[1]].nonce = row[n].nonce
  BY <1>2 DEF TypeOK, NonceInv, SentOwn
<1>4. project[tx[1]] = project[n]  BY <1>3 DEF TypeOK, Rows
<1>5. tx[1] = n  BY <1>3, <1>4 DEF NonceInv, Unique
<1> QED BY <1>5 DEF Landed

LEMMA RecByOne ==
  ASSUME TypeOK, RecLanded, NEW r \in Reconcilers, LandedOnly(r)', NoncesKept, landed' = landed,
         \A q \in Reconcilers \ {r} :
           /\ recPc'[q] = recPc[q] /\ recChain'[q] = recChain[q] /\ recAgain'[q] = recAgain[q]
           /\ recRows'[q] = recRows[q] /\ recNext'[q] = recNext[q] /\ recRow'[q] = recRow[q]
  PROVE  RecLanded'
<1>1. \A q \in Reconcilers : \A e \in recRows[q] : e.sub \in Rows  BY DEF TypeOK
<1>2. \A q \in Reconcilers \ {r} : LandedOnly(q)'
  BY <1>1 DEF RecLanded, LandedOnly, Landed, NoncesKept
<1> QED BY <1>2 DEF RecLanded

\* Reconcile leaves every nonce as it is: the rows it takes for stale were not
\* CONFIRMED when it read the chain, but landed since, and each keeps its nonce or
\* runs into that of the row that landed under the one it is to get.
LEMMA NoncesRenumber ==
  ASSUME TypeOK, AllBehind, NonceInv, \A p, q \in Projects : p = q,
         NEW r \in Reconcilers, Renumber(r)
  PROVE  /\ NoncesKept /\ LandedOnly(r)'
         /\ \A n \in Rows : row'[n].status = "confirmed" => row[n].status = "confirmed"
<1>1. PICK e \in First(recRows[r]) :
        /\ Save([e EXCEPT !.status = "pending", !.nonce = recNext[r]])
        /\ recRow' = [recRow EXCEPT ![r] = e]
        /\ recRows' = [recRows EXCEPT ![r] = @ \ {e}]
  BY DEF Renumber
<1> DEFINE f == [e EXCEPT !.status = "pending", !.nonce = recNext[r]]
<1>2. /\ recPc[r] = "renumber" /\ recPc' = [recPc EXCEPT ![r] = "requeue"]
      /\ UNCHANGED <<recNext, landed>>
  BY DEF Renumber
<1>3. /\ e \in RowType /\ e \in recRows[r] /\ e.sub \in Rows /\ recNext[r] \in Nat
      /\ chainNonce \in Nat
      /\ \A g \in recRows[r] : g \in RowType /\ e.nonce <= g.nonce
  BY DEF First, TypeOK
<1>4. /\ Landed(e.sub) /\ e.nonce = row[e.sub].nonce
      /\ 1 <= recNext[r] /\ recNext[r] <= e.nonce
      /\ \A g \in recRows[r] : g # e => g.nonce # e.nonce
  BY <1>2, <1>3 DEF NonceInv, RecLanded, LandedOnly
<1>5. f \in RowType /\ f.sub = e.sub /\ f.status = "pending" /\ f.nonce = recNext[r]
  BY <1>3 DEF RowType, Status
<1> HIDE DEF f
<1>6. Save(f)  BY <1>1 DEF f
<1>7. recNext[r] = e.nonce
  <2>1. e.nonce <= chainNonce
    BY <1>4 DEF Landed, NonceInv, SentOwn, AllBehind, LandedBehind, TypeOK
  <2>2. recNext[r] <= chainNonce  BY <1>3, <1>4, <2>1 DEF RowType
  <2>3. PICK tx \in landed : tx[2] = recNext[r]  BY <1>3, <1>4, <2>2 DEF NonceInv, AllLanded
  <2>4. tx \in sent /\ tx[1] \in Rows /\ row[tx[1]].nonce = recNext[r]
    BY <2>3 DEF TypeOK, NonceInv, SentOwn
  <2>5. project[tx[1]] = project[e.sub]  BY <1>3, <2>4 DEF TypeOK, Rows
  <2>6. tx[1] = e.sub  BY <1>5, <1>6, <2>4, <2>5 DEF Save, Taken
  <2> QED BY <1>4, <2>4, <2>6
<1>8. /\ NoncesKept
      /\ \A n \in Rows : row'[n].status = row[n].status \/ (n = f.sub /\ row'[n].status = f.status)
  BY <1>3, <1>4, <1>5, <1>6, <1>7, SaveKeepsNonces
<1>9. LandedOnly(r)'
  <2>1. recPc'[r] = "requeue" /\ recRow'[r] = e /\ recRows'[r] = recRows[r] \ {e}
    BY <1>1, <1>2 DEF TypeOK
  <2>2. \A g \in recRows'[r] : recNext[r] < g.nonce
    BY <1>3, <1>4, <1>7, <2>1 DEF RowType
  <2>3. \A g \in recRows[r] : g.sub \in Rows  BY DEF TypeOK
  <2>4. \A g \in recRows'[r] : Landed(g.sub) /\ g.nonce = row'[g.sub].nonce
    BY <1>8, <2>1, <2>3 DEF NonceInv, RecLanded, LandedOnly, NoncesKept
  <2>5. \A g, h \in recRows'[r] : g.nonce = h.nonce => g = h
    BY <2>1 DEF NonceInv, RecLanded, LandedOnly
  <2> QED BY <1>2, <1>4, <2>1, <2>2, <2>4, <2>5 DEF LandedOnly, Landed
<1> QED BY <1>5, <1>8, <1>9

LEMMA NoncesConfirmGap ==
  ASSUME TypeOK, NonceInv, NEW r \in Reconcilers, ConfirmGap(r)
  PROVE  /\ NoncesKept /\ LandedOnly(r)'
         /\ \A n \in Rows : row'[n].status = "confirmed" =>
              row[n].status = "confirmed" \/ Landed(n)
<1>1. PICK e \in First(recRows[r]) :
        /\ Save([e EXCEPT !.status = "confirmed", !.hash = ReconciledHash(e)])
        /\ recRows' = [recRows EXCEPT ![r] = @ \ {e}]
  BY DEF ConfirmGap
<1> DEFINE f == [e EXCEPT !.status = "confirmed", !.hash = ReconciledHash(e)]
<1>2. recPc' = [recPc EXCEPT ![r] = "credit"] /\ landed' = landed  BY DEF ConfirmGap
<1>3. e \in RowType /\ e \in recRows[r] /\ e.sub \in Rows  BY DEF First, TypeOK
<1>4. Landed(e.sub) /\ e.nonce = row[e.sub].nonce
  BY <1>3 DEF NonceInv, RecLanded, LandedOnly
<1>5. f \in RowType /\ f.sub = e.sub /\ f.nonce = e.nonce /\ f.status = "confirmed"
  <2>1. ReconciledHash(e) \in Hashes  BY <1>3 DEF ReconciledHash, Hashes, RowType
  <2> QED BY <1>3, <2>1 DEF RowType, Status
<1> HIDE DEF f
<1>6. Save(f)  BY <1>1 DEF f
<1>7. /\ NoncesKept
      /\ \A n \in Rows : row'[n].status = row[n].status \/ (n = f.sub /\ row'[n].status = f.status)
  BY <1>3, <1>4, <1>5, <1>6, SaveKeepsNonces
<1>8. LandedOnly(r)'
  <2>1. recPc'[r] = "credit" /\ recRows'[r] = recRows[r] \ {e}  BY <1>1, <1>2 DEF TypeOK
  <2>2. \A g \in recRows[r] : g.sub \in Rows  BY DEF TypeOK
  <2>3. \A g \in recRows'[r] : Landed(g.sub) /\ g.nonce = row'[g.sub].nonce
    BY <1>7, <2>1, <2>2 DEF NonceInv, RecLanded, LandedOnly, NoncesKept
  <2> QED BY <1>2, <2>1, <2>3 DEF NonceInv, RecLanded, LandedOnly, Landed
<1> QED BY <1>4, <1>5, <1>7, <1>8

\* What reconcile's queries return has landed.
LEMMA NoncesQuery ==
  ASSUME TypeOK, AllBehind, NonceInv, \A p, q \in Projects : p = q,
         NEW r \in Reconcilers, FindStale(r) \/ FindGaps(r)
  PROVE  LandedOnly(r)'
<1>1. UNCHANGED <<rowVars, landed>>  BY DEF FindStale, FindGaps
<1>2. /\ recChain[r] \in Nat /\ recAgain[r] \in Nat /\ chainNonce \in Nat
      /\ recChain[r] <= chainNonce
      /\ \A n \in Rows : row[n].nonce \in Nat /\ row[n].sub = n
      /\ \A n \in Rows : row[n].status = "confirmed" => row[n].nonce <= chainNonce
  BY DEF TypeOK, RowType, Rows, AllBehind, RecBehind, RowsBehind
<1>3. \A n, m \in Rows : row[n].nonce = row[m].nonce => row[n] = row[m]
  BY DEF TypeOK, Rows, NonceInv, Unique
<1>4. ASSUME NEW S \in SUBSET Rows, \A n \in S : row[n].nonce <= chainNonce,
             recRows'[r] = {row[n] : n \in S}
      PROVE  /\ \A e \in recRows'[r] : Landed(e.sub) /\ e.nonce = row[e.sub].nonce
             /\ \A e, f \in recRows'[r] : e.nonce = f.nonce => e = f
  BY <1>2, <1>3, <1>4, PassedLanded
<1>5. CASE FindStale(r)
  <2> DEFINE S == {m \in Rows : row[m].status = "confirmed" /\ row[m].nonce > recAgain[r]}
  <2>1. /\ recPc[r] = "stale" /\ recPc'[r] = "renumber" /\ recRows'[r] = {row[n] : n \in S}
        /\ recNext'[r] = recChain[r] + 1
    BY <1>5 DEF FindStale, TypeOK
  <2>2. recChain[r] <= recAgain[r]  BY <2>1 DEF NonceInv, RecLanded, LandedOnly
  <2>3. S \in SUBSET Rows /\ \A n \in S : row[n].nonce <= chainNonce /\ row[n].nonce > recAgain[r]
    BY <1>2
  <2> HIDE DEF S
  <2>4. \A e \in recRows'[r] : 1 <= recNext'[r] /\ recNext'[r] <= e.nonce
    BY <1>2, <2>1, <2>2, <2>3
  <2>5. /\ \A e \in recRows'[r] : Landed(e.sub) /\ e.nonce = row[e.sub].nonce
        /\ \A e, f \in recRows'[r] : e.nonce = f.nonce => e = f
    BY <1>4, <2>1, <2>3
  <2> QED BY <1>1, <2>1, <2>4, <2>5 DEF LandedOnly, Landed
<1>6. CASE FindGaps(r)
  <2> DEFINE S == {m \in Rows : row[m].status \in {"pending", "failed"}
                               /\ row[m].nonce <= recChain[r]}
  <2>1. recPc'[r] = "gap" /\ recRows'[r] = {row[n] : n \in S}
    BY <1>6 DEF FindGaps, TypeOK
  <2>2. S \in SUBSET Rows /\ \A n \in S : row[n].nonce <= chainNonce
    BY <1>2
  <2> HIDE DEF S
  <2>3. /\ \A e \in recRows'[r] : Landed(e.sub) /\ e.nonce = row[e.sub].nonce
        /\ \A e, f \in recRows'[r] : e.nonce = f.nonce => e = f
    BY <1>4, <2>1, <2>2
  <2> QED BY <1>1, <2>1, <2>3 DEF LandedOnly, Landed
<1> QED BY <1>5, <1>6

LEMMA NoncesReconcile ==
  ASSUME TypeOK, AllBehind, NonceInv, \A p, q \in Projects : p = q,
         NEW r \in Reconcilers, ReconcileStep(r) \/ ReadAgainFails(r) \/ ReconcileStops(r)
  PROVE  NonceInv'
<1>1. UNCHANGED <<unqueued, chainVars, workVars, idxVars>>
  BY DEF ReconcileStep, StartReconcile, ReadAgain, ReadAgainFails, FindStale, Renumber, Requeue,
         FindGaps, ConfirmGap, CreditGap, FinishReconcile, ReconcileFails, ReconcileStops
<1>2. \A q \in Reconcilers \ {r} :
        /\ recPc'[q] = recPc[q] /\ recChain'[q] = recChain[q] /\ recAgain'[q] = recAgain[q]
        /\ recRows'[q] = recRows[q] /\ recNext'[q] = recNext[q] /\ recRow'[q] = recRow[q]
  <2>1. CASE StartReconcile(r) \/ ReadAgain(r) \/ ReadAgainFails(r)
    BY <2>1 DEF StartReconcile, ReadAgain, ReadAgainFails, TypeOK
  <2>2. CASE FindStale(r) \/ FindGaps(r)
    BY <2>2 DEF FindStale, FindGaps, TypeOK
  <2>3. CASE Renumber(r)  BY <2>3 DEF Renumber, TypeOK
  <2>4. CASE ConfirmGap(r)  BY <2>4 DEF ConfirmGap, TypeOK
  <2>5. CASE Requeue(r) \/ CreditGap(r)
    BY <2>5 DEF Requeue, CreditGap, TypeOK
  <2>6. CASE EndReconcile(r)  BY <2>6 DEF EndReconcile, TypeOK
  <2> QED BY <2>1, <2>2, <2>3, <2>4, <2>5, <2>6
          DEF ReconcileStep, FinishReconcile, ReconcileFails, ReconcileStops
<1>3. LandedOnly(r) /\ RecLanded /\ IdxLanded  BY DEF NonceInv, RecLanded
<1>4. Exclusive'
  <2>1. CASE Requeue(r)
    <3>1. AddJob(recRow[r].sub) /\ Landed(recRow[r].sub) /\ recRow[r].sub \in Subs
      BY <1>3, <2>1 DEF Requeue, LandedOnly, TypeOK, Rows
    <3>2. \A n \in Subs : ~Landed(n) /\ Alone(n) => Alone(n)'  BY <1>1, <3>1, JobsAdd
    <3> QED BY <1>1, <3>2, ExclusiveStays DEF NonceInv
  <2>2. CASE ~Requeue(r)
    <3>1. waiting' = waiting
      BY <2>2 DEF ReconcileStep, StartReconcile, ReadAgain, ReadAgainFails, FindStale, Renumber,
                  FindGaps, ConfirmGap, CreditGap, FinishReconcile, ReconcileFails, ReconcileStops
    <3> QED BY <1>1, <3>1, JobsBesides, ExclusiveStays DEF NonceInv
  <2> QED BY <2>1, <2>2
<1>5. ASSUME NoncesKept, LandedOnly(r)',
             \A n \in Rows : row'[n].status = "confirmed" =>
               row[n].status = "confirmed" \/ Landed(n)
      PROVE  NonceInv'
  <2>1. RecLanded'  BY <1>1, <1>2, <1>3, <1>5, RecByOne
  <2>2. IdxLanded'
    <3>1. \A i \in Indexers : idxPc[i] = "save" => idxRow[i].sub \in Rows  BY DEF TypeOK
    <3> QED BY <1>1, <1>3, <1>5, <3>1 DEF IdxLanded, Landed, NoncesKept
  <2> QED BY <1>1, <1>4, <1>5, <2>1, <2>2, BesidesKeeps
<1>6. ASSUME UNCHANGED rowVars, LandedOnly(r)' PROVE NonceInv'
  <2>1. NoncesKept  BY <1>6 DEF NoncesKept, Rows
  <2> QED BY <1>5, <1>6, <2>1
<1>7. CASE Renumber(r)  BY <1>5, <1>7, NoncesRenumber
<1>8. CASE ConfirmGap(r)  BY <1>5, <1>8, NoncesConfirmGap
<1>9. CASE FindStale(r) \/ FindGaps(r)
  <2>1. UNCHANGED rowVars  BY <1>9 DEF FindStale, FindGaps
  <2> QED BY <1>6, <1>9, <2>1, NoncesQuery
<1>10. CASE StartReconcile(r) \/ ReadAgain(r) \/ ReadAgainFails(r)
  <2>1. UNCHANGED rowVars /\ recRows' = recRows /\ recRows[r] = {}
    BY <1>3, <1>10 DEF StartReconcile, ReadAgain, ReadAgainFails, LandedOnly
  <2>2. recPc'[r] = "stale" => recChain'[r] <= recAgain'[r]
    BY <1>10 DEF StartReconcile, ReadAgain, ReadAgainFails, AllBehind, RecBehind, TypeOK
  <2>3. recPc'[r] # "requeue"
    BY <1>10 DEF StartReconcile, ReadAgain, ReadAgainFails, TypeOK
  <2> QED BY <1>6, <2>1, <2>2, <2>3 DEF LandedOnly
<1>11. CASE Requeue(r) \/ CreditGap(r)
  <2>1. UNCHANGED rowVars /\ recRows' = recRows  BY <1>11 DEF Requeue, CreditGap
  <2>2. \/ recPc'[r] = "gap"
        \/ recPc[r] = "requeue" /\ recPc'[r] = "renumber" /\ recNext'[r] = recNext[r] + 1
    BY <1>11 DEF Requeue, CreditGap, TypeOK
  <2>3. recNext[r] \in Nat /\ \A e \in recRows[r] : e.nonce \in Nat  BY DEF TypeOK, RowType
  <2>4. recPc'[r] = "renumber" =>
          \A e \in recRows[r] : 1 <= recNext'[r] /\ recNext'[r] <= e.nonce
    BY <1>3, <2>2, <2>3 DEF LandedOnly
  <2> QED BY <1>1, <1>3, <1>6, <2>1, <2>2, <2>4 DEF LandedOnly, Landed
<1>12. CASE FinishReconcile(r) \/ ReconcileFails(r) \/ ReconcileStops(r)
  <2>1. UNCHANGED rowVars /\ EndReconcile(r)
    BY <1>12 DEF FinishReconcile, ReconcileFails, ReconcileStops
  <2>2. recPc'[r] = "idle" /\ recRows'[r] = {}  BY <2>1 DEF EndReconcile, TypeOK
  <2> QED BY <1>6, <2>1, <2>2 DEF LandedOnly
<1> QED BY <1>7, <1>8, <1>9, <1>10, <1>11, <1>12 DEF ReconcileStep

LEMMA StepNonces ==
  ASSUME Undisturbed
  PROVE  TypeOK /\ TypeOK' /\ NoneAhead /\ OneContract /\ [Next]_vars => OneContract'
<1> SUFFICES ASSUME TypeOK, TypeOK', NoneAhead, OneContract, [Next]_vars, resets' = 0
             PROVE  NonceInv'
  BY DEF OneContract
<1>1. NonceInv /\ AllBehind
  <2>1. resets = 0  BY ResetsGrow
  <2> QED BY <2>1 DEF OneContract, NoneAhead
<1>2. CASE \E w \in Workers : WorkerStep(w) \/ DatabaseFails(w) \/ WorkerDies(w)
  <2>1. PICK w \in Workers : WorkerStep(w) \/ DatabaseFails(w) \/ WorkerDies(w)
    BY <1>2
  <2>2. Exclusive'
    <3>1. landed' = landed
      BY <2>1 DEF WorkerStep, TakeJob, ReadChainNonce, CheckNewer, Resequence, MappingFails,
                  MarkSubmitted, Send, PollSucceeds, ChainFails, SaveFailed, SaveStale,
                  SaveConfirmed, Credit, AttemptFails, DatabaseFails, WorkerDies
    <3> QED BY <1>1, <2>1, <3>1, JobsWorker, ExclusiveStays DEF NonceInv
  <2> QED BY <1>1, <2>1, <2>2, NoncesRead, NoncesSave, NoncesEnd, NoncesResequence, NoncesSend
          DEF WorkerStep
<1>3. CASE \E n \in Subs : Enqueue(n) \/ EnqueueFails(n)
  <2>1. UNCHANGED <<rowVars, chainVars, workVars, idxVars, recVars>>
    BY <1>3 DEF Enqueue, EnqueueFails
  <2>2. Exclusive'  BY <1>1, <1>3, <2>1, JobsTrigger, ExclusiveStays DEF NonceInv
  <2>3. NoncesKept  BY <2>1 DEF NoncesKept, Rows
  <2>4. IdxLanded' /\ RecLanded'
    BY <1>1, <2>1, <2>3, RecKept DEF NonceInv, IdxLanded, Landed, NoncesKept
  <2> QED BY <1>1, <2>1, <2>2, <2>3, <2>4, BesidesKeeps
<1>4. CASE \E n \in Subs, p \in Projects : TriggerSubmission(n, p)
  <2>1. PICK n \in Subs, p \in Projects : TriggerSubmission(n, p)  BY <1>4
  <2>2. landed' = landed  BY <2>1 DEF TriggerSubmission
  <2>3. Exclusive'  BY <1>1, <2>1, <2>2, JobsTrigger, ExclusiveStays DEF NonceInv
  <2> QED BY <1>1, <2>1, <2>3, NoncesTrigger
<1>5. CASE \E tx \in flying : Land(tx) \/ Drop(tx)
  <2>1. UNCHANGED <<unqueued, waiting, pc, job>> /\ landed \subseteq landed'
    BY <1>5 DEF Land, Drop
  <2>2. Exclusive'  BY <1>1, <2>1, JobsBesides, ExclusiveStays DEF NonceInv
  <2> QED BY <1>1, <1>5, <2>2, NoncesChain
<1>6. CASE \E i \in Indexers : Index(i)
  <2>1. UNCHANGED <<unqueued, waiting, pc, job, landed>>
    BY <1>6 DEF Index, IndexerLoads, IndexerSaves, IndexerCredits, IndexerFails
  <2>2. Exclusive'  BY <1>1, <2>1, JobsBesides, ExclusiveStays DEF NonceInv
  <2> QED BY <1>1, <1>6, <2>2, NoncesIndex
<1>7. CASE \E r \in Reconcilers : ReconcileStep(r) \/ ReadAgainFails(r) \/ ReconcileStops(r)
  BY <1>1, <1>7, NoncesReconcile DEF Undisturbed
<1>8. ~Redeploy  BY DEF Redeploy, TypeOK
<1>9. CASE UNCHANGED vars
  <2>1. UNCHANGED <<unqueued, waiting, pc, job, landed>>  BY <1>9 DEF vars
  <2>2. Exclusive'  BY <1>1, <2>1, JobsBesides, ExclusiveStays DEF NonceInv
  <2>3. NoncesKept  BY <1>9 DEF vars, NoncesKept, Rows
  <2>4. IdxLanded' /\ RecLanded'
    BY <1>1, <1>9, <2>3, RecKept DEF vars, NonceInv, IdxLanded, Landed
  <2> QED BY <1>1, <1>9, <2>2, <2>3, <2>4, BesidesKeeps DEF vars
<1> QED BY <1>2, <1>3, <1>4, <1>5, <1>6, <1>7, <1>8, <1>9 DEF Next

LEMMA NoncesAlways ==
  ASSUME Undisturbed
  PROVE  Spec => [](TypeOK /\ NoneAhead /\ OneContract)
<1>1. Init => TypeOK /\ NoneAhead /\ OneContract
  <2>1. Init => OneContract
    BY DEF Init, OneContract, NonceInv, Exclusive, Alone, Unique, OwnNonce, SentOwn, Unsent,
           IdxLanded, Positive, AllLanded, RowsExcused, WorkExcused, RecLanded, LandedOnly,
           Rows, NoRow
  <2> QED BY <2>1, InitType, InitBehind
<1>2. TypeOK /\ NoneAhead /\ OneContract /\ [Next]_vars => (TypeOK /\ NoneAhead /\ OneContract)'
  BY StepType, StepBehind, StepNonces
<1> QED BY <1>1, <1>2, PTL DEF Spec

\* On one contract a submission is only ever sent under one nonce, whatever retries,
\* crashes, lost answers, the re-sequencing of its row and reconciliations do, as long
\* as the nonces the reconciliation reads are those of one project.
THEOREM OneContractNonce ==
  ASSUME \A p, q \in Projects : p = q
  PROVE  Spec => [](resets = 0 => OneNoncePerSubmission)
<1>1. TypeOK /\ OneContract => (resets = 0 => OneNoncePerSubmission)
  BY DEF OneContract, NonceInv, SentOwn, OneNoncePerSubmission
<1>2. Undisturbed  BY DEF Undisturbed
<1>3. Spec => [](TypeOK /\ NoneAhead /\ OneContract)  BY <1>2, NoncesAlways
<1> QED BY <1>1, <1>3, PTL

\* ... the row of a landed submission shows the nonce it landed under, ...
THEOREM LandedNonceCorrect ==
  ASSUME Reconcilers = {} \/ \A p, q \in Projects : p = q
  PROVE  Spec => []LandedUnderItsNonce
<1>1. TypeOK /\ OneContract => LandedUnderItsNonce
  BY DEF OneContract, NonceInv, SentOwn, LandedUnderItsNonce, TypeOK
<1>2. Undisturbed  BY DEF Undisturbed
<1>3. Spec => [](TypeOK /\ NoneAhead /\ OneContract)  BY <1>2, NoncesAlways
<1> QED BY <1>1, <1>3, PTL

\* ... and only another project's transaction under the same nonce can make a
\* submission CONFIRMED that has not landed.
THEOREM ForeignCorrect ==
  ASSUME Reconcilers = {} \/ \A p, q \in Projects : p = q
  PROVE  Spec => []FalseConfirmationIsForeign
<1>1. TypeOK /\ OneContract => FalseConfirmationIsForeign
  BY DEF OneContract, NonceInv, RowsExcused, Excused, FalseConfirmationIsForeign
<1>2. Undisturbed  BY DEF Undisturbed
<1>3. Spec => [](TypeOK /\ NoneAhead /\ OneContract)  BY <1>2, NoncesAlways
<1> QED BY <1>1, <1>3, PTL

-----------------------------------------------------------------------------
(* Nonces of a submission across redeployments, without reconciliation     *)

\* A redeployment makes landed rows look unsent: a worker then gives them a new nonce,
\* and an indexer that loaded the row before may save it CONFIRMED under the old one.
\* A CONFIRMED row is not sent again; of any other, what was sent to this contract has
\* the nonce of the row and of the worker that holds it.
OnePlace  == \A n \in Subs : Alone(n)
HeldKnown == \A w \in Workers : pc[w] \notin {"idle", "resequence"} =>
               \/ held[w].nonce = row[job[w].sub].nonce
               \/ row[job[w].sub].status = "confirmed"
HeldSent  == \A w \in Workers, tx \in sent : pc[w] # "idle" /\ tx[1] = job[w].sub =>
               tx[2] = held[w].nonce /\ pc[w] \notin {"check", "resequence"}
RowSent   == \A tx \in sent :
               /\ tx[2] <= chainNonce + 1
               /\ tx[2] = row[tx[1]].nonce \/ row[tx[1]].status = "confirmed"
SentInv   == OnePlace /\ HeldKnown /\ HeldSent /\ RowSent /\ OneNoncePerSubmission

LEMMA SavedRow ==
  ASSUME TypeOK, NEW e \in RowType, e.sub \in Rows, e.status # "absent", Save(e)
  PROVE  /\ \A n \in Rows : row'[n] = IF n = e.sub THEN e ELSE row[n]
         /\ Rows' = Rows /\ project' = project
BY SaveKeeps DEF Save, RowsKept, TypeOK, Rows

\* Steps that leave the contract alone: each row keeps its nonce, or becomes
\* CONFIRMED, or is saved by its worker.
LEMMA SentKept ==
  ASSUME TypeOK, SentInv, OnePlace', HeldKnown', HeldSent', UNCHANGED <<sent, chainNonce>>,
         \A n \in Rows : \/ row'[n].status = "confirmed"
                         \/ row'[n].nonce = row[n].nonce /\ row'[n].status = row[n].status
                         \/ \A tx \in sent : tx[1] = n => tx[2] = row'[n].nonce
  PROVE  SentInv'
<1>1. \A tx \in sent : tx[1] \in Rows  BY DEF TypeOK
<1>2. RowSent'  BY <1>1 DEF SentInv, RowSent
<1>3. OneNoncePerSubmission'  BY DEF SentInv, OneNoncePerSubmission
<1> QED BY <1>2, <1>3 DEF SentInv

\* One worker moves, and rows stay.
LEMMA SentMove ==
  ASSUME TypeOK, SentInv, OnePlace', NEW w \in Workers,
         UNCHANGED <<rowVars, sent, chainNonce>>,
         \A v \in Workers \ {w} : pc'[v] = pc[v] /\ job'[v] = job[v] /\ held'[v] = held[v],
         \/ pc'[w] = "idle"
         \/ /\ pc[w] \notin {"idle", "resequence"} /\ pc'[w] \notin {"idle", "check", "resequence"}
            /\ job'[w] = job[w] /\ held'[w].nonce = held[w].nonce
  PROVE  SentInv'
<1>1. HeldKnown' /\ HeldSent'  BY DEF SentInv, HeldKnown, HeldSent
<1> QED BY <1>1, SentKept

\* Steps of a worker that write no row.
LEMMA SentWork ==
  ASSUME TypeOK, SentInv, OnePlace', NEW w \in Workers,
         \/ TakeJob(w) \/ ReadChainNonce(w) \/ CheckNewer(w) \/ Send(w) \/ PollSucceeds(w)
         \/ ChainFails(w) \/ Credit(w) \/ AttemptFails(w) \/ DatabaseFails(w) \/ WorkerDies(w)
  PROVE  SentInv'
<1>1. UNCHANGED <<rowVars, chainNonce>>
  BY DEF TakeJob, ReadChainNonce, CheckNewer, Send, PollSucceeds, ChainFails, Credit,
         AttemptFails, DatabaseFails, WorkerDies
<1>2. \A v \in Workers \ {w} : pc'[v] = pc[v] /\ job'[v] = job[v] /\ held'[v] = held[v]
  BY DEF TakeJob, ReadChainNonce, CheckNewer, Send, PollSucceeds, ChainFails, Credit,
         AttemptFails, DatabaseFails, WorkerDies, Throw, Retry, EndJob, TypeOK
<1>3. held[w] \in RowType /\ chainNonce \in Nat /\ \A tx \in sent : tx[2] \in Nat  BY DEF TypeOK
<1>4. CASE TakeJob(w)
  <2>1. PICK j \in Jobs :
          /\ waiting[j] > 0
          /\ \/ UNCHANGED workVars
             \/ /\ row[j.sub].status # "confirmed"
                /\ job'[w] = j /\ held'[w] = row[j.sub] /\ pc'[w] = "read"
    BY <1>4 DEF TakeJob, TypeOK
  <2>2. sent' = sent  BY <1>4 DEF TakeJob
  <2>3. HeldKnown' /\ HeldSent'
    BY <1>1, <1>2, <2>1, <2>2 DEF SentInv, HeldKnown, HeldSent, RowSent
  <2> QED BY <1>1, <2>2, <2>3, SentKept
<1>5. CASE ReadChainNonce(w)
  <2>1. /\ pc[w] = "read" /\ pc'[w] = AfterRead(held[w].nonce, chainNonce)
        /\ job' = job /\ sent' = sent /\ held'[w].nonce = held[w].nonce
    BY <1>3, <1>5 DEF ReadChainNonce, TypeOK, RowType
  <2>2. /\ pc'[w] \in {"mark", "confirm", "stale", "check"}
        /\ pc'[w] = "check" => held[w].nonce > chainNonce + 1
    BY <1>3, <2>1 DEF AfterRead, RowType
  <2>3. pc'[w] = "check" => \A tx \in sent : tx[1] # job[w].sub
    BY <1>3, <2>1, <2>2 DEF SentInv, HeldSent, RowSent, RowType
  <2>4. HeldKnown' /\ HeldSent'
    BY <1>1, <1>2, <2>1, <2>2, <2>3 DEF SentInv, HeldKnown, HeldSent
  <2> QED BY <1>1, <2>1, <2>4, SentKept
<1>6. CASE CheckNewer(w)
  <2>1. /\ pc[w] = "check" /\ job' = job /\ sent' = sent
        /\ \/ pc'[w] = "stale" /\ held'[w] = held[w]
           \/ pc'[w] = "resequence"
    BY <1>6 DEF CheckNewer, TypeOK
  <2>2. HeldKnown' /\ HeldSent'
    BY <1>1, <1>2, <2>1 DEF SentInv, HeldKnown, HeldSent
  <2> QED BY <1>1, <2>1, <2>2, SentKept
<1>7. CASE Send(w)
  <2> DEFINE t == <<job[w].sub, held[w].nonce>>
  <2>1. /\ pc[w] = "send" /\ held[w].nonce = chainNonce + 1 /\ sent' = sent \cup {t}
        /\ pc'[w] = "poll" /\ UNCHANGED <<job, held>>
    BY <1>7 DEF Send, TypeOK
  <2>2. t[1] = job[w].sub /\ t[2] = held[w].nonce  OBVIOUS
  <2> HIDE DEF t
  <2>3. \A v \in Workers \ {w} : pc[v] # "idle" => job[v].sub # job[w].sub
    <3>1. job[w].sub \in Subs  BY <2>1 DEF TypeOK, Rows
    <3> QED BY <2>1, <3>1 DEF SentInv, OnePlace, Alone
  <2>4. HeldKnown'  BY <1>1, <1>2, <2>1 DEF SentInv, HeldKnown
  <2>5. HeldSent'  BY <1>2, <2>1, <2>2, <2>3 DEF SentInv, HeldSent
  <2>6. RowSent'
    <3>1. t[2] <= chainNonce + 1  BY <1>3, <2>1, <2>2
    <3>2. t[2] = row[t[1]].nonce \/ row[t[1]].status = "confirmed"
      BY <2>1, <2>2 DEF SentInv, HeldKnown
    <3> QED BY <1>1, <2>1, <3>1, <3>2 DEF SentInv, RowSent
  <2>7. OneNoncePerSubmission'
    BY <2>1, <2>2 DEF SentInv, HeldSent, OneNoncePerSubmission
  <2> QED BY <2>4, <2>5, <2>6, <2>7 DEF SentInv
<1>8. CASE PollSucceeds(w) \/ ChainFails(w)
  <2>1. /\ pc[w] \in {"send", "poll"} /\ pc'[w] \in {"confirm", "fail"} /\ job' = job
        /\ held'[w].nonce = held[w].nonce /\ sent' = sent
    BY <1>3, <1>8 DEF PollSucceeds, ChainFails, TypeOK, RowType
  <2> QED BY <1>1, <1>2, <2>1, SentMove
<1>9. CASE Credit(w) \/ AttemptFails(w) \/ DatabaseFails(w) \/ WorkerDies(w)
  <2>1. sent' = sent  BY <1>9 DEF Credit, AttemptFails, DatabaseFails, WorkerDies
  <2>2. CASE EndJob(w)
    <3>1. pc'[w] = "idle"  BY <2>2 DEF EndJob, TypeOK
    <3> QED BY <1>1, <1>2, <2>1, <3>1, SentMove
  <2>3. CASE pc[w] = "mark" /\ pc' = [pc EXCEPT ![w] = "fail"] /\ UNCHANGED <<job, held>>
    <3>1. pc'[w] = "fail"  BY <2>3 DEF TypeOK
    <3> QED BY <1>1, <1>2, <2>1, <2>3, <3>1, SentMove
  <2> QED BY <1>9, <2>2, <2>3
          DEF Credit, AttemptFails, DatabaseFails, WorkerDies, Throw, Retry
<1> QED BY <1>4, <1>5, <1>6, <1>7, <1>8, <1>9

\* A worker saves what it holds; no other worker holds the row.
LEMMA SentSave ==
  ASSUME TypeOK, SentInv, OnePlace', NEW w \in Workers,
         \/ Resequence(w) \/ MappingFails(w) \/ MarkSubmitted(w) \/ SaveFailed(w)
         \/ SaveStale(w) \/ SaveConfirmed(w)
  PROVE  SentInv'
<1> DEFINE n == job[w].sub
<1>1. pc[w] # "idle" /\ UNCHANGED <<sent, chainNonce>>
  BY DEF Resequence, MappingFails, MarkSubmitted, SaveFailed, SaveStale, SaveConfirmed
<1>2. held[w] \in RowType /\ held[w].sub = n /\ n \in Rows /\ held[w].status # "absent"
  BY <1>1 DEF TypeOK
<1>3. PICK e \in RowType : Save(e) /\ e.sub = n /\ e.status # "absent" /\ e.nonce = held[w].nonce
  BY <1>2 DEF Resequence, MappingFails, MarkSubmitted, SaveFailed, SaveStale, SaveConfirmed,
              RowType, Status
<1>4. Rows' = Rows /\ \A m \in Rows : row'[m] = IF m = n THEN e ELSE row[m]
  BY <1>2, <1>3, SavedRow
<1>5. \A v \in Workers \ {w} : /\ pc'[v] = pc[v] /\ job'[v] = job[v] /\ held'[v] = held[v]
                               /\ pc[v] # "idle" => job[v].sub # n /\ job[v].sub \in Rows
  <2>1. \A v \in Workers \ {w} : pc'[v] = pc[v] /\ job'[v] = job[v] /\ held'[v] = held[v]
    BY DEF Resequence, MappingFails, MarkSubmitted, SaveFailed, SaveStale, SaveConfirmed, Retry,
           EndJob, TypeOK
  <2>2. n \in Subs  BY <1>2 DEF Rows
  <2> QED BY <1>1, <2>1, <2>2 DEF SentInv, OnePlace, Alone, TypeOK
<1>6. \/ pc'[w] = "idle"
      \/ pc'[w] \notin {"check", "resequence"} /\ job'[w] = job[w] /\ held'[w] = held[w]
  BY DEF Resequence, MappingFails, MarkSubmitted, SaveFailed, SaveStale, SaveConfirmed, Retry,
         EndJob, TypeOK
<1>7. HeldKnown'  BY <1>2, <1>3, <1>4, <1>5, <1>6 DEF SentInv, HeldKnown
<1>8. HeldSent'  BY <1>1, <1>5, <1>6 DEF SentInv, HeldSent
<1>9. \A tx \in sent : tx[1] = n => tx[2] = row'[n].nonce
  BY <1>1, <1>2, <1>3, <1>4 DEF SentInv, HeldSent
<1>10. \A m \in Rows : \/ row'[m] = row[m]
                       \/ \A tx \in sent : tx[1] = m => tx[2] = row'[m].nonce
  BY <1>4, <1>9
<1> QED BY <1>1, <1>7, <1>8, <1>10, SentKept

\* Whoever saves a row behind the worker's back confirms it.
LEMMA SentIndex ==
  ASSUME TypeOK, SentInv, OnePlace', NEW i \in Indexers, Index(i)
  PROVE  SentInv'
<1>1. UNCHANGED <<pc, job, held, sent, chainNonce>>
  BY DEF Index, IndexerLoads, IndexerSaves, IndexerCredits, IndexerFails
<1>2. \A n \in Rows : row'[n] = row[n] \/ row'[n].status = "confirmed"
  <2>1. CASE IndexerSaves(i)
    <3> DEFINE e == [idxRow[i] EXCEPT !.status = "confirmed"]
    <3>1. idxRow[i] \in RowType /\ idxRow[i].sub \in Rows /\ Save(e)
      BY <2>1 DEF IndexerSaves, TypeOK
    <3>2. e \in RowType /\ e.sub \in Rows /\ e.status = "confirmed"
      BY <3>1 DEF RowType, Status
    <3> HIDE DEF e
    <3> QED BY <3>1, <3>2, SavedRow
  <2>2. CASE ~IndexerSaves(i)
    BY <2>2 DEF Index, IndexerLoads, IndexerCredits, IndexerFails
  <2> QED BY <2>1, <2>2
<1>3. HeldKnown'
  <2>1. \A w \in Workers : pc[w] # "idle" => job[w].sub \in Rows  BY DEF TypeOK
  <2> QED BY <1>1, <1>2, <2>1 DEF SentInv, HeldKnown
<1>4. HeldSent'  BY <1>1 DEF SentInv, HeldSent
<1> QED BY <1>1, <1>2, <1>3, <1>4, SentKept

LEMMA SentTrigger ==
  ASSUME TypeOK, SentInv, OnePlace', NEW n \in Subs,
         Enqueue(n) \/ EnqueueFails(n) \/ \E p \in Projects : TriggerSubmission(n, p)
  PROVE  SentInv'
<1>1. UNCHANGED <<pc, job, held, sent, chainNonce>>
  BY DEF Enqueue, EnqueueFails, TriggerSubmission
<1>2. \A m \in Rows : row'[m] = row[m]
  <2>1. CASE Enqueue(n) \/ EnqueueFails(n)  BY <2>1 DEF Enqueue, EnqueueFails
  <2>2. CASE \E p \in Projects : TriggerSubmission(n, p)
    <3>1. n \notin Rows /\ \A m \in Subs \ {n} : row'[m] = row[m]
      BY <2>2 DEF TriggerSubmission, TypeOK
    <3> QED BY <3>1 DEF Rows
  <2> QED BY <2>1, <2>2
<1>3. HeldKnown'
  <2>1. \A w \in Workers : pc[w] # "idle" => job[w].sub \in Rows  BY DEF TypeOK
  <2> QED BY <1>1, <1>2, <2>1 DEF SentInv, HeldKnown
<1>4. HeldSent'  BY <1>1 DEF SentInv, HeldSent
<1> QED BY <1>1, <1>2, <1>3, <1>4, SentKept

\* A new contract was sent nothing.
LEMMA SentChain ==
  ASSUME TypeOK, SentInv, OnePlace', Redeploy \/ \E tx \in flying : Land(tx) \/ Drop(tx)
  PROVE  SentInv'
<1>1. UNCHANGED <<rowVars, pc, job, held>>  BY DEF Redeploy, Land, Drop
<1>2. HeldKnown'  BY <1>1 DEF SentInv, HeldKnown
<1>3. \/ sent' = {}
      \/ sent' = sent /\ chainNonce' \in Nat /\ chainNonce <= chainNonce'
  BY DEF Redeploy, Land, Drop, TypeOK
<1>4. HeldSent' /\ OneNoncePerSubmission'
  BY <1>1, <1>3 DEF SentInv, HeldSent, OneNoncePerSubmission
<1>5. RowSent'
  <2>1. chainNonce \in Nat /\ \A tx \in sent : tx[2] \in Nat  BY DEF TypeOK
  <2> QED BY <1>1, <1>3, <2>1 DEF SentInv, RowSent
<1> QED BY <1>2, <1>4, <1>5 DEF SentInv

LEMMA StepPlace ==
  ASSUME Reconcilers = {}, TypeOK, OnePlace, [Next]_vars
  PROVE  OnePlace'
<1> SUFFICES ASSUME NEW n \in Subs PROVE Alone(n)'  BY DEF OnePlace
<1>1. Alone(n)  BY DEF OnePlace
<1>2. CASE \/ Redeploy \/ (\E tx \in flying : Land(tx) \/ Drop(tx))
           \/ (\E i \in Indexers : Index(i)) \/ UNCHANGED vars
  <2>1. UNCHANGED <<unqueued, waiting, pc, job>>
    BY <1>2 DEF vars, Redeploy, Land, Drop, Index, IndexerLoads, IndexerSaves,
                IndexerCredits, IndexerFails
  <2> QED BY <1>1, <2>1, JobsBesides
<1>3. CASE \E w \in Workers : WorkerStep(w) \/ DatabaseFails(w) \/ WorkerDies(w)
  BY <1>1, <1>3, JobsWorker
<1>4. CASE \E m \in Subs :
             Enqueue(m) \/ EnqueueFails(m) \/ \E p \in Projects : TriggerSubmission(m, p)
  BY <1>1, <1>4, JobsTrigger
<1> QED BY <1>2, <1>3, <1>4 DEF Next

\* As long as nothing but the processors and the indexer writes rows: a submission is
\* only ever sent to a contract under one nonce, whatever retries, crashes, lost answers,
\* the re-sequencing of its row and redeployments do.
THEOREM OneNonceCorrect ==
  ASSUME Reconcilers = {}
  PROVE  Spec => []OneNoncePerSubmission
<1>1. Init => TypeOK /\ SentInv
  <2>1. Init => SentInv
    BY DEF Init, SentInv, OnePlace, Alone, HeldKnown, HeldSent, RowSent, OneNoncePerSubmission
  <2> QED BY <2>1, InitType
<1>2. TypeOK /\ SentInv /\ [Next]_vars => (TypeOK /\ SentInv)'
  <2> SUFFICES ASSUME TypeOK, SentInv, [Next]_vars PROVE SentInv'
    BY StepType
  <2>1. OnePlace'  BY StepPlace DEF SentInv
  <2>2. CASE UNCHANGED vars
    BY <2>1, <2>2 DEF vars, SentInv, HeldKnown, HeldSent, RowSent, OneNoncePerSubmission
  <2> QED BY <2>1, <2>2, SentWork, SentSave, SentIndex, SentTrigger, SentChain DEF Next, WorkerStep
<1>3. SentInv => OneNoncePerSubmission  BY DEF SentInv
<1> QED BY <1>1, <1>2, <1>3, PTL DEF Spec

-----------------------------------------------------------------------------
(* Submitted rows                                                          *)

\* As long as no call fails and no process dies, a SUBMITTED row is in the hands of a
\* worker that will save it again, and that knows its nonce: then the save is not
\* refused, and whoever takes the row away from it has saved it under another status.
Backs(w, n) ==
  /\ job[w].sub = n /\ pc[w] \in {"mark", "send", "poll", "fail", "confirm"}
  /\ held[w].nonce = row[n].nonce
Backed ==
  errors = 0 /\ crashes = 0 =>
    \A n \in Rows : row[n].status = "submitted" => \E w \in Workers : Backs(w, n)

LEMMA UniqueSaved ==
  ASSUME TypeOK, Unique, NEW e \in RowType, e.sub \in Rows, e.status # "absent", Save(e)
  PROVE  Unique'
<1>1. /\ \A n \in Rows : row'[n] = IF n = e.sub THEN e ELSE row[n]
      /\ Rows' = Rows /\ project' = project
  BY SavedRow
<1>2. \A m \in Rows \ {e.sub} : project[m] = project[e.sub] => row[m].nonce # e.nonce
  BY DEF Save, Taken
<1> QED BY <1>1, <1>2 DEF Unique

\* No row becomes SUBMITTED, and no worker moves.
LEMMA BackedBesides ==
  ASSUME Backed, UNCHANGED <<pc, job, held>>,
         errors' = 0 => errors = 0, crashes' = 0 => crashes = 0,
         \A n \in Rows' : row'[n].status = "submitted" =>
           n \in Rows /\ row[n].status = "submitted" /\ row'[n].nonce = row[n].nonce
  PROVE  Backed'
BY DEF Backed, Backs

\* One worker moves: what it had in hand it keeps in hand, or saves otherwise.
LEMMA BackedByOne ==
  ASSUME Backed, NEW w \in Workers,
         \A v \in Workers \ {w} : pc'[v] = pc[v] /\ job'[v] = job[v] /\ held'[v] = held[v],
         errors' = errors, crashes' = crashes, Rows' = Rows,
         \A n \in Rows : row'[n].status = "submitted" =>
           \/ Backs(w, n)'
           \/ row[n].status = "submitted" /\ row'[n].nonce = row[n].nonce /\ ~Backs(w, n)
  PROVE  Backed'
<1> SUFFICES ASSUME errors = 0, crashes = 0, NEW n \in Rows, row'[n].status = "submitted",
                    ~Backs(w, n)'
             PROVE  \E v \in Workers : Backs(v, n)'
  BY DEF Backed
<1>1. PICK v \in Workers : Backs(v, n)  BY DEF Backed
<1>2. v # w /\ row'[n].nonce = row[n].nonce  BY <1>1
<1> QED BY <1>1, <1>2 DEF Backs

LEMMA BackedSave ==
  ASSUME TypeOK, Unique, Backed, NEW w \in Workers,
         \/ Resequence(w) \/ MappingFails(w) \/ MarkSubmitted(w) \/ SaveFailed(w)
         \/ SaveStale(w) \/ SaveConfirmed(w)
  PROVE  Unique' /\ Backed'
<1> DEFINE n == job[w].sub
<1>1. /\ pc[w] # "idle" /\ held[w] \in RowType /\ held[w].sub = n /\ n \in Rows
      /\ held[w].status # "absent" /\ job[w] \in Jobs
  BY DEF TypeOK, Resequence, MappingFails, MarkSubmitted, SaveFailed, SaveStale, SaveConfirmed
<1>2. UNCHANGED <<errors, crashes>>
  BY DEF Resequence, MappingFails, MarkSubmitted, SaveFailed, SaveStale, SaveConfirmed
<1>3. \A v \in Workers \ {w} : pc'[v] = pc[v] /\ job'[v] = job[v] /\ held'[v] = held[v]
  BY DEF Resequence, MappingFails, MarkSubmitted, SaveFailed, SaveStale, SaveConfirmed, Retry,
         EndJob, TypeOK
<1>4. \A m \in Rows : Backs(w, m) => m = n  BY DEF Backs
<1>5. CASE Resequence(w) \/ MarkSubmitted(w)
  <2>1. PICK e \in RowType : /\ Save(e) /\ e.sub = n /\ e.status # "absent"
                             /\ e.nonce = held[w].nonce
    BY <1>1, <1>5 DEF Resequence, MarkSubmitted, RowType, Status
  <2>2. /\ \A m \in Rows : row'[m] = IF m = n THEN e ELSE row[m]
        /\ Rows' = Rows
    BY <1>1, <2>1, SavedRow
  <2>3. pc'[w] \in {"mark", "send"} /\ job' = job /\ held' = held
    BY <1>5 DEF Resequence, MarkSubmitted, TypeOK
  <2>4. \A m \in Rows : m = n => Backs(w, m)'  BY <1>1, <2>1, <2>2, <2>3 DEF Backs
  <2>5. \A m \in Rows : row'[m].status = "submitted" =>
          \/ Backs(w, m)'
          \/ row[m].status = "submitted" /\ row'[m].nonce = row[m].nonce /\ ~Backs(w, m)
    BY <1>4, <2>2, <2>4
  <2>6. Backed'
    <3> HIDE DEF n
    <3> QED BY <1>2, <1>3, <2>2, <2>5, BackedByOne
  <2> QED BY <1>1, <2>1, <2>6, UniqueSaved
<1>6. CASE MappingFails(w) \/ SaveFailed(w) \/ SaveStale(w) \/ SaveConfirmed(w)
  <2>1. PICK e \in RowType : Save(e) /\ e.sub = n /\ e.status \in {"failed", "confirmed"}
    BY <1>1, <1>6 DEF MappingFails, SaveFailed, SaveStale, SaveConfirmed, RowType, Status
  <2>2. /\ \A m \in Rows : row'[m] = IF m = n THEN e ELSE row[m]
        /\ Rows' = Rows
    BY <1>1, <2>1, SavedRow
  <2>3. Backed'  BY <1>2, <1>3, <1>4, <2>1, <2>2, BackedByOne
  <2> QED BY <1>1, <2>1, <2>3, UniqueSaved
<1> QED BY <1>5, <1>6

LEMMA BackedWork ==
  ASSUME TypeOK, Unique, Backed, NEW w \in Workers,
         WorkerStep(w) \/ DatabaseFails(w) \/ WorkerDies(w)
  PROVE  Unique' /\ Backed'
<1>1. CASE \/ Resequence(w) \/ MappingFails(w) \/ MarkSubmitted(w) \/ SaveFailed(w)
           \/ SaveStale(w) \/ SaveConfirmed(w)
  BY <1>1, BackedSave
<1>2. CASE DatabaseFails(w) \/ WorkerDies(w)
  <2>1. UNCHANGED <<project, row>> /\ (errors' # 0 \/ crashes' # 0)
    BY <1>2 DEF DatabaseFails, WorkerDies, TypeOK
  <2> QED BY <2>1 DEF Unique, Backed, Rows
<1>3. ASSUME TakeJob(w) \/ ReadChainNonce(w) \/ CheckNewer(w) \/ Send(w) \/ PollSucceeds(w)
               \/ ChainFails(w) \/ Credit(w) \/ AttemptFails(w)
      PROVE  Unique' /\ Backed'
  <2>1. UNCHANGED <<project, row, errors, crashes>> /\ Rows' = Rows
    BY <1>3 DEF TakeJob, ReadChainNonce, CheckNewer, Send, PollSucceeds, ChainFails, Credit,
                AttemptFails, Rows
  <2>2. \A v \in Workers \ {w} : pc'[v] = pc[v] /\ job'[v] = job[v] /\ held'[v] = held[v]
    BY <1>3 DEF TakeJob, ReadChainNonce, CheckNewer, Send, PollSucceeds, ChainFails, Credit,
                AttemptFails, Throw, Retry, EndJob, TypeOK
  <2>3. \A n \in Rows : Backs(w, n) => Backs(w, n)'
    <3>1. CASE TakeJob(w) \/ ReadChainNonce(w) \/ CheckNewer(w) \/ Credit(w)
      BY <3>1 DEF TakeJob, ReadChainNonce, CheckNewer, Credit, Backs
    <3>2. CASE Send(w) \/ PollSucceeds(w) \/ ChainFails(w)
      <4>1. /\ pc'[w] \in {"poll", "confirm", "fail"} /\ job' = job
            /\ held'[w].nonce = held[w].nonce
        BY <3>2 DEF Send, PollSucceeds, ChainFails, TypeOK, RowType
      <4> QED BY <2>1, <4>1 DEF Backs
    <3>3. CASE AttemptFails(w)
      <4> SUFFICES ASSUME NEW n \in Rows, Backs(w, n)
                   PROVE  FALSE
        OBVIOUS
      <4>1. pc[w] # "read" /\ Taken(held[w]) /\ held[w].sub = n /\ held[w].nonce = row[n].nonce
        BY <3>3 DEF AttemptFails, Backs, TypeOK
      <4>2. PICK m \in Rows \ {n} : project[m] = project[n] /\ row[m].nonce = row[n].nonce
        BY <4>1 DEF Taken
      <4> QED BY <4>2 DEF Unique
    <3> QED BY <1>3, <3>1, <3>2, <3>3
  <2>4. Backed'  BY <2>1, <2>2, <2>3, BackedByOne
  <2> QED BY <2>1, <2>4 DEF Unique
<1> QED BY <1>1, <1>2, <1>3 DEF WorkerStep

LEMMA BackedRepair ==
  ASSUME TypeOK, Unique, Backed, NEW r \in Reconcilers,
         ReconcileStep(r) \/ ReadAgainFails(r) \/ ReconcileStops(r)
  PROVE  Unique' /\ Backed'
<1>1. UNCHANGED <<pc, job, held>> /\ (errors' = 0 => errors = 0) /\ (crashes' = 0 => crashes = 0)
  <2>1. UNCHANGED <<pc, job, held>>
    BY DEF ReconcileStep, StartReconcile, ReadAgain, ReadAgainFails, FindStale, Renumber, Requeue,
           FindGaps, ConfirmGap, CreditGap, FinishReconcile, ReconcileFails, ReconcileStops
  <2>2. /\ errors' = errors \/ errors' = errors + 1
        /\ crashes' = crashes \/ crashes' = crashes + 1
    BY DEF ReconcileStep, StartReconcile, ReadAgain, ReadAgainFails, FindStale, Renumber, Requeue,
           FindGaps, ConfirmGap, CreditGap, FinishReconcile, ReconcileFails, ReconcileStops
  <2> QED BY <2>1, <2>2 DEF TypeOK
<1>2. CASE Renumber(r) \/ ConfirmGap(r)
  <2>1. PICK e \in RowType : e.sub \in Rows /\ Save(e) /\ e.status \in {"pending", "confirmed"}
    <3>1. \A f \in First(recRows[r]) : f \in RowType /\ f.sub \in Rows  BY DEF First, TypeOK
    <3>2. CASE Renumber(r)
      <4>1. PICK f \in First(recRows[r]) :
              Save([f EXCEPT !.status = "pending", !.nonce = recNext[r]])
        BY <3>2 DEF Renumber
      <4> DEFINE g == [f EXCEPT !.status = "pending", !.nonce = recNext[r]]
      <4>2. recNext[r] \in Nat  BY DEF TypeOK
      <4>3. g \in RowType /\ g.sub = f.sub /\ g.status = "pending"
        BY <3>1, <4>2 DEF RowType, Status
      <4> HIDE DEF g
      <4>4. Save(g)  BY <4>1 DEF g
      <4> QED BY <3>1, <4>3, <4>4
    <3>3. CASE ConfirmGap(r)
      <4>1. PICK f \in First(recRows[r]) :
              Save([f EXCEPT !.status = "confirmed", !.hash = ReconciledHash(f)])
        BY <3>3 DEF ConfirmGap
      <4> DEFINE g == [f EXCEPT !.status = "confirmed", !.hash = ReconciledHash(f)]
      <4>2. ReconciledHash(f) \in Hashes  BY <3>1 DEF ReconciledHash, RowType, Hashes
      <4>3. g \in RowType /\ g.sub = f.sub /\ g.status = "confirmed"
        BY <3>1, <4>2 DEF RowType, Status
      <4> HIDE DEF g
      <4>4. Save(g)  BY <4>1 DEF g
      <4> QED BY <3>1, <4>3, <4>4
    <3> QED BY <1>2, <3>2, <3>3
  <2>2. /\ \A m \in Rows : row'[m] = IF m = e.sub THEN e ELSE row[m]
        /\ Rows' = Rows
    BY <2>1, SavedRow
  <2>3. Backed'  BY <1>1, <2>1, <2>2, BackedBesides
  <2> QED BY <2>1, <2>3, UniqueSaved
<1>3. CASE ~(Renumber(r) \/ ConfirmGap(r))
  <2>1. UNCHANGED <<project, row>>
    BY <1>3 DEF ReconcileStep, StartReconcile, ReadAgain, ReadAgainFails, FindStale, Requeue,
                FindGaps, CreditGap, FinishReconcile, ReconcileFails, ReconcileStops
  <2>2. Backed'  BY <1>1, <2>1, BackedBesides DEF Rows
  <2> QED BY <2>1, <2>2 DEF Unique, Rows
<1> QED BY <1>2, <1>3

LEMMA BackedIndex ==
  ASSUME TypeOK, Unique, Backed, NEW i \in Indexers, Index(i)
  PROVE  Unique' /\ Backed'
<1>1. UNCHANGED <<pc, job, held, crashes>> /\ (errors' = 0 => errors = 0)
  BY DEF Index, IndexerLoads, IndexerSaves, IndexerCredits, IndexerFails, TypeOK
<1>2. CASE IndexerSaves(i)
  <2> DEFINE e == [idxRow[i] EXCEPT !.status = "confirmed"]
  <2>1. idxRow[i] \in RowType /\ idxRow[i].sub \in Rows /\ Save(e)
    BY <1>2 DEF IndexerSaves, TypeOK
  <2>2. e \in RowType /\ e.sub \in Rows /\ e.status = "confirmed"
    BY <2>1 DEF RowType, Status
  <2> HIDE DEF e
  <2>3. /\ \A m \in Rows : row'[m] = IF m = e.sub THEN e ELSE row[m]
        /\ Rows' = Rows
    BY <2>1, <2>2, SavedRow
  <2>4. Backed'  BY <1>1, <2>2, <2>3, BackedBesides
  <2> QED BY <2>1, <2>2, <2>4, UniqueSaved
<1>3. CASE ~IndexerSaves(i)
  <2>1. UNCHANGED <<project, row>>
    BY <1>3 DEF Index, IndexerLoads, IndexerCredits, IndexerFails
  <2>2. Backed'  BY <1>1, <2>1, BackedBesides DEF Rows
  <2> QED BY <2>1, <2>2 DEF Unique, Rows
<1> QED BY <1>2, <1>3

LEMMA BackedTrigger ==
  ASSUME TypeOK, Unique, Backed, NEW n \in Subs, NEW p \in Projects, TriggerSubmission(n, p)
  PROVE  Unique' /\ Backed'
<1>1. PICK k \in TopNonce :
        row' = [row EXCEPT ![n] = [NoRow(n) EXCEPT !.status = "pending", !.nonce = k + 1]]
  BY DEF TriggerSubmission
<1> DEFINE e == [NoRow(n) EXCEPT !.status = "pending", !.nonce = k + 1]
<1>2. /\ n \notin Rows /\ project' = [project EXCEPT ![n] = p]
      /\ UNCHANGED <<pc, job, held, errors, crashes>>
  BY DEF TriggerSubmission
<1>3. e.status = "pending" /\ e.nonce = k + 1  BY DEF NoRow
<1> HIDE DEF e
<1>4. \A m \in Subs : /\ row'[m] = IF m = n THEN e ELSE row[m]
                      /\ project'[m] = IF m = n THEN p ELSE project[m]
  BY <1>1, <1>2 DEF TypeOK, e
<1>5. Rows' = Rows \cup {n} /\ \A m \in Rows : m # n /\ m \in Subs
  BY <1>2, <1>3, <1>4 DEF Rows
<1>6. k \in Nat /\ \A m \in Rows : row[m].nonce \in Nat /\ row[m].nonce <= k
  BY DEF TopNonce, Nonces, TypeOK, RowType, Rows
<1>7. Unique'  BY <1>3, <1>4, <1>5, <1>6 DEF Unique
<1>8. Backed'  BY <1>2, <1>3, <1>4, <1>5, BackedBesides
<1> QED BY <1>7, <1>8

\* Whatever workers, reconciliations and the indexer do to the row, and however often a
\* contract is redeployed.
THEOREM SubmittedJobCorrect == Spec => []SubmittedHasJob
<1>1. Init => TypeOK /\ Unique /\ Backed
  BY InitType DEF Init, Unique, Backed, Rows, NoRow
<1>2. TypeOK /\ Unique /\ Backed /\ [Next]_vars => (TypeOK /\ Unique /\ Backed)'
  <2> SUFFICES ASSUME TypeOK, Unique, Backed, [Next]_vars
               PROVE  Unique' /\ Backed'
    BY StepType
  <2>1. CASE UNCHANGED <<project, row, pc, job, held, errors, crashes>>
    BY <2>1 DEF Unique, Backed, Backs, Rows
  <2>2. ASSUME NEW n \in Subs, Enqueue(n) \/ EnqueueFails(n)
        PROVE  Unique' /\ Backed'
    <3>1. UNCHANGED <<project, row, pc, job, held, crashes>> /\ (errors' = 0 => errors = 0)
      BY <2>2 DEF Enqueue, EnqueueFails, TypeOK
    <3> QED BY <3>1 DEF Unique, Backed, Backs, Rows
  <2>3. ASSUME NEW tx \in flying, Land(tx) \/ Drop(tx)
        PROVE  UNCHANGED <<project, row, pc, job, held, errors, crashes>>
    BY <2>3 DEF Land, Drop
  <2>4. Redeploy => UNCHANGED <<project, row, pc, job, held, errors, crashes>>
    BY DEF Redeploy
  <2>5. CASE UNCHANGED vars  BY <2>1, <2>5 DEF vars
  <2> QED
    BY <2>1, <2>2, <2>3, <2>4, <2>5, BackedTrigger, BackedWork, BackedRepair, BackedIndex DEF Next
<1>3. Backed => SubmittedHasJob  BY DEF Backed, Backs, SubmittedHasJob, LiveJob
<1> QED BY <1>1, <1>2, <1>3, PTL DEF Spec
=============================================================================
