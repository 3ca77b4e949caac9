---------------------------- MODULE Readings_proofs ----------------------------
(* Theorems about what becomes of a reading, for every value of the constants: in *)
(* its batch (ReadingBatches), and on its way to the watchers (SensorAlerts).      *)
EXTENDS ReadingBatches, SensorAlerts, FiniteSetTheorems, TLAPS

USE DEF batchVars, subVars, reqVars, cycleVars, workVars, faultVars

LEMMA InitType == Init => TypeOK
BY ConstantsAssumption
   DEF Init, TypeOK, Projects, Batches, BatchStatus, Holding, NoSubmission

LEMMA IngestType ==
  ASSUME TypeOK, NEW c \in Requests, Ingest(c) PROVE TypeOK'
<1> USE ConstantsAssumption DEF TypeOK, BatchStatus, Holding, Projects, Pending, EndRequest
<1>1. CASE \E r \in Readings : BeginIngest(c, r)  BY <1>1 DEF BeginIngest
<1>2. CASE CloseStale(c)     BY <1>2 DEF CloseStale
<1>3. CASE InsertPending(c)
  <2> DEFINE p == ProjectOf[reqReading[c]]
  <2>1. status' \in [Batches -> BatchStatus]
    <3>1. CASE Pending(p) # {}  BY <1>3, <3>1 DEF InsertPending
    <3>2. CASE Pending(p) = {}  BY <1>3, <3>2 DEF InsertPending
    <3> QED BY <3>1, <3>2
  <2>2. reqPc' = [reqPc EXCEPT ![c] = "select"]  BY <1>3 DEF InsertPending
  <2> QED BY <1>3, <2>1, <2>2 DEF InsertPending
<1>4. CASE SelectPending(c)
  <2> DEFINE p == ProjectOf[reqReading[c]]
  <2>1. ASSUME NEW b \in Batches,
               reqBatch' = [reqBatch EXCEPT ![c] = b],
               reqPc' = [reqPc EXCEPT ![c] = "save"],
               UNCHANGED reqReading
        PROVE  TypeOK'
    BY <1>4, <2>1 DEF SelectPending
  <2>2. CASE EndRequest(c)  BY <1>4, <2>2 DEF SelectPending
  <2> QED BY <1>4, <2>1, <2>2 DEF SelectPending, Resolvable
<1>5. CASE SaveReading(c)
  <2> DEFINE r == reqReading[c]
  <2>1. CASE batchOf[r] = NoBatch
    <3>1. r \in Readings /\ reqBatch[c] \in Batches
      BY <1>5 DEF SaveReading
    <3> DEFINE b == reqBatch[c]
    <3>a. /\ batchOf' = [batchOf EXCEPT ![r] = b]
          /\ readingCount' = [readingCount EXCEPT ![b] = @ + 1]
      BY <1>5, <2>1 DEF SaveReading, Store
    <3>2. batchOf' \in [Readings -> Batches \cup {NoBatch}]
      BY <3>1, <3>a
    <3>3. readingCount' \in [Batches -> Nat]
      <4>1. readingCount[b] + 1 \in Nat  BY <3>1
      <4> QED BY <3>a, <4>1
    <3>4. reqPc' = [reqPc EXCEPT ![c] = "enqueue"] /\ UNCHANGED <<reqReading, reqBatch>>
      BY <1>5, <2>1 DEF SaveReading
    <3> QED BY <1>5, <3>1, <3>2, <3>3, <3>4 DEF SaveReading
  <2>2. CASE batchOf[r] # NoBatch
    BY <1>5, <2>2 DEF SaveReading
  <2> QED BY <2>1, <2>2
<1>6. CASE EnqueueFanout(c)  BY <1>6 DEF EnqueueFanout, FanOut
<1>7. CASE IngestFails(c)    BY <1>7 DEF IngestFails
<1> QED BY <1>1, <1>2, <1>3, <1>4, <1>5, <1>6, <1>7 DEF Ingest

\* The part of TypeOK that a new oracle_submissions row touches.
InsertedOK ==
  /\ submission' \in [1..MaxSubs -> [batch : Batches \cup {NoBatch},
                                     covers : SUBSET Readings, auto : BOOLEAN]]
  /\ lastNonce' \in 0..MaxSubs
  /\ queued \in SUBSET (1..lastNonce')
  /\ \A n \in 1..MaxSubs : n <= lastNonce' <=> submission'[n].batch \in Batches

LEMMA RowType ==
  ASSUME TypeOK,
         NEW row \in [batch : Batches \cup {NoBatch}, covers : SUBSET Readings,
                      auto : BOOLEAN],
         row.batch \in Batches, InsertSubmission(row)
  PROVE  InsertedOK
BY ConstantsAssumption DEF TypeOK, InsertSubmission, InsertedOK

LEMMA ScheduleType ==
  ASSUME TypeOK, NEW s \in Replicas, Schedule(s) PROVE TypeOK'
<1> USE ConstantsAssumption DEF TypeOK, BatchStatus, Holding, Projects, Pending, EndCycle, NextBatch
<1>1. CASE StartCycle(s)         BY <1>1 DEF StartCycle
<1>2. CASE FindEligible(s)
  <2>1. Eligible(project[s]) \in SUBSET Batches  BY DEF Eligible
  <2>2. eligible' \in [Replicas -> SUBSET Batches]  BY <1>2, <2>1 DEF FindEligible
  <2> QED BY <1>2, <2>2 DEF FindEligible
<1>3. CASE ClaimBatch(s)
  <2>1. PICK b \in eligible[s] :
          /\ eligible' = [eligible EXCEPT ![s] = @ \ {b}]
          /\ \/ /\ status' = [status EXCEPT ![b] = "submitted"]
                /\ claim' = [claim EXCEPT ![s] = b]
                /\ cyclePc' = [cyclePc EXCEPT ![s] = "aggregate"]
             \/ UNCHANGED <<status, claim, cyclePc>>
    BY <1>3 DEF ClaimBatch
  <2>2. b \in Batches  BY <2>1
  <2>3. eligible' \in [Replicas -> SUBSET Batches]  BY <2>1
  <2>4. CASE UNCHANGED <<status, claim, cyclePc>>
    BY <1>3, <2>3, <2>4 DEF ClaimBatch
  <2>5. CASE /\ status' = [status EXCEPT ![b] = "submitted"]
             /\ claim' = [claim EXCEPT ![s] = b]
             /\ cyclePc' = [cyclePc EXCEPT ![s] = "aggregate"]
    BY <1>3, <2>2, <2>3, <2>5 DEF ClaimBatch
  <2> QED BY <2>1, <2>4, <2>5
<1>4. CASE FinishProject(s)
  <2>1. CASE EndCycle(s)  BY <1>4, <2>1 DEF FinishProject
  <2>2. CASE ~EndCycle(s)
    <3>1. /\ project[s] < NumProjects
          /\ project' = [project EXCEPT ![s] = @ + 1]
          /\ cyclePc' = [cyclePc EXCEPT ![s] = "find"]
          /\ UNCHANGED <<eligible, claim, covered, nonce>>
      BY <1>4, <2>2 DEF FinishProject
    <3>2. project[s] \in 0..NumProjects  OBVIOUS
    <3>3. project[s] + 1 \in 1..NumProjects  BY <3>1, <3>2
    <3> QED BY <1>4, <3>1, <3>3 DEF FinishProject
  <2> QED BY <2>1, <2>2
<1>5. CASE AggregateBatch(s)     BY <1>5 DEF AggregateBatch, ReadingsIn
<1>6. CASE TriggerSubmission(s)
  <2> DEFINE row == [batch |-> claim[s], covers |-> covered[s], auto |-> TRUE]
             Row == [batch : Batches \cup {NoBatch}, covers : SUBSET Readings,
                     auto : BOOLEAN]
  <2>1. claim[s] \in Batches /\ row \in Row /\ row.batch \in Batches
    BY <1>6 DEF TriggerSubmission
  <2>2. /\ lastNonce < MaxSubs /\ lastNonce' = lastNonce + 1
        /\ submission' = [submission EXCEPT ![lastNonce + 1] = row]
    BY <1>6 DEF TriggerSubmission, InsertSubmission
  <2>3. InsertedOK  BY <1>6, <2>1, RowType DEF TriggerSubmission, Row, row
  <2>4. nonce' \in [Replicas -> 0..MaxSubs]
    BY <1>6, <2>2 DEF TriggerSubmission
  <2> QED BY <1>6, <2>2, <2>3, <2>4 DEF TriggerSubmission, InsertedOK
<1>7. CASE EnqueueSubmission(s)
  <2>1. nonce[s] \in 1..lastNonce  BY <1>7 DEF EnqueueSubmission
  <2>2. queued' \in SUBSET (1..lastNonce)  BY <1>7, <2>1 DEF EnqueueSubmission
  <2>3. /\ cyclePc' = [cyclePc EXCEPT ![s] = "claim"]
        /\ claim' = [claim EXCEPT ![s] = NoBatch]
        /\ covered' = [covered EXCEPT ![s] = {}]
        /\ nonce' = [nonce EXCEPT ![s] = 0]
        /\ UNCHANGED <<batchVars, batchOf, fanout, submission, lastNonce,
             reqVars, project, eligible, draining, workVars, faultVars>>
    BY <1>7 DEF EnqueueSubmission
  <2>4. project[s] \in Projects  BY <1>7 DEF EnqueueSubmission
  <2> QED BY <2>2, <2>3, <2>4
<1>8. CASE SubmissionFails(s)    BY <1>8 DEF SubmissionFails
<1>9. CASE ReleaseBatch(s)
  <2>1. claim[s] \in Batches /\ cyclePc[s] = "release"  BY <1>9 DEF ReleaseBatch
  <2>2. status' \in [Batches -> BatchStatus]  BY <1>9, <2>1 DEF ReleaseBatch
  <2>3. CASE EndCycle(s)   BY <1>9, <2>2, <2>3 DEF ReleaseBatch
  <2>4. CASE NextBatch(s)  BY <1>9, <2>2, <2>4 DEF ReleaseBatch
  <2> QED BY <1>9, <2>3, <2>4 DEF ReleaseBatch
<1>10. CASE Shutdown(s)          BY <1>10 DEF Shutdown
<1>11. CASE Restart(s)           BY <1>11 DEF Restart
<1>12. CASE Crash(s)             BY <1>12 DEF Crash
<1>13. CASE CycleAborts(s)       BY <1>13 DEF CycleAborts
<1> QED BY <1>1, <1>2, <1>3, <1>4, <1>5, <1>6, <1>7, <1>8, <1>9, <1>10, <1>11,
           <1>12, <1>13 DEF Schedule, CycleStep

LEMMA ConfirmType ==
  ASSUME TypeOK, NEW w \in Workers, Confirm(w) PROVE TypeOK'
<1> USE ConstantsAssumption DEF TypeOK, BatchStatus, Holding, Projects
<1>1. CASE LoadBatch(w)     BY <1>1 DEF LoadBatch
<1>2. CASE ConfirmBatch(w)  BY <1>2 DEF ConfirmBatch
<1>3. CASE ConfirmFails(w)  BY <1>3 DEF ConfirmFails
<1> QED BY <1>1, <1>2, <1>3 DEF Confirm

LEMMA EnvironmentType ==
  ASSUME TypeOK,
         \/ \E b \in Batches : WindowCloses(b) \/ ManualTrigger(b)
         \/ \E p \in Projects : IndexerConfirms(p)
  PROVE  TypeOK'
<1> USE ConstantsAssumption DEF TypeOK, BatchStatus, Holding, Projects
<1>1. ASSUME NEW b \in Batches, WindowCloses(b) PROVE TypeOK'
  BY <1>1 DEF WindowCloses
<1>2. ASSUME NEW b \in Batches, ManualTrigger(b) PROVE TypeOK'
  BY <1>2 DEF ManualTrigger, InsertSubmission
<1>3. ASSUME NEW p \in Projects, IndexerConfirms(p) PROVE TypeOK'
  BY <1>3 DEF IndexerConfirms
<1> QED BY <1>1, <1>2, <1>3

\* Every step of ingestion, scheduling and confirmation keeps the types.
LEMMA NextType == TypeOK /\ [Next]_vars => TypeOK'
<1> SUFFICES ASSUME TypeOK, [Next]_vars PROVE TypeOK'  OBVIOUS
<1>1. CASE Next
  BY <1>1, IngestType, ScheduleType, ConfirmType, EnvironmentType DEF Next
<1>2. CASE UNCHANGED vars
  BY <1>2 DEF vars, TypeOK
<1> QED BY <1>1, <1>2

\* The state of ReadingBatches is well typed in every reachable state.
THEOREM TypeCorrect == Spec => []TypeOK
BY InitType, NextType, PTL DEF Spec

-----------------------------------------------------------------------------
(* The inductive invariant: what the safety properties rest on.            *)

Closed == {"submitted", "confirmed"}

\* A row that does not exist counts nothing, and no request stores into it.
NothingAbsent ==
  /\ \A b \in Batches : status[b] = "absent" => readingCount[b] = 0 /\ ReadingsIn(b) = {}
  /\ \A c \in Requests : reqPc[c] = "save" => status[reqBatch[c]] # "absent"

\* A batch that a cycle works on, or is about to claim, has readings ...
WorkNotEmpty ==
  /\ ClaimNotEmpty
  /\ \A s \in Replicas : \A b \in eligible[s] : ReadingsIn(b) # {}

\* ... and a claimed one is no longer open.
HeldClosed == \A s \in Replicas : cyclePc[s] \in Holding => status[claim[s]] \in Closed

\* A batch on the oracle-submit queue is closed, nobody works on it any more,
\* and it is there once; a cycle about to enqueue holds its own row.
HandedOver ==
  /\ \A n \in queued : submission[n].auto =>
       /\ status[submission[n].batch] \in Closed
       /\ \A s \in Replicas : cyclePc[s] \in Holding => claim[s] # submission[n].batch
  /\ \A m, n \in queued :
       submission[m].auto /\ submission[n].auto
         /\ submission[m].batch = submission[n].batch => m = n
  /\ \A s \in Replicas : cyclePc[s] = "enqueue" =>
       submission[nonce[s]].auto /\ submission[nonce[s]].batch = claim[s]

\* Submission rows cover readings of their batch, and a cycle about to insert
\* one has aggregated at least what the earlier rows of its batch cover.
CoverGrows ==
  /\ \A n \in 1..lastNonce : submission[n].auto =>
       submission[n].covers \subseteq ReadingsIn(submission[n].batch)
  /\ \A s \in Replicas : cyclePc[s] = "trigger" =>
       /\ covered[s] \subseteq ReadingsIn(claim[s])
       /\ \A n \in 1..lastNonce :
            submission[n].auto /\ submission[n].batch = claim[s] =>
              submission[n].covers \subseteq covered[s]

CountInv == CountExact /\ NothingAbsent
ClaimInv == ClaimExclusive /\ HeldClosed
IInv ==
  TypeOK /\ CountInv /\ WorkNotEmpty /\ ClaimInv /\ HandedOver
    /\ CoverGrows /\ ResubmissionGrows

-----------------------------------------------------------------------------
(* What any step may do to a batch row, and to the batch of a reading.      *)

\* A row never disappears, a CONFIRMED batch stays CONFIRMED, and a closed
\* batch is reopened only by the cycle that claimed it.
LEMMA StatusMoves ==
  ASSUME TypeOK, [Next]_vars, NEW b \in Batches
  PROVE  /\ status[b] # "absent" => status'[b] # "absent"
         /\ status[b] = "confirmed" => status'[b] = "confirmed"
         /\ status[b] \in Closed =>
              \/ status'[b] \in Closed
              \/ \E s \in Replicas : ReleaseBatch(s) /\ b = claim[s]
<1> DEFINE Moves == /\ status[b] # "absent" => status'[b] # "absent"
                    /\ status[b] = "confirmed" => status'[b] = "confirmed"
                    /\ status[b] \in Closed => status'[b] \in Closed
<1> USE DEF Closed
<1>0. status \in [Batches -> BatchStatus]  BY DEF TypeOK
<1>1. CASE UNCHANGED status  BY <1>1
<1>2. ASSUME NEW c \in Requests, CloseStale(c) PROVE Moves
  BY <1>2 DEF CloseStale, Pending
<1>3. ASSUME NEW c \in Requests, InsertPending(c) PROVE Moves
  BY <1>0, <1>3 DEF InsertPending, IsFresh
<1>4. ASSUME NEW s \in Replicas, ClaimBatch(s) PROVE Moves
  BY <1>0, <1>4 DEF ClaimBatch, Claimable
<1>5. ASSUME NEW s \in Replicas, ReleaseBatch(s)
      PROVE  /\ status[b] # "absent" => status'[b] # "absent"
             /\ status[b] = "confirmed" => status'[b] = "confirmed"
             /\ b # claim[s] => status'[b] = status[b]
  BY <1>0, <1>5 DEF ReleaseBatch, Releasable
<1>6. ASSUME NEW w \in Workers, ConfirmBatch(w) PROVE Moves
  BY <1>0, <1>6 DEF ConfirmBatch
<1>7. ASSUME NEW p \in Projects, IndexerConfirms(p) PROVE Moves
  BY <1>7 DEF IndexerConfirms
<1>8. \/ UNCHANGED status
      \/ \E c \in Requests : CloseStale(c) \/ InsertPending(c)
      \/ \E s \in Replicas : ClaimBatch(s) \/ ReleaseBatch(s)
      \/ \E w \in Workers : ConfirmBatch(w)
      \/ \E p \in Projects : IndexerConfirms(p)
  BY DEF Next, vars, WindowCloses, ManualTrigger, Ingest, BeginIngest, SelectPending,
     SaveReading, EnqueueFanout, IngestFails, Schedule, CycleStep, StartCycle,
     FindEligible, FinishProject, AggregateBatch, TriggerSubmission,
     EnqueueSubmission, SubmissionFails, Shutdown, Restart, Crash, CycleAborts, Confirm,
     LoadBatch, ConfirmFails
<1> QED BY <1>1, <1>2, <1>3, <1>4, <1>5, <1>6, <1>7, <1>8

\* A step stores one new reading, lets a confirmation overwrite the counter of
\* its batch, or leaves the readings and the counters of all batches alone.
LEMMA ReadingMoves ==
  ASSUME [Next]_vars
  PROVE  \/ \E c \in Requests : SaveReading(c) /\ batchOf[reqReading[c]] = NoBatch
         \/ \E w \in Workers : ConfirmBatch(w)
         \/ UNCHANGED <<batchOf, readingCount>>
BY DEF Next, vars, WindowCloses, ManualTrigger, Ingest, BeginIngest, CloseStale,
   InsertPending, SelectPending, SaveReading, EnqueueFanout, IngestFails,
   Schedule, CycleStep, StartCycle, FindEligible, ClaimBatch, FinishProject,
   AggregateBatch, TriggerSubmission, EnqueueSubmission, SubmissionFails,
   ReleaseBatch, Shutdown, Restart, Crash, CycleAborts, Confirm, LoadBatch, ConfirmBatch,
   ConfirmFails, IndexerConfirms

\* The readings of a batch are never taken from it.
LEMMA ReadingsGrow ==
  ASSUME TypeOK, [Next]_vars, NEW b \in Batches
  PROVE  ReadingsIn(b) \subseteq ReadingsIn(b)'
<1>1. CASE UNCHANGED batchOf  BY <1>1 DEF ReadingsIn
<1>2. ASSUME NEW c \in Requests, SaveReading(c), batchOf[reqReading[c]] = NoBatch
      PROVE  ReadingsIn(b) \subseteq ReadingsIn(b)'
  <2>1. batchOf' = [batchOf EXCEPT ![reqReading[c]] = reqBatch[c]]
    BY <1>2 DEF SaveReading, Store
  <2> QED BY <1>2, <2>1, ConstantsAssumption DEF ReadingsIn, TypeOK
<1> QED BY <1>1, <1>2, ReadingMoves DEF ConfirmBatch

-----------------------------------------------------------------------------
(* The counter of a batch.                                                 *)

LEMMA CountStep ==
  ASSUME TypeOK, CountInv, [Next]_vars PROVE CountInv'
<1> USE DEF CountInv
<1>1. ASSUME NEW b \in Batches PROVE IsFiniteSet(ReadingsIn(b))
  BY FS_Subset, ConstantsAssumption DEF ReadingsIn
<1>2. ASSUME NEW b \in Batches,
             status'[b] \in {"pending", "submitted"} \/ status'[b] = "absent"
      PROVE  /\ readingCount[b] = Cardinality(ReadingsIn(b))
             /\ status'[b] = "absent" => readingCount[b] = 0 /\ ReadingsIn(b) = {}
  <2>1. status[b] \in {"absent", "pending", "submitted"}
    BY <1>2, StatusMoves DEF TypeOK, BatchStatus
  <2> QED BY <1>2, <2>1, StatusMoves, FS_EmptySet DEF CountExact, NothingAbsent
<1>3. ASSUME NEW b \in Batches,
             status'[b] \in {"pending", "submitted"} \/ status'[b] = "absent"
      PROVE  \/ readingCount'[b] = readingCount[b] /\ ReadingsIn(b)' = ReadingsIn(b)
             \/ /\ status[b] # "absent"
                /\ \E r \in Readings : /\ r \notin ReadingsIn(b)
                                       /\ ReadingsIn(b)' = ReadingsIn(b) \cup {r}
                /\ readingCount'[b] = readingCount[b] + 1
  <2>1. CASE UNCHANGED <<batchOf, readingCount>>  BY <2>1 DEF ReadingsIn
  <2>2. ASSUME NEW w \in Workers, ConfirmBatch(w)
        PROVE  readingCount'[b] = readingCount[b] /\ ReadingsIn(b)' = ReadingsIn(b)
    <3>1. b # workBatch[w]  BY <1>3, <2>2 DEF ConfirmBatch, TypeOK
    <3> QED BY <2>2, <3>1 DEF ConfirmBatch, ReadingsIn, TypeOK
  <2>3. ASSUME NEW c \in Requests, SaveReading(c), batchOf[reqReading[c]] = NoBatch,
               b # reqBatch[c]
        PROVE  readingCount'[b] = readingCount[b] /\ ReadingsIn(b)' = ReadingsIn(b)
    BY <2>3, ConstantsAssumption DEF SaveReading, Store, ReadingsIn, TypeOK
  <2>4. ASSUME NEW c \in Requests, SaveReading(c), batchOf[reqReading[c]] = NoBatch,
               b = reqBatch[c]
        PROVE  /\ status[b] # "absent"
               /\ reqReading[c] \in Readings /\ reqReading[c] \notin ReadingsIn(b)
               /\ ReadingsIn(b)' = ReadingsIn(b) \cup {reqReading[c]}
               /\ readingCount'[b] = readingCount[b] + 1
    <3>1. reqPc[c] = "save"  BY <2>4 DEF SaveReading
    <3>2. status[b] # "absent" /\ reqReading[c] \in Readings
      BY <2>4, <3>1 DEF NothingAbsent, TypeOK
    <3>3. /\ batchOf' = [batchOf EXCEPT ![reqReading[c]] = b]
          /\ readingCount' = [readingCount EXCEPT ![b] = @ + 1]
      BY <2>4 DEF SaveReading, Store
    <3> QED BY <2>4, <3>2, <3>3, ConstantsAssumption DEF ReadingsIn, TypeOK
  <2> QED BY <2>1, <2>2, <2>3, <2>4, ReadingMoves
<1>4. CountExact'
  <2> SUFFICES ASSUME NEW b \in Batches, status'[b] \in {"pending", "submitted"}
               PROVE  readingCount'[b] = Cardinality(ReadingsIn(b)')
    BY DEF CountExact
  <2>1. IsFiniteSet(ReadingsIn(b)) /\ readingCount[b] = Cardinality(ReadingsIn(b))
    BY <1>1, <1>2
  <2> QED BY <1>3, <2>1, FS_AddElement
<1>5. ASSUME NEW b \in Batches, status'[b] = "absent"
      PROVE  readingCount'[b] = 0 /\ ReadingsIn(b)' = {}
  BY <1>2, <1>3, <1>5, StatusMoves
<1>6. ASSUME NEW c \in Requests, reqPc'[c] = "save"
      PROVE  status'[reqBatch'[c]] # "absent"
  <2>1. reqBatch'[c] \in Batches  BY <1>6, NextType DEF TypeOK
  <2>2. CASE reqPc[c] = "save" /\ reqBatch'[c] = reqBatch[c]
    BY <2>1, <2>2, StatusMoves DEF NothingAbsent
  <2>3. CASE SelectPending(c)
    BY <1>6, <2>1, <2>3 DEF SelectPending, Resolvable, Pending, EndRequest, TypeOK
  <2>4. ASSUME NEW d \in Requests, Ingest(d)
        PROVE  \/ reqPc[c] = "save" /\ reqBatch'[c] = reqBatch[c]
               \/ SelectPending(c)
    BY <1>6, <2>4 DEF TypeOK, Ingest, BeginIngest, CloseStale, InsertPending,
       SelectPending, SaveReading, EnqueueFanout, IngestFails, EndRequest
  <2>5. UNCHANGED reqVars \/ \E d \in Requests : Ingest(d)
    BY DEF Next, vars, WindowCloses, ManualTrigger, Schedule, CycleStep, StartCycle,
       FindEligible, ClaimBatch, FinishProject, AggregateBatch, TriggerSubmission,
       EnqueueSubmission, SubmissionFails, ReleaseBatch, Shutdown, Restart, Crash, CycleAborts,
       Confirm, LoadBatch, ConfirmBatch, ConfirmFails, IndexerConfirms
  <2> QED BY <1>6, <2>2, <2>3, <2>4, <2>5
<1> QED BY <1>4, <1>5, <1>6 DEF NothingAbsent

-----------------------------------------------------------------------------
(* The claim.                                                              *)

\* A cycle's claim, and its set of batches still to visit, change only by its
\* own steps: a claim is taken by ClaimBatch and given up by leaving Holding.
LEMMA ClaimMoves ==
  ASSUME TypeOK, [Next]_vars, NEW s \in Replicas
  PROVE  /\ cyclePc'[s] \in Holding =>
              \/ cyclePc[s] \in Holding /\ claim'[s] = claim[s] /\ ~ReleaseBatch(s)
              \/ /\ claim'[s] \in eligible[s] /\ status[claim'[s]] = "pending"
                 /\ status'[claim'[s]] = "submitted"
                 /\ \A t \in Replicas : t # s => cyclePc'[t] = cyclePc[t]
                                                   /\ claim'[t] = claim[t]
                 /\ cyclePc[s] = "claim"
         /\ \/ eligible'[s] \subseteq eligible[s]
            \/ eligible'[s] = Eligible(project[s]) /\ UNCHANGED status
<1> DEFINE P == /\ cyclePc'[s] \in Holding =>
                     \/ cyclePc[s] \in Holding /\ claim'[s] = claim[s] /\ ~ReleaseBatch(s)
                     \/ /\ claim'[s] \in eligible[s] /\ status[claim'[s]] = "pending"
                        /\ status'[claim'[s]] = "submitted"
                        /\ \A t \in Replicas : t # s => cyclePc'[t] = cyclePc[t]
                                                          /\ claim'[t] = claim[t]
                        /\ cyclePc[s] = "claim"
                /\ \/ eligible'[s] \subseteq eligible[s]
                   \/ eligible'[s] = Eligible(project[s]) /\ UNCHANGED status
<1> SUFFICES P  OBVIOUS
<1> USE DEF Holding, TypeOK
<1>1. CASE UNCHANGED cycleVars
  BY <1>1 DEF ReleaseBatch, NextBatch, EndCycle
<1>2. ASSUME NEW t \in Replicas, Schedule(t), t # s PROVE P
  <2>1. /\ cyclePc'[s] = cyclePc[s] /\ claim'[s] = claim[s]
        /\ eligible'[s] = eligible[s]
    BY <1>2 DEF Schedule, CycleStep, StartCycle, FindEligible, ClaimBatch,
       FinishProject, AggregateBatch, TriggerSubmission, EnqueueSubmission,
       SubmissionFails, ReleaseBatch, Shutdown, Restart, Crash, CycleAborts, EndCycle, NextBatch
  <2> QED BY <2>1 DEF ReleaseBatch, NextBatch, EndCycle
<1>3. CASE ClaimBatch(s)
  BY <1>3 DEF ClaimBatch, Claimable
<1>4. CASE FindEligible(s)
  BY <1>4 DEF FindEligible
<1>5. CASE \/ StartCycle(s) \/ FinishProject(s) \/ AggregateBatch(s)
           \/ TriggerSubmission(s) \/ EnqueueSubmission(s) \/ SubmissionFails(s)
           \/ ReleaseBatch(s) \/ Shutdown(s) \/ Restart(s) \/ Crash(s) \/ CycleAborts(s)
  BY <1>5 DEF StartCycle, FinishProject, AggregateBatch, TriggerSubmission,
     EnqueueSubmission, SubmissionFails, ReleaseBatch, Shutdown, Restart, Crash, CycleAborts,
     EndCycle, NextBatch
<1>6. UNCHANGED cycleVars \/ \E t \in Replicas : Schedule(t)
  BY DEF Next, vars, WindowCloses, ManualTrigger, Ingest, BeginIngest, CloseStale,
     InsertPending, SelectPending, SaveReading, EnqueueFanout, IngestFails,
     Confirm, LoadBatch, ConfirmBatch, ConfirmFails, IndexerConfirms
<1> QED BY <1>1, <1>2, <1>3, <1>4, <1>5, <1>6 DEF Schedule, CycleStep

LEMMA ClaimStep ==
  ASSUME TypeOK, CountInv, WorkNotEmpty, ClaimInv, [Next]_vars
  PROVE  WorkNotEmpty' /\ ClaimInv'
<1> USE DEF ClaimInv
<1>1. ASSUME NEW s \in Replicas, cyclePc'[s] \in Holding
      PROVE  claim'[s] \in Batches
  BY <1>1, NextType DEF TypeOK
<1>2. ClaimExclusive'
  <2> SUFFICES ASSUME NEW s \in Replicas, NEW t \in Replicas,
                      cyclePc'[s] \in Holding, cyclePc'[t] \in Holding,
                      claim'[s] = claim'[t]
               PROVE  s = t
    BY DEF ClaimExclusive, Holding
  <2>1. "claim" \notin Holding /\ "pending" \notin Closed  BY DEF Holding, Closed
  <2> QED BY <2>1, ClaimMoves DEF ClaimExclusive, HeldClosed
<1>3. HeldClosed'
  <2> SUFFICES ASSUME NEW s \in Replicas, cyclePc'[s] \in Holding
               PROVE  status'[claim'[s]] \in Closed
    BY DEF HeldClosed, Holding, Closed
  <2>1. CASE status'[claim'[s]] = "submitted"  BY <2>1 DEF Closed
  <2>2. CASE cyclePc[s] \in Holding /\ claim'[s] = claim[s] /\ ~ReleaseBatch(s)
    <3>1. status[claim[s]] \in Closed  BY <2>2 DEF HeldClosed
    <3>2. ASSUME NEW t \in Replicas, ReleaseBatch(t), claim[t] = claim[s] PROVE FALSE
      BY <2>2, <3>2 DEF ReleaseBatch, ClaimExclusive, Holding
    <3> QED BY <1>1, <2>2, <3>1, <3>2, StatusMoves
  <2> QED BY <2>1, <2>2, ClaimMoves
<1>4. ASSUME NEW s \in Replicas, NEW b \in eligible'[s] PROVE ReadingsIn(b)' # {}
  <2>1. b \in Batches  BY NextType DEF TypeOK
  <2>2. CASE b \in eligible[s]
    BY <2>1, <2>2, ReadingsGrow DEF WorkNotEmpty
  <2>3. CASE b \in Eligible(project[s])
    <3>1. readingCount[b] > 0 /\ readingCount[b] = Cardinality(ReadingsIn(b))
      BY <2>1, <2>3 DEF Eligible, Pending, CountInv, CountExact
    <3>2. ReadingsIn(b) # {}  BY <3>1, FS_EmptySet
    <3> QED BY <2>1, <3>2, ReadingsGrow
  <2> QED BY <2>2, <2>3, ClaimMoves
<1>5. ASSUME NEW s \in Replicas, cyclePc'[s] \in Holding, NEW b \in Batches,
             b = claim'[s]
      PROVE  ReadingsIn(b)' # {}
  <2>1. ReadingsIn(b) # {}
    BY <1>5, ClaimMoves DEF WorkNotEmpty, ClaimNotEmpty
  <2> QED BY <2>1, ReadingsGrow
<1>6. ClaimNotEmpty'
  <2> SUFFICES ASSUME NEW s \in Replicas, (cyclePc[s] \in Holding)'
               PROVE  (ReadingsIn(claim[s]) # {})'
    BY DEF ClaimNotEmpty
  <2> QED BY <1>1, <1>5 DEF ReadingsIn, Holding
<1> QED BY <1>2, <1>3, <1>4, <1>6 DEF WorkNotEmpty

-----------------------------------------------------------------------------
(* The hand-over to the oracle-submit queue.                               *)

\* A cycle reaches "enqueue" by inserting its row and "trigger" by aggregating.
LEMMA LocalMoves ==
  ASSUME TypeOK, [Next]_vars, NEW s \in Replicas
  PROVE  /\ cyclePc'[s] = "enqueue" =>
              \/ TriggerSubmission(s)
              \/ cyclePc[s] = "enqueue" /\ claim'[s] = claim[s] /\ nonce'[s] = nonce[s]
         /\ cyclePc'[s] = "trigger" =>
              \/ AggregateBatch(s)
              \/ /\ cyclePc[s] = "trigger" /\ claim'[s] = claim[s]
                 /\ covered'[s] = covered[s] /\ ~TriggerSubmission(s)
<1> DEFINE P == /\ cyclePc'[s] = "enqueue" =>
                     \/ TriggerSubmission(s)
                     \/ /\ cyclePc[s] = "enqueue" /\ claim'[s] = claim[s]
                        /\ nonce'[s] = nonce[s]
                /\ cyclePc'[s] = "trigger" =>
                     \/ AggregateBatch(s)
                     \/ /\ cyclePc[s] = "trigger" /\ claim'[s] = claim[s]
                        /\ covered'[s] = covered[s] /\ ~TriggerSubmission(s)
<1> SUFFICES P  OBVIOUS
<1> USE DEF TypeOK
<1>1. CASE UNCHANGED cycleVars  BY <1>1 DEF TriggerSubmission
<1>2. ASSUME NEW t \in Replicas, Schedule(t), t # s PROVE P
  <2>1. /\ cyclePc'[s] = cyclePc[s] /\ claim'[s] = claim[s]
        /\ covered'[s] = covered[s] /\ nonce'[s] = nonce[s]
    BY <1>2 DEF Schedule, CycleStep, StartCycle, FindEligible, ClaimBatch,
       FinishProject, AggregateBatch, TriggerSubmission, EnqueueSubmission,
       SubmissionFails, ReleaseBatch, Shutdown, Restart, Crash, CycleAborts, EndCycle, NextBatch
  <2> QED BY <2>1 DEF TriggerSubmission
<1>3. CASE TriggerSubmission(s)  BY <1>3 DEF TriggerSubmission
<1>4. CASE AggregateBatch(s)     BY <1>4 DEF AggregateBatch
<1>5. CASE \/ StartCycle(s) \/ FindEligible(s) \/ ClaimBatch(s) \/ FinishProject(s)
           \/ EnqueueSubmission(s) \/ SubmissionFails(s) \/ ReleaseBatch(s)
           \/ Shutdown(s) \/ Restart(s) \/ Crash(s) \/ CycleAborts(s)
  BY <1>5 DEF StartCycle, FindEligible, ClaimBatch, FinishProject, TriggerSubmission,
     EnqueueSubmission, SubmissionFails, ReleaseBatch, Shutdown, Restart, Crash, CycleAborts,
     EndCycle, NextBatch
<1>6. UNCHANGED cycleVars \/ \E t \in Replicas : Schedule(t)
  BY DEF Next, vars, WindowCloses, ManualTrigger, Ingest, BeginIngest, CloseStale,
     InsertPending, SelectPending, SaveReading, EnqueueFanout, IngestFails,
     Confirm, LoadBatch, ConfirmBatch, ConfirmFails, IndexerConfirms
<1> QED BY <1>1, <1>2, <1>3, <1>4, <1>5, <1>6 DEF Schedule, CycleStep

\* The submission table grows by one row at a time, and the queue by the row
\* that a cycle or a manual call has just inserted.
LEMMA SubmissionMoves ==
  ASSUME TypeOK, [Next]_vars
  PROVE  \/ UNCHANGED subVars
         \/ \E s \in Replicas : TriggerSubmission(s)
         \/ \E s \in Replicas : EnqueueSubmission(s)
         \/ \E b \in Batches : ManualTrigger(b)
BY DEF Next, vars, WindowCloses, Ingest, BeginIngest, CloseStale, InsertPending,
   SelectPending, SaveReading, EnqueueFanout, IngestFails, Schedule, CycleStep,
   StartCycle, FindEligible, ClaimBatch, FinishProject, AggregateBatch,
   SubmissionFails, ReleaseBatch, Shutdown, Restart, Crash, CycleAborts, Confirm, LoadBatch,
   ConfirmBatch, ConfirmFails, IndexerConfirms

\* Rows already in the table stay what they are, and only EnqueueSubmission
\* queues a row of the scheduler.
LEMMA RowsStay ==
  ASSUME TypeOK, [Next]_vars
  PROVE  /\ lastNonce <= lastNonce'
         /\ \A n \in 1..lastNonce : submission'[n] = submission[n]
         /\ \A n \in queued' : \/ n \in queued
                               \/ n \in 1..lastNonce' /\ ~submission'[n].auto
                               \/ \E s \in Replicas : EnqueueSubmission(s) /\ n = nonce[s]
<1>0. /\ lastNonce \in 0..MaxSubs /\ MaxSubs \in Nat /\ DOMAIN submission = 1..MaxSubs
      /\ queued \in SUBSET (1..lastNonce)
  BY ConstantsAssumption DEF TypeOK
<1>1. CASE UNCHANGED subVars  BY <1>0, <1>1
<1>2. ASSUME NEW s \in Replicas, TriggerSubmission(s)
      PROVE  /\ lastNonce <= lastNonce' /\ UNCHANGED queued
             /\ \A n \in 1..lastNonce : submission'[n] = submission[n]
  BY <1>0, <1>2 DEF TriggerSubmission, InsertSubmission
<1>3. ASSUME NEW s \in Replicas, EnqueueSubmission(s)
      PROVE  UNCHANGED <<submission, lastNonce>> /\ queued' = queued \cup {nonce[s]}
  BY <1>3 DEF EnqueueSubmission
<1>4. ASSUME NEW b \in Batches, ManualTrigger(b)
      PROVE  /\ lastNonce' = lastNonce + 1 /\ queued' = queued \cup {lastNonce + 1}
             /\ \A n \in 1..lastNonce : submission'[n] = submission[n]
             /\ submission'[lastNonce + 1].auto = FALSE
  <2> DEFINE row == [batch |-> b, covers |-> {}, auto |-> FALSE]
  <2>1. /\ lastNonce < MaxSubs /\ lastNonce' = lastNonce + 1
        /\ submission' = [submission EXCEPT ![lastNonce + 1] = row]
        /\ queued' = queued \cup {lastNonce + 1}
    BY <1>4 DEF ManualTrigger, InsertSubmission
  <2>2. submission'[lastNonce + 1] = row /\ row.auto = FALSE
    BY <1>0, <2>1
  <2> QED BY <1>0, <2>1, <2>2
<1>5. CASE \E s \in Replicas : TriggerSubmission(s)
  BY <1>0, <1>2, <1>5
<1>6. CASE \E s \in Replicas : EnqueueSubmission(s)
  BY <1>0, <1>3, <1>6
<1>7. CASE \E b \in Batches : ManualTrigger(b)
  <2>1. PICK b \in Batches : ManualTrigger(b)  BY <1>7
  <2>2. /\ lastNonce' = lastNonce + 1 /\ queued' = queued \cup {lastNonce + 1}
        /\ \A n \in 1..lastNonce : submission'[n] = submission[n]
        /\ submission'[lastNonce + 1].auto = FALSE
    BY <1>4, <2>1
  <2>3. lastNonce + 1 \in 1..lastNonce'  BY <1>0, <2>2
  <2>4. lastNonce <= lastNonce'  BY <1>0, <2>2
  <2>5. \A n \in queued' : n \in queued \/ n = lastNonce + 1  BY <2>2
  <2> QED BY <2>2, <2>3, <2>4, <2>5
<1> QED BY <1>1, <1>5, <1>6, <1>7, SubmissionMoves

LEMMA QueuedMoves ==
  ASSUME TypeOK, [Next]_vars, NEW n \in queued', submission'[n].auto
  PROVE  /\ n \in 1..lastNonce /\ submission'[n] = submission[n]
         /\ \/ n \in queued
            \/ \E s \in Replicas : EnqueueSubmission(s) /\ n = nonce[s]
<1>1. ASSUME NEW s \in Replicas, EnqueueSubmission(s) PROVE nonce[s] \in 1..lastNonce
  BY <1>1 DEF EnqueueSubmission, TypeOK
<1>2. queued \subseteq 1..lastNonce  BY DEF TypeOK
<1>3. n \in queued \/ \E s \in Replicas : EnqueueSubmission(s) /\ n = nonce[s]
  BY RowsStay
<1>4. n \in 1..lastNonce  BY <1>1, <1>2, <1>3
<1> QED BY <1>3, <1>4, RowsStay

LEMMA HandStep ==
  ASSUME TypeOK, ClaimInv, HandedOver, [Next]_vars
  PROVE  HandedOver'
<1> USE DEF ClaimInv
<1>1. ASSUME NEW n \in queued, submission[n].auto
      PROVE  /\ status'[submission[n].batch] \in Closed
             /\ \A s \in Replicas : cyclePc'[s] \in Holding => claim'[s] # submission[n].batch
  <2> DEFINE b == submission[n].batch
  <2>1. b \in Batches
    <3>1. n \in 1..lastNonce /\ lastNonce \in 0..MaxSubs  BY DEF TypeOK
    <3>2. n \in 1..MaxSubs /\ n <= lastNonce  BY <3>1, ConstantsAssumption
    <3> QED BY <3>2 DEF TypeOK
  <2>2. /\ status[b] \in Closed
        /\ \A s \in Replicas : cyclePc[s] \in Holding => claim[s] # b
    BY <1>1 DEF HandedOver
  <2>3. status'[b] \in Closed
    BY <2>1, <2>2, StatusMoves DEF ReleaseBatch, Holding
  <2>4. ASSUME NEW s \in Replicas, cyclePc'[s] \in Holding PROVE claim'[s] # b
    BY <2>2, <2>4, ClaimMoves DEF Closed
  <2> QED BY <2>3, <2>4
<1>2. ASSUME NEW s \in Replicas, EnqueueSubmission(s)
      PROVE  /\ submission[nonce[s]].batch = claim[s] /\ claim[s] \in Batches
             /\ status'[claim[s]] \in Closed
             /\ \A t \in Replicas : cyclePc'[t] \in Holding => claim'[t] # claim[s]
             /\ \A m \in queued : submission[m].auto => submission[m].batch # claim[s]
  <2>1. cyclePc[s] = "enqueue" /\ cyclePc[s] \in Holding
    BY <1>2 DEF EnqueueSubmission, Holding
  <2>2. submission[nonce[s]].batch = claim[s] /\ claim[s] \in Batches
    BY <2>1 DEF HandedOver, TypeOK
  <2>3. status'[claim[s]] \in Closed
    BY <1>2, <2>1 DEF HeldClosed, EnqueueSubmission
  <2>4. ASSUME NEW t \in Replicas, cyclePc'[t] \in Holding PROVE claim'[t] # claim[s]
    <3>1. t # s /\ cyclePc'[t] = cyclePc[t] /\ claim'[t] = claim[t]
      BY <1>2, <2>4 DEF EnqueueSubmission, NextBatch, TypeOK, Holding
    <3> QED BY <2>1, <2>4, <3>1 DEF ClaimExclusive
  <2>5. \A m \in queued : submission[m].auto => submission[m].batch # claim[s]
    BY <2>1 DEF HandedOver
  <2> QED BY <2>2, <2>3, <2>4, <2>5
<1>3. ASSUME NEW n \in queued', submission'[n].auto
      PROVE  /\ n \in 1..lastNonce /\ submission'[n] = submission[n]
             /\ \/ n \in queued
                \/ \E s \in Replicas : EnqueueSubmission(s) /\ n = nonce[s]
  BY <1>3, QueuedMoves
<1>4. ASSUME NEW n \in queued', submission'[n].auto
      PROVE  /\ status'[submission'[n].batch] \in Closed
             /\ \A s \in Replicas : cyclePc'[s] \in Holding => claim'[s] # submission'[n].batch
  BY <1>1, <1>2, <1>3, <1>4
<1>5. ASSUME NEW m \in queued', NEW n \in queued', submission'[m].auto,
             submission'[n].auto, submission'[m].batch = submission'[n].batch
      PROVE  m = n
  <2>1. CASE m \in queued /\ n \in queued
    BY <1>3, <1>5, <2>1 DEF HandedOver
  <2>2. ASSUME NEW s \in Replicas, EnqueueSubmission(s) PROVE m = n
    <3>1. queued' = queued \cup {nonce[s]}  BY <2>2 DEF EnqueueSubmission
    <3> QED BY <1>2, <1>3, <1>5, <2>1, <2>2, <3>1
  <2> QED BY <1>3, <1>5, <2>1, <2>2
<1>6. ASSUME NEW s \in Replicas, cyclePc'[s] = "enqueue"
      PROVE  submission'[nonce'[s]].auto /\ submission'[nonce'[s]].batch = claim'[s]
  <2>1. CASE TriggerSubmission(s)
    <3>1. /\ lastNonce + 1 \in 1..MaxSubs /\ nonce'[s] = lastNonce + 1
          /\ submission' = [submission EXCEPT ![lastNonce + 1] =
               [batch |-> claim[s], covers |-> covered[s], auto |-> TRUE]]
          /\ claim'[s] = claim[s]
      BY <2>1, ConstantsAssumption DEF TriggerSubmission, InsertSubmission, TypeOK
    <3> QED BY <3>1 DEF TypeOK
  <2>2. CASE cyclePc[s] = "enqueue" /\ claim'[s] = claim[s] /\ nonce'[s] = nonce[s]
    BY <2>2, RowsStay DEF HandedOver, TypeOK
  <2> QED BY <1>6, <2>1, <2>2, LocalMoves
<1> QED BY <1>4, <1>5, <1>6 DEF HandedOver, Holding, Closed

-----------------------------------------------------------------------------
(* What submission rows cover.                                             *)

LEMMA NewRow ==
  ASSUME TypeOK, [Next]_vars, NEW n \in 1..lastNonce', submission'[n].auto
  PROVE  \/ n \in 1..lastNonce /\ submission'[n] = submission[n]
         \/ /\ n = lastNonce + 1
            /\ \E s \in Replicas :
                 /\ TriggerSubmission(s)
                 /\ submission'[n] =
                      [batch |-> claim[s], covers |-> covered[s], auto |-> TRUE]
<1>0. /\ lastNonce \in 0..MaxSubs /\ MaxSubs \in Nat /\ DOMAIN submission = 1..MaxSubs
  BY ConstantsAssumption DEF TypeOK
<1>1. CASE lastNonce' = lastNonce  BY <1>1, RowsStay
<1>2. ASSUME NEW s \in Replicas, TriggerSubmission(s)
      PROVE  /\ lastNonce' = lastNonce + 1
             /\ submission'[lastNonce + 1] =
                  [batch |-> claim[s], covers |-> covered[s], auto |-> TRUE]
  BY <1>0, <1>2 DEF TriggerSubmission, InsertSubmission
<1>3. ASSUME NEW b \in Batches, ManualTrigger(b)
      PROVE  lastNonce' = lastNonce + 1 /\ submission'[lastNonce + 1].auto = FALSE
  <2> DEFINE row == [batch |-> b, covers |-> {}, auto |-> FALSE]
  <2>1. /\ lastNonce < MaxSubs /\ lastNonce' = lastNonce + 1
        /\ submission' = [submission EXCEPT ![lastNonce + 1] = row]
    BY <1>3 DEF ManualTrigger, InsertSubmission
  <2>2. submission'[lastNonce + 1] = row /\ row.auto = FALSE  BY <1>0, <2>1
  <2> QED BY <2>1, <2>2
<1>4. CASE \E s \in Replicas : TriggerSubmission(s)
  <2>1. PICK s \in Replicas : TriggerSubmission(s)  BY <1>4
  <2>2. lastNonce' = lastNonce + 1  BY <1>2, <2>1
  <2>3. n \in 1..lastNonce \/ n = lastNonce + 1  BY <1>0, <2>2
  <2> QED BY <1>2, <2>1, <2>3, RowsStay
<1>5. CASE \E b \in Batches : ManualTrigger(b)
  <2>1. lastNonce' = lastNonce + 1 /\ submission'[lastNonce + 1].auto = FALSE
    BY <1>3, <1>5
  <2>2. n \in 1..lastNonce  BY <1>0, <2>1
  <2> QED BY <2>2, RowsStay
<1> QED BY <1>1, <1>4, <1>5, SubmissionMoves DEF EnqueueSubmission

LEMMA CoverStep ==
  ASSUME TypeOK, ClaimInv, CoverGrows, ResubmissionGrows, [Next]_vars
  PROVE  CoverGrows' /\ ResubmissionGrows'
<1>1. ASSUME NEW s \in Replicas, TriggerSubmission(s)
      PROVE  cyclePc[s] = "trigger" /\ cyclePc[s] \in Holding
  BY <1>1 DEF TriggerSubmission, Holding
<1>2. ASSUME NEW s \in Replicas, cyclePc[s] \in Holding PROVE claim[s] \in Batches
  BY <1>2 DEF TypeOK
<1>3. ASSUME NEW n \in 1..lastNonce PROVE submission[n].batch \in Batches
  <2>1. n \in 1..MaxSubs /\ n <= lastNonce  BY ConstantsAssumption DEF TypeOK
  <2> QED BY <2>1 DEF TypeOK
<1>4. ASSUME NEW n \in 1..lastNonce', submission'[n].auto, NEW b \in Batches,
             b = submission'[n].batch
      PROVE  submission'[n].covers \subseteq ReadingsIn(b)'
  <2>1. CASE n \in 1..lastNonce /\ submission'[n] = submission[n]
    BY <1>4, <2>1, ReadingsGrow DEF CoverGrows
  <2>2. ASSUME NEW s \in Replicas, TriggerSubmission(s),
               submission'[n] = [batch |-> claim[s], covers |-> covered[s], auto |-> TRUE]
        PROVE  submission'[n].covers \subseteq ReadingsIn(b)'
    <3>1. submission'[n].covers = covered[s] /\ b = claim[s]  BY <1>4, <2>2
    <3> QED BY <1>1, <2>2, <3>1, ReadingsGrow DEF CoverGrows
  <2> QED BY <1>4, <2>1, <2>2, NewRow
<1>5. ASSUME NEW s \in Replicas, cyclePc'[s] = "trigger", NEW b \in Batches,
             b = claim'[s]
      PROVE  /\ covered'[s] \subseteq ReadingsIn(b)'
             /\ \A n \in 1..lastNonce' :
                  submission'[n].auto /\ submission'[n].batch = b =>
                    submission'[n].covers \subseteq covered'[s]
  <2>1. CASE AggregateBatch(s)
    <3>1. covered'[s] = ReadingsIn(b) /\ UNCHANGED <<batchOf, submission, lastNonce>>
      BY <1>5, <2>1 DEF AggregateBatch, TypeOK
    <3> QED BY <3>1, ReadingsGrow DEF CoverGrows
  <2>2. CASE /\ cyclePc[s] = "trigger" /\ claim'[s] = claim[s]
             /\ covered'[s] = covered[s] /\ ~TriggerSubmission(s)
    <3>1. covered'[s] \subseteq ReadingsIn(b)'
      BY <1>5, <2>2, ReadingsGrow DEF CoverGrows
    <3>2. ASSUME NEW n \in 1..lastNonce', submission'[n].auto, submission'[n].batch = b
          PROVE  submission'[n].covers \subseteq covered'[s]
      <4>1. CASE n \in 1..lastNonce /\ submission'[n] = submission[n]
        BY <1>5, <2>2, <3>2, <4>1 DEF CoverGrows
      <4>2. ASSUME NEW t \in Replicas, TriggerSubmission(t),
                   submission'[n] = [batch |-> claim[t], covers |-> covered[t], auto |-> TRUE]
            PROVE  FALSE
        <5>1. claim[t] = claim[s] /\ t # s  BY <1>5, <2>2, <3>2, <4>2
        <5> QED BY <1>1, <2>2, <4>2, <5>1 DEF ClaimInv, ClaimExclusive, Holding
      <4> QED BY <3>2, <4>1, <4>2, NewRow
    <3> QED BY <3>1, <3>2
  <2> QED BY <1>5, <2>1, <2>2, LocalMoves
<1>6. ASSUME NEW m \in 1..lastNonce', NEW n \in 1..lastNonce', m < n,
             submission'[m].auto, submission'[n].auto,
             submission'[m].batch = submission'[n].batch
      PROVE  submission'[m].covers \subseteq submission'[n].covers
  <2>0. lastNonce \in Nat  BY ConstantsAssumption DEF TypeOK
  <2>1. m \in 1..lastNonce /\ submission'[m] = submission[m]
    <3>1. CASE m = lastNonce + 1
      <4>1. n \notin 1..lastNonce /\ n # lastNonce + 1  BY <1>6, <2>0, <3>1
      <4> QED BY <1>6, <4>1, NewRow
    <3> QED BY <1>6, <3>1, NewRow
  <2>2. CASE n \in 1..lastNonce /\ submission'[n] = submission[n]
    BY <1>6, <2>1, <2>2 DEF ResubmissionGrows
  <2>3. ASSUME NEW s \in Replicas, TriggerSubmission(s),
               submission'[n] = [batch |-> claim[s], covers |-> covered[s], auto |-> TRUE]
        PROVE  submission'[m].covers \subseteq submission'[n].covers
    <3>1. submission[m].auto /\ submission[m].batch = claim[s]
      BY <1>6, <2>1, <2>3
    <3>2. submission'[n].covers = covered[s]  BY <2>3
    <3> QED BY <1>1, <2>1, <2>3, <3>1, <3>2 DEF CoverGrows
  <2> QED BY <1>6, <2>2, <2>3, NewRow
<1>7. CoverGrows'
  <2>1. TypeOK'  BY NextType
  <2>2. ASSUME NEW s \in Replicas, cyclePc'[s] = "trigger" PROVE claim'[s] \in Batches
    BY <2>1, <2>2 DEF TypeOK, Holding
  <2>3. ASSUME NEW n \in 1..lastNonce' PROVE submission'[n].batch \in Batches
    <3>1. n \in 1..MaxSubs /\ n <= lastNonce'  BY <2>1, ConstantsAssumption DEF TypeOK
    <3> QED BY <2>1, <3>1 DEF TypeOK
  <2> QED BY <1>4, <1>5, <2>2, <2>3 DEF CoverGrows, ReadingsIn
<1>8. ResubmissionGrows'  BY <1>6 DEF ResubmissionGrows
<1> QED BY <1>7, <1>8

-----------------------------------------------------------------------------
(* The safety theorems.                                                    *)

LEMMA InitInv == Init => IInv
<1> SUFFICES ASSUME Init PROVE IInv  OBVIOUS
<1>1. TypeOK  BY InitType
<1>2. \A b \in Batches : ReadingsIn(b) = {}
  BY ConstantsAssumption DEF Init, ReadingsIn
<1>3. CountInv  BY <1>2 DEF Init, CountInv, CountExact, NothingAbsent
<1>4. lastNonce = 0 /\ queued = {} /\ \A s \in Replicas : cyclePc[s] = "idle" /\ eligible[s] = {}
  BY DEF Init
<1>5. 1..lastNonce = {}  BY <1>4
<1> QED
  BY <1>1, <1>3, <1>4, <1>5 DEF IInv, WorkNotEmpty, ClaimNotEmpty, ClaimInv,
     ClaimExclusive, HeldClosed, HandedOver, CoverGrows, ResubmissionGrows, Holding

LEMMA NextInv == IInv /\ [Next]_vars => IInv'
BY NextType, CountStep, ClaimStep, HandStep, CoverStep DEF IInv

\* IInv holds in every reachable state.
THEOREM Invariance == Spec => []IInv
BY InitInv, NextInv, PTL DEF Spec

\* The counter that findEligibleBatches filters on counts the readings that
\* aggregateReadingsForBatch will find, for any number of requests, replicas,
\* failures and confirmations.
THEOREM CountIsExact == Spec => []CountExact
<1>1. IInv => CountExact  BY DEF IInv, CountInv
<1> QED BY <1>1, Invariance, PTL

\* No two replicas work on the same batch, and none works on an empty one.
THEOREM ClaimIsALock == Spec => [](ClaimExclusive /\ ClaimNotEmpty)
<1>1. IInv => ClaimExclusive /\ ClaimNotEmpty
  BY DEF IInv, ClaimInv, WorkNotEmpty
<1> QED BY <1>1, Invariance, PTL

\* The scheduler hands a batch over at most once, for good.
THEOREM HandOffIsUnique == Spec => []SingleHandOff
<1>1. ASSUME IInv, NEW b \in Batches
      PROVE  /\ Cardinality(AutoQueued(b)) <= 1
             /\ AutoQueued(b) # {} => status[b] \in {"submitted", "confirmed"}
  <2>1. \A m, n \in AutoQueued(b) : m = n  BY <1>1 DEF AutoQueued, IInv, HandedOver
  <2>2. AutoQueued(b) = {} \/ \E n : AutoQueued(b) = {n}
    <3>1. ASSUME NEW n \in AutoQueued(b) PROVE AutoQueued(b) = {n}  BY <2>1
    <3> QED BY <3>1
  <2>3. Cardinality(AutoQueued(b)) <= 1
    <3>1. ASSUME NEW n, AutoQueued(b) = {n} PROVE Cardinality(AutoQueued(b)) = 1
      BY <3>1, FS_Singleton
    <3>2. Cardinality(AutoQueued(b)) \in {0, 1}  BY <2>2, <3>1, FS_EmptySet
    <3> QED BY <3>2
  <2>4. AutoQueued(b) # {} => status[b] \in {"submitted", "confirmed"}
    BY <1>1 DEF AutoQueued, IInv, HandedOver, Closed
  <2> QED BY <2>3, <2>4
<1>2. IInv => SingleHandOff  BY <1>1 DEF SingleHandOff
<1> QED BY <1>2, Invariance, PTL

\* A batch submitted again after a release is submitted with more readings.
THEOREM ResubmissionsGrow == Spec => []ResubmissionGrows
<1>1. IInv => ResubmissionGrows  BY DEF IInv
<1> QED BY <1>1, Invariance, PTL

\* CONFIRMED is final.
THEOREM ConfirmationIsFinal == Spec => ConfirmedIsFinal
<1>1. TypeOK /\ [Next]_vars =>
        [\A b \in Batches : status[b] = "confirmed" => status'[b] = "confirmed"]_vars
  BY StatusMoves
<1> QED BY <1>1, TypeCorrect, PTL DEF Spec, ConfirmedIsFinal

\* While no call fails, every stored reading is fanned out or about to be.
THEOREM FanoutIsComplete == Spec => []FanoutUnlessError
<1>1. Init => FanoutUnlessError
  BY DEF Init, FanoutUnlessError
<1>2. ASSUME TypeOK, FanoutUnlessError, [Next]_vars, errors' = 0,
             NEW r \in Readings, batchOf'[r] # NoBatch
      PROVE  \/ r \in fanout'
             \/ \E c \in Requests : reqPc'[c] = "enqueue" /\ reqReading'[c] = r
  <2> DEFINE Sent == \/ r \in fanout'
                     \/ \E c \in Requests : reqPc'[c] = "enqueue" /\ reqReading'[c] = r
  <2>1. CASE UNCHANGED <<errors, batchOf, fanout, reqPc, reqReading>>
    BY <1>2, <2>1 DEF FanoutUnlessError
  <2>0. DOMAIN reqPc = Requests /\ DOMAIN reqReading = Requests  BY <1>2 DEF TypeOK
  <2>2. ASSUME NEW d \in Requests, Ingest(d) PROVE Sent
    <3>1. errors = 0 /\ ~IngestFails(d)
      BY <1>2, <2>2, ConstantsAssumption DEF TypeOK, Ingest, BeginIngest, CloseStale,
         InsertPending, SelectPending, SaveReading, EnqueueFanout, IngestFails
    <3>2. CASE batchOf[r] # NoBatch /\ r \in fanout
      BY <2>2, <3>2 DEF Ingest, BeginIngest, CloseStale, InsertPending,
         SelectPending, SaveReading, EnqueueFanout, FanOut, IngestFails
    <3>3. ASSUME batchOf[r] # NoBatch,
                 NEW c \in Requests, reqPc[c] = "enqueue", reqReading[c] = r
          PROVE  Sent
      <4>1. CASE c = d
        <5>1. EnqueueFanout(d)
          BY <2>2, <3>1, <3>3, <4>1 DEF Ingest, BeginIngest, CloseStale, InsertPending,
             SelectPending, SaveReading
        <5> QED BY <3>3, <4>1, <5>1 DEF EnqueueFanout, FanOut
      <4>2. CASE c # d
        <5>1. reqPc'[c] = reqPc[c] /\ reqReading'[c] = reqReading[c]
          BY <2>0, <2>2, <4>2 DEF Ingest, BeginIngest, CloseStale, InsertPending,
             SelectPending, SaveReading, EnqueueFanout, IngestFails, EndRequest
        <5> QED BY <3>3, <5>1
      <4> QED BY <4>1, <4>2
    <3>4. CASE batchOf[r] = NoBatch
      <4>1. SaveReading(d)
        BY <1>2, <2>2, <3>4 DEF Ingest, BeginIngest, CloseStale, InsertPending,
           SelectPending, EnqueueFanout, IngestFails
      <4>2. /\ batchOf' = [batchOf EXCEPT ![reqReading[d]] = reqBatch[d]]
            /\ reqPc' = [reqPc EXCEPT ![d] = "enqueue"] /\ UNCHANGED reqReading
        BY <1>2, <3>4, <4>1 DEF SaveReading, Store
      <4> QED BY <1>2, <3>4, <4>2 DEF TypeOK
    <3>5. batchOf[r] # NoBatch =>
            \/ r \in fanout
            \/ \E c \in Requests : reqPc[c] = "enqueue" /\ reqReading[c] = r
      BY <1>2, <3>1 DEF FanoutUnlessError
    <3> HIDE DEF Sent
    <3> QED BY <3>2, <3>3, <3>4, <3>5
  <2>3. ASSUME NEW s \in Replicas, Schedule(s)
        PROVE  \/ errors' = errors + 1
               \/ UNCHANGED <<errors, batchOf, fanout, reqPc, reqReading>>
    BY <2>3 DEF Schedule, CycleStep, StartCycle,
       FindEligible, ClaimBatch, FinishProject, AggregateBatch, TriggerSubmission,
       EnqueueSubmission, SubmissionFails, ReleaseBatch, Shutdown, Restart, Crash, CycleAborts
  <2>4. ASSUME NEW w \in Workers, Confirm(w)
        PROVE  \/ errors' = errors + 1
               \/ UNCHANGED <<errors, batchOf, fanout, reqPc, reqReading>>
    BY <2>4 DEF Confirm, LoadBatch, ConfirmBatch, ConfirmFails
  <2>5. \/ errors' = errors + 1
        \/ UNCHANGED <<errors, batchOf, fanout, reqPc, reqReading>>
        \/ \E d \in Requests : Ingest(d)
    BY <1>2, <2>3, <2>4 DEF Next, vars, WindowCloses, ManualTrigger, IndexerConfirms
  <2>6. errors' # errors + 1  BY <1>2, ConstantsAssumption DEF TypeOK
  <2> QED BY <2>1, <2>2, <2>5, <2>6
<1>3. TypeOK /\ FanoutUnlessError /\ [Next]_vars => FanoutUnlessError'
  BY <1>2 DEF FanoutUnlessError
<1> QED BY <1>1, <1>3, TypeCorrect, PTL DEF Spec

-----------------------------------------------------------------------------
(* Readings that arrive after their batch was aggregated.                  *)

\* What a set of readings misses of batch b, with the requests that have
\* already resolved b, cannot exceed the number of requests.
WithinFlight(b, covers) ==
  Cardinality(ReadingsIn(b) \ covers) + Cardinality(InFlight(b)) <= Cardinality(Requests)

\* LatenessBounded from the aggregation of a batch on.
LateInv ==
  /\ \A n \in queued : submission[n].auto =>
       WithinFlight(submission[n].batch, submission[n].covers)
  /\ \A s \in Replicas :
       /\ cyclePc[s] = "trigger" => WithinFlight(claim[s], covered[s])
       /\ cyclePc[s] = "enqueue" => WithinFlight(claim[s], submission[nonce[s]].covers)

LEMMA FlightTypes ==
  ASSUME NEW b, NEW covers
  PROVE  /\ IsFiniteSet(ReadingsIn(b) \ covers) /\ IsFiniteSet(InFlight(b))
         /\ Cardinality(ReadingsIn(b) \ covers) \in Nat
         /\ Cardinality(InFlight(b)) \in Nat /\ Cardinality(Requests) \in Nat
         /\ Cardinality(InFlight(b)) <= Cardinality(Requests)
<1>1. ReadingsIn(b) \ covers \in SUBSET Readings  BY DEF ReadingsIn
<1>2. InFlight(b) \in SUBSET Requests  BY DEF InFlight
<1>3. IsFiniteSet(ReadingsIn(b) \ covers)  BY <1>1, FS_Subset, ConstantsAssumption
<1>4. IsFiniteSet(InFlight(b)) /\ Cardinality(InFlight(b)) <= Cardinality(Requests)
  BY <1>2, FS_Subset, ConstantsAssumption
<1> QED BY <1>3, <1>4, FS_CardinalityType, ConstantsAssumption

\* A request resolves only a PENDING batch; a save moves it from one side of
\* the sum to the other.
LEMMA FlightStep ==
  ASSUME TypeOK, [Next]_vars, NEW b \in Batches, NEW covers,
         status[b] \in Closed, WithinFlight(b, covers)
  PROVE  Cardinality(ReadingsIn(b)' \ covers) + Cardinality(InFlight(b)')
           <= Cardinality(Requests)
<1> DEFINE late == ReadingsIn(b) \ covers
           lateNext == ReadingsIn(b)' \ covers
<1>0. DOMAIN reqPc = Requests /\ DOMAIN reqBatch = Requests  BY DEF TypeOK
<1>1. /\ IsFiniteSet(late) /\ IsFiniteSet(InFlight(b))
      /\ Cardinality(late) \in Nat /\ Cardinality(InFlight(b)) \in Nat
      /\ Cardinality(Requests) \in Nat
      /\ Cardinality(late) + Cardinality(InFlight(b)) <= Cardinality(Requests)
  BY FlightTypes DEF WithinFlight
<1>2. ASSUME NEW d \in Requests, Ingest(d) PROVE InFlight(b)' \subseteq InFlight(b)
  <2> SUFFICES ASSUME NEW c \in Requests, reqPc'[c] = "save", reqBatch'[c] = b
               PROVE  reqPc[c] = "save" /\ reqBatch[c] = b
    BY DEF InFlight
  <2>1. ~SelectPending(c)
    BY <1>0 DEF SelectPending, Resolvable, Pending, EndRequest, Closed
  <2>2. CASE c = d
    BY <1>0, <1>2, <2>1, <2>2 DEF Ingest, BeginIngest, CloseStale, InsertPending,
       SaveReading, EnqueueFanout, IngestFails, EndRequest
  <2>3. CASE c # d
    BY <1>0, <1>2, <2>3 DEF Ingest, BeginIngest, CloseStale, InsertPending,
       SelectPending, SaveReading, EnqueueFanout, IngestFails, EndRequest
  <2> QED BY <2>2, <2>3
<1>3. InFlight(b)' \subseteq InFlight(b)
  <2>1. UNCHANGED reqVars \/ \E d \in Requests : Ingest(d)
    BY DEF Next, vars, WindowCloses, ManualTrigger, Schedule, CycleStep, StartCycle,
       FindEligible, ClaimBatch, FinishProject, AggregateBatch, TriggerSubmission,
       EnqueueSubmission, SubmissionFails, ReleaseBatch, Shutdown, Restart, Crash, CycleAborts,
       Confirm, LoadBatch, ConfirmBatch, ConfirmFails, IndexerConfirms
  <2>2. CASE UNCHANGED reqVars  BY <2>2 DEF InFlight
  <2> QED BY <1>2, <2>1, <2>2
<1>4. Cardinality(InFlight(b)') \in Nat /\ Cardinality(InFlight(b)') <= Cardinality(InFlight(b))
  BY <1>1, <1>3, FS_Subset, FS_CardinalityType
<1> HIDE DEF late, lateNext
<1>5. ASSUME lateNext = late
      PROVE  Cardinality(lateNext) + Cardinality(InFlight(b)') <= Cardinality(Requests)
  <2>1. Cardinality(lateNext) = Cardinality(late)  BY <1>5
  <2> QED BY <1>1, <1>4, <2>1
<1>6. ASSUME NEW c \in Requests, SaveReading(c), batchOf[reqReading[c]] = NoBatch,
             reqBatch[c] = b
      PROVE  Cardinality(lateNext) + Cardinality(InFlight(b)') <= Cardinality(Requests)
  <2>1. /\ batchOf' = [batchOf EXCEPT ![reqReading[c]] = b]
        /\ reqPc[c] = "save" /\ reqPc' = [reqPc EXCEPT ![c] = "enqueue"]
    BY <1>6 DEF SaveReading, Store
  <2>2. lateNext \in {late, late \cup {reqReading[c]}}
    BY <2>1 DEF ReadingsIn, TypeOK, late, lateNext
  <2>3. Cardinality(lateNext) \in Nat /\ Cardinality(lateNext) <= Cardinality(late) + 1
    <3>1. CASE lateNext = late
      <4>1. Cardinality(lateNext) = Cardinality(late)  BY <3>1
      <4> QED BY <1>1, <4>1
    <3>2. CASE lateNext = late \cup {reqReading[c]}
      <4>1. Cardinality(lateNext) \in {Cardinality(late), Cardinality(late) + 1}
        BY <1>1, <3>2, FS_AddElement
      <4> QED BY <1>1, <4>1
    <3> QED BY <2>2, <3>1, <3>2
  <2>4. c \in InFlight(b) /\ c \notin InFlight(b)'
    BY <1>0, <1>6, <2>1 DEF InFlight
  <2>5. InFlight(b)' \subseteq InFlight(b) \ {c}  BY <1>3, <2>4
  <2>6. /\ IsFiniteSet(InFlight(b) \ {c})
        /\ Cardinality(InFlight(b) \ {c}) = Cardinality(InFlight(b)) - 1
    BY <1>1, <2>4, FS_RemoveElement
  <2>7. Cardinality(InFlight(b)') <= Cardinality(InFlight(b)) - 1
    BY <2>5, <2>6, FS_Subset
  <2> QED BY <1>1, <1>4, <2>3, <2>7
<1>7. ASSUME NEW c \in Requests, SaveReading(c), batchOf[reqReading[c]] = NoBatch,
             reqBatch[c] # b
      PROVE  lateNext = late
  BY <1>7, ConstantsAssumption DEF SaveReading, Store, ReadingsIn, TypeOK, late, lateNext
<1>8. ASSUME UNCHANGED batchOf PROVE lateNext = late
  BY <1>8 DEF ReadingsIn, late, lateNext
<1>9. Cardinality(lateNext) + Cardinality(InFlight(b)') <= Cardinality(Requests)
  BY <1>5, <1>6, <1>7, <1>8, ReadingMoves DEF ConfirmBatch
<1> QED BY <1>9 DEF lateNext

LEMMA LateStep ==
  ASSUME IInv, LateInv, [Next]_vars PROVE LateInv'
<1> USE DEF IInv
<1>1. TypeOK'  BY NextType
<1>2. ASSUME NEW b \in Batches, NEW covers, status[b] \in Closed, WithinFlight(b, covers)
      PROVE  Cardinality(ReadingsIn(b)' \ covers) + Cardinality(InFlight(b)')
               <= Cardinality(Requests)
  BY <1>2, FlightStep
<1>3. ASSUME NEW s \in Replicas, cyclePc[s] \in Holding
      PROVE  claim[s] \in Batches /\ status[claim[s]] \in Closed
  BY <1>3 DEF TypeOK, ClaimInv, HeldClosed
<1>4. ASSUME NEW n \in queued', submission'[n].auto, NEW b, NEW covers,
             b = submission'[n].batch, covers = submission'[n].covers
      PROVE  Cardinality(ReadingsIn(b)' \ covers) + Cardinality(InFlight(b)')
               <= Cardinality(Requests)
  <2>1. n \in 1..lastNonce /\ submission'[n] = submission[n]
    BY <1>4, QueuedMoves
  <2>2. n \in 1..MaxSubs /\ n <= lastNonce
    BY <2>1, ConstantsAssumption DEF TypeOK
  <2>3. b \in Batches  BY <1>4, <2>1, <2>2 DEF TypeOK
  <2>4. CASE n \in queued
    BY <1>2, <1>4, <2>1, <2>3, <2>4 DEF LateInv, HandedOver
  <2>5. ASSUME NEW s \in Replicas, EnqueueSubmission(s), n = nonce[s]
        PROVE  status[b] \in Closed /\ WithinFlight(b, covers)
    <3>1. cyclePc[s] = "enqueue" /\ cyclePc[s] \in Holding
      BY <2>5 DEF EnqueueSubmission, Holding
    <3>2. b = claim[s] /\ covers = submission[nonce[s]].covers
      BY <1>4, <2>1, <2>5, <3>1 DEF HandedOver
    <3> QED BY <1>3, <3>1, <3>2 DEF LateInv
  <2> QED BY <1>2, <1>4, <2>3, <2>4, <2>5, QueuedMoves
<1>5. ASSUME NEW s \in Replicas, cyclePc'[s] = "trigger", NEW b, NEW covers,
             b = claim'[s], covers = covered'[s]
      PROVE  Cardinality(ReadingsIn(b)' \ covers) + Cardinality(InFlight(b)')
               <= Cardinality(Requests)
  <2>1. CASE AggregateBatch(s)
    <3>1. covers = ReadingsIn(b) /\ ReadingsIn(b)' = ReadingsIn(b) /\ InFlight(b)' = InFlight(b)
      BY <1>5, <2>1 DEF AggregateBatch, TypeOK, ReadingsIn, InFlight
    <3>2. ReadingsIn(b)' \ covers = {}  BY <3>1
    <3> QED BY <3>1, <3>2, FS_EmptySet, FlightTypes
  <2>2. CASE /\ cyclePc[s] = "trigger" /\ claim'[s] = claim[s]
             /\ covered'[s] = covered[s] /\ ~TriggerSubmission(s)
    BY <1>2, <1>3, <1>5, <2>2 DEF LateInv, Holding
  <2> QED BY <1>5, <2>1, <2>2, LocalMoves
<1>6. ASSUME NEW s \in Replicas, cyclePc'[s] = "enqueue", NEW b, NEW covers,
             b = claim'[s], covers = submission'[nonce'[s]].covers
      PROVE  Cardinality(ReadingsIn(b)' \ covers) + Cardinality(InFlight(b)')
               <= Cardinality(Requests)
  <2>1. CASE TriggerSubmission(s)
    <3>1. /\ lastNonce + 1 \in 1..MaxSubs /\ nonce'[s] = lastNonce + 1
          /\ submission' = [submission EXCEPT ![lastNonce + 1] =
               [batch |-> claim[s], covers |-> covered[s], auto |-> TRUE]]
          /\ claim'[s] = claim[s] /\ cyclePc[s] = "trigger"
      BY <2>1, ConstantsAssumption DEF TriggerSubmission, InsertSubmission, TypeOK
    <3>2. b = claim[s] /\ covers = covered[s]  BY <1>6, <3>1 DEF TypeOK
    <3> QED BY <1>2, <1>3, <3>1, <3>2 DEF LateInv, Holding
  <2>2. CASE cyclePc[s] = "enqueue" /\ claim'[s] = claim[s] /\ nonce'[s] = nonce[s]
    <3>1. nonce[s] \in 1..lastNonce  BY <2>2 DEF TypeOK
    <3>2. b = claim[s] /\ covers = submission[nonce[s]].covers
      BY <1>6, <2>2, <3>1, RowsStay
    <3> QED BY <1>2, <1>3, <2>2, <3>2 DEF LateInv, Holding
  <2> QED BY <1>6, <2>1, <2>2, LocalMoves
<1> QED BY <1>4, <1>5, <1>6 DEF LateInv, WithinFlight, ReadingsIn, InFlight

\* What a submission handed over misses of its batch is bounded by the requests
\* that were in flight when the batch was claimed.
THEOREM LatenessIsBounded == Spec => []LatenessBounded
<1>1. Init => LateInv  BY DEF Init, LateInv
<1>2. IInv /\ LateInv /\ [Next]_vars => LateInv'  BY LateStep
<1>3. LateInv => LatenessBounded  BY DEF LateInv, WithinFlight, LatenessBounded
<1> QED BY <1>1, <1>2, <1>3, Invariance, PTL DEF Spec

-----------------------------------------------------------------------------
(* SensorAlerts: the inductive invariant                                   *)

\* The types of the records.
JobType == [state : {"absent", "stranded", "waiting", "active", "done", "failed"},
            lock : Processors \cup {NoWorker}, attempts : 0..MaxAttempts, stalls : 0..1]
WorkerType == [step : {"idle", "load", "emit", "debounce", "notify", "stamp", "report"},
               reading : Arrivals, todo : SUBSET Kinds, alert : Kinds \cup {NoAlert}]
WatchType == [step : {"idle", "debounce", "notify"}, todo : SUBSET Devices,
              alert : Devices \cup {NoAlert}]

\* The typing invariant that the induction needs, tighter than AlertsTypeOK.
AlertTypes ==
  /\ job \in [Arrivals -> JobType] /\ worker \in [Processors -> WorkerType]
  /\ watch \in [Watchers -> WatchType]
  /\ stamped \subseteq Arrivals /\ silent \subseteq Devices /\ retried \subseteq Arrivals
  /\ hits \in [Alerts -> 0..1] /\ told \in [Alerts -> 0..2] /\ emits \in [Arrivals -> 0..2]
  /\ unsure \subseteq Alerts /\ faults \in 0..MaxFaults

\* An active job has a worker that is on it, and an attempt left.
JobHeld(r) ==
  /\ job[r].state = "active" <=> job[r].lock # NoWorker
  /\ job[r].lock # NoWorker =>
       worker[job[r].lock].reading = r /\ worker[job[r].lock].step # "idle"
  /\ job[r].state \in {"absent", "waiting", "active"} => job[r].attempts < MaxAttempts

\* A worker or a watcher that is about to notify has its alert at hand.
AlertsAtHand ==
  /\ \A w \in Processors : worker[w].step = "notify" <=> worker[w].alert # NoAlert
  /\ \A p \in Watchers : watch[p].step = "notify" <=> watch[p].alert # NoAlert

\* The counter of a window, what was sent out in it and what is about to be.
WindowHolds(a) ==
  \/ a \in unsure
  \/ hits[a] = 0 /\ told[a] = 0 /\ Granted(a) = {}
  \/ hits[a] = 1 /\ told[a] = 1 /\ Granted(a) = {}
  \/ hits[a] = 1 /\ told[a] = 0 /\ \E x : Granted(a) = {x}

Broadcasting == {"debounce", "notify", "stamp"}   \* steps between broadcast and stamp
On(r) == {w \in Processors : worker[w].step # "idle" /\ worker[w].reading = r}

\* What the steps of the workers say of a reading.
BroadcastHolds(r) ==
  /\ \A w \in On(r) : worker[w].step \in Broadcasting => emits[r] > 0
  /\ \A w \in On(r) : worker[w].step = "report" => r \in stamped
  /\ r \in stamped => emits[r] > 0
  /\ job[r].state = "done" => r \in stamped

\* As long as no run was given up before its stamp, one worker at a time is on a
\* reading without it, and only the first run broadcasts.
BroadcastOnce(r) ==
  /\ emits[r] <= 1
  /\ r \in stamped => \A w \in On(r) : worker[w].step \in {"load", "report"}
  /\ r \notin stamped =>
       /\ \A w \in On(r) : job[r].lock = w
       /\ emits[r] = 1 => \E w \in On(r) : worker[w].step \in Broadcasting

ReadingHolds(r) == BroadcastHolds(r) /\ (r \in retried \/ BroadcastOnce(r))

\* The inductive invariant of SensorAlerts.
AlertsIInv ==
  /\ AlertTypes /\ AlertsAtHand
  /\ \A r \in Arrivals : JobHeld(r) /\ ReadingHolds(r)
  /\ \A a \in Alerts : WindowHolds(a)

-----------------------------------------------------------------------------
(* Moves of the workers and of the jobs                                    *)

\* Worker w moves to these values, and no other worker does.
WorkerMoves(w, step, reading, todo, alert) ==
  /\ worker' \in [Processors -> WorkerType]
  /\ \A v \in Processors \ {w} : worker'[v] = worker[v]
  /\ worker'[w].step = step /\ worker'[w].reading = reading
  /\ worker'[w].todo = todo /\ worker'[w].alert = alert

\* The job of r moves to these values, and no other job does.
JobMoves(r, state, lock, attempts, stalls) ==
  /\ job' \in [Arrivals -> JobType]
  /\ \A q \in Arrivals \ {r} : job'[q] = job[q]
  /\ job'[r].state = state /\ job'[r].lock = lock
  /\ job'[r].attempts = attempts /\ job'[r].stalls = stalls

WorkerSteps == {"idle", "load", "emit", "debounce", "notify", "stamp", "report"}
JobStates == {"absent", "stranded", "waiting", "active", "done", "failed"}

\* The fields of a worker ...
LEMMA WorkerFields ==
  ASSUME AlertTypes, NEW w \in Processors
  PROVE  /\ worker[w] \in WorkerType /\ worker[w].step \in WorkerSteps
         /\ worker[w].reading \in Arrivals /\ worker[w].todo \subseteq Kinds
         /\ worker[w].alert \in Kinds \cup {NoAlert}
<1>1. worker[w] \in WorkerType  BY DEF AlertTypes
<1> QED BY <1>1 DEF WorkerType, WorkerSteps

\* ... and of a job.
LEMMA JobFields ==
  ASSUME AlertTypes, NEW r \in Arrivals
  PROVE  /\ job[r] \in JobType /\ job[r].state \in JobStates
         /\ job[r].lock \in Processors \cup {NoWorker}
         /\ job[r].attempts \in 0..MaxAttempts /\ job[r].stalls \in 0..1
         /\ emits[r] \in 0..2
<1>1. job[r] \in JobType  BY DEF AlertTypes
<1> QED BY <1>1 DEF JobType, JobStates, AlertTypes

\* An update of all four fields is a move ...
LEMMA Moving ==
  ASSUME AlertTypes, NEW w \in Processors, NEW step \in WorkerSteps, NEW reading \in Arrivals,
         NEW todo \in SUBSET Kinds, NEW alert \in Kinds \cup {NoAlert},
         worker' = [worker EXCEPT ![w].step = step, ![w].reading = reading, ![w].todo = todo,
                                  ![w].alert = alert]
  PROVE  WorkerMoves(w, step, reading, todo, alert)
<1> DEFINE R == [worker[w] EXCEPT !.step = step, !.reading = reading, !.todo = todo,
                                  !.alert = alert]
<1>1. worker[w] \in WorkerType  BY WorkerFields
<1>2. R \in WorkerType  BY <1>1 DEF WorkerType, WorkerSteps
<1>3. worker' = [worker EXCEPT ![w] = R]  OBVIOUS
<1>4. R.step = step /\ R.reading = reading /\ R.todo = todo /\ R.alert = alert
  BY <1>1 DEF WorkerType
<1> HIDE DEF R
<1>5. /\ worker' \in [Processors -> WorkerType] /\ worker'[w] = R
      /\ \A v \in Processors \ {w} : worker'[v] = worker[v]
  BY <1>2, <1>3 DEF AlertTypes
<1> QED BY <1>4, <1>5 DEF WorkerMoves

\* ... and so is Goto ...
LEMMA GoingTo ==
  ASSUME AlertTypes, NEW w \in Processors, NEW step \in WorkerSteps, Goto(w, step)
  PROVE  WorkerMoves(w, step, worker[w].reading, worker[w].todo, worker[w].alert)
<1>1. worker[w] \in WorkerType  BY WorkerFields
<1>2. worker' = [worker EXCEPT ![w].step = step, ![w].reading = worker[w].reading,
                               ![w].todo = worker[w].todo, ![w].alert = worker[w].alert]
  BY <1>1 DEF Goto, WorkerType, AlertTypes
<1> QED BY <1>2, Moving, WorkerFields

\* ... and Rest.
LEMMA GoingToRest ==
  ASSUME AlertTypes, NEW w \in Processors, Rest(w)
  PROVE  WorkerMoves(w, "idle", Resting.reading, {}, NoAlert) /\ Resting.reading \in Arrivals
<1>1. /\ Resting.step = "idle" /\ Resting.todo = {} /\ Resting.alert = NoAlert
      /\ Resting.reading \in Arrivals
  BY AlertConstants DEF Resting
<1>2. Resting \in WorkerType
  BY <1>1 DEF Resting, WorkerType
<1>3. worker' = [worker EXCEPT ![w] = Resting]  BY DEF Rest
<1> QED BY <1>1, <1>2, <1>3 DEF AlertTypes, WorkerMoves

\* The same for jobs.
LEMMA JobMoving ==
  ASSUME AlertTypes, NEW r \in Arrivals, NEW state \in JobStates,
         NEW lock \in Processors \cup {NoWorker}, NEW attempts \in 0..MaxAttempts,
         NEW stalls \in 0..1,
         job' = [job EXCEPT ![r].state = state, ![r].lock = lock, ![r].attempts = attempts,
                            ![r].stalls = stalls]
  PROVE  JobMoves(r, state, lock, attempts, stalls)
<1> DEFINE J == [job[r] EXCEPT !.state = state, !.lock = lock, !.attempts = attempts,
                               !.stalls = stalls]
<1>1. job[r] \in JobType  BY JobFields
<1>2. J \in JobType  BY <1>1 DEF JobType, JobStates
<1>3. job' = [job EXCEPT ![r] = J]  OBVIOUS
<1>4. J.state = state /\ J.lock = lock /\ J.attempts = attempts /\ J.stalls = stalls
  BY <1>1 DEF JobType
<1> HIDE DEF J
<1>5. /\ job' \in [Arrivals -> JobType] /\ job'[r] = J
      /\ \A q \in Arrivals \ {r} : job'[q] = job[q]
  BY <1>2, <1>3 DEF AlertTypes
<1> QED BY <1>4, <1>5 DEF JobMoves

\* What Take, FailAttempt, Report and Stalled do to the worker and to its job.
LEMMA Taking ==
  ASSUME AlertTypes, NEW w \in Processors, NEW r \in Arrivals, Take(w, r)
  PROVE  /\ WorkerMoves(w, "load", r, worker[w].todo, worker[w].alert)
         /\ JobMoves(r, "active", w, job[r].attempts, job[r].stalls)
<1>1. worker[w] \in WorkerType /\ job[r] \in JobType  BY WorkerFields, JobFields
<1>2. worker' = [worker EXCEPT ![w].step = "load", ![w].reading = r,
                               ![w].todo = worker[w].todo, ![w].alert = worker[w].alert]
  BY <1>1 DEF Take, WorkerType, AlertTypes
<1>3. job' = [job EXCEPT ![r].state = "active", ![r].lock = w,
                         ![r].attempts = job[r].attempts, ![r].stalls = job[r].stalls]
  BY <1>1 DEF Take, JobType, AlertTypes
<1>4. WorkerMoves(w, "load", r, worker[w].todo, worker[w].alert)
  BY <1>2, Moving, WorkerFields DEF WorkerSteps
<1>5. JobMoves(r, "active", w, job[r].attempts, job[r].stalls)
  BY <1>3, JobMoving, JobFields DEF JobStates
<1> QED BY <1>4, <1>5

LEMMA Failing ==
  ASSUME AlertTypes, NEW w \in Processors, FailAttempt(w), JobHeld(worker[w].reading)
  PROVE  LET r == worker[w].reading IN
         /\ WorkerMoves(w, "idle", Resting.reading, {}, NoAlert)
         /\ job[r].lock # w => job' = job
         /\ job[r].lock = w => \E state \in {"waiting", "failed"}, n \in 0..MaxAttempts :
              /\ JobMoves(r, state, NoWorker, n, job[r].stalls)
              /\ state = "waiting" => n < MaxAttempts
<1> DEFINE r == worker[w].reading
           n == job[r].attempts + 1
           state == IF n < MaxAttempts THEN "waiting" ELSE "failed"
<1>1. WorkerMoves(w, "idle", Resting.reading, {}, NoAlert)
  BY GoingToRest DEF FailAttempt
<1>2. r \in Arrivals /\ job[r] \in JobType  BY WorkerFields, JobFields
<1>3. ASSUME job[r].lock = w
      PROVE  /\ n \in 0..MaxAttempts /\ state \in {"waiting", "failed"}
             /\ state = "waiting" => n < MaxAttempts
             /\ JobMoves(r, state, NoWorker, n, job[r].stalls)
  <2>1. n \in 0..MaxAttempts
    <3>1. job[r].state = "active"  BY <1>2, <1>3, AlertConstants DEF JobHeld
    <3>2. job[r].attempts \in Nat /\ job[r].attempts < MaxAttempts
      BY <1>2, <3>1, JobFields DEF JobHeld
    <3> QED BY <3>2, AlertConstants
  <2>2. job' = [job EXCEPT ![r].lock = NoWorker, ![r].attempts = n, ![r].state = state]
    BY <1>3 DEF FailAttempt
  <2>3. job' = [job EXCEPT ![r].state = state, ![r].lock = NoWorker, ![r].attempts = n,
                           ![r].stalls = job[r].stalls]
    BY <1>2, <2>2 DEF JobType, AlertTypes
  <2>4. JobMoves(r, state, NoWorker, n, job[r].stalls)
    BY <1>2, <2>1, <2>3, JobMoving, JobFields DEF JobStates
  <2> QED BY <2>1, <2>4
<1>4. job[r].lock # w => job' = job  BY DEF FailAttempt
<1> QED BY <1>1, <1>3, <1>4

LEMMA Reporting ==
  ASSUME AlertTypes, NEW w \in Processors, Report(w)
  PROVE  LET r == worker[w].reading IN
         \/ job' = job /\ job[r].lock # w
         \/ JobMoves(r, "done", NoWorker, job[r].attempts, job[r].stalls) /\ job[r].lock = w
<1> DEFINE r == worker[w].reading
<1>0. r \in Arrivals /\ job[r] \in JobType  BY WorkerFields, JobFields
<1>1. CASE job[r].lock = w
  <2>1. job' = [job EXCEPT ![r].state = "done", ![r].lock = NoWorker]  BY <1>1 DEF Report
  <2>2. job' = [job EXCEPT ![r].state = "done", ![r].lock = NoWorker,
                           ![r].attempts = job[r].attempts, ![r].stalls = job[r].stalls]
    BY <1>0, <2>1 DEF JobType, AlertTypes
  <2> QED BY <1>0, <1>1, <2>2, JobMoving, JobFields DEF JobStates
<1>2. CASE job[r].lock # w  BY <1>2 DEF Report
<1> QED BY <1>1, <1>2

LEMMA Stalling ==
  ASSUME AlertTypes, NEW r \in Arrivals, Stalled(r)
  PROVE  \E state \in {"waiting", "failed"} :
           JobMoves(r, state, NoWorker, job[r].attempts, 1)
<1> DEFINE state == IF job[r].stalls = 0 THEN "waiting" ELSE "failed"
<1>1. job[r] \in JobType  BY JobFields
<1>2. job' = [job EXCEPT ![r].state = state, ![r].lock = NoWorker,
                         ![r].attempts = job[r].attempts, ![r].stalls = 1]
  BY <1>1 DEF Stalled, JobType, AlertTypes
<1>3. state \in {"waiting", "failed"}  OBVIOUS
<1> HIDE DEF state
<1>4. JobMoves(r, state, NoWorker, job[r].attempts, 1)
  <2>1. job[r].attempts \in 0..MaxAttempts /\ 1 \in 0..1  BY JobFields
  <2>2. state \in JobStates /\ NoWorker \in Processors \cup {NoWorker}
    BY <1>3 DEF JobStates
  <2> QED BY <1>2, <2>1, <2>2, JobMoving
<1> QED BY <1>3, <1>4

\* The outcomes of a debounced alert: the first one of its window passes, any other
\* is skipped, and without an answer of the storage it passes.
LEMMA BreachDebounced ==
  ASSUME NEW w, DebounceBreach(w)
  PROVE  \E a \in worker[w].todo :
           \/ /\ ~Suppressed(hits[a])
              /\ worker' = [worker EXCEPT ![w].step = "notify",
                                          ![w].todo = worker[w].todo \ {a}, ![w].alert = a]
              /\ hits' = [hits EXCEPT ![a] = UpToOne(@ + 1)] /\ UNCHANGED <<faults, unsure>>
           \/ /\ Suppressed(hits[a])
              /\ worker' = [worker EXCEPT ![w].step = AfterAlert(worker[w].todo \ {a}),
                                          ![w].todo = worker[w].todo \ {a}]
              /\ hits' = [hits EXCEPT ![a] = UpToOne(@ + 1)] /\ UNCHANGED <<faults, unsure>>
           \/ /\ worker' = [worker EXCEPT ![w].step = "notify",
                                          ![w].todo = worker[w].todo \ {a}, ![w].alert = a]
              /\ Fault /\ unsure' = unsure \cup {a} /\ UNCHANGED hits
BY Zenon DEF DebounceBreach, Debounced

LEMMA SilenceDebounced ==
  ASSUME NEW p, DebounceSilence(p)
  PROVE  \E d \in watch[p].todo :
           LET rest == watch[p].todo \ {d} IN
           \/ /\ ~Suppressed(hits[d])
              /\ watch' = [watch EXCEPT ![p] = [step |-> "notify", todo |-> rest, alert |-> d]]
              /\ hits' = [hits EXCEPT ![d] = UpToOne(@ + 1)] /\ UNCHANGED <<faults, unsure>>
           \/ /\ Suppressed(hits[d])
              /\ watch' = [watch EXCEPT ![p] =
                             [step |-> NextDevice(rest), todo |-> rest, alert |-> NoAlert]]
              /\ hits' = [hits EXCEPT ![d] = UpToOne(@ + 1)] /\ UNCHANGED <<faults, unsure>>
           \/ /\ watch' = [watch EXCEPT ![p] = [step |-> "notify", todo |-> rest, alert |-> d]]
              /\ Fault /\ unsure' = unsure \cup {d} /\ UNCHANGED hits
BY Zenon DEF DebounceSilence, Debounced

-----------------------------------------------------------------------------
(* What the workers do to the readings they are on                         *)

\* The part of the invariant about readings, jobs and workers.
ReadingsHold == \A r \in Arrivals : JobHeld(r) /\ ReadingHolds(r)

\* A step of worker w on reading r leaves the other readings alone.
WorksOn(w, r) ==
  /\ worker[w].step = "idle" \/ worker[w].reading = r
  /\ worker'[w].step = "idle" \/ worker'[w].reading = r
  /\ \A v \in Processors \ {w} : worker'[v] = worker[v]
  /\ \A q \in Arrivals \ {r} :
       /\ job'[q] = job[q] /\ emits'[q] = emits[q]
       /\ q \in stamped' <=> q \in stamped
       /\ q \in retried' <=> q \in retried

\* So those readings still hold what they did.
LEMMA OtherReadings ==
  ASSUME AlertTypes, ReadingsHold, NEW w \in Processors, NEW r \in Arrivals, WorksOn(w, r),
         NEW q \in Arrivals \ {r}
  PROVE  JobHeld(q)' /\ ReadingHolds(q)'
<1>1. /\ job'[q] = job[q] /\ emits'[q] = emits[q]
      /\ q \in stamped' <=> q \in stamped
      /\ q \in retried' <=> q \in retried
  BY DEF WorksOn
<1>2. JobHeld(q) /\ ReadingHolds(q)  BY DEF ReadingsHold
<1>3. w \notin On(q) /\ w \notin On(q)'  BY DEF On, WorksOn
<1>4. On(q)' = On(q) /\ \A v \in On(q) : worker'[v] = worker[v]
  BY <1>3 DEF On, WorksOn
<1>5. JobHeld(q)'
  <2>1. job[q].lock # NoWorker => job[q].lock \in On(q)
    BY <1>2, JobFields DEF JobHeld, On
  <2>2. job[q].lock # NoWorker => worker'[job[q].lock] = worker[job[q].lock]
    BY <1>4, <2>1
  <2> QED BY <1>1, <1>2, <2>2 DEF JobHeld
<1>6. BroadcastHolds(q)'
  BY <1>1, <1>2, <1>4 DEF ReadingHolds, BroadcastHolds
<1>7. BroadcastOnce(q) => BroadcastOnce(q)'
  BY <1>1, <1>4 DEF BroadcastOnce
<1> QED BY <1>1, <1>2, <1>5, <1>6, <1>7 DEF ReadingHolds

\* The workers on r: w comes, stays or goes.
LEMMA OnMoves ==
  ASSUME NEW w \in Processors, NEW r \in Arrivals, WorksOn(w, r)
  PROVE  /\ \A v \in Processors \ {w} : v \in On(r)' <=> v \in On(r)
         /\ worker'[w].step = "idle" => On(r)' = On(r) \ {w}
         /\ worker'[w].step # "idle" => On(r)' = On(r) \cup {w}
         /\ w \in On(r) <=> worker[w].step # "idle"
         /\ \A v \in On(r)' \ {w} : v \in On(r) /\ worker'[v] = worker[v]
<1>1. \A v \in Processors \ {w} : worker'[v] = worker[v]  BY DEF WorksOn
<1>2. /\ worker[w].step = "idle" \/ worker[w].reading = r
      /\ worker'[w].step = "idle" \/ worker'[w].reading = r
  BY DEF WorksOn
<1> QED BY <1>1, <1>2 DEF On

\* Worker w gives reading r up, or finds it done: no broadcast of r is left open.
LEMMA Resigns ==
  ASSUME AlertTypes, ReadingsHold, NEW w \in Processors, NEW r \in Arrivals,
         worker[w].step # "idle", worker[w].reading = r, WorksOn(w, r),
         worker'[w].step = "idle",
         UNCHANGED <<emits, stamped>>, retried \subseteq retried',
         \/ job'[r] = job[r] /\ job[r].lock # w
         \/ /\ job'[r].lock = NoWorker /\ job[r].lock = w
            /\ job'[r].state \in {"waiting", "failed", "done"}
            /\ job'[r].state = "waiting" => job'[r].attempts < MaxAttempts
            /\ job'[r].state = "done" => r \in stamped,
         r \in stamped' \/ r \in retried' \/ worker[w].step \notin Broadcasting
  PROVE  JobHeld(r)' /\ ReadingHolds(r)'
<1>1. JobHeld(r) /\ ReadingHolds(r)  BY DEF ReadingsHold
<1>2. On(r)' = On(r) \ {w} /\ \A v \in On(r)' : v \in On(r) /\ worker'[v] = worker[v]
  BY OnMoves
<1>3. w \in On(r)  BY DEF On
<1>4. JobHeld(r)'
  <2>1. CASE job'[r] = job[r] /\ job[r].lock # w
    <3>1. job[r].lock # NoWorker => job[r].lock \in Processors \ {w}
      BY <2>1, JobFields
    <3> QED BY <1>1, <2>1, <3>1 DEF JobHeld, WorksOn
  <2>2. CASE job[r].lock = w /\ job'[r].lock = NoWorker
    BY <2>2, AlertConstants DEF JobHeld
  <2> QED BY <2>1, <2>2
<1>5. BroadcastHolds(r)'
  <2>1. job'[r].state = "done" => r \in stamped'
    BY <1>1 DEF ReadingHolds, BroadcastHolds
  <2> QED BY <1>1, <1>2, <2>1 DEF ReadingHolds, BroadcastHolds
<1>6. ASSUME r \notin retried' PROVE BroadcastOnce(r)'
  <2>1. BroadcastOnce(r)  BY <1>1, <1>6 DEF ReadingHolds
  <2>2. CASE r \in stamped  BY <1>2, <2>1, <2>2 DEF BroadcastOnce
  <2>3. CASE r \notin stamped
    <3>1. job[r].lock = w /\ \A v \in On(r) : v = w
      BY <1>3, <2>1, <2>3 DEF BroadcastOnce
    <3>2. On(r)' = {}  BY <1>2, <3>1
    <3>3. emits[r] # 1  BY <1>6, <2>1, <2>3, <3>1 DEF BroadcastOnce
    <3> QED BY <2>1, <2>3, <3>2, <3>3 DEF BroadcastOnce
  <2> QED BY <2>2, <2>3
<1> QED BY <1>4, <1>5, <1>6 DEF ReadingHolds

\* Worker w takes reading r, or goes on with it.
LEMMA GoesOn ==
  ASSUME AlertTypes, ReadingsHold, NEW w \in Processors, NEW r \in Arrivals, WorksOn(w, r),
         worker'[w].step # "idle", retried' = retried,
         \/ job'[r] = job[r] /\ worker[w].step # "idle"
         \/ /\ job'[r].lock = w /\ job'[r].state = "active" /\ job[r].state = "waiting"
            /\ job'[r].attempts = job[r].attempts,
         BroadcastHolds(r)', r \notin retried => BroadcastOnce(r)'
  PROVE  JobHeld(r)' /\ ReadingHolds(r)'
<1>1. JobHeld(r)  BY DEF ReadingsHold
<1>2. worker'[w].reading = r  BY DEF WorksOn
<1>3. CASE job'[r] = job[r] /\ worker[w].step # "idle"
  <2>1. ASSUME job[r].lock = w PROVE JobHeld(r)'
    BY <1>1, <1>2, <1>3, <2>1 DEF JobHeld
  <2>2. ASSUME job[r].lock # w PROVE JobHeld(r)'
    <3>1. job[r].lock # NoWorker => job[r].lock \in Processors \ {w}
      BY <2>2, JobFields
    <3> QED BY <1>1, <1>3, <3>1 DEF JobHeld, WorksOn
  <2>3. JobHeld(r)'  BY <2>1, <2>2
  <2> QED BY <2>3 DEF ReadingHolds
<1>4. CASE /\ job'[r].lock = w /\ job'[r].state = "active" /\ job[r].state = "waiting"
           /\ job'[r].attempts = job[r].attempts
  <2>1. JobHeld(r)'  BY <1>1, <1>2, <1>4, AlertConstants DEF JobHeld
  <2> QED BY <2>1 DEF ReadingHolds
<1> QED BY <1>3, <1>4

\* A step of worker w keeps what holds of the readings, action by action.
LEMMA WorkReadings ==
  ASSUME AlertTypes, ReadingsHold, NEW w \in Processors,
         Work(w) \/ AttemptFails(w) \/ LoseLock(w) \/ WorkerDies(w)
  PROVE  ReadingsHold'
<1> USE DEF jobVars, histVars
<1>p. PICK r \in Arrivals : worker[w].reading = r  BY WorkerFields
<1>0. /\ worker[w].reading = r /\ worker[w].step \in WorkerSteps
      /\ worker[w].alert \in Kinds \cup {NoAlert} /\ worker[w].todo \in SUBSET Kinds
      /\ JobHeld(r) /\ ReadingHolds(r) /\ emits[r] \in 0..2
  BY <1>p, WorkerFields, JobFields DEF ReadingsHold
<1>a. ASSUME NEW q \in Arrivals, WorksOn(w, q), JobHeld(q)' /\ ReadingHolds(q)'
      PROVE  ReadingsHold'
  BY <1>a, OtherReadings DEF ReadingsHold
<1>1. ASSUME NEW q \in Arrivals, Take(w, q) PROVE ReadingsHold'
  <2>1. /\ WorkerMoves(w, "load", q, worker[w].todo, worker[w].alert)
        /\ JobMoves(q, "active", w, job[q].attempts, job[q].stalls)
    BY <1>1, Taking
  <2>2. /\ worker[w].step = "idle" /\ job[q].state = "waiting"
        /\ UNCHANGED <<stamped, emits, retried>>
    BY <1>1 DEF Take
  <2>3. WorksOn(w, q)  BY <2>1, <2>2 DEF WorksOn, WorkerMoves, JobMoves
  <2>4. JobHeld(q) /\ ReadingHolds(q) /\ job[q].lock = NoWorker
    BY <2>2, JobFields DEF ReadingsHold, JobHeld
  <2>5. /\ On(q)' = On(q) \cup {w} /\ worker'[w].step = "load" /\ job'[q].lock = w
        /\ job'[q].state = "active" /\ job'[q].attempts = job[q].attempts
        /\ \A v \in On(q)' \ {w} : v \in On(q) /\ worker'[v] = worker[v]
    BY <2>1, <2>3, OnMoves DEF WorkerMoves, JobMoves
  <2>6. BroadcastHolds(q)'
    BY <2>2, <2>4, <2>5 DEF ReadingHolds, BroadcastHolds, Broadcasting
  <2>7. ASSUME q \notin retried PROVE BroadcastOnce(q)'
    <3>1. BroadcastOnce(q)  BY <2>4, <2>7 DEF ReadingHolds
    <3>2. CASE q \in stamped  BY <2>2, <2>5, <3>1, <3>2 DEF BroadcastOnce
    <3>3. CASE q \notin stamped
      <4>1. On(q) = {}
        BY <2>4, <3>1, <3>3, AlertConstants DEF BroadcastOnce, On
      <4>2. emits[q] # 1  BY <3>1, <3>3, <4>1 DEF BroadcastOnce
      <4> QED BY <2>2, <2>5, <3>1, <3>3, <4>1, <4>2 DEF BroadcastOnce
    <3> QED BY <3>2, <3>3
  <2>8. JobHeld(q)' /\ ReadingHolds(q)'
    BY <2>2, <2>3, <2>5, <2>6, <2>7, GoesOn
  <2> QED BY <1>a, <2>3, <2>8
<1>2. CASE Load(w)
  <2> DEFINE step == IF WasStamped(r) THEN "report" ELSE "emit"
  <2>1. worker[w].step = "load" /\ Goto(w, step) /\ UNCHANGED <<job, stamped, emits, retried>>
    BY <1>0, <1>2 DEF Load
  <2>2. step \in WorkerSteps /\ step # "idle"  BY DEF WorkerSteps
  <2>3. WorkerMoves(w, step, r, worker[w].todo, worker[w].alert)
    BY <1>0, <2>1, <2>2, GoingTo
  <2>4. /\ step = "report" => r \in stamped
        /\ r \in stamped => step = "report"
        /\ step \notin Broadcasting
    BY DEF WasStamped, Broadcasting
  <2> HIDE DEF step
  <2>5. WorksOn(w, r)  BY <1>0, <2>1, <2>3 DEF WorksOn, WorkerMoves
  <2>6. /\ On(r)' = On(r) \cup {w} /\ w \in On(r) /\ worker'[w].step = step
        /\ \A v \in On(r)' \ {w} : v \in On(r) /\ worker'[v] = worker[v]
    BY <1>0, <2>1, <2>2, <2>3, <2>5, OnMoves DEF WorkerMoves
  <2>7. BroadcastHolds(r)'
    BY <1>0, <2>1, <2>4, <2>6 DEF ReadingHolds, BroadcastHolds
  <2>8. ASSUME r \notin retried PROVE BroadcastOnce(r)'
    <3>1. BroadcastOnce(r)  BY <1>0, <2>8 DEF ReadingHolds
    <3>2. CASE r \in stamped  BY <1>0, <2>1, <2>4, <2>6, <3>1, <3>2 DEF BroadcastOnce
    <3>3. CASE r \notin stamped
      <4>1. job[r].lock = w /\ \A v \in On(r) : v = w
        BY <1>0, <2>6, <3>1, <3>3 DEF BroadcastOnce
      <4>2. emits[r] # 1
        BY <1>0, <2>1, <3>1, <3>3, <4>1 DEF BroadcastOnce, Broadcasting
      <4> QED BY <1>0, <2>1, <2>6, <3>1, <3>3, <4>1, <4>2 DEF BroadcastOnce
    <3> QED BY <1>0, <3>2, <3>3
  <2>9. JobHeld(r)' /\ ReadingHolds(r)'
    BY <1>0, <2>1, <2>2, <2>5, <2>6, <2>7, <2>8, GoesOn
  <2> QED BY <1>0, <1>a, <2>5, <2>9
<1>3. CASE Emit(w)
  <2> DEFINE step == AfterAlert(BreachesOf[r])
  <2>1. /\ worker[w].step = "emit" /\ emits' = [emits EXCEPT ![r] = UpToTwo(@ + 1)]
        /\ worker' = [worker EXCEPT ![w].step = step, ![w].todo = BreachesOf[r]]
        /\ UNCHANGED <<job, stamped, retried>>
    BY <1>0, <1>3 DEF Emit
  <2>2. /\ step \in WorkerSteps /\ step # "idle" /\ step \in Broadcasting /\ step # "report"
        /\ BreachesOf[r] \in SUBSET Kinds
    BY <1>0, AlertConstants DEF WorkerSteps, Broadcasting, AfterAlert
  <2> HIDE DEF step
  <2>3. WorkerMoves(w, step, r, BreachesOf[r], worker[w].alert)
    <3>1. worker' = [worker EXCEPT ![w].step = step, ![w].reading = r, ![w].todo = BreachesOf[r],
                                   ![w].alert = worker[w].alert]
      BY <1>0, <2>1, WorkerFields DEF WorkerType, AlertTypes
    <3> QED BY <1>0, <2>2, <3>1, Moving
  <2>4. WorksOn(w, r)  BY <1>0, <2>1, <2>3 DEF WorksOn, WorkerMoves, AlertTypes
  <2>5. emits'[r] = UpToTwo(emits[r] + 1) /\ emits'[r] > 0
    BY <1>0, <2>1 DEF AlertTypes, UpToTwo
  <2>6. /\ On(r)' = On(r) \cup {w} /\ w \in On(r) /\ worker'[w].step = step
        /\ \A v \in On(r)' \ {w} : v \in On(r) /\ worker'[v] = worker[v]
    <3>1. worker'[w].step = step /\ worker'[w].step # "idle" /\ worker[w].step # "idle"
      BY <2>1, <2>2, <2>3 DEF WorkerMoves
    <3> QED BY <1>0, <2>4, <3>1, OnMoves
  <2>7. BroadcastHolds(r)'
    BY <1>0, <2>1, <2>2, <2>5, <2>6 DEF ReadingHolds, BroadcastHolds
  <2>8. ASSUME r \notin retried PROVE BroadcastOnce(r)'
    <3>1. BroadcastOnce(r)  BY <1>0, <2>8 DEF ReadingHolds
    <3>2. r \notin stamped  BY <1>0, <2>1, <2>6, <3>1 DEF BroadcastOnce
    <3>3. job[r].lock = w /\ \A v \in On(r) : v = w
      BY <1>0, <2>6, <3>1, <3>2 DEF BroadcastOnce
    <3>4. emits[r] = 0
      BY <1>0, <2>1, <3>1, <3>2, <3>3 DEF BroadcastOnce, Broadcasting
    <3>5. emits'[r] = 1  BY <1>0, <2>5, <3>4 DEF UpToTwo
    <3>6. /\ job'[r].lock = w /\ r \notin stamped' /\ \A v \in On(r)' : v = w
          /\ w \in On(r)' /\ worker'[w].step \in Broadcasting
      BY <2>1, <2>2, <2>6, <3>2, <3>3
    <3> QED BY <3>5, <3>6 DEF BroadcastOnce
  <2>9. JobHeld(r)' /\ ReadingHolds(r)'
    BY <1>0, <2>1, <2>2, <2>4, <2>6, <2>7, <2>8, GoesOn
  <2> QED BY <1>0, <1>a, <2>4, <2>9
<1>4. CASE DebounceBreach(w) \/ NotifyBreach(w)
  <2>1. \E step \in {"debounce", "notify", "stamp"}, todo \in SUBSET Kinds,
           alert \in Kinds \cup {NoAlert} :
          WorkerMoves(w, step, r, todo, alert)
    <3>1. \E step \in {"debounce", "notify", "stamp"}, todo \in SUBSET Kinds,
             alert \in Kinds \cup {NoAlert} :
            worker' = [worker EXCEPT ![w].step = step, ![w].reading = r, ![w].todo = todo,
                                     ![w].alert = alert]
      <4>0. /\ worker[w] \in WorkerType
            /\ \A s \in SUBSET Kinds : AfterAlert(s) \in {"debounce", "notify", "stamp"}
        BY <1>0, WorkerFields DEF AfterAlert
      <4>1. CASE DebounceBreach(w)
        <5>1. PICK a \in worker[w].todo :
                \/ worker' = [worker EXCEPT ![w].step = "notify",
                                            ![w].todo = worker[w].todo \ {a}, ![w].alert = a]
                \/ worker' = [worker EXCEPT ![w].step = AfterAlert(worker[w].todo \ {a}),
                                            ![w].todo = worker[w].todo \ {a}]
          BY <4>1, BreachDebounced
        <5>2. worker[w].todo \ {a} \in SUBSET Kinds /\ a \in Kinds  BY <1>0
        <5>3. CASE worker' = [worker EXCEPT ![w].step = "notify",
                                            ![w].todo = worker[w].todo \ {a}, ![w].alert = a]
          <6>1. worker' = [worker EXCEPT ![w].step = "notify", ![w].reading = r,
                             ![w].todo = worker[w].todo \ {a}, ![w].alert = a]
            BY <1>0, <4>0, <5>3 DEF WorkerType, AlertTypes
          <6> QED BY <1>0, <5>2, <6>1
        <5>4. CASE worker' = [worker EXCEPT ![w].step = AfterAlert(worker[w].todo \ {a}),
                                            ![w].todo = worker[w].todo \ {a}]
          <6>1. worker' = [worker EXCEPT ![w].step = AfterAlert(worker[w].todo \ {a}),
                             ![w].reading = r, ![w].todo = worker[w].todo \ {a},
                             ![w].alert = worker[w].alert]
            BY <1>0, <4>0, <5>4 DEF WorkerType, AlertTypes
          <6> QED BY <1>0, <4>0, <5>2, <6>1
        <5> QED BY <1>0, <5>1, <5>3, <5>4
      <4>2. CASE NotifyBreach(w)
        <5>1. worker' = [worker EXCEPT ![w].step = AfterAlert(worker[w].todo), ![w].reading = r,
                           ![w].todo = worker[w].todo, ![w].alert = NoAlert]
          BY <1>0, <4>0, <4>2 DEF NotifyBreach, WorkerType, AlertTypes
        <5> QED BY <1>0, <4>0, <5>1
      <4> QED BY <1>0, <1>4, <4>1, <4>2
    <3> QED BY <1>0, <3>1, Moving DEF WorkerSteps
  <2>2. PICK step \in {"debounce", "notify", "stamp"} :
          \E todo, alert : WorkerMoves(w, step, r, todo, alert)
    BY <1>0, <2>1
  <2>3. worker[w].step \in {"debounce", "notify"} /\ UNCHANGED <<job, stamped, emits, retried>>
    BY <1>0, <1>4 DEF DebounceBreach, NotifyBreach
  <2>4. WorksOn(w, r)  BY <1>0, <2>2, <2>3 DEF WorksOn, WorkerMoves
  <2>5. /\ On(r)' = On(r) \cup {w} /\ w \in On(r) /\ worker'[w].step = step
        /\ \A v \in On(r)' \ {w} : v \in On(r) /\ worker'[v] = worker[v]
    BY <1>0, <2>2, <2>3, <2>4, OnMoves DEF WorkerMoves
  <2>6. BroadcastHolds(r)'
    BY <1>0, <2>2, <2>3, <2>5 DEF ReadingHolds, BroadcastHolds, Broadcasting
  <2>7. ASSUME r \notin retried PROVE BroadcastOnce(r)'
    <3>1. BroadcastOnce(r)  BY <1>0, <2>7 DEF ReadingHolds
    <3>2. r \notin stamped  BY <1>0, <2>3, <2>5, <3>1 DEF BroadcastOnce
    <3> QED BY <1>0, <2>2, <2>3, <2>5, <3>1, <3>2 DEF BroadcastOnce, Broadcasting
  <2>8. JobHeld(r)' /\ ReadingHolds(r)'
    BY <1>0, <2>2, <2>3, <2>4, <2>5, <2>6, <2>7, GoesOn
  <2> QED BY <1>0, <1>a, <2>4, <2>8
<1>5. CASE Stamp(w)
  <2>1. /\ worker[w].step = "stamp" /\ stamped' = stamped \cup {r} /\ Goto(w, "report")
        /\ UNCHANGED <<job, emits, retried>>
    BY <1>0, <1>5 DEF Stamp
  <2>2. WorkerMoves(w, "report", r, worker[w].todo, worker[w].alert)
    BY <1>0, <2>1, GoingTo DEF WorkerSteps
  <2>3. WorksOn(w, r)  BY <1>0, <2>1, <2>2 DEF WorksOn, WorkerMoves
  <2>4. /\ On(r)' = On(r) \cup {w} /\ w \in On(r) /\ worker'[w].step = "report"
        /\ \A v \in On(r)' \ {w} : v \in On(r) /\ worker'[v] = worker[v]
    BY <1>0, <2>1, <2>2, <2>3, OnMoves DEF WorkerMoves
  <2>5. BroadcastHolds(r)'
    BY <1>0, <2>1, <2>4 DEF ReadingHolds, BroadcastHolds, Broadcasting
  <2>6. ASSUME r \notin retried PROVE BroadcastOnce(r)'
    <3>1. BroadcastOnce(r)  BY <1>0, <2>6 DEF ReadingHolds
    <3>2. r \notin stamped  BY <1>0, <2>1, <2>4, <3>1 DEF BroadcastOnce
    <3>3. \A v \in On(r) : v = w  BY <1>0, <2>4, <3>1, <3>2 DEF BroadcastOnce
    <3> QED BY <1>0, <2>1, <2>4, <3>1, <3>3 DEF BroadcastOnce
  <2>7. JobHeld(r)' /\ ReadingHolds(r)'
    BY <1>0, <2>1, <2>3, <2>4, <2>5, <2>6, GoesOn
  <2> QED BY <1>0, <1>a, <2>3, <2>7
<1>6. CASE Report(w)
  <2>1. /\ worker[w].step = "report" /\ Rest(w) /\ UNCHANGED <<stamped, emits, retried>>
        /\ r \in stamped
    BY <1>0, <1>6 DEF Report, ReadingHolds, BroadcastHolds, On
  <2>2. WorkerMoves(w, "idle", Resting.reading, {}, NoAlert)  BY <1>0, <2>1, GoingToRest
  <2>3. \/ job' = job /\ job[r].lock # w
        \/ JobMoves(r, "done", NoWorker, job[r].attempts, job[r].stalls) /\ job[r].lock = w
    BY <1>0, <1>6, Reporting
  <2>4. WorksOn(w, r)  BY <1>0, <2>1, <2>2, <2>3 DEF WorksOn, WorkerMoves, JobMoves
  <2>5. \/ job'[r] = job[r] /\ job[r].lock # w
        \/ /\ job'[r].lock = NoWorker /\ job[r].lock = w
           /\ job'[r].state \in {"waiting", "failed", "done"}
           /\ job'[r].state = "waiting" => job'[r].attempts < MaxAttempts
           /\ job'[r].state = "done" => r \in stamped
    BY <1>0, <2>1, <2>3 DEF JobMoves
  <2>6. worker'[w].step = "idle" /\ r \in stamped' /\ retried \subseteq retried'
    BY <1>0, <2>1, <2>2 DEF WorkerMoves
  <2>7. JobHeld(r)' /\ ReadingHolds(r)'
    BY <1>0, <2>1, <2>4, <2>5, <2>6, Resigns
  <2> QED BY <1>0, <1>a, <2>4, <2>7
<1>7. CASE AttemptFails(w)
  <2>1. /\ worker[w].step \in {"load", "stamp"} /\ FailAttempt(w) /\ UNCHANGED <<stamped, emits>>
        /\ retried' = IF worker[w].step = "stamp" THEN retried \cup {r} ELSE retried
    BY <1>0, <1>7 DEF AttemptFails
  <2>2. WorkerMoves(w, "idle", Resting.reading, {}, NoAlert)  BY <1>0, <2>1, Failing
  <2>3. job[r].lock # w => job' = job  BY <1>0, <2>1, Failing
  <2>4. job[r].lock = w => \E state \in {"waiting", "failed"}, n \in 0..MaxAttempts :
          /\ JobMoves(r, state, NoWorker, n, job[r].stalls)
          /\ state = "waiting" => n < MaxAttempts
    BY <1>0, <2>1, Failing
  <2>5. WorksOn(w, r)  BY <1>0, <2>1, <2>2, <2>3, <2>4 DEF WorksOn, WorkerMoves, JobMoves
  <2>6. \/ job'[r] = job[r] /\ job[r].lock # w
        \/ /\ job'[r].lock = NoWorker /\ job[r].lock = w
           /\ job'[r].state \in {"waiting", "failed", "done"}
           /\ job'[r].state = "waiting" => job'[r].attempts < MaxAttempts
           /\ job'[r].state = "done" => r \in stamped
    BY <1>0, <2>3, <2>4 DEF JobMoves
  <2>7. /\ worker'[w].step = "idle" /\ retried \subseteq retried' /\ worker[w].step # "idle"
        /\ r \in retried' \/ worker[w].step \notin Broadcasting
    BY <1>0, <2>1, <2>2 DEF WorkerMoves, Broadcasting
  <2>8. JobHeld(r)' /\ ReadingHolds(r)'
    BY <1>0, <2>1, <2>5, <2>6, <2>7, Resigns
  <2> QED BY <1>0, <1>a, <2>5, <2>8
<1>8. CASE WorkerDies(w)
  <2>1. /\ worker[w].step # "idle" /\ Rest(w) /\ UNCHANGED <<stamped, emits>>
        /\ retried' = IF r \in stamped THEN retried ELSE retried \cup {r}
    BY <1>0, <1>8 DEF WorkerDies, Unstamped
  <2>2. WorkerMoves(w, "idle", Resting.reading, {}, NoAlert)  BY <1>0, <2>1, GoingToRest
  <2>3. job[r].lock # w => job' = job  BY <1>0, <1>8 DEF WorkerDies
  <2>4. job[r].lock = w => \E state \in {"waiting", "failed"} :
          JobMoves(r, state, NoWorker, job[r].attempts, 1)
    BY <1>0, <1>8, Stalling DEF WorkerDies
  <2>5. WorksOn(w, r)  BY <1>0, <2>1, <2>2, <2>3, <2>4 DEF WorksOn, WorkerMoves, JobMoves
  <2>6. job[r].lock = w => job[r].attempts < MaxAttempts
    BY <1>0, AlertConstants DEF JobHeld
  <2>7. \/ job'[r] = job[r] /\ job[r].lock # w
        \/ /\ job'[r].lock = NoWorker /\ job[r].lock = w
           /\ job'[r].state \in {"waiting", "failed", "done"}
           /\ job'[r].state = "waiting" => job'[r].attempts < MaxAttempts
           /\ job'[r].state = "done" => r \in stamped
    BY <1>0, <2>3, <2>4, <2>6 DEF JobMoves
  <2>8. /\ worker'[w].step = "idle" /\ retried \subseteq retried'
        /\ r \in retried' \/ r \in stamped'
    BY <1>0, <2>1, <2>2 DEF WorkerMoves
  <2>9. JobHeld(r)' /\ ReadingHolds(r)'
    BY <1>0, <2>1, <2>5, <2>7, <2>8, Resigns
  <2> QED BY <1>0, <1>a, <2>5, <2>9
<1>9. CASE LoseLock(w)
  <2>1. /\ worker[w].step # "idle" /\ job[r].lock = w /\ Stalled(r)
        /\ UNCHANGED <<worker, stamped, emits>>
        /\ retried' = IF r \in stamped THEN retried ELSE retried \cup {r}
    BY <1>0, <1>9 DEF LoseLock, Unstamped
  <2>2. PICK state \in {"waiting", "failed"} : JobMoves(r, state, NoWorker, job[r].attempts, 1)
    BY <1>0, <2>1, Stalling
  <2>3. WorksOn(w, r)  BY <1>0, <2>1, <2>2 DEF WorksOn, JobMoves
  <2>4. On(r)' = On(r)  BY <1>0, <2>1 DEF On
  <2>5. JobHeld(r)'
    BY <1>0, <2>1, <2>2, AlertConstants DEF JobHeld, JobMoves
  <2>6. BroadcastHolds(r)'
    BY <1>0, <2>1, <2>2, <2>4 DEF ReadingHolds, BroadcastHolds, JobMoves
  <2>7. ASSUME r \notin retried' PROVE BroadcastOnce(r)'
    <3>1. r \in stamped /\ BroadcastOnce(r)  BY <1>0, <2>1, <2>7 DEF ReadingHolds
    <3> QED BY <1>0, <2>1, <2>4, <3>1 DEF BroadcastOnce
  <2> QED BY <1>0, <1>a, <2>3, <2>5, <2>6, <2>7 DEF ReadingHolds
<1> QED
  BY <1>1, <1>2, <1>3, <1>4, <1>5, <1>6, <1>7, <1>8, <1>9 DEF Work, EmitByDefaults

-----------------------------------------------------------------------------
(* What the alerts of a window come to                                     *)

\* Who may notify of an alert: a worker for a breach, a watcher for a silence.
LEMMA RaisedBy ==
  ASSUME AlertTypes, AlertsAtHand, NEW a \in Alerts
  PROVE  /\ a \in Kinds => Granted(a) = {w \in Processors : worker[w].alert = a}
         /\ a \in Devices => Granted(a) = {p \in Watchers : watch[p].alert = a}
         /\ a \in Kinds \/ a \in Devices
<1>1. NoAlert \notin Kinds /\ NoAlert \notin Devices /\ Kinds \cap Devices = {}
  BY AlertConstants DEF Alerts
<1>2. /\ \A w \in Processors : worker[w].alert \in Kinds \cup {NoAlert}
      /\ \A p \in Watchers : watch[p].alert \in Devices \cup {NoAlert}
  BY WorkerFields DEF AlertTypes, WatchType
<1>3. a \in Kinds => Granted(a) = {w \in Processors : worker[w].alert = a}
  BY <1>1, <1>2 DEF Granted, AlertsAtHand
<1>4. a \in Devices => Granted(a) = {p \in Watchers : watch[p].alert = a}
  BY <1>1, <1>2 DEF Granted, AlertsAtHand
<1> QED BY <1>3, <1>4 DEF Alerts

\* A step that does not touch alert a.
LEMMA WindowKept ==
  ASSUME NEW a \in Alerts, WindowHolds(a), Granted(a)' = Granted(a),
         hits'[a] = hits[a], told'[a] = told[a], a \in unsure => a \in unsure'
  PROVE  WindowHolds(a)'
BY DEF WindowHolds

\* The debounce lets x through for a, and it was the first of the window ...
LEMMA WindowPasses ==
  ASSUME AlertTypes, NEW a \in Alerts, WindowHolds(a), NEW x, Granted(a)' = Granted(a) \cup {x},
         ~Suppressed(hits[a]), hits'[a] = UpToOne(hits[a] + 1), told' = told, unsure' = unsure
  PROVE  WindowHolds(a)'
<1>1. hits[a] = 0 /\ hits'[a] = 1  BY DEF AlertTypes, Suppressed, UpToOne
<1>2. a \in unsure \/ (told[a] = 0 /\ Granted(a) = {})  BY <1>1 DEF WindowHolds
<1>3. a \notin unsure => Granted(a)' = {x}  BY <1>2
<1> QED BY <1>1, <1>2, <1>3 DEF WindowHolds

\* ... or not.
LEMMA WindowSkips ==
  ASSUME AlertTypes, NEW a \in Alerts, WindowHolds(a), Granted(a)' = Granted(a),
         Suppressed(hits[a]), hits'[a] = UpToOne(hits[a] + 1), told' = told, unsure' = unsure
  PROVE  WindowHolds(a)'
<1>1. hits[a] = 1 /\ hits'[a] = 1  BY DEF AlertTypes, Suppressed, UpToOne
<1> QED BY <1>1 DEF WindowHolds

\* x notifies of a.
LEMMA WindowTold ==
  ASSUME AlertTypes, NEW a \in Alerts, WindowHolds(a), NEW x \in Granted(a),
         Granted(a)' = Granted(a) \ {x}, told'[a] = UpToTwo(told[a] + 1), hits' = hits,
         unsure' = unsure
  PROVE  WindowHolds(a)'
<1>1. a \in unsure \/ (hits[a] = 1 /\ told[a] = 0 /\ Granted(a) = {x})
  BY DEF WindowHolds
<1>2. a \notin unsure => told'[a] = 1 /\ Granted(a)' = {}  BY <1>1 DEF UpToTwo
<1> QED BY <1>1, <1>2 DEF WindowHolds

\* Worker w moves, and with it the alert at hand.
LEMMA WorkerRaises ==
  ASSUME AlertTypes, AlertTypes', AlertsAtHand, NEW w \in Processors,
         NEW step, NEW reading, NEW todo, NEW alert,
         WorkerMoves(w, step, reading, todo, alert), step = "notify" <=> alert # NoAlert,
         watch' = watch
  PROVE  /\ AlertsAtHand'
         /\ \A a \in Alerts :
              /\ a # alert /\ a # worker[w].alert => Granted(a)' = Granted(a)
              /\ alert = worker[w].alert => Granted(a)' = Granted(a)
              /\ a = alert /\ worker[w].alert = NoAlert => Granted(a)' = Granted(a) \cup {w}
              /\ a = worker[w].alert /\ alert = NoAlert =>
                   w \in Granted(a) /\ Granted(a)' = Granted(a) \ {w}
<1>1. AlertsAtHand'  BY DEF AlertsAtHand, WorkerMoves
<1>2. /\ worker'[w].alert = alert /\ \A v \in Processors \ {w} : worker'[v] = worker[v]
      /\ worker[w].alert \in Kinds \cup {NoAlert} /\ alert \in Kinds \cup {NoAlert}
  <2>1. worker'[w].alert \in Kinds \cup {NoAlert}
    BY DEF AlertTypes, WorkerType
  <2> QED BY <2>1, WorkerFields DEF WorkerMoves
<1>3. ASSUME NEW a \in Alerts
      PROVE  /\ a \in Kinds => Granted(a)' = {v \in Processors : worker'[v].alert = a}
             /\ a \in Devices => Granted(a)' = {p \in Watchers : watch[p].alert = a}
  <2>1. /\ \A v \in Processors : worker'[v].alert \in Kinds \cup {NoAlert}
        /\ \A p \in Watchers : watch[p].alert \in Devices \cup {NoAlert}
    BY DEF AlertTypes, WorkerType, WatchType
  <2>2. NoAlert \notin Kinds /\ NoAlert \notin Devices /\ Kinds \cap Devices = {}
    BY AlertConstants DEF Alerts
  <2>3. a \in Kinds => Granted(a)' = {v \in Processors : worker'[v].alert = a}
    BY <1>1, <2>1, <2>2 DEF Granted, AlertsAtHand
  <2>4. a \in Devices => Granted(a)' = {p \in Watchers : watch[p].alert = a}
    BY <1>1, <2>1, <2>2 DEF Granted, AlertsAtHand
  <2> QED BY <2>3, <2>4
<1>4. NoAlert \notin Alerts /\ Kinds \cap Devices = {}  BY AlertConstants
<1>5. ASSUME NEW a \in Alerts, a \in Devices
      PROVE  Granted(a)' = Granted(a) /\ a # alert /\ a # worker[w].alert
  BY <1>2, <1>3, <1>4, <1>5, RaisedBy DEF Alerts
<1>6. ASSUME NEW a \in Alerts, a \in Kinds
      PROVE  /\ Granted(a)' = {v \in Processors : worker'[v].alert = a}
             /\ Granted(a) = {v \in Processors : worker[v].alert = a}
  BY <1>3, <1>6, RaisedBy
<1>7. ASSUME NEW a \in Alerts, a \in Kinds
      PROVE  /\ a # alert /\ a # worker[w].alert => Granted(a)' = Granted(a)
             /\ alert = worker[w].alert => Granted(a)' = Granted(a)
             /\ a = alert /\ worker[w].alert = NoAlert => Granted(a)' = Granted(a) \cup {w}
             /\ a = worker[w].alert /\ alert = NoAlert =>
                  w \in Granted(a) /\ Granted(a)' = Granted(a) \ {w}
  <2>1. a # NoAlert  BY <1>4
  <2>2. \A v \in Processors \ {w} : worker'[v].alert = worker[v].alert  BY <1>2
  <2>3. ASSUME a # alert, a # worker[w].alert PROVE Granted(a)' = Granted(a)
    <3>1. \A v \in Processors : worker'[v].alert = a <=> worker[v].alert = a
      BY <1>2, <2>2, <2>3
    <3> QED BY <1>6, <1>7, <3>1
  <2>4. ASSUME alert = worker[w].alert PROVE Granted(a)' = Granted(a)
    <3>1. \A v \in Processors : worker'[v].alert = worker[v].alert  BY <1>2, <2>2, <2>4
    <3> QED BY <1>6, <1>7, <3>1
  <2>5. ASSUME a = alert, worker[w].alert = NoAlert PROVE Granted(a)' = Granted(a) \cup {w}
    BY <1>2, <1>6, <1>7, <2>2, <2>5
  <2>6. ASSUME a = worker[w].alert, alert = NoAlert
        PROVE  w \in Granted(a) /\ Granted(a)' = Granted(a) \ {w}
    BY <1>2, <1>6, <1>7, <2>1, <2>2, <2>6
  <2> QED BY <2>3, <2>4, <2>5, <2>6
<1> QED BY <1>1, <1>5, <1>7 DEF Alerts

\* What holds of the alerts in every reachable state.
AlertsHold == AlertTypes /\ AlertsAtHand /\ \A a \in Alerts : WindowHolds(a)

\* A step of a worker that has no alert at hand, or keeps it.
LEMMA WorkerQuiet ==
  ASSUME AlertsHold, AlertTypes', NEW w \in Processors,
         NEW step, NEW reading, NEW todo, NEW alert,
         WorkerMoves(w, step, reading, todo, alert), step = "notify" <=> alert # NoAlert,
         alert = worker[w].alert, UNCHANGED <<watch, hits, told, unsure>>
  PROVE  AlertsHold'
<1>1. AlertsAtHand' /\ \A a \in Alerts : Granted(a)' = Granted(a)
  BY WorkerRaises DEF AlertsHold
<1>2. ASSUME NEW a \in Alerts PROVE WindowHolds(a)'
  BY <1>1, WindowKept DEF AlertsHold
<1> QED BY <1>1, <1>2 DEF AlertsHold

\* Faults are counted up to their bound.
LEMMA FaultCounted == ASSUME AlertTypes, Fault PROVE faults' \in 0..MaxFaults
BY AlertConstants DEF AlertTypes, Fault

\* A worker has an alert at hand only while it is to notify of it.
LEMMA AtHand ==
  ASSUME AlertsHold, NEW w \in Processors
  PROVE  worker[w].step = "notify" <=> worker[w].alert # NoAlert
BY DEF AlertsHold, AlertsAtHand

\* A step of worker w keeps what holds of the windows, action by action.
LEMMA WorkAlerts ==
  ASSUME AlertsHold, ReadingsHold, NEW w \in Processors,
         Work(w) \/ AttemptFails(w) \/ LoseLock(w) \/ WorkerDies(w)
  PROVE  AlertsHold'
<1> USE DEF jobVars, histVars
<1>p. PICK r \in Arrivals : worker[w].reading = r  BY WorkerFields DEF AlertsHold
<1>0. /\ AlertTypes /\ worker[w].reading = r /\ JobHeld(r)
      /\ worker[w].step \in WorkerSteps /\ worker[w].alert \in Kinds \cup {NoAlert}
      /\ worker[w].todo \in SUBSET Kinds
      /\ worker[w].step = "notify" <=> worker[w].alert # NoAlert
      /\ worker[w].alert # NoAlert => worker[w].alert \in Alerts
      /\ worker[w] \in WorkerType /\ Resting.reading \in Arrivals
      /\ \A s \in SUBSET Kinds : AfterAlert(s) \in {"debounce", "stamp"}
  BY <1>p, WorkerFields, AtHand, AlertConstants
     DEF AlertsHold, ReadingsHold, Alerts, AfterAlert, Resting
<1>1. ASSUME NEW q \in Arrivals, Take(w, q) PROVE AlertsHold'
  <2>1. /\ WorkerMoves(w, "load", q, worker[w].todo, worker[w].alert)
        /\ JobMoves(q, "active", w, job[q].attempts, job[q].stalls)
    BY <1>0, <1>1, Taking
  <2>2. /\ worker[w].step = "idle"
        /\ UNCHANGED <<stamped, watch, silent, hits, faults, emits, retried, told, unsure>>
    BY <1>1 DEF Take
  <2>3. AlertTypes'  BY <1>0, <2>1, <2>2 DEF AlertTypes, WorkerMoves, JobMoves
  <2>4. "load" = "notify" <=> worker[w].alert # NoAlert  BY <1>0, <2>2
  <2> QED BY <2>1, <2>2, <2>3, <2>4, WorkerQuiet
<1>2. CASE Load(w)
  <2> DEFINE step == IF WasStamped(worker[w].reading) THEN "report" ELSE "emit"
  <2>1. /\ worker[w].step = "load" /\ Goto(w, step)
        /\ UNCHANGED <<job, stamped, watch, silent, hits, faults, emits, retried, told, unsure>>
    BY <1>2 DEF Load
  <2>2. step \in WorkerSteps /\ step # "notify"  BY DEF WorkerSteps
  <2> HIDE DEF step
  <2>3. WorkerMoves(w, step, worker[w].reading, worker[w].todo, worker[w].alert)
    BY <1>0, <2>1, <2>2, GoingTo
  <2>4. AlertTypes'  BY <1>0, <2>1, <2>3 DEF AlertTypes, WorkerMoves
  <2>5. step = "notify" <=> worker[w].alert # NoAlert  BY <1>0, <2>1, <2>2
  <2> QED BY <2>1, <2>3, <2>4, <2>5, WorkerQuiet
<1>3. CASE Emit(w)
  <2> DEFINE step == AfterAlert(BreachesOf[r])
  <2>1. /\ worker[w].step = "emit" /\ emits' = [emits EXCEPT ![r] = UpToTwo(@ + 1)]
        /\ worker' = [worker EXCEPT ![w].step = step, ![w].todo = BreachesOf[r]]
        /\ UNCHANGED <<job, stamped, watch, silent, hits, faults, retried, told, unsure>>
    BY <1>0, <1>3 DEF Emit
  <2>2. step \in WorkerSteps /\ step # "notify" /\ BreachesOf[r] \in SUBSET Kinds
    BY AlertConstants DEF WorkerSteps, AfterAlert
  <2> HIDE DEF step
  <2>3. WorkerMoves(w, step, r, BreachesOf[r], worker[w].alert)
    <3>1. worker' = [worker EXCEPT ![w].step = step, ![w].reading = r, ![w].todo = BreachesOf[r],
                                   ![w].alert = worker[w].alert]
      BY <1>0, <2>1 DEF WorkerType, AlertTypes
    <3> QED BY <1>0, <2>2, <3>1, Moving
  <2>4. emits' \in [Arrivals -> 0..2]
    <3>1. UpToTwo(emits[r] + 1) \in 0..2  BY <1>0 DEF AlertTypes, UpToTwo
    <3> QED BY <1>0, <2>1, <3>1 DEF AlertTypes
  <2>5. AlertTypes'  BY <1>0, <2>1, <2>3, <2>4 DEF AlertTypes, WorkerMoves
  <2>6. step = "notify" <=> worker[w].alert # NoAlert  BY <1>0, <2>1, <2>2
  <2> QED BY <2>1, <2>3, <2>5, <2>6, WorkerQuiet
<1>4. CASE DebounceBreach(w)
  <2>1. /\ worker[w].step = "debounce" /\ worker[w].alert = NoAlert
        /\ UNCHANGED <<job, stamped, watch, silent, emits, retried, told>>
    BY <1>0, <1>4 DEF DebounceBreach
  <2> DEFINE Pass(a) == worker' = [worker EXCEPT ![w].step = "notify",
                                     ![w].todo = worker[w].todo \ {a}, ![w].alert = a]
  <2>2. ASSUME NEW a \in Kinds, Pass(a)
        PROVE  WorkerMoves(w, "notify", r, worker[w].todo \ {a}, a)
    <3>1. worker' = [worker EXCEPT ![w].step = "notify", ![w].reading = r,
                                   ![w].todo = worker[w].todo \ {a}, ![w].alert = a]
      BY <1>0, <2>2 DEF WorkerType, AlertTypes
    <3> QED BY <1>0, <3>1, Moving DEF WorkerSteps
  <2>3. ASSUME NEW a \in Kinds, hits' = [hits EXCEPT ![a] = UpToOne(@ + 1)]
        PROVE  /\ hits' \in [Alerts -> 0..1] /\ hits'[a] = UpToOne(hits[a] + 1)
               /\ \A b \in Alerts \ {a} : hits'[b] = hits[b]
    <3>1. a \in Alerts /\ UpToOne(hits[a] + 1) \in 0..1
      BY <1>0 DEF Alerts, AlertTypes, UpToOne
    <3> QED BY <1>0, <2>3, <3>1 DEF AlertTypes
  <2>4. ASSUME NEW a \in Kinds, ~Suppressed(hits[a]), Pass(a),
               hits' = [hits EXCEPT ![a] = UpToOne(@ + 1)], UNCHANGED <<faults, unsure>>
        PROVE  AlertsHold'
    <3>1. WorkerMoves(w, "notify", r, worker[w].todo \ {a}, a)  BY <2>2, <2>4
    <3>2. AlertTypes'  BY <1>0, <2>1, <2>3, <2>4, <3>1 DEF AlertTypes, WorkerMoves
    <3>3. a \in Alerts /\ NoAlert \notin Alerts  BY AlertConstants DEF Alerts
    <3>4. /\ AlertsAtHand' /\ Granted(a)' = Granted(a) \cup {w}
          /\ \A b \in Alerts \ {a} : Granted(b)' = Granted(b)
      BY <1>0, <2>1, <3>1, <3>2, <3>3, WorkerRaises DEF AlertsHold
    <3>5. WindowHolds(a)'
      BY <1>0, <2>1, <2>3, <2>4, <3>3, <3>4, WindowPasses DEF AlertsHold
    <3>6. ASSUME NEW b \in Alerts \ {a} PROVE WindowHolds(b)'
      BY <2>1, <2>3, <2>4, <3>4, WindowKept DEF AlertsHold
    <3> QED BY <3>2, <3>4, <3>5, <3>6 DEF AlertsHold
  <2>5. ASSUME NEW a \in Kinds, Suppressed(hits[a]),
               worker' = [worker EXCEPT ![w].step = AfterAlert(worker[w].todo \ {a}),
                                        ![w].todo = worker[w].todo \ {a}],
               hits' = [hits EXCEPT ![a] = UpToOne(@ + 1)], UNCHANGED <<faults, unsure>>
        PROVE  AlertsHold'
    <3> DEFINE step == AfterAlert(worker[w].todo \ {a})
    <3>0. step \in {"debounce", "stamp"} /\ worker[w].todo \ {a} \in SUBSET Kinds  BY <1>0
    <3>1. WorkerMoves(w, step, r, worker[w].todo \ {a}, NoAlert)
      <4>1. worker' = [worker EXCEPT ![w].step = step, ![w].reading = r,
                         ![w].todo = worker[w].todo \ {a}, ![w].alert = NoAlert]
        BY <1>0, <2>1, <2>5 DEF WorkerType, AlertTypes
      <4> HIDE DEF step
      <4> QED BY <1>0, <3>0, <4>1, Moving DEF WorkerSteps
    <3> HIDE DEF step
    <3>2. AlertTypes'  BY <1>0, <2>1, <2>3, <2>5, <3>1 DEF AlertTypes, WorkerMoves
    <3>3. a \in Alerts  BY DEF Alerts
    <3>4. AlertsAtHand' /\ \A b \in Alerts : Granted(b)' = Granted(b)
      BY <1>0, <2>1, <3>0, <3>1, <3>2, WorkerRaises DEF AlertsHold
    <3>5. WindowHolds(a)'
      BY <1>0, <2>1, <2>3, <2>5, <3>3, <3>4, WindowSkips DEF AlertsHold
    <3>6. ASSUME NEW b \in Alerts \ {a} PROVE WindowHolds(b)'
      BY <2>1, <2>3, <2>5, <3>4, WindowKept DEF AlertsHold
    <3> QED BY <3>2, <3>4, <3>5, <3>6 DEF AlertsHold
  <2>6. ASSUME NEW a \in Kinds, Pass(a), Fault, unsure' = unsure \cup {a}, UNCHANGED hits
        PROVE  AlertsHold'
    <3>1. WorkerMoves(w, "notify", r, worker[w].todo \ {a}, a)  BY <2>2, <2>6
    <3>2. AlertTypes'
      BY <1>0, <2>1, <2>6, <3>1, FaultCounted DEF AlertTypes, WorkerMoves, Alerts
    <3>3. a \in Alerts /\ NoAlert \notin Alerts  BY AlertConstants DEF Alerts
    <3>4. AlertsAtHand' /\ \A b \in Alerts \ {a} : Granted(b)' = Granted(b)
      BY <1>0, <2>1, <3>1, <3>2, <3>3, WorkerRaises DEF AlertsHold
    <3>5. WindowHolds(a)'  BY <2>6 DEF WindowHolds
    <3>6. ASSUME NEW b \in Alerts \ {a} PROVE WindowHolds(b)'
      BY <2>1, <2>6, <3>4, WindowKept DEF AlertsHold
    <3> QED BY <3>2, <3>4, <3>5, <3>6 DEF AlertsHold
  <2>7. PICK a \in worker[w].todo :
           \/ /\ ~Suppressed(hits[a])
              /\ worker' = [worker EXCEPT ![w].step = "notify",
                                          ![w].todo = worker[w].todo \ {a}, ![w].alert = a]
              /\ hits' = [hits EXCEPT ![a] = UpToOne(@ + 1)] /\ UNCHANGED <<faults, unsure>>
           \/ /\ Suppressed(hits[a])
              /\ worker' = [worker EXCEPT ![w].step = AfterAlert(worker[w].todo \ {a}),
                                          ![w].todo = worker[w].todo \ {a}]
              /\ hits' = [hits EXCEPT ![a] = UpToOne(@ + 1)] /\ UNCHANGED <<faults, unsure>>
           \/ /\ worker' = [worker EXCEPT ![w].step = "notify",
                                          ![w].todo = worker[w].todo \ {a}, ![w].alert = a]
              /\ Fault /\ unsure' = unsure \cup {a} /\ UNCHANGED hits
    BY <1>4, BreachDebounced
  <2>8. a \in Kinds  BY <1>0, <2>7
  <2> QED BY <2>4, <2>5, <2>6, <2>7, <2>8
<1>5. CASE NotifyBreach(w)
  <2> DEFINE a == worker[w].alert
             step == AfterAlert(worker[w].todo)
  <2>1. /\ worker[w].step = "notify" /\ told' = [told EXCEPT ![a] = UpToTwo(@ + 1)]
        /\ worker' = [worker EXCEPT ![w].step = step, ![w].alert = NoAlert]
        /\ UNCHANGED <<job, stamped, watch, silent, hits, faults, emits, retried, unsure>>
    BY <1>5 DEF NotifyBreach, Notified
  <2>2. a \in Kinds /\ a \in Alerts /\ step \in {"debounce", "stamp"}
    BY <1>0, <2>1 DEF Alerts
  <2>3. WorkerMoves(w, step, r, worker[w].todo, NoAlert)
    <3>1. worker' = [worker EXCEPT ![w].step = step, ![w].reading = r,
                                   ![w].todo = worker[w].todo, ![w].alert = NoAlert]
      BY <1>0, <2>1 DEF WorkerType, AlertTypes
    <3> HIDE DEF step
    <3> QED BY <1>0, <2>2, <3>1, Moving DEF WorkerSteps
  <2>4. /\ told' \in [Alerts -> 0..2] /\ told'[a] = UpToTwo(told[a] + 1)
        /\ \A b \in Alerts \ {a} : told'[b] = told[b]
    <3>1. UpToTwo(told[a] + 1) \in 0..2  BY <1>0, <2>2 DEF AlertTypes, UpToTwo
    <3> QED BY <1>0, <2>1, <2>2, <3>1 DEF AlertTypes
  <2>5. AlertTypes'  BY <1>0, <2>1, <2>3, <2>4 DEF AlertTypes, WorkerMoves
  <2>6. step = "notify" <=> NoAlert # NoAlert  BY <2>2
  <2>7. AlertsAtHand' /\ \A b \in Alerts :
          /\ b # NoAlert /\ b # worker[w].alert => Granted(b)' = Granted(b)
          /\ b = worker[w].alert => w \in Granted(b) /\ Granted(b)' = Granted(b) \ {w}
    <3> HIDE DEF step
    <3> QED BY <1>0, <2>1, <2>3, <2>5, <2>6, WorkerRaises DEF AlertsHold
  <2>8. PICK b \in Alerts : b = a  BY <2>2
  <2>9. WindowHolds(b)'
    BY <1>0, <2>1, <2>4, <2>7, <2>8, WindowTold DEF AlertsHold
  <2>10. ASSUME NEW c \in Alerts, c # b PROVE WindowHolds(c)'
    <3>1. c # NoAlert  BY AlertConstants
    <3> QED BY <2>1, <2>4, <2>7, <2>8, <2>10, <3>1, WindowKept DEF AlertsHold
  <2> QED BY <2>5, <2>7, <2>9, <2>10 DEF AlertsHold
<1>6. CASE Stamp(w)
  <2>1. /\ worker[w].step = "stamp" /\ stamped' = stamped \cup {r} /\ Goto(w, "report")
        /\ UNCHANGED <<job, watch, silent, hits, faults, emits, retried, told, unsure>>
    BY <1>0, <1>6 DEF Stamp
  <2>2. WorkerMoves(w, "report", worker[w].reading, worker[w].todo, worker[w].alert)
    BY <1>0, <2>1, GoingTo DEF WorkerSteps
  <2>3. AlertTypes'  BY <1>0, <2>1, <2>2 DEF AlertTypes, WorkerMoves
  <2>4. "report" = "notify" <=> worker[w].alert # NoAlert  BY <1>0, <2>1
  <2> QED BY <2>1, <2>2, <2>3, <2>4, WorkerQuiet
<1>7. CASE Report(w)
  <2>1. /\ worker[w].step = "report" /\ Rest(w) /\ worker[w].alert = NoAlert
        /\ UNCHANGED <<stamped, watch, silent, hits, faults, emits, retried, told, unsure>>
    BY <1>0, <1>7 DEF Report
  <2>2. WorkerMoves(w, "idle", Resting.reading, {}, NoAlert)  BY <1>0, <2>1, GoingToRest
  <2>3. job' \in [Arrivals -> JobType]
    <3>1. CASE job' = job  BY <1>0, <3>1 DEF AlertTypes
    <3>2. CASE JobMoves(r, "done", NoWorker, job[r].attempts, job[r].stalls)
      BY <3>2 DEF JobMoves
    <3> QED BY <1>0, <1>7, <3>1, <3>2, Reporting
  <2>4. AlertTypes'  BY <1>0, <2>1, <2>2, <2>3 DEF AlertTypes, WorkerMoves
  <2> QED BY <2>1, <2>2, <2>4, WorkerQuiet
<1>8. CASE AttemptFails(w)
  <2>1. /\ worker[w].step \in {"load", "stamp"} /\ FailAttempt(w) /\ Fault
        /\ worker[w].alert = NoAlert /\ retried' \subseteq Arrivals
        /\ UNCHANGED <<stamped, watch, silent, hits, emits, told, unsure>>
    BY <1>0, <1>8 DEF AttemptFails, AlertTypes
  <2>2. WorkerMoves(w, "idle", Resting.reading, {}, NoAlert)  BY <1>0, <2>1, Failing
  <2>3. job' \in [Arrivals -> JobType]
    <3>1. CASE job[r].lock # w
      <4>1. job' = job  BY <1>0, <2>1, <3>1, Failing
      <4> QED BY <1>0, <4>1 DEF AlertTypes
    <3>2. CASE job[r].lock = w  BY <1>0, <2>1, <3>2, Failing DEF JobMoves
    <3> QED BY <3>1, <3>2
  <2>4. AlertTypes'  BY <1>0, <2>1, <2>2, <2>3, FaultCounted DEF AlertTypes, WorkerMoves
  <2> QED BY <2>1, <2>2, <2>4, WorkerQuiet
<1>9. CASE LoseLock(w)
  <2>1. /\ Stalled(r) /\ Fault /\ retried' \subseteq Arrivals
        /\ UNCHANGED <<stamped, worker, watch, silent, hits, emits, told, unsure>>
    BY <1>0, <1>9 DEF LoseLock, Unstamped, AlertTypes
  <2>2. job' \in [Arrivals -> JobType]  BY <1>0, <2>1, Stalling DEF JobMoves
  <2>3. AlertTypes'  BY <1>0, <2>1, <2>2, FaultCounted DEF AlertTypes
  <2>4. AlertsAtHand' /\ \A a \in Alerts : Granted(a)' = Granted(a)
    BY <2>1 DEF AlertsHold, AlertsAtHand, Granted
  <2>5. ASSUME NEW a \in Alerts PROVE WindowHolds(a)'
    BY <2>1, <2>4, WindowKept DEF AlertsHold
  <2> QED BY <2>3, <2>4, <2>5 DEF AlertsHold
<1>10. CASE WorkerDies(w)
  <2>1. /\ Rest(w) /\ Fault /\ retried' \subseteq Arrivals
        /\ unsure' = unsure \cup ({worker[w].alert} \ {NoAlert})
        /\ UNCHANGED <<stamped, watch, silent, hits, emits, told>>
    BY <1>0, <1>10 DEF WorkerDies, Unstamped, AlertTypes
  <2>2. WorkerMoves(w, "idle", Resting.reading, {}, NoAlert)  BY <1>0, <2>1, GoingToRest
  <2>3. job' \in [Arrivals -> JobType]
    <3>1. CASE job[r].lock # w
      <4>1. job' = job  BY <1>0, <1>10, <3>1 DEF WorkerDies
      <4> QED BY <1>0, <4>1 DEF AlertTypes
    <3>2. CASE job[r].lock = w
      <4>1. Stalled(r)  BY <1>0, <1>10, <3>2 DEF WorkerDies
      <4> QED BY <1>0, <4>1, Stalling DEF JobMoves
    <3> QED BY <3>1, <3>2
  <2>4. unsure' \subseteq Alerts  BY <1>0, <2>1 DEF AlertTypes
  <2>5. AlertTypes'
    BY <1>0, <2>1, <2>2, <2>3, <2>4, FaultCounted DEF AlertTypes, WorkerMoves
  <2>6. AlertsAtHand' /\ \A a \in Alerts :
          a # NoAlert /\ a # worker[w].alert => Granted(a)' = Granted(a)
    BY <1>0, <2>1, <2>2, <2>5, WorkerRaises DEF AlertsHold
  <2>7. ASSUME NEW a \in Alerts PROVE WindowHolds(a)'
    <3>1. a # NoAlert  BY AlertConstants
    <3>2. CASE a = worker[w].alert  BY <2>1, <3>1, <3>2 DEF WindowHolds
    <3>3. CASE a # worker[w].alert
      BY <2>1, <2>6, <3>1, <3>3, WindowKept DEF AlertsHold
    <3> QED BY <3>2, <3>3
  <2> QED BY <2>5, <2>6, <2>7 DEF AlertsHold
<1> QED
  BY <1>1, <1>2, <1>3, <1>4, <1>5, <1>6, <1>7, <1>8, <1>9, <1>10 DEF Work, EmitByDefaults

-----------------------------------------------------------------------------
(* The cron, the devices and the windows                                   *)

\* Watcher p moves, and with it the silence at hand.
WatchMoves(p, step, todo, alert) ==
  watch' = [watch EXCEPT ![p] = [step |-> step, todo |-> todo, alert |-> alert]]

\* That adds p to those who may notify, takes it away or does neither.
LEMMA WatcherRaises ==
  ASSUME AlertsHold, NEW p \in Watchers, NEW step \in {"idle", "debounce", "notify"},
         NEW todo \in SUBSET Devices, NEW alert \in Devices \cup {NoAlert},
         WatchMoves(p, step, todo, alert), step = "notify" <=> alert # NoAlert,
         worker' = worker
  PROVE  /\ watch' \in [Watchers -> WatchType] /\ AlertsAtHand'
         /\ \A a \in Alerts :
              /\ a # alert /\ a # watch[p].alert => Granted(a)' = Granted(a)
              /\ alert = watch[p].alert => Granted(a)' = Granted(a)
              /\ a = alert /\ watch[p].alert = NoAlert => Granted(a)' = Granted(a) \cup {p}
              /\ a = watch[p].alert /\ alert = NoAlert =>
                   p \in Granted(a) /\ Granted(a)' = Granted(a) \ {p}
<1>0. AlertTypes /\ AlertsAtHand  BY DEF AlertsHold
<1>1. /\ watch' \in [Watchers -> WatchType] /\ watch'[p].step = step /\ watch'[p].alert = alert
      /\ \A q \in Watchers \ {p} : watch'[q] = watch[q]
  BY <1>0 DEF AlertTypes, WatchType, WatchMoves
<1>2. AlertsAtHand'  BY <1>0, <1>1 DEF AlertsAtHand
<1>3. /\ NoAlert \notin Kinds /\ NoAlert \notin Devices /\ Kinds \cap Devices = {}
      /\ NoAlert \notin Alerts
  BY AlertConstants DEF Alerts
<1>4. /\ \A v \in Processors : worker'[v].alert \in Kinds \cup {NoAlert}
      /\ \A q \in Watchers : watch'[q].alert \in Devices \cup {NoAlert}
  BY <1>0, <1>1, WorkerFields DEF WatchType
<1>5. ASSUME NEW a \in Alerts, a \in Kinds
      PROVE  Granted(a)' = Granted(a) /\ a # alert /\ a # watch[p].alert
  <2>1. Granted(a)' = {v \in Processors : worker'[v].alert = a}
    BY <1>2, <1>3, <1>4, <1>5 DEF Granted, AlertsAtHand
  <2>2. watch[p].alert \in Devices \cup {NoAlert}  BY <1>0 DEF AlertTypes, WatchType
  <2> QED BY <1>0, <1>3, <1>5, <2>1, <2>2, RaisedBy
<1>6. ASSUME NEW a \in Alerts, a \in Devices
      PROVE  /\ Granted(a)' = {q \in Watchers : watch'[q].alert = a}
             /\ Granted(a) = {q \in Watchers : watch[q].alert = a}
  <2>1. Granted(a)' = {q \in Watchers : watch'[q].alert = a}
    BY <1>2, <1>3, <1>4, <1>6 DEF Granted, AlertsAtHand
  <2> QED BY <1>0, <1>6, <2>1, RaisedBy
<1>7. ASSUME NEW a \in Alerts, a \in Devices
      PROVE  /\ a # alert /\ a # watch[p].alert => Granted(a)' = Granted(a)
             /\ alert = watch[p].alert => Granted(a)' = Granted(a)
             /\ a = alert /\ watch[p].alert = NoAlert => Granted(a)' = Granted(a) \cup {p}
             /\ a = watch[p].alert /\ alert = NoAlert =>
                  p \in Granted(a) /\ Granted(a)' = Granted(a) \ {p}
  <2>1. a # NoAlert  BY <1>3
  <2>2. \A q \in Watchers \ {p} : watch'[q].alert = watch[q].alert  BY <1>1
  <2>3. ASSUME a # alert, a # watch[p].alert PROVE Granted(a)' = Granted(a)
    <3>1. \A q \in Watchers : watch'[q].alert = a <=> watch[q].alert = a
      BY <1>1, <2>2, <2>3
    <3> QED BY <1>6, <1>7, <3>1
  <2>4. ASSUME alert = watch[p].alert PROVE Granted(a)' = Granted(a)
    <3>1. \A q \in Watchers : watch'[q].alert = watch[q].alert  BY <1>1, <2>2, <2>4
    <3> QED BY <1>6, <1>7, <3>1
  <2>5. ASSUME a = alert, watch[p].alert = NoAlert PROVE Granted(a)' = Granted(a) \cup {p}
    BY <1>1, <1>6, <1>7, <2>2, <2>5
  <2>6. ASSUME a = watch[p].alert, alert = NoAlert
        PROVE  p \in Granted(a) /\ Granted(a)' = Granted(a) \ {p}
    BY <1>1, <1>6, <1>7, <2>1, <2>2, <2>6
  <2> QED BY <2>3, <2>4, <2>5, <2>6
<1> QED BY <1>1, <1>2, <1>5, <1>7 DEF Alerts

\* The first case of it: p is let through for device d.
LEMMA WatcherPasses ==
  ASSUME AlertsHold, NEW p \in Watchers, NEW todo \in SUBSET Devices, NEW d \in Devices,
         WatchMoves(p, "notify", todo, d), watch[p].alert = NoAlert, worker' = worker
  PROVE  /\ watch' \in [Watchers -> WatchType] /\ AlertsAtHand'
         /\ Granted(d)' = Granted(d) \cup {p}
         /\ \A b \in Alerts \ {d} : Granted(b)' = Granted(b)
<1>1. /\ NoAlert \notin Alerts /\ d # NoAlert /\ d \in Alerts
      /\ d \in Devices \cup {NoAlert}
  BY AlertConstants DEF Alerts
<1>2. "notify" \in {"idle", "debounce", "notify"}  OBVIOUS
<1>3. "notify" = "notify" <=> d # NoAlert  BY <1>1
<1>4. /\ watch' \in [Watchers -> WatchType] /\ AlertsAtHand'
      /\ \A a \in Alerts :
           /\ a # d /\ a # watch[p].alert => Granted(a)' = Granted(a)
           /\ d = watch[p].alert => Granted(a)' = Granted(a)
           /\ a = d /\ watch[p].alert = NoAlert => Granted(a)' = Granted(a) \cup {p}
           /\ a = watch[p].alert /\ d = NoAlert =>
                p \in Granted(a) /\ Granted(a)' = Granted(a) \ {p}
  BY <1>1, <1>2, <1>3, WatcherRaises
<1> QED BY <1>1, <1>4

\* A step of watcher p keeps what holds of the windows, action by action.
LEMMA WatchAlerts ==
  ASSUME AlertsHold, NEW p \in Watchers,
         Watch(p) \/ QueryFails(p) \/ ReplicaDies(p)
  PROVE  AlertsHold'
<1> USE DEF jobVars, histVars
<1>0. /\ AlertTypes /\ watch[p].todo \in SUBSET Devices
      /\ watch[p].alert \in Devices \cup {NoAlert}
      /\ watch[p].alert # NoAlert => watch[p].alert \in Alerts
      /\ watch[p].step = "notify" <=> watch[p].alert # NoAlert
      /\ NoAlert \notin Alerts /\ NoAlert \notin Devices
      /\ \A s : NextDevice(s) \in {"idle", "debounce"}
  BY AlertConstants DEF AlertsHold, AlertTypes, AlertsAtHand, WatchType, Alerts, NextDevice
<1>1. Asleep = [step |-> "idle", todo |-> {}, alert |-> NoAlert]  BY DEF Asleep
<1>3. CASE FindSilent(p)
  <2>1. /\ watch[p].step = "idle" /\ WatchMoves(p, "debounce", silent, NoAlert)
        /\ UNCHANGED <<job, stamped, worker, silent, hits, faults, emits, retried, told, unsure>>
    BY <1>3 DEF FindSilent, WatchMoves
  <2>2. /\ silent \in SUBSET Devices /\ ("debounce" = "notify" <=> NoAlert # NoAlert)
        /\ watch[p].alert = NoAlert
    BY <1>0, <2>1 DEF AlertTypes
  <2>3. /\ watch' \in [Watchers -> WatchType] /\ AlertsAtHand'
        /\ \A a \in Alerts : Granted(a)' = Granted(a)
    BY <2>1, <2>2, WatcherRaises
  <2>4. AlertTypes'  BY <1>0, <2>1, <2>3 DEF AlertTypes
  <2>5. ASSUME NEW a \in Alerts PROVE WindowHolds(a)'
    BY <2>1, <2>3, WindowKept DEF AlertsHold
  <2> QED BY <2>3, <2>4, <2>5 DEF AlertsHold
<1>4. CASE DebounceSilence(p)
  <2>1. /\ watch[p].step = "debounce" /\ watch[p].alert = NoAlert
        /\ UNCHANGED <<job, stamped, worker, silent, emits, retried, told>>
    BY <1>0, <1>4 DEF DebounceSilence
  <2>2. PICK d \in watch[p].todo :
           LET rest == watch[p].todo \ {d} IN
           \/ /\ ~Suppressed(hits[d])
              /\ watch' = [watch EXCEPT ![p] = [step |-> "notify", todo |-> rest, alert |-> d]]
              /\ hits' = [hits EXCEPT ![d] = UpToOne(@ + 1)] /\ UNCHANGED <<faults, unsure>>
           \/ /\ Suppressed(hits[d])
              /\ watch' = [watch EXCEPT ![p] =
                             [step |-> NextDevice(rest), todo |-> rest, alert |-> NoAlert]]
              /\ hits' = [hits EXCEPT ![d] = UpToOne(@ + 1)] /\ UNCHANGED <<faults, unsure>>
           \/ /\ watch' = [watch EXCEPT ![p] = [step |-> "notify", todo |-> rest, alert |-> d]]
              /\ Fault /\ unsure' = unsure \cup {d} /\ UNCHANGED hits
    BY <1>4, SilenceDebounced
  <2> DEFINE rest == watch[p].todo \ {d}
  <2>3. d \in Devices /\ d \in Alerts /\ rest \in SUBSET Devices /\ d # NoAlert
    BY <1>0 DEF Alerts
  <2>4. ASSUME hits' = [hits EXCEPT ![d] = UpToOne(@ + 1)]
        PROVE  /\ hits' \in [Alerts -> 0..1] /\ hits'[d] = UpToOne(hits[d] + 1)
               /\ \A b \in Alerts \ {d} : hits'[b] = hits[b]
    <3>1. UpToOne(hits[d] + 1) \in 0..1  BY <1>0, <2>3 DEF AlertTypes, UpToOne
    <3> QED BY <1>0, <2>3, <2>4, <3>1 DEF AlertTypes
  <2>5. ASSUME ~Suppressed(hits[d]), WatchMoves(p, "notify", rest, d),
               hits' = [hits EXCEPT ![d] = UpToOne(@ + 1)], UNCHANGED <<faults, unsure>>
        PROVE  AlertsHold'
    <3>1. /\ watch' \in [Watchers -> WatchType] /\ AlertsAtHand'
          /\ Granted(d)' = Granted(d) \cup {p}
          /\ \A b \in Alerts \ {d} : Granted(b)' = Granted(b)
      BY <2>1, <2>3, <2>5, WatcherPasses
    <3>2. AlertTypes'  BY <1>0, <2>1, <2>4, <2>5, <3>1 DEF AlertTypes
    <3>3. WindowHolds(d)'
      BY <1>0, <2>1, <2>3, <2>4, <2>5, <3>1, WindowPasses DEF AlertsHold
    <3>4. ASSUME NEW b \in Alerts \ {d} PROVE WindowHolds(b)'
      BY <2>1, <2>4, <2>5, <3>1, WindowKept DEF AlertsHold
    <3> QED BY <3>1, <3>2, <3>3, <3>4 DEF AlertsHold
  <2>6. ASSUME Suppressed(hits[d]), WatchMoves(p, NextDevice(rest), rest, NoAlert),
               hits' = [hits EXCEPT ![d] = UpToOne(@ + 1)], UNCHANGED <<faults, unsure>>
        PROVE  AlertsHold'
    <3>0. NextDevice(rest) \in {"idle", "debounce"}  BY <1>0
    <3>1. /\ watch' \in [Watchers -> WatchType] /\ AlertsAtHand'
          /\ \A b \in Alerts : Granted(b)' = Granted(b)
      BY <1>0, <2>1, <2>3, <2>6, <3>0, WatcherRaises
    <3>2. AlertTypes'  BY <1>0, <2>1, <2>4, <2>6, <3>1 DEF AlertTypes
    <3>3. WindowHolds(d)'
      BY <1>0, <2>1, <2>3, <2>4, <2>6, <3>1, WindowSkips DEF AlertsHold
    <3>4. ASSUME NEW b \in Alerts \ {d} PROVE WindowHolds(b)'
      BY <2>1, <2>4, <2>6, <3>1, WindowKept DEF AlertsHold
    <3> QED BY <3>1, <3>2, <3>3, <3>4 DEF AlertsHold
  <2>7. ASSUME WatchMoves(p, "notify", rest, d), Fault, unsure' = unsure \cup {d},
               UNCHANGED hits
        PROVE  AlertsHold'
    <3>0. WatchMoves(p, "notify", rest, d)  BY <2>7
    <3>1. /\ watch' \in [Watchers -> WatchType] /\ AlertsAtHand'
          /\ Granted(d)' = Granted(d) \cup {p}
          /\ \A b \in Alerts \ {d} : Granted(b)' = Granted(b)
      BY <2>1, <2>3, <3>0, WatcherPasses
    <3>2. AlertTypes'  BY <1>0, <2>1, <2>3, <2>7, <3>1, FaultCounted DEF AlertTypes
    <3>3. WindowHolds(d)'  BY <2>7 DEF WindowHolds
    <3>4. ASSUME NEW b \in Alerts \ {d} PROVE WindowHolds(b)'
      BY <2>1, <2>7, <3>1, WindowKept DEF AlertsHold
    <3> QED BY <3>1, <3>2, <3>3, <3>4 DEF AlertsHold
  <2> QED BY <2>2, <2>5, <2>6, <2>7 DEF WatchMoves
<1>5. CASE NotifySilence(p)
  <2> DEFINE todo == watch[p].todo
  <2>1. PICK d \in Devices : watch[p].alert = d  BY <1>0, <1>5 DEF NotifySilence
  <2>2. /\ told' = [told EXCEPT ![d] = UpToTwo(@ + 1)]
        /\ WatchMoves(p, NextDevice(todo), todo, NoAlert)
        /\ UNCHANGED <<job, stamped, worker, silent, hits, faults, emits, retried, unsure>>
    BY <1>5, <2>1 DEF NotifySilence, Notified, WatchMoves
  <2>3. d \in Alerts /\ d # NoAlert /\ NextDevice(todo) \in {"idle", "debounce"}
    BY <1>0 DEF Alerts
  <2>4. /\ watch' \in [Watchers -> WatchType] /\ AlertsAtHand'
        /\ p \in Granted(d) /\ Granted(d)' = Granted(d) \ {p}
        /\ \A b \in Alerts \ {d} : Granted(b)' = Granted(b)
    BY <1>0, <2>1, <2>2, <2>3, WatcherRaises
  <2>5. /\ told' \in [Alerts -> 0..2] /\ told'[d] = UpToTwo(told[d] + 1)
        /\ \A b \in Alerts \ {d} : told'[b] = told[b]
    <3>1. UpToTwo(told[d] + 1) \in 0..2  BY <1>0, <2>3 DEF AlertTypes, UpToTwo
    <3> QED BY <1>0, <2>2, <2>3, <3>1 DEF AlertTypes
  <2>6. AlertTypes'  BY <1>0, <2>2, <2>4, <2>5 DEF AlertTypes
  <2>7. WindowHolds(d)'  BY <1>0, <2>2, <2>3, <2>4, <2>5, WindowTold DEF AlertsHold
  <2>8. ASSUME NEW b \in Alerts \ {d} PROVE WindowHolds(b)'
    BY <2>2, <2>4, <2>5, WindowKept DEF AlertsHold
  <2> QED BY <2>4, <2>6, <2>7, <2>8 DEF AlertsHold
<1>6. CASE QueryFails(p)
  <2>1. /\ watch[p].step = "idle" /\ WatchMoves(p, "idle", {}, NoAlert) /\ Fault
        /\ UNCHANGED <<job, stamped, worker, silent, hits, emits, retried, told, unsure>>
    BY <1>1, <1>6 DEF QueryFails, StopRunning, WatchMoves
  <2>2. {} \in SUBSET Devices /\ watch[p].alert = NoAlert  BY <1>0, <2>1
  <2>3. /\ watch' \in [Watchers -> WatchType] /\ AlertsAtHand'
        /\ \A a \in Alerts : Granted(a)' = Granted(a)
    BY <2>1, <2>2, WatcherRaises
  <2>4. AlertTypes'  BY <1>0, <2>1, <2>3, FaultCounted DEF AlertTypes
  <2>5. ASSUME NEW a \in Alerts PROVE WindowHolds(a)'
    BY <2>1, <2>3, WindowKept DEF AlertsHold
  <2> QED BY <2>3, <2>4, <2>5 DEF AlertsHold
<1>7. CASE ReplicaDies(p)
  <2>1. /\ WatchMoves(p, "idle", {}, NoAlert) /\ Fault
        /\ unsure' = unsure \cup ({watch[p].alert} \ {NoAlert})
        /\ UNCHANGED <<job, stamped, worker, silent, hits, emits, retried, told>>
    BY <1>1, <1>7 DEF ReplicaDies, WatchMoves
  <2>2. {} \in SUBSET Devices  OBVIOUS
  <2>3. /\ watch' \in [Watchers -> WatchType] /\ AlertsAtHand'
        /\ \A a \in Alerts : a # watch[p].alert => Granted(a)' = Granted(a)
    BY <1>0, <2>1, <2>2, WatcherRaises
  <2>4. unsure' \subseteq Alerts  BY <1>0, <2>1 DEF AlertTypes
  <2>5. AlertTypes'  BY <1>0, <2>1, <2>3, <2>4, FaultCounted DEF AlertTypes
  <2>6. ASSUME NEW a \in Alerts PROVE WindowHolds(a)'
    <3>1. CASE a = watch[p].alert  BY <1>0, <2>1, <3>1 DEF WindowHolds
    <3>2. CASE a # watch[p].alert  BY <2>1, <2>3, <3>2, WindowKept DEF AlertsHold
    <3> QED BY <3>1, <3>2
  <2> QED BY <2>3, <2>5, <2>6 DEF AlertsHold
<1> QED BY <1>3, <1>4, <1>5, <1>6, <1>7 DEF Watch

\* Readings that arrive or are lost, devices that fall silent, windows that end.
LEMMA OutsideAlerts ==
  ASSUME AlertsHold,
         \/ \E r \in Arrivals : Arrive(r) \/ ArriveFails(r)
         \/ \E d \in Devices : FallSilent(d)
         \/ \E a \in Alerts : WindowEnds(a)
  PROVE  AlertsHold'
<1> USE DEF jobVars, histVars
<1>0. AlertTypes /\ UNCHANGED <<worker, watch, stamped, emits, retried>>
  BY DEF AlertsHold, Arrive, ArriveFails, FallSilent, WindowEnds
<1>1. AlertsAtHand' /\ \A a \in Alerts : Granted(a)' = Granted(a)
  BY <1>0 DEF AlertsHold, AlertsAtHand, Granted
<1>2. ASSUME NEW r \in Arrivals, Arrive(r) \/ ArriveFails(r) PROVE AlertsHold'
  <2>1. job' \in [Arrivals -> JobType]
    <3>1. PICK state \in {"waiting", "stranded"} : job' = [job EXCEPT ![r].state = state]
      BY <1>2 DEF Arrive, ArriveFails
    <3> QED BY <1>0, <3>1 DEF AlertTypes, JobType
  <2>2. faults' \in 0..MaxFaults /\ silent' \subseteq Devices
    BY <1>0, <1>2, FaultCounted DEF Arrive, ArriveFails, AlertTypes
  <2>3. UNCHANGED <<hits, told, unsure>>  BY <1>2 DEF Arrive, ArriveFails
  <2>4. AlertTypes'  BY <1>0, <2>1, <2>2, <2>3 DEF AlertTypes
  <2>5. ASSUME NEW a \in Alerts PROVE WindowHolds(a)'
    BY <1>1, <2>3, WindowKept DEF AlertsHold
  <2> QED BY <1>1, <2>4, <2>5 DEF AlertsHold
<1>3. ASSUME NEW d \in Devices, FallSilent(d) PROVE AlertsHold'
  <2>1. silent' \subseteq Devices /\ UNCHANGED <<job, hits, told, unsure, faults>>
    BY <1>0, <1>3 DEF FallSilent, AlertTypes
  <2>2. AlertTypes'  BY <1>0, <2>1 DEF AlertTypes
  <2>3. ASSUME NEW a \in Alerts PROVE WindowHolds(a)'
    BY <1>1, <2>1, WindowKept DEF AlertsHold
  <2> QED BY <1>1, <2>2, <2>3 DEF AlertsHold
<1>4. ASSUME NEW a \in Alerts, WindowEnds(a) PROVE AlertsHold'
  <2>1. /\ hits' = [hits EXCEPT ![a] = 0] /\ told' = [told EXCEPT ![a] = 0]
        /\ unsure' = IF Granted(a) = {} THEN unsure \ {a} ELSE unsure \cup {a}
        /\ UNCHANGED <<job, silent, faults>>
    BY <1>4 DEF WindowEnds
  <2>2. AlertTypes'  BY <1>0, <2>1 DEF AlertTypes
  <2>3. hits'[a] = 0 /\ told'[a] = 0  BY <1>0, <2>1 DEF AlertTypes
  <2>4. WindowHolds(a)'  BY <1>1, <2>1, <2>3 DEF WindowHolds
  <2>5. ASSUME NEW b \in Alerts \ {a} PROVE WindowHolds(b)'
    <3>1. hits'[b] = hits[b] /\ told'[b] = told[b] /\ (b \in unsure => b \in unsure')
      BY <1>0, <2>1 DEF AlertTypes
    <3> QED BY <1>1, <3>1, WindowKept DEF AlertsHold
  <2> QED BY <1>1, <2>2, <2>4, <2>5 DEF AlertsHold
<1> QED BY <1>2, <1>3, <1>4

\* The same for what holds of the readings.
LEMMA OutsideReadings ==
  ASSUME AlertTypes, ReadingsHold,
         \/ \E r \in Arrivals : Arrive(r) \/ ArriveFails(r)
         \/ /\ UNCHANGED <<job, stamped, worker, emits, retried>>
  PROVE  ReadingsHold'
<1> USE DEF jobVars, histVars
<1>1. CASE UNCHANGED <<job, stamped, worker, emits, retried>>
  BY <1>1 DEF ReadingsHold, JobHeld, ReadingHolds, BroadcastHolds, BroadcastOnce, On
<1>2. ASSUME NEW r \in Arrivals, Arrive(r) \/ ArriveFails(r) PROVE ReadingsHold'
  <2>1. UNCHANGED <<stamped, worker, emits, retried>>  BY <1>2 DEF Arrive, ArriveFails
  <2>2. \A q \in Arrivals : On(q)' = On(q)  BY <2>1 DEF On
  <2>3. PICK state \in {"waiting", "stranded"} : job' = [job EXCEPT ![r].state = state]
    BY <1>2 DEF Arrive, ArriveFails
  <2>4. job[r].state = "absent" /\ job[r] \in JobType
    BY <1>2, JobFields DEF Arrive, ArriveFails
  <2>5. /\ job'[r].state = state /\ job'[r].lock = job[r].lock
        /\ job'[r].attempts = job[r].attempts
        /\ \A q \in Arrivals \ {r} : job'[q] = job[q]
    BY <2>3, <2>4 DEF AlertTypes, JobType
  <2>6. ASSUME NEW q \in Arrivals \ {r} PROVE JobHeld(q)' /\ ReadingHolds(q)'
    <3>1. JobHeld(q) /\ ReadingHolds(q) /\ job'[q] = job[q]  BY <2>5 DEF ReadingsHold
    <3>2. JobHeld(q)'  BY <2>1, <3>1 DEF JobHeld
    <3>3. ReadingHolds(q)'
      BY <2>1, <2>2, <3>1 DEF ReadingHolds, BroadcastHolds, BroadcastOnce
    <3> QED BY <3>2, <3>3
  <2>7. JobHeld(r) /\ ReadingHolds(r)  BY DEF ReadingsHold
  <2>8. JobHeld(r)'  BY <2>1, <2>4, <2>5, <2>7 DEF JobHeld
  <2>9. ReadingHolds(r)'
    BY <2>1, <2>2, <2>5, <2>7 DEF ReadingHolds, BroadcastHolds, BroadcastOnce
  <2> QED BY <2>6, <2>8, <2>9 DEF ReadingsHold
<1> QED BY <1>1, <1>2

-----------------------------------------------------------------------------
(* The theorems                                                            *)

\* The base case and the step of the induction.
LEMMA AlertsInitially == AlertsInit => AlertsIInv
<1> SUFFICES ASSUME AlertsInit PROVE AlertsIInv  OBVIOUS
<1>1. Resting \in WorkerType /\ Resting.step = "idle" /\ Resting.alert = NoAlert
  <2>1. (CHOOSE r \in Arrivals : TRUE) \in Arrivals  BY AlertConstants
  <2> QED BY <2>1 DEF Resting, WorkerType
<1>2. NoJob \in JobType /\ NoJob.state = "absent" /\ NoJob.lock = NoWorker /\ NoJob.attempts = 0
  BY AlertConstants DEF NoJob, JobType
<1>3. Asleep \in WatchType /\ Asleep.step = "idle" /\ Asleep.alert = NoAlert
  BY DEF Asleep, WatchType
<1>4. AlertTypes
  <2>1. 0 \in 0..MaxFaults  BY AlertConstants
  <2> QED BY <1>1, <1>2, <1>3, <2>1 DEF AlertsInit, AlertTypes
<1>5. AlertsAtHand  BY <1>1, <1>3 DEF AlertsInit, AlertsAtHand
<1>6. ASSUME NEW r \in Arrivals PROVE JobHeld(r) /\ ReadingHolds(r)
  <2>1. On(r) = {}  BY <1>1 DEF AlertsInit, On
  <2>2. JobHeld(r)  BY <1>2, AlertConstants DEF AlertsInit, JobHeld
  <2>3. emits[r] = 0 /\ stamped = {} /\ job[r].state = "absent"  BY <1>2 DEF AlertsInit
  <2> QED BY <2>1, <2>2, <2>3 DEF ReadingHolds, BroadcastHolds, BroadcastOnce
<1>7. ASSUME NEW a \in Alerts PROVE WindowHolds(a)
  <2>1. Granted(a) = {}  BY <1>1, <1>3 DEF AlertsInit, Granted
  <2> QED BY <2>1 DEF AlertsInit, WindowHolds
<1> QED BY <1>4, <1>5, <1>6, <1>7 DEF AlertsIInv

LEMMA AlertsStep == AlertsIInv /\ [AlertsNext]_alertVars => AlertsIInv'
<1> SUFFICES ASSUME AlertsIInv, [AlertsNext]_alertVars PROVE AlertsIInv'  OBVIOUS
<1> USE DEF jobVars, histVars
<1>0. AlertsIInv <=> AlertsHold /\ ReadingsHold  BY DEF AlertsIInv, AlertsHold, ReadingsHold
<1>1. AlertsHold /\ AlertTypes /\ ReadingsHold  BY <1>0 DEF AlertsHold
<1>2. AlertsHold' /\ ReadingsHold'
  <2>1. CASE UNCHANGED alertVars
    <3>1. UNCHANGED <<job, stamped, worker, watch, silent, hits, faults, emits, retried, told,
                      unsure>>
      BY <2>1 DEF alertVars
    <3>2. ReadingsHold'  BY <1>1, <3>1, OutsideReadings
    <3>3. AlertTypes' /\ AlertsAtHand' /\ \A a \in Alerts : Granted(a)' = Granted(a)
      BY <1>1, <3>1 DEF AlertsHold, AlertTypes, AlertsAtHand, Granted
    <3>4. ASSUME NEW a \in Alerts PROVE WindowHolds(a)'
      BY <1>1, <3>1, <3>3, WindowKept DEF AlertsHold
    <3> QED BY <3>2, <3>3, <3>4 DEF AlertsHold
  <2>2. ASSUME NEW r \in Arrivals, Arrive(r) \/ ArriveFails(r) PROVE AlertsHold' /\ ReadingsHold'
    BY <1>1, <2>2, OutsideAlerts, OutsideReadings
  <2>3. CASE (\E d \in Devices : FallSilent(d)) \/ (\E a \in Alerts : WindowEnds(a))
    <3>1. UNCHANGED <<job, stamped, worker, emits, retried>>
      BY <2>3 DEF FallSilent, WindowEnds
    <3> QED BY <1>1, <2>3, <3>1, OutsideAlerts, OutsideReadings
  <2>4. ASSUME NEW w \in Processors,
               Work(w) \/ AttemptFails(w) \/ LoseLock(w) \/ WorkerDies(w)
        PROVE  AlertsHold' /\ ReadingsHold'
    BY <1>1, <2>4, WorkAlerts, WorkReadings
  <2>5. ASSUME NEW p \in Watchers, Watch(p) \/ QueryFails(p) \/ ReplicaDies(p)
        PROVE  AlertsHold' /\ ReadingsHold'
    <3>1. UNCHANGED <<job, stamped, worker, emits, retried>>
      BY <2>5 DEF Watch, FindSilent, DebounceSilence, NotifySilence, QueryFails, ReplicaDies
    <3> QED BY <1>1, <2>5, <3>1, WatchAlerts, OutsideReadings
  <2> QED BY <2>1, <2>2, <2>3, <2>4, <2>5 DEF AlertsNext
<1> QED BY <1>2 DEF AlertsIInv, AlertsHold, ReadingsHold

\* The inductive invariant of the readings' way to the watchers: one worker at a time
\* is on a reading without a stamp until one of them is given up, and a window's
\* counter, its notifications and those about to be sent agree.
THEOREM AlertsInvariance == AlertsSpec => []AlertsIInv
BY AlertsInitially, AlertsStep, PTL DEF AlertsSpec

\* Every window in which an alert is raised has exactly one notification of it, for
\* any number of workers, replicas, readings and kinds of alert.
THEOREM WindowsNotifyOnce == AlertsSpec => []OneNotificationPerWindow
<1>1. AlertsIInv => OneNotificationPerWindow
  <2> SUFFICES ASSUME AlertsIInv, NEW a \in Alerts \ unsure, hits[a] > 0
               PROVE  told[a] + Cardinality(Granted(a)) = 1
    BY DEF OneNotificationPerWindow
  <2>1. \/ told[a] = 1 /\ Granted(a) = {}
        \/ told[a] = 0 /\ \E x : Granted(a) = {x}
    BY DEF AlertsIInv, WindowHolds
  <2>2. CASE told[a] = 1 /\ Granted(a) = {}  BY <2>2, FS_EmptySet
  <2>3. ASSUME told[a] = 0, NEW x, Granted(a) = {x}
        PROVE  told[a] + Cardinality(Granted(a)) = 1
    <3>1. Cardinality({x}) = 1  BY FS_Singleton
    <3> QED BY <2>3, <3>1
  <2> QED BY <2>1, <2>2, <2>3
<1> QED BY <1>1, AlertsInvariance, PTL

\* A reading is broadcast again only after a run that was given up before its stamp,
\* and a job is done only when its reading was broadcast and stamped.
THEOREM BroadcastsAgree == AlertsSpec => []BroadcastsConsistent
<1>1. AlertsIInv => BroadcastsConsistent
  <2> SUFFICES ASSUME AlertsIInv PROVE BroadcastsConsistent  OBVIOUS
  <2>1. /\ AlertTypes /\ AlertsAtHand /\ \A r \in Arrivals : JobHeld(r) /\ ReadingHolds(r)
    BY DEF AlertsIInv
  <2>2. AlertsTypeOK
    <3>1. ASSUME NEW r \in Arrivals
          PROVE  /\ job[r].state \in {"absent", "stranded", "waiting", "active", "done", "failed"}
                 /\ job[r].attempts \in 0..MaxAttempts /\ job[r].stalls \in 0..1
                 /\ job[r].state = "active" <=> job[r].lock # NoWorker
                 /\ job[r].state = "active" =>
                      worker[job[r].lock].reading = r /\ worker[job[r].lock].step # "idle"
      BY <2>1, JobFields DEF JobHeld, JobStates
    <3>2. /\ \A w \in Processors : worker[w].step = "notify" <=> worker[w].alert \in Kinds
          /\ \A p \in Watchers : watch[p].step = "notify" <=> watch[p].alert \in Devices
      <4>1. NoAlert \notin Kinds /\ NoAlert \notin Devices  BY AlertConstants DEF Alerts
      <4>2. \A p \in Watchers : watch[p].alert \in Devices \cup {NoAlert}
        BY <2>1 DEF AlertTypes, WatchType
      <4> QED BY <2>1, <4>1, <4>2, WorkerFields DEF AlertsAtHand
    <3> QED BY <2>1, <3>1, <3>2 DEF AlertsTypeOK, AlertTypes
  <2>3. RebroadcastNeedsLostStamp
    BY <2>1, JobFields DEF RebroadcastNeedsLostStamp, ReadingHolds, BroadcastOnce
  <2>4. DoneIsBroadcast  BY <2>1 DEF DoneIsBroadcast, ReadingHolds, BroadcastHolds
  <2> QED BY <2>2, <2>3, <2>4 DEF BroadcastsConsistent
<1> QED BY <1>1, AlertsInvariance, PTL
=============================================================================
