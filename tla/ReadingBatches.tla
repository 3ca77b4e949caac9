---------------------------- MODULE ReadingBatches ----------------------------
(***************************************************************************)
(* Reading batches: how signed sensor readings are collected into batches  *)
(* (SensorsService.ingestReading / resolveBatch), and how the oracle       *)
(* scheduler of every replica claims a closed batch, aggregates it and     *)
(* hands it to the oracle-submit queue (OracleSchedulerService,            *)
(* OracleService.triggerSubmission).  The rows live in PostgreSQL; every   *)
(* awaited statement or transaction is one atomic step, and the steps of   *)
(* requests, replicas and confirmation workers interleave freely.          *)
(*                                                                         *)
(* Environment: a database or Redis call may fail without effect ("error", *)
(* at most MaxErrors of them), a replica process may die between any two   *)
(* steps or be shut down (at most MaxStops times), an operator may call    *)
(* POST /oracle/trigger (at most MaxManual calls).                         *)
(* Left out: the numeric content of a reading, the projects' own life      *)
(* cycle (Projects are the ACTIVE ones), nonces (module OracleSubmissions).*)
(***************************************************************************)
EXTENDS Naturals, FiniteSets

CONSTANTS
  NumProjects,   \* ACTIVE projects, numbered by created_at
  MaxBatches,    \* bound: reading_batches rows per project
  Readings,      \* identities (device, timestamp, signature) of readings
  ProjectOf,     \* the project a reading's device belongs to
  Requests,      \* concurrent POST /sensors/readings handlers
  Replicas,      \* processes that run the scheduler
  Workers,       \* executions of the batch confirmation code
  MaxSubs,       \* bound: oracle_submissions rows
  MaxErrors,     \* bound: failing database or queue calls
  MaxStops,      \* bound: shutdowns and deaths of scheduler processes
  MaxManual,     \* bound: manual POST /oracle/trigger calls
  NoBatch, NoReading

Projects == 1..NumProjects
Batches  == Projects \X (1..MaxBatches)   \* <<project, creation order>>

ASSUME ConstantsAssumption ==
  /\ NumProjects \in Nat /\ MaxBatches \in Nat /\ MaxSubs \in Nat
  /\ MaxErrors \in Nat /\ MaxStops \in Nat /\ MaxManual \in Nat
  /\ IsFiniteSet(Readings) /\ IsFiniteSet(Requests)
  /\ ProjectOf \in [Readings -> Projects]
  /\ NoBatch \notin Batches
  /\ NoReading \notin Readings

VARIABLES
  status, readingCount, aged, \* reading_batches: status, reading_count, window closed
  batchOf,                    \* sensor_readings.batch_id; NoBatch: no such row
  fanout,                     \* readings put on the sensor-ingestion queue
  submission, lastNonce,      \* oracle_submissions, by nonce
  queued,                     \* submissions put on the oracle-submit queue
  reqPc, reqReading, reqBatch,              \* locals of ingestReading
  cyclePc, project, eligible, claim, covered, nonce, \* locals of runSubmissionCycle
  draining,                   \* OracleSchedulerService.shuttingDown
  workBatch, workCount,       \* the ReadingBatch entity a confirmation loaded
  errors, stops, manual

batchVars  == <<status, readingCount, aged>>
subVars    == <<submission, lastNonce, queued>>
reqVars    == <<reqPc, reqReading, reqBatch>>
cycleVars  == <<cyclePc, project, eligible, claim, covered, nonce>>
workVars   == <<workBatch, workCount>>
faultVars  == <<errors, stops, manual>>
vars == <<batchVars, batchOf, fanout, subVars, reqVars, cycleVars, draining,
          workVars, faultVars>>

-----------------------------------------------------------------------------
(* Rows *)

Pending(p)    == {b \in Batches : b[1] = p /\ status[b] = "pending"}
ReadingsIn(b) == {r \in Readings : batchOf[r] = b}
NoSubmission  == [batch |-> NoBatch, covers |-> {}, auto |-> FALSE]

\* The next reading_batches row of project p, in creation order.
IsFresh(p, b) ==
  /\ b[1] = p
  /\ status[b] = "absent"
  /\ \A k \in 1..MaxBatches : k < b[2] => status[<<p, k>>] # "absent"

\* What resolveBatch's SELECT sees.  Mutant: the status filter is lost.
ResolvableAnyStatus(p) == {b \in Batches : b[1] = p /\ status[b] # "absent"}
Resolvable(p) == Pending(p)

\* The transaction of ingestReading.  Mutant: the increment is lost.
StoreUncounted(r, b) ==
  batchOf' = [batchOf EXCEPT ![r] = b] /\ UNCHANGED readingCount
Store(r, b) ==
  /\ batchOf' = [batchOf EXCEPT ![r] = b]
  /\ readingCount' = [readingCount EXCEPT ![b] = @ + 1]

\* sensorIngestionQueue.add.
FanOut(r) == fanout' = fanout \cup {r}

\* findEligibleBatches: PENDING, non-empty, collection window closed.
\* Mutant: an off-by-one in the count.
EligibleFromTwo(p) == {b \in Pending(p) : readingCount[b] > 1 /\ aged[b]}
Eligible(p)        == {b \in Pending(p) : readingCount[b] > 0 /\ aged[b]}

\* The WHERE clause of the claim.  Mutants: by id only; any open batch.
ClaimableById(b)   == TRUE
ClaimableIfOpen(b) == status[b] # "confirmed"
Claimable(b)       == status[b] = "pending"

\* The WHERE clause of the release.  Mutants: by id only, or that of the claim.
ReleasableById(b)      == TRUE
ReleasableIfPending(b) == status[b] = "pending"
Releasable(b)          == status[b] = "submitted"

\* OracleService.triggerSubmission, the transaction: under the advisory lock
\* of the oracle address, MAX(nonce) + 1 and the PENDING submission row.
InsertSubmission(row) ==
  /\ lastNonce < MaxSubs
  /\ lastNonce' = lastNonce + 1
  /\ submission' = [submission EXCEPT ![lastNonce + 1] = row]

Init ==
  /\ status = [b \in Batches |-> "absent"]
  /\ readingCount = [b \in Batches |-> 0]
  /\ aged = [b \in Batches |-> FALSE]
  /\ batchOf = [r \in Readings |-> NoBatch]
  /\ fanout = {}
  /\ submission = [n \in 1..MaxSubs |-> NoSubmission]
  /\ lastNonce = 0
  /\ queued = {}
  /\ reqPc = [c \in Requests |-> "idle"]
  /\ reqReading = [c \in Requests |-> NoReading]
  /\ reqBatch = [c \in Requests |-> NoBatch]
  /\ cyclePc = [s \in Replicas |-> "idle"]
  /\ project = [s \in Replicas |-> 0]
  /\ eligible = [s \in Replicas |-> {}]
  /\ claim = [s \in Replicas |-> NoBatch]
  /\ covered = [s \in Replicas |-> {}]
  /\ nonce = [s \in Replicas |-> 0]
  /\ draining = [s \in Replicas |-> FALSE]
  /\ workBatch = [w \in Workers |-> NoBatch]
  /\ workCount = [w \in Workers |-> 0]
  /\ errors = 0 /\ stops = 0 /\ manual = 0

-----------------------------------------------------------------------------
(* The 15-minute collection window (BATCH_WINDOW_MS) of a batch closes.     *)

WindowCloses(b) ==
  /\ status[b] # "absent" /\ ~aged[b]
  /\ aged' = [aged EXCEPT ![b] = TRUE]
  /\ UNCHANGED <<status, readingCount, batchOf, fanout, subVars, reqVars,
                 cycleVars, draining, workVars, faultVars>>

-----------------------------------------------------------------------------
(* SensorsService.ingestReading                                            *)

EndRequest(c) ==
  /\ reqPc' = [reqPc EXCEPT ![c] = "idle"]
  /\ reqReading' = [reqReading EXCEPT ![c] = NoReading]
  /\ reqBatch' = [reqBatch EXCEPT ![c] = NoBatch]

\* A device posts a reading, or posts one again: timestamp, ranges and
\* signature have been validated.
BeginIngest(c, r) ==
  /\ reqPc[c] = "idle"
  /\ reqPc' = [reqPc EXCEPT ![c] = "close"]
  /\ reqReading' = [reqReading EXCEPT ![c] = r]
  /\ UNCHANGED <<batchVars, batchOf, fanout, subVars, reqBatch, cycleVars,
                 draining, workVars, faultVars>>

\* resolveBatch, first statement: close the project's stale PENDING batch.
CloseStale(c) ==
  /\ reqPc[c] = "close"
  /\ LET stale == {b \in Pending(ProjectOf[reqReading[c]]) : aged[b]}
     IN status' = [b \in Batches |-> IF b \in stale THEN "submitted" ELSE status[b]]
  /\ reqPc' = [reqPc EXCEPT ![c] = "insert"]
  /\ UNCHANGED <<readingCount, aged, batchOf, fanout, subVars, reqReading,
                 reqBatch, cycleVars, draining, workVars, faultVars>>

\* resolveBatch, second statement: INSERT ... ON CONFLICT DO NOTHING.
InsertPending(c) ==
  LET p == ProjectOf[reqReading[c]] IN
  /\ reqPc[c] = "insert"
  /\ \/ Pending(p) # {} /\ UNCHANGED status
     \/ /\ Pending(p) = {}
        /\ \E b \in Batches :
             IsFresh(p, b) /\ status' = [status EXCEPT ![b] = "pending"]
  /\ reqPc' = [reqPc EXCEPT ![c] = "select"]
  /\ UNCHANGED <<readingCount, aged, batchOf, fanout, subVars, reqReading,
                 reqBatch, cycleVars, draining, workVars, faultVars>>

\* resolveBatch, third statement: SELECT the PENDING batch.  When there is
\* none, rows[0].id raises a TypeError and the request fails.
SelectPending(c) ==
  LET p == ProjectOf[reqReading[c]] IN
  /\ reqPc[c] = "select"
  /\ \/ \E b \in Resolvable(p) :
          /\ reqBatch' = [reqBatch EXCEPT ![c] = b]
          /\ reqPc' = [reqPc EXCEPT ![c] = "save"]
          /\ UNCHANGED reqReading
     \/ Resolvable(p) = {} /\ EndRequest(c)
  /\ UNCHANGED <<batchVars, batchOf, fanout, subVars, cycleVars, draining,
                 workVars, faultVars>>

\* The transaction: insert the reading and increment the batch's counter,
\* whatever the batch's status is by now.  A duplicate (23505) rolls back and
\* answers with the existing row, without enqueueing it.
SaveReading(c) ==
  LET r == reqReading[c]
      b == reqBatch[c] IN
  /\ reqPc[c] = "save"
  /\ \/ /\ batchOf[r] = NoBatch
        /\ Store(r, b)
        /\ reqPc' = [reqPc EXCEPT ![c] = "enqueue"]
        /\ UNCHANGED <<reqReading, reqBatch>>
     \/ /\ batchOf[r] # NoBatch
        /\ EndRequest(c)
        /\ UNCHANGED <<batchOf, readingCount>>
  /\ UNCHANGED <<status, aged, fanout, subVars, cycleVars, draining, workVars,
                 faultVars>>

\* last_reading_at and sensorIngestionQueue.add.
EnqueueFanout(c) ==
  /\ reqPc[c] = "enqueue"
  /\ FanOut(reqReading[c])
  /\ EndRequest(c)
  /\ UNCHANGED <<batchVars, batchOf, subVars, cycleVars, draining, workVars,
                 faultVars>>

\* Any awaited call of the handler rejects: the request answers 500 and what
\* it committed so far stays.
IngestFails(c) ==
  /\ reqPc[c] # "idle" /\ errors < MaxErrors
  /\ errors' = errors + 1
  /\ EndRequest(c)
  /\ UNCHANGED <<batchVars, batchOf, fanout, subVars, cycleVars, draining,
                 workVars, stops, manual>>

-----------------------------------------------------------------------------
(* OracleSchedulerService.runSubmissionCycle                               *)

EndCycle(s) ==
  /\ cyclePc' = [cyclePc EXCEPT ![s] = "idle"]
  /\ project' = [project EXCEPT ![s] = 0]
  /\ eligible' = [eligible EXCEPT ![s] = {}]
  /\ claim' = [claim EXCEPT ![s] = NoBatch]
  /\ covered' = [covered EXCEPT ![s] = {}]
  /\ nonce' = [nonce EXCEPT ![s] = 0]

\* Back to the loop over the eligible batches of the current project.
NextBatch(s) ==
  /\ cyclePc' = [cyclePc EXCEPT ![s] = "claim"]
  /\ claim' = [claim EXCEPT ![s] = NoBatch]
  /\ covered' = [covered EXCEPT ![s] = {}]
  /\ nonce' = [nonce EXCEPT ![s] = 0]
  /\ UNCHANGED <<project, eligible>>

\* A cron tick.  A tick that finds the replica's previous cycle running, or
\* the replica shutting down, does nothing.
StartCycle(s) ==
  /\ cyclePc[s] = "idle" /\ ~draining[s] /\ NumProjects > 0
  /\ cyclePc' = [cyclePc EXCEPT ![s] = "find"]
  /\ project' = [project EXCEPT ![s] = 1]
  /\ UNCHANGED <<batchVars, batchOf, fanout, subVars, reqVars, eligible, claim,
                 covered, nonce, draining, workVars, faultVars>>

\* The query of submitProjectBatches.
FindEligible(s) ==
  /\ cyclePc[s] = "find"
  /\ eligible' = [eligible EXCEPT ![s] = Eligible(project[s])]
  /\ cyclePc' = [cyclePc EXCEPT ![s] = "claim"]
  /\ UNCHANGED <<batchVars, batchOf, fanout, subVars, reqVars, project, claim,
                 covered, nonce, draining, workVars, faultVars>>

\* The conditional UPDATE ... WHERE status = 'pending'; a batch someone else
\* flipped meanwhile is skipped.
ClaimBatch(s) ==
  /\ cyclePc[s] = "claim" /\ ~draining[s]
  /\ \E b \in eligible[s] :
       /\ eligible' = [eligible EXCEPT ![s] = @ \ {b}]
       /\ \/ /\ Claimable(b)
             /\ status' = [status EXCEPT ![b] = "submitted"]
             /\ claim' = [claim EXCEPT ![s] = b]
             /\ cyclePc' = [cyclePc EXCEPT ![s] = "aggregate"]
          \/ /\ ~Claimable(b)
             /\ UNCHANGED <<status, claim, cyclePc>>
  /\ UNCHANGED <<readingCount, aged, batchOf, fanout, subVars, reqVars, project,
                 covered, nonce, draining, workVars, faultVars>>

\* The project's batches are done, or the shutdown flag ends both loops.
FinishProject(s) ==
  /\ cyclePc[s] = "claim"
  /\ eligible[s] = {} \/ draining[s]
  /\ \/ /\ ~draining[s] /\ project[s] < NumProjects
        /\ project' = [project EXCEPT ![s] = @ + 1]
        /\ cyclePc' = [cyclePc EXCEPT ![s] = "find"]
        /\ UNCHANGED <<eligible, claim, covered, nonce>>
     \/ (draining[s] \/ project[s] = NumProjects) /\ EndCycle(s)
  /\ UNCHANGED <<batchVars, batchOf, fanout, subVars, reqVars, draining,
                 workVars, faultVars>>

\* aggregateReadingsForBatch: NotFoundException on an empty batch.
AggregateBatch(s) ==
  /\ cyclePc[s] = "aggregate"
  /\ covered' = [covered EXCEPT ![s] = ReadingsIn(claim[s])]
  /\ cyclePc' = [cyclePc EXCEPT ![s] =
       IF ReadingsIn(claim[s]) = {} THEN "release" ELSE "trigger"]
  /\ UNCHANGED <<batchVars, batchOf, fanout, subVars, reqVars, project,
                 eligible, claim, nonce, draining, workVars, faultVars>>

\* triggerSubmission up to the commit of its transaction.
TriggerSubmission(s) ==
  /\ cyclePc[s] = "trigger"
  /\ InsertSubmission([batch |-> claim[s], covers |-> covered[s], auto |-> TRUE])
  /\ nonce' = [nonce EXCEPT ![s] = lastNonce + 1]
  /\ cyclePc' = [cyclePc EXCEPT ![s] = "enqueue"]
  /\ UNCHANGED <<batchVars, batchOf, fanout, queued, reqVars, project, eligible,
                 claim, covered, draining, workVars, faultVars>>

\* triggerSubmission: oracleQueue.add; the batch is handed over.
EnqueueSubmission(s) ==
  /\ cyclePc[s] = "enqueue"
  /\ queued' = queued \cup {nonce[s]}
  /\ NextBatch(s)
  /\ UNCHANGED <<batchVars, batchOf, fanout, submission, lastNonce, reqVars,
                 draining, workVars, faultVars>>

\* One of the three awaited calls on the claimed batch rejects.
SubmissionFails(s) ==
  /\ cyclePc[s] \in {"aggregate", "trigger", "enqueue"} /\ errors < MaxErrors
  /\ errors' = errors + 1
  /\ cyclePc' = [cyclePc EXCEPT ![s] = "release"]
  /\ UNCHANGED <<batchVars, batchOf, fanout, subVars, reqVars, project,
                 eligible, claim, covered, nonce, draining, workVars, stops,
                 manual>>

\* The catch block: UPDATE ... SET pending WHERE status = 'submitted'.  It
\* violates the partial unique index when the project has opened a new batch
\* meanwhile; that error aborts the whole cycle.
ReleaseBatch(s) ==
  LET b == claim[s] IN
  /\ cyclePc[s] = "release"
  /\ \/ /\ Releasable(b) /\ Pending(b[1]) = {}
        /\ status' = [status EXCEPT ![b] = "pending"]
        /\ NextBatch(s)
     \/ /\ Releasable(b) /\ Pending(b[1]) # {}
        /\ EndCycle(s)
        /\ UNCHANGED status
     \/ /\ ~Releasable(b)
        /\ NextBatch(s)
        /\ UNCHANGED status
  /\ UNCHANGED <<readingCount, aged, batchOf, fanout, subVars, reqVars,
                 draining, workVars, faultVars>>

\* The catch of the whole cycle: the query of a project's batches, a claim or a
\* release rejects.  A batch whose release fails stays SUBMITTED.
CycleAborts(s) ==
  /\ cyclePc[s] \in {"find", "claim", "release"} /\ errors < MaxErrors
  /\ errors' = errors + 1
  /\ EndCycle(s)
  /\ UNCHANGED <<batchVars, batchOf, fanout, subVars, reqVars, draining,
                 workVars, stops, manual>>

\* onApplicationShutdown, and the pod that replaces the drained one.
Shutdown(s) ==
  /\ ~draining[s] /\ stops < MaxStops
  /\ stops' = stops + 1
  /\ draining' = [draining EXCEPT ![s] = TRUE]
  /\ UNCHANGED <<batchVars, batchOf, fanout, subVars, reqVars, cycleVars,
                 workVars, errors, manual>>

Restart(s) ==
  /\ draining[s] /\ cyclePc[s] = "idle"
  /\ draining' = [draining EXCEPT ![s] = FALSE]
  /\ UNCHANGED <<batchVars, batchOf, fanout, subVars, reqVars, cycleVars,
                 workVars, faultVars>>

\* The process dies and is started again; its locals are gone.
Crash(s) ==
  /\ cyclePc[s] # "idle" /\ stops < MaxStops
  /\ stops' = stops + 1
  /\ EndCycle(s)
  /\ draining' = [draining EXCEPT ![s] = FALSE]
  /\ UNCHANGED <<batchVars, batchOf, fanout, subVars, reqVars, workVars, errors,
                 manual>>

\* POST /oracle/trigger: the same triggerSubmission, on any batch id the
\* caller names, without claiming it.
ManualTrigger(b) ==
  /\ manual < MaxManual
  /\ status[b] # "absent"
  /\ InsertSubmission([batch |-> b, covers |-> {}, auto |-> FALSE])
  /\ queued' = queued \cup {lastNonce + 1}
  /\ manual' = manual + 1
  /\ UNCHANGED <<batchVars, batchOf, fanout, reqVars, cycleVars, draining,
                 workVars, errors, stops>>

-----------------------------------------------------------------------------
(* Confirmation, once the submission has landed on chain                   *)

\* findSubmittedBatch / findSubmittedBatchForSubmission: the oracle processor
\* or the reconciliation loads the batch of a submission as an entity.
LoadBatch(w) ==
  /\ workBatch[w] = NoBatch
  /\ \E n \in 1..lastNonce :
       LET b == submission[n].batch IN
       /\ status[b] = "submitted"
       /\ workBatch' = [workBatch EXCEPT ![w] = b]
       /\ workCount' = [workCount EXCEPT ![w] = readingCount[b]]
  /\ UNCHANGED <<batchVars, batchOf, fanout, subVars, reqVars, cycleVars,
                 draining, faultVars>>

\* batchRepo.save(batch): status CONFIRMED, and every other column of the
\* loaded entity that differs from the row, reading_count included.
ConfirmBatch(w) ==
  LET b == workBatch[w] IN
  /\ b # NoBatch
  /\ status' = [status EXCEPT ![b] = "confirmed"]
  /\ readingCount' = [readingCount EXCEPT ![b] = workCount[w]]
  /\ workBatch' = [workBatch EXCEPT ![w] = NoBatch]
  /\ workCount' = [workCount EXCEPT ![w] = 0]
  /\ UNCHANGED <<aged, batchOf, fanout, subVars, reqVars, cycleVars, draining,
                 faultVars>>

\* The save fails and the error is swallowed.
ConfirmFails(w) ==
  /\ workBatch[w] # NoBatch /\ errors < MaxErrors
  /\ errors' = errors + 1
  /\ workBatch' = [workBatch EXCEPT ![w] = NoBatch]
  /\ workCount' = [workCount EXCEPT ![w] = 0]
  /\ UNCHANGED <<batchVars, batchOf, fanout, subVars, reqVars, cycleVars,
                 draining, stops, manual>>

\* The indexer sees a mint (or reading_submitted) event of the project: one
\* UPDATE confirms all its PENDING and SUBMITTED batches.
IndexerConfirms(p) ==
  LET open == {b \in Batches : b[1] = p /\ status[b] \in {"pending", "submitted"}} IN
  /\ open # {}
  /\ status' = [b \in Batches |-> IF b \in open THEN "confirmed" ELSE status[b]]
  /\ UNCHANGED <<readingCount, aged, batchOf, fanout, subVars, reqVars,
                 cycleVars, draining, workVars, faultVars>>

-----------------------------------------------------------------------------
Ingest(c) ==
  \/ \E r \in Readings : BeginIngest(c, r)
  \/ CloseStale(c) \/ InsertPending(c) \/ SelectPending(c)
  \/ SaveReading(c) \/ EnqueueFanout(c) \/ IngestFails(c)

CycleStep(s) ==
  \/ StartCycle(s) \/ FindEligible(s) \/ ClaimBatch(s) \/ FinishProject(s)
  \/ AggregateBatch(s) \/ TriggerSubmission(s) \/ EnqueueSubmission(s)
  \/ ReleaseBatch(s)

Schedule(s) ==
  \/ CycleStep(s) \/ SubmissionFails(s) \/ CycleAborts(s)
  \/ Shutdown(s) \/ Restart(s) \/ Crash(s)

Confirm(w) == LoadBatch(w) \/ ConfirmBatch(w) \/ ConfirmFails(w)

Next ==
  \/ \E b \in Batches : WindowCloses(b) \/ ManualTrigger(b)
  \/ \E c \in Requests : Ingest(c)
  \/ \E s \in Replicas : Schedule(s)
  \/ \E w \in Workers : Confirm(w)
  \/ \E p \in Projects : IndexerConfirms(p)

Spec == Init /\ [][Next]_vars

\* Cron ticks keep coming and an awaited call settles; a drained pod is
\* replaced.  Devices, operators, the chain and the clock owe nothing, except
\* that a collection window does close.
Fairness ==
  /\ \A b \in Batches : WF_vars(WindowCloses(b))
  /\ \A s \in Replicas : WF_vars(CycleStep(s)) /\ WF_vars(Restart(s))

FairSpec == Spec /\ Fairness

-----------------------------------------------------------------------------
(* Properties                                                              *)

BatchStatus == {"absent", "pending", "submitted", "confirmed"}
Holding     == {"aggregate", "trigger", "enqueue", "release"}
InFlight(b) == {c \in Requests : reqPc[c] = "save" /\ reqBatch[c] = b}
AutoQueued(b) ==
  {n \in queued : submission[n].auto /\ submission[n].batch = b}

\* Types of all the state; every local names an existing row or none.
TypeOK ==
  /\ status \in [Batches -> BatchStatus]
  /\ readingCount \in [Batches -> Nat]
  /\ aged \in [Batches -> BOOLEAN]
  /\ batchOf \in [Readings -> Batches \cup {NoBatch}]
  /\ fanout \in SUBSET Readings
  /\ submission \in [1..MaxSubs -> [batch : Batches \cup {NoBatch},
                                    covers : SUBSET Readings, auto : BOOLEAN]]
  /\ lastNonce \in 0..MaxSubs
  /\ queued \in SUBSET (1..lastNonce)
  /\ reqPc \in [Requests -> {"idle", "close", "insert", "select", "save", "enqueue"}]
  /\ reqReading \in [Requests -> Readings \cup {NoReading}]
  /\ reqBatch \in [Requests -> Batches \cup {NoBatch}]
  /\ cyclePc \in [Replicas -> {"idle", "find", "claim"} \cup Holding]
  /\ project \in [Replicas -> 0..NumProjects]
  /\ eligible \in [Replicas -> SUBSET Batches]
  /\ claim \in [Replicas -> Batches \cup {NoBatch}]
  /\ covered \in [Replicas -> SUBSET Readings]
  /\ nonce \in [Replicas -> 0..MaxSubs]
  /\ draining \in [Replicas -> BOOLEAN]
  /\ workBatch \in [Workers -> Batches \cup {NoBatch}]
  /\ workCount \in [Workers -> Nat]
  /\ errors \in 0..MaxErrors /\ stops \in 0..MaxStops /\ manual \in 0..MaxManual
  /\ \A c \in Requests :
       /\ reqPc[c] # "idle" => reqReading[c] \in Readings
       /\ reqPc[c] \in {"save", "enqueue"} => reqBatch[c] \in Batches
  /\ \A s \in Replicas :
       /\ cyclePc[s] \in Holding => claim[s] \in Batches
       /\ cyclePc[s] # "idle" => project[s] \in Projects
       /\ cyclePc[s] = "enqueue" => nonce[s] \in 1..lastNonce
  /\ \A n \in 1..MaxSubs : n <= lastNonce <=> submission[n].batch \in Batches

\* While a batch is collected or processed its reading_count is the number of
\* readings that reference it: the insert and the increment of ingestReading
\* commit together, whoever flips the status around them.
CountExact ==
  \A b \in Batches : status[b] \in {"pending", "submitted"} =>
    readingCount[b] = Cardinality(ReadingsIn(b))

\* The conditional UPDATE of submitProjectBatches is a lock: no two replicas
\* ever work on the same batch, whatever fails, releases or dies around them.
ClaimExclusive ==
  \A s, t \in Replicas :
    cyclePc[s] \in Holding /\ cyclePc[t] \in Holding /\ claim[s] = claim[t] => s = t

\* A claimed batch always has a reading to aggregate, so the NotFoundException
\* branch of the scheduler ("released for retry") is never what a batch meets.
ClaimNotEmpty ==
  \A s \in Replicas : cyclePc[s] \in Holding => ReadingsIn(claim[s]) # {}

\* The scheduler hands a batch to the oracle-submit queue at most once, over
\* all replicas, releases and retries; a batch handed over is never reopened.
SingleHandOff ==
  \A b \in Batches :
    /\ Cardinality(AutoQueued(b)) <= 1
    /\ AutoQueued(b) # {} => status[b] \in {"submitted", "confirmed"}

\* When a batch is aggregated again after a release, the later submission row
\* covers at least what the earlier one did.
ResubmissionGrows ==
  \A m, n \in 1..lastNonce :
    m < n /\ submission[m].auto /\ submission[n].auto
          /\ submission[m].batch = submission[n].batch
      => submission[m].covers \subseteq submission[n].covers

\* What a handed-over submission misses of its batch is at most what the
\* requests in flight carried when the batch was claimed: a request that starts
\* later resolves another batch.
LatenessBounded ==
  \A n \in queued : submission[n].auto =>
    LET b == submission[n].batch IN
    Cardinality(ReadingsIn(b) \ submission[n].covers) + Cardinality(InFlight(b))
      <= Cardinality(Requests)

\* A CONFIRMED batch is final: no release, claim, close or stale entity save
\* takes it back.
ConfirmedIsFinal ==
  [][\A b \in Batches : status[b] = "confirmed" => status'[b] = "confirmed"]_vars

\* As long as no call failed, a stored reading is on the sensor-ingestion queue
\* or its request is about to put it there.
FanoutUnlessError ==
  errors = 0 => \A r \in Readings : batchOf[r] # NoBatch =>
    \/ r \in fanout
    \/ \E c \in Requests : reqPc[c] = "enqueue" /\ reqReading[c] = r

\* A non-empty batch does not stay PENDING for ever: a scheduler claims it, the
\* next reading closes it or the indexer confirms it.
OpenBatchLeaves ==
  \A b \in Batches :
    (status[b] = "pending" /\ readingCount[b] > 0) ~> (status[b] # "pending")

\* A batch that the scheduler has claimed is handed over or given back in the end,
\* up to one failing call, as long as no process dies and the project has not opened
\* another batch meanwhile (which makes the release fail).
Settled(b) == status[b] # "submitted" \/ AutoQueued(b) # {}
ClaimIsSettled ==
  \A b \in Batches : (\E s \in Replicas : claim[s] = b) ~>
    (\/ Settled(b) \/ stops > 0 \/ errors > 1
     \/ \E k \in 1..MaxBatches : k > b[2] /\ status[<<b[1], k>>] # "absent")
=============================================================================
