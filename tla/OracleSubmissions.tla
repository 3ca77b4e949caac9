-------------------------- MODULE OracleSubmissions --------------------------
(***************************************************************************)
(* Oracle submissions: how a row of oracle_submissions gets its nonce      *)
(* (OracleService.triggerSubmission), how the jobs of the oracle-submit    *)
(* queue bring its reading on chain (OracleProcessor.processSubmission),   *)
(* and how OracleService.reconcile and the indexer's reading_submitted     *)
(* handler repair rows behind the processors' backs.  One oracle address;  *)
(* rows are numbered in the order of created_at.  Every awaited call is a  *)
(* step of its own.                                                        *)
(*                                                                         *)
(* repo.save(entity) writes the columns in which the row differs from the  *)
(* entity, so it overwrites what others wrote since the entity was loaded. *)
(* The contract (not in src/) accepts the nonce after the last one it      *)
(* accepted.  A transaction may land after its sender got an error, or be  *)
(* dropped.  Calls to the chain may fail at any time; calls to PostgreSQL  *)
(* or Redis fail at most MaxErrors times, processes die at most MaxCrashes *)
(* times, and the contract is redeployed at most MaxResets times.          *)
(***************************************************************************)
EXTENDS Naturals, FiniteSets

CONSTANTS
  Projects,
  MaxSubs,      \* bound: rows of oracle_submissions
  Attempts,     \* attempts of a job (3 in triggerSubmission and reconcile)
  Unmappable,   \* rows whose readings_snapshot mapSnapshotToPayload refuses
  Workers,      \* processes that run processSubmission, concurrency 1 each
  Reconcilers,  \* processes that run reconcile
  Indexers,     \* processes that run the reading_submitted handler
  MaxErrors,    \* bound: failing database or queue calls
  MaxCrashes,   \* bound: deaths of a worker or a reconciler
  MaxResets,    \* bound: redeployments of the contract
  NoProject

Subs == 1..MaxSubs
Jobs == [sub : Subs, left : 1..Attempts, stalled : BOOLEAN]

ASSUME SubmissionConstants ==
  /\ MaxSubs \in Nat /\ Attempts \in Nat \ {0}
  /\ MaxErrors \in Nat /\ MaxCrashes \in Nat /\ MaxResets \in Nat
  /\ Unmappable \subseteq Subs
  /\ NoProject \notin Projects

VARIABLES
  project, row,               \* oracle_submissions
  unqueued,                   \* rows committed, their job not added yet
  waiting,                    \* the oracle-submit queue: how many of each job
  credited,                   \* rows whose reading batch is CONFIRMED
  chainNonce, flying, sent, landed, \* the contract and its transactions
  pc, job, held, seen,        \* locals of processSubmission
  recPc, recChain, recAgain, recRows, recNext, recRow, \* locals of reconcile
  idxPc, idxRow,              \* locals of onOracleReadingSubmitted
  errors, crashes, resets

rowVars  == <<project, row>>
chainVars == <<chainNonce, flying, sent, landed>>
workVars == <<pc, job, held, seen>>
recVars  == <<recPc, recChain, recAgain, recRows, recNext, recRow>>
idxVars  == <<idxPc, idxRow>>
faultVars == <<errors, crashes, resets>>
vars == <<rowVars, unqueued, waiting, credited, chainVars, workVars, recVars,
          idxVars, faultVars>>

-----------------------------------------------------------------------------
(* Rows, jobs and transactions                                             *)

NoJob  == [sub |-> 0, left |-> 0, stalled |-> FALSE]
NoRow(n) == [sub |-> n, status |-> "absent", nonce |-> 0, hash |-> "none"]

Rows      == {n \in Subs : row[n].status # "absent"}
Nonces    == {row[n].nonce : n \in Rows}
TopNonce  == {k \in Nonces \cup {0} : \A l \in Nonces : l <= k}  \* MAX(nonce), or 0
Landed(n) == \E tx \in landed : tx[1] = n

\* repo.save of an entity e (a copy of a row, changed), unless the unique
\* constraint on (project_id, oracle_address, nonce) refuses it.
Taken(e) ==
  \E m \in Rows \ {e.sub} : project[m] = project[e.sub] /\ row[m].nonce = e.nonce
Save(e) ==
  /\ ~Taken(e)
  /\ row' = [row EXCEPT ![e.sub] = e]
  /\ UNCHANGED project

AddJob(n) == waiting' = [waiting EXCEPT ![[sub |-> n, left |-> Attempts, stalled |-> FALSE]] = @ + 1]

\* The execution ends; the job is complete, or it has failed and Bull keeps
\* it for another attempt when there is one left.
EndJob(w) ==
  /\ pc' = [pc EXCEPT ![w] = "idle"]
  /\ job' = [job EXCEPT ![w] = NoJob]
  /\ held' = [held EXCEPT ![w] = NoRow(0)]
  /\ seen' = [seen EXCEPT ![w] = 0]

Retry(w) ==
  /\ waiting' = [j \in Jobs |->
       IF j = [job[w] EXCEPT !.left = @ - 1] THEN waiting[j] + 1 ELSE waiting[j]]
  /\ EndJob(w)

Init ==
  /\ project = [n \in Subs |-> NoProject]
  /\ row = [n \in Subs |-> NoRow(n)]
  /\ unqueued = {} /\ credited = {}
  /\ waiting = [j \in Jobs |-> 0]
  /\ chainNonce = 0 /\ flying = {} /\ sent = {} /\ landed = {}
  /\ pc = [w \in Workers |-> "idle"]
  /\ job = [w \in Workers |-> NoJob]
  /\ held = [w \in Workers |-> NoRow(0)]
  /\ seen = [w \in Workers |-> 0]
  /\ recPc = [r \in Reconcilers |-> "idle"]
  /\ recChain = [r \in Reconcilers |-> 0]
  /\ recAgain = [r \in Reconcilers |-> 0]
  /\ recRows = [r \in Reconcilers |-> {}]
  /\ recNext = [r \in Reconcilers |-> 0]
  /\ recRow = [r \in Reconcilers |-> NoRow(0)]
  /\ idxPc = [i \in Indexers |-> "idle"]
  /\ idxRow = [i \in Indexers |-> NoRow(0)]
  /\ errors = 0 /\ crashes = 0 /\ resets = 0

-----------------------------------------------------------------------------
(* OracleService.triggerSubmission                                         *)

TriggerSubmission(n, p) ==
  /\ n \notin Rows /\ \A m \in Subs : m < n => m \in Rows
  /\ project' = [project EXCEPT ![n] = p]
  /\ \E k \in TopNonce :
       row' = [row EXCEPT ![n] = [NoRow(n) EXCEPT !.status = "pending", !.nonce = k + 1]]
  /\ unqueued' = unqueued \cup {n}
  /\ UNCHANGED <<waiting, credited, chainVars, workVars, recVars, idxVars, faultVars>>

\* oracleQueue.add; jobs are taken in any order, because two callers may add
\* theirs in either order and retries are delayed.
Enqueue(n) ==
  /\ n \in unqueued
  /\ unqueued' = unqueued \ {n}
  /\ AddJob(n)
  /\ UNCHANGED <<rowVars, credited, chainVars, workVars, recVars, idxVars, faultVars>>

\* The call is rejected, or the process dies before it.
EnqueueFails(n) ==
  /\ n \in unqueued /\ errors < MaxErrors
  /\ errors' = errors + 1
  /\ unqueued' = unqueued \ {n}
  /\ UNCHANGED <<rowVars, waiting, credited, chainVars, workVars, recVars,
                 idxVars, crashes, resets>>

-----------------------------------------------------------------------------
(* OracleProcessor.processSubmission                                       *)

\* Take a job and load its row; a CONFIRMED row ends the job.
TakeJob(w) ==
  /\ pc[w] = "idle"
  /\ \E j \in Jobs :
       /\ waiting[j] > 0
       /\ waiting' = [waiting EXCEPT ![j] = @ - 1]
       /\ \/ row[j.sub].status = "confirmed" /\ UNCHANGED workVars
          \/ /\ row[j.sub].status # "confirmed"
             /\ job' = [job EXCEPT ![w] = j]
             /\ held' = [held EXCEPT ![w] = row[j.sub]]
             /\ pc' = [pc EXCEPT ![w] = "read"]
             /\ UNCHANGED seen
  /\ UNCHANGED <<rowVars, unqueued, credited, chainVars, recVars, idxVars, faultVars>>

\* submission.txHash || 'reconciled-on-chain'
ReconciledHash(e) == IF e.hash = "none" THEN "reconciled" ELSE e.hash

\* Mutant: a nonce behind the chain is re-sequenced, too.
AfterReadResequencing(k, c) ==
  CASE k = c + 1 -> "mark"
    [] k = c     -> "confirm"
    [] OTHER     -> "check"

\* getOracleNonce and the comparison of the row's nonce with it.
AfterRead(k, c) ==
  CASE k = c + 1 -> "mark"
    [] k = c     -> "confirm"
    [] k < c     -> "stale"
    [] OTHER     -> "check"

ReadChainNonce(w) ==
  /\ pc[w] = "read"
  /\ pc' = [pc EXCEPT ![w] = AfterRead(held[w].nonce, chainNonce)]
  /\ seen' = [seen EXCEPT ![w] = IF pc'[w] = "check" THEN chainNonce ELSE 0]
  /\ held' = [held EXCEPT ![w].hash =
       IF held[w].nonce = chainNonce THEN ReconciledHash(held[w]) ELSE @]
  /\ UNCHANGED <<rowVars, unqueued, waiting, credited, chainVars, job, recVars,
                 idxVars, faultVars>>

\* The nonce is ahead of the chain: is a younger submission CONFIRMED?
CheckNewer(w) ==
  LET newer == {m \in Rows : m > job[w].sub /\ row[m].status = "confirmed"} IN
  /\ pc[w] = "check"
  /\ \/ newer # {} /\ pc' = [pc EXCEPT ![w] = "stale"] /\ UNCHANGED held
     \/ /\ newer = {}
        /\ held' = [held EXCEPT ![w].nonce = seen[w] + 1]
        /\ pc' = [pc EXCEPT ![w] = "resequence"]
  /\ seen' = [seen EXCEPT ![w] = 0]
  /\ UNCHANGED <<rowVars, unqueued, waiting, credited, chainVars, job, recVars,
                 idxVars, faultVars>>

\* Persist the new nonce (the other columns as loaded) before it is used.
Resequence(w) ==
  /\ pc[w] = "resequence"
  /\ Save(held[w])
  /\ pc' = [pc EXCEPT ![w] = "mark"]
  /\ UNCHANGED <<unqueued, waiting, credited, chainVars, job, held, seen,
                 recVars, idxVars, faultVars>>

\* A snapshot without numeric fields: FAILED, and the attempt fails.
MappingFails(w) ==
  /\ pc[w] = "mark" /\ job[w].sub \in Unmappable
  /\ Save([held[w] EXCEPT !.status = "failed"])
  /\ Retry(w)
  /\ UNCHANGED <<unqueued, credited, chainVars, recVars, idxVars, faultVars>>

MarkSubmitted(w) ==
  /\ pc[w] = "mark" /\ job[w].sub \notin Unmappable
  /\ Save([held[w] EXCEPT !.status = "submitted"])
  /\ pc' = [pc EXCEPT ![w] = "send"]
  /\ UNCHANGED <<unqueued, waiting, credited, chainVars, job, held, seen,
                 recVars, idxVars, faultVars>>

\* submitReading: the simulation refuses a nonce that is not the next one.
Send(w) ==
  LET tx == <<job[w].sub, held[w].nonce>> IN
  /\ pc[w] = "send" /\ held[w].nonce = chainNonce + 1
  /\ flying' = flying \cup {tx}
  /\ sent' = sent \cup {tx}
  /\ pc' = [pc EXCEPT ![w] = "poll"]
  /\ UNCHANGED <<rowVars, unqueued, waiting, credited, chainNonce, landed, job,
                 held, seen, recVars, idxVars, faultVars>>

\* Mutant: NOT_FOUND counts as success.
PollNotFound(w) ==
  /\ pc[w] = "poll"
  /\ pc' = [pc EXCEPT ![w] = "confirm"]
  /\ held' = [held EXCEPT ![w].hash = "tx"]
  /\ UNCHANGED <<rowVars, unqueued, waiting, credited, chainVars, job, seen,
                 recVars, idxVars, faultVars>>

\* sendTxWithHash sees SUCCESS.
PollSucceeds(w) ==
  /\ pc[w] = "poll" /\ <<job[w].sub, held[w].nonce>> \in landed
  /\ pc' = [pc EXCEPT ![w] = "confirm"]
  /\ held' = [held EXCEPT ![w].hash = "tx"]
  /\ UNCHANGED <<rowVars, unqueued, waiting, credited, chainVars, job, seen,
                 recVars, idxVars, faultVars>>

\* submitReading throws: refused, dropped, timed out or an RPC error, whatever
\* becomes of the transaction.
ChainFails(w) ==
  /\ pc[w] \in {"send", "poll"}
  /\ pc' = [pc EXCEPT ![w] = "fail"]
  /\ UNCHANGED <<rowVars, unqueued, waiting, credited, chainVars, job, held,
                 seen, recVars, idxVars, faultVars>>

\* Mutants: a failed send advances the counter, or is logged and not saved.
SaveFailedAdvancing(w) ==
  /\ pc[w] = "fail"
  /\ \E k \in TopNonce : Save([held[w] EXCEPT !.status = "failed", !.nonce = k + 1])
  /\ Retry(w)
  /\ UNCHANGED <<unqueued, credited, chainVars, recVars, idxVars, faultVars>>
SaveFailedNot(w) ==
  /\ pc[w] = "fail"
  /\ Retry(w)
  /\ UNCHANGED <<rowVars, unqueued, credited, chainVars, recVars, idxVars, faultVars>>

SaveFailed(w) ==
  /\ pc[w] = "fail"
  /\ Save([held[w] EXCEPT !.status = "failed"])
  /\ Retry(w)
  /\ UNCHANGED <<unqueued, credited, chainVars, recVars, idxVars, faultVars>>

\* The two "failing cleanly" branches: FAILED, and the job is complete.
SaveStale(w) ==
  /\ pc[w] = "stale"
  /\ Save([held[w] EXCEPT !.status = "failed"])
  /\ EndJob(w)
  /\ UNCHANGED <<unqueued, waiting, credited, chainVars, recVars, idxVars, faultVars>>

\* CONFIRMED, by SUCCESS or because the nonce is the chain's.
SaveConfirmed(w) ==
  /\ pc[w] = "confirm"
  /\ Save([held[w] EXCEPT !.status = "confirmed"])
  /\ pc' = [pc EXCEPT ![w] = "credit"]
  /\ UNCHANGED <<unqueued, waiting, credited, chainVars, job, held, seen,
                 recVars, idxVars, faultVars>>

\* calculateCreditsAndConfirmBatch.
Credit(w) ==
  /\ pc[w] = "credit"
  /\ credited' = credited \cup {job[w].sub}
  /\ EndJob(w)
  /\ UNCHANGED <<rowVars, unqueued, waiting, chainVars, recVars, idxVars, faultVars>>

\* An exception inside the try block around the send leads to FAILED; anywhere
\* else it ends the attempt.
Saving == {"resequence", "mark", "fail", "stale", "confirm"}
Throw(w) ==
  \/ /\ pc[w] = "mark" /\ job[w].sub \notin Unmappable
     /\ pc' = [pc EXCEPT ![w] = "fail"]
     /\ UNCHANGED <<waiting, job, held, seen>>
  \/ /\ ~(pc[w] = "mark" /\ job[w].sub \notin Unmappable)
     /\ Retry(w)

\* Reading the chain throws, or a save violates the unique constraint.
AttemptFails(w) ==
  /\ pc[w] = "read" \/ (pc[w] \in Saving /\ Taken(held[w]))
  /\ Throw(w)
  /\ UNCHANGED <<rowVars, unqueued, credited, chainVars, recVars, idxVars, faultVars>>

\* A database call rejects; an error in the credits is swallowed.
DatabaseFails(w) ==
  /\ pc[w] \in Saving \cup {"check", "credit"} /\ errors < MaxErrors
  /\ errors' = errors + 1
  /\ \/ pc[w] # "credit" /\ Throw(w)
     \/ pc[w] = "credit" /\ EndJob(w) /\ UNCHANGED waiting
  /\ UNCHANGED <<rowVars, unqueued, credited, chainVars, recVars, idxVars,
                 crashes, resets>>

\* The process dies.  Bull gives the stalled job to a worker once more; a job
\* that stalls a second time fails (maxStalledCount = 1).
WorkerDies(w) ==
  /\ pc[w] # "idle" /\ crashes < MaxCrashes
  /\ crashes' = crashes + 1
  /\ waiting' = [j \in Jobs |->
       IF ~job[w].stalled /\ j = [job[w] EXCEPT !.stalled = TRUE]
       THEN waiting[j] + 1 ELSE waiting[j]]
  /\ EndJob(w)
  /\ UNCHANGED <<rowVars, unqueued, credited, chainVars, recVars, idxVars,
                 errors, resets>>

-----------------------------------------------------------------------------
(* The contract (external)                                                 *)

Land(tx) ==
  /\ tx \in flying /\ tx[2] = chainNonce + 1
  /\ chainNonce' = tx[2]
  /\ landed' = landed \cup {tx}
  /\ flying' = flying \ {tx}
  /\ UNCHANGED <<rowVars, unqueued, waiting, credited, sent, workVars, recVars,
                 idxVars, faultVars>>

Drop(tx) ==
  /\ tx \in flying
  /\ flying' = flying \ {tx}
  /\ UNCHANGED <<rowVars, unqueued, waiting, credited, chainNonce, sent, landed,
                 workVars, recVars, idxVars, faultVars>>

\* A new contract is deployed; what the old one knew is gone.
Redeploy ==
  /\ resets < MaxResets
  /\ resets' = resets + 1
  /\ chainNonce' = 0 /\ flying' = {} /\ sent' = {} /\ landed' = {}
  /\ UNCHANGED <<rowVars, unqueued, waiting, credited, workVars, recVars,
                 idxVars, errors, crashes>>

-----------------------------------------------------------------------------
(* OracleService.reconcile                                                 *)

EndReconcile(r) ==
  /\ recPc' = [recPc EXCEPT ![r] = "idle"]
  /\ recChain' = [recChain EXCEPT ![r] = 0]
  /\ recAgain' = [recAgain EXCEPT ![r] = 0]
  /\ recRows' = [recRows EXCEPT ![r] = {}]
  /\ recNext' = [recNext EXCEPT ![r] = 0]
  /\ recRow' = [recRow EXCEPT ![r] = NoRow(0)]

\* Of the entities a query returned, those with the smallest nonce.
First(es) == {e \in es : \A f \in es : e.nonce <= f.nonce}

\* onChainNonce.
StartReconcile(r) ==
  /\ recPc[r] = "idle"
  /\ recChain' = [recChain EXCEPT ![r] = chainNonce]
  /\ recPc' = [recPc EXCEPT ![r] = "again"]
  /\ UNCHANGED <<rowVars, unqueued, waiting, credited, chainVars, workVars,
                 recAgain, recRows, recNext, recRow, idxVars, faultVars>>

\* findStaleSubmissions reads the nonce again
ReadAgain(r) ==
  /\ recPc[r] = "again"
  /\ recAgain' = [recAgain EXCEPT ![r] = chainNonce]
  /\ recPc' = [recPc EXCEPT ![r] = "stale"]
  /\ UNCHANGED <<rowVars, unqueued, waiting, credited, chainVars, workVars,
                 recChain, recRows, recNext, recRow, idxVars, faultVars>>

\* (when that fails there are none) ...
ReadAgainFails(r) ==
  /\ recPc[r] = "again"
  /\ recPc' = [recPc EXCEPT ![r] = "renumber"]
  /\ UNCHANGED <<rowVars, unqueued, waiting, credited, chainVars, workVars,
                 recChain, recAgain, recRows, recNext, recRow, idxVars, faultVars>>

\* ... and queries the CONFIRMED rows ahead of it.
FindStale(r) ==
  /\ recPc[r] = "stale"
  /\ recRows' = [recRows EXCEPT ![r] =
       {row[n] : n \in {m \in Rows : row[m].status = "confirmed"
                                    /\ row[m].nonce > recAgain[r]}}]
  /\ recNext' = [recNext EXCEPT ![r] = recChain[r] + 1]
  /\ recAgain' = [recAgain EXCEPT ![r] = 0]
  /\ recPc' = [recPc EXCEPT ![r] = "renumber"]
  /\ UNCHANGED <<rowVars, unqueued, waiting, credited, chainVars, workVars,
                 recChain, recRow, idxVars, faultVars>>

\* In the order of their nonces: PENDING again, under the next nonce ...
Renumber(r) ==
  /\ recPc[r] = "renumber"
  /\ \E e \in First(recRows[r]) :
       /\ Save([e EXCEPT !.status = "pending", !.nonce = recNext[r]])
       /\ recRow' = [recRow EXCEPT ![r] = e]
       /\ recRows' = [recRows EXCEPT ![r] = @ \ {e}]
  /\ recPc' = [recPc EXCEPT ![r] = "requeue"]
  /\ UNCHANGED <<unqueued, waiting, credited, chainVars, workVars, recChain,
                 recAgain, recNext, idxVars, faultVars>>

\* ... and a new job.
Requeue(r) ==
  /\ recPc[r] = "requeue"
  /\ AddJob(recRow[r].sub)
  /\ recNext' = [recNext EXCEPT ![r] = @ + 1]
  /\ recRow' = [recRow EXCEPT ![r] = NoRow(0)]
  /\ recPc' = [recPc EXCEPT ![r] = "renumber"]
  /\ UNCHANGED <<rowVars, unqueued, credited, chainVars, workVars, recChain,
                 recAgain, recRows, idxVars, faultVars>>

\* Mutants: the gap query forgets FAILED rows, or compares with the expected nonce.
FindPendingGaps(r) ==
  /\ recPc[r] = "renumber" /\ recRows[r] = {}
  /\ recRows' = [recRows EXCEPT ![r] =
       {row[n] : n \in {m \in Rows : row[m].status = "pending"
                                    /\ row[m].nonce <= recChain[r]}}]
  /\ recChain' = [recChain EXCEPT ![r] = 0]
  /\ recNext' = [recNext EXCEPT ![r] = 0]
  /\ recPc' = [recPc EXCEPT ![r] = "gap"]
  /\ UNCHANGED <<rowVars, unqueued, waiting, credited, chainVars, workVars,
                 recAgain, recRow, idxVars, faultVars>>
FindExpectedGaps(r) ==
  /\ recPc[r] = "renumber" /\ recRows[r] = {}
  /\ recRows' = [recRows EXCEPT ![r] =
       {row[n] : n \in {m \in Rows : row[m].status \in {"pending", "failed"}
                                    /\ row[m].nonce <= recChain[r] + 1}}]
  /\ recChain' = [recChain EXCEPT ![r] = 0]
  /\ recNext' = [recNext EXCEPT ![r] = 0]
  /\ recPc' = [recPc EXCEPT ![r] = "gap"]
  /\ UNCHANGED <<rowVars, unqueued, waiting, credited, chainVars, workVars,
                 recAgain, recRow, idxVars, faultVars>>

\* The PENDING and FAILED rows the chain has passed (by the first reading).
FindGaps(r) ==
  /\ recPc[r] = "renumber" /\ recRows[r] = {}
  /\ recRows' = [recRows EXCEPT ![r] = 
       {row[n] : n \in {m \in Rows : row[m].status \in {"pending", "failed"}
                                    /\ row[m].nonce <= recChain[r]}}]
  /\ recChain' = [recChain EXCEPT ![r] = 0]
  /\ recNext' = [recNext EXCEPT ![r] = 0]
  /\ recPc' = [recPc EXCEPT ![r] = "gap"]
  /\ UNCHANGED <<rowVars, unqueued, waiting, credited, chainVars, workVars,
                 recAgain, recRow, idxVars, faultVars>>

ConfirmGap(r) ==
  /\ recPc[r] = "gap"
  /\ \E e \in First(recRows[r]) :
       /\ Save([e EXCEPT !.status = "confirmed", !.hash = ReconciledHash(e)])
       /\ recRow' = [recRow EXCEPT ![r] = e]
       /\ recRows' = [recRows EXCEPT ![r] = @ \ {e}]
  /\ recPc' = [recPc EXCEPT ![r] = "credit"]
  /\ UNCHANGED <<unqueued, waiting, credited, chainVars, workVars, recChain,
                 recAgain, recNext, idxVars, faultVars>>

\* Credits and batch of a confirmed gap; an error there is swallowed.
CreditGap(r) ==
  /\ recPc[r] = "credit"
  /\ \/ credited' = credited \cup {recRow[r].sub} /\ UNCHANGED errors
     \/ errors < MaxErrors /\ errors' = errors + 1 /\ UNCHANGED credited
  /\ recRow' = [recRow EXCEPT ![r] = NoRow(0)]
  /\ recPc' = [recPc EXCEPT ![r] = "gap"]
  /\ UNCHANGED <<rowVars, unqueued, waiting, chainVars, workVars, recChain,
                 recAgain, recRows, recNext, idxVars, crashes, resets>>

FinishReconcile(r) ==
  /\ recPc[r] = "gap" /\ recRows[r] = {}
  /\ EndReconcile(r)
  /\ UNCHANGED <<rowVars, unqueued, waiting, credited, chainVars, workVars,
                 idxVars, faultVars>>

\* A save violates the unique constraint and reconcile throws.
ReconcileFails(r) ==
  /\ recPc[r] \in {"renumber", "gap"}
  /\ \E e \in First(recRows[r]) :
       Taken(IF recPc[r] = "gap" THEN e ELSE [e EXCEPT !.nonce = recNext[r]])
  /\ EndReconcile(r)
  /\ UNCHANGED <<rowVars, unqueued, waiting, credited, chainVars, workVars,
                 idxVars, faultVars>>

\* The process dies or a database or queue call rejects.
ReconcileStops(r) ==
  /\ recPc[r] \notin {"idle", "again"} /\ crashes < MaxCrashes
  /\ crashes' = crashes + 1
  /\ EndReconcile(r)
  /\ UNCHANGED <<rowVars, unqueued, waiting, credited, chainVars, workVars,
                 idxVars, errors, resets>>

-----------------------------------------------------------------------------
(* IndexerService.onOracleReadingSubmitted                                 *)

\* The event of a landed transaction, possibly replayed: look up the row by
\* (project, oracle, nonce); a CONFIRMED row or none ends the handler.
IndexerLoads(i, tx) ==
  /\ idxPc[i] = "idle" /\ tx \in landed
  /\ \E n \in Rows :
       /\ project[n] = project[tx[1]] /\ row[n].nonce = tx[2]
       /\ row[n].status # "confirmed"
       /\ idxRow' = [idxRow EXCEPT ![i] = row[n]]
  /\ idxPc' = [idxPc EXCEPT ![i] = "save"]
  /\ UNCHANGED <<rowVars, unqueued, waiting, credited, chainVars, workVars,
                 recVars, faultVars>>

IndexerSaves(i) ==
  /\ idxPc[i] = "save"
  /\ Save([idxRow[i] EXCEPT !.status = "confirmed"])
  /\ idxPc' = [idxPc EXCEPT ![i] = "batches"]
  /\ UNCHANGED <<unqueued, waiting, credited, chainVars, workVars, recVars,
                 idxRow, faultVars>>

\* creditsAwarded > 0: one UPDATE confirms every open batch of the project.
IndexerCredits(i) ==
  /\ idxPc[i] = "batches"
  /\ \/ credited' = credited \cup {n \in Rows : project[n] = project[idxRow[i].sub]}
     \/ UNCHANGED credited
  /\ idxPc' = [idxPc EXCEPT ![i] = "idle"]
  /\ idxRow' = [idxRow EXCEPT ![i] = NoRow(0)]
  /\ UNCHANGED <<rowVars, unqueued, waiting, chainVars, workVars, recVars, faultVars>>

\* The save violates the unique constraint or a call rejects; dispatch logs it.
IndexerFails(i) ==
  /\ \/ idxPc[i] = "save" /\ Taken(idxRow[i]) /\ UNCHANGED errors
     \/ idxPc[i] # "idle" /\ errors < MaxErrors /\ errors' = errors + 1
  /\ idxPc' = [idxPc EXCEPT ![i] = "idle"]
  /\ idxRow' = [idxRow EXCEPT ![i] = NoRow(0)]
  /\ UNCHANGED <<rowVars, unqueued, waiting, credited, chainVars, workVars,
                 recVars, crashes, resets>>

-----------------------------------------------------------------------------
WorkerStep(w) ==
  \/ TakeJob(w) \/ ReadChainNonce(w) \/ CheckNewer(w) \/ Resequence(w)
  \/ MappingFails(w) \/ MarkSubmitted(w) \/ Send(w) \/ PollSucceeds(w)
  \/ ChainFails(w) \/ SaveFailed(w) \/ SaveStale(w) \/ SaveConfirmed(w)
  \/ Credit(w) \/ AttemptFails(w)

ReconcileStep(r) ==
  \/ StartReconcile(r) \/ ReadAgain(r) \/ FindStale(r) \/ Renumber(r)
  \/ Requeue(r) \/ FindGaps(r) \/ ConfirmGap(r) \/ CreditGap(r)
  \/ FinishReconcile(r) \/ ReconcileFails(r)

Index(i) ==
  \/ \E tx \in landed : IndexerLoads(i, tx)
  \/ IndexerSaves(i) \/ IndexerCredits(i) \/ IndexerFails(i)

Next ==
  \/ \E n \in Subs : Enqueue(n) \/ EnqueueFails(n)
  \/ \E n \in Subs, p \in Projects : TriggerSubmission(n, p)
  \/ \E w \in Workers : WorkerStep(w) \/ DatabaseFails(w) \/ WorkerDies(w)
  \/ \E tx \in flying : Land(tx) \/ Drop(tx)
  \/ Redeploy
  \/ \E r \in Reconcilers : ReconcileStep(r) \/ ReadAgainFails(r) \/ ReconcileStops(r)
  \/ \E i \in Indexers : Index(i)

Spec == Init /\ [][Next]_vars

\* Bull keeps giving jobs to the processor, an awaited call settles, and the
\* reconciliation runs on its schedule.  The chain, the indexer's RPC node and
\* the callers of triggerSubmission owe nothing.
Fairness ==
  /\ \A w \in Workers : WF_vars(WorkerStep(w))
  /\ \A r \in Reconcilers : WF_vars(ReconcileStep(r))

FairSpec == Spec /\ Fairness

-----------------------------------------------------------------------------
(* Properties                                                              *)

Status == {"absent", "pending", "submitted", "confirmed", "failed"}
Hashes == {"none", "tx", "reconciled"}
RowType == [sub : 0..MaxSubs, status : Status, nonce : Nat, hash : Hashes]
LiveJob(n) ==
  \/ \E w \in Workers : job[w].sub = n
  \/ \E j \in Jobs : j.sub = n /\ waiting[j] > 0

\* Types of all the state; whoever holds an entity holds one of an existing row.
TypeOK ==
  /\ project \in [Subs -> Projects \cup {NoProject}]
  /\ row \in [Subs -> RowType]
  /\ unqueued \in SUBSET Rows /\ credited \in SUBSET Rows
  /\ waiting \in [Jobs -> Nat]
  /\ chainNonce \in Nat
  /\ sent \in SUBSET (Rows \X Nat)
  /\ flying \in SUBSET sent /\ landed \in SUBSET sent
  /\ pc \in [Workers -> Saving \cup {"idle", "read", "check", "send", "poll", "credit"}]
  /\ job \in [Workers -> Jobs \cup {NoJob}]
  /\ held \in [Workers -> RowType]
  /\ seen \in [Workers -> Nat]
  /\ recPc \in [Reconcilers -> {"idle", "again", "stale", "renumber", "requeue", "gap", "credit"}]
  /\ recChain \in [Reconcilers -> Nat] /\ recAgain \in [Reconcilers -> Nat]
  /\ recRows \in [Reconcilers -> SUBSET RowType]
  /\ recNext \in [Reconcilers -> Nat] /\ recRow \in [Reconcilers -> RowType]
  /\ idxPc \in [Indexers -> {"idle", "save", "batches"}]
  /\ idxRow \in [Indexers -> RowType]
  /\ errors \in 0..MaxErrors /\ crashes \in 0..MaxCrashes /\ resets \in 0..MaxResets
  /\ \A n \in Subs : row[n].sub = n /\ (n \in Rows <=> project[n] \in Projects)
  /\ \A j \in Jobs : waiting[j] > 0 => j.sub \in Rows
  /\ \A w \in Workers : pc[w] # "idle" =>
       /\ job[w] \in Jobs /\ held[w].sub = job[w].sub /\ job[w].sub \in Rows
       /\ held[w].status \notin {"absent", "confirmed"}
  /\ \A r \in Reconcilers :
       /\ \A e \in recRows[r] : e.sub \in Rows
       /\ recPc[r] \in {"requeue", "credit"} => recRow[r].sub \in Rows
  /\ \A i \in Indexers : idxPc[i] # "idle" => idxRow[i].sub \in Rows

\* processSubmission: "FAILED submissions are re-tried with the same nonce".
\* Whatever re-sequencing, retries, crashes, stale saves and reconciliation do
\* between them, a submission is only ever sent under one nonce, so its reading
\* cannot land twice.
OneNoncePerSubmission ==
  \A t, u \in sent : t[1] = u[1] => t[2] = u[2]

\* As long as the contract is the same, no CONFIRMED row is ahead of it: the
\* rows reconcile takes for lost are never made by the processors themselves.
ConfirmedNotAhead ==
  resets = 0 => \A n \in Rows :
    row[n].status = "confirmed" => row[n].nonce <= chainNonce

\* A submission that is CONFIRMED without having landed owes it to one of
\* another project that landed under the same nonce.
FalseConfirmationIsForeign ==
  resets = 0 => \A n \in Rows : row[n].status = "confirmed" /\ ~Landed(n) =>
    \E m \in Rows : project[m] # project[n] /\ <<m, row[n].nonce>> \in landed

\* Until a redeployment or a reconciliation renumbers it, the row of a landed
\* submission shows the nonce it landed under, so that a later attempt finds out.
LandedUnderItsNonce ==
  resets = 0 => \A tx \in landed : row[tx[1]].nonce = tx[2]

\* A row that is SUBMITTED has a job that will move it on, as long as no call
\* failed and no process died.
SubmittedHasJob ==
  errors = 0 /\ crashes = 0 => \A n \in Rows :
    row[n].status = "submitted" => LiveJob(n)

\* Without lost calls, deaths and redeployments, a submission that landed ends
\* CONFIRMED for good, however often its sender saw an error.
LandedIsConfirmed ==
  \A n \in Subs : <>[](resets = 0 /\ errors = 0 /\ crashes = 0 /\ Landed(n)
                       => row[n].status = "confirmed")

=============================================================================
