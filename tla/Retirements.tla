----------------------------- MODULE Retirements -----------------------------
(***************************************************************************)
(* Retirements: how POST /credits/retire records a retirement and queues   *)
(* its job (CreditsService.retire), how the jobs of the retirements queue  *)
(* burn the credits on chain, retry, notify and issue a certificate        *)
(* (CreditsRetirementProcessor, CertificateService), and what the indexer  *)
(* does with the contract's retire event (IndexerService.onCreditRetire).  *)
(* Rows are numbered in the order of created_at; every awaited call is a   *)
(* step.  A retirement has one job, so only the worker that holds the job  *)
(* writes tx_hash and certificate_ipfs_uri.                                *)
(*                                                                         *)
(* The credit token contract (not in src/) burns from the wallet whose     *)
(* balance retire() reads, in whole credits, and refuses what the wallet   *)
(* does not hold.  A transaction may land after its sender saw an error.   *)
(* Calls to the chain and to IPFS fail at any time; calls to PostgreSQL or *)
(* Redis fail, without effect, at most MaxErrors times; workers die at     *)
(* most MaxCrashes times.                                                  *)
(* Left out: a job without tokenId (retire never adds one), deleted users. *)
(***************************************************************************)
EXTENDS Naturals, FiniteSets

CONSTANTS
  Wallets,
  Supply,       \* credits each wallet holds at first
  Amounts,      \* amounts that are asked for, in halves of a credit
  MaxRets,      \* bound: rows of retirements
  Attempts,     \* attempts of a job (5 in retire)
  Workers,      \* executions of processRetirement (concurrency 2 per replica)
  BlockSize,    \* certificate numbers per block (10000)
  MaxErrors,    \* bound: failing database or queue calls
  MaxCrashes    \* bound: deaths of a worker

Rets == 1..MaxRets

ASSUME RetirementConstants ==
  /\ Supply \in Nat /\ Amounts \subseteq Nat \ {0}
  /\ MaxRets \in Nat /\ Attempts \in Nat \ {0} /\ BlockSize \in Nat \ {0}
  /\ MaxErrors \in Nat /\ MaxCrashes \in Nat

VARIABLES
  wallet, amount,       \* retirements: owner and amount, once asked for
  mark, tx,             \* tx_hash: "empty", "pending" (tx-pending-...) or the hash of send tx
  retiredAt,            \* retired_at: "none", the "request" or a later "event"
  certificate,          \* certificate_ipfs_uri: the number on it, 0 for NULL
  request,              \* where the retire() call of a row is
  job, left, stalled,   \* the job on the retirements queue
  pc, at, number,       \* locals of processRetirement
  sends,                \* transactions sent for a row so far
  balance, flying, landed, \* the contract and its transactions
  abandoned,            \* transactions whose sender turned away from them
  sequence,             \* certificate_number_seq
  errors, crashes

rowVars   == <<wallet, amount, mark, tx, retiredAt, certificate>>
jobVars   == <<job, left, stalled>>
workVars  == <<pc, at, number>>
chainVars == <<balance, flying, landed>>
faultVars == <<errors, crashes>>
vars == <<rowVars, request, jobVars, workVars, sends, chainVars, abandoned,
          sequence, faultVars>>

-----------------------------------------------------------------------------
Rows      == {n \in Rets : mark[n] # "absent"}
Burns(n)  == {t \in landed : t[1] = n}
Current(w) == <<at[w], sends[at[w]]>>     \* the transaction worker w sent last

\* new BigNumber(amount).toFixed(0): halves are rounded up.
ToBurn(n) == (amount[n] + 1) \div 2

\* CertificateService.generateCertificateNumber: WQC-<year>-<block>-<serial>.
CertificateNumber(v) == <<v \div BlockSize, v % BlockSize>>

Init ==
  /\ wallet \in [Rets -> Wallets] /\ amount = [n \in Rets |-> 0]
  /\ mark = [n \in Rets |-> "absent"] /\ tx = [n \in Rets |-> 0]
  /\ retiredAt = [n \in Rets |-> "none"]
  /\ certificate = [n \in Rets |-> 0]
  /\ request = [n \in Rets |-> "idle"]
  /\ job = [n \in Rets |-> "none"] /\ left = [n \in Rets |-> 0]
  /\ stalled = [n \in Rets |-> FALSE]
  /\ pc = [w \in Workers |-> "idle"] /\ at = [w \in Workers |-> 0]
  /\ number = [w \in Workers |-> 0]
  /\ sends = [n \in Rets |-> 0]
  /\ balance = [u \in Wallets |-> Supply]
  /\ flying = {} /\ landed = {} /\ abandoned = {}
  /\ sequence = 0
  /\ errors = 0 /\ crashes = 0

-----------------------------------------------------------------------------
(* CreditsService.retire                                                   *)

\* The checks: the wallet holds the amount now, whatever is queued already.
CheckBalance(n, a) ==
  /\ request[n] = "idle" /\ \A m \in Rets : m < n => request[m] # "idle"
  /\ a <= 2 * balance[wallet[n]]
  /\ amount' = [amount EXCEPT ![n] = a]
  /\ request' = [request EXCEPT ![n] = "save"]
  /\ UNCHANGED <<wallet, mark, tx, retiredAt, certificate, jobVars, workVars,
                 sends, chainVars, abandoned, sequence, faultVars>>

SaveRetirement(n) ==
  /\ request[n] = "save"
  /\ mark' = [mark EXCEPT ![n] = "empty"]
  /\ retiredAt' = [retiredAt EXCEPT ![n] = "request"]
  /\ request' = [request EXCEPT ![n] = "queue"]
  /\ UNCHANGED <<wallet, amount, tx, certificate, jobVars, workVars, sends,
                 chainVars, abandoned, sequence, faultVars>>

QueueJob(n) ==
  /\ request[n] = "queue"
  /\ job' = [job EXCEPT ![n] = "waiting"]
  /\ left' = [left EXCEPT ![n] = Attempts]
  /\ request' = [request EXCEPT ![n] = "done"]
  /\ UNCHANGED <<rowVars, stalled, workVars, sends, chainVars, abandoned,
                 sequence, faultVars>>

\* A call rejects or the process dies: the request answers 500, the row stays.
RequestFails(n) ==
  /\ request[n] \in {"save", "queue"} /\ errors < MaxErrors
  /\ errors' = errors + 1
  /\ request' = [request EXCEPT ![n] = "done"]
  /\ UNCHANGED <<rowVars, jobVars, workVars, sends, chainVars, abandoned,
                 sequence, crashes>>

-----------------------------------------------------------------------------
(* CreditsRetirementProcessor.processRetirement                            *)

Goto(w, label) == pc' = [pc EXCEPT ![w] = label]

\* The execution ends with the job complete, or with the attempt failed.
Leave(w) ==
  /\ Goto(w, "idle")
  /\ at' = [at EXCEPT ![w] = 0]
  /\ number' = [number EXCEPT ![w] = 0]
Complete(w) ==
  /\ job' = [job EXCEPT ![at[w]] = "over"]
  /\ Leave(w)
  /\ UNCHANGED <<left, stalled>>
FailAttempt(w) ==
  /\ left' = [left EXCEPT ![at[w]] = @ - 1]
  /\ job' = [job EXCEPT ![at[w]] = IF left[at[w]] > 1 THEN "waiting" ELSE "over"]
  /\ Leave(w)
  /\ UNCHANGED stalled

\* The idempotency guard.  Mutant: it is missing.
NeverSkips(n)   == FALSE
AlreadyHashed(n) == mark[n] = "hash"

\* A job Bull may hand out.
Takeable(n) == job[n] = "waiting"

TakeJob(w, n) ==
  /\ pc[w] = "idle" /\ Takeable(n)
  /\ \/ AlreadyHashed(n) /\ job' = [job EXCEPT ![n] = "over"] /\ UNCHANGED workVars
     \/ /\ ~AlreadyHashed(n)
        /\ job' = [job EXCEPT ![n] = "active"]
        /\ at' = [at EXCEPT ![w] = n]
        /\ Goto(w, "mark")
        /\ UNCHANGED number
  /\ UNCHANGED <<rowVars, request, left, stalled, sends, chainVars, abandoned,
                 sequence, faultVars>>

MarkPending(w) ==
  /\ pc[w] = "mark"
  /\ mark' = [mark EXCEPT ![at[w]] = "pending"]
  /\ Goto(w, "send")
  /\ UNCHANGED <<wallet, amount, tx, retiredAt, certificate, request, jobVars, at,
                 number, sends, chainVars, abandoned, sequence, faultVars>>

\* retireCreditsWithHash: the simulation refuses what the wallet does not hold.
Send(w) ==
  LET n == at[w] IN
  /\ pc[w] = "send" /\ ToBurn(n) <= balance[wallet[n]]
  /\ sends' = [sends EXCEPT ![n] = @ + 1]
  /\ flying' = flying \cup {<<n, sends[n] + 1>>}
  /\ Goto(w, "poll")
  /\ UNCHANGED <<rowVars, request, jobVars, at, number, balance, landed,
                 abandoned, sequence, faultVars>>

\* sendTxWithHash sees SUCCESS.  Mutant: NOT_FOUND counts as success.
PollNotFound(w) ==
  /\ pc[w] = "poll"
  /\ Goto(w, "confirm")
  /\ UNCHANGED <<rowVars, request, jobVars, at, number, sends, chainVars,
                 abandoned, sequence, faultVars>>
PollSucceeds(w) ==
  /\ pc[w] = "poll" /\ Current(w) \in landed
  /\ Goto(w, "confirm")
  /\ UNCHANGED <<rowVars, request, jobVars, at, number, sends, chainVars,
                 abandoned, sequence, faultVars>>

\* It throws: refused, FAILED, timed out or an RPC error.
SendFails(w) ==
  /\ pc[w] \in {"send", "poll"}
  /\ abandoned' = IF pc[w] = "poll" THEN abandoned \cup {Current(w)} ELSE abandoned
  /\ Goto(w, "reset")
  /\ UNCHANGED <<rowVars, request, jobVars, at, number, sends, chainVars,
                 sequence, faultVars>>

\* The catch block: tx_hash = '' and the attempt fails.  Mutant: not reset.
ResetNot(w) ==
  /\ pc[w] = "reset"
  /\ FailAttempt(w)
  /\ UNCHANGED <<rowVars, request, sends, chainVars, abandoned, sequence, faultVars>>
Reset(w) ==
  /\ pc[w] = "reset"
  /\ mark' = [mark EXCEPT ![at[w]] = "empty"]
  /\ FailAttempt(w)
  /\ UNCHANGED <<wallet, amount, tx, retiredAt, certificate, request, sends,
                 chainVars, abandoned, sequence, faultVars>>

\* SUCCESS: the real hash and retired_at.
Confirm(w) ==
  LET n == at[w] IN
  /\ pc[w] = "confirm"
  /\ mark' = [mark EXCEPT ![n] = "hash"]
  /\ tx' = [tx EXCEPT ![n] = sends[n]]
  /\ retiredAt' = [retiredAt EXCEPT ![n] = "event"]
  /\ Goto(w, "notify")
  /\ UNCHANGED <<wallet, amount, certificate, request, jobVars, at, number, sends,
                 chainVars, abandoned, sequence, faultVars>>

\* notifyCreditRetired: the insert and the socket message.
Notify(w) ==
  /\ pc[w] = "notify"
  /\ Goto(w, "number")
  /\ UNCHANGED <<rowVars, request, jobVars, at, number, sends, chainVars,
                 abandoned, sequence, faultVars>>

\* nextval('certificate_number_seq').
NextVal(w) ==
  /\ sequence' = sequence + 1
  /\ number' = [number EXCEPT ![w] = sequence + 1]

TakeNumber(w) ==
  /\ pc[w] = "number"
  /\ NextVal(w)
  /\ Goto(w, "upload")
  /\ UNCHANGED <<rowVars, request, jobVars, at, sends, chainVars, abandoned, faultVars>>

\* uploadToIpfs pins the document, with Infura or else with Pinata ...
Upload(w) ==
  /\ pc[w] = "upload"
  /\ Goto(w, "certify")
  /\ UNCHANGED <<rowVars, request, jobVars, at, number, sends, chainVars,
                 abandoned, sequence, faultVars>>

\* ... or neither does: uploadRetirementCertificate answers null.
UploadFails(w) ==
  /\ pc[w] = "upload"
  /\ Complete(w)
  /\ UNCHANGED <<rowVars, request, sends, chainVars, abandoned, sequence, faultVars>>

SaveCertificate(w) ==
  /\ pc[w] = "certify"
  /\ certificate' = [certificate EXCEPT ![at[w]] = number[w]]
  /\ Complete(w)
  /\ UNCHANGED <<wallet, amount, mark, tx, retiredAt, request, sends, chainVars,
                 abandoned, sequence, faultVars>>

\* A database call rejects.  Before the send: the catch block; around the
\* certificate: logged; elsewhere the attempt fails.  Mutant: a failing
\* notification is caught like a failing send.
SendOrNotifyErrors == {"mark", "notify"}
SendErrors         == {"mark"}
DatabaseFails(w) ==
  /\ pc[w] \in {"mark", "reset", "confirm", "notify", "number", "certify"}
  /\ errors < MaxErrors
  /\ errors' = errors + 1
  /\ abandoned' = IF pc[w] = "confirm" THEN abandoned \cup {Current(w)} ELSE abandoned
  /\ \/ pc[w] \in SendErrors /\ Goto(w, "reset") /\ UNCHANGED <<jobVars, at, number>>
     \/ pc[w] \notin SendErrors \cup {"number", "certify"} /\ FailAttempt(w)
     \/ pc[w] \in {"number", "certify"} /\ Complete(w)
  /\ UNCHANGED <<rowVars, request, sends, chainVars, sequence, crashes>>

\* The process dies.  Bull hands a stalled job out once more, at any later time;
\* a job that stalls twice fails (maxStalledCount = 1).
WorkerDies(w) ==
  LET n == at[w] IN
  /\ pc[w] # "idle" /\ crashes < MaxCrashes
  /\ crashes' = crashes + 1
  /\ abandoned' =
       IF pc[w] \in {"poll", "confirm"} THEN abandoned \cup {Current(w)} ELSE abandoned
  /\ job' = [job EXCEPT ![n] = IF stalled[n] THEN "over" ELSE "waiting"]
  /\ stalled' = [stalled EXCEPT ![n] = TRUE]
  /\ Leave(w)
  /\ UNCHANGED <<rowVars, request, left, sends, chainVars, sequence, errors>>

-----------------------------------------------------------------------------
(* The contract (external) and its retire event                            *)

Land(t) ==
  LET u == wallet[t[1]] IN
  /\ t \in flying /\ ToBurn(t[1]) <= balance[u]
  /\ balance' = [balance EXCEPT ![u] = @ - ToBurn(t[1])]
  /\ landed' = landed \cup {t}
  /\ flying' = flying \ {t}
  /\ UNCHANGED <<rowVars, request, jobVars, workVars, sends, abandoned, sequence,
                 faultVars>>

Drop(t) ==
  /\ t \in flying
  /\ flying' = flying \ {t}
  /\ UNCHANGED <<rowVars, request, jobVars, workVars, sends, balance, landed,
                 abandoned, sequence, faultVars>>

\* onCreditRetire, possibly repeated: of the unconfirmed rows of that wallet and
\* that amount the oldest gets retired_at = COALESCE(retired_at, NOW()).
MatchingRows(t) ==
  {n \in Rows : /\ wallet[n] = wallet[t[1]] /\ amount[n] = 2 * ToBurn(t[1])
                /\ mark[n] # "hash"}
IndexRetirement(t) ==
  /\ t \in landed
  /\ \E n \in MatchingRows(t) :
       /\ \A m \in MatchingRows(t) : n <= m
       /\ retiredAt' = [retiredAt EXCEPT ![n] = IF @ = "none" THEN "event" ELSE @]
  /\ UNCHANGED <<wallet, amount, mark, tx, certificate, request, jobVars, workVars,
                 sends, chainVars, abandoned, sequence, faultVars>>

-----------------------------------------------------------------------------
Retire(n) ==
  \/ \E a \in Amounts : CheckBalance(n, a)
  \/ SaveRetirement(n) \/ QueueJob(n) \/ RequestFails(n)

WorkerStep(w) ==
  \/ \E n \in Rets : TakeJob(w, n)
  \/ MarkPending(w) \/ Send(w) \/ PollSucceeds(w) \/ SendFails(w) \/ Reset(w)
  \/ Confirm(w) \/ Notify(w) \/ TakeNumber(w) \/ Upload(w) \/ UploadFails(w)
  \/ SaveCertificate(w)

Next ==
  \/ \E n \in Rets : Retire(n)
  \/ \E w \in Workers : WorkerStep(w) \/ DatabaseFails(w) \/ WorkerDies(w)
  \/ \E t \in flying : Land(t) \/ Drop(t)
  \/ \E t \in landed : IndexRetirement(t)

Spec == Init /\ [][Next]_vars

\* Bull keeps handing out jobs and an awaited call settles: the poll of a
\* transaction ends after 60 s at the latest.  The chain owes nothing.
Fairness == \A w \in Workers : WF_vars(WorkerStep(w))

FairSpec == Spec /\ Fairness

-----------------------------------------------------------------------------
(* Properties                                                              *)

Labels == {"idle", "mark", "send", "poll", "reset", "confirm", "notify", "number",
           "upload", "certify"}

\* Types of all the state; an active job is at exactly one worker.
TypeOK ==
  /\ wallet \in [Rets -> Wallets] /\ amount \in [Rets -> Amounts \cup {0}]
  /\ mark \in [Rets -> {"absent", "empty", "pending", "hash"}]
  /\ tx \in [Rets -> Nat] /\ certificate \in [Rets -> Nat]
  /\ retiredAt \in [Rets -> {"none", "request", "event"}]
  /\ request \in [Rets -> {"idle", "save", "queue", "done"}]
  /\ job \in [Rets -> {"none", "waiting", "active", "over"}]
  /\ left \in [Rets -> 0..Attempts] /\ stalled \in [Rets -> BOOLEAN]
  /\ pc \in [Workers -> Labels] /\ at \in [Workers -> 0..MaxRets]
  /\ number \in [Workers -> Nat] /\ sends \in [Rets -> Nat] /\ sequence \in Nat
  /\ balance \in [Wallets -> Nat]
  /\ flying \in SUBSET (Rets \X Nat) /\ landed \in SUBSET (Rets \X Nat)
  /\ abandoned \in SUBSET (Rets \X Nat)
  /\ errors \in 0..MaxErrors /\ crashes \in 0..MaxCrashes
  /\ \A w \in Workers : pc[w] # "idle" => at[w] \in Rows /\ job[at[w]] = "active"
  /\ \A n \in Rets : job[n] = "active" =>
       \E w \in Workers : at[w] = n /\ \A v \in Workers : at[v] = n => v = w

\* A retirement is shown with a transaction hash only if its own burn under that
\* hash has landed, whatever errors, retries and deaths came before.
HashMeansBurned ==
  \A n \in Rows : mark[n] = "hash" => <<n, tx[n]>> \in landed

\* Certificate numbers are collision-free under concurrent workers and only on
\* confirmed retirements (generateCertificateNumber: "globally monotonic,
\* collision-free").
CertificatesUnique ==
  \A m, n \in Rows : certificate[m] # 0 =>
    /\ mark[m] = "hash"
    /\ certificate[n] # 0 /\ m # n =>
         CertificateNumber(certificate[m]) # CertificateNumber(certificate[n])

\* What a wallet is shown of its retirements is true: the rows and their jobs are
\* well formed, a hash means a burn, and no certificate is shared or unearned.
RowsTruthful == TypeOK /\ HashMeansBurned /\ CertificatesUnique

\* processRetirement is retried up to five times around a burn that cannot be
\* taken back: of all the burns of a retirement at most one is not accounted for
\* by an attempt that gave its transaction up.
BurnedOnceUnlessAbandoned ==
  \A n \in Rets : Cardinality(Burns(n) \ abandoned) <= 1

\* No burn is forgotten: it is recorded in the row, its worker is still on the
\* way to record it, or the attempt gave it up.
BurnsAccounted ==
  \A t \in landed \ abandoned :
    \/ mark[t[1]] = "hash" /\ tx[t[1]] = t[2]
    \/ \E w \in Workers : pc[w] \in {"poll", "confirm"} /\ Current(w) = t

\* As long as no database call fails and no worker dies, no retirement stays
\* marked tx-pending: its last attempt leaves a hash or an empty one.
PendingSettles ==
  \A n \in Rets : <>[](errors = 0 /\ crashes = 0 => mark[n] # "pending")
=============================================================================
