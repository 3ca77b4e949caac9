--------------------------- MODULE Retirements_proofs ---------------------------
(* Theorems about Retirements, for any number of wallets, retirements, attempts, *)
(* workers, errors and deaths.                                                   *)
EXTENDS Retirements, FiniteSetTheorems, TLAPS

USE DEF rowVars, jobVars, workVars, chainVars, faultVars

-----------------------------------------------------------------------------
(* The inductive invariant                                                 *)

\* A row, its request and its job agree; an idle worker has no row.
RowsInv ==
  /\ \A n \in Rets :
       /\ request[n] \in {"idle", "save"} => mark[n] = "absent"
       /\ request[n] = "queue" => mark[n] # "absent"
       /\ request[n] # "done" => job[n] = "none"
       /\ mark[n] = "absent" => job[n] = "none"
       /\ job[n] \in {"waiting", "active"} => left[n] >= 1
  /\ \A w \in Workers : pc[w] = "idle" => at[w] = 0

TypeInv == TypeOK /\ RowsInv

Before == {"mark", "reset"}
Around == {"send", "poll", "confirm"}
Behind == {"notify", "number", "upload", "certify"}

\* The mark says on which side of the burn the worker of a row is.
StageInv ==
  \A w \in Workers :
    /\ pc[w] \in Before => mark[at[w]] # "hash"
    /\ pc[w] \in Around => mark[at[w]] = "pending"
    /\ pc[w] \in Behind => mark[at[w]] = "hash"
    /\ pc[w] = "confirm" => Current(w) \in landed

\* The contract has seen nothing that was not sent.
SentInv == \A t \in flying \cup landed : t[2] \in 1..sends[t[1]]

\* Every transaction of a row is recorded, at its worker, or given up.
Accounted(n, k) ==
  \/ <<n, k>> \in abandoned
  \/ mark[n] = "hash" /\ tx[n] = k
  \/ k = sends[n] /\ \E w \in Workers : pc[w] \in {"poll", "confirm"} /\ at[w] = n
AccountInv == \A n \in Rets : \A k \in 1..sends[n] : Accounted(n, k)

BurnInv == StageInv /\ SentInv /\ AccountInv /\ HashMeansBurned

\* A number that was drawn is on one certificate or at one worker.
Holds(w) == pc[w] \in {"upload", "certify"}
NumberInv ==
  /\ \A n \in Rets : certificate[n] \in 0..sequence
  /\ \A n \in Rets : certificate[n] # 0 => mark[n] = "hash"
  /\ \A m, n \in Rets : certificate[m] # 0 /\ m # n => certificate[m] # certificate[n]
  /\ \A w \in Workers : pc[w] \in Behind => certificate[at[w]] = 0
  /\ \A w \in Workers : Holds(w) =>
       /\ number[w] \in 1..sequence
       /\ \A n \in Rets : certificate[n] # number[w]
       /\ \A v \in Workers : Holds(v) /\ v # w => number[v] # number[w]

IInv == TypeInv /\ BurnInv /\ NumberInv

-----------------------------------------------------------------------------

\* The assumptions, in the form in which steps use them.
LEMMA Bounds ==
  /\ Amounts \subseteq Nat \ {0} /\ Supply \in Nat
  /\ Rets \subseteq 0..MaxRets /\ 0 \notin Rets /\ MaxRets \in Nat
  /\ Attempts \in Nat /\ Attempts >= 1 /\ BlockSize \in Nat /\ BlockSize >= 1
  /\ MaxErrors \in Nat /\ MaxCrashes \in Nat
BY RetirementConstants DEF Rets

LEMMA ToBurnType ==
  ASSUME TypeOK, NEW n \in Rets
  PROVE  ToBurn(n) \in Nat
<1>1. amount[n] \in Amounts \cup {0}  BY DEF TypeOK
<1>2. CASE amount[n] = 0  BY <1>2 DEF ToBurn
<1>3. CASE amount[n] \in Amounts
  <2>1. amount[n] \in Nat  BY <1>3, Bounds
  <2> QED BY <2>1 DEF ToBurn
<1> QED BY <1>1, <1>2, <1>3

\* Two numbers with the same block and serial are the same.
LEMMA SameCertificate ==
  ASSUME NEW a \in Nat, NEW b \in Nat, CertificateNumber(a) = CertificateNumber(b)
  PROVE  a = b
<1>1. a \div BlockSize = b \div BlockSize /\ a % BlockSize = b % BlockSize
  BY DEF CertificateNumber
<1>2. a = BlockSize * (a \div BlockSize) + (a % BlockSize)  BY Bounds
<1>3. b = BlockSize * (b \div BlockSize) + (b % BlockSize)  BY Bounds
<1> QED BY <1>1, <1>2, <1>3

\* A worker that is on a row is the only one.
LEMMA OneWorker ==
  ASSUME TypeInv, NEW v \in Workers, NEW w \in Workers,
         pc[v] # "idle", pc[w] # "idle", at[v] = at[w]
  PROVE  v = w
BY Bounds DEF TypeInv, TypeOK, Rows

LEMMA InitInv == Init => IInv
<1> SUFFICES ASSUME Init
             PROVE  IInv
  OBVIOUS
<1>1. TypeOK  BY Bounds DEF Init, TypeOK, Labels, Rows
<1>2. RowsInv  BY DEF Init, RowsInv
<1>3. BurnInv
  BY DEF Init, BurnInv, StageInv, SentInv, AccountInv, HashMeansBurned, Rows, Before,
         Around, Behind
<1>4. NumberInv  BY DEF Init, NumberInv, Holds, Behind
<1> QED BY <1>1, <1>2, <1>3, <1>4 DEF IInv, TypeInv

-----------------------------------------------------------------------------
(* Types                                                                   *)

\* The conjuncts of TypeInv about jobs and workers.
JobTypes ==
  /\ job \in [Rets -> {"none", "waiting", "active", "over"}]
  /\ left \in [Rets -> 0..Attempts] /\ stalled \in [Rets -> BOOLEAN]
  /\ pc \in [Workers -> Labels] /\ at \in [Workers -> 0..MaxRets]
  /\ number \in [Workers -> Nat]
JobsPlaced ==
  /\ \A w \in Workers : pc[w] # "idle" => at[w] \in Rows /\ job[at[w]] = "active"
  /\ \A n \in Rets : job[n] = "active" =>
       \E w \in Workers : at[w] = n /\ \A v \in Workers : at[v] = n => v = w
  /\ RowsInv

\* No row appears or goes, and no request moves on.
RowsStay ==
  \A n \in Rets : request'[n] = request[n] /\ (mark'[n] = "absent" <=> mark[n] = "absent")

\* What the end of an execution does to them.
LEMMA LeaveType ==
  ASSUME TypeInv, NEW w \in Workers, pc[w] # "idle", Leave(w),
         NEW s \in {"waiting", "over"}, job' = [job EXCEPT ![at[w]] = s],
         left' \in [Rets -> 0..Attempts], stalled' \in [Rets -> BOOLEAN],
         \A n \in Rets \ {at[w]} : left'[n] = left[n],
         s = "waiting" => left'[at[w]] >= 1,
         RowsStay
  PROVE  JobTypes' /\ JobsPlaced'
<1> USE Bounds DEF TypeInv, TypeOK, RowsStay
<1> DEFINE n == at[w]
<1>1. n \in Rows /\ n \in Rets /\ job[n] = "active" /\ n # 0  BY DEF Rows
<1>2. JobTypes'
  <2>1. job' \in [Rets -> {"none", "waiting", "active", "over"}]
    <3>1. CASE s = "waiting"  BY <1>1, <3>1
    <3>2. CASE s = "over"  BY <1>1, <3>2
    <3> QED BY <3>1, <3>2
  <2>2. /\ pc' \in [Workers -> Labels] /\ at' \in [Workers -> 0..MaxRets]
        /\ number' \in [Workers -> Nat]
    BY DEF Leave, Goto, Labels
  <2> QED BY <2>1, <2>2 DEF JobTypes
<1>3. /\ pc'[w] = "idle" /\ at'[w] = 0
      /\ \A v \in Workers \ {w} : pc'[v] = pc[v] /\ at'[v] = at[v]
      /\ job'[n] = s /\ \A m \in Rets \ {n} : job'[m] = job[m]
  <2>1. pc' = [pc EXCEPT ![w] = "idle"] /\ at' = [at EXCEPT ![w] = 0]  BY DEF Leave, Goto
  <2>2. /\ pc'[w] = "idle" /\ at'[w] = 0
        /\ \A v \in Workers \ {w} : pc'[v] = pc[v] /\ at'[v] = at[v]
    BY <2>1
  <2>3. job'[n] = s /\ \A m \in Rets \ {n} : job'[m] = job[m]  BY <1>1
  <2> QED BY <2>2, <2>3
<1>4. Rows' = Rows
  <2>1. \A m \in Rets : mark'[m] = "absent" <=> mark[m] = "absent"  OBVIOUS
  <2> HIDE DEF TypeInv, TypeOK, RowsStay
  <2> QED BY <2>1 DEF Rows
<1>5. \A v \in Workers \ {w} : at[v] # n
  <2> SUFFICES ASSUME NEW v \in Workers \ {w}, at[v] = n PROVE FALSE
    OBVIOUS
  <2>1. pc[v] # "idle"  BY <1>1
  <2> HIDE DEF TypeInv, TypeOK, RowsStay
  <2> QED BY <2>1, OneWorker
<1>6. \A v \in Workers : pc'[v] # "idle" => at'[v] \in Rows /\ job'[at'[v]] = "active"
  BY <1>3, <1>5 DEF Rows
<1>7. ASSUME NEW m \in Rets, job'[m] = "active"
      PROVE  \E u \in Workers : at'[u] = m /\ \A v \in Workers : at'[v] = m => v = u
  <2>1. m # n /\ job[m] = "active"  BY <1>3, <1>7
  <2>2. PICK u \in Workers : at[u] = m /\ \A v \in Workers : at[v] = m => v = u
    BY <2>1
  <2>3. u # w /\ m # 0  BY <2>1, <2>2
  <2> QED BY <1>3, <2>2, <2>3
<1>8. RowsInv'  BY <1>1, <1>3 DEF RowsInv, Rows
<1> QED BY <1>2, <1>4, <1>6, <1>7, <1>8 DEF JobsPlaced

LEMMA CompleteType ==
  ASSUME TypeInv, NEW w \in Workers, pc[w] # "idle", Complete(w), RowsStay
  PROVE  JobTypes' /\ JobsPlaced'
BY LeaveType DEF Complete, TypeInv, TypeOK

LEMMA FailAttemptType ==
  ASSUME TypeInv, NEW w \in Workers, pc[w] # "idle", FailAttempt(w), RowsStay
  PROVE  JobTypes' /\ JobsPlaced'
<1>1. at[w] \in Rets /\ left[at[w]] \in 1..Attempts
  BY Bounds DEF TypeInv, TypeOK, RowsInv, Rows
<1>2. left[at[w]] > 1 => left[at[w]] - 1 >= 1  BY <1>1, Bounds
<1> DEFINE s == IF left[at[w]] > 1 THEN "waiting" ELSE "over"
<1>3. left' \in [Rets -> 0..Attempts] /\ left'[at[w]] = left[at[w]] - 1
      /\ \A n \in Rets \ {at[w]} : left'[n] = left[n]
  BY <1>1, Bounds DEF FailAttempt, TypeInv, TypeOK
<1>4. stalled' \in [Rets -> BOOLEAN]  BY DEF FailAttempt, TypeInv, TypeOK
<1>5. s \in {"waiting", "over"} /\ job' = [job EXCEPT ![at[w]] = s] /\ Leave(w)
      /\ (s = "waiting" => left'[at[w]] >= 1)
  BY <1>2, <1>3 DEF FailAttempt
<1> HIDE DEF s
<1> QED BY <1>3, <1>4, <1>5, LeaveType

LEMMA TypeStep == TypeInv /\ [Next]_vars => TypeInv'
<1> SUFFICES ASSUME TypeInv, [Next]_vars
             PROVE  TypeInv'
  OBVIOUS
<1> USE DEF TypeInv, TypeOK, RowsInv, Rows, Labels
<1>1. ASSUME NEW n \in Rets, NEW a \in Amounts, CheckBalance(n, a)
      PROVE  TypeInv'
  BY <1>1 DEF CheckBalance
<1>2. ASSUME NEW n \in Rets, SaveRetirement(n)
      PROVE  TypeInv'
  BY <1>2 DEF SaveRetirement
<1>3. ASSUME NEW n \in Rets, QueueJob(n)
      PROVE  TypeInv'
  BY <1>3, Bounds DEF QueueJob
<1>4. ASSUME NEW n \in Rets, RequestFails(n)
      PROVE  TypeInv'
  BY <1>4, Bounds DEF RequestFails
<1>5. ASSUME NEW w \in Workers, NEW n \in Rets, TakeJob(w, n)
      PROVE  TypeInv'
  BY <1>5, Bounds DEF TakeJob, Takeable, AlreadyHashed, Goto
<1>6. ASSUME NEW w \in Workers, MarkPending(w)
      PROVE  TypeInv'
  BY <1>6 DEF MarkPending, Goto
<1>7. ASSUME NEW w \in Workers, Send(w)
      PROVE  TypeInv'
  BY <1>7 DEF Send, Goto
<1>8. ASSUME NEW w \in Workers, PollSucceeds(w)
      PROVE  TypeInv'
  BY <1>8 DEF PollSucceeds, Goto
<1>9. ASSUME NEW w \in Workers, SendFails(w)
      PROVE  TypeInv'
  BY <1>9 DEF SendFails, Goto, Current
<1>10. ASSUME NEW w \in Workers, Reset(w)
      PROVE  TypeInv'
  <2>1. RowsStay /\ pc[w] # "idle" /\ FailAttempt(w) /\ at[w] \in Rows
    BY <1>10 DEF Reset, RowsStay
  <2>2. JobTypes' /\ JobsPlaced'  BY <2>1, FailAttemptType
  <2> QED BY <1>10, <2>1, <2>2 DEF Reset, JobTypes, JobsPlaced
<1>11. ASSUME NEW w \in Workers, Confirm(w)
      PROVE  TypeInv'
  BY <1>11 DEF Confirm, Goto
<1>12. ASSUME NEW w \in Workers, Notify(w)
      PROVE  TypeInv'
  BY <1>12 DEF Notify, Goto
<1>13. ASSUME NEW w \in Workers, TakeNumber(w)
      PROVE  TypeInv'
  BY <1>13 DEF TakeNumber, NextVal, Goto
<1>14. ASSUME NEW w \in Workers, Upload(w)
      PROVE  TypeInv'
  BY <1>14 DEF Upload, Goto
<1>15. ASSUME NEW w \in Workers, UploadFails(w)
      PROVE  TypeInv'
  <2>1. RowsStay /\ pc[w] # "idle" /\ Complete(w)  BY <1>15 DEF UploadFails, RowsStay
  <2>2. JobTypes' /\ JobsPlaced'  BY <2>1, CompleteType
  <2> QED BY <1>15, <2>1, <2>2 DEF UploadFails, JobTypes, JobsPlaced
<1>16. ASSUME NEW w \in Workers, SaveCertificate(w)
      PROVE  TypeInv'
  <2>1. RowsStay /\ pc[w] # "idle" /\ Complete(w)  BY <1>16 DEF SaveCertificate, RowsStay
  <2>2. JobTypes' /\ JobsPlaced'  BY <2>1, CompleteType
  <2> QED BY <1>16, <2>1, <2>2 DEF SaveCertificate, JobTypes, JobsPlaced
<1>17. ASSUME NEW w \in Workers, DatabaseFails(w)
      PROVE  TypeInv'
  <2>1. RowsStay /\ pc[w] # "idle" /\ at[w] \in Rets
    BY <1>17 DEF DatabaseFails, RowsStay
  <2>2. JobTypes' /\ JobsPlaced'
    <3>1. CASE FailAttempt(w)  BY <2>1, <3>1, FailAttemptType
    <3>2. CASE Complete(w)  BY <2>1, <3>2, CompleteType
    <3>3. CASE Goto(w, "reset") /\ UNCHANGED <<jobVars, at, number>>
      BY <1>17, <2>1, <3>3 DEF DatabaseFails, Goto, JobTypes, JobsPlaced
    <3> QED BY <1>17, <3>1, <3>2, <3>3 DEF DatabaseFails
  <2>3. abandoned' \in SUBSET (Rets \X Nat)  BY <1>17, <2>1 DEF DatabaseFails, Current
  <2>4. errors' \in 0..MaxErrors  BY <1>17, Bounds DEF DatabaseFails
  <2> QED BY <1>17, <2>2, <2>3, <2>4 DEF DatabaseFails, JobTypes, JobsPlaced
<1>18. ASSUME NEW w \in Workers, WorkerDies(w)
      PROVE  TypeInv'
  <2>1. RowsStay /\ pc[w] # "idle" /\ at[w] \in Rets /\ Leave(w) /\ left[at[w]] >= 1
    BY <1>18 DEF WorkerDies, RowsStay
  <2> DEFINE s == IF stalled[at[w]] THEN "over" ELSE "waiting"
  <2>2. s \in {"waiting", "over"} /\ job' = [job EXCEPT ![at[w]] = s] /\ left' = left
    BY <1>18 DEF WorkerDies
  <2>3. stalled' \in [Rets -> BOOLEAN]  BY <1>18 DEF WorkerDies
  <2>4. JobTypes' /\ JobsPlaced'
    <3> HIDE DEF s, TypeInv, TypeOK, RowsInv, Rows
    <3> QED BY <2>1, <2>2, <2>3, LeaveType DEF TypeInv, TypeOK
  <2>5. abandoned' \in SUBSET (Rets \X Nat)  BY <1>18, <2>1 DEF WorkerDies, Current
  <2>6. crashes' \in 0..MaxCrashes  BY <1>18, Bounds DEF WorkerDies
  <2> QED BY <1>18, <2>4, <2>5, <2>6 DEF WorkerDies, JobTypes, JobsPlaced
<1>19. ASSUME NEW t \in flying, Land(t)
      PROVE  TypeInv'
  BY <1>19, ToBurnType DEF Land
<1>20. ASSUME NEW t \in flying, Drop(t)
      PROVE  TypeInv'
  BY <1>20 DEF Drop
<1>21. ASSUME NEW t \in landed, IndexRetirement(t)
      PROVE  TypeInv'
  BY <1>21 DEF IndexRetirement, MatchingRows
<1>22. CASE UNCHANGED vars
  BY <1>22 DEF vars
<1> QED BY <1>1, <1>2, <1>3, <1>4, <1>5, <1>6, <1>7, <1>8, <1>9, <1>10, <1>11, <1>12,
           <1>13, <1>14, <1>15, <1>16, <1>17, <1>18, <1>19, <1>20, <1>21, <1>22
        DEF Next, Retire, WorkerStep
-----------------------------------------------------------------------------
(* Burns                                                                   *)

LEMMA BurnStep == TypeInv /\ TypeInv' /\ BurnInv /\ [Next]_vars => BurnInv'
<1> SUFFICES ASSUME TypeInv, TypeInv', BurnInv, [Next]_vars
             PROVE  BurnInv'
  OBVIOUS
<1> USE DEF BurnInv, StageInv, SentInv, AccountInv, Accounted, HashMeansBurned,
            Current, Rows, Before, Around, Behind
<1>0. /\ \A w \in Workers : pc[w] # "idle" => at[w] \in Rets /\ mark[at[w]] # "absent"
      /\ \A v, w \in Workers : pc[v] # "idle" /\ pc[w] # "idle" /\ at[v] = at[w] => v = w
  BY OneWorker DEF TypeInv, TypeOK
<1>t. /\ DOMAIN pc = Workers /\ pc \in [Workers -> Labels] /\ sends \in [Rets -> Nat]
      /\ flying \in SUBSET (Rets \X Nat) /\ landed \in SUBSET (Rets \X Nat)
      /\ mark \in [Rets -> {"absent", "empty", "pending", "hash"}]
      /\ tx \in [Rets -> Nat] /\ at \in [Workers -> 0..MaxRets]
  BY DEF TypeInv, TypeOK
<1>1. ASSUME NEW n \in Rets, NEW a \in Amounts, CheckBalance(n, a)
      PROVE  BurnInv'
  BY <1>1 DEF CheckBalance
<1>2. ASSUME NEW n \in Rets, SaveRetirement(n)
      PROVE  BurnInv'
  <2>1. mark[n] = "absent"  BY <1>2 DEF SaveRetirement, TypeInv, RowsInv
  <2>2. StageInv'  BY <1>0, <1>t, <1>2, <2>1 DEF SaveRetirement
  <2>3. SentInv'  BY <1>0, <1>t, <1>2, <2>1 DEF SaveRetirement
  <2>4. AccountInv'
    <3>1. /\ \A m \in Rets : mark[m] = "hash" => mark'[m] = "hash"
          /\ UNCHANGED <<tx, pc, at, sends, abandoned>>
      BY <1>t, <1>2, <2>1 DEF SaveRetirement, workVars
    <3>2. ASSUME NEW m \in Rets, NEW k \in 1..sends'[m] PROVE Accounted(m, k)'
      <4>1. Accounted(m, k)  BY <3>1
      <4> HIDE DEF BurnInv, StageInv, SentInv, AccountInv, HashMeansBurned
      <4> QED BY <3>1, <4>1
    <3> HIDE DEF Accounted
    <3> QED BY <3>2
  <2>5. HashMeansBurned'  BY <1>0, <1>t, <1>2, <2>1 DEF SaveRetirement
  <2> QED BY <2>2, <2>3, <2>4, <2>5
<1>3. ASSUME NEW n \in Rets, QueueJob(n) \/ RequestFails(n)
      PROVE  BurnInv'
  BY <1>3 DEF QueueJob, RequestFails
<1>4. ASSUME NEW w \in Workers, NEW n \in Rets, TakeJob(w, n)
      PROVE  BurnInv'
  BY <1>0, <1>t, <1>4 DEF TakeJob, Takeable, AlreadyHashed, Goto
<1>5. ASSUME NEW w \in Workers, MarkPending(w)
      PROVE  BurnInv'
  <2>0. UNCHANGED <<sends, flying, landed>>  BY <1>5 DEF MarkPending
  <2>1. StageInv'  BY <1>0, <1>t, <1>5 DEF MarkPending, Goto
  <2>2. SentInv'
    <3> HIDE DEF StageInv, AccountInv, Accounted, HashMeansBurned
    <3> QED BY <2>0
  <2>3. AccountInv'
    <3>1. mark[at[w]] # "hash" /\ UNCHANGED <<tx, at, abandoned>>
      BY <1>5 DEF MarkPending
    <3>2. /\ \A n \in Rets : mark[n] = "hash" => mark'[n] = "hash"
          /\ \A v \in Workers : pc[v] \in {"poll", "confirm"} => pc'[v] = pc[v]
      BY <1>t, <1>5, <3>1 DEF MarkPending, Goto
    <3> HIDE DEF StageInv, SentInv, HashMeansBurned
    <3> QED BY <2>0, <3>1, <3>2
  <2>4. HashMeansBurned'
    <3>1. tx' = tx /\ \A n \in Rets : mark'[n] \in {mark[n], "pending"}
      BY <1>t, <1>5 DEF MarkPending
    <3> HIDE DEF StageInv, SentInv, AccountInv, Accounted
    <3> QED BY <2>0, <3>1
  <2> QED BY <2>1, <2>2, <2>3, <2>4
<1>6. ASSUME NEW w \in Workers, Send(w)
      PROVE  BurnInv'
  <2>n. at[w] \in Rets /\ mark[at[w]] = "pending" /\ sends[at[w]] \in Nat
    BY <1>0, <1>t, <1>6 DEF Send
  <2>0. /\ \A v \in Workers \ {w} : pc'[v] = pc[v] /\ (pc[v] # "idle" => at[v] # at[w])
        /\ pc'[w] = "poll" /\ sends'[at[w]] = sends[at[w]] + 1
        /\ \A m \in Rets \ {at[w]} : sends'[m] = sends[m]
        /\ UNCHANGED <<mark, tx, at, landed, abandoned>>
    BY <1>0, <1>t, <1>6, <2>n DEF Send, Goto
  <2>1. StageInv'
    <3>1. ASSUME NEW v \in Workers, pc'[v] = "confirm"
          PROVE  <<at'[v], sends'[at'[v]]>> \in landed'
      <4>1. v # w /\ pc[v] = "confirm" /\ at[v] # at[w] /\ at[v] \in Rets
        BY <1>0, <2>0, <3>1
      <4>2. <<at[v], sends[at[v]]>> \in landed  BY <4>1
      <4> QED BY <2>0, <4>1, <4>2
    <3>2. \A v \in Workers :
            /\ pc'[v] \in Before => mark'[at'[v]] # "hash"
            /\ pc'[v] \in Around => mark'[at'[v]] = "pending"
            /\ pc'[v] \in Behind => mark'[at'[v]] = "hash"
      BY <2>n, <2>0
    <3> QED BY <3>1, <3>2
  <2>2. SentInv'  BY <1>0, <1>t, <1>6 DEF Send, Goto
  <2>3. AccountInv'
    <3> SUFFICES ASSUME NEW m \in Rets, NEW k \in 1..sends'[m]
                 PROVE  Accounted(m, k)'
      OBVIOUS
    <3>1. CASE m # at[w]
      <4>1. Accounted(m, k)  BY <2>0, <3>1
      <4>2. \A v \in Workers : pc[v] \in {"poll", "confirm"} /\ at[v] = m => pc'[v] = pc[v]
        BY <2>0, <3>1
      <4> QED BY <2>0, <3>1, <4>1, <4>2
    <3>2. CASE m = at[w] /\ k = sends[m] + 1
      BY <2>n, <2>0, <3>2
    <3>3. CASE m = at[w] /\ k # sends[m] + 1
      <4>1. k \in 1..sends[m]  BY <2>n, <2>0, <3>3
      <4>2. Accounted(m, k)  BY <4>1
      <4>3. <<m, k>> \in abandoned  BY <1>0, <1>6, <2>n, <3>3, <4>2 DEF Send
      <4> QED BY <2>0, <4>3
    <3> QED BY <3>1, <3>2, <3>3
  <2>4. HashMeansBurned'  BY <1>0, <1>t, <1>6 DEF Send, Goto
  <2> QED BY <2>1, <2>2, <2>3, <2>4
<1>7. ASSUME NEW w \in Workers, PollSucceeds(w)
      PROVE  BurnInv'
  BY <1>0, <1>t, <1>7 DEF PollSucceeds, Goto
<1>8. ASSUME NEW w \in Workers, SendFails(w)
      PROVE  BurnInv'
  BY <1>0, <1>t, <1>8 DEF SendFails, Goto
<1>9. ASSUME NEW w \in Workers, Reset(w)
      PROVE  BurnInv'
  <2>1. StageInv'  BY <1>0, <1>t, <1>9 DEF Reset, FailAttempt, Leave, Goto
  <2>2. SentInv'  BY <1>0, <1>t, <1>9 DEF Reset, FailAttempt, Leave, Goto
  <2>0. /\ \A v \in Workers \ {w} : pc'[v] = pc[v] /\ at'[v] = at[v]
        /\ mark[at[w]] # "hash" /\ pc[w] = "reset"
        /\ \A m \in Rets \ {at[w]} : mark'[m] = mark[m]
        /\ UNCHANGED <<tx, sends, landed, abandoned>>
    BY <1>0, <1>t, <1>9 DEF Reset, FailAttempt, Leave, Goto
  <2>3. AccountInv'
    <3> SUFFICES ASSUME NEW m \in Rets, NEW k \in 1..sends[m]
                 PROVE  Accounted(m, k)'
      BY <2>0
    <3>1. Accounted(m, k)  OBVIOUS
    <3> QED BY <2>0, <3>1
  <2>4. HashMeansBurned'  BY <1>0, <1>t, <1>9 DEF Reset, FailAttempt, Leave, Goto
  <2> QED BY <2>1, <2>2, <2>3, <2>4
<1>10. ASSUME NEW w \in Workers, Confirm(w)
       PROVE  BurnInv'
  <2>1. StageInv'  BY <1>0, <1>t, <1>10 DEF Confirm, Goto
  <2>2. SentInv'  BY <1>0, <1>t, <1>10 DEF Confirm, Goto
  <2>0. /\ \A v \in Workers \ {w} : pc'[v] = pc[v] /\ (pc[v] # "idle" => at[v] # at[w])
        /\ mark[at[w]] = "pending" /\ pc[w] = "confirm" /\ at[w] \in Rets
        /\ mark'[at[w]] = "hash" /\ tx'[at[w]] = sends[at[w]]
        /\ \A m \in Rets \ {at[w]} : mark'[m] = mark[m] /\ tx'[m] = tx[m]
        /\ UNCHANGED <<at, sends, landed, abandoned>>
    BY <1>0, <1>t, <1>10 DEF Confirm, Goto
  <2>3. AccountInv'
    <3> SUFFICES ASSUME NEW m \in Rets, NEW k \in 1..sends[m]
                 PROVE  Accounted(m, k)'
      BY <2>0
    <3>1. Accounted(m, k)  OBVIOUS
    <3>2. CASE m = at[w]  BY <2>0, <3>1, <3>2
    <3>3. CASE m # at[w]
      <4>1. \A v \in Workers : pc[v] \in {"poll", "confirm"} /\ at[v] = m => pc'[v] = pc[v]
        BY <2>0, <3>3
      <4> QED BY <2>0, <3>1, <3>3, <4>1
    <3> QED BY <3>2, <3>3
  <2>4. HashMeansBurned'  BY <1>0, <1>t, <1>10 DEF Confirm, Goto
  <2> QED BY <2>1, <2>2, <2>3, <2>4
<1>11. ASSUME NEW w \in Workers, Notify(w) \/ TakeNumber(w) \/ Upload(w)
       PROVE  BurnInv'
  BY <1>0, <1>t, <1>11 DEF Notify, TakeNumber, Upload, Goto
<1>12. ASSUME NEW w \in Workers, UploadFails(w) \/ SaveCertificate(w)
       PROVE  BurnInv'
  BY <1>0, <1>t, <1>12 DEF UploadFails, SaveCertificate, Complete, Leave, Goto
<1>13. ASSUME NEW w \in Workers, DatabaseFails(w)
       PROVE  BurnInv'
  BY <1>0, <1>t, <1>13 DEF DatabaseFails, SendErrors, FailAttempt, Complete, Leave, Goto
<1>14. ASSUME NEW w \in Workers, WorkerDies(w)
       PROVE  BurnInv'
  BY <1>0, <1>t, <1>14 DEF WorkerDies, Leave, Goto
<1>15. ASSUME NEW t \in flying, Land(t) \/ Drop(t)
       PROVE  BurnInv'
  BY <1>0, <1>t, <1>15 DEF Land, Drop
<1>16. ASSUME NEW t \in landed, IndexRetirement(t)
       PROVE  BurnInv'
  BY <1>16 DEF IndexRetirement
<1>17. CASE UNCHANGED vars
  BY <1>17 DEF vars
<1> QED BY <1>1, <1>2, <1>3, <1>4, <1>5, <1>6, <1>7, <1>8, <1>9, <1>10, <1>11, <1>12,
           <1>13, <1>14, <1>15, <1>16, <1>17
        DEF Next, Retire, WorkerStep
-----------------------------------------------------------------------------
(* Certificates                                                            *)

LEMMA NumberStep == TypeInv /\ BurnInv /\ NumberInv /\ [Next]_vars => NumberInv'
<1> SUFFICES ASSUME TypeInv, BurnInv, NumberInv, [Next]_vars
             PROVE  NumberInv'
  OBVIOUS
<1> USE DEF NumberInv, Holds, Behind
<1>0. /\ \A w \in Workers : pc[w] # "idle" => at[w] \in Rets /\ mark[at[w]] # "absent"
      /\ \A v, w \in Workers : pc[v] # "idle" /\ pc[w] # "idle" /\ at[v] = at[w] => v = w
  BY OneWorker DEF TypeInv, TypeOK, Rows
<1>1. /\ pc \in [Workers -> Labels] /\ at \in [Workers -> 0..MaxRets]
      /\ number \in [Workers -> Nat] /\ sequence \in Nat
      /\ mark \in [Rets -> {"absent", "empty", "pending", "hash"}]
      /\ certificate \in [Rets -> Nat]
  BY DEF TypeInv, TypeOK
<1>2. \A w \in Workers :
        /\ pc[w] \in {"mark", "reset"} => mark[at[w]] # "hash"
        /\ pc[w] = "confirm" => mark[at[w]] = "pending"
        /\ pc[w] = "certify" => mark[at[w]] = "hash"
  BY DEF BurnInv, StageInv, Before, Around
<1>3. ASSUME NEW n \in Rets, NEW a \in Amounts, CheckBalance(n, a)
      PROVE  NumberInv'
  BY <1>3 DEF CheckBalance
<1>4. ASSUME NEW n \in Rets, SaveRetirement(n)
      PROVE  NumberInv'
  <2>1. mark[n] = "absent"  BY <1>4 DEF SaveRetirement, TypeInv, RowsInv
  <2> QED BY <1>1, <1>4, <2>1 DEF SaveRetirement
<1>5. ASSUME NEW n \in Rets, QueueJob(n) \/ RequestFails(n)
      PROVE  NumberInv'
  BY <1>5 DEF QueueJob, RequestFails
<1>6. ASSUME NEW w \in Workers, NEW n \in Rets, TakeJob(w, n)
      PROVE  NumberInv'
  BY <1>1, <1>6 DEF TakeJob, Goto
<1>7. ASSUME NEW w \in Workers, MarkPending(w)
      PROVE  NumberInv'
  BY <1>0, <1>1, <1>2, <1>7 DEF MarkPending, Goto
<1>8. ASSUME NEW w \in Workers, Send(w) \/ PollSucceeds(w) \/ SendFails(w) \/ Notify(w)
      PROVE  NumberInv'
  BY <1>1, <1>8 DEF Send, PollSucceeds, SendFails, Notify, Goto
<1>9. ASSUME NEW w \in Workers, Reset(w)
      PROVE  NumberInv'
  BY <1>0, <1>1, <1>2, <1>9 DEF Reset, FailAttempt, Leave, Goto
<1>10. ASSUME NEW w \in Workers, Confirm(w)
       PROVE  NumberInv'
  BY <1>0, <1>1, <1>2, <1>10 DEF Confirm, Goto
<1>11. ASSUME NEW w \in Workers, TakeNumber(w)
       PROVE  NumberInv'
  BY <1>0, <1>1, <1>11 DEF TakeNumber, NextVal, Goto
<1>12. ASSUME NEW w \in Workers, Upload(w)
       PROVE  NumberInv'
  BY <1>1, <1>12 DEF Upload, Goto
<1>13. ASSUME NEW w \in Workers, UploadFails(w)
       PROVE  NumberInv'
  BY <1>1, <1>13 DEF UploadFails, Complete, Leave, Goto
<1>14. ASSUME NEW w \in Workers, SaveCertificate(w)
       PROVE  NumberInv'
  BY <1>0, <1>1, <1>2, <1>14 DEF SaveCertificate, Complete, Leave, Goto
<1>15. ASSUME NEW w \in Workers, DatabaseFails(w)
       PROVE  NumberInv'
  BY <1>1, <1>15 DEF DatabaseFails, SendErrors, FailAttempt, Complete, Leave, Goto
<1>16. ASSUME NEW w \in Workers, WorkerDies(w)
       PROVE  NumberInv'
  BY <1>1, <1>16 DEF WorkerDies, Leave, Goto
<1>17. ASSUME NEW t, Land(t) \/ Drop(t) \/ IndexRetirement(t)
       PROVE  NumberInv'
  BY <1>17 DEF Land, Drop, IndexRetirement
<1>18. CASE UNCHANGED vars
  BY <1>18 DEF vars
<1> QED BY <1>3, <1>4, <1>5, <1>6, <1>7, <1>8, <1>9, <1>10, <1>11, <1>12, <1>13, <1>14,
           <1>15, <1>16, <1>17, <1>18
        DEF Next, Retire, WorkerStep

-----------------------------------------------------------------------------
(* Theorems                                                                *)

\* The inductive invariant holds in every reachable state.
THEOREM Invariance == Spec => []IInv
<1>1. IInv /\ [Next]_vars => IInv'
  BY TypeStep, BurnStep, NumberStep DEF IInv
<1> QED BY InitInv, <1>1, PTL DEF Spec

LEMMA Truthful == IInv => RowsTruthful
<1> SUFFICES ASSUME IInv
             PROVE  RowsTruthful
  OBVIOUS
<1>1. ASSUME NEW m \in Rows, NEW n \in Rows, certificate[m] # 0
      PROVE  /\ mark[m] = "hash"
             /\ certificate[n] # 0 /\ m # n =>
                  CertificateNumber(certificate[m]) # CertificateNumber(certificate[n])
  <2>1. m \in Rets /\ n \in Rets  BY DEF Rows
  <2>2. certificate[m] \in Nat /\ certificate[n] \in Nat
    BY <2>1 DEF IInv, TypeInv, TypeOK
  <2>3. mark[m] = "hash" /\ (m # n => certificate[m] # certificate[n])
    BY <1>1, <2>1 DEF IInv, NumberInv
  <2> QED BY <2>2, <2>3, SameCertificate
<1>2. TypeOK /\ HashMeansBurned  BY DEF IInv, TypeInv, BurnInv
<1> QED BY <1>1, <1>2 DEF RowsTruthful, CertificatesUnique

\* A landed transaction that nobody gave up is the recorded one of its row, or the
\* last one of a row whose worker is still on it.
LEMMA Recorded ==
  ASSUME IInv, NEW t \in landed \ abandoned
  PROVE  /\ t[1] \in Rets /\ t[2] \in 1..sends[t[1]] /\ t = <<t[1], t[2]>>
         /\ \/ mark[t[1]] = "hash" /\ tx[t[1]] = t[2]
            \/ /\ mark[t[1]] = "pending" /\ t[2] = sends[t[1]]
               /\ \E w \in Workers : pc[w] \in {"poll", "confirm"} /\ at[w] = t[1]
<1>1. t \in Rets \X Nat  BY DEF IInv, TypeInv, TypeOK
<1>2. t[1] \in Rets /\ t[2] \in 1..sends[t[1]] /\ t = <<t[1], t[2]>>
  BY <1>1 DEF IInv, BurnInv, SentInv
<1>3. Accounted(t[1], t[2])  BY <1>2 DEF IInv, BurnInv, AccountInv
<1>4. \A w \in Workers : pc[w] \in {"poll", "confirm"} => mark[at[w]] = "pending"
  BY DEF IInv, BurnInv, StageInv, Around
<1> QED BY <1>2, <1>3, <1>4 DEF Accounted

LEMMA Once == IInv => BurnedOnceUnlessAbandoned
<1> SUFFICES ASSUME IInv, NEW n \in Rets
             PROVE  Cardinality(Burns(n) \ abandoned) <= 1
  BY DEF BurnedOnceUnlessAbandoned
<1> DEFINE S == Burns(n) \ abandoned
<1>1. ASSUME NEW s \in S, NEW t \in S
      PROVE  s = t
  <2>1. s \in landed \ abandoned /\ t \in landed \ abandoned /\ s[1] = n /\ t[1] = n
    BY DEF Burns
  <2>2. s[2] = t[2]  BY <2>1, Recorded
  <2> QED BY <2>1, <2>2, Recorded
<1>2. CASE S = {}  BY <1>2, FS_EmptySet
<1>3. CASE S # {}
  <2>1. PICK t \in S : TRUE  BY <1>3
  <2>2. S = {t}  BY <1>1, <2>1
  <2> QED BY <2>2, FS_Singleton
<1> QED BY <1>2, <1>3

LEMMA Known == IInv => BurnsAccounted
<1> SUFFICES ASSUME IInv, NEW t \in landed \ abandoned
             PROVE  \/ mark[t[1]] = "hash" /\ tx[t[1]] = t[2]
                    \/ \E w \in Workers : pc[w] \in {"poll", "confirm"} /\ Current(w) = t
  BY DEF BurnsAccounted
<1> QED BY Recorded DEF Current

\* What is confirmed stays as it is: no retry, error or late event takes a hash or
\* a certificate from a row again, or replaces it.
ConfirmationFinal ==
  [][\A n \in Rets :
       /\ mark[n] = "hash" => mark'[n] = "hash" /\ tx'[n] = tx[n]
       /\ certificate[n] # 0 => certificate'[n] = certificate[n]]_vars

LEMMA Final ==
  ASSUME IInv, [Next]_vars, NEW n \in Rets
  PROVE  /\ mark[n] = "hash" => mark'[n] = "hash" /\ tx'[n] = tx[n]
         /\ certificate[n] # 0 => certificate'[n] = certificate[n]
<1>1. /\ mark \in [Rets -> {"absent", "empty", "pending", "hash"}] /\ tx \in [Rets -> Nat]
      /\ certificate \in [Rets -> Nat]
      /\ \A m \in Rets : request[m] = "save" => mark[m] = "absent"
  BY DEF IInv, TypeInv, TypeOK, RowsInv
<1>2. \A w \in Workers :
        /\ pc[w] \in {"mark", "reset", "confirm"} => mark[at[w]] # "hash"
        /\ pc[w] = "certify" => certificate[at[w]] = 0
  BY DEF IInv, BurnInv, StageInv, NumberInv, Before, Around, Behind
<1>3. ASSUME UNCHANGED <<mark, tx, certificate>>
      PROVE  mark'[n] = mark[n] /\ tx'[n] = tx[n] /\ certificate'[n] = certificate[n]
  BY <1>3
<1>4. ASSUME NEW m \in Rets, Retire(m)
      PROVE  (mark[n] = "hash" => mark'[n] = "hash") /\ UNCHANGED <<tx, certificate>>
  BY <1>1, <1>4 DEF Retire, CheckBalance, SaveRetirement, QueueJob, RequestFails
<1>5. ASSUME NEW w \in Workers, MarkPending(w) \/ Reset(w) \/ Confirm(w) \/ SaveCertificate(w)
      PROVE  /\ mark[n] = "hash" => mark'[n] = "hash" /\ tx'[n] = tx[n]
             /\ certificate[n] # 0 => certificate'[n] = certificate[n]
  BY <1>1, <1>2, <1>5 DEF MarkPending, Reset, Confirm, SaveCertificate
<1>6. ASSUME NEW w \in Workers,
             \/ \E m \in Rets : TakeJob(w, m)
             \/ Send(w) \/ PollSucceeds(w) \/ SendFails(w) \/ Notify(w) \/ TakeNumber(w)
             \/ Upload(w) \/ UploadFails(w) \/ DatabaseFails(w) \/ WorkerDies(w)
      PROVE  UNCHANGED <<mark, tx, certificate>>
  BY <1>6 DEF TakeJob, Send, PollSucceeds, SendFails, Notify, TakeNumber, Upload,
              UploadFails, DatabaseFails, WorkerDies
<1>7. ASSUME NEW t, Land(t) \/ Drop(t) \/ IndexRetirement(t)
      PROVE  UNCHANGED <<mark, tx, certificate>>
  BY <1>7 DEF Land, Drop, IndexRetirement
<1>8. CASE UNCHANGED vars  BY <1>3, <1>8 DEF vars
<1> QED BY <1>3, <1>4, <1>5, <1>6, <1>7, <1>8 DEF Next, WorkerStep

\* What a wallet is shown of its retirements is true: a hash means a burn that
\* landed, and certificate numbers are unique and only on confirmed rows.
THEOREM RowsAreTruthful == Spec => []RowsTruthful
BY Invariance, Truthful, PTL

\* Of all the burns of a retirement, at most one is not that of an attempt that
\* gave its transaction up.
THEOREM BurnedAtMostOnce == Spec => []BurnedOnceUnlessAbandoned
BY Invariance, Once, PTL

\* Every other burn is in its row, or its worker is about to record it.
THEOREM BurnsAreAccounted == Spec => []BurnsAccounted
BY Invariance, Known, PTL

\* A confirmed row keeps its hash, and a certificate is never replaced.
THEOREM ConfirmationIsFinal == Spec => ConfirmationFinal
<1>1. IInv /\ [Next]_vars =>
        [\A n \in Rets :
           /\ mark[n] = "hash" => mark'[n] = "hash" /\ tx'[n] = tx[n]
           /\ certificate[n] # 0 => certificate'[n] = certificate[n]]_vars
  BY Final
<1> QED BY Invariance, <1>1, PTL DEF Spec, ConfirmationFinal
=============================================================================
