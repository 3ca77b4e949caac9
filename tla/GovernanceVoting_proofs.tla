------------------------ MODULE GovernanceVoting_proofs ------------------------
(* Theorems about GovernanceVoting, for any number of proposals, voters,        *)
(* executors, registrations and faults, either quorum model and any answers of   *)
(* countEligible.                                                                *)
EXTENDS GovernanceVoting, FiniteSetTheorems, TLAPS

USE DEF voteVars, execVars, chainVars, indexVars, histVars

-----------------------------------------------------------------------------
(* The inductive invariant                                                 *)

\* A deadline comes after the creation has settled; who executes has read a passed
\* proposal; the indexer holds an event of the contract.
StepsInv ==
  /\ \A p \in Proposals : clock[p] # "voting" => creator[p].step = "done"
  /\ \A x \in Executors :
       pc[x] # "idle" => copy[x].status = "passed" /\ (pc[x] # "register" => copy[x].id # 0)
  /\ watch # Idle => watch.of \in Proposals /\ watch.event \in executed

TypeInv == TypeOK /\ StepsInv

\* What is not created has no row, and what has no row no number.
RowsInv ==
  /\ \A p \in Proposals :
       /\ creator[p].step = "none" => row[p].status = "absent"
       /\ row[p].status = "absent" => row[p].id = 0
  /\ watch # Idle => creator[watch.of].step # "none"

Majority(p) ==
  Cardinality(Ballots(p, "yes") \ late[p]) > Cardinality(Ballots(p, "no") \ late[p])

\* Late ballots come only after the decision, and the decision stays the majority
\* while an executor holds the proposal.
VotesInv ==
  /\ CountersAreBallots
  /\ \A p \in Proposals : late[p] \cap Ballots(p, "none") = {}
  /\ \A p \in Proposals \ overwritten :
       /\ row[p].status \in {"absent", "active"} => late[p] = {}
       /\ row[p].status = "passed" => Majority(p)
  /\ \A x \in Executors : pc[x] # "idle" /\ at[x] \notin overwritten =>
       row[at[x]].status \notin {"absent", "active"} /\ Majority(at[x])

\* Numbers that anybody has got hold of.
Held ==
  {row[p].id : p \in Proposals} \cup {copy[x].id : x \in Executors} \cup flying \cup executed

Issued == 1..Len(issued)
Own(p, i) == i \in Issued /\ issued[i].of = p

\* A number belongs to its proposal, but for those the indexer guessed.
NumbersInv ==
  /\ Held \subseteq Issued \cup {0, Foreign}
  /\ \A p \in Proposals : creator[p].step = "save" => Own(p, creator[p].id)
                            /\ issued[creator[p].id].by = "creation"
  /\ \A p \in Proposals \ guessed : row[p].id # 0 => Own(p, row[p].id)
  /\ \A x \in Executors : copy[x].id # 0 /\ at[x] \notin guessed => Own(at[x], copy[x].id)
  /\ watch # Idle /\ watch.of \notin guessed => Own(watch.of, watch.event)
  /\ \A x \in Executors : pc[x] = "record" => copy[x].id \in executed
  /\ ExecutedOnChain

\* A number of the creation is the only one of its proposal once anybody holds it.
OnceInv ==
  /\ \A i, j \in Issued :
       issued[i].by = "creation" /\ issued[j].by = "creation" /\ issued[i].of = issued[j].of
         => i = j
  /\ \A i \in Issued :
       LET p == issued[i].of IN
       /\ issued[i].by = "creation" => creator[p].step \in {"save", "done"}
       /\ issued[i].by = "execution" => creator[p].step = "done"
       /\ issued[i].by = "creation" /\ i \in Held =>
            /\ \A j \in Issued : issued[j].of = p => j = i
            /\ row[p].id # 0
            /\ \A x \in Executors : pc[x] = "register" => at[x] # p

IInv == TypeInv /\ RowsInv /\ VotesInv /\ NumbersInv /\ OnceInv

-----------------------------------------------------------------------------
(* Rows                                                                    *)

\* The assumptions, in the form in which steps use them.
LEMMA Bounds ==
  /\ Proposals \subseteq 0..MaxProposals /\ 0 \notin Proposals /\ MaxProposals \in Nat
  /\ MaxIds \in Nat /\ Foreign = MaxIds + 1 /\ Foreign \in Nat /\ Ids = 1..Foreign
  /\ MaxFaults \in Nat /\ EligibleCounts \subseteq Nat /\ IsFiniteSet(Voters)
BY GovernanceConstants DEF Proposals, Foreign, Ids

LEMMA NoRowType == NoRow \in RowTypes
BY Bounds DEF NoRow, RowTypes, Statuses

LEMMA IdleType == Idle \in [event : 0..Foreign, of : 0..MaxProposals, entity : RowTypes]
BY Bounds, NoRowType DEF Idle

\* One more vote.
LEMMA CountedType ==
  ASSUME NEW r \in RowTypes, NEW s \in {"yes", "no"}
  PROVE  /\ Counted(r, s) \in RowTypes
         /\ Counted(r, s).status = r.status /\ Counted(r, s).id = r.id
         /\ Counted(r, s).yes = IF s = "yes" THEN r.yes + 1 ELSE r.yes
         /\ Counted(r, s).no = IF s = "no" THEN r.no + 1 ELSE r.no
BY DEF Counted, RowTypes

LEMMA NumberedType ==
  ASSUME NEW r \in RowTypes, NEW i \in 0..Foreign
  PROVE  /\ [r EXCEPT !.id = i] \in RowTypes
         /\ [r EXCEPT !.id = i].id = i /\ [r EXCEPT !.id = i].status = r.status
         /\ [r EXCEPT !.id = i].yes = r.yes /\ [r EXCEPT !.id = i].no = r.no
BY DEF RowTypes

\* The decision changes the status only, and passes by a majority only.
LEMMA DecidedType ==
  ASSUME NEW r \in RowTypes, NEW n
  PROVE  /\ Decided(r, n) \in RowTypes
         /\ Decided(r, n).id = r.id
         /\ Decided(r, n).yes = r.yes /\ Decided(r, n).no = r.no
         /\ Decided(r, n).status \in {r.status, "passed", "rejected"}
         /\ Decided(r, n).status = "passed" /\ r.status # "passed" => r.yes > r.no
BY DEF Decided, RowTypes, Statuses

LEMMA InitInv == Init => IInv
<1> SUFFICES ASSUME Init
             PROVE  IInv
  OBVIOUS
<1>1. TypeOK  BY Bounds, NoRowType DEF Init, TypeOK, Idle
<1>2. StepsInv /\ RowsInv  BY DEF Init, StepsInv, RowsInv, NoRow
<1>3. VotesInv  
  <2>1. \A p \in Proposals, s \in {"yes", "no"} : Ballots(p, s) = {}  BY DEF Init, Ballots
  <2> QED BY <2>1, FS_EmptySet DEF Init, VotesInv, CountersAreBallots, NoRow
<1>4. NumbersInv  BY DEF Init, NumbersInv, Held, NoRow, ExecutedOnChain
<1>5. OnceInv  BY DEF Init, OnceInv, Issued
<1> QED BY <1>1, <1>2, <1>3, <1>4, <1>5 DEF IInv, TypeInv

-----------------------------------------------------------------------------
(* Types                                                                   *)

\* What a save does to the rows.
LEMMA SaveType ==
  ASSUME TypeOK, NEW p \in Proposals, NEW e \in RowTypes, Save(p, e)
  PROVE  /\ row' \in [Proposals -> RowTypes] /\ overwritten' \subseteq Proposals
         /\ row'[p] = e /\ \A q \in Proposals \ {p} : row'[q] = row[q]
         /\ overwritten \subseteq overwritten' /\ overwritten' \subseteq overwritten \cup {p}
         /\ p \notin overwritten' => e.yes = row[p].yes /\ e.no = row[p].no
BY DEF TypeOK, Save

\* What an update of the status does to the rows.
LEMMA StatusType ==
  ASSUME TypeOK, NEW p \in Proposals, NEW s \in Statuses,
         row' = [row EXCEPT ![p].status = s]
  PROVE  /\ row' \in [Proposals -> RowTypes]
         /\ row'[p].status = s /\ row'[p].id = row[p].id
         /\ row'[p].yes = row[p].yes /\ row'[p].no = row[p].no
         /\ \A q \in Proposals \ {p} : row'[q] = row[q]
BY DEF TypeOK, RowTypes

\* What a registration does to the list of numbers.
LEMMA IssueType ==
  ASSUME TypeOK, NEW p \in Proposals, NEW b \in {"creation", "execution"},
         Len(issued) < MaxIds, issued' = Append(issued, [of |-> p, by |-> b])
  PROVE  /\ issued' \in Seq([of : Proposals, by : {"creation", "execution"}])
         /\ Len(issued') = Len(issued) + 1 /\ Len(issued') <= MaxIds
         /\ Len(issued) + 1 \in 1..MaxIds /\ Len(issued) \in Nat
         /\ issued'[Len(issued) + 1] = [of |-> p, by |-> b]
         /\ \A i \in 1..Len(issued) : issued'[i] = issued[i]
<1>1. [of |-> p, by |-> b] \in [of : Proposals, by : {"creation", "execution"}]  OBVIOUS
<1> DEFINE e == [of |-> p, by |-> b]
<1> HIDE DEF e
<1>2. issued' = Append(issued, e)  BY DEF e
<1>3. e \in [of : Proposals, by : {"creation", "execution"}]  BY DEF e
<1> DEFINE T == [of : Proposals, by : {"creation", "execution"}]
<1>4. issued \in Seq(T) /\ e \in T  BY <1>3 DEF TypeOK
<1> HIDE DEF T
<1>5. /\ issued' \in Seq(T) /\ Len(issued') = Len(issued) + 1 /\ Len(issued) \in Nat
      /\ issued'[Len(issued) + 1] = e /\ \A i \in 1..Len(issued) : issued'[i] = issued[i]
  BY <1>2, <1>4
<1> QED BY <1>5, Bounds DEF e, T

\* What the end of an execution does to its locals.
LEMMA LeaveType ==
  ASSUME TypeOK, NEW x \in Executors, Leave(x)
  PROVE  /\ pc' \in [Executors -> {"idle", "register", "save", "execute", "record"}]
         /\ at' \in [Executors -> 0..MaxProposals] /\ copy' \in [Executors -> RowTypes]
         /\ pc'[x] = "idle" /\ copy'[x].id = 0
         /\ \A y \in Executors \ {x} : pc'[y] = pc[y] /\ at'[y] = at[y] /\ copy'[y] = copy[y]
BY Bounds, NoRowType DEF TypeOK, Leave, Goto, NoRow

LEMMA LeaveKeeps ==
  ASSUME TypeInv, NEW x \in Executors, Leave(x),
         row' \in [Proposals -> RowTypes], flying' \subseteq Ids, faults' \in 0..MaxFaults,
         UNCHANGED <<voteVars, clock, creator, issued, executed, indexVars, histVars>>
  PROVE  TypeInv'
<1> USE DEF TypeInv, TypeOK, StepsInv
<1>1. /\ pc' \in [Executors -> {"idle", "register", "save", "execute", "record"}]
      /\ at' \in [Executors -> 0..MaxProposals] /\ copy' \in [Executors -> RowTypes]
      /\ pc'[x] = "idle"
      /\ \A y \in Executors \ {x} : pc'[y] = pc[y] /\ at'[y] = at[y] /\ copy'[y] = copy[y]
  BY LeaveType
<1>2. \A y \in Executors : pc'[y] # "idle" => y # x  BY <1>1
<1>3. \A y \in Executors : pc'[y] # "idle" => at'[y] \in Proposals /\ clock'[at'[y]] = "unlocked"
  BY <1>1, <1>2
<1>4. \A y \in Executors :
        pc'[y] # "idle" => copy'[y].status = "passed" /\ (pc'[y] # "register" => copy'[y].id # 0)
  BY <1>1, <1>2
<1>5. \A y \in Executors : pc'[y] \in {"execute", "record"} => copy'[y].id # 0  BY <1>4
<1>6. StepsInv'  BY <1>4
<1>7. TypeOK'
  <2> HIDE DEF StepsInv
  <2> QED BY <1>1, <1>3, <1>5
<1> QED BY <1>6, <1>7

LEMMA CreateType ==
  ASSUME TypeInv, NEW p \in Proposals, Create(p) \/ CreationFails(p)
  PROVE  TypeInv'
<1> USE DEF TypeInv, TypeOK, StepsInv
<1>1. CASE InsertProposal(p)
  <2>1. row' \in [Proposals -> RowTypes]
    BY <1>1, StatusType DEF InsertProposal, Statuses
  <2> QED BY <1>1, <2>1 DEF InsertProposal
<1>2. CASE RegisterAtCreation(p)
  <2> HIDE DEF TypeInv, TypeOK, StepsInv
  <2>0. /\ Len(issued) < MaxIds /\ issued' = Append(issued, [of |-> p, by |-> "creation"])
    BY <1>2 DEF RegisterAtCreation
  <2>t. TypeOK  BY DEF TypeInv
  <2>1. /\ issued' \in Seq([of : Proposals, by : {"creation", "execution"}])
        /\ Len(issued') <= MaxIds /\ Len(issued) + 1 \in 1..MaxIds
    BY <2>0, <2>t, IssueType
  <2>2. creator' \in [Proposals -> [step : {"none", "register", "save", "done"}, id : 0..MaxIds]]
    BY <1>2, <2>1, <2>t, Bounds DEF RegisterAtCreation, TypeOK
  <2>3. \A q \in Proposals : creator[q].step = "done" => creator'[q].step = "done"
    BY <1>2, <2>t DEF RegisterAtCreation, TypeOK
  <2>4. TypeOK'  BY <1>2, <2>1, <2>t, <2>2 DEF RegisterAtCreation, TypeOK
  <2> QED BY <1>2, <2>3, <2>4 DEF RegisterAtCreation, TypeInv, StepsInv
<1>3. CASE RegistrationDeferred(p)
  BY <1>3 DEF RegistrationDeferred
<1>4. CASE SaveChainId(p)
  <2> DEFINE e == [status |-> "active", yes |-> 0, no |-> 0, id |-> creator[p].id]
  <2>1. e \in RowTypes  BY Bounds DEF RowTypes, Statuses
  <2> HIDE DEF e
  <2>2. Save(p, e)  BY <1>4 DEF SaveChainId, e
  <2>3. row' \in [Proposals -> RowTypes] /\ overwritten' \subseteq Proposals
    BY <2>1, <2>2, SaveType
  <2> QED BY <1>4, <2>3 DEF SaveChainId
<1>5. CASE CreationFails(p)
  <2>1. faults' \in 0..MaxFaults  BY <1>5, Bounds DEF CreationFails
  <2> QED BY <1>5, <2>1 DEF CreationFails
<1> QED BY <1>1, <1>2, <1>3, <1>4, <1>5 DEF Create

LEMMA VoteType ==
  ASSUME TypeInv, NEW p \in Proposals, NEW v \in Voters, NEW s \in {"yes", "no"},
         Vote(p, v, s) \/ IndexVote(p, v, s)
  PROVE  TypeInv'
<1> USE DEF TypeInv, TypeOK, StepsInv
<1>1. CASE Vote(p, v, s)
  BY <1>1, CountedType, DecidedType DEF Vote
<1>2. CASE IndexVote(p, v, s)
  BY <1>2, CountedType DEF IndexVote
<1> QED BY <1>1, <1>2

LEMMA ClockType ==
  ASSUME TypeInv, NEW p \in Proposals, CheckExpiry(p) \/ TimePasses(p)
  PROVE  TypeInv'
<1> USE DEF TypeInv, TypeOK, StepsInv
<1>1. CASE CheckExpiry(p)
  <2>1. row' \in [Proposals -> RowTypes]
    BY <1>1, StatusType DEF CheckExpiry, Statuses
  <2> QED BY <1>1, <2>1 DEF CheckExpiry
<1>2. CASE TimePasses(p)
  BY <1>2 DEF TimePasses
<1> QED BY <1>1, <1>2

LEMMA ExecuteType ==
  ASSUME TypeInv, NEW x \in Executors, Execute(x) \/ ExecutorFails(x)
  PROVE  TypeInv'
<1> USE DEF TypeInv, TypeOK, StepsInv
<1>1. ASSUME NEW p \in Proposals, LoadProposal(x, p)
      PROVE  TypeInv'
  BY <1>1, Bounds DEF LoadProposal, MayExecute, Goto
<1>2. CASE RegisterNow(x)
  <2>1. at[x] \in Proposals /\ Len(issued) < MaxIds
        /\ issued' = Append(issued, [of |-> at[x], by |-> "execution"])
    BY <1>2 DEF RegisterNow
  <2>2. /\ issued' \in Seq([of : Proposals, by : {"creation", "execution"}])
        /\ Len(issued') <= MaxIds /\ Len(issued) + 1 \in 1..Foreign
    <3> DEFINE p == at[x]
    <3>1. /\ TypeOK /\ p \in Proposals /\ Len(issued) < MaxIds
          /\ issued' = Append(issued, [of |-> p, by |-> "execution"])
      BY <2>1
    <3> HIDE DEF p, TypeInv, TypeOK, StepsInv
    <3>2. /\ issued' \in Seq([of : Proposals, by : {"creation", "execution"}])
          /\ Len(issued') <= MaxIds /\ Len(issued) + 1 \in 1..MaxIds
      BY <3>1, IssueType
    <3> QED BY <3>2, Bounds
  <2>3. /\ copy' \in [Executors -> RowTypes] /\ copy'[x].id # 0
        /\ copy'[x].status = copy[x].status
        /\ \A y \in Executors \ {x} : copy'[y] = copy[y]
    <3> DEFINE e == [copy[x] EXCEPT !.id = Len(issued) + 1]
    <3>1. e \in RowTypes /\ e.id # 0 /\ e.status = copy[x].status
      <4>1. copy[x] \in RowTypes  BY DEF RowTypes
      <4>2. Len(issued) + 1 \in 0..Foreign /\ Len(issued) + 1 # 0  BY <2>2, Bounds
      <4> QED BY <4>1, <4>2, NumberedType
    <3>2. copy' = [copy EXCEPT ![x] = e]  BY <1>2 DEF RegisterNow
    <3> HIDE DEF e
    <3> QED BY <3>1, <3>2
  <2> QED BY <1>2, <2>2, <2>3 DEF RegisterNow, Goto
<1>3. CASE SaveNumber(x)
  <2>1. /\ TypeOK /\ at[x] \in Proposals /\ copy[x] \in RowTypes /\ Save(at[x], copy[x])
    BY <1>3 DEF SaveNumber
  <2>2. row' \in [Proposals -> RowTypes] /\ overwritten' \subseteq Proposals
    <3> HIDE DEF TypeInv, TypeOK, StepsInv
    <3> QED BY <2>1, SaveType
  <2> QED BY <1>3, <2>2 DEF SaveNumber, Goto
<1>4. CASE ExecuteOnChain(x)
  <2>1. copy[x].id \in Ids  BY <1>4, Bounds DEF ExecuteOnChain, RowTypes
  <2> QED BY <1>4, <2>1 DEF ExecuteOnChain, Goto
<1>5. CASE CallFails(x)
  <2>1. pc[x] = "execute" => copy[x].id \in Ids  BY Bounds DEF RowTypes
  <2>2. flying' \subseteq Ids  BY <1>5, <2>1 DEF CallFails
  <2>3. Leave(x)  BY <1>5 DEF CallFails
  <2> HIDE DEF TypeInv, TypeOK, StepsInv
  <2> QED BY <1>5, <2>2, <2>3, LeaveKeeps DEF CallFails, TypeInv, TypeOK
<1>6. CASE RecordExecution(x)
  <2>1. row' \in [Proposals -> RowTypes]
    BY <1>6, StatusType DEF RecordExecution, Statuses
  <2>2. Leave(x)  BY <1>6 DEF RecordExecution
  <2> HIDE DEF TypeInv, TypeOK, StepsInv
  <2> QED BY <1>6, <2>1, <2>2, LeaveKeeps DEF RecordExecution, TypeInv, TypeOK
<1>7. CASE ExecutorFails(x)
  <2>1. faults' \in 0..MaxFaults  BY <1>7, Bounds DEF ExecutorFails
  <2>2. Leave(x)  BY <1>7 DEF ExecutorFails
  <2> HIDE DEF TypeInv, TypeOK, StepsInv
  <2> QED BY <1>7, <2>1, <2>2, LeaveKeeps DEF ExecutorFails, TypeInv, TypeOK
<1> QED BY <1>1, <1>2, <1>3, <1>4, <1>5, <1>6, <1>7 DEF Execute

LEMMA EventType ==
  ASSUME TypeInv,
         \/ \E i \in Ids : LandLate(i) \/ LoadExecuted(i)
         \/ ExecuteForeign \/ SaveExecuted \/ IndexerFails
  PROVE  TypeInv'
<1> USE DEF TypeInv, TypeOK, StepsInv
<1>1. ASSUME NEW i \in Ids, LandLate(i)
      PROVE  TypeInv'
  BY <1>1 DEF LandLate
<1>2. ASSUME NEW i \in Ids, LoadExecuted(i)
      PROVE  TypeInv'
  <2>1. CASE handled' = handled \cup {i} /\ UNCHANGED <<watch, guessed>>
    BY <1>2, <2>1 DEF LoadExecuted
  <2>2. ASSUME NEW p \in Matched(i), watch' = [event |-> i, of |-> p, entity |-> row[p]],
               guessed' = IF WithNumber(i) = {} THEN guessed \cup {p} ELSE guessed,
               handled' = handled
        PROVE  TypeInv'
    <3>1. p \in Proposals /\ p \in 0..MaxProposals /\ i \in 0..Foreign /\ row[p] \in RowTypes
      BY Bounds DEF Matched, WithNumber, NewestPassed
    <3>2. watch' \in [event : 0..Foreign, of : 0..MaxProposals, entity : RowTypes]
          /\ watch'.of = p /\ watch'.event = i
      BY <2>2, <3>1
    <3>3. guessed' \subseteq Proposals  BY <2>2, <3>1
    <3> QED BY <1>2, <2>2, <3>1, <3>2, <3>3 DEF LoadExecuted
  <2> QED BY <1>2, <2>1, <2>2 DEF LoadExecuted
<1>3. CASE ExecuteForeign
  BY <1>3, Bounds DEF ExecuteForeign
<1>4. CASE SaveExecuted
  <2> DEFINE e == [watch.entity EXCEPT !.status = "executed", !.id = watch.event]
  <2>1. e \in RowTypes /\ watch.of \in Proposals /\ watch.event \in executed
    BY <1>4 DEF SaveExecuted, RowTypes, Statuses
  <2> HIDE DEF e
  <2>2. Save(watch.of, e)  BY <1>4 DEF SaveExecuted, e
  <2>3. row' \in [Proposals -> RowTypes] /\ overwritten' \subseteq Proposals
    BY <2>1, <2>2, SaveType
  <2>4. watch' \in [event : 0..Foreign, of : 0..MaxProposals, entity : RowTypes] /\ watch' = Idle
    BY <1>4, IdleType DEF SaveExecuted
  <2> QED BY <1>4, <2>1, <2>3, <2>4 DEF SaveExecuted
<1>5. CASE IndexerFails
  <2>1. faults' \in 0..MaxFaults  BY <1>5, Bounds DEF IndexerFails
  <2>2. watch' \in [event : 0..Foreign, of : 0..MaxProposals, entity : RowTypes] /\ watch' = Idle
    BY <1>5, IdleType DEF IndexerFails
  <2> QED BY <1>5, <2>1, <2>2 DEF IndexerFails
<1> QED BY <1>1, <1>2, <1>3, <1>4, <1>5

LEMMA TypeStep == TypeInv /\ [Next]_vars => TypeInv'
<1> SUFFICES ASSUME TypeInv, [Next]_vars
             PROVE  TypeInv'
  OBVIOUS
<1>1. CASE UNCHANGED vars
  BY <1>1 DEF vars, TypeInv, TypeOK, StepsInv
<1>2. CASE Next
  BY <1>2, CreateType, VoteType, ClockType, ExecuteType, EventType DEF Next
<1> QED BY <1>1, <1>2

-----------------------------------------------------------------------------
(* What has no row                                                         *)

LEMMA RowsStep == TypeInv /\ RowsInv /\ [Next]_vars => RowsInv'
<1> SUFFICES ASSUME TypeInv, RowsInv, [Next]_vars
             PROVE  RowsInv'
  OBVIOUS
<1> USE DEF TypeInv, TypeOK, StepsInv, RowsInv
<1>1. ASSUME NEW p \in Proposals, Create(p) \/ CreationFails(p)
      PROVE  RowsInv'
  <2>1. CASE InsertProposal(p)
    <3>1. row'[p].status = "active" /\ \A q \in Proposals \ {p} : row'[q] = row[q]
      BY <2>1, StatusType DEF InsertProposal, Statuses
    <3> QED BY <2>1, <3>1 DEF InsertProposal
  <2>2. CASE RegisterAtCreation(p)  BY <2>2 DEF RegisterAtCreation
  <2>3. CASE RegistrationDeferred(p)  BY <2>3 DEF RegistrationDeferred
  <2>4. CASE SaveChainId(p)
    <3> DEFINE e == [status |-> "active", yes |-> 0, no |-> 0, id |-> creator[p].id]
    <3>1. e \in RowTypes /\ e.status = "active"  BY Bounds DEF RowTypes, Statuses
    <3> HIDE DEF e
    <3>2. Save(p, e)  BY <2>4 DEF SaveChainId, e
    <3>3. row'[p] = e /\ \A q \in Proposals \ {p} : row'[q] = row[q]  BY <3>1, <3>2, SaveType
    <3> QED BY <2>4, <3>1, <3>3 DEF SaveChainId
  <2>5. CASE CreationFails(p)  BY <2>5 DEF CreationFails
  <2> QED BY <1>1, <2>1, <2>2, <2>3, <2>4, <2>5 DEF Create
<1>2. ASSUME NEW p \in Proposals, NEW v \in Voters, NEW s \in {"yes", "no"},
             Vote(p, v, s) \/ IndexVote(p, v, s)
      PROVE  RowsInv'
  <2>1. CASE Vote(p, v, s)
    <3>1. PICK n \in EligibleCounts : row' = [row EXCEPT ![p] = Decided(Counted(row[p], s), n)]
      BY <2>1 DEF Vote
    <3>2. row'[p].status # "absent" /\ \A q \in Proposals \ {p} : row'[q] = row[q]
      <4> DEFINE r == Counted(row[p], s)
      <4>1. r \in RowTypes /\ r.status = "active"  BY <2>1, CountedType DEF Vote, OpenForVotes
      <4> HIDE DEF r
      <4>2. row' = [row EXCEPT ![p] = Decided(r, n)]  BY <3>1 DEF r
      <4>3. Decided(r, n).status # "absent"  BY <4>1, DecidedType
      <4> QED BY <4>2, <4>3
    <3> QED BY <2>1, <3>2 DEF Vote, OpenForVotes
  <2>2. CASE IndexVote(p, v, s)
    <3>1. /\ row'[p].status = row[p].status /\ row'[p].id = row[p].id
          /\ \A q \in Proposals \ {p} : row'[q] = row[q]
      BY <2>2, CountedType DEF IndexVote
    <3> QED BY <2>2, <3>1 DEF IndexVote
  <2> QED BY <1>2, <2>1, <2>2
<1>3. ASSUME NEW p \in Proposals, CheckExpiry(p) \/ TimePasses(p)
      PROVE  RowsInv'
  <2>1. CASE CheckExpiry(p)
    <3>1. row'[p].status = "expired" /\ \A q \in Proposals \ {p} : row'[q] = row[q]
      BY <2>1, StatusType DEF CheckExpiry, Statuses
    <3> QED BY <2>1, <3>1 DEF CheckExpiry, Expires
  <2>2. CASE TimePasses(p)  BY <2>2 DEF TimePasses
  <2> QED BY <1>3, <2>1, <2>2
<1>4. ASSUME NEW x \in Executors, Execute(x) \/ ExecutorFails(x)
      PROVE  RowsInv'
  <2>1. ASSUME NEW p \in Proposals, LoadProposal(x, p)
        PROVE  RowsInv'
    BY <2>1 DEF LoadProposal
  <2>2. CASE RegisterNow(x)  BY <2>2 DEF RegisterNow
  <2>3. CASE SaveNumber(x)
    <3>1. at[x] \in Proposals /\ copy[x] \in RowTypes /\ copy[x].status = "passed"
          /\ creator[at[x]].step = "done"
      BY <2>3 DEF SaveNumber
    <3>2. row'[at[x]] = copy[x] /\ \A q \in Proposals \ {at[x]} : row'[q] = row[q]
      BY <2>3, <3>1, SaveType DEF SaveNumber
    <3>3. UNCHANGED <<creator, indexVars>>  BY <2>3 DEF SaveNumber
    <3> HIDE DEF TypeInv, TypeOK, StepsInv
    <3> QED BY <3>1, <3>2, <3>3
  <2>4. CASE ExecuteOnChain(x)  BY <2>4 DEF ExecuteOnChain
  <2>5. CASE CallFails(x)  BY <2>5 DEF CallFails
  <2>6. CASE RecordExecution(x)
    <3>1. at[x] \in Proposals /\ creator[at[x]].step = "done"  BY <2>6 DEF RecordExecution
    <3>2. row'[at[x]].status = "executed" /\ \A q \in Proposals \ {at[x]} : row'[q] = row[q]
      BY <2>6, <3>1, StatusType DEF RecordExecution, Statuses
    <3> QED BY <2>6, <3>1, <3>2 DEF RecordExecution
  <2>7. CASE ExecutorFails(x)  BY <2>7 DEF ExecutorFails
  <2> QED BY <1>4, <2>1, <2>2, <2>3, <2>4, <2>5, <2>6, <2>7 DEF Execute
<1>5. ASSUME NEW i \in Ids, LandLate(i) \/ LoadExecuted(i)
      PROVE  RowsInv'
  <2>1. CASE LandLate(i)  BY <2>1 DEF LandLate
  <2>2. CASE LoadExecuted(i)
    <3>1. \A p \in Matched(i) : p \in Proposals /\ creator[p].step # "none"
      <4>1. i # 0  BY Bounds
      <4> QED BY <4>1 DEF Matched, WithNumber, NewestPassed
    <3>2. UNCHANGED <<row, creator>>  BY <2>2 DEF LoadExecuted
    <3>3. watch' # Idle => watch'.of \in Proposals /\ creator[watch'.of].step # "none"
      BY <2>2, <3>1 DEF LoadExecuted
    <3> QED BY <3>2, <3>3
  <2> QED BY <1>5, <2>1, <2>2
<1>6. CASE ExecuteForeign  BY <1>6 DEF ExecuteForeign
<1>7. CASE SaveExecuted
  <2> DEFINE e == [watch.entity EXCEPT !.status = "executed", !.id = watch.event]
  <2>1. e \in RowTypes /\ e.status = "executed" /\ watch.of \in Proposals
    BY <1>7 DEF SaveExecuted, RowTypes, Statuses
  <2> HIDE DEF e
  <2>2. Save(watch.of, e)  BY <1>7 DEF SaveExecuted, e
  <2>3. row'[watch.of] = e /\ \A q \in Proposals \ {watch.of} : row'[q] = row[q]
    BY <2>1, <2>2, SaveType
  <2> QED BY <1>7, <2>1, <2>3 DEF SaveExecuted
<1>8. CASE IndexerFails  BY <1>8 DEF IndexerFails
<1>9. CASE UNCHANGED vars  BY <1>9 DEF vars
<1> QED BY <1>1, <1>2, <1>3, <1>4, <1>5, <1>6, <1>7, <1>8, <1>9 DEF Next

-----------------------------------------------------------------------------
(* Ballots and counters                                                    *)

LEMMA BallotsFinite ==
  ASSUME NEW p, NEW s
  PROVE  IsFiniteSet(Ballots(p, s)) /\ Cardinality(Ballots(p, s)) \in Nat
<1>1. Ballots(p, s) \subseteq Voters  BY DEF Ballots
<1> QED BY <1>1, Bounds, FS_Subset, FS_CardinalityType

\* A new ballot joins the ballots of its side and no other.
LEMMA BallotAdded ==
  ASSUME TypeOK, NEW p \in Proposals, NEW v \in Voters, NEW s \in {"yes", "no"},
         ballot[p][v] = "none", ballot' = [ballot EXCEPT ![p][v] = s]
  PROVE  /\ Ballots(p, s)' = Ballots(p, s) \cup {v}
         /\ Cardinality(Ballots(p, s)') = Cardinality(Ballots(p, s)) + 1
         /\ \A t \in {"yes", "no"} : v \notin Ballots(p, t)
         /\ \A t \in {"yes", "no"} \ {s} : Ballots(p, t)' = Ballots(p, t)
         /\ Ballots(p, "none")' = Ballots(p, "none") \ {v}
         /\ \A q \in Proposals \ {p}, t \in {"none", "yes", "no"} : Ballots(q, t)' = Ballots(q, t)
<1>1. /\ \A w \in Voters : ballot'[p][w] = IF w = v THEN s ELSE ballot[p][w]
      /\ \A q \in Proposals \ {p} : ballot'[q] = ballot[q]
  BY DEF TypeOK
<1>2. Ballots(p, s)' = Ballots(p, s) \cup {v} /\ v \notin Ballots(p, s)
  BY <1>1 DEF Ballots
<1>3. Cardinality(Ballots(p, s)') = Cardinality(Ballots(p, s)) + 1
  BY <1>2, BallotsFinite, FS_AddElement
<1> QED BY <1>1, <1>2, <1>3 DEF Ballots

\* A proposal of which no ballot is counted has no late ballot.
LEMMA NoLateBallot ==
  ASSUME TypeOK, NEW p \in Proposals, late[p] \cap Ballots(p, "none") = {},
         Cardinality(Ballots(p, "yes")) = 0, Cardinality(Ballots(p, "no")) = 0
  PROVE  late[p] = {}
<1>1. Ballots(p, "yes") = {} /\ Ballots(p, "no") = {}  BY BallotsFinite, FS_EmptySet
<1>2. Ballots(p, "none") = Voters  BY <1>1 DEF Ballots, TypeOK
<1> QED BY <1>2 DEF TypeOK

\* What a step owes that leaves the ballots alone.
LEMMA VotesFrame ==
  ASSUME VotesInv, UNCHANGED <<ballot, late>>,
         \A p \in Proposals \ overwritten' :
           /\ p \notin overwritten /\ row'[p].yes = row[p].yes /\ row'[p].no = row[p].no
           /\ row'[p].status \in {"absent", "active"} => late[p] = {}
           /\ row'[p].status = "passed" => Majority(p),
         \A x \in Executors : pc'[x] # "idle" /\ at'[x] \notin overwritten' =>
           row'[at'[x]].status \notin {"absent", "active"} /\ Majority(at'[x])
  PROVE  VotesInv'
<1>1. \A p : Majority(p)' = Majority(p) /\ \A s : Ballots(p, s)' = Ballots(p, s)
  BY DEF Majority, Ballots
<1>2. \A x \in Executors : pc'[x] # "idle" /\ at'[x] \notin overwritten' =>
        row'[at'[x]].status \notin {"absent", "active"} /\ (Majority(at[x]))'
  BY DEF Majority, Ballots
<1>3. CountersAreBallots'  BY <1>1 DEF VotesInv, CountersAreBallots
<1> QED BY <1>1, <1>2, <1>3 DEF VotesInv

LEMMA VotesStay ==
  ASSUME VotesInv, UNCHANGED <<row, ballot, late, overwritten, pc, at>>
  PROVE  VotesInv'
BY DEF VotesInv, CountersAreBallots, Majority, Ballots

\* A ballot: counted; the decision follows, or was taken before.
LEMMA BallotVotes ==
  ASSUME TypeInv, RowsInv, VotesInv, NEW p \in Proposals, NEW v \in Voters,
         NEW s \in {"yes", "no"}, Vote(p, v, s) \/ IndexVote(p, v, s)
  PROVE  VotesInv'
<1> DEFINE r == Counted(row[p], s)
<1>1. /\ r \in RowTypes /\ r.status = row[p].status
      /\ r.yes = (IF s = "yes" THEN row[p].yes + 1 ELSE row[p].yes)
      /\ r.no = (IF s = "no" THEN row[p].no + 1 ELSE row[p].no)
  BY CountedType DEF TypeInv, TypeOK
<1>2. TypeOK /\ ballot[p][v] = "none" /\ ballot' = [ballot EXCEPT ![p][v] = s]
      /\ UNCHANGED <<overwritten, pc, at, creator, clock>>
  BY DEF TypeInv, Vote, IndexVote, FirstBallot
<1>3. /\ row' \in [Proposals -> RowTypes] /\ row'[p].yes = r.yes /\ row'[p].no = r.no
      /\ \A q \in Proposals \ {p} : row'[q] = row[q]
      /\ row'[p].status # row[p].status => row[p].status = "active" /\ clock[p] = "voting"
      /\ row'[p].status = "passed" /\ row[p].status # "passed" => r.yes > r.no
      /\ row'[p].status = "absent" => row[p].status = "absent"
  <2>1. CASE Vote(p, v, s)
    <3>1. PICK n \in EligibleCounts : row' = [row EXCEPT ![p] = Decided(r, n)]
      BY <2>1 DEF Vote
    <3>2. row[p].status = "active" /\ clock[p] = "voting"  BY <2>1 DEF Vote, OpenForVotes
    <3> HIDE DEF r
    <3>3. /\ Decided(r, n) \in RowTypes /\ Decided(r, n).yes = r.yes /\ Decided(r, n).no = r.no
          /\ Decided(r, n).status \in {r.status, "passed", "rejected"}
          /\ Decided(r, n).status = "passed" /\ r.status # "passed" => r.yes > r.no
      BY <1>1, DecidedType
    <3> QED BY <1>1, <1>2, <3>1, <3>2, <3>3 DEF TypeOK
  <2>2. CASE IndexVote(p, v, s)
    <3>1. row' = [row EXCEPT ![p] = r]  BY <2>2 DEF IndexVote
    <3> HIDE DEF r
    <3> QED BY <1>1, <1>2, <3>1 DEF TypeOK
  <2> QED BY <2>1, <2>2
<1> HIDE DEF r
\* Late ballots: this one, when the proposal had been decided.
<1>4. /\ late'[p] = (IF row[p].status = "active" THEN late[p] ELSE late[p] \cup {v})
      /\ row[p].status # "absent" /\ \A q \in Proposals \ {p} : late'[q] = late[q]
  BY DEF TypeInv, TypeOK, RowsInv, Vote, IndexVote, OpenForVotes
<1>5. /\ Ballots(p, s)' = Ballots(p, s) \cup {v}
      /\ Cardinality(Ballots(p, s)') = Cardinality(Ballots(p, s)) + 1
      /\ \A t \in {"yes", "no"} : v \notin Ballots(p, t)
      /\ \A t \in {"yes", "no"} \ {s} : Ballots(p, t)' = Ballots(p, t)
      /\ Ballots(p, "none")' = Ballots(p, "none") \ {v}
      /\ \A q \in Proposals \ {p}, t \in {"none", "yes", "no"} : Ballots(q, t)' = Ballots(q, t)
  BY <1>2, BallotAdded
<1>6. CountersAreBallots'
  <2>1. ASSUME p \notin overwritten
        PROVE  row'[p].yes = Cardinality(Ballots(p, "yes")') /\ row'[p].no = Cardinality(Ballots(p, "no")')
    <3>1. row[p].yes = Cardinality(Ballots(p, "yes")) /\ row[p].no = Cardinality(Ballots(p, "no"))
      BY <2>1 DEF VotesInv, CountersAreBallots
    <3>2. CASE s = "yes"  BY <1>1, <1>3, <1>5, <3>1, <3>2
    <3>3. CASE s = "no"  BY <1>1, <1>3, <1>5, <3>1, <3>3
    <3> QED BY <3>2, <3>3
  <2> QED BY <1>2, <1>3, <1>5, <2>1 DEF VotesInv, CountersAreBallots
<1>7. \A q \in Proposals : late'[q] \cap Ballots(q, "none")' = {}
  BY <1>4, <1>5 DEF VotesInv
<1>8. \A q \in Proposals \ {p} : Majority(q)' = Majority(q)
  BY <1>4, <1>5 DEF Majority
<1>9. row[p].status # "active" => Majority(p)' = Majority(p)
  <2> SUFFICES ASSUME row[p].status # "active"
               PROVE  \A t \in {"yes", "no"} : Ballots(p, t)' \ late'[p] = Ballots(p, t) \ late[p]
    BY DEF Majority
  <2> QED BY <1>4, <1>5
<1>10. row[p].status = "active" /\ p \notin overwritten /\ row'[p].status = "passed" => Majority(p)'
  <2> SUFFICES ASSUME row[p].status = "active", p \notin overwritten, row'[p].status = "passed"
               PROVE  Majority(p)'
    OBVIOUS
  <2>1. late'[p] = {}  BY <1>4 DEF VotesInv
  <2>2. Ballots(p, "yes")' \ late'[p] = Ballots(p, "yes")' /\ Ballots(p, "no")' \ late'[p] = Ballots(p, "no")'
    BY <2>1
  <2>3. row'[p].yes > row'[p].no  BY <1>3
  <2>4. row'[p].yes = Cardinality(Ballots(p, "yes")') /\ row'[p].no = Cardinality(Ballots(p, "no")')
    BY <1>2, <1>6 DEF CountersAreBallots
  <2> QED BY <2>2, <2>3, <2>4 DEF Majority
<1>11. \A q \in Proposals \ overwritten' :
         /\ row'[q].status \in {"absent", "active"} => late'[q] = {}
         /\ row'[q].status = "passed" => Majority(q)'
  BY <1>2, <1>3, <1>4, <1>8, <1>9, <1>10 DEF VotesInv
<1>12. ASSUME NEW x \in Executors, pc'[x] # "idle", at'[x] \notin overwritten'
       PROVE  row'[at[x]].status \notin {"absent", "active"} /\ Majority(at[x])'
  <2> DEFINE q == at[x]
  <2>1. /\ q \in Proposals /\ clock[q] = "unlocked"
        /\ row[q].status \notin {"absent", "active"} /\ Majority(q)
    BY <1>2, <1>12 DEF TypeInv, TypeOK, VotesInv
  <2>2. q' = q  BY <1>2
  <2> HIDE DEF q
  <2>3. row'[q].status = row[q].status  BY <1>3, <2>1
  <2>4. Majority(q)' = Majority(q)  BY <1>8, <1>9, <2>1, <2>2
  <2> QED BY <2>1, <2>2, <2>3, <2>4 DEF q
<1> QED BY <1>2, <1>6, <1>7, <1>11, <1>12 DEF VotesInv

\* The other steps leave the ballots alone; the counters change only with a save
\* that is told of in overwritten.
LEMMA VotesStep == TypeInv /\ RowsInv /\ VotesInv /\ [Next]_vars => VotesInv'
<1> SUFFICES ASSUME TypeInv, RowsInv, VotesInv, [Next]_vars
             PROVE  VotesInv'
  OBVIOUS
<1>1. ASSUME NEW p \in Proposals, Create(p) \/ CreationFails(p)
      PROVE  VotesInv'
  <2>1. CASE InsertProposal(p)
    <3>1. /\ row'[p].status = "active" /\ row'[p].yes = row[p].yes /\ row'[p].no = row[p].no
          /\ \A q \in Proposals \ {p} : row'[q] = row[q]
      BY <2>1, StatusType DEF InsertProposal, TypeInv, Statuses
    <3>2. row[p].status = "absent" /\ clock[p] = "voting"
      BY <2>1 DEF InsertProposal, RowsInv, TypeInv, TypeOK, StepsInv
    <3>3. \A x \in Executors : pc[x] # "idle" => at[x] \in Proposals \ {p}
      BY <3>2 DEF TypeInv, TypeOK
    <3>4. UNCHANGED <<ballot, late, overwritten, pc, at>>  BY <2>1 DEF InsertProposal
    <3>5. \A q \in Proposals \ overwritten :
            /\ row'[q].yes = row[q].yes /\ row'[q].no = row[q].no
            /\ row'[q].status \in {"absent", "active"} => late[q] = {}
            /\ row'[q].status = "passed" => Majority(q)
      BY <3>1, <3>2 DEF VotesInv
    <3>6. \A x \in Executors : pc[x] # "idle" /\ at[x] \notin overwritten =>
            row'[at[x]].status \notin {"absent", "active"} /\ Majority(at[x])
      BY <3>1, <3>3 DEF VotesInv
    <3> QED BY <3>4, <3>5, <3>6, VotesFrame
  <2>2. CASE SaveChainId(p)
    <3> DEFINE e == [status |-> "active", yes |-> 0, no |-> 0, id |-> creator[p].id]
    <3>1. e \in RowTypes /\ e.status = "active" /\ e.yes = 0 /\ e.no = 0
      BY Bounds DEF RowTypes, Statuses, TypeInv, TypeOK
    <3> HIDE DEF e
    <3>2. Save(p, e)  BY <2>2 DEF SaveChainId, e
    <3>3. /\ row'[p] = e /\ \A q \in Proposals \ {p} : row'[q] = row[q]
          /\ overwritten \subseteq overwritten'
          /\ p \notin overwritten' => e.yes = row[p].yes /\ e.no = row[p].no
      BY <3>1, <3>2, SaveType DEF TypeInv
    <3>4. p \notin overwritten' => late[p] = {}
      <4> SUFFICES ASSUME p \notin overwritten'
                   PROVE  late[p] = {}
        OBVIOUS
      <4>1. p \notin overwritten /\ row[p].yes = 0 /\ row[p].no = 0  BY <3>1, <3>3
      <4> QED BY <4>1, NoLateBallot DEF VotesInv, CountersAreBallots, TypeInv
    <3>5. \A x \in Executors : pc[x] # "idle" => at[x] \in Proposals \ {p}
      BY <2>2 DEF SaveChainId, TypeInv, TypeOK, StepsInv
    <3>6. UNCHANGED <<ballot, late, pc, at>>  BY <2>2 DEF SaveChainId
    <3>7. \A q \in Proposals \ overwritten' :
            /\ q \notin overwritten /\ row'[q].yes = row[q].yes /\ row'[q].no = row[q].no
            /\ row'[q].status \in {"absent", "active"} => late[q] = {}
            /\ row'[q].status = "passed" => Majority(q)
      BY <3>1, <3>3, <3>4 DEF VotesInv
    <3>8. \A x \in Executors : pc[x] # "idle" /\ at[x] \notin overwritten' =>
            row'[at[x]].status \notin {"absent", "active"} /\ Majority(at[x])
      BY <3>3, <3>5 DEF VotesInv
    <3> QED BY <3>6, <3>7, <3>8, VotesFrame
  <2>3. CASE RegisterAtCreation(p)  BY <2>3, VotesStay DEF RegisterAtCreation
  <2>4. CASE RegistrationDeferred(p)  BY <2>4, VotesStay DEF RegistrationDeferred
  <2>5. CASE CreationFails(p)  BY <2>5, VotesStay DEF CreationFails
  <2> QED BY <1>1, <2>1, <2>2, <2>3, <2>4, <2>5 DEF Create
<1>2. ASSUME NEW p \in Proposals, CheckExpiry(p) \/ TimePasses(p)
      PROVE  VotesInv'
  <2>1. CASE CheckExpiry(p)
    <3>1. /\ row'[p].status = "expired" /\ row'[p].yes = row[p].yes /\ row'[p].no = row[p].no
          /\ \A q \in Proposals \ {p} : row'[q] = row[q]
      BY <2>1, StatusType DEF CheckExpiry, TypeInv, Statuses
    <3>2. UNCHANGED <<ballot, late, overwritten, pc, at>>  BY <2>1 DEF CheckExpiry
    <3>3. \A x \in Executors : pc[x] # "idle" => at[x] \in Proposals  BY DEF TypeInv, TypeOK
    <3>4. \A x \in Executors : pc[x] # "idle" /\ at[x] \notin overwritten =>
            row'[at[x]].status \notin {"absent", "active"} /\ Majority(at[x])
      BY <3>1, <3>3 DEF VotesInv
    <3>5. \A q \in Proposals \ overwritten :
            /\ row'[q].yes = row[q].yes /\ row'[q].no = row[q].no
            /\ row'[q].status \in {"absent", "active"} => late[q] = {}
            /\ row'[q].status = "passed" => Majority(q)
      BY <3>1 DEF VotesInv
    <3> QED BY <3>2, <3>4, <3>5, VotesFrame
  <2>2. CASE TimePasses(p)  BY <2>2, VotesStay DEF TimePasses
  <2> QED BY <1>2, <2>1, <2>2
<1>3. ASSUME NEW x \in Executors, NEW p \in Proposals, LoadProposal(x, p)
      PROVE  VotesInv'
  <2>1. /\ row[p].status = "passed" /\ pc'[x] # "idle" /\ at'[x] = p
        /\ \A y \in Executors \ {x} : pc'[y] = pc[y] /\ at'[y] = at[y]
        /\ UNCHANGED <<row, ballot, late, overwritten>>
    BY <1>3 DEF LoadProposal, MayExecute, Goto, TypeInv, TypeOK
  <2>2. \A q \in Proposals \ overwritten :
          /\ row'[q].yes = row[q].yes /\ row'[q].no = row[q].no
          /\ row'[q].status \in {"absent", "active"} => late[q] = {}
          /\ row'[q].status = "passed" => Majority(q)
    BY <2>1 DEF VotesInv
  <2>3. \A y \in Executors : pc'[y] # "idle" /\ at'[y] \notin overwritten =>
          row'[at'[y]].status \notin {"absent", "active"} /\ Majority(at'[y])
    BY <2>1 DEF VotesInv
  <2> QED BY <2>1, <2>2, <2>3, VotesFrame
\* A step of an executor that goes on with its proposal, or leaves it.
<1>4. ASSUME NEW x \in Executors,
             \A y \in Executors : pc'[y] # "idle" => pc[y] # "idle" /\ at'[y] = at[y],
             UNCHANGED <<row, ballot, late, overwritten>>
      PROVE  VotesInv'
  <2>1. \A q \in Proposals \ overwritten :
          /\ row'[q].status \in {"absent", "active"} => late[q] = {}
          /\ row'[q].status = "passed" => Majority(q)
    BY <1>4 DEF VotesInv
  <2>2. \A y \in Executors : pc'[y] # "idle" /\ at'[y] \notin overwritten =>
          row'[at'[y]].status \notin {"absent", "active"} /\ Majority(at'[y])
    BY <1>4 DEF VotesInv
  <2> QED BY <1>4, <2>1, <2>2, VotesFrame
<1>5. ASSUME NEW x \in Executors, Execute(x) \/ ExecutorFails(x)
      PROVE  VotesInv'
  <2>1. CASE RegisterNow(x)
    BY <1>4, <2>1 DEF RegisterNow, Goto, TypeInv, TypeOK
  <2>2. CASE SaveNumber(x)
    <3> DEFINE p == at[x]
    <3>1. p \in Proposals /\ copy[x] \in RowTypes /\ copy[x].status = "passed" /\ Save(p, copy[x])
      BY <2>2 DEF SaveNumber, TypeInv, TypeOK, StepsInv
    <3>2. /\ \A y \in Executors : pc'[y] # "idle" => pc[y] # "idle" /\ at'[y] = at[y]
          /\ UNCHANGED <<ballot, late>>
      BY <2>2 DEF SaveNumber, Goto, TypeInv, TypeOK
    <3>3. p \notin overwritten => Majority(p)  BY <2>2 DEF SaveNumber, VotesInv
    <3> HIDE DEF p
    <3>4. /\ row'[p] = copy[x] /\ \A q \in Proposals \ {p} : row'[q] = row[q]
          /\ overwritten \subseteq overwritten'
          /\ p \notin overwritten' => copy[x].yes = row[p].yes /\ copy[x].no = row[p].no
      BY <3>1, SaveType DEF TypeInv
    <3>5. \A q \in Proposals \ overwritten' :
            /\ q \notin overwritten /\ row'[q].yes = row[q].yes /\ row'[q].no = row[q].no
            /\ row'[q].status \in {"absent", "active"} => late[q] = {}
            /\ row'[q].status = "passed" => Majority(q)
      BY <3>1, <3>3, <3>4 DEF VotesInv
    <3>6. \A y \in Executors : pc[y] # "idle" => at[y] \in Proposals  BY DEF TypeInv, TypeOK
    <3>7. \A y \in Executors : pc'[y] # "idle" /\ at'[y] \notin overwritten' =>
            row'[at'[y]].status \notin {"absent", "active"} /\ Majority(at'[y])
      BY <3>1, <3>2, <3>4, <3>6 DEF VotesInv
    <3> QED BY <3>2, <3>5, <3>7, VotesFrame
  <2>3. CASE ExecuteOnChain(x)
    BY <1>4, <2>3 DEF ExecuteOnChain, Goto, TypeInv, TypeOK
  <2>4. CASE CallFails(x)
    <3>1. \A y \in Executors : pc'[y] # "idle" => pc[y] # "idle" /\ at'[y] = at[y]
      BY <2>4, LeaveType DEF CallFails, TypeInv
    <3> QED BY <1>4, <2>4, <3>1 DEF CallFails
  <2>5. CASE RecordExecution(x)
    <3> DEFINE p == at[x]
    <3>1. /\ p \in Proposals /\ Leave(x) /\ row' = [row EXCEPT ![p].status = "executed"]
          /\ UNCHANGED <<ballot, late, overwritten>>
      BY <2>5 DEF RecordExecution, TypeInv, TypeOK
    <3> HIDE DEF p
    <3>2. /\ row'[p].status = "executed" /\ row'[p].yes = row[p].yes /\ row'[p].no = row[p].no
          /\ \A q \in Proposals \ {p} : row'[q] = row[q]
      BY <3>1, StatusType DEF TypeInv, Statuses
    <3>3. \A y \in Executors : pc'[y] # "idle" => pc[y] # "idle" /\ at'[y] = at[y]
      BY <3>1, LeaveType DEF TypeInv
    <3>4. \A y \in Executors : pc[y] # "idle" => at[y] \in Proposals  BY DEF TypeInv, TypeOK
    <3>5. \A q \in Proposals \ overwritten :
            /\ row'[q].yes = row[q].yes /\ row'[q].no = row[q].no
            /\ row'[q].status \in {"absent", "active"} => late[q] = {}
            /\ row'[q].status = "passed" => Majority(q)
      BY <3>2 DEF VotesInv
    <3>6. \A y \in Executors : pc'[y] # "idle" /\ at'[y] \notin overwritten =>
            row'[at'[y]].status \notin {"absent", "active"} /\ Majority(at'[y])
      BY <3>2, <3>3, <3>4 DEF VotesInv
    <3> QED BY <3>1, <3>5, <3>6, VotesFrame
  <2>6. CASE ExecutorFails(x)
    <3>1. \A y \in Executors : pc'[y] # "idle" => pc[y] # "idle" /\ at'[y] = at[y]
      BY <2>6, LeaveType DEF ExecutorFails, TypeInv
    <3> QED BY <1>4, <2>6, <3>1 DEF ExecutorFails
  <2> QED BY <1>3, <1>5, <2>1, <2>2, <2>3, <2>4, <2>5, <2>6 DEF Execute
<1>6. ASSUME NEW i \in Ids, LandLate(i) \/ LoadExecuted(i)
      PROVE  VotesInv'
  BY <1>6, VotesStay DEF LandLate, LoadExecuted
<1>7. CASE ExecuteForeign \/ IndexerFails \/ UNCHANGED vars
  BY <1>7, VotesStay DEF ExecuteForeign, IndexerFails, vars
<1>8. CASE SaveExecuted
  <2> DEFINE p == watch.of
             e == [watch.entity EXCEPT !.status = "executed", !.id = watch.event]
  <2>1. e \in RowTypes /\ e.status = "executed" /\ p \in Proposals
    BY <1>8 DEF SaveExecuted, RowTypes, Statuses, TypeInv, TypeOK, StepsInv
  <2>2. Save(p, e) /\ UNCHANGED <<ballot, late, pc, at>>  BY <1>8 DEF SaveExecuted
  <2> HIDE DEF p, e
  <2>3. /\ row'[p] = e /\ \A q \in Proposals \ {p} : row'[q] = row[q]
        /\ overwritten \subseteq overwritten'
        /\ p \notin overwritten' => e.yes = row[p].yes /\ e.no = row[p].no
    BY <2>1, <2>2, SaveType DEF TypeInv
  <2>4. \A y \in Executors : pc[y] # "idle" => at[y] \in Proposals  BY DEF TypeInv, TypeOK
  <2>5. \A q \in Proposals \ overwritten' :
          /\ q \notin overwritten /\ row'[q].yes = row[q].yes /\ row'[q].no = row[q].no
          /\ row'[q].status \in {"absent", "active"} => late[q] = {}
          /\ row'[q].status = "passed" => Majority(q)
    BY <2>1, <2>3 DEF VotesInv
  <2>6. \A y \in Executors : pc[y] # "idle" /\ at[y] \notin overwritten' =>
          row'[at[y]].status \notin {"absent", "active"} /\ Majority(at[y])
    BY <2>1, <2>3, <2>4 DEF VotesInv
  <2> QED BY <2>2, <2>5, <2>6, VotesFrame
<1> QED BY <1>1, <1>2, <1>3, <1>5, <1>6, <1>7, <1>8, BallotVotes DEF Next

-----------------------------------------------------------------------------
(* Numbers on chain                                                        *)

Known == Held \cup {0, Foreign}

\* What a step that registers nothing owes to the numbers: of a row, ...
RowFits(p) ==
  /\ row'[p].id \in Known /\ (row[p].id # 0 => row'[p].id # 0)
  /\ p \notin guessed' /\ row'[p].id # 0 => Own(p, row'[p].id)
  /\ p \notin guessed' /\ row'[p].status = "executed" =>
       \E i \in executed' \ {Foreign} : issued[i].of = p

\* ... of a creation, ...
CreatorFits(p) ==
  /\ creator'[p].step = "save" => creator'[p] = creator[p]
  /\ creator[p].step \in {"save", "done"} => creator'[p].step \in {"save", "done"}
  /\ creator[p].step = "done" => creator'[p].step = "done"

\* ... and of an executor.
ExecutorFits(x) ==
  /\ copy'[x].id \in Known
  /\ copy'[x].id # 0 /\ at'[x] \notin guessed' => Own(at'[x], copy'[x].id)
  /\ pc'[x] = "record" => copy'[x].id \in executed'
  /\ pc'[x] = "register" =>
       (pc[x] = "register" /\ at'[x] = at[x]) \/ (at'[x] \in Proposals /\ row[at'[x]].id = 0)

WatchFits ==
  watch' # Idle /\ watch'.of \notin guessed' => Own(watch'.of, watch'.event)

\* Numbers that were issued are neither 0 nor foreign.
LEMMA IssuedNumbers ==
  ASSUME TypeInv
  PROVE  /\ Issued \subseteq 1..MaxIds /\ 0 \notin Issued /\ Foreign \notin Issued
         /\ \A i \in Issued : issued[i].of \in Proposals /\ issued[i].by \in {"creation", "execution"}
<1>1. Len(issued) \in Nat /\ Len(issued) <= MaxIds  BY DEF TypeInv, TypeOK
<1> DEFINE T == [of : Proposals, by : {"creation", "execution"}]
<1>2. issued \in Seq(T)  BY DEF TypeInv, TypeOK
<1> HIDE DEF T
<1>3. \A i \in Issued : issued[i] \in T  BY <1>2 DEF Issued
<1> QED BY <1>1, <1>3, Bounds DEF Issued, T

LEMMA RowStays ==
  ASSUME NumbersInv, NEW p \in Proposals, row'[p] = row[p],
         guessed \subseteq guessed', executed \subseteq executed'
  PROVE  RowFits(p)
<1>1. row[p].id \in Known  BY DEF Known, Held
<1>2. p \notin guessed' => p \notin guessed  OBVIOUS
<1> QED BY <1>1, <1>2 DEF RowFits, NumbersInv, ExecutedOnChain

\* A new status other than executed is no matter of the numbers.
LEMMA StatusFits ==
  ASSUME NumbersInv, NEW p \in Proposals, row'[p].id = row[p].id,
         row'[p].status = "executed" => row[p].status = "executed",
         guessed \subseteq guessed', executed \subseteq executed'
  PROVE  RowFits(p)
<1>1. row[p].id \in Known  BY DEF Known, Held
<1>2. p \notin guessed' => p \notin guessed  OBVIOUS
<1> QED BY <1>1, <1>2 DEF RowFits, NumbersInv, ExecutedOnChain

LEMMA ExecutorStays ==
  ASSUME NumbersInv, NEW x \in Executors, pc'[x] = pc[x], at'[x] = at[x], copy'[x] = copy[x],
         guessed \subseteq guessed', executed \subseteq executed'
  PROVE  ExecutorFits(x)
<1>1. copy[x].id \in Known  BY DEF Known, Held
<1> QED BY <1>1 DEF ExecutorFits, NumbersInv

LEMMA WatchStays ==
  ASSUME NumbersInv, watch' = watch \/ watch' = Idle, guessed \subseteq guessed'
  PROVE  WatchFits
BY DEF WatchFits, NumbersInv

LEMMA ChainStays == flying \subseteq Known /\ executed \subseteq Known
BY DEF Known, Held

LEMMA NumbersFrame ==
  ASSUME TypeInv, NumbersInv, OnceInv, issued' = issued, guessed \subseteq guessed',
         \A p \in Proposals : RowFits(p) /\ CreatorFits(p),
         \A x \in Executors : ExecutorFits(x),
         WatchFits, flying' \subseteq Known, executed' \subseteq Known
  PROVE  NumbersInv' /\ OnceInv'
<1>1. Held' \subseteq Known
  BY DEF Held, RowFits, ExecutorFits
<1>2. \A p, i : Own(p, i)' = Own(p, i)  BY DEF Own, Issued
<1>3. Issued' = Issued  BY DEF Issued
<1>4. NumbersInv'
  <2>1. Held' \subseteq Issued' \cup {0, Foreign}  BY <1>1, <1>3 DEF Known, NumbersInv
  <2>2. ASSUME NEW p \in Proposals, creator'[p].step = "save"
        PROVE  (Own(p, creator[p].id))' /\ issued'[creator'[p].id].by = "creation"
    <3>1. creator'[p] = creator[p]  BY <2>2 DEF CreatorFits
    <3>2. Own(p, creator[p].id) /\ issued[creator[p].id].by = "creation"
      BY <2>2, <3>1 DEF NumbersInv
    <3> QED BY <3>1, <3>2 DEF Own, Issued
  <2>3. /\ \A p \in Proposals \ guessed' : row'[p].id # 0 => (Own(p, row[p].id))'
        /\ \A x \in Executors : copy'[x].id # 0 /\ at'[x] \notin guessed' => (Own(at[x], copy[x].id))'
        /\ watch' # Idle /\ watch'.of \notin guessed' => (Own(watch.of, watch.event))'
    BY DEF RowFits, ExecutorFits, WatchFits, Own, Issued
  <2>4. ExecutedOnChain'  BY DEF RowFits, ExecutedOnChain
  <2>5. \A x \in Executors : pc'[x] = "record" => copy'[x].id \in executed'  BY DEF ExecutorFits
  <2> QED BY <2>1, <2>2, <2>3, <2>4, <2>5 DEF NumbersInv
<1>5. OnceInv'
  <2>1. \A i \in Issued : i \in Held' => i \in Held
    BY <1>1, IssuedNumbers DEF Known
  <2> SUFFICES ASSUME NEW i \in Issued, NEW p \in Proposals, p = issued[i].of
               PROVE  /\ issued[i].by = "creation" => creator'[p].step \in {"save", "done"}
                      /\ issued[i].by = "execution" => creator'[p].step = "done"
                      /\ issued[i].by = "creation" /\ i \in Held' =>
                           /\ \A j \in Issued : issued[j].of = p => j = i
                           /\ row'[p].id # 0
                           /\ \A x \in Executors : pc'[x] = "register" => at'[x] # p
    BY <1>3, IssuedNumbers DEF OnceInv
  <2>2. /\ issued[i].by = "creation" => creator[p].step \in {"save", "done"}
        /\ issued[i].by = "execution" => creator[p].step = "done"
        /\ issued[i].by = "creation" /\ i \in Held =>
             /\ \A j \in Issued : issued[j].of = p => j = i
             /\ row[p].id # 0
             /\ \A x \in Executors : pc[x] = "register" => at[x] # p
    BY DEF OnceInv
  <2>3. RowFits(p) /\ CreatorFits(p) /\ \A x \in Executors : ExecutorFits(x)  OBVIOUS
  <2> QED BY <2>1, <2>2, <2>3 DEF RowFits, CreatorFits, ExecutorFits
<1> QED BY <1>4, <1>5

\* A registration adds a number of which nobody has heard.
LEMMA NewNumber ==
  ASSUME TypeInv, NumbersInv, NEW p \in Proposals, NEW b \in {"creation", "execution"},
         Len(issued) < MaxIds, issued' = Append(issued, [of |-> p, by |-> b]),
         NEW n, n = Len(issued) + 1
  PROVE  /\ n \in 1..MaxIds /\ n \notin Issued /\ n \notin Known /\ Issued' = Issued \cup {n}
         /\ issued'[n].of = p /\ issued'[n].by = b
         /\ \A i \in Issued : issued'[i] = issued[i]
         /\ \A q, i : Own(q, i) => Own(q, i)'
<1>1. TypeOK  BY DEF TypeInv
<1>2. /\ Len(issued') = n /\ n \in 1..MaxIds /\ Len(issued) \in Nat
      /\ issued'[n] = [of |-> p, by |-> b]
      /\ \A i \in 1..Len(issued) : issued'[i] = issued[i]
  BY <1>1, IssueType
<1>3. n \notin Issued /\ Issued' = Issued \cup {n}  BY <1>2 DEF Issued
<1>4. n \notin Known  BY <1>2, <1>3, Bounds DEF Known, NumbersInv
<1>5. \A i \in Issued : issued'[i] = issued[i]  BY <1>2 DEF Issued
<1>6. \A q, i : Own(q, i) => Own(q, i)'  BY <1>3, <1>5 DEF Own
<1>7. issued'[n].of = p /\ issued'[n].by = b  BY <1>2
<1> HIDE DEF Issued, Known
<1> QED BY <1>2, <1>3, <1>4, <1>5, <1>6, <1>7

\* What the contract has executed was issued, or is foreign.
LEMMA ExecutedIssued ==
  ASSUME TypeInv, NumbersInv
  PROVE  executed \ {Foreign} \subseteq Issued
<1>1. executed \subseteq Held /\ Held \subseteq Issued \cup {0, Foreign}
  BY DEF Held, NumbersInv
<1>2. 0 \notin executed  BY Bounds DEF TypeInv, TypeOK
<1> QED BY <1>1, <1>2

LEMMA RegisterAtCreationNumbers ==
  ASSUME TypeInv, RowsInv, NumbersInv, OnceInv, NEW p \in Proposals, RegisterAtCreation(p)
  PROVE  NumbersInv' /\ OnceInv'
<1> DEFINE n == Len(issued) + 1
<1>1. /\ issued' = Append(issued, [of |-> p, by |-> "creation"]) /\ Len(issued) < MaxIds
      /\ creator[p].step = "register" /\ creator'[p].step = "save" /\ creator'[p].id = n
      /\ \A q \in Proposals \ {p} : creator'[q] = creator[q]
  BY DEF RegisterAtCreation, TypeInv, TypeOK
<1>2. UNCHANGED <<row, execVars, flying, executed, indexVars, histVars>>
  BY DEF RegisterAtCreation
<1> HIDE DEF n
<1>3. /\ n \in 1..MaxIds /\ n \notin Issued /\ n \notin Known /\ Issued' = Issued \cup {n}
      /\ issued'[n].of = p /\ issued'[n].by = "creation"
      /\ \A i \in Issued : issued'[i] = issued[i]
      /\ \A q, i : Own(q, i) => Own(q, i)'
  BY <1>1, NewNumber DEF n
<1>4. Held' = Held  BY <1>2 DEF Held
<1>5. NumbersInv'
  <2>1. Held' \subseteq Issued' \cup {0, Foreign}  BY <1>3, <1>4 DEF NumbersInv
  <2>2. ASSUME NEW q \in Proposals, creator'[q].step = "save"
        PROVE  (Own(q, creator[q].id))' /\ issued'[creator'[q].id].by = "creation"
    <3>1. CASE q = p  BY <1>1, <1>3, <3>1 DEF Own
    <3>2. CASE q # p
      <4>1. Own(q, creator[q].id) /\ issued[creator[q].id].by = "creation" /\ creator'[q] = creator[q]
        BY <1>1, <2>2, <3>2 DEF NumbersInv
      <4> QED BY <1>3, <4>1 DEF Own
    <3> QED BY <3>1, <3>2
  <2>3. \A q \in Proposals \ guessed' : row'[q].id # 0 => (Own(q, row[q].id))'
    BY <1>2, <1>3 DEF NumbersInv, Own
  <2>4. \A x \in Executors : copy'[x].id # 0 /\ at'[x] \notin guessed' => (Own(at[x], copy[x].id))'
    BY <1>2, <1>3 DEF NumbersInv, Own
  <2>5. watch' # Idle /\ watch'.of \notin guessed' => (Own(watch.of, watch.event))'
    BY <1>2, <1>3 DEF NumbersInv, Own
  <2>6. ExecutedOnChain'
    <3>1. \A i \in executed \ {Foreign} : i \in Issued  BY ExecutedIssued
    <3> QED BY <1>2, <1>3, <3>1 DEF NumbersInv, ExecutedOnChain
  <2>7. \A x \in Executors : pc'[x] = "record" => copy'[x].id \in executed'
    BY <1>2 DEF NumbersInv
  <2> QED BY <2>1, <2>2, <2>3, <2>4, <2>5, <2>6, <2>7 DEF NumbersInv
\* So far the proposal had no number.
<1>6. \A i \in Issued : issued[i].of # p
  BY <1>1, IssuedNumbers DEF OnceInv
<1>7. OnceInv'
  <2>1. n \notin Held  BY <1>3 DEF Known
  <2>2. \A i, j \in Issued' :
          issued'[i].by = "creation" /\ issued'[j].by = "creation" /\ issued'[i].of = issued'[j].of
            => i = j
    BY <1>3, <1>6 DEF OnceInv
  <2>3. ASSUME NEW i \in Issued', NEW q, q = issued'[i].of
        PROVE  /\ issued'[i].by = "creation" => creator'[q].step \in {"save", "done"}
               /\ issued'[i].by = "execution" => creator'[q].step = "done"
               /\ issued'[i].by = "creation" /\ i \in Held' =>
                    /\ \A j \in Issued' : issued'[j].of = q => j = i
                    /\ row'[q].id # 0
                    /\ \A x \in Executors : pc'[x] = "register" => at'[x] # q
    <3>1. CASE i = n  BY <1>1, <1>3, <1>4, <2>1, <2>3, <3>1
    <3>2. CASE i # n
      <4>1. i \in Issued /\ issued'[i] = issued[i] /\ q = issued[i].of /\ q # p /\ q \in Proposals
        BY <1>3, <1>6, <2>3, <3>2, IssuedNumbers
      <4>2. creator'[q] = creator[q]  BY <1>1, <4>1
      <4>3. \A j \in Issued' : issued'[j].of = q => j \in Issued /\ issued[j].of = q
        BY <1>3, <4>1
      <4> QED BY <1>2, <1>4, <4>1, <4>2, <4>3 DEF OnceInv
    <3> QED BY <3>1, <3>2
  <2> QED BY <2>2, <2>3 DEF OnceInv
<1> QED BY <1>5, <1>7

LEMMA RegisterNowNumbers ==
  ASSUME TypeInv, RowsInv, NumbersInv, OnceInv, NEW x \in Executors, RegisterNow(x)
  PROVE  NumbersInv' /\ OnceInv'
<1> DEFINE n == Len(issued) + 1
           p == at[x]
<1>1. /\ issued' = Append(issued, [of |-> p, by |-> "execution"]) /\ Len(issued) < MaxIds
      /\ p \in Proposals /\ clock[p] = "unlocked" /\ pc[x] = "register" /\ pc'[x] = "save"
      /\ \A y \in Executors \ {x} : pc'[y] = pc[y] /\ copy'[y] = copy[y]
      /\ copy' = [copy EXCEPT ![x].id = n] /\ at' = at
  BY DEF RegisterNow, Goto, TypeInv, TypeOK
<1>2. UNCHANGED <<row, creator, flying, executed, indexVars, histVars>>
  BY DEF RegisterNow
<1>3. creator[p].step = "done" /\ p = at[x]  BY <1>1 DEF TypeInv, StepsInv
<1> HIDE DEF n, p
<1>4. /\ n \in 1..MaxIds /\ n \notin Issued /\ n \notin Known /\ Issued' = Issued \cup {n}
      /\ issued'[n].of = p /\ issued'[n].by = "execution"
      /\ \A i \in Issued : issued'[i] = issued[i]
      /\ \A q, i : Own(q, i) => Own(q, i)'
  BY <1>1, NewNumber DEF n
<1>5. copy'[x].id = n
  <2>1. copy \in [Executors -> RowTypes]  BY DEF TypeInv, TypeOK
  <2> QED BY <1>1, <2>1 DEF RowTypes
<1>6. Held' \subseteq Held \cup {n}  BY <1>1, <1>2, <1>5 DEF Held
<1>7. NumbersInv'
  <2>1. Held' \subseteq Issued' \cup {0, Foreign}  BY <1>4, <1>6 DEF NumbersInv
  <2>2. ASSUME NEW q \in Proposals, creator'[q].step = "save"
        PROVE  (Own(q, creator[q].id))' /\ issued'[creator'[q].id].by = "creation"
    <3>1. Own(q, creator[q].id) /\ issued[creator[q].id].by = "creation" /\ creator'[q] = creator[q]
      BY <1>2, <2>2 DEF NumbersInv
    <3> QED BY <1>4, <3>1 DEF Own
  <2>3. \A q \in Proposals \ guessed' : row'[q].id # 0 => (Own(q, row[q].id))'
    BY <1>2, <1>4 DEF NumbersInv, Own
  <2>4. ASSUME NEW y \in Executors, copy'[y].id # 0, at'[y] \notin guessed'
        PROVE  (Own(at[y], copy[y].id))'
    <3>1. CASE y = x
      <4>1. at'[y] = p /\ copy'[y].id = n  BY <1>1, <1>3, <1>5, <3>1
      <4> QED BY <1>4, <4>1 DEF Own
    <3>2. CASE y # x
      <4>1. Own(at[y], copy[y].id)  BY <1>1, <1>2, <2>4, <3>2 DEF NumbersInv
      <4> QED BY <1>1, <1>4, <4>1, <3>2 DEF Own
    <3> QED BY <3>1, <3>2
  <2>5. watch' # Idle /\ watch'.of \notin guessed' => (Own(watch.of, watch.event))'
    BY <1>2, <1>4 DEF NumbersInv, Own
  <2>6. ExecutedOnChain'
    <3>1. \A i \in executed \ {Foreign} : i \in Issued  BY ExecutedIssued
    <3> QED BY <1>2, <1>4, <3>1 DEF NumbersInv, ExecutedOnChain
  <2>7. \A y \in Executors : pc'[y] = "record" => copy'[y].id \in executed'
    BY <1>1, <1>2 DEF NumbersInv
  <2> QED BY <2>1, <2>2, <2>3, <2>4, <2>5, <2>6, <2>7 DEF NumbersInv
\* Nobody holds a number of its creation, or this executor would not register.
<1>8. \A i \in Issued : issued[i].by = "creation" /\ i \in Held => issued[i].of # p
  BY <1>1, <1>3 DEF OnceInv
<1>9. OnceInv'
  <2>1. \A i \in Issued : i \in Held' => i \in Held  BY <1>4, <1>6
  <2>2. \A y \in Executors : pc'[y] = "register" => pc[y] = "register"  BY <1>1
  <2>3. \A i, j \in Issued' :
          issued'[i].by = "creation" /\ issued'[j].by = "creation" /\ issued'[i].of = issued'[j].of
            => i = j
    BY <1>4 DEF OnceInv
  <2>4. ASSUME NEW i \in Issued', NEW q, q = issued'[i].of
        PROVE  /\ issued'[i].by = "creation" => creator'[q].step \in {"save", "done"}
               /\ issued'[i].by = "execution" => creator'[q].step = "done"
               /\ issued'[i].by = "creation" /\ i \in Held' =>
                    /\ \A j \in Issued' : issued'[j].of = q => j = i
                    /\ row'[q].id # 0
                    /\ \A y \in Executors : pc'[y] = "register" => at'[y] # q
    <3>1. CASE i = n  BY <1>2, <1>3, <1>4, <2>4, <3>1
    <3>2. CASE i # n
      <4>1. i \in Issued /\ issued'[i] = issued[i] /\ q = issued[i].of /\ q \in Proposals
        BY <1>4, <2>4, <3>2, IssuedNumbers
      <4>2. issued[i].by = "creation" /\ i \in Held =>
              \A j \in Issued' : issued'[j].of = q => j \in Issued /\ issued[j].of = q
        BY <1>4, <1>8, <4>1
      <4> QED BY <1>1, <1>2, <2>1, <2>2, <4>1, <4>2 DEF OnceInv
    <3> QED BY <3>1, <3>2
  <2> QED BY <2>3, <2>4 DEF OnceInv
<1> QED BY <1>7, <1>9

\* The creation keeps its number: until now nobody held it, nor another.
LEMMA SaveChainIdNumbers ==
  ASSUME TypeInv, RowsInv, NumbersInv, OnceInv, NEW p \in Proposals, SaveChainId(p)
  PROVE  NumbersInv' /\ OnceInv'
<1> DEFINE n == creator[p].id
           e == [status |-> "active", yes |-> 0, no |-> 0, id |-> n]
<1>1. /\ creator[p].step = "save" /\ creator'[p].step = "done"
      /\ \A q \in Proposals \ {p} : creator'[q] = creator[q]
      /\ Save(p, e) /\ UNCHANGED <<execVars, chainVars, indexVars, guessed>>
  BY DEF SaveChainId, TypeInv, TypeOK
<1>2. e \in RowTypes /\ e.id = n /\ e.status = "active"
  BY Bounds DEF RowTypes, Statuses, TypeInv, TypeOK
<1>3. Own(p, n) /\ issued[n].by = "creation" /\ n # 0
  BY <1>1, IssuedNumbers DEF NumbersInv, Own
<1> HIDE DEF e, n
<1>4. row'[p].id = n /\ row'[p].status = "active" /\ \A q \in Proposals \ {p} : row'[q] = row[q]
  BY <1>1, <1>2, SaveType DEF TypeInv
<1>5. Held' \subseteq Held \cup {n}  BY <1>1, <1>4 DEF Held
<1>6. Issued' = Issued /\ \A q, i : Own(q, i)' = Own(q, i)  BY <1>1 DEF Issued, Own
<1>7. NumbersInv'
  <2>1. Held' \subseteq Issued' \cup {0, Foreign}  BY <1>3, <1>5, <1>6 DEF NumbersInv, Own
  <2>2. ASSUME NEW q \in Proposals, creator'[q].step = "save"
        PROVE  (Own(q, creator[q].id))' /\ issued'[creator'[q].id].by = "creation"
    <3>1. Own(q, creator[q].id) /\ issued[creator[q].id].by = "creation" /\ creator'[q] = creator[q]
      BY <1>1, <2>2 DEF NumbersInv
    <3> QED BY <1>1, <1>6, <3>1 DEF Own
  <2>3. \A q \in Proposals \ guessed' : row'[q].id # 0 => (Own(q, row[q].id))'
    BY <1>1, <1>3, <1>4, <1>6 DEF NumbersInv, Own
  <2>4. \A x \in Executors : copy'[x].id # 0 /\ at'[x] \notin guessed' => (Own(at[x], copy[x].id))'
    BY <1>1, <1>6 DEF NumbersInv, Own
  <2>5. watch' # Idle /\ watch'.of \notin guessed' => (Own(watch.of, watch.event))'
    BY <1>1, <1>6 DEF NumbersInv, Own
  <2>6. ExecutedOnChain'  BY <1>1, <1>4 DEF NumbersInv, ExecutedOnChain
  <2>7. \A x \in Executors : pc'[x] = "record" => copy'[x].id \in executed'
    BY <1>1 DEF NumbersInv
  <2> QED BY <2>1, <2>2, <2>3, <2>4, <2>5, <2>6, <2>7 DEF NumbersInv
<1>8. \A i \in Issued : issued[i].of = p => i = n
  BY <1>1, <1>3, IssuedNumbers DEF OnceInv, Own
<1>9. \A x \in Executors : pc[x] = "register" => at[x] # p
  BY <1>1 DEF TypeInv, TypeOK, StepsInv
<1>10. OnceInv'
  <2>1. \A i \in Issued : i \in Held' => i \in Held \/ i = n  BY <1>5
  <2>2. issued' = issued /\ pc' = pc /\ at' = at  BY <1>1
  <2>3. \A q \in Proposals : row[q].id # 0 => row'[q].id # 0  BY <1>3, <1>4
  <2>4. ASSUME NEW i \in Issued, NEW q, q = issued[i].of
        PROVE  /\ issued[i].by = "creation" => creator'[q].step \in {"save", "done"}
               /\ issued[i].by = "execution" => creator'[q].step = "done"
               /\ issued[i].by = "creation" /\ i \in Held' =>
                    /\ \A j \in Issued : issued[j].of = q => j = i
                    /\ row'[q].id # 0
                    /\ \A x \in Executors : pc[x] = "register" => at[x] # q
    <3>1. q \in Proposals  BY <2>4, IssuedNumbers
    <3>2. CASE q = p  BY <1>1, <1>3, <1>4, <1>8, <1>9, <2>4, <3>2
    <3>3. CASE q # p
      <4>1. i # n /\ creator'[q] = creator[q]  BY <1>1, <1>3, <2>4, <3>1, <3>3 DEF Own
      <4> QED BY <2>1, <2>3, <2>4, <3>1, <4>1 DEF OnceInv
    <3> QED BY <3>2, <3>3
  <2> QED BY <1>6, <2>2, <2>4 DEF OnceInv
<1> QED BY <1>7, <1>10

\* Steps that leave the numbers where they are.
LEMMA NumbersStay ==
  ASSUME TypeInv, NumbersInv, OnceInv, UNCHANGED <<creator, issued, flying>>,
         \A p \in Proposals : row'[p].id = row[p].id
           /\ (row'[p].status = "executed" => row[p].status = "executed"),
         UNCHANGED <<execVars, watch>> \/ (UNCHANGED execVars /\ watch' = Idle),
         guessed \subseteq guessed', executed \subseteq executed', executed' \subseteq Known
  PROVE  NumbersInv' /\ OnceInv'
<1>1. \A p \in Proposals : RowFits(p)  BY StatusFits
<1>2. \A p \in Proposals : CreatorFits(p)  BY DEF CreatorFits
<1>3. \A x \in Executors : ExecutorFits(x)  BY ExecutorStays
<1>4. WatchFits  BY WatchStays
<1>5. flying' \subseteq Known  BY ChainStays
<1> QED BY <1>1, <1>2, <1>3, <1>4, <1>5, NumbersFrame

\* An executor that moves on, or leaves; a row may get its number or its status.
LEMMA ExecuteNumbers ==
  ASSUME TypeInv, RowsInv, NumbersInv, OnceInv, NEW x \in Executors,
         Execute(x) \/ ExecutorFails(x)
  PROVE  NumbersInv' /\ OnceInv'
<1>1. UNCHANGED <<creator, watch, guessed>> /\ executed \subseteq executed'
  BY DEF Execute, LoadProposal, RegisterNow, SaveNumber, ExecuteOnChain, CallFails,
         RecordExecution, ExecutorFails
<1>2. \A p \in Proposals : CreatorFits(p)  BY <1>1 DEF CreatorFits
<1>3. WatchFits  BY <1>1, WatchStays
<1>4. \A y \in Executors \ {x} : pc'[y] = pc[y] /\ at'[y] = at[y] /\ copy'[y] = copy[y]
  BY DEF Execute, LoadProposal, RegisterNow, SaveNumber, ExecuteOnChain, CallFails,
         RecordExecution, ExecutorFails, Goto, Leave, TypeInv, TypeOK
<1>5. \A y \in Executors \ {x} : ExecutorFits(y)  BY <1>1, <1>4, ExecutorStays
<1>6. ASSUME issued' = issued, \A p \in Proposals : RowFits(p), ExecutorFits(x),
             flying' \subseteq Known, executed' \subseteq Known
      PROVE  NumbersInv' /\ OnceInv'
  BY <1>1, <1>2, <1>3, <1>5, <1>6, NumbersFrame
<1>7. row' = row => \A p \in Proposals : RowFits(p)  BY <1>1, RowStays
<1>8. Leave(x) => ExecutorFits(x)
  BY LeaveType DEF ExecutorFits, TypeInv, Known
<1>9. copy[x].id \in Known  BY DEF Known, Held
<1>10. ASSUME NEW p \in Proposals, LoadProposal(x, p)
       PROVE  NumbersInv' /\ OnceInv'
  <2>1. /\ copy'[x] = row[p] /\ at'[x] = p
        /\ pc'[x] \in {"register", "execute"} /\ (pc'[x] = "register" => row[p].id = 0)
        /\ UNCHANGED <<row, chainVars>>
    BY <1>10 DEF LoadProposal, Goto, TypeInv, TypeOK
  <2>2. row[p].id \in Known /\ (row[p].id # 0 /\ p \notin guessed => Own(p, row[p].id))
    BY DEF Known, Held, NumbersInv
  <2>3. ExecutorFits(x)  BY <1>1, <2>1, <2>2 DEF ExecutorFits
  <2> QED BY <1>6, <1>7, <2>1, <2>3, ChainStays
<1>11. CASE SaveNumber(x)
  <2> DEFINE p == at[x]
  <2>1. /\ p \in Proposals /\ Save(p, copy[x]) /\ copy[x] \in RowTypes /\ copy[x].id # 0
        /\ copy[x].status = "passed" /\ pc'[x] = "execute" /\ UNCHANGED <<at, copy, chainVars>>
    BY <1>11 DEF SaveNumber, Goto, TypeInv, TypeOK, StepsInv
  <2>2. row'[p] = copy[x] /\ \A q \in Proposals \ {p} : row'[q] = row[q]
    BY <2>1, SaveType DEF TypeInv
  <2>3. p \notin guessed => Own(p, copy[x].id)  BY <2>1 DEF NumbersInv
  <2>4. at'[x] = p  BY <2>1
  <2> HIDE DEF p
  <2>5. RowFits(p)  BY <1>1, <1>9, <2>1, <2>2, <2>3 DEF RowFits
  <2>6. \A q \in Proposals : RowFits(q)  BY <1>1, <2>2, <2>5, RowStays
  <2>7. ExecutorFits(x)  BY <1>1, <1>9, <2>1, <2>3, <2>4 DEF ExecutorFits
  <2> QED BY <1>6, <2>1, <2>6, <2>7, ChainStays
<1>12. CASE ExecuteOnChain(x)
  <2>1. /\ pc'[x] = "record" /\ executed' = executed \cup {copy[x].id}
        /\ UNCHANGED <<row, at, copy, issued, flying>>
    BY <1>12 DEF ExecuteOnChain, Goto, TypeInv, TypeOK
  <2>2. copy[x].id # 0 /\ at[x] \notin guessed => Own(at[x], copy[x].id)  BY DEF NumbersInv
  <2>3. ExecutorFits(x)  BY <1>1, <1>9, <2>1, <2>2 DEF ExecutorFits
  <2> QED BY <1>6, <1>7, <1>9, <2>1, <2>3, ChainStays
<1>13. CASE CallFails(x)
  <2>1. Leave(x) /\ flying' \subseteq flying \cup {copy[x].id} /\ UNCHANGED <<row, issued, executed>>
    BY <1>13 DEF CallFails
  <2> QED BY <1>6, <1>7, <1>8, <1>9, <2>1, ChainStays
<1>14. CASE RecordExecution(x)
  <2> DEFINE p == at[x]
  <2>1. /\ p \in Proposals /\ Leave(x) /\ row' = [row EXCEPT ![p].status = "executed"]
        /\ copy[x].id \in executed /\ copy[x].id # 0 /\ UNCHANGED chainVars
        /\ (p \notin guessed => Own(p, copy[x].id))
    BY <1>14 DEF RecordExecution, TypeInv, TypeOK, NumbersInv
  <2> HIDE DEF p
  <2>2. /\ row'[p].id = row[p].id /\ \A q \in Proposals \ {p} : row'[q] = row[q]
    BY <2>1, StatusType DEF TypeInv, Statuses
  <2>3. p \notin guessed => copy[x].id \in executed \ {Foreign} /\ issued[copy[x].id].of = p
    BY <2>1, IssuedNumbers DEF Own
  <2>4. RowFits(p)
    <3>1. row[p].id \in Known /\ (row[p].id # 0 /\ p \notin guessed => Own(p, row[p].id))
      BY <2>1 DEF Known, Held, NumbersInv
    <3> QED BY <1>1, <2>2, <2>3, <3>1 DEF RowFits
  <2>5. \A q \in Proposals : RowFits(q)  BY <1>1, <2>2, <2>4, RowStays
  <2> QED BY <1>6, <1>8, <2>1, <2>5, ChainStays
<1>15. CASE ExecutorFails(x)
  BY <1>6, <1>7, <1>8, <1>15, ChainStays DEF ExecutorFails
<1>16. CASE RegisterNow(x)  BY <1>16, RegisterNowNumbers
<1> QED BY <1>10, <1>11, <1>12, <1>13, <1>14, <1>15, <1>16 DEF Execute

\* The indexer: an event of a number gives it to the row with that number, or to
\* one that is told of in guessed.
LEMMA EventNumbers ==
  ASSUME TypeInv, RowsInv, NumbersInv, OnceInv,
         (\E i \in Ids : LoadExecuted(i)) \/ SaveExecuted
  PROVE  NumbersInv' /\ OnceInv'
<1>1. UNCHANGED <<creator, execVars, chainVars>> /\ guessed \subseteq guessed'
  BY DEF LoadExecuted, SaveExecuted
<1>2. \A p \in Proposals : CreatorFits(p)  BY <1>1 DEF CreatorFits
<1>3. \A x \in Executors : ExecutorFits(x)  BY <1>1, ExecutorStays
<1>4. ASSUME WatchFits, \A p \in Proposals : RowFits(p)
      PROVE  NumbersInv' /\ OnceInv'
  BY <1>1, <1>2, <1>3, <1>4, ChainStays, NumbersFrame
<1>5. ASSUME NEW i \in Ids, LoadExecuted(i)
      PROVE  NumbersInv' /\ OnceInv'
  <2>1. \A p \in Proposals : RowFits(p)  BY <1>1, <1>5, RowStays DEF LoadExecuted
  <2>2. CASE UNCHANGED <<watch, guessed>>  BY <1>4, <2>1, <2>2, WatchStays
  <2>3. ASSUME NEW p \in Matched(i), watch' = [event |-> i, of |-> p, entity |-> row[p]],
               guessed' = IF WithNumber(i) = {} THEN guessed \cup {p} ELSE guessed
        PROVE  NumbersInv' /\ OnceInv'
    <3>1. p \notin guessed' => p \in Proposals /\ p \notin guessed /\ row[p].id = i
      BY <2>3 DEF Matched, WithNumber
    <3>2. i # 0  BY Bounds
    <3>3. p \notin guessed' => Own(p, i)  BY <3>1, <3>2 DEF NumbersInv
    <3>4. WatchFits  BY <2>3, <3>3 DEF WatchFits
    <3> QED BY <1>4, <2>1, <3>4
  <2> QED BY <1>5, <2>2, <2>3 DEF LoadExecuted
<1>6. CASE SaveExecuted
  <2> DEFINE p == watch.of
             n == watch.event
             e == [watch.entity EXCEPT !.status = "executed", !.id = watch.event]
  <2>1. p \in Proposals /\ n \in executed /\ Save(p, e) /\ watch' = Idle
        /\ guessed' = guessed /\ (p \notin guessed => Own(p, n))
    BY <1>6 DEF SaveExecuted, TypeInv, StepsInv, NumbersInv
  <2>2. e \in RowTypes /\ e.id = n
    BY <1>6 DEF SaveExecuted, TypeInv, TypeOK, RowTypes, Statuses
  <2>3. n \in Known /\ n # 0  BY <2>1, Bounds DEF Known, Held, TypeInv, TypeOK
  <2> HIDE DEF e, n, p
  <2>4. row'[p] = e /\ \A q \in Proposals \ {p} : row'[q] = row[q]
    BY <2>1, <2>2, SaveType DEF TypeInv
  <2>5. p \notin guessed => n \in executed \ {Foreign} /\ issued[n].of = p
    BY <2>1, IssuedNumbers DEF Own
  <2>6. RowFits(p)  BY <1>1, <2>1, <2>2, <2>3, <2>4, <2>5 DEF RowFits
  <2>7. \A q \in Proposals : RowFits(q)  BY <1>1, <2>4, <2>6, RowStays
  <2> QED BY <1>4, <2>1, <2>7, WatchStays
<1> QED BY <1>5, <1>6

LEMMA NumbersStep ==
  TypeInv /\ RowsInv /\ NumbersInv /\ OnceInv /\ [Next]_vars => NumbersInv' /\ OnceInv'
<1> SUFFICES ASSUME TypeInv, RowsInv, NumbersInv, OnceInv, [Next]_vars
             PROVE  NumbersInv' /\ OnceInv'
  OBVIOUS
<1>1. ASSUME NEW p \in Proposals, Create(p) \/ CreationFails(p)
      PROVE  NumbersInv' /\ OnceInv'
  <2>1. CASE RegisterAtCreation(p)  BY <2>1, RegisterAtCreationNumbers
  <2>2. CASE SaveChainId(p)  BY <2>2, SaveChainIdNumbers
  <2>3. CASE InsertProposal(p) \/ RegistrationDeferred(p) \/ CreationFails(p)
    <3>1. UNCHANGED <<execVars, chainVars, indexVars, histVars>>
      BY <2>3 DEF InsertProposal, RegistrationDeferred, CreationFails
    <3>2. \A q \in Proposals : row'[q].id = row[q].id
            /\ (row'[q].status = "executed" => row[q].status = "executed")
      <4>1. CASE InsertProposal(p)
        BY <4>1, StatusType DEF InsertProposal, TypeInv, Statuses
      <4> QED BY <2>3, <4>1 DEF RegistrationDeferred, CreationFails
    <3>3. \A q \in Proposals : RowFits(q)  BY <3>1, <3>2, StatusFits
    <3>4. \A q \in Proposals : CreatorFits(q)
      <4> USE DEF CreatorFits, TypeInv, TypeOK
      <4>1. CASE InsertProposal(p)  BY <4>1 DEF InsertProposal
      <4>2. CASE RegistrationDeferred(p)  BY <4>2 DEF RegistrationDeferred
      <4>3. CASE CreationFails(p)  BY <4>3 DEF CreationFails
      <4> QED BY <2>3, <4>1, <4>2, <4>3
    <3>5. \A x \in Executors : ExecutorFits(x)  BY <3>1, ExecutorStays
    <3>6. WatchFits /\ flying' \subseteq Known /\ executed' \subseteq Known
      BY <3>1, WatchStays, ChainStays
    <3> QED BY <3>1, <3>3, <3>4, <3>5, <3>6, NumbersFrame
  <2> QED BY <1>1, <2>1, <2>2, <2>3 DEF Create
<1>2. ASSUME NEW p \in Proposals, CheckExpiry(p) \/ TimePasses(p)
      PROVE  NumbersInv' /\ OnceInv'
  <2>1. UNCHANGED <<creator, execVars, chainVars, indexVars, histVars>>
    BY <1>2 DEF CheckExpiry, TimePasses
  <2>2. \A q \in Proposals : row'[q].id = row[q].id
          /\ (row'[q].status = "executed" => row[q].status = "executed")
    <3>1. CASE CheckExpiry(p)  BY <3>1, StatusType DEF CheckExpiry, TypeInv, Statuses
    <3> QED BY <1>2, <3>1 DEF TimePasses
  <2> QED BY <2>1, <2>2, ChainStays, NumbersStay
<1>3. ASSUME NEW p \in Proposals, NEW v \in Voters, NEW s \in {"yes", "no"},
             Vote(p, v, s) \/ IndexVote(p, v, s)
      PROVE  NumbersInv' /\ OnceInv'
  <2> DEFINE r == Counted(row[p], s)
  <2>1. UNCHANGED <<creator, execVars, chainVars, indexVars, histVars>>
    BY <1>3 DEF Vote, IndexVote
  <2>2. TypeOK /\ r \in RowTypes /\ r.status = row[p].status /\ r.id = row[p].id
    BY CountedType DEF TypeInv, TypeOK
  <2>3. row' = [row EXCEPT ![p] = r] \/ \E n \in EligibleCounts : row' = [row EXCEPT ![p] = Decided(r, n)]
    BY <1>3 DEF Vote, IndexVote
  <2> HIDE DEF r
  <2>4. \A n : Decided(r, n).id = r.id /\ Decided(r, n).status \in {r.status, "passed", "rejected"}
    BY <2>2, DecidedType
  <2>5. \A q \in Proposals : row'[q].id = row[q].id
          /\ (row'[q].status = "executed" => row[q].status = "executed")
    <3>1. CASE row' = [row EXCEPT ![p] = r]  BY <2>2, <3>1 DEF TypeOK
    <3>2. ASSUME NEW n \in EligibleCounts, row' = [row EXCEPT ![p] = Decided(r, n)]
          PROVE  \A q \in Proposals : row'[q].id = row[q].id
                   /\ (row'[q].status = "executed" => row[q].status = "executed")
      <4>1. row'[p] = Decided(r, n) /\ \A q \in Proposals \ {p} : row'[q] = row[q]
        BY <2>2, <3>2 DEF TypeOK
      <4> QED BY <2>2, <2>4, <4>1
    <3> QED BY <2>3, <3>1, <3>2
  <2> QED BY <2>1, <2>5, ChainStays, NumbersStay
<1>4. ASSUME NEW i \in Ids, LandLate(i)
      PROVE  NumbersInv' /\ OnceInv'
  <2>1. i \in Known  BY <1>4 DEF LandLate, Known, Held
  <2> QED BY <1>4, <2>1, ChainStays, NumbersStay DEF LandLate
<1>5. CASE ExecuteForeign
  BY <1>5, ChainStays, NumbersStay DEF ExecuteForeign, Known
<1>6. CASE IndexerFails \/ UNCHANGED vars
  BY <1>6, ChainStays, NumbersStay DEF IndexerFails, vars
<1> QED BY <1>1, <1>2, <1>3, <1>4, <1>5, <1>6, ExecuteNumbers, EventNumbers DEF Next

-----------------------------------------------------------------------------
(* Theorems                                                                *)

\* The inductive invariant holds in every state of the specification: types, steps,
\* counted ballots and the ownership of the contract's numbers.
THEOREM Invariance == Spec => []IInv
<1>1. IInv /\ [Next]_vars => IInv'
  BY TypeStep, RowsStep, VotesStep, NumbersStep DEF IInv
<1> QED BY InitInv, <1>1, PTL DEF Spec

\* A passed proposal had the majority of the ballots that came before it was decided
\* (vote), and EXECUTED is written only once the contract has executed a number of
\* the proposal (executeProposal, onGovernanceProposalExecuted), but for the
\* overwritten and guessed ones.
THEOREM StatusesAreBacked == Spec => []StatusIsBacked
<1>1. IInv => StatusIsBacked
  BY DEF IInv, TypeInv, VotesInv, NumbersInv, StatusIsBacked, PassedByMajority, Majority
<1> QED BY Invariance, <1>1, PTL

\* The counters of a proposal are its ballots, whichever way they came in (vote,
\* onGovernanceVoteCast), but for a row that an old entity was saved over.
THEOREM CountersMatch == Spec => []CountersAreBallots
<1>1. IInv => CountersAreBallots  BY DEF IInv, VotesInv
<1> QED BY Invariance, <1>1, PTL

\* A proposal registered at its creation is executed on chain at most once, however
\* many executors, retries and late transactions there are (executeProposal).
THEOREM ExecutedAtMostOnce == Spec => []ExecutedOnce
<1>1. IInv => ExecutedOnce
  <2> SUFFICES ASSUME IInv, NEW i \in executed \ {Foreign}, NEW j \in executed \ {Foreign},
                      i # j, issued[i].of = issued[j].of
               PROVE  issued[i].by = "execution" /\ issued[j].by = "execution"
    BY DEF ExecutedOnce
  <2>1. i \in Issued /\ j \in Issued  BY ExecutedIssued DEF IInv
  <2>2. i \in Held /\ j \in Held  BY DEF Held
  <2>3. issued[i].by \in {"creation", "execution"} /\ issued[j].by \in {"creation", "execution"}
    BY <2>1, IssuedNumbers DEF IInv
  <2> QED BY <2>1, <2>2, <2>3 DEF IInv, OnceInv
<1> QED BY Invariance, <1>1, PTL
=============================================================================
