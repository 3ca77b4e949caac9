---------------------------- MODULE Accounts_proofs ----------------------------
(* Theorems about Accounts, for any number of users and calls.                  *)
EXTENDS Accounts, TLAPS

-----------------------------------------------------------------------------
(* The inductive invariant                                                 *)

Edits == Removals \cup {"edit", "promote", "restore"}
Rows  == [exists : BOOLEAN, admin : BOOLEAN, active : BOOLEAN, session : 0..MaxTokens]
Entities ==
  [exists : BOOLEAN, admin : BOOLEAN, active : BOOLEAN, session : (0..MaxTokens) \cup {Unselected}]
Steps ==
  {"idle", "delete", "find", "existing", "insert", "token", "clear", "load", "count", "write"}
Kinds     == Edits \cup {"none", "login", "register", "refresh", "logout"}
CallTypes == [kind : Kinds, step : Steps, user : Users \cup {Nobody}, entity : Entities, held : Nat]

\* A call that will write a row has found one, and its entity says so, but not
\* which session it has.
CallsInv ==
  /\ call \in [Calls -> CallTypes] /\ stale \subseteq Calls
  /\ \A c \in Calls :
       /\ call[c].step \in {"load", "count", "write"} => call[c].kind \in Edits
       /\ call[c].step = "count" => call[c].kind \in Removals
       /\ call[c].step \in {"count", "write"} =>
            /\ row[call[c].user].exists
            /\ call[c].kind # "deactivate" =>
                 call[c].entity.exists /\ call[c].entity.session = Unselected

TypeInv == TypeOK /\ CallsInv

\* A challenge is stored for one user and has not been exchanged; who has fetched one
\* knows its user, and shares it or is the only one that will exchange it.
ChallengeInv ==
  /\ ChallengeOnce
  /\ \A u, v \in Users : challenge[u] = challenge[v] /\ challenge[u] # 0 => u = v
  /\ \A u \in Users : challenge[u] # 0 => challenge[u] \notin redeemed[1]
  /\ \A c \in Calls : call[c].step = "delete" => ~getdel /\ call[c].held \in 0..challenges
  /\ \A c \in Calls : call[c].step = "delete" /\ call[c].held # 0 =>
       /\ call[c].held \in redeemed[1] => call[c].held \in shared
       /\ \A v \in Users : challenge[v] = call[c].held => v = call[c].user
  /\ \A c, d \in Calls :
       c # d /\ call[c].step = "delete" /\ call[d].step = "delete" /\ call[c].held = call[d].held
         => call[c].held \in shared \cup {0}

\* A session is of one user and its token is not spent; a refresh in progress has a
\* token that at most its own user still has.  Nobody else is on its way to a refresh.
Entering == {"delete", "find", "existing", "insert"}
TokenInv ==
  /\ \A u, v \in Users : row[u].session = row[v].session /\ row[u].session # 0 => u = v
  /\ \A u \in Users : row[u].session # 0 => row[u].session \notin spent
  /\ \A c \in Calls : call[c].kind = "refresh" => call[c].step \notin Entering
  /\ \A c \in Calls : call[c].kind = "refresh" /\ call[c].step = "token" =>
       /\ call[c].held \in 1..tokens
       /\ \A v \in Users : row[v].session = call[c].held => v = call[c].user

\* Who is not stale would write what the row says, and has another administrator if
\* it takes one away.
AdminInv ==
  ~torn =>
    /\ \E u \in Users : ActiveAdmin(u)
    /\ \A c \in Calls \ stale :
         /\ call[c].step \in {"count", "write"} /\ call[c].kind # "deactivate" =>
              call[c].entity = Changed(call[c].kind, Loaded(call[c].user))
         /\ call[c].step = "write" /\ call[c].kind \in Removals /\ row[call[c].user].admin =>
              \E u \in Users \ {call[c].user} : ActiveAdmin(u)

IInv == TypeInv /\ ChallengeInv /\ TokenInv /\ AdminInv

-----------------------------------------------------------------------------
(* Rows, entities and calls                                                *)

\* The assumptions, in the form in which steps use them.
LEMMA Bounds ==
  /\ Wallets \subseteq Users /\ Nobody \notin Users
  /\ MaxChallenges \in Nat /\ MaxTokens \in Nat /\ MaxTokens # 0
  /\ Unselected \notin 0..MaxTokens /\ Unselected # 0
  /\ Removals = {"demote", "deactivate"}
  /\ Edits = {"demote", "deactivate", "edit", "promote", "restore"}
BY AccountConstants DEF Removals, Edits

LEMMA NoCallType ==
  /\ NoRow \in Rows /\ NoRow \in Entities /\ Member \in Rows /\ NoCall \in CallTypes
  /\ ~NoRow.exists /\ ~NoRow.active /\ NoRow.session = 0
  /\ Member.exists /\ Member.active /\ ~Member.admin /\ Member.session = 0
  /\ NoCall.step = "idle" /\ NoCall.kind = "none" /\ NoCall.user = Nobody /\ NoCall.held = 0
<1>1. NoRow \in Rows /\ NoRow \in Entities  BY Bounds DEF NoRow, Rows, Entities
<1>2. Member \in Rows  BY <1>1 DEF Member, Rows
<1>3. NoCall \in CallTypes  BY <1>1, Bounds DEF NoCall, CallTypes, Kinds, Steps
<1> QED BY <1>1, <1>2, <1>3 DEF NoRow, Member, NoCall

\* The entity that a query without refresh_token has loaded.
LEMMA LoadedType ==
  ASSUME NEW u \in Users, row[u] \in Rows
  PROVE  /\ Loaded(u) \in Entities /\ Loaded(u).session = Unselected
         /\ Loaded(u).exists = row[u].exists /\ Loaded(u).admin = row[u].admin
         /\ Loaded(u).active = row[u].active
BY Bounds DEF Loaded, Rows, Entities

\* What a call will save of it.
LEMMA ChangedType ==
  ASSUME NEW entity \in Entities, NEW kind \in Edits
  PROVE  /\ Changed(kind, entity) \in Entities
         /\ kind # "deactivate" =>
              /\ Changed(kind, entity).exists = entity.exists
              /\ Changed(kind, entity).session = entity.session
              /\ kind # "restore" => Changed(kind, entity).active = entity.active
              /\ kind = "restore" => Changed(kind, entity).active
              /\ kind \in {"edit", "restore"} => Changed(kind, entity).admin = entity.admin
              /\ kind = "promote" => Changed(kind, entity).admin
              /\ kind = "demote" => ~Changed(kind, entity).admin
<1>1. CASE kind = "edit"        BY <1>1 DEF Changed
<1>2. CASE kind = "promote"     BY <1>2 DEF Changed, WithRole, Entities
<1>3. CASE kind = "demote"      BY <1>3 DEF Changed, WithRole, Entities
<1>4. CASE kind = "restore"     BY <1>4 DEF Changed, Entities
<1>5. CASE kind = "deactivate"  BY <1>5, NoCallType DEF Changed
<1> QED BY <1>1, <1>2, <1>3, <1>4, <1>5, Bounds

LEMMA SavedType ==
  ASSUME NEW u \in Users, row[u] \in Rows, NEW entity \in Entities
  PROVE  /\ Saved(u, entity) \in Rows
         /\ Saved(u, entity).exists = entity.exists /\ Saved(u, entity).admin = entity.admin
         /\ Saved(u, entity).active = entity.active
         /\ entity.session = Unselected => Saved(u, entity).session = row[u].session
BY Bounds DEF Saved, Rows, Entities

\* Only c moves.
Moves(c) == call' \in [Calls -> CallTypes] /\ \A d \in Calls \ {c} : call'[d] = call[d]

LEMMA EndIs ==
  ASSUME call \in [Calls -> CallTypes], NEW c \in Calls, End(c)
  PROVE  Moves(c) /\ call'[c] = NoCall
BY NoCallType DEF End, Moves

LEMMA GotoIs ==
  ASSUME call \in [Calls -> CallTypes], NEW c \in Calls, NEW label \in Steps, Goto(c, label)
  PROVE  /\ Moves(c) /\ call'[c].step = label /\ call'[c].kind = call[c].kind
         /\ call'[c].user = call[c].user /\ call'[c].entity = call[c].entity
         /\ call'[c].held = call[c].held
BY DEF Goto, Moves, CallTypes

LEMMA BeginIs ==
  ASSUME call \in [Calls -> CallTypes], NEW c \in Calls, NEW kind \in Kinds, NEW label \in Steps,
         NEW u \in Users, NEW held \in Nat, Begin(c, kind, label, u, held)
  PROVE  /\ call[c] = NoCall /\ Moves(c) /\ call'[c].step = label /\ call'[c].kind = kind
         /\ call'[c].user = u /\ call'[c].held = held
<1> DEFINE x == [NoCall EXCEPT !.kind = kind, !.step = label, !.user = u, !.held = held]
<1>1. /\ x \in CallTypes /\ x.step = label /\ x.kind = kind /\ x.user = u /\ x.held = held
  BY NoCallType DEF CallTypes
<1>2. call[c] = NoCall /\ call' = [call EXCEPT ![c] = x]  BY DEF Begin
<1> HIDE DEF x
<1> QED BY <1>1, <1>2 DEF Moves

-----------------------------------------------------------------------------
(* Types                                                                   *)

\* What CallsInv asks of a call and its user's row.
CallOK(x, r) ==
  /\ x.step \in {"load", "count", "write"} => x.kind \in Edits
  /\ x.step = "count" => x.kind \in Removals
  /\ x.step \in {"count", "write"} =>
       r.exists /\ (x.kind # "deactivate" => x.entity.exists /\ x.entity.session = Unselected)

\* A call moves, and the rows stay.
LEMMA MoveType ==
  ASSUME TypeInv, NEW c \in Calls, Moves(c), row' = row,
         stale' \in {stale, stale \ {c}},
         c \in stale' => call'[c].step \in {"count", "write"},
         call'[c].user \in Users <=> call'[c] # NoCall,
         CallOK(call'[c], row'[call'[c].user])
  PROVE  /\ CallsInv'
         /\ \A d \in Calls : call'[d].user \in Users <=> call'[d] # NoCall
         /\ \A d \in stale' : call'[d].step \in {"count", "write"}
BY DEF TypeInv, TypeOK, CallsInv, CallOK, Moves

LEMMA CallTypeInv ==
  ASSUME TypeInv, NEW c \in Calls
  PROVE  /\ call[c] \in CallTypes /\ call \in [Calls -> CallTypes]
         /\ call[c] # NoCall => call[c].user \in Users /\ row[call[c].user] \in Rows
         /\ call[c].step # "idle" => call[c] # NoCall
         /\ CallOK(call[c], row[call[c].user])
         /\ \A u \in Users : row[u] \in Rows
BY NoCallType DEF TypeInv, TypeOK, CallsInv, CallOK, Rows, CallTypes

RedisOK ==
  /\ getdel \in BOOLEAN
  /\ challenge \in [Users -> 0..challenges] /\ challenges \in 0..MaxChallenges
  /\ redeemed[1] \cup redeemed[2] \cup shared \subseteq 1..challenges

LEMMA RedisType == TypeInv => RedisOK /\ (UNCHANGED redisVars => RedisOK')
BY DEF TypeInv, TypeOK, RedisOK, redisVars

\* Of the tables nothing changes; the call moves and may be stale no more.
LEMMA QuietMove ==
  ASSUME TypeInv, NEW c \in Calls, Moves(c), RedisOK', UNCHANGED <<row, tokenVars, torn>>,
         stale' \in {stale, stale \ {c}},
         c \in stale' => call'[c].step \in {"count", "write"},
         call'[c].user \in Users <=> call'[c] # NoCall,
         CallOK(call'[c], row'[call'[c].user])
  PROVE  TypeInv'
BY MoveType DEF TypeInv, TypeOK, RedisOK, tokenVars

LEMMA EndType ==
  ASSUME TypeInv, NEW c \in Calls, End(c), RedisOK', UNCHANGED <<row, tokenVars, torn>>,
         stale' \in {stale, stale \ {c}}, c \notin stale'
  PROVE  TypeInv'
<1>1. Moves(c) /\ call'[c] = NoCall  BY CallTypeInv, EndIs
<1>2. CallOK(call'[c], row'[call'[c].user]) /\ call'[c].user \notin Users
  BY <1>1, NoCallType, Bounds DEF CallOK
<1> QED BY <1>1, <1>2, QuietMove

LEMMA BeginType ==
  ASSUME TypeInv, NEW c \in Calls, NEW kind \in Kinds, NEW label \in Steps \ {"count", "write"},
         NEW u \in Users, NEW held \in Nat, Begin(c, kind, label, u, held),
         label = "load" => kind \in Edits, RedisOK',
         UNCHANGED <<row, tokenVars, raceVars>>
  PROVE  TypeInv'
<1>1. /\ call[c] = NoCall /\ Moves(c) /\ call'[c].step = label /\ call'[c].kind = kind
      /\ call'[c].user = u
  BY CallTypeInv, BeginIs
<1>2. c \notin stale  BY <1>1, NoCallType DEF TypeInv, TypeOK
<1>3. call'[c] # NoCall  BY <1>1, NoCallType, Bounds
<1>4. CallOK(call'[c], row'[call'[c].user])  BY <1>1 DEF CallOK
<1> QED BY <1>1, <1>2, <1>3, <1>4, QuietMove DEF raceVars

\* A call goes on to a step that is none of an edit.
LEMMA GotoType ==
  ASSUME TypeInv, NEW c \in Calls, call[c].step \notin {"idle", "count", "write"},
         NEW label \in Steps \ {"load", "count", "write"}, Goto(c, label),
         RedisOK',
         UNCHANGED <<row, tokenVars, raceVars>>
  PROVE  TypeInv'
<1>1. /\ Moves(c) /\ call'[c].step = label /\ call'[c].user = call[c].user
  BY CallTypeInv, GotoIs
<1>2. c \notin stale  BY DEF TypeInv, TypeOK
<1>3. label # "idle" => call'[c] # NoCall  BY <1>1, NoCallType
<1>4. CallOK(call'[c], row'[call'[c].user])  BY <1>1 DEF CallOK
<1>5. call[c].user \in Users  BY CallTypeInv
<1>6. call'[c] # NoCall  BY <1>1, <1>5, NoCallType, Bounds
<1> QED BY <1>1, <1>2, <1>4, <1>5, <1>6, QuietMove DEF raceVars

\* A row is written that exists (from now on), and no other call's user loses his.
LEMMA RowType ==
  ASSUME TypeInv, NEW c \in Calls, NEW u \in Users, Moves(c), UNCHANGED redisVars,
         row' \in [Users -> Rows], \A v \in Users \ {u} : row'[v] = row[v],
         row[u].exists => row'[u].exists,
         tokens' \in tokens..MaxTokens, row'[u].session <= tokens', spent' \subseteq 1..tokens',
         torn' \in BOOLEAN, stale' \subseteq Calls,
         \A d \in stale' : call'[d].step \in {"count", "write"},
         call'[c].user \in Users <=> call'[c] # NoCall,
         CallOK(call'[c], row'[call'[c].user])
  PROVE  TypeInv'
<1>1. \A d \in Calls : CallOK(call'[d], row'[call'[d].user])
  <2> SUFFICES ASSUME NEW d \in Calls \ {c}
               PROVE  CallOK(call[d], row'[call[d].user])
    BY DEF Moves
  <2>1. CallOK(call[d], row[call[d].user])  BY CallTypeInv
  <2>2. CASE call[d].user = u  BY <2>1, <2>2 DEF CallOK
  <2>3. CASE call[d].user # u
    <3>1. call[d].step # "idle" => call[d].user \in Users  BY CallTypeInv
    <3> QED BY <2>1, <2>3, <3>1 DEF CallOK
  <2> QED BY <2>2, <2>3
<1>2. CallsInv'  BY <1>1 DEF CallsInv, CallOK, Moves
<1>3. \A v \in Users : row'[v].session <= tokens'
  <2> SUFFICES ASSUME NEW v \in Users \ {u}
               PROVE  row[v].session <= tokens'
    OBVIOUS
  <2> QED BY DEF TypeInv, TypeOK, Rows
<1>4. \A d \in Calls : call'[d].user \in Users <=> call'[d] # NoCall
  BY DEF TypeInv, TypeOK, Moves
<1>5. tokens' \in 0..MaxTokens  BY Bounds DEF TypeInv, TypeOK
<1> QED BY <1>2, <1>3, <1>4, <1>5 DEF TypeInv, TypeOK, redisVars, Rows

LEMMA InitInv == Init => IInv
<1> SUFFICES ASSUME Init
             PROVE  IInv
  OBVIOUS
<1> USE DEF Init
<1>1. row \in [Users -> Rows]
  <2>1. [Member EXCEPT !.admin = TRUE] \in Rows /\ [Member EXCEPT !.session = 1] \in Rows
    <3>1. 1 \in 0..MaxTokens  BY Bounds
    <3> QED BY <3>1, NoCallType DEF Rows
  <2> QED BY <2>1, NoCallType
<1>2. \A u \in Users : row[u].session \in {0, 1}
  <2>1. [Member EXCEPT !.admin = TRUE].session = 0 /\ [Member EXCEPT !.session = 1].session = 1
    BY NoCallType DEF Rows
  <2> QED BY <2>1, NoCallType
<1>3. TypeInv
  <2>1. 0 \in 0..MaxChallenges /\ 1 \in 0..MaxTokens  BY Bounds
  <2>2. /\ row \in [Users -> Rows] /\ tokens \in 0..MaxTokens
        /\ \A u \in Users : row[u].session <= tokens
    BY <1>1, <1>2, <2>1
  <2>3. \A c \in Calls : call[c].user \in Users <=> call[c] # NoCall  BY NoCallType, Bounds
  <2>4. challenge \in [Users -> 0..challenges] /\ challenges \in 0..MaxChallenges  BY <2>1
  <2>5. redeemed[1] \cup redeemed[2] \cup shared \subseteq 1..challenges  OBVIOUS
  <2>6. TypeOK  BY <2>2, <2>3, <2>4, <2>5 DEF TypeOK, Rows
  <2>7. CallsInv  BY NoCallType DEF CallsInv
  <2> QED BY <2>6, <2>7 DEF TypeInv
<1>4. ChallengeInv  BY NoCallType DEF ChallengeInv, ChallengeOnce
<1>5. TokenInv  BY <1>2, NoCallType DEF TokenInv
<1>6. AdminInv  BY NoCallType DEF AdminInv
<1> QED BY <1>3, <1>4, <1>5, <1>6 DEF IInv

\* Writing a row whose role or activity changes.
LEMMA WriteRowIs ==
  ASSUME TypeInv, NEW c \in Calls, NEW u \in Users, NEW new \in Rows, WriteRow(c, u, new)
  PROVE  /\ row' \in [Users -> Rows] /\ row'[u] = new
         /\ \A v \in Users \ {u} : row'[v] = row[v]
         /\ torn' \in BOOLEAN /\ stale' \subseteq Calls \ {c}
         /\ \A d \in stale' : call[d].step \in {"count", "write"}
         /\ ~torn' => ~torn /\ c \notin stale
         /\ ~torn' => \A d \in Calls \ ({c} \cup stale') :
              d \notin stale /\ (new # row[u] => ~ReadBefore(d, u))
<1>1. row' \in [Users -> Rows] /\ row'[u] = new /\ \A v \in Users \ {u} : row'[v] = row[v]
  BY DEF TypeInv, TypeOK, WriteRow, Rows
<1>2. torn' \in BOOLEAN /\ (~torn' => ~torn /\ c \notin stale)  BY DEF TypeInv, TypeOK, WriteRow
<1>3. stale' \subseteq Calls \ {c}  BY DEF WriteRow
<1>4. \A d \in stale' : d \in stale \/ ReadBefore(d, u)  BY DEF WriteRow
<1>5. \A d \in stale' : call[d].step \in {"count", "write"}
  BY <1>4 DEF TypeInv, TypeOK, ReadBefore
<1>6. ~torn' => \A d \in Calls \ ({c} \cup stale') :
        d \notin stale /\ (new # row[u] => ~ReadBefore(d, u))
  BY DEF WriteRow
<1> QED BY <1>1, <1>2, <1>3, <1>5, <1>6

\* What WriteUser leaves of the row.
Written(c) ==
  IF call[c].kind = "deactivate" THEN [row[call[c].user] EXCEPT !.active = FALSE]
                                 ELSE Saved(call[c].user, call[c].entity)

LEMMA WrittenType ==
  ASSUME TypeInv, NEW c \in Calls, call[c].step = "write"
  PROVE  /\ call[c].user \in Users /\ row[call[c].user].exists
         /\ Written(c) \in Rows /\ Written(c).exists
         /\ Written(c).session = row[call[c].user].session
         /\ call[c].kind = "deactivate" =>
              Written(c).admin = row[call[c].user].admin /\ ~Written(c).active
         /\ call[c].kind # "deactivate" =>
              /\ Written(c).admin = call[c].entity.admin
              /\ Written(c).active = call[c].entity.active
<1>1. /\ call[c] \in CallTypes /\ call[c].user \in Users /\ row[call[c].user] \in Rows
      /\ CallOK(call[c], row[call[c].user])
  BY CallTypeInv
<1>2. call[c].entity \in Entities  BY <1>1 DEF CallTypes
<1>3. CASE call[c].kind = "deactivate"  BY <1>1, <1>3 DEF Written, CallOK, Rows
<1>4. CASE call[c].kind # "deactivate"
  BY <1>1, <1>2, <1>4, SavedType DEF Written, CallOK
<1> QED BY <1>1, <1>3, <1>4 DEF CallOK

LEMMA WriteUserType == ASSUME TypeInv, NEW c \in Calls, WriteUser(c) PROVE TypeInv'
<1> DEFINE u == call[c].user
<1>1. call[c].step = "write"  BY DEF WriteUser
<1>2. WriteRow(c, u, Written(c)) /\ End(c) /\ UNCHANGED <<redisVars, tokenVars>>
  BY DEF WriteUser, Written
<1>3. /\ u \in Users /\ row[u].exists /\ Written(c) \in Rows /\ Written(c).exists
      /\ Written(c).session = row[u].session
  BY <1>1, WrittenType
<1>4. Moves(c) /\ call'[c] = NoCall  BY <1>2, CallTypeInv, EndIs
<1>5. /\ row' \in [Users -> Rows] /\ row'[u] = Written(c)
      /\ \A v \in Users \ {u} : row'[v] = row[v]
      /\ torn' \in BOOLEAN /\ stale' \subseteq Calls \ {c}
      /\ \A d \in stale' : call[d].step \in {"count", "write"}
  BY <1>2, <1>3, WriteRowIs
<1>6. CallOK(call'[c], row'[call'[c].user]) /\ call'[c].user \notin Users
  BY <1>4, NoCallType, Bounds DEF CallOK
<1>7. \A d \in stale' : call'[d].step \in {"count", "write"}  BY <1>4, <1>5 DEF Moves
<1>8. /\ UNCHANGED redisVars /\ tokens' = tokens /\ spent' = spent
      /\ tokens \in 0..MaxTokens /\ spent \subseteq 1..tokens
      /\ row[u].session <= tokens /\ tokens \in tokens..MaxTokens
  BY <1>2, <1>3 DEF tokenVars, TypeInv, TypeOK
<1> HIDE DEF u
<1> QED BY <1>3, <1>4, <1>5, <1>6, <1>7, <1>8, RowType

\* One more challenge has been exchanged.
LEMMA ExchangeIs ==
  ASSUME NEW n
  PROVE  /\ Exchange(redeemed, n)[1] = redeemed[1] \cup {n}
         /\ Exchange(redeemed, n)[2] =
              IF n \in redeemed[1] THEN redeemed[2] \cup {n} ELSE redeemed[2]
         /\ \A S : n \in S /\ redeemed[1] \cup redeemed[2] \cup shared \subseteq S =>
              Exchange(redeemed, n)[1] \cup Exchange(redeemed, n)[2] \cup shared \subseteq S
BY DEF Exchange

LEMMA LoadUserType == ASSUME TypeInv, NEW c \in Calls, LoadUser(c) PROVE TypeInv'
<1> DEFINE u == call[c].user
           kind == call[c].kind
           entity == Changed(kind, Loaded(u))
<1>1. /\ call[c].step = "load" /\ kind \in Edits /\ u \in Users /\ row[u] \in Rows
      /\ call[c] \in CallTypes /\ call \in [Calls -> CallTypes]
  BY CallTypeInv DEF LoadUser, CallOK
<1>2. UNCHANGED <<row, tokenVars, raceVars>> /\ RedisOK'  BY RedisType DEF LoadUser
<1>3. c \notin stale  BY <1>1 DEF TypeInv, TypeOK
<1>4. CASE ~row[u].exists
  <2>1. End(c)  BY <1>4 DEF LoadUser
  <2> QED BY <1>2, <1>3, <2>1, EndType DEF raceVars
<1>5. CASE row[u].exists
  <2>1. Loaded(u) \in Entities /\ Loaded(u).session = Unselected /\ Loaded(u).exists
    BY <1>1, <1>5, LoadedType
  <2>2. /\ entity \in Entities
        /\ kind # "deactivate" => entity.exists /\ entity.session = Unselected
    BY <1>1, <2>1, ChangedType
  <2> HIDE DEF entity
  <2>3. PICK s \in {"count", "write"} :
          /\ call' = [call EXCEPT ![c].entity = entity, ![c].step = s]
          /\ s = "count" => kind \in Removals
    <3>1. CASE MustCount(kind, Loaded(u))  BY <1>5, <3>1 DEF LoadUser, MustCount, entity
    <3>2. CASE ~MustCount(kind, Loaded(u))  BY <1>5, <3>2 DEF LoadUser, entity
    <3> QED BY <3>1, <3>2
  <2> DEFINE x == [call[c] EXCEPT !.entity = entity, !.step = s]
  <2>4. /\ x \in CallTypes /\ x.step = s /\ x.entity = entity /\ x.user = u /\ x.kind = kind
    BY <1>1, <2>2 DEF CallTypes, Steps
  <2>5. call' = [call EXCEPT ![c] = x]  BY <2>3
  <2> HIDE DEF x
  <2>6. Moves(c) /\ call'[c] = x  BY <1>1, <2>4, <2>5 DEF Moves
  <2>7. x # NoCall  BY <2>4, NoCallType
  <2>8. CallOK(call'[c], row'[call'[c].user])
    BY <1>1, <1>2, <1>5, <2>2, <2>3, <2>4, <2>6 DEF CallOK
  <2> QED BY <1>1, <1>2, <1>3, <2>4, <2>6, <2>7, <2>8, QuietMove DEF raceVars
<1> QED BY <1>4, <1>5

LEMMA RowsAreRows == TypeInv => row \in [Users -> Rows]
BY DEF TypeInv, TypeOK, Rows

LEMMA InsertUserType == ASSUME TypeInv, NEW c \in Calls, InsertUser(c) PROVE TypeInv'
<1> DEFINE u == call[c].user
<1>1. /\ call[c].step = "insert" /\ u \in Users /\ call \in [Calls -> CallTypes]
  BY CallTypeInv DEF InsertUser
<1>2. UNCHANGED <<redisVars, tokenVars, raceVars>> /\ RedisOK'  BY RedisType DEF InsertUser
<1>3. c \notin stale  BY <1>1 DEF TypeInv, TypeOK
<1>4. CASE row[u].exists
  <2>1. End(c) /\ row' = row  BY <1>4 DEF InsertUser
  <2> QED BY <1>2, <1>3, <2>1, EndType DEF raceVars
<1>5. CASE ~row[u].exists
  <2>1. Goto(c, "token") /\ row' = [row EXCEPT ![u] = Member]  BY <1>5 DEF InsertUser
  <2>2. Moves(c) /\ call'[c].step = "token" /\ call'[c].user = u
    BY <1>1, <2>1, GotoIs DEF Steps
  <2>3. /\ row' \in [Users -> Rows] /\ row'[u] = Member
        /\ \A v \in Users \ {u} : row'[v] = row[v]
    BY <1>1, <2>1, NoCallType, RowsAreRows
  <2>4. /\ call'[c] # NoCall /\ CallOK(call'[c], row'[call'[c].user])
    BY <2>2, NoCallType DEF CallOK
  <2>5. \A d \in stale : call'[d].step \in {"count", "write"}
    BY <1>3, <2>2 DEF Moves, TypeInv, TypeOK, CallsInv
  <2>6. /\ tokens' = tokens /\ spent' = spent /\ stale' = stale /\ torn' = torn
        /\ tokens \in 0..MaxTokens /\ spent \subseteq 1..tokens /\ torn \in BOOLEAN
        /\ stale \subseteq Calls /\ tokens \in tokens..MaxTokens /\ 0 <= tokens
    BY <1>2 DEF tokenVars, raceVars, TypeInv, TypeOK, CallsInv
  <2> HIDE DEF u
  <2> QED BY <1>1, <1>2, <2>2, <2>3, <2>4, <2>5, <2>6, NoCallType, RowType
<1> QED BY <1>4, <1>5

\* A session is stored or cleared.
LEMMA SessionType ==
  ASSUME TypeInv, NEW c \in Calls, call[c].step \in {"token", "clear"},
         NEW t \in 0..MaxTokens, row' = [row EXCEPT ![call[c].user].session = t], End(c),
         UNCHANGED <<redisVars, raceVars>>,
         tokens' \in tokens..MaxTokens, t <= tokens', spent' \subseteq 1..tokens'
  PROVE  TypeInv'
<1> DEFINE u == call[c].user
           r == [row[u] EXCEPT !.session = t]
<1>1. u \in Users /\ c \notin stale  BY CallTypeInv DEF TypeInv, TypeOK
<1>2. r \in Rows /\ r.exists = row[u].exists /\ r.session = t
  <2>1. row[u] \in Rows  BY <1>1, RowsAreRows
  <2> QED BY <2>1 DEF Rows
<1>3. row' = [row EXCEPT ![u] = r]  OBVIOUS
<1> HIDE DEF r
<1>4. row' \in [Users -> Rows] /\ row'[u] = r /\ \A v \in Users \ {u} : row'[v] = row[v]
  BY <1>1, <1>2, <1>3, RowsAreRows
<1>5. Moves(c) /\ call'[c] = NoCall  BY CallTypeInv, EndIs
<1>6. CallOK(call'[c], row'[call'[c].user]) /\ call'[c].user \notin Users
  BY <1>5, NoCallType, Bounds DEF CallOK
<1>7. /\ \A d \in stale' : call'[d].step \in {"count", "write"}
      /\ torn' \in BOOLEAN /\ stale' \subseteq Calls
  BY <1>1, <1>5 DEF raceVars, Moves, TypeInv, TypeOK, CallsInv
<1> HIDE DEF u
<1> QED BY <1>1, <1>2, <1>4, <1>5, <1>6, <1>7, RowType

LEMMA TypeStep == IInv /\ [Next]_vars => TypeInv'
<1> SUFFICES ASSUME IInv, TypeInv, [Next]_vars
             PROVE  TypeInv'
  BY DEF IInv
<1>1. ASSUME NEW u \in Wallets, GenerateChallenge(u)
      PROVE  TypeInv'
  BY <1>1, Bounds DEF GenerateChallenge, tokenVars, raceVars, TypeInv, TypeOK, CallsInv
<1>2. ASSUME NEW u \in Wallets, ChallengeExpires(u)
      PROVE  TypeInv'
  BY <1>2, Bounds DEF ChallengeExpires, tokenVars, raceVars, TypeInv, TypeOK, CallsInv
<1>3. ASSUME NEW c \in Calls, NEW u \in Wallets, NEW n \in 0..challenges,
             NEW kind \in {"login", "register"}, ConsumeChallenge(c, kind, u, n)
      PROVE  TypeInv'
  <2>1. /\ UNCHANGED <<row, tokenVars, raceVars>> /\ challenge[u] # 0 /\ TakeIt(u)
        /\ UNCHANGED <<getdel, challenges, shared>>
    BY <1>3 DEF ConsumeChallenge
  <2>2. challenge' \in [Users -> 0..challenges] /\ challenges' = challenges
    BY <2>1, Bounds DEF TakeIt, TypeInv, TypeOK
  <2>3. CASE challenge[u] = n
    <3>1. /\ Begin(c, kind, AfterRedeeming(kind), u, 0) /\ redeemed' = Exchange(redeemed, n)
      BY <1>3, <2>3 DEF ConsumeChallenge
    <3>2. n \in 1..challenges  BY <2>1, <2>3 DEF TypeInv, TypeOK
    <3>3. redeemed'[1] \cup redeemed'[2] \cup shared' \subseteq 1..challenges
      BY <2>1, <3>1, <3>2, ExchangeIs DEF TypeInv, TypeOK
    <3>5. RedisOK'  BY <2>1, <2>2, <3>3 DEF RedisOK, TypeInv, TypeOK
    <3>4. AfterRedeeming(kind) \in {"find", "existing"}  BY DEF AfterRedeeming
    <3> HIDE DEF AfterRedeeming
    <3> QED BY <2>1, <3>1, <3>4, <3>5, Bounds, BeginType DEF Kinds, Steps
  <2>4. CASE challenge[u] # n
    <3>1. UNCHANGED <<call, redeemed>>  BY <1>3, <2>4 DEF ConsumeChallenge
    <3> QED
      BY <2>1, <2>2, <3>1 DEF TypeInv, TypeOK, CallsInv, tokenVars, raceVars
  <2> QED BY <2>3, <2>4
<1>4. ASSUME NEW c \in Calls, NEW u \in Wallets, NEW n \in 0..challenges,
             NEW kind \in {"login", "register"}, FetchChallenge(c, kind, u, n)
      PROVE  TypeInv'
  <2>1. PICK held \in Nat : Begin(c, kind, "delete", u, held)
    BY <1>4 DEF FetchChallenge, TypeInv, TypeOK
  <2>2. shared' \subseteq shared \cup {challenge[u]} /\ challenge[u] # 0
    BY <1>4 DEF FetchChallenge
  <2>3. RedisOK' /\ UNCHANGED <<row, tokenVars, raceVars>>
    BY <1>4, <2>2, Bounds DEF FetchChallenge, RedisOK, TypeInv, TypeOK
  <2> QED BY <2>1, <2>3, Bounds, BeginType DEF Kinds, Steps
<1>5. ASSUME NEW c \in Calls, DeleteChallenge(c)
      PROVE  TypeInv'
  <2>1. /\ call[c].step = "delete" /\ call[c].user \in Users /\ call \in [Calls -> CallTypes]
        /\ c \notin stale
    BY <1>5, CallTypeInv DEF DeleteChallenge, TypeInv, TypeOK
  <2>2. /\ UNCHANGED <<row, tokenVars, raceVars>> /\ TakeIt(call[c].user)
        /\ UNCHANGED <<getdel, challenges, shared>>
    BY <1>5 DEF DeleteChallenge
  <2>3. challenge' \in [Users -> 0..challenges]  BY <2>1, <2>2 DEF TakeIt, TypeInv, TypeOK
  <2>4. CASE call[c].held = 0
    <3>1. End(c) /\ redeemed' = redeemed  BY <1>5, <2>4 DEF DeleteChallenge
    <3>2. RedisOK'  BY <2>2, <2>3, <3>1 DEF RedisOK, TypeInv, TypeOK
    <3> QED BY <2>1, <2>2, <3>1, <3>2, EndType DEF raceVars
  <2>5. CASE call[c].held # 0
    <3> DEFINE s == AfterRedeeming(call[c].kind)
               x == [call[c] EXCEPT !.step = s, !.held = 0]
    <3>1. s \in {"find", "existing"}  BY DEF AfterRedeeming
    <3>2. call' = [call EXCEPT ![c] = x] /\ redeemed' = Exchange(redeemed, call[c].held)
      BY <1>5, <2>5 DEF DeleteChallenge
    <3> HIDE DEF s
    <3>3. x \in CallTypes /\ x.step = s /\ x.user = call[c].user
      BY <2>1, <3>1 DEF CallTypes, Steps
    <3> HIDE DEF x
    <3>4. Moves(c) /\ call'[c] = x  BY <2>1, <3>2, <3>3 DEF Moves
    <3>5. call[c].held \in 1..challenges  BY <2>1, <2>5 DEF IInv, ChallengeInv, TypeInv, TypeOK
    <3>6. RedisOK'
      <4>1. redeemed[1] \cup redeemed[2] \cup shared \subseteq 1..challenges
        BY DEF TypeInv, TypeOK
      <4>2. \A n \in 1..challenges :
              Exchange(redeemed, n)[1] \cup Exchange(redeemed, n)[2] \cup shared
                \subseteq 1..challenges
        BY <4>1, ExchangeIs
      <4>3. redeemed'[1] \cup redeemed'[2] \cup shared' \subseteq 1..challenges
        BY <2>2, <3>2, <3>5, <4>2
      <4> QED BY <2>2, <2>3, <4>3 DEF RedisOK, TypeInv, TypeOK
    <3>7. x # NoCall /\ CallOK(call'[c], row'[call'[c].user])
      BY <3>1, <3>3, <3>4, NoCallType DEF CallOK
    <3> QED BY <2>1, <2>2, <3>3, <3>4, <3>6, <3>7, QuietMove DEF raceVars
  <2> QED BY <2>4, <2>5
<1>6. ASSUME NEW c \in Calls, FindActiveUser(c)
      PROVE  TypeInv'
  <2>1. call[c].step = "find" /\ UNCHANGED <<row, tokenVars, raceVars>> /\ RedisOK' /\ c \notin stale
    BY <1>6, RedisType DEF FindActiveUser, TypeInv, TypeOK
  <2>2. End(c) \/ Goto(c, "token")  BY <1>6 DEF FindActiveUser
  <2> QED BY <2>1, <2>2, EndType, GotoType DEF Steps, raceVars
<1>7. ASSUME NEW c \in Calls, FindExisting(c)
      PROVE  TypeInv'
  <2>1. /\ call[c].step = "existing" /\ UNCHANGED <<row, tokenVars, raceVars>> /\ RedisOK'
        /\ c \notin stale
    BY <1>7, RedisType DEF FindExisting, TypeInv, TypeOK
  <2>2. End(c) \/ Goto(c, "insert")  BY <1>7 DEF FindExisting
  <2> QED BY <2>1, <2>2, EndType, GotoType DEF Steps, raceVars
<1>8. ASSUME NEW c \in Calls, InsertUser(c)
      PROVE  TypeInv'
  BY <1>8, InsertUserType
<1>9. ASSUME NEW c \in Calls, NEW u \in Wallets, NEW t \in 1..tokens, AcceptToken(c, u, t)
      PROVE  TypeInv'
  BY <1>9, Bounds, RedisType, BeginType DEF AcceptToken, Kinds, Steps, TypeInv, TypeOK
<1>10. ASSUME NEW c \in Calls, StoreToken(c)
       PROVE  TypeInv'
  <2>1. /\ call[c].step = "token" /\ tokens < MaxTokens /\ End(c) /\ UNCHANGED <<redisVars, raceVars>>
        /\ row' = [row EXCEPT ![call[c].user].session = tokens + 1] /\ tokens' = tokens + 1
        /\ spent' = IF call[c].kind = "refresh" THEN spent \cup {call[c].held} ELSE spent
    BY <1>10 DEF StoreToken, NewToken
  <2>2. tokens + 1 \in 0..MaxTokens /\ tokens + 1 \in tokens..MaxTokens
    BY <2>1, Bounds DEF TypeInv, TypeOK
  <2>3. spent' \subseteq 1..tokens'
    <3>1. call[c].kind = "refresh" => call[c].held \in 1..tokens
      BY <2>1 DEF IInv, TokenInv
    <3> QED BY <2>1, <2>2, <3>1 DEF TypeInv, TypeOK
  <2>4. tokens' \in tokens..MaxTokens /\ tokens + 1 <= tokens'  BY <2>1, <2>2
  <2> QED BY <2>1, <2>2, <2>3, <2>4, SessionType
<1>11. ASSUME NEW c \in Calls, NEW u \in Wallets, StartLogout(c, u)
       PROVE  TypeInv'
  BY <1>11, Bounds, RedisType, BeginType DEF StartLogout, Kinds, Steps
<1>12. ASSUME NEW c \in Calls, Logout(c)
       PROVE  TypeInv'
  <2>1. /\ call[c].step = "clear" /\ End(c) /\ UNCHANGED <<redisVars, tokenVars, raceVars>>
        /\ row' = [row EXCEPT ![call[c].user].session = 0]
    BY <1>12 DEF Logout
  <2>2. /\ 0 \in 0..MaxTokens /\ tokens' = tokens /\ spent' = spent /\ tokens \in tokens..MaxTokens
        /\ 0 <= tokens /\ spent \subseteq 1..tokens
    BY <2>1, Bounds DEF tokenVars, TypeInv, TypeOK
  <2> QED BY <2>1, <2>2, SessionType
<1>13. ASSUME NEW c \in Calls, NEW u \in Users, StartProfile(c, u)
       PROVE  TypeInv'
  BY <1>13, Bounds, RedisType, BeginType DEF StartProfile, Kinds, Steps
<1>14. ASSUME NEW c \in Calls, NEW actor \in Users, NEW u \in Users, NEW kind \in Edits,
              StartAdmin(c, kind, actor, u)
       PROVE  TypeInv'
  BY <1>14, Bounds, RedisType, BeginType DEF StartAdmin, Kinds, Steps
<1>15. ASSUME NEW c \in Calls, LoadUser(c)
       PROVE  TypeInv'
  BY <1>15, LoadUserType
<1>16. ASSUME NEW c \in Calls, CountAdmins(c)
       PROVE  TypeInv'
  <2>1. call[c].step = "count" /\ UNCHANGED <<row, tokenVars, torn>> /\ RedisOK'
    BY <1>16, RedisType DEF CountAdmins
  <2>2. CASE End(c) /\ stale' = stale \ {c}  BY <2>1, <2>2, EndType
  <2>3. CASE Goto(c, "write") /\ stale' = stale
    <3>1. /\ Moves(c) /\ call'[c].step = "write" /\ call'[c].kind = call[c].kind
          /\ call'[c].user = call[c].user /\ call'[c].entity = call[c].entity
      BY <2>3, CallTypeInv, GotoIs DEF Steps
    <3>2. CallOK(call[c], row[call[c].user]) /\ call[c].user \in Users  BY <2>1, CallTypeInv
    <3>3. call'[c] # NoCall  BY <3>1, NoCallType
    <3>4. CallOK(call'[c], row'[call'[c].user])  BY <2>1, <3>1, <3>2, Bounds DEF CallOK
    <3> QED BY <2>1, <2>3, <3>1, <3>2, <3>3, <3>4, QuietMove
  <2> QED BY <1>16, <2>2, <2>3 DEF CountAdmins
<1>17. ASSUME NEW c \in Calls, WriteUser(c)
       PROVE  TypeInv'
  BY <1>17, WriteUserType
<1>18. ASSUME NEW c \in Calls, CallFails(c)
       PROVE  TypeInv'
  BY <1>18, RedisType, EndType DEF CallFails
<1>19. CASE UNCHANGED vars
  BY <1>19 DEF vars, redisVars, tokenVars, raceVars, TypeInv, TypeOK, CallsInv
<1> QED
  BY <1>1, <1>2, <1>3, <1>4, <1>5, <1>6, <1>7, <1>8, <1>9, <1>10, <1>11, <1>12, <1>13, <1>14,
     <1>15, <1>16, <1>17, <1>18, <1>19 DEF Next, Redis, Session, Account, Edits

-----------------------------------------------------------------------------
(* Challenges                                                              *)

LEMMA ChallengeFrame ==
  ASSUME ChallengeInv, NEW c \in Calls, Moves(c), call'[c].step # "delete", UNCHANGED redisVars
  PROVE  ChallengeInv'
BY DEF ChallengeInv, ChallengeOnce, Moves, redisVars

\* A challenge goes, and who had fetched it goes on.
LEMMA ChallengeTaken ==
  ASSUME TypeInv, ChallengeInv, NEW c \in Calls, Moves(c), call'[c].step # "delete",
         NEW u \in Users, TakeIt(u), UNCHANGED <<getdel, challenges, redeemed, shared>>
  PROVE  ChallengeInv'
<1>1. \A v \in Users : challenge'[v] = IF v = u THEN 0 ELSE challenge[v]
  BY DEF TakeIt, TypeInv, TypeOK
<1> QED BY <1>1 DEF ChallengeInv, ChallengeOnce, Moves

\* ... and exchanges it, for the second time only if it was shared.
LEMMA ChallengeExchanged ==
  ASSUME TypeInv, ChallengeInv, NEW c \in Calls, Moves(c), call'[c].step # "delete",
         NEW u \in Users, TakeIt(u), UNCHANGED <<getdel, challenges, shared>>,
         NEW n \in 1..challenges, redeemed' = Exchange(redeemed, n),
         \A v \in Users : challenge[v] = n => v = u,
         n \in redeemed[1] => ~getdel /\ n \in shared,
         \A d \in Calls \ {c} : call[d].step = "delete" /\ call[d].held = n => n \in shared
  PROVE  ChallengeInv'
<1>1. \A v \in Users : challenge'[v] = IF v = u THEN 0 ELSE challenge[v]
  BY DEF TakeIt, TypeInv, TypeOK
<1>2. /\ redeemed'[1] = redeemed[1] \cup {n}
      /\ redeemed'[2] \subseteq redeemed[2] \cup {n}
      /\ n \notin redeemed[1] => redeemed'[2] = redeemed[2]
  BY ExchangeIs
<1>3. ChallengeOnce'  BY <1>2 DEF ChallengeInv, ChallengeOnce
<1>4. \A v \in Users : challenge'[v] # 0 => challenge'[v] \notin redeemed'[1]
  BY <1>1, <1>2 DEF ChallengeInv
<1>5. \A d \in Calls : call'[d].step = "delete" => d # c /\ call'[d] = call[d]
  BY DEF Moves
<1>6. \A d \in Calls : call'[d].step = "delete" /\ call'[d].held # 0 =>
        /\ call'[d].held \in redeemed'[1] => call'[d].held \in shared'
        /\ \A v \in Users : challenge'[v] = call'[d].held => v = call'[d].user
  BY <1>1, <1>2, <1>5 DEF ChallengeInv
<1>7. \A v, w \in Users : challenge'[v] = challenge'[w] /\ challenge'[v] # 0 => v = w
  BY <1>1 DEF ChallengeInv
<1>8. \A d \in Calls :
        call'[d].step = "delete" => ~getdel' /\ call'[d].held \in 0..challenges'
  BY <1>5 DEF ChallengeInv
<1>9. \A d, e \in Calls :
        d # e /\ call'[d].step = "delete" /\ call'[e].step = "delete"
          /\ call'[d].held = call'[e].held => call'[d].held \in shared' \cup {0}
  BY <1>5 DEF ChallengeInv
<1> QED BY <1>3, <1>4, <1>6, <1>7, <1>8, <1>9 DEF ChallengeInv

LEMMA ConsumeStep ==
  ASSUME IInv, NEW c \in Calls, NEW u \in Wallets, NEW n \in 0..challenges,
         NEW kind \in {"login", "register"}, ConsumeChallenge(c, kind, u, n)
  PROVE  ChallengeInv'
<1> USE DEF IInv
<1>1. /\ getdel /\ challenge[u] # 0 /\ TakeIt(u) /\ UNCHANGED <<getdel, challenges, shared>>
      /\ u \in Users /\ challenge[u] \in 0..challenges
  BY Bounds DEF ConsumeChallenge, TypeInv, TypeOK
<1>2. CASE challenge[u] = n
  <2>1. /\ Begin(c, kind, AfterRedeeming(kind), u, 0) /\ redeemed' = Exchange(redeemed, n)
    BY <1>2 DEF ConsumeChallenge
  <2>2. AfterRedeeming(kind) \in {"find", "existing"}  BY DEF AfterRedeeming
  <2> HIDE DEF AfterRedeeming
  <2>3. Moves(c) /\ call'[c].step # "delete"
    BY <1>1, <2>1, <2>2, CallTypeInv, BeginIs DEF Kinds, Steps
  <2>4. /\ n \in 1..challenges /\ n \notin redeemed[1]
        /\ \A v \in Users : challenge[v] = n => v = u
        /\ \A d \in Calls : call[d].step # "delete"
    BY <1>1, <1>2 DEF ChallengeInv
  <2> QED BY <1>1, <2>1, <2>3, <2>4, ChallengeExchanged
<1>3. CASE challenge[u] # n
  <2>1. UNCHANGED <<call, redeemed>>  BY <1>3 DEF ConsumeChallenge
  <2>2. Moves(c) /\ call'[c].step # "delete"
    BY <1>1, <2>1, CallTypeInv DEF Moves, ChallengeInv
  <2> QED BY <1>1, <2>1, <2>2, ChallengeTaken
<1> QED BY <1>2, <1>3

LEMMA FetchStep ==
  ASSUME IInv, NEW c \in Calls, NEW u \in Wallets, NEW n \in 0..challenges,
         NEW kind \in {"login", "register"}, FetchChallenge(c, kind, u, n)
  PROVE  ChallengeInv'
<1> DEFINE h == IF challenge[u] = n THEN n ELSE 0
<1> USE DEF IInv
<1>1. /\ ~getdel /\ challenge[u] # 0 /\ Begin(c, kind, "delete", u, h)
      /\ UNCHANGED <<getdel, challenge, challenges, redeemed>>
      /\ shared' = shared \cup ({n} \cap {challenge[u]} \cap Fetched)
      /\ u \in Users
  BY Bounds DEF FetchChallenge
<1>2. /\ h \in 0..challenges /\ h \in Nat /\ kind \in Kinds /\ "delete" \in Steps
      /\ shared \subseteq shared'
  BY <1>1 DEF TypeInv, TypeOK, Kinds, Steps
<1>3. h # 0 => /\ h = challenge[u] /\ h \notin redeemed[1]
               /\ \A v \in Users : challenge[v] = h => v = u
               /\ \A d \in Calls \ {c} : call[d].step = "delete" /\ call[d].held = h => h \in shared'
  BY <1>1 DEF ChallengeInv, Fetched
<1> HIDE DEF h
<1>4. Moves(c) /\ call'[c].step = "delete" /\ call'[c].user = u /\ call'[c].held = h
  BY <1>1, <1>2, CallTypeInv, BeginIs
<1>5. \A d \in Calls \ {c} : call'[d] = call[d]  BY <1>4 DEF Moves
<1>6. ChallengeOnce'  BY <1>1, <1>2 DEF ChallengeInv, ChallengeOnce
<1>7. \A d \in Calls : call'[d].step = "delete" => ~getdel' /\ call'[d].held \in 0..challenges'
  BY <1>1, <1>2, <1>4, <1>5 DEF ChallengeInv
<1>8. \A d \in Calls : call'[d].step = "delete" /\ call'[d].held # 0 =>
        /\ call'[d].held \in redeemed'[1] => call'[d].held \in shared'
        /\ \A v \in Users : challenge'[v] = call'[d].held => v = call'[d].user
  BY <1>1, <1>2, <1>3, <1>4, <1>5 DEF ChallengeInv
<1>9. \A d, e \in Calls :
        d # e /\ call'[d].step = "delete" /\ call'[e].step = "delete"
          /\ call'[d].held = call'[e].held => call'[d].held \in shared' \cup {0}
  BY <1>2, <1>3, <1>4, <1>5 DEF ChallengeInv
<1> QED BY <1>1, <1>6, <1>7, <1>8, <1>9 DEF ChallengeInv

LEMMA DeleteStep == ASSUME IInv, NEW c \in Calls, DeleteChallenge(c) PROVE ChallengeInv'
<1> DEFINE h == call[c].held
           u == call[c].user
<1> USE DEF IInv
<1>1. /\ call[c].step = "delete" /\ TakeIt(u) /\ UNCHANGED <<getdel, challenges, shared>>
      /\ u \in Users /\ h \in 0..challenges /\ ~getdel /\ call \in [Calls -> CallTypes]
  BY CallTypeInv DEF DeleteChallenge, ChallengeInv
<1>2. CASE h = 0
  <2>1. End(c) /\ redeemed' = redeemed  BY <1>2 DEF DeleteChallenge
  <2>2. Moves(c) /\ call'[c].step # "delete"  BY <2>1, CallTypeInv, EndIs, NoCallType
  <2> QED BY <1>1, <2>1, <2>2, ChallengeTaken
<1>3. CASE h # 0
  <2> DEFINE x == [call[c] EXCEPT !.step = AfterRedeeming(call[c].kind), !.held = 0]
  <2>1. call' = [call EXCEPT ![c] = x] /\ redeemed' = Exchange(redeemed, h)
    BY <1>3 DEF DeleteChallenge
  <2>2. x \in CallTypes /\ x.step # "delete"
    BY <1>1 DEF CallTypes, Steps, AfterRedeeming
  <2> HIDE DEF x
  <2>3. Moves(c) /\ call'[c].step # "delete"  BY <1>1, <2>1, <2>2 DEF Moves
  <2>4. /\ h \in 1..challenges /\ (h \in redeemed[1] => h \in shared)
        /\ \A v \in Users : challenge[v] = h => v = u
        /\ \A d \in Calls \ {c} : call[d].step = "delete" /\ call[d].held = h => h \in shared
    BY <1>1, <1>3 DEF ChallengeInv
  <2> HIDE DEF h, u
  <2> QED BY <1>1, <2>1, <2>3, <2>4, ChallengeExchanged
<1> QED BY <1>2, <1>3

\* The steps of a call that leave Redis alone and accept no refresh token.
Inner(c) ==
  \/ FindActiveUser(c) \/ FindExisting(c) \/ InsertUser(c) \/ StoreToken(c) \/ Logout(c)
  \/ \E u \in Wallets : StartLogout(c, u)
  \/ \E u \in Users : StartProfile(c, u)
  \/ \E actor, u \in Users, kind \in Edits : StartAdmin(c, kind, actor, u)
  \/ LoadUser(c) \/ CountAdmins(c) \/ WriteUser(c) \/ CallFails(c)

LEMMA InnerMoves ==
  ASSUME IInv, NEW c \in Calls, Inner(c)
  PROVE  /\ UNCHANGED redisVars /\ Moves(c) /\ call'[c].step # "delete"
         /\ call'[c].kind = "refresh" =>
              call[c].kind = "refresh" /\ call'[c].step \notin Entering \cup {"token"}
<1>1. /\ TypeInv /\ call \in [Calls -> CallTypes] /\ CallOK(call[c], row[call[c].user])
      /\ call[c].kind = "refresh" => call[c].step \notin Entering
  BY CallTypeInv DEF IInv, TokenInv
<1>2. ASSUME End(c) PROVE Moves(c) /\ call'[c].step = "idle" /\ call'[c].kind = "none"
  BY <1>1, <1>2, EndIs, NoCallType
<1>3. \A s \in Steps : Goto(c, s) => Moves(c) /\ call'[c].step = s /\ call'[c].kind = call[c].kind
  BY <1>1, GotoIs
<1>4. ASSUME NEW kind \in Kinds, NEW s \in Steps, NEW u \in Users, Begin(c, kind, s, u, 0)
      PROVE  Moves(c) /\ call'[c].step = s /\ call'[c].kind = kind
  BY <1>1, <1>4, BeginIs
<1> USE DEF Entering
<1> DEFINE Goal == /\ UNCHANGED redisVars /\ Moves(c) /\ call'[c].step # "delete"
                   /\ call'[c].kind = "refresh" =>
                        call[c].kind = "refresh" /\ call'[c].step \notin Entering \cup {"token"}
<1>5. ASSUME UNCHANGED redisVars,
             End(c) \/ (call[c].step \in Entering /\ (Goto(c, "token") \/ Goto(c, "insert")))
      PROVE  Goal
  <2>1. CASE End(c)  BY <1>2, <1>5, <2>1
  <2>2. ASSUME NEW s \in {"token", "insert"}, Goto(c, s), call[c].step \in Entering
        PROVE  Goal
    BY <1>1, <1>3, <1>5, <2>2 DEF Steps
  <2> QED BY <1>5, <2>1, <2>2
<1>6. CASE FindActiveUser(c) \/ FindExisting(c) \/ InsertUser(c)
  <2>1. UNCHANGED redisVars /\ call[c].step \in Entering
    BY <1>6 DEF FindActiveUser, FindExisting, InsertUser
  <2>2. End(c) \/ Goto(c, "token") \/ Goto(c, "insert")
    BY <1>6 DEF FindActiveUser, FindExisting, InsertUser
  <2> QED BY <1>5, <2>1, <2>2
<1>7. CASE StoreToken(c) \/ Logout(c) \/ WriteUser(c) \/ CallFails(c)
  <2>1. UNCHANGED redisVars /\ End(c)
    BY <1>7 DEF StoreToken, Logout, WriteUser, CallFails
  <2> QED BY <1>5, <2>1
<1>8. ASSUME NEW u \in Wallets, StartLogout(c, u)
       PROVE  UNCHANGED redisVars /\ Moves(c) /\ call'[c].step = "clear" /\ call'[c].kind # "refresh"
  BY <1>4, <1>8, Bounds DEF StartLogout, Kinds, Steps
<1>9. ASSUME NEW u \in Users, StartProfile(c, u)
       PROVE  UNCHANGED redisVars /\ Moves(c) /\ call'[c].step = "load" /\ call'[c].kind # "refresh"
  BY <1>4, <1>9, Bounds DEF StartProfile, Kinds, Steps
<1>10. ASSUME NEW actor \in Users, NEW u \in Users, NEW kind \in Edits,
              StartAdmin(c, kind, actor, u)
       PROVE  UNCHANGED redisVars /\ Moves(c) /\ call'[c].step = "load" /\ call'[c].kind # "refresh"
  BY <1>4, <1>10, Bounds DEF StartAdmin, Kinds, Steps
<1>11. CASE LoadUser(c)
  <2>1. call[c].step = "load" /\ UNCHANGED redisVars /\ call[c].kind # "refresh"
    BY <1>1, <1>11, Bounds DEF LoadUser, CallOK
  <2>2. CASE row[call[c].user].exists
    <3> DEFINE entity == Changed(call[c].kind, Loaded(call[c].user))
    <3>1. PICK s \in {"count", "write"} : call' = [call EXCEPT ![c].entity = entity, ![c].step = s]
      BY <1>11, <2>2 DEF LoadUser
    <3>2. call[c].user \in Users /\ call[c].kind \in Edits /\ row[call[c].user] \in Rows
      BY <1>1, <2>1, CallTypeInv DEF CallOK
    <3>3. entity \in Entities  BY <3>2, LoadedType, ChangedType
    <3> HIDE DEF entity
    <3> DEFINE x == [call[c] EXCEPT !.entity = entity, !.step = s]
    <3>4. x \in CallTypes /\ x.step = s /\ x.kind = call[c].kind
      BY <1>1, <3>3 DEF CallTypes, Steps
    <3>5. call' = [call EXCEPT ![c] = x]  BY <3>1
    <3> HIDE DEF x
    <3>6. Moves(c) /\ call'[c] = x  BY <1>1, <3>4, <3>5 DEF Moves
    <3> QED BY <2>1, <3>4, <3>6
  <2>3. CASE ~row[call[c].user].exists  BY <1>2, <1>11, <2>1, <2>3 DEF LoadUser
  <2> QED BY <2>2, <2>3
<1>12. CASE CountAdmins(c)
  BY <1>1, <1>2, <1>3, <1>12, Bounds DEF CountAdmins, CallOK, Steps
<1>13. Goal  BY <1>6, <1>7, <1>8, <1>9, <1>10, <1>11, <1>12 DEF Inner
<1> QED BY <1>13

LEMMA AcceptIs ==
  ASSUME IInv, NEW c \in Calls, NEW u \in Wallets, NEW t \in 1..tokens, AcceptToken(c, u, t)
  PROVE  /\ call[c] = NoCall /\ Moves(c) /\ call'[c].step = "token" /\ call'[c].kind = "refresh"
         /\ call'[c].user = u /\ call'[c].held = t /\ row[u].session = t
         /\ UNCHANGED <<row, tokens, spent>> /\ UNCHANGED redisVars /\ u \in Users
<1>1. Begin(c, "refresh", "token", u, t) /\ StoredToken(u, t) /\ call \in [Calls -> CallTypes]
  BY CallTypeInv DEF AcceptToken, IInv
<1>2. "refresh" \in Kinds /\ "token" \in Steps /\ u \in Users /\ t \in Nat
  BY Bounds DEF Kinds, Steps, IInv, TypeInv, TypeOK
<1> QED BY <1>1, <1>2, BeginIs DEF StoredToken, AcceptToken, tokenVars

LEMMA ChallengeStep == IInv /\ [Next]_vars => ChallengeInv'
<1> SUFFICES ASSUME IInv, [Next]_vars
             PROVE  ChallengeInv'
  OBVIOUS
<1> USE DEF IInv
<1>1. ASSUME NEW u \in Wallets, GenerateChallenge(u)
      PROVE  ChallengeInv'
  <2> DEFINE n == challenges + 1
  <2>1. /\ u \in Users /\ challenge' = [challenge EXCEPT ![u] = n] /\ challenges' = n
        /\ UNCHANGED <<getdel, call, redeemed, shared>>
    BY <1>1, Bounds DEF GenerateChallenge
  <2>2. \A v \in Users : challenge'[v] = IF v = u THEN n ELSE challenge[v]
    BY <2>1 DEF TypeInv, TypeOK
  <2>3. /\ \A v \in Users : challenge[v] # n
        /\ n # 0 /\ n \notin redeemed[1]
        /\ \A c \in Calls : call[c].step = "delete" => call[c].held # n
        /\ 0..challenges \subseteq 0..n
    BY DEF TypeInv, TypeOK, ChallengeInv
  <2> HIDE DEF n
  <2> QED BY <2>1, <2>2, <2>3 DEF ChallengeInv, ChallengeOnce
<1>2. ASSUME NEW u \in Wallets, ChallengeExpires(u)
      PROVE  ChallengeInv'
  <2>1. \A v \in Users : challenge'[v] = IF v = u THEN 0 ELSE challenge[v]
    BY <1>2 DEF ChallengeExpires, TypeInv, TypeOK
  <2>2. UNCHANGED <<getdel, challenges, call, redeemed, shared>>  BY <1>2 DEF ChallengeExpires
  <2> QED BY <2>1, <2>2 DEF ChallengeInv, ChallengeOnce
<1>3. ASSUME NEW c \in Calls, NEW u \in Wallets, NEW t \in 1..tokens, AcceptToken(c, u, t)
      PROVE  ChallengeInv'
  BY <1>3, AcceptIs, ChallengeFrame
<1>4. ASSUME NEW c \in Calls, Inner(c)
      PROVE  ChallengeInv'
  BY <1>4, InnerMoves, ChallengeFrame
<1>5. CASE UNCHANGED vars
  BY <1>5 DEF vars, redisVars, ChallengeInv, ChallengeOnce
<1> QED
  BY <1>1, <1>2, <1>3, <1>4, <1>5, ConsumeStep, FetchStep, DeleteStep
  DEF Next, Redis, Session, Account, Inner, Edits

-----------------------------------------------------------------------------
(* Refresh tokens                                                          *)

\* No session but an empty one is new, and the call that moves does not rotate.
LEMMA TokenFrame ==
  ASSUME TokenInv, NEW c \in Calls, Moves(c), UNCHANGED <<tokens, spent>>,
         \A u \in Users : row'[u].session \in {0, row[u].session},
         call'[c].kind = "refresh" => call'[c].step \notin Entering \cup {"token"}
  PROVE  TokenInv'
<1>1. \A u, v \in Users :
        row'[u].session = row'[v].session /\ row'[u].session # 0 => u = v
  BY DEF TokenInv
<1>2. \A u \in Users : row'[u].session # 0 => row'[u].session \notin spent'
  BY DEF TokenInv
<1>3. \A d \in Calls : call'[d].kind = "refresh" => call'[d].step \notin Entering
  BY DEF TokenInv, Moves
<1>4. \A d \in Calls : call'[d].kind = "refresh" /\ call'[d].step = "token" =>
        /\ call'[d].held \in 1..tokens'
        /\ \A v \in Users : row'[v].session = call'[d].held => v = call'[d].user
  <2> SUFFICES ASSUME NEW d \in Calls \ {c}, call[d].kind = "refresh", call[d].step = "token"
               PROVE  /\ call[d].held \in 1..tokens
                      /\ \A v \in Users : row'[v].session = call[d].held => v = call[d].user
    BY DEF Moves
  <2> QED BY DEF TokenInv
<1> QED BY <1>1, <1>2, <1>3, <1>4 DEF TokenInv

\* The sessions that the steps of a call leave.
LEMMA SessionsLeft ==
  ASSUME IInv, NEW c \in Calls, Inner(c), ~StoreToken(c)
  PROVE  /\ \A u \in Users : row'[u].session \in {0, row[u].session}
         /\ UNCHANGED <<tokens, spent>>
<1> USE DEF IInv
<1>1. row \in [Users -> Rows]  BY RowsAreRows
<1>2. CASE InsertUser(c)
  <2>1. call[c].user \in Users /\ UNCHANGED <<tokens, spent>>
    BY <1>2, CallTypeInv DEF InsertUser, tokenVars
  <2>2. row' = row \/ row' = [row EXCEPT ![call[c].user] = Member]  BY <1>2 DEF InsertUser
  <2> QED BY <1>1, <2>1, <2>2, NoCallType
<1>3. CASE Logout(c)
  <2>1. call[c].user \in Users /\ UNCHANGED <<tokens, spent>>
    BY <1>3, CallTypeInv DEF Logout, tokenVars
  <2>2. row' = [row EXCEPT ![call[c].user] = [row[call[c].user] EXCEPT !.session = 0]]
    BY <1>3 DEF Logout
  <2>3. [row[call[c].user] EXCEPT !.session = 0].session = 0  BY <1>1, <2>1 DEF Rows
  <2> QED BY <1>1, <2>1, <2>2, <2>3
<1>4. CASE WriteUser(c)
  <2>1. call[c].user \in Users /\ UNCHANGED <<tokens, spent>> /\ call[c].step = "write"
    BY <1>4, CallTypeInv DEF WriteUser, tokenVars
  <2>2. row' = [row EXCEPT ![call[c].user] = Written(c)]
    BY <1>4 DEF WriteUser, WriteRow, Written
  <2>3. Written(c).session = row[call[c].user].session  BY <2>1, WrittenType
  <2> QED BY <1>1, <2>1, <2>2, <2>3
<1>5. CASE UNCHANGED <<row, tokenVars>>  BY <1>5 DEF tokenVars
<1> QED
  BY <1>2, <1>3, <1>4, <1>5
  DEF Inner, FindActiveUser, FindExisting, StartLogout, StartProfile, StartAdmin, LoadUser,
      CountAdmins, CallFails

LEMMA StoreTokenIs ==
  ASSUME IInv, NEW c \in Calls, StoreToken(c)
  PROVE  /\ call[c].user \in Users /\ call[c].step = "token" /\ Moves(c) /\ call'[c] = NoCall
         /\ \A u \in Users :
              row'[u].session = IF u = call[c].user THEN tokens + 1 ELSE row[u].session
         /\ tokens \in Nat /\ tokens' = tokens + 1
         /\ spent' = IF call[c].kind = "refresh" THEN spent \cup {call[c].held} ELSE spent
<1> USE DEF IInv
<1> DEFINE u == call[c].user
           r == [row[u] EXCEPT !.session = tokens + 1]
<1>1. /\ call[c].step = "token" /\ u \in Users /\ row \in [Users -> Rows] /\ tokens \in Nat
      /\ call \in [Calls -> CallTypes]
  BY CallTypeInv, RowsAreRows, Bounds DEF StoreToken, TypeInv, TypeOK
<1>2. r.session = tokens + 1  BY <1>1 DEF Rows
<1>3. row' = [row EXCEPT ![u] = r] /\ End(c)  BY DEF StoreToken, NewToken
<1> HIDE DEF r
<1>4. \A v \in Users : row'[v].session = IF v = u THEN tokens + 1 ELSE row[v].session
  BY <1>1, <1>2, <1>3
<1> QED BY <1>1, <1>3, <1>4, EndIs DEF StoreToken, NewToken

LEMMA StoreTokenStep == ASSUME IInv, NEW c \in Calls, StoreToken(c) PROVE TokenInv'
<1> USE DEF IInv
<1> DEFINE u == call[c].user
           t == tokens + 1
<1>1. /\ u \in Users /\ Moves(c) /\ call'[c] = NoCall
      /\ \A v \in Users : row'[v].session = IF v = u THEN t ELSE row[v].session
      /\ tokens' = t
      /\ spent' = IF call[c].kind = "refresh" THEN spent \cup {call[c].held} ELSE spent
      /\ call[c].step = "token"
  BY StoreTokenIs
<1>2. /\ \A v \in Users : row[v].session # t
      /\ t # 0 /\ t \notin spent /\ 1..tokens \subseteq 1..t /\ t \notin 1..tokens
  BY StoreTokenIs DEF TypeInv, TypeOK
<1>3. call[c].kind = "refresh" =>
        call[c].held # t /\ \A v \in Users : row[v].session = call[c].held => v = u
  BY <1>1, <1>2 DEF TokenInv
<1> HIDE DEF t, u
<1>4. \A d \in Calls : call'[d].kind = "refresh" => d # c /\ call'[d] = call[d]
  BY <1>1, NoCallType DEF Moves
<1>5. \A v, w \in Users : row'[v].session = row'[w].session /\ row'[v].session # 0 => v = w
  BY <1>1, <1>2 DEF TokenInv
<1>6. \A v \in Users : row'[v].session # 0 => row'[v].session \notin spent'
  BY <1>1, <1>2, <1>3 DEF TokenInv
<1>7. \A d \in Calls : call'[d].kind = "refresh" => call'[d].step \notin Entering
  BY <1>4 DEF TokenInv
<1>8. \A d \in Calls : call'[d].kind = "refresh" /\ call'[d].step = "token" =>
        /\ call'[d].held \in 1..tokens'
        /\ \A v \in Users : row'[v].session = call'[d].held => v = call'[d].user
  BY <1>1, <1>2, <1>4 DEF TokenInv
<1> QED BY <1>5, <1>6, <1>7, <1>8 DEF TokenInv

LEMMA TokenStep == IInv /\ [Next]_vars => TokenInv'
<1> SUFFICES ASSUME IInv, [Next]_vars
             PROVE  TokenInv'
  OBVIOUS
<1> USE DEF IInv
<1>1. ASSUME NEW u \in Wallets, Redis(u)
      PROVE  TokenInv'
  BY <1>1 DEF Redis, GenerateChallenge, ChallengeExpires, tokenVars, TokenInv
<1>2. ASSUME NEW c \in Calls, NEW u \in Wallets, NEW n \in 0..challenges,
             NEW kind \in {"login", "register"},
             ConsumeChallenge(c, kind, u, n) \/ FetchChallenge(c, kind, u, n)
      PROVE  TokenInv'
  <2>1. UNCHANGED <<row, tokens, spent>> /\ u \in Users
    BY <1>2, Bounds DEF ConsumeChallenge, FetchChallenge, tokenVars
  <2>2. \/ call' = call
        \/ \E s \in {"find", "existing", "delete"}, h \in Nat : Begin(c, kind, s, u, h)
    BY <1>2 DEF ConsumeChallenge, FetchChallenge, AfterRedeeming
  <2>3. ASSUME NEW s \in {"find", "existing", "delete"}, NEW h \in Nat, Begin(c, kind, s, u, h)
        PROVE  TokenInv'
    <3>1. kind \in Kinds /\ s \in Steps  BY DEF Kinds, Steps
    <3>2. Moves(c) /\ call'[c].kind # "refresh"  BY <2>1, <2>3, <3>1, CallTypeInv, BeginIs
    <3> QED BY <2>1, <3>2, TokenFrame
  <2> QED BY <2>1, <2>2, <2>3 DEF TokenInv
<1>3. ASSUME NEW c \in Calls, DeleteChallenge(c)
      PROVE  TokenInv'
  <2>1. /\ call[c].step = "delete" /\ call \in [Calls -> CallTypes]
        /\ UNCHANGED <<row, tokens, spent>>
    BY <1>3, CallTypeInv DEF DeleteChallenge, tokenVars
  <2>2. CASE End(c)
    <3>1. Moves(c) /\ call'[c].kind # "refresh"  BY <2>1, <2>2, EndIs, NoCallType
    <3> QED BY <2>1, <3>1, TokenFrame
  <2>3. CASE ~End(c)
    <3> DEFINE x == [call[c] EXCEPT !.step = AfterRedeeming(call[c].kind), !.held = 0]
    <3>1. call' = [call EXCEPT ![c] = x]  BY <1>3, <2>3 DEF DeleteChallenge
    <3>2. x \in CallTypes /\ x.kind = call[c].kind
      BY <2>1 DEF CallTypes, Steps, AfterRedeeming
    <3> HIDE DEF x
    <3>3. Moves(c) /\ call'[c].kind = call[c].kind  BY <2>1, <3>1, <3>2 DEF Moves
    <3>4. call[c].kind # "refresh"  BY <2>1 DEF TokenInv, Entering
    <3> QED BY <2>1, <3>3, <3>4, TokenFrame
  <2> QED BY <2>2, <2>3
<1>4. ASSUME NEW c \in Calls, NEW u \in Wallets, NEW t \in 1..tokens, AcceptToken(c, u, t)
      PROVE  TokenInv'
  <2>1. /\ Moves(c) /\ call'[c].step = "token" /\ call'[c].user = u /\ call'[c].held = t
        /\ row[u].session = t /\ UNCHANGED <<row, tokens, spent>> /\ u \in Users
    BY <1>4, AcceptIs
  <2>2. \A v \in Users : row[v].session = t => v = u  BY <2>1 DEF TokenInv, TypeInv, TypeOK
  <2> QED BY <2>1, <2>2 DEF TokenInv, Moves, Entering
<1>5. ASSUME NEW c \in Calls, Inner(c)
      PROVE  TokenInv'
  BY <1>5, InnerMoves, SessionsLeft, TokenFrame, StoreTokenStep
<1>6. CASE UNCHANGED vars
  BY <1>6 DEF vars, tokenVars, TokenInv
<1> QED
  BY <1>1, <1>2, <1>3, <1>4, <1>5, <1>6 DEF Next, Session, Account, Inner, Edits

-----------------------------------------------------------------------------
(* Administrators                                                          *)

\* What AdminInv says of a call that is not stale.
Fresh(c) ==
  /\ call[c].step \in {"count", "write"} /\ call[c].kind # "deactivate" =>
       call[c].entity = Changed(call[c].kind, Loaded(call[c].user))
  /\ call[c].step = "write" /\ call[c].kind \in Removals /\ row[call[c].user].admin =>
       \E u \in Users \ {call[c].user} : ActiveAdmin(u)

LEMMA AdminIs ==
  AdminInv <=> (~torn => /\ \E u \in Users : ActiveAdmin(u)
                         /\ \A c \in Calls \ stale : Fresh(c))
BY DEF AdminInv, Fresh

\* No role or activity changes; one call moves.
LEMMA AdminFrame ==
  ASSUME TypeInv, AdminInv, NEW c \in Calls, Moves(c), torn' = torn,
         stale' \in {stale, stale \ {c}},
         \A u \in Users : row[u].exists =>
           /\ Loaded(u)' = Loaded(u) /\ row'[u].exists
           /\ row'[u].admin = row[u].admin /\ row'[u].active = row[u].active,
         ~torn /\ c \notin stale' => Fresh(c)'
  PROVE  AdminInv'
<1> SUFFICES ASSUME ~torn
             PROVE  /\ \E u \in Users : ActiveAdmin(u)'
                    /\ \A d \in Calls \ stale' : Fresh(d)'
  BY DEF AdminInv, Fresh, ActiveAdmin, Live
<1>1. \A u \in Users : ActiveAdmin(u) => ActiveAdmin(u)'  BY DEF ActiveAdmin, Live
<1>2. \E u \in Users : ActiveAdmin(u)'  BY <1>1 DEF AdminInv
<1>3. ASSUME NEW d \in Calls \ {c}, d \notin stale'
      PROVE  Fresh(d)'
  <2>1. Fresh(d) /\ call'[d] = call[d]  BY <1>3, AdminIs DEF Moves
  <2>2. CASE call[d].step \in {"count", "write"}
    <3>1. call[d].user \in Users /\ row[call[d].user].exists
      BY <2>2, CallTypeInv DEF CallOK
    <3>2. /\ Loaded(call[d].user)' = Loaded(call[d].user)
          /\ row'[call[d].user].admin = row[call[d].user].admin
      BY <2>1, <3>1 DEF Loaded
    <3> QED BY <1>1, <2>1, <2>2, <3>1, <3>2 DEF Fresh
  <2>3. CASE call[d].step \notin {"count", "write"}  BY <2>1, <2>3 DEF Fresh
  <2> QED BY <2>2, <2>3
<1> QED BY <1>2, <1>3

LEMMA LoadAdmin == ASSUME IInv, NEW c \in Calls, LoadUser(c) PROVE AdminInv'
<1> USE DEF IInv
<1> DEFINE u == call[c].user
           kind == call[c].kind
           entity == Changed(kind, Loaded(u))
<1>1. /\ call[c].step = "load" /\ u \in Users /\ row[u] \in Rows /\ kind \in Edits
      /\ call[c] \in CallTypes /\ call \in [Calls -> CallTypes]
  BY CallTypeInv DEF LoadUser, CallOK
<1>2. UNCHANGED <<row, stale, torn>> /\ Moves(c)
  BY InnerMoves DEF LoadUser, raceVars, Inner
<1>3. CASE ~row[u].exists
  <2>1. call'[c].step = "idle"  BY <1>1, <1>3, EndIs, NoCallType DEF LoadUser
  <2> QED BY <1>2, <2>1, AdminFrame DEF Loaded, Fresh
<1>4. CASE row[u].exists
  <2>1. entity \in Entities /\ Loaded(u).admin = row[u].admin
    BY <1>1, LoadedType, ChangedType
  <2>2. call' = [call EXCEPT ![c].entity = entity,
                             ![c].step = IF MustCount(kind, Loaded(u)) THEN "count" ELSE "write"]
    BY <1>4 DEF LoadUser
  <2> DEFINE s == IF MustCount(kind, Loaded(u)) THEN "count" ELSE "write"
  <2>3. s = "write" => ~(kind \in Removals /\ row[u].admin)  BY <2>1 DEF MustCount
  <2>4. s \in {"count", "write"}  OBVIOUS
  <2>5. call' = [call EXCEPT ![c].entity = entity, ![c].step = s]  BY <2>2
  <2> HIDE DEF s
  <2>6. /\ call'[c].entity = entity /\ call'[c].step = s /\ call'[c].kind = kind
        /\ call'[c].user = u
    BY <1>1, <2>5 DEF CallTypes
  <2>7. Fresh(c)'  BY <1>2, <2>3, <2>4, <2>6 DEF Fresh, Loaded
  <2> QED BY <1>2, <2>7, AdminFrame DEF Loaded
<1> QED BY <1>3, <1>4

LEMMA CountAdmin == ASSUME IInv, NEW c \in Calls, CountAdmins(c) PROVE AdminInv'
<1> USE DEF IInv
<1>1. /\ call[c].step = "count" /\ UNCHANGED <<row, torn>> /\ Moves(c)
      /\ stale' \in {stale, stale \ {c}} /\ call \in [Calls -> CallTypes]
  BY InnerMoves, CallTypeInv DEF CountAdmins, Inner
<1>2. CASE \E u \in Users \ {call[c].user} : ActiveAdmin(u)
  <2>1. Goto(c, "write") /\ stale' = stale  BY <1>2 DEF CountAdmins
  <2>2. /\ call'[c].step = "write" /\ call'[c].kind = call[c].kind
        /\ call'[c].user = call[c].user /\ call'[c].entity = call[c].entity
    BY <1>1, <2>1, GotoIs DEF Steps
  <2>3. ~torn /\ c \notin stale => Fresh(c)  BY AdminIs
  <2>4. ~torn /\ c \notin stale => Fresh(c)'
    BY <1>1, <1>2, <2>2, <2>3 DEF Fresh, Loaded, ActiveAdmin, Live
  <2> QED BY <1>1, <2>1, <2>4, AdminFrame DEF Loaded
<1>3. CASE ~\E u \in Users \ {call[c].user} : ActiveAdmin(u)
  <2>1. call'[c].step = "idle"  BY <1>1, <1>3, EndIs, NoCallType DEF CountAdmins
  <2> QED BY <1>1, <2>1, AdminFrame DEF Fresh, Loaded
<1> QED BY <1>2, <1>3

\* Who writes in time takes no role and no activity away but that of one administrator
\* of several, and gives activity by `restore` only.
LEMMA WrittenInTime ==
  ASSUME TypeInv, AdminInv, NEW c \in Calls, call[c].step = "write", ~torn, c \notin stale
  PROVE  /\ call[c].kind \notin Removals => /\ row[call[c].user].admin => Written(c).admin
                                            /\ row[call[c].user].active => Written(c).active
         /\ call[c].kind \in Removals /\ row[call[c].user].admin =>
              \E u \in Users \ {call[c].user} : ActiveAdmin(u)
         /\ call[c].kind # "restore" /\ Written(c).active => row[call[c].user].active
<1> DEFINE u == call[c].user
<1>1. /\ u \in Users /\ row[u] \in Rows /\ call[c].kind \in Edits
  BY CallTypeInv DEF CallOK
<1>2. Fresh(c)  BY AdminIs
<1>3. /\ call[c].kind = "deactivate" => ~Written(c).active
      /\ call[c].kind # "deactivate" =>
           Written(c).admin = call[c].entity.admin /\ Written(c).active = call[c].entity.active
  BY WrittenType
<1>4. CASE call[c].kind = "deactivate"  BY <1>2, <1>3, <1>4, Bounds DEF Fresh
<1>5. CASE call[c].kind # "deactivate"
  <2>1. call[c].entity = Changed(call[c].kind, Loaded(u))  BY <1>2, <1>5 DEF Fresh
  <2>2. /\ Loaded(u) \in Entities /\ Loaded(u).admin = row[u].admin
        /\ Loaded(u).active = row[u].active
    BY <1>1, LoadedType
  <2>3. /\ call[c].kind # "restore" => call[c].entity.active = row[u].active
        /\ call[c].kind = "restore" => call[c].entity.active
        /\ call[c].kind \in {"edit", "restore"} => call[c].entity.admin = row[u].admin
        /\ call[c].kind = "promote" => call[c].entity.admin
    BY <1>1, <1>5, <2>1, <2>2, ChangedType
  <2>4. call[c].kind \notin Removals => call[c].kind \in {"edit", "promote", "restore"}
    BY <1>1, Bounds
  <2> QED BY <1>2, <1>3, <1>5, <2>3, <2>4 DEF Fresh
<1> QED BY <1>4, <1>5

LEMMA WriteAdmin == ASSUME IInv, NEW c \in Calls, WriteUser(c) PROVE AdminInv'
<1> USE DEF IInv
<1> DEFINE u == call[c].user
<1>1. /\ call[c].step = "write" /\ WriteRow(c, u, Written(c)) /\ End(c)
      /\ u \in Users /\ row[u].exists /\ Written(c) \in Rows /\ Written(c).exists
  BY WrittenType DEF WriteUser, Written
<1>2. /\ row' \in [Users -> Rows] /\ row'[u] = Written(c)
      /\ \A v \in Users \ {u} : row'[v] = row[v]
      /\ ~torn' => ~torn /\ c \notin stale
      /\ ~torn' => \A d \in Calls \ ({c} \cup stale') :
           d \notin stale /\ (Written(c) # row[u] => ~ReadBefore(d, u))
  BY <1>1, WriteRowIs
<1>3. Moves(c) /\ call'[c].step = "idle"  BY <1>1, CallTypeInv, EndIs, NoCallType
<1> SUFFICES ASSUME ~torn'
             PROVE  /\ \E v \in Users : ActiveAdmin(v)'
                    /\ \A d \in Calls \ stale' : Fresh(d)'
  BY DEF AdminInv, Fresh, ActiveAdmin, Live
<1>4. \A v \in Users \ {u} : ActiveAdmin(v) => ActiveAdmin(v)'
  BY <1>2 DEF ActiveAdmin, Live
<1>5. \E v \in Users : ActiveAdmin(v)'
  <2>1. PICK v \in Users : ActiveAdmin(v)  BY <1>2 DEF AdminInv
  <2>2. CASE v # u  BY <1>4, <2>1, <2>2
  <2>3. CASE v = u /\ call[c].kind \in Removals
    <3>1. \E w \in Users \ {u} : ActiveAdmin(w)
      BY <1>1, <1>2, <2>1, <2>3, WrittenInTime DEF ActiveAdmin
    <3> QED BY <1>4, <3>1
  <2>4. CASE v = u /\ call[c].kind \notin Removals
    <3>1. Written(c).admin /\ Written(c).active
      BY <1>1, <1>2, <2>1, <2>4, WrittenInTime DEF ActiveAdmin, Live
    <3> QED BY <1>1, <1>2, <3>1 DEF ActiveAdmin, Live
  <2> QED BY <2>2, <2>3, <2>4
<1>6. ASSUME NEW d \in Calls \ {c}, d \notin stale'
      PROVE  Fresh(d)'
  <2> DEFINE v == call[d].user
  <2>1. /\ call'[d] = call[d] /\ d \notin stale /\ Fresh(d)
        /\ Written(c) # row[u] => ~ReadBefore(d, u)
    BY <1>2, <1>3, <1>6, AdminIs DEF Moves
  <2>2. CASE row'[u] = row[u]
    <3>1. row' = row  BY <1>2, <2>2, RowsAreRows
    <3> QED BY <2>1, <3>1 DEF Fresh, Loaded, ActiveAdmin, Live
  <2>3. CASE row'[u] # row[u] /\ call[d].step \in {"count", "write"}
    <3>1. v \in Users /\ v # u  BY <1>2, <2>1, <2>3, CallTypeInv DEF ReadBefore
    <3>2. row'[v] = row[v]  BY <1>2, <3>1
    <3>3. call[d].step = "write" /\ call[d].kind \in Removals => ~ActiveAdmin(u)
      BY <1>2, <2>1, <2>3 DEF ReadBefore
    <3>4. call[d].step = "write" /\ call[d].kind \in Removals /\ row[v].admin =>
            \E w \in Users \ {v} : ActiveAdmin(w)'
      BY <1>4, <2>1, <3>3 DEF Fresh
    <3>5. call[d].kind # "deactivate" => call[d].entity = Changed(call[d].kind, Loaded(v)')
      BY <2>1, <2>3, <3>2 DEF Fresh, Loaded
    <3> QED BY <2>1, <3>2, <3>4, <3>5 DEF Fresh
  <2>4. CASE call[d].step \notin {"count", "write"}  BY <2>1, <2>4 DEF Fresh
  <2> QED BY <2>2, <2>3, <2>4
<1>7. Fresh(c)'  BY <1>3 DEF Fresh
<1> QED BY <1>5, <1>6, <1>7

LEMMA AdminStep == IInv /\ [Next]_vars => AdminInv'
<1> SUFFICES ASSUME IInv, [Next]_vars
             PROVE  AdminInv'
  OBVIOUS
<1> USE DEF IInv
<1>1. CASE UNCHANGED <<row, call, stale, torn>>
  BY <1>1 DEF AdminInv, Loaded, ActiveAdmin, Live
<1>2. ASSUME NEW c \in Calls, Moves(c), UNCHANGED <<row, torn>>, stale' \in {stale, stale \ {c}},
             call'[c].step \notin {"count", "write"}
      PROVE  AdminInv'
  BY <1>2, AdminFrame DEF Fresh, Loaded
<1>3. ASSUME NEW u \in Wallets, Redis(u)
      PROVE  UNCHANGED <<row, call, stale, torn>>
  BY <1>3 DEF Redis, GenerateChallenge, ChallengeExpires, raceVars
<1>4. ASSUME NEW c \in Calls, NEW u \in Wallets, NEW n \in 0..challenges,
             NEW kind \in {"login", "register"},
             ConsumeChallenge(c, kind, u, n) \/ FetchChallenge(c, kind, u, n)
      PROVE  AdminInv'
  <2>1. UNCHANGED <<row, stale, torn>> /\ u \in Users /\ kind \in Kinds
    BY <1>4, Bounds DEF ConsumeChallenge, FetchChallenge, raceVars, Kinds
  <2>2. \/ call' = call
        \/ \E s \in {"find", "existing", "delete"}, h \in Nat : Begin(c, kind, s, u, h)
    BY <1>4 DEF ConsumeChallenge, FetchChallenge, AfterRedeeming
  <2>3. ASSUME NEW s \in {"find", "existing", "delete"}, NEW h \in Nat, Begin(c, kind, s, u, h)
        PROVE  AdminInv'
    <3>1. s \in Steps  BY DEF Steps
    <3>2. Moves(c) /\ call'[c].step = s  BY <2>1, <2>3, <3>1, CallTypeInv, BeginIs
    <3> QED BY <1>2, <2>1, <3>2
  <2> QED BY <1>1, <2>1, <2>2, <2>3
<1>5. ASSUME NEW c \in Calls, DeleteChallenge(c)
      PROVE  AdminInv'
  <2>1. /\ UNCHANGED <<row, stale, torn>> /\ call \in [Calls -> CallTypes]
    BY <1>5, CallTypeInv DEF DeleteChallenge, raceVars
  <2>2. CASE End(c)
    <3>1. Moves(c) /\ call'[c].step = "idle"  BY <2>1, <2>2, EndIs, NoCallType
    <3> QED BY <1>2, <2>1, <3>1
  <2>3. CASE ~End(c)
    <3> DEFINE x == [call[c] EXCEPT !.step = AfterRedeeming(call[c].kind), !.held = 0]
    <3>1. call' = [call EXCEPT ![c] = x]  BY <1>5, <2>3 DEF DeleteChallenge
    <3>2. x \in CallTypes /\ x.step \notin {"count", "write"}
      BY <2>1 DEF CallTypes, Steps, AfterRedeeming
    <3> HIDE DEF x
    <3>3. Moves(c) /\ call'[c] = x  BY <2>1, <3>1, <3>2 DEF Moves
    <3> QED BY <1>2, <2>1, <3>2, <3>3
  <2> QED BY <2>2, <2>3
<1>6. ASSUME NEW c \in Calls, NEW u \in Wallets, NEW t \in 1..tokens, AcceptToken(c, u, t)
      PROVE  AdminInv'
  BY <1>2, <1>6, AcceptIs DEF AcceptToken, raceVars
<1>7. ASSUME NEW c \in Calls, Inner(c)
      PROVE  AdminInv'
  <2>1. Moves(c)  BY <1>7, InnerMoves
  <2>2. CASE StoreToken(c) \/ Logout(c)
    <3>1. /\ End(c) /\ stale' = stale /\ torn' = torn /\ call[c].user \in Users
          /\ call \in [Calls -> CallTypes]
      BY <2>2, CallTypeInv DEF StoreToken, Logout, raceVars
    <3>2. PICK t : row' = [row EXCEPT ![call[c].user].session = t]
      BY <2>2 DEF StoreToken, Logout
    <3>3. \A u \in Users :
            /\ Loaded(u)' = Loaded(u) /\ row'[u].exists = row[u].exists
            /\ row'[u].admin = row[u].admin /\ row'[u].active = row[u].active
      BY <3>1, <3>2, RowsAreRows DEF Loaded, Rows
    <3>4. call'[c].step = "idle"  BY <3>1, EndIs, NoCallType
    <3> QED BY <2>1, <3>1, <3>3, <3>4, AdminFrame DEF Fresh
  <2>3. CASE InsertUser(c)
    <3>1. /\ call[c].step = "insert" /\ stale' = stale /\ torn' = torn /\ call[c].user \in Users
          /\ call \in [Calls -> CallTypes]
      BY <2>3, CallTypeInv DEF InsertUser, raceVars
    <3>2. \/ row' = row
          \/ ~row[call[c].user].exists /\ row' = [row EXCEPT ![call[c].user] = Member]
      BY <2>3 DEF InsertUser
    <3>3. \A u \in Users : row[u].exists => row'[u] = row[u]
      BY <3>1, <3>2, RowsAreRows
    <3>4. call'[c].step \in {"idle", "token"}
      BY <2>3, <3>1, EndIs, GotoIs, NoCallType DEF InsertUser, Steps
    <3> QED BY <2>1, <3>1, <3>3, <3>4, AdminFrame DEF Fresh, Loaded
  <2>4. CASE FindActiveUser(c) \/ FindExisting(c) \/ CallFails(c)
    <3>1. /\ UNCHANGED <<row, torn>> /\ stale' \in {stale, stale \ {c}}
          /\ call \in [Calls -> CallTypes]
      BY <2>4, CallTypeInv DEF FindActiveUser, FindExisting, CallFails, raceVars
    <3>2. End(c) \/ Goto(c, "token") \/ Goto(c, "insert")
      BY <2>4 DEF FindActiveUser, FindExisting, CallFails
    <3>3. call'[c].step \in {"idle", "token", "insert"}
      BY <3>1, <3>2, EndIs, GotoIs, NoCallType DEF Steps
    <3> QED BY <1>2, <2>1, <3>1, <3>3
  <2>5. ASSUME NEW kind \in Kinds, NEW s \in {"clear", "load"}, NEW u \in Users,
               Begin(c, kind, s, u, 0), UNCHANGED <<row, stale, torn>>
        PROVE  AdminInv'
    <3>1. s \in Steps  BY DEF Steps
    <3>2. call'[c].step = s  BY <2>5, <3>1, CallTypeInv, BeginIs
    <3> QED BY <1>2, <2>1, <2>5, <3>2
  <2>6. ASSUME NEW u \in Wallets, StartLogout(c, u)
        PROVE  AdminInv'
    BY <2>5, <2>6, Bounds DEF StartLogout, raceVars, Kinds
  <2>7. ASSUME NEW u \in Users, StartProfile(c, u)
        PROVE  AdminInv'
    BY <2>5, <2>7, Bounds DEF StartProfile, raceVars, Kinds
  <2>8. ASSUME NEW actor \in Users, NEW u \in Users, NEW kind \in Edits,
               StartAdmin(c, kind, actor, u)
        PROVE  AdminInv'
    BY <2>5, <2>8 DEF StartAdmin, raceVars, Kinds
  <2> QED
    BY <1>7, <2>2, <2>3, <2>4, <2>6, <2>7, <2>8, LoadAdmin, CountAdmin, WriteAdmin DEF Inner
<1>8. CASE UNCHANGED vars  BY <1>1, <1>8 DEF vars, raceVars
<1> QED
  BY <1>1, <1>3, <1>4, <1>5, <1>6, <1>7, <1>8 DEF Next, Session, Account, Inner, Edits

\* What a step makes of refresh tokens and sessions.
LEMMA Rotation ==
  ASSUME IInv, Next
  PROVE  /\ \A c \in Calls : call[c] = NoCall /\ call'[c].kind = "refresh" =>
              call'[c].held \notin spent
         /\ \A u \in Users : row'[u].session \in {0, row[u].session, tokens + 1}
<1> DEFINE Begins == \A c \in Calls : call[c] = NoCall /\ call'[c].kind = "refresh" =>
                       call'[c].held \notin spent
           Follows == \A u \in Users : row'[u].session \in {0, row[u].session, tokens + 1}
<1>1. ASSUME NEW c \in Calls, Moves(c), call'[c].kind # "refresh" \/ call[c].kind = "refresh"
      PROVE  Begins
  BY <1>1, NoCallType DEF Moves
<1>2. ASSUME NEW u \in Wallets, Redis(u)
      PROVE  Begins /\ Follows
  BY <1>2, NoCallType DEF Redis, GenerateChallenge, ChallengeExpires
<1>3. ASSUME NEW c \in Calls, NEW u \in Wallets, NEW n \in 0..challenges,
             NEW kind \in {"login", "register"},
             ConsumeChallenge(c, kind, u, n) \/ FetchChallenge(c, kind, u, n)
      PROVE  Begins /\ Follows
  <2>1. row' = row /\ u \in Users /\ kind \in Kinds /\ kind # "refresh"
    BY <1>3, Bounds DEF ConsumeChallenge, FetchChallenge, Kinds
  <2>2. \/ call' = call
        \/ \E s \in {"find", "existing", "delete"}, h \in Nat : Begin(c, kind, s, u, h)
    BY <1>3 DEF ConsumeChallenge, FetchChallenge, AfterRedeeming
  <2>3. ASSUME NEW s \in {"find", "existing", "delete"}, NEW h \in Nat, Begin(c, kind, s, u, h)
        PROVE  Begins
    <3>1. s \in Steps  BY DEF Steps
    <3>2. Moves(c) /\ call'[c].kind = kind  BY <2>1, <2>3, <3>1, CallTypeInv, BeginIs DEF IInv
    <3> QED BY <1>1, <2>1, <3>2
  <2>4. ASSUME call' = call PROVE Begins  BY <2>4, NoCallType
  <2>5. Follows  BY <2>1
  <2> QED BY <2>2, <2>3, <2>4, <2>5
<1>4. ASSUME NEW c \in Calls, DeleteChallenge(c)
      PROVE  Begins /\ Follows
  <2>1. /\ row' = row /\ call[c].step = "delete" /\ call \in [Calls -> CallTypes]
        /\ \A d \in Calls \ {c} : call'[d] = call[d]
    BY <1>4, CallTypeInv DEF DeleteChallenge, IInv, End
  <2>2. \A d \in Calls : call[d] = NoCall => d # c  BY <2>1, NoCallType
  <2> QED BY <2>1, <2>2, NoCallType
<1>5. ASSUME NEW c \in Calls, NEW u \in Wallets, NEW t \in 1..tokens, AcceptToken(c, u, t)
      PROVE  Begins /\ Follows
  <2>1. /\ Moves(c) /\ call'[c].held = t /\ row[u].session = t /\ row' = row /\ u \in Users
    BY <1>5, AcceptIs
  <2>2. t \notin spent  BY <2>1 DEF IInv, TokenInv, TypeInv, TypeOK
  <2> QED BY <2>1, <2>2, NoCallType DEF Moves
<1>6. ASSUME NEW c \in Calls, Inner(c)
      PROVE  Begins /\ Follows
  <2>1. Begins  BY <1>1, <1>6, InnerMoves
  <2>2. Follows  BY <1>6, SessionsLeft, StoreTokenIs
  <2> QED BY <2>1, <2>2
<1> QED
  BY <1>2, <1>3, <1>4, <1>5, <1>6 DEF Next, Session, Account, Inner, Edits

\* Who makes an account active.
LEMMA Activity ==
  ASSUME IInv, Next
  PROVE  \A u \in Users : ~torn' /\ row[u].exists /\ ~row[u].active /\ row'[u].active =>
           \E c \in Calls : call[c].kind = "restore" /\ call[c].user = u
<1> USE DEF IInv
<1> SUFFICES ASSUME NEW u \in Users, ~torn', row[u].exists, ~row[u].active, row'[u].active
             PROVE  \E c \in Calls : call[c].kind = "restore" /\ call[c].user = u
  OBVIOUS
<1>1. row' # row  OBVIOUS
<1>2. PICK c \in Calls : InsertUser(c) \/ StoreToken(c) \/ Logout(c) \/ WriteUser(c)
  BY <1>1
  DEF Next, Redis, GenerateChallenge, ChallengeExpires, Session, ConsumeChallenge, FetchChallenge,
      DeleteChallenge, FindActiveUser, FindExisting, AcceptToken, StartLogout, Account,
      StartProfile, StartAdmin, LoadUser, CountAdmins, CallFails
<1>3. row \in [Users -> Rows] /\ call[c].step # "idle" => call[c].user \in Users
  BY RowsAreRows, CallTypeInv
<1>4. CASE WriteUser(c)
  <2>1. /\ call[c].step = "write" /\ WriteRow(c, call[c].user, Written(c))
        /\ row' = [row EXCEPT ![call[c].user] = Written(c)]
    BY <1>4 DEF WriteUser, Written, WriteRow
  <2>2. ~torn /\ c \notin stale  BY <2>1 DEF WriteRow, TypeInv, TypeOK
  <2>3. call[c].user = u /\ Written(c).active  BY <1>3, <2>1, RowsAreRows
  <2> QED BY <2>1, <2>2, <2>3, WrittenInTime
<1>5. CASE InsertUser(c)
  <2>1. /\ call[c].step = "insert"
        /\ row' = row \/ (~row[call[c].user].exists /\ row' = [row EXCEPT ![call[c].user] = Member])
    BY <1>5 DEF InsertUser
  <2> QED BY <1>1, <1>3, <2>1, RowsAreRows
<1>6. CASE StoreToken(c) \/ Logout(c)
  <2>1. PICK t : row' = [row EXCEPT ![call[c].user].session = t]
    BY <1>6 DEF StoreToken, Logout
  <2>2. row'[u].active = row[u].active
    BY <2>1, RowsAreRows DEF Rows
  <2> QED BY <2>2
<1> QED BY <1>2, <1>4, <1>5, <1>6

-----------------------------------------------------------------------------
(* Theorems                                                                *)

\* The invariant holds throughout, whatever calls run at once and wherever they end.
THEOREM Invariance == Spec => []IInv
<1>1. Init => IInv  BY InitInv
<1>2. IInv /\ [Next]_vars => IInv'
  BY TypeStep, ChallengeStep, TokenStep, AdminStep DEF IInv
<1> QED BY <1>1, <1>2, PTL DEF Spec

\* Demoting and deactivating leave an administrator, however many administrators are at
\* it at once, unless a call writes on the strength of what it read before another write.
THEOREM LastAdminStays == Spec => []AdminRemains
<1>1. IInv => AdminRemains  BY DEF IInv, AdminInv, AdminRemains
<1> QED BY <1>1, Invariance, PTL

\* Challenges are exchanged once, however many logins and registrations present them:
\* with GETDEL always, without it but for those that two calls have fetched together.
THEOREM ChallengesAreOneTime == Spec => []SignInConsistent
<1>1. IInv => SignInConsistent  BY DEF IInv, TypeInv, ChallengeInv, SignInConsistent
<1> QED BY <1>1, Invariance, PTL

\* A refresh token that was exchanged is not accepted again, and a session is replaced
\* by a newer one or by none.
THEOREM TokensRotate == Spec => RefreshTokenOnce
<1>1. IInv /\ [Next]_vars =>
        [/\ \A c \in Calls : call[c] = NoCall /\ call'[c].kind = "refresh" =>
              call'[c].held \notin spent
         /\ \A u \in Users : row'[u].session \in {0, row[u].session, tokens + 1}]_vars
  BY Rotation
<1> QED BY <1>1, Invariance, PTL DEF Spec, RefreshTokenOnce

\* A deactivated account comes back by `restore` only, or by a save that is stale.
THEOREM DeactivationLasts == Spec => DeactivatedStaysOut
<1>1. IInv /\ [Next]_vars =>
        [\A u \in Users : ~torn' /\ row[u].exists /\ ~row[u].active /\ row'[u].active =>
           \E c \in Calls : call[c].kind = "restore" /\ call[c].user = u]_vars
  BY Activity
<1> QED BY <1>1, Invariance, PTL DEF Spec, DeactivatedStaysOut
=============================================================================
