------------------------------- MODULE Accounts -------------------------------
(***************************************************************************)
(* Accounts: the rows of users, their sessions and the wallet challenges   *)
(* in Redis (UsersService, AuthService, JwtStrategy).  Any number of HTTP  *)
(* calls run at once, in one process or several; each awaited query is a   *)
(* step, and a call may end before any of them (a rejected query, a bad    *)
(* signature, a death).  A wallet stands for its user.  TypeORM's save     *)
(* writes back every column that the entity was loaded with.  Challenges   *)
(* and refresh tokens are numbered as they are stored, and clients may     *)
(* present any of them.                                                    *)
(*                                                                         *)
(* Left out: profile and KYC columns (saving them is an `edit`), access    *)
(* tokens, which change no state, the best-effort audit log, and the role  *)
(* super_admin, which counts as an administrator but opens no route.       *)
(***************************************************************************)
EXTENDS Naturals, FiniteSets

CONSTANTS
  Users,          \* wallets
  Wallets,        \* those whose challenges and sessions are followed
  Calls,          \* HTTP calls in progress
  MaxChallenges,  \* bound: challenges issued
  MaxTokens,      \* bound: refresh tokens issued
  Nobody,         \* the user of an idle call
  Unselected      \* a column that a query does not load

ASSUME AccountConstants ==
  /\ Wallets \subseteq Users
  /\ MaxChallenges \in Nat /\ MaxTokens \in Nat \ {0}
  /\ Nobody \notin Users /\ Unselected \notin Nat

VARIABLES
  row,         \* users: whether there is one, its role, is_active, refresh_token
  getdel,      \* whether the Redis server knows GETDEL (6.2 or later)
  challenge,   \* auth:challenge:<wallet>, 0 for none
  challenges,  \* challenges issued so far
  tokens,      \* refresh tokens stored so far
  call,        \* of each call: kind, step, user, loaded entity, challenge or token
  redeemed,    \* challenges exchanged, and those exchanged again (history)
  shared,      \* challenges that two calls had fetched at once (history)
  spent,       \* refresh tokens that have been exchanged (history)
  stale,       \* calls whose entity or count predates another write (history)
  torn         \* some call has written although it was stale (history)

redisVars == <<getdel, challenge, challenges, redeemed, shared>>
tokenVars == <<tokens, spent>>

\* Each token has an identifier of its own (jti), and so a hash of its own.
NewToken == tokens + 1
raceVars  == <<stale, torn>>
vars == <<row, call, redisVars, tokenVars, raceVars>>

-----------------------------------------------------------------------------
NoRow  == [exists |-> FALSE, admin |-> FALSE, active |-> FALSE, session |-> 0]
NoCall == [kind |-> "none", step |-> "idle", user |-> Nobody, entity |-> NoRow, held |-> 0]
Member == [NoRow EXCEPT !.exists = TRUE, !.active = TRUE]

Live(u)        == row[u].exists /\ row[u].active
ActiveAdmin(u) == Live(u) /\ row[u].admin
Removals       == {"demote", "deactivate"}

\* refresh_token has `select: false`.  Mutant: it is loaded like the others.
LoadedWhole(u) == row[u]
Loaded(u)      == [row[u] EXCEPT !.session = Unselected]

\* What save leaves of the row of u, given the entity.
Saved(u, entity) ==
  [entity EXCEPT !.session = IF @ = Unselected THEN row[u].session ELSE @]

Goto(c, label) == call' = [call EXCEPT ![c].step = label]
End(c)         == call' = [call EXCEPT ![c] = NoCall]
Begin(c, kind, label, u, held) ==
  /\ call[c] = NoCall
  /\ call' = [call EXCEPT ![c] = [NoCall EXCEPT !.kind = kind, !.step = label,
                                                !.user = u, !.held = held]]

\* Roles and activity are written by c: who had read them before is stale now,
\* and so is who has counted the other administrators, if one of them goes.
ReadBefore(d, u) ==
  \/ call[d].step \in {"count", "write"} /\ call[d].user = u
  \/ call[d].step = "write" /\ call[d].kind \in Removals /\ ActiveAdmin(u)
WriteRow(c, u, new) ==
  /\ row' = [row EXCEPT ![u] = new]
  /\ torn' = (torn \/ c \in stale)
  /\ stale' = {d \in Calls \ {c} :
       ~torn' /\ (d \in stale \/ (new # row[u] /\ ReadBefore(d, u)))}

Init ==
  /\ row \in [Users -> {NoRow, Member, [Member EXCEPT !.admin = TRUE],
                       [Member EXCEPT !.session = 1]}]
  /\ \E u \in Users : ActiveAdmin(u)
  /\ \A u \in Users \ Wallets : row[u].exists /\ row[u].session = 0
  /\ \A u, v \in Users : row[u].session = 1 /\ row[v].session = 1 => u = v
  /\ getdel \in BOOLEAN
  /\ challenge = [u \in Users |-> 0] /\ challenges = 0 /\ tokens = 1
  /\ call = [c \in Calls |-> NoCall]
  /\ redeemed = <<{}, {}>> /\ shared = {}
  /\ spent = {} /\ stale = {} /\ torn = FALSE

-----------------------------------------------------------------------------
(* Challenges                                                              *)

\* A second exchange of n goes into the second set.
Exchange(sets, n) == IF n \in sets[1] THEN <<sets[1], sets[2] \cup {n}>>
                                      ELSE <<sets[1] \cup {n}, sets[2]>>

GenerateChallenge(u) ==
  /\ challenges < MaxChallenges
  /\ challenges' = challenges + 1
  /\ challenge' = [challenge EXCEPT ![u] = challenges + 1]
  /\ UNCHANGED <<row, getdel, call, redeemed, shared, tokenVars, raceVars>>

ChallengeExpires(u) ==
  /\ challenge[u] # 0
  /\ challenge' = [challenge EXCEPT ![u] = 0]
  /\ UNCHANGED <<row, getdel, challenges, call, redeemed, shared, tokenVars, raceVars>>

\* The challenge is gone once it has been read.  Mutant: it stays until it expires.
KeepIt(u) == UNCHANGED challenge
TakeIt(u) == challenge' = [challenge EXCEPT ![u] = 0]

AfterRedeeming(kind) == IF kind = "login" THEN "find" ELSE "existing"

\* GETDEL; a call with another challenge (0: none of these) consumes it in vain.
ConsumeChallenge(c, kind, u, n) ==
  /\ getdel /\ challenge[u] # 0
  /\ TakeIt(u)
  /\ IF challenge[u] = n
     THEN Begin(c, kind, AfterRedeeming(kind), u, 0) /\ redeemed' = Exchange(redeemed, n)
     ELSE call[c] = NoCall /\ UNCHANGED <<call, redeemed>>
  /\ UNCHANGED <<row, getdel, challenges, shared, tokenVars, raceVars>>

\* The fallback: GET and DEL.  What it deletes may be a newer challenge.
Fetched == {call[d].held : d \in {e \in Calls : call[e].step = "delete"}}

FetchChallenge(c, kind, u, n) ==
  /\ ~getdel /\ challenge[u] # 0
  /\ Begin(c, kind, "delete", u, IF challenge[u] = n THEN n ELSE 0)
  /\ shared' = shared \cup ({n} \cap {challenge[u]} \cap Fetched)
  /\ UNCHANGED <<row, getdel, challenge, challenges, redeemed, tokenVars, raceVars>>

DeleteChallenge(c) ==
  /\ call[c].step = "delete"
  /\ TakeIt(call[c].user)
  /\ IF call[c].held = 0
     THEN End(c) /\ UNCHANGED redeemed
     ELSE /\ redeemed' = Exchange(redeemed, call[c].held)
          /\ call' = [call EXCEPT ![c].step = AfterRedeeming(call[c].kind), ![c].held = 0]
  /\ UNCHANGED <<row, getdel, challenges, shared, tokenVars, raceVars>>

-----------------------------------------------------------------------------
(* login, register, refresh and logout                                     *)

FindActiveUser(c) ==
  /\ call[c].step = "find"
  /\ IF Live(call[c].user) THEN Goto(c, "token") ELSE End(c)
  /\ UNCHANGED <<row, redisVars, tokenVars, raceVars>>

FindExisting(c) ==
  /\ call[c].step = "existing"
  /\ IF row[call[c].user].exists THEN End(c) ELSE Goto(c, "insert")
  /\ UNCHANGED <<row, redisVars, tokenVars, raceVars>>

\* The wallet is unique: the insertion fails if there is a row by now.
InsertUser(c) ==
  LET u == call[c].user IN
  /\ call[c].step = "insert"
  /\ IF row[u].exists
     THEN End(c) /\ UNCHANGED row
     ELSE Goto(c, "token") /\ row' = [row EXCEPT ![u] = Member]
  /\ UNCHANGED <<redisVars, tokenVars, raceVars>>

\* A stored token of an active user is accepted.
StoredToken(u, t) == Live(u) /\ t # 0 /\ row[u].session = t

AcceptToken(c, u, t) ==
  /\ StoredToken(u, t)
  /\ Begin(c, "refresh", "token", u, t)
  /\ UNCHANGED <<row, redisVars, tokenVars, raceVars>>

StoreToken(c) ==
  /\ call[c].step = "token" /\ tokens < MaxTokens
  /\ tokens' = NewToken
  /\ row' = [row EXCEPT ![call[c].user].session = NewToken]
  /\ spent' = IF call[c].kind = "refresh" THEN spent \cup {call[c].held} ELSE spent
  /\ End(c)
  /\ UNCHANGED <<redisVars, raceVars>>

\* The user was active when the guard looked.
StartLogout(c, u) ==
  /\ Live(u)
  /\ Begin(c, "logout", "clear", u, 0)
  /\ UNCHANGED <<row, redisVars, tokenVars, raceVars>>

Logout(c) ==
  /\ call[c].step = "clear"
  /\ row' = [row EXCEPT ![call[c].user].session = 0]
  /\ End(c)
  /\ UNCHANGED <<redisVars, tokenVars, raceVars>>

-----------------------------------------------------------------------------
(* updateProfile, updateKycStatus, updateRole, softDelete and restore      *)

\* JwtStrategy and RolesGuard look the actor up when the call arrives.
StartProfile(c, u) ==
  /\ Live(u)
  /\ Begin(c, "edit", "load", u, 0)
  /\ UNCHANGED <<row, redisVars, tokenVars, raceVars>>

StartAdmin(c, kind, actor, u) ==
  /\ ActiveAdmin(actor)
  /\ kind # "restore" => actor # u
  /\ Begin(c, kind, "load", u, 0)
  /\ UNCHANGED <<row, redisVars, tokenVars, raceVars>>

\* A change of role leaves is_active alone.  Mutant: it reactivates.
Reactivates(entity, admin) == [entity EXCEPT !.admin = admin, !.active = TRUE]
WithRole(entity, admin)    == [entity EXCEPT !.admin = admin]

\* What a call will save; softDelete only updates a column.
Changed(kind, entity) ==
  CASE kind = "edit"       -> entity
    [] kind = "promote"    -> WithRole(entity, TRUE)
    [] kind = "demote"     -> WithRole(entity, FALSE)
    [] kind = "restore"    -> [entity EXCEPT !.active = TRUE]
    [] kind = "deactivate" -> NoRow

\* The administrators are counted if the entity is one.  Mutant: never.
NeverCounts(kind, entity) == FALSE
MustCount(kind, entity)   == kind \in Removals /\ entity.admin

LoadUser(c) ==
  LET u == call[c].user
      kind == call[c].kind
  IN /\ call[c].step = "load"
     /\ IF row[u].exists
        THEN call' = [call EXCEPT ![c].entity = Changed(kind, Loaded(u)),
               ![c].step = IF MustCount(kind, Loaded(u)) THEN "count" ELSE "write"]
        ELSE End(c)
     /\ UNCHANGED <<row, redisVars, tokenVars, raceVars>>

CountAdmins(c) ==
  /\ call[c].step = "count"
  /\ IF \E u \in Users \ {call[c].user} : ActiveAdmin(u)
     THEN Goto(c, "write") /\ UNCHANGED stale
     ELSE End(c) /\ stale' = stale \ {c}
  /\ UNCHANGED <<row, redisVars, tokenVars, torn>>

WriteUser(c) ==
  LET u == call[c].user IN
  /\ call[c].step = "write"
  /\ WriteRow(c, u, IF call[c].kind = "deactivate"
                    THEN [row[u] EXCEPT !.active = FALSE]
                    ELSE Saved(u, call[c].entity))
  /\ End(c)
  /\ UNCHANGED <<redisVars, tokenVars>>

\* A query rejects, the signature is wrong, or the process dies.
CallFails(c) ==
  /\ call[c] # NoCall
  /\ End(c)
  /\ stale' = stale \ {c}
  /\ UNCHANGED <<row, redisVars, tokenVars, torn>>

-----------------------------------------------------------------------------
Redis(u) == GenerateChallenge(u) \/ ChallengeExpires(u)

Session(c) ==
  \/ \E u \in Wallets, n \in 0..challenges, kind \in {"login", "register"} :
       ConsumeChallenge(c, kind, u, n) \/ FetchChallenge(c, kind, u, n)
  \/ \E u \in Wallets, t \in 1..tokens : AcceptToken(c, u, t)
  \/ \E u \in Wallets : StartLogout(c, u)
  \/ DeleteChallenge(c) \/ FindActiveUser(c) \/ FindExisting(c) \/ InsertUser(c)
  \/ StoreToken(c) \/ Logout(c)

Account(c) ==
  \/ \E u \in Users : StartProfile(c, u)
  \/ \E actor, u \in Users, kind \in Removals \cup {"edit", "promote", "restore"} :
       StartAdmin(c, kind, actor, u)
  \/ LoadUser(c) \/ CountAdmins(c) \/ WriteUser(c)

Next ==
  \/ \E u \in Wallets : Redis(u)
  \/ \E c \in Calls : Session(c) \/ Account(c) \/ CallFails(c)

Spec == Init /\ [][Next]_vars

-----------------------------------------------------------------------------
(* Properties                                                              *)

\* Types; a stale call has an entity that it may still write.
TypeOK ==
  /\ row \in [Users -> [exists : BOOLEAN, admin : BOOLEAN, active : BOOLEAN,
                        session : 0..MaxTokens]]
  /\ getdel \in BOOLEAN /\ torn \in BOOLEAN
  /\ challenge \in [Users -> 0..challenges] /\ challenges \in 0..MaxChallenges
  /\ tokens \in 0..MaxTokens /\ \A u \in Users : row[u].session <= tokens
  /\ \A c \in Calls : call[c].user \in Users <=> call[c] # NoCall
  /\ redeemed[1] \cup redeemed[2] \cup shared \subseteq 1..challenges
  /\ spent \subseteq 1..tokens
  /\ \A c \in stale : call[c].step \in {"count", "write"}

\* "Guards against demoting/deactivating the last remaining active admin": one
\* remains, also when the actor of a call is removed while it runs, as long as no
\* call writes on the strength of an entity or a count that predates another
\* write.  (Two administrators who demote one another do that.)
AdminRemains == ~torn => \E u \in Users : ActiveAdmin(u)

\* A deactivated account comes back by `restore`, or by the save of an entity
\* that was loaded before the deactivation; never by a change of its role,
\* profile or KYC status, a registration or a login.
DeactivatedStaysOut ==
  [][\A u \in Users : ~torn' /\ row[u].exists /\ ~row[u].active /\ row'[u].active =>
       \E c \in Calls : call[c].kind = "restore" /\ call[c].user = u]_vars

\* Challenges are one-time: GETDEL lets one call have each, however many login
\* or register; without it two calls that fetch it together may.
ChallengeOnce == redeemed[2] \subseteq (IF getdel THEN {} ELSE shared)

\* Sign-in: a well-formed state, in which challenges are one-time.
SignInConsistent == TypeOK /\ ChallengeOnce

\* Rotation: a refresh token is not accepted again once it has been exchanged (two
\* exchanges of one token have both accepted it before either was done), and one
\* that was rotated or logged out is never valid again, whatever is saved from an
\* entity that was loaded while it was: only newer ones follow.
RefreshTokenOnce ==
  [][/\ \A c \in Calls : call[c] = NoCall /\ call'[c].kind = "refresh" =>
          call'[c].held \notin spent
     /\ \A u \in Users : row'[u].session \in {0, row[u].session, tokens + 1}]_vars
=============================================================================
