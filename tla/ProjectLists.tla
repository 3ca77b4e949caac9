----------------------------- MODULE ProjectLists -----------------------------
(***************************************************************************)
(* ProjectLists: a client pages through a list of projects, sorted by      *)
(* created_at and id, while calls of module Projects change the rows       *)
(* (paginate of common/pagination, which serves every other list as well). *)
(* A page is one query.  A cursor is the sort value and the id of the last *)
(* row of a page; the sort value is a JavaScript Date, which keeps the     *)
(* milliseconds of a timestamp and drops the rest.  The first page has no  *)
(* cursor: paginate serves it by offset and hands no cursor out, so the    *)
(* keyset walk is the one that paginateKeyset offers (and its test takes). *)
(***************************************************************************)
EXTENDS Projects, FiniteSets

CONSTANTS
  TicksPerMs,   \* resolution of created_at
  Limits        \* page sizes

ASSUME ListConstants ==
  IsFiniteSet(Ids) /\ TicksPerMs \in Nat \ {0} /\ Limits \subseteq Nat \ {0}

VARIABLES
  walk,     \* of the client: its mode, direction, limit, page and cursor
  times,    \* how often it was given each project, 2 for more (history)
  stayed,   \* in a keyset walk: projects that were listed all the time (history)
  cuts,     \* and the last rows of its pages (history)
  still     \* in a walk by offset: nothing changed since it began (history)

listVars == <<walk, times, stayed, cuts, still>>
vars     == <<projectVars, listVars>>

-----------------------------------------------------------------------------
(* keyset-paginator and cursor.util                                        *)

Listed == {p \in Ids : Live(p)}

\* The total order of applyOrdering.
Precedes(dir, t, p, u, q) ==
  IF dir = "DESC" THEN t > u \/ (t = u /\ p > q) ELSE t < u \/ (t = u /\ p < q)
Ahead(p, S) == {q \in S : Precedes(walk.dir, created[q], q, created[p], p)}

\* serialiseSortValue: toISOString.
Serialised(t) == t - (t % TicksPerMs)

NoCursor == [v |-> 0, id |-> 0]
Encode(p) == [v |-> Serialised(created[p]), id |-> p]

\* The predicate of paginateKeyset.  Mutant: the tiebreaker is missing.
WithoutTiebreaker(p, cursor) == Precedes(walk.dir, cursor.v, 0, created[p], 0)
After(p, cursor) == Precedes(walk.dir, cursor.v, cursor.id, created[p], p)

\* take limit + 1: a page, and whether there is another one.
Matching ==
  IF walk.mode = "offset" \/ walk.cursor = NoCursor THEN Listed
  ELSE {p \in Listed : After(p, walk.cursor)}
Skip(page) == (page - 1) * walk.limit
Skipped  == IF walk.mode = "offset" THEN Skip(walk.page) ELSE 0
Page     == {p \in Matching : Cardinality(Ahead(p, Matching)) \in Skipped .. Skipped + walk.limit - 1}
HasMore  == Cardinality(Matching) > Skipped + walk.limit
LastRow  == CHOOSE p \in Page : \A q \in Page \ {p} : q \in Ahead(p, Page)

-----------------------------------------------------------------------------
Resting == [mode |-> "idle", dir |-> "DESC", limit |-> 1, page |-> 1, cursor |-> NoCursor]

Rest ==
  /\ walk' = Resting /\ times' = [p \in Ids |-> 0]
  /\ stayed' = {} /\ cuts' = {} /\ still' = TRUE

ListsInit ==
  /\ walk = Resting /\ times = [p \in Ids |-> 0]
  /\ stayed = {} /\ cuts = {} /\ still = TRUE

StartWalk ==
  /\ walk.mode = "idle"
  /\ \E mode \in {"keyset", "offset"}, dir \in {"ASC", "DESC"}, limit \in Limits :
       /\ walk' = [Resting EXCEPT !.mode = mode, !.dir = dir, !.limit = limit]
       /\ stayed' = IF mode = "keyset" THEN Listed ELSE {}
  /\ UNCHANGED <<projectVars, times, cuts, still>>

\* A page that is not the last one; the client asks for the next one.
NextPage ==
  /\ walk.mode # "idle" /\ HasMore
  /\ times' = [p \in Ids |-> IF p \in Page /\ times[p] < 2 THEN times[p] + 1 ELSE times[p]]
  /\ IF walk.mode = "offset"
     THEN walk' = [walk EXCEPT !.page = @ + 1] /\ UNCHANGED cuts
     ELSE /\ walk' = [walk EXCEPT !.cursor = Encode(LastRow)]
          /\ cuts' = cuts \cup {LastRow}
  /\ UNCHANGED <<projectVars, stayed, still>>

LastPage ==
  /\ walk.mode # "idle" /\ ~HasMore
  /\ Rest
  /\ UNCHANGED projectVars

Change ==
  /\ ProjectsNext
  /\ stayed' = {p \in stayed : row'[p].there /\ ~row'[p].deleted}
  /\ still' = (still /\ (walk.mode # "offset" \/ row' = row))
  /\ UNCHANGED <<walk, times, cuts>>

Init == ProjectsInit /\ ListsInit
Next == Change \/ StartWalk \/ NextPage \/ LastPage
Spec == Init /\ [][Next]_vars

-----------------------------------------------------------------------------
(* Properties                                                              *)

Exact(p) == Serialised(created[p]) = created[p]

\* Types; a cursor is that of a project.
TypeOK ==
  /\ ProjectsTypeOK
  /\ walk.mode \in {"idle", "keyset", "offset"}
  /\ walk.cursor = NoCursor \/ \E p \in cuts : walk.cursor = Encode(p)
  /\ times \in [Ids -> 0..2] /\ stayed \subseteq Listed /\ cuts \subseteq Ids

\* "neither duplicates nor skips rows when new rows are inserted mid-pagination":
\* no project is on two pages of a keyset walk, whatever is created, removed or
\* brought back meanwhile; except that an ascending one returns what is in the
\* millisecond of the last row of a page again, up to that row, if the timestamp is
\* not a whole number of milliseconds.
Again(p) ==
  walk.dir = "ASC" /\ \E q \in cuts :
    Serialised(created[q]) <= created[p] /\ created[p] <= created[q] /\ ~Exact(q)
KeysetRepeatsNothing ==
  walk.mode = "keyset" =>
    \A p \in Ids : times[p] > 0 /\ p \in Page => Again(p)

\* A keyset walk that ends has returned every project that was listed all the time;
\* except that a descending one skips those in the millisecond of the last row of a
\* page, if the timestamp of that row is not a whole number of milliseconds.
Lost(p) ==
  walk.dir = "DESC" /\ \E q \in cuts :
    Serialised(created[q]) = Serialised(created[p]) /\ ~Exact(q)
KeysetSkipsNothing ==
  walk.mode = "keyset" /\ ~HasMore =>
    \A p \in stayed \ Page : times[p] = 0 => Lost(p)

\* A walk by offset returns every project exactly once as long as nothing changes.
OffsetIsExactWhenStill ==
  walk.mode = "offset" /\ still /\ ~HasMore =>
    \A p \in Listed : times[p] = IF p \in Page THEN 0 ELSE 1

\* Every page is the right one, under either mode.
PagesExact ==
  TypeOK /\ KeysetRepeatsNothing /\ KeysetSkipsNothing /\ OffsetIsExactWhenStill
=============================================================================
