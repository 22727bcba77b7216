----------------------------- MODULE MemoryStore -----------------------------
(***************************************************************************)
(* The per-user memory store (services/qdrant.ts, tools/memory.ts): upsert *)
(* with a preserved createdAt, delete with an inferred count, and listing  *)
(* by pages.  Every operation is two requests to Qdrant, a read and then a *)
(* write, and nothing locks a point between them.  The Qdrant client takes *)
(* no abort signal: a call whose time is up is answered TIMEOUT while its  *)
(* write goes on in the background, to be applied later or never.          *)
(*                                                                         *)
(* A point is named by its owner and the caller's id, which pointIdFor     *)
(* maps to a point id; Qdrant lists points in the order of these.          *)
(***************************************************************************)
EXTENDS Integers, SequencesExt

CONSTANTS
    User,
    Active,      \* bound: the users whose calls run; the others' points are just there
    Id,          \* caller ids
    Key,         \* points: pairs of a user and a caller id
    Call,        \* upsert and delete calls, reused once nothing of them is left
    None,
    Position,    \* the order of the point ids pointIdFor computes
    PageSize,    \* limit of a list request
    MaxTime      \* bound of the clock

ASSUME StoreAssumption ==
    /\ Key \subseteq User \X Id /\ Active \subseteq User /\ None \notin User
    /\ None \notin [created : Nat, updated : Nat]
    /\ Position \in [Key -> Nat \ {0}] /\ IsInjective(Position)
    /\ PageSize \in Nat \ {0} /\ MaxTime \in Nat

VARIABLES
    now,        \* Date.now()
    points,     \* the collection: the payload of each point, or None
    ops,        \* progress of each call
    walk,       \* one caller's walk through the pages of memory_list
    known       \* history: what the last call on a point, answered as done, did to it;
                \* "contended" once two operations were under way on it at once

storeVars == <<now, points, ops, walk, known>>

-----------------------------------------------------------------------------
Payload == [created : Nat, updated : Nat]
Stage == {"idle", "reading", "writing", "background", "applied"}
Op == [stage : Stage, kind : {"put", "drop"}, user : User \cup {None}, ids : SUBSET Id,
       at : Nat, created : Nat, told : Nat, removed : Nat]

Idle == [stage |-> "idle", kind |-> "put", user |-> None, ids |-> {},
         at |-> 0, created |-> 0, told |-> 0, removed |-> 0]

\* cursor: where the next page starts; items: how often the pages so far returned
\* each point; stayed: the points that were there from the first page on (history).
NoWalk == [user |-> None, cursor |-> 0, items |-> [k \in Key |-> 0], stayed |-> {}]

StoreTypeOK ==
    /\ now \in Nat
    /\ points \in [Key -> Payload \cup {None}]
    /\ ops \in [Call -> Op]
    /\ walk \in [user : User \cup {None}, cursor : Nat, items : [Key -> Nat], stayed : SUBSET Key]
    /\ known \in [Key -> {"put", "drop", "unsure", "contended"}]

\* Points stored by an earlier process may be there.
StoreInit ==
    /\ now = 1
    /\ points \in [Key -> {None, [created |-> 0, updated |-> 0]}]
    /\ \A k \in Key : k[1] \notin Active => points[k] # None
    /\ ops = [c \in Call |-> Idle]
    /\ walk = NoWalk
    /\ known = [k \in Key |-> IF points[k] = None THEN "drop" ELSE "put"]

-----------------------------------------------------------------------------
KeysOf(o) == Key \cap ({o.user} \X o.ids)
Contended == {k \in Key : known[k] = "contended"}
InUse(c, k) == ops[c].stage # "idle" /\ k \in KeysOf(ops[c])

\* A call begins on the points of user u named or matched by I.
Begin(c, kind, u, I) ==
    LET o == [Idle EXCEPT !.stage = "reading", !.kind = kind, !.user = u, !.ids = I,
                          !.at = IF kind = "put" THEN now ELSE 0]
    IN
    /\ ops[c].stage = "idle"
    /\ KeysOf(o) # {}
    /\ ops' = [ops EXCEPT ![c] = o]
    /\ known' = [k \in Key |->
                   IF k \notin KeysOf(o) \/ known[k] = "contended" THEN known[k]
                   ELSE IF \E d \in Call : InUse(d, k) THEN "contended" ELSE "unsure"]
    /\ UNCHANGED <<now, points, walk>>

\* upsert, once the text is embedded: `now` is taken before the point is read.
BeginUpsert(c, u, i) == Begin(c, "put", u, {i})

\* delete by id, or by a filter: I is every id that matches it at some time of the
\* call, since Qdrant evaluates it at the count and again at the delete.  A point that
\* matches only some of the time is written by another call meanwhile: contended.
BeginDelete(c, u, I) == Begin(c, "drop", u, I)

-----------------------------------------------------------------------------
OriginalNow(o) == o.at   \* mutant: replaced points are created anew

\* fetchExistingCreatedAt(pointId) ?? now
Original(o) ==
    LET k == CHOOSE q \in KeysOf(o) : TRUE IN
    IF points[k] = None THEN o.at ELSE points[k].created

PresentUnscoped(o) ==   \* mutant: the userId condition is missing from the filter
    {k \in Key : k[2] \in o.ids /\ points[k] # None}

\* buildFilter: the points of this user, and of nobody else, that are there.
Present(o) == {k \in KeysOf(o) : points[k] # None}

\* The count a delete will report, read before it deletes.
Told(o) == Cardinality(Present(o))

\* The read of a call is answered; the write is sent.
Read(c) ==
    LET o == ops[c] IN
    /\ o.stage = "reading"
    /\ ops' = [ops EXCEPT ![c] =
         IF o.kind = "put" THEN [o EXCEPT !.stage = "writing", !.created = Original(o)]
                           ELSE [o EXCEPT !.stage = "writing", !.told = Told(o)]]
    /\ UNCHANGED <<now, points, walk, known>>

Written(c) == [created |-> ops[c].created, updated |-> ops[c].at]

\* Qdrant applies the write, waited for or not.
Apply(c) ==
    LET o    == ops[c]
        gone == IF o.kind = "drop" THEN Present(o) ELSE {}
    IN
    /\ o.stage \in {"writing", "background"}
    /\ points' = [k \in Key |->
                    IF o.kind = "put" /\ k \in KeysOf(o) THEN Written(c)
                    ELSE IF k \in gone THEN None ELSE points[k]]
    /\ ops' = [ops EXCEPT ![c] =
         IF o.stage = "background" THEN Idle
         ELSE [o EXCEPT !.stage = "applied", !.removed = Cardinality(gone),
                        !.at = 0, !.created = 0]]
    /\ walk' = [walk EXCEPT !.stayed = @ \ gone]
    /\ UNCHANGED <<now, known>>

\* The response arrives in time: the caller learns that its call is done.
Answer(c) ==
    /\ ops[c].stage = "applied"
    /\ ops' = [ops EXCEPT ![c] = Idle]
    /\ known' = [k \in Key |-> IF k \in KeysOf(ops[c]) \ Contended THEN ops[c].kind
                              ELSE known[k]]
    /\ UNCHANGED <<now, points, walk>>

\* The call fails, its time is up, or the process ends: the caller is answered
\* with an error, but a write already sent goes on without it.  The read of an
\* upsert is not raced against the signal: when its time is up meanwhile, the write
\* is sent all the same (Read) and given up at once (Abandon).
Abandon(c) ==
    /\ ops[c].stage \in {"reading", "writing", "applied"}
    /\ ops' = [ops EXCEPT ![c] =
         IF ops[c].stage = "writing" THEN [@ EXCEPT !.stage = "background", !.told = 0]
         ELSE Idle]
    /\ UNCHANGED <<now, points, walk, known>>

\* A write nobody waits for never reaches Qdrant.
LoseWrite(c) ==
    /\ ops[c].stage = "background"
    /\ ops' = [ops EXCEPT ![c] = Idle]
    /\ UNCHANGED <<now, points, walk, known>>

-----------------------------------------------------------------------------
(* memory_list *)

BeginWalk(u) ==
    /\ walk.user = None
    /\ walk' = [NoWalk EXCEPT !.user = u, !.cursor = 1,
                              !.stayed = {k \in Key : k[1] = u /\ points[k] # None}]
    /\ UNCHANGED <<now, points, ops, known>>

\* scroll from an offset: this user's points from there on in the order of their
\* ids, of which a page holds the first PageSize.
From(offset) == {k \in Key : k[1] = walk.user /\ points[k] # None /\ Position[k] >= offset}
Rank(k, rows) == Cardinality({j \in rows : Position[j] <= Position[k]})
Returned(rows) == {k \in rows : Rank(k, rows) <= PageSize}

NextOffsetLast(rows) ==   \* mutant: the cursor names the last point returned
    IF rows = Returned(rows) THEN 0 ELSE Max({Position[k] : k \in Returned(rows)})

\* next_page_offset: the first point not returned, or 0 for null.
NextOffset(rows) ==
    IF rows = Returned(rows) THEN 0
    ELSE Position[CHOOSE k \in rows \ Returned(rows) :
                    \A j \in rows \ Returned(rows) : Position[k] <= Position[j]]

Page ==
    LET rows == From(walk.cursor) IN
    /\ walk.user # None /\ walk.cursor # 0
    /\ walk' = [walk EXCEPT !.items = [k \in Key |-> IF k \in Returned(rows)
                                                     THEN walk.items[k] + 1 ELSE walk.items[k]],
                            !.cursor = NextOffset(rows)]
    /\ UNCHANGED <<now, points, ops, known>>

EndWalk ==
    /\ walk.user # None /\ walk.cursor = 0
    /\ walk' = NoWalk
    /\ UNCHANGED <<now, points, ops, known>>

Tick ==
    /\ now < MaxTime
    /\ now' = now + 1
    /\ UNCHANGED <<points, ops, walk, known>>

-----------------------------------------------------------------------------
StoreNext ==
    \/ \E c \in Call, u \in Active, i \in Id : BeginUpsert(c, u, i)
    \/ \E c \in Call, u \in Active, I \in SUBSET Id : BeginDelete(c, u, I)
    \/ \E c \in Call : Read(c)
    \/ \E c \in Call : Apply(c)
    \/ \E c \in Call : Answer(c)
    \/ \E c \in Call : Abandon(c)
    \/ \E c \in Call : LoseWrite(c)
    \/ \E u \in Active : BeginWalk(u)
    \/ Page
    \/ EndWalk
    \/ Tick

StoreSpec == StoreInit /\ [][StoreNext]_storeVars

-----------------------------------------------------------------------------
(* Properties.  Those about one point are promised for points on which no  *)
(* two operations, abandoned ones included, were under way at once.        *)

\* A point keeps its createdAt for as long as it exists (stellara-konzept.md 8.5).
CreatedAtPreserved ==
    [][\A k \in Key \ Contended' :
         points[k] # None /\ points'[k] # None => points'[k].created = points[k].created]_storeVars

\* What a caller was told is done stays done until another call on that point
\* begins, whatever calls of other users and on other points do meanwhile, and the
\* number a delete reports is the number of points it removed (upsert, delete).
AnswersTrue ==
    /\ \A k \in Key :
         /\ known[k] = "put" => points[k] # None
         /\ known[k] = "drop" => points[k] = None
    /\ \A c \in Call :
         ops[c].stage = "applied" /\ ops[c].kind = "drop" /\ KeysOf(ops[c]) \cap Contended = {}
         => ops[c].told = ops[c].removed

\* A walk through the pages returns every point that was there all along, and no
\* point twice, whatever is written and deleted between two pages.
WalkComplete ==
    /\ \A k \in Key : walk.items[k] <= 1
    /\ walk.user # None /\ walk.cursor = 0 => \A k \in walk.stayed : walk.items[k] = 1
=============================================================================
