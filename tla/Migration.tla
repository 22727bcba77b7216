------------------------------- MODULE Migration -------------------------------
(***************************************************************************)
(* The embedding migration (scripts/migrate-embeddings.ts): it scrolls     *)
(* through the source collection, embeds the points of a page one by one   *)
(* and upserts the page into the target; at the end it compares counts.    *)
(* It keeps no checkpoint: a run that was stopped is simply run again,     *)
(* over a target that is half filled.                                      *)
(*                                                                         *)
(* The gateway is paused while the script runs (the concept, section 25):  *)
(* the source changes between runs only.  A target vector is the text it   *)
(* was computed from.                                                      *)
(***************************************************************************)
EXTENDS ProcessExit, FiniteSetsExt

CONSTANTS
    Points,        \* number of point ids; a scroll lists them in order
    Text,          \* texts of points
    BatchSizes     \* --batch-size arguments tried

ASSUME MigrationAssumption == Points \in Nat \ {0} /\ BatchSizes \subseteq Nat

VARIABLES
    source,     \* the text of each point, "no text", or "absent"
    target,     \* the text each point's vector was made of, or "absent"
    script,     \* where the run stands
    stopped     \* controller.signal.aborted

migrationVars == <<source, target, script, stopped>>

Point == 1..Points
MAX_BATCH_SIZE == 1000
MAX_EMPTY_PAGES == 3

\* cursor: the last id listed; page: points being migrated, of which
\* `embedded` have a vector; empties: consecutiveEmpty; calm: history, whether
\* no request has failed in this run and the collections were in order at its start.
NoScript == [step |-> "none", dryRun |-> FALSE, batchSize |-> 0, cursor |-> 0,
             page |-> {}, embedded |-> 0, empties |-> 0, calm |-> FALSE]

MigrationInit ==
    /\ source \in [Point -> Text \cup {"absent"}]
    /\ target = [p \in Point |-> "absent"]
    /\ script = NoScript
    /\ stopped = FALSE

-----------------------------------------------------------------------------
At(step) == Alive("migration") /\ script.step = step

StalePoints == {p \in Point : source[p] = "absent" /\ target[p] # "absent"}

\* The script goes on as s, which awaits a reply; throwIfAborted comes first.
Proceed(s) ==
    IF stopped THEN Exit("130") /\ UNCHANGED script ELSE script' = s /\ Stays

Fail == Exit("1")

\* parseCliArgs, parseBatchSize, assertCollectionsDiffer
ArgumentsOk(args) ==
    /\ args.from # args.to /\ "" \notin {args.from, args.to}
    /\ args.batchSize \in 1..MAX_BATCH_SIZE

Arguments ==
    [from : {"old", ""}, to : {"new", "old"}, batchSize : BatchSizes, dryRun : BOOLEAN]

\* main: the arguments are read first.
StartMigration(args) ==
    /\ Launch("migration")
    /\ stopped' = FALSE
    /\ script' = [NoScript EXCEPT
                    !.step = IF ArgumentsOk(args) THEN "configure" ELSE "usage",
                    !.dryRun = args.dryRun,
                    !.batchSize = args.batchSize,
                    !.calm = StalePoints = {} /\ \A p \in Point : source[p] # "no text"]
    /\ UNCHANGED <<source, target>>

\* --help, or arguments that do not do
ShowUsage ==
    /\ At("usage")
    /\ \E code \in {"0", "2"} : Exit(code)
    /\ UNCHANGED migrationVars

\* main and executeMigration: configuration and clients, which may throw, and the two
\* listeners, set in one go with them; the first scroll is sent.
Configure ==
    /\ At("configure")
    /\ \/ Fail /\ UNCHANGED script
       \/ /\ handled' = Signal /\ UNCHANGED <<program, exit>>
          /\ script' = [script EXCEPT !.step = "loop"]
    /\ UNCHANGED <<source, target, stopped>>

CountsCover == Cardinality({p \in Point : source[p] # "absent"})
                 <= Cardinality({p \in Point : target[p] # "absent"})   \* mutant

CountsMatch ==
    Cardinality({p \in Point : source[p] # "absent"}) =
      Cardinality({p \in Point : target[p] # "absent"})

\* The rest of the source after the cursor; a page is the first of it by id.
Remaining == {p \in Point : p > script.cursor /\ source[p] # "absent"}

FirstPage(rest) == {p \in rest : Cardinality({q \in rest : q <= p}) <= script.batchSize}

CursorPast(page) == Max(page) + 1   \* mutant: the next page starts one point late
CursorAfter(page) == Max(page)

\* next_page_offset is null once nothing follows; then the counts are read.
PageDone(page) ==
    LET next == [script EXCEPT !.cursor = CursorAfter(page), !.page = {}, !.embedded = 0,
                                !.empties = 0]
    IN
    IF \E p \in Point : p > Max(page) /\ source[p] # "absent"
    THEN script' = [next EXCEPT !.step = "loop"] /\ Stays
    ELSE Proceed([next EXCEPT !.step = "count"])

\* The top of the loop in iterateAndMigrate: the next scroll is sent.
NextScroll ==
    /\ At("loop")
    /\ Proceed([script EXCEPT !.step = "scroll"])
    /\ UNCHANGED <<source, target, stopped>>

TextsAssumed(page) == TRUE   \* mutant: a dry run looks at no payload

\* extractText of every point of the page
TextsPresent(page) == \A p \in page : source[p] # "no text"

\* consecutiveEmpty once this page is empty too
TooManyEmpties == script.empties + 1 >= MAX_EMPTY_PAGES

\* A page arrives, complete and in order (handleScrollPage, migrateBatch); the last
\* one may be empty.
PageArrives ==
    LET page == FirstPage(Remaining) IN
    /\ At("scroll")
    /\ IF page = {} /\ ~TooManyEmpties
       THEN Proceed([script EXCEPT !.step = "count"])
       ELSE IF page = {} \/ ~TextsPresent(page)
       THEN Fail /\ UNCHANGED script
       ELSE IF script.dryRun
       THEN PageDone(page)
       ELSE Proceed([script EXCEPT !.step = "embed", !.page = page, !.empties = 0])
    /\ UNCHANGED <<source, target, stopped>>

\* A page without points although its cursor says there are more.
EmptyPageArrives ==
    /\ At("scroll")
    /\ IF TooManyEmpties
       THEN Fail /\ UNCHANGED script
       ELSE /\ script' = [script EXCEPT !.step = "loop", !.calm = FALSE,
                            !.empties = IF @ < MAX_EMPTY_PAGES THEN @ + 1 ELSE @]
            /\ Stays
    /\ UNCHANGED <<source, target, stopped>>

\* embed answers with a vector.
PointEmbedded ==
    LET done == script.embedded + 1 IN
    /\ At("embed")
    /\ Proceed([script EXCEPT !.embedded = done,
                              !.step = IF done = Cardinality(script.page) THEN "upsert" ELSE "embed"])
    /\ UNCHANGED <<source, target, stopped>>

Upserted ==
    [p \in Point |-> IF p \in script.page THEN source[p] ELSE target[p]]

PageUpserted ==
    /\ At("upsert")
    /\ target' = Upserted
    /\ PageDone(script.page)
    /\ UNCHANGED <<source, stopped>>

\* Both exact counts; a dry run does not compare them.
CountsRead ==
    /\ At("count")
    /\ Exit(IF script.dryRun \/ CountsMatch THEN "0" ELSE "3")
    /\ UNCHANGED migrationVars

\* Whatever the script awaits fails; an upsert may be applied all the same.
RequestFails ==
    /\ \E step \in {"scroll", "embed", "upsert", "count"} : At(step)
    /\ Fail
    /\ target' \in {target} \cup IF At("upsert") THEN {Upserted} ELSE {}
    /\ script' = [script EXCEPT !.calm = FALSE]
    /\ UNCHANGED <<source, stopped>>

\* The signal reaches the embedding request, and only that one; what embed throws
\* then is the AppError of mapUpstreamError, no AbortError.
EmbeddingAborted ==
    /\ At("embed") /\ stopped
    /\ Fail
    /\ UNCHANGED migrationVars

StopHeard(s) ==
    /\ Alive("migration") /\ Heard(s)
    /\ stopped' = TRUE
    /\ UNCHANGED <<source, target, script>>

MigrationKilled ==
    /\ Alive("migration") /\ Killed
    /\ target' \in {target} \cup IF At("upsert") THEN {Upserted} ELSE {}
    /\ script' = [script EXCEPT !.calm = FALSE]
    /\ UNCHANGED <<source, stopped>>

\* Between runs the gateway writes to the source, and exit codes are read.
OwnerEdits(p, text) ==
    /\ program = "none"
    /\ source' = [source EXCEPT ![p] = text]
    /\ UNCHANGED <<processVars, target, script, stopped>>

MigrationReviewed ==
    /\ program = "migration" /\ Reviewed
    /\ script' = NoScript
    /\ stopped' = FALSE
    /\ UNCHANGED <<source, target>>

\* What Qdrant, the provider and the script itself do next.
MigrationStep ==
    \/ ShowUsage \/ Configure
    \/ NextScroll \/ PageArrives \/ EmptyPageArrives
    \/ PointEmbedded \/ PageUpserted \/ CountsRead
    \/ RequestFails \/ EmbeddingAborted

MigrationNext ==
    \/ \E args \in Arguments : StartMigration(args)
    \/ MigrationStep
    \/ \E s \in Signal : StopHeard(s)
    \/ MigrationKilled
    \/ \E p \in Point, text \in Text \cup {"no text", "absent"} : OwnerEdits(p, text)
    \/ MigrationReviewed

MigrationSpec ==
    ProcessInit /\ MigrationInit /\ [][MigrationNext]_<<processVars, migrationVars>>

\* Every request is answered at last, by Qdrant's client or the provider: the
\* script sets no time limit of its own.
MigrationFairness == WF_<<processVars, migrationVars>>(MigrationStep)

-----------------------------------------------------------------------------
(* Properties *)

\* Exit code 0 of a real run means that the target holds exactly the points of the
\* source, each with the vector of its present text, whatever earlier runs were
\* stopped where and whatever was edited between them: comparing two counts is
\* enough because every run writes every point again (runMigration).
SuccessIsExact ==
    program = "migration" /\ exit = "0" /\ script.step = "count" /\ ~script.dryRun =>
        target = source

\* A dry run writes nothing, and one that succeeds has found every text the real
\* run will need (migrateBatch validates "even in dry-run").
DryRunHonest ==
    [][script.dryRun /\ Alive("migration") =>
         /\ target' = target
         /\ exit' = "0" /\ script.step = "count" => \A p \in Point : source[p] # "no text"
      ]_<<processVars, migrationVars>>

\* Beyond its arguments and configuration
Begun == program = "migration" /\ script.step \notin {"none", "configure", "usage"}

\* A run that nothing disturbs completes, whatever half-filled target it found, as
\* long as that held no points the source has lost.
RerunCompletes == Begun /\ script.calm /\ ~stopped => exit \in {"running", "0"}
=============================================================================
