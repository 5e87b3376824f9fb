------------------------------ MODULE Warehouse ------------------------------
(***************************************************************************)
(* The event warehouse and the three jobs that write it: the simulator     *)
(* behind the pipeline's ingest task (forced, or only when the warehouse   *)
(* is empty), the loader of an external export, and the copy of a          *)
(* finished SQLite warehouse into Postgres.                                *)
(*                                                                         *)
(* Every insert_rows, every streamed chunk and every slice of the copy is  *)
(* a transaction of its own, so a job that fails or is killed leaves the   *)
(* ones before it behind.  One job runs at a time.  A table is the         *)
(* sequence of its rows in rowid order; a row is told apart by the load    *)
(* and the chunk it came with and by what the contract would say of it.    *)
(***************************************************************************)
EXTENDS Naturals, Sequences, FiniteSets, Functions, SequencesExt

CONSTANTS
    MaxLoads,        \* bound: jobs that load rows in a behaviour
    MaxFaults,       \* bound: failed transactions and killed jobs
    Retries,         \* retries of the ingest task
    SliceSize        \* rows per slice of the copy

ASSUME WarehouseAssumption ==
    /\ MaxLoads \in Nat /\ MaxFaults \in Nat /\ Retries \in Nat
    /\ SliceSize \in Nat \ {0}

EVENT_TABLES == <<"subscribers", "subscription_events", "sessions", "payments",
                  "support_tickets">>
Tables == Range(EVENT_TABLES)

(* The tables whose integer key Postgres numbers from a sequence.          *)
SerialTables == Tables \ {"subscribers"}

(* A batch is what one transaction inserts: a table, or a chunk of the     *)
(* sessions of an export, which are streamed.                              *)
Batch(t, n) == [table |-> t, chunk |-> n]
SimulatedBatches == [i \in 1..5 |-> Batch(EVENT_TABLES[i], 1)]
TABLES == <<"subscribers", "subscription_events", "payments", "sessions",
            "support_tickets">>
ChunksOf(t) == CASE t = "sessions" -> <<1, 2>>
                 [] t = "support_tickets" -> <<>>
                 [] OTHER -> <<1>>
ExportBatches_SampleConsumed == <<Batch("subscribers", 1), Batch("subscription_events", 1),
                     Batch("payments", 1), Batch("sessions", 2)>>
ExportBatches ==
    FlattenSeq([i \in DOMAIN TABLES |->
        [k \in DOMAIN ChunksOf(TABLES[i]) |-> Batch(TABLES[i], ChunksOf(TABLES[i])[k])]])

(* Where an export may hold a row the contract refuses.                    *)
BadPlaces == {Batch("payments", 1), Batch("sessions", 1), Batch("sessions", 2)}
Kinds == {"good", "orphan", "broken"}
Row == [load : 1..MaxLoads, chunk : {1, 2}, kind : Kinds]

(* What a job loads: which batches of the export also hold an orphan or a  *)
(* broken row, and the options of the command line.  A simulation has      *)
(* neither.                                                                *)
Simulation == [export |-> FALSE, orphan |-> {}, broken |-> {},
               drop_orphans |-> FALSE, force |-> FALSE]
AtMostOne == {{}} \cup {{b} : b \in BadPlaces}
Exports == [export : {TRUE}, orphan : AtMostOne, broken : AtMostOne,
            drop_orphans : BOOLEAN, force : BOOLEAN]
Sources == {Simulation} \cup Exports

(* drop_orphan_events: the tables held whole are filtered at once, the     *)
(* streamed chunks as they come.                                           *)
Orphans_StreamUnfiltered(s, b) == b \in s.orphan /\ (~s.drop_orphans \/ b.table = "sessions")
Orphans(s, b) == b \in s.orphan /\ ~s.drop_orphans

(* validate: every table but sessions whole, of sessions the first chunk.  *)
Sample == {b \in Range(ExportBatches) : b.chunk = 1}
Valid(s) == \A b \in Sample : ~Orphans(s, b) /\ b \notin s.broken

RowsOf(s, n, b) ==
    LET row(k) == [load |-> n, chunk |-> b.chunk, kind |-> k]
    IN  <<row("good")>> \o (IF Orphans(s, b) THEN <<row("orphan")>> ELSE <<>>)
                        \o (IF b \in s.broken THEN <<row("broken")>> ELSE <<>>)

VARIABLES
    rows,     \* rows[t]: the table's rows
    source,   \* what the load that last emptied the warehouse was loading
    loads,    \* loads begun
    job,      \* the job that runs
    torn,     \* history: a load died partway, and none has completed since
    pg,       \* the Postgres copy: rows, indexes, next values of the sequences
    faults

vars == <<rows, source, loads, job, torn, pg, faults>>

Steps == {"ensure", "truncate", "insert", "count", "prepare", "copy", "index",
          "compare"}
NoJob == [at |-> "none", regenerate |-> FALSE, tries |-> 0, src |-> Simulation,
          todo |-> <<>>]
Empty == [t \in Tables |-> <<>>]

Init ==
    /\ rows = Empty
    /\ source = Simulation
    /\ loads = 0
    /\ job = NoJob
    /\ torn = FALSE
    /\ pg = [rows |-> Empty, indexed |-> TRUE, next |-> [t \in SerialTables |-> 1]]
    /\ faults = 0

(***************************************************************************)
(* Starting a job                                                          *)
(***************************************************************************)
(* The ingest task retries; training's ensure_warehouse and the            *)
(* simulator's command line do not.                                        *)
Ingest(regenerate, tries) ==
    /\ job = NoJob /\ loads < MaxLoads
    /\ loads' = loads + 1
    /\ job' = [NoJob EXCEPT !.at = IF regenerate THEN "truncate" ELSE "ensure",
                            !.regenerate = regenerate, !.tries = tries]
    /\ UNCHANGED <<rows, source, torn, pg, faults>>

(* ingest.main: a load that is refused, or only a dry run, writes nothing. *)
IngestExport(s) ==
    /\ job = NoJob /\ loads < MaxLoads
    /\ Valid(s) \/ s.force
    /\ loads' = loads + 1
    /\ job' = [NoJob EXCEPT !.at = "truncate", !.regenerate = TRUE, !.src = s]
    /\ UNCHANGED <<rows, source, torn, pg, faults>>

CopyToPostgres ==
    /\ job = NoJob
    /\ job' = [NoJob EXCEPT !.at = "prepare"]
    /\ UNCHANGED <<rows, source, loads, torn, pg, faults>>

(***************************************************************************)
(* Loading                                                                 *)
(***************************************************************************)
(* ensure_warehouse: only the subscribers are looked at.                   *)
Ensure ==
    /\ job.at = "ensure"
    /\ job' = [job EXCEPT !.at = IF rows["subscribers"] # <<>> THEN "count"
                                 ELSE "truncate"]
    /\ UNCHANGED <<rows, source, loads, torn, pg, faults>>

Batches(s) == IF s.export THEN ExportBatches ELSE SimulatedBatches

(* truncate_all: one transaction over every table.                         *)
Truncate_Appends ==
    /\ job.at = "truncate"
    /\ rows' = IF job.src.export THEN rows ELSE Empty
    /\ source' = job.src
    /\ job' = [job EXCEPT !.at = "insert", !.todo = Batches(job.src)]
    /\ UNCHANGED <<loads, torn, pg, faults>>
Truncate ==
    /\ job.at = "truncate"
    /\ rows' = Empty
    /\ source' = job.src
    /\ job' = [job EXCEPT !.at = "insert", !.todo = Batches(job.src)]
    /\ UNCHANGED <<loads, torn, pg, faults>>

Insert ==
    /\ job.at = "insert" /\ job.todo # <<>>
    /\ LET b == Head(job.todo)
       IN  rows' = [rows EXCEPT ![b.table] = @ \o RowsOf(job.src, loads, b)]
    /\ job' = [job EXCEPT !.todo = Tail(@)]
    /\ UNCHANGED <<source, loads, torn, pg, faults>>

Inserted_NeedsTickets ==
    /\ job.at = "insert"
    /\ job.todo = <<>> /\ rows["support_tickets"] # <<>>
    /\ job' = [job EXCEPT !.at = "count"]
    /\ torn' = FALSE
    /\ UNCHANGED <<rows, source, loads, pg, faults>>
Inserted ==
    /\ job.at = "insert" /\ job.todo = <<>>
    /\ job' = [job EXCEPT !.at = "count"]
    /\ torn' = FALSE
    /\ UNCHANGED <<rows, source, loads, pg, faults>>

(* The rows each table now holds are counted and reported.                 *)
Return ==
    /\ job.at = "count"
    /\ job' = NoJob
    /\ UNCHANGED <<rows, source, loads, torn, pg, faults>>

(***************************************************************************)
(* Copying to Postgres                                                     *)
(***************************************************************************)
(* Half-open rowid ranges that cover first..last.                          *)
Slices_FirstRowLost(first, last, size) ==
    [k \in 1..(last - first + size) \div size |->
        <<first + (k - 1) * size, IF first - 1 + k * size < last
                                  THEN first - 1 + k * size ELSE last>>]
Slices(first, last, size) ==
    [k \in 1..(last - first + size) \div size |->
        <<first - 1 + (k - 1) * size, IF first - 1 + k * size < last
                                      THEN first - 1 + k * size ELSE last>>]

SlicesOf(t) ==
    LET ranges == IF rows[t] = <<>> THEN <<>> ELSE Slices(1, Len(rows[t]), SliceSize)
    IN  [k \in DOMAIN ranges |->
            [table |-> t, low |-> ranges[k][1], high |-> ranges[k][2]]]

(* One transaction drops the indexes and empties the tables.               *)
Prepare ==
    /\ job.at = "prepare"
    /\ pg' = [rows |-> Empty, indexed |-> FALSE, next |-> [t \in SerialTables |-> 1]]
    /\ job' = [job EXCEPT
                 !.at = "copy",
                 !.todo = FlattenSeq([i \in 1..5 |-> SlicesOf(EVENT_TABLES[i])])]
    /\ UNCHANGED <<rows, source, loads, torn, faults>>

(* Rows travel with their ids, so the sequences do not advance.            *)
CopySlice ==
    /\ job.at = "copy" /\ job.todo # <<>>
    /\ LET c == Head(job.todo)
       IN  pg' = [pg EXCEPT !.rows[c.table] = @ \o SubSeq(rows[c.table], c.low + 1, c.high)]
    /\ job' = [job EXCEPT !.todo = Tail(@)]
    /\ UNCHANGED <<rows, source, loads, torn, faults>>

Copied ==
    /\ job.at = "copy" /\ job.todo = <<>>
    /\ job' = [job EXCEPT !.at = "index"]
    /\ UNCHANGED <<rows, source, loads, torn, pg, faults>>

(* One transaction: the indexes, and each sequence set past the largest id.*)
Index ==
    /\ job.at = "index"
    /\ pg' = [pg EXCEPT !.indexed = TRUE,
                        !.next = [t \in SerialTables |-> Len(pg.rows[t]) + 1]]
    /\ job' = [job EXCEPT !.at = "compare"]
    /\ UNCHANGED <<rows, source, loads, torn, faults>>

Compare ==
    /\ job.at = "compare"
    /\ job' = NoJob
    /\ UNCHANGED <<rows, source, loads, torn, pg, faults>>

(***************************************************************************)
(* Failures.  A transaction that raises ends its job; the ingest task is   *)
(* run again from the start.                                               *)
(***************************************************************************)
Died == torn' = (torn \/ job.at = "insert")

Fails_TriesUnchecked ==
    /\ job # NoJob /\ faults < MaxFaults
    /\ faults' = faults + 1
    /\ Died
    /\ job' = IF job.at \notin {"prepare", "copy", "index", "compare"}
              THEN [job EXCEPT !.at = IF job.regenerate THEN "truncate" ELSE "ensure",
                               !.tries = @ - 1, !.todo = <<>>]
              ELSE NoJob
    /\ UNCHANGED <<rows, source, loads, pg>>
Fails ==
    /\ job # NoJob /\ faults < MaxFaults
    /\ faults' = faults + 1
    /\ Died
    /\ job' = IF job.tries > 0
              THEN [job EXCEPT !.at = IF job.regenerate THEN "truncate" ELSE "ensure",
                               !.tries = @ - 1, !.todo = <<>>]
              ELSE NoJob
    /\ UNCHANGED <<rows, source, loads, pg>>

Killed ==
    /\ job # NoJob /\ faults < MaxFaults
    /\ faults' = faults + 1
    /\ Died
    /\ job' = NoJob
    /\ UNCHANGED <<rows, source, loads, pg>>

JobStep == \/ Ensure \/ Truncate \/ Insert \/ Inserted \/ Return
           \/ Prepare \/ CopySlice \/ Copied \/ Index \/ Compare

Next ==
    \/ \E regenerate \in BOOLEAN, tries \in {0, Retries} : Ingest(regenerate, tries)
    \/ \E s \in Exports : IngestExport(s)
    \/ CopyToPostgres
    \/ JobStep
    \/ Fails \/ Killed

Spec == Init /\ [][Next]_vars

(* A job that runs goes on; nothing obliges anyone to start one.           *)
FairSpec == Spec /\ WF_vars(JobStep)

(***************************************************************************)
(* Properties                                                              *)
(***************************************************************************)
WarehouseTypeOK ==
    /\ rows \in [Tables -> Seq(Row)]
    /\ source \in Sources
    /\ loads \in 0..MaxLoads
    /\ job.at \in Steps \cup {"none"} /\ job.src \in Sources
    /\ job.tries \in 0..Retries /\ job.regenerate \in BOOLEAN
    /\ torn \in BOOLEAN
    /\ pg.rows \in [Tables -> Seq(Row)] /\ pg.indexed \in BOOLEAN
    /\ pg.next \in [SerialTables -> Nat]
    /\ faults \in 0..MaxFaults

Loads(db) == {row.load : row \in UNION {Range(db[t]) : t \in Tables}}
ParentsFirst(db) == db["subscribers"] = <<>> => db = Empty

(* ingest.write truncates because a re-run that appended would silently    *)
(* double every subscriber's history: whatever failed, was retried or was  *)
(* killed before, each database only ever holds rows of one load, each     *)
(* once, and no event of a subscriber table that is still empty.           *)
OneLoad ==
    \A db \in {rows, pg.rows} :
        /\ Cardinality(Loads(db)) <= 1
        /\ \A t \in Tables : IsInjective(db[t])
        /\ ParentsFirst(db)

(* Point-in-time queries join outward from subscribers, so an orphan row   *)
(* vanishes from every feature.  One that is in the warehouse was not      *)
(* asked to be dropped, and either the operator forced the load or it is   *)
(* in a chunk of sessions the validation does not read; so is a broken     *)
(* row.                                                                    *)
BadRowsAccountedFor ==
    \A t \in Tables : \A row \in Range(rows[t]) :
        row.kind # "good" =>
            /\ source.force \/ (t = "sessions" /\ row.chunk > 1)
            /\ row.kind = "orphan" => ~source.drop_orphans

(* What load n, the one that last emptied the warehouse, was to leave.     *)
Whole(n) ==
    \A t \in Tables :
        LET chunks == IF source.export THEN ChunksOf(t) ELSE <<1>>
        IN  rows[t] = FlattenSeq([k \in DOMAIN chunks |->
                         RowsOf(source, n, Batch(t, chunks[k]))])

(* A load that reports success wrote all it was given, in however many     *)
(* attempts.  A job that found subscribers and generated nothing may       *)
(* return over a partial warehouse, but only if an attempt died between    *)
(* two tables and no load has completed since.                             *)
LoadedWhole ==
    [][Return => \/ Whole(loads)
                 \/ ~job.regenerate /\ (torn \/ \E n \in 1..loads : Whole(n))]_vars

(* A copy that reaches its comparison is the SQLite warehouse, row for     *)
(* row, indexed, with every sequence past the ids that were copied.        *)
CopyIsFaithful ==
    job.at = "compare" =>
        /\ pg.rows = rows /\ pg.indexed
        /\ \A t \in SerialTables : pg.next[t] > Len(pg.rows[t])

(* Every job ends: it returns, gives up after its retries, or is killed.   *)
JobsEnd == job.at # "none" ~> job.at = "none"

=============================================================================
