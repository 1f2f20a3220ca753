------------------------------ MODULE LogStore ------------------------------
(***************************************************************************)
(* The log stores, internal/database/log-stores, under the workers that    *)
(* insert, the reads of exporters and users, and the deletion of sources.  *)
(*                                                                         *)
(* A worker inserts the logs of a window of blocks and their transactions, *)
(* then records the window's end; when it fails or dies in between it      *)
(* starts again from what is recorded, with windows of another size.  The  *)
(* stores absorb such replays in different ways:                           *)
(*   "sql"         a row per id, an insert leaves one that is there;       *)
(*   "mongodb", "elasticsearch"                                            *)
(*                 a document per id, an insert replaces it; a bulk may    *)
(*                 fail in part;                                           *)
(*   "clickhouse"  every insert adds rows; a read collapses those of one   *)
(*                 place (FINAL), of one source or of several;             *)
(*   "parquet"     a file per source and range, written aside and renamed; *)
(*                 reads drop ids they have seen.                          *)
(* An id names chain, block and index, or chain and hash, but not the      *)
(* source, so the first three can hold it for one source only.             *)
(* Logs and transactions are in tables of their own, which are treated     *)
(* alike up to their keys in ClickHouse and their order in reads: a        *)
(* behaviour follows one of the two.                                       *)
(* All sources of the model are on one chain: with two, logs share a block *)
(* and index, and the cursor of an exporter does not tell them apart (see  *)
(* the README).                                                            *)
(***************************************************************************)
EXTENDS Naturals, FiniteSets, Sequences, SequencesExt

CONSTANTS
    Source,     \* sources that share the store
    Logs,       \* how many logs or transactions, numbered in their order on the chain
    Block,      \* Block[l]: the block of l
    Blocks,     \* the last block
    Coverage,   \* the ways the sources may cover the logs
    Nobody,     \* no row
    PageSize,   \* maxHits: how many documents one search returns
    Limit       \* the limit of GetLatestLogs

Log == 1 .. Logs

ASSUME LogStoreAssumption ==
    /\ IsFiniteSet(Source) /\ Logs \in Nat /\ Blocks \in Nat
    /\ Block \in [Log -> 1 .. Blocks]
    /\ \A l, m \in Log : l < m => Block[l] <= Block[m]
    /\ Coverage \subseteq [Source -> SUBSET Log]
    /\ Nobody \notin Source /\ PageSize \in Nat \ {0} /\ Limit \in Nat \ {0}

VARIABLES
    kind,       \* the store type
    table,      \* which of the two tables the behaviour follows
    created,    \* whether it has been created
    covers,     \* covers[s]: the logs source s matches
    rows,       \* sql, mongodb, elasticsearch: the source_id of the row of each id
    cells,      \* clickhouse: cells[s], the newest row at each place of the partition of s
    files,      \* parquet: files[s], the files in the directory of s
    cursor,     \* cursor[s]: the block up to which s is recorded as indexed
    writer,     \* writer[s]: where the worker of s is
    acked,      \* pairs an insert has returned without an error
    reader      \* a read in progress

choice == <<kind, table, covers>>
store == <<created, rows, cells, files>>
vars == <<choice, store, cursor, writer, acked, reader>>

Pair == Source \X Log
\* The kinds whose rows have the id for a key: the same log is stored once.
Keyed == {"sql", "mongodb", "elasticsearch"}
Kind == Keyed \cup {"clickhouse", "parquet"}
Idle == [pc |-> "idle"]
NotReading == [pc |-> "idle", op |-> "after", out |-> <<>>, todo |-> {}, listed |-> {},
               found |-> {}, kept |-> {}]
Place == (1 .. Blocks) \X (0 .. Logs)
Cell == [at : Place, log : Log, doomed : BOOLEAN]
Name == {n \in (1 .. Blocks) \X (1 .. Blocks) : n[1] <= n[2]}
File == [name : Name, logs : SUBSET Log]
Writer == {Idle} \cup [pc : {"creates"}]
                 \cup [pc : {"tmp"}, to : 1 .. Blocks, logs : SUBSET Log]
                 \cup [pc : {"stored"}, to : 1 .. Blocks]
Reader == [pc : {"idle", "reading", "done"}, op : {"after", "list", "latest"},
           out : Seq(Pair), todo : SUBSET Source, listed : SUBSET (Source \X Name),
           found : SUBSET Pair, kept : SUBSET Pair]

TypeOK ==
    /\ kind \in Kind /\ table \in {"logs", "transactions"} /\ created \in BOOLEAN
    /\ covers \in Coverage
    /\ rows \in [Log -> Source \cup {Nobody}]
    /\ cells \in [Source -> SUBSET Cell] /\ files \in [Source -> SUBSET File]
    /\ cursor \in [Source -> 0 .. Blocks]
    /\ writer \in [Source -> Writer]
    /\ acked \subseteq Pair
    /\ reader \in Reader

-----------------------------------------------------------------------------
(* What a read of one source returns *)

FileLogs(s) == UNION {f.logs : f \in files[s]}

Visible(s) ==
    CASE kind \in Keyed -> {l \in Log : rows[l] = s}
      [] kind = "clickhouse" -> {c.log : c \in cells[s]}
      [] kind = "parquet" -> FileLogs(s)

VisiblePairs == UNION {{s} \X Visible(s) : s \in Source}

\* Rows a mutation will remove.
DoomedPairs ==
    UNION {{s} \X {l \in Visible(s) : \A c \in cells[s] : c.log = l => c.doomed} :
           s \in IF kind = "clickhouse" THEN Source ELSE {}}

-----------------------------------------------------------------------------
(* LoadStore and Init, each time a worker or a request opens the store      *)

Creates(k) ==
    /\ kind = k
    /\ created' = TRUE
    /\ UNCHANGED <<choice, rows, cells, files, cursor, writer, acked, reader>>

\* Tables, collections with their indexes and directories are created when
\* they are missing.
InitSQL == Creates("sql")
InitMongoDB == Creates("mongodb")
InitClickHouse == Creates("clickhouse")
InitFiles == Creates("parquet")

\* ensureIndex looks first.
IndexExists(s) ==
    /\ kind = "elasticsearch" /\ writer[s] = Idle /\ ~created
    /\ writer' = [writer EXCEPT ![s] = [pc |-> "creates"]]
    /\ UNCHANGED <<choice, store, cursor, acked, reader>>

\* Elasticsearch refuses to create an index that another worker has created
\* in between; Init returns the error and the worker starts again.
CreateIndex(s) ==
    /\ writer[s].pc = "creates"
    /\ created' = TRUE
    /\ writer' = [writer EXCEPT ![s] = Idle]
    /\ UNCHANGED <<choice, rows, cells, files, cursor, acked, reader>>

LoadStore == InitSQL \/ InitMongoDB \/ InitClickHouse \/ InitFiles
                \/ \E s \in Source : IndexExists(s) \/ CreateIndex(s)

-----------------------------------------------------------------------------
(* The inserts, and the worker around them *)

Window(s, to) == {l \in covers[s] : cursor[s] < Block[l] /\ Block[l] <= to}

FirstBlock(logs) == CHOOSE b \in {Block[l] : l \in logs} : \A l \in logs : b <= Block[l]
LastBlock(logs) == CHOOSE b \in {Block[l] : l \in logs} : \A l \in logs : Block[l] <= b

\* The end of a window is recorded only after the insert.
Acknowledge(s, logs, to) ==
    /\ acked' = acked \cup ({s} \X logs)
    /\ writer' = [writer EXCEPT ![s] = [pc |-> "stored", to |-> to]]

\* SQLStore: ON CONFLICT DO NOTHING, in one transaction.
InsertSQL(s, to) ==
    /\ kind = "sql"
    /\ rows' = [l \in Log |-> IF l \in Window(s, to) /\ rows[l] = Nobody THEN s ELSE rows[l]]
    /\ Acknowledge(s, Window(s, to), to)
    /\ UNCHANGED <<cells, files>>

\* A bulk of replacements, which may stop after some of them and return an
\* error.
ReplaceDocuments(s, to) ==
    \E done \in SUBSET Window(s, to) :
        /\ rows' = [l \in Log |-> IF l \in done THEN s ELSE rows[l]]
        /\ IF done = Window(s, to)
           THEN Acknowledge(s, done, to)
           ELSE UNCHANGED <<acked, writer>>
        /\ UNCHANGED <<cells, files>>

InsertMongoDB(s, to) == kind = "mongodb" /\ ReplaceDocuments(s, to)

InsertElasticsearch(s, to) == kind = "elasticsearch" /\ ReplaceDocuments(s, to)

\* The sorting key: block and index of a log; of a transaction the block and
\* its number in the list that computeLogsAndTxs loads for the window.
SortingKey(l, window) ==
    <<Block[l], IF table = "logs" THEN l ELSE Cardinality({m \in window : m < l})>>

\* ClickHouseStore: one batch.  FINAL and the merges of ReplacingMergeTree
\* hide what was at a place before.
InsertClickHouse(s, to) ==
    LET window == Window(s, to)
        new == {[at |-> SortingKey(l, window), log |-> l, doomed |-> FALSE] : l \in window} IN
    /\ kind = "clickhouse"
    /\ cells' = [cells EXCEPT ![s] = {c \in @ : \A n \in new : n.at # c.at} \cup new]
    /\ Acknowledge(s, window, to)
    /\ UNCHANGED <<rows, files>>

\* Mutant: the two ends the wrong way round.
NamedBackwards(logs) == <<LastBlock(logs), FirstBlock(logs)>>

\* writeBatchFile: the name is the range of the rows, so a replay of a range
\* overwrites the file.
FileName(logs) == <<FirstBlock(logs), LastBlock(logs)>>

WriteTmpFile(s, to) ==
    /\ kind = "parquet" /\ Window(s, to) # {}
    /\ writer' = [writer EXCEPT ![s] = [pc |-> "tmp", to |-> to, logs |-> Window(s, to)]]
    /\ UNCHANGED <<rows, cells, files, acked>>

RenameFile(s) ==
    /\ writer[s].pc = "tmp"
    /\ LET logs == writer[s].logs IN
       /\ files' = [files EXCEPT ![s] = {f \in @ : f.name # FileName(logs)}
                                            \cup {[name |-> FileName(logs), logs |-> logs]}]
       /\ Acknowledge(s, logs, writer[s].to)
    /\ UNCHANGED <<choice, created, rows, cells, cursor, reader>>

\* A window without logs is not inserted at all.
EmptyWindow(s, to) ==
    /\ Window(s, to) = {}
    /\ writer' = [writer EXCEPT ![s] = [pc |-> "stored", to |-> to]]
    /\ UNCHANGED <<rows, cells, files, acked>>

IndexWindow(s) ==
    /\ writer[s] = Idle /\ created
    /\ \E to \in cursor[s] + 1 .. Blocks :
          \/ EmptyWindow(s, to)
          \/ /\ Window(s, to) # {}
             /\ \/ InsertSQL(s, to) \/ InsertMongoDB(s, to)
                \/ InsertElasticsearch(s, to) \/ InsertClickHouse(s, to)
          \/ WriteTmpFile(s, to)
    /\ UNCHANGED <<choice, created, cursor, reader>>

\* sync_block is saved.
AdvanceCursor(s) ==
    /\ writer[s].pc = "stored"
    /\ cursor' = [cursor EXCEPT ![s] = writer[s].to]
    /\ writer' = [writer EXCEPT ![s] = Idle]
    /\ UNCHANGED <<choice, store, acked, reader>>

\* The worker fails or the process dies; a .tmp file that stays is not read.
WorkerDies(s) ==
    /\ writer[s] # Idle
    /\ writer' = [writer EXCEPT ![s] = Idle]
    /\ UNCHANGED <<choice, store, cursor, acked, reader>>

-----------------------------------------------------------------------------
(* DeleteSourceData *)

\* After a deletion, of all that s has or of a part, inserts of s have acknowledged
\* these, and a read may miss the rest.
Acknowledges(s, left) ==
    /\ created
    /\ acked' = {p \in acked : p[1] = s => p[2] \in left}
    /\ reader' = [reader EXCEPT !.kept = {p \in @ : p[1] = s => p[2] \in left}]
    /\ UNCHANGED <<choice, created, cursor>>

RowsWithout(logs) == [l \in Log |-> IF l \in logs THEN Nobody ELSE rows[l]]

RemovesRows(s, k) ==
    /\ kind = k /\ rows' = RowsWithout(Visible(s))
    /\ Acknowledges(s, {})
    /\ UNCHANGED <<cells, files, writer>>

\* One statement.
DeleteSQL(s) == RemovesRows(s, "sql")

DeleteMongoDB(s) == RemovesRows(s, "mongodb")

DeleteElasticsearch(s) == RemovesRows(s, "elasticsearch")

\* DeleteMany and delete_by_query go from document to document, and return an
\* error when one of them fails: delete_by_query when an insert has replaced it
\* meanwhile.
DeletesSomeDocuments(s) ==
    /\ kind \in {"mongodb", "elasticsearch"}
    /\ \E logs \in SUBSET Visible(s) :
          rows' = RowsWithout(logs) /\ Acknowledges(s, Visible(s) \ logs)
    /\ UNCHANGED <<cells, files, writer>>

\* ALTER TABLE ... DELETE is a mutation: it returns at once, and removes all
\* that was there, merged or not, later.
DeleteClickHouse(s) ==
    /\ kind = "clickhouse"
    /\ cells' = [cells EXCEPT ![s] = {[c EXCEPT !.doomed = TRUE] : c \in @}]
    /\ Acknowledges(s, {})
    /\ UNCHANGED <<rows, files, writer>>

\* Mutant: a mutation that removes what has been inserted since.
Outlives(c) == FALSE

\* Rows of parts that are newer than the mutation.
Survives(c) == ~c.doomed

Mutation(s) ==
    /\ \E c \in cells[s] : c.doomed
    /\ cells' = [cells EXCEPT ![s] = {c \in @ : Survives(c)}]
    /\ UNCHANGED <<choice, created, rows, files, cursor, writer, acked, reader>>

\* RemoveAll: a file that is being written goes with its directory.
DeleteFiles(s) ==
    /\ kind = "parquet" /\ files' = [files EXCEPT ![s] = {}]
    /\ writer' = [writer EXCEPT ![s] = IF @.pc = "tmp" THEN Idle ELSE @]
    /\ Acknowledges(s, {})
    /\ UNCHANGED <<rows, cells>>

\* It removes one file after the other, and may fail in between.
DeletesSomeFiles(s) ==
    /\ kind = "parquet"
    /\ \E left \in SUBSET files[s] :
          /\ files' = [files EXCEPT ![s] = left]
          /\ Acknowledges(s, UNION {f.logs : f \in left})
    /\ UNCHANGED <<rows, cells, writer>>

DeleteSourceData(s) ==
    \/ DeleteSQL(s) \/ DeleteMongoDB(s) \/ DeleteElasticsearch(s)
    \/ DeleteClickHouse(s) \/ DeleteFiles(s)
    \/ DeletesSomeDocuments(s) \/ DeletesSomeFiles(s)

-----------------------------------------------------------------------------
(* Reads: GetLogsAfter of all sources for an exporter ("after"); of one     *)
(* source GetLogs and GetTransactions ("list") and GetLatestLogs.  Their    *)
(* bounds are left out: they only leave out blocks.                         *)

\* The orders of a set of pairs that ascend by block and, where the query says
\* so, by index.
Orders(pairs, byIndex) ==
    {out \in SetToSeqs(pairs) : \A i, j \in DOMAIN out : i < j =>
        /\ Block[out[i][2]] <= Block[out[j][2]]
        /\ byIndex => out[i][2] <= out[j][2]}

\* Transactions and the latest logs come in descending order.
Descends == reader.op = "latest" \/ table = "transactions"

\* ClickHouse orders the reads of one source by block only, as all but
\* Elasticsearch do transactions; that sorts those of a block by id, for which
\* their numbers stand.
ByIndex ==
    \/ reader.op = "after" \/ kind = "elasticsearch"
    \/ kind # "clickhouse" /\ table = "logs"

Answers(pairs) ==
    LET all == {IF Descends THEN Reverse(out) ELSE out : out \in Orders(pairs, ByIndex)} IN
    IF reader.op = "latest"
    THEN {IF Len(out) > Limit THEN SubSeq(out, 1, Limit) ELSE out : out \in all}
    ELSE all

Starts(op, sources) ==
    /\ reader.pc = "idle" /\ created
    /\ reader' = [NotReading EXCEPT !.pc = "reading", !.op = op, !.todo = sources,
                      !.kept = {p \in VisiblePairs \ DoomedPairs : p[1] \in sources}]
    /\ UNCHANGED <<choice, store, cursor, writer, acked>>

\* An exporter reads all sources of its pipeline.
StartRead == table = "logs" /\ Starts("after", Source)

\* The handlers find the source, its pipeline and its store, open the store,
\* and read one source; an error of any of these is returned.
ListEvmLogs == table = "logs" /\ \E s \in Source : Starts("list", {s})
ListLatestEvmLogs == table = "logs" /\ \E s \in Source : Starts("latest", {s})
ListEvmTransactions == table = "transactions" /\ \E s \in Source : Starts("list", {s})

Wanted == {p \in VisiblePairs : p[1] \in reader.todo}

Reads(k, answers) ==
    /\ kind = k /\ reader.pc = "reading"
    /\ \E out \in answers : reader' = [reader EXCEPT !.out = out, !.pc = "done"]
    /\ UNCHANGED <<choice, store, cursor, writer, acked>>

\* Databases answer with one query.
ReadSQL == Reads("sql", Answers(Wanted))
ReadMongoDB == Reads("mongodb", Answers(Wanted))

\* FINAL keeps one row of each place among all partitions read, which one is
\* not said; a transaction may be at several places.
ReadClickHouse ==
    LET found == UNION {{<<s, c.log, c.at>> : c \in cells[s]} : s \in reader.todo}
        final == {F \in SUBSET found :
                    /\ \A p, q \in F : p[3] = q[3] => p = q
                    /\ \A p \in found : \E q \in F : p[3] = q[3]} IN
    Reads("clickhouse",
          {[i \in DOMAIN out |-> <<out[i][1], out[i][2]>>] : out \in UNION {Answers(F) : F \in final}})

\* Mutant: pages that skip as many documents as were returned so far.
RestAfterCount(pairs) == {p \in pairs : Cardinality({q \in pairs : q[2] < p[2]}) >= Len(reader.out)}

\* search_after: what sorts after the last document returned.
RestOf(pairs) ==
    {p \in pairs : \/ reader.out = <<>>
                   \/ IF Descends THEN p[2] < Last(reader.out)[2] ELSE p[2] > Last(reader.out)[2]}

\* One search of searchPaged; a page that is not full is the last.
ReadPage ==
    /\ kind = "elasticsearch" /\ reader.pc = "reading" /\ reader.op # "latest"
    /\ \E rest \in Answers(RestOf(Wanted)) :
          LET full == Len(rest) >= PageSize IN
          reader' = [reader EXCEPT !.out = @ \o (IF full THEN SubSeq(rest, 1, PageSize) ELSE rest),
                                   !.pc = IF full THEN "reading" ELSE "done"]
    /\ UNCHANGED <<choice, store, cursor, writer, acked>>

\* GetLatestLogs is one search.
SearchLatest == reader.op = "latest" /\ Reads("elasticsearch", Answers(Wanted))

\* parquetFiles lists the directory of the next source ...
ListFiles(s) ==
    /\ kind = "parquet" /\ reader.pc = "reading"
    /\ s \in reader.todo /\ reader.listed = {}
    /\ reader' = [reader EXCEPT !.todo = @ \ {s},
                                !.listed = {<<s, f.name>> : f \in files[s]}]
    /\ UNCHANGED <<choice, store, cursor, writer, acked>>

\* ... whose files are read one after the other, in the order of their names; a
\* row whose id was there is left out.  If the file is gone the read fails.
ReadFile ==
    /\ \E listed \in reader.listed :
          /\ \A other \in reader.listed :
                \/ listed[2][1] < other[2][1]
                \/ listed[2][1] = other[2][1] /\ listed[2][2] <= other[2][2]
          /\ LET s == listed[1]
                 contents == {f \in files[s] : f.name = listed[2]} IN
             reader' = IF contents = {} THEN NotReading
                       ELSE [reader EXCEPT !.listed = @ \ {listed},
                                           !.found = @ \cup ({s} \X UNION {f.logs : f \in contents})]
    /\ UNCHANGED <<choice, store, cursor, writer, acked>>

\* What was read is sorted.
SortFound == reader.todo = {} /\ reader.listed = {} /\ Reads("parquet", Answers(reader.found))

EndRead ==
    /\ reader.pc # "idle"
    /\ reader' = NotReading
    /\ UNCHANGED <<choice, store, cursor, writer, acked>>

-----------------------------------------------------------------------------

Disjoint(c) == \A s, t \in Source : s # t => c[s] \cap c[t] = {}

Init ==
    /\ kind \in Kind
    /\ table \in {"logs", "transactions"}
    /\ created = FALSE
    /\ covers \in {c \in Coverage : kind \in Keyed => Disjoint(c)}
    /\ rows = [l \in Log |-> Nobody]
    /\ cells = [s \in Source |-> {}]
    /\ files = [s \in Source |-> {}]
    /\ cursor = [s \in Source |-> 0]
    /\ writer = [s \in Source |-> Idle]
    /\ acked = {}
    /\ reader = NotReading

Works ==
    \/ LoadStore
    \/ \E s \in Source :
          \/ IndexWindow(s) \/ RenameFile(s) \/ AdvanceCursor(s) \/ WorkerDies(s)
          \/ Mutation(s) \/ DeleteSourceData(s)
    \/ StartRead \/ ListEvmLogs \/ ListLatestEvmLogs \/ ListEvmTransactions
    \/ ReadPage \/ SearchLatest \/ ReadSQL \/ ReadMongoDB \/ ReadClickHouse
    \/ ReadFile \/ SortFound \/ \E s \in Source : ListFiles(s)

\* The answer of a read is taken before anything else happens: nothing depends
\* on when it is.
Next == EndRead \/ (reader.pc # "done" /\ Works)

Spec == Init /\ [][Next]_vars

-----------------------------------------------------------------------------
(* What is promised *)

\* Whether the answer has a pair, or, collapsed by FINAL, its log.
Has(out, p) == \E i \in DOMAIN out : out[i] = p \/ (kind = "clickhouse" /\ out[i][2] = p[2])

\* What an answer must have in order: GetLogsAfter promises (block_number,
\* log_index); the others are ordered by block, the latest first in some.
InOrder(l, m) ==
    IF reader.op = "after" THEN l <= m
    ELSE IF Descends THEN Block[m] <= Block[l] ELSE Block[l] <= Block[m]

\* An answer is in order, has nothing twice, and has every log that was readable
\* from the beginning of the read to its end, whatever was inserted, replayed or
\* deleted between its pages or its files; the latest logs have those of the last
\* blocks.  ClickHouse may return a transaction twice (see the README).
ReadIsExact ==
    reader.pc = "done" =>
        LET out == reader.out IN
        /\ \A i, j \in DOMAIN out : i < j =>
              /\ InOrder(out[i][2], out[j][2])
              /\ out[i] # out[j] \/ (kind = "clickhouse" /\ table = "transactions")
        /\ \A p \in reader.kept :
              \/ Has(out, p)
              \/ reader.op = "latest" /\ Len(out) = Limit /\ InOrder(Last(out)[2], p[2])

\* Every store implements the contract of the interface, with replays in
\* windows of any size, inserts that fail in part, and workers that die; for
\* the stores keyed by id, when no two of its sources cover a log.
Contract == INSTANCE LogStorage WITH stored <- VisiblePairs, due <- DoomedPairs
ImplementsLogStorage == Contract!StorageSpec

=============================================================================
