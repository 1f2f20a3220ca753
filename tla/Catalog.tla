------------------------------ MODULE Catalog ------------------------------
(***************************************************************************)
(* The metadata that instances declare in their config files and users     *)
(* edit: chains, ABIs, stores, pipelines, sources and exporters.           *)
(*                                                                         *)
(* Every instance of a fleet runs autoloader.Load over the same database   *)
(* when it starts: each declared resource is looked up by its natural key  *)
(* and created when it is not there, its references resolved by name.      *)
(* Nothing makes the keys unique, no transaction joins the look-up and the *)
(* creation, and users of instances that are already up create, edit and   *)
(* delete rows in between.  ExportConfiguration turns the rows into a      *)
(* config file again.                                                      *)
(*                                                                         *)
(* The list handlers return the rows of a table in pages, in whatever      *)
(* order the database scans them.  A behaviour either starts from an empty *)
(* database and loads, or from a full one that a client lists page by page *)
(* while others edit it.                                                   *)
(*                                                                         *)
(* One resource of each kind is declared, under the name Declared; Other   *)
(* stands for every other name.  The plugin is there from the start        *)
(* (module Plugins); the children of factories are left to SourceTree.     *)
(***************************************************************************)
EXTENDS Naturals, FiniteSets, Sequences, SequencesExt

CONSTANTS
    Instance,   \* the instances of the fleet
    Nobody,     \* the owner of a row that belongs to no instance
    Declared, Other,
    LoadOrder,  \* the resources in the order of Load
    NamesChain, \* the kinds of source whose config names a chain
    MaxBoots,   \* bound: starts of all instances together
    MaxChanges, \* bound: database errors during loads and changes by users
    PageSize,   \* the limit a client lists with
    Rows,       \* how many rows the table has that is listed
    MaxEdits    \* bound: changes by users during a listing

ASSUME CatalogAssumption ==
    /\ Nobody \notin Instance /\ Declared # Other
    /\ NamesChain \subseteq {"source", "factory"}
    /\ MaxBoots \in Nat /\ MaxChanges \in Nat
    /\ PageSize \in Nat \ {0} /\ Rows \in Nat /\ MaxEdits \in Nat

VARIABLES
    tables,     \* tables[t]: the rows of table t, in the order of their ids
    load,       \* load[i]: how far the start of instance i is
    edit,       \* an update handler between its read and its save
    listing,    \* a table that is listed, if any, and what has been returned of it
    boots, faults, edits

catalogVars == <<tables, load, edit, listing, boots, faults, edits>>

Table == {"chain", "abi", "store", "pipeline", "source", "exporter"}
Resource == Table \cup {"factory"}
TableOf(k) == IF k = "factory" THEN "source" ELSE k
Name == {Declared, Other}

\* Tables that have list handlers as well, and whose rows installs and the
\* starts of instances save.
Listed == Table \cup {"plugin", "instance"}

\* A row, its references as ids, 0 for none; deletion is soft.
NoRefs == [t \in Table |-> 0]
NewRow(k) == [type |-> k, name |-> Declared, owner |-> Nobody, refs |-> NoRefs,
              ruled |-> FALSE, live |-> TRUE]

Refers == {<<"pipeline", "chain">>, <<"pipeline", "store">>, <<"source", "pipeline">>,
           <<"source", "chain">>, <<"source", "abi">>, <<"exporter", "pipeline">>}

LiveRows(t) == {id \in DOMAIN tables[t] : tables[t][id].live}

\* Load goes by dependency: what a resource refers to is declared before it.
ASSUME LoadOrderAssumption ==
    /\ LoadOrder \in Seq(Resource) \ {<<>>}
    /\ \A n \in DOMAIN LoadOrder, t \in Table :
          <<TableOf(LoadOrder[n]), t>> \in Refers => \E m \in 1 .. n - 1 : LoadOrder[m] = t

-----------------------------------------------------------------------------
(* Load: what the look-ups of each resource find *)

\* gorm's First: the row with the lowest id.
First(ids) == IF ids = {} THEN 0 ELSE CHOOSE m \in ids : \A n \in ids : m <= n

ByName(t) == {id \in LiveRows(t) : tables[t][id].name = Declared}

blockchainIDByName == First(ByName("chain"))
abiIDByName == First(ByName("abi"))
storeIDByIdentifier == First(ByName("store"))

Pipelines(i) == {id \in ByName("pipeline") : tables.pipeline[id].owner = i}
pipelineIDByName(i) == First(Pipelines(i))

Found(missing, existing, row) == [missing |-> missing, existing |-> existing, row |-> row]

ensureBlockchain == Found(FALSE, ByName("chain"), NewRow("chain"))
ensureAbi == Found(FALSE, ByName("abi"), NewRow("abi"))
ensureStore == Found(FALSE, ByName("store"), NewRow("store"))

\* The references of a pipeline are looked up only when it is not there.
ensurePipeline(i) ==
    Found(Pipelines(i) = {} /\ 0 \in {blockchainIDByName, storeIDByIdentifier},
          Pipelines(i),
          [NewRow("pipeline") EXCEPT
              !.owner = i,
              !.refs = [@ EXCEPT !["chain"] = blockchainIDByName, !["store"] = storeIDByIdentifier]])

\* Mutant: a key that does not say which pipeline the source is in.
AnyPipeline(k, p) == {id \in ByName("source") : tables.source[id].type = k}

\* Mutant: a key that takes in the ABI, which may have been created anew.
SameSourceAndAbi(k, p) ==
    {id \in AnyPipeline(k, p) : /\ tables.source[id].refs["pipeline"] = p
                                /\ tables.source[id].refs["abi"] = abiIDByName}

\* The natural key of a source within its pipeline.
SameSource(k, p) ==
    {id \in ByName("source") : /\ tables.source[id].type = k
                               /\ tables.source[id].refs["pipeline"] = p}

\* A source whose config names no chain takes its pipeline's.
ensureSource(i, k) ==
    LET p == pipelineIDByName(i)
        chain == IF k \in NamesChain THEN blockchainIDByName
                 ELSE IF p = 0 THEN 0 ELSE tables.pipeline[p].refs["chain"] IN
    Found(p = 0 \/ abiIDByName = 0 \/ (k \in NamesChain /\ chain = 0),
          SameSource(k, p),
          [NewRow(k) EXCEPT
              !.refs = [@ EXCEPT !["pipeline"] = p, !["chain"] = chain, !["abi"] = abiIDByName]])

ensureExporter(i) ==
    LET p == pipelineIDByName(i) IN
    Found(p = 0,
          {id \in ByName("exporter") : tables.exporter[id].refs["pipeline"] = p},
          [NewRow("exporter") EXCEPT !.refs = [@ EXCEPT !["pipeline"] = p]])

Ensure(i, k) ==
    CASE k = "chain" -> ensureBlockchain
      [] k = "abi" -> ensureAbi
      [] k = "store" -> ensureStore
      [] k = "pipeline" -> ensurePipeline(i)
      [] k \in {"source", "factory"} -> ensureSource(i, k)
      [] k = "exporter" -> ensureExporter(i)

-----------------------------------------------------------------------------
(* Load, step by step *)

Down == [pc |-> "down", pos |-> 1, row |-> NewRow("chain"), new |-> 0, kept |-> {}]

\* The process starts; "kept" are the rows that are there and stay as they
\* are while it loads.
Boot(i) ==
    /\ load[i].pc = "down" /\ boots < MaxBoots
    /\ load' = [load EXCEPT ![i] = [Down EXCEPT
                    !.pc = "look", !.kept = UNION {{t} \X LiveRows(t) : t \in Table}]]
    /\ boots' = boots + 1
    /\ UNCHANGED <<tables, edit, listing, faults, edits>>

\* The resource after this one; the gRPC server starts after the last.
AtNext(l) ==
    IF l.pos = Len(LoadOrder) THEN [Down EXCEPT !.pc = "done"]
    ELSE [Down EXCEPT !.pc = "look", !.pos = l.pos + 1, !.kept = l.kept]

\* The reads of one resource: a missing reference is an error, logged; a row
\* that exists is left as it is.
EnsureReads(i) ==
    /\ load[i].pc = "look"
    /\ LET e == Ensure(i, LoadOrder[load[i].pos]) IN
       load' = [load EXCEPT ![i] =
                    IF e.missing \/ e.existing # {} THEN AtNext(@)
                    ELSE [@ EXCEPT !.pc = "create", !.row = e.row]]
    /\ UNCHANGED <<tables, edit, listing, boots, faults, edits>>

EnsureCreates(i) ==
    /\ load[i].pc = "create"
    /\ LET t == TableOf(load[i].row.type) IN
       /\ tables' = [tables EXCEPT ![t] = Append(@, load[i].row)]
       /\ load' = [load EXCEPT ![i] = IF @.row.type = "factory"
                                      THEN [@ EXCEPT !.pc = "rules", !.new = Len(tables[t]) + 1]
                                      ELSE AtNext(@)]
    /\ UNCHANGED <<edit, listing, boots, faults, edits>>

\* createFactoryRules: the rules of the source just created; each names an
\* ABI again.
createFactoryRules(i) ==
    /\ load[i].pc = "rules"
    /\ load' = [load EXCEPT ![i] = AtNext(@)]
    /\ tables' = IF abiIDByName = 0 THEN tables
                 ELSE [tables EXCEPT !["source"][load[i].new].ruled = TRUE]
    /\ UNCHANGED <<edit, listing, boots, faults, edits>>

\* The database refuses a call: Load logs it and goes on.
EnsureFails(i) ==
    /\ load[i].pc \in {"look", "create", "rules"} /\ faults + edits < MaxChanges
    /\ load' = [load EXCEPT ![i] = AtNext(@)]
    /\ faults' = faults + 1
    /\ UNCHANGED <<tables, edit, listing, boots, edits>>

Dies(i) ==
    /\ load[i].pc # "down"
    /\ load' = [load EXCEPT ![i] = Down]
    /\ UNCHANGED <<tables, edit, listing, boots, faults, edits>>

-----------------------------------------------------------------------------
(* Users, through the gRPC server of an instance that is up *)

Listing == listing.table # "none"

\* Of a table that is listed; changes of others do not bear on the listing.
Served(t) ==
    /\ \E i \in Instance : load[i].pc = "done"
    /\ IF Listing THEN edits < MaxEdits /\ listing.table = t /\ ~listing.over
       ELSE faults + edits < MaxChanges

Edited(t, ids) ==
    load' = [i \in Instance |-> [load[i] EXCEPT !.kept = @ \ ({t} \X ids)]]

\* The scan without a row.
Without(order, id) ==
    IF id \in ToSet(order) THEN RemoveAt(order, CHOOSE n \in DOMAIN order : order[n] = id) ELSE order

\* The places of a row in a scan: SQLite and MySQL go by the primary key;
\* PostgreSQL writes a row anew where there is room.
Places(others, id) ==
    {n \in 1 .. Len(others) + 1 : listing.heap \/ \A m \in DOMAIN others : m < n <=> others[m] < id}

\* How a table may be scanned once a row is written.
Scanned(id) ==
    LET others == Without(listing.order, id) IN {InsertAt(others, n, id) : n \in Places(others, id)}

\* A row is written while its table is listed; it stays in its place, joins
\* the end, or shifts others.
Written(t, id) ==
    IF listing.table # t THEN UNCHANGED listing
    ELSE \E order \in Scanned(id) :
            LET stays == order = listing.order
                joins == order = Append(listing.order, id) IN
            listing' = [listing EXCEPT !.order = order, !.shifts = IF stays \/ joins THEN @ ELSE @ + 1]

Create(t, row) ==
    /\ Served(t)
    /\ tables' = [tables EXCEPT ![t] = Append(@, row)]
    /\ Written(t, Len(tables[t]) + 1)
    /\ edits' = edits + 1
    /\ UNCHANGED <<load, edit, boots, faults>>

\* The TODO of every handler: dependent rows are not looked for.
Delete(t) ==
    /\ Served(t)
    /\ \E id \in LiveRows(t) :
          /\ tables' = [tables EXCEPT ![t][id].live = FALSE]
          /\ listing' = IF listing.table = t
                        THEN [listing EXCEPT !.order = Without(@, id), !.kept = @ \ {id},
                                             !.shifts = @ + 1]
                        ELSE listing
          /\ Edited(t, {id})
    /\ edits' = edits + 1
    /\ UNCHANGED <<edit, boots, faults>>

NoEdit == [table |-> "chain", id |-> 0, row |-> NewRow("chain")]

Update(t, rowsFor(_)) ==
    /\ Served(t) /\ edit.id = 0
    /\ \E id \in LiveRows(t) : \E row \in rowsFor(tables[t][id]) :
          edit' = [table |-> t, id |-> id, row |-> row]
    /\ edits' = edits + 1
    /\ UNCHANGED <<tables, load, listing, boots, faults>>

Renamed(row) == {[row EXCEPT !.name = n] : n \in Name}

\* Save writes the whole row, which also brings back one deleted meanwhile.
UpdateSaves ==
    /\ edit.id # 0
    /\ tables' = [tables EXCEPT ![edit.table][edit.id] = edit.row]
    /\ Written(edit.table, edit.id)
    /\ Edited(edit.table, {edit.id})
    /\ edit' = NoEdit
    /\ UNCHANGED <<boots, faults, edits>>

CreateEvmBlockchain == \E n \in Name : Create("chain", [NewRow("chain") EXCEPT !.name = n])
DeleteEvmBlockchain == Delete("chain")
UpdateEvmBlockchain == Update("chain", Renamed)

CreateEvmJsonAbi == \E n \in Name : Create("abi", [NewRow("abi") EXCEPT !.name = n])
DeleteEvmJsonAbi == Delete("abi")
UpdateEvmJsonAbi == Update("abi", Renamed)

CreateEvmLogStore == \E n \in Name : Create("store", [NewRow("store") EXCEPT !.name = n])
DeleteEvmLogStore == Delete("store")
UpdateEvmLogStore == Update("store", Renamed)

\* A pipeline of an instance, with its store.
MovedTo(row, i, s) == [row EXCEPT !.owner = i, !.refs = [@ EXCEPT !["store"] = s]]

\* The handler leaves the chain of the pipeline unset.
CreateEvmLogPipeline ==
    \E n \in Name, i \in Instance, s \in DOMAIN tables.store :
        Create("pipeline", MovedTo([NewRow("pipeline") EXCEPT !.name = n], i, s))

DeleteEvmLogPipeline == Delete("pipeline")

Moved(row) ==
    {MovedTo(r, i, s) : r \in Renamed(row), i \in Instance, s \in DOMAIN tables.store}

\* It may move the pipeline to another instance and another store.
UpdateEvmLogPipeline == Update("pipeline", Moved)

\* Workers, runners, installs and starts save the other rows.
RowSaved ==
    /\ Served(listing.table) /\ listing.table \in Listed \ {"chain", "abi", "store", "pipeline"}
    /\ \E id \in LiveRows(listing.table) : Written(listing.table, id)
    /\ edits' = edits + 1
    /\ UNCHANGED <<tables, load, edit, boots, faults>>

-----------------------------------------------------------------------------
(* The list handlers: one page, without an order.  The client asks again    *)
(* with the number of rows it has as the offset until a page is not full.   *)

NotListing == [table |-> "none", heap |-> FALSE, limit |-> 0, order |-> <<>>, out |-> <<>>,
               kept |-> {}, shifts |-> 0, over |-> TRUE]

\* Mutant: the offset counted from one.
PageFromOne(rows, offset) == SubSeq(rows, offset + 2, Len(rows))

\* The rows after the offset.
PageAt(rows, offset) == SubSeq(rows, offset + 1, Len(rows))

\* Without a limit all rows are returned.
List(t) ==
    /\ listing.table = t /\ ~listing.over
    /\ \E i \in Instance : load[i].pc = "done"
    /\ LET rest == PageAt(listing.order, Len(listing.out))
           cut == listing.limit # 0 /\ Len(rest) >= listing.limit IN
       listing' = [listing EXCEPT !.out = @ \o (IF cut THEN SubSeq(rest, 1, listing.limit) ELSE rest),
                                  !.over = ~cut]
    /\ UNCHANGED <<tables, load, edit, boots, faults, edits>>

ListEvmBlockchains == List("chain")
ListEvmJsonAbis == List("abi")
ListEvmLogStores == List("store")
ListEvmLogPipelines == List("pipeline")
ListEvmLogSources == List("source")
ListEvmiExporters == List("exporter")
ListPlugins == List("plugin")
ListEvmiInstances == List("instance")

-----------------------------------------------------------------------------

CatalogInit ==
    /\ edit = NoEdit /\ faults = 0 /\ edits = 0
    /\ \/ /\ tables = [t \in Listed |-> <<>>]
          /\ load = [i \in Instance |-> Down]
          /\ listing = NotListing /\ boots = 0
       \/ \E t \in Listed, up \in Instance, heap \in BOOLEAN, limit \in {0, PageSize} :
             /\ tables = [u \in Listed |-> [n \in 1 .. IF u = t THEN Rows ELSE IF u = "store" THEN 1 ELSE 0
                                                |-> NewRow(u)]]
             /\ load = [i \in Instance |-> [Down EXCEPT !.pc = IF i = up THEN "done" ELSE "down"]]
             /\ listing = [NotListing EXCEPT !.table = t, !.heap = heap, !.limit = limit,
                               !.order = [n \in 1 .. Rows |-> n], !.kept = 1 .. Rows, !.over = FALSE]
             /\ boots = MaxBoots

Users ==
    \/ CreateEvmBlockchain \/ DeleteEvmBlockchain \/ UpdateEvmBlockchain
    \/ CreateEvmJsonAbi \/ DeleteEvmJsonAbi \/ UpdateEvmJsonAbi
    \/ CreateEvmLogStore \/ DeleteEvmLogStore \/ UpdateEvmLogStore
    \/ CreateEvmLogPipeline \/ DeleteEvmLogPipeline \/ UpdateEvmLogPipeline
    \/ UpdateSaves \/ RowSaved
    \/ ListEvmBlockchains \/ ListEvmJsonAbis \/ ListEvmLogStores \/ ListEvmLogPipelines
    \/ ListEvmLogSources \/ ListEvmiExporters \/ ListPlugins \/ ListEvmiInstances

CatalogNext ==
    \/ \E i \in Instance :
          \/ Boot(i) \/ EnsureReads(i) \/ EnsureCreates(i) \/ createFactoryRules(i)
          \/ EnsureFails(i) \/ Dies(i)
    \/ Users

CatalogSpec == CatalogInit /\ [][CatalogNext]_catalogVars

-----------------------------------------------------------------------------
(* ExportConfiguration *)

NameOf(t, id) == IF id \in LiveRows(t) THEN tables[t][id].name ELSE "none"

\* What an exported resource says: references by name, "none" for a row that
\* is not there, and nothing of the instance.
Exported(t, id) ==
    LET row == tables[t][id] IN
    [type |-> row.type, name |-> row.name, ruled |-> row.ruled,
     refs |-> [u \in Table |-> NameOf(u, row.refs[u])]]

ExportConfiguration == UNION {{Exported(t, id) : id \in LiveRows(t)} : t \in Table}

\* The config file that Load is given.
Config ==
    {[type |-> LoadOrder[n], name |-> Declared, ruled |-> LoadOrder[n] = "factory",
      refs |-> [u \in Table |-> IF <<TableOf(LoadOrder[n]), u>> \in Refers THEN Declared ELSE "none"]] :
     n \in DOMAIN LoadOrder}

-----------------------------------------------------------------------------
(* What is promised *)

InPipeline(i, t, id) ==
    CASE t = "pipeline" -> tables[t][id].owner = i
      [] t \in {"source", "exporter"} -> tables.pipeline[tables[t][id].refs["pipeline"]].owner = i
      [] OTHER -> TRUE

\* Whatever loads of other instances, crashes and restarts it is interleaved
\* with: when nobody has edited anything and the database has refused nothing,
\* an instance that is up finds the whole of its config in the export of what
\* is its own.  Rules are left out of account: a factory whose load was cut
\* off keeps none (see the README).
LoadedComplete ==
    \A i \in Instance :
        load[i].pc = "done" /\ edits = 0 /\ faults = 0 /\ ~Listing =>
            \A c \in Config : \E t \in Table : \E id \in LiveRows(t) :
                InPipeline(i, t, id) /\ [Exported(t, id) EXCEPT !.ruled = c.ruled] = c

Key(row) == <<row.type, row.name, row.owner, row.refs["pipeline"]>>

\* Load is idempotent: it creates no row with the natural key of one that was
\* there when it began and that nobody has edited since.
LoadIsIdempotent ==
    [][\A i \in Instance :
          load[i].pc = "create" /\ load'[i] # load[i] /\ tables' # tables =>
              \A k \in load[i].kept : Key(tables[k[1]][k[2]]) # Key(load[i].row)]_catalogVars

\* A client that lists a table in pages has each row that was there all the
\* time, once; every row that is deleted, brought back or written to another
\* place meanwhile costs it at most one that it misses and one that it gets
\* again.
ListMissesFew ==
    Listing /\ listing.over =>
        LET seen == ToSet(listing.out) IN
        /\ Cardinality(listing.kept \ seen) <= listing.shifts
        /\ Len(listing.out) - Cardinality(seen) <= listing.shifts

=============================================================================
