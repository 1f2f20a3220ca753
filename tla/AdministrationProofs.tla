------------------------- MODULE AdministrationProofs -------------------------
(***************************************************************************)
(* Proofs about what administrators and config files bring about: the      *)
(* metadata (Catalog) and the workers of a source (SourceManager).         *)
(*                                                                         *)
(* Catalog, for any fleet, config and bounds.  A load creates only what it *)
(* did not find, and what it found when it began is as it was until        *)
(* somebody edits it: hence it is idempotent.  While nobody edits, tables  *)
(* only grow, every row has all its references, and what a load has been   *)
(* through is there: hence it is complete.  A client that lists a table    *)
(* has read the front of the scan, but for as many rows as were moved.     *)
(*                                                                         *)
(* SourceManager, for any number of callers and workers.  Every worker     *)
(* that runs is accounted for in one of three places: the maps, the token  *)
(* of a DisableSource on its way to RemoveAndWait, or the workers already  *)
(* cancelled.  The invariant adds that the first place is disjoint from    *)
(* the other two, and that all three hold workers that have been made, so  *)
(* that a new one never starts out cancelled.                              *)
(***************************************************************************)
EXTENDS Catalog, SourceManager, FiniteSetTheorems, SequenceTheorems, WellFoundedInduction, TLAPS

-----------------------------------------------------------------------------
(* Catalog: the invariants.                                                *)

\* A row of a table, its references as ids.
Row == [type : Listed \cup Resource, name : Name, owner : Instance \cup {Nobody},
        refs : [Table -> Nat], ruled : BOOLEAN, live : BOOLEAN]

Loading == [pc : {"down", "look", "create", "rules", "done"}, pos : DOMAIN LoadOrder, row : Row,
            new : Nat, kept : SUBSET (Table \X Nat)]

Edit == [table : Listed, id : Nat, row : Row]

ListState == [table : Listed \cup {"none"}, heap : BOOLEAN, limit : {0, PageSize}, order : Seq(Nat),
              out : Seq(Nat), kept : SUBSET Nat, shifts : Nat, over : BOOLEAN]

\* Every row is of the kind its table is for.
TablesInv ==
    /\ tables \in [Listed -> Seq(Row)]
    /\ \A t \in Listed : \A id \in DOMAIN tables[t] : TableOf(tables[t][id].type) = t

\* Loads and edits save live rows, edits to where they read them.
CatalogTypeInv ==
    /\ TablesInv
    /\ load \in [Instance -> Loading]
    /\ \A i \in Instance : /\ load[i].pc = "create" => load[i].row.type \in Resource
                           /\ load[i].pc = "rules" => load[i].new \in DOMAIN tables["source"]
    /\ edit \in Edit
    /\ edit.id # 0 => /\ edit.id \in DOMAIN tables[edit.table] /\ edit.row.live
                      /\ TableOf(edit.row.type) = edit.table
    /\ listing \in ListState
    /\ boots \in Nat /\ faults \in Nat /\ edits \in Nat

\* What a load keeps is as live as when the load began, and nothing of it has
\* the key of the row that is about to be created.
KeptInv ==
    \A i \in Instance : \A k \in load[i].kept :
        /\ k[2] \in LiveRows(k[1])
        /\ load[i].pc = "create" => Key(tables[k[1]][k[2]]) # Key(load[i].row)

\* The row has all references that a row of its table needs, in these tables.
Complete(tabs, row) ==
    /\ row.live /\ row.name = Declared
    /\ \A u \in Table : IF <<TableOf(row.type), u>> \in Refers THEN row.refs[u] \in DOMAIN tabs[u]
                        ELSE row.refs[u] = 0

AllComplete(tabs) == \A t \in Table : \A id \in DOMAIN tabs[t] : Complete(tabs, tabs[t][id])

\* The row is the instance's, or of the kinds that have no owner.
Owns(tabs, i, row) ==
    /\ row.type = "pipeline" => row.owner = i
    /\ row.type \in {"source", "factory", "exporter"} => tabs["pipeline"][row.refs["pipeline"]].owner = i

Has(tabs, i, k) == \E id \in DOMAIN tabs[TableOf(k)] : /\ tabs[TableOf(k)][id].type = k
                                                       /\ Owns(tabs, i, tabs[TableOf(k)][id])

\* Load is through with the nth resource.
Through(l, n) ==
    \/ l.pc \in {"look", "create"} /\ n < l.pos
    \/ l.pc = "rules" /\ n <= l.pos
    \/ l.pc = "done"

Undisturbed == edits = 0 /\ faults = 0 /\ ~Listing

\* What an instance is about to create is complete, what it is through with is there.
LoadedAt(i) ==
    /\ load[i].pc = "create" => /\ load[i].row.type = LoadOrder[load[i].pos]
                                /\ Complete(tables, load[i].row) /\ Owns(tables, i, load[i].row)
    /\ load[i].pc = "rules" => load[i].row.type = LoadOrder[load[i].pos]
    /\ \A n \in DOMAIN LoadOrder : Through(load[i], n) => Has(tables, i, LoadOrder[n])

\* As long as nobody disturbs the loads, every row is complete, and what an
\* instance is through with is there and its own.
LoadedInv ==
    /\ edits = 0 => edit.id = 0
    /\ Undisturbed => AllComplete(tables) /\ \A i \in Instance : LoadedAt(i)

\* The rows in the first n places of a scan.
Upto(order, n) == {order[m] : m \in {k \in DOMAIN order : k <= n}}

\* The rows that the client has, and would get again if it began anew.
Again == ToSet(listing.out) \cap Upto(listing.order, Len(listing.out))

\* A shift costs the client at most one row that is again in front.
ScanInv ==
    /\ \A m, n \in DOMAIN listing.order : listing.order[m] = listing.order[n] => m = n
    /\ listing.kept \subseteq ToSet(listing.order)
    /\ ~listing.over => Len(listing.out) <= listing.shifts + Cardinality(Again)
    /\ ListMissesFew

-----------------------------------------------------------------------------
(* Tables.                                                                 *)

\* The smallest of a set of ids, which First finds, or none.
LEMMA FirstId ==
    ASSUME NEW ids \in SUBSET (Nat \ {0})
    PROVE  (ids = {} => First(ids) = 0) /\ (ids # {} => First(ids) \in ids) /\ First(ids) \in Nat
<1>1. ASSUME ids # {} PROVE \E m \in ids : \A n \in ids : m <= n
  <2>1. ids \in SUBSET Nat
    OBVIOUS
  <2>2. PICK m \in ids : \A n \in ids : ~ (<<n, m>> \in OpToRel(<, Nat))
    BY <1>1, <2>1, NatLessThanWellFounded, WFMin, Zenon
  <2>3. \A n \in ids : ~ (n < m)
    BY <2>1, <2>2 DEF OpToRel
  <2> QED
    BY <2>1, <2>3
<1> QED
  BY <1>1 DEF First

\* What each kind of row is stored in.
LEMMA Tables ==
    /\ Table \subseteq Listed /\ Table \subseteq Resource /\ Listed \subseteq Listed \cup Resource
    /\ \A k \in Resource : TableOf(k) \in Table
    /\ \A t \in Listed : TableOf(t) = t
    /\ \A k \in Listed \cup Resource : TableOf(k) = "source" <=> k \in {"source", "factory"}
    /\ \A k \in Listed \cup Resource, t \in Listed \ {"source"} : TableOf(k) = t => k = t
BY DEF Table, Resource, Listed, TableOf

\* What a new row says.
LEMMA NewRowType ==
    ASSUME NEW k \in Listed \cup Resource
    PROVE  /\ NewRow(k) \in Row
           /\ NewRow(k).type = k /\ NewRow(k).live /\ NewRow(k).name = Declared
           /\ NewRow(k).owner = Nobody /\ NewRow(k).refs = NoRefs
BY DEF NewRow, Row, NoRefs, Name

Appends(t, row) == tables' = [tables EXCEPT ![t] = Append(@, row)]

Rewrites(t, id, row) == tables' = [tables EXCEPT ![t] = [@ EXCEPT ![id] = row]]

\* A row is appended to its table; the others stay where they are.
LEMMA Appended ==
    ASSUME TablesInv, NEW t \in Listed, NEW row \in Row, TableOf(row.type) = t,
           Appends(t, row)
    PROVE  /\ TablesInv'
           /\ \A u \in Listed : \A id \in DOMAIN tables[u] :
                 id \in DOMAIN tables'[u] /\ tables'[u][id] = tables[u][id]
           /\ Len(tables[t]) + 1 \in DOMAIN tables'[t] /\ tables'[t][Len(tables[t]) + 1] = row
           /\ \A u \in Listed : \A id \in DOMAIN tables'[u] :
                 id \in DOMAIN tables[u] \/ (u = t /\ id = Len(tables[t]) + 1)
<1> DEFINE rows == tables[t]
<1> USE DEF Appends
<1>1. rows \in Seq(Row) /\ DOMAIN tables = Listed
  BY DEF TablesInv
<1>2. /\ Append(rows, row) \in Seq(Row) /\ Len(rows) \in Nat
      /\ DOMAIN rows = 1 .. Len(rows) /\ DOMAIN Append(rows, row) = 1 .. Len(rows) + 1
      /\ \A id \in 1 .. Len(rows) : Append(rows, row)[id] = rows[id]
      /\ Append(rows, row)[Len(rows) + 1] = row
  BY <1>1
<1>3. \A u \in Listed : tables'[u] = IF u = t THEN Append(rows, row) ELSE tables[u]
  BY <1>1 DEF Appends
<1>4. tables' \in [Listed -> Seq(Row)]
  BY <1>1, <1>2 DEF TablesInv
<1>5. \A u \in Listed : \A id \in DOMAIN tables'[u] :
          id \in DOMAIN tables[u] \/ (u = t /\ id = Len(tables[t]) + 1)
  BY <1>1, <1>2, <1>3
<1>6. \A u \in Listed : \A id \in DOMAIN tables[u] :
          id \in DOMAIN tables'[u] /\ tables'[u][id] = tables[u][id]
  BY <1>1, <1>2, <1>3
<1>7. \A u \in Listed : \A id \in DOMAIN tables'[u] : TableOf(tables'[u][id].type) = u
  BY <1>1, <1>2, <1>3, <1>4, <1>5, <1>6 DEF TablesInv
<1> QED
  BY <1>2, <1>3, <1>4, <1>5, <1>6, <1>7 DEF TablesInv

\* A row is written in its place.
LEMMA Replaced ==
    ASSUME TablesInv, NEW t \in Listed, NEW id \in DOMAIN tables[t], NEW row \in Row,
           TableOf(row.type) = t,
           Rewrites(t, id, row)
    PROVE  /\ TablesInv'
           /\ \A u \in Listed : DOMAIN tables'[u] = DOMAIN tables[u]
           /\ tables'[t][id] = row
           /\ \A u \in Listed : \A n \in DOMAIN tables[u] :
                 u # t \/ n # id => tables'[u][n] = tables[u][n]
<1> DEFINE rows == tables[t]
           new == [rows EXCEPT ![id] = row]
<1>1. rows \in Seq(Row) /\ DOMAIN tables = Listed
  BY DEF TablesInv
<1>2. /\ new \in Seq(Row) /\ DOMAIN new = DOMAIN rows
      /\ \A n \in DOMAIN rows : new[n] = IF n = id THEN row ELSE rows[n]
  BY <1>1, ExceptSeq
<1>3. \A u \in Listed : tables'[u] = IF u = t THEN new ELSE tables[u]
  BY <1>1 DEF Rewrites
<1>4. tables' \in [Listed -> Seq(Row)]
  BY <1>1, <1>2 DEF TablesInv, Rewrites
<1>5. \A u \in Listed : \A n \in DOMAIN tables[u] :
          tables'[u][n] = IF u = t /\ n = id THEN row ELSE tables[u][n]
  BY <1>2, <1>3
<1>6. \A u \in Listed : DOMAIN tables'[u] = DOMAIN tables[u]
  BY <1>2, <1>3
<1>7. \A u \in Listed : \A n \in DOMAIN tables'[u] : TableOf(tables'[u][n].type) = u
  BY <1>5, <1>6 DEF TablesInv
<1> QED
  BY <1>4, <1>5, <1>6, <1>7 DEF TablesInv

\* The look-ups of Load find rows by their name.
LEMMA LookUps ==
    ASSUME TablesInv
    PROVE  /\ \A t \in Listed : ByName(t) \in SUBSET (Nat \ {0}) /\ ByName(t) \subseteq DOMAIN tables[t]
           /\ blockchainIDByName \in Nat /\ abiIDByName \in Nat /\ storeIDByIdentifier \in Nat
           /\ \A i \in Instance : /\ pipelineIDByName(i) \in Nat
                                  /\ Pipelines(i) \in SUBSET (Nat \ {0})
                                  /\ Pipelines(i) \subseteq DOMAIN tables["pipeline"]
<1>1. \A t \in Listed : ByName(t) \in SUBSET (Nat \ {0}) /\ ByName(t) \subseteq DOMAIN tables[t]
  <2> SUFFICES ASSUME NEW t \in Listed
               PROVE  ByName(t) \in SUBSET (Nat \ {0}) /\ ByName(t) \subseteq DOMAIN tables[t]
    OBVIOUS
  <2>1. tables[t] \in Seq(Row)
    BY DEF TablesInv
  <2>2. DOMAIN tables[t] \in SUBSET (Nat \ {0})
    BY <2>1
  <2> QED
    BY <2>2 DEF ByName, LiveRows
<1>2. {"chain", "abi", "store", "pipeline"} \subseteq Listed
  BY DEF Listed, Table
<1>3. \A i \in Instance : Pipelines(i) \subseteq ByName("pipeline")
  BY DEF Pipelines
<1>4. \A i \in Instance : /\ Pipelines(i) \in SUBSET (Nat \ {0})
                          /\ Pipelines(i) \subseteq DOMAIN tables["pipeline"]
  BY <1>1, <1>2, <1>3
<1> QED
  BY <1>1, <1>2, <1>4, FirstId
  DEF blockchainIDByName, abiIDByName, storeIDByIdentifier, pipelineIDByName

\* Every look-up of Load ends in a live row that has the name of the config.
LEMMA EnsureRow ==
    ASSUME TablesInv, NEW i \in Instance, NEW k \in Resource
    PROVE  /\ Ensure(i, k).row \in Row
           /\ Ensure(i, k).row.type = k /\ Ensure(i, k).row.live /\ Ensure(i, k).row.name = Declared
<1> DEFINE Fits(row) == row \in Row /\ row.type = k /\ row.live /\ row.name = Declared
<1>1. Fits(NewRow(k)) /\ NewRow(k).refs = NoRefs
  BY NewRowType DEF Name
<1>2. NoRefs \in [Table -> Nat]
  BY DEF NoRefs
<1>3. /\ blockchainIDByName \in Nat /\ abiIDByName \in Nat /\ storeIDByIdentifier \in Nat
      /\ pipelineIDByName(i) \in Nat
  BY LookUps
<1>4. ASSUME NEW refs \in [Table -> Nat], NEW owner \in Instance \cup {Nobody}
      PROVE  Fits([NewRow(k) EXCEPT !.refs = refs]) /\ Fits([NewRow(k) EXCEPT !.owner = owner, !.refs = refs])
  BY <1>1 DEF Row
<1>5. CASE k \in {"chain", "abi", "store"}
  BY <1>1, <1>5 DEF Ensure, ensureBlockchain, ensureAbi, ensureStore, Found
<1>6. CASE k = "pipeline"
  <2> DEFINE refs == [NoRefs EXCEPT !["chain"] = blockchainIDByName, !["store"] = storeIDByIdentifier]
  <2>1. refs \in [Table -> Nat]
    BY <1>2, <1>3
  <2>2. Ensure(i, k).row = [NewRow(k) EXCEPT !.owner = i, !.refs = refs]
    BY <1>1, <1>6 DEF Ensure, ensurePipeline, Found, NewRow
  <2> HIDE DEF refs
  <2>3. Fits([NewRow(k) EXCEPT !.owner = i, !.refs = refs])
    BY <1>4, <2>1
  <2> QED
    BY <2>2, <2>3
<1>7. CASE k \in {"source", "factory"}
  <2> DEFINE p == pipelineIDByName(i)
             chain == IF k \in NamesChain THEN blockchainIDByName
                      ELSE IF p = 0 THEN 0 ELSE tables["pipeline"][p].refs["chain"]
             refs == [NoRefs EXCEPT !["pipeline"] = p, !["chain"] = chain, !["abi"] = abiIDByName]
  <2>1. chain \in Nat
    <3>1. CASE p # 0
      <4>1. p \in DOMAIN tables["pipeline"]
        BY <3>1, LookUps, FirstId DEF pipelineIDByName
      <4>2. tables["pipeline"] \in Seq(Row)
        BY Tables DEF TablesInv, Table, Listed
      <4>3. tables["pipeline"][p] \in Row
        BY <4>1, <4>2
      <4>4. tables["pipeline"][p].refs["chain"] \in Nat
        BY <4>3 DEF Row, Table
      <4> QED
        BY <1>3, <4>4
    <3> QED
      BY <1>3, <3>1
  <2>2. refs \in [Table -> Nat]
    BY <1>2, <1>3, <2>1
  <2>3. Ensure(i, k).row = [NewRow(k) EXCEPT !.refs = refs]
    BY <1>1, <1>7 DEF Ensure, ensureSource, Found, NewRow
  <2> QED
    BY <1>4, <2>2, <2>3
<1>8. CASE k = "exporter"
  <2>1. [NoRefs EXCEPT !["pipeline"] = pipelineIDByName(i)] \in [Table -> Nat]
    BY <1>2, <1>3
  <2>2. Ensure(i, k).row = [NewRow(k) EXCEPT !.refs = [NoRefs EXCEPT !["pipeline"] = pipelineIDByName(i)]]
    BY <1>1, <1>8 DEF Ensure, ensureExporter, Found, NewRow
  <2> QED
    BY <1>4, <2>1, <2>2
<1> QED
  BY <1>5, <1>6, <1>7, <1>8 DEF Resource, Table

\* Load goes on to the next resource, or ends.
LEMMA AtNextType ==
    ASSUME LoadOrderAssumption, NEW l \in Loading, l.pc # "down"
    PROVE  /\ AtNext(l) \in Loading /\ AtNext(l).pc \in {"look", "done"}
           /\ AtNext(l).kept \subseteq l.kept
           /\ AtNext(l).pc = "look" => AtNext(l).pos = l.pos + 1 /\ l.pos # Len(LoadOrder)
           /\ AtNext(l).pc = "done" => l.pos = Len(LoadOrder)
<1>1. LoadOrder \in Seq(Resource) /\ LoadOrder # <<>>
  BY DEF LoadOrderAssumption
<1>2. Len(LoadOrder) \in Nat /\ Len(LoadOrder) > 0 /\ DOMAIN LoadOrder = 1 .. Len(LoadOrder)
  BY <1>1
<1>3. Down \in Loading /\ Down.kept = {}
  BY <1>2, Tables, NewRowType DEF Down, Loading, Table
<1>4. CASE l.pos = Len(LoadOrder)
  <2>1. AtNext(l) = [Down EXCEPT !.pc = "done"]
    BY <1>4 DEF AtNext
  <2> QED
    BY <1>3, <1>4, <2>1 DEF Loading
<1>5. CASE l.pos # Len(LoadOrder)
  <2>1. AtNext(l) = [Down EXCEPT !.pc = "look", !.pos = l.pos + 1, !.kept = l.kept]
    BY <1>5 DEF AtNext
  <2>2. l.pos + 1 \in DOMAIN LoadOrder /\ l.kept \subseteq Table \X Nat
    BY <1>2, <1>5 DEF Loading
  <2> QED
    BY <1>3, <1>5, <2>1, <2>2 DEF Loading
<1> QED
  BY <1>4, <1>5

-----------------------------------------------------------------------------
(* Types.                                                                  *)

\* An empty database and a full one hold rows of the right kinds.
LEMMA CatalogTypesInitially == ASSUME CatalogAssumption, LoadOrderAssumption, CatalogInit PROVE CatalogTypeInv
<1>1. LoadOrder \in Seq(Resource) /\ LoadOrder # <<>>
  BY DEF LoadOrderAssumption
<1>2. 1 \in DOMAIN LoadOrder
  BY <1>1
<1>3. Down \in Loading /\ Down.pc = "down"
  BY <1>2, Tables, NewRowType DEF Down, Loading, Table
<1>4. edit \in Edit /\ edit.id = 0
  BY Tables, NewRowType DEF CatalogInit, NoEdit, Edit, Table
<1>5. faults \in Nat /\ edits \in Nat
  BY DEF CatalogInit
<1>6. CASE /\ tables = [t \in Listed |-> <<>>]
           /\ load = [i \in Instance |-> Down]
           /\ listing = NotListing /\ boots = 0
  <2>1. TablesInv
    BY <1>6 DEF TablesInv
  <2>2. listing \in ListState
    BY <1>6 DEF NotListing, ListState
  <2> QED
    BY <1>3, <1>4, <1>5, <1>6, <2>1, <2>2 DEF CatalogTypeInv
<1>7. CASE \E t \in Listed, first \in Instance, heap \in BOOLEAN, limit \in {0, PageSize} :
             /\ tables = [u \in Listed |-> [n \in 1 .. IF u = t THEN Rows ELSE IF u = "store" THEN 1 ELSE 0
                                                |-> NewRow(u)]]
             /\ load = [i \in Instance |-> [Down EXCEPT !.pc = IF i = first THEN "done" ELSE "down"]]
             /\ listing = [NotListing EXCEPT !.table = t, !.heap = heap, !.limit = limit,
                               !.order = [n \in 1 .. Rows |-> n], !.kept = 1 .. Rows, !.over = FALSE]
             /\ boots = MaxBoots
  <2>0. PICK t \in Listed, first \in Instance, heap \in BOOLEAN, limit \in {0, PageSize} :
             /\ tables = [u \in Listed |-> [n \in 1 .. IF u = t THEN Rows ELSE IF u = "store" THEN 1 ELSE 0
                                                |-> NewRow(u)]]
             /\ load = [i \in Instance |-> [Down EXCEPT !.pc = IF i = first THEN "done" ELSE "down"]]
             /\ listing = [NotListing EXCEPT !.table = t, !.heap = heap, !.limit = limit,
                               !.order = [n \in 1 .. Rows |-> n], !.kept = 1 .. Rows, !.over = FALSE]
             /\ boots = MaxBoots
    BY <1>7
  <2>1. TablesInv
    <3>1. ASSUME NEW u \in Listed
          PROVE  /\ tables[u] \in Seq(Row)
                 /\ \A id \in DOMAIN tables[u] : TableOf(tables[u][id].type) = u
      <4>1. NewRow(u) \in Row /\ TableOf(NewRow(u).type) = u
        BY Tables, NewRowType
      <4>2. PICK m \in Nat : tables[u] = [n \in 1 .. m |-> NewRow(u)]
        BY <2>0 DEF CatalogAssumption
      <4> QED
        BY <4>1, <4>2
    <3> QED
      BY <2>0, <3>1 DEF TablesInv
  <2>2. listing \in ListState
    <3>1. /\ [n \in 1 .. Rows |-> n] \in Seq(Nat) /\ <<>> \in Seq(Nat)
          /\ 1 .. Rows \in SUBSET Nat
      BY DEF CatalogAssumption
    <3> QED
      BY <2>0, <3>1 DEF NotListing, ListState
  <2>3. load \in [Instance -> Loading] /\ \A i \in Instance : load[i].pc \in {"done", "down"}
    BY <1>3, <2>0 DEF Loading
  <2> QED
    BY <1>4, <1>5, <2>0, <2>1, <2>2, <2>3 DEF CatalogTypeInv, CatalogAssumption
<1> QED
  BY <1>6, <1>7, Zenon DEF CatalogInit

-----------------------------------------------------------------------------
(* Scans.                                                                  *)

\* The elements of a sequence of ids.
LEMMA Elements ==
    ASSUME NEW s \in Seq(Nat)
    PROVE  /\ IsFiniteSet(ToSet(s)) /\ Cardinality(ToSet(s)) <= Len(s) /\ Cardinality(ToSet(s)) \in Nat
           /\ (\A m, n \in DOMAIN s : s[m] = s[n] => m = n) => Cardinality(ToSet(s)) = Len(s)
<1>1. s \in Surjection(1 .. Len(s), ToSet(s)) /\ Len(s) \in Nat
  BY DEF Surjection, ToSet
<1>2. IsFiniteSet(1 .. Len(s)) /\ Cardinality(1 .. Len(s)) = Len(s)
  <2>1. \A n \in Nat : IsFiniteSet(1 .. n) /\ Cardinality(1 .. n) = n
    BY FS_Interval
  <2> QED
    BY <1>1, <2>1, Zenon
<1>3. /\ IsFiniteSet(ToSet(s)) /\ Cardinality(ToSet(s)) <= Len(s)
      /\ s \in Injection(1 .. Len(s), ToSet(s)) => Cardinality(ToSet(s)) = Len(s)
  BY <1>1, <1>2, FS_Surjection
<1>4. (\A m, n \in DOMAIN s : s[m] = s[n] => m = n) => s \in Injection(1 .. Len(s), ToSet(s))
  BY <1>1 DEF Injection, IsInjective, Surjection
<1> QED
  BY <1>3, <1>4, FS_CardinalityType

\* One scan behind another.
LEMMA Joined ==
    ASSUME NEW a \in Seq(Nat), NEW b \in Seq(Nat)
    PROVE  /\ a \o b \in Seq(Nat) /\ Len(a \o b) = Len(a) + Len(b) /\ Len(a) \in Nat /\ Len(b) \in Nat
           /\ \A m \in 1 .. Len(a) : (a \o b)[m] = a[m]
           /\ \A m \in Len(a) + 1 .. Len(a) + Len(b) : (a \o b)[m] = b[m - Len(a)]
OBVIOUS

\* The rows behind the nth.
LEMMA RowsBehind ==
    ASSUME NEW order \in Seq(Nat), NEW n \in 1 .. Len(order), NEW m \in 1 .. Len(order) - n
    PROVE  SubSeq(order, n + 1, Len(order))[m] = order[n + m]
OBVIOUS

\* A scan without the row in its nth place.
LEMMA Removed ==
    ASSUME NEW order \in Seq(Nat), NEW n \in DOMAIN order
    PROVE  /\ RemoveAt(order, n) \in Seq(Nat) /\ Len(RemoveAt(order, n)) = Len(order) - 1
           /\ \A m \in 1 .. Len(order) - 1 : RemoveAt(order, n)[m] = IF m < n THEN order[m] ELSE order[m + 1]
<1> DEFINE front == SubSeq(order, 1, n - 1)
           back == SubSeq(order, n + 1, Len(order))
<1>1. Len(order) \in Nat /\ n \in 1 .. Len(order)
  OBVIOUS
<1>2. /\ front \in Seq(Nat) /\ Len(front) = n - 1
      /\ \A m \in 1 .. n - 1 : front[m] = order[m]
  OBVIOUS
<1>3. /\ back \in Seq(Nat) /\ Len(back) = Len(order) - n
      /\ \A m \in 1 .. Len(order) - n : back[m] = order[n + m]
  <2>1. back \in Seq(Nat) /\ Len(back) = Len(order) - n
    BY <1>1
  <2>2. \A m \in 1 .. Len(order) - n : back[m] = order[n + m]
    BY <1>1, RowsBehind, Zenon
  <2> QED
    BY <2>1, <2>2
<1>4. RemoveAt(order, n) = front \o back
  BY DEF RemoveAt
<1> HIDE DEF front, back
<1>5. front \o back \in Seq(Nat) /\ Len(front \o back) = Len(order) - 1
  BY <1>1, <1>2, <1>3, Joined
<1>6. ASSUME NEW m \in 1 .. Len(order) - 1
      PROVE  (front \o back)[m] = IF m < n THEN order[m] ELSE order[m + 1]
  <2>1. CASE m < n
    <3>1. m \in 1 .. Len(front) /\ m \in 1 .. n - 1
      BY <1>1, <1>2, <2>1
    <3> QED
      BY <1>2, <1>3, <2>1, <3>1, Joined
  <2>2. CASE ~ (m < n)
    <3>1. m - (n - 1) \in 1 .. Len(order) - n /\ n + (m - (n - 1)) = m + 1
      BY <1>1, <2>2
    <3>2. (front \o back)[m] = back[m - (n - 1)]
      <4>1. m \in Len(front) + 1 .. Len(front) + Len(back)
        BY <1>1, <1>2, <1>3, <2>2
      <4>2. (front \o back)[m] = back[m - Len(front)]
        BY <1>2, <1>3, <4>1, Joined, Zenon
      <4> QED
        BY <1>2, <4>2, Zenon
    <3>3. back[m - (n - 1)] = order[n + (m - (n - 1))]
      BY <1>3, <3>1
    <3> QED
      BY <2>2, <3>1, <3>2, <3>3
  <2> QED
    BY <2>1, <2>2
<1> QED
  BY <1>4, <1>5, <1>6

\* A scan with a row in the nth place.
LEMMA Inserted ==
    ASSUME NEW order \in Seq(Nat), NEW n \in 1 .. Len(order) + 1, NEW id \in Nat
    PROVE  /\ InsertAt(order, n, id) \in Seq(Nat) /\ Len(InsertAt(order, n, id)) = Len(order) + 1
           /\ \A m \in 1 .. Len(order) + 1 : /\ m < n => InsertAt(order, n, id)[m] = order[m]
                                             /\ m = n => InsertAt(order, n, id)[m] = id
                                             /\ m > n => InsertAt(order, n, id)[m] = order[m - 1]
<1> DEFINE front == SubSeq(order, 1, n - 1)
           back == SubSeq(order, n, Len(order))
           first == front \o <<id>>
<1>1. Len(order) \in Nat /\ n \in 1 .. Len(order) + 1
  OBVIOUS
<1>2. /\ front \in Seq(Nat) /\ Len(front) = n - 1
      /\ \A m \in 1 .. n - 1 : front[m] = order[m]
  OBVIOUS
<1>3. /\ back \in Seq(Nat) /\ Len(back) = Len(order) - n + 1
      /\ \A m \in 1 .. Len(order) - n + 1 : back[m] = order[n + m - 1]
  OBVIOUS
<1>4. InsertAt(order, n, id) = first \o back
  BY DEF InsertAt
<1> HIDE DEF front, back
<1>5. /\ first \in Seq(Nat) /\ Len(first) = n
      /\ \A m \in 1 .. n : first[m] = IF m < n THEN front[m] ELSE id
  BY <1>1, <1>2
<1> HIDE DEF first
<1>6. first \o back \in Seq(Nat) /\ Len(first \o back) = Len(order) + 1
  <2>1. first \o back \in Seq(Nat) /\ Len(first \o back) = Len(first) + Len(back)
    BY <1>3, <1>5, Joined, Zenon
  <2> QED
    BY <1>1, <1>3, <1>5, <2>1
<1>7. ASSUME NEW m \in 1 .. Len(order) + 1
      PROVE  /\ m < n => (first \o back)[m] = order[m]
             /\ m = n => (first \o back)[m] = id
             /\ m > n => (first \o back)[m] = order[m - 1]
  <2>1. CASE m <= n
    <3>1. m \in 1 .. Len(first) /\ m \in 1 .. n
      BY <1>1, <1>5, <2>1
    <3>2. (first \o back)[m] = IF m < n THEN front[m] ELSE id
      BY <1>3, <1>5, <3>1, Joined
    <3> QED
      BY <1>1, <1>2, <2>1, <3>1, <3>2
  <2>2. CASE ~ (m <= n)
    <3>1. m - n \in 1 .. Len(order) - n + 1 /\ n + (m - n) - 1 = m - 1
      BY <1>1, <2>2
    <3>2. (first \o back)[m] = back[m - n]
      <4>1. m \in Len(first) + 1 .. Len(first) + Len(back)
        BY <1>1, <1>3, <1>5, <2>2
      <4> QED
        BY <1>3, <1>5, <4>1, Joined
    <3>3. back[m - n] = order[n + (m - n) - 1]
      BY <1>3, <3>1
    <3> QED
      BY <1>1, <2>2, <3>1, <3>2, <3>3
  <2> QED
    BY <2>1, <2>2
<1> QED
  BY <1>4, <1>6, <1>7

Distinct(order) == \A m, n \in DOMAIN order : order[m] = order[n] => m = n

\* A scan without a row has the others, those behind it further in front.
LEMMA ScanWithout ==
    ASSUME NEW order \in Seq(Nat), NEW id \in Nat
    PROVE  /\ Without(order, id) \in Seq(Nat)
           /\ Distinct(order) =>
                /\ Distinct(Without(order, id))
                /\ ToSet(Without(order, id)) = ToSet(order) \ {id}
                /\ \A k \in Nat : Upto(order, k) \ {id} \subseteq
                                      Upto(Without(order, id), IF id \in Upto(order, k) THEN k - 1 ELSE k)
<1>1. CASE id \notin ToSet(order)
  <2>1. Without(order, id) = order /\ ToSet(order) = ToSet(order) \ {id}
    BY <1>1 DEF Without
  <2>2. \A k \in Nat : id \notin Upto(order, k)
    BY <1>1 DEF Upto, ToSet
  <2> QED
    BY <2>1, <2>2
<1>2. CASE id \in ToSet(order)
  <2> DEFINE p == CHOOSE n \in DOMAIN order : order[n] = id
             others == Without(order, id)
             was(n) == IF n < p THEN n ELSE n + 1
             goes(m) == IF m < p THEN m ELSE m - 1
  <2>1. p \in DOMAIN order /\ order[p] = id
    BY <1>2 DEF ToSet
  <2>2. others = RemoveAt(order, p)
    BY <1>2 DEF Without
  <2> HIDE DEF p, others
  <2>3. /\ others \in Seq(Nat) /\ Len(others) = Len(order) - 1
        /\ \A m \in 1 .. Len(order) - 1 : others[m] = IF m < p THEN order[m] ELSE order[m + 1]
    BY <2>1, <2>2, Removed, Zenon
  <2>4. /\ Len(order) \in Nat /\ p \in 1 .. Len(order)
        /\ DOMAIN order = 1 .. Len(order) /\ DOMAIN others = 1 .. Len(order) - 1
    BY <2>1, <2>3
  <2>5. \A n \in DOMAIN others : was(n) \in DOMAIN order /\ was(n) # p /\ goes(was(n)) = n
    BY <2>4
  <2>6. \A n \in DOMAIN others : others[n] = order[was(n)]
    BY <2>3, <2>4
  <2>7. \A m \in DOMAIN order : m # p => goes(m) \in DOMAIN others /\ was(goes(m)) = m
    BY <2>4
  <2>8. \A m \in DOMAIN order : m # p => others[goes(m)] = order[m]
    BY <2>6, <2>7, Zenon
  <2>9. \A m \in DOMAIN order, k \in Nat : m # p /\ m <= k =>
            goes(m) <= k /\ (p <= k => goes(m) <= k - 1)
    BY <2>4
  <2> HIDE DEF was, goes
  <2> SUFFICES ASSUME Distinct(order)
               PROVE  /\ Distinct(others) /\ ToSet(others) = ToSet(order) \ {id}
                      /\ \A k \in Nat : Upto(order, k) \ {id} \subseteq
                                            Upto(others, IF id \in Upto(order, k) THEN k - 1 ELSE k)
    BY <2>3 DEF others
  <2>10. \A m \in DOMAIN order : order[m] = id <=> m = p
    BY <2>1, Zenon DEF Distinct
  <2>11. Distinct(others)
    BY <2>5, <2>6, Zenon DEF Distinct
  <2>12. ToSet(others) = ToSet(order) \ {id}
    BY <2>5, <2>6, <2>7, <2>8, <2>10 DEF ToSet
  <2>13. ASSUME NEW k \in Nat
         PROVE  Upto(order, k) \ {id} \subseteq Upto(others, IF id \in Upto(order, k) THEN k - 1 ELSE k)
    <3>1. id \in Upto(order, k) <=> p <= k
      BY <2>1, <2>10 DEF Upto
    <3> SUFFICES ASSUME NEW m \in DOMAIN order, m <= k, m # p
                 PROVE  order[m] \in Upto(others, IF id \in Upto(order, k) THEN k - 1 ELSE k)
      BY <2>10 DEF Upto
    <3>2. goes(m) \in DOMAIN others /\ others[goes(m)] = order[m]
      BY <2>7, <2>8
    <3>3. goes(m) <= (IF id \in Upto(order, k) THEN k - 1 ELSE k)
      BY <2>9, <3>1
    <3> QED
      BY <3>2, <3>3 DEF Upto
  <2> QED
    BY <2>11, <2>12, <2>13
<1> QED
  BY <1>1, <1>2

\* A scan with a row more: those from its place on are one further back.
LEMMA ScanWith ==
    ASSUME NEW others \in Seq(Nat), NEW id \in Nat, NEW q \in 1 .. Len(others) + 1
    PROVE  /\ InsertAt(others, q, id) \in Seq(Nat)
           /\ ToSet(InsertAt(others, q, id)) = ToSet(others) \cup {id}
           /\ Distinct(others) /\ id \notin ToSet(others) => Distinct(InsertAt(others, q, id))
           /\ \A k \in Nat :
                 /\ Upto(others, k - 1) \subseteq Upto(InsertAt(others, q, id), k)
                 /\ IF k < q THEN Upto(others, k) \subseteq Upto(InsertAt(others, q, id), k)
                    ELSE id \in Upto(InsertAt(others, q, id), k)
<1> DEFINE new == InsertAt(others, q, id)
           was(n) == IF n < q THEN n ELSE n - 1
           goes(m) == IF m < q THEN m ELSE m + 1
<1>1. /\ new \in Seq(Nat) /\ Len(new) = Len(others) + 1
      /\ \A m \in 1 .. Len(others) + 1 : /\ m < q => new[m] = others[m]
                                         /\ m = q => new[m] = id
                                         /\ m > q => new[m] = others[m - 1]
  BY Inserted, Zenon
<1> HIDE DEF new
<1>2. /\ Len(others) \in Nat /\ DOMAIN others = 1 .. Len(others)
      /\ DOMAIN new = 1 .. Len(others) + 1
  BY <1>1
<1>3. \A n \in DOMAIN new : n # q => was(n) \in DOMAIN others /\ goes(was(n)) = n
  BY <1>2
<1>4. ASSUME NEW n \in DOMAIN new
      PROVE  new[n] = IF n = q THEN id ELSE others[was(n)]
  <2>1. /\ n < q => new[n] = others[n]
        /\ n = q => new[n] = id
        /\ n > q => new[n] = others[n - 1]
    BY <1>1, <1>2
  <2>2. n < q \/ n = q \/ n > q
    BY <1>2
  <2> QED
    BY <1>2, <2>1, <2>2
<1>5. \A m \in DOMAIN others : goes(m) \in DOMAIN new /\ goes(m) # q /\ was(goes(m)) = m
  BY <1>2
<1>6. \A m \in DOMAIN others : new[goes(m)] = others[m]
  BY <1>4, <1>5, Zenon
<1>7. \A m \in DOMAIN others, k \in Nat : (m <= k - 1 => goes(m) <= k) /\ (m <= k /\ k < q => goes(m) <= k)
  BY <1>2
<1>8. q \in DOMAIN new /\ new[q] = id
  BY <1>2, <1>4
<1> HIDE DEF was, goes
<1>9. ToSet(new) = ToSet(others) \cup {id}
  BY <1>3, <1>4, <1>5, <1>6, <1>8 DEF ToSet
<1>10. ASSUME Distinct(others), id \notin ToSet(others) PROVE Distinct(new)
  <2>1. \A m \in DOMAIN others : others[m] # id
    BY <1>10 DEF ToSet
  <2>2. \A m, n \in DOMAIN new : m # q /\ n # q /\ new[m] = new[n] => m = n
    BY <1>3, <1>4, <1>10 DEF Distinct
  <2>3. \A m \in DOMAIN new : new[m] = id => m = q
    BY <1>3, <1>4, <2>1
  <2> QED
    BY <1>8, <2>2, <2>3 DEF Distinct
<1>11. ASSUME NEW k \in Nat
       PROVE  /\ Upto(others, k - 1) \subseteq Upto(new, k)
              /\ IF k < q THEN Upto(others, k) \subseteq Upto(new, k) ELSE id \in Upto(new, k)
  <2>1. \A m \in DOMAIN others : m <= k - 1 => others[m] \in Upto(new, k)
    BY <1>5, <1>6, <1>7 DEF Upto
  <2>2. \A m \in DOMAIN others : k < q /\ m <= k => others[m] \in Upto(new, k)
    BY <1>5, <1>6, <1>7 DEF Upto
  <2>3. ~ (k < q) => id \in Upto(new, k)
    BY <1>2, <1>8 DEF Upto
  <2> QED
    BY <2>1, <2>2, <2>3 DEF Upto
<1> QED
  BY <1>1, <1>9, <1>10, <1>11 DEF new

\* A row is written: of those in the first k places at most one leaves them,
\* which is the row itself if it goes behind them, or else the one in the last place.
LEMMA ScanWritten ==
    ASSUME NEW order \in Seq(Nat), NEW id \in Nat, NEW q \in 1 .. Len(Without(order, id)) + 1
    PROVE  /\ InsertAt(Without(order, id), q, id) \in Seq(Nat)
           /\ Distinct(order) =>
                /\ Distinct(InsertAt(Without(order, id), q, id))
                /\ ToSet(order) \subseteq ToSet(InsertAt(Without(order, id), q, id))
                /\ \A k \in Nat : \E x : Upto(order, k) \ {x} \subseteq
                                             Upto(InsertAt(Without(order, id), q, id), k)
<1> DEFINE others == Without(order, id)
           new == InsertAt(others, q, id)
<1>1. others \in Seq(Nat)
  BY ScanWithout
<1>2. q \in Nat /\ q \in 1 .. Len(others) + 1
  BY <1>1
<1>3. /\ new \in Seq(Nat) /\ ToSet(new) = ToSet(others) \cup {id}
      /\ Distinct(others) /\ id \notin ToSet(others) => Distinct(new)
      /\ \A k \in Nat : /\ Upto(others, k - 1) \subseteq Upto(new, k)
                        /\ IF k < q THEN Upto(others, k) \subseteq Upto(new, k) ELSE id \in Upto(new, k)
  BY <1>1, <1>2, ScanWith, Zenon
<1> SUFFICES ASSUME Distinct(order)
             PROVE  /\ Distinct(new) /\ ToSet(order) \subseteq ToSet(new)
                    /\ \A k \in Nat : \E x : Upto(order, k) \ {x} \subseteq Upto(new, k)
  BY <1>3
<1>4. /\ Distinct(others) /\ ToSet(others) = ToSet(order) \ {id}
      /\ \A k \in Nat : Upto(order, k) \ {id} \subseteq
                            Upto(others, IF id \in Upto(order, k) THEN k - 1 ELSE k)
  BY ScanWithout
<1> HIDE DEF others, new
<1>5. ASSUME NEW k \in Nat
      PROVE  \E x : Upto(order, k) \ {x} \subseteq Upto(new, k)
  <2>1. CASE k < q
    <3>1. Upto(others, k - 1) \subseteq Upto(others, k)
      <4>1. \A m \in DOMAIN others : m <= k - 1 => m <= k
        BY <1>1
      <4> QED
        BY <4>1 DEF Upto
    <3>2. Upto(order, k) \ {id} \subseteq Upto(others, k)
      BY <1>4, <3>1
    <3> QED
      BY <1>3, <2>1, <3>2
  <2>2. CASE ~ (k < q) /\ id \in Upto(order, k)
    <3>1. Upto(order, k) \ {id} \subseteq Upto(others, k - 1) /\ id \in Upto(new, k)
      BY <1>3, <1>4, <2>2
    <3>2. Upto(order, k) \subseteq Upto(new, k)
      BY <1>3, <3>1
    <3> QED
      BY <3>2
  <2>3. CASE ~ (k < q) /\ id \notin Upto(order, k)
    <3>1. k - 1 \in Nat
      BY <1>2, <2>3
    <3>2. Upto(order, k) \ {order[k]} \subseteq Upto(order, k - 1) /\ Upto(order, k - 1) \subseteq Upto(order, k)
      <4>1. \A m \in DOMAIN order : /\ m <= k /\ m # k => m <= k - 1
                                    /\ m <= k - 1 => m <= k
        OBVIOUS
      <4> QED
        BY <4>1 DEF Upto
    <3>3. id \notin Upto(order, k - 1)
      BY <2>3, <3>2
    <3>4. Upto(order, k - 1) \subseteq Upto(others, k - 1)
      BY <1>4, <3>1, <3>3
    <3>5. Upto(order, k) \ {order[k]} \subseteq Upto(new, k)
      BY <1>3, <3>2, <3>4
    <3> QED
      BY <3>5
  <2> QED
    BY <2>1, <2>2, <2>3
<1> QED
  BY <1>3, <1>4, <1>5

\* The page has rows of the scan, from the offset on.
OnPage(order, k, page) ==
    /\ page \in Seq(Nat)
    /\ Len(page) # 0 => k + Len(page) <= Len(order)
    /\ \A m \in 1 .. Len(page) : page[m] = order[k + m]

\* A page is rows of the scan, whole or cut at the limit.
LEMMA Paged ==
    ASSUME NEW order \in Seq(Nat), NEW k \in Nat, NEW limit \in Nat
    PROVE  /\ OnPage(order, k, PageAt(order, k)) /\ Len(PageAt(order, k)) \in Nat
           /\ Len(order) <= k \/ k + Len(PageAt(order, k)) = Len(order)
           /\ limit <= Len(PageAt(order, k)) => OnPage(order, k, SubSeq(PageAt(order, k), 1, limit))
<1> DEFINE rest == PageAt(order, k)
           page == SubSeq(rest, 1, limit)
<1>1. rest = SubSeq(order, k + 1, Len(order)) /\ Len(order) \in Nat
  BY DEF PageAt
<1>2. rest \in Seq(Nat)
  BY <1>1
<1>3. Len(order) <= k => rest = <<>>
  BY <1>1
<1>4. Len(order) > k => Len(rest) = Len(order) - k
  BY <1>1
<1>5. Len(order) > k => \A m \in 1 .. Len(order) - k : rest[m] = order[k + m]
  BY <1>1
<1> HIDE DEF rest
<1>6. Len(rest) \in Nat /\ (Len(order) <= k => Len(rest) = 0)
  BY <1>2, <1>3
<1>7. OnPage(order, k, rest)
  <2>1. Len(rest) # 0 => k + Len(rest) <= Len(order)
    BY <1>1, <1>4, <1>6
  <2>2. \A m \in 1 .. Len(rest) : rest[m] = order[k + m]
    <3>1. CASE Len(order) > k
      BY <1>4, <1>5, <3>1
    <3>2. CASE ~ (Len(order) > k)
      BY <1>1, <1>6, <3>2
    <3> QED
      BY <3>1, <3>2
  <2> QED
    BY <1>2, <2>1, <2>2 DEF OnPage
<1>8. limit <= Len(rest) => page \in Seq(Nat) /\ Len(page) = limit
  BY <1>2
<1>9. limit <= Len(rest) => \A m \in 1 .. limit : page[m] = rest[m]
  BY <1>2
<1> HIDE DEF page
<1>10. ASSUME limit <= Len(rest) PROVE OnPage(order, k, page)
  <2>1. page \in Seq(Nat) /\ Len(page) = limit /\ \A m \in 1 .. limit : page[m] = rest[m]
    BY <1>8, <1>9, <1>10
  <2>2. limit # 0 => k + limit <= Len(order)
    BY <1>1, <1>4, <1>6, <1>10
  <2>3. \A m \in 1 .. limit : m \in 1 .. Len(rest)
    BY <1>6, <1>10
  <2>4. \A m \in 1 .. limit : page[m] = order[k + m]
    BY <1>7, <2>1, <2>3 DEF OnPage
  <2> QED
    BY <2>1, <2>2, <2>4 DEF OnPage
<1> QED
  BY <1>1, <1>4, <1>6, <1>7, <1>10 DEF rest, page

\* What a user may do, whatever the table: create a row, delete one, read one
\* to update it, save it, or list.
Reads(t) ==
    /\ \E id \in LiveRows(t), row \in Row :
          /\ row.live /\ TableOf(row.type) = t
          /\ edit' = [table |-> t, id |-> id, row |-> row]
    /\ edits' = edits + 1
    /\ UNCHANGED <<tables, load, listing, boots, faults>>

NewRows(t) == {row \in Row : row.live /\ TableOf(row.type) = t}

\* What a user, a worker or a client does is one of six kinds of step.
LEMMA UsersDo ==
    ASSUME TablesInv, Users
    PROVE  \/ \E t \in Table : \E row \in NewRows(t) : Create(t, row)
           \/ \E t \in Table : Delete(t)
           \/ \E t \in Table : Reads(t)
           \/ UpdateSaves \/ RowSaved
           \/ \E t \in Listed : List(t)
<1>1. /\ {"chain", "abi", "store", "pipeline", "source", "exporter"} \subseteq Table
      /\ {"chain", "abi", "store", "pipeline", "source", "exporter", "plugin", "instance"} \subseteq Listed
  BY DEF Table, Listed
<1>2. \A k \in Table : NewRow(k) \in Row /\ NewRow(k).live /\ NewRow(k).type = k /\ TableOf(k) = k
  BY NewRowType, Tables
<1>3. ASSUME NEW k \in Table, NEW n \in Name
      PROVE  [NewRow(k) EXCEPT !.name = n] \in NewRows(k)
  BY <1>2 DEF Row, NewRows
<1>4. ASSUME NEW t \in Table, NEW id \in LiveRows(t)
      PROVE  tables[t][id] \in Row /\ tables[t][id].live /\ TableOf(tables[t][id].type) = t
  <2>1. t \in Listed /\ tables[t] \in Seq(Row) /\ id \in DOMAIN tables[t]
    BY Tables DEF TablesInv, LiveRows
  <2> QED
    BY <2>1 DEF TablesInv, LiveRows
<1>5. ASSUME NEW t \in Table, Update(t, Renamed)
      PROVE  Reads(t)
  <2>1. PICK id \in LiveRows(t) : \E row \in Renamed(tables[t][id]) : edit' = [table |-> t, id |-> id, row |-> row]
    BY <1>5 DEF Update
  <2>2. PICK n \in Name : edit' = [table |-> t, id |-> id, row |-> [tables[t][id] EXCEPT !.name = n]]
    BY <2>1 DEF Renamed
  <2> DEFINE row == [tables[t][id] EXCEPT !.name = n]
  <2>3. row \in Row /\ row.live /\ TableOf(row.type) = t
    BY <1>4 DEF Row
  <2> HIDE DEF row
  <2>4. edit' = [table |-> t, id |-> id, row |-> row]
    BY <2>2 DEF row
  <2> QED
    BY <1>5, <2>3, <2>4 DEF Update, Reads
<1>6. ASSUME NEW r \in NewRows("pipeline"), NEW i \in Instance, NEW s \in DOMAIN tables["store"]
      PROVE  MovedTo(r, i, s) \in NewRows("pipeline")
  <2>1. tables["store"] \in Seq(Row)
    BY <1>1 DEF TablesInv
  <2>2. s \in Nat
    BY <2>1
  <2> QED
    BY <2>2 DEF MovedTo, NewRows, Row
<1>7. ASSUME UpdateEvmLogPipeline
      PROVE  Reads("pipeline")
  <2>1. PICK id \in LiveRows("pipeline") : \E row \in Moved(tables["pipeline"][id]) :
            edit' = [table |-> "pipeline", id |-> id, row |-> row]
    BY <1>7 DEF UpdateEvmLogPipeline, Update
  <2>2. PICK row \in Moved(tables["pipeline"][id]) : edit' = [table |-> "pipeline", id |-> id, row |-> row]
    BY <2>1
  <2>3. PICK r \in Renamed(tables["pipeline"][id]), i \in Instance, s \in DOMAIN tables["store"] :
            row = MovedTo(r, i, s)
    BY <2>2 DEF Moved
  <2>4. r \in NewRows("pipeline")
    BY <1>1, <1>4 DEF Renamed, Row, NewRows
  <2>5. row \in NewRows("pipeline")
    BY <1>6, <2>3, <2>4
  <2> QED
    BY <1>7, <2>2, <2>5 DEF UpdateEvmLogPipeline, Update, Reads, NewRows
<1>8. ASSUME CreateEvmLogPipeline
      PROVE  \E row \in NewRows("pipeline") : Create("pipeline", row)
  BY <1>1, <1>3, <1>6, <1>8 DEF CreateEvmLogPipeline
<1>9. CASE CreateEvmBlockchain \/ CreateEvmJsonAbi \/ CreateEvmLogStore \/ CreateEvmLogPipeline
  BY <1>1, <1>3, <1>8, <1>9 DEF CreateEvmBlockchain, CreateEvmJsonAbi, CreateEvmLogStore
<1>10. CASE DeleteEvmBlockchain \/ DeleteEvmJsonAbi \/ DeleteEvmLogStore \/ DeleteEvmLogPipeline
  BY <1>1, <1>10 DEF DeleteEvmBlockchain, DeleteEvmJsonAbi, DeleteEvmLogStore, DeleteEvmLogPipeline
<1>11. CASE UpdateEvmBlockchain \/ UpdateEvmJsonAbi \/ UpdateEvmLogStore \/ UpdateEvmLogPipeline
  BY <1>1, <1>5, <1>7, <1>11 DEF UpdateEvmBlockchain, UpdateEvmJsonAbi, UpdateEvmLogStore
<1>12. CASE \/ ListEvmBlockchains \/ ListEvmJsonAbis \/ ListEvmLogStores \/ ListEvmLogPipelines
            \/ ListEvmLogSources \/ ListEvmiExporters \/ ListPlugins \/ ListEvmiInstances
  BY <1>1, <1>12 DEF ListEvmBlockchains, ListEvmJsonAbis, ListEvmLogStores, ListEvmLogPipelines,
     ListEvmLogSources, ListEvmiExporters, ListPlugins, ListEvmiInstances
<1>13. CASE UpdateSaves \/ RowSaved
  BY <1>13
<1> QED
  BY <1>9, <1>10, <1>11, <1>12, <1>13 DEF Users

\* A written row stays, joins the end or shifts others; what the client has,
\* and what is there all the time, is as before.
LEMMA WrittenTo ==
    ASSUME listing \in ListState, NEW t, NEW id \in Nat, Written(t, id)
    PROVE  /\ listing' \in ListState
           /\ \/ UNCHANGED listing
              \/ \E q \in 1 .. Len(Without(listing.order, id)) + 1 :
                    /\ listing'.order = InsertAt(Without(listing.order, id), q, id)
                    /\ listing'.shifts = IF \/ listing'.order = listing.order
                                            \/ listing'.order = Append(listing.order, id)
                                         THEN listing.shifts ELSE listing.shifts + 1
                    /\ listing'.table = listing.table /\ listing'.over = listing.over
                    /\ listing'.out = listing.out /\ listing'.kept = listing.kept
<1>1. CASE listing.table # t
  BY <1>1 DEF Written
<1>2. CASE listing.table = t
  <2>0. PICK order \in Scanned(id) :
            listing' = [listing EXCEPT !.order = order,
                            !.shifts = IF order = listing.order \/ order = Append(listing.order, id)
                                       THEN @ ELSE @ + 1]
    BY <1>2 DEF Written
  <2> DEFINE shifts == IF order = listing.order \/ order = Append(listing.order, id)
                       THEN listing.shifts ELSE listing.shifts + 1
  <2>1. listing' = [listing EXCEPT !.order = order, !.shifts = shifts]
    BY <2>0
  <2>2. PICK q \in 1 .. Len(Without(listing.order, id)) + 1 :
            order = InsertAt(Without(listing.order, id), q, id)
    BY DEF Scanned, Places
  <2>3. listing.order \in Seq(Nat) /\ listing.shifts \in Nat
    BY DEF ListState
  <2>4. order \in Seq(Nat)
    BY <2>2, <2>3, ScanWritten
  <2>5. shifts \in Nat
    BY <2>3
  <2> HIDE DEF shifts
  <2>6. listing' \in ListState
    BY <2>1, <2>4, <2>5 DEF ListState
  <2>7. /\ listing'.order = order /\ listing'.shifts = shifts
        /\ listing'.table = listing.table /\ listing'.over = listing.over
        /\ listing'.out = listing.out /\ listing'.kept = listing.kept
    BY <2>1 DEF ListState
  <2> QED
    BY <2>2, <2>6, <2>7 DEF shifts
<1> QED
  BY <1>1, <1>2

\* The row that Save writes back.
LEMMA SavedRow ==
    ASSUME CatalogTypeInv, UpdateSaves
    PROVE  /\ edit.table \in Listed /\ edit.id \in DOMAIN tables[edit.table] /\ edit.id \in Nat
           /\ edit.row \in Row /\ edit.row.live /\ TableOf(edit.row.type) = edit.table
           /\ Rewrites(edit.table, edit.id, edit.row)
BY DEF CatalogTypeInv, UpdateSaves, Edit, Rewrites

\* The row that a deletion leaves behind.
LEMMA DeletedRow ==
    ASSUME CatalogTypeInv, NEW t \in Table, NEW id \in LiveRows(t),
           tables' = [tables EXCEPT ![t][id].live = FALSE]
    PROVE  \E row \in Row :
              /\ row = [tables[t][id] EXCEPT !.live = FALSE] /\ ~ row.live
              /\ TableOf(row.type) = t /\ id \in DOMAIN tables[t] /\ id \in Nat
              /\ Rewrites(t, id, row)
<1> DEFINE row == [tables[t][id] EXCEPT !.live = FALSE]
<1>1. t \in Listed /\ tables[t] \in Seq(Row) /\ id \in DOMAIN tables[t]
  BY Tables DEF CatalogTypeInv, TablesInv, LiveRows
<1>2. tables[t][id] \in Row /\ TableOf(tables[t][id].type) = t /\ id \in Nat
  BY <1>1 DEF CatalogTypeInv, TablesInv
<1>3. row \in Row /\ ~ row.live /\ row.type = tables[t][id].type
  BY <1>2 DEF Row
<1>4. Rewrites(t, id, row)
  BY DEF Rewrites
<1> QED
  BY <1>1, <1>2, <1>3, <1>4

\* What a load does to the loads: this one's state becomes l.
LEMMA OneLoads ==
    ASSUME load \in [Instance -> Loading], NEW i \in Instance, NEW l \in Loading,
           load' = [load EXCEPT ![i] = l]
    PROVE  /\ load' \in [Instance -> Loading] /\ load'[i] = l
           /\ \A j \in Instance \ {i} : load'[j] = load[j]
OBVIOUS

\* The row that a load is about to create, and what comes of it.
LEMMA CreatedRow ==
    ASSUME CatalogTypeInv, LoadOrderAssumption, NEW i \in Instance, EnsureCreates(i)
    PROVE  /\ load[i] \in Loading /\ load[i].row \in Row /\ load[i].row.type \in Resource
           /\ TableOf(load[i].row.type) \in Table
           /\ Appends(TableOf(load[i].row.type), load[i].row)
           /\ IF load[i].row.type = "factory"
              THEN load'[i] = [load[i] EXCEPT !.pc = "rules", !.new = Len(tables["source"]) + 1]
              ELSE load'[i] = AtNext(load[i])
           /\ load'[i] \in Loading /\ load' = [load EXCEPT ![i] = load'[i]]
           /\ load'[i].pc \in {"look", "rules", "done"} /\ load'[i].kept \subseteq load[i].kept
           /\ load'[i].pc = "rules" => /\ load[i].row.type = "factory"
                                       /\ load'[i].new = Len(tables["source"]) + 1
<1>1. /\ load[i] \in Loading /\ load[i].row \in Row /\ load[i].row.type \in Resource
      /\ load[i].pc = "create"
  <2>0. load[i].pc = "create"
    BY DEF EnsureCreates
  <2>1. load \in [Instance -> Loading] /\ (load[i].pc = "create" => load[i].row.type \in Resource)
    BY Zenon DEF CatalogTypeInv
  <2> QED
    BY <2>0, <2>1 DEF Loading
<1>2. TableOf(load[i].row.type) \in Table
  BY <1>1, Tables
<1>3. load[i].row.type = "factory" => TableOf(load[i].row.type) = "source"
  BY DEF TableOf
<1>4. Len(tables["source"]) \in Nat
  <2>1. tables["source"] \in Seq(Row)
    BY DEF CatalogTypeInv, TablesInv, Listed, Table
  <2> QED
    BY <2>1
<1> DEFINE l == IF load[i].row.type = "factory"
                THEN [load[i] EXCEPT !.pc = "rules", !.new = Len(tables["source"]) + 1]
                ELSE AtNext(load[i])
<1>5. load' = [load EXCEPT ![i] = l]
  BY <1>1, <1>3 DEF EnsureCreates
<1>6. CASE load[i].row.type = "factory"
  <2>1. l = [load[i] EXCEPT !.pc = "rules", !.new = Len(tables["source"]) + 1]
    BY <1>6
  <2>2. l \in Loading /\ l.pc = "rules" /\ l.kept = load[i].kept /\ l.new = Len(tables["source"]) + 1
    <3>1. Len(tables["source"]) + 1 \in Nat
      BY <1>4
    <3> QED
      BY <1>1, <2>1, <3>1 DEF Loading
  <2> HIDE DEF l
  <2>3. load'[i] = l
    BY <1>5 DEF CatalogTypeInv
  <2> QED
    BY <1>1, <1>2, <1>5, <1>6, <2>1, <2>2, <2>3 DEF EnsureCreates, Appends
<1>7. CASE load[i].row.type # "factory"
  <2>1. l = AtNext(load[i])
    BY <1>7
  <2>2. l \in Loading /\ l.pc \in {"look", "done"} /\ l.kept \subseteq load[i].kept
    BY <1>1, <2>1, AtNextType
  <2> HIDE DEF l
  <2>3. load'[i] = l
    BY <1>5 DEF CatalogTypeInv
  <2> QED
    BY <1>1, <1>2, <1>5, <1>7, <2>1, <2>2, <2>3 DEF EnsureCreates, Appends
<1> QED
  BY <1>6, <1>7

\* createFactoryRules writes the source just created, but for its rules as it was.
LEMMA RuledRow ==
    ASSUME CatalogTypeInv, LoadOrderAssumption, NEW i \in Instance, createFactoryRules(i)
    PROVE  /\ load[i] \in Loading /\ load[i].pc = "rules"
           /\ load' = [load EXCEPT ![i] = AtNext(load[i])] /\ load'[i] = AtNext(load[i])
           /\ \/ tables' = tables
              \/ \E row \in Row :
                    /\ load[i].new \in DOMAIN tables["source"]
                    /\ row = [tables["source"][load[i].new] EXCEPT !.ruled = TRUE]
                    /\ TableOf(row.type) = "source"
                    /\ Rewrites("source", load[i].new, row)
<1>1. load[i] \in Loading /\ load[i].pc = "rules" /\ load[i].new \in DOMAIN tables["source"]
  BY DEF CatalogTypeInv, createFactoryRules
<1>2. load' = [load EXCEPT ![i] = AtNext(load[i])] /\ load'[i] = AtNext(load[i])
  BY DEF CatalogTypeInv, createFactoryRules
<1> DEFINE row == [tables["source"][load[i].new] EXCEPT !.ruled = TRUE]
<1>3. tables["source"] \in Seq(Row) /\ "source" \in Listed
  BY DEF CatalogTypeInv, TablesInv, Listed, Table
<1>4. tables["source"][load[i].new] \in Row /\ TableOf(tables["source"][load[i].new].type) = "source"
  BY <1>1, <1>3 DEF CatalogTypeInv, TablesInv
<1>5. row \in Row /\ row.type = tables["source"][load[i].new].type
  BY <1>4 DEF Row
<1>6. tables' = tables \/ Rewrites("source", load[i].new, row)
  BY DEF createFactoryRules, Rewrites
<1> QED
  BY <1>1, <1>2, <1>4, <1>5, <1>6

\* A process that is down, and no edit, are well-formed.
LEMMA CatalogDown ==
    ASSUME LoadOrderAssumption
    PROVE  Down \in Loading /\ Down.pc = "down" /\ Down.kept = {} /\ NoEdit \in Edit /\ NoEdit.id = 0
<1>1. LoadOrder \in Seq(Resource) /\ LoadOrder # <<>>
  BY DEF LoadOrderAssumption
<1>2. 1 \in DOMAIN LoadOrder
  BY <1>1
<1>3. Down \in Loading /\ Down.pc = "down" /\ Down.kept = {}
  BY <1>2, Tables, NewRowType DEF Down, Loading, Table
<1>4. NoEdit \in Edit /\ NoEdit.id = 0
  BY Tables, NewRowType DEF NoEdit, Edit, Table
<1> QED
  BY <1>3, <1>4

\* Live rows are rows, their ids numbers.
LEMMA LiveIds ==
    ASSUME TablesInv, NEW t \in Listed
    PROVE  \A id \in LiveRows(t) : id \in DOMAIN tables[t] /\ id \in Nat /\ id # 0
<1>1. tables[t] \in Seq(Row)
  BY DEF TablesInv
<1> QED
  BY <1>1 DEF LiveRows

\* Every step keeps the types.
LEMMA CatalogTypesKept ==
    ASSUME CatalogAssumption, LoadOrderAssumption, CatalogTypeInv, [CatalogNext]_catalogVars
    PROVE  CatalogTypeInv'
<1> DEFINE LoadsRight(l) == /\ l.pc = "create" => l.row.type \in Resource
                            /\ l.pc = "rules" => l.new \in DOMAIN tables'["source"]
           EditRight == edit.id # 0 => /\ edit.id \in DOMAIN tables[edit.table] /\ edit.row.live
                                       /\ TableOf(edit.row.type) = edit.table
<1>1. /\ TablesInv /\ load \in [Instance -> Loading] /\ edit \in Edit /\ listing \in ListState
      /\ boots \in Nat /\ faults \in Nat /\ edits \in Nat /\ EditRight
      /\ \A i \in Instance : /\ load[i].pc = "create" => load[i].row.type \in Resource
                             /\ load[i].pc = "rules" => load[i].new \in DOMAIN tables["source"]
  BY DEF CatalogTypeInv
<1>2. "source" \in Listed /\ edit.table \in Listed
  BY <1>1 DEF Listed, Table, Edit
\* A load goes on, and no row leaves its place.
<1>3. ASSUME NEW i \in Instance, NEW l \in Loading, load' = [load EXCEPT ![i] = l], LoadsRight(l),
             TablesInv', \A t \in Listed : DOMAIN tables[t] \subseteq DOMAIN tables'[t],
             UNCHANGED <<edit, listing, edits>>, boots' \in Nat, faults' \in Nat
      PROVE  CatalogTypeInv'
  <2>1. load' \in [Instance -> Loading] /\ load'[i] = l /\ \A j \in Instance \ {i} : load'[j] = load[j]
    BY <1>1, <1>3, OneLoads, Zenon
  <2>2. ASSUME NEW j \in Instance PROVE LoadsRight(load'[j])
    <3>1. CASE j = i
      BY <1>3, <2>1, <3>1
    <3>2. CASE j # i
      <4>0. DOMAIN tables["source"] \subseteq DOMAIN tables'["source"]
        BY <1>2, <1>3
      <4>1. LoadsRight(load[j])
        BY <1>1, <4>0
      <4> QED
        BY <2>1, <3>2, <4>1
    <3> QED
      BY <3>1, <3>2
  <2>3. EditRight'
    BY <1>1, <1>2, <1>3
  <2> QED
    BY <1>1, <1>3, <2>1, <2>2, <2>3 DEF CatalogTypeInv
\* The loads stay where they are, if with fewer rows to keep.
<1>4. ASSUME load' \in [Instance -> Loading],
             \A i \in Instance : load'[i].pc = load[i].pc /\ load'[i].row = load[i].row /\ load'[i].new = load[i].new,
             TablesInv', \A t \in Listed : DOMAIN tables[t] \subseteq DOMAIN tables'[t],
             edit' \in Edit, EditRight', listing' \in ListState, edits' \in Nat, UNCHANGED <<boots, faults>>
      PROVE  CatalogTypeInv'
  BY <1>1, <1>2, <1>4 DEF CatalogTypeInv
<1>5. ASSUME NEW t, NEW ids, Edited(t, ids)
      PROVE  /\ load' \in [Instance -> Loading]
             /\ \A i \in Instance : /\ load'[i].pc = load[i].pc /\ load'[i].row = load[i].row
                                    /\ load'[i].new = load[i].new
  <2>1. \A i \in Instance : load'[i] = [load[i] EXCEPT !.kept = @ \ ({t} \X ids)]
    BY <1>5 DEF Edited
  <2>2. ASSUME NEW i \in Instance
        PROVE  /\ load'[i] \in Loading /\ load'[i].pc = load[i].pc /\ load'[i].row = load[i].row
               /\ load'[i].new = load[i].new
    <3> DEFINE kept == load[i].kept \ ({t} \X ids)
    <3>1. load[i] \in Loading /\ load'[i] = [load[i] EXCEPT !.kept = kept]
      BY <1>1, <2>1
    <3>2. kept \in SUBSET (Table \X Nat)
      BY <3>1 DEF Loading
    <3> HIDE DEF kept
    <3> QED
      BY <3>1, <3>2 DEF Loading
  <2> QED
    BY <1>5, <2>2 DEF Edited
<1>6. ASSUME NEW i \in Instance, Boot(i) PROVE CatalogTypeInv'
  <2> DEFINE kept == UNION {{t} \X LiveRows(t) : t \in Table}
             l == [Down EXCEPT !.pc = "look", !.kept = kept]
  <2>1. Down \in Loading
    BY CatalogDown
  <2>2. kept \in SUBSET (Table \X Nat)
    <3>1. \A t \in Table : LiveRows(t) \subseteq Nat
      BY <1>1, LiveIds, Tables
    <3> QED
      BY <3>1
  <2> HIDE DEF kept
  <2>3. l \in Loading /\ l.pc = "look"
    BY <2>1, <2>2 DEF Loading
  <2>4. load' = [load EXCEPT ![i] = l] /\ UNCHANGED <<tables, edit, listing, edits, faults>> /\ boots' \in Nat
    BY <1>1, <1>6 DEF Boot, kept
  <2> HIDE DEF l
  <2> QED
    BY <1>1, <1>3, <2>3, <2>4 DEF TablesInv
<1>7. ASSUME NEW i \in Instance, EnsureReads(i) PROVE CatalogTypeInv'
  <2> DEFINE k == LoadOrder[load[i].pos]
  <2>1. load[i] \in Loading /\ load[i].pc = "look" /\ k \in Resource
    <3>1. load[i] \in Loading /\ load[i].pc = "look"
      BY <1>1, <1>7 DEF EnsureReads
    <3>2. load[i].pos \in DOMAIN LoadOrder
      BY <3>1 DEF Loading
    <3> QED
      BY <3>1, <3>2 DEF LoadOrderAssumption
  <2>2. Ensure(i, k).row \in Row /\ Ensure(i, k).row.type \in Resource
    BY <1>1, <2>1, EnsureRow
  <2>3. PICK l : /\ load' = [load EXCEPT ![i] = l]
                 /\ l \in {AtNext(load[i]), [load[i] EXCEPT !.pc = "create", !.row = Ensure(i, k).row]}
    BY <1>1, <1>7 DEF EnsureReads
  <2>4. AtNext(load[i]) \in Loading /\ LoadsRight(AtNext(load[i]))
    BY <2>1, AtNextType
  <2>5. [load[i] EXCEPT !.pc = "create", !.row = Ensure(i, k).row] \in Loading
    BY <2>1, <2>2 DEF Loading
  <2>6. LoadsRight([load[i] EXCEPT !.pc = "create", !.row = Ensure(i, k).row])
    BY <2>1, <2>2 DEF Loading
  <2>7. l \in Loading /\ LoadsRight(l)
    BY <2>3, <2>4, <2>5, <2>6
  <2>8. UNCHANGED <<tables, edit, listing, boots, faults, edits>>
    BY <1>7 DEF EnsureReads
  <2> QED
    BY <1>1, <1>3, <2>3, <2>7, <2>8 DEF TablesInv
<1>8. ASSUME NEW i \in Instance, EnsureCreates(i) PROVE CatalogTypeInv'
  <2> DEFINE t == TableOf(load[i].row.type)
  <2>1. /\ load[i].row \in Row /\ t \in Table /\ Appends(t, load[i].row)
        /\ load'[i] \in Loading /\ load' = [load EXCEPT ![i] = load'[i]]
        /\ load'[i].pc \in {"look", "rules", "done"}
        /\ load'[i].pc = "rules" => /\ load[i].row.type = "factory"
                                    /\ load'[i].new = Len(tables["source"]) + 1
    BY <1>8, CreatedRow, Zenon
  <2>2. /\ TablesInv' /\ \A u \in Listed : DOMAIN tables[u] \subseteq DOMAIN tables'[u]
        /\ Len(tables[t]) + 1 \in DOMAIN tables'[t]
    <3>1. t \in Listed /\ TableOf(load[i].row.type) = t
      BY <2>1, Tables
    <3> HIDE DEF t
    <3>2. /\ TablesInv' /\ \A u \in Listed : \A id \in DOMAIN tables[u] : id \in DOMAIN tables'[u]
          /\ Len(tables[t]) + 1 \in DOMAIN tables'[t]
      BY <1>1, <2>1, <3>1, Appended, Zenon
    <3> QED
      BY <3>2
  <2>3. load[i].row.type = "factory" => t = "source"
    BY DEF TableOf
  <2>4. LoadsRight(load'[i])
    BY <2>1, <2>2, <2>3
  <2>5. UNCHANGED <<edit, listing, boots, faults, edits>>
    BY <1>8 DEF EnsureCreates
  <2> QED
    BY <1>1, <1>3, <2>1, <2>2, <2>4, <2>5
<1>9. ASSUME NEW i \in Instance, createFactoryRules(i) PROVE CatalogTypeInv'
  <2>1. /\ load[i] \in Loading /\ load[i].pc = "rules" /\ load' = [load EXCEPT ![i] = AtNext(load[i])]
        /\ \/ tables' = tables
           \/ \E row \in Row : /\ load[i].new \in DOMAIN tables["source"] /\ TableOf(row.type) = "source"
                               /\ Rewrites("source", load[i].new, row)
    BY <1>9, RuledRow, Zenon
  <2>2. AtNext(load[i]) \in Loading /\ LoadsRight(AtNext(load[i]))
    BY <2>1, AtNextType
  <2>3. TablesInv' /\ \A u \in Listed : DOMAIN tables'[u] = DOMAIN tables[u]
    <3>1. CASE tables' = tables
      BY <1>1, <3>1 DEF TablesInv
    <3>2. CASE tables' # tables
      <4>1. PICK row \in Row : /\ load[i].new \in DOMAIN tables["source"] /\ TableOf(row.type) = "source"
                               /\ Rewrites("source", load[i].new, row)
        BY <2>1, <3>2, Zenon
      <4> QED
        BY <1>1, <1>2, <4>1, Replaced, Zenon
    <3> QED
      BY <3>1, <3>2
  <2>4. UNCHANGED <<edit, listing, boots, faults, edits>>
    BY <1>9 DEF createFactoryRules
  <2> QED
    BY <1>1, <1>3, <2>1, <2>2, <2>3, <2>4
<1>10. ASSUME NEW i \in Instance, EnsureFails(i) \/ Dies(i) PROVE CatalogTypeInv'
  <2>1. load[i] \in Loading /\ Down \in Loading /\ Down.pc = "down"
    BY <1>1, CatalogDown
  <2>2. CASE EnsureFails(i)
    <3>1. AtNext(load[i]) \in Loading /\ LoadsRight(AtNext(load[i]))
      BY <2>1, <2>2, AtNextType DEF EnsureFails
    <3>2. /\ load' = [load EXCEPT ![i] = AtNext(load[i])] /\ faults' \in Nat
          /\ UNCHANGED <<tables, edit, listing, boots, edits>>
      BY <1>1, <2>2 DEF EnsureFails
    <3> HIDE DEF LoadsRight
    <3>3. TablesInv' /\ \A t \in Listed : DOMAIN tables[t] \subseteq DOMAIN tables'[t]
      BY <1>1, <3>2 DEF TablesInv
    <3> QED
      BY <1>1, <1>3, <3>1, <3>2, <3>3
  <2>3. CASE Dies(i)
    BY <1>1, <1>3, <2>1, <2>3 DEF Dies, TablesInv
  <2> QED
    BY <1>10, <2>2, <2>3
<1>11. ASSUME NEW t \in Table, NEW row \in NewRows(t), Create(t, row) PROVE CatalogTypeInv'
  <2>1. t \in Listed /\ row \in Row /\ TableOf(row.type) = t
    BY Tables DEF NewRows
  <2>2. TablesInv' /\ \A u \in Listed : DOMAIN tables[u] \subseteq DOMAIN tables'[u]
    BY <1>1, <1>11, <2>1, Appended DEF Create, Appends
  <2>3. listing' \in ListState
    <3>1. tables[t] \in Seq(Row)
      BY <1>1, <2>1 DEF TablesInv
    <3>2. Len(tables[t]) + 1 \in Nat /\ Written(t, Len(tables[t]) + 1)
      BY <1>11, <3>1 DEF Create
    <3> QED
      BY <1>1, <3>2, WrittenTo
  <2>4. EditRight' /\ edits' \in Nat /\ UNCHANGED <<load, edit, boots, faults>>
    BY <1>1, <1>2, <1>11, <2>2 DEF Create
  <2> QED
    BY <1>1, <1>4, <2>2, <2>3, <2>4
<1>12. ASSUME NEW t \in Table, Delete(t) PROVE CatalogTypeInv'
  <2>1. PICK id \in LiveRows(t) :
          /\ tables' = [tables EXCEPT ![t][id].live = FALSE]
          /\ listing' = IF listing.table = t
                        THEN [listing EXCEPT !.order = Without(@, id), !.kept = @ \ {id}, !.shifts = @ + 1]
                        ELSE listing
          /\ Edited(t, {id})
    BY <1>12 DEF Delete
  <2>2. PICK row \in Row : /\ TableOf(row.type) = t /\ id \in DOMAIN tables[t] /\ id \in Nat
                           /\ Rewrites(t, id, row)
    <3>1. tables' = [tables EXCEPT ![t][id].live = FALSE]
      BY <2>1
    <3>2. \E row \in Row :
              /\ row = [tables[t][id] EXCEPT !.live = FALSE] /\ ~ row.live
              /\ TableOf(row.type) = t /\ id \in DOMAIN tables[t] /\ id \in Nat
              /\ Rewrites(t, id, row)
      BY <3>1, DeletedRow
    <3> QED
      BY <3>2, Zenon
  <2>3. TablesInv' /\ \A u \in Listed : DOMAIN tables'[u] = DOMAIN tables[u]
    BY <1>1, <2>2, Tables, Replaced
  <2>4. listing' \in ListState
    <3>0. listing.order \in Seq(Nat) /\ listing.kept \in SUBSET Nat /\ listing.shifts \in Nat
      BY <1>1 DEF ListState
    <3>1. Without(listing.order, id) \in Seq(Nat)
      BY <2>2, <3>0, ScanWithout, Zenon
    <3>2. listing.kept \ {id} \in SUBSET Nat /\ listing.shifts + 1 \in Nat
      BY <3>0
    <3>3. CASE listing.table = t
      <4>1. listing' = [listing EXCEPT !.order = Without(listing.order, id), !.kept = listing.kept \ {id},
                                       !.shifts = listing.shifts + 1]
        BY <2>1, <3>3
      <4> QED
        BY <1>1, <3>1, <3>2, <4>1 DEF ListState
    <3> QED
      BY <1>1, <2>1, <3>3
  <2>5. EditRight' /\ edits' \in Nat /\ UNCHANGED <<edit, boots, faults>>
    BY <1>1, <1>2, <1>12, <2>3 DEF Delete
  <2> QED
    BY <1>1, <1>4, <1>5, <2>1, <2>3, <2>4, <2>5
<1>13. ASSUME NEW t \in Table, Reads(t) PROVE CatalogTypeInv'
  <2>1. PICK id \in LiveRows(t), row \in Row :
            row.live /\ TableOf(row.type) = t /\ edit' = [table |-> t, id |-> id, row |-> row]
    BY <1>13 DEF Reads
  <2>2. t \in Listed /\ id \in DOMAIN tables[t] /\ id \in Nat
    BY <1>1, Tables, LiveIds
  <2>3. edit' \in Edit /\ UNCHANGED <<tables, load, listing, boots, faults>> /\ edits' \in Nat
    BY <1>1, <1>13, <2>1, <2>2 DEF Reads, Edit
  <2>4. EditRight'
    BY <2>1, <2>2, <2>3
  <2> QED
    BY <1>1, <1>4, <2>3, <2>4 DEF TablesInv
<1>14. CASE UpdateSaves
  <2>1. /\ edit.id \in DOMAIN tables[edit.table] /\ edit.id \in Nat
        /\ edit.row \in Row /\ TableOf(edit.row.type) = edit.table
        /\ Rewrites(edit.table, edit.id, edit.row)
    BY <1>14, SavedRow
  <2>2. TablesInv' /\ \A u \in Listed : DOMAIN tables'[u] = DOMAIN tables[u]
    BY <1>1, <1>2, <2>1, Replaced
  <2>3. listing' \in ListState
    BY <1>1, <1>14, <2>1, WrittenTo DEF UpdateSaves
  <2>4. NoEdit \in Edit /\ NoEdit.id = 0
    BY CatalogDown
  <2>5. edit' = NoEdit /\ UNCHANGED <<boots, faults, edits>> /\ Edited(edit.table, {edit.id})
    BY <1>14 DEF UpdateSaves
  <2>6. edit' \in Edit /\ EditRight'
    BY <2>4, <2>5
  <2> QED
    BY <1>1, <1>4, <1>5, <2>2, <2>3, <2>5, <2>6
<1>15. CASE RowSaved
  <2>1. listing.table \in Listed
    BY <1>15 DEF RowSaved
  <2>2. listing' \in ListState
    BY <1>1, <1>15, <2>1, LiveIds, WrittenTo DEF RowSaved
  <2>3. UNCHANGED <<tables, load, edit, boots, faults>> /\ edits' \in Nat
    BY <1>1, <1>15 DEF RowSaved
  <2> QED
    BY <1>1, <1>4, <2>2, <2>3 DEF TablesInv
<1>16. ASSUME NEW t \in Listed, List(t) PROVE CatalogTypeInv'
  <2>1. listing' \in ListState
    <3> DEFINE rest == PageAt(listing.order, Len(listing.out))
               cut == listing.limit # 0 /\ Len(rest) >= listing.limit
               page == IF cut THEN SubSeq(rest, 1, listing.limit) ELSE rest
    <3>1. listing.order \in Seq(Nat) /\ listing.out \in Seq(Nat) /\ listing.limit \in Nat
      BY <1>1 DEF ListState, CatalogAssumption
    <3>2. rest \in Seq(Nat) /\ (cut => SubSeq(rest, 1, listing.limit) \in Seq(Nat))
      <4>1. Len(listing.out) \in Nat
        BY <3>1
      <4>2. /\ OnPage(listing.order, Len(listing.out), rest) /\ Len(rest) \in Nat
            /\ listing.limit <= Len(rest) =>
                   OnPage(listing.order, Len(listing.out), SubSeq(rest, 1, listing.limit))
        BY <3>1, <4>1, Paged
      <4> HIDE DEF rest
      <4> QED
        BY <3>1, <4>2 DEF OnPage
    <3>3. page \in Seq(Nat) /\ cut \in BOOLEAN
      BY <3>2
    <3>4. listing' = [listing EXCEPT !.out = @ \o page, !.over = ~cut]
      BY <1>16 DEF List
    <3> HIDE DEF page, cut
    <3>5. listing.out \o page \in Seq(Nat)
      BY <3>1, <3>3
    <3> QED
      BY <1>1, <3>3, <3>4, <3>5 DEF ListState
  <2> QED
    BY <1>1, <1>4, <1>16, <2>1 DEF List, TablesInv
<1>17. CASE Users
  BY <1>1, <1>11, <1>12, <1>13, <1>14, <1>15, <1>16, <1>17, UsersDo, Zenon
<1>18. CASE UNCHANGED catalogVars
  BY <1>1, <1>4, <1>18 DEF catalogVars, TablesInv
<1> QED
  BY <1>6, <1>7, <1>8, <1>9, <1>10, <1>17, <1>18 DEF CatalogNext

\* Rows that differ in their rules at most.
Alike(r, s) == r.type = s.type /\ r.name = s.name /\ r.owner = s.owner /\ r.refs = s.refs /\ r.live = s.live

\* The rules of a source are all that createFactoryRules changes.
LEMMA RulesOnly ==
    ASSUME CatalogTypeInv, LoadOrderAssumption, NEW i \in Instance, createFactoryRules(i),
           NEW u \in Listed
    PROVE  DOMAIN tables'[u] = DOMAIN tables[u] /\ \A id \in DOMAIN tables[u] : Alike(tables'[u][id], tables[u][id])
<1>1. CASE tables' = tables
  BY <1>1 DEF Alike
<1>2. CASE tables' # tables
  <2> DEFINE t == "source"
             new == load[i].new
  <2>1. \E row \in Row :
            /\ load[i].new \in DOMAIN tables["source"]
            /\ row = [tables["source"][load[i].new] EXCEPT !.ruled = TRUE]
            /\ TableOf(row.type) = "source"
            /\ Rewrites("source", load[i].new, row)
    BY <1>2, RuledRow, Zenon
  <2>2. PICK row \in Row : /\ new \in DOMAIN tables[t] /\ row = [tables[t][new] EXCEPT !.ruled = TRUE]
                           /\ TableOf(row.type) = t /\ Rewrites(t, new, row)
    BY <2>1
  <2>3. t \in Listed /\ TablesInv
    BY DEF Listed, Table, CatalogTypeInv
  <2> HIDE DEF t, new
  <2>4. new \in DOMAIN tables[t] /\ TableOf(row.type) = t /\ Rewrites(t, new, row)
    BY <2>2
  <2>5. (\A v \in Listed : DOMAIN tables'[v] = DOMAIN tables[v]) /\ tables'[t][new] = row
    BY <2>3, <2>4, Replaced
  <2>6. \A v \in Listed : \A n \in DOMAIN tables[v] : v # t \/ n # new => tables'[v][n] = tables[v][n]
    BY <2>3, <2>4, Replaced, Zenon
  <2>7. tables[t][new] \in Row
    BY <2>2, <2>3 DEF TablesInv
  <2>8. Alike(row, tables[t][new])
    BY <2>2, <2>7 DEF Row, Alike
  <2> QED
    BY <2>5, <2>6, <2>8 DEF Alike
<1> QED
  BY <1>1, <1>2

-----------------------------------------------------------------------------
(* Load is idempotent.                                                     *)

\* A look-up finds every live row that has the natural key of the row it would
\* create.
LEMMA FoundAgain ==
    ASSUME TablesInv, NEW i \in Instance, NEW k \in Resource, NEW t \in Table, NEW id \in LiveRows(t),
           Key(tables[t][id]) = Key(Ensure(i, k).row)
    PROVE  id \in Ensure(i, k).existing
<1> DEFINE row == tables[t][id]
           e == Ensure(i, k)
<1>1. t \in Listed /\ id \in DOMAIN tables[t] /\ TableOf(row.type) = t
  BY Tables, LiveIds DEF TablesInv
<1>2. e.row.type = k /\ e.row.name = Declared
  BY EnsureRow
<1>3. /\ row.type = e.row.type /\ row.name = e.row.name /\ row.owner = e.row.owner
      /\ row.refs["pipeline"] = e.row.refs["pipeline"]
  BY DEF Key
<1>4. row.type = k /\ t = TableOf(k) /\ id \in ByName(t)
  BY <1>1, <1>2, <1>3 DEF ByName
<1>5. CASE k \in {"chain", "abi", "store"}
  <2>1. t = k
    BY <1>4, <1>5 DEF TableOf
  <2> QED
    BY <1>4, <1>5, <2>1 DEF Ensure, ensureBlockchain, ensureAbi, ensureStore, Found
<1>6. CASE k = "pipeline"
  <2>1. e.row.owner = i
    BY <1>6 DEF Ensure, ensurePipeline, Found, NewRow
  <2>2. t = "pipeline" /\ e.existing = Pipelines(i)
    BY <1>4, <1>6 DEF TableOf, Ensure, ensurePipeline, Found
  <2> QED
    BY <1>3, <1>4, <2>1, <2>2 DEF Pipelines
<1>7. CASE k \in {"source", "factory"}
  <2> DEFINE p == pipelineIDByName(i)
  <2>1. e.row.refs["pipeline"] = p
    BY <1>7 DEF Ensure, ensureSource, Found, NewRow, NoRefs, Table
  <2>2. t = "source" /\ e.existing = SameSource(k, p)
    BY <1>4, <1>7 DEF TableOf, Ensure, ensureSource, Found
  <2> QED
    BY <1>3, <1>4, <2>1, <2>2 DEF SameSource
<1>8. CASE k = "exporter"
  <2> DEFINE p == pipelineIDByName(i)
  <2>1. e.row.refs["pipeline"] = p
    BY <1>8 DEF Ensure, ensureExporter, Found, NewRow, NoRefs, Table
  <2>2. t = "exporter" /\ e.existing = {n \in ByName("exporter") : tables["exporter"][n].refs["pipeline"] = p}
    BY <1>4, <1>8 DEF TableOf, Ensure, ensureExporter, Found
  <2> QED
    BY <1>3, <1>4, <2>1, <2>2
<1> QED
  BY <1>5, <1>6, <1>7, <1>8 DEF Resource, Table

\* What the loads keep is still there, alive, and under the same key.
Stays(i) ==
    /\ load'[i].kept \subseteq load[i].kept
    /\ load'[i].pc = "create" => load[i].pc = "create" /\ load'[i].row = load[i].row
    /\ \A k \in load'[i].kept : /\ k[2] \in LiveRows(k[1])'
                                /\ Key(tables'[k[1]][k[2]]) = Key(tables[k[1]][k[2]])

\* A kept row stays kept if the step neither deletes it nor changes its key.
LEMMA RowKept ==
    ASSUME CatalogTypeInv, KeptInv, NEW i \in Instance, load'[i].kept \subseteq load[i].kept,
           load'[i].pc = "create" => load[i].pc = "create" /\ load'[i].row = load[i].row,
           \A k \in load'[i].kept : k[1] \in Listed /\ k[2] \in DOMAIN tables[k[1]] =>
              /\ k[2] \in DOMAIN tables'[k[1]]
              /\ tables'[k[1]][k[2]].live = tables[k[1]][k[2]].live
              /\ Key(tables'[k[1]][k[2]]) = Key(tables[k[1]][k[2]])
    PROVE  Stays(i)
<1>1. load[i] \in Loading
  BY DEF CatalogTypeInv
<1>2. load[i].kept \subseteq Table \X Nat
  BY <1>1 DEF Loading
<1> SUFFICES ASSUME NEW k \in load'[i].kept
             PROVE  k[2] \in LiveRows(k[1])' /\ Key(tables'[k[1]][k[2]]) = Key(tables[k[1]][k[2]])
  BY DEF Stays
<1>3. k[1] \in Listed /\ k[2] \in LiveRows(k[1])
  BY <1>2, Tables DEF KeptInv
<1> QED
  BY <1>3 DEF LiveRows

\* No step takes a kept row away or gives its key to what is about to be created.
LEMMA KeptKept ==
    ASSUME CatalogAssumption, LoadOrderAssumption, CatalogTypeInv, KeptInv, [CatalogNext]_catalogVars
    PROVE  KeptInv'
<1> DEFINE Right(i) == \A k \in load[i].kept :
                          /\ k[2] \in LiveRows(k[1])
                          /\ load[i].pc = "create" => Key(tables[k[1]][k[2]]) # Key(load[i].row)
<1>1. TablesInv /\ load \in [Instance -> Loading] /\ \A i \in Instance : Right(i)
  BY DEF CatalogTypeInv, KeptInv
<1>2. ASSUME NEW i \in Instance, Stays(i) PROVE Right(i)'
  BY <1>1, <1>2 DEF Stays
<1>3. ASSUME NEW i \in Instance, load'[i] = load[i],
             \A t \in Listed : \A id \in DOMAIN tables[t] : /\ id \in DOMAIN tables'[t]
                                                            /\ tables'[t][id] = tables[t][id]
      PROVE  Stays(i)
  BY <1>3, RowKept
<1>4. UNCHANGED tables => \A t \in Listed : \A id \in DOMAIN tables[t] :
          id \in DOMAIN tables'[t] /\ tables'[t][id] = tables[t][id]
  OBVIOUS
<1>5. UNCHANGED tables => \A t : LiveRows(t)' = LiveRows(t)
  BY DEF LiveRows
<1>6. ASSUME NEW i \in Instance, Boot(i) PROVE KeptInv'
  <2>1. load[i] \in Loading /\ UNCHANGED tables /\ Down \in Loading
    BY <1>1, <1>6, CatalogDown DEF Boot
  <2>2. load' = [load EXCEPT ![i] = [Down EXCEPT !.pc = "look", !.kept = UNION {{t} \X LiveRows(t) : t \in Table}]]
    BY <1>6 DEF Boot
  <2>3. /\ load'[i].pc = "look" /\ load'[i].kept = UNION {{t} \X LiveRows(t) : t \in Table}
        /\ \A j \in Instance \ {i} : load'[j] = load[j]
    BY <1>1, <2>1, <2>2 DEF Loading
  <2>4. Right(i)'
    <3>1. ASSUME NEW k \in load'[i].kept PROVE k[2] \in LiveRows(k[1])
      <4>1. PICK t \in Table : k \in {t} \X LiveRows(t)
        BY <2>3, <3>1
      <4> QED
        BY <4>1
    <3>2. \A k \in load'[i].kept : k[2] \in LiveRows(k[1])'
      BY <1>5, <2>1, <3>1
    <3> QED
      BY <2>3, <3>2
  <2>5. \A j \in Instance \ {i} : Right(j)'
    BY <1>2, <1>3, <1>4, <2>1, <2>3
  <2> QED
    BY <2>4, <2>5 DEF KeptInv
<1>7. ASSUME NEW i \in Instance, EnsureReads(i) PROVE KeptInv'
  <2> DEFINE k == LoadOrder[load[i].pos]
             e == Ensure(i, k)
  <2>1. UNCHANGED tables /\ load[i] \in Loading /\ load[i].pc = "look"
    BY <1>1, <1>7 DEF EnsureReads
  <2>2. k \in Resource
    <3>1. load[i].pos \in DOMAIN LoadOrder
      BY <2>1 DEF Loading
    <3> QED
      BY <3>1 DEF LoadOrderAssumption
  <2> HIDE DEF k
  <2>3. load' = [load EXCEPT ![i] = IF e.missing \/ e.existing # {} THEN AtNext(load[i])
                                    ELSE [load[i] EXCEPT !.pc = "create", !.row = e.row]]
    BY <1>7 DEF EnsureReads, k
  <2> HIDE DEF e
  <2>4. \A j \in Instance \ {i} : Right(j)'
    <3>1. \A j \in Instance \ {i} : load'[j] = load[j]
      BY <1>1, <2>3
    <3> QED
      BY <1>2, <1>3, <1>4, <2>1, <3>1
  <2>5. CASE e.missing \/ e.existing # {}
    <3>1. load'[i] = AtNext(load[i])
      BY <1>1, <2>3, <2>5
    <3>2. load'[i].pc \in {"look", "done"} /\ load'[i].kept \subseteq load[i].kept
      BY <2>1, <3>1, AtNextType
    <3> QED
      BY <1>1, <1>5, <2>1, <2>4, <3>2 DEF KeptInv
  <2>6. CASE ~ (e.missing \/ e.existing # {})
    <3>1. load'[i] = [load[i] EXCEPT !.pc = "create", !.row = e.row]
      BY <1>1, <2>3, <2>6
    <3>2. load'[i].kept = load[i].kept /\ load'[i].row = e.row
      BY <2>1, <3>1 DEF Loading
    <3>3. load[i].kept \subseteq Table \X Nat
      BY <2>1 DEF Loading
    <3>4. ASSUME NEW n \in load[i].kept
          PROVE  n[2] \in LiveRows(n[1]) /\ Key(tables[n[1]][n[2]]) # Key(e.row)
      <4>1. n[2] \in LiveRows(n[1]) /\ n[1] \in Table
        BY <1>1, <3>3
      <4>2. Key(tables[n[1]][n[2]]) = Key(Ensure(i, k).row) => n[2] \in Ensure(i, k).existing
        BY <1>1, <2>2, <4>1, FoundAgain, Zenon
      <4> QED
        BY <2>6, <4>1, <4>2 DEF e
    <3> QED
      BY <1>1, <1>5, <2>1, <2>4, <3>2, <3>4 DEF KeptInv
  <2> QED
    BY <2>5, <2>6
<1>8. ASSUME NEW i \in Instance, EnsureCreates(i) PROVE KeptInv'
  <2> DEFINE t == TableOf(load[i].row.type)
  <2>1. /\ load[i].row \in Row /\ t \in Table /\ Appends(t, load[i].row)
        /\ load' = [load EXCEPT ![i] = load'[i]]
        /\ load'[i].pc \in {"look", "rules", "done"} /\ load'[i].kept \subseteq load[i].kept
    BY <1>8, CreatedRow, Zenon
  <2>2. t \in Listed
    BY <2>1, Tables
  <2>3. t = TableOf(load[i].row.type)
    OBVIOUS
  <2> HIDE DEF t
  <2>4. \A u \in Listed : \A id \in DOMAIN tables[u] : id \in DOMAIN tables'[u] /\ tables'[u][id] = tables[u][id]
    BY <1>1, <2>1, <2>2, <2>3, Appended, Zenon
  <2>5. \A j \in Instance \ {i} : load'[j] = load[j]
    BY <1>1, <2>1
  <2>6. Stays(i)
    BY <2>1, <2>4, RowKept
  <2> QED
    BY <1>2, <1>3, <2>4, <2>5, <2>6 DEF KeptInv
<1>9. ASSUME NEW i \in Instance, createFactoryRules(i) PROVE KeptInv'
  <2>1. /\ load[i] \in Loading /\ load[i].pc = "rules" /\ load' = [load EXCEPT ![i] = AtNext(load[i])]
        /\ load'[i] = AtNext(load[i])
    BY <1>9, RuledRow, Zenon
  <2>2. \A u \in Listed : \A id \in DOMAIN tables[u] :
            /\ id \in DOMAIN tables'[u] /\ tables'[u][id].live = tables[u][id].live
            /\ Key(tables'[u][id]) = Key(tables[u][id])
    BY <1>9, RulesOnly DEF Alike, Key
  <2>3. load'[i].pc \in {"look", "done"} /\ load'[i].kept \subseteq load[i].kept
    BY <2>1, AtNextType
  <2>4. \A j \in Instance \ {i} : load'[j] = load[j]
    BY <1>1, <2>1
  <2>5. ASSUME NEW j \in Instance PROVE Stays(j)
    <3>1. load'[j].kept \subseteq load[j].kept /\ (load'[j].pc = "create" => j # i)
      BY <2>3, <2>4
    <3> QED
      BY <2>2, <2>4, <3>1, RowKept
  <2> QED
    BY <1>2, <2>5 DEF KeptInv
<1>10. ASSUME NEW i \in Instance, EnsureFails(i) \/ Dies(i) PROVE KeptInv'
  <2>1. load[i] \in Loading /\ Down \in Loading /\ Down.pc = "down" /\ Down.kept = {} /\ UNCHANGED tables
    BY <1>1, <1>10, CatalogDown DEF EnsureFails, Dies
  <2>2. EnsureFails(i) => load'[i] = AtNext(load[i]) /\ load[i].pc # "down"
    BY <1>1 DEF EnsureFails
  <2>3. Dies(i) => load'[i] = Down
    BY <1>1 DEF Dies
  <2>4. load'[i].pc # "create" /\ load'[i].kept \subseteq load[i].kept
    BY <1>10, <2>1, <2>2, <2>3, AtNextType
  <2>5. \A j \in Instance \ {i} : load'[j] = load[j]
    BY <1>1, <1>10 DEF EnsureFails, Dies
  <2> QED
    BY <1>1, <1>2, <1>3, <1>4, <1>5, <2>1, <2>4, <2>5 DEF KeptInv
<1>11. ASSUME NEW t \in Table, NEW row \in NewRows(t), Create(t, row) PROVE KeptInv'
  <2>1. t \in Listed /\ row \in Row /\ TableOf(row.type) = t /\ Appends(t, row)
    BY <1>11, Tables DEF NewRows, Create, Appends
  <2>2. \A u \in Listed : \A id \in DOMAIN tables[u] : id \in DOMAIN tables'[u] /\ tables'[u][id] = tables[u][id]
    BY <1>1, <2>1, Appended, Zenon
  <2> QED
    BY <1>2, <1>3, <1>11, <2>2 DEF KeptInv, Create
\* An edit takes its row out of what the loads keep.
<1>12. ASSUME NEW t \in Listed, NEW id \in DOMAIN tables[t], NEW row \in Row, TableOf(row.type) = t,
              Rewrites(t, id, row), Edited(t, {id})
       PROVE  KeptInv'
  <2>1. /\ \A u \in Listed : DOMAIN tables'[u] = DOMAIN tables[u]
        /\ \A u \in Listed : \A n \in DOMAIN tables[u] : u # t \/ n # id => tables'[u][n] = tables[u][n]
    <3>1. TablesInv /\ Rewrites(t, id, row) /\ TableOf(row.type) = t
      BY <1>1, <1>12
    <3>2. \A u \in Listed : DOMAIN tables'[u] = DOMAIN tables[u]
      BY <3>1, Replaced, Zenon
    <3>3. \A u \in Listed : \A n \in DOMAIN tables[u] : u # t \/ n # id => tables'[u][n] = tables[u][n]
      BY <3>1, Replaced, Zenon
    <3> QED
      BY <3>2, <3>3
  <2>2. ASSUME NEW i \in Instance PROVE Stays(i)
    <3>1. /\ load'[i].kept = load[i].kept \ ({t} \X {id})
          /\ load'[i].pc = load[i].pc /\ load'[i].row = load[i].row
      <4> DEFINE kept == load[i].kept \ ({t} \X {id})
      <4>1. load[i] \in Loading
        BY <1>1
      <4>2. load'[i] = [load[i] EXCEPT !.kept = kept]
        BY <1>12 DEF Edited
      <4> HIDE DEF kept
      <4>3. load'[i].kept = kept /\ load'[i].pc = load[i].pc /\ load'[i].row = load[i].row
        BY <4>1, <4>2 DEF Loading
      <4> QED
        BY <4>3 DEF kept
    <3>2. \A k \in load'[i].kept : ~ (k[1] = t /\ k[2] = id)
      <4>1. load[i].kept \subseteq Table \X Nat
        BY <1>1 DEF Loading
      <4> QED
        BY <3>1, <4>1
    <3> QED
      BY <2>1, <3>1, <3>2, RowKept
  <2> QED
    BY <1>2, <2>2 DEF KeptInv
<1>13. ASSUME NEW t \in Table, Delete(t) PROVE KeptInv'
  <2>1. PICK id \in LiveRows(t) : tables' = [tables EXCEPT ![t][id].live = FALSE] /\ Edited(t, {id})
    BY <1>13 DEF Delete
  <2>2. \E row \in Row :
            /\ row = [tables[t][id] EXCEPT !.live = FALSE] /\ ~ row.live
            /\ TableOf(row.type) = t /\ id \in DOMAIN tables[t] /\ id \in Nat
            /\ Rewrites(t, id, row)
    BY <2>1, DeletedRow
  <2>3. PICK row \in Row : /\ TableOf(row.type) = t /\ id \in DOMAIN tables[t]
                           /\ Rewrites(t, id, row)
    BY <2>2, Zenon
  <2> QED
    BY <1>12, <2>1, <2>3, Tables
<1>14. CASE UpdateSaves
  <2>1. Edited(edit.table, {edit.id})
    BY <1>14 DEF UpdateSaves
  <2> QED
    BY <1>12, <1>14, <2>1, SavedRow
<1>15. ASSUME UNCHANGED <<tables, load>> PROVE KeptInv'
  BY <1>2, <1>3, <1>4, <1>15 DEF KeptInv
<1>16. ASSUME Users PROVE KeptInv'
  <2>1. ASSUME NEW t \in Table, Reads(t) PROVE KeptInv'
    BY <1>15, <2>1 DEF Reads
  <2>2. CASE RowSaved
    BY <1>15, <2>2 DEF RowSaved
  <2>3. ASSUME NEW t \in Listed, List(t) PROVE KeptInv'
    BY <1>15, <2>3 DEF List
  <2> QED
    BY <1>1, <1>11, <1>13, <1>14, <1>16, <2>1, <2>2, <2>3, UsersDo, Zenon
<1>17. CASE UNCHANGED catalogVars
  BY <1>15, <1>17 DEF catalogVars
<1> QED
  BY <1>6, <1>7, <1>8, <1>9, <1>10, <1>16, <1>17 DEF CatalogNext

\* Before its start a load has kept nothing.
LEMMA KeptInitially == ASSUME CatalogAssumption, LoadOrderAssumption, CatalogInit PROVE KeptInv
<1>1. \A i \in Instance : load[i].kept = {}
  <2>1. Down \in Loading /\ Down.kept = {}
    BY CatalogDown
  <2>2. [Down EXCEPT !.pc = "done"].kept = {} /\ [Down EXCEPT !.pc = "down"].kept = {}
    BY <2>1 DEF Loading
  <2> QED
    BY <2>1, <2>2 DEF CatalogInit
<1> QED
  BY <1>1 DEF KeptInv

-----------------------------------------------------------------------------
(* A listing misses few rows.                                              *)

\* How many rows a set and one disjoint from it have together, and a part of one.
LEMMA Sizes ==
    ASSUME NEW S, NEW T, IsFiniteSet(S), IsFiniteSet(T)
    PROVE  /\ Cardinality(S) \in Nat /\ Cardinality(T) \in Nat
           /\ S \cap T = {} => IsFiniteSet(S \cup T) /\ Cardinality(S \cup T) = Cardinality(S) + Cardinality(T)
           /\ S \subseteq T => /\ Cardinality(S) <= Cardinality(T) /\ IsFiniteSet(T \ S)
                               /\ Cardinality(T \ S) = Cardinality(T) - Cardinality(S)
           /\ \A x : S \ {x} \subseteq T => Cardinality(S) <= Cardinality(T) + 1
<1>1. Cardinality(S) \in Nat /\ Cardinality(T) \in Nat
  BY FS_CardinalityType
<1>2. ASSUME S \cap T = {}
      PROVE  IsFiniteSet(S \cup T) /\ Cardinality(S \cup T) = Cardinality(S) + Cardinality(T)
  <2>1. /\ IsFiniteSet(S \cup T)
        /\ Cardinality(S \cup T) = Cardinality(S) + Cardinality(T) - Cardinality(S \cap T)
    BY FS_Union, Zenon
  <2>2. Cardinality(S \cap T) = 0
    BY <1>2, FS_EmptySet, Zenon
  <2> QED
    BY <1>1, <2>1, <2>2
<1>3. ASSUME S \subseteq T
      PROVE  /\ Cardinality(S) <= Cardinality(T) /\ IsFiniteSet(T \ S)
             /\ Cardinality(T \ S) = Cardinality(T) - Cardinality(S)
  <2>1. T \cap S = S
    BY <1>3
  <2>2. Cardinality(S) <= Cardinality(T)
    BY <1>3, FS_Subset
  <2>3. IsFiniteSet(T \ S) /\ Cardinality(T \ S) = Cardinality(T) - Cardinality(T \cap S)
    BY FS_Difference, Zenon
  <2> QED
    BY <2>1, <2>2, <2>3
<1>4. ASSUME NEW x, S \ {x} \subseteq T PROVE Cardinality(S) <= Cardinality(T) + 1
  <2>1. /\ IsFiniteSet(S \ {x})
        /\ Cardinality(S \ {x}) = IF x \in S THEN Cardinality(S) - 1 ELSE Cardinality(S)
    BY FS_RemoveElement, Zenon
  <2>2. Cardinality(S \ {x}) <= Cardinality(T)
    BY <1>4, FS_Subset
  <2> QED
    BY <1>1, <2>1, <2>2
<1> QED
  BY <1>1, <1>2, <1>3, <1>4

\* The first k places of a scan have at most k rows.
LEMMA FrontSize ==
    ASSUME NEW order \in Seq(Nat), NEW k \in Nat
    PROVE  /\ Upto(order, k) \subseteq ToSet(order) /\ IsFiniteSet(Upto(order, k))
           /\ Cardinality(Upto(order, k)) <= k
           /\ Len(order) <= k => Upto(order, k) = ToSet(order)
<1>1. Upto(order, k) \subseteq ToSet(order)
  BY DEF Upto, ToSet
<1>2. IsFiniteSet(ToSet(order)) /\ Cardinality(ToSet(order)) <= Len(order) /\ Cardinality(ToSet(order)) \in Nat
  BY Elements
<1>3. Len(order) \in Nat /\ DOMAIN order = 1 .. Len(order)
  OBVIOUS
<1>4. Len(order) <= k => Upto(order, k) = ToSet(order)
  <2>1. Len(order) <= k => \A m \in DOMAIN order : m <= k
    BY <1>3
  <2> QED
    BY <2>1 DEF Upto, ToSet
<1>5. IsFiniteSet(Upto(order, k))
  BY <1>1, <1>2, FS_Subset
<1>6. Cardinality(Upto(order, k)) <= k
  <2>1. CASE Len(order) <= k
    BY <1>2, <1>3, <1>4, <2>1
  <2>2. CASE ~ (Len(order) <= k)
    <3> DEFINE front == SubSeq(order, 1, k)
    <3>1. front \in Seq(Nat) /\ Len(front) = k
      BY <1>3, <2>2
    <3>2. DOMAIN front = 1 .. k /\ \A m \in 1 .. k : m \in DOMAIN order /\ front[m] = order[m]
      BY <1>3, <2>2
    <3> HIDE DEF front
    <3>3. \A m \in DOMAIN order : m <= k => m \in DOMAIN front
      BY <1>3, <3>2
    <3>4. Upto(order, k) \subseteq ToSet(front)
      BY <3>2, <3>3 DEF Upto, ToSet
    <3>5. IsFiniteSet(ToSet(front)) /\ Cardinality(ToSet(front)) <= k /\ Cardinality(ToSet(front)) \in Nat
      BY <3>1, Elements
    <3>6. Cardinality(Upto(order, k)) <= Cardinality(ToSet(front)) /\ Cardinality(Upto(order, k)) \in Nat
      BY <1>5, <3>4, <3>5, Sizes
    <3> QED
      BY <3>5, <3>6
  <2> QED
    BY <2>1, <2>2
<1> QED
  BY <1>1, <1>4, <1>5, <1>6, Zenon

\* A page behind the first k rows of a scan has others.
LEMMA Behind ==
    ASSUME NEW order \in Seq(Nat), Distinct(order), NEW k \in Nat, NEW page, OnPage(order, k, page)
    PROVE  /\ IsFiniteSet(ToSet(page)) /\ Cardinality(ToSet(page)) = Len(page)
           /\ ToSet(page) \cap Upto(order, k) = {} /\ ToSet(page) \subseteq ToSet(order)
           /\ Upto(order, k + Len(page)) = Upto(order, k) \cup ToSet(page)
<1>1. /\ Len(order) \in Nat /\ DOMAIN order = 1 .. Len(order)
      /\ page \in Seq(Nat) /\ Len(page) \in Nat /\ DOMAIN page = 1 .. Len(page)
      /\ Len(page) # 0 => k + Len(page) <= Len(order)
  BY DEF OnPage
<1>2. \A m \in DOMAIN page : k + m \in DOMAIN order /\ ~ (k + m <= k) /\ k + m <= k + Len(page)
  BY <1>1
<1>3. \A m \in DOMAIN page : page[m] = order[k + m]
  BY <1>1 DEF OnPage
<1>4. \A m, n \in DOMAIN page : page[m] = page[n] => m = n
  <2> SUFFICES ASSUME NEW m \in DOMAIN page, NEW n \in DOMAIN page, page[m] = page[n] PROVE m = n
    OBVIOUS
  <2>1. k + m = k + n
    BY <1>2, <1>3, Zenon DEF Distinct
  <2> QED
    BY <1>1, <2>1
<1>5. IsFiniteSet(ToSet(page)) /\ Cardinality(ToSet(page)) = Len(page)
  BY <1>1, <1>4, Elements, Zenon
<1>6. \A m \in DOMAIN order : k + 1 <= m /\ m <= k + Len(page) => \E n \in DOMAIN page : k + n = m
  <2> SUFFICES ASSUME NEW m \in DOMAIN order, k + 1 <= m, m <= k + Len(page)
               PROVE  \E n \in DOMAIN page : k + n = m
    OBVIOUS
  <2>1. m \in Nat /\ m - k \in 1 .. Len(page) /\ k + (m - k) = m
    <3>1. \A a, b, c \in Nat : b + 1 <= a /\ a <= b + c => a - b \in 1 .. c /\ b + (a - b) = a
      OBVIOUS
    <3>2. m \in Nat
      BY <1>1
    <3> QED
      BY <1>1, <3>1, <3>2
  <2> QED
    BY <1>1, <2>1
<1>7. \A m \in DOMAIN order : /\ m <= k \/ k + 1 <= m
                              /\ m <= k => m <= k + Len(page)
  BY <1>1
<1>8. ToSet(page) \cap Upto(order, k) = {}
  <2> SUFFICES ASSUME NEW m \in DOMAIN page, NEW n \in DOMAIN order, n <= k, page[m] = order[n] PROVE FALSE
    BY DEF ToSet, Upto
  <2>1. k + m = n
    BY <1>2, <1>3, Zenon DEF Distinct
  <2> QED
    BY <1>2, <2>1
<1>9. ToSet(page) \subseteq ToSet(order)
  BY <1>2, <1>3 DEF ToSet
<1>10. Upto(order, k + Len(page)) = Upto(order, k) \cup ToSet(page)
  <2>1. ToSet(page) \subseteq Upto(order, k + Len(page))
    BY <1>2, <1>3 DEF ToSet, Upto
  <2>2. Upto(order, k) \subseteq Upto(order, k + Len(page))
    BY <1>7 DEF Upto
  <2>3. ASSUME NEW m \in DOMAIN order, m <= k + Len(page)
        PROVE  order[m] \in Upto(order, k) \cup ToSet(page)
    <3>1. CASE m <= k
      BY <3>1 DEF Upto
    <3>2. CASE k + 1 <= m
      <4>1. PICK n \in DOMAIN page : k + n = m
        BY <1>6, <2>3, <3>2
      <4>2. page[n] = order[m]
        BY <1>3, <4>1
      <4> QED
        BY <4>2 DEF ToSet
    <3> QED
      BY <1>7, <3>1, <3>2
  <2>4. Upto(order, k + Len(page)) \subseteq Upto(order, k) \cup ToSet(page)
    BY <2>3 DEF Upto
  <2> QED
    BY <2>1, <2>2, <2>4
<1> QED
  BY <1>5, <1>8, <1>9, <1>10

\* The rows that would come again are finitely many, before a step and after it.
LEMMA AgainFinite ==
    ASSUME listing \in ListState
    PROVE  /\ listing.order \in Seq(Nat) /\ listing.out \in Seq(Nat) /\ Len(listing.out) \in Nat
           /\ IsFiniteSet(Again) /\ Cardinality(Again) \in Nat
           /\ listing' \in ListState => IsFiniteSet(Again') /\ Cardinality(Again') \in Nat
<1>1. listing.order \in Seq(Nat) /\ listing.out \in Seq(Nat)
  BY DEF ListState
<1>2. Len(listing.out) \in Nat
  BY <1>1
<1>3. \A S : \A s \in Seq(Nat) : IsFiniteSet(ToSet(s) \cap S) /\ Cardinality(ToSet(s) \cap S) \in Nat
  <2> SUFFICES ASSUME NEW s \in Seq(Nat), NEW S
               PROVE  IsFiniteSet(ToSet(s) \cap S) /\ Cardinality(ToSet(s) \cap S) \in Nat
    OBVIOUS
  <2>1. IsFiniteSet(ToSet(s))
    BY Elements
  <2>2. IsFiniteSet(ToSet(s) \cap S)
    BY <2>1, FS_Subset
  <2> QED
    BY <2>2, FS_CardinalityType
<1>4. IsFiniteSet(Again) /\ Cardinality(Again) \in Nat
  BY <1>1, <1>3, Zenon DEF Again
<1>5. listing' \in ListState => listing'.out \in Seq(Nat)
  BY DEF ListState
<1>6. listing' \in ListState => IsFiniteSet(Again') /\ Cardinality(Again') \in Nat
  BY <1>3, <1>5, Zenon DEF Again
<1> QED
  BY <1>1, <1>2, <1>4, <1>6

\* The scan changes, and no more is lost than the shift accounts for.
LEMMA ScanMoves ==
    ASSUME listing \in ListState, listing' \in ListState, ScanInv,
           listing'.table = listing.table, listing'.over = listing.over, listing'.out = listing.out,
           listing'.kept \subseteq listing.kept, listing'.kept \subseteq ToSet(listing'.order),
           Distinct(listing'.order), listing.shifts <= listing'.shifts,
           Cardinality(Again) <= Cardinality(Again') \/ listing'.shifts = listing.shifts + 1,
           Cardinality(Again) <= Cardinality(Again') + 1
    PROVE  ScanInv'
<1>1. /\ listing.shifts \in Nat /\ listing'.shifts \in Nat /\ listing.order \in Seq(Nat)
      /\ listing.out \in Seq(Nat) /\ Len(listing.out) \in Nat
      /\ Cardinality(Again) \in Nat /\ Cardinality(Again') \in Nat
  <2>1. listing.shifts \in Nat /\ listing'.shifts \in Nat
    BY DEF ListState
  <2>2. /\ listing.order \in Seq(Nat) /\ listing.out \in Seq(Nat) /\ Len(listing.out) \in Nat
        /\ Cardinality(Again) \in Nat /\ Cardinality(Again') \in Nat
    BY AgainFinite
  <2> QED
    BY <2>1, <2>2
<1>2. ~ listing'.over => Len(listing'.out) <= listing'.shifts + Cardinality(Again')
  <2>1. ~ listing.over => Len(listing.out) <= listing.shifts + Cardinality(Again)
    BY DEF ScanInv
  <2> QED
    BY <1>1, <2>1
<1>3. ListMissesFew'
  <2> SUFFICES ASSUME Listing', listing'.over
               PROVE  /\ Cardinality(listing'.kept \ ToSet(listing.out)) <= listing'.shifts
                      /\ Len(listing.out) - Cardinality(ToSet(listing.out)) <= listing'.shifts
    BY DEF ListMissesFew
  <2>1. /\ Cardinality(listing.kept \ ToSet(listing.out)) <= listing.shifts
        /\ Len(listing.out) - Cardinality(ToSet(listing.out)) <= listing.shifts
    BY DEF ScanInv, ListMissesFew, Listing
  <2>2. IsFiniteSet(ToSet(listing.order)) /\ IsFiniteSet(ToSet(listing.out)) /\ Cardinality(ToSet(listing.out)) \in Nat
    BY <1>1, Elements
  <2>3. IsFiniteSet(listing.kept)
    BY <2>2, FS_Subset DEF ScanInv
  <2>4. IsFiniteSet(listing.kept \ ToSet(listing.out)) /\ IsFiniteSet(listing'.kept \ ToSet(listing.out))
    BY <2>3, FS_Subset
  <2>5. /\ Cardinality(listing'.kept \ ToSet(listing.out)) <= Cardinality(listing.kept \ ToSet(listing.out))
        /\ Cardinality(listing'.kept \ ToSet(listing.out)) \in Nat
        /\ Cardinality(listing.kept \ ToSet(listing.out)) \in Nat
    BY <2>4, FS_Subset, FS_CardinalityType
  <2> QED
    BY <1>1, <2>1, <2>2, <2>5
<1>4. \A m, n \in DOMAIN listing'.order : listing'.order[m] = listing'.order[n] => m = n
  BY DEF Distinct
<1> QED
  BY <1>2, <1>3, <1>4 DEF ScanInv

\* A row is written or deleted: what is left of the rows that would come again.
LEMMA AgainAfter ==
    ASSUME listing \in ListState, listing' \in ListState, listing'.out = listing.out, NEW x,
           Upto(listing.order, Len(listing.out)) \ {x} \subseteq Upto(listing'.order, Len(listing.out))
    PROVE  /\ Cardinality(Again) <= Cardinality(Again') + 1
           /\ Upto(listing.order, Len(listing.out)) \subseteq Upto(listing'.order, Len(listing.out)) =>
                  Cardinality(Again) <= Cardinality(Again')
<1>2. IsFiniteSet(Again) /\ IsFiniteSet(Again')
  BY AgainFinite
<1>3. Again \ {x} \subseteq Again'
  BY DEF Again
<1>4. Upto(listing.order, Len(listing.out)) \subseteq Upto(listing'.order, Len(listing.out)) => Again \subseteq Again'
  BY DEF Again
<1> HIDE DEF Again
<1> QED
  BY <1>2, <1>3, <1>4, Sizes

\* A written row shifts others by one place at most.
LEMMA ScanInvWritten ==
    ASSUME listing \in ListState, ScanInv, NEW t, NEW id \in Nat, Written(t, id)
    PROVE  ScanInv'
<1>1. CASE UNCHANGED listing
  BY <1>1 DEF ScanInv, Again, Upto, ListMissesFew, Listing
<1>2. ASSUME NEW q \in 1 .. Len(Without(listing.order, id)) + 1,
             listing'.order = InsertAt(Without(listing.order, id), q, id),
             listing'.shifts = IF \/ listing'.order = listing.order
                                  \/ listing'.order = Append(listing.order, id)
                               THEN listing.shifts ELSE listing.shifts + 1,
             listing'.table = listing.table, listing'.over = listing.over,
             listing'.out = listing.out, listing'.kept = listing.kept
      PROVE  ScanInv'
  <2> DEFINE order == listing.order
             new == listing'.order
             k == Len(listing.out)
  <2>1. listing' \in ListState /\ order \in Seq(Nat) /\ listing.shifts \in Nat /\ k \in Nat
    BY WrittenTo, AgainFinite DEF ListState
  <2>2. Distinct(order) /\ listing.kept \subseteq ToSet(order)
    BY DEF ScanInv, Distinct
  <2>3. /\ Distinct(new) /\ ToSet(order) \subseteq ToSet(new)
        /\ \A n \in Nat : \E x : Upto(order, n) \ {x} \subseteq Upto(new, n)
    BY <1>2, <2>1, <2>2, ScanWritten, Zenon
  <2>4. PICK x : Upto(order, k) \ {x} \subseteq Upto(new, k)
    BY <2>1, <2>3
  <2>5. /\ Cardinality(Again) <= Cardinality(Again') + 1
        /\ Upto(order, k) \subseteq Upto(new, k) => Cardinality(Again) <= Cardinality(Again')
    BY <1>2, <2>1, <2>4, AgainAfter
  <2>6. new = order => Upto(order, k) \subseteq Upto(new, k)
    OBVIOUS
  <2>7. new = Append(order, id) => Upto(order, k) \subseteq Upto(new, k)
    <3>1. \A m \in DOMAIN order : m \in DOMAIN Append(order, id) /\ Append(order, id)[m] = order[m]
      BY <2>1
    <3>2. Upto(order, k) \subseteq Upto(Append(order, id), k)
      BY <3>1 DEF Upto
    <3> QED
      BY <3>2
  <2>8. Cardinality(Again) <= Cardinality(Again') \/ listing'.shifts = listing.shifts + 1
    BY <1>2, <2>5, <2>6, <2>7
  <2>9. listing.shifts <= listing'.shifts
    BY <1>2, <2>1
  <2>10. listing'.kept \subseteq listing.kept /\ listing'.kept \subseteq ToSet(new)
    BY <1>2, <2>2, <2>3
  <2> QED
    BY <1>2, <2>1, <2>3, <2>5, <2>8, <2>9, <2>10, ScanMoves, Zenon
<1> QED
  BY <1>1, <1>2, WrittenTo

\* A deleted row shifts those behind it by one place.
LEMMA ScanInvDeleted ==
    ASSUME listing \in ListState, ScanInv, NEW id \in Nat,
           listing' = [listing EXCEPT !.order = Without(@, id), !.kept = @ \ {id}, !.shifts = @ + 1]
    PROVE  ScanInv'
<1> DEFINE order == listing.order
           new == Without(order, id)
           k == Len(listing.out)
<1>1. order \in Seq(Nat) /\ k \in Nat /\ listing.shifts \in Nat /\ listing.kept \in SUBSET Nat
  BY AgainFinite DEF ListState
<1>2. new \in Seq(Nat)
  BY <1>1, ScanWithout, Zenon
<1>3. Distinct(order) /\ listing.kept \subseteq ToSet(order)
  BY DEF ScanInv, Distinct
<1>4. /\ Distinct(new) /\ ToSet(new) = ToSet(order) \ {id}
      /\ \A n \in Nat : Upto(order, n) \ {id} \subseteq Upto(new, IF id \in Upto(order, n) THEN n - 1 ELSE n)
  BY <1>1, <1>3, ScanWithout, Zenon
<1> HIDE DEF new
<1>5. /\ listing' \in ListState /\ listing'.order = new /\ listing'.kept = listing.kept \ {id}
      /\ listing'.shifts = listing.shifts + 1 /\ listing'.table = listing.table
      /\ listing'.over = listing.over /\ listing'.out = listing.out
  <2>1. listing' = [listing EXCEPT !.order = new, !.kept = listing.kept \ {id}, !.shifts = listing.shifts + 1]
    BY DEF new
  <2>2. listing.kept \ {id} \in SUBSET Nat /\ listing.shifts + 1 \in Nat
    BY <1>1
  <2> QED
    BY <1>2, <2>1, <2>2 DEF ListState
<1>6. Upto(order, k) \ {id} \subseteq Upto(new, k)
  <2>1. \A m \in DOMAIN new : m <= k - 1 => m <= k
    BY <1>1, <1>2
  <2>2. Upto(new, k - 1) \subseteq Upto(new, k)
    BY <2>1 DEF Upto
  <2> QED
    BY <1>1, <1>4, <2>2
<1>7. Cardinality(Again) <= Cardinality(Again') + 1
  BY <1>5, <1>6, AgainAfter
<1>8. listing.shifts <= listing'.shifts /\ listing'.kept \subseteq listing.kept /\ listing'.kept \subseteq ToSet(new)
  BY <1>1, <1>3, <1>4, <1>5
<1> QED
  BY <1>4, <1>5, <1>7, <1>8, ScanMoves, Zenon

\* A page is returned: its rows are new ones, and those left behind are in front.
LEMMA ScanInvListed ==
    ASSUME CatalogAssumption, listing \in ListState, ScanInv, NEW t \in Listed, List(t)
    PROVE  ScanInv'
<1> DEFINE order == listing.order
           out == listing.out
           k == Len(listing.out)
           rest == PageAt(order, k)
           cut == listing.limit # 0 /\ Len(rest) >= listing.limit
           page == IF cut THEN SubSeq(rest, 1, listing.limit) ELSE rest
<1>1. /\ order \in Seq(Nat) /\ out \in Seq(Nat) /\ k \in Nat /\ listing.shifts \in Nat /\ listing.limit \in Nat
      /\ IsFiniteSet(Again) /\ Cardinality(Again) \in Nat
  <2>1. listing.limit \in Nat /\ listing.shifts \in Nat
    BY DEF ListState, CatalogAssumption
  <2> QED
    BY <2>1, AgainFinite
<1>2. listing' = [listing EXCEPT !.out = out \o page, !.over = ~cut] /\ ~ listing.over
  BY DEF List
<1>3. Len(order) \in Nat /\ DOMAIN order = 1 .. Len(order)
  BY <1>1
<1>4. /\ OnPage(order, k, rest) /\ Len(rest) \in Nat
      /\ Len(order) <= k \/ k + Len(rest) = Len(order)
      /\ listing.limit <= Len(rest) => OnPage(order, k, SubSeq(rest, 1, listing.limit))
  BY <1>1, Paged
<1>5. /\ OnPage(order, k, page) /\ page \in Seq(Nat) /\ Len(page) \in Nat
      /\ ~ cut => Len(order) <= k \/ k + Len(page) = Len(order)
  <2> HIDE DEF rest
  <2>1. OnPage(order, k, page) /\ (~ cut => Len(order) <= k \/ k + Len(page) = Len(order))
    BY <1>1, <1>4
  <2> HIDE DEF page
  <2>2. page \in Seq(Nat)
    BY <2>1 DEF OnPage
  <2> QED
    BY <2>1, <2>2
<1>6. cut \in BOOLEAN
  OBVIOUS
<1> HIDE DEF page, cut, rest
<1>7. /\ listing'.out = out \o page /\ listing'.over = ~ cut /\ listing'.order = order
      /\ listing'.shifts = listing.shifts /\ listing'.kept = listing.kept /\ listing'.table = listing.table
  BY <1>2, <1>6 DEF ListState
<1>8. Distinct(order) /\ listing.kept \subseteq ToSet(order) /\ k <= listing.shifts + Cardinality(Again)
  BY <1>2 DEF ScanInv, Distinct
<1>9. /\ IsFiniteSet(ToSet(page)) /\ Cardinality(ToSet(page)) = Len(page)
      /\ ToSet(page) \cap Upto(order, k) = {} /\ ToSet(page) \subseteq ToSet(order)
      /\ Upto(order, k + Len(page)) = Upto(order, k) \cup ToSet(page)
  <2>1. order \in Seq(Nat) /\ k \in Nat /\ OnPage(order, k, page) /\ Distinct(order)
    BY <1>1, <1>5, <1>8
  <2> HIDE DEF order, k
  <2> QED
    BY <2>1, Behind, Zenon
<1>10. /\ out \o page \in Seq(Nat) /\ Len(out \o page) = k + Len(page)
       /\ ToSet(out \o page) = ToSet(out) \cup ToSet(page)
  <2>1. /\ out \o page \in Seq(Nat) /\ Len(out \o page) = k + Len(page)
        /\ \A m \in 1 .. k : (out \o page)[m] = out[m]
        /\ \A m \in k + 1 .. k + Len(page) : (out \o page)[m] = page[m - k]
    BY <1>1, <1>5, Joined
  <2>2. /\ \A m \in 1 .. k : m \in 1 .. k + Len(page)
        /\ \A m \in 1 .. Len(page) : k + m \in k + 1 .. k + Len(page) /\ (k + m) - k = m
        /\ \A m \in 1 .. k + Len(page) : m \in 1 .. k \/ (m \in k + 1 .. k + Len(page) /\ m - k \in 1 .. Len(page))
        /\ \A m \in k + 1 .. k + Len(page) : m \in 1 .. k + Len(page)
    BY <1>1, <1>5
  <2>3. DOMAIN out = 1 .. k /\ DOMAIN page = 1 .. Len(page) /\ DOMAIN (out \o page) = 1 .. k + Len(page)
    BY <1>1, <1>5, <2>1
  <2>4. ASSUME NEW m \in 1 .. Len(page) PROVE page[m] \in ToSet(out \o page)
    <3>1. (out \o page)[k + m] = page[m] /\ k + m \in DOMAIN (out \o page)
      BY <2>1, <2>2, <2>3
    <3> QED
      BY <3>1 DEF ToSet
  <2>5. ASSUME NEW m \in 1 .. k PROVE out[m] \in ToSet(out \o page)
    BY <2>1, <2>2, <2>3 DEF ToSet
  <2>6. ASSUME NEW m \in 1 .. k + Len(page) PROVE (out \o page)[m] \in ToSet(out) \cup ToSet(page)
    <3>1. CASE m \in 1 .. k
      BY <2>1, <2>3, <3>1 DEF ToSet
    <3>2. CASE m \in k + 1 .. k + Len(page) /\ m - k \in 1 .. Len(page)
      BY <2>1, <2>3, <3>2 DEF ToSet
    <3> QED
      BY <2>2, <3>1, <3>2
  <2> QED
    BY <2>1, <2>3, <2>4, <2>5, <2>6 DEF ToSet
\* The page's rows come on top of those that are in front again.
<1>11. /\ Again \subseteq Upto(order, k) /\ Again \cap ToSet(page) = {} /\ IsFiniteSet(Again \cup ToSet(page))
       /\ Cardinality(Again \cup ToSet(page)) = Cardinality(Again) + Len(page)
       /\ Again \subseteq ToSet(out)
  <2>1. Again \subseteq Upto(order, k) /\ Again \subseteq ToSet(out)
    BY DEF Again
  <2>2. Again \cap ToSet(page) = {}
    BY <1>9, <2>1
  <2>3. IsFiniteSet(Again \cup ToSet(page)) /\ Cardinality(Again \cup ToSet(page)) = Cardinality(Again) + Cardinality(ToSet(page))
    BY <1>1, <1>9, <2>2, Sizes
  <2> QED
    BY <1>9, <2>1, <2>2, <2>3
<1>12. ~ listing'.over => Len(listing'.out) <= listing'.shifts + Cardinality(Again')
  <2>1. Again' = (ToSet(out) \cup ToSet(page)) \cap (Upto(order, k) \cup ToSet(page))
    BY <1>7, <1>9, <1>10 DEF Again
  <2>2. Again \cup ToSet(page) \subseteq Again'
    BY <1>11, <2>1
  <2>3. IsFiniteSet(Again')
    <3>1. IsFiniteSet(ToSet(out \o page))
      BY <1>10, Elements, Zenon
    <3> QED
      BY <1>10, <2>1, <3>1, FS_Subset
  <2>4. Cardinality(Again) + Len(page) <= Cardinality(Again') /\ Cardinality(Again') \in Nat
    <3> HIDE DEF Again
    <3>1. Cardinality(Again \cup ToSet(page)) <= Cardinality(Again') /\ Cardinality(Again') \in Nat
      BY <1>11, <2>2, <2>3, Sizes
    <3> QED
      BY <1>11, <3>1
  <2> QED
    BY <1>1, <1>5, <1>7, <1>8, <1>10, <2>4
<1>13. ListMissesFew'
  <2> SUFFICES ASSUME ~ cut
               PROVE  /\ Cardinality(listing.kept \ ToSet(out \o page)) <= listing.shifts
                      /\ Len(out \o page) - Cardinality(ToSet(out \o page)) <= listing.shifts
    BY <1>7 DEF ListMissesFew
  <2>1. IsFiniteSet(ToSet(out \o page)) /\ Cardinality(ToSet(out \o page)) \in Nat
    BY <1>10, Elements, Zenon
  <2>2. Cardinality(Again) + Len(page) <= Cardinality(ToSet(out \o page))
    <3>1. Again \cup ToSet(page) \subseteq ToSet(out \o page)
      BY <1>10, <1>11
    <3>2. Cardinality(Again \cup ToSet(page)) <= Cardinality(ToSet(out \o page))
      BY <1>11, <2>1, <3>1, Sizes
    <3> QED
      BY <1>11, <3>2
  <2>3. ToSet(order) = Upto(order, k) \cup ToSet(page)
    <3>1. CASE Len(order) <= k
      BY <1>1, <1>9, <3>1, FrontSize
    <3>2. CASE k + Len(page) = Len(order)
      <4>1. Len(order) <= k + Len(page) /\ k + Len(page) \in Nat
        BY <1>1, <1>3, <1>5, <3>2
      <4>2. Upto(order, k + Len(page)) = ToSet(order)
        BY <1>1, <4>1, FrontSize, Zenon
      <4> QED
        BY <1>9, <4>2
    <3> QED
      BY <1>5, <3>1, <3>2
  <2>4. listing.kept \ ToSet(out \o page) \subseteq Upto(order, k) \ Again
    <3>1. Upto(order, k) \ Again = Upto(order, k) \ ToSet(out)
      BY DEF Again
    <3> QED
      BY <1>8, <1>10, <2>3, <3>1
  <2>5. /\ IsFiniteSet(Upto(order, k)) /\ Cardinality(Upto(order, k)) <= k
        /\ Cardinality(Upto(order, k)) \in Nat
    BY <1>1, FrontSize, FS_CardinalityType
  <2>6. /\ IsFiniteSet(Upto(order, k) \ Again)
        /\ Cardinality(Upto(order, k) \ Again) = Cardinality(Upto(order, k)) - Cardinality(Again)
    BY <1>1, <1>11, <2>5, Sizes
  <2>7. /\ Cardinality(listing.kept \ ToSet(out \o page)) <= Cardinality(Upto(order, k) \ Again)
        /\ Cardinality(listing.kept \ ToSet(out \o page)) \in Nat
    <3>1. IsFiniteSet(listing.kept \ ToSet(out \o page))
      BY <2>4, <2>6, FS_Subset
    <3> QED
      BY <2>4, <2>6, <3>1, Sizes
  <2> QED
    BY <1>1, <1>5, <1>8, <1>10, <2>1, <2>2, <2>5, <2>6, <2>7
<1>14. \A m, n \in DOMAIN listing'.order : listing'.order[m] = listing'.order[n] => m = n
  BY <1>7, <1>8 DEF Distinct
<1> QED
  BY <1>7, <1>8, <1>12, <1>13, <1>14 DEF ScanInv

\* No step loses the client more rows than it shifts.
LEMMA ScanKept ==
    ASSUME CatalogAssumption, LoadOrderAssumption, CatalogTypeInv, ScanInv, [CatalogNext]_catalogVars
    PROVE  ScanInv'
<1>1. TablesInv /\ listing \in ListState
  BY DEF CatalogTypeInv
<1>2. ASSUME UNCHANGED listing PROVE ScanInv'
  BY <1>2 DEF ScanInv, Again, Upto, ListMissesFew, Listing
<1>3. ASSUME NEW i \in Instance,
             \/ Boot(i) \/ EnsureReads(i) \/ EnsureCreates(i) \/ createFactoryRules(i) \/ EnsureFails(i) \/ Dies(i)
      PROVE  ScanInv'
  BY <1>2, <1>3 DEF Boot, EnsureReads, EnsureCreates, createFactoryRules, EnsureFails, Dies
<1>4. ASSUME NEW t \in Table, NEW row \in NewRows(t), Create(t, row) PROVE ScanInv'
  <2>1. tables[t] \in Seq(Row)
    BY <1>1, Tables DEF TablesInv
  <2>2. Len(tables[t]) + 1 \in Nat /\ Written(t, Len(tables[t]) + 1)
    BY <1>4, <2>1 DEF Create
  <2> QED
    BY <1>1, <2>2, ScanInvWritten, Zenon
<1>5. ASSUME NEW t \in Table, Delete(t) PROVE ScanInv'
  <2>1. PICK id \in LiveRows(t) :
          listing' = IF listing.table = t
                     THEN [listing EXCEPT !.order = Without(@, id), !.kept = @ \ {id}, !.shifts = @ + 1]
                     ELSE listing
    BY <1>5 DEF Delete
  <2>2. id \in Nat
    BY <1>1, Tables, LiveIds
  <2> QED
    BY <1>1, <1>2, <2>1, <2>2, ScanInvDeleted
<1>6. CASE UpdateSaves
  <2>1. edit.id \in Nat /\ Written(edit.table, edit.id)
    BY <1>6, SavedRow DEF UpdateSaves
  <2> QED
    BY <1>1, <2>1, ScanInvWritten, Zenon
<1>7. CASE RowSaved
  <2>1. PICK id \in LiveRows(listing.table) : Written(listing.table, id)
    BY <1>7 DEF RowSaved
  <2>2. id \in Nat
    BY <1>1, <1>7, LiveIds DEF RowSaved
  <2> QED
    BY <1>1, <2>1, <2>2, ScanInvWritten, Zenon
<1>8. ASSUME Users PROVE ScanInv'
  <2>1. ASSUME NEW t \in Table, Reads(t) PROVE ScanInv'
    BY <1>2, <2>1 DEF Reads
  <2>2. ASSUME NEW t \in Listed, List(t) PROVE ScanInv'
    BY <1>1, <2>2, ScanInvListed
  <2> QED
    BY <1>1, <1>4, <1>5, <1>6, <1>7, <1>8, <2>1, <2>2, UsersDo, Zenon
<1>9. CASE UNCHANGED catalogVars
  BY <1>2, <1>9 DEF catalogVars
<1> QED
  BY <1>3, <1>8, <1>9 DEF CatalogNext

\* A listing begins with nothing returned.
LEMMA ScanInitially == ASSUME CatalogAssumption, CatalogInit PROVE ScanInv
<1>1. CASE listing = NotListing
  <2>1. /\ listing.order = <<>> /\ listing.out = <<>> /\ listing.kept = {} /\ listing.over /\ listing.table = "none"
    BY <1>1 DEF NotListing
  <2>2. ~ Listing
    BY <2>1 DEF Listing
  <2> QED
    BY <2>1, <2>2 DEF ScanInv, ListMissesFew
<1>2. ASSUME NEW t \in Listed, NEW heap \in BOOLEAN, NEW limit \in {0, PageSize},
             listing = [NotListing EXCEPT !.table = t, !.heap = heap, !.limit = limit,
                            !.order = [n \in 1 .. Rows |-> n], !.kept = 1 .. Rows, !.over = FALSE]
      PROVE  ScanInv
  <2>1. /\ listing.order = [n \in 1 .. Rows |-> n] /\ listing.out = <<>> /\ listing.kept = 1 .. Rows
        /\ listing.over = FALSE /\ listing.shifts = 0
    BY <1>2 DEF NotListing
  <2>2. /\ \A m, n \in DOMAIN listing.order : listing.order[m] = listing.order[n] => m = n
        /\ listing.kept \subseteq ToSet(listing.order)
    BY <2>1 DEF ToSet
  <2>3. Again = {} /\ Len(listing.out) = 0
    BY <2>1 DEF Again, ToSet
  <2>4. Cardinality(Again) = 0
    BY <2>3, FS_EmptySet
  <2> QED
    BY <2>1, <2>2, <2>3, <2>4 DEF ScanInv, ListMissesFew
<1> QED
  BY <1>1, <1>2 DEF CatalogInit

-----------------------------------------------------------------------------
(* Loads that nobody disturbs leave the whole config behind.               *)

\* No row is lost, and none of them changes but for its rules.
Grown(old, new) ==
    \A t \in Listed : \A id \in DOMAIN old[t] : id \in DOMAIN new[t] /\ Alike(new[t][id], old[t][id])

\* What refers to what.
LEMMA References ==
    /\ \A u : <<"pipeline", u>> \in Refers <=> u \in {"chain", "store"}
    /\ \A u : <<"source", u>> \in Refers <=> u \in {"pipeline", "chain", "abi"}
    /\ \A u : <<"exporter", u>> \in Refers <=> u = "pipeline"
    /\ \A u : \A t \in {"chain", "abi", "store"} : <<t, u>> \notin Refers
    /\ Table = {"chain", "abi", "store", "pipeline", "source", "exporter"}
    /\ Table \subseteq Listed
BY DEF Refers, Table, Listed

\* The rows of a table are of its kind.
LEMMA Kinds ==
    ASSUME TablesInv, NEW t \in Table, NEW id \in DOMAIN tables[t]
    PROVE  /\ tables[t][id] \in Row /\ TableOf(tables[t][id].type) = t /\ id \in Nat \ {0}
           /\ t # "source" => tables[t][id].type = t
           /\ t = "source" => tables[t][id].type \in {"source", "factory"}
<1>1. t \in Listed /\ tables[t] \in Seq(Row)
  BY References DEF TablesInv
<1>2. tables[t][id] \in Row /\ TableOf(tables[t][id].type) = t /\ id \in Nat \ {0}
  BY <1>1 DEF TablesInv
<1>3. tables[t][id].type \in Listed \cup Resource
  BY <1>2 DEF Row
<1> QED
  BY <1>1, <1>2, <1>3, Tables

\* What was complete stays so while the tables grow, and what belongs to an
\* instance stays its own.
LEMMA GrownRow ==
    ASSUME NEW old, NEW new, Grown(old, new), NEW row, NEW s, Alike(s, row), Complete(old, row)
    PROVE  Complete(new, s) /\ \A i : Owns(old, i, row) => Owns(new, i, s)
<1>1. s.type = row.type /\ s.name = row.name /\ s.owner = row.owner /\ s.refs = row.refs /\ s.live = row.live
  BY DEF Alike
<1>2. \A u \in Table : row.refs[u] \in DOMAIN old[u] => row.refs[u] \in DOMAIN new[u]
  BY References DEF Grown
<1>3. Complete(new, s)
  BY <1>1, <1>2 DEF Complete
<1>4. row.type \in {"source", "factory", "exporter"} =>
          new["pipeline"][row.refs["pipeline"]].owner = old["pipeline"][row.refs["pipeline"]].owner
  <2>1. row.type \in {"source", "factory", "exporter"} => <<TableOf(row.type), "pipeline">> \in Refers
    BY References DEF TableOf
  <2>2. "pipeline" \in Table /\ "pipeline" \in Listed
    BY References
  <2>3. row.type \in {"source", "factory", "exporter"} => row.refs["pipeline"] \in DOMAIN old["pipeline"]
    BY <2>1, <2>2 DEF Complete
  <2> QED
    BY <2>2, <2>3 DEF Grown, Alike
<1>5. ASSUME NEW i, Owns(old, i, row) PROVE Owns(new, i, s)
  BY <1>1, <1>4, <1>5 DEF Owns
<1> QED
  BY <1>3, <1>5

\* What an instance has it keeps while the tables grow.
LEMMA GrownTables ==
    ASSUME NEW old, NEW new, Grown(old, new), AllComplete(old), NEW i, NEW k \in Resource, Has(old, i, k)
    PROVE  Has(new, i, k)
<1> DEFINE t == TableOf(k)
<1>1. t \in Table /\ t \in Listed
  BY Tables
<1>2. PICK id \in DOMAIN old[t] : old[t][id].type = k /\ Owns(old, i, old[t][id])
  BY DEF Has
<1> HIDE DEF t
<1>3. Complete(old, old[t][id])
  BY <1>1 DEF AllComplete
<1>4. id \in DOMAIN new[t] /\ Alike(new[t][id], old[t][id])
  BY <1>1 DEF Grown
<1>5. Owns(new, i, new[t][id])
  BY <1>2, <1>3, <1>4, GrownRow
<1>6. new[t][id].type = k
  BY <1>2, <1>4 DEF Alike
<1> QED
  BY <1>4, <1>5, <1>6 DEF Has, t

\* While every row is complete, the look-ups find what an instance has.
LEMMA Resolved ==
    ASSUME TablesInv, AllComplete(tables), NEW i \in Instance
    PROVE  /\ \A t \in {"chain", "abi", "store"} :
                 Has(tables, i, t) => First(ByName(t)) \in DOMAIN tables[t] /\ First(ByName(t)) # 0
           /\ Has(tables, i, "pipeline") =>
                 /\ pipelineIDByName(i) \in DOMAIN tables["pipeline"] /\ pipelineIDByName(i) # 0
                 /\ tables["pipeline"][pipelineIDByName(i)].owner = i
           /\ \A t \in Table : ByName(t) = DOMAIN tables[t]
<1>1. ASSUME NEW t \in Table PROVE ByName(t) = DOMAIN tables[t]
  <2>1. \A id \in DOMAIN tables[t] : tables[t][id].live /\ tables[t][id].name = Declared
    BY DEF AllComplete, Complete
  <2> QED
    BY <2>1 DEF ByName, LiveRows
<1>2. \A t \in Table : ByName(t) \in SUBSET (Nat \ {0})
  BY LookUps, References
<1>3. ASSUME NEW t \in {"chain", "abi", "store"}, Has(tables, i, t)
      PROVE  First(ByName(t)) \in DOMAIN tables[t] /\ First(ByName(t)) # 0
  <2>1. TableOf(t) = t /\ t \in Table
    BY References DEF TableOf
  <2>2. ByName(t) # {}
    BY <1>1, <1>3, <2>1 DEF Has
  <2>3. First(ByName(t)) \in ByName(t)
    BY <1>2, <2>1, <2>2, FirstId
  <2> QED
    BY <1>1, <1>2, <2>1, <2>3
<1>4. ASSUME Has(tables, i, "pipeline")
      PROVE  /\ pipelineIDByName(i) \in DOMAIN tables["pipeline"] /\ pipelineIDByName(i) # 0
             /\ tables["pipeline"][pipelineIDByName(i)].owner = i
  <2>1. "pipeline" \in Table /\ TableOf("pipeline") = "pipeline"
    BY References DEF TableOf
  <2>2. PICK id \in DOMAIN tables["pipeline"] : tables["pipeline"][id].owner = i
    BY <1>4, <2>1 DEF Has, Owns
  <2>3. id \in Pipelines(i)
    BY <1>1, <2>1, <2>2 DEF Pipelines
  <2>4. Pipelines(i) \in SUBSET (Nat \ {0})
    BY LookUps
  <2>5. pipelineIDByName(i) \in Pipelines(i)
    BY <2>3, <2>4, FirstId DEF pipelineIDByName
  <2> QED
    BY <1>1, <2>1, <2>4, <2>5 DEF Pipelines
<1> QED
  BY <1>1, <1>3, <1>4

\* A new row takes the references it is given.
LEMMA NewRowRefs ==
    ASSUME NEW k \in Listed \cup Resource, NEW refs, NEW i
    PROVE  /\ [NewRow(k) EXCEPT !.refs = refs].refs = refs
           /\ [NewRow(k) EXCEPT !.owner = i, !.refs = refs].refs = refs
           /\ [NewRow(k) EXCEPT !.owner = i, !.refs = refs].owner = i
BY DEF NewRow

\* Once an instance has what a resource refers to, the look-up misses nothing,
\* and finds the resource or what it takes to create it.
LEMMA Ensured ==
    ASSUME TablesInv, AllComplete(tables), NEW i \in Instance, NEW k \in Resource,
           \A t \in Table : <<TableOf(k), t>> \in Refers => Has(tables, i, t)
    PROVE  /\ ~ Ensure(i, k).missing
           /\ Ensure(i, k).existing # {} => Has(tables, i, k)
           /\ Complete(tables, Ensure(i, k).row) /\ Owns(tables, i, Ensure(i, k).row)
<1> DEFINE e == Ensure(i, k)
           c == blockchainIDByName
           p == pipelineIDByName(i)
<1>1. e.row.type = k /\ e.row.live /\ e.row.name = Declared
  BY EnsureRow
<1>2. /\ Has(tables, i, "chain") => c \in DOMAIN tables["chain"] /\ c # 0
      /\ Has(tables, i, "abi") => abiIDByName \in DOMAIN tables["abi"] /\ abiIDByName # 0
      /\ Has(tables, i, "store") => storeIDByIdentifier \in DOMAIN tables["store"] /\ storeIDByIdentifier # 0
      /\ Has(tables, i, "pipeline") => /\ p \in DOMAIN tables["pipeline"] /\ p # 0
                                       /\ tables["pipeline"][p].owner = i
  BY Resolved DEF blockchainIDByName, abiIDByName, storeIDByIdentifier
<1>3. \A t \in Table : ByName(t) = DOMAIN tables[t]
  BY Resolved
<1>4. CASE k \in {"chain", "abi", "store"}
  <2>1. e = Found(FALSE, ByName(k), NewRow(k)) /\ TableOf(k) = k /\ k \in Table
    BY <1>4, References DEF Ensure, ensureBlockchain, ensureAbi, ensureStore, TableOf
  <2>2. ~ e.missing /\ e.existing = ByName(k) /\ e.row = NewRow(k)
    BY <2>1 DEF Found
  <2>3. Complete(tables, e.row)
    <3>1. e.row.refs = NoRefs
      BY <2>2 DEF NewRow
    <3>2. \A u \in Table : <<TableOf(k), u>> \notin Refers /\ e.row.refs[u] = 0
      BY <1>4, <2>1, <3>1, References DEF NoRefs
    <3> QED
      BY <1>1, <3>2 DEF Complete
  <2>4. Owns(tables, i, e.row)
    BY <1>1, <1>4 DEF Owns
  <2>5. ASSUME e.existing # {} PROVE Has(tables, i, k)
    <3>1. PICK id \in DOMAIN tables[k] : TRUE
      BY <1>3, <2>1, <2>2, <2>5
    <3>2. tables[k][id].type = k
      BY <1>4, <2>1, Kinds
    <3>3. Owns(tables, i, tables[k][id])
      BY <1>4, <3>2 DEF Owns
    <3> QED
      BY <2>1, <3>2, <3>3 DEF Has
  <2> QED
    BY <2>2, <2>3, <2>4, <2>5
<1>5. CASE k = "pipeline"
  <2>1. TableOf(k) = "pipeline" /\ "chain" \in Table /\ "store" \in Table /\ "pipeline" \in Table
    BY <1>5, References DEF TableOf
  <2>2. /\ c \in DOMAIN tables["chain"] /\ c # 0
        /\ storeIDByIdentifier \in DOMAIN tables["store"] /\ storeIDByIdentifier # 0
    BY <1>2, <2>1, References
  <2> DEFINE refs == [NoRefs EXCEPT !["chain"] = c, !["store"] = storeIDByIdentifier]
  <2>3. e = ensurePipeline(i)
    BY <1>5 DEF Ensure
  <2>4. e.missing = (Pipelines(i) = {} /\ 0 \in {c, storeIDByIdentifier}) /\ e.existing = Pipelines(i)
    BY <2>3 DEF ensurePipeline, Found
  <2>5. e.row.owner = i /\ e.row.refs = refs
    <3>1. e.row = [NewRow(k) EXCEPT !.owner = i, !.refs = [NewRow(k).refs EXCEPT !["chain"] = c, !["store"] = storeIDByIdentifier]]
      BY <1>5, <2>3 DEF ensurePipeline, Found
    <3>2. NewRow(k).refs = NoRefs /\ k \in Listed \cup Resource
      BY NewRowType
    <3>3. e.row = [NewRow(k) EXCEPT !.owner = i, !.refs = refs]
      BY <3>1, <3>2
    <3> HIDE DEF refs, e
    <3> QED
      BY <3>2, <3>3, NewRowRefs
  <2>6. \A u \in Table : refs[u] = IF u = "chain" THEN c ELSE IF u = "store" THEN storeIDByIdentifier ELSE 0
    BY DEF NoRefs
  <2> HIDE DEF refs, c, e
  <2>7. Complete(tables, e.row)
    BY <1>1, <1>5, <2>1, <2>2, <2>5, <2>6, References DEF Complete
  <2>8. Owns(tables, i, e.row)
    BY <1>1, <1>5, <2>5 DEF Owns
  <2>9. ASSUME e.existing # {} PROVE Has(tables, i, k)
    <3>1. PICK id \in Pipelines(i) : TRUE
      BY <2>4, <2>9
    <3>2. id \in DOMAIN tables["pipeline"] /\ tables["pipeline"][id].owner = i
      BY <1>3, <2>1, <3>1 DEF Pipelines
    <3>3. tables["pipeline"][id].type = "pipeline"
      BY <2>1, <3>2, Kinds
    <3>4. Owns(tables, i, tables["pipeline"][id])
      BY <3>2, <3>3 DEF Owns
    <3> QED
      BY <1>5, <2>1, <3>2, <3>3, <3>4 DEF Has
  <2> QED
    BY <2>2, <2>4, <2>7, <2>8, <2>9 DEF e
<1>6. CASE k \in {"source", "factory"}
  <2>1. TableOf(k) = "source" /\ "chain" \in Table /\ "abi" \in Table /\ "pipeline" \in Table /\ "source" \in Table
    BY <1>6, References DEF TableOf
  <2>2. /\ c \in DOMAIN tables["chain"] /\ c # 0 /\ abiIDByName \in DOMAIN tables["abi"] /\ abiIDByName # 0
        /\ p \in DOMAIN tables["pipeline"] /\ p # 0 /\ tables["pipeline"][p].owner = i
    BY <1>2, <2>1, References
  <2> DEFINE chain == IF k \in NamesChain THEN c ELSE IF p = 0 THEN 0 ELSE tables["pipeline"][p].refs["chain"]
             refs == [NoRefs EXCEPT !["pipeline"] = p, !["chain"] = chain, !["abi"] = abiIDByName]
  <2>3. chain \in DOMAIN tables["chain"]
    <3>1. Complete(tables, tables["pipeline"][p])
      BY <2>1, <2>2 DEF AllComplete
    <3>2. tables["pipeline"][p].type = "pipeline"
      BY <2>1, <2>2, Kinds
    <3>3. TableOf("pipeline") = "pipeline" /\ <<"pipeline", "chain">> \in Refers
      BY References DEF TableOf
    <3>4. tables["pipeline"][p].refs["chain"] \in DOMAIN tables["chain"]
      BY <2>1, <3>1, <3>2, <3>3 DEF Complete
    <3> QED
      BY <2>2, <3>4
  <2>4. e = ensureSource(i, k)
    BY <1>6 DEF Ensure
  <2>5. /\ e.missing = (p = 0 \/ abiIDByName = 0 \/ (k \in NamesChain /\ chain = 0))
        /\ e.existing = SameSource(k, p)
    BY <2>4 DEF ensureSource, Found
  <2>6. e.row.refs = refs
    <3>1. e.row = [NewRow(k) EXCEPT !.refs = [NewRow(k).refs EXCEPT !["pipeline"] = p, !["chain"] = chain, !["abi"] = abiIDByName]]
      BY <1>6, <2>4 DEF ensureSource, Found
    <3>2. NewRow(k).refs = NoRefs /\ k \in Listed \cup Resource
      BY NewRowType
    <3>3. e.row = [NewRow(k) EXCEPT !.refs = refs]
      BY <3>1, <3>2
    <3> HIDE DEF refs, e
    <3> QED
      BY <3>2, <3>3, NewRowRefs
  <2>7. k \in NamesChain => chain # 0
    BY <2>2
  <2> HIDE DEF chain
  <2>8. \A u \in Table : refs[u] = IF u = "pipeline" THEN p ELSE IF u = "chain" THEN chain
                                   ELSE IF u = "abi" THEN abiIDByName ELSE 0
    BY DEF NoRefs
  <2> HIDE DEF refs, c, e, p
  <2>9. Complete(tables, e.row)
    BY <1>1, <2>1, <2>2, <2>3, <2>6, <2>8, References DEF Complete
  <2>10. Owns(tables, i, e.row)
    <3>1. e.row.refs["pipeline"] = p
      BY <2>1, <2>6, <2>8
    <3> QED
      BY <1>1, <1>6, <2>2, <3>1 DEF Owns
  <2>11. ASSUME e.existing # {} PROVE Has(tables, i, k)
    <3>1. PICK id \in SameSource(k, p) : TRUE
      BY <2>5, <2>11
    <3>2. /\ id \in DOMAIN tables["source"] /\ tables["source"][id].type = k
          /\ tables["source"][id].refs["pipeline"] = p
      BY <1>3, <2>1, <3>1 DEF SameSource
    <3>3. Owns(tables, i, tables["source"][id])
      BY <1>6, <2>2, <3>2 DEF Owns
    <3> QED
      BY <2>1, <3>2, <3>3 DEF Has
  <2> QED
    BY <2>2, <2>5, <2>7, <2>9, <2>10, <2>11 DEF e
<1>7. CASE k = "exporter"
  <2>1. TableOf(k) = "exporter" /\ "pipeline" \in Table /\ "exporter" \in Table
    BY <1>7, References DEF TableOf
  <2>2. p \in DOMAIN tables["pipeline"] /\ p # 0 /\ tables["pipeline"][p].owner = i
    BY <1>2, <2>1, References
  <2> DEFINE refs == [NoRefs EXCEPT !["pipeline"] = p]
  <2>3. e = ensureExporter(i)
    BY <1>7 DEF Ensure
  <2>4. /\ e.missing = (p = 0)
        /\ e.existing = {id \in ByName("exporter") : tables["exporter"][id].refs["pipeline"] = p}
    BY <2>3 DEF ensureExporter, Found
  <2>5. e.row.refs = refs
    <3>1. e.row = [NewRow(k) EXCEPT !.refs = [NewRow(k).refs EXCEPT !["pipeline"] = p]]
      BY <1>7, <2>3 DEF ensureExporter, Found
    <3>2. NewRow(k).refs = NoRefs /\ k \in Listed \cup Resource
      BY NewRowType
    <3>3. e.row = [NewRow(k) EXCEPT !.refs = refs]
      BY <3>1, <3>2
    <3> HIDE DEF refs, e
    <3> QED
      BY <3>2, <3>3, NewRowRefs
  <2>6. \A u \in Table : refs[u] = IF u = "pipeline" THEN p ELSE 0
    BY DEF NoRefs
  <2> HIDE DEF refs, e, p
  <2>7. Complete(tables, e.row)
    BY <1>1, <2>1, <2>2, <2>5, <2>6, References DEF Complete
  <2>8. Owns(tables, i, e.row)
    <3>1. e.row.refs["pipeline"] = p
      BY <2>1, <2>5, <2>6
    <3> QED
      BY <1>1, <1>7, <2>2, <3>1 DEF Owns
  <2>9. ASSUME e.existing # {} PROVE Has(tables, i, k)
    <3>1. PICK id \in DOMAIN tables["exporter"] : tables["exporter"][id].refs["pipeline"] = p
      BY <1>3, <2>1, <2>4, <2>9
    <3>2. tables["exporter"][id].type = "exporter"
      BY <2>1, Kinds
    <3>3. Owns(tables, i, tables["exporter"][id])
      BY <2>2, <3>1, <3>2 DEF Owns
    <3> QED
      BY <1>7, <2>1, <3>2, <3>3 DEF Has
  <2> QED
    BY <2>2, <2>4, <2>7, <2>8, <2>9 DEF e
<1> QED
  BY <1>4, <1>5, <1>6, <1>7 DEF Resource, Table

\* While the tables grow, what holds of a load that takes no step stays so.
LEMMA LoadWaits ==
    ASSUME NEW i, LoadOrderAssumption, CatalogTypeInv, Grown(tables, tables'), AllComplete(tables), LoadedAt(i),
           load'[i] = load[i]
    PROVE  LoadedAt(i)'
<1>1. \A n \in DOMAIN LoadOrder : LoadOrder[n] \in Resource
  BY DEF LoadOrderAssumption
<1>2. \A n \in DOMAIN LoadOrder : Through(load[i], n) => Has(tables', i, LoadOrder[n])
  BY <1>1, GrownTables DEF LoadedAt
<1>3. ASSUME load[i].pc = "create"
      PROVE  Complete(tables', load[i].row) /\ Owns(tables', i, load[i].row)
  <2>1. Complete(tables, load[i].row) /\ Owns(tables, i, load[i].row)
    BY <1>3 DEF LoadedAt
  <2>2. Alike(load[i].row, load[i].row)
    BY DEF Alike
  <2> QED
    BY <2>1, <2>2, GrownRow
<1> QED
  BY <1>2, <1>3 DEF LoadedAt

\* A load goes on when the resource it is at is there.
LEMMA LoadGoesOn ==
    ASSUME LoadOrderAssumption, CatalogTypeInv, NEW i \in Instance, load[i].pc # "down",
           load'[i] = AtNext(load[i]),
           \A n \in DOMAIN LoadOrder : n <= load[i].pos => Has(tables', i, LoadOrder[n])
    PROVE  LoadedAt(i)'
<1> DEFINE l == load[i]
<1>1. l \in Loading
  BY DEF CatalogTypeInv
<1>2. /\ AtNext(l).pc \in {"look", "done"}
      /\ AtNext(l).pc = "look" => AtNext(l).pos = l.pos + 1
      /\ AtNext(l).pc = "done" => l.pos = Len(LoadOrder)
  BY <1>1, AtNextType
<1>3. LoadOrder \in Seq(Resource) /\ l.pos \in DOMAIN LoadOrder
  BY <1>1 DEF LoadOrderAssumption, Loading
<1>4. ASSUME NEW n \in DOMAIN LoadOrder, Through(AtNext(l), n) PROVE n <= l.pos
  BY <1>2, <1>3, <1>4 DEF Through
<1> QED
  BY <1>2, <1>4 DEF LoadedAt

\* Every step of Load takes it further or leaves it where it is; all others disturb.
LEMMA LoadedKept ==
    ASSUME CatalogAssumption, LoadOrderAssumption, CatalogTypeInv, LoadedInv, [CatalogNext]_catalogVars
    PROVE  LoadedInv'
<1>1. TablesInv /\ load \in [Instance -> Loading] /\ edits \in Nat /\ faults \in Nat
  BY DEF CatalogTypeInv
<1>2. edits = 0 => edit.id = 0
  BY DEF LoadedInv
<1>3. Undisturbed => AllComplete(tables) /\ \A i \in Instance : LoadedAt(i)
  BY DEF LoadedInv
<1>4. UNCHANGED tables => Grown(tables, tables')
  BY DEF Grown, Alike
\* What a step of Load has to keep.
<1>5. ASSUME UNCHANGED <<edit, edits, faults, listing>>,
             Undisturbed => AllComplete(tables') /\ \A i \in Instance : LoadedAt(i)'
      PROVE  LoadedInv'
  BY <1>2, <1>5 DEF LoadedInv, Undisturbed, Listing
<1>6. ASSUME UNCHANGED <<edit, edits, faults, listing>>, NEW i \in Instance,
             \A j \in Instance \ {i} : load'[j] = load[j],
             Undisturbed => Grown(tables, tables') /\ AllComplete(tables') /\ LoadedAt(i)'
      PROVE  LoadedInv'
  <2>1. ASSUME Undisturbed, NEW j \in Instance \ {i} PROVE LoadedAt(j)'
    BY <1>3, <1>6, <2>1, LoadWaits
  <2> QED
    BY <1>5, <1>6, <2>1
<1>7. ASSUME NEW i \in Instance, Boot(i) \/ Dies(i) PROVE LoadedInv'
  <2>1. UNCHANGED <<tables, edit, edits, faults, listing>> /\ \A j \in Instance \ {i} : load'[j] = load[j]
    BY <1>1, <1>7 DEF Boot, Dies
  <2>2. Down \in Loading /\ Down.pc = "down" /\ Down.pos = 1
    BY CatalogDown DEF Down
  <2>3. load'[i].pc \in {"down", "look"} /\ load'[i].pos = 1
    <3>1. CASE Boot(i)
      <4> DEFINE kept == UNION {{t} \X LiveRows(t) : t \in Table}
      <4>1. load'[i] = [Down EXCEPT !.pc = "look", !.kept = kept]
        BY <1>1, <3>1 DEF Boot
      <4> HIDE DEF kept
      <4> QED
        BY <2>2, <4>1 DEF Loading
    <3>2. CASE Dies(i)
      BY <1>1, <2>2, <3>2 DEF Dies
    <3> QED
      BY <1>7, <3>1, <3>2
  <2>4. \A n \in DOMAIN LoadOrder : ~ Through(load'[i], n)
    <3>1. LoadOrder \in Seq(Resource)
      BY DEF LoadOrderAssumption
    <3> QED
      BY <2>3, <3>1 DEF Through
  <2>5. LoadedAt(i)'
    BY <2>3, <2>4 DEF LoadedAt
  <2> QED
    BY <1>3, <1>4, <1>6, <2>1, <2>5
<1>8. ASSUME NEW i \in Instance, EnsureReads(i) PROVE LoadedInv'
  <2> DEFINE k == LoadOrder[load[i].pos]
             e == Ensure(i, k)
  <2>1. /\ UNCHANGED <<tables, edit, edits, faults, listing>> /\ load[i] \in Loading /\ load[i].pc = "look"
        /\ \A j \in Instance \ {i} : load'[j] = load[j]
    BY <1>1, <1>8 DEF EnsureReads
  <2>2. load[i].pos \in DOMAIN LoadOrder /\ k \in Resource /\ LoadOrder \in Seq(Resource)
    BY <2>1 DEF Loading, LoadOrderAssumption
  <2>3. load'[i] = IF e.missing \/ e.existing # {} THEN AtNext(load[i])
                   ELSE [load[i] EXCEPT !.pc = "create", !.row = e.row]
    BY <1>1, <1>8 DEF EnsureReads
  <2>4. ASSUME Undisturbed PROVE LoadedAt(i)'
    <3>1. AllComplete(tables) /\ \A n \in DOMAIN LoadOrder : n < load[i].pos => Has(tables, i, LoadOrder[n])
      BY <1>3, <2>1, <2>4 DEF LoadedAt, Through
    <3>2. \A t \in Table : <<TableOf(k), t>> \in Refers => Has(tables, i, t)
      <4>1. ASSUME NEW t \in Table, <<TableOf(k), t>> \in Refers PROVE Has(tables, i, t)
        <5>1. PICK m \in 1 .. load[i].pos - 1 : LoadOrder[m] = t
          BY <2>2, <4>1 DEF LoadOrderAssumption
        <5> QED
          BY <2>2, <3>1, <5>1
      <4> QED
        BY <4>1
    <3> HIDE DEF k
    <3>3. /\ ~ e.missing /\ (e.existing # {} => Has(tables, i, k))
          /\ Complete(tables, e.row) /\ Owns(tables, i, e.row)
      BY <1>1, <2>2, <3>1, <3>2, Ensured
    <3>4. e.row.type = k
      BY <1>1, <2>2, EnsureRow
    <3> HIDE DEF e
    <3>5. CASE e.existing # {}
      <4>1. load'[i] = AtNext(load[i]) /\ Has(tables, i, k)
        BY <2>3, <3>3, <3>5
      <4>2. \A n \in DOMAIN LoadOrder : n <= load[i].pos => Has(tables, i, LoadOrder[n])
        <5>1. \A n \in DOMAIN LoadOrder : n <= load[i].pos => n < load[i].pos \/ n = load[i].pos
          BY <2>2
        <5> QED
          BY <3>1, <4>1, <5>1 DEF k
      <4>3. \A n \in DOMAIN LoadOrder : n <= load[i].pos => Has(tables', i, LoadOrder[n])
        BY <2>1, <4>2
      <4> QED
        BY <2>1, <4>1, <4>3, LoadGoesOn
    <3>6. CASE e.existing = {}
      <4>1. load'[i] = [load[i] EXCEPT !.pc = "create", !.row = e.row]
        BY <2>3, <3>3, <3>6
      <4>2. load'[i].pc = "create" /\ load'[i].row = e.row /\ load'[i].pos = load[i].pos
        BY <2>1, <4>1 DEF Loading
      <4>3. \A n \in DOMAIN LoadOrder : Through(load'[i], n) => n < load[i].pos
        BY <4>2 DEF Through
      <4> QED
        BY <2>1, <3>1, <3>3, <3>4, <4>2, <4>3 DEF LoadedAt, k
    <3> QED
      BY <3>5, <3>6
  <2> QED
    BY <1>3, <1>4, <1>6, <2>1, <2>4
<1>9. ASSUME NEW i \in Instance, EnsureCreates(i) PROVE LoadedInv'
  <2> DEFINE row == load[i].row
             t == TableOf(row.type)
             new == Len(tables[t]) + 1
  <2>1. UNCHANGED <<edit, edits, faults, listing>> /\ load[i].pc = "create"
    BY <1>9 DEF EnsureCreates
  <2>2. /\ load[i] \in Loading /\ row \in Row /\ row.type \in Resource /\ t \in Table /\ Appends(t, row)
        /\ load' = [load EXCEPT ![i] = load'[i]]
    BY <1>9, CreatedRow, Zenon
  <2>3. IF row.type = "factory" THEN load'[i] = [load[i] EXCEPT !.pc = "rules", !.new = Len(tables["source"]) + 1]
        ELSE load'[i] = AtNext(load[i])
    BY <1>9, CreatedRow, Zenon
  <2>4. \A j \in Instance \ {i} : load'[j] = load[j]
    BY <1>1, <2>2
  <2>5. t \in Listed /\ t = TableOf(row.type) /\ load[i].pos \in DOMAIN LoadOrder
    BY <2>2, Tables DEF Loading
  <2> HIDE DEF t
  <2>6. \A u \in Listed : \A id \in DOMAIN tables[u] : id \in DOMAIN tables'[u] /\ tables'[u][id] = tables[u][id]
    BY <1>1, <2>2, <2>5, Appended, Zenon
  <2>7. new \in DOMAIN tables'[t] /\ tables'[t][new] = row
    BY <1>1, <2>2, <2>5, Appended, Zenon
  <2>8. \A u \in Listed : \A id \in DOMAIN tables'[u] : id \in DOMAIN tables[u] \/ (u = t /\ id = new)
    BY <1>1, <2>2, <2>5, Appended, Zenon
  <2> HIDE DEF row, new
  <2>9. Grown(tables, tables')
    BY <2>6 DEF Grown, Alike
  <2>10. ASSUME Undisturbed PROVE AllComplete(tables') /\ LoadedAt(i)'
    <3>1. /\ AllComplete(tables) /\ row.type = LoadOrder[load[i].pos]
          /\ Complete(tables, row) /\ Owns(tables, i, row)
          /\ \A n \in DOMAIN LoadOrder : n < load[i].pos => Has(tables, i, LoadOrder[n])
      BY <1>3, <2>1, <2>10 DEF LoadedAt, Through, row
    <3>2. \A r : Complete(tables, r) => Complete(tables', r)
      BY <2>9, GrownRow DEF Alike
    <3>3. AllComplete(tables')
      BY <2>6, <2>7, <2>8, <3>1, <3>2, Tables DEF AllComplete
    <3>4. Owns(tables', i, row)
      <4>1. Alike(row, row)
        BY DEF Alike
      <4> QED
        BY <2>9, <3>1, <4>1, GrownRow
    <3>5. Has(tables', i, LoadOrder[load[i].pos])
      BY <2>5, <2>7, <3>1, <3>4 DEF Has
    <3>6. \A n \in DOMAIN LoadOrder : n <= load[i].pos => Has(tables', i, LoadOrder[n])
      <4>1. LoadOrder \in Seq(Resource)
        BY DEF LoadOrderAssumption
      <4>2. ASSUME NEW n \in DOMAIN LoadOrder, n <= load[i].pos PROVE n < load[i].pos \/ n = load[i].pos
        BY <2>5, <4>1, <4>2
      <4>3. ASSUME NEW n \in DOMAIN LoadOrder, n < load[i].pos PROVE Has(tables', i, LoadOrder[n])
        <5>1. LoadOrder[n] \in Resource /\ Has(tables, i, LoadOrder[n])
          BY <3>1, <4>1, <4>3
        <5> QED
          BY <2>9, <3>1, <5>1, GrownTables
      <4> QED
        BY <3>5, <4>2, <4>3
    <3>7. CASE row.type = "factory"
      <4> DEFINE last == Len(tables["source"]) + 1
      <4>1. load'[i] = [load[i] EXCEPT !.pc = "rules", !.new = last]
        BY <2>3, <3>7
      <4> HIDE DEF last
      <4>2. load'[i].pc = "rules" /\ load'[i].row = row /\ load'[i].pos = load[i].pos
        BY <2>2, <4>1 DEF Loading, row
      <4>3. \A n \in DOMAIN LoadOrder : Through(load'[i], n) => n <= load[i].pos
        BY <4>2 DEF Through
      <4> QED
        BY <3>1, <3>3, <3>6, <4>2, <4>3 DEF LoadedAt
    <3>8. CASE row.type # "factory"
      <4>1. load'[i] = AtNext(load[i])
        BY <2>3, <3>8
      <4> QED
        BY <2>1, <3>3, <3>6, <4>1, LoadGoesOn
    <3> QED
      BY <3>3, <3>7, <3>8
  <2> QED
    BY <1>6, <2>1, <2>4, <2>9, <2>10
<1>10. ASSUME NEW i \in Instance, createFactoryRules(i) PROVE LoadedInv'
  <2>1. UNCHANGED <<edit, edits, faults, listing>>
    BY <1>10 DEF createFactoryRules
  <2>2. /\ load[i] \in Loading /\ load[i].pc = "rules" /\ load' = [load EXCEPT ![i] = AtNext(load[i])]
        /\ load'[i] = AtNext(load[i])
    BY <1>10, RuledRow, Zenon
  <2>3. \A j \in Instance \ {i} : load'[j] = load[j]
    BY <1>1, <2>2
  <2>4. \A u \in Listed : /\ DOMAIN tables'[u] = DOMAIN tables[u]
                          /\ \A id \in DOMAIN tables[u] : Alike(tables'[u][id], tables[u][id])
    BY <1>10, RulesOnly
  <2>5. Grown(tables, tables')
    BY <2>4 DEF Grown
  <2>6. ASSUME Undisturbed PROVE AllComplete(tables') /\ LoadedAt(i)'
    <3>1. /\ AllComplete(tables)
          /\ \A n \in DOMAIN LoadOrder : n <= load[i].pos => Has(tables, i, LoadOrder[n])
      BY <1>3, <2>2, <2>6 DEF LoadedAt, Through
    <3>2. ASSUME NEW t \in Table, NEW id \in DOMAIN tables'[t] PROVE Complete(tables', tables'[t][id])
      <4>1. t \in Listed
        BY Tables
      <4>2. Complete(tables, tables[t][id]) /\ Alike(tables'[t][id], tables[t][id])
        BY <2>4, <3>1, <4>1 DEF AllComplete
      <4> QED
        BY <2>5, <4>2, GrownRow
    <3>3. \A n \in DOMAIN LoadOrder : LoadOrder[n] \in Resource
      BY DEF LoadOrderAssumption
    <3>4. \A n \in DOMAIN LoadOrder : n <= load[i].pos => Has(tables', i, LoadOrder[n])
      BY <2>5, <3>1, <3>3, GrownTables
    <3>5. LoadedAt(i)'
      BY <2>2, <3>4, LoadGoesOn
    <3> QED
      BY <3>2, <3>5 DEF AllComplete
  <2> QED
    BY <1>6, <2>1, <2>3, <2>5, <2>6
\* A database error, an edit and a listing disturb.
<1>11. ASSUME edits' # 0, ~ Undisturbed' PROVE LoadedInv'
  BY <1>11 DEF LoadedInv
<1>12. ASSUME NEW i \in Instance, EnsureFails(i) PROVE LoadedInv'
  <2>1. faults' # 0 /\ UNCHANGED <<edit, edits>>
    BY <1>1, <1>12 DEF EnsureFails
  <2> QED
    BY <1>2, <2>1 DEF LoadedInv, Undisturbed
<1>13. ASSUME Users PROVE LoadedInv'
  <2>1. ASSUME edits' = edits + 1 PROVE LoadedInv'
    BY <1>1, <1>11, <2>1 DEF Undisturbed
  <2>2. ASSUME NEW t \in Table, NEW row \in NewRows(t), Create(t, row) PROVE LoadedInv'
    BY <2>1, <2>2 DEF Create
  <2>3. ASSUME NEW t \in Table, Delete(t) PROVE LoadedInv'
    BY <2>1, <2>3 DEF Delete
  <2>4. ASSUME NEW t \in Table, Reads(t) PROVE LoadedInv'
    BY <2>1, <2>4 DEF Reads
  <2>5. CASE RowSaved
    BY <2>1, <2>5 DEF RowSaved
  <2>6. CASE UpdateSaves
    BY <1>2, <1>11, <2>6 DEF UpdateSaves, Undisturbed
  <2>7. ASSUME NEW t \in Listed, List(t) PROVE LoadedInv'
    <3>1. Listing' /\ UNCHANGED <<edit, edits>>
      <4>1. listing.table = t /\ t # "none" /\ listing \in ListState
        BY <2>7 DEF List, Listed, Table, CatalogTypeInv
      <4> DEFINE rest == PageAt(listing.order, Len(listing.out))
                 cut == listing.limit # 0 /\ Len(rest) >= listing.limit
                 out == listing.out \o (IF cut THEN SubSeq(rest, 1, listing.limit) ELSE rest)
      <4>2. listing' = [listing EXCEPT !.out = out, !.over = ~cut] /\ UNCHANGED <<edit, edits>>
        BY <2>7 DEF List
      <4> HIDE DEF out, cut
      <4>3. listing'.table = listing.table
        BY <4>1, <4>2 DEF ListState
      <4> QED
        BY <4>1, <4>2, <4>3 DEF Listing
    <3> QED
      BY <1>2, <3>1 DEF LoadedInv, Undisturbed
  <2> QED
    BY <1>1, <1>13, <2>2, <2>3, <2>4, <2>5, <2>6, <2>7, UsersDo, Zenon
<1>14. CASE UNCHANGED catalogVars
  BY <1>3, <1>4, <1>5, <1>14, LoadWaits DEF catalogVars
<1> QED
  BY <1>7, <1>8, <1>9, <1>10, <1>12, <1>13, <1>14 DEF CatalogNext

\* No load is through with anything in an empty database.
LEMMA LoadedInitially == ASSUME CatalogAssumption, LoadOrderAssumption, CatalogInit PROVE LoadedInv
<1>1. edit.id = 0
  BY CatalogDown DEF CatalogInit
<1>2. CASE /\ tables = [t \in Listed |-> <<>>]
           /\ load = [i \in Instance |-> Down]
           /\ listing = NotListing /\ boots = 0
  <2>1. AllComplete(tables)
    BY <1>2, Tables DEF AllComplete
  <2>2. Down.pc = "down"
    BY CatalogDown
  <2>3. ASSUME NEW i \in Instance PROVE LoadedAt(i)
    BY <1>2, <2>2 DEF LoadedAt, Through
  <2> QED
    BY <1>1, <2>1, <2>3 DEF LoadedInv
<1>3. CASE \E t \in Listed, first \in Instance, heap \in BOOLEAN, limit \in {0, PageSize} :
             listing = [NotListing EXCEPT !.table = t, !.heap = heap, !.limit = limit,
                            !.order = [n \in 1 .. Rows |-> n], !.kept = 1 .. Rows, !.over = FALSE]
  <2>1. "none" \notin Listed
    BY DEF Listed, Table
  <2>2. listing.table \in Listed
    BY <1>3 DEF NotListing
  <2> QED
    BY <1>1, <2>1, <2>2 DEF LoadedInv, Undisturbed, Listing
<1> QED
  BY <1>2, <1>3 DEF CatalogInit

\* While nobody disturbs the loads, an instance exports all that it is through with.
LEMMA HasExported ==
    ASSUME LoadOrderAssumption, CatalogTypeInv, AllComplete(tables), NEW i \in Instance,
           NEW n \in DOMAIN LoadOrder, Has(tables, i, LoadOrder[n]), NEW ruled
    PROVE  \E t \in Table : \E id \in LiveRows(t) :
              /\ InPipeline(i, t, id)
              /\ [Exported(t, id) EXCEPT !.ruled = ruled] =
                     [type |-> LoadOrder[n], name |-> Declared, ruled |-> ruled,
                      refs |-> [u \in Table |-> IF <<TableOf(LoadOrder[n]), u>> \in Refers
                                                THEN Declared ELSE "none"]]
<1> DEFINE k == LoadOrder[n]
           t == TableOf(k)
           row(id) == tables[t][id]
<1>1. k \in Resource /\ t \in Table /\ t \in Listed /\ TablesInv
  BY Tables DEF LoadOrderAssumption, CatalogTypeInv
<1>2. PICK id \in DOMAIN tables[t] : row(id).type = k /\ Owns(tables, i, row(id))
  BY DEF Has
<1>3. Complete(tables, row(id)) /\ id \in LiveRows(t)
  BY <1>1 DEF AllComplete, Complete, LiveRows
<1>4. t # "source" => k = t
  BY <1>1, <1>2, Kinds
<1>5. t = "source" => k \in {"source", "factory"}
  BY <1>1, <1>2, Kinds
<1>6. InPipeline(i, t, id)
  <2>1. CASE t = "pipeline"
    BY <1>2, <1>4, <2>1 DEF InPipeline, Owns
  <2>2. CASE t \in {"source", "exporter"}
    BY <1>2, <1>4, <1>5, <2>2 DEF InPipeline, Owns
  <2>3. CASE t \notin {"pipeline", "source", "exporter"}
    BY <2>3 DEF InPipeline
  <2> QED
    BY <2>1, <2>2, <2>3
<1>7. ASSUME NEW u \in Table
      PROVE  NameOf(u, row(id).refs[u]) = IF <<t, u>> \in Refers THEN Declared ELSE "none"
  <2>1. CASE <<t, u>> \in Refers
    <3>1. row(id).refs[u] \in DOMAIN tables[u]
      BY <1>2, <1>3, <2>1 DEF Complete
    <3>2. Complete(tables, tables[u][row(id).refs[u]])
      BY <3>1 DEF AllComplete
    <3> QED
      BY <2>1, <3>1, <3>2 DEF NameOf, LiveRows, Complete
  <2>2. CASE <<t, u>> \notin Refers
    <3>1. row(id).refs[u] = 0
      BY <1>2, <1>3, <2>2 DEF Complete
    <3>2. 0 \notin LiveRows(u)
      BY <1>1, Tables, LiveIds
    <3> QED
      BY <2>2, <3>1, <3>2 DEF NameOf
  <2> QED
    BY <2>1, <2>2
<1>8. row(id).name = Declared
  BY <1>3 DEF Complete
<1> DEFINE refs == [u \in Table |-> NameOf(u, row(id).refs[u])]
<1>9. refs = [u \in Table |-> IF <<t, u>> \in Refers THEN Declared ELSE "none"]
  BY <1>7
<1>10. Exported(t, id) = [type |-> row(id).type, name |-> row(id).name, ruled |-> row(id).ruled, refs |-> refs]
  BY DEF Exported
<1> HIDE DEF refs
<1>11. [Exported(t, id) EXCEPT !.ruled = ruled] = [type |-> k, name |-> Declared, ruled |-> ruled, refs |-> refs]
  BY <1>2, <1>8, <1>10
<1> QED
  BY <1>1, <1>3, <1>6, <1>9, <1>11

-----------------------------------------------------------------------------
(* What the specification promises.                                        *)

CatalogInv == CatalogTypeInv /\ KeptInv /\ LoadedInv /\ ScanInv

\* The four invariants together are inductive.
LEMMA CatalogInductive == CatalogSpec => []CatalogInv
<1>1. CatalogInit => CatalogInv
  BY CatalogAssumption, LoadOrderAssumption, CatalogTypesInitially, KeptInitially, LoadedInitially,
     ScanInitially DEF CatalogInv
<1>2. CatalogInv /\ [CatalogNext]_catalogVars => CatalogInv'
  BY CatalogAssumption, LoadOrderAssumption, CatalogTypesKept, KeptKept, LoadedKept, ScanKept DEF CatalogInv
<1> QED
  BY <1>1, <1>2, PTL DEF CatalogSpec

\* Whatever the handlers, loads, crashes and restarts do, every row lies in
\* the table of its kind, what is saved is a row of its table, and a load
\* creates nothing but what the config declares.
THEOREM CatalogTypeCorrect == CatalogSpec => []CatalogTypeInv
<1>1. CatalogInv => CatalogTypeInv
  BY DEF CatalogInv
<1> QED
  BY <1>1, CatalogInductive, PTL

\* Load is idempotent, whatever other loads create and users edit in between:
\* no load creates a row with the natural key of one that was there when it
\* began and that nobody has edited since.
THEOREM LoadCreatesNothingTwice == CatalogSpec => LoadIsIdempotent
<1>1. CatalogInv => \A i \in Instance :
          load[i].pc = "create" /\ load'[i] # load[i] /\ tables' # tables =>
              \A k \in load[i].kept : Key(tables[k[1]][k[2]]) # Key(load[i].row)
  BY DEF CatalogInv, KeptInv
<1> QED
  BY <1>1, CatalogInductive, PTL DEF LoadIsIdempotent

\* Once autoloader.Load has returned, and as long as nobody has edited
\* anything and the database has refused nothing, the export of the instance
\* holds the whole of its config, whatever loads of other instances, crashes
\* and restarts it was interleaved with.
THEOREM ConfigIsLoaded == CatalogSpec => []LoadedComplete
<1>1. CatalogInv => LoadedComplete
  <2> SUFFICES ASSUME CatalogInv, NEW i \in Instance, load[i].pc = "done", edits = 0, faults = 0, ~ Listing,
                      NEW c \in Config
               PROVE  \E t \in Table : \E id \in LiveRows(t) :
                         InPipeline(i, t, id) /\ [Exported(t, id) EXCEPT !.ruled = c.ruled] = c
    BY DEF LoadedComplete
  <2>1. CatalogTypeInv /\ AllComplete(tables) /\ \A n \in DOMAIN LoadOrder : Has(tables, i, LoadOrder[n])
    BY DEF CatalogInv, LoadedInv, Undisturbed, LoadedAt, Through
  <2>2. PICK n \in DOMAIN LoadOrder :
            c = [type |-> LoadOrder[n], name |-> Declared, ruled |-> LoadOrder[n] = "factory",
                 refs |-> [u \in Table |-> IF <<TableOf(LoadOrder[n]), u>> \in Refers THEN Declared ELSE "none"]]
    BY DEF Config
  <2> DEFINE refs == [u \in Table |-> IF <<TableOf(LoadOrder[n]), u>> \in Refers THEN Declared ELSE "none"]
             full(ruled) == [type |-> LoadOrder[n], name |-> Declared, ruled |-> ruled, refs |-> refs]
  <2>3. c = full(c.ruled)
    BY <2>2
  <2>4. Has(tables, i, LoadOrder[n])
    BY <2>1
  <2>5. \A ruled : \E t \in Table : \E id \in LiveRows(t) :
            InPipeline(i, t, id) /\ [Exported(t, id) EXCEPT !.ruled = ruled] = full(ruled)
    BY <2>1, <2>4, LoadOrderAssumption, HasExported
  <2> HIDE DEF full
  <2>6. \E t \in Table : \E id \in LiveRows(t) :
            InPipeline(i, t, id) /\ [Exported(t, id) EXCEPT !.ruled = c.ruled] = full(c.ruled)
    BY <2>5
  <2> QED
    BY <2>3, <2>6
<1> QED
  BY <1>1, CatalogInductive, PTL

\* A client that lists a table in pages, while others edit it, misses no more
\* rows that were there all the time than rows were deleted, brought back or
\* moved meanwhile, and gets no more rows twice.
THEOREM ListingMissesFew == CatalogSpec => []ListMissesFew
<1>1. CatalogInv => ListMissesFew
  BY DEF CatalogInv, ScanInv
<1> QED
  BY <1>1, CatalogInductive, PTL

-----------------------------------------------------------------------------
(* SourceManager.                                                          *)

Made == {w \in Worker : state[w] # "new"}

PlacesInv ==
    /\ ~up => entry = NoWorker
    /\ cancelled \subseteq Made
    /\ \A c \in Caller : step[c] = "disableRemove" => token[c] \in Made /\ token[c] # entry

IInv == TypeOK /\ PlacesInv /\ NoOrphanWorker /\ EntryIsServed

-----------------------------------------------------------------------------

\* The initial state satisfies the invariant.
LEMMA InitIInv == ASSUME ManagerAssumption, Init PROVE IInv
<1>1. TypeOK
    BY DEF Init, TypeOK, Step, State, NoWorker
<1>2. PlacesInv
    BY DEF Init, PlacesInv
<1>3. NoOrphanWorker /\ EntryIsServed
    BY DEF Init, NoOrphanWorker, EntryIsServed, Live
<1>4. QED
    BY <1>1, <1>2, <1>3 DEF IInv

\* A new service keeps the invariant if the maps are free.
LEMMA NewServiceKeeps ==
    ASSUME ManagerAssumption, IInv, entry = NoWorker, NEW w \in Worker, NEW b \in Nat,
           NewService(w, b), UNCHANGED <<rowVars, token>>, up' = TRUE,
           snap' \in [Caller -> Nat], step' \in [Caller -> Step],
           \A c \in Caller : step'[c] = "disableRemove" <=> step[c] = "disableRemove"
    PROVE  IInv'
<1> USE DEF IInv
<1>0. /\ state[w] = "new" /\ state' = [state EXCEPT ![w] = "serve"]
      /\ entry' = w /\ UNCHANGED <<target, cancelled>>
      /\ cursor' = [cursor EXCEPT ![w] = b]
    BY DEF NewService
<1>1. TypeOK'
    BY <1>0 DEF TypeOK, State, rowVars
<1>2. \A v \in Worker : state'[v] = IF v = w THEN "serve" ELSE state[v]
    BY <1>0 DEF TypeOK
<1>3. PlacesInv'
    BY <1>0, <1>2 DEF PlacesInv, Made
<1>4. NoOrphanWorker'
    BY <1>0, <1>2 DEF NoOrphanWorker, Live, Holds, NoWorker, Worker, ManagerAssumption
<1>5. EntryIsServed'
    BY <1>0, <1>2 DEF EntryIsServed, Live, PlacesInv, Made
<1>6. QED
    BY <1>1, <1>3, <1>4, <1>5

\* Start keeps the invariant.
LEMMA StartKeeps == ASSUME ManagerAssumption, IInv, Start PROVE IInv'
<1>1. CASE enabled
  <2>1. PICK w \in Worker : NewService(w, syncBlock)
    BY <1>1 DEF Start
  <2>2. QED
    BY <2>1, NewServiceKeeps DEF Start, IInv, PlacesInv, TypeOK, rowVars, callVars
<1>2. CASE ~enabled
  <2>1. UNCHANGED <<rowVars, callVars, entry, workerVars>> /\ up' = TRUE
    BY <1>2 DEF Start
  <2>2. TypeOK'
    BY <2>1 DEF IInv, TypeOK, rowVars, callVars, workerVars
  <2>3. PlacesInv' /\ NoOrphanWorker' /\ EntryIsServed'
    BY <2>1 DEF IInv, PlacesInv, NoOrphanWorker, EntryIsServed, Live, Made, Holds, callVars,
       workerVars
  <2>4. QED
    BY <2>2, <2>3 DEF IInv
<1>3. QED
    BY <1>1, <1>2

\* A crash leaves no worker behind.
LEMMA CrashKeeps == ASSUME ManagerAssumption, IInv, Crash PROVE IInv'
<1> USE DEF IInv
<1>1. TypeOK'
    BY DEF Crash, TypeOK, Step, State, NoWorker, rowVars
<1>2. \A w \in Worker : state'[w] = IF w \in Live THEN "gone" ELSE state[w]
    BY DEF Crash
<1>3. Live' = {}
    BY <1>2 DEF Live
<1>4. PlacesInv'
    BY <1>2 DEF Crash, PlacesInv, Made, Live
<1>5. QED
    BY <1>1, <1>3, <1>4 DEF NoOrphanWorker, EntryIsServed, Crash

\* The steps of a handler keep the invariant.
LEMMA CallKeeps ==
    ASSUME ManagerAssumption, IInv, NEW c \in Caller,
           EnableReads(c) \/ DisableReads(c) \/ Call(c) \/ CallFails(c)
    PROVE  IInv'
<1> USE DEF IInv
<1>1. CASE StartSource(c)
  <2>1. /\ step' = [step EXCEPT ![c] = "idle"] /\ step[c] = "enableStart" /\ up
        /\ snap' = [snap EXCEPT ![c] = 0] /\ UNCHANGED <<up, rowVars, token>>
    BY <1>1 DEF StartSource, Goes
  <2>2. /\ snap' \in [Caller -> Nat] /\ step' \in [Caller -> Step] /\ snap[c] \in Nat
        /\ \A d \in Caller : step'[d] = "disableRemove" <=> step[d] = "disableRemove"
    BY <2>1 DEF TypeOK, Step
  <2>3. CASE entry = NoWorker
    <3>1. PICK w \in Worker : NewService(w, snap[c])
        BY <1>1, <2>3 DEF StartSource
    <3>2. up' = TRUE
        BY <2>1 DEF TypeOK
    <3>3. QED
        BY <2>1, <2>2, <2>3, <3>1, <3>2, NewServiceKeeps
  <2>4. CASE entry # NoWorker
    <3>1. UNCHANGED <<entry, workerVars>>
        BY <1>1, <2>4 DEF StartSource
    <3>2. TypeOK'
        BY <2>1, <2>2, <3>1 DEF TypeOK, rowVars, workerVars
    <3>3. PlacesInv' /\ NoOrphanWorker' /\ EntryIsServed'
        BY <2>1, <2>2, <3>1 DEF PlacesInv, NoOrphanWorker, EntryIsServed, Live, Made, Holds,
           workerVars
    <3>4. QED
        BY <3>2, <3>3
  <2>5. QED
    BY <2>3, <2>4
<1>2. CASE DisableTakes(c)
  <2>1. /\ step[c] = "disableTake" /\ up /\ up' = up
        /\ step' = [step EXCEPT ![c] = IF entry = NoWorker THEN "idle" ELSE "disableRemove"]
        /\ token' = [token EXCEPT ![c] = entry] /\ entry' = NoWorker
        /\ UNCHANGED <<rowVars, snap, workerVars>>
    BY <1>2 DEF DisableTakes, Goes
  <2>2. TypeOK'
    BY <2>1 DEF TypeOK, Step, rowVars, workerVars
  <2>3. \A d \in Caller : /\ d # c => step'[d] = step[d] /\ token'[d] = token[d]
                          /\ d = c => token'[d] = entry
    BY <2>1 DEF TypeOK
  <2>4. step'[c] = IF entry = NoWorker THEN "idle" ELSE "disableRemove"
    BY <2>1 DEF TypeOK
  <2>5. PlacesInv'
    BY <2>1, <2>3, <2>4 DEF PlacesInv, EntryIsServed, Live, Made, workerVars, NoWorker, Worker,
       ManagerAssumption
  <2>6. NoOrphanWorker'
    <3>1. ASSUME NEW w \in Live PROVE w \in cancelled \/ \E d \in Caller : Holds(d, w)'
      <4>1. CASE w = entry
        <5>1. w # NoWorker
            BY DEF Live, Worker, NoWorker, ManagerAssumption
        <5>2. QED
            BY <2>3, <2>4, <4>1, <5>1 DEF Holds
      <4>2. CASE w # entry
          BY <2>1, <2>3, <4>2 DEF NoOrphanWorker, Holds
      <4>3. QED
          BY <4>1, <4>2
    <3>2. QED
        BY <2>1, <3>1 DEF NoOrphanWorker, Live, workerVars
  <2>7. EntryIsServed'
    BY <2>1 DEF EntryIsServed
  <2>8. QED
    BY <2>2, <2>5, <2>6, <2>7
<1>3. CASE DisableRemoves(c)
  <2>1. /\ step[c] = "disableRemove" /\ up /\ up' = up
        /\ step' = [step EXCEPT ![c] = "disableWait"]
        /\ token' = [token EXCEPT ![c] = NoWorker]
        /\ cancelled' = cancelled \cup {token[c]}
        /\ UNCHANGED <<rowVars, entry, snap, state, cursor, target>>
    BY <1>3 DEF DisableRemoves, Goes
  <2>2. token[c] \in Made /\ token[c] # entry
    BY <2>1 DEF PlacesInv
  <2>3. TypeOK'
    BY <2>1, <2>2 DEF TypeOK, Step, Made, rowVars
  <2>4. \A d \in Caller : /\ d # c => step'[d] = step[d] /\ token'[d] = token[d]
                          /\ d = c => step'[d] = "disableWait"
    BY <2>1 DEF TypeOK
  <2>5. PlacesInv'
    BY <2>1, <2>2, <2>4 DEF PlacesInv, Made
  <2>6. NoOrphanWorker'
    <3>1. ASSUME NEW w \in Live PROVE w = entry \/ w \in cancelled' \/ \E d \in Caller : Holds(d, w)'
        BY <2>1, <2>4 DEF NoOrphanWorker, Holds
    <3>2. QED
        BY <2>1, <3>1 DEF NoOrphanWorker, Live
  <2>7. EntryIsServed'
    BY <2>1, <2>2 DEF EntryIsServed, Live
  <2>8. QED
    BY <2>3, <2>5, <2>6, <2>7
<1>4. CASE \/ EnableReads(c) \/ DisableReads(c) \/ CallFails(c) \/ EnableUpdates(c)
           \/ DisableUpdates(c) \/ DisableWaits(c) \/ DisableUpdatesStatus(c)
  <2> USE DEF EnableReads, DisableReads, CallFails, EnableUpdates, DisableUpdates, DisableWaits,
              DisableUpdatesStatus, Goes
  <2>1. /\ UNCHANGED <<up, entry, token, state, cursor, target, cancelled, syncBlock>>
        /\ step[c] # "disableRemove"
        /\ \E t \in Step \ {"disableRemove"} : step' = [step EXCEPT ![c] = t]
    BY <1>4 DEF workerVars, rowVars, Step
  <2>2. snap' \in [Caller -> Nat]
    BY <1>4 DEF TypeOK
  <2>3. enabled' \in BOOLEAN /\ status' \in {"RUNNING", "STOPPED"}
    BY <1>4 DEF TypeOK, rowVars
  <2>4. TypeOK'
    BY <2>1, <2>2, <2>3 DEF TypeOK
  <2>5. \A d \in Caller : step'[d] = "disableRemove" <=> step[d] = "disableRemove"
    BY <2>1 DEF TypeOK
  <2>6. PlacesInv' /\ NoOrphanWorker' /\ EntryIsServed'
    BY <2>1, <2>5 DEF PlacesInv, NoOrphanWorker, EntryIsServed, Live, Made, Holds
  <2>7. QED
    BY <2>4, <2>6
<1>5. QED
    BY <1>1, <1>2, <1>3, <1>4 DEF Call

\* A worker that ends has been cancelled; no other step of a worker matters here.
LEMMA WorkKeeps ==
    ASSUME ManagerAssumption, IInv, NEW w \in Worker, Work(w) \/ WorkerFails(w)
    PROVE  IInv'
<1> USE DEF IInv, Work, WorkerServes, WorkerOpensWindow, WorkerWritesCursor, WorkerStops,
            WorkerFails, Moves
<1>1. /\ UNCHANGED <<up, enabled, entry, step, snap, token, cancelled>>
      /\ state[w] \in {"serve", "loop", "window"}
    BY DEF rowVars, callVars
<1>2. PICK t \in State \ {"new"} :
        /\ state' = [state EXCEPT ![w] = t]
        /\ t = "gone" => w \in cancelled
    BY DEF State
<1>3. status' \in {"RUNNING", "STOPPED"} /\ syncBlock' \in Nat
    BY DEF TypeOK, rowVars
<1>4. cursor' \in [Worker -> Nat] /\ target' \in [Worker -> Nat]
    BY ManagerAssumption DEF TypeOK, ManagerAssumption
<1>5. TypeOK'
    BY <1>1, <1>2, <1>3, <1>4 DEF TypeOK
<1>6. \A v \in Worker : state'[v] = IF v = w THEN t ELSE state[v]
    BY <1>2 DEF TypeOK
<1>7. PlacesInv'
    BY <1>1, <1>2, <1>6 DEF PlacesInv, Made
<1>8. NoOrphanWorker'
    BY <1>1, <1>6 DEF NoOrphanWorker, Live, Holds
<1>9. EntryIsServed'
    BY <1>1, <1>2, <1>6 DEF EntryIsServed, Live
<1>10. QED
    BY <1>5, <1>7, <1>8, <1>9

\* The inductive invariant of the manager.
THEOREM InductiveInvariant == Spec => []IInv
<1> USE ManagerAssumption
<1>1. Init => IInv
    BY InitIInv
<1>2. IInv /\ [Next]_vars => IInv'
  <2> SUFFICES ASSUME IInv, [Next]_vars PROVE IInv'
      OBVIOUS
  <2>1. CASE UNCHANGED vars
      BY <2>1 DEF IInv, TypeOK, PlacesInv, NoOrphanWorker, EntryIsServed, Live, Made, Holds, vars
  <2>2. QED
      BY <2>1, StartKeeps, CrashKeeps, CallKeeps, WorkKeeps DEF Next
<1>3. QED
    BY <1>1, <1>2, PTL DEF Spec

\* The state of SourceManager is well typed in every reachable state; in
\* particular RemoveAndWait is only called with a token that exists.
THEOREM TypeCorrect == Spec => []TypeOK
<1>1. IInv => TypeOK
    BY DEF IInv
<1>2. QED
    BY <1>1, InductiveInvariant, PTL

\* However many EnableSource and DisableSource overlap, no running worker escapes
\* the maps without being cancelled.
THEOREM NoWorkerIsLost == Spec => []NoOrphanWorker
<1>1. IInv => NoOrphanWorker
    BY DEF IInv
<1>2. QED
    BY <1>1, InductiveInvariant, PTL

\* The maps never hold a worker that has ended or has been told to.
THEOREM MapsHoldRunningWorkers == Spec => []EntryIsServed
<1>1. IInv => EntryIsServed
    BY DEF IInv
<1>2. QED
    BY <1>1, InductiveInvariant, PTL

=============================================================================
