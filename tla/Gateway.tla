------------------------------- MODULE Gateway ------------------------------
(***************************************************************************)
(* The gateway, internal/gateway: it finds the instance that owns what a   *)
(* request addresses and forwards the request there.                       *)
(*                                                                         *)
(* An address is found in hops, source or exporter to pipeline to instance *)
(* to address, each read from the metadata database and cached for TTL.    *)
(* The cache reads outside its lock, so that reads of one key overlap and  *)
(* the older value may be stored last.  The list of running instances is   *)
(* cached too, but read under its lock.  Meanwhile sources, pipelines and  *)
(* instances move.  Nothing drops an entry: InvalidateInstance has no      *)
(* caller.                                                                 *)
(*                                                                         *)
(* A stream of updates is opened on every instance of the list, or on the  *)
(* owner of the pipeline it is asked for.  There an update emitted on the  *)
(* bus goes into the stream's channel (internal/grpc/stream-handlers.go),  *)
(* or is dropped when it is full; the gateway merges what the instances    *)
(* send into one channel, which makes them wait when it is full, or hands  *)
(* on what the one owner sends.                                            *)
(***************************************************************************)
EXTENDS Naturals, Sequences

CONSTANTS
    Entity,     \* sources and exporters
    Pipeline,
    Instance,
    Address,    \* what an instance listens on
    None,       \* no row
    TTL,        \* how long an entry is fresh
    Request,    \* requests that may be in progress at once
    MaxLoad,    \* bound: how long a read of the database takes
    MaxTime,    \* bound: how long the behaviour is
    MaxRequests,\* bound: how many requests are begun
    MaxStreams, \* bound: how many streams, in behaviours that have those
    MaxChanges, \* bound: how many rows change
    Buffer,     \* how many updates a channel holds
    MaxUpdates  \* bound: how many updates of one instance a stream is open for

ASSUME GatewayAssumption ==
    /\ {MaxLoad, MaxTime, MaxRequests, MaxStreams, MaxChanges, MaxUpdates} \subseteq Nat
    /\ TTL \in Nat \ {0}
    /\ Buffer \in Nat \ {0}
    /\ None \notin Entity \cup Pipeline \cup Instance \cup Address
    /\ Entity \cap Pipeline = {} /\ (Entity \cup Pipeline) \cap Instance = {}
    /\ (Entity \cup Pipeline \cup Instance) \cap Address = {}

Key == Entity \cup Pipeline \cup Instance
\* Behaviours begin when what was written at 0 has reached every cache.
Start == TTL + MaxLoad

\* Where each kind of row leads.
Target(k) == IF k \in Entity THEN Pipeline ELSE IF k \in Pipeline THEN Instance ELSE Address

VARIABLES
    clock,
    db,         \* db[k]: the pipeline, instance or address in k's row, or None
    changed,    \* changed[k]: when k's row was last written
    cache,      \* cache[k]: the value and expiry of k's entry
    fleet,      \* the cached list of running instances' addresses
    req,        \* req[r]: where request r is
    installed,  \* instances whose plugin has been built for the last install
    begun,      \* how many requests have begun
    changes,    \* how many rows have changed
    asks        \* bound: which kind of request a behaviour has, of Kind

rowVars == <<db, changed, changes, asks>>
cacheVars == <<cache, fleet>>
vars == <<clock, db, changed, cache, fleet, req, installed, begun, changes, asks>>

NoEntry == [val |-> None, exp |-> 0]
Idle == [pc |-> "idle"]
Kind == {"route", "create", "any", "install", "stream", "pump"}

-----------------------------------------------------------------------------
(* The rows *)

Listening(i, a) == db[i] = a

\* The handlers of the instances create, edit and delete rows: a pipeline is
\* given another instance, a source another pipeline.
RowChanges(k) ==
    /\ changes < MaxChanges
    /\ \E v \in Target(k) \cup {None} :
          /\ v # db[k]
          /\ k \in Instance => v # None /\ \A i \in Instance : ~Listening(i, v)
          /\ db' = [db EXCEPT ![k] = v]
    /\ changed' = [changed EXCEPT ![k] = clock]
    /\ changes' = changes + 1
    /\ UNCHANGED <<asks, clock, cacheVars, req, installed, begun>>

\* Time passes; a read of the database does not take longer than MaxLoad.
Tick ==
    /\ clock < MaxTime
    /\ \A r \in Request : req[r].pc \in {"store", "list"} => clock < req[r].at + MaxLoad
    /\ clock' = clock + 1
    /\ UNCHANGED <<rowVars, cacheVars, req, installed, begun>>

-----------------------------------------------------------------------------
(* The cache of hops: getOrLoad *)

\* Mutant: an entry is still fresh at the moment of its expiry.
FreshAtExpiry(e) == e.val # None /\ clock <= e.exp

Fresh(e) == e.val # None /\ clock < e.exp

\* A request that has found v: it goes on with the next hop, or forwards.
Follow(r, v) ==
    IF v \in Address
    THEN [pc |-> "forward", from |-> req[r].from, begun |-> req[r].begun, addr |-> v]
    ELSE [pc |-> "resolve", from |-> req[r].from, begun |-> req[r].begun, key |-> v]

Begins(r, kind) ==
    /\ asks = kind /\ req[r] = Idle
    /\ begun < IF kind \in {"stream", "pump"} THEN MaxStreams ELSE MaxRequests
    /\ begun' = begun + 1

\* A request for the instance that owns k.
Routed(r, k) ==
    /\ req' = [req EXCEPT ![r] = [pc |-> "resolve", from |-> k, key |-> k, begun |-> clock]]
    /\ UNCHANGED <<clock, rowVars, cacheVars, installed>>

\* The requests about a source, its logs or an exporter.
RouteToEntity(r) == Begins(r, "route") /\ \E e \in Entity : Routed(r, e)

\* Those about a pipeline, and the creation of sources and exporters in it.
RouteToPipeline(r) ==
    /\ Begins(r, "route") \/ Begins(r, "create")
    /\ \E p \in Pipeline : Routed(r, p)

\* CreateEvmLogPipeline names the instance of the row to come.
RouteToInstance(r) == Begins(r, "create") /\ \E i \in Instance : Routed(r, i)

\* A stream of the updates of one pipeline goes to its owner; one at a time.
StreamOfPipeline(r) ==
    /\ Begins(r, "pump")
    /\ \A other \in Request : req[other] = Idle
    /\ \E p \in Pipeline : Routed(r, p)

\* The first part of getOrLoad, under the lock.
LooksUp(r) ==
    /\ req[r].pc = "resolve"
    /\ LET e == cache[req[r].key] IN
       req' = [req EXCEPT ![r] = IF Fresh(e) THEN Follow(r, e.val) ELSE [@ EXCEPT !.pc = "load"]]
    /\ UNCHANGED <<clock, rowVars, cacheVars, installed, begun>>

Missing(v) == v = None

\* The load, outside the lock; an error is returned and not cached.
Loads(r) ==
    /\ req[r].pc = "load"
    /\ LET v == db[req[r].key] IN
       req' = [req EXCEPT ![r] =
                 IF Missing(v) THEN Idle
                 ELSE [pc |-> "store", from |-> @.from, key |-> @.key, begun |-> @.begun,
                       at |-> clock, val |-> v]]
    /\ UNCHANGED <<clock, rowVars, cacheVars, installed, begun>>

LoadFails(r) ==
    /\ req[r].pc \in {"load", "ask"}
    /\ req' = [req EXCEPT ![r] = Idle]
    /\ UNCHANGED <<clock, rowVars, cacheVars, installed, begun>>

\* The last part, under the lock again.
Stores(r) ==
    /\ req[r].pc = "store"
    /\ cache' = [cache EXCEPT ![req[r].key] = [val |-> req[r].val, exp |-> clock + TTL]]
    /\ req' = [req EXCEPT ![r] = Follow(r, req[r].val)]
    /\ UNCHANGED <<clock, rowVars, fleet, installed, begun>>

\* The call to the instance; its answer or error is returned as it is.
Forwards(r) ==
    /\ req[r].pc \in {"forward", "anyone"} /\ asks # "pump"
    /\ req' = [req EXCEPT ![r] = Idle]
    /\ UNCHANGED <<clock, rowVars, cacheVars, installed, begun>>

-----------------------------------------------------------------------------
(* The list of running instances, read and cached under one lock           *)

Asks(r) == req' = [req EXCEPT ![r] = [pc |-> "ask", begun |-> clock]]

\* A request that any instance serves.
Anyone(r) ==
    /\ Begins(r, "any")
    /\ Asks(r)
    /\ UNCHANGED <<clock, rowVars, cacheVars, installed>>

\* It only needs the rows that all instances share: chains, ABIs, stores, lists.
AskAny(r) == Anyone(r)

\* Logins, tokens, users, providers and the rows of plugins.
AskAnyAccount(r) == Anyone(r)

\* What is no call of the service is proxied: the web interface and the
\* callback of a login.
Proxied(r) == Anyone(r)

\* InstallPlugin, which goes to all of them; one at a time.
Install(r) ==
    /\ Begins(r, "install")
    /\ \A other \in Request : req[other] = Idle
    /\ Asks(r)
    /\ installed' = {}
    /\ UNCHANGED <<clock, rowVars, cacheVars>>

\* A stream of the updates of all pipelines, one at a time.
Stream(r) ==
    /\ Begins(r, "stream")
    /\ \A other \in Request : req[other] = Idle
    /\ Asks(r)
    /\ UNCHANGED <<clock, rowVars, cacheVars, installed>>

NewConn == [is |-> "opening", queue |-> <<>>, newest |-> 0, dropped |-> 0, seen |-> 0]

\* What a request does with the list: AnyAddr picks one address of it.
Asked(r, addrs) ==
    CASE asks = "install" ->
            {[pc |-> "install", begun |-> req[r].begun, out |-> [a \in addrs |-> "pending"]]}
      [] asks = "any" -> {[pc |-> "anyone", begun |-> req[r].begun, addr |-> a] : a \in addrs}
      [] asks = "stream" -> {[pc |-> "stream", conn |-> [a \in addrs |-> NewConn], merged |-> <<>>]}

Unlocked == \A r \in Request : req[r].pc # "list"
FleetFresh == fleet.addrs # {} /\ clock < fleet.exp

\* runningAddrs: a fresh list that is not empty, or the rows.
UsesFleet(r) ==
    /\ req[r].pc = "ask" /\ Unlocked
    /\ FleetFresh
    /\ \E next \in Asked(r, fleet.addrs) : req' = [req EXCEPT ![r] = next]
    /\ UNCHANGED <<clock, rowVars, cacheVars, installed, begun>>

ReadsFleet(r) ==
    /\ req[r].pc = "ask" /\ Unlocked
    /\ ~FleetFresh
    /\ LET addrs == {db[i] : i \in Instance} \ {None} IN
       req' = [req EXCEPT ![r] =
                 IF addrs = {} THEN Idle
                 ELSE [pc |-> "list", begun |-> @.begun, at |-> clock, addrs |-> addrs]]
    /\ UNCHANGED <<clock, rowVars, cacheVars, installed, begun>>

StoresFleet(r) ==
    /\ req[r].pc = "list"
    /\ fleet' = [addrs |-> req[r].addrs, exp |-> clock + TTL]
    /\ \E next \in Asked(r, req[r].addrs) : req' = [req EXCEPT ![r] = next]
    /\ UNCHANGED <<clock, rowVars, cache, installed, begun>>

\* One address answers: the instance there builds the plugin or fails to, or
\* nothing listens there any more.
Answers(r) ==
    /\ req[r].pc = "install"
    /\ \E a \in DOMAIN req[r].out, o \in {"installed", "failed", "refused"} :
          /\ req[r].out[a] = "pending"
          /\ o = "installed" => \E i \in Instance : Listening(i, a)
          /\ req' = [req EXCEPT ![r].out[a] = o]
          /\ installed' = installed \cup {i \in Instance : o = "installed" /\ Listening(i, a)}
    /\ UNCHANGED <<clock, rowVars, cacheVars, begun>>

\* Mutant: a call that returns no answer is not counted as a failure.
FailedStatus(o) == o = "failed"

Failed(o) == o \in {"failed", "refused"}

\* aggregateInstall
Succeeds(r) ==
    /\ req[r].pc = "install"
    /\ \A a \in DOMAIN req[r].out : req[r].out[a] # "pending" /\ ~Failed(req[r].out[a])

Returns(r) ==
    /\ req[r].pc = "install"
    /\ \A a \in DOMAIN req[r].out : req[r].out[a] # "pending"
    /\ req' = [req EXCEPT ![r] = Idle]
    /\ UNCHANGED <<clock, rowVars, cacheVars, installed, begun>>

-----------------------------------------------------------------------------
(* Streams: "queue" is the channel of the handler at an instance, "merged"  *)
(* the channel of fanoutStream; an update is the number of its emission.    *)

Streaming(r) == req[r].pc = "stream"
Conn(r) == req[r].conn
Reaches(a) == \E i \in Instance : Listening(i, a)

\* A stream from one instance: it is opened there, or the call fails.
OpensPump(r) ==
    /\ req[r].pc = "forward" /\ asks = "pump"
    /\ req' = [req EXCEPT ![r] =
                  IF Reaches(@.addr)
                  THEN [pc |-> "stream", merged |-> <<>>,
                        conn |-> [a \in {@.addr} |-> [NewConn EXCEPT !.is = "open"]]]
                  ELSE Idle]
    /\ UNCHANGED <<clock, rowVars, cacheVars, installed, begun>>

\* pumpStream: what the handler sends goes to the client; it waits for both.
Pumps(r) ==
    /\ Streaming(r) /\ asks = "pump"
    /\ \E a \in DOMAIN Conn(r) :
          LET q == Conn(r)[a].queue IN
          /\ q # <<>>
          /\ req' = [req EXCEPT ![r].conn[a] = [@ EXCEPT !.queue = Tail(q), !.seen = Head(q)]]
    /\ UNCHANGED <<clock, rowVars, cacheVars, installed, begun>>

\* One goroutine opens the stream at a, or goes without it.
OpensStream(r) ==
    /\ Streaming(r)
    /\ \E a \in DOMAIN Conn(r), outcome \in {"open", "ended"} :
          /\ Conn(r)[a].is = "opening"
          /\ outcome = "open" => Reaches(a)
          /\ req' = [req EXCEPT ![r].conn[a].is = outcome]
    /\ UNCHANGED <<clock, rowVars, cacheVars, installed, begun>>

\* The handler of one stream is given an update: it does not wait for the client.
Offered(c) ==
    IF Len(c.queue) < Buffer
    THEN [c EXCEPT !.newest = @ + 1, !.queue = Append(@, c.newest + 1)]
    ELSE [c EXCEPT !.newest = @ + 1, !.dropped = c.newest + 1]

\* A worker at address a emits an update, to all streams open there.
Emits(a) ==
    LET open == {r \in Request : Streaming(r) /\ a \in DOMAIN Conn(r) /\ Conn(r)[a].is = "open"} IN
    /\ Reaches(a)
    /\ open # {} /\ \A r \in open : Conn(r)[a].newest < MaxUpdates
    /\ req' = [r \in Request |->
                 IF r \in open THEN [req[r] EXCEPT !.conn[a] = Offered(@)] ELSE req[r]]
    /\ UNCHANGED <<clock, rowVars, cacheVars, installed, begun>>

\* Mutant: a full channel of the gateway loses the update, as the handler's does.
MergedOrLost(merged, update) == IF Len(merged) < Buffer THEN Append(merged, update) ELSE merged

Merged(merged, update) == Append(merged, update)

\* The handler sends an update; the goroutine puts it into the merged channel,
\* and waits when that is full.
Relays(r) ==
    /\ Streaming(r) /\ asks = "stream"
    /\ \E a \in DOMAIN Conn(r) :
          LET q == Conn(r)[a].queue
              merged == Merged(req[r].merged, <<a, Head(q)>>) IN
          /\ Conn(r)[a].is = "open" /\ q # <<>> /\ Len(merged) <= Buffer
          /\ req' = [req EXCEPT ![r].merged = merged, ![r].conn[a].queue = Tail(q)]
    /\ UNCHANGED <<clock, rowVars, cacheVars, installed, begun>>

\* The stream of one instance breaks: what it has not sent is lost, and nobody
\* opens it again.
BackendEnds(r) ==
    /\ Streaming(r)
    /\ \E a \in DOMAIN Conn(r) :
          /\ Conn(r)[a].is = "open"
          /\ req' = [req EXCEPT ![r].conn[a] = [@ EXCEPT !.is = "ended", !.queue = <<>>]]
    /\ UNCHANGED <<clock, rowVars, cacheVars, installed, begun>>

\* The client is sent an update.
SendsToClient(r) ==
    /\ Streaming(r) /\ req[r].merged # <<>>
    /\ LET update == Head(req[r].merged) IN
       req' = [req EXCEPT ![r].merged = Tail(@), ![r].conn[update[1]].seen = update[2]]
    /\ UNCHANGED <<clock, rowVars, cacheVars, installed, begun>>

\* The client leaves, or all instances have ended their streams and the channel
\* is drained.
StreamEnds(r) ==
    /\ Streaming(r)
    /\ req' = [req EXCEPT ![r] = Idle]
    /\ UNCHANGED <<clock, rowVars, cacheVars, installed, begun>>

-----------------------------------------------------------------------------

Init ==
    /\ clock = Start
    /\ db \in [Key -> Pipeline \cup Instance \cup Address \cup {None}]
    /\ \A k \in Key : db[k] \in Target(k) \cup {None}
    /\ \A k \in Entity \cup Pipeline : db[k] # None
    /\ \E i \in Instance : db[i] # None
    /\ \A i, j \in Instance : db[i] = db[j] /\ db[i] # None => i = j
    /\ changed = [k \in Key |-> 0]
    /\ cache = [k \in Key |-> NoEntry]
    /\ fleet = [addrs |-> {}, exp |-> 0]
    /\ req = [r \in Request |-> Idle]
    /\ installed = {} /\ begun = 0 /\ changes = 0
    /\ asks \in Kind

Next ==
    \/ Tick
    \/ \E k \in Key : RowChanges(k)
    \/ \E a \in Address : Emits(a)
    \/ \E r \in Request :
          \/ RouteToEntity(r) \/ RouteToPipeline(r) \/ RouteToInstance(r) \/ StreamOfPipeline(r)
          \/ LooksUp(r) \/ Loads(r) \/ LoadFails(r) \/ Stores(r) \/ Forwards(r)
          \/ AskAny(r) \/ AskAnyAccount(r) \/ Proxied(r) \/ Install(r) \/ Stream(r)
          \/ OpensStream(r) \/ OpensPump(r) \/ Pumps(r) \/ Relays(r) \/ BackendEnds(r)
          \/ SendsToClient(r) \/ StreamEnds(r)
          \/ UsesFleet(r) \/ ReadsFleet(r) \/ StoresFleet(r) \/ Answers(r) \/ Returns(r)

Spec == Init /\ [][Next]_vars

-----------------------------------------------------------------------------
(* What is promised *)

\* A change of k's row that is older than this has reached the request.
Settled(k, start) == changed[k] + Start <= start

\* The rows that lead from k to an address.
PathOf(k) ==
    LET next == {db[k]} \cap Key
        last == IF next = {} THEN {} ELSE {db[db[k]]} \cap Key IN
    {k} \cup next \cup last

\* A request reaches the instance that owns the data (the package comment of
\* resolver.go) once the rows on its path have been left alone for the life
\* of an entry and the time of a read, in whatever order reads were stored;
\* and one that any instance can serve reaches a registered instance.
RoutesToOwner ==
    \A r \in Request :
        /\ req[r].pc = "forward" =>
            LET path == PathOf(req[r].from) IN
            (\E k \in path : db[k] = None \/ ~Settled(k, req[r].begun))
                \/ (\E k \in path : Listening(k, req[r].addr))
        /\ req[r].pc = "anyone" =>
            ((\A i \in Instance : Settled(i, req[r].begun)) => Reaches(req[r].addr))

\* An install that reports success has built the plugin on every instance
\* that was registered at its address long enough before ("fans out to every
\* RUNNING instance", gateway.go).
InstallCoversFleet ==
    \A r \in Request : Succeeds(r) =>
        \A i \in Instance :
            db[i] # None /\ Settled(i, req[r].begun) => i \in installed

\* The updates of a that are under way through c: they are ordered, those that have
\* left the handler's channel before those in it, all after what the client has seen,
\* and the newest is among them unless the client has it, or it was dropped.
InOrder(merged, c, a) ==
    LET ofA == {n \in DOMAIN merged : merged[n][1] = a}
        relayed == {merged[n][2] : n \in ofA}
        queued == {c.queue[n] : n \in DOMAIN c.queue} IN
    /\ \A m, n \in ofA : m < n => merged[m][2] < merged[n][2]
    /\ \A m, n \in DOMAIN c.queue : m < n => c.queue[m] < c.queue[n]
    /\ \A u \in relayed, v \in queued : u < v
    /\ \A u \in relayed \cup queued : c.seen < u /\ u <= c.newest
    /\ c.is = "open" => c.newest \in relayed \cup queued \cup {c.seen, c.dropped}

\* Updates reach the client in the order of their emission, and when nothing is
\* under way it has the newest of every open stream, unless that very one found
\* the handler's channel full.
StreamIsCurrent ==
    \A r \in Request : Streaming(r) =>
        \A a \in DOMAIN Conn(r) : InOrder(req[r].merged, Conn(r)[a], a)

=============================================================================
