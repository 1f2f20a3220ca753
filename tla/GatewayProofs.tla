---------------------------- MODULE GatewayProofs ----------------------------
(***************************************************************************)
(* Proofs about Gateway, for any rows, requests, times and channels.       *)
(*                                                                         *)
(* Each copy of a row, in the cache or in a request that is about to store *)
(* it, says what the row says or was read before the row was last written. *)
(* A read takes MaxLoad and an entry lives for TTL, so that what is older  *)
(* than a row that has settled has expired when it is looked up.  Hence a  *)
(* request whose way has settled stays on it, and a list has the instances *)
(* that have.                                                              *)
(***************************************************************************)
EXTENDS Gateway, SequenceTheorems, TLAPS

\* What rows lead to, and what is known of one backend of a stream.
Hop == Pipeline \cup Instance \cup Address
Outcome == {"pending", "installed", "failed", "refused"}
Conns ==
    [is : {"opening", "open", "ended"}, queue : Seq(Nat), newest : Nat, dropped : Nat, seen : Nat]

\* What a request in progress holds.
Installing ==
    [pc : {"install"}, begun : Nat, out : UNION {[addrs -> Outcome] : addrs \in SUBSET Address}]

Streams ==
    [pc : {"stream"}, conn : UNION {[addrs -> Conns] : addrs \in SUBSET Address},
     merged : Seq(Address \X Nat)]

Progress ==
    {Idle}
    \cup [pc : {"resolve", "load"}, from : Key, key : Key, begun : Nat]
    \cup [pc : {"store"}, from : Key, key : Key, begun : Nat, at : Nat, val : Hop]
    \cup [pc : {"forward"}, from : Key, begun : Nat, addr : Address]
    \cup [pc : {"ask"}, begun : Nat]
    \cup [pc : {"list"}, begun : Nat, at : Nat, addrs : SUBSET Address]
    \cup [pc : {"anyone"}, begun : Nat, addr : Address]
    \cup Installing \cup Streams

TypeInv ==
    /\ clock \in Nat
    /\ db \in [Key -> Hop \cup {None}] /\ \A k \in Key : db[k] \in Target(k) \cup {None}
    /\ changed \in [Key -> Nat] /\ \A k \in Key : changed[k] <= clock
    /\ cache \in [Key -> [val : Hop \cup {None}, exp : Nat]]
    /\ fleet \in [addrs : SUBSET Address, exp : Nat]
    /\ req \in [Request -> Progress]
    /\ installed \subseteq Instance
    /\ asks \in Kind

\* An entry holds what k's row says, or expires before the row has settled.
CacheInv ==
    \A k \in Key :
        /\ cache[k].exp <= clock + TTL
        /\ cache[k].val # None => cache[k].val = db[k] \/ cache[k].exp <= changed[k] + Start

\* A list of addresses that is used until exp has the instance i ...
Lists(addrs, exp, i) == db[i] \in addrs \cup {None} \/ exp <= changed[i] + Start

\* ... and nothing but instances, unless one of them has not settled by then.
Registered(addrs, exp) ==
    (\A i \in Instance : changed[i] + Start < exp) => \A a \in addrs : Reaches(a)

Complete(addrs, exp) == Registered(addrs, exp) /\ \A i \in Instance : Lists(addrs, exp, i)

FleetInv == fleet.exp <= clock + TTL /\ Complete(fleet.addrs, fleet.exp)

\* The rows on the way from k are there and have been left alone.
Steady(k, start) == \A j \in PathOf(k) : db[j] # None /\ Settled(j, start)

\* What a request in progress may rely on: it is on the way to the owner ...
RouteInv(x) ==
    /\ x.pc \in {"resolve", "load", "store"} /\ Steady(x.from, x.begun) => x.key \in PathOf(x.from)
    /\ x.pc = "forward" /\ Steady(x.from, x.begun) => \E k \in PathOf(x.from) : db[k] = x.addr

\* ... what it has read of the database is not old ...
ReadInv(x) ==
    /\ x.pc \in {"store", "list"} => x.begun <= x.at /\ x.at <= clock /\ clock <= x.at + MaxLoad
    /\ x.pc = "store" => x.val = db[x.key] \/ x.at <= changed[x.key]
    /\ x.pc = "list" => Complete(x.addrs, x.at + Start)

\* ... and the list it goes by had all the instances that had settled.
ListInv(x) ==
    /\ x.pc = "anyone" /\ (\A i \in Instance : Settled(i, x.begun)) => Reaches(x.addr)
    /\ x.pc = "install" =>
          \A i \in Instance : db[i] # None /\ Settled(i, x.begun) =>
              db[i] \in DOMAIN x.out /\ (x.out[db[i]] = "installed" => i \in installed)

\* Updates are in order, and a stream that one backend feeds merges nothing.
StreamInv(x) ==
    x.pc = "stream" =>
        /\ asks = "pump" => x.merged = <<>>
        /\ \A a \in DOMAIN x.conn :
              /\ InOrder(x.merged, x.conn[a], a) /\ x.conn[a].seen <= x.conn[a].newest
              /\ x.conn[a].is = "opening" => x.conn[a].newest = x.conn[a].seen

RequestInv(x) ==
    /\ x.pc \notin {"idle", "stream"} => x.begun <= clock
    /\ x.pc \in {"ask", "list"} => asks \in {"install", "any", "stream"}
    /\ RouteInv(x) /\ ReadInv(x) /\ ListInv(x) /\ StreamInv(x)

IInv == TypeInv /\ CacheInv /\ FleetInv /\ \A r \in Request : RequestInv(req[r])

-----------------------------------------------------------------------------
(* Types.                                                                  *)

\* A request holds what belongs to its place.
LEMMA ProgressFields ==
    ASSUME NEW x \in Progress
    PROVE  /\ x.pc \in {"resolve", "load"} =>
                  x \in [pc : {"resolve", "load"}, from : Key, key : Key, begun : Nat]
           /\ x.pc = "store" =>
                  x \in [pc : {"store"}, from : Key, key : Key, begun : Nat, at : Nat, val : Hop]
           /\ x.pc = "forward" => x \in [pc : {"forward"}, from : Key, begun : Nat, addr : Address]
           /\ x.pc = "ask" => x \in [pc : {"ask"}, begun : Nat]
           /\ x.pc = "list" =>
                  x \in [pc : {"list"}, begun : Nat, at : Nat, addrs : SUBSET Address]
           /\ x.pc = "anyone" => x \in [pc : {"anyone"}, begun : Nat, addr : Address]
<1>1. \/ x = Idle
      \/ x \in [pc : {"resolve", "load"}, from : Key, key : Key, begun : Nat]
      \/ x \in [pc : {"store"}, from : Key, key : Key, begun : Nat, at : Nat, val : Hop]
      \/ x \in [pc : {"forward"}, from : Key, begun : Nat, addr : Address]
      \/ x \in [pc : {"ask"}, begun : Nat]
      \/ x \in [pc : {"list"}, begun : Nat, at : Nat, addrs : SUBSET Address]
      \/ x \in [pc : {"anyone"}, begun : Nat, addr : Address]
      \/ x \in Installing
      \/ x \in Streams
  BY DEF Progress
<1>2. x \in Installing => x.pc = "install"
  BY DEF Installing
<1>3. x \in Streams => x.pc = "stream"
  BY DEF Streams
<1>4. QED
  BY <1>1, <1>2, <1>3 DEF Idle

\* So do an install and a stream.
LEMMA InstallFields ==
    ASSUME NEW x \in Progress, x.pc = "install"
    PROVE  /\ x \in Installing /\ x.begun \in Nat /\ DOMAIN x.out \subseteq Address
           /\ x.out \in [DOMAIN x.out -> Outcome]
<1>1. x \in Installing
  BY DEF Progress, Idle, Streams
<1>2. QED
  BY <1>1 DEF Installing

LEMMA StreamFields ==
    ASSUME NEW x \in Progress, x.pc = "stream"
    PROVE  /\ x \in Streams /\ x.merged \in Seq(Address \X Nat) /\ DOMAIN x.conn \subseteq Address
           /\ x.conn \in [DOMAIN x.conn -> Conns]
<1>1. x \in Streams
  BY DEF Progress, Idle, Installing
<1>2. QED
  BY <1>1 DEF Streams

\* And where it goes on, it holds something of the kind.
LEMMA ProgressMade ==
    /\ Idle \in Progress
    /\ \A pc \in {"resolve", "load"} : \A from, key \in Key : \A start \in Nat :
          [pc |-> pc, from |-> from, key |-> key, begun |-> start] \in Progress
    /\ \A from, key \in Key : \A start, at \in Nat : \A val \in Hop :
          [pc |-> "store", from |-> from, key |-> key, begun |-> start, at |-> at, val |-> val]
              \in Progress
    /\ \A from \in Key : \A start \in Nat : \A addr \in Address :
          [pc |-> "forward", from |-> from, begun |-> start, addr |-> addr] \in Progress
    /\ \A start \in Nat : [pc |-> "ask", begun |-> start] \in Progress
    /\ \A start, at \in Nat : \A addrs \in SUBSET Address :
          [pc |-> "list", begun |-> start, at |-> at, addrs |-> addrs] \in Progress
    /\ \A start \in Nat : \A addr \in Address :
          [pc |-> "anyone", begun |-> start, addr |-> addr] \in Progress
  BY DEF Progress

-----------------------------------------------------------------------------
(* Updates.                                                                *)

\* The parts of InOrder, place by place.
OfA(merged, a) == {n \in DOMAIN merged : merged[n][1] = a}

Ordered(merged, c, a) ==
    /\ \A m, n \in OfA(merged, a) : m < n => merged[m][2] < merged[n][2]
    /\ \A m, n \in DOMAIN c.queue : m < n => c.queue[m] < c.queue[n]
    /\ \A m \in OfA(merged, a) : \A n \in DOMAIN c.queue : merged[m][2] < c.queue[n]
    /\ \A m \in OfA(merged, a) : c.seen < merged[m][2] /\ merged[m][2] <= c.newest
    /\ \A n \in DOMAIN c.queue : c.seen < c.queue[n] /\ c.queue[n] <= c.newest

HasNewest(merged, c, a) ==
    \/ \E m \in OfA(merged, a) : merged[m][2] = c.newest
    \/ \E n \in DOMAIN c.queue : c.queue[n] = c.newest
    \/ c.newest \in {c.seen, c.dropped}

LEMMA InOrderParts ==
    ASSUME NEW a, NEW merged, NEW c
    PROVE  InOrder(merged, c, a) <=>
               Ordered(merged, c, a) /\ (c.is = "open" => HasNewest(merged, c, a))
  BY DEF InOrder, Ordered, HasNewest, OfA

\* Places of a sequence that has grown, and of one that has lost its head.
LEMMA AppendPlaces ==
    ASSUME NEW S, NEW s \in Seq(S), NEW e \in S
    PROVE  /\ Append(s, e) \in Seq(S)
           /\ DOMAIN Append(s, e) = DOMAIN s \cup {Len(s) + 1} /\ Len(s) + 1 \in Nat
           /\ Append(s, e)[Len(s) + 1] = e
           /\ \A n \in DOMAIN s : /\ Append(s, e)[n] = s[n] /\ s[n] \in S
                                  /\ n \in Nat /\ n < Len(s) + 1
<1>1. Len(s) \in Nat /\ DOMAIN s = 1 .. Len(s) /\ s \in [1 .. Len(s) -> S]
  OBVIOUS
<1>2. DOMAIN Append(s, e) = 1 .. Len(s) + 1
  BY AppendProperties
<1>3. \A n \in 1 .. Len(s) : Append(s, e)[n] = s[n]
  BY AppendProperties
<1>4. 1 .. Len(s) + 1 = (1 .. Len(s)) \cup {Len(s) + 1}
  BY <1>1
<1>5. QED
  BY <1>1, <1>2, <1>3, <1>4, AppendProperties

LEMMA TailPlaces ==
    ASSUME NEW S, NEW s \in Seq(S), s # <<>>
    PROVE  /\ Tail(s) \in Seq(S) /\ Head(s) \in S /\ Head(s) = s[1] /\ 1 \in DOMAIN s
           /\ \A n \in DOMAIN Tail(s) : /\ Tail(s)[n] = s[n + 1] /\ n + 1 \in DOMAIN s
                                        /\ n \in Nat /\ 1 < n + 1
           /\ \A n \in DOMAIN s :
                 /\ s[n] \in S /\ n \in Nat
                 /\ n = 1 \/ (n - 1 \in DOMAIN Tail(s) /\ Tail(s)[n - 1] = s[n] /\ 1 < n)
<1>1. /\ Len(s) \in Nat /\ DOMAIN s = 1 .. Len(s) /\ s \in [1 .. Len(s) -> S]
      /\ Len(s) # 0
  OBVIOUS
<1>2. DOMAIN Tail(s) = 1 .. Len(s) - 1 /\ \A n \in 1 .. Len(s) - 1 : Tail(s)[n] = s[n + 1]
  BY <1>1, HeadTailProperties
<1>3. Head(s) = s[1]
  OBVIOUS
<1>4. QED
  BY <1>1, <1>2, <1>3, HeadTailProperties

\* What a handler is offered is newer than all before, in its channel or dropped.
LEMMA OfferedInOrder ==
    ASSUME NEW a, NEW merged \in Seq(Address \X Nat), NEW c \in Conns, InOrder(merged, c, a),
           c.seen <= c.newest
    PROVE  /\ Offered(c) \in Conns /\ InOrder(merged, Offered(c), a)
           /\ Offered(c).is = c.is /\ Offered(c).seen <= Offered(c).newest
<1>0. Ordered(merged, c, a) /\ (c.is = "open" => HasNewest(merged, c, a))
  BY InOrderParts
<1>1. c.queue \in Seq(Nat) /\ c.newest \in Nat /\ c.dropped \in Nat /\ c.seen \in Nat
  BY DEF Conns
<1>2. CASE Len(c.queue) < Buffer
  <2> DEFINE d == [c EXCEPT !.newest = @ + 1, !.queue = Append(@, c.newest + 1)]
  <2>1. Offered(c) = d
    BY <1>2 DEF Offered
  <2>2. /\ d \in Conns /\ d.is = c.is /\ d.seen = c.seen /\ d.newest = c.newest + 1
        /\ d.queue = Append(c.queue, c.newest + 1) /\ d.dropped = c.dropped
    <3>1. Append(c.queue, c.newest + 1) \in Seq(Nat) /\ c.newest + 1 \in Nat
      BY <1>1, AppendPlaces
    <3>2. QED
      BY <3>1 DEF Conns
  <2> HIDE DEF d
  <2>3. /\ DOMAIN d.queue = DOMAIN c.queue \cup {Len(c.queue) + 1}
        /\ d.queue[Len(c.queue) + 1] = c.newest + 1
        /\ \A n \in DOMAIN c.queue : /\ d.queue[n] = c.queue[n] /\ n < Len(c.queue) + 1
                                     /\ c.queue[n] \in Nat /\ n \in Nat
    BY <1>1, <2>2, AppendPlaces
  <2>4. \A n \in DOMAIN merged : merged[n][2] \in Nat
    OBVIOUS
  <2>5. Len(c.queue) + 1 \in Nat
    BY <1>1
  <2>6. InOrder(merged, d, a)
    <3>1. Ordered(merged, d, a)
      <4>1. \A m, n \in OfA(merged, a) : m < n => merged[m][2] < merged[n][2]
        BY <1>0, <1>1, <2>2, <2>3, <2>4, <2>5 DEF Ordered, OfA
      <4>2. ASSUME NEW m \in DOMAIN d.queue, NEW n \in DOMAIN d.queue, m < n
            PROVE  d.queue[m] < d.queue[n]
        <5>1. m \in DOMAIN c.queue
          BY <2>3, <2>5, <4>2
        <5>2. CASE n \in DOMAIN c.queue
          BY <1>0, <2>3, <4>2, <5>1, <5>2 DEF Ordered
        <5>3. CASE n = Len(c.queue) + 1
          <6>1. c.queue[m] <= c.newest /\ c.queue[m] \in Nat
            BY <1>0, <2>3, <5>1 DEF Ordered
          <6>2. d.queue[m] = c.queue[m] /\ d.queue[n] = c.newest + 1
            BY <2>3, <5>1, <5>3
          <6>3. QED
            BY <1>1, <6>1, <6>2
        <5>4. QED
          BY <2>3, <5>2, <5>3
      <4>3. ASSUME NEW m \in OfA(merged, a), NEW n \in DOMAIN d.queue
            PROVE  merged[m][2] < d.queue[n]
        <5>1. CASE n \in DOMAIN c.queue
          BY <1>0, <2>3, <5>1 DEF Ordered
        <5>2. CASE n = Len(c.queue) + 1
          <6>1. merged[m][2] <= c.newest /\ merged[m][2] \in Nat
            BY <1>0, <2>4 DEF Ordered, OfA
          <6>2. QED
            BY <1>1, <2>3, <5>2, <6>1
        <5>3. QED
          BY <2>3, <5>1, <5>2
      <4>4. \A m \in OfA(merged, a) : d.seen < merged[m][2] /\ merged[m][2] <= d.newest
        BY <1>0, <1>1, <2>2, <2>3, <2>4, <2>5 DEF Ordered, OfA
      <4>5. \A n \in DOMAIN d.queue : d.seen < d.queue[n] /\ d.queue[n] <= d.newest
        BY <1>0, <1>1, <2>2, <2>3, <2>4, <2>5 DEF Ordered
      <4>6. QED
        BY <4>1, <4>2, <4>3, <4>4, <4>5 DEF Ordered
    <3>2. d.is = "open" => HasNewest(merged, d, a)
      BY <1>1, <2>2, <2>3, <2>4, <2>5, <1>0 DEF HasNewest, OfA
    <3>3. QED
      BY <3>1, <3>2, InOrderParts
  <2>7. QED
    BY <1>1, <2>1, <2>2, <2>6
<1>3. CASE ~(Len(c.queue) < Buffer)
  <2> DEFINE d == [c EXCEPT !.newest = @ + 1, !.dropped = c.newest + 1]
  <2>1. Offered(c) = d
    BY <1>3 DEF Offered
  <2>2. /\ d \in Conns /\ d.is = c.is /\ d.seen = c.seen /\ d.newest = c.newest + 1
        /\ d.queue = c.queue /\ d.dropped = c.newest + 1
    <3>1. c.newest + 1 \in Nat
      BY <1>1
    <3>2. QED
      BY <1>1, <3>1 DEF Conns
  <2> HIDE DEF d
  <2>3. \A n \in DOMAIN merged : merged[n][2] \in Nat
    OBVIOUS
  <2>4. \A n \in DOMAIN c.queue : c.queue[n] \in Nat
    BY <1>1
  <2>5. InOrder(merged, d, a)
    <3>1. Ordered(merged, d, a)
      BY <1>1, <2>2, <2>3, <2>4, <1>0 DEF Ordered, OfA
    <3>2. d.is = "open" => HasNewest(merged, d, a)
      BY <1>1, <2>2, <2>3, <2>4, <1>0 DEF HasNewest, OfA
    <3>3. QED
      BY <3>1, <3>2, InOrderParts
  <2>6. QED
    BY <1>1, <2>1, <2>2, <2>5
<1>4. QED
  BY <1>2, <1>3

\* An update that the one backend's handler sends is seen, when nothing is merged.
LEMMA PumpedInOrder ==
    ASSUME NEW a, NEW c \in Conns, c.queue # <<>>, InOrder(<<>>, c, a)
    PROVE  LET d == [c EXCEPT !.queue = Tail(c.queue), !.seen = Head(c.queue)] IN
           d \in Conns /\ InOrder(<<>>, d, a) /\ d.is = c.is /\ d.seen <= d.newest
<1>0. Ordered(<<>>, c, a) /\ (c.is = "open" => HasNewest(<<>>, c, a))
  BY InOrderParts
<1> DEFINE d == [c EXCEPT !.queue = Tail(c.queue), !.seen = Head(c.queue)]
<1>1. c.queue \in Seq(Nat) /\ c.newest \in Nat /\ c.dropped \in Nat /\ c.seen \in Nat
  BY DEF Conns
<1>2. /\ Tail(c.queue) \in Seq(Nat) /\ Head(c.queue) \in Nat
      /\ Head(c.queue) = c.queue[1] /\ 1 \in DOMAIN c.queue
      /\ \A n \in DOMAIN Tail(c.queue) : /\ Tail(c.queue)[n] = c.queue[n + 1]
                                         /\ n + 1 \in DOMAIN c.queue /\ n \in Nat /\ 1 < n + 1
      /\ \A n \in DOMAIN c.queue :
            /\ c.queue[n] \in Nat
            /\ n = 1 \/ (n - 1 \in DOMAIN Tail(c.queue) /\ Tail(c.queue)[n - 1] = c.queue[n])
  BY <1>1, TailPlaces
<1>3. /\ d \in Conns /\ d.is = c.is /\ d.seen = c.queue[1] /\ d.newest = c.newest
      /\ d.queue = Tail(c.queue) /\ d.dropped = c.dropped
  BY <1>1, <1>2 DEF Conns
<1> HIDE DEF d
<1>4. DOMAIN <<>> = {}
  OBVIOUS
<1>5. InOrder(<<>>, d, a)
  <2>1. Ordered(<<>>, d, a)
    <3>1. \A m, n \in OfA(<<>>, a) : m < n => <<>>[m][2] < <<>>[n][2]
      BY <1>0, <1>1, <1>2, <1>3, <1>4 DEF Ordered, OfA
    <3>2. ASSUME NEW m \in DOMAIN d.queue, NEW n \in DOMAIN d.queue, m < n
          PROVE  d.queue[m] < d.queue[n]
      <4>1. /\ m + 1 \in DOMAIN c.queue /\ n + 1 \in DOMAIN c.queue /\ m \in Nat /\ n \in Nat
            /\ d.queue[m] = c.queue[m + 1] /\ d.queue[n] = c.queue[n + 1]
        BY <1>2, <1>3
      <4>2. m + 1 < n + 1
        BY <3>2, <4>1
      <4>3. QED
        BY <1>0, <4>1, <4>2 DEF Ordered
    <3>3. \A m \in OfA(<<>>, a) : \A n \in DOMAIN d.queue : <<>>[m][2] < d.queue[n]
      BY <1>0, <1>1, <1>2, <1>3, <1>4 DEF Ordered, OfA
    <3>4. \A m \in OfA(<<>>, a) : d.seen < <<>>[m][2] /\ <<>>[m][2] <= d.newest
      BY <1>0, <1>1, <1>2, <1>3, <1>4 DEF Ordered, OfA
    <3>5. \A n \in DOMAIN d.queue : d.seen < d.queue[n] /\ d.queue[n] <= d.newest
      BY <1>0, <1>1, <1>2, <1>3, <1>4 DEF Ordered
    <3>6. QED
      BY <3>1, <3>2, <3>3, <3>4, <3>5 DEF Ordered
  <2>2. ASSUME d.is = "open" PROVE HasNewest(<<>>, d, a)
    <3>1. CASE c.newest \in {c.seen, c.dropped}
      <4>1. c.seen # c.newest
        BY <1>0, <1>1, <1>2 DEF Ordered
      <4>2. QED
        BY <1>3, <3>1, <4>1 DEF HasNewest
    <3>2. CASE \E n \in DOMAIN c.queue : c.queue[n] = c.newest
      <4>1. PICK n \in DOMAIN c.queue : c.queue[n] = c.newest
        BY <3>2
      <4>2. n # 1 => n - 1 \in DOMAIN d.queue /\ d.queue[n - 1] = c.newest
        BY <1>2, <1>3, <4>1
      <4>3. n = 1 => d.seen = c.newest
        BY <1>3, <4>1
      <4>4. QED
        BY <1>3, <4>2, <4>3 DEF HasNewest
    <3>3. QED
      BY <1>0, <1>3, <1>4, <2>2, <3>1, <3>2 DEF HasNewest, OfA
  <2>3. QED
    BY <2>1, <2>2, InOrderParts
<1>6. c.queue[1] <= c.newest
  BY <1>0, <1>2 DEF Ordered
<1>7. QED
  BY <1>3, <1>5, <1>6 DEF d

\* One that is relayed is the newest of those merged, and older than those behind it.
LEMMA RelayedInOrder ==
    ASSUME NEW a \in Address, NEW merged \in Seq(Address \X Nat), NEW c \in Conns, c.queue # <<>>,
           InOrder(merged, c, a), NEW d \in Conns, d.is = c.is,
           d.queue = Tail(c.queue), d.newest = c.newest, d.dropped = c.dropped, d.seen = c.seen,
           NEW longer, longer = Append(merged, <<a, Head(c.queue)>>)
    PROVE  longer \in Seq(Address \X Nat) /\ InOrder(longer, d, a)
<1>0. Ordered(merged, c, a) /\ (c.is = "open" => HasNewest(merged, c, a))
  BY InOrderParts
<1>1. c.queue \in Seq(Nat) /\ c.newest \in Nat /\ c.dropped \in Nat /\ c.seen \in Nat
  BY DEF Conns
<1>2. /\ Tail(c.queue) \in Seq(Nat) /\ Head(c.queue) \in Nat
      /\ Head(c.queue) = c.queue[1] /\ 1 \in DOMAIN c.queue
      /\ \A n \in DOMAIN Tail(c.queue) : /\ Tail(c.queue)[n] = c.queue[n + 1]
                                         /\ n + 1 \in DOMAIN c.queue /\ n \in Nat /\ 1 < n + 1
      /\ \A n \in DOMAIN c.queue :
            /\ c.queue[n] \in Nat
            /\ n = 1 \/ (n - 1 \in DOMAIN Tail(c.queue) /\ Tail(c.queue)[n - 1] = c.queue[n])
  BY <1>1, TailPlaces
<1>3. /\ d \in Conns /\ d.is = c.is /\ d.seen = c.seen /\ d.newest = c.newest
      /\ d.queue = Tail(c.queue) /\ d.dropped = c.dropped
  BY <1>1, <1>2
<1>4. /\ longer \in Seq(Address \X Nat) /\ DOMAIN longer = DOMAIN merged \cup {Len(merged) + 1}
      /\ longer[Len(merged) + 1][1] = a /\ longer[Len(merged) + 1][2] = c.queue[1]
      /\ Len(merged) + 1 \in Nat
      /\ \A n \in DOMAIN merged : /\ longer[n] = merged[n] /\ n < Len(merged) + 1
                                  /\ merged[n][2] \in Nat /\ n \in Nat
  <2>1. <<a, Head(c.queue)>> \in Address \X Nat
    BY <1>2
  <2>2. QED
    BY <1>2, <2>1, AppendPlaces
<1>5. InOrder(longer, d, a)
  <2>1. Ordered(longer, d, a)
    <3>1. \A m, n \in OfA(longer, a) : m < n => longer[m][2] < longer[n][2]
      BY <1>0, <1>1, <1>2, <1>3, <1>4 DEF Ordered, OfA
    <3>2. ASSUME NEW m \in DOMAIN d.queue, NEW n \in DOMAIN d.queue, m < n
          PROVE  d.queue[m] < d.queue[n]
      <4>1. /\ m + 1 \in DOMAIN c.queue /\ n + 1 \in DOMAIN c.queue /\ m \in Nat /\ n \in Nat
            /\ d.queue[m] = c.queue[m + 1] /\ d.queue[n] = c.queue[n + 1]
        BY <1>2, <1>3
      <4>2. m + 1 < n + 1
        BY <3>2, <4>1
      <4>3. QED
        BY <1>0, <4>1, <4>2 DEF Ordered
    <3>3. ASSUME NEW m \in OfA(longer, a), NEW n \in DOMAIN d.queue
          PROVE  longer[m][2] < d.queue[n]
      <4>1. n + 1 \in DOMAIN c.queue /\ 1 < n + 1 /\ d.queue[n] = c.queue[n + 1]
        BY <1>2, <1>3
      <4>2. CASE m \in OfA(merged, a)
        BY <1>0, <1>4, <4>1, <4>2 DEF Ordered, OfA
      <4>3. CASE m = Len(merged) + 1
        BY <1>0, <1>2, <1>4, <4>1, <4>3 DEF Ordered
      <4>4. QED
        BY <1>4, <4>2, <4>3 DEF OfA
    <3>4. \A m \in OfA(longer, a) : d.seen < longer[m][2] /\ longer[m][2] <= d.newest
      BY <1>0, <1>1, <1>2, <1>3, <1>4 DEF Ordered, OfA
    <3>5. ASSUME NEW n \in DOMAIN d.queue
          PROVE  d.seen < d.queue[n] /\ d.queue[n] <= d.newest
      <4>1. n + 1 \in DOMAIN c.queue /\ d.queue[n] = c.queue[n + 1]
        BY <1>2, <1>3
      <4>2. QED
        BY <1>0, <1>3, <4>1 DEF Ordered
    <3>6. QED
      BY <3>1, <3>2, <3>3, <3>4, <3>5 DEF Ordered
  <2>2. ASSUME d.is = "open" PROVE HasNewest(longer, d, a)
    <3>1. CASE \E m \in OfA(merged, a) : merged[m][2] = c.newest
      <4>1. \A m \in OfA(merged, a) : m \in OfA(longer, a) /\ longer[m] = merged[m]
        BY <1>4 DEF OfA
      <4>2. QED
        BY <1>3, <3>1, <4>1 DEF HasNewest
    <3>2. CASE \E n \in DOMAIN c.queue : c.queue[n] = c.newest
      <4>1. Len(merged) + 1 \in OfA(longer, a)
        BY <1>4 DEF OfA
      <4>2. PICK n \in DOMAIN c.queue : c.queue[n] = c.newest
        BY <3>2
      <4>3. n # 1 => n - 1 \in DOMAIN d.queue /\ d.queue[n - 1] = c.newest
        BY <1>2, <1>3, <4>2
      <4>4. n = 1 => longer[Len(merged) + 1][2] = c.newest
        BY <1>4, <4>2
      <4>5. QED
        BY <1>3, <4>1, <4>3, <4>4 DEF HasNewest
    <3>3. QED
      BY <1>0, <1>3, <2>2, <3>1, <3>2 DEF HasNewest
  <2>3. QED
    BY <2>1, <2>2, InOrderParts
<1>6. QED
  BY <1>3, <1>4, <1>5

\* It is no matter for the updates of another backend.
LEMMA RelayedOthersInOrder ==
    ASSUME NEW a \in Address, NEW b \in Address \ {a}, NEW u \in Nat,
           NEW merged \in Seq(Address \X Nat), NEW c \in Conns, InOrder(merged, c, b)
    PROVE  InOrder(Append(merged, <<a, u>>), c, b)
<1>0. Ordered(merged, c, b) /\ (c.is = "open" => HasNewest(merged, c, b))
  BY InOrderParts
<1> DEFINE longer == Append(merged, <<a, u>>)
<1>1. /\ DOMAIN longer = DOMAIN merged \cup {Len(merged) + 1}
      /\ longer[Len(merged) + 1][1] = a
      /\ \A n \in DOMAIN merged : longer[n] = merged[n]
  <2>1. <<a, u>> \in Address \X Nat
    OBVIOUS
  <2>2. QED
    BY <2>1, AppendPlaces
<1> HIDE DEF longer
<1>2. \A n : n \in DOMAIN longer /\ longer[n][1] = b <=> n \in DOMAIN merged /\ merged[n][1] = b
  BY <1>1
<1>3. OfA(longer, b) = OfA(merged, b)
  BY <1>2 DEF OfA
<1>4. InOrder(longer, c, b)
  BY <1>1, <1>3, <1>0, InOrderParts DEF Ordered, HasNewest, OfA
<1>5. QED
  BY <1>4 DEF longer

\* The client sees the first of those merged.
LEMMA SentInOrder ==
    ASSUME NEW a \in Address, NEW merged \in Seq(Address \X Nat), NEW c \in Conns, merged # <<>>,
           Head(merged)[1] = a, InOrder(merged, c, a),
           NEW d \in Conns, d.is = c.is,
           d.queue = c.queue, d.newest = c.newest, d.dropped = c.dropped, d.seen = Head(merged)[2]
    PROVE  InOrder(Tail(merged), d, a) /\ d.seen <= d.newest /\ c.newest # c.seen
<1>0. Ordered(merged, c, a) /\ (c.is = "open" => HasNewest(merged, c, a))
  BY InOrderParts
<1>1. c.queue \in Seq(Nat) /\ c.newest \in Nat /\ c.dropped \in Nat /\ c.seen \in Nat
  BY DEF Conns
<1>2. /\ Tail(merged) \in Seq(Address \X Nat) /\ Head(merged)[2] \in Nat
      /\ Head(merged) = merged[1] /\ 1 \in DOMAIN merged
      /\ \A n \in DOMAIN Tail(merged) : /\ Tail(merged)[n] = merged[n + 1]
                                        /\ n + 1 \in DOMAIN merged /\ n \in Nat /\ 1 < n + 1
      /\ \A n \in DOMAIN merged :
            /\ merged[n][2] \in Nat
            /\ n = 1 \/ (n - 1 \in DOMAIN Tail(merged) /\ Tail(merged)[n - 1] = merged[n])
  BY TailPlaces
<1>3. /\ d \in Conns /\ d.is = c.is /\ d.seen = merged[1][2] /\ d.newest = c.newest
      /\ d.queue = c.queue /\ d.dropped = c.dropped
  BY <1>1, <1>2
<1>4. \A n \in DOMAIN c.queue : c.queue[n] \in Nat
  BY <1>1
<1>5. InOrder(Tail(merged), d, a) /\ c.newest # c.seen
  <2>1. Ordered(Tail(merged), d, a) /\ c.newest # c.seen
    BY <1>1, <1>2, <1>3, <1>4, <1>0 DEF Ordered, OfA
  <2>2. ASSUME d.is = "open" PROVE HasNewest(Tail(merged), d, a)
    <3>0. 1 \in OfA(merged, a)
      BY <1>2 DEF OfA
    <3>1. CASE \E m \in OfA(merged, a) : merged[m][2] = c.newest
      <4>1. PICK m \in OfA(merged, a) : merged[m][2] = c.newest
        BY <3>1
      <4>2. m \in DOMAIN merged /\ (m = 1 \/ m - 1 \in OfA(Tail(merged), a))
        BY <1>2, <4>1 DEF OfA
      <4>3. QED
        BY <1>2, <1>3, <4>1, <4>2 DEF HasNewest
    <3>2. c.seen # c.newest
      BY <1>0, <1>1, <1>2, <3>0 DEF Ordered
    <3>3. QED
      BY <1>0, <1>3, <2>2, <3>1, <3>2 DEF HasNewest
  <2>3. QED
    BY <2>1, <2>2, InOrderParts
<1>6. merged[1][2] <= c.newest
  BY <1>0, <1>2 DEF Ordered, OfA
<1>7. QED
  BY <1>3, <1>5, <1>6

\* Which again is no matter for the others.
LEMMA SentOthersInOrder ==
    ASSUME NEW b \in Address, NEW merged \in Seq(Address \X Nat), NEW c \in Conns, merged # <<>>,
           Head(merged)[1] # b, InOrder(merged, c, b)
    PROVE  InOrder(Tail(merged), c, b)
<1>0. Ordered(merged, c, b) /\ (c.is = "open" => HasNewest(merged, c, b))
  BY InOrderParts
<1>1. /\ Tail(merged) \in Seq(Address \X Nat) /\ Head(merged)[2] \in Nat
      /\ Head(merged) = merged[1] /\ 1 \in DOMAIN merged
      /\ \A n \in DOMAIN Tail(merged) : /\ Tail(merged)[n] = merged[n + 1]
                                        /\ n + 1 \in DOMAIN merged /\ n \in Nat /\ 1 < n + 1
      /\ \A n \in DOMAIN merged :
            /\ merged[n][2] \in Nat
            /\ n = 1 \/ (n - 1 \in DOMAIN Tail(merged) /\ Tail(merged)[n - 1] = merged[n])
  BY TailPlaces
<1>2. c.newest \in Nat /\ c.dropped \in Nat /\ c.seen \in Nat
  BY DEF Conns
<1>3. Ordered(Tail(merged), c, b)
  BY <1>1, <1>2, <1>0 DEF Ordered, OfA
<1>4. ASSUME c.is = "open" PROVE HasNewest(Tail(merged), c, b)
  <2>1. CASE \E m \in OfA(merged, b) : merged[m][2] = c.newest
    <3>1. PICK m \in OfA(merged, b) : merged[m][2] = c.newest
      BY <2>1
    <3>2. m - 1 \in OfA(Tail(merged), b) /\ Tail(merged)[m - 1] = merged[m]
      BY <1>1, <3>1 DEF OfA
    <3>3. QED
      BY <3>1, <3>2 DEF HasNewest
  <2>2. QED
    BY <1>0, <1>4, <2>1 DEF HasNewest
<1>5. QED
  BY <1>3, <1>4, InOrderParts

-----------------------------------------------------------------------------
(* What a step leaves alone.                                               *)

\* A row's target is no key only when the row is an instance's.
LEMMA Hops ==
    ASSUME TypeInv, NEW k \in Key, db[k] # None
    PROVE  /\ db[k] \in Hop /\ (db[k] \in Key \/ db[k] \in Address)
           /\ k \in Entity => db[k] \in Pipeline
           /\ k \in Pipeline => db[k] \in Instance
           /\ k \in Instance => db[k] \in Address /\ db[k] \notin Key
  BY GatewayAssumption DEF TypeInv, Target, Key, Hop

\* The way from a row goes on with what the rows on it say.
LEMMA PathGoesOn ==
    ASSUME TypeInv, NEW from \in Key, NEW k \in PathOf(from), db[k] \in Key
    PROVE  k \in Key /\ db[k] \in PathOf(from)
<1>1. \A j \in Key : db[j] \in Key => /\ j \in Entity => db[j] \in Pipeline
                                      /\ j \in Pipeline => db[j] \in Instance
                                      /\ j \notin Instance
  BY GatewayAssumption DEF TypeInv, Target, Key
<1>2. k = from \/ (k = db[from] /\ k \in Key) \/ (k = db[db[from]] /\ k \in Key /\ db[from] \in Key)
  BY DEF PathOf
<1>3. CASE k = from
  BY <1>3 DEF PathOf
<1>4. CASE k = db[from] /\ k \in Key
  BY <1>4 DEF PathOf
<1>5. CASE k = db[db[from]] /\ k \in Key /\ db[from] \in Key
  <2>1. k \in Instance
    BY <1>1, <1>5, GatewayAssumption DEF Key
  <2>2. QED
    BY <1>1, <1>5, <2>1
<1>6. QED
  BY <1>2, <1>3, <1>4, <1>5

LEMMA PathKeys ==
    ASSUME NEW from \in Key
    PROVE  PathOf(from) \subseteq Key /\ from \in PathOf(from)
  BY DEF PathOf

\* What time, rows and plugins make of a request that does not move.
LEMMA RequestKept ==
    ASSUME IInv, NEW q \in Request, req'[q] = req[q], UNCHANGED <<db, changed, asks>>,
           clock' \in Nat, clock <= clock',
           req[q].pc \in {"store", "list"} => clock' <= req[q].at + MaxLoad,
           req[q].pc = "install" => installed \subseteq installed'
    PROVE  RequestInv(req[q])'
<1> DEFINE x == req[q]
<1>1. x \in Progress /\ RequestInv(x) /\ clock \in Nat
  BY DEF IInv, TypeInv
<1>2. RouteInv(req[q])'
  BY <1>1 DEF RequestInv, RouteInv, Steady, PathOf, Settled
<1>3. ReadInv(req[q])'
  <2>1. x.pc \in {"store", "list"} => x.begun <= x.at /\ x.at <= clock
    BY <1>1 DEF RequestInv, ReadInv
  <2>2. x.pc \in {"store", "list"} => x.at \in Nat
    BY <1>1, ProgressFields
  <2>3. x.pc \in {"store", "list"} => x.at <= clock'
    BY <1>1, <2>1, <2>2
  <2>4. x.pc = "list" => Complete(req[q].addrs, req[q].at + Start)'
    BY <1>1 DEF RequestInv, ReadInv, Complete, Registered, Lists, Reaches, Listening
  <2>5. x.pc = "store" => x.val = db[x.key] \/ x.at <= changed[x.key]
    BY <1>1 DEF RequestInv, ReadInv
  <2>6. QED
    BY <2>1, <2>3, <2>4, <2>5 DEF ReadInv
<1>4. ListInv(req[q])'
  BY <1>1 DEF RequestInv, ListInv, Settled, Reaches, Listening
<1>5. StreamInv(req[q])'
  BY <1>1 DEF RequestInv, StreamInv
<1>6. x.pc \notin {"idle", "stream"} => x.begun <= clock'
  <2>1. x.pc \notin {"idle", "stream"} => x.begun \in Nat
    BY <1>1, ProgressFields, InstallFields DEF Progress, Installing, Streams, Idle
  <2>2. QED
    BY <1>1, <2>1 DEF RequestInv
<1>7. QED
  BY <1>1, <1>2, <1>3, <1>4, <1>5, <1>6 DEF RequestInv

\* One request moves.
LEMMA OneRequestMoves ==
    ASSUME IInv, NEW r \in Request, NEW x \in Progress, RequestInv(x),
           req' = [req EXCEPT ![r] = x], UNCHANGED <<clock, db, changed, asks, installed>>
    PROVE  req' \in [Request -> Progress] /\ \A q \in Request : RequestInv(req[q])'
<1>1. req \in [Request -> Progress] /\ clock \in Nat /\ clock' = clock
  BY DEF IInv, TypeInv
<1>2. req' \in [Request -> Progress] /\ req'[r] = x
  BY <1>1
<1>3. ASSUME NEW q \in Request PROVE RequestInv(req[q])'
  <2>1. CASE q = r
    <3>1. req'[q] = x
      BY <1>2, <2>1
    <3>2. RouteInv(req[q])'
      BY <3>1 DEF RequestInv, RouteInv, Steady, PathOf, Settled
    <3>3. ReadInv(req[q])'
      BY <3>1 DEF RequestInv, ReadInv, Complete, Registered, Lists, Reaches, Listening
    <3>4. ListInv(req[q])'
      BY <3>1 DEF RequestInv, ListInv, Settled, Reaches, Listening
    <3>5. StreamInv(req[q])'
      BY <3>1 DEF RequestInv, StreamInv
    <3>6. QED
      BY <3>1, <3>2, <3>3, <3>4, <3>5 DEF RequestInv
  <2>2. CASE q # r
    <3>1. req'[q] = req[q] /\ RequestInv(req[q])
      BY <1>1, <2>2 DEF IInv
    <3>2. req[q].pc \in {"store", "list"} => clock' <= req[q].at + MaxLoad
      BY <1>1, <3>1 DEF RequestInv, ReadInv
    <3>3. clock <= clock'
      BY <1>1
    <3>4. QED
      BY <1>1, <3>1, <3>2, <3>3, RequestKept
  <2>3. QED
    BY <2>1, <2>2
<1>4. QED
  BY <1>2, <1>3

\* Nothing else does, then the invariant is kept.
LEMMA RequestStep ==
    ASSUME IInv, NEW r \in Request, NEW x \in Progress, RequestInv(x),
           req' = [req EXCEPT ![r] = x],
           UNCHANGED <<clock, db, changed, asks, installed, cacheVars>>
    PROVE  IInv'
<1>1. req' \in [Request -> Progress] /\ \A q \in Request : RequestInv(req[q])'
  BY OneRequestMoves
<1>2. TypeInv'
  BY <1>1 DEF IInv, TypeInv, cacheVars
<1>3. CacheInv' /\ FleetInv'
  BY DEF IInv, CacheInv, FleetInv, Complete, Registered, Lists, Reaches, Listening, cacheVars
<1>4. QED
  BY <1>1, <1>2, <1>3 DEF IInv

\* There is nothing to know of a request that is done.
LEMMA DoneStep ==
    ASSUME IInv, NEW r \in Request, req' = [req EXCEPT ![r] = Idle],
           UNCHANGED <<clock, db, changed, asks, installed, cacheVars>>
    PROVE  IInv'
<1>1. Idle \in Progress
  BY ProgressMade
<1>2. RequestInv(Idle)
  BY DEF RequestInv, RouteInv, ReadInv, ListInv, StreamInv, Idle
<1>3. QED
  BY <1>1, <1>2, RequestStep

-----------------------------------------------------------------------------
(* Requests that are routed.                                               *)

\* A request begins at the row it is about.
LEMMA RoutedStep ==
    ASSUME IInv, NEW r \in Request, NEW k \in Key, Routed(r, k)
    PROVE  IInv'
<1> DEFINE x == [pc |-> "resolve", from |-> k, key |-> k, begun |-> clock]
<1>1. clock \in Nat /\ x \in Progress
  BY ProgressMade DEF IInv, TypeInv
<1>2. RouteInv(x)
  BY PathKeys DEF RouteInv
<1>3. RequestInv(x)
  BY <1>1, <1>2 DEF RequestInv, ReadInv, ListInv, StreamInv
<1>4. req' = [req EXCEPT ![r] = x] /\ UNCHANGED <<clock, db, changed, asks, installed, cacheVars>>
  BY DEF Routed, rowVars
<1> HIDE DEF x
<1>5. QED
  BY <1>1, <1>3, <1>4, RequestStep

\* One that goes on with what the row it is at says stays on its way.
LEMMA Followed ==
    ASSUME IInv, NEW r \in Request, req[r].pc \in {"resolve", "store"}, NEW v \in Hop,
           Steady(req[r].from, req[r].begun) => v = db[req[r].key]
    PROVE  Follow(r, v) \in Progress /\ RequestInv(Follow(r, v))
<1> DEFINE y == req[r]
<1>1. y \in Progress /\ RequestInv(y) /\ TypeInv
  BY DEF IInv, TypeInv
<1>2. y.from \in Key /\ y.key \in Key /\ y.begun \in Nat /\ y.begun <= clock
  BY <1>1, ProgressFields DEF RequestInv
<1>3. Steady(y.from, y.begun) => y.key \in PathOf(y.from) /\ db[y.key] = v
  BY <1>1 DEF RequestInv, RouteInv
<1>4. CASE v \in Address
  <2> DEFINE x == [pc |-> "forward", from |-> y.from, begun |-> y.begun, addr |-> v]
  <2>1. Follow(r, v) = x
    BY <1>4 DEF Follow
  <2>2. x \in Progress
    BY <1>2, <1>4, ProgressMade
  <2>3. RouteInv(x)
    BY <1>3 DEF RouteInv
  <2>4. RequestInv(x)
    BY <1>2, <2>3 DEF RequestInv, ReadInv, ListInv, StreamInv
  <2>5. QED
    BY <2>1, <2>2, <2>4
<1>5. CASE v \notin Address
  <2> DEFINE x == [pc |-> "resolve", from |-> y.from, begun |-> y.begun, key |-> v]
  <2>0. v \in Key
    BY <1>5 DEF Hop, Key
  <2>1. Follow(r, v) = x
    BY <1>5 DEF Follow
  <2>2. x \in Progress
    <3>1. x = [pc |-> "resolve", from |-> y.from, key |-> v, begun |-> y.begun]
      OBVIOUS
    <3>2. QED
      BY <1>2, <2>0, <3>1, ProgressMade
  <2>3. Steady(x.from, x.begun) => x.key \in PathOf(x.from)
    BY <1>1, <1>2, <1>3, <2>0, PathGoesOn
  <2>4. RouteInv(x)
    BY <2>3 DEF RouteInv
  <2>5. RequestInv(x)
    BY <1>2, <2>4 DEF RequestInv, ReadInv, ListInv, StreamInv
  <2>6. QED
    BY <2>1, <2>2, <2>5
<1>6. QED
  BY <1>4, <1>5

\* A fresh entry for a row that has settled says what the row says.
LEMMA LooksUpStep ==
    ASSUME IInv, NEW r \in Request, LooksUp(r)
    PROVE  IInv'
<1> DEFINE y == req[r]
           e == cache[y.key]
<1>0. UNCHANGED <<clock, db, changed, asks, installed, cacheVars>>
  BY DEF LooksUp, rowVars
<1>1. y \in Progress /\ RequestInv(y) /\ TypeInv /\ CacheInv /\ y.pc = "resolve"
  BY DEF IInv, TypeInv, LooksUp
<1>2. y.from \in Key /\ y.key \in Key /\ y.begun \in Nat /\ y.begun <= clock
  BY <1>1, ProgressFields DEF RequestInv
<1>3. CASE Fresh(e)
  <2>1. e.val \in Hop /\ clock < e.exp /\ e.exp \in Nat /\ e.val # None
    BY <1>1, <1>2, <1>3 DEF TypeInv, Fresh
  <2>2. ASSUME Steady(y.from, y.begun) PROVE e.val = db[y.key]
    <3>1. y.key \in PathOf(y.from)
      BY <1>1, <2>2 DEF RequestInv, RouteInv
    <3>2. changed[y.key] + Start <= y.begun
      BY <2>2, <3>1 DEF Steady, Settled
    <3>3. changed[y.key] \in Nat /\ clock \in Nat /\ Start \in Nat
      BY <1>1, <1>2, GatewayAssumption DEF TypeInv, Start
    <3>4. e.val = db[y.key] \/ e.exp <= changed[y.key] + Start
      BY <1>1, <1>2, <2>1 DEF CacheInv
    <3>5. QED
      BY <1>2, <2>1, <3>2, <3>3, <3>4
  <2>3. req' = [req EXCEPT ![r] = Follow(r, e.val)]
    BY <1>3 DEF LooksUp
  <2>4. Follow(r, e.val) \in Progress /\ RequestInv(Follow(r, e.val))
    BY <1>1, <2>1, <2>2, Followed
  <2>5. QED
    BY <1>0, <2>3, <2>4, RequestStep
<1>4. CASE ~Fresh(e)
  <2> DEFINE x == [y EXCEPT !.pc = "load"]
  <2>1. req' = [req EXCEPT ![r] = x]
    BY <1>1, <1>4 DEF LooksUp, TypeInv
  <2>2. y \in [pc : {"resolve", "load"}, from : Key, key : Key, begun : Nat]
    BY <1>1, ProgressFields
  <2>3. /\ x \in [pc : {"resolve", "load"}, from : Key, key : Key, begun : Nat]
        /\ x.pc = "load" /\ x.from = y.from /\ x.key = y.key /\ x.begun = y.begun
    BY <2>2
  <2> HIDE DEF x
  <2>4. x \in Progress
    BY <2>3 DEF Progress
  <2>5. RequestInv(x)
    BY <1>1, <2>3 DEF RequestInv, RouteInv, ReadInv, ListInv, StreamInv
  <2>6. QED
    BY <1>0, <2>1, <2>4, <2>5, RequestStep
<1>5. QED
  BY <1>3, <1>4

\* What has just been read is the row.
LEMMA LoadsStep ==
    ASSUME IInv, NEW r \in Request, Loads(r)
    PROVE  IInv'
<1> DEFINE y == req[r]
           v == db[y.key]
<1>0. UNCHANGED <<clock, db, changed, asks, installed, cacheVars>>
  BY DEF Loads, rowVars
<1>1. /\ y \in Progress /\ RequestInv(y) /\ TypeInv /\ y.pc = "load"
      /\ clock \in Nat /\ MaxLoad \in Nat
  BY GatewayAssumption DEF IInv, TypeInv, Loads
<1>2. y.from \in Key /\ y.key \in Key /\ y.begun \in Nat /\ y.begun <= clock
  BY <1>1, ProgressFields DEF RequestInv
<1>3. CASE v = None
  <2>1. req' = [req EXCEPT ![r] = Idle]
    BY <1>3 DEF Loads, Missing
  <2>2. QED
    BY <1>0, <2>1, DoneStep
<1>4. CASE v # None
  <2> DEFINE x == [pc |-> "store", from |-> y.from, key |-> y.key, begun |-> y.begun,
                   at |-> clock, val |-> v]
  <2>1. req' = [req EXCEPT ![r] = x]
    BY <1>1, <1>4 DEF Loads, Missing, TypeInv
  <2>2. v \in Hop
    BY <1>1, <1>2, <1>4, Hops
  <2>3. x \in Progress
    BY <1>1, <1>2, <2>2, ProgressMade
  <2>4. RouteInv(x)
    BY <1>1 DEF RequestInv, RouteInv
  <2>5. ReadInv(x)
    BY <1>1, <1>2 DEF ReadInv
  <2>6. RequestInv(x)
    BY <1>1, <1>2, <2>4, <2>5 DEF RequestInv, ListInv, StreamInv
  <2> HIDE DEF x
  <2>7. QED
    BY <1>0, <2>1, <2>3, <2>6, RequestStep
<1>5. QED
  BY <1>3, <1>4

\* A read that is stored says what the row says, or its entry expires before a row
\* that was written since has settled.
LEMMA StoresStep ==
    ASSUME IInv, NEW r \in Request, Stores(r)
    PROVE  IInv'
<1> DEFINE y == req[r]
<1>0. /\ UNCHANGED <<clock, db, changed, asks, installed, fleet>>
      /\ req' = [req EXCEPT ![r] = Follow(r, y.val)]
      /\ cache' = [cache EXCEPT ![y.key] = [val |-> y.val, exp |-> clock + TTL]]
  BY DEF Stores, rowVars
<1>1. /\ y \in Progress /\ RequestInv(y) /\ TypeInv /\ CacheInv /\ FleetInv /\ y.pc = "store"
      /\ clock \in Nat /\ MaxLoad \in Nat /\ TTL \in Nat /\ TTL > 0
  BY GatewayAssumption DEF IInv, TypeInv, Stores
<1>2. /\ y.from \in Key /\ y.key \in Key /\ y.begun \in Nat /\ y.begun <= clock
      /\ y.val \in Hop /\ y.at \in Nat
  BY <1>1, ProgressFields DEF RequestInv
<1>3. /\ y.begun <= y.at /\ clock <= y.at + MaxLoad
      /\ y.val = db[y.key] \/ y.at <= changed[y.key]
  BY <1>1 DEF RequestInv, ReadInv
<1>4. \A k \in Key : changed[k] \in Nat
  BY <1>1 DEF TypeInv
<1>5. ASSUME Steady(y.from, y.begun) PROVE y.val = db[y.key]
  <2>1. y.key \in PathOf(y.from)
    BY <1>1, <1>5 DEF RequestInv, RouteInv
  <2>2. changed[y.key] + Start <= y.begun
    BY <1>5, <2>1 DEF Steady, Settled
  <2>3. QED
    BY <1>1, <1>2, <1>3, <1>4, <2>2 DEF Start
<1>6. Follow(r, y.val) \in Progress /\ RequestInv(Follow(r, y.val))
  BY <1>1, <1>2, <1>5, Followed
<1>7. req' \in [Request -> Progress] /\ \A q \in Request : RequestInv(req[q])'
  BY <1>0, <1>6, OneRequestMoves
<1>8. cache' \in [Key -> [val : Hop \cup {None}, exp : Nat]]
  BY <1>0, <1>1, <1>2 DEF TypeInv
<1>9. CacheInv'
  <2>1. ASSUME NEW k \in Key
        PROVE  /\ cache'[k].exp <= clock + TTL
               /\ cache'[k].val # None =>
                      cache'[k].val = db[k] \/ cache'[k].exp <= changed[k] + Start
    <3>1. CASE k = y.key
      <4>1. cache'[k] = [val |-> y.val, exp |-> clock + TTL]
        BY <1>0, <1>1, <3>1 DEF TypeInv
      <4>2. y.at <= changed[k] => clock + TTL <= changed[k] + Start
        BY <1>1, <1>2, <1>3, <1>4 DEF Start
      <4>3. QED
        BY <1>1, <1>3, <3>1, <4>1, <4>2
    <3>2. CASE k # y.key
      <4>1. cache'[k] = cache[k]
        BY <1>0, <1>1, <3>2 DEF TypeInv
      <4>2. QED
        BY <1>1, <4>1 DEF CacheInv
    <3>3. QED
      BY <3>1, <3>2
  <2>2. QED
    BY <1>0, <2>1 DEF CacheInv
<1>10. TypeInv' /\ FleetInv'
  BY <1>0, <1>1, <1>7, <1>8 DEF TypeInv, FleetInv, Complete, Registered, Lists, Reaches, Listening
<1>11. QED
  BY <1>7, <1>9, <1>10 DEF IInv

-----------------------------------------------------------------------------
(* Requests that go by the list of running instances.                      *)

\* A backend of a new stream.
LEMMA NewInOrder ==
    ASSUME NEW a, NEW is \in {"opening", "open", "ended"}
    PROVE  LET c == [NewConn EXCEPT !.is = is] IN
           /\ c \in Conns /\ InOrder(<<>>, c, a)
           /\ c.is = is /\ c.seen <= c.newest /\ c.newest = c.seen
<1> DEFINE c == [NewConn EXCEPT !.is = is]
<1>1. /\ c = [is |-> is, queue |-> <<>>, newest |-> 0, dropped |-> 0, seen |-> 0]
      /\ <<>> \in Seq(Nat) /\ DOMAIN <<>> = {}
  BY DEF NewConn
<1> HIDE DEF c
<1>2. c \in Conns
  BY <1>1 DEF Conns
<1>3. Ordered(<<>>, c, a) /\ HasNewest(<<>>, c, a)
  BY <1>1 DEF Ordered, HasNewest, OfA
<1>4. InOrder(<<>>, c, a)
  BY <1>3, InOrderParts
<1>5. QED
  BY <1>1, <1>2, <1>4 DEF c

\* A request begins with the list.
LEMMA AskedBegins ==
    ASSUME IInv, asks \in {"install", "any", "stream"}
    PROVE  /\ [pc |-> "ask", begun |-> clock] \in Progress
           /\ RequestInv([pc |-> "ask", begun |-> clock])
<1> DEFINE x == [pc |-> "ask", begun |-> clock]
<1>1. clock \in Nat /\ x \in Progress
  BY ProgressMade DEF IInv, TypeInv
<1>2. RequestInv(x)
  BY <1>1 DEF RequestInv, RouteInv, ReadInv, ListInv, StreamInv
<1>3. QED
  BY <1>1, <1>2

LEMMA AsksStep ==
    ASSUME IInv, NEW r \in Request, Asks(r), asks \in {"install", "any", "stream"},
           UNCHANGED <<clock, rowVars, cacheVars, installed>>
    PROVE  IInv'
<1>1. req' = [req EXCEPT ![r] = [pc |-> "ask", begun |-> clock]]
  BY DEF Asks
<1>2. QED
  BY <1>1, AskedBegins, RequestStep DEF rowVars

\* An install begins when there is no other.
LEMMA InstallStep ==
    ASSUME IInv, NEW r \in Request, Install(r)
    PROVE  IInv'
<1> DEFINE x == [pc |-> "ask", begun |-> clock]
<1>0. /\ req' = [req EXCEPT ![r] = x] /\ asks = "install" /\ installed' = {}
      /\ UNCHANGED <<clock, db, changed, asks, cache, fleet>>
      /\ \A q \in Request \ {r} : req[q] = Idle
  BY DEF Install, Asks, Begins, rowVars, cacheVars, Idle
<1>1. x \in Progress /\ RequestInv(x)
  BY <1>0, AskedBegins
<1> HIDE DEF x
<1>2. TypeInv /\ req \in [Request -> Progress]
  BY DEF IInv, TypeInv
<1>3. TypeInv'
  BY <1>0, <1>1, <1>2 DEF TypeInv
<1>4. CacheInv' /\ FleetInv'
  BY <1>0 DEF IInv, CacheInv, FleetInv, Complete, Registered, Lists, Reaches, Listening
<1>5. ASSUME NEW q \in Request PROVE RequestInv(req[q])'
  <2>1. CASE q = r
    <3>1. req'[q] = x /\ x.pc = "ask"
      BY <1>0, <1>2, <2>1 DEF x
    <3>2. QED
      BY <1>0, <1>1, <3>1 DEF RequestInv, RouteInv, ReadInv, ListInv, StreamInv
  <2>2. CASE q # r
    <3>1. req'[q] = Idle
      BY <1>0, <1>2, <2>2
    <3>2. QED
      BY <3>1 DEF RequestInv, RouteInv, ReadInv, ListInv, StreamInv, Idle
  <2>3. QED
    BY <2>1, <2>2
<1>6. QED
  BY <1>3, <1>4, <1>5 DEF IInv

\* Who goes by a list that has the instances that had settled may rely on it.
LEMMA Listed ==
    ASSUME IInv, NEW r \in Request, req[r].pc \in {"ask", "list"}, NEW addrs \in SUBSET Address,
           NEW exp \in Nat, Complete(addrs, exp), req[r].begun < exp,
           NEW next \in Asked(r, addrs)
    PROVE  next \in Progress /\ RequestInv(next)
<1> DEFINE y == req[r]
<1>1. /\ y \in Progress /\ RequestInv(y) /\ asks \in {"install", "any", "stream"}
      /\ \A i \in Instance : changed[i] \in Nat
  BY DEF IInv, TypeInv, RequestInv, Key
<1>2. y.begun \in Nat /\ y.begun <= clock
  BY <1>1, ProgressFields DEF RequestInv
<1>3. Start \in Nat
  BY GatewayAssumption DEF Start
<1>4. \A i \in Instance : Settled(i, y.begun) =>
          changed[i] + Start < exp /\ Lists(addrs, exp, i) /\ db[i] \in addrs \cup {None}
  BY <1>1, <1>2, <1>3 DEF Settled, Complete, Lists
<1>5. (\A i \in Instance : Settled(i, y.begun)) => \A a \in addrs : Reaches(a)
  BY <1>4 DEF Complete, Registered
<1>6. CASE asks = "install"
  <2> DEFINE out == [a \in addrs |-> "pending"]
             x == [pc |-> "install", begun |-> y.begun, out |-> out]
  <2>1. next = x
    BY <1>6 DEF Asked
  <2>2. out \in [addrs -> Outcome] /\ \A a \in addrs : out[a] # "installed"
    BY DEF Outcome
  <2>3. DOMAIN out = addrs
    OBVIOUS
  <2> HIDE DEF out
  <2>4. x \in Progress
    <3>1. x \in Installing
      BY <1>2, <2>2 DEF Installing
    <3>2. QED
      BY <3>1 DEF Progress
  <2>5. ListInv(x)
    BY <1>4, <2>2, <2>3 DEF ListInv
  <2>6. RequestInv(x)
    BY <1>2, <2>5 DEF RequestInv, RouteInv, ReadInv, StreamInv
  <2>7. QED
    BY <2>1, <2>4, <2>6
<1>7. CASE asks = "any"
  <2>1. PICK a \in addrs : next = [pc |-> "anyone", begun |-> y.begun, addr |-> a]
    BY <1>7 DEF Asked
  <2>2. next \in Progress
    BY <1>2, <2>1, ProgressMade
  <2>3. ListInv(next)
    BY <1>5, <2>1 DEF ListInv
  <2>4. RequestInv(next)
    BY <1>2, <2>1, <2>3 DEF RequestInv, RouteInv, ReadInv, StreamInv
  <2>5. QED
    BY <2>2, <2>4
<1>8. CASE asks = "stream"
  <2> DEFINE conn == [a \in addrs |-> NewConn]
             x == [pc |-> "stream", conn |-> conn, merged |-> <<>>]
  <2>1. next = x
    BY <1>8 DEF Asked
  <2>2. \A a : /\ NewConn \in Conns /\ InOrder(<<>>, NewConn, a)
               /\ NewConn.seen <= NewConn.newest /\ NewConn.newest = NewConn.seen
    <3>1. NewConn = [NewConn EXCEPT !.is = "opening"]
      BY DEF NewConn
    <3>2. QED
      BY <3>1, NewInOrder
  <2>3. conn \in [addrs -> Conns] /\ DOMAIN conn = addrs /\ \A a \in addrs : conn[a] = NewConn
    BY <2>2
  <2> HIDE DEF conn
  <2>4. x \in Progress
    <3>1. x \in Streams
      BY <2>3 DEF Streams
    <3>2. QED
      BY <3>1 DEF Progress
  <2>5. StreamInv(x)
    BY <2>2, <2>3 DEF StreamInv
  <2>6. RequestInv(x)
    BY <2>5 DEF RequestInv, RouteInv, ReadInv, ListInv
  <2>7. QED
    BY <2>1, <2>4, <2>6
<1>9. QED
  BY <1>1, <1>6, <1>7, <1>8

LEMMA UsesFleetStep ==
    ASSUME IInv, NEW r \in Request, UsesFleet(r)
    PROVE  IInv'
<1>0. UNCHANGED <<clock, db, changed, asks, installed, cacheVars>> /\ req[r].pc = "ask"
  BY DEF UsesFleet, rowVars
<1>1. PICK next \in Asked(r, fleet.addrs) : req' = [req EXCEPT ![r] = next]
  BY DEF UsesFleet
<1>2. fleet.addrs \in SUBSET Address /\ fleet.exp \in Nat /\ Complete(fleet.addrs, fleet.exp)
  BY DEF IInv, TypeInv, FleetInv
<1>3. req[r].begun < fleet.exp
  <2>1. clock < fleet.exp /\ clock \in Nat
    BY DEF UsesFleet, FleetFresh, IInv, TypeInv
  <2>2. req[r] \in Progress /\ req[r].begun <= clock
    BY <1>0 DEF IInv, TypeInv, RequestInv
  <2>3. QED
    BY <1>0, <1>2, <2>1, <2>2, ProgressFields
<1>4. next \in Progress /\ RequestInv(next)
  BY <1>0, <1>2, <1>3, Listed
<1>5. QED
  BY <1>0, <1>1, <1>4, RequestStep

\* The list that is read has all instances, and nothing else.
LEMMA ReadsFleetStep ==
    ASSUME IInv, NEW r \in Request, ReadsFleet(r)
    PROVE  IInv'
<1> DEFINE y == req[r]
           addrs == {db[i] : i \in Instance} \ {None}
<1>0. UNCHANGED <<clock, db, changed, asks, installed, cacheVars>> /\ y.pc = "ask"
  BY DEF ReadsFleet, rowVars
<1>1. /\ y \in Progress /\ RequestInv(y) /\ TypeInv
      /\ clock \in Nat /\ Start \in Nat /\ MaxLoad \in Nat
      /\ req \in [Request -> Progress]
  BY GatewayAssumption DEF IInv, TypeInv, Start
<1>2. y.begun \in Nat /\ y.begun <= clock /\ asks \in {"install", "any", "stream"}
  BY <1>0, <1>1, ProgressFields DEF RequestInv
<1>3. CASE addrs = {}
  <2>1. req' = [req EXCEPT ![r] = Idle]
    BY <1>3 DEF ReadsFleet
  <2>2. QED
    BY <1>0, <2>1, DoneStep
<1>4. CASE addrs # {}
  <2> DEFINE x == [pc |-> "list", begun |-> y.begun, at |-> clock, addrs |-> addrs]
  <2>1. req' = [req EXCEPT ![r] = x]
    BY <1>1, <1>4 DEF ReadsFleet
  <2>2. addrs \in SUBSET Address
    BY <1>1, Hops DEF Key
  <2>3. Complete(addrs, clock + Start)
    BY DEF Complete, Registered, Lists, Reaches, Listening
  <2> HIDE DEF addrs
  <2>4. x \in Progress
    BY <1>1, <1>2, <2>2, ProgressMade
  <2>5. ReadInv(x)
    BY <1>1, <1>2, <2>3 DEF ReadInv
  <2>6. RequestInv(x)
    BY <1>2, <2>5 DEF RequestInv, RouteInv, ListInv, StreamInv
  <2> HIDE DEF x
  <2>7. QED
    BY <1>0, <2>1, <2>4, <2>6, RequestStep
<1>5. QED
  BY <1>3, <1>4

\* It is stored for no longer than what it says may be relied on.
LEMMA StoresFleetStep ==
    ASSUME IInv, NEW r \in Request, StoresFleet(r)
    PROVE  IInv'
<1> DEFINE y == req[r]
<1>0. /\ UNCHANGED <<clock, db, changed, asks, installed, cache>> /\ y.pc = "list"
      /\ fleet' = [addrs |-> y.addrs, exp |-> clock + TTL]
  BY DEF StoresFleet, rowVars
<1>1. /\ y \in Progress /\ RequestInv(y) /\ TypeInv /\ CacheInv
      /\ clock \in Nat /\ MaxLoad \in Nat /\ TTL \in Nat /\ TTL > 0
      /\ \A i \in Instance : changed[i] \in Nat
  BY GatewayAssumption DEF IInv, TypeInv, Key
<1>2. /\ y.begun \in Nat /\ y.at \in Nat /\ y.addrs \in SUBSET Address
      /\ y.begun <= y.at /\ clock <= y.at + MaxLoad /\ Complete(y.addrs, y.at + Start)
  BY <1>0, <1>1, ProgressFields DEF RequestInv, ReadInv
<1>3. PICK next \in Asked(r, y.addrs) : req' = [req EXCEPT ![r] = next]
  BY DEF StoresFleet
<1>4. y.at + Start \in Nat /\ y.begun < y.at + Start /\ clock + TTL <= y.at + Start
  BY <1>1, <1>2 DEF Start
<1>5. next \in Progress /\ RequestInv(next)
  BY <1>0, <1>2, <1>4, Listed
<1>6. req' \in [Request -> Progress] /\ \A q \in Request : RequestInv(req[q])'
  BY <1>0, <1>3, <1>5, OneRequestMoves
<1>7. Complete(y.addrs, clock + TTL)
  <2>1. \A i \in Instance : changed[i] + Start < clock + TTL => changed[i] + Start < y.at + Start
    BY <1>1, <1>2, <1>4 DEF Start
  <2>2. \A i \in Instance : y.at + Start <= changed[i] + Start => clock + TTL <= changed[i] + Start
    BY <1>1, <1>2, <1>4 DEF Start
  <2>3. QED
    BY <1>2, <2>1, <2>2 DEF Complete, Registered, Lists
<1>8. FleetInv'
  BY <1>0, <1>1, <1>7 DEF FleetInv, Complete, Registered, Lists, Reaches, Listening
<1>9. TypeInv' /\ CacheInv'
  BY <1>0, <1>1, <1>2, <1>6 DEF TypeInv, CacheInv
<1>10. QED
  BY <1>6, <1>8, <1>9 DEF IInv

\* An instance that answers has been given the plugin.
LEMMA AnswersStep ==
    ASSUME IInv, NEW r \in Request, Answers(r)
    PROVE  IInv'
<1> DEFINE y == req[r]
<1>0. UNCHANGED <<clock, db, changed, asks, cache, fleet>> /\ y.pc = "install"
  BY DEF Answers, rowVars, cacheVars
<1>1. /\ y \in Progress /\ RequestInv(y) /\ TypeInv /\ clock \in Nat
      /\ req \in [Request -> Progress] /\ installed \subseteq Instance
  BY DEF IInv, TypeInv
<1>2. PICK a \in DOMAIN y.out, o \in {"installed", "failed", "refused"} :
          /\ req' = [req EXCEPT ![r].out[a] = o]
          /\ installed' = installed \cup {i \in Instance : o = "installed" /\ Listening(i, a)}
  BY DEF Answers
<1> DEFINE out == [y.out EXCEPT ![a] = o]
           x == [y EXCEPT !.out = out]
<1>3. /\ y \in Installing /\ y.begun \in Nat /\ DOMAIN y.out \subseteq Address
      /\ y.out \in [DOMAIN y.out -> Outcome]
  BY <1>0, <1>1, InstallFields
<1>4. req' = [req EXCEPT ![r] = x]
  BY <1>1, <1>2
<1>5. /\ out \in [DOMAIN y.out -> Outcome] /\ DOMAIN out = DOMAIN y.out /\ out[a] = o
      /\ \A b \in DOMAIN y.out \ {a} : out[b] = y.out[b]
  BY <1>3 DEF Outcome
<1>6. x = [pc |-> "install", begun |-> y.begun, out |-> out]
  BY <1>0, <1>3 DEF Installing
<1> HIDE DEF out, x
<1>7. x \in Progress
  <2>1. x \in Installing
    BY <1>3, <1>5, <1>6 DEF Installing
  <2>2. QED
    BY <2>1 DEF Progress
<1>8. installed \subseteq installed' /\ installed' \subseteq Instance
  BY <1>1, <1>2
<1>9. ASSUME NEW q \in Request PROVE RequestInv(req[q])'
  <2>1. CASE q = r
    <3>1. req'[q] = x
      BY <1>1, <1>4, <2>1
    <3>2. ASSUME NEW i \in Instance, db[i] # None, Settled(i, x.begun)
          PROVE  db[i] \in DOMAIN x.out /\ (x.out[db[i]] = "installed" => i \in installed')
      <4>1. Settled(i, y.begun)
        BY <1>6, <3>2
      <4>2. db[i] \in DOMAIN y.out /\ (y.out[db[i]] = "installed" => i \in installed)
        BY <1>0, <1>1, <3>2, <4>1 DEF RequestInv, ListInv
      <4>3. db[i] = a => (out[a] = "installed" => i \in installed')
        BY <1>2, <1>5 DEF Listening
      <4>4. QED
        BY <1>5, <1>6, <1>8, <4>2, <4>3
    <3>3. ListInv(req[q])'
      BY <1>0, <1>6, <3>1, <3>2 DEF ListInv, Settled
    <3>4. y.begun <= clock
      BY <1>0, <1>1 DEF RequestInv
    <3>5. QED
      BY <1>0, <1>6, <3>1, <3>3, <3>4 DEF RequestInv, RouteInv, ReadInv, StreamInv
  <2>2. CASE q # r
    <3>1. req'[q] = req[q] /\ RequestInv(req[q])
      BY <1>1, <1>4, <2>2 DEF IInv
    <3>2. req[q].pc \in {"store", "list"} => clock' <= req[q].at + MaxLoad
      BY <1>0, <3>1 DEF RequestInv, ReadInv
    <3>3. clock' \in Nat /\ clock <= clock' /\ UNCHANGED <<db, changed, asks>>
      BY <1>0, <1>1
    <3>4. QED
      BY <1>8, <3>1, <3>2, <3>3, RequestKept
  <2>3. QED
    BY <2>1, <2>2
<1>10. TypeInv'
  <2>1. req' \in [Request -> Progress]
    BY <1>1, <1>4, <1>7
  <2>2. QED
    BY <1>0, <1>1, <1>8, <2>1 DEF TypeInv
<1>11. CacheInv' /\ FleetInv'
  BY <1>0 DEF IInv, CacheInv, FleetInv, Complete, Registered, Lists, Reaches, Listening
<1>12. QED
  BY <1>9, <1>10, <1>11 DEF IInv

-----------------------------------------------------------------------------
(* Streams.                                                                *)

\* What is asked of each backend of a stream.
Current(merged, conn) ==
    \A a \in DOMAIN conn :
        /\ InOrder(merged, conn[a], a) /\ conn[a].seen <= conn[a].newest
        /\ conn[a].is = "opening" => conn[a].newest = conn[a].seen

LEMMA StreamMade ==
    ASSUME NEW conn, NEW merged \in Seq(Address \X Nat), NEW addrs \in SUBSET Address,
           conn \in [addrs -> Conns], Current(merged, conn), asks = "pump" => merged = <<>>
    PROVE  LET x == [pc |-> "stream", conn |-> conn, merged |-> merged] IN
           x \in Progress /\ RequestInv(x)
<1> DEFINE x == [pc |-> "stream", conn |-> conn, merged |-> merged]
<1>1. x \in Streams
  BY DEF Streams
<1>2. x \in Progress
  BY <1>1 DEF Progress
<1>3. StreamInv(x)
  BY DEF StreamInv, Current
<1>4. RequestInv(x)
  BY <1>3 DEF RequestInv, RouteInv, ReadInv, ListInv
<1>5. QED
  BY <1>2, <1>4

LEMMA BackendChanged ==
    ASSUME NEW x, NEW conn, NEW merged, x = [pc |-> "stream", conn |-> conn, merged |-> merged],
           NEW a, NEW c
    PROVE  [x EXCEPT !.conn[a] = c] =
               [pc |-> "stream", conn |-> [conn EXCEPT ![a] = c], merged |-> merged]
  OBVIOUS

LEMMA MergedChanged ==
    ASSUME NEW x, NEW conn, NEW merged, x = [pc |-> "stream", conn |-> conn, merged |-> merged],
           NEW longer
    PROVE  [x EXCEPT !.merged = longer] = [pc |-> "stream", conn |-> conn, merged |-> longer]
  OBVIOUS

LEMMA StreamHas ==
    ASSUME IInv, NEW r \in Request, Streaming(r)
    PROVE  /\ req[r] = [pc |-> "stream", conn |-> Conn(r), merged |-> req[r].merged]
           /\ Conn(r) \in [DOMAIN Conn(r) -> Conns] /\ DOMAIN Conn(r) \in SUBSET Address
           /\ req[r].merged \in Seq(Address \X Nat) /\ Current(req[r].merged, Conn(r))
           /\ asks = "pump" => req[r].merged = <<>>
           /\ req \in [Request -> Progress]
<1>1. /\ req[r] \in Progress /\ RequestInv(req[r]) /\ req[r].pc = "stream"
      /\ req \in [Request -> Progress]
  BY DEF IInv, TypeInv, Streaming
<1>2. /\ req[r] \in Streams /\ req[r].merged \in Seq(Address \X Nat)
      /\ DOMAIN req[r].conn \subseteq Address /\ req[r].conn \in [DOMAIN req[r].conn -> Conns]
  BY <1>1, StreamFields
<1>3. StreamInv(req[r])
  BY <1>1 DEF RequestInv
<1>4. QED
  BY <1>1, <1>2, <1>3 DEF Streams, StreamInv, Conn, Current

\* A stream gets on.
LEMMA StreamStep ==
    ASSUME IInv, NEW r \in Request, Streaming(r), NEW merged \in Seq(Address \X Nat), NEW conn,
           conn \in [DOMAIN Conn(r) -> Conns], Current(merged, conn),
           asks = "pump" => merged = <<>>,
           req' = [req EXCEPT ![r] = [pc |-> "stream", conn |-> conn, merged |-> merged]],
           UNCHANGED <<clock, rowVars, cacheVars, installed>>
    PROVE  IInv'
<1> DEFINE x == [pc |-> "stream", conn |-> conn, merged |-> merged]
<1>1. DOMAIN Conn(r) \in SUBSET Address
  BY StreamHas
<1>2. x \in Progress /\ RequestInv(x)
  BY <1>1, StreamMade
<1> HIDE DEF x
<1>3. req' = [req EXCEPT ![r] = x]
  BY DEF x
<1>4. QED
  BY <1>2, <1>3, RequestStep DEF rowVars

\* What happens to one backend's updates is no matter for the others, when as many
\* are merged as before.
LEMMA BackendStep ==
    ASSUME IInv, NEW r \in Request, Streaming(r), NEW a \in DOMAIN Conn(r), NEW c \in Conns,
           InOrder(req[r].merged, c, a), c.seen <= c.newest, c.is # "opening",
           req' = [req EXCEPT ![r] = [pc |-> "stream", conn |-> [Conn(r) EXCEPT ![a] = c],
                                      merged |-> req[r].merged]],
           UNCHANGED <<clock, rowVars, cacheVars, installed>>
    PROVE  IInv'
<1> DEFINE conn == [Conn(r) EXCEPT ![a] = c]
<1>1. /\ Conn(r) \in [DOMAIN Conn(r) -> Conns] /\ req[r].merged \in Seq(Address \X Nat)
      /\ Current(req[r].merged, Conn(r)) /\ (asks = "pump" => req[r].merged = <<>>)
  BY StreamHas
<1>2. /\ conn \in [DOMAIN Conn(r) -> Conns] /\ DOMAIN conn = DOMAIN Conn(r) /\ conn[a] = c
      /\ \A b \in DOMAIN Conn(r) \ {a} : conn[b] = Conn(r)[b]
  BY <1>1
<1> HIDE DEF conn
<1>3. Current(req[r].merged, conn)
  BY <1>1, <1>2 DEF Current
<1>4. req' = [req EXCEPT ![r] = [pc |-> "stream", conn |-> conn, merged |-> req[r].merged]]
  BY DEF conn
<1>5. QED
  BY <1>1, <1>2, <1>3, <1>4, StreamStep

LEMMA OpensPumpStep ==
    ASSUME IInv, NEW r \in Request, OpensPump(r)
    PROVE  IInv'
<1> DEFINE y == req[r]
<1>0. /\ UNCHANGED <<clock, db, changed, asks, installed, cacheVars>>
      /\ y.pc = "forward" /\ asks = "pump"
  BY DEF OpensPump, rowVars
<1>1. y \in Progress /\ req \in [Request -> Progress]
  BY DEF IInv, TypeInv
<1>2. y.addr \in Address
  BY <1>0, <1>1, ProgressFields
<1>3. CASE Reaches(y.addr)
  <2> DEFINE c == [NewConn EXCEPT !.is = "open"]
             conn == [a \in {y.addr} |-> c]
             x == [pc |-> "stream", conn |-> conn, merged |-> <<>>]
  <2>1. req' = [req EXCEPT ![r] = x]
    BY <1>1, <1>3 DEF OpensPump
  <2>2. c \in Conns /\ c.is = "open" /\ c.seen <= c.newest /\ \A a : InOrder(<<>>, c, a)
    BY NewInOrder
  <2> HIDE DEF c
  <2>3. /\ conn \in [{y.addr} -> Conns] /\ {y.addr} \in SUBSET Address
        /\ Current(<<>>, conn) /\ <<>> \in Seq(Address \X Nat)
    BY <1>2, <2>2 DEF Current
  <2> HIDE DEF conn
  <2>4. x \in Progress /\ RequestInv(x)
    BY <2>3, StreamMade
  <2> HIDE DEF x
  <2>5. QED
    BY <1>0, <2>1, <2>4, RequestStep
<1>4. CASE ~Reaches(y.addr)
  <2>1. req' = [req EXCEPT ![r] = Idle]
    BY <1>1, <1>4 DEF OpensPump
  <2>2. QED
    BY <1>0, <2>1, DoneStep
<1>5. QED
  BY <1>3, <1>4

LEMMA PumpsStep ==
    ASSUME IInv, NEW r \in Request, Pumps(r)
    PROVE  IInv'
<1>0. Streaming(r) /\ asks = "pump" /\ UNCHANGED <<clock, rowVars, cacheVars, installed>>
  BY DEF Pumps
<1>1. PICK a \in DOMAIN Conn(r) :
          /\ Conn(r)[a].queue # <<>>
          /\ req' = [req EXCEPT ![r].conn[a] =
                        [@ EXCEPT !.queue = Tail(Conn(r)[a].queue),
                                  !.seen = Head(Conn(r)[a].queue)]]
  BY DEF Pumps
<1>2. /\ Conn(r)[a] \in Conns /\ req[r].merged = <<>> /\ req \in [Request -> Progress]
      /\ InOrder(<<>>, Conn(r)[a], a)
      /\ Conn(r)[a].is = "opening" => Conn(r)[a].newest = Conn(r)[a].seen
      /\ req[r] = [pc |-> "stream", conn |-> Conn(r), merged |-> req[r].merged]
  BY <1>0, StreamHas DEF Current
<1> DEFINE c == [Conn(r)[a] EXCEPT !.queue = Tail(Conn(r)[a].queue),
                                   !.seen = Head(Conn(r)[a].queue)]
<1>3. c \in Conns /\ InOrder(<<>>, c, a) /\ c.is = Conn(r)[a].is /\ c.seen <= c.newest
  BY <1>1, <1>2, PumpedInOrder
<1>4. c.is # "opening"
  <2>1. Ordered(<<>>, Conn(r)[a], a)
    BY <1>2, InOrderParts
  <2>2. Conn(r)[a].queue \in Seq(Nat) /\ Conn(r)[a].newest \in Nat /\ Conn(r)[a].seen \in Nat
    BY <1>2 DEF Conns
  <2>3. 1 \in DOMAIN Conn(r)[a].queue /\ Conn(r)[a].queue[1] \in Nat
    BY <1>1, <2>2, TailPlaces
  <2>4. Conn(r)[a].newest # Conn(r)[a].seen
    BY <2>1, <2>2, <2>3 DEF Ordered
  <2>5. QED
    BY <1>2, <1>3, <2>4
<1>5. req' = [req EXCEPT ![r] = [pc |-> "stream", conn |-> [Conn(r) EXCEPT ![a] = c],
                                 merged |-> req[r].merged]]
  <2>1. req' = [req EXCEPT ![r] = [req[r] EXCEPT !.conn[a] = c]]
    BY <1>1, <1>2 DEF Conn
  <2> HIDE DEF c
  <2>2. [req[r] EXCEPT !.conn[a] = c] =
            [pc |-> "stream", conn |-> [Conn(r) EXCEPT ![a] = c], merged |-> req[r].merged]
    BY <1>2, BackendChanged
  <2>3. QED
    BY <2>1, <2>2
<1> HIDE DEF c
<1>6. QED
  BY <1>0, <1>2, <1>3, <1>4, <1>5, BackendStep

LEMMA OpensStreamStep ==
    ASSUME IInv, NEW r \in Request, OpensStream(r)
    PROVE  IInv'
<1>0. Streaming(r) /\ UNCHANGED <<clock, rowVars, cacheVars, installed>>
  BY DEF OpensStream
<1>1. PICK a \in DOMAIN Conn(r), outcome \in {"open", "ended"} :
          Conn(r)[a].is = "opening" /\ req' = [req EXCEPT ![r].conn[a].is = outcome]
  BY DEF OpensStream
<1>2. /\ Conn(r)[a] \in Conns /\ req \in [Request -> Progress]
      /\ InOrder(req[r].merged, Conn(r)[a], a) /\ Conn(r)[a].newest = Conn(r)[a].seen
      /\ req[r] = [pc |-> "stream", conn |-> Conn(r), merged |-> req[r].merged]
  BY <1>0, <1>1, StreamHas DEF Current
<1> DEFINE c == [Conn(r)[a] EXCEPT !.is = outcome]
<1>3. /\ c \in Conns /\ c.is = outcome /\ c.queue = Conn(r)[a].queue /\ c.seen = Conn(r)[a].seen
      /\ c.newest = Conn(r)[a].newest /\ c.newest \in Nat
  BY <1>2 DEF Conns
<1>4. req' = [req EXCEPT ![r] = [pc |-> "stream", conn |-> [Conn(r) EXCEPT ![a] = c],
                                 merged |-> req[r].merged]]
  <2>1. req' = [req EXCEPT ![r] = [req[r] EXCEPT !.conn[a] = c]]
    BY <1>1, <1>2 DEF Conn
  <2> HIDE DEF c
  <2>2. [req[r] EXCEPT !.conn[a] = c] =
            [pc |-> "stream", conn |-> [Conn(r) EXCEPT ![a] = c], merged |-> req[r].merged]
    BY <1>2, BackendChanged
  <2>3. QED
    BY <2>1, <2>2
<1> HIDE DEF c
<1>5. InOrder(req[r].merged, c, a)
  <2>1. Ordered(req[r].merged, c, a)
    <3>1. Ordered(req[r].merged, Conn(r)[a], a)
      BY <1>2, InOrderParts
    <3>2. QED
      BY <1>3, <3>1 DEF Ordered
  <2>2. HasNewest(req[r].merged, c, a)
    BY <1>2, <1>3 DEF HasNewest
  <2>3. QED
    BY <2>1, <2>2, InOrderParts
<1>6. c.seen <= c.newest /\ c.is # "opening"
  BY <1>2, <1>3
<1>7. QED
  BY <1>0, <1>3, <1>4, <1>5, <1>6, BackendStep

LEMMA BackendEndsStep ==
    ASSUME IInv, NEW r \in Request, BackendEnds(r)
    PROVE  IInv'
<1>0. Streaming(r) /\ UNCHANGED <<clock, rowVars, cacheVars, installed>>
  BY DEF BackendEnds
<1>1. PICK a \in DOMAIN Conn(r) :
          /\ Conn(r)[a].is = "open"
          /\ req' = [req EXCEPT ![r].conn[a] = [@ EXCEPT !.is = "ended", !.queue = <<>>]]
  BY DEF BackendEnds
<1>2. /\ Conn(r)[a] \in Conns /\ req \in [Request -> Progress]
      /\ InOrder(req[r].merged, Conn(r)[a], a) /\ Conn(r)[a].seen <= Conn(r)[a].newest
      /\ req[r] = [pc |-> "stream", conn |-> Conn(r), merged |-> req[r].merged]
  BY <1>0, <1>1, StreamHas DEF Current
<1> DEFINE c == [Conn(r)[a] EXCEPT !.is = "ended", !.queue = <<>>]
<1>3. /\ c \in Conns /\ c.is = "ended" /\ c.queue = <<>> /\ c.seen = Conn(r)[a].seen
      /\ c.newest = Conn(r)[a].newest
  <2>1. <<>> \in Seq(Nat)
    OBVIOUS
  <2>2. QED
    BY <1>2, <2>1 DEF Conns
<1>4. req' = [req EXCEPT ![r] = [pc |-> "stream", conn |-> [Conn(r) EXCEPT ![a] = c],
                                 merged |-> req[r].merged]]
  <2>1. req' = [req EXCEPT ![r] = [req[r] EXCEPT !.conn[a] = c]]
    BY <1>1, <1>2 DEF Conn
  <2> HIDE DEF c
  <2>2. [req[r] EXCEPT !.conn[a] = c] =
            [pc |-> "stream", conn |-> [Conn(r) EXCEPT ![a] = c], merged |-> req[r].merged]
    BY <1>2, BackendChanged
  <2>3. QED
    BY <2>1, <2>2
<1> HIDE DEF c
<1>5. InOrder(req[r].merged, c, a)
  <2>1. Ordered(req[r].merged, Conn(r)[a], a)
    BY <1>2, InOrderParts
  <2>2. Ordered(req[r].merged, c, a)
    BY <1>3, <2>1 DEF Ordered
  <2>3. QED
    BY <1>3, <2>2, InOrderParts
<1>6. c.seen <= c.newest /\ c.is # "opening"
  BY <1>2, <1>3
<1>7. QED
  BY <1>0, <1>3, <1>4, <1>5, <1>6, BackendStep

\* The goroutine of one backend puts an update behind those of the others.
LEMMA RelaysStep ==
    ASSUME IInv, NEW r \in Request, Relays(r)
    PROVE  IInv'
<1>0. Streaming(r) /\ asks = "stream" /\ UNCHANGED <<clock, rowVars, cacheVars, installed>>
  BY DEF Relays
<1> DEFINE old == req[r].merged
<1>1. PICK a \in DOMAIN Conn(r) :
          /\ Conn(r)[a].queue # <<>>
          /\ req' = [req EXCEPT ![r].merged = Append(old, <<a, Head(Conn(r)[a].queue)>>),
                                ![r].conn[a].queue = Tail(Conn(r)[a].queue)]
  BY DEF Relays, Merged
<1>2. /\ Conn(r) \in [DOMAIN Conn(r) -> Conns] /\ DOMAIN Conn(r) \in SUBSET Address
      /\ old \in Seq(Address \X Nat) /\ Current(old, Conn(r)) /\ req \in [Request -> Progress]
      /\ req[r] = [pc |-> "stream", conn |-> Conn(r), merged |-> old]
  BY <1>0, StreamHas
<1> DEFINE c == [Conn(r)[a] EXCEPT !.queue = Tail(Conn(r)[a].queue)]
           merged == Append(old, <<a, Head(Conn(r)[a].queue)>>)
           conn == [Conn(r) EXCEPT ![a] = c]
<1>3. /\ c \in Conns /\ merged \in Seq(Address \X Nat) /\ InOrder(merged, c, a)
      /\ c.is = Conn(r)[a].is /\ c.newest = Conn(r)[a].newest /\ c.seen = Conn(r)[a].seen
  <2>1. /\ Conn(r)[a] \in Conns /\ InOrder(old, Conn(r)[a], a) /\ a \in Address
        /\ Conn(r)[a].queue # <<>> /\ old \in Seq(Address \X Nat)
    BY <1>1, <1>2 DEF Current
  <2>2. /\ c \in Conns /\ c.is = Conn(r)[a].is /\ c.queue = Tail(Conn(r)[a].queue)
        /\ c.newest = Conn(r)[a].newest /\ c.dropped = Conn(r)[a].dropped
        /\ c.seen = Conn(r)[a].seen
    <3>1. Tail(Conn(r)[a].queue) \in Seq(Nat)
      BY <2>1, TailPlaces DEF Conns
    <3>2. QED
      BY <2>1, <3>1 DEF Conns
  <2>3. merged = Append(old, <<a, Head(Conn(r)[a].queue)>>)
    OBVIOUS
  <2> HIDE DEF old, c, merged
  <2>4. QED
    BY <2>1, <2>2, <2>3, RelayedInOrder
<1>4. \A b \in DOMAIN Conn(r) \ {a} : InOrder(merged, Conn(r)[b], b)
  <2>1. Head(Conn(r)[a].queue) \in Nat
    BY <1>1, <1>2, TailPlaces DEF Conns
  <2>2. QED
    BY <1>2, <2>1, RelayedOthersInOrder DEF Current
<1>5. req' = [req EXCEPT ![r] = [pc |-> "stream", conn |-> conn, merged |-> merged]]
  <2> DEFINE y == [req[r] EXCEPT !.merged = merged]
  <2>1. req' = [req EXCEPT ![r] = [y EXCEPT !.conn[a] = c]]
    BY <1>1, <1>2 DEF Conn
  <2> HIDE DEF c, merged, old
  <2>2. y = [pc |-> "stream", conn |-> Conn(r), merged |-> merged]
    BY <1>2, MergedChanged
  <2> HIDE DEF y
  <2>3. [y EXCEPT !.conn[a] = c] =
            [pc |-> "stream", conn |-> [Conn(r) EXCEPT ![a] = c], merged |-> merged]
    BY <2>2, BackendChanged
  <2>4. QED
    BY <2>1, <2>3
<1> HIDE DEF c, merged
<1>6. /\ conn \in [DOMAIN Conn(r) -> Conns] /\ DOMAIN conn = DOMAIN Conn(r) /\ conn[a] = c
      /\ \A b \in DOMAIN Conn(r) \ {a} : conn[b] = Conn(r)[b]
  BY <1>2, <1>3
<1> HIDE DEF conn
<1>7. Current(merged, conn)
  BY <1>2, <1>3, <1>4, <1>6 DEF Current
<1>8. QED
  BY <1>0, <1>3, <1>5, <1>6, <1>7, StreamStep

\* What the client is sent is the first of those merged.
LEMMA SendsToClientStep ==
    ASSUME IInv, NEW r \in Request, SendsToClient(r)
    PROVE  IInv'
<1> DEFINE old == req[r].merged
           a == Head(old)[1]
           u == Head(old)[2]
<1>0. /\ Streaming(r) /\ old # <<>> /\ UNCHANGED <<clock, rowVars, cacheVars, installed>>
      /\ req' = [req EXCEPT ![r].merged = Tail(old), ![r].conn[a].seen = u]
  BY DEF SendsToClient
<1>1. /\ Conn(r) \in [DOMAIN Conn(r) -> Conns] /\ DOMAIN Conn(r) \in SUBSET Address
      /\ old \in Seq(Address \X Nat) /\ Current(old, Conn(r)) /\ req \in [Request -> Progress]
      /\ req[r] = [pc |-> "stream", conn |-> Conn(r), merged |-> old] /\ asks # "pump"
  BY <1>0, StreamHas
<1>2. Tail(old) \in Seq(Address \X Nat) /\ a \in Address
  BY <1>0, <1>1, TailPlaces
<1> DEFINE c == [Conn(r)[a] EXCEPT !.seen = u]
           conn == [Conn(r) EXCEPT ![a] = c]
<1>3. a \in DOMAIN Conn(r) =>
          /\ c \in Conns /\ InOrder(Tail(old), c, a) /\ c.is = Conn(r)[a].is
          /\ c.seen <= c.newest /\ c.is # "opening"
  <2>1. SUFFICES ASSUME a \in DOMAIN Conn(r)
                 PROVE  /\ c \in Conns /\ InOrder(Tail(old), c, a) /\ c.is = Conn(r)[a].is
                        /\ c.seen <= c.newest /\ c.is # "opening"
    OBVIOUS
  <2>2. /\ Conn(r)[a] \in Conns /\ InOrder(old, Conn(r)[a], a)
        /\ Conn(r)[a].is = "opening" => Conn(r)[a].newest = Conn(r)[a].seen
    BY <1>1, <2>1 DEF Current
  <2>3. /\ c \in Conns /\ InOrder(Tail(old), c, a) /\ c.is = Conn(r)[a].is
        /\ c.seen <= c.newest /\ Conn(r)[a].newest # Conn(r)[a].seen
    <3>1. old # <<>> /\ old \in Seq(Address \X Nat) /\ a \in Address /\ Head(old)[1] = a
      BY <1>0, <1>1, <1>2
    <3>2. /\ c \in Conns /\ c.is = Conn(r)[a].is /\ c.queue = Conn(r)[a].queue
          /\ c.newest = Conn(r)[a].newest /\ c.dropped = Conn(r)[a].dropped
          /\ c.seen = Head(old)[2]
      <4>1. u \in Nat
        BY <1>0, <1>1, TailPlaces
      <4> HIDE DEF u
      <4>2. c \in Conns /\ c.is = Conn(r)[a].is /\ c.queue = Conn(r)[a].queue
            /\ c.newest = Conn(r)[a].newest /\ c.dropped = Conn(r)[a].dropped /\ c.seen = u
        BY <2>2, <4>1 DEF Conns
      <4>3. QED
        BY <4>2 DEF u
    <3> HIDE DEF old, a, u, c
    <3>3. QED
      BY <2>2, <3>1, <3>2, SentInOrder
  <2>4. QED
    BY <2>2, <2>3
<1>4. \A b \in DOMAIN Conn(r) \ {a} : InOrder(Tail(old), Conn(r)[b], b)
  BY <1>0, <1>1, SentOthersInOrder DEF Current
<1>5. req' = [req EXCEPT ![r] = [pc |-> "stream", conn |-> conn, merged |-> Tail(old)]]
  <2> DEFINE rest == Tail(old)
             y == [req[r] EXCEPT !.merged = rest]
  <2>1. req' = [req EXCEPT ![r] = [y EXCEPT !.conn[a] = c]]
    BY <1>0, <1>1 DEF Conn
  <2> HIDE DEF a, c, rest
  <2>2. y = [pc |-> "stream", conn |-> Conn(r), merged |-> rest]
    BY <1>1, MergedChanged
  <2> HIDE DEF y
  <2>3. [y EXCEPT !.conn[a] = c] =
            [pc |-> "stream", conn |-> [Conn(r) EXCEPT ![a] = c], merged |-> rest]
    BY <2>2, BackendChanged
  <2>4. QED
    BY <2>1, <2>3 DEF rest
<1> HIDE DEF a, u, c
<1>6. /\ conn \in [DOMAIN Conn(r) -> Conns] /\ DOMAIN conn = DOMAIN Conn(r)
      /\ a \in DOMAIN Conn(r) => conn[a] = c
      /\ \A b \in DOMAIN Conn(r) \ {a} : conn[b] = Conn(r)[b]
  BY <1>1, <1>3
<1> HIDE DEF conn
<1>7. Current(Tail(old), conn)
  <2>1. SUFFICES ASSUME NEW b \in DOMAIN Conn(r)
                 PROVE  /\ InOrder(Tail(old), conn[b], b) /\ conn[b].seen <= conn[b].newest
                        /\ conn[b].is = "opening" => conn[b].newest = conn[b].seen
    BY <1>6 DEF Current
  <2>2. CASE b = a
    BY <1>3, <1>6, <2>2
  <2>3. CASE b # a
    BY <1>1, <1>4, <1>6, <2>3 DEF Current
  <2>4. QED
    BY <2>2, <2>3
<1>8. QED
  BY <1>0, <1>1, <1>2, <1>5, <1>6, <1>7, StreamStep

\* An emission reaches all streams that are open there.
LEMMA EmitsStep ==
    ASSUME IInv, NEW a \in Address, Emits(a)
    PROVE  IInv'
<1> DEFINE open == {r \in Request : Streaming(r) /\ a \in DOMAIN Conn(r) /\ Conn(r)[a].is = "open"}
<1>0. /\ UNCHANGED <<clock, db, changed, asks, cache, fleet, installed>>
      /\ req' = [r \in Request |->
                    IF r \in open THEN [req[r] EXCEPT !.conn[a] = Offered(@)] ELSE req[r]]
  BY DEF Emits, rowVars, cacheVars
<1>1. req \in [Request -> Progress] /\ TypeInv /\ clock \in Nat
  BY DEF IInv, TypeInv
<1>2. ASSUME NEW q \in Request PROVE req'[q] \in Progress /\ RequestInv(req[q])'
  <2>1. CASE q \in open
    <3>1. Streaming(q) /\ a \in DOMAIN Conn(q) /\ Conn(q)[a].is = "open"
      BY <2>1
    <3>2. /\ Conn(q) \in [DOMAIN Conn(q) -> Conns] /\ DOMAIN Conn(q) \in SUBSET Address
          /\ req[q].merged \in Seq(Address \X Nat) /\ Current(req[q].merged, Conn(q))
          /\ asks = "pump" => req[q].merged = <<>>
          /\ req[q] = [pc |-> "stream", conn |-> Conn(q), merged |-> req[q].merged]
      BY <3>1, StreamHas
    <3> DEFINE c == Offered(Conn(q)[a])
               conn == [Conn(q) EXCEPT ![a] = c]
               x == [pc |-> "stream", conn |-> conn, merged |-> req[q].merged]
    <3>3. /\ c \in Conns /\ InOrder(req[q].merged, c, a) /\ c.is = "open" /\ c.seen <= c.newest
      BY <3>1, <3>2, OfferedInOrder DEF Current
    <3>4. req'[q] = x
      <4>1. req'[q] = [req[q] EXCEPT !.conn[a] = c]
        BY <1>0, <2>1 DEF Conn
      <4> HIDE DEF c
      <4>2. [req[q] EXCEPT !.conn[a] = c] =
                [pc |-> "stream", conn |-> [Conn(q) EXCEPT ![a] = c], merged |-> req[q].merged]
        BY <3>2, BackendChanged
      <4>3. QED
        BY <4>1, <4>2
    <3> HIDE DEF c
    <3>5. /\ conn \in [DOMAIN Conn(q) -> Conns] /\ DOMAIN conn = DOMAIN Conn(q) /\ conn[a] = c
          /\ \A b \in DOMAIN Conn(q) \ {a} : conn[b] = Conn(q)[b]
      BY <3>1, <3>2, <3>3
    <3> HIDE DEF conn
    <3>6. Current(req[q].merged, conn)
      BY <3>2, <3>3, <3>5 DEF Current
    <3>7. x \in Progress /\ RequestInv(x) /\ x.pc = "stream"
      BY <3>2, <3>5, <3>6, StreamMade
    <3> HIDE DEF x
    <3>8. StreamInv(req[q])'
      BY <1>0, <3>4, <3>7 DEF RequestInv, StreamInv
    <3>9. RequestInv(req[q])'
      BY <3>4, <3>7, <3>8 DEF RequestInv, RouteInv, ReadInv, ListInv
    <3>10. QED
      BY <3>4, <3>7, <3>9
  <2>2. CASE q \notin open
    <3>1. req'[q] = req[q] /\ RequestInv(req[q])
      BY <1>0, <2>2 DEF IInv
    <3>2. req[q].pc \in {"store", "list"} => clock' <= req[q].at + MaxLoad
      BY <1>0, <3>1 DEF RequestInv, ReadInv
    <3>3. /\ clock' \in Nat /\ clock <= clock' /\ UNCHANGED <<db, changed, asks>>
          /\ installed \subseteq installed'
      BY <1>0, <1>1
    <3>4. QED
      BY <1>1, <3>1, <3>2, <3>3, RequestKept
  <2>3. QED
    BY <2>1, <2>2
<1>3. req' \in [Request -> Progress]
  BY <1>0, <1>2
<1>4. TypeInv'
  BY <1>0, <1>1, <1>3 DEF TypeInv
<1>5. CacheInv' /\ FleetInv'
  BY <1>0 DEF IInv, CacheInv, FleetInv, Complete, Registered, Lists, Reaches, Listening
<1>6. QED
  BY <1>2, <1>4, <1>5 DEF IInv

-----------------------------------------------------------------------------
(* Time and rows.                                                          *)

LEMMA TickStep ==
    ASSUME IInv, Tick
    PROVE  IInv'
<1>0. clock' = clock + 1 /\ UNCHANGED <<db, changed, asks, cache, fleet, req, installed>>
  BY DEF Tick, rowVars, cacheVars
<1>1. TypeInv /\ clock \in Nat /\ MaxLoad \in Nat /\ TTL \in Nat /\ req \in [Request -> Progress]
  BY GatewayAssumption DEF IInv, TypeInv
<1>2. clock' \in Nat /\ clock <= clock'
  BY <1>0, <1>1
<1>3. ASSUME NEW q \in Request PROVE RequestInv(req[q])'
  <2>1. req[q].pc \in {"store", "list"} => clock' <= req[q].at + MaxLoad
    <3>1. req[q].pc \in {"store", "list"} => req[q].at \in Nat
      BY <1>1, ProgressFields
    <3>2. req[q].pc \in {"store", "list"} => clock < req[q].at + MaxLoad
      BY DEF Tick
    <3>3. QED
      BY <1>0, <1>1, <3>1, <3>2
  <2>2. req'[q] = req[q] /\ UNCHANGED <<db, changed, asks>> /\ installed \subseteq installed'
    BY <1>0
  <2>3. QED
    BY <1>2, <2>1, <2>2, RequestKept
<1>4. TypeInv'
  <2>1. \A k \in Key : changed[k] <= clock'
    BY <1>0, <1>1 DEF TypeInv
  <2>2. QED
    BY <1>0, <1>1, <1>2, <2>1 DEF TypeInv
<1>5. CacheInv'
  <2>1. \A k \in Key : cache[k].exp <= clock' + TTL
    BY <1>0, <1>1 DEF IInv, CacheInv, TypeInv
  <2>2. QED
    BY <1>0, <2>1 DEF IInv, CacheInv
<1>6. FleetInv'
  <2>1. fleet.exp <= clock' + TTL
    BY <1>0, <1>1 DEF IInv, FleetInv, TypeInv
  <2>2. QED
    BY <1>0, <2>1 DEF IInv, FleetInv, Complete, Registered, Lists, Reaches, Listening
<1>7. QED
  BY <1>3, <1>4, <1>5, <1>6 DEF IInv

\* A list that is used until exp goes without an instance that has just moved.
LEMMA CompleteAfterChange ==
    ASSUME TypeInv, NEW k \in Key, RowChanges(k), NEW addrs, NEW exp \in Nat,
           exp <= clock + Start, Complete(addrs, exp)
    PROVE  /\ (\A i \in Instance : changed'[i] + Start < exp) =>
                  \A a \in addrs : \E i \in Instance : db'[i] = a
           /\ \A i \in Instance : db'[i] \in addrs \cup {None} \/ exp <= changed'[i] + Start
<1>0. /\ db' = [db EXCEPT ![k] = db'[k]] /\ changed' = [changed EXCEPT ![k] = clock]
      /\ UNCHANGED clock /\ clock \in Nat
      /\ db \in [Key -> Hop \cup {None}] /\ changed \in [Key -> Nat]
  BY DEF RowChanges, TypeInv
<1>1. Instance \subseteq Key /\ Start \in Nat
  BY GatewayAssumption DEF Key, Start
<1>2. \A i \in Instance : i # k => db'[i] = db[i] /\ changed'[i] = changed[i]
  BY <1>0, <1>1
<1>3. changed'[k] = clock
  BY <1>0
<1>4. CASE k \in Instance
  <2>1. ~(changed'[k] + Start < exp)
    BY <1>0, <1>1, <1>3
  <2>2. \A i \in Instance : db'[i] \in addrs \cup {None} \/ exp <= changed'[i] + Start
    BY <1>2, <1>3 DEF Complete, Lists
  <2>3. QED
    BY <1>4, <2>1, <2>2
<1>5. CASE k \notin Instance
  BY <1>2, <1>5 DEF Complete, Registered, Lists, Reaches, Listening
<1>6. QED
  BY <1>4, <1>5

\* A way that has settled is the one it was before the change.
LEMMA PathAfterChange ==
    ASSUME TypeInv, NEW k \in Key, RowChanges(k), NEW from \in Key, NEW start \in Nat,
           start <= clock, Steady(from, start)'
    PROVE  /\ Steady(from, start) /\ PathOf(from)' = PathOf(from) /\ k \notin PathOf(from)
           /\ \A j \in PathOf(from) : db'[j] = db[j]
<1>0. /\ changed' = [changed EXCEPT ![k] = clock] /\ changed \in [Key -> Nat] /\ clock \in Nat
      /\ \A j \in Key : j # k => db'[j] = db[j] /\ changed'[j] = changed[j]
  BY DEF RowChanges, TypeInv
<1>1. TTL > 0 /\ TTL \in Nat /\ MaxLoad \in Nat
  BY GatewayAssumption
<1>2. k \notin PathOf(from)'
  <2>1. SUFFICES ASSUME k \in PathOf(from)' PROVE FALSE
    OBVIOUS
  <2>2. changed'[k] + Start <= start
    BY <2>1 DEF Steady, Settled
  <2>3. changed'[k] = clock
    BY <1>0
  <2>4. QED
    BY <1>0, <1>1, <2>2, <2>3 DEF Start
<1>3. PathOf(from)' = PathOf(from)
  <2>1. from # k /\ db'[from] = db[from]
    BY <1>0, <1>2 DEF PathOf
  <2>2. CASE db[from] \in Key
    <3>1. db'[db[from]] = db[db[from]]
      BY <1>0, <1>2, <2>1, <2>2 DEF PathOf
    <3>2. QED
      BY <2>1, <2>2, <3>1 DEF PathOf
  <2>3. CASE db[from] \notin Key
    BY <2>1, <2>3 DEF PathOf
  <2>4. QED
    BY <2>2, <2>3
<1>4. \A j \in PathOf(from) : db'[j] = db[j] /\ changed'[j] = changed[j]
  BY <1>0, <1>2, <1>3, PathKeys
<1>5. Steady(from, start)
  BY <1>3, <1>4 DEF Steady, Settled
<1>6. QED
  BY <1>2, <1>3, <1>4, <1>5

LEMMA RowChangesStep ==
    ASSUME IInv, NEW k \in Key, RowChanges(k)
    PROVE  IInv'
<1>0. /\ changed' = [changed EXCEPT ![k] = clock]
      /\ UNCHANGED <<clock, asks, cache, fleet, req, installed>>
  BY DEF RowChanges, cacheVars
<1>1. PICK v \in Target(k) \cup {None} : db' = [db EXCEPT ![k] = v]
  BY DEF RowChanges
<1>2. /\ TypeInv /\ CacheInv /\ FleetInv
      /\ clock \in Nat /\ Start \in Nat /\ TTL \in Nat /\ MaxLoad \in Nat
      /\ TTL > 0 /\ db \in [Key -> Hop \cup {None}] /\ changed \in [Key -> Nat]
      /\ Instance \subseteq Key
  BY GatewayAssumption DEF IInv, TypeInv, Start, Key
<1>3. /\ db'[k] = v /\ changed'[k] = clock
      /\ \A j \in Key : j # k => db'[j] = db[j] /\ changed'[j] = changed[j]
  BY <1>0, <1>1, <1>2
<1>4. TypeInv'
  <2>1. v \in Hop \cup {None}
    BY DEF Target, Hop
  <2>2. db' \in [Key -> Hop \cup {None}] /\ changed' \in [Key -> Nat]
    BY <1>0, <1>1, <1>2, <2>1
  <2>3. \A j \in Key : db'[j] \in Target(j) \cup {None} /\ changed'[j] <= clock
    BY <1>2, <1>3 DEF TypeInv
  <2>4. QED
    BY <1>0, <1>2, <2>2, <2>3 DEF TypeInv
<1>5. CacheInv'
  <2>1. ASSUME NEW j \in Key
        PROVE  /\ cache[j].exp <= clock + TTL
               /\ cache[j].val # None =>
                      cache[j].val = db'[j] \/ cache[j].exp <= changed'[j] + Start
    <3>1. cache[j].exp <= clock + TTL /\ cache[j].exp \in Nat
      BY <1>2 DEF CacheInv, TypeInv
    <3>2. CASE j = k
      BY <1>2, <1>3, <3>1, <3>2 DEF Start
    <3>3. CASE j # k
      BY <1>2, <1>3, <3>3 DEF CacheInv
    <3>4. QED
      BY <3>2, <3>3
  <2>2. QED
    BY <1>0, <2>1 DEF CacheInv
<1>6. FleetInv'
  <2>1. fleet.exp <= clock + TTL /\ fleet.exp \in Nat /\ Complete(fleet.addrs, fleet.exp)
    BY <1>2 DEF FleetInv, TypeInv
  <2>2. fleet.exp <= clock + Start
    BY <1>2, <2>1 DEF Start
  <2>3. /\ (\A i \in Instance : changed'[i] + Start < fleet.exp) =>
               \A a \in fleet.addrs : \E i \in Instance : db'[i] = a
        /\ \A i \in Instance :
              db'[i] \in fleet.addrs \cup {None} \/ fleet.exp <= changed'[i] + Start
    BY <1>2, <2>1, <2>2, CompleteAfterChange
  <2>4. QED
    BY <1>0, <2>1, <2>3 DEF FleetInv, Complete, Registered, Lists, Reaches, Listening
<1>7. ASSUME NEW q \in Request PROVE RequestInv(req[q])'
  <2> DEFINE x == req[q]
  <2>1. x \in Progress /\ RequestInv(x) /\ req'[q] = x
    BY <1>0 DEF IInv, TypeInv
  <2>2. RouteInv(req[q])'
    <3>1. ASSUME x.pc \in {"resolve", "load", "store", "forward"}
          PROVE  x.from \in Key /\ x.begun \in Nat /\ x.begun <= clock
      BY <2>1, <3>1, ProgressFields DEF RequestInv
    <3>2. ASSUME x.pc \in {"resolve", "load", "store"}, Steady(x.from, x.begun)'
          PROVE  x.key \in PathOf(x.from)'
      BY <1>0, <1>2, <2>1, <3>1, <3>2, PathAfterChange DEF RequestInv, RouteInv
    <3>3. ASSUME x.pc = "forward", Steady(x.from, x.begun)'
          PROVE  \E j \in PathOf(x.from)' : db'[j] = x.addr
      BY <1>0, <1>2, <2>1, <3>1, <3>3, PathAfterChange DEF RequestInv, RouteInv
    <3>4. QED
      BY <2>1, <3>2, <3>3 DEF RouteInv
  <2>3. ReadInv(req[q])'
    <3>1. x.pc \in {"store", "list"} =>
              /\ x.begun <= x.at /\ x.at <= clock /\ clock <= x.at + MaxLoad /\ x.at \in Nat
      BY <2>1, ProgressFields DEF RequestInv, ReadInv
    <3>2. x.pc = "store" => x.val = db'[x.key] \/ x.at <= changed'[x.key]
      <4>1. x.pc = "store" => x.key \in Key /\ (x.val = db[x.key] \/ x.at <= changed[x.key])
        BY <2>1, ProgressFields DEF RequestInv, ReadInv
      <4>2. QED
        BY <1>3, <3>1, <4>1
    <3>3. ASSUME x.pc = "list" PROVE Complete(req[q].addrs, req[q].at + Start)'
      <4>1. Complete(x.addrs, x.at + Start) /\ x.at + Start \in Nat /\ x.at + Start <= clock + Start
        BY <1>2, <2>1, <3>1, <3>3 DEF RequestInv, ReadInv
      <4>2. /\ (\A i \in Instance : changed'[i] + Start < x.at + Start) =>
                   \A a \in x.addrs : \E i \in Instance : db'[i] = a
            /\ \A i \in Instance :
                  db'[i] \in x.addrs \cup {None} \/ x.at + Start <= changed'[i] + Start
        BY <1>2, <4>1, CompleteAfterChange
      <4>3. QED
        BY <2>1, <4>2 DEF Complete, Registered, Lists, Reaches, Listening
    <3>4. QED
      BY <1>0, <2>1, <3>1, <3>2, <3>3 DEF ReadInv
  <2>4. ListInv(req[q])'
    <3>1. ASSUME x.pc \in {"anyone", "install"} PROVE x.begun \in Nat /\ x.begun <= clock
      BY <2>1, <3>1, ProgressFields, InstallFields DEF RequestInv
    <3>2. ASSUME x.pc \in {"anyone", "install"}, NEW i \in Instance, Settled(i, x.begun)'
          PROVE  i # k /\ Settled(i, x.begun) /\ db'[i] = db[i]
      <4>1. changed'[i] + Start <= x.begun
        BY <2>1, <3>2 DEF Settled
      <4>2. i # k
        BY <1>2, <1>3, <3>1, <3>2, <4>1 DEF Start
      <4>3. QED
        BY <1>2, <1>3, <4>1, <4>2 DEF Settled
    <3>3. ASSUME x.pc = "anyone", \A i \in Instance : Settled(i, x.begun)'
          PROVE  \E i \in Instance : db'[i] = x.addr
      <4>1. \A i \in Instance : Settled(i, x.begun) /\ db'[i] = db[i]
        BY <3>2, <3>3
      <4>2. QED
        BY <2>1, <3>3, <4>1 DEF RequestInv, ListInv, Reaches, Listening
    <3>4. ASSUME x.pc = "install", NEW i \in Instance, db'[i] # None, Settled(i, x.begun)'
          PROVE  db'[i] \in DOMAIN x.out /\ (x.out[db'[i]] = "installed" => i \in installed)
      BY <2>1, <3>2, <3>4 DEF RequestInv, ListInv
    <3>5. QED
      BY <1>0, <2>1, <3>3, <3>4 DEF ListInv, Reaches, Listening
  <2>5. StreamInv(req[q])'
    BY <1>0, <2>1 DEF RequestInv, StreamInv
  <2>6. QED
    BY <1>0, <2>1, <2>2, <2>3, <2>4, <2>5 DEF RequestInv
<1>8. QED
  BY <1>4, <1>5, <1>6, <1>7 DEF IInv

-----------------------------------------------------------------------------
(* The invariant and what follows from it.                                 *)

LEMMA InitHolds ==
    ASSUME Init
    PROVE  IInv
<1>1. TTL \in Nat /\ MaxLoad \in Nat /\ Start \in Nat
  BY GatewayAssumption DEF Start
<1>2. TypeInv
  <2>1. req \in [Request -> Progress]
    BY ProgressMade DEF Init
  <2>2. cache \in [Key -> [val : Hop \cup {None}, exp : Nat]]
    BY DEF Init, NoEntry
  <2>3. fleet \in [addrs : SUBSET Address, exp : Nat] /\ changed \in [Key -> Nat]
    BY DEF Init
  <2>4. clock \in Nat /\ \A k \in Key : changed[k] <= clock
    BY <1>1 DEF Init
  <2>5. QED
    BY <2>1, <2>2, <2>3, <2>4 DEF Init, TypeInv, Hop
<1>3. CacheInv
  BY <1>1 DEF Init, CacheInv, NoEntry
<1>4. FleetInv
  <2>1. fleet.addrs = {} /\ fleet.exp = 0 /\ \A i \in Instance : changed[i] = 0
    BY DEF Init, Key
  <2>2. QED
    BY <1>1, <2>1 DEF Init, FleetInv, Complete, Registered, Lists
<1>5. \A r \in Request : RequestInv(req[r])
  <2>1. RequestInv(Idle)
    BY DEF RequestInv, RouteInv, ReadInv, ListInv, StreamInv, Idle
  <2>2. QED
    BY <2>1 DEF Init
<1>6. QED
  BY <1>2, <1>3, <1>4, <1>5 DEF IInv

LEMMA StutterHolds ==
    ASSUME IInv, UNCHANGED vars
    PROVE  IInv'
<1>0. UNCHANGED <<clock, db, changed, asks, cache, fleet, req, installed>>
  BY DEF vars
<1>1. TypeInv' /\ CacheInv' /\ FleetInv'
  BY <1>0 DEF IInv, TypeInv, CacheInv, FleetInv, Complete, Registered, Lists, Reaches, Listening
<1>2. ASSUME NEW q \in Request PROVE RequestInv(req[q])'
  <2>1. RequestInv(req[q]) /\ clock' \in Nat /\ clock <= clock'
    BY <1>0 DEF IInv, TypeInv
  <2>2. req[q].pc \in {"store", "list"} => clock' <= req[q].at + MaxLoad
    BY <1>0, <2>1 DEF RequestInv, ReadInv
  <2>3. req'[q] = req[q] /\ UNCHANGED <<db, changed, asks>> /\ installed \subseteq installed'
    BY <1>0
  <2>4. QED
    BY <2>1, <2>2, <2>3, RequestKept
<1>3. QED
  BY <1>1, <1>2 DEF IInv

LEMMA InvariantHolds == Spec => []IInv
<1>1. Init => IInv
  BY InitHolds
<1>2. IInv /\ [Next]_vars => IInv'
  <2> SUFFICES ASSUME IInv, [Next]_vars PROVE IInv'
    OBVIOUS
  <2>1. CASE Tick
    BY <2>1, TickStep
  <2>2. ASSUME NEW k \in Key, RowChanges(k) PROVE IInv'
    BY <2>2, RowChangesStep
  <2>3. ASSUME NEW a \in Address, Emits(a) PROVE IInv'
    BY <2>3, EmitsStep
  <2>4. ASSUME NEW r \in Request,
               \/ RouteToEntity(r) \/ RouteToPipeline(r) \/ RouteToInstance(r)
               \/ StreamOfPipeline(r)
        PROVE  IInv'
    <3>1. PICK k \in Key : Routed(r, k)
      BY <2>4 DEF RouteToEntity, RouteToPipeline, RouteToInstance, StreamOfPipeline, Key
    <3>2. QED
      BY <3>1, RoutedStep
  <2>5. ASSUME NEW r \in Request, LooksUp(r) \/ Loads(r) \/ Stores(r) PROVE IInv'
    BY <2>5, LooksUpStep, LoadsStep, StoresStep
  <2>6. ASSUME NEW r \in Request,
               LoadFails(r) \/ Forwards(r) \/ Returns(r) \/ StreamEnds(r)
        PROVE  IInv'
    <3>1. /\ req' = [req EXCEPT ![r] = Idle]
          /\ UNCHANGED <<clock, db, changed, asks, installed, cacheVars>>
      BY <2>6 DEF LoadFails, Forwards, Returns, StreamEnds, rowVars
    <3>2. QED
      BY <3>1, DoneStep
  <2>7. ASSUME NEW r \in Request, AskAny(r) \/ AskAnyAccount(r) \/ Proxied(r) \/ Stream(r)
        PROVE  IInv'
    <3>1. /\ Asks(r) /\ asks \in {"install", "any", "stream"}
          /\ UNCHANGED <<clock, rowVars, cacheVars, installed>>
      BY <2>7 DEF AskAny, AskAnyAccount, Proxied, Anyone, Stream, Begins
    <3>2. QED
      BY <3>1, AsksStep
  <2>8. ASSUME NEW r \in Request,
               Install(r) \/ UsesFleet(r) \/ ReadsFleet(r) \/ StoresFleet(r) \/ Answers(r)
        PROVE  IInv'
    BY <2>8, InstallStep, UsesFleetStep, ReadsFleetStep, StoresFleetStep, AnswersStep
  <2>9. ASSUME NEW r \in Request,
               \/ OpensPump(r) \/ Pumps(r) \/ OpensStream(r)
               \/ Relays(r) \/ BackendEnds(r) \/ SendsToClient(r)
        PROVE  IInv'
    BY <2>9, OpensPumpStep, PumpsStep, OpensStreamStep, RelaysStep, BackendEndsStep,
       SendsToClientStep
  <2>10. CASE UNCHANGED vars
    BY <2>10, StutterHolds
  <2>11. QED
    BY <2>1, <2>2, <2>3, <2>4, <2>5, <2>6, <2>7, <2>8, <2>9, <2>10 DEF Next
<1>3. QED
  BY <1>1, <1>2, PTL DEF Spec

\* The state is well typed: what an entry holds leads to a row or an address, and what
\* a channel holds is an update of a backend.
THEOREM TypeCorrect == Spec => []TypeInv
<1>1. IInv => TypeInv
  BY DEF IInv
<1>2. QED
  BY <1>1, InvariantHolds, PTL

\* resolver.go: a request is forwarded to the instance that owns what it is about, when
\* the rows that lead there have been left alone for the life of an entry and the time
\* of a read; one that any instance may serve goes to one that is registered, whatever
\* reads of the database overlap and in whatever order they are stored.
THEOREM RequestsReachTheOwner == Spec => []RoutesToOwner
<1>1. IInv => RoutesToOwner
  <2> SUFFICES ASSUME IInv, NEW r \in Request
               PROVE  /\ req[r].pc = "forward" =>
                            LET path == PathOf(req[r].from) IN
                            (\E k \in path : db[k] = None \/ ~Settled(k, req[r].begun))
                                \/ (\E k \in path : Listening(k, req[r].addr))
                      /\ req[r].pc = "anyone" =>
                            ((\A i \in Instance : Settled(i, req[r].begun)) => Reaches(req[r].addr))
    BY DEF RoutesToOwner
  <2>1. RouteInv(req[r]) /\ ListInv(req[r])
    BY DEF IInv, RequestInv
  <2>2. QED
    BY <2>1 DEF RouteInv, ListInv, Steady, Listening
<1>2. QED
  BY <1>1, InvariantHolds, PTL

\* gateway.go, fanoutInstall: an install that reports success has reached every instance
\* that had been registered at its address for that long when it began.
THEOREM InstallsCoverTheFleet == Spec => []InstallCoversFleet
<1>1. IInv => InstallCoversFleet
  <2> SUFFICES ASSUME IInv, NEW r \in Request, Succeeds(r), NEW i \in Instance, db[i] # None,
                      Settled(i, req[r].begun)
               PROVE  i \in installed
    BY DEF InstallCoversFleet
  <2>1. req[r].pc = "install" /\ req[r] \in Progress /\ ListInv(req[r])
    BY DEF Succeeds, IInv, TypeInv, RequestInv
  <2>2. db[i] \in DOMAIN req[r].out /\ (req[r].out[db[i]] = "installed" => i \in installed)
    BY <2>1 DEF ListInv
  <2>3. req[r].out[db[i]] \in Outcome
    BY <2>1, <2>2, InstallFields
  <2>4. req[r].out[db[i]] = "installed"
    BY <2>2, <2>3 DEF Succeeds, Failed, Outcome
  <2>5. QED
    BY <2>2, <2>4
<1>2. QED
  BY <1>1, InvariantHolds, PTL

\* fanoutStream and pumpStream: whatever is emitted, dropped, merged and sent, the
\* updates of an instance are under way in the order of their emission, and the newest
\* is among them unless the client has it or it found the handler's channel full.
THEOREM StreamsAreCurrent == Spec => []StreamIsCurrent
<1>1. IInv => StreamIsCurrent
  BY DEF IInv, RequestInv, StreamInv, StreamIsCurrent, Streaming, Conn
<1>2. QED
  BY <1>1, InvariantHolds, PTL

=============================================================================
