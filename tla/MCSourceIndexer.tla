-------------------------- MODULE MCSourceIndexer --------------------------
(***************************************************************************)
(* A small chain for SourceIndexer: windows of two blocks, one of them     *)
(* short at the head, a block with two logs, an address deployed twice and *)
(* a nested factory.  A pool counts from a fee of 10 on: as strings, "9"   *)
(* is the greater of the two.                                              *)
(***************************************************************************)
EXTENDS SourceIndexer, TLC

L(b, i, e, as) == [block |-> b, index |-> i, event |-> e, args |-> as]

MCLog ==
    {L(1, 0, "Created", "pool" :> "0xa" @@ "fee" :> "9"),
     L(2, 0, "Created", "pool" :> "0xa" @@ "fee" :> "10"),
     L(3, 0, "Swap", "pool" :> "0xa" @@ "fee" :> "10"),
     L(3, 1, "Created", "hub" :> "0xb" @@ "fee" :> "10"),
     L(5, 0, "Created", "hub" :> "0xb" @@ "pool" :> "0xa" @@ "fee" :> "10"),
     L(6, 0, "Swap", "fee" :> "9")}
MCAddr == {"0xa", "0xb"}
MCRule ==
    {[id |-> 1, event |-> "Created", addressArg |-> "pool", childType |-> "CONTRACT",
      conditions |-> {[arg |-> "fee", operator |-> "gt", value |-> "9"]}],
     [id |-> 2, event |-> "Created", addressArg |-> "hub", childType |-> "FACTORY",
      conditions |-> {[arg |-> "pool", operator |-> "neq", value |-> "10"]}]}
MCNumberOf == "9" :> 9 @@ "10" :> 10
MCTextOrder == "" :> 0 @@ "0xa" :> 1 @@ "0xb" :> 2 @@ "10" :> 3 @@ "9" :> 4
MCContains == {<<v, v>> : v \in DOMAIN MCTextOrder} \cup {<<v, "">> : v \in DOMAIN MCTextOrder}

=============================================================================
