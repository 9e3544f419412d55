------------------------------ MODULE MCLibrary ------------------------------
(***************************************************************************)
(* The parts of the library, one at a time: merkelized objects and the     *)
(* message chain on two nodes, caches on two nodes, the registry of one    *)
(* node, or the lifecycle of two nodes of a process.                       *)
(***************************************************************************)
EXTENDS CoreObjects, CoreCaches, Registry, Lifecycle

VARIABLE part

libraryVars == <<kind, obj, stored, asked, listening, got, cacheKind, caches,
                order, objects, persisted, gone, node, loops, local, late, moved,
                muted, part>>

LibraryInit ==
    /\ CoreInit /\ CaInit /\ RgInit /\ LcInit
    /\ part \in {"core", "caches", "registry", "lifecycle"}
    /\ part # "core" => kind = "log"
    /\ part # "caches" => cacheKind = "cache"
    /\ part # "lifecycle" => node = [n \in Instances |-> [node[n] EXCEPT !.port = AnyPort]]

LibraryNext ==
    /\ UNCHANGED part
    /\ \/ part = "core" /\ CoreNext /\ UNCHANGED <<caVars, rgVars, lcVars>>
       \/ part = "caches" /\ CaNext /\ UNCHANGED <<coreVars, rgVars, lcVars>>
       \/ part = "registry" /\ RgNext /\ UNCHANGED <<coreVars, caVars, lcVars>>
       \/ part = "lifecycle" /\ LcNext /\ UNCHANGED <<coreVars, caVars, rgVars>>

LibrarySpec == LibraryInit /\ [][LibraryNext]_libraryVars

-----------------------------------------------------------------------------
\* One node asks, the other answers, resets, and adds digests to the objects
\* that have nothing else to show.  Balances hear of gossip alone.
OneAsks ==
    /\ asked["n2"] = <<>>
    /\ asked["n1"] = <<>> \/ kind # "balance"
    /\ OnlyMessages("n1")
    /\ OnlyMessages("n2") \/ kind \in {"merkelized", "transactions", "blockchain"}

\* One node is started once, and keeps local discovery and its first port.
OneRestarts ==
    part = "lifecycle" =>
        node["n2"].starts <= 1 /\ node["n2"].discovery /\ node["n2"].port = 1

\* A strict object, which does not know what it has, takes three messages.
StrictTakesThree ==
    \A i \in DOMAIN objects : Len(objects[i].messages) <= 3

Content(name) ==
    [hash |-> name, name |-> name, hasParents |-> FALSE, parents |-> {},
     previous |-> "", action |-> "none", on |-> "", to |-> "", amount |-> 0]

After(name, previous) == [Content(name) EXCEPT !.previous = previous]

On(name, parents) ==
    [Content(name) EXCEPT !.hasParents = TRUE, !.parents = parents]

Does(name, action, on, to, amount) ==
    [Content(name) EXCEPT !.action = action, !.on = on, !.to = to, !.amount = amount]

\* m1 is published twice; a DAG forks and joins, and has a node that nobody
\* checked; a chain starts twice; an output is added twice and spent.
MCMessages ==
    [k \in CoreKinds |->
        CASE k \in {"merkelized", "transactions", "log"} ->
                {Content("m1"), [Content("m1") EXCEPT !.hash = "m1 again"],
                 After("m2", "m1")}
          [] k = "dag" ->
                {On("a", {}), On("b", {"a"}), On("c", {"a"}), On("d", {"b", "c"}),
                 On("r", {}), After("e", "a")}
          [] k = "blockchain" ->
                {Content("g1"), Content("g2"), After("b1", "g1"), After("b2", "b1")}
          [] k = "utxo" ->
                {Does("add u", "add", "u", "", 1), Does("add u more", "add", "u", "", 2),
                 Does("spend u", "spend", "u", "", 0), Does("add w", "add", "w", "", 1)}
          [] k = "balance" ->
                {Does("credit a", "credit", "a", "a", 6), Does("debit b", "debit", "b", "b", 1),
                 Does("a to b", "transfer", "a", "b", 1),
                 Does("b to a", "transfer", "b", "a", -1), Does("a to a", "transfer", "a", "a", 4)}]

\* Floats of three bits after the first: 9 is none, and 10 is infinite.
MCFloats == -8 .. 8 \cup {10, -10}

MCCaMessages ==
    {[kind |-> "put", key |-> "k1", value |-> "v1", copy |-> 1],
     [kind |-> "put", key |-> "k1", value |-> "v2", copy |-> 1],
     [kind |-> "delete", key |-> "k1", value |-> "v1", copy |-> 1],
     [kind |-> "remove", key |-> "k1", value |-> "v1", copy |-> 1],
     [kind |-> "put", key |-> "k2", value |-> "v1", copy |-> 1]}

\* Two messages with one datum, and one that a strict object refuses.
Integer(hash, data) == [hash |-> hash, data |-> data]
MCRgMessages == {Integer("x", 1), Integer("y", 1), Integer("z", 2)}
MCRefused == {Integer("z", 2)}
MCKindOf == [i \in ObjectIds |->
                CASE i = "i1" -> "number" [] i = "i2" -> "strict" [] OTHER -> "log"]
=============================================================================
