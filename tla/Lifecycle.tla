------------------------------ MODULE Lifecycle ------------------------------
(***************************************************************************)
(* start, stop and close of ChaincraftNode, the two tasks that a start     *)
(* spawns, and the registry of nodes of the process, LOCAL_NODES.  Calls   *)
(* take &mut self, so a node has one at a time, while its tasks and other  *)
(* nodes go on; the tasks share the running flag with the node and have    *)
(* the socket for themselves.  A socket is closed when neither the node    *)
(* nor a task has it.  What a task does with a datagram or in a round is   *)
(* in NodeGossip and PeerAdmin; a storage that fails to open or to load    *)
(* makes start return before it changes anything.                          *)
(***************************************************************************)
EXTENDS Naturals, FiniteSets

CONSTANTS
    Instances,       \* node objects of the process
    Ports,
    AnyPort,         \* port 0: the system chooses one
    NoPort,
    MaxStarts        \* starts of one instance

VARIABLES
    node,            \* node[n]: the object, and the call that it is in
    loops,           \* the spawned tasks that have not ended
    local,           \* LOCAL_NODES: the port that an instance is registered with
    late,            \* late[n]: datagrams handled since stop lowered the flag
    moved,           \* instances whose port was set after a start
    muted            \* instances that gave up local discovery after a start

lcVars == <<node, loops, local, late, moved, muted>>

ASSUME LcAssumption == /\ {AnyPort, NoPort} \cap Ports = {} /\ AnyPort # NoPort
                       /\ MaxStarts \in Nat

Loop == [of : Instances, run : 1 .. MaxStarts, kind : {"receive", "gossip"},
         at : {"check", "wait"}, port : Ports]

LcInit ==
    /\ node \in [Instances ->
                    [running : {FALSE}, socket : {NoPort}, port : Ports \cup {AnyPort},
                     discovery : {TRUE}, call : {"none"}, starts : {0}]]
    /\ loops = {}
    /\ local = [n \in {} |-> AnyPort]
    /\ late = [n \in Instances |-> 0]
    /\ moved = {}
    /\ muted = {}

-----------------------------------------------------------------------------
Held(p) == \/ \E n \in Instances : node[n].socket = p
           \/ \E l \in loops : l.port = p

InCall(n, call) == node[n].call = call

\* start raises the flag before it binds.
Start(n) ==
    /\ InCall(n, "none")
    /\ node[n].starts < MaxStarts
    /\ node' = [node EXCEPT ![n] = [node[n] EXCEPT !.running = TRUE, !.call = "starting",
                                                   !.starts = node[n].starts + 1]]
    /\ late' = [late EXCEPT ![n] = 0]
    /\ UNCHANGED <<loops, local, moved, muted>>

\* Mutant: a node may share a port with itself.
BindSharesPort(n, p) ==
    /\ InCall(n, "starting")
    /\ node[n].port \in {AnyPort, p}
    /\ \A m \in Instances \ {n} : node[m].socket # p
    /\ node' = [node EXCEPT ![n] = [node[n] EXCEPT !.socket = p, !.port = p,
                                                   !.call = "none"]]
    /\ loops' = loops \cup {[of |-> n, run |-> node[n].starts, kind |-> k,
                             at |-> "check", port |-> p] : k \in {"receive", "gossip"}}
    /\ UNCHANGED <<local, late, moved, muted>>

\* The port that was chosen stays in the configuration; registering and
\* spawning follow without an await.
Bind(n, p) ==
    /\ InCall(n, "starting")
    /\ node[n].port \in {AnyPort, p}
    /\ ~Held(p)
    /\ node' = [node EXCEPT ![n] = [node[n] EXCEPT !.socket = p, !.port = p,
                                                   !.call = "none"]]
    /\ local' = IF node[n].discovery
                THEN [m \in DOMAIN local \cup {n} |-> IF m = n THEN p ELSE local[m]]
                ELSE local
    /\ loops' = loops \cup {[of |-> n, run |-> node[n].starts, kind |-> k,
                             at |-> "check", port |-> p] : k \in {"receive", "gossip"}}
    /\ UNCHANGED <<late, moved, muted>>

\* The port is in use, if only by the socket of an earlier start: start returns
\* an error, and the flag stays up.
BindFails(n) ==
    /\ InCall(n, "starting")
    /\ \A p \in Ports : node[n].port \in {AnyPort, p} => Held(p)
    /\ node' = [node EXCEPT ![n].call = "none"]
    /\ UNCHANGED <<loops, local, late, moved, muted>>

\* stop, close: the flag, and then the registry.
Stop(n) ==
    /\ InCall(n, "none")
    /\ node' = [node EXCEPT ![n] = [node[n] EXCEPT !.running = FALSE,
                    !.call = IF node[n].discovery THEN "stopping" ELSE "none"]]
    /\ UNCHANGED <<loops, local, late, moved, muted>>

Unregister(n) ==
    /\ InCall(n, "stopping")
    /\ node' = [node EXCEPT ![n].call = "none"]
    /\ local' = [m \in DOMAIN local \ {n} |-> local[m]]
    /\ UNCHANGED <<loops, late, moved, muted>>

SetPort(n, p) ==
    /\ InCall(n, "none")
    /\ node' = [node EXCEPT ![n].port = p]
    /\ moved' = IF node[n].starts > 0 THEN moved \cup {n} ELSE moved
    /\ UNCHANGED <<loops, local, late, muted>>

DisableLocalDiscovery(n) ==
    /\ InCall(n, "none")
    /\ node' = [node EXCEPT ![n].discovery = FALSE]
    /\ muted' = IF node[n].starts > 0 THEN muted \cup {n} ELSE muted
    /\ UNCHANGED <<loops, local, late, moved>>

ClearLocalRegistry ==
    /\ local # [n \in {} |-> AnyPort]
    /\ local' = [n \in {} |-> AnyPort]
    /\ UNCHANGED <<node, loops, late, moved, muted>>

\* The application drops the object, stopped or not: no code runs.
DropNode(n) ==
    /\ InCall(n, "none")
    /\ node' = [node EXCEPT ![n] = [node[n] EXCEPT !.socket = NoPort, !.call = "dropped"]]
    /\ UNCHANGED <<loops, local, late, moved, muted>>

-----------------------------------------------------------------------------
Moves(l, at) == loops' = (loops \ {l}) \cup {[l EXCEPT !.at = at]}
Exits(l) == loops' = loops \ {l}

\* A task reads the flag at the head of its loop.
Check(l) ==
    /\ l.at = "check"
    /\ IF node[l.of].running THEN Moves(l, "wait") ELSE Exits(l)
    /\ UNCHANGED <<node, local, late, moved, muted>>

\* A datagram comes, and is handled whatever the flag says by now.
Datagram(l) ==
    /\ l.kind = "receive" /\ l.at = "wait"
    /\ Moves(l, "check")
    /\ late' = IF node[l.of].running THEN late ELSE [late EXCEPT ![l.of] = @ + 1]
    /\ UNCHANGED <<node, local, moved, muted>>

RecvError(l) ==
    /\ l.kind = "receive" /\ l.at = "wait"
    /\ IF node[l.of].running THEN Moves(l, "check") ELSE Exits(l)
    /\ UNCHANGED <<node, local, late, moved, muted>>

\* The interval of the gossip loop is over.
Wake(l) ==
    /\ l.kind = "gossip" /\ l.at = "wait"
    /\ Moves(l, "check")
    /\ UNCHANGED <<node, local, late, moved, muted>>

LcNext ==
    \/ \E n \in Instances :
          \/ Start(n) \/ BindFails(n) \/ Stop(n) \/ Unregister(n)
          \/ DisableLocalDiscovery(n) \/ DropNode(n)
          \/ \E p \in Ports : Bind(n, p) \/ SetPort(n, p)
    \/ ClearLocalRegistry
    \/ \E l \in loops : Check(l) \/ Datagram(l) \/ RecvError(l) \/ Wake(l)

LcSpec == LcInit /\ [][LcNext]_lcVars

\* The runtime runs a task that can run and the timer rings.  Nothing makes a
\* datagram come.
LcFairness ==
    /\ \A l \in Loop : WF_lcVars(l \in loops /\ (Check(l) \/ Wake(l)))
    /\ \A n \in Instances :
          WF_lcVars(Unregister(n) \/ BindFails(n) \/ \E p \in Ports : Bind(n, p))

LcFairSpec == LcSpec /\ LcFairness

-----------------------------------------------------------------------------
LoopsOf(n, kind) == {l \in loops : l.of = n /\ l.kind = kind}

\* What the fields hold; ports in use are ports that the system gave.
LcTypeOK ==
    /\ node \in [Instances ->
                    [running : BOOLEAN, socket : Ports \cup {NoPort},
                     port : Ports \cup {AnyPort}, discovery : BOOLEAN,
                     call : {"none", "starting", "stopping", "dropped"},
                     starts : 0 .. MaxStarts]]
    /\ loops \subseteq Loop
    /\ \A n \in DOMAIN local : n \in Instances /\ local[n] \in Ports
    /\ late \in [Instances -> Nat]

\* However often a node is started and stopped, and however fast, it has one
\* receive loop and one gossip loop, unless its port was set in between: a
\* start finds the port in use as long as an earlier socket is there.
LcOneLoopEach ==
    \A n \in Instances \ moved :
        Cardinality(LoopsOf(n, "receive")) <= 1 /\ Cardinality(LoopsOf(n, "gossip")) <= 1

\* A receive loop handles at most one datagram after stop.
LcOneMoreDatagram ==
    \A n \in Instances \ moved :
        ~node[n].running =>
            late[n] + Cardinality({l \in LoopsOf(n, "receive") : l.at = "wait"}) <= 1

\* Other nodes of the process find in the registry a node that runs, or that is
\* about to leave the registry, at an address that it has bound: no start that
\* fails and no stop leaves an entry behind, unless the node gave up local
\* discovery before it was stopped.
LcRegisteredIsBound ==
    \A n \in DOMAIN local : n \notin muted =>
        /\ node[n].running \/ InCall(n, "stopping")
        /\ node[n].socket = local[n] \/ \E l \in loops : l.of = n /\ l.port = local[n]

\* Tasks, sockets and the registry of the process follow start, stop and drop.
LcInv == LcTypeOK /\ LcOneLoopEach /\ LcOneMoreDatagram /\ LcRegisteredIsBound

\* "Socket tasks observe the running flag and exit gracefully": a node that is
\* stopped for good is left by its tasks.
LcTasksExit ==
    \A n \in Instances :
        <>[](~node[n].running) => <>[](\A l \in loops : l.of # n)
=============================================================================
