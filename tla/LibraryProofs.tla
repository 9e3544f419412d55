---------------------------- MODULE LibraryProofs ----------------------------
(***************************************************************************)
(* Proofs about the parts of the library: the lifecycle of the nodes of a  *)
(* process, the registry of the objects of a node, the caches, and the     *)
(* merkelized objects.                                                     *)
(***************************************************************************)
EXTENDS CoreObjects, CoreCaches, Registry, Lifecycle, SumsProofs, SequenceTheorems

-----------------------------------------------------------------------------
(* Lifecycle *)

\* The tasks of a node are those of a start, and have the socket of its port
\* as long as nobody sets the port anew.
LoopsBound ==
    \A l \in loops :
        /\ node[l.of].starts > 0
        /\ l.of \notin moved => l.port = node[l.of].port

\* A start finds the port in use as long as a task of an earlier start is there.
LoopsAlone ==
    \A l, m \in loops :
        l.of \notin moved /\ l.of = m.of /\ l.kind = m.kind => l = m

\* What a stop leaves: one receive loop that may take one datagram more.
LateOnce ==
    \A n \in Instances :
        /\ node[n].running => late[n] = 0
        /\ n \notin moved =>
              late[n] <= 1 /\ (late[n] = 1 => \A l \in LoopsOf(n, "receive") : l.at # "wait")

\* A node is in the registry from a bind to the stop that follows.
Registered ==
    \A n \in DOMAIN local : n \notin muted =>
        /\ node[n].discovery /\ node[n].starts > 0
        /\ \/ /\ node[n].running
              /\ ~InCall(n, "stopping")
              /\ node[n].socket = local[n] \/ InCall(n, "dropped")
              /\ \E l \in loops : l.of = n /\ l.port = local[n]
           \/ InCall(n, "stopping") /\ node[n].socket = local[n]

\* A start raises the flag first.
StartingRuns ==
    \A n \in Instances :
        InCall(n, "starting") => node[n].running /\ node[n].starts > 0

LcIInv ==
    LcTypeOK /\ LoopsBound /\ LoopsAlone /\ LateOnce /\ Registered /\ StartingRuns

\* The object of a node, as its fields are typed.
NodeType == [running : BOOLEAN, socket : Ports \cup {NoPort},
             port : Ports \cup {AnyPort}, discovery : BOOLEAN,
             call : {"none", "starting", "stopping", "dropped"},
             starts : 0 .. MaxStarts]

LEMMA LcInitInv == LcInit => LcIInv
<1> SUFFICES ASSUME LcInit PROVE LcIInv
    OBVIOUS
<1>1. /\ loops = {} /\ DOMAIN local = {} /\ moved = {}
      /\ late = [n \in Instances |-> 0]
      /\ \A n \in Instances : node[n].call = "none"
      BY DEF LcInit
<1>2. LcTypeOK
  <2>1. ASSUME NEW n \in Instances
        PROVE  node[n] \in NodeType
    <3>1. node[n] \in [running : {FALSE}, socket : {NoPort}, port : Ports \cup {AnyPort},
                       discovery : {TRUE}, call : {"none"}, starts : {0}]
          BY DEF LcInit
    <3>2. 0 \in 0 .. MaxStarts
          BY LcAssumption
    <3> QED BY <3>1, <3>2 DEF NodeType
  <2>2. node \in [Instances -> NodeType]
        BY <2>1 DEF LcInit
  <2> QED BY <1>1, <2>2 DEF LcTypeOK, NodeType
<1> QED BY <1>1, <1>2 DEF LcIInv, LoopsBound, LoopsAlone, LateOnce, Registered,
           StartingRuns, LoopsOf, InCall

\* A step of the object n alone: its tasks go on.
LEMMA NodeSteps ==
    ASSUME LcIInv, NEW n \in Instances, NEW o \in NodeType,
           node' = [node EXCEPT ![n] = o], loops' = loops,
           local' \in {local, [m \in DOMAIN local \ {n} |-> local[m]]},
           late' \in {late, [late EXCEPT ![n] = 0]}, moved \subseteq moved',
           muted \subseteq muted',
           o.starts >= node[n].starts,
           o.port # node[n].port => n \in moved' \/ node[n].starts = 0,
           o.running => late'[n] = 0,
           o.call = "starting" => o.running /\ o.starts > 0,
           n \in DOMAIN local' /\ n \notin muted' /\ n \notin muted =>
              /\ o.discovery
              /\ \/ /\ o.running /\ o.call # "stopping"
                    /\ o.socket = local[n] \/ o.call = "dropped"
                    /\ node[n].running /\ ~InCall(n, "stopping")
                 \/ o.call = "stopping" /\ o.socket = local[n]
    PROVE  LcIInv'
<1>1. /\ node \in [Instances -> NodeType] /\ loops \subseteq Loop
      /\ \A m \in DOMAIN local : m \in Instances /\ local[m] \in Ports
      /\ late \in [Instances -> Nat]
      BY DEF LcIInv, LcTypeOK, NodeType
<1>2. /\ node' \in [Instances -> NodeType] /\ node'[n] = o
      /\ \A m \in Instances : m # n => node'[m] = node[m]
      BY <1>1
<1>3. /\ DOMAIN local' \subseteq DOMAIN local
      /\ \A m \in DOMAIN local' : local'[m] = local[m]
      /\ \A m \in Instances : m # n /\ m \in DOMAIN local' => m \in DOMAIN local
      OBVIOUS
<1>4. /\ late' \in [Instances -> Nat]
      /\ \A m \in Instances : late'[m] = late[m] \/ (m = n /\ late'[m] = 0)
      BY <1>1
<1>5. \A l \in loops : l.of \in Instances
      BY <1>1 DEF Loop
<1>6. LcTypeOK'
      BY <1>1, <1>2, <1>3, <1>4 DEF LcTypeOK, NodeType
<1>7. LoopsBound'
  <2> SUFFICES ASSUME NEW l \in loops
               PROVE  /\ node'[l.of].starts > 0
                      /\ l.of \notin moved' => l.port = node'[l.of].port
      BY DEF LoopsBound
  <2>1. /\ node[l.of].starts > 0 /\ l.of \in Instances
        /\ l.of \notin moved => l.port = node[l.of].port
        BY <1>5 DEF LcIInv, LoopsBound
  <2>2. o.starts \in Nat /\ node[n].starts \in Nat
        BY <1>1 DEF NodeType
  <2> QED BY <2>1, <2>2, <1>2
<1>8. LoopsAlone'
      BY DEF LcIInv, LoopsAlone
<1>9. LateOnce'
  <2> SUFFICES ASSUME NEW m \in Instances
               PROVE  /\ node'[m].running => late'[m] = 0
                      /\ m \notin moved' =>
                            /\ late'[m] <= 1
                            /\ late'[m] = 1 =>
                                  \A l \in LoopsOf(m, "receive") : l.at # "wait"
      BY DEF LateOnce, LoopsOf
  <2>1. /\ node[m].running => late[m] = 0
        /\ m \notin moved =>
              /\ late[m] <= 1
              /\ late[m] = 1 => \A l \in LoopsOf(m, "receive") : l.at # "wait"
        BY DEF LcIInv, LateOnce
  <2> QED BY <2>1, <1>2, <1>4
<1>10. Registered'
  <2> SUFFICES ASSUME NEW m \in DOMAIN local', m \notin muted'
               PROVE  /\ node'[m].discovery /\ node'[m].starts > 0
                      /\ \/ /\ node'[m].running /\ node'[m].call # "stopping"
                            /\ node'[m].socket = local'[m] \/ node'[m].call = "dropped"
                            /\ \E l \in loops : l.of = m /\ l.port = local'[m]
                         \/ node'[m].call = "stopping" /\ node'[m].socket = local'[m]
      BY DEF Registered, InCall
  <2>1. /\ m \in DOMAIN local /\ m \in Instances /\ local'[m] = local[m]
        /\ m \notin muted
        BY <1>1, <1>3
  <2>2. /\ node[m].discovery /\ node[m].starts > 0
        /\ \/ /\ node[m].running /\ node[m].call # "stopping"
              /\ node[m].socket = local[m] \/ node[m].call = "dropped"
              /\ \E l \in loops : l.of = m /\ l.port = local[m]
           \/ node[m].call = "stopping" /\ node[m].socket = local[m]
        BY <2>1 DEF LcIInv, Registered, InCall
  <2>3. CASE m # n
        BY <2>1, <2>2, <2>3, <1>2
  <2>4. CASE m = n
    <3>1. o.starts > 0
      <4>1. o.starts \in Nat /\ node[n].starts \in Nat
            BY <1>1 DEF NodeType
      <4> QED BY <4>1, <2>2, <2>4
    <3> QED BY <3>1, <2>1, <2>2, <2>4, <1>2 DEF InCall
  <2> QED BY <2>3, <2>4
<1>11. StartingRuns'
       BY <1>2 DEF LcIInv, StartingRuns, InCall
<1> QED BY <1>6, <1>7, <1>8, <1>9, <1>10, <1>11 DEF LcIInv

\* The steps of start, stop, close, set_port and disable_local_discovery.
LEMMA NodeActions ==
    ASSUME LcIInv, NEW n \in Instances,
           \/ Start(n) \/ BindFails(n) \/ Stop(n) \/ Unregister(n)
           \/ DisableLocalDiscovery(n) \/ DropNode(n)
           \/ \E p \in Ports : SetPort(n, p)
    PROVE  LcIInv'
<1> DEFINE o == node[n]
<1>1. /\ o \in NodeType /\ o.starts \in Nat /\ MaxStarts \in Nat
      /\ node \in [Instances -> NodeType]
      BY LcAssumption DEF LcIInv, LcTypeOK, NodeType
<1>2. /\ o.running => late[n] = 0
      /\ late \in [Instances -> Nat]
      /\ o.call = "starting" => o.running /\ o.starts > 0
      /\ n \in DOMAIN local /\ n \notin muted =>
            /\ o.discovery /\ o.starts > 0
            /\ \/ /\ o.running /\ o.call # "stopping"
                  /\ o.socket = local[n] \/ o.call = "dropped"
               \/ o.call = "stopping" /\ o.socket = local[n]
      BY DEF LcIInv, LcTypeOK, LateOnce, Registered, StartingRuns, InCall
<1>3. CASE Start(n)
  <2> DEFINE a == [o EXCEPT !.running = TRUE]
             b == [a EXCEPT !.call = "starting"]
             s == [b EXCEPT !.starts = o.starts + 1]
  <2>0. node' = [node EXCEPT ![n] = s] /\ o.starts + 1 \in 0 .. MaxStarts
        BY <1>1, <1>3 DEF Start
  <2>4. /\ a \in NodeType /\ a.port = o.port /\ a.running
        /\ a.discovery = o.discovery /\ a.socket = o.socket
        BY <1>1 DEF NodeType
  <2> HIDE DEF a
  <2>5. /\ b \in NodeType /\ b.port = o.port /\ b.running /\ b.call = "starting"
        /\ b.discovery = o.discovery /\ b.socket = o.socket
        BY <2>4 DEF NodeType
  <2> HIDE DEF b
  <2>1. /\ node' = [node EXCEPT ![n] = s] /\ s \in NodeType
        /\ s.starts >= o.starts /\ s.starts > 0 /\ s.port = o.port
        /\ s.running /\ s.call = "starting"
        /\ s.discovery = o.discovery /\ s.socket = o.socket
        BY <1>1, <2>0, <2>5 DEF NodeType
  <2>2. o.call = "none" /\ o.starts < MaxStarts /\ loops' = loops
        /\ local' = local /\ late' = [late EXCEPT ![n] = 0] /\ moved' = moved
        /\ muted' = muted
        BY <1>3 DEF Start, InCall
  <2>3. late'[n] = 0
        BY <1>2, <2>2
  <2> HIDE DEF s
  <2>9. n \in DOMAIN local' /\ n \notin muted' /\ n \notin muted =>
            /\ s.discovery
            /\ \/ /\ s.running /\ s.call # "stopping"
                  /\ s.socket = local[n] \/ s.call = "dropped"
                  /\ node[n].running /\ ~InCall(n, "stopping")
               \/ s.call = "stopping" /\ s.socket = local[n]
        BY <1>2, <2>1, <2>2 DEF InCall
  <2>10. /\ local' \in {local, [m \in DOMAIN local \ {n} |-> local[m]]}
         /\ late' \in {late, [late EXCEPT ![n] = 0]} /\ loops' = loops
         /\ moved \subseteq moved' /\ muted \subseteq muted'
         /\ s.starts >= node[n].starts
         /\ s.port # node[n].port => n \in moved' \/ node[n].starts = 0
         /\ s.running => late'[n] = 0
         /\ s.call = "starting" => s.running /\ s.starts > 0
         BY <1>1, <1>2, <2>1, <2>2, <2>3
  <2> QED BY <2>1, <2>9, <2>10, NodeSteps
<1>4. CASE BindFails(n) \/ Unregister(n)
  <2> DEFINE s == [o EXCEPT !.call = "none"]
  <2>1. /\ node' = [node EXCEPT ![n] = s] /\ s \in NodeType
        /\ s.starts = o.starts /\ s.port = o.port /\ s.running = o.running
        /\ s.discovery = o.discovery /\ s.call = "none" /\ s.socket = o.socket
        BY <1>1, <1>4 DEF BindFails, Unregister, NodeType
  <2>2. /\ loops' = loops /\ late' = late /\ moved' = moved /\ muted' = muted
        /\ \/ o.call = "starting" /\ local' = local
           \/ local' = [m \in DOMAIN local \ {n} |-> local[m]]
        BY <1>4 DEF BindFails, Unregister, InCall
  <2> HIDE DEF s
  <2>9. n \in DOMAIN local' /\ n \notin muted' /\ n \notin muted =>
            /\ s.discovery
            /\ \/ /\ s.running /\ s.call # "stopping"
                  /\ s.socket = local[n] \/ s.call = "dropped"
                  /\ node[n].running /\ ~InCall(n, "stopping")
               \/ s.call = "stopping" /\ s.socket = local[n]
        BY <1>2, <2>1, <2>2 DEF InCall
  <2>10. /\ local' \in {local, [m \in DOMAIN local \ {n} |-> local[m]]}
         /\ late' \in {late, [late EXCEPT ![n] = 0]} /\ loops' = loops
         /\ moved \subseteq moved' /\ muted \subseteq muted'
         /\ s.starts >= node[n].starts
         /\ s.port # node[n].port => n \in moved' \/ node[n].starts = 0
         /\ s.running => late'[n] = 0
         /\ s.call = "starting" => s.running /\ s.starts > 0
         BY <1>1, <1>2, <2>1, <2>2
  <2> QED BY <2>1, <2>9, <2>10, NodeSteps
<1>5. CASE Stop(n)
  <2> DEFINE call == IF o.discovery THEN "stopping" ELSE "none"
             a == [o EXCEPT !.running = FALSE]
             s == [a EXCEPT !.call = call]
  <2>0. /\ node' = [node EXCEPT ![n] = s] /\ call \in {"none", "stopping"}
        /\ o.discovery => call = "stopping"
        BY <1>5 DEF Stop
  <2> HIDE DEF call
  <2>3. /\ a \in NodeType /\ a.starts = o.starts /\ a.port = o.port
        /\ a.running = FALSE /\ a.discovery = o.discovery /\ a.socket = o.socket
        BY <1>1 DEF NodeType
  <2> HIDE DEF a
  <2>1. /\ node' = [node EXCEPT ![n] = s] /\ s \in NodeType
        /\ s.starts = o.starts /\ s.port = o.port /\ ~s.running
        /\ s.discovery = o.discovery /\ s.socket = o.socket
        /\ s.call \in {"none", "stopping"} /\ (s.discovery => s.call = "stopping")
        BY <2>0, <2>3 DEF NodeType
  <2>2. o.call = "none" /\ loops' = loops /\ local' = local /\ late' = late
        /\ moved' = moved /\ muted' = muted
        BY <1>5 DEF Stop, InCall
  <2>9. n \in DOMAIN local' /\ n \notin muted' /\ n \notin muted =>
            /\ s.discovery
            /\ \/ /\ s.running /\ s.call # "stopping"
                  /\ s.socket = local[n] \/ s.call = "dropped"
                  /\ node[n].running /\ ~InCall(n, "stopping")
               \/ s.call = "stopping" /\ s.socket = local[n]
        BY <1>2, <2>1, <2>2 DEF InCall
  <2>10. /\ local' \in {local, [m \in DOMAIN local \ {n} |-> local[m]]}
         /\ late' \in {late, [late EXCEPT ![n] = 0]} /\ loops' = loops
         /\ moved \subseteq moved' /\ muted \subseteq muted'
         /\ s.starts >= node[n].starts
         /\ s.port # node[n].port => n \in moved' \/ node[n].starts = 0
         /\ s.running => late'[n] = 0
         /\ s.call = "starting" => s.running /\ s.starts > 0
         BY <1>1, <1>2, <2>1, <2>2
  <2> HIDE DEF s
  <2> QED BY <2>1, <2>9, <2>10, NodeSteps
<1>6. CASE DisableLocalDiscovery(n)
  <2> DEFINE s == [o EXCEPT !.discovery = FALSE]
  <2>1. /\ node' = [node EXCEPT ![n] = s] /\ s \in NodeType
        /\ s.starts = o.starts /\ s.port = o.port /\ s.running = o.running
        /\ s.call = o.call /\ s.socket = o.socket
        BY <1>1, <1>6 DEF DisableLocalDiscovery, NodeType
  <2>2. o.call = "none" /\ loops' = loops /\ local' = local /\ late' = late
        /\ moved' = moved
        /\ muted' = IF o.starts > 0 THEN muted \cup {n} ELSE muted
        BY <1>6 DEF DisableLocalDiscovery, InCall
  <2>3. n \in DOMAIN local /\ n \notin muted => n \in muted'
        BY <1>2, <2>2
  <2> HIDE DEF s
  <2>9. n \in DOMAIN local' /\ n \notin muted' /\ n \notin muted =>
            /\ s.discovery
            /\ \/ /\ s.running /\ s.call # "stopping"
                  /\ s.socket = local[n] \/ s.call = "dropped"
                  /\ node[n].running /\ ~InCall(n, "stopping")
               \/ s.call = "stopping" /\ s.socket = local[n]
        BY <1>2, <2>1, <2>2, <2>3 DEF InCall
  <2>10. /\ local' \in {local, [m \in DOMAIN local \ {n} |-> local[m]]}
         /\ late' \in {late, [late EXCEPT ![n] = 0]} /\ loops' = loops
         /\ moved \subseteq moved' /\ muted \subseteq muted'
         /\ s.starts >= node[n].starts
         /\ s.port # node[n].port => n \in moved' \/ node[n].starts = 0
         /\ s.running => late'[n] = 0
         /\ s.call = "starting" => s.running /\ s.starts > 0
         BY <1>1, <1>2, <2>1, <2>2, <2>3
  <2> QED BY <2>1, <2>9, <2>10, NodeSteps
<1>7. CASE DropNode(n)
  <2> DEFINE a == [o EXCEPT !.socket = NoPort]
             s == [a EXCEPT !.call = "dropped"]
  <2>0. node' = [node EXCEPT ![n] = s]
        BY <1>7 DEF DropNode
  <2>3. /\ a \in NodeType /\ a.starts = o.starts /\ a.port = o.port
        /\ a.running = o.running /\ a.discovery = o.discovery
        BY <1>1 DEF NodeType
  <2> HIDE DEF a
  <2>1. /\ node' = [node EXCEPT ![n] = s] /\ s \in NodeType
        /\ s.starts = o.starts /\ s.port = o.port /\ s.running = o.running
        /\ s.discovery = o.discovery /\ s.call = "dropped"
        BY <2>0, <2>3 DEF NodeType
  <2>2. o.call = "none" /\ loops' = loops /\ local' = local /\ late' = late
        /\ moved' = moved /\ muted' = muted
        BY <1>7 DEF DropNode, InCall
  <2>9. n \in DOMAIN local' /\ n \notin muted' /\ n \notin muted =>
            /\ s.discovery
            /\ \/ /\ s.running /\ s.call # "stopping"
                  /\ s.socket = local[n] \/ s.call = "dropped"
                  /\ node[n].running /\ ~InCall(n, "stopping")
               \/ s.call = "stopping" /\ s.socket = local[n]
        BY <1>2, <2>1, <2>2 DEF InCall
  <2>10. /\ local' \in {local, [m \in DOMAIN local \ {n} |-> local[m]]}
         /\ late' \in {late, [late EXCEPT ![n] = 0]} /\ loops' = loops
         /\ moved \subseteq moved' /\ muted \subseteq muted'
         /\ s.starts >= node[n].starts
         /\ s.port # node[n].port => n \in moved' \/ node[n].starts = 0
         /\ s.running => late'[n] = 0
         /\ s.call = "starting" => s.running /\ s.starts > 0
         BY <1>1, <1>2, <2>1, <2>2
  <2> HIDE DEF s
  <2> QED BY <2>1, <2>9, <2>10, NodeSteps
<1>8. ASSUME NEW p \in Ports, SetPort(n, p)
      PROVE  LcIInv'
  <2> DEFINE s == [o EXCEPT !.port = p]
  <2>1. /\ node' = [node EXCEPT ![n] = s] /\ s \in NodeType
        /\ s.starts = o.starts /\ s.discovery = o.discovery
        /\ s.running = o.running /\ s.call = o.call /\ s.socket = o.socket
        BY <1>1, <1>8 DEF SetPort, NodeType
  <2>2. o.call = "none" /\ loops' = loops /\ local' = local /\ late' = late
        /\ muted' = muted
        /\ moved' = IF o.starts > 0 THEN moved \cup {n} ELSE moved
        BY <1>8 DEF SetPort, InCall
  <2>3. o.starts = 0 \/ n \in moved'
        BY <1>1, <2>2
  <2>4. moved \subseteq moved'
        BY <2>2
  <2> HIDE DEF s
  <2>9. n \in DOMAIN local' /\ n \notin muted' /\ n \notin muted =>
            /\ s.discovery
            /\ \/ /\ s.running /\ s.call # "stopping"
                  /\ s.socket = local[n] \/ s.call = "dropped"
                  /\ node[n].running /\ ~InCall(n, "stopping")
               \/ s.call = "stopping" /\ s.socket = local[n]
        BY <1>2, <2>1, <2>2 DEF InCall
  <2>10. /\ local' \in {local, [m \in DOMAIN local \ {n} |-> local[m]]}
         /\ late' \in {late, [late EXCEPT ![n] = 0]} /\ loops' = loops
         /\ moved \subseteq moved' /\ muted \subseteq muted'
         /\ s.starts >= node[n].starts
         /\ s.port # node[n].port => n \in moved' \/ node[n].starts = 0
         /\ s.running => late'[n] = 0
         /\ s.call = "starting" => s.running /\ s.starts > 0
         BY <1>1, <1>2, <2>1, <2>2, <2>3, <2>4
  <2> QED BY <2>1, <2>9, <2>10, NodeSteps
<1> QED BY <1>3, <1>4, <1>5, <1>6, <1>7, <1>8

\* A bind: the tasks of the start, and no earlier one, have the new socket.
LEMMA BindStep ==
    ASSUME LcIInv, NEW n \in Instances, NEW p \in Ports, Bind(n, p)
    PROVE  LcIInv'
<1> DEFINE o == node[n]
           a == [o EXCEPT !.socket = p]
           b == [a EXCEPT !.port = p]
           s == [b EXCEPT !.call = "none"]
           new == {[of |-> n, run |-> o.starts, kind |-> k, at |-> "check",
                    port |-> p] : k \in {"receive", "gossip"}}
<1>1. /\ node \in [Instances -> NodeType] /\ o \in NodeType /\ loops \subseteq Loop
      /\ \A m \in DOMAIN local : m \in Instances /\ local[m] \in Ports
      /\ late \in [Instances -> Nat] /\ o.starts \in 0 .. MaxStarts
      BY DEF LcIInv, LcTypeOK, NodeType
<1>2. /\ node' = [node EXCEPT ![n] = s] /\ loops' = loops \cup new
      /\ local' = IF o.discovery
                  THEN [m \in DOMAIN local \cup {n} |-> IF m = n THEN p ELSE local[m]]
                  ELSE local
      /\ late' = late /\ moved' = moved /\ muted' = muted
      /\ o.call = "starting" /\ o.port \in {AnyPort, p} /\ ~Held(p)
      BY DEF Bind, InCall
<1>3. /\ a \in NodeType /\ a.starts = o.starts /\ a.running = o.running
      /\ a.discovery = o.discovery /\ a.socket = p
      BY <1>1 DEF NodeType
<1> HIDE DEF a
<1>4. /\ b \in NodeType /\ b.starts = o.starts /\ b.running = o.running
      /\ b.discovery = o.discovery /\ b.socket = p /\ b.port = p
      BY <1>3 DEF NodeType
<1> HIDE DEF b
<1>5. /\ s \in NodeType /\ s.starts = o.starts /\ s.running = o.running
      /\ s.discovery = o.discovery /\ s.socket = p /\ s.port = p /\ s.call = "none"
      BY <1>4 DEF NodeType
<1> HIDE DEF s
<1>6. o.running /\ o.starts > 0 /\ late[n] = 0
      BY <1>1, <1>2 DEF LcIInv, StartingRuns, LateOnce, InCall
<1>7. \A l \in new : l \in Loop /\ l.of = n /\ l.port = p /\ l.at = "check"
      BY <1>1, <1>6 DEF Loop
<1>8. \A l, m \in new : l.kind = m.kind => l = m
      OBVIOUS
<1>9. \E l \in new : TRUE
      OBVIOUS
<1> HIDE DEF new
<1>10. ASSUME NEW l \in loops, l.of = n
       PROVE  n \in moved
  <2>1. l.port \in Ports /\ l.port # p
        BY <1>1, <1>2 DEF Held, Loop
  <2>2. l.of \notin moved => l.port = node[l.of].port
        BY DEF LcIInv, LoopsBound
  <2> QED BY <1>2, <1>10, <2>1, <2>2, LcAssumption
<1>11. /\ node' \in [Instances -> NodeType] /\ node'[n] = s
       /\ \A m \in Instances : m # n => node'[m] = node[m]
       BY <1>1, <1>2, <1>5
<1>12. \A l \in loops : l.of \in Instances
       BY <1>1 DEF Loop
<1>13. /\ \A m \in DOMAIN local' : m \in DOMAIN local \/ m = n
       /\ \A m \in DOMAIN local' : m # n => local'[m] = local[m]
       /\ n \in DOMAIN local' => local'[n] \in Ports
       /\ o.discovery => n \in DOMAIN local' /\ local'[n] = p
       /\ ~o.discovery => local' = local
       BY <1>1, <1>2
<1>14. LcTypeOK'
  <2>1. loops' \subseteq Loop
        BY <1>1, <1>2, <1>7
  <2>2. \A m \in DOMAIN local' : m \in Instances /\ local'[m] \in Ports
        BY <1>1, <1>13
  <2> QED BY <1>1, <1>2, <1>11, <2>1, <2>2 DEF LcTypeOK, NodeType
<1>15. LoopsBound'
  <2> SUFFICES ASSUME NEW l \in loops'
               PROVE  /\ node'[l.of].starts > 0
                      /\ l.of \notin moved' => l.port = node'[l.of].port
      BY DEF LoopsBound
  <2>1. CASE l \in new
        BY <2>1, <1>5, <1>6, <1>7, <1>11
  <2>2. CASE l \in loops
    <3>1. /\ node[l.of].starts > 0
          /\ l.of \notin moved => l.port = node[l.of].port
          BY <2>2 DEF LcIInv, LoopsBound
    <3> QED BY <2>2, <3>1, <1>2, <1>5, <1>10, <1>11, <1>12
  <2> QED BY <1>2, <2>1, <2>2
<1>16. LoopsAlone'
  <2> SUFFICES ASSUME NEW l \in loops', NEW m \in loops',
                      l.of \notin moved, l.of = m.of, l.kind = m.kind
               PROVE  l = m
      BY <1>2 DEF LoopsAlone
  <2>1. CASE l \in loops /\ m \in loops
        BY <2>1 DEF LcIInv, LoopsAlone
  <2>2. CASE l \in new /\ m \in new
        BY <2>2, <1>8
  <2>3. CASE (l \in loops /\ m \in new) \/ (l \in new /\ m \in loops)
        BY <2>3, <1>7, <1>10
  <2> QED BY <1>2, <2>1, <2>2, <2>3
<1>17. LateOnce'
  <2> SUFFICES ASSUME NEW m \in Instances
               PROVE  /\ node'[m].running => late[m] = 0
                      /\ m \notin moved =>
                            /\ late[m] <= 1
                            /\ late[m] = 1 =>
                                  \A l \in loops' : l.of = m /\ l.kind = "receive" =>
                                      l.at # "wait"
      BY <1>2 DEF LateOnce, LoopsOf
  <2>1. /\ node[m].running => late[m] = 0
        /\ m \notin moved =>
              /\ late[m] <= 1
              /\ late[m] = 1 =>
                    \A l \in loops : l.of = m /\ l.kind = "receive" => l.at # "wait"
        BY DEF LcIInv, LateOnce, LoopsOf
  <2>2. \A l \in new : l.of = m /\ l.kind = "receive" => l.at # "wait"
        BY <1>7
  <2> QED BY <2>1, <2>2, <1>2, <1>6, <1>11
<1>18. Registered'
  <2> SUFFICES ASSUME NEW m \in DOMAIN local', m \notin muted
               PROVE  /\ node'[m].discovery /\ node'[m].starts > 0
                      /\ \/ /\ node'[m].running /\ node'[m].call # "stopping"
                            /\ node'[m].socket = local'[m] \/ node'[m].call = "dropped"
                            /\ \E l \in loops' : l.of = m /\ l.port = local'[m]
                         \/ node'[m].call = "stopping" /\ node'[m].socket = local'[m]
      BY <1>2 DEF Registered, InCall
  <2>1. CASE m # n
    <3>1. /\ m \in DOMAIN local /\ m \in Instances /\ local'[m] = local[m]
          BY <2>1, <1>1, <1>13
    <3>2. /\ node[m].discovery /\ node[m].starts > 0
          /\ \/ /\ node[m].running /\ node[m].call # "stopping"
                /\ node[m].socket = local[m] \/ node[m].call = "dropped"
                /\ \E l \in loops : l.of = m /\ l.port = local[m]
             \/ node[m].call = "stopping" /\ node[m].socket = local[m]
          BY <3>1 DEF LcIInv, Registered, InCall
    <3> QED BY <2>1, <3>1, <3>2, <1>2, <1>11
  <2>2. CASE m = n
    <3>1. o.discovery
      <4>1. SUFFICES ASSUME ~o.discovery PROVE n \in DOMAIN local /\ n \notin muted
            BY DEF LcIInv, Registered
      <4> QED BY <4>1, <2>2, <1>13
    <3>2. local'[n] = p
          BY <3>1, <1>13
    <3>3. \E l \in loops' : l.of = n /\ l.port = p
          BY <1>2, <1>7, <1>9
    <3> QED BY <2>2, <3>1, <3>2, <3>3, <1>5, <1>6, <1>11
  <2> QED BY <2>1, <2>2
<1>19. StartingRuns'
       BY <1>5, <1>11 DEF LcIInv, StartingRuns, InCall
<1> QED BY <1>14, <1>15, <1>16, <1>17, <1>18, <1>19 DEF LcIInv

\* A task goes on or ends: nothing else changes but what it counts late.
LEMMA LoopSteps ==
    ASSUME LcIInv, NEW l \in loops,
           Check(l) \/ Datagram(l) \/ RecvError(l) \/ Wake(l)
    PROVE  LcIInv'
<1> DEFINE m == [l EXCEPT !.at = IF l.at = "check" THEN "wait" ELSE "check"]
<1>1. /\ loops \subseteq Loop /\ l \in Loop /\ l.of \in Instances
      /\ node \in [Instances -> NodeType] /\ late \in [Instances -> Nat]
      BY DEF LcIInv, LcTypeOK, NodeType, Loop
<1>2. /\ m \in Loop /\ m.of = l.of /\ m.kind = l.kind /\ m.port = l.port
      /\ l.at = "check" => m.at = "wait"
      /\ l.at = "wait" => m.at = "check"
      BY <1>1 DEF Loop
<1>3. /\ node' = node /\ local' = local /\ moved' = moved /\ muted' = muted
      /\ l.at \in {"check", "wait"}
      /\ \/ loops' = (loops \ {l}) \cup {m}
         \/ loops' = loops \ {l} /\ ~node[l.of].running
      /\ \/ /\ late' = late
            /\ node[l.of].running \/ loops' = loops \ {l} \/ m.at = "check"
         \/ /\ late' = [late EXCEPT ![l.of] = @ + 1] /\ ~node[l.of].running
            /\ l.kind = "receive" /\ l.at = "wait"
            /\ loops' = (loops \ {l}) \cup {m}
      BY <1>1 DEF Check, Datagram, RecvError, Wake, Moves, Exits, Loop
<1>4. \A k \in loops' : \/ k \in loops /\ k # l
                        \/ k = m /\ loops' = (loops \ {l}) \cup {m}
      BY <1>3
<1>5. ~node[l.of].running => loops' = loops \ {l} \/ m.at = "check"
      BY <1>2, <1>3
<1> HIDE DEF m
<1>6. LcTypeOK'
  <2>1. loops' \subseteq Loop
        BY <1>1, <1>2, <1>3
  <2>2. late' \in [Instances -> Nat]
        BY <1>1, <1>3
  <2> QED BY <2>1, <2>2, <1>3 DEF LcIInv, LcTypeOK
<1>7. LoopsBound'
      BY <1>2, <1>3, <1>4 DEF LcIInv, LoopsBound
<1>8. LoopsAlone'
  <2> SUFFICES ASSUME NEW j \in loops', NEW k \in loops',
                      j.of \notin moved, j.of = k.of, j.kind = k.kind
               PROVE  j = k
      BY <1>3 DEF LoopsAlone
  <2> QED BY <1>2, <1>4 DEF LcIInv, LoopsAlone
<1>9. Registered'
  <2> SUFFICES ASSUME NEW k \in DOMAIN local, k \notin muted
               PROVE  /\ node[k].discovery /\ node[k].starts > 0
                      /\ \/ /\ node[k].running /\ node[k].call # "stopping"
                            /\ node[k].socket = local[k] \/ node[k].call = "dropped"
                            /\ \E j \in loops' : j.of = k /\ j.port = local[k]
                         \/ node[k].call = "stopping" /\ node[k].socket = local[k]
      BY <1>3 DEF Registered, InCall
  <2>1. /\ node[k].discovery /\ node[k].starts > 0
        /\ \/ /\ node[k].running /\ node[k].call # "stopping"
              /\ node[k].socket = local[k] \/ node[k].call = "dropped"
              /\ \E j \in loops : j.of = k /\ j.port = local[k]
           \/ node[k].call = "stopping" /\ node[k].socket = local[k]
        BY DEF LcIInv, Registered, InCall
  <2>2. ASSUME NEW j \in loops, j.of = k, node[k].running
        PROVE  \E i \in loops' : i.of = j.of /\ i.port = j.port
        BY <2>2, <1>2, <1>3
  <2> QED BY <2>1, <2>2
<1>10. StartingRuns'
       BY <1>3 DEF LcIInv, StartingRuns, InCall
<1>11. LateOnce'
  <2> SUFFICES ASSUME NEW n \in Instances
               PROVE  /\ node[n].running => late'[n] = 0
                      /\ n \notin moved =>
                            /\ late'[n] <= 1
                            /\ late'[n] = 1 =>
                                  \A k \in loops' : k.of = n /\ k.kind = "receive" =>
                                      k.at # "wait"
      BY <1>3 DEF LateOnce, LoopsOf
  <2>1. /\ node[n].running => late[n] = 0
        /\ n \notin moved =>
              /\ late[n] <= 1
              /\ late[n] = 1 =>
                    \A k \in loops : k.of = n /\ k.kind = "receive" => k.at # "wait"
        /\ late[n] \in Nat
        BY <1>1 DEF LcIInv, LateOnce, LoopsOf
  <2>2. CASE late' = late
    <3>1. ASSUME n \notin moved, late[n] = 1, NEW k \in loops', k.of = n,
                 k.kind = "receive"
          PROVE  k.at # "wait"
      <4>1. CASE k \in loops
            BY <4>1, <3>1, <2>1
      <4>2. CASE k \notin loops
        <5>1. ~node[l.of].running
              BY <4>2, <3>1, <2>1, <1>2, <1>4
        <5> QED BY <5>1, <4>2, <3>1, <1>4, <1>5
      <4> QED BY <4>1, <4>2
    <3> QED BY <3>1, <2>1, <2>2
  <2>3. CASE late' # late
    <3>1. /\ late' = [late EXCEPT ![l.of] = @ + 1] /\ ~node[l.of].running
          /\ l.kind = "receive" /\ l.at = "wait" /\ m.at = "check"
          BY <2>3, <1>2, <1>3
    <3>2. CASE n # l.of
      <4>1. late'[n] = late[n] /\ \A k \in loops' : k.of = n => k \in loops
            BY <3>1, <3>2, <1>1, <1>2, <1>4
      <4> QED BY <4>1, <2>1
    <3>3. CASE n = l.of
      <4>1. n \notin moved => late[n] = 0
            BY <3>1, <3>3, <2>1
      <4>2. late'[n] = late[n] + 1
            BY <3>1, <3>3, <1>1
      <4>3. ASSUME n \notin moved, NEW k \in loops', k.of = n, k.kind = "receive"
            PROVE  k.at # "wait"
        <5>1. k = m
              BY <4>3, <3>1, <3>3, <1>4 DEF LcIInv, LoopsAlone
        <5> QED BY <5>1, <3>1
      <4> QED BY <4>1, <4>2, <4>3, <3>1, <3>3
    <3> QED BY <3>2, <3>3
  <2> QED BY <2>2, <2>3
<1> QED BY <1>6, <1>7, <1>8, <1>9, <1>10, <1>11 DEF LcIInv

LEMMA LcNextInv == LcIInv /\ [LcNext]_lcVars => LcIInv'
<1> SUFFICES ASSUME LcIInv, [LcNext]_lcVars PROVE LcIInv'
    OBVIOUS
<1>1. CASE UNCHANGED lcVars
      BY <1>1 DEF lcVars, LcIInv, LcTypeOK, LoopsBound, LoopsAlone, LateOnce,
         Registered, StartingRuns, LoopsOf, InCall
<1>2. CASE ClearLocalRegistry
  <2>1. /\ DOMAIN local' = {} /\ node' = node /\ loops' = loops /\ late' = late
        /\ moved' = moved /\ muted' = muted
        BY <1>2 DEF ClearLocalRegistry
  <2> QED BY <2>1 DEF LcIInv, LcTypeOK, LoopsBound, LoopsAlone, LateOnce,
         Registered, StartingRuns, LoopsOf, InCall
<1> QED BY <1>1, <1>2, NodeActions, BindStep, LoopSteps DEF LcNext

\* A set whose elements are all one has at most one.
LEMMA AtMostOne ==
    ASSUME NEW S, \A x, y \in S : x = y
    PROVE  IsFiniteSet(S) /\ Cardinality(S) <= 1
<1>1. CASE S = {}
      BY <1>1, FS_EmptySet
<1>2. CASE S # {}
  <2>1. PICK x : S = {x}
        BY <1>2
  <2>2. IsFiniteSet({x}) /\ Cardinality({x}) = 1
        BY FS_Singleton
  <2> QED BY <2>1, <2>2
<1> QED BY <1>1, <1>2

LEMMA LcIInvImplies == LcIInv => LcInv
<1> SUFFICES ASSUME LcIInv PROVE LcInv
    OBVIOUS
<1>1. LcTypeOK
      BY DEF LcIInv
<1>2. LcOneLoopEach
  <2>1. ASSUME NEW n \in Instances \ moved, NEW k \in {"receive", "gossip"}
        PROVE  Cardinality(LoopsOf(n, k)) <= 1
    <3>1. \A l, m \in LoopsOf(n, k) : l = m
          BY DEF LcIInv, LoopsAlone, LoopsOf
    <3> QED BY <3>1, AtMostOne
  <2> QED BY <2>1 DEF LcOneLoopEach
<1>3. LcOneMoreDatagram
  <2> SUFFICES ASSUME NEW n \in Instances \ moved
               PROVE  late[n] + Cardinality({l \in LoopsOf(n, "receive") : l.at = "wait"}) <= 1
      BY DEF LcOneMoreDatagram
  <2> DEFINE W == {l \in LoopsOf(n, "receive") : l.at = "wait"}
  <2>1. late[n] \in Nat /\ late[n] <= 1 /\ (late[n] = 1 => W = {})
        BY DEF LcIInv, LcTypeOK, LateOnce
  <2>2. \A l, m \in W : l = m
        BY DEF LcIInv, LoopsAlone, LoopsOf
  <2> HIDE DEF W
  <2>3. IsFiniteSet(W) /\ Cardinality(W) <= 1 /\ Cardinality(W) \in Nat
        BY <2>2, AtMostOne, FS_CardinalityType
  <2>4. W = {} => Cardinality(W) = 0
        BY FS_EmptySet
  <2> QED BY <2>1, <2>3, <2>4 DEF W
<1>4. LcRegisteredIsBound
      BY DEF LcIInv, Registered, LcRegisteredIsBound, InCall
<1> QED BY <1>1, <1>2, <1>3, <1>4 DEF LcInv

\* However often a node is started, stopped, dropped or fails to start: one loop
\* of each kind, one datagram after stop, and no entry of the registry that
\* names a node that is gone.
THEOREM LifecycleFollows == LcSpec => []LcInv
BY LcInitInv, LcNextInv, LcIInvImplies, PTL DEF LcSpec

-----------------------------------------------------------------------------
(* Registry *)

\* A sequence without the entry at place k: the entries keep their order.
LEMMA RemoveAtIs ==
    ASSUME NEW S, NEW s \in Seq(S), NEW k \in DOMAIN s
    PROVE  /\ RemoveAt(s, k) \in Seq(S)
           /\ DOMAIN RemoveAt(s, k) = 1 .. Len(s) - 1
           /\ \A j \in DOMAIN RemoveAt(s, k) :
                 /\ j < k => j \in DOMAIN s /\ RemoveAt(s, k)[j] = s[j]
                 /\ j >= k => j + 1 \in DOMAIN s /\ RemoveAt(s, k)[j] = s[j + 1]
<1> DEFINE a == SubSeq(s, 1, k - 1)
           b == SubSeq(s, k + 1, Len(s))
<1>1. Len(s) \in Nat /\ DOMAIN s = 1 .. Len(s) /\ k \in 1 .. Len(s)
      BY LenProperties
<1>2. \A i \in 1 .. Len(s) : s[i] \in S
      BY ElementOfSeq
<1>3. /\ a \in Seq(S) /\ Len(a) = k - 1
      /\ \A i \in 1 .. k - 1 : a[i] = s[i]
  <2>1. \A i \in 1 .. k - 1 : s[i] \in S
        BY <1>1, <1>2
  <2>2. /\ a \in Seq(S) /\ Len(a) = IF 1 <= k - 1 THEN k - 1 - 1 + 1 ELSE 0
        /\ \A i \in 1 .. k - 1 - 1 + 1 : a[i] = s[1 + i - 1]
        BY <1>1, <2>1, SubSeqProperties
  <2> HIDE DEF a
  <2> QED BY <1>1, <2>2
<1>4. /\ b \in Seq(S) /\ Len(b) = Len(s) - k
      /\ \A i \in 1 .. Len(s) - k : b[i] = s[k + i]
  <2>1. \A i \in k + 1 .. Len(s) : s[i] \in S
        BY <1>1, <1>2
  <2>2. /\ b \in Seq(S)
        /\ Len(b) = IF k + 1 <= Len(s) THEN Len(s) - (k + 1) + 1 ELSE 0
        /\ \A i \in 1 .. Len(s) - (k + 1) + 1 : b[i] = s[k + 1 + i - 1]
        BY <1>1, <2>1, SubSeqProperties
  <2> HIDE DEF b
  <2>3. Len(b) = Len(s) - k
        BY <1>1, <2>2
  <2>4. ASSUME NEW i \in 1 .. Len(s) - k
        PROVE  b[i] = s[k + i]
    <3>1. i \in 1 .. Len(s) - (k + 1) + 1 /\ k + 1 + i - 1 = k + i
          BY <1>1
    <3>2. b[i] = s[k + 1 + i - 1]
          BY <2>2, <3>1
    <3> QED BY <3>1, <3>2
  <2> QED BY <2>2, <2>3, <2>4
<1>5. RemoveAt(s, k) = a \o b
      BY DEF RemoveAt
<1> HIDE DEF a, b
<1>6. /\ a \o b \in Seq(S) /\ Len(a \o b) = Len(a) + Len(b)
      /\ \A i \in 1 .. Len(a) + Len(b) :
            (a \o b)[i] = IF i <= Len(a) THEN a[i] ELSE b[i - Len(a)]
      BY <1>3, <1>4, ConcatProperties
<1>7. DOMAIN (a \o b) = 1 .. Len(s) - 1
  <2>1. Len(a) + Len(b) = Len(s) - 1
        BY <1>1, <1>3, <1>4
  <2>2. DOMAIN (a \o b) = 1 .. Len(a \o b)
        BY <1>6, LenProperties
  <2> QED BY <2>1, <2>2, <1>6
<1>8. ASSUME NEW j \in 1 .. Len(s) - 1
      PROVE  /\ j < k => j \in DOMAIN s /\ (a \o b)[j] = s[j]
             /\ j >= k => j + 1 \in DOMAIN s /\ (a \o b)[j] = s[j + 1]
  <2>1. (a \o b)[j] = IF j <= k - 1 THEN a[j] ELSE b[j - (k - 1)]
        BY <1>1, <1>3, <1>4, <1>6
  <2>2. CASE j < k
        BY <1>1, <1>3, <2>1, <2>2
  <2>3. CASE j >= k
    <3>1. j - (k - 1) \in 1 .. Len(s) - k
          BY <1>1, <2>3
    <3> QED BY <1>1, <1>4, <2>1, <2>3, <3>1
  <2> QED BY <1>1, <2>2, <2>3
<1> QED BY <1>5, <1>6, <1>7, <1>8

\* What add_message makes of an object: it has the datum afterwards and keeps
\* what it had, and does not take again what it tells apart by datum or hash.
LEMMA AppliedIs ==
    ASSUME RgTypeOK, NEW i \in DOMAIN objects, NEW m \in RgMessages
    PROVE  /\ Applied(i, m) \in [number : Int, messages : Seq(RgMessages)]
           /\ DataOf(Applied(i, m)) = DataOf(objects[i]) \cup {m.data}
           /\ KindOf[i] # "number" => Contains(Applied(i, m).messages, m)
           /\ \A x : Contains(objects[i].messages, x) =>
                         Contains(Applied(i, m).messages, x)
           /\ Applied(i, m).messages = objects[i].messages
              \/ /\ ~HasSeen(i, m)
                 /\ Applied(i, m).messages = Append(objects[i].messages, m)
<1> DEFINE ms == objects[i].messages
           more == Append(ms, m)
           sum == objects[i].number + (IF KindOf[i] = "number" THEN m.data ELSE 0)
<1>1. /\ objects[i] \in [number : Int, messages : Seq(RgMessages)]
      /\ ms \in Seq(RgMessages) /\ objects[i].number \in Int
      BY DEF RgTypeOK
<1>2. m.data \in Int
      BY RgAssumption
<1>3. /\ more \in Seq(RgMessages) /\ Len(more) = Len(ms) + 1 /\ Len(ms) \in Nat
      /\ \A j \in 1 .. Len(ms) : more[j] = ms[j]
      /\ more[Len(ms) + 1] = m
      /\ DOMAIN ms = 1 .. Len(ms) /\ DOMAIN more = 1 .. Len(ms) + 1
  <2>1. more \in Seq(RgMessages)
        BY <1>1, AppendProperties
  <2> QED BY <1>1, <2>1, AppendProperties, LenProperties
<1>4. sum \in Int
      BY <1>1, <1>2
<1>5. CASE HasSeen(i, m)
  <2>1. Applied(i, m) = objects[i]
        BY <1>5 DEF Applied
  <2>2. KindOf[i] # "number" => Contains(ms, m)
        BY <1>5 DEF HasSeen
  <2>3. m.data \in DataOf(objects[i])
    <3>1. CASE KindOf[i] = "number"
          BY <1>5, <3>1 DEF HasSeen
    <3>2. CASE KindOf[i] # "number"
      <4>1. \E j \in DOMAIN ms : ms[j] = m
            BY <1>1, <2>2, <3>2, LenProperties DEF Contains
      <4> QED BY <4>1 DEF DataOf, ToSet
    <3> QED BY <3>1, <3>2
  <2> QED BY <1>1, <2>1, <2>2, <2>3
<1>6. CASE ~HasSeen(i, m)
  <2>1. Applied(i, m) = [number |-> sum, messages |-> more]
        BY <1>6 DEF Applied
  <2> HIDE DEF sum, more
  <2>2. /\ Applied(i, m) \in [number : Int, messages : Seq(RgMessages)]
        /\ Applied(i, m).messages = more
        BY <1>3, <1>4, <2>1
  <2>3. ToSet(more) = ToSet(ms) \cup {m}
    <3>1. \A j \in DOMAIN more : more[j] \in ToSet(ms) \cup {m}
          BY <1>3 DEF ToSet
    <3>2. \A j \in DOMAIN ms : ms[j] \in ToSet(more)
          BY <1>3 DEF ToSet
    <3>3. m \in ToSet(more)
          BY <1>3 DEF ToSet
    <3> QED BY <3>1, <3>2, <3>3 DEF ToSet
  <2>4. DataOf(Applied(i, m)) = DataOf(objects[i]) \cup {m.data}
        BY <2>2, <2>3 DEF DataOf
  <2>5. Contains(more, m) /\ \A x : Contains(ms, x) => Contains(more, x)
        BY <1>3 DEF Contains
  <2> QED BY <2>2, <2>4, <2>5, <1>6 DEF more
<1> QED BY <1>5, <1>6

LEMMA RgInitInv == RgInit => RgInv
<1> SUFFICES ASSUME RgInit PROVE RgInv
    OBVIOUS
<1>1. /\ order = <<>> /\ DOMAIN order = {} /\ DOMAIN objects = {}
      /\ persisted = {} /\ gone = {}
      BY DEF RgInit
<1>2. RgTypeOK
      BY <1>1, EmptySeq DEF RgTypeOK, ToSet, IsInjective
<1> QED BY <1>1, <1>2 DEF RgInv, RgEarlierHasMore, RgStoredEverywhere, RgTakesOnce

\* The invariant, read by places of the order.
LEMMA OrderIs ==
    ASSUME RgTypeOK
    PROVE  /\ order \in Seq(ObjectIds) /\ DOMAIN order = 1 .. Len(order)
           /\ Len(order) \in Nat
           /\ \A k \in DOMAIN order : order[k] \in DOMAIN objects
           /\ \A i \in DOMAIN objects : \E k \in DOMAIN order : order[k] = i
           /\ \A j, k \in DOMAIN order : order[j] = order[k] => j = k
BY LenProperties DEF RgTypeOK, ToSet, IsInjective

\* A new object is the last of the order, and has nothing.
LEMMA RegisterStep ==
    ASSUME RgInv, NEW i \in ObjectIds, Register(i)
    PROVE  RgInv'
<1> DEFINE next == Append(order, i)
           objs == [j \in DOMAIN objects \cup {i} |-> IF j = i THEN Empty ELSE objects[j]]
<1>1. /\ RgTypeOK /\ RgEarlierHasMore /\ RgStoredEverywhere /\ RgTakesOnce
      /\ order' = next /\ objects' = objs /\ gone' = gone \cup {i}
      /\ persisted' = persisted /\ i \notin gone
      BY DEF RgInv, Register
<1>2. /\ order \in Seq(ObjectIds) /\ DOMAIN order = 1 .. Len(order) /\ Len(order) \in Nat
      /\ \A k \in DOMAIN order : order[k] \in DOMAIN objects
      /\ \A j \in DOMAIN objects : \E k \in DOMAIN order : order[k] = j
      /\ \A j, k \in DOMAIN order : order[j] = order[k] => j = k
      BY <1>1, OrderIs
<1>3. /\ next \in Seq(ObjectIds) /\ DOMAIN next = 1 .. Len(order) + 1
      /\ \A k \in DOMAIN order : next[k] = order[k]
      /\ next[Len(order) + 1] = i
      BY <1>2, AppendProperties, LenProperties
<1>4. i \notin DOMAIN objects
      BY <1>1 DEF RgTypeOK
<1>5. /\ DOMAIN objs = DOMAIN objects \cup {i} /\ objs[i] = Empty
      /\ \A j \in DOMAIN objects : objs[j] = objects[j]
      BY <1>4
<1>6. Empty \in [number : Int, messages : Seq(RgMessages)] /\ DataOf(Empty) = {}
      /\ Empty.messages = <<>>
      BY EmptySeq DEF Empty, DataOf, ToSet
<1> HIDE DEF next, objs
<1>7. \A k \in DOMAIN next : k \in DOMAIN order \/ k = Len(order) + 1
      BY <1>2, <1>3
<1>8. RgTypeOK'
  <2>1. ToSet(next) = DOMAIN objs
    <3>1. \A k \in DOMAIN next : next[k] \in DOMAIN objs
          BY <1>2, <1>3, <1>5, <1>7
    <3>2. \A j \in DOMAIN objs : \E k \in DOMAIN next : next[k] = j
          BY <1>2, <1>3, <1>5
    <3> QED BY <3>1, <3>2 DEF ToSet
  <2>2. IsInjective(next)
    <3> SUFFICES ASSUME NEW j \in DOMAIN next, NEW k \in DOMAIN next,
                        next[j] = next[k]
                 PROVE  j = k
        BY DEF IsInjective
    <3> QED BY <1>2, <1>3, <1>4, <1>7
  <2>3. \A j \in DOMAIN objs : objs[j] \in [number : Int, messages : Seq(RgMessages)]
        BY <1>1, <1>5, <1>6 DEF RgTypeOK
  <2>4. DOMAIN objs \subseteq gone' /\ gone' \subseteq ObjectIds
        BY <1>1, <1>5 DEF RgTypeOK
  <2>5. persisted' \subseteq [message : RgMessages, ids : SUBSET gone']
        BY <1>1 DEF RgTypeOK
  <2> QED BY <1>1, <1>3, <2>1, <2>2, <2>3, <2>4, <2>5 DEF RgTypeOK
<1>9. RgEarlierHasMore'
  <2> SUFFICES ASSUME NEW j \in DOMAIN next, NEW k \in DOMAIN next, j < k,
                      next[j] \notin Resettable
               PROVE  DataOf(objs[next[k]]) \subseteq DataOf(objs[next[j]])
      BY <1>1 DEF RgEarlierHasMore, DataOf
  <2>1. CASE k = Len(order) + 1
        BY <2>1, <1>3, <1>5, <1>6
  <2>2. CASE k # Len(order) + 1
    <3>1. k \in DOMAIN order /\ j \in DOMAIN order
          BY <2>2, <1>2, <1>3, <1>7
    <3>2. DataOf(objects[order[k]]) \subseteq DataOf(objects[order[j]])
          BY <3>1, <1>1, <1>3 DEF RgEarlierHasMore
    <3> QED BY <3>1, <3>2, <1>2, <1>3, <1>5
  <2> QED BY <2>1, <2>2
<1>10. RgStoredEverywhere'
  <2> SUFFICES ASSUME NEW s \in persisted, NEW j \in (s.ids \cap DOMAIN objs) \ Resettable
               PROVE  /\ s.message.data \in DataOf(objs[j])
                      /\ KindOf[j] # "number" => Contains(objs[j].messages, s.message)
      BY <1>1 DEF RgStoredEverywhere, DataOf
  <2>1. j # i
        BY <1>1 DEF RgTypeOK
  <2> QED BY <2>1, <1>1, <1>5 DEF RgStoredEverywhere
<1>11. RgTakesOnce'
  <2> SUFFICES ASSUME NEW o \in DOMAIN objs
               PROVE  /\ KindOf[o] = "number" =>
                            \A j, k \in DOMAIN objs[o].messages :
                               objs[o].messages[j].data = objs[o].messages[k].data => j = k
                      /\ KindOf[o] = "log" => IsInjective(objs[o].messages)
      BY <1>1 DEF RgTakesOnce
  <2>1. CASE o = i
        BY <2>1, <1>5, <1>6 DEF IsInjective
  <2>2. CASE o # i
        BY <2>2, <1>1, <1>5 DEF RgTakesOnce
  <2> QED BY <2>1, <2>2
<1> QED BY <1>8, <1>9, <1>10, <1>11 DEF RgInv

\* The objects that are left keep their order and what they took.
LEMMA RemoveStep ==
    ASSUME RgInv, NEW i \in ObjectIds, RemoveObject(i)
    PROVE  RgInv'
<1>1. PICK k0 \in DOMAIN order : order[k0] = i /\ order' = RemoveAt(order, k0)
      BY DEF RemoveObject
<1> DEFINE next == RemoveAt(order, k0)
           objs == [j \in DOMAIN objects \ {i} |-> objects[j]]
<1>2. /\ RgTypeOK /\ RgEarlierHasMore /\ RgStoredEverywhere /\ RgTakesOnce
      /\ order' = next /\ objects' = objs /\ gone' = gone
      /\ persisted' = persisted /\ i \in DOMAIN objects
      BY <1>1 DEF RgInv, RemoveObject
<1>3. /\ order \in Seq(ObjectIds) /\ DOMAIN order = 1 .. Len(order) /\ Len(order) \in Nat
      /\ \A k \in DOMAIN order : order[k] \in DOMAIN objects
      /\ \A j \in DOMAIN objects : \E k \in DOMAIN order : order[k] = j
      /\ \A j, k \in DOMAIN order : order[j] = order[k] => j = k
      BY <1>2, OrderIs
<1>4. /\ next \in Seq(ObjectIds) /\ DOMAIN next = 1 .. Len(order) - 1
      /\ \A j \in DOMAIN next :
            /\ j < k0 => j \in DOMAIN order /\ next[j] = order[j]
            /\ j >= k0 => j + 1 \in DOMAIN order /\ next[j] = order[j + 1]
      BY <1>1, <1>3, RemoveAtIs
<1>5. /\ DOMAIN objs = DOMAIN objects \ {i}
      /\ \A j \in DOMAIN objs : objs[j] = objects[j]
      OBVIOUS
<1> HIDE DEF next, objs
<1> DEFINE From(j) == IF j < k0 THEN j ELSE j + 1
<1>6. \A j \in DOMAIN next : /\ From(j) \in DOMAIN order /\ next[j] = order[From(j)]
                             /\ From(j) # k0
      BY <1>1, <1>3, <1>4
<1>7. \A j, k \in DOMAIN next : /\ From(j) = From(k) => j = k
                                /\ j < k => From(j) < From(k)
      BY <1>1, <1>3, <1>4
<1>8. \A k \in DOMAIN order : k # k0 => \E j \in DOMAIN next : From(j) = k
  <2> SUFFICES ASSUME NEW k \in DOMAIN order, k # k0
               PROVE  \E j \in DOMAIN next : From(j) = k
      OBVIOUS
  <2>1. CASE k < k0
        BY <2>1, <1>1, <1>3, <1>4
  <2>2. CASE k > k0
    <3>1. k - 1 \in DOMAIN next /\ From(k - 1) = k
          BY <2>2, <1>1, <1>3, <1>4
    <3> QED BY <3>1
  <2> QED BY <2>1, <2>2, <1>1, <1>3
<1> HIDE DEF From
<1>9. RgTypeOK'
  <2>1. ToSet(next) = DOMAIN objs
    <3>1. \A j \in DOMAIN next : next[j] \in DOMAIN objs
          BY <1>1, <1>3, <1>5, <1>6
    <3>2. \A o \in DOMAIN objs : \E j \in DOMAIN next : next[j] = o
      <4> SUFFICES ASSUME NEW o \in DOMAIN objs PROVE \E j \in DOMAIN next : next[j] = o
          OBVIOUS
      <4>1. PICK k \in DOMAIN order : order[k] = o
            BY <1>3, <1>5
      <4>2. k # k0
            BY <4>1, <1>1, <1>5
      <4> QED BY <4>1, <4>2, <1>6, <1>8
    <3> QED BY <3>1, <3>2 DEF ToSet
  <2>2. IsInjective(next)
        BY <1>3, <1>6, <1>7 DEF IsInjective
  <2>3. \A j \in DOMAIN objs : objs[j] \in [number : Int, messages : Seq(RgMessages)]
        BY <1>2, <1>5 DEF RgTypeOK
  <2> QED BY <1>2, <1>4, <1>5, <2>1, <2>2, <2>3 DEF RgTypeOK
<1>10. RgEarlierHasMore'
  <2> SUFFICES ASSUME NEW j \in DOMAIN next, NEW k \in DOMAIN next, j < k,
                      next[j] \notin Resettable
               PROVE  DataOf(objs[next[k]]) \subseteq DataOf(objs[next[j]])
      BY <1>2 DEF RgEarlierHasMore, DataOf
  <2>1. /\ From(j) \in DOMAIN order /\ From(k) \in DOMAIN order /\ From(j) < From(k)
        /\ next[j] = order[From(j)] /\ next[k] = order[From(k)]
        BY <1>6, <1>7
  <2>2. DataOf(objects[order[From(k)]]) \subseteq DataOf(objects[order[From(j)]])
        BY <2>1, <1>2 DEF RgEarlierHasMore
  <2>3. next[j] \in DOMAIN objs /\ next[k] \in DOMAIN objs
        BY <1>1, <1>3, <1>5, <1>6
  <2> QED BY <2>1, <2>2, <2>3, <1>5
<1>11. RgStoredEverywhere'
  <2> SUFFICES ASSUME NEW s \in persisted, NEW j \in (s.ids \cap DOMAIN objs) \ Resettable
               PROVE  /\ s.message.data \in DataOf(objs[j])
                      /\ KindOf[j] # "number" => Contains(objs[j].messages, s.message)
      BY <1>2 DEF RgStoredEverywhere, DataOf
  <2> QED BY <1>2, <1>5 DEF RgStoredEverywhere
<1>12. RgTakesOnce'
       BY <1>2, <1>5 DEF RgTakesOnce
<1> QED BY <1>9, <1>10, <1>11, <1>12 DEF RgInv

\* The objects at the first k places took the message, the others did not.
LEMMA AppliedToFirstIs ==
    ASSUME RgTypeOK, NEW m \in RgMessages, NEW k \in Nat, k <= Len(order)
    PROVE  /\ DOMAIN AppliedToFirst(k, m) = DOMAIN objects
           /\ \A i \in DOMAIN objects : \/ AppliedToFirst(k, m)[i] = objects[i]
                                        \/ AppliedToFirst(k, m)[i] = Applied(i, m)
           /\ \A j \in DOMAIN order :
                 AppliedToFirst(k, m)[order[j]] =
                    IF j <= k THEN Applied(order[j], m) ELSE objects[order[j]]
           /\ \A i, j \in DOMAIN order : i < j =>
                 \/ AppliedToFirst(k, m)[order[j]] = objects[order[j]]
                 \/ /\ AppliedToFirst(k, m)[order[i]] = Applied(order[i], m)
                    /\ AppliedToFirst(k, m)[order[j]] = Applied(order[j], m)
<1>1. /\ DOMAIN order = 1 .. Len(order) /\ Len(order) \in Nat
      /\ \A j \in DOMAIN order : order[j] \in DOMAIN objects
      /\ \A i, j \in DOMAIN order : order[i] = order[j] => i = j
      BY OrderIs
<1> DEFINE objs == AppliedToFirst(k, m)
<1>2. /\ DOMAIN objs = DOMAIN objects
      /\ \A i \in DOMAIN objects :
            objs[i] = IF \E j \in 1 .. k : order[j] = i THEN Applied(i, m) ELSE objects[i]
      BY DEF AppliedToFirst
<1> HIDE DEF objs
<1>3. ASSUME NEW j \in DOMAIN order
      PROVE  objs[order[j]] = IF j <= k THEN Applied(order[j], m) ELSE objects[order[j]]
  <2>1. 1 .. k \subseteq DOMAIN order
        BY <1>1
  <2>2. (\E i \in 1 .. k : order[i] = order[j]) => j <= k
        BY <1>1, <2>1
  <2>3. j <= k => j \in 1 .. k
        BY <1>1
  <2>4. (\E i \in 1 .. k : order[i] = order[j]) <=> j <= k
        BY <2>2, <2>3
  <2> QED BY <1>1, <1>2, <2>4
<1>4. \A i \in DOMAIN objects : objs[i] = objects[i] \/ objs[i] = Applied(i, m)
      BY <1>2
<1>5. ASSUME NEW i \in DOMAIN order, NEW j \in DOMAIN order, i < j
      PROVE  \/ objs[order[j]] = objects[order[j]]
             \/ /\ objs[order[i]] = Applied(order[i], m)
                /\ objs[order[j]] = Applied(order[j], m)
  <2>1. i \in Int /\ j \in Int
        BY <1>1
  <2>2. j <= k => i <= k
        BY <1>5, <2>1
  <2> QED BY <1>3, <2>2
<1> QED BY <1>2, <1>3, <1>4, <1>5 DEF objs

\* Taking a message keeps the agreement, in all objects (it is stored then) or in
\* those before the one that failed.
LEMMA ApplyStep ==
    ASSUME RgInv, NEW m \in RgMessages, NEW k \in Nat, k <= Len(order),
           objects' = AppliedToFirst(k, m), order' = order, gone' = gone,
           \/ persisted' = persisted
           \/ /\ k = Len(order)
              /\ persisted' = persisted \cup {[message |-> m, ids |-> ToSet(order)]}
    PROVE  RgInv'
<1>1. RgTypeOK /\ RgEarlierHasMore /\ RgStoredEverywhere /\ RgTakesOnce
      BY DEF RgInv
<1>2. /\ order \in Seq(ObjectIds) /\ DOMAIN order = 1 .. Len(order) /\ Len(order) \in Nat
      /\ \A j \in DOMAIN order : order[j] \in DOMAIN objects
      /\ \A i \in DOMAIN objects : \E j \in DOMAIN order : order[j] = i
      /\ \A i, j \in DOMAIN order : order[i] = order[j] => i = j
      BY <1>1, OrderIs
<1> DEFINE objs == AppliedToFirst(k, m)
<1>3. /\ DOMAIN objs = DOMAIN objects
      /\ \A i \in DOMAIN objects : objs[i] = objects[i] \/ objs[i] = Applied(i, m)
      /\ \A j \in DOMAIN order :
            objs[order[j]] = IF j <= k THEN Applied(order[j], m) ELSE objects[order[j]]
      /\ \A i, j \in DOMAIN order : i < j =>
            \/ objs[order[j]] = objects[order[j]]
            \/ /\ objs[order[i]] = Applied(order[i], m)
               /\ objs[order[j]] = Applied(order[j], m)
      BY <1>1, AppliedToFirstIs
<1> HIDE DEF objs
<1>4. objects' = objs
      BY DEF objs
<1>5. \A i \in DOMAIN objects :
         /\ Applied(i, m) \in [number : Int, messages : Seq(RgMessages)]
         /\ DataOf(Applied(i, m)) = DataOf(objects[i]) \cup {m.data}
         /\ KindOf[i] # "number" => Contains(Applied(i, m).messages, m)
         /\ \A x : Contains(objects[i].messages, x) => Contains(Applied(i, m).messages, x)
         /\ Applied(i, m).messages = objects[i].messages
            \/ /\ ~HasSeen(i, m)
               /\ Applied(i, m).messages = Append(objects[i].messages, m)
      BY <1>1, AppliedIs
<1>6. RgTypeOK'
  <2>1. \A i \in DOMAIN objs : objs[i] \in [number : Int, messages : Seq(RgMessages)]
        BY <1>1, <1>3, <1>5 DEF RgTypeOK
  <2>2. persisted' \subseteq [message : RgMessages, ids : SUBSET gone]
        BY <1>1 DEF RgTypeOK
  <2> QED BY <1>1, <1>3, <1>4, <2>1, <2>2 DEF RgTypeOK
<1>7. RgEarlierHasMore'
  <2> SUFFICES ASSUME NEW i \in DOMAIN order, NEW j \in DOMAIN order, i < j,
                      order[i] \notin Resettable
               PROVE  DataOf(objs[order[j]]) \subseteq DataOf(objs[order[i]])
      BY <1>4 DEF RgEarlierHasMore, DataOf
  <2>1. DataOf(objects[order[j]]) \subseteq DataOf(objects[order[i]])
        BY <1>1 DEF RgEarlierHasMore
  <2>2. order[i] \in DOMAIN objects /\ order[j] \in DOMAIN objects
        BY <1>2
  <2>3. objs[order[i]] = objects[order[i]] \/ objs[order[i]] = Applied(order[i], m)
        BY <1>3, <2>2
  <2>4. DataOf(objects[order[i]]) \subseteq DataOf(objs[order[i]])
    <3>1. CASE objs[order[i]] = objects[order[i]]
          BY <3>1
    <3>2. CASE objs[order[i]] = Applied(order[i], m)
          BY <3>2, <2>2, <1>5
    <3> QED BY <3>1, <3>2, <2>3
  <2>5. CASE objs[order[j]] = objects[order[j]]
        BY <2>1, <2>4, <2>5
  <2>6. CASE /\ objs[order[i]] = Applied(order[i], m)
             /\ objs[order[j]] = Applied(order[j], m)
    <3>1. /\ DataOf(objs[order[i]]) = DataOf(objects[order[i]]) \cup {m.data}
          /\ DataOf(objs[order[j]]) = DataOf(objects[order[j]]) \cup {m.data}
          BY <2>2, <2>6, <1>5
    <3> QED BY <2>1, <3>1
  <2> QED BY <2>5, <2>6, <1>3
<1>8. RgStoredEverywhere'
  <2> SUFFICES ASSUME NEW s \in persisted', NEW i \in (s.ids \cap DOMAIN objs) \ Resettable
               PROVE  /\ s.message.data \in DataOf(objs[i])
                      /\ KindOf[i] # "number" => Contains(objs[i].messages, s.message)
      BY <1>4 DEF RgStoredEverywhere, DataOf
  <2>1. i \in DOMAIN objects
        BY <1>3
  <2>2. CASE s \in persisted
    <3>1. /\ s.message.data \in DataOf(objects[i])
          /\ KindOf[i] # "number" => Contains(objects[i].messages, s.message)
          BY <2>1, <2>2, <1>1 DEF RgStoredEverywhere
    <3> QED BY <2>1, <3>1, <1>3, <1>5
  <2>3. CASE s \notin persisted
    <3>1. s.message = m /\ k = Len(order)
          BY <2>3
    <3>2. objs[i] = Applied(i, m)
          BY <2>1, <3>1, <1>2, <1>3
    <3> QED BY <2>1, <3>1, <3>2, <1>5
  <2> QED BY <2>2, <2>3
<1>9. RgTakesOnce'
  <2> SUFFICES ASSUME NEW i \in DOMAIN objs
               PROVE  /\ KindOf[i] = "number" =>
                            \A a, b \in DOMAIN objs[i].messages :
                               objs[i].messages[a].data = objs[i].messages[b].data => a = b
                      /\ KindOf[i] = "log" => IsInjective(objs[i].messages)
      BY <1>4 DEF RgTakesOnce
  <2> DEFINE ms == objects[i].messages
             more == Append(ms, m)
  <2>1. /\ i \in DOMAIN objects /\ ms \in Seq(RgMessages)
        /\ KindOf[i] = "number" =>
              \A a, b \in DOMAIN ms : ms[a].data = ms[b].data => a = b
        /\ KindOf[i] = "log" => IsInjective(ms)
        BY <1>1, <1>3 DEF RgTypeOK, RgTakesOnce
  <2>2. CASE objs[i].messages = ms
        BY <2>1, <2>2
  <2>3. CASE objs[i].messages # ms
    <3>1. objs[i].messages = more /\ ~HasSeen(i, m)
          BY <2>1, <2>3, <1>3, <1>5
    <3>2. /\ DOMAIN ms = 1 .. Len(ms) /\ Len(ms) \in Nat
          /\ DOMAIN more = 1 .. Len(ms) + 1
          /\ \A a \in DOMAIN ms : more[a] = ms[a]
          /\ more[Len(ms) + 1] = m
      <4>1. more \in Seq(RgMessages)
            BY <2>1, AppendProperties
      <4> HIDE DEF ms
      <4> QED BY <2>1, <4>1, AppendProperties, LenProperties DEF more
    <3>3. KindOf[i] = "number" => \A a \in DOMAIN ms : ms[a].data # m.data
          BY <3>1 DEF HasSeen, DataOf, ToSet
    <3>4. KindOf[i] = "log" => \A a \in DOMAIN ms : ms[a] # m
          BY <3>1, <3>2 DEF HasSeen, Contains
    <3> HIDE DEF ms, more
    <3>5. \A a \in DOMAIN more : a \in DOMAIN ms \/ a = Len(ms) + 1
          BY <3>2
    <3>6. ASSUME KindOf[i] = "number", NEW a \in DOMAIN more, NEW b \in DOMAIN more,
                 more[a].data = more[b].data
          PROVE  a = b
          BY <2>1, <3>2, <3>3, <3>5, <3>6
    <3>7. ASSUME KindOf[i] = "log", NEW a \in DOMAIN more, NEW b \in DOMAIN more,
                 more[a] = more[b]
          PROVE  a = b
          BY <2>1, <3>2, <3>4, <3>5, <3>7 DEF IsInjective
    <3> QED BY <3>1, <3>6, <3>7 DEF IsInjective
  <2> QED BY <2>2, <2>3
<1> QED BY <1>6, <1>7, <1>8, <1>9 DEF RgInv

LEMMA RgNextInv == RgInv /\ [RgNext]_rgVars => RgInv'
<1> SUFFICES ASSUME RgInv, [RgNext]_rgVars PROVE RgInv'
    OBVIOUS
<1>1. ASSUME NEW i \in ObjectIds, ResetObject(i)
      PROVE  RgInv'
  <2>1. /\ objects' = [objects EXCEPT ![i] = Empty] /\ i \in DOMAIN objects
        /\ i \in Resettable /\ order' = order /\ persisted' = persisted /\ gone' = gone
        BY <1>1 DEF ResetObject
  <2>2. /\ DOMAIN objects' = DOMAIN objects /\ objects'[i] = Empty
        /\ \A j \in DOMAIN objects : j # i => objects'[j] = objects[j]
        BY <2>1
  <2>3. Empty \in [number : Int, messages : Seq(RgMessages)] /\ DataOf(Empty) = {}
        /\ Empty.messages = <<>>
        BY EmptySeq DEF Empty, DataOf, ToSet
  <2>4. RgTypeOK /\ RgEarlierHasMore /\ RgStoredEverywhere /\ RgTakesOnce
        BY DEF RgInv
  <2>5. RgTypeOK'
    <3>1. \A j \in DOMAIN objects' :
              objects'[j] \in [number : Int, messages : Seq(RgMessages)]
          BY <2>2, <2>3, <2>4 DEF RgTypeOK
    <3> QED BY <3>1, <2>1, <2>2, <2>4 DEF RgTypeOK
  <2>6. RgEarlierHasMore'
    <3> SUFFICES ASSUME NEW j \in DOMAIN order, NEW k \in DOMAIN order, j < k,
                        order[j] \notin Resettable
                 PROVE  DataOf(objects'[order[k]]) \subseteq DataOf(objects'[order[j]])
        BY <2>1 DEF RgEarlierHasMore, DataOf
    <3>1. /\ order[j] \in DOMAIN objects /\ order[k] \in DOMAIN objects
          /\ objects'[order[j]] = objects[order[j]]
          BY <2>1, <2>2, <2>4, OrderIs
    <3>2. DataOf(objects[order[k]]) \subseteq DataOf(objects[order[j]])
          BY <2>4 DEF RgEarlierHasMore
    <3> QED BY <3>1, <3>2, <2>2, <2>3
  <2>7. RgStoredEverywhere'
    <3> SUFFICES ASSUME NEW s \in persisted, NEW j \in (s.ids \cap DOMAIN objects) \ Resettable
                 PROVE  /\ s.message.data \in DataOf(objects'[j])
                        /\ KindOf[j] # "number" => Contains(objects'[j].messages, s.message)
        BY <2>1, <2>2 DEF RgStoredEverywhere, DataOf
    <3> QED BY <2>1, <2>2, <2>4 DEF RgStoredEverywhere
  <2>8. RgTakesOnce'
    <3>1. ASSUME NEW j \in DOMAIN objects
          PROVE  /\ KindOf[j] = "number" =>
                        \A a, b \in DOMAIN objects'[j].messages :
                           objects'[j].messages[a].data = objects'[j].messages[b].data
                              => a = b
                 /\ KindOf[j] = "log" => IsInjective(objects'[j].messages)
      <4>1. CASE j = i
            BY <4>1, <2>2, <2>3 DEF IsInjective
      <4>2. CASE j # i
            BY <4>2, <2>2, <2>4 DEF RgTakesOnce
      <4> QED BY <4>1, <4>2
    <3> QED BY <3>1, <2>2 DEF RgTakesOnce
  <2> QED BY <2>5, <2>6, <2>7, <2>8 DEF RgInv
<1>2. CASE Clear
  <2>1. /\ order' = <<>> /\ DOMAIN order' = {} /\ DOMAIN objects' = {}
        /\ persisted' = persisted /\ gone' = gone
        BY <1>2 DEF Clear
  <2>2. RgTypeOK'
        BY <2>1, EmptySeq DEF RgInv, RgTypeOK, ToSet, IsInjective
  <2> QED BY <2>1, <2>2 DEF RgInv, RgEarlierHasMore, RgStoredEverywhere, RgTakesOnce
<1>3. ASSUME NEW m \in RgMessages, ProcessMessage(m)
      PROVE  RgInv'
  <2>1. Len(order) \in 0 .. Len(order)
        BY OrderIs DEF RgInv
  <2> QED BY <1>3, <2>1, ApplyStep DEF ProcessMessage
<1>4. ASSUME NEW m \in RgMessages, PutFails(m)
      PROVE  RgInv'
  <2>1. Len(order) \in 0 .. Len(order)
        BY OrderIs DEF RgInv
  <2> QED BY <1>4, <2>1, ApplyStep DEF PutFails
<1>5. ASSUME NEW m \in RgMessages, NEW k \in DOMAIN order, FailHalfway(m, k)
      PROVE  RgInv'
  <2>1. k - 1 \in 0 .. Len(order)
        BY OrderIs DEF RgInv
  <2> QED BY <1>5, <2>1, ApplyStep DEF FailHalfway
<1>6. CASE UNCHANGED rgVars
      BY <1>6 DEF rgVars, RgInv, RgTypeOK, RgEarlierHasMore, RgStoredEverywhere,
         RgTakesOnce, DataOf
<1> QED BY <1>1, <1>2, <1>3, <1>4, <1>5, <1>6, RegisterStep, RemoveStep DEF RgNext

\* Whatever is registered, removed, reset and refused, and wherever a message
\* fails: order, objects and storage of a registry agree.
THEOREM RegistryAgrees == RgSpec => []RgInv
BY RgInitInv, RgNextInv, PTL DEF RgSpec

\* A message that an object takes adds its datum to the sum.
LEMMA DataSumGrows ==
    ASSUME NEW ms \in Seq(RgMessages), NEW m \in RgMessages, NEW number, NEW number2
    PROVE  DataSum([number |-> number2, messages |-> Append(ms, m)]) =
              DataSum([number |-> number, messages |-> ms]) + m.data
<1> DEFINE more == Append(ms, m)
           f == [k \in DOMAIN ms |-> ms[k].data]
           g == [k \in DOMAIN more |-> more[k].data]
<1>1. /\ more \in Seq(RgMessages) /\ Len(more) = Len(ms) + 1 /\ Len(ms) \in Nat
      /\ \A k \in 1 .. Len(ms) : more[k] = ms[k]
      /\ more[Len(ms) + 1] = m
      BY AppendProperties
<1>2. DOMAIN ms = 1 .. Len(ms) /\ DOMAIN more = 1 .. Len(ms) + 1
      BY <1>1, LenProperties
<1> HIDE DEF more
<1>3. \A k \in 1 .. Len(ms) : g[k] = f[k]
      BY <1>1, <1>2
<1>4. g[Len(ms) + 1] = m.data
      BY <1>1, <1>2
<1> HIDE DEF f, g
<1>5. SumTo(g, Len(ms) + 1) = SumTo(f, Len(ms)) + m.data
  <2>1. Len(ms) \in Nat
        BY <1>1
  <2>2. SumTo(g, Len(ms) + 1) = SumTo(f, Len(ms)) + g[Len(ms) + 1]
        BY ONLY <2>1, <1>3, SumMore
  <2> QED BY <2>2, <1>4
<1> QED BY <1>1, <1>5 DEF DataSum, more, f, g

\* An object that is as its log says stays so when it takes a message.
LEMMA AppliedCounts ==
    ASSUME RgTypeOK, RgCountsOnce, NEW i \in DOMAIN objects, NEW m \in RgMessages,
           KindOf[i] = "number"
    PROVE  Applied(i, m).number = DataSum(Applied(i, m))
<1>1. objects[i].number = DataSum(objects[i])
      BY DEF RgCountsOnce
<1>2. CASE HasSeen(i, m)
      BY <1>1, <1>2 DEF Applied
<1>3. CASE ~HasSeen(i, m)
  <2> DEFINE ms == objects[i].messages
  <2>1. /\ objects[i] \in [number : Int, messages : Seq(RgMessages)]
        /\ ms \in Seq(RgMessages)
        BY DEF RgTypeOK
  <2>2. objects[i] = [number |-> objects[i].number, messages |-> ms]
        BY <2>1
  <2>3. Applied(i, m) = [number |-> objects[i].number + m.data, messages |-> Append(ms, m)]
        BY <1>3 DEF Applied
  <2> HIDE DEF ms
  <2>4. DataSum(Applied(i, m)) = DataSum(objects[i]) + m.data
        BY <2>1, <2>2, <2>3, DataSumGrows
  <2>5. Applied(i, m).number = objects[i].number + m.data
        BY <2>3
  <2> QED BY <1>1, <2>4, <2>5
<1> QED BY <1>2, <1>3

LEMMA EmptyCounts == Empty.number = DataSum(Empty)
<1>1. Empty.number = 0 /\ Len(Empty.messages) = 0
      BY DEF Empty
<1> QED BY <1>1, SumOfNone DEF DataSum

LEMMA RgCountsStep == RgInv /\ RgCountsOnce /\ [RgNext]_rgVars => RgCountsOnce'
<1> SUFFICES ASSUME RgInv, RgCountsOnce, [RgNext]_rgVars PROVE RgCountsOnce'
    OBVIOUS
<1>1. RgTypeOK
      BY DEF RgInv
\* It is enough that every object is one of before, one that took a message, or
\* a new one.
<1>2. SUFFICES ASSUME NEW i \in DOMAIN objects', KindOf[i] = "number"
               PROVE  \/ objects'[i] = Empty
                      \/ i \in DOMAIN objects /\ objects'[i] = objects[i]
                      \/ /\ i \in DOMAIN objects
                         /\ \E m \in RgMessages : objects'[i] = Applied(i, m)
  <2> SUFFICES ASSUME NEW i \in DOMAIN objects', KindOf[i] = "number"
               PROVE  objects'[i].number = DataSum(objects'[i])
      BY DEF RgCountsOnce, DataSum
  <2> QED BY <1>1, <1>2, EmptyCounts, AppliedCounts DEF RgCountsOnce
<1>3. ASSUME NEW j \in ObjectIds, Register(j) \/ RemoveObject(j) \/ ResetObject(j)
      PROVE  objects'[i] = Empty \/ (i \in DOMAIN objects /\ objects'[i] = objects[i])
      BY <1>3 DEF Register, RemoveObject, ResetObject
<1>4. CASE Clear
      BY <1>4 DEF Clear
<1>5. ASSUME NEW m \in RgMessages, NEW k, objects' = AppliedToFirst(k, m)
      PROVE  i \in DOMAIN objects /\ (objects'[i] = objects[i] \/ objects'[i] = Applied(i, m))
      BY <1>5 DEF AppliedToFirst
<1>6. ASSUME NEW m \in RgMessages,
             \/ ProcessMessage(m) \/ PutFails(m)
             \/ \E k \in DOMAIN order : FailHalfway(m, k)
      PROVE  \E k : objects' = AppliedToFirst(k, m)
      BY <1>6 DEF ProcessMessage, PutFails, FailHalfway
<1>7. CASE UNCHANGED rgVars
      BY <1>7 DEF rgVars
<1> QED BY <1>3, <1>4, <1>5, <1>6, <1>7 DEF RgNext

\* A SimpleSharedNumber is the sum of what it took, in a pipeline where objects
\* behind it fail and messages come again.
THEOREM NumbersCount == RgSpec => []RgCountsOnce
<1>1. RgInit => RgCountsOnce
      BY DEF RgInit, RgCountsOnce
<1> QED BY <1>1, RegistryAgrees, RgCountsStep, PTL DEF RgSpec

-----------------------------------------------------------------------------
(* Caches *)

\* A message takes its key away, if the kind of cache knows how.
Deletes(m) == m.kind = IF cacheKind = "mempool" THEN "remove" ELSE "delete"

GotPublishable == got \in [Nodes -> SUBSET CaMessages]

\* The storage of a node has an undisputed key if the message about it put it
\* there, with the value of that message.
StoreFollows ==
    \A n \in Nodes : \A k \in CacheKeys \ Disputed :
        /\ k \in DOMAIN caches[n].store <=>
              \E m \in got[n] : m.key = k /\ ~Deletes(m)
        /\ \A m \in got[n] : m.key = k /\ ~Deletes(m) => caches[n].store[k] = m.value

CaIInv == GotPublishable /\ CaTypeOK /\ CaStoreKeepsMap /\ StoreFollows

LEMMA CacheMessageIs ==
    \A m \in CaMessages : m.key \in CacheKeys /\ m.value \in CacheValues
BY CaAssumption DEF IsCacheMessage

LEMMA CaInitInv == CaInit => CaIInv
<1> SUFFICES ASSUME CaInit PROVE CaIInv
    OBVIOUS
<1>1. /\ got = [n \in Nodes |-> {}]
      /\ cacheKind \in CacheKinds
      /\ caches = [n \in Nodes |-> [map |-> NoMap, store |-> NoMap]]
      BY DEF CaInit, NetInit
<1>2. NoMap \in [{} -> CacheValues] /\ DOMAIN NoMap = {}
      BY DEF NoMap
<1>3. NoMap \in Partial(CacheKeys, CacheValues)
      BY <1>2 DEF Partial
<1>4. CaTypeOK
      BY <1>1, <1>3 DEF CaTypeOK
<1> QED BY <1>1, <1>2, <1>4 DEF CaIInv, GotPublishable, CaStoreKeepsMap, StoreFollows

\* What a map has after a key was put, or taken away.
LEMMA WithIs ==
    ASSUME NEW f \in Partial(CacheKeys, CacheValues), NEW k \in CacheKeys,
           NEW v \in CacheValues
    PROVE  /\ With(f, k, v) \in Partial(CacheKeys, CacheValues)
           /\ DOMAIN With(f, k, v) = DOMAIN f \cup {k}
           /\ With(f, k, v)[k] = v
           /\ \A x \in DOMAIN f \ {k} : With(f, k, v)[x] = f[x]
<1>1. PICK D \in SUBSET CacheKeys : f \in [D -> CacheValues]
      BY DEF Partial
<1>2. With(f, k, v) \in [D \cup {k} -> CacheValues]
      BY <1>1 DEF With
<1>3. D \cup {k} \in SUBSET CacheKeys
      OBVIOUS
<1> QED BY <1>1, <1>2, <1>3 DEF Partial, With

LEMMA WithoutIs ==
    ASSUME NEW f \in Partial(CacheKeys, CacheValues), NEW k
    PROVE  /\ Without(f, k) \in Partial(CacheKeys, CacheValues)
           /\ DOMAIN Without(f, k) = DOMAIN f \ {k}
           /\ \A x \in DOMAIN f \ {k} : Without(f, k)[x] = f[x]
<1>1. PICK D \in SUBSET CacheKeys : f \in [D -> CacheValues]
      BY DEF Partial
<1>2. Without(f, k) \in [D \ {k} -> CacheValues]
      BY <1>1 DEF Without
<1>3. D \ {k} \in SUBSET CacheKeys
      OBVIOUS
<1> QED BY <1>1, <1>2, <1>3 DEF Partial, Without

\* A message, taken by a cache of any kind.
LEMMA TakeStep ==
    ASSUME CaIInv, NEW n \in Nodes, NEW m \in CaMessages, Receive(n, m),
           cacheKind' = cacheKind,
           caches' = [caches EXCEPT ![n] = IF Deletes(m) THEN Deleted(caches[n], m)
                                           ELSE Inserted(caches[n], m)]
    PROVE  CaIInv'
<1>1. GotPublishable /\ CaTypeOK /\ CaStoreKeepsMap /\ StoreFollows
      BY DEF CaIInv
<1>2. m \notin got[n] /\ got' = [got EXCEPT ![n] = @ \cup {m}]
      BY DEF Receive
<1>3. GotPublishable'
      BY <1>1, <1>2 DEF GotPublishable
<1>4. m.key \in CacheKeys /\ m.value \in CacheValues
      BY CacheMessageIs
<1> DEFINE c == caches[n]
           d == IF Deletes(m) THEN Deleted(c, m) ELSE Inserted(c, m)
<1>5. /\ c.map \in Partial(CacheKeys, CacheValues)
      /\ c.store \in Partial(CacheKeys, CacheValues)
      BY <1>1 DEF CaTypeOK
<1>6. /\ d \in [map : Partial(CacheKeys, CacheValues),
                store : Partial(CacheKeys, CacheValues)]
      /\ Deletes(m) => /\ DOMAIN d.map = DOMAIN c.map \ {m.key}
                       /\ DOMAIN d.store = DOMAIN c.store \ {m.key}
      /\ ~Deletes(m) => /\ DOMAIN d.map = DOMAIN c.map \cup {m.key}
                        /\ DOMAIN d.store = DOMAIN c.store \cup {m.key}
                        /\ d.map[m.key] = m.value /\ d.store[m.key] = m.value
      /\ \A x \in DOMAIN c.map \ {m.key} : d.map[x] = c.map[x]
      /\ \A x \in DOMAIN c.store \ {m.key} : d.store[x] = c.store[x]
      /\ c.map = c.store => d.map = d.store
  <2> HIDE DEF c
  <2>1. CASE Deletes(m)
    <3>1. d = [map |-> Without(c.map, m.key), store |-> Without(c.store, m.key)]
          BY <2>1 DEF Deleted
    <3> DEFINE a == Without(c.map, m.key)
               b == Without(c.store, m.key)
    <3>2. /\ a \in Partial(CacheKeys, CacheValues) /\ DOMAIN a = DOMAIN c.map \ {m.key}
          /\ \A x \in DOMAIN c.map \ {m.key} : a[x] = c.map[x]
          BY <1>5, WithoutIs
    <3>3. /\ b \in Partial(CacheKeys, CacheValues) /\ DOMAIN b = DOMAIN c.store \ {m.key}
          /\ \A x \in DOMAIN c.store \ {m.key} : b[x] = c.store[x]
          BY <1>5, WithoutIs
    <3>4. c.map = c.store => a = b
          OBVIOUS
    <3> HIDE DEF a, b
    <3>5. /\ d \in [map : Partial(CacheKeys, CacheValues),
                    store : Partial(CacheKeys, CacheValues)]
          /\ d.map = a /\ d.store = b
          BY <3>1, <3>2, <3>3 DEF a, b
    <3> HIDE DEF d
    <3> QED BY <2>1, <3>2, <3>3, <3>4, <3>5
  <2>2. CASE ~Deletes(m)
    <3> DEFINE k == m.key
               v == m.value
               a == With(c.map, k, v)
               b == With(c.store, k, v)
    <3>1. d = [map |-> a, store |-> b]
          BY <2>2 DEF Inserted
    <3>2. k \in CacheKeys /\ v \in CacheValues
          BY <1>4
    <3> HIDE DEF k, v
    <3>3. /\ a \in Partial(CacheKeys, CacheValues) /\ DOMAIN a = DOMAIN c.map \cup {k}
          /\ a[k] = v /\ \A x \in DOMAIN c.map \ {k} : a[x] = c.map[x]
          BY <3>2, <1>5, WithIs
    <3>4. /\ b \in Partial(CacheKeys, CacheValues) /\ DOMAIN b = DOMAIN c.store \cup {k}
          /\ b[k] = v /\ \A x \in DOMAIN c.store \ {k} : b[x] = c.store[x]
          BY <3>2, <1>5, WithIs
    <3>5. c.map = c.store => a = b
          OBVIOUS
    <3> HIDE DEF a, b
    <3>6. /\ d \in [map : Partial(CacheKeys, CacheValues),
                    store : Partial(CacheKeys, CacheValues)]
          /\ d.map = a /\ d.store = b
          BY <3>1, <3>3, <3>4 DEF a, b
    <3> HIDE DEF d
    <3> QED BY <2>2, <3>3, <3>4, <3>5, <3>6 DEF k, v
  <2> QED BY <2>1, <2>2
<1> HIDE DEF d
<1>7. /\ caches' \in [Nodes -> [map : Partial(CacheKeys, CacheValues),
                                store : Partial(CacheKeys, CacheValues)]]
      /\ caches'[n] = d
      /\ \A x \in Nodes \ {n} : caches'[x] = caches[x]
      BY <1>1, <1>6 DEF CaTypeOK, d
<1>8. CaTypeOK'
      BY <1>1, <1>7 DEF CaTypeOK
<1>9. CaStoreKeepsMap'
  <2> SUFFICES ASSUME NEW x \in Nodes
               PROVE  /\ \A k \in DOMAIN caches'[x].map :
                            /\ k \in DOMAIN caches'[x].store
                            /\ caches'[x].store[k] = caches'[x].map[k]
                      /\ x \notin MayReset => caches'[x].store = caches'[x].map
      BY DEF CaStoreKeepsMap
  <2>1. CASE x # n
        BY <2>1, <1>1, <1>7 DEF CaStoreKeepsMap
  <2>2. CASE x = n
    <3>1. /\ \A k \in DOMAIN c.map : k \in DOMAIN c.store /\ c.store[k] = c.map[k]
          /\ n \notin MayReset => c.store = c.map
          BY <1>1 DEF CaStoreKeepsMap
    <3> HIDE DEF c
    <3>2. \A k \in DOMAIN d.map : k \in DOMAIN d.store /\ d.store[k] = d.map[k]
          BY <3>1, <1>6
    <3> QED BY <2>2, <3>1, <3>2, <1>6, <1>7
  <2> QED BY <2>1, <2>2
<1>10. StoreFollows'
  <2>1. Published \subseteq Published' /\ m \in Published'
        BY <1>1, <1>2 DEF Published, GotPublishable
  <2>2. Disputed \subseteq Disputed'
        BY <2>1 DEF Disputed
  <2>3. \A y : Deletes(y)' <=> Deletes(y)
        BY DEF Deletes
  <2> SUFFICES ASSUME NEW x \in Nodes, NEW k \in CacheKeys, k \notin Disputed'
               PROVE  /\ k \in DOMAIN caches'[x].store <=>
                            \E y \in got'[x] : y.key = k /\ ~Deletes(y)
                      /\ \A y \in got'[x] : y.key = k /\ ~Deletes(y) =>
                            caches'[x].store[k] = y.value
      BY <2>3 DEF StoreFollows
  <2>4. /\ k \in DOMAIN caches[x].store <=> \E y \in got[x] : y.key = k /\ ~Deletes(y)
        /\ \A y \in got[x] : y.key = k /\ ~Deletes(y) => caches[x].store[k] = y.value
        BY <2>2, <1>1 DEF StoreFollows
  <2>5. CASE x # n
        BY <2>4, <2>5, <1>1, <1>2, <1>7 DEF GotPublishable
  <2>6. CASE x = n
    <3>1. got'[n] = got[n] \cup {m}
          BY <1>1, <1>2 DEF GotPublishable
    <3>2. CASE k # m.key
          BY <2>4, <2>6, <3>1, <3>2, <1>6, <1>7 DEF c
    <3>3. CASE k = m.key
      <4>1. \A y \in got[n] : y.key # k
        <5> SUFFICES ASSUME NEW y \in got[n], y.key = k PROVE FALSE
            OBVIOUS
        <5>1. y \in Published' /\ y # m
              BY <2>1, <1>2 DEF Published
        <5> QED BY <5>1, <2>1, <3>3 DEF Disputed
      <4> QED BY <4>1, <2>4, <2>6, <3>1, <3>3, <1>6, <1>7 DEF c
    <3> QED BY <3>2, <3>3
  <2> QED BY <2>5, <2>6
<1> QED BY <1>3, <1>8, <1>9, <1>10 DEF CaIInv

\* A reset takes the map away, and leaves the storage.
LEMMA CaResetStep ==
    ASSUME CaIInv, NEW n \in Nodes, CaReset(n)
    PROVE  CaIInv'
<1>1. GotPublishable /\ CaTypeOK /\ CaStoreKeepsMap /\ StoreFollows
      BY DEF CaIInv
<1>2. /\ n \in MayReset /\ got' = got /\ cacheKind' = cacheKind
      /\ caches' = [caches EXCEPT ![n] = [caches[n] EXCEPT !.map = NoMap]]
      BY DEF CaReset, Reset
<1> DEFINE d == [caches[n] EXCEPT !.map = NoMap]
<1>3. NoMap \in [{} -> CacheValues] /\ DOMAIN NoMap = {}
      BY DEF NoMap
<1>4. NoMap \in Partial(CacheKeys, CacheValues)
      BY <1>3 DEF Partial
<1>5. /\ d \in [map : Partial(CacheKeys, CacheValues),
                store : Partial(CacheKeys, CacheValues)]
      /\ d.map = NoMap /\ d.store = caches[n].store
      BY <1>1, <1>4 DEF CaTypeOK
<1> HIDE DEF d
<1>6. /\ caches' \in [Nodes -> [map : Partial(CacheKeys, CacheValues),
                                store : Partial(CacheKeys, CacheValues)]]
      /\ caches'[n] = d
      /\ \A x \in Nodes \ {n} : caches'[x] = caches[x]
      /\ \A x \in Nodes : caches'[x].store = caches[x].store
      BY <1>1, <1>2, <1>5 DEF CaTypeOK, d
<1>7. CaTypeOK' /\ GotPublishable'
      BY <1>1, <1>2, <1>6 DEF CaTypeOK, GotPublishable
<1>8. CaStoreKeepsMap'
      BY <1>1, <1>2, <1>3, <1>5, <1>6 DEF CaStoreKeepsMap
<1>9. StoreFollows'
      BY <1>1, <1>2, <1>6 DEF StoreFollows, Disputed, Published, Deletes
<1> QED BY <1>7, <1>8, <1>9 DEF CaIInv

LEMMA CaNextInv == CaIInv /\ [CaNext]_caVars => CaIInv'
<1> SUFFICES ASSUME CaIInv, [CaNext]_caVars PROVE CaIInv'
    OBVIOUS
<1>1. ASSUME NEW n \in Nodes, NEW m \in CaMessages,
             TakeCached(n, m) \/ TakePooled(n, m) \/ TakeDocument(n, m)
      PROVE  CaIInv'
      BY <1>1, TakeStep DEF TakeCached, TakePooled, TakeDocument, Deletes
<1>2. ASSUME NEW n \in Nodes, CaReset(n) PROVE CaIInv'
      BY <1>2, CaResetStep
<1>3. CASE UNCHANGED caVars
      BY <1>3 DEF caVars, CaIInv, GotPublishable, CaTypeOK, CaStoreKeepsMap,
         StoreFollows, Disputed, Published, Deletes
<1> QED BY <1>1, <1>2, <1>3 DEF CaNext

\* Nodes that took the same have stored the same.
LEMMA CachesAgree == CaIInv => CaInv
<1> SUFFICES ASSUME CaIInv PROVE CaAgree
    BY DEF CaIInv, CaInv
<1> SUFFICES ASSUME NEW n1 \in Nodes, NEW n2 \in Nodes, got[n1] = got[n2],
                    NEW k \in CacheKeys \ Disputed
             PROVE  /\ k \in DOMAIN caches[n1].store <=> k \in DOMAIN caches[n2].store
                    /\ k \in DOMAIN caches[n1].store =>
                            caches[n1].store[k] = caches[n2].store[k]
    BY DEF CaAgree
<1> QED BY DEF CaIInv, StoreFollows

\* Map and storage of a cache stay together, without a reset they are the same;
\* nodes that took the same messages in whatever order agree on every key that
\* one message is about (insert and delete of the caches in core_objects.rs).
THEOREM CachesStayTogether == CaSpec => []CaInv
<1>1. CaIInv => CaInv
      BY CachesAgree
<1> QED BY <1>1, CaInitInv, CaNextInv, PTL DEF CaSpec

-----------------------------------------------------------------------------
(* Merkelized objects *)

KnownDigests ==
    {m.name : m \in AllMessages} \cup {m.hash : m \in AllMessages} \cup AddedDigests

IsObject(o) ==
    /\ DOMAIN o = {"messages", "digests", "heads", "frontiers", "utxos", "balances"}
    /\ o.messages \in Seq(Messages[kind])
    /\ o.digests \in Seq(KnownDigests)
    /\ o.balances \in [BalanceAccounts -> Floats]

\* The index of digests has all messages, and in a log nothing else.
IndexOK(o, s) ==
    /\ ToSet(o.digests) \subseteq Names(o) \cup AddedDigests
    /\ Names(o) \subseteq ToSet(o.digests)
    /\ kind = "log" => Len(o.digests) = Len(o.messages)
    /\ {m.hash : m \in ToSet(o.messages)} \subseteq s
    /\ \A h \in DOMAIN o.frontiers : o.frontiers[h] \in 0 .. Len(o.messages)
    /\ o.utxos \subseteq {m.on : m \in Messages["utxo"]}

\* A content that says what it builds on came after that.
HeadsOK(o) ==
    /\ o.heads \subseteq Names(o)
    /\ kind # "log" =>
        \A m \in ToSet(o.messages) : SaysParents(m) => ParentDigests(m) \subseteq Names(o)
    /\ (\A m \in ToSet(o.messages) : SaysParents(m)) /\ kind # "log" =>
        o.heads = Names(o) \ UNION {ParentDigests(m) : m \in ToSet(o.messages)}

\* The outputs that the messages add and no later one spends.
Unspent(log) ==
    {log[i].on : i \in {j \in DOMAIN log :
        /\ log[j].action = "add"
        /\ \A l \in j + 1 .. Len(log) : log[l].action = "spend" => log[l].on # log[j].on}}

UtxosOK(o) == kind = "utxo" => o.utxos = Unspent(o.messages)

ValueOK(o) ==
    kind = "balance" =>
        /\ (\A m \in ToSet(o.messages) : m.amount >= 0) =>
              \A a \in BalanceAccounts : o.balances[a] >= 0
        /\ Turnover(o.messages, Len(o.messages)) <= Exact =>
              /\ \A a \in BalanceAccounts :
                    /\ o.balances[a] <= Turnover(o.messages, Len(o.messages))
                    /\ -o.balances[a] <= Turnover(o.messages, Len(o.messages))
              /\ SumOver(BalanceAccounts, o.balances) =
                    SumTo([i \in DOMAIN o.messages |-> Gained(o.messages[i])],
                          Len(o.messages))

\* No digest is that of two messages of a log, and the index has them in the
\* order of the log, unless it has digests without a message.
IndexFollowsLog(o) ==
    /\ \A i, j \in DOMAIN o.messages :
          Digest(o.messages[i]) = Digest(o.messages[j]) => i = j
    /\ \/ \E d \in ToSet(o.digests) : d \notin Names(o)
       \/ /\ Len(o.digests) = Len(o.messages)
          /\ \A i \in DOMAIN o.messages : o.digests[i] = Digest(o.messages[i])

\* Each block names the one before it.
ChainOK(o) ==
    kind = "blockchain" =>
        \A i \in DOMAIN o.messages :
            o.messages[i].previous = IF i = 1 THEN NoDigest ELSE o.messages[i - 1].name

\* The heads of a DAG after each of its messages.
IsHeads(hs, o) ==
    /\ hs[0] = {}
    /\ \A i \in 1 .. Len(o.messages) :
          /\ hs[i] = (hs[i - 1] \ ParentDigests(o.messages[i])) \cup {o.messages[i].name}
          /\ o.messages[i].hasParents => o.messages[i].parents \subseteq hs[i - 1]
    /\ hs[Len(o.messages)] = o.heads
    /\ \A h \in DOMAIN o.frontiers : hs[o.frontiers[h]] = h

DagOK(o) == kind = "dag" => \E hs : IsHeads(hs, o)

LogOK(o) == IndexFollowsLog(o) /\ ChainOK(o) /\ DagOK(o)

ObjectOK(o, s) ==
    IsObject(o) /\ IndexOK(o, s) /\ HeadsOK(o) /\ UtxosOK(o) /\ ValueOK(o) /\ LogOK(o)

\* An answer is what an object had after a digest, when it was asked.
IsAnswer(messages, since) ==
    \E o, s :
        /\ ObjectOK(o, s)
        /\ Skipped(o, since) <= Len(o.messages)
        /\ messages = SubSeq(o.messages, Skipped(o, since) + 1, Len(o.messages))

AskedOK(a) ==
    \/ a = <<>>
    \/ Len(a) = 1 /\ a = <<a[1]>> /\ a[1].of \in Nodes
    \/ Len(a) = 2 /\ a[1].of \in Nodes /\ IsAnswer(a[2], a[1].since)

\* Without a reset, what is stored is in the index, and so is what was asked with.
Remembers(o, s) ==
    \A m \in Messages[kind] : m.hash \in s => Digest(m) \in ToSet(o.digests)

Had(o, since) ==
    IF kind = "dag" THEN since \subseteq Names(o)
    ELSE since \in ToSet(o.digests) \cup {NoDigest}

Kept(o, s, a) == Remembers(o, s) /\ (a # <<>> => Had(o, a[1].since))

ObjectsOK ==
    /\ kind \in CoreKinds
    /\ listening \subseteq Nodes
    /\ DOMAIN obj = Nodes /\ DOMAIN stored = Nodes /\ DOMAIN asked = Nodes
    /\ \A n \in Nodes : ObjectOK(obj[n], stored[n]) /\ AskedOK(asked[n])
    /\ \A n \in Nodes \ MayReset : Kept(obj[n], stored[n], asked[n])

LEMMA FloatsAreInt == Floats \subseteq Int /\ 0 \in Floats
  BY FloatsAssumption

LEMMA MessageIs ==
    ASSUME kind \in CoreKinds, NEW m \in Messages[kind]
    PROVE  /\ m \in AllMessages /\ IsCoreMessage(m)
           /\ m.amount \in Int /\ m.hasParents \in BOOLEAN
           /\ m.name # NoDigest /\ m.hash # NoDigest /\ Digest(m) # NoDigest
           /\ Digest(m) \in KnownDigests
           /\ kind = "balance" => m.on \in BalanceAccounts /\ m.to \in BalanceAccounts
           /\ kind = "utxo" => m.on \in {e.on : e \in Messages["utxo"]}
<1>1. m \in AllMessages
  BY DEF AllMessages
<1>2. IsCoreMessage(m) /\ m.name # NoDigest /\ m.hash # NoDigest
  BY <1>1, CoreAssumption
<1>3. Digest(m) \in KnownDigests
  BY <1>1 DEF Digest, KnownDigests
<1> QED BY <1>1, <1>2, <1>3, FloatsAreInt DEF IsCoreMessage, BalanceAccounts, Digest

LEMMA SameContent ==
    ASSUME kind \in CoreKinds, NEW m \in Messages[kind], NEW e \in Messages[kind],
           m.name = e.name
    PROVE  /\ m.hasParents = e.hasParents /\ m.parents = e.parents /\ m.previous = e.previous
           /\ ParentDigests(m) = ParentDigests(e)
           /\ SaysParents(m) <=> SaysParents(e)
<1>1. m \in AllMessages /\ e \in AllMessages /\ IsCoreMessage(m)
  BY MessageIs
<1>2. \A f \in DOMAIN m \ {"hash"} : m[f] = e[f]
  BY <1>1, CoreAssumption
<1>3. m.hasParents = e.hasParents /\ m.parents = e.parents /\ m.previous = e.previous
  BY <1>1, <1>2 DEF IsCoreMessage
<1> QED BY <1>3 DEF ParentDigests, SaysParents

\* t is s with one more element.
IsMore(t, s, x) ==
    /\ Len(s) \in Nat /\ Len(t) = Len(s) + 1
    /\ DOMAIN t = 1 .. Len(s) + 1 /\ DOMAIN s = 1 .. Len(s)
    /\ \A i \in 1 .. Len(s) : t[i] = s[i]
    /\ t[Len(s) + 1] = x
    /\ ToSet(t) = ToSet(s) \cup {x}

LEMMA Appended ==
    ASSUME NEW S, NEW s \in Seq(S), NEW x \in S
    PROVE  Append(s, x) \in Seq(S) /\ IsMore(Append(s, x), s, x)
<1>1. /\ Append(s, x) \in Seq(S)
      /\ Len(s) \in Nat /\ Len(Append(s, x)) = Len(s) + 1
      /\ DOMAIN Append(s, x) = 1 .. Len(s) + 1 /\ DOMAIN s = 1 .. Len(s)
      /\ \A i \in 1 .. Len(s) : Append(s, x)[i] = s[i] /\ s[i] \in S
      /\ Append(s, x)[Len(s) + 1] = x
  BY AppendProperties, LenProperties, ElementOfSeq
<1> DEFINE more == Append(s, x)
<1> HIDE DEF more
<1>2. ToSet(more) = ToSet(s) \cup {x}
  <2>1. \A j \in DOMAIN more : more[j] \in ToSet(s) \cup {x}
    BY <1>1 DEF ToSet, more
  <2>2. \A j \in DOMAIN s : s[j] \in ToSet(more)
    BY <1>1 DEF ToSet, more
  <2>3. x \in ToSet(more)
    BY <1>1 DEF ToSet, more
  <2> QED BY <2>1, <2>2, <2>3 DEF ToSet
<1> QED BY <1>1, <1>2 DEF more, IsMore

\* What a message changes that is not in the index yet.
Added(o, m, next) ==
    /\ DOMAIN next = DOMAIN o
    /\ next.messages = Append(o.messages, m)
    /\ next.digests = Append(o.digests, Digest(m))
    /\ next.heads = IF kind = "log" THEN o.heads
                    ELSE (o.heads \ ParentDigests(m)) \cup {m.name}
    /\ next.frontiers = IF kind # "dag" THEN o.frontiers
                        ELSE [h \in DOMAIN o.frontiers \cup {next.heads} |->
                                IF h = next.heads THEN Len(next.messages)
                                ELSE o.frontiers[h]]
    /\ next.utxos = IF kind # "utxo" THEN o.utxos
                    ELSE IF m.action = "add" THEN o.utxos \cup {m.on}
                    ELSE o.utxos \ {m.on}
    /\ next.balances = IF kind = "balance" THEN Moved(o.balances, m) ELSE o.balances

LEMMA AddMessageIs ==
    ASSUME kind \in CoreKinds, NEW o, IsObject(o), NEW m, ~Contains(o.digests, Digest(m))
    PROVE  Added(o, m, AddMessage(o, m))
<1> DEFINE r == RecordMessage(o, m)
           l == LogMessage(o, m)
<1>1. /\ DOMAIN r = DOMAIN o
      /\ r.messages = Append(o.messages, m) /\ r.digests = Append(o.digests, m.name)
      /\ r.heads = (o.heads \ ParentDigests(m)) \cup {m.name}
      /\ r.frontiers = o.frontiers /\ r.utxos = o.utxos /\ r.balances = o.balances
  BY DEF RecordMessage, IsObject
<1>2. /\ DOMAIN l = DOMAIN o
      /\ l.messages = Append(o.messages, m) /\ l.digests = Append(o.digests, m.hash)
      /\ l.heads = o.heads
      /\ l.frontiers = o.frontiers /\ l.utxos = o.utxos /\ l.balances = o.balances
  BY DEF LogMessage, IsObject
<1>3. AddMessage(o, m) = Effect(Record(o, m), m)
  BY DEF AddMessage
<1>4. DOMAIN o = {"messages", "digests", "heads", "frontiers", "utxos", "balances"}
  BY DEF IsObject
<1>5. CASE kind = "log"
  BY <1>2, <1>3, <1>5 DEF Added, Effect, Record, Digest
<1>6. CASE kind = "utxo"
  <2>1. AddMessage(o, m) = UtxoEffect(r, m)
    BY <1>3, <1>6 DEF Effect, Record
  <2> HIDE DEF r
  <2> QED BY <1>1, <1>4, <1>6, <2>1 DEF Added, UtxoEffect, Digest
<1>7. CASE kind = "balance"
  <2>1. AddMessage(o, m) = BalanceEffect(r, m)
    BY <1>3, <1>7 DEF Effect, Record
  <2> HIDE DEF r
  <2> QED BY <1>1, <1>4, <1>7, <2>1 DEF Added, BalanceEffect, Digest
<1>8. CASE kind = "dag"
  <2>1. AddMessage(o, m) = DagEffect(r, m)
    BY <1>3, <1>8 DEF Effect, Record
  <2> HIDE DEF r
  <2> DEFINE next == DagEffect(r, m)
  <2>2. /\ DOMAIN next = DOMAIN o
        /\ next.messages = r.messages /\ next.digests = r.digests /\ next.heads = r.heads
        /\ next.frontiers = WithFrontier(r, Len(r.messages))
        /\ next.utxos = r.utxos /\ next.balances = r.balances
    BY <1>1, <1>4 DEF DagEffect
  <2> HIDE DEF next
  <2>3. next.frontiers = [h \in DOMAIN o.frontiers \cup {next.heads} |->
                            IF h = next.heads THEN Len(next.messages)
                            ELSE o.frontiers[h]]
    BY <1>1, <2>2 DEF WithFrontier
  <2> QED BY <1>1, <1>8, <2>1, <2>2, <2>3 DEF Added, Digest, next
<1>9. CASE kind \notin {"log", "utxo", "balance", "dag"}
  BY <1>1, <1>3, <1>9 DEF Added, Effect, Record, Digest
<1> QED BY <1>5, <1>6, <1>7, <1>8, <1>9

\* The log and the index of the object after that.
Indexed(o, m, next) ==
    /\ IsMore(next.messages, o.messages, m)
    /\ IsMore(next.digests, o.digests, Digest(m))
    /\ Names(next) = Names(o) \cup {Digest(m)}
    /\ Digest(m) \notin ToSet(o.digests)
    /\ next.messages \in Seq(Messages[kind]) /\ next.digests \in Seq(KnownDigests)

LEMMA AddedIndex ==
    ASSUME kind \in CoreKinds, NEW o, IsObject(o), NEW m \in Messages[kind],
           ~Contains(o.digests, Digest(m)), NEW next, Added(o, m, next)
    PROVE  Indexed(o, m, next)
<1>1. o.messages \in Seq(Messages[kind]) /\ o.digests \in Seq(KnownDigests)
  BY DEF IsObject
<1>2. Digest(m) \in KnownDigests
  BY MessageIs
<1>3. next.messages = Append(o.messages, m) /\ next.digests = Append(o.digests, Digest(m))
  BY DEF Added
<1>4. IsMore(next.messages, o.messages, m) /\ next.messages \in Seq(Messages[kind])
  BY <1>1, <1>3, Appended
<1>5. IsMore(next.digests, o.digests, Digest(m)) /\ next.digests \in Seq(KnownDigests)
  BY <1>1, <1>2, <1>3, Appended
<1>6. Names(next) = {Digest(e) : e \in ToSet(next.messages)}
  BY DEF Names, ToSet
<1>7. Names(o) = {Digest(e) : e \in ToSet(o.messages)}
  BY DEF Names, ToSet
<1>8. Digest(m) \notin ToSet(o.digests)
  BY <1>1, LenProperties DEF Contains, ToSet
<1> QED BY <1>4, <1>5, <1>6, <1>7, <1>8 DEF Indexed, IsMore

LEMMA AddedKeepsIndex ==
    ASSUME kind \in CoreKinds, NEW o, NEW s, IsObject(o), IndexOK(o, s),
           NEW m \in Messages[kind], IsValid(o, m), ~Contains(o.digests, Digest(m)),
           NEW next, Added(o, m, next)
    PROVE  IndexOK(next, s \cup {m.hash})
<1>0. Indexed(o, m, next)
  BY AddedIndex
<1>1. /\ ToSet(next.messages) = ToSet(o.messages) \cup {m}
      /\ ToSet(next.digests) = ToSet(o.digests) \cup {Digest(m)}
      /\ Names(next) = Names(o) \cup {Digest(m)}
      /\ Len(next.messages) = Len(o.messages) + 1 /\ Len(o.messages) \in Nat
      /\ Len(next.digests) = Len(o.digests) + 1 /\ Len(o.digests) \in Nat
  BY <1>0 DEF Indexed, IsMore
<1>2. ToSet(next.digests) \subseteq Names(next) \cup AddedDigests
  BY <1>1 DEF IndexOK
<1>3. Names(next) \subseteq ToSet(next.digests)
  BY <1>1 DEF IndexOK
<1>4. kind = "log" => Len(next.digests) = Len(next.messages)
  BY <1>1 DEF IndexOK
<1>5. {e.hash : e \in ToSet(next.messages)} \subseteq s \cup {m.hash}
  BY <1>1 DEF IndexOK
<1>6. ASSUME NEW h \in DOMAIN next.frontiers
      PROVE  next.frontiers[h] \in 0 .. Len(next.messages)
  <2>1. CASE kind = "dag"
    <3>1. next.frontiers = [g \in DOMAIN o.frontiers \cup {next.heads} |->
                              IF g = next.heads THEN Len(next.messages)
                              ELSE o.frontiers[g]]
      BY <2>1 DEF Added
    <3>2. \A g \in DOMAIN o.frontiers : o.frontiers[g] \in 0 .. Len(o.messages)
      BY DEF IndexOK
    <3>3. CASE h = next.heads
      <4>1. next.frontiers[h] = Len(next.messages)
        BY <1>6, <3>1, <3>3
      <4> QED BY <1>1, <4>1
    <3>4. CASE h # next.heads
      <4>1. h \in DOMAIN o.frontiers /\ next.frontiers[h] = o.frontiers[h]
        BY <1>6, <3>1, <3>4
      <4> QED BY <1>1, <3>2, <4>1
    <3> QED BY <3>3, <3>4
  <2>2. CASE kind # "dag"
    <3>1. next.frontiers = o.frontiers
      BY <2>2 DEF Added
    <3> QED BY <1>1, <1>6, <3>1 DEF IndexOK
  <2> QED BY <2>1, <2>2
<1>7. next.utxos \subseteq {e.on : e \in Messages["utxo"]}
  <2>1. kind = "utxo" => m.on \in {e.on : e \in Messages["utxo"]}
    BY MessageIs
  <2> QED BY <2>1 DEF IndexOK, Added
<1> QED BY <1>2, <1>3, <1>4, <1>5, <1>6, <1>7 DEF IndexOK


\* A valid content that says what it builds on builds on what is there.
LEMMA BuildsOnKnown ==
    ASSUME kind \in CoreKinds, NEW o, IsObject(o), NEW m \in Messages[kind], IsValid(o, m),
           SaysParents(m), kind # "log"
    PROVE  ParentDigests(m) \subseteq Names(o)
<1>1. m.hasParents \in BOOLEAN
  BY MessageIs
<1>2. CASE kind = "dag"
  BY <1>1, <1>2 DEF IsValid, IsValidDag, SaysParents, ParentDigests
<1>3. CASE kind = "blockchain"
  <2>1. ~m.hasParents /\ ParentDigests(m) = {m.previous} \ {NoDigest}
    BY <1>3 DEF SaysParents, ParentDigests
  <2>2. m.previous = IF o.messages = <<>> THEN NoDigest ELSE Last(o.messages).name
    BY <1>3 DEF IsValid, IsValidBlock
  <2>3. o.messages # <<>> => Last(o.messages).name \in Names(o)
    <3>1. o.messages \in Seq(Messages[kind])
      BY DEF IsObject
    <3>2. ASSUME o.messages # <<>> PROVE Len(o.messages) \in DOMAIN o.messages
      <4>1. Len(o.messages) # 0
        BY <3>1, <3>2, EmptySeq
      <4> QED BY <3>1, <4>1, LenProperties
    <3> QED BY <1>3, <3>2 DEF Last, Names, Digest
  <2> QED BY <2>1, <2>2, <2>3
<1> QED BY <1>2, <1>3 DEF SaysParents

LEMMA AddedKeepsHeads ==
    ASSUME kind \in CoreKinds, NEW o, NEW s, IsObject(o), IndexOK(o, s), HeadsOK(o),
           NEW m \in Messages[kind], IsValid(o, m), ~Contains(o.digests, Digest(m)),
           NEW next, Added(o, m, next)
    PROVE  HeadsOK(next)
<1>0. Indexed(o, m, next)
  BY AddedIndex
<1>1. /\ ToSet(next.messages) = ToSet(o.messages) \cup {m}
      /\ Names(next) = Names(o) \cup {Digest(m)}
      /\ Digest(m) \notin Names(o)
  BY <1>0 DEF Indexed, IsMore, IndexOK
<1>2. CASE kind = "log"
  BY <1>1, <1>2 DEF Added, HeadsOK
<1>3. CASE kind # "log"
  <2>1. Digest(m) = m.name /\ next.heads = (o.heads \ ParentDigests(m)) \cup {m.name}
    BY <1>3 DEF Digest, Added
  <2>2. SaysParents(m) => ParentDigests(m) \subseteq Names(o)
    BY <1>3, BuildsOnKnown
  <2>3. next.heads \subseteq Names(next)
    BY <1>1, <2>1 DEF HeadsOK
  <2>4. \A e \in ToSet(next.messages) :
            SaysParents(e) => ParentDigests(e) \subseteq Names(next)
    BY <1>1, <1>3, <2>2 DEF HeadsOK
  <2>5. ASSUME \A e \in ToSet(next.messages) : SaysParents(e)
        PROVE  next.heads =
                Names(next) \ UNION {ParentDigests(e) : e \in ToSet(next.messages)}
    <3> DEFINE known == UNION {ParentDigests(e) : e \in ToSet(o.messages)}
    <3>1. UNION {ParentDigests(e) : e \in ToSet(next.messages)} = known \cup ParentDigests(m)
      BY <1>1
    <3>2. o.heads = Names(o) \ known
      BY <1>1, <1>3, <2>5 DEF HeadsOK
    <3>3. known \subseteq Names(o)
      BY <1>1, <1>3, <2>5 DEF HeadsOK
    <3>4. ParentDigests(m) \subseteq Names(o)
      BY <1>1, <2>2, <2>5
    <3> HIDE DEF known
    <3> QED BY <1>1, <2>1, <3>1, <3>2, <3>3, <3>4
  <2> QED BY <2>3, <2>4, <2>5 DEF HeadsOK
<1> QED BY <1>2, <1>3

LEMMA AddedKeepsUtxos ==
    ASSUME kind \in CoreKinds, NEW o, IsObject(o), UtxosOK(o),
           NEW m \in Messages[kind], IsValid(o, m), ~Contains(o.digests, Digest(m)),
           NEW next, Added(o, m, next)
    PROVE  UtxosOK(next)
<1> SUFFICES ASSUME kind = "utxo" PROVE next.utxos = Unspent(next.messages)
  BY DEF UtxosOK
<1>0. Indexed(o, m, next)
  BY AddedIndex
<1> DEFINE log == o.messages
           more == next.messages
           k == Len(log)
<1>1. /\ k \in Nat /\ Len(more) = k + 1
      /\ DOMAIN more = 1 .. k + 1 /\ DOMAIN log = 1 .. k
      /\ \A i \in 1 .. k : more[i] = log[i]
      /\ more[k + 1] = m
  BY <1>0 DEF Indexed, IsMore
<1>2. o.utxos = Unspent(log)
  BY DEF UtxosOK
<1>3. m.action \in {"add", "spend"}
  BY DEF IsValid, IsValidUtxo
<1>4. next.utxos = IF m.action = "add" THEN o.utxos \cup {m.on} ELSE o.utxos \ {m.on}
  BY DEF Added
<1> HIDE DEF log, more, k
<1> DEFINE Left(s, n, j) == /\ s[j].action = "add"
                            /\ \A l \in j + 1 .. n :
                                  s[l].action = "spend" => s[l].on # s[j].on
<1>5. ASSUME NEW j \in 1 .. k
      PROVE  Left(more, k + 1, j) <=>
                Left(log, k, j) /\ (m.action = "spend" => m.on # log[j].on)
  <2>1. more[j] = log[j] /\ \A l \in j + 1 .. k : more[l] = log[l]
    BY <1>1
  <2>2. \A l \in j + 1 .. k + 1 : l \in j + 1 .. k \/ l = k + 1
    BY <1>1
  <2>3. \A l \in j + 1 .. k : l \in j + 1 .. k + 1
    BY <1>1
  <2>4. k + 1 \in j + 1 .. k + 1
    BY <1>1
  <2> QED BY <1>1, <2>1, <2>2, <2>3, <2>4
<1>6. Left(more, k + 1, k + 1) <=> m.action = "add"
  BY <1>1, <1>3
<1>7. Unspent(log) = {log[i].on : i \in {j \in 1 .. k : Left(log, k, j)}}
  BY <1>1 DEF Unspent, k
<1>8. Unspent(more) = {more[i].on : i \in {j \in 1 .. k + 1 : Left(more, k + 1, j)}}
  BY <1>1 DEF Unspent
<1> HIDE DEF Left
<1>9. \A x : x \in Unspent(log) <=> \E i \in 1 .. k : Left(log, k, i) /\ x = log[i].on
  BY <1>7
<1>10. ASSUME NEW x
       PROVE  x \in Unspent(more) <=>
                \/ m.action = "add" /\ x = m.on
                \/ x \in Unspent(log) /\ (m.action = "spend" => x # m.on)
  <2>1. x \in Unspent(more) <=>
            \E i \in 1 .. k + 1 : Left(more, k + 1, i) /\ x = more[i].on
    BY <1>8
  <2>2. (\E i \in 1 .. k + 1 : Left(more, k + 1, i) /\ x = more[i].on) <=>
            \/ \E i \in 1 .. k : Left(more, k + 1, i) /\ x = more[i].on
            \/ Left(more, k + 1, k + 1) /\ x = more[k + 1].on
    <3>1. \A i \in 1 .. k + 1 : i \in 1 .. k \/ i = k + 1
      BY <1>1
    <3>2. k + 1 \in 1 .. k + 1 /\ \A i \in 1 .. k : i \in 1 .. k + 1
      BY <1>1
    <3> QED BY <3>1, <3>2
  <2> QED BY <1>1, <1>5, <1>6, <1>9, <2>1, <2>2
<1>11. \A x : x \in next.utxos <=>
                \/ m.action = "add" /\ x = m.on
                \/ x \in o.utxos /\ (m.action = "spend" => x # m.on)
  BY <1>3, <1>4
<1> QED BY <1>2, <1>10, <1>11 DEF more

\* A float keeps its value, and none is rounded below nothing.
LEMMA RoundedIs ==
    ASSUME NEW x \in Int
    PROVE  /\ Rounded(x) \in Floats
           /\ x \in Floats => Rounded(x) = x
           /\ x >= 0 => Rounded(x) >= 0
<1>0. Floats \subseteq Int /\ 0 \in Floats
  BY FloatsAreInt
<1>1. PICK y \in Floats : \A z \in Floats : Apart(x, y) <= Apart(x, z)
  <2> DEFINE S == {Apart(x, z) : z \in Floats}
  <2>1. S \subseteq Nat /\ S # {}
    BY <1>0 DEF Apart
  <2>2. PICK d \in S : \A e \in S : d <= e
    <3> HIDE DEF S
    <3> QED BY <2>1, LeastNatural
  <2> QED BY <2>2
<1>2. DEFINE r == Rounded(x)
<1>3. r \in Floats /\ \A z \in Floats : Apart(x, r) <= Apart(x, z)
  BY <1>1 DEF Rounded
<1> HIDE DEF r
<1>4. r \in Int
  BY <1>0, <1>3
<1>5. ASSUME x \in Floats PROVE r = x
  <2>1. Apart(x, r) <= Apart(x, x)
    BY <1>3, <1>5
  <2> QED BY <1>4, <2>1 DEF Apart
<1>6. ASSUME x >= 0 PROVE r >= 0
  <2>1. Apart(x, r) <= Apart(x, 0)
    BY <1>0, <1>3
  <2> QED BY <1>4, <1>6, <2>1 DEF Apart
<1> QED BY <1>3, <1>5, <1>6 DEF r

LEMMA FloatSumIs ==
    ASSUME NEW x \in Floats, NEW y \in Int
    PROVE  /\ FloatSum(x, y) \in Floats
           /\ x >= 0 /\ x + y >= 0 => FloatSum(x, y) >= 0
           /\ x \in -Exact .. Exact /\ x + y \in -Exact .. Exact =>
                FloatSum(x, y) = x + y
<1>1. x \in Int /\ x + y \in Int /\ Exact \in Nat /\ Infinite \in Nat /\ Exact < Infinite
  BY FloatsAssumption
<1>2. x + y \in -Exact .. Exact => x + y \in Floats
  BY FloatsAssumption
<1> DEFINE z == x + y
<1>3. /\ Rounded(z) \in Floats
      /\ z \in Floats => Rounded(z) = z
      /\ z >= 0 => Rounded(z) >= 0
  <2> HIDE DEF z
  <2>1. z \in Int
    BY <1>1 DEF z
  <2> QED BY <2>1, RoundedIs
<1>4. x \in -Exact .. Exact => x # Infinite /\ x # -Infinite
  BY <1>1
<1> QED BY <1>1, <1>2, <1>3, <1>4 DEF FloatSum

\* What a message moves, and the balances of the accounts that it names.
LEMMA MovedIs ==
    ASSUME kind = "balance", NEW b \in [BalanceAccounts -> Floats], NEW m \in Messages[kind],
           m.action \in {"credit", "debit", "transfer"}
    PROVE  /\ Moved(b, m) \in [BalanceAccounts -> Floats]
           /\ Gained(m) \in Int
           /\ /\ m.amount >= 0 /\ \A a \in BalanceAccounts : b[a] >= 0
              /\ m.action \in {"debit", "transfer"} => b[m.on] >= m.amount
              => \A a \in BalanceAccounts : Moved(b, m)[a] >= 0
<1>1. /\ m.on \in BalanceAccounts /\ m.to \in BalanceAccounts
      /\ m.amount \in Int /\ -m.amount \in Int
  BY MessageIs DEF CoreKinds
<1>2. \A a \in BalanceAccounts : b[a] \in Floats /\ b[a] \in Int
  BY FloatsAreInt
<1> DEFINE x == m.amount
           more(a) == FloatSum(b[a], x)
           less(a) == FloatSum(b[a], -x)
<1>3. Moved(b, m) =
        IF m.action = "credit" THEN [b EXCEPT ![m.on] = more(m.on)]
        ELSE IF m.action = "debit" THEN [b EXCEPT ![m.on] = less(m.on)]
        ELSE [b EXCEPT ![m.on] = less(m.on), ![m.to] = more(m.to)]
  BY DEF Moved
<1>4. ASSUME NEW a \in BalanceAccounts
      PROVE  /\ more(a) \in Floats /\ less(a) \in Floats
             /\ b[a] >= 0 /\ x >= 0 => more(a) >= 0
             /\ b[a] >= 0 /\ b[a] >= x => less(a) >= 0
  <2> DEFINE c == b[a]
             y == -x
  <2>1. c \in Floats /\ c \in Int /\ x \in Int /\ y \in Int
    BY <1>1, <1>2
  <2>2. x >= 0 /\ c >= 0 => c + x >= 0
    <3> HIDE DEF c, x
    <3> QED BY <2>1
  <2>3. c >= x => c + y >= 0
    <3> HIDE DEF c, x
    <3> QED BY <2>1
  <2> HIDE DEF c, x, y
  <2>4. /\ FloatSum(c, x) \in Floats
        /\ c >= 0 /\ c + x >= 0 => FloatSum(c, x) >= 0
    BY <2>1, FloatSumIs
  <2>5. /\ FloatSum(c, y) \in Floats
        /\ c >= 0 /\ c + y >= 0 => FloatSum(c, y) >= 0
    BY <2>1, FloatSumIs
  <2> QED BY <2>2, <2>3, <2>4, <2>5 DEF c, x, y
<1>5. Gained(m) \in Int
  BY <1>1 DEF Gained
<1> HIDE DEF more, less, x
<1>6. Moved(b, m) \in [BalanceAccounts -> Floats]
  BY <1>1, <1>3, <1>4
<1>7. ASSUME m.amount >= 0, \A a \in BalanceAccounts : b[a] >= 0,
             m.action \in {"debit", "transfer"} => b[m.on] >= m.amount,
             NEW a \in BalanceAccounts
      PROVE  Moved(b, m)[a] >= 0
  <2>1. /\ more(m.on) >= 0 /\ more(m.to) >= 0
        /\ m.action \in {"debit", "transfer"} => less(m.on) >= 0
    BY <1>1, <1>4, <1>7 DEF x
  <2> QED BY <1>1, <1>3, <1>7, <2>1
<1> QED BY <1>5, <1>6, <1>7

\* Where all sums are counted without a gap, they are exact.
LEMMA MovedExactly ==
    ASSUME kind = "balance", NEW b \in [BalanceAccounts -> Floats], NEW m \in Messages[kind],
           m.action \in {"credit", "debit", "transfer"}, NEW t \in Nat,
           \A a \in BalanceAccounts : b[a] <= t /\ -b[a] <= t,
           t + Apart(m.amount, 0) <= Exact
    PROVE  /\ \A a \in BalanceAccounts :
                /\ Moved(b, m)[a] <= t + Apart(m.amount, 0)
                /\ -Moved(b, m)[a] <= t + Apart(m.amount, 0)
           /\ SumOver(BalanceAccounts, Moved(b, m)) =
                SumOver(BalanceAccounts, b) + Gained(m)
<1>1. /\ m.on \in BalanceAccounts /\ m.to \in BalanceAccounts
      /\ m.amount \in Int /\ -m.amount \in Int
  BY MessageIs DEF CoreKinds
<1>2. /\ IsFiniteSet(BalanceAccounts) /\ Exact \in Nat
      /\ b \in [BalanceAccounts -> Int]
      /\ \A a \in BalanceAccounts : b[a] \in Floats /\ b[a] \in Int
  BY CoreAssumption, FloatsAssumption
<1> DEFINE g == Moved(b, m)
           x == m.amount
           b1 == [b EXCEPT ![m.on] = b[m.on] + -x]
<1>3. ASSUME NEW a \in BalanceAccounts
      PROVE  /\ FloatSum(b[a], x) = b[a] + x /\ FloatSum(b[a], -x) = b[a] + -x
             /\ b[a] + x <= t + Apart(x, 0) /\ -(b[a] + x) <= t + Apart(x, 0)
             /\ b[a] + -x <= t + Apart(x, 0) /\ -(b[a] + -x) <= t + Apart(x, 0)
             /\ b[a] <= t + Apart(x, 0) /\ -b[a] <= t + Apart(x, 0)
  <2> DEFINE c == b[a]
             y == -x
  <2>1. /\ c \in Floats /\ c \in Int /\ x \in Int /\ y \in Int
        /\ c <= t /\ -c <= t /\ t + Apart(x, 0) <= Exact
    BY <1>1, <1>2
  <2>2. /\ c + x <= t + Apart(x, 0) /\ -(c + x) <= t + Apart(x, 0)
        /\ c + y <= t + Apart(x, 0) /\ -(c + y) <= t + Apart(x, 0)
        /\ c <= t + Apart(x, 0) /\ -c <= t + Apart(x, 0)
    <3> HIDE DEF c, x
    <3> QED BY <2>1 DEF Apart
  <2>3. /\ c \in -Exact .. Exact /\ c + x \in -Exact .. Exact
        /\ c + y \in -Exact .. Exact
    <3>1. Apart(x, 0) \in Nat
      BY <2>1 DEF Apart
    <3> DEFINE u == Apart(x, 0)
    <3> HIDE DEF c, x, y, u
    <3>2. /\ t + u <= Exact /\ u \in Nat
          /\ c + x <= t + u /\ -(c + x) <= t + u /\ c + y <= t + u /\ -(c + y) <= t + u
      BY <2>1, <2>2, <3>1 DEF u
    <3> QED BY <1>2, <2>1, <3>2
  <2> HIDE DEF c, x, y
  <2>4. FloatSum(c, x) = c + x /\ FloatSum(c, y) = c + y
    BY <2>1, <2>3, FloatSumIs
  <2> QED BY <2>2, <2>4 DEF c, y
<1>4. g = IF m.action = "credit" THEN [b EXCEPT ![m.on] = b[m.on] + x]
          ELSE IF m.action = "debit" THEN b1
          ELSE [b EXCEPT ![m.on] = b[m.on] + -x, ![m.to] = b[m.to] + x]
  <2>1. /\ FloatSum(b[m.on], x) = b[m.on] + x /\ FloatSum(b[m.to], x) = b[m.to] + x
        /\ FloatSum(b[m.on], -x) = b[m.on] + -x
    BY <1>1, <1>3
  <2> QED BY <2>1 DEF Moved
<1>5. x \in Int /\ -x \in Int
  BY <1>1
<1> HIDE DEF g, x
<1>6. /\ b1 \in [BalanceAccounts -> Int]
      /\ \A c \in BalanceAccounts : b1[c] = IF c = m.on THEN b[m.on] + -x ELSE b[c]
  BY <1>1, <1>2, <1>5
<1> HIDE DEF b1
<1>7. SumOver(BalanceAccounts, b1) = SumOver(BalanceAccounts, b) + -x
  BY <1>1, <1>2, <1>5, <1>6, SumOverChange
<1>8. SumOver(BalanceAccounts, b) \in Int
  BY <1>2, SumOverInt
<1>9. ASSUME \/ m.action = "credit"
             \/ m.action = "transfer" /\ m.on = m.to
      PROVE  SumOver(BalanceAccounts, g) = SumOver(BalanceAccounts, b) + Gained(m)
  <2>1. Gained(m) = x
    BY <1>9 DEF Gained, x
  <2>2. /\ g \in [BalanceAccounts -> Int]
        /\ \A c \in BalanceAccounts : g[c] = IF c = m.on THEN b[m.on] + x ELSE b[c]
    BY <1>1, <1>2, <1>4, <1>5, <1>9
  <2> QED BY <1>1, <1>2, <1>5, <2>1, <2>2, SumOverChange
<1>10. ASSUME m.action = "debit"
       PROVE  SumOver(BalanceAccounts, g) = SumOver(BalanceAccounts, b) + Gained(m)
  <2>1. Gained(m) = -x /\ g = b1
    BY <1>4, <1>10 DEF Gained, x
  <2> QED BY <1>7, <2>1
<1>11. ASSUME m.action = "transfer", m.on # m.to
       PROVE  SumOver(BalanceAccounts, g) = SumOver(BalanceAccounts, b) + Gained(m)
  <2>1. Gained(m) = 0
    BY <1>11 DEF Gained
  <2>2. /\ g \in [BalanceAccounts -> Int]
        /\ \A c \in BalanceAccounts : g[c] = IF c = m.to THEN b1[m.to] + x ELSE b1[c]
    BY <1>1, <1>2, <1>4, <1>5, <1>6, <1>11
  <2>3. SumOver(BalanceAccounts, g) = SumOver(BalanceAccounts, b1) + x
    BY <1>1, <1>2, <1>5, <1>6, <2>2, SumOverChange
  <2> QED BY <1>5, <1>7, <1>8, <2>1, <2>3
<1>12. ASSUME NEW a \in BalanceAccounts
       PROVE  g[a] \in {b[a], b[a] + x, b[a] + -x}
  BY <1>1, <1>2, <1>4, <1>5, <1>6
<1>13. ASSUME NEW a \in BalanceAccounts
       PROVE  g[a] <= t + Apart(x, 0) /\ -g[a] <= t + Apart(x, 0)
  BY <1>3, <1>12
<1> QED BY <1>9, <1>10, <1>11, <1>13 DEF g, x

\* With every message a log moves as much more.
LEMMA TurnoverNext ==
    ASSUME kind = "balance", NEW log \in Seq(Messages[kind]),
           NEW more \in Seq(Messages[kind]), NEW m \in Messages[kind],
           Len(more) = Len(log) + 1, more[Len(log) + 1] = m,
           \A i \in 1 .. Len(log) : more[i] = log[i]
    PROVE  /\ Turnover(log, Len(log)) \in Nat
           /\ Turnover(more, Len(more)) = Turnover(log, Len(log)) + Apart(m.amount, 0)
<1> DEFINE k == Len(log)
           f == [i \in DOMAIN log |-> Apart(log[i].amount, 0)]
           g == [i \in DOMAIN more |-> Apart(more[i].amount, 0)]
<1>1. k \in Nat /\ DOMAIN log = 1 .. k /\ DOMAIN more = 1 .. k + 1
  BY LenProperties
<1>2. \A e \in Messages[kind] : Apart(e.amount, 0) \in Nat
  BY MessageIs DEF CoreKinds, Apart
<1>3. \A i \in 1 .. k : log[i] \in Messages[kind]
  BY ElementOfSeq
<1>4. /\ \A i \in 1 .. k : f[i] \in Nat /\ g[i] = f[i]
      /\ g[k + 1] = Apart(m.amount, 0)
  BY <1>1, <1>2, <1>3
<1>5. SumTo(f, k) \in Nat /\ SumTo(g, k + 1) = SumTo(f, k) + g[k + 1]
  <2> HIDE DEF f, g, k
  <2>1. \A i \in 1 .. k : f[i] \in Nat
    BY <1>4
  <2>2. \A i \in 1 .. k : g[i] = f[i]
    BY <1>4
  <2> QED BY <1>1, <2>1, <2>2, SumNat, SumMore
<1> QED BY <1>4, <1>5 DEF Turnover


LEMMA AddedKeepsValue ==
    ASSUME kind \in CoreKinds, NEW o, IsObject(o), ValueOK(o),
           NEW m \in Messages[kind], IsValid(o, m), ~Contains(o.digests, Digest(m)),
           NEW next, Added(o, m, next)
    PROVE  ValueOK(next) /\ next.balances \in [BalanceAccounts -> Floats]
<1>0. Indexed(o, m, next) /\ o.balances \in [BalanceAccounts -> Floats]
  BY AddedIndex DEF IsObject
<1>1. CASE kind # "balance"
  BY <1>0, <1>1 DEF Added, ValueOK
<1>2. CASE kind = "balance"
  <2> DEFINE log == o.messages
             more == next.messages
             k == Len(log)
             f == [i \in DOMAIN log |-> Gained(log[i])]
             g == [i \in DOMAIN more |-> Gained(more[i])]
             b == o.balances
  <2>1. /\ k \in Nat /\ Len(more) = k + 1
        /\ DOMAIN more = 1 .. k + 1 /\ DOMAIN log = 1 .. k
        /\ \A i \in 1 .. k : more[i] = log[i]
        /\ more[k + 1] = m
        /\ ToSet(more) = ToSet(log) \cup {m}
    BY <1>0 DEF Indexed, IsMore
  <2>2. next.balances = Moved(b, m)
    BY <1>2 DEF Added
  <2>3. /\ m.action \in {"credit", "debit", "transfer"}
        /\ m.action \in {"debit", "transfer"} => b[m.on] >= m.amount
    BY <1>2 DEF IsValid, IsValidBalance
  <2>4. /\ m.on \in BalanceAccounts /\ m.to \in BalanceAccounts /\ m.amount \in Int
    BY <1>2, MessageIs
  <2>5. /\ next.balances \in [BalanceAccounts -> Floats]
        /\ Gained(m) \in Int
        /\ /\ m.amount >= 0 /\ \A a \in BalanceAccounts : b[a] >= 0
           /\ m.action \in {"debit", "transfer"} => b[m.on] >= m.amount
           => \A a \in BalanceAccounts : next.balances[a] >= 0
    BY <1>0, <1>2, <2>2, <2>3, MovedIs
  <2>6. SumTo(g, k + 1) = SumTo(f, k) + Gained(m)
    <3>1. /\ \A i \in 1 .. k : g[i] = f[i]
          /\ g[k + 1] = Gained(m)
      BY <2>1
    <3> HIDE DEF f, g, k
    <3>2. k \in Nat
      BY <2>1
    <3> QED BY <3>1, <3>2, SumMore
  <2>7. ASSUME \A e \in ToSet(more) : e.amount >= 0
        PROVE  \A a \in BalanceAccounts : next.balances[a] >= 0
    <3>1. m.amount >= 0 /\ \A c \in BalanceAccounts : b[c] >= 0
      BY <1>2, <2>1, <2>7 DEF ValueOK
    <3> QED BY <2>3, <2>5, <3>1
  <2> DEFINE t == Turnover(log, k)
             u == Turnover(more, k + 1)
  <2>8. t \in Nat /\ u = t + Apart(m.amount, 0) /\ Apart(m.amount, 0) \in Nat
    <3>1. log \in Seq(Messages[kind]) /\ more \in Seq(Messages[kind])
      BY <1>0 DEF IsObject, Indexed, IsMore
    <3>2. Apart(m.amount, 0) \in Nat
      BY <2>4 DEF Apart
    <3> HIDE DEF log, more
    <3> QED BY <1>2, <2>1, <3>1, <3>2, TurnoverNext
  <2>9. ASSUME u <= Exact
        PROVE  /\ \A a \in BalanceAccounts :
                     next.balances[a] <= u /\ -next.balances[a] <= u
               /\ SumOver(BalanceAccounts, next.balances) = SumTo(g, k + 1)
    <3>1. t <= Exact
      <4>1. Exact \in Nat
        BY FloatsAssumption
      <4> HIDE DEF t, u
      <4> QED BY <2>8, <2>9, <4>1
    <3>2. /\ \A a \in BalanceAccounts : b[a] <= t /\ -b[a] <= t
          /\ SumOver(BalanceAccounts, b) = SumTo(f, k)
      BY <1>2, <3>1 DEF ValueOK
    <3> HIDE DEF t, u, f, g, k, b
    <3>3. t + Apart(m.amount, 0) <= Exact
      BY <2>8, <2>9
    <3>4. b \in [BalanceAccounts -> Floats]
      BY <1>0 DEF b
    <3>5. /\ \A a \in BalanceAccounts :
                /\ Moved(b, m)[a] <= t + Apart(m.amount, 0)
                /\ -Moved(b, m)[a] <= t + Apart(m.amount, 0)
          /\ SumOver(BalanceAccounts, Moved(b, m)) =
                SumOver(BalanceAccounts, b) + Gained(m)
      BY <1>2, <2>3, <2>8, <3>2, <3>3, <3>4, MovedExactly
    <3> QED BY <2>2, <2>6, <2>8, <3>2, <3>5
  <2>10. Len(more) = k + 1
    BY <2>1
  <2> HIDE DEF k
  <2> QED BY <1>2, <2>5, <2>7, <2>9, <2>10 DEF ValueOK
<1> QED BY <1>1, <1>2

LEMMA AddedKeepsLog ==
    ASSUME kind \in CoreKinds, NEW o, NEW s, IsObject(o), IndexOK(o, s), LogOK(o),
           NEW m \in Messages[kind], IsValid(o, m), ~Contains(o.digests, Digest(m)),
           NEW next, Added(o, m, next)
    PROVE  LogOK(next)
<1> DEFINE log == o.messages
           more == next.messages
           k == Len(log)
           q == Len(o.digests)
<1>0. Indexed(o, m, next)
  BY AddedIndex
<1>1. /\ k \in Nat /\ Len(more) = k + 1
      /\ DOMAIN more = 1 .. k + 1 /\ DOMAIN log = 1 .. k
      /\ \A i \in 1 .. k : more[i] = log[i]
      /\ more[k + 1] = m
  BY <1>0 DEF Indexed, IsMore
<1>2. /\ q \in Nat /\ Len(next.digests) = q + 1 /\ DOMAIN o.digests = 1 .. q
      /\ \A i \in 1 .. q : next.digests[i] = o.digests[i]
      /\ next.digests[q + 1] = Digest(m)
      /\ ToSet(next.digests) = ToSet(o.digests) \cup {Digest(m)}
      /\ Names(next) = Names(o) \cup {Digest(m)} /\ Digest(m) \notin ToSet(o.digests)
  BY <1>0 DEF Indexed, IsMore
<1>3. \A i \in 1 .. k : Digest(log[i]) \in Names(o) /\ Digest(log[i]) # Digest(m)
  <2>1. \A i \in 1 .. k : Digest(log[i]) \in Names(o)
    BY <1>1 DEF Names
  <2> QED BY <1>2, <2>1 DEF IndexOK
<1>4. \A i, j \in 1 .. k : Digest(log[i]) = Digest(log[j]) => i = j
  BY <1>1 DEF LogOK, IndexFollowsLog
<1> HIDE DEF log, more, k, q
<1>5. \A i, j \in DOMAIN more : Digest(more[i]) = Digest(more[j]) => i = j
  <2> SUFFICES ASSUME NEW i \in 1 .. k + 1, NEW j \in 1 .. k + 1,
                      Digest(more[i]) = Digest(more[j])
               PROVE  i = j
    BY <1>1
  <2>1. (i \in 1 .. k \/ i = k + 1) /\ (j \in 1 .. k \/ j = k + 1)
    BY <1>1
  <2> QED BY <1>1, <1>3, <1>4, <2>1
<1>6. \/ \E d \in ToSet(next.digests) : d \notin Names(next)
      \/ /\ Len(next.digests) = Len(more)
         /\ \A i \in DOMAIN more : next.digests[i] = Digest(more[i])
  <2>1. CASE \E d \in ToSet(o.digests) : d \notin Names(o)
    BY <1>2, <2>1
  <2>2. CASE q = k /\ \A i \in DOMAIN log : o.digests[i] = Digest(log[i])
    <3>1. ASSUME NEW i \in 1 .. k + 1 PROVE next.digests[i] = Digest(more[i])
      <4>1. i \in 1 .. k \/ i = k + 1
        BY <1>1
      <4> QED BY <1>1, <1>2, <2>2, <4>1
    <3> QED BY <1>1, <1>2, <2>2, <3>1
  <2> QED BY <2>1, <2>2 DEF LogOK, IndexFollowsLog, log, k, q
<1>7. ChainOK(next)
  <2> SUFFICES ASSUME kind = "blockchain", NEW i \in 1 .. k + 1
               PROVE  more[i].previous = IF i = 1 THEN NoDigest ELSE more[i - 1].name
    BY <1>1 DEF ChainOK, more
  <2>1. CASE i \in 1 .. k
    <3>1. log[i].previous = IF i = 1 THEN NoDigest ELSE log[i - 1].name
      BY <1>1, <2>1 DEF LogOK, ChainOK, log
    <3>2. i # 1 => i - 1 \in 1 .. k
      BY <1>1, <2>1
    <3> QED BY <1>1, <2>1, <3>1, <3>2
  <2>2. CASE i = k + 1
    <3>1. m.previous = IF log = <<>> THEN NoDigest ELSE log[k].name
      BY DEF IsValid, IsValidBlock, Last, log, k
    <3>2. log = <<>> <=> k = 0
      BY EmptySeq DEF IsObject, log, k
    <3>3. k # 0 => more[k] = log[k] /\ k # 0 /\ (k + 1) - 1 = k
      BY <1>1
    <3>4. k = 0 => i = 1
      BY <2>2
    <3>5. k # 0 => i # 1
      BY <1>1, <2>2
    <3> QED BY <1>1, <2>2, <3>1, <3>2, <3>3, <3>4, <3>5
  <2>3. i \in 1 .. k \/ i = k + 1
    BY <1>1
  <2> QED BY <2>1, <2>2, <2>3
<1>8. DagOK(next)
  <2> SUFFICES ASSUME kind = "dag" PROVE \E hs : IsHeads(hs, next)
    BY DEF DagOK
  <2>1. PICK hs : IsHeads(hs, o)
    BY DEF LogOK, DagOK
  <2> DEFINE gs == [i \in 0 .. k + 1 |-> IF i <= k THEN hs[i] ELSE next.heads]
  <2>2. /\ next.heads = (o.heads \ ParentDigests(m)) \cup {m.name}
        /\ next.frontiers = [h \in DOMAIN o.frontiers \cup {next.heads} |->
                                IF h = next.heads THEN Len(more) ELSE o.frontiers[h]]
        /\ m.hasParents => m.parents \subseteq o.heads
    BY DEF Added, IsValid, IsValidDag, more
  <2>3. /\ hs[0] = {} /\ hs[k] = o.heads
        /\ \A i \in 1 .. k :
              /\ hs[i] = (hs[i - 1] \ ParentDigests(log[i])) \cup {log[i].name}
              /\ log[i].hasParents => log[i].parents \subseteq hs[i - 1]
        /\ \A h \in DOMAIN o.frontiers : hs[o.frontiers[h]] = h
    BY <2>1 DEF IsHeads, log, k
  <2>4. (\A i \in 0 .. k : gs[i] = hs[i]) /\ gs[k + 1] = next.heads
    BY <1>1
  <2> HIDE DEF gs
  <2>5. gs[0] = {}
    BY <1>1, <2>3, <2>4
  <2>6. ASSUME NEW i \in 1 .. k + 1
        PROVE  /\ gs[i] = (gs[i - 1] \ ParentDigests(more[i])) \cup {more[i].name}
               /\ more[i].hasParents => more[i].parents \subseteq gs[i - 1]
    <3>1. CASE i \in 1 .. k
      <4>1. i \in 0 .. k /\ i - 1 \in 0 .. k
        BY <1>1, <3>1
      <4> QED BY <1>1, <2>3, <2>4, <3>1, <4>1
    <3>2. CASE i = k + 1
      <4>1. i - 1 = k /\ k \in 0 .. k
        BY <1>1, <3>2
      <4> QED BY <1>1, <2>2, <2>3, <2>4, <3>2, <4>1
    <3>3. i \in 1 .. k \/ i = k + 1
      BY <1>1
    <3> QED BY <3>1, <3>2, <3>3
  <2>7. ASSUME NEW h \in DOMAIN next.frontiers PROVE gs[next.frontiers[h]] = h
    <3>1. CASE h = next.heads
      BY <1>1, <2>2, <2>4, <2>7, <3>1
    <3>2. CASE h # next.heads
      <4>1. h \in DOMAIN o.frontiers /\ next.frontiers[h] = o.frontiers[h]
        BY <2>2, <2>7, <3>2
      <4>2. o.frontiers[h] \in 0 .. k
        BY <4>1 DEF IndexOK, k, log
      <4> QED BY <2>3, <2>4, <4>1, <4>2
    <3> QED BY <3>1, <3>2
  <2>8. IsHeads(gs, next)
    BY <1>1, <2>4, <2>5, <2>6, <2>7 DEF IsHeads, more
  <2> QED BY <2>8
<1> QED BY <1>5, <1>6, <1>7, <1>8 DEF LogOK, IndexFollowsLog, more

LEMMA AddMessageKeeps ==
    ASSUME kind \in CoreKinds, NEW o, NEW s, ObjectOK(o, s), NEW m \in Messages[kind],
           IsValid(o, m)
    PROVE  ObjectOK(AddMessage(o, m), s \cup {m.hash})
<1>1. /\ IsObject(o) /\ IndexOK(o, s) /\ HeadsOK(o) /\ UtxosOK(o) /\ ValueOK(o)
      /\ LogOK(o)
  BY DEF ObjectOK
<1>2. CASE Contains(o.digests, Digest(m))
  <2>1. AddMessage(o, m) = o
    BY <1>2 DEF AddMessage
  <2>2. IndexOK(o, s \cup {m.hash})
    BY <1>1 DEF IndexOK
  <2> QED BY <1>1, <2>1, <2>2 DEF ObjectOK
<1>3. CASE ~Contains(o.digests, Digest(m))
  <2> DEFINE next == AddMessage(o, m)
  <2>1. Added(o, m, next)
    BY <1>1, <1>3, AddMessageIs
  <2> HIDE DEF next
  <2>2. IndexOK(next, s \cup {m.hash})
    BY <1>1, <1>3, <2>1, AddedKeepsIndex
  <2>3. HeadsOK(next)
    BY <1>1, <1>3, <2>1, AddedKeepsHeads
  <2>4. UtxosOK(next)
    BY <1>1, <1>3, <2>1, AddedKeepsUtxos
  <2>5. ValueOK(next) /\ next.balances \in [BalanceAccounts -> Floats]
    BY <1>1, <1>3, <2>1, AddedKeepsValue
  <2>6. Indexed(o, m, next)
    BY <1>1, <1>3, <2>1, AddedIndex
  <2>7. IsObject(next)
    BY <1>1, <2>1, <2>5, <2>6 DEF IsObject, Added, Indexed
  <2>8. LogOK(next)
    BY <1>1, <1>3, <2>1, AddedKeepsLog
  <2> QED BY <2>2, <2>3, <2>4, <2>5, <2>7, <2>8 DEF ObjectOK, next
<1> QED BY <1>2, <1>3


LEMMA AddMessageGrows ==
    ASSUME kind \in CoreKinds, NEW o, IsObject(o), NEW m \in Messages[kind]
    PROVE  /\ ToSet(o.digests) \subseteq ToSet(AddMessage(o, m).digests)
           /\ Names(o) \subseteq Names(AddMessage(o, m))
           /\ Digest(m) \in ToSet(AddMessage(o, m).digests)
<1>1. CASE Contains(o.digests, Digest(m))
  <2>1. AddMessage(o, m) = o
    BY <1>1 DEF AddMessage
  <2>2. Digest(m) \in ToSet(o.digests)
    <3>1. o.digests \in Seq(KnownDigests)
      BY DEF IsObject
    <3> QED BY <1>1, <3>1, LenProperties DEF Contains, ToSet
  <2> QED BY <2>1, <2>2
<1>2. CASE ~Contains(o.digests, Digest(m))
  <2> DEFINE next == AddMessage(o, m)
  <2>1. Added(o, m, next)
    BY <1>2, AddMessageIs
  <2> HIDE DEF next
  <2>2. Indexed(o, m, next)
    BY <1>2, <2>1, AddedIndex
  <2>3. /\ ToSet(next.digests) = ToSet(o.digests) \cup {Digest(m)}
        /\ Names(next) = Names(o) \cup {Digest(m)}
    BY <2>2 DEF Indexed, IsMore
  <2> QED BY <2>3 DEF next
<1> QED BY <1>1, <1>2

\* An object with storage t has what it had with s.
Grown(s, t) ==
    /\ ToSet(s.obj.digests) \subseteq ToSet(t.obj.digests)
    /\ Names(s.obj) \subseteq Names(t.obj)
    /\ Remembers(s.obj, s.stored) => Remembers(t.obj, t.stored)

LEMMA AddMessageRemembers ==
    ASSUME kind \in CoreKinds, NEW o, IsObject(o), NEW m \in Messages[kind], NEW s,
           Remembers(o, s)
    PROVE  Remembers(AddMessage(o, m), s \cup {m.hash})
<1> SUFFICES ASSUME NEW e \in Messages[kind], e.hash \in s \cup {m.hash}
             PROVE  Digest(e) \in ToSet(AddMessage(o, m).digests)
  BY DEF Remembers
<1>1. CASE e.hash \in s
  BY <1>1, AddMessageGrows DEF Remembers
<1>2. CASE e.hash = m.hash
  <2>1. e \in AllMessages /\ m \in AllMessages
    BY MessageIs
  <2>2. e = m
    BY <1>2, <2>1, CoreAssumption
  <2> QED BY <2>2, AddMessageGrows
<1> QED BY <1>1, <1>2

LEMMA TakeKeeps ==
    ASSUME kind \in CoreKinds, NEW s, ObjectOK(s.obj, s.stored), NEW m \in Messages[kind]
    PROVE  ObjectOK(Take(s, m).obj, Take(s, m).stored) /\ Grown(s, Take(s, m))
<1>1. CASE m.hash \in s.stored \/ ~IsValid(s.obj, m)
  BY <1>1 DEF Take, Grown
<1>2. CASE ~(m.hash \in s.stored \/ ~IsValid(s.obj, m))
  <2>1. Take(s, m) = [obj |-> AddMessage(s.obj, m), stored |-> s.stored \cup {m.hash}]
    BY <1>2 DEF Take
  <2>2. ObjectOK(AddMessage(s.obj, m), s.stored \cup {m.hash})
    BY <1>2, AddMessageKeeps
  <2>3. IsObject(s.obj)
    BY DEF ObjectOK
  <2>4. Grown(s, Take(s, m))
    BY <2>1, <2>3, AddMessageGrows, AddMessageRemembers DEF Grown
  <2> QED BY <2>1, <2>2, <2>4
<1> QED BY <1>1, <1>2

\* What each message of an answer leaves behind.
IsTaken(f, s, messages, k) ==
    f = [i \in 0 .. k |-> IF i = 0 THEN s ELSE Take(f[i - 1], messages[i])]

LEMMA TakenExists ==
    ASSUME NEW s, NEW messages, NEW k \in Nat
    PROVE  \E f : IsTaken(f, s, messages, k)
<1> DEFINE S == {i \in Nat : \E f : IsTaken(f, s, messages, i)}
<1>1. 0 \in S
  <2>1. IsTaken([i \in 0 .. 0 |-> s], s, messages, 0)
    BY DEF IsTaken
  <2> QED BY <2>1
<1>2. ASSUME NEW i \in Nat, i \in S PROVE i + 1 \in S
  <2>1. PICK f : IsTaken(f, s, messages, i)
    BY <1>2
  <2> DEFINE last == Take(f[i], messages[i + 1])
             next == [j \in 0 .. i + 1 |-> IF j <= i THEN f[j] ELSE last]
  <2>2. f[0] = s
    BY <2>1 DEF IsTaken
  <2>3. ASSUME NEW j \in 1 .. i PROVE f[j] = Take(f[j - 1], messages[j])
    <3>1. j \in 0 .. i /\ j # 0
      OBVIOUS
    <3> QED BY <2>1, <3>1, Zenon DEF IsTaken
  <2>4. next[0] = s
    BY <2>2
  <2>5. next[i + 1] = Take(next[i], messages[i + 1])
    <3> HIDE DEF last
    <3>1. next[i + 1] = last /\ next[i] = f[i]
      OBVIOUS
    <3> QED BY <3>1 DEF last
  <2>6. ASSUME NEW j \in 1 .. i PROVE next[j] = Take(next[j - 1], messages[j])
    <3> HIDE DEF last
    <3>1. next[j] = f[j] /\ next[j - 1] = f[j - 1]
      OBVIOUS
    <3> QED BY <3>1, <2>3
  <2>7. next = [j \in 0 .. i + 1 |-> next[j]]
    OBVIOUS
  <2> HIDE DEF next
  <2>8. \A j \in 0 .. i + 1 :
           next[j] = IF j = 0 THEN s ELSE Take(next[j - 1], messages[j])
    <3> SUFFICES ASSUME NEW j \in 0 .. i + 1
                 PROVE  next[j] = IF j = 0 THEN s ELSE Take(next[j - 1], messages[j])
      OBVIOUS
    <3>1. j = 0 \/ j \in 1 .. i \/ (j = i + 1 /\ j # 0 /\ j - 1 = i)
      OBVIOUS
    <3> QED BY <3>1, <2>4, <2>5, <2>6
  <2>9. IsTaken(next, s, messages, i + 1)
    BY <2>7, <2>8 DEF IsTaken
  <2> QED BY <2>9
<1>3. \A i \in 0 .. k - 1 : i \in S => i + 1 \in S
  <2> HIDE DEF S
  <2> QED BY <1>2
<1>4. k \in S
  <2> HIDE DEF S
  <2>1. \A i \in 0 .. k : i \in S
    BY <1>1, <1>3, UpTo
  <2> QED BY <2>1
<1> QED BY <1>4

LEMMA TakeAllIs ==
    ASSUME NEW s, NEW messages, Len(messages) \in Nat
    PROVE  \E f : /\ f[0] = s
                  /\ \A i \in 1 .. Len(messages) : f[i] = Take(f[i - 1], messages[i])
                  /\ TakeAll(s, messages) = f[Len(messages)]
<1> DEFINE k == Len(messages)
           f == CHOOSE x : IsTaken(x, s, messages, k)
<1>1. IsTaken(f, s, messages, k)
  <2> HIDE DEF k
  <2> QED BY TakenExists DEF k
<1>2. TakeAll(s, messages) = f[k]
  BY DEF TakeAll, IsTaken
<1> HIDE DEF f, k
<1>3. f[0] = s
  BY <1>1 DEF IsTaken, k
<1>4. ASSUME NEW i \in 1 .. k PROVE f[i] = Take(f[i - 1], messages[i])
  <2>1. i \in 0 .. k /\ i # 0
    OBVIOUS
  <2> QED BY <1>1, <2>1, Zenon DEF IsTaken
<1> QED BY <1>2, <1>3, <1>4 DEF k

\* An answer keeps what each of its messages keeps.
LEMMA TakeAllKeeps ==
    ASSUME kind \in CoreKinds, NEW s, ObjectOK(s.obj, s.stored),
           NEW messages \in Seq(Messages[kind])
    PROVE  LET t == TakeAll(s, messages) IN ObjectOK(t.obj, t.stored) /\ Grown(s, t)
<1> DEFINE k == Len(messages)
<1>1. k \in Nat /\ \A i \in 1 .. k : messages[i] \in Messages[kind]
  BY LenProperties, ElementOfSeq
<1>2. PICK f : /\ f[0] = s
               /\ \A i \in 1 .. k : f[i] = Take(f[i - 1], messages[i])
               /\ TakeAll(s, messages) = f[k]
  BY <1>1, TakeAllIs
<1> HIDE DEF k
<1> DEFINE S == {i \in Nat : i <= k => ObjectOK(f[i].obj, f[i].stored) /\ Grown(s, f[i])}
<1>3. 0 \in S
  BY <1>2 DEF Grown
<1>4. ASSUME NEW i \in 0 .. k - 1, i \in S PROVE i + 1 \in S
  <2>1. ObjectOK(f[i].obj, f[i].stored) /\ Grown(s, f[i])
    BY <1>1, <1>4
  <2>2. i + 1 \in 1 .. k /\ (i + 1) - 1 = i
    BY <1>1
  <2>3. f[i + 1] = Take(f[i], messages[i + 1]) /\ messages[i + 1] \in Messages[kind]
    BY <1>1, <1>2, <2>2
  <2>4. ObjectOK(f[i + 1].obj, f[i + 1].stored) /\ Grown(f[i], f[i + 1])
    BY <2>1, <2>3, TakeKeeps
  <2>5. Grown(s, f[i + 1])
    BY <2>1, <2>4 DEF Grown
  <2> QED BY <2>4, <2>5
<1> HIDE DEF S
<1>5. \A i \in 0 .. k : i \in S
  BY <1>1, <1>3, <1>4, UpTo
<1>6. k \in S /\ k <= k
  BY <1>1, <1>5
<1> QED BY <1>2, <1>6 DEF S

LEMMA FreshIsOK == ASSUME kind \in CoreKinds, NEW s PROVE ObjectOK(FreshObject, s)
<1> DEFINE o == FreshObject
<1>1. /\ DOMAIN o = {"messages", "digests", "heads", "frontiers", "utxos", "balances"}
      /\ o.messages = <<>> /\ o.digests = <<>> /\ o.heads = {} /\ o.utxos = {}
      /\ o.frontiers = [h \in {{}} |-> 0] /\ o.balances = [a \in BalanceAccounts |-> 0]
  BY DEF FreshObject
<1> HIDE DEF o
<1>2. /\ <<>> \in Seq(Messages[kind]) /\ <<>> \in Seq(KnownDigests) /\ Len(<<>>) = 0
      /\ DOMAIN o.messages = {} /\ DOMAIN o.digests = {}
  BY <1>1, EmptySeq
<1>3. ToSet(o.messages) = {} /\ ToSet(o.digests) = {} /\ Names(o) = {}
  BY <1>2 DEF ToSet, Names
<1>4. IsObject(o)
  <2>1. o.balances \in [BalanceAccounts -> Floats]
    BY <1>1, FloatsAreInt
  <2> QED BY <1>1, <1>2, <2>1 DEF IsObject
<1>5. IndexOK(o, s)
  BY <1>1, <1>2, <1>3 DEF IndexOK
<1>6. HeadsOK(o)
  BY <1>1, <1>3 DEF HeadsOK
<1>7. UtxosOK(o)
  <2>1. Unspent(o.messages) = {}
    BY <1>2 DEF Unspent
  <2> QED BY <1>1, <2>1 DEF UtxosOK
<1>8. ValueOK(o)
  <2>1. SumOver(BalanceAccounts, o.balances) = 0
    <3>1. \A a \in BalanceAccounts : o.balances[a] = 0
      BY <1>1
    <3> QED BY <3>1, SumOverZero, CoreAssumption
  <2>2. /\ SumTo([i \in DOMAIN o.messages |-> Gained(o.messages[i])], 0) = 0
        /\ Turnover(o.messages, 0) = 0
    BY SumOfNone DEF Turnover
  <2> QED BY <1>1, <1>2, <2>1, <2>2 DEF ValueOK
<1>9. LogOK(o)
  <2>1. IndexFollowsLog(o) /\ ChainOK(o)
    BY <1>1, <1>2 DEF IndexFollowsLog, ChainOK
  <2>2. IsHeads([i \in {0} |-> {}], o)
    BY <1>1, <1>2 DEF IsHeads
  <2> QED BY <2>1, <2>2 DEF LogOK, DagOK
<1> QED BY <1>4, <1>5, <1>6, <1>7, <1>8, <1>9 DEF ObjectOK, o


LEMMA SameObject ==
    ASSUME kind' = kind, NEW o, NEW s, ObjectOK(o, s)
    PROVE  ObjectOK(o, s)'
<1>1. IsObject(o)' /\ IndexOK(o, s)'
  BY DEF ObjectOK, IsObject, IndexOK, Names, Digest
<1>2. HeadsOK(o)'
  BY DEF ObjectOK, HeadsOK, Names, Digest, SaysParents, ParentDigests
<1>3. UtxosOK(o)' /\ ValueOK(o)'
  BY DEF ObjectOK, UtxosOK, Unspent, ValueOK, Gained, Turnover, Apart
<1>4. IndexFollowsLog(o)' /\ ChainOK(o)'
  BY DEF ObjectOK, LogOK, IndexFollowsLog, ChainOK, Names, Digest
<1>5. DagOK(o)'
  BY DEF ObjectOK, LogOK, DagOK, IsHeads, ParentDigests
<1> QED BY <1>1, <1>2, <1>3, <1>4, <1>5 DEF ObjectOK, LogOK

\* The object of one node, its storage and its request.
Sound(n) ==
    /\ ObjectOK(obj'[n], stored'[n]) /\ AskedOK(asked'[n])
    /\ n \notin MayReset => Kept(obj'[n], stored'[n], asked'[n])

LEMMA SameKind ==
    ASSUME kind' = kind, NEW n, Sound(n)
    PROVE  /\ ObjectOK(obj[n], stored[n])' /\ AskedOK(asked[n])'
           /\ n \notin MayReset => Kept(obj[n], stored[n], asked[n])'
<1>0. ObjectOK(obj'[n], stored'[n]) /\ AskedOK(asked'[n])
  BY DEF Sound
<1>1. IsObject(obj[n])' /\ IndexOK(obj[n], stored[n])'
  BY <1>0 DEF ObjectOK, IsObject, IndexOK, Names, Digest
<1>2. HeadsOK(obj[n])'
  BY <1>0 DEF ObjectOK, HeadsOK, Names, Digest, SaysParents, ParentDigests
<1>3. UtxosOK(obj[n])' /\ ValueOK(obj[n])'
  BY <1>0 DEF ObjectOK, UtxosOK, Unspent, ValueOK, Gained, Turnover, Apart
<1>4. IndexFollowsLog(obj[n])' /\ ChainOK(obj[n])'
  BY <1>0 DEF ObjectOK, LogOK, IndexFollowsLog, ChainOK, Names, Digest
<1>5. DagOK(obj[n])'
  BY <1>0 DEF ObjectOK, LogOK, DagOK, IsHeads, ParentDigests
<1>6. AskedOK(asked[n])'
  <2>1. ASSUME IsAnswer(asked'[n][2], asked'[n][1].since)
        PROVE  IsAnswer(asked[n][2], asked[n][1].since)'
    <3>1. PICK o, s :
            /\ ObjectOK(o, s)
            /\ Skipped(o, asked'[n][1].since) <= Len(o.messages)
            /\ asked'[n][2] = SubSeq(o.messages, Skipped(o, asked'[n][1].since) + 1,
                                     Len(o.messages))
      BY <2>1 DEF IsAnswer
    <3>2. Skipped(o, asked[n][1].since)' = Skipped(o, asked'[n][1].since)
      BY DEF Skipped, DagSkips, LogSkips, StateSkips, IndexOf, SelectInSeq
    <3>3. ObjectOK(o, s)'
      BY <3>1, SameObject
    <3> QED BY <3>1, <3>2, <3>3 DEF IsAnswer
  <2> QED BY <1>0, <2>1 DEF AskedOK
<1>7. n \notin MayReset => Kept(obj[n], stored[n], asked[n])'
  BY DEF Sound, Kept, Remembers, Had, Names, Digest
<1> QED BY <1>1, <1>2, <1>3, <1>4, <1>5, <1>6, <1>7 DEF ObjectOK, LogOK


LEMMA IndexIs ==
    ASSUME NEW o, IsObject(o), NEW d
    PROVE  /\ IndexOf(o, d) \in 0 .. Len(o.digests)
           /\ IF d \in ToSet(o.digests)
              THEN IndexOf(o, d) # 0 /\ o.digests[IndexOf(o, d)] = d
              ELSE IndexOf(o, d) = 0
<1> DEFINE at == {i \in 1 .. Len(o.digests) : o.digests[i] = d}
<1>1. Len(o.digests) \in Nat /\ DOMAIN o.digests = 1 .. Len(o.digests)
  BY LenProperties DEF IsObject
<1>2. IndexOf(o, d) = IF at # {} THEN Min(at) ELSE 0
  BY DEF IndexOf, SelectInSeq
<1>3. ASSUME at # {} PROVE Min(at) \in at
  <2>1. PICK x \in at : \A y \in at : x <= y
    <3>1. at \subseteq Nat
      BY <1>1
    <3> HIDE DEF at
    <3> QED BY <1>3, <3>1, LeastNatural
  <2> HIDE DEF at
  <2> QED BY <2>1 DEF Min
<1>4. at # {} <=> d \in ToSet(o.digests)
  BY <1>1 DEF ToSet
<1>5. CASE at # {}
  <2>1. Min(at) \in 1 .. Len(o.digests) /\ o.digests[Min(at)] = d
    BY <1>3, <1>5
  <2> HIDE DEF at
  <2> QED BY <1>1, <1>2, <1>4, <1>5, <2>1
<1>6. CASE at = {}
  <2> HIDE DEF at
  <2> QED BY <1>1, <1>2, <1>4, <1>6
<1> QED BY <1>5, <1>6

\* An answer leaves messages out that are there, unless the index of digests has
\* more than the log.
LEMMA SkippedIs ==
    ASSUME NEW o, NEW s, ObjectOK(o, s), NEW d
    PROVE  /\ Skipped(o, d) \in Nat /\ Len(o.messages) \in Nat /\ Len(o.digests) \in Nat
           /\ Skipped(o, d) <= Len(o.messages) \/ Len(o.digests) > Len(o.messages)
<1>1. IsObject(o) /\ IndexOK(o, s)
  BY DEF ObjectOK
<1>2. Len(o.messages) \in Nat /\ Len(o.digests) \in Nat
  BY <1>1, LenProperties DEF IsObject
<1>3. IndexOf(o, d) \in 0 .. Len(o.digests)
  BY <1>1, IndexIs
<1>4. d \in DOMAIN o.frontiers => o.frontiers[d] \in 0 .. Len(o.messages)
  BY <1>1 DEF IndexOK
<1>5. CASE kind = "dag"
  BY <1>2, <1>4, <1>5 DEF Skipped, DagSkips
<1>6. CASE kind = "log"
  BY <1>2, <1>3, <1>6 DEF Skipped, LogSkips
<1>7. CASE kind \notin {"dag", "log"}
  <2>1. Skipped(o, d) = StateSkips(o, d)
    BY <1>7 DEF Skipped
  <2> QED BY <1>2, <1>3, <2>1 DEF StateSkips
<1> QED BY <1>5, <1>6, <1>7


LEMMA ObjectsInit == CoreInit => ObjectsOK
<1> SUFFICES ASSUME CoreInit PROVE ObjectsOK
  OBVIOUS
<1>1. ASSUME NEW n \in Nodes
      PROVE  /\ ObjectOK(obj[n], stored[n]) /\ AskedOK(asked[n])
             /\ Kept(obj[n], stored[n], asked[n])
  <2>1. obj[n] = FreshObject /\ asked[n] = <<>> /\ stored[n] = {} /\ kind \in CoreKinds
    BY DEF CoreInit
  <2> QED BY <2>1, FreshIsOK DEF AskedOK, Kept, Remembers
<1> QED BY <1>1 DEF CoreInit, ObjectsOK

LEMMA StepIsSound ==
    ASSUME ObjectsOK, kind' = kind, listening' \subseteq Nodes,
           DOMAIN obj' = Nodes, DOMAIN stored' = Nodes, DOMAIN asked' = Nodes,
           NEW n \in Nodes, Sound(n),
           \A p \in Nodes \ {n} : /\ obj'[p] = obj[p] /\ stored'[p] = stored[p]
                                  /\ asked'[p] = asked[p]
    PROVE  ObjectsOK'
<1>1. ASSUME NEW p \in Nodes
      PROVE  /\ ObjectOK(obj[p], stored[p])' /\ AskedOK(asked[p])'
             /\ p \notin MayReset => Kept(obj[p], stored[p], asked[p])'
  <2>1. Sound(p)
    <3>1. CASE p # n
      <4>1. /\ ObjectOK(obj[p], stored[p]) /\ AskedOK(asked[p])
            /\ p \notin MayReset => Kept(obj[p], stored[p], asked[p])
        BY DEF ObjectsOK
      <4> QED BY <3>1, <4>1 DEF Sound
    <3> QED BY <3>1
  <2> QED BY <2>1, SameKind
<1>2. kind' \in CoreKinds
  BY DEF ObjectsOK
<1> QED BY <1>1, <1>2 DEF ObjectsOK

\* What is left of a log after its first messages.
LEMMA RestIs ==
    ASSUME NEW S, NEW s \in Seq(S), NEW k \in Nat, k <= Len(s)
    PROVE  LET r == SubSeq(s, k + 1, Len(s))
           IN  /\ r \in Seq(S) /\ Len(r) = Len(s) - k
               /\ \A i \in 1 .. Len(s) - k : r[i] = s[k + i]
               /\ \A i \in k + 1 .. Len(s) : s[i] \in ToSet(r)
<1> DEFINE n == Len(s)
           r == SubSeq(s, k + 1, n)
<1>1. n \in Nat /\ \A i \in 1 .. n : s[i] \in S
  BY LenProperties, ElementOfSeq
<1> HIDE DEF n
<1>2. k + 1 \in Int /\ n \in Int /\ \A i \in k + 1 .. n : s[i] \in S
  BY <1>1
<1>3. /\ r \in Seq(S)
      /\ Len(r) = IF k + 1 <= n THEN n - (k + 1) + 1 ELSE 0
      /\ \A i \in 1 .. n - (k + 1) + 1 : r[i] = s[(k + 1) + i - 1]
  BY <1>2, SubSeqProperties
<1> HIDE DEF r
<1>4. Len(r) = n - k
  BY <1>1, <1>3 DEF n
<1>5. ASSUME NEW i \in 1 .. n - k PROVE r[i] = s[k + i]
  <2>1. i \in 1 .. n - (k + 1) + 1 /\ (k + 1) + i - 1 = k + i
    BY <1>1
  <2> QED BY <1>3, <2>1
<1>6. ASSUME NEW i \in k + 1 .. n PROVE s[i] \in ToSet(r)
  <2>1. i - k \in 1 .. n - k /\ k + (i - k) = i
    BY <1>1
  <2>2. DOMAIN r = 1 .. Len(r)
    BY <1>3, LenProperties
  <2> QED BY <1>4, <1>5, <2>1, <2>2 DEF ToSet
<1> QED BY <1>3, <1>4, <1>5, <1>6 DEF n, r

LEMMA AnswerIs ==
    ASSUME kind \in CoreKinds, NEW messages, NEW since, IsAnswer(messages, since)
    PROVE  messages \in Seq(Messages[kind])
<1>1. PICK o, s : /\ ObjectOK(o, s) /\ Skipped(o, since) <= Len(o.messages)
                  /\ messages = SubSeq(o.messages, Skipped(o, since) + 1, Len(o.messages))
  BY DEF IsAnswer
<1>2. Skipped(o, since) \in Nat /\ o.messages \in Seq(Messages[kind])
  BY <1>1, SkippedIs DEF ObjectOK, IsObject
<1> QED BY <1>1, <1>2, RestIs

\* Requests and answers hold messages of the objects.
LEMMA AnswerIsOK ==
    ASSUME ObjectsOK, NEW n \in Nodes, Len(asked[n]) = 1
    PROVE  LET p == asked[n][1].of
               k == Skipped(obj[p], asked[n][1].since)
               messages == obj[p].messages
               answer == Append(asked[n], SubSeq(messages, k + 1, Len(messages)))
           IN  k <= Len(messages) =>
                  /\ AskedOK(answer) /\ Len(answer) = 2 /\ answer[1] = asked[n][1]
                  /\ answer[2] = SubSeq(messages, k + 1, Len(messages))
<1> DEFINE r == asked[n][1]
           p == r.of
           k == Skipped(obj[p], r.since)
           messages == obj[p].messages
           answer == SubSeq(messages, k + 1, Len(messages))
           a == Append(<<r>>, answer)
<1> SUFFICES ASSUME k <= Len(messages)
             PROVE  /\ AskedOK(Append(asked[n], answer)) /\ Len(Append(asked[n], answer)) = 2
                    /\ Append(asked[n], answer)[1] = r /\ Append(asked[n], answer)[2] = answer
  OBVIOUS
<1>1. asked[n] = <<r>> /\ p \in Nodes
  <2>1. AskedOK(asked[n])
    BY DEF ObjectsOK
  <2> QED BY <2>1 DEF AskedOK
<1>2. ObjectOK(obj[p], stored[p])
  BY <1>1 DEF ObjectsOK
<1>3. IsAnswer(answer, r.since)
  BY <1>2 DEF IsAnswer
<1> HIDE DEF answer, k, messages
<1>4. p \in Nodes
  BY <1>1
<1>5. Len(a) = 2 /\ a[1] = r /\ a[2] = answer
  <2> HIDE DEF r
  <2>1. /\ <<r>> \in Seq({r, answer}) /\ answer \in {r, answer} /\ Len(<<r>>) = 1
        /\ <<r>>[1] = r
    OBVIOUS
  <2>2. Len(a) = 1 + 1 /\ a[1] = <<r>>[1] /\ a[1 + 1] = answer
    BY <2>1, Appended DEF IsMore
  <2> QED BY <2>1, <2>2
<1> HIDE DEF a, r
<1>6. AskedOK(a)
  BY <1>3, <1>4, <1>5 DEF AskedOK
<1> QED BY <1>1, <1>5, <1>6 DEF a

\* What a larger object has kept.
LEMMA HadStays ==
    ASSUME NEW o, NEW t, NEW since, Had(o, since),
           ToSet(o.digests) \subseteq ToSet(t.digests), Names(o) \subseteq Names(t)
    PROVE  Had(t, since)
  BY DEF Had

LEMMA LatestIsHad ==
    ASSUME NEW o, NEW s, ObjectOK(o, s)
    PROVE  Had(o, LatestDigest(o))
<1>1. CASE kind = "dag"
  BY <1>1 DEF Had, LatestDigest, ObjectOK, HeadsOK
<1>2. CASE kind # "dag"
  <2>1. ASSUME o.digests # <<>> PROVE Last(o.digests) \in ToSet(o.digests)
    <3>1. o.digests \in Seq(KnownDigests)
      BY DEF ObjectOK, IsObject
    <3>2. Len(o.digests) # 0 /\ Len(o.digests) \in Nat /\ DOMAIN o.digests = 1 .. Len(o.digests)
      BY <2>1, <3>1, EmptySeq, LenProperties
    <3>3. Len(o.digests) \in DOMAIN o.digests
      BY <3>2
    <3> QED BY <3>3 DEF Last, ToSet
  <2> QED BY <1>2, <2>1 DEF Had, LatestDigest
<1> QED BY <1>1, <1>2

\* What a request is before and after its answer.
LEMMA RequestIs ==
    ASSUME NEW a, AskedOK(a), Len(a) \in {1, 2}
    PROVE  /\ a # <<>> /\ a[1].of \in Nodes
           /\ Len(a) = 1 => a = <<a[1]>>
           /\ Len(a) = 2 => IsAnswer(a[2], a[1].since)
<1>1. a # <<>>
  <2>1. Len(<<>>) = 0 /\ Len(<<>>) # 1 /\ Len(<<>>) # 2
    BY EmptySeq
  <2> QED BY ONLY <2>1, Len(a) \in {1, 2}
<1>2. CASE Len(a) = 1
  <2>1. Len(a) # 2
    BY <1>2
  <2> QED BY <1>1, <1>2, <2>1 DEF AskedOK
<1>3. CASE Len(a) = 2
  <2>1. Len(a) # 1
    BY <1>3
  <2> QED BY <1>1, <1>3, <2>1 DEF AskedOK
<1> QED BY <1>2, <1>3

LEMMA ObjectsStep == ObjectsOK /\ [CoreNext]_coreVars => ObjectsOK'
<1> SUFFICES ASSUME ObjectsOK, [CoreNext]_coreVars PROVE ObjectsOK'
  OBVIOUS
<1>1. /\ kind \in CoreKinds /\ listening \subseteq Nodes
      /\ DOMAIN obj = Nodes /\ DOMAIN stored = Nodes /\ DOMAIN asked = Nodes
      /\ \A n \in Nodes : ObjectOK(obj[n], stored[n]) /\ AskedOK(asked[n])
      /\ \A n \in Nodes \ MayReset : Kept(obj[n], stored[n], asked[n])
  BY DEF ObjectsOK
<1>2. ASSUME UNCHANGED coreVars PROVE ObjectsOK'
  <2>1. ASSUME NEW n \in Nodes
        PROVE  /\ ObjectOK(obj[n], stored[n])' /\ AskedOK(asked[n])'
               /\ n \notin MayReset => Kept(obj[n], stored[n], asked[n])'
    <3>1. Sound(n) /\ kind' = kind
      BY <1>1, <1>2 DEF coreVars, Sound
    <3> QED BY <3>1, SameKind
  <2> QED BY <1>1, <1>2, <2>1 DEF coreVars, ObjectsOK
<1>3. ASSUME NEW n \in Nodes, NEW m \in AllMessages, TakeMessage(n, m) PROVE ObjectsOK'
  <2> DEFINE o == obj[n]
             next == AddMessage(o, m)
  <2>1. /\ obj' = [obj EXCEPT ![n] = next]
        /\ stored' = [stored EXCEPT ![n] = stored[n] \cup {m.hash}]
        /\ UNCHANGED <<kind, asked, listening>>
        /\ m \in Messages[kind] /\ IsValid(o, m)
    BY <1>3 DEF TakeMessage
  <2>2. ObjectOK(next, stored[n] \cup {m.hash})
    BY <1>1, <2>1, AddMessageKeeps
  <2>3. IsObject(o)
    BY <1>1 DEF ObjectOK
  <2>4. ASSUME n \notin MayReset PROVE Kept(next, stored[n] \cup {m.hash}, asked[n])
    <3>1. Kept(o, stored[n], asked[n])
      BY <1>1, <2>4
    <3>2. Remembers(next, stored[n] \cup {m.hash})
      BY <1>1, <2>1, <2>3, <3>1, AddMessageRemembers DEF Kept
    <3>3. ToSet(o.digests) \subseteq ToSet(next.digests) /\ Names(o) \subseteq Names(next)
      BY <1>1, <2>1, <2>3, AddMessageGrows
    <3> HIDE DEF next, o
    <3> QED BY <3>1, <3>2, <3>3, HadStays DEF Kept
  <2> HIDE DEF next
  <2>5. Sound(n)
    BY <1>1, <2>1, <2>2, <2>4 DEF Sound
  <2> QED BY <1>1, <2>1, <2>5, StepIsSound
<1>4. ASSUME NEW n \in Nodes, NEW p \in Nodes, Ask(n, p) PROVE ObjectsOK'
  <2> DEFINE r == [of |-> p, since |-> LatestDigest(obj[n])]
  <2>1. /\ asked' = [asked EXCEPT ![n] = <<r>>]
        /\ UNCHANGED <<kind, obj, stored, listening>>
    BY <1>4 DEF Ask
  <2>2. r.of \in Nodes /\ Had(obj[n], r.since)
    BY <1>1, LatestIsHad
  <2> HIDE DEF r
  <2>3. AskedOK(<<r>>)
    BY <2>2 DEF AskedOK
  <2>4. ASSUME n \notin MayReset PROVE Kept(obj[n], stored[n], <<r>>)
    BY <1>1, <2>2, <2>4 DEF Kept
  <2>5. Sound(n)
    BY <1>1, <2>1, <2>3, <2>4 DEF Sound
  <2> QED BY <1>1, <2>1, <2>5, StepIsSound
<1>5. ASSUME NEW n \in Nodes, AnswerTo(n) PROVE ObjectsOK'
  <2> DEFINE p == asked[n][1].of
             k == Skipped(obj[p], asked[n][1].since)
             messages == obj[p].messages
             answer == Append(asked[n], SubSeq(messages, k + 1, Len(messages)))
  <2>1. /\ Len(asked[n]) = 1
        /\ UNCHANGED <<kind, obj, stored>>
        /\ \/ /\ k <= Len(messages)
              /\ asked' = [asked EXCEPT ![n] = answer] /\ listening' = listening
           \/ asked' = [asked EXCEPT ![n] = <<>>] /\ listening' = listening \ {p}
    BY <1>5 DEF AnswerTo
  <2>2. k <= Len(messages) => AskedOK(answer) /\ answer[1] = asked[n][1]
    BY <2>1, AnswerIsOK
  <2>3. AskedOK(<<>>)
    BY DEF AskedOK
  <2>4. asked[n] # <<>>
    <3>1. Len(asked[n]) = 1 /\ AskedOK(asked[n])
      BY <1>1, <1>5 DEF AnswerTo
    <3> QED BY <3>1, RequestIs
  <2> HIDE DEF p, k, messages, answer
  <2>5. ASSUME n \notin MayReset
        PROVE  /\ Kept(obj[n], stored[n], <<>>)
               /\ k <= Len(messages) => Kept(obj[n], stored[n], answer)
    BY <1>1, <2>2, <2>4, <2>5 DEF Kept
  <2>6. Sound(n)
    BY <1>1, <2>1, <2>2, <2>3, <2>5 DEF Sound
  <2> QED BY <1>1, <2>1, <2>6, StepIsSound
<1>6. ASSUME NEW n \in Nodes, TakeAnswer(n) PROVE ObjectsOK'
  <2> DEFINE before == [obj |-> obj[n], stored |-> stored[n]]
             after == TakeAll(before, asked[n][2])
  <2>1. /\ Len(asked[n]) = 2
        /\ obj' = [obj EXCEPT ![n] = after.obj]
        /\ stored' = [stored EXCEPT ![n] = after.stored]
        /\ asked' = [asked EXCEPT ![n] = <<>>]
        /\ UNCHANGED <<kind, listening>>
    BY <1>6 DEF TakeAnswer
  <2>2. asked[n][2] \in Seq(Messages[kind])
    BY <1>1, <2>1, RequestIs, AnswerIs
  <2>3. before.obj = obj[n] /\ before.stored = stored[n]
    OBVIOUS
  <2>4. ObjectOK(after.obj, after.stored) /\ Grown(before, after)
    <3>1. ObjectOK(before.obj, before.stored)
      BY <1>1
    <3> HIDE DEF before
    <3> QED BY <1>1, <2>2, <3>1, TakeAllKeeps
  <2> HIDE DEF after, before
  <2>5. ASSUME n \notin MayReset PROVE Kept(after.obj, after.stored, <<>>)
    BY <1>1, <2>3, <2>4, <2>5 DEF Kept, Grown
  <2>6. Sound(n)
    BY <1>1, <2>1, <2>4, <2>5 DEF Sound, AskedOK
  <2> QED BY <1>1, <2>1, <2>6, StepIsSound
<1>7. ASSUME NEW n \in Nodes, LoseRequest(n) PROVE ObjectsOK'
  <2>1. Sound(n)
    BY <1>1, <1>7 DEF LoseRequest, Sound, AskedOK, Kept
  <2> QED BY <1>1, <1>7, <2>1, StepIsSound DEF LoseRequest
<1>8. ASSUME NEW n \in Nodes, NEW d \in AddedDigests, AddDigest(n, d) PROVE ObjectsOK'
  <2> DEFINE o == obj[n]
             next == [o EXCEPT !.digests = Append(o.digests, d)]
  <2>1. /\ obj' = [obj EXCEPT ![n] = next]
        /\ UNCHANGED <<kind, stored, asked, listening>>
        /\ kind # "log" /\ ~Contains(o.digests, d)
    BY <1>8 DEF AddDigest
  <2>2. ObjectOK(o, stored[n])
    BY <1>1
  <2>3. n \notin MayReset => Kept(o, stored[n], asked[n])
    BY <1>1
  <2> HIDE DEF o
  <2>4. /\ DOMAIN next = DOMAIN o
        /\ next.digests = Append(o.digests, d) /\ next.messages = o.messages
        /\ next.heads = o.heads /\ next.frontiers = o.frontiers
        /\ next.utxos = o.utxos /\ next.balances = o.balances
    BY <2>2 DEF ObjectOK, IsObject
  <2> HIDE DEF next
  <2>5. /\ next.digests \in Seq(KnownDigests) /\ ToSet(next.digests) = ToSet(o.digests) \cup {d}
        /\ d \notin ToSet(o.digests)
    <3>1. o.digests \in Seq(KnownDigests) /\ d \in KnownDigests
      BY <2>2 DEF ObjectOK, IsObject, KnownDigests
    <3>2. Append(o.digests, d) \in Seq(KnownDigests) /\ IsMore(Append(o.digests, d), o.digests, d)
      BY <3>1, Appended
    <3>3. d \notin ToSet(o.digests)
      BY <2>1, <3>1, LenProperties DEF Contains, ToSet
    <3> QED BY <2>4, <3>2, <3>3 DEF IsMore
  <2>6. Names(next) = Names(o) /\ d \notin Names(o)
    BY <2>2, <2>4, <2>5 DEF Names, ObjectOK, IndexOK
  <2>7. IsObject(next)
    BY <2>2, <2>4, <2>5 DEF ObjectOK, IsObject
  <2>8. IndexOK(next, stored[n])
    BY <2>1, <2>2, <2>4, <2>5, <2>6 DEF ObjectOK, IndexOK
  <2>9. HeadsOK(next)
    BY <2>2, <2>4, <2>6 DEF ObjectOK, HeadsOK
  <2>10. UtxosOK(next) /\ ValueOK(next)
    BY <2>2, <2>4 DEF ObjectOK, UtxosOK, ValueOK
  <2>11. LogOK(next)
    <3>1. IndexFollowsLog(next)
      BY <2>2, <2>4, <2>5, <2>6 DEF ObjectOK, LogOK, IndexFollowsLog
    <3>2. ChainOK(next) /\ DagOK(next)
      BY <2>2, <2>4 DEF ObjectOK, LogOK, ChainOK, DagOK, IsHeads
    <3> QED BY <3>1, <3>2 DEF LogOK
  <2>12. ObjectOK(next, stored[n])
    BY <2>7, <2>8, <2>9, <2>10, <2>11 DEF ObjectOK
  <2>13. n \notin MayReset => Kept(next, stored[n], asked[n])
    BY <2>3, <2>5, <2>6, HadStays DEF Kept, Remembers
  <2>14. Sound(n)
    BY <1>1, <2>1, <2>12, <2>13 DEF Sound
  <2> QED BY <1>1, <2>1, <2>14, StepIsSound
<1>9. ASSUME NEW n \in Nodes, CoreReset(n) PROVE ObjectsOK'
  <2>1. /\ obj' = [obj EXCEPT ![n] = FreshObject] /\ UNCHANGED <<kind, stored, asked, listening>>
        /\ n \in MayReset
    BY <1>9 DEF CoreReset
  <2>2. Sound(n)
    BY <1>1, <2>1, FreshIsOK DEF Sound
  <2> QED BY <1>1, <2>1, <2>2, StepIsSound
<1> QED BY <1>2, <1>3, <1>4, <1>5, <1>6, <1>7, <1>8, <1>9 DEF CoreNext

LEMMA ObjectsInvariant == CoreSpec => []ObjectsOK
  BY ObjectsInit, ObjectsStep, PTL DEF CoreSpec

\* What an object keeps next to its log - heads, unspent outputs, balances - is
\* what the messages of the log say, in whatever order gossip and digest sync
\* bring them (record_message and the add_message of each object).
THEOREM ObjectsFollowLogs == CoreSpec => []CoreInv
<1>1. ObjectsOK => CoreInv
  <2> SUFFICES ASSUME ObjectsOK PROVE CoreInv
    OBVIOUS
  <2>1. /\ listening \subseteq Nodes
        /\ \A n \in Nodes : ObjectOK(obj[n], stored[n]) /\ AskedOK(asked[n])
    BY DEF ObjectsOK
  <2>2. CoreTypeOK
    <3> SUFFICES ASSUME NEW n \in Nodes
                 PROVE  /\ ToSet(obj[n].messages) \subseteq Messages[kind]
                        /\ ToSet(obj[n].digests) \subseteq Names(obj[n]) \cup AddedDigests
                        /\ obj[n].heads \subseteq Names(obj[n])
                        /\ \A h \in DOMAIN obj[n].frontiers : obj[n].frontiers[h] \in Nat
                        /\ obj[n].utxos \subseteq {m.on : m \in Messages["utxo"]}
                        /\ obj[n].balances \in [BalanceAccounts -> Floats]
                        /\ {m.hash : m \in ToSet(obj[n].messages)} \subseteq stored[n]
                        /\ Len(asked[n]) \in 0 .. 2
      BY <2>1 DEF CoreTypeOK
    <3>1. ToSet(obj[n].messages) \subseteq Messages[kind]
      <4>1. obj[n].messages \in Seq(Messages[kind])
        BY <2>1 DEF ObjectOK, IsObject
      <4> QED BY <4>1, LenProperties, ElementOfSeq DEF ToSet
    <3>2. Len(asked[n]) \in 0 .. 2
      BY <2>1 DEF AskedOK
    <3>3. \A h \in DOMAIN obj[n].frontiers : obj[n].frontiers[h] \in Nat
      BY <2>1 DEF ObjectOK, IndexOK
    <3> QED BY <2>1, <3>1, <3>2, <3>3 DEF ObjectOK, IsObject, IndexOK, HeadsOK
  <2>3. CoreHeadsAreLeaves
    BY <2>1 DEF CoreHeadsAreLeaves, Checked, ObjectOK, HeadsOK
  <2>4. CoreUtxosFollowLog
    BY <2>1 DEF CoreUtxosFollowLog, ObjectOK, UtxosOK, Unspent
  <2>5. CoreValueConserved
    BY <2>1 DEF CoreValueConserved, ObjectOK, ValueOK
  <2> QED BY <2>2, <2>3, <2>4, <2>5 DEF CoreInv
<1> QED BY <1>1, ObjectsInvariant, PTL

\* No request ends the receive loop of a node to whose objects only messages were
\* added (the slices of messages_since_digest and gossip_messages).
THEOREM LoopsGoOn == CoreSpec => CoreLoopEnds
<1>2. ASSUME ObjectsOK, [CoreNext]_coreVars
      PROVE  [\A p \in listening \ listening' :
                  Len(obj[p].digests) > Len(obj[p].messages)]_coreVars
  <2> SUFFICES ASSUME NEW p \in listening \ listening'
               PROVE  Len(obj[p].digests) > Len(obj[p].messages)
    OBVIOUS
  <2>1. CoreNext
    BY <1>2 DEF coreVars
  <2>2. PICK n \in Nodes : AnswerTo(n)
    BY <2>1 DEF CoreNext, TakeMessage, Ask, TakeAnswer, LoseRequest, AddDigest, CoreReset
  <2> DEFINE k == Skipped(obj[p], asked[n][1].since)
  <2>3. p = asked[n][1].of /\ ~(k <= Len(obj[p].messages))
    BY <2>2 DEF AnswerTo
  <2>4. ObjectOK(obj[p], stored[p])
    BY <1>2 DEF ObjectsOK
  <2>5. /\ k \in Nat /\ Len(obj[p].messages) \in Nat /\ Len(obj[p].digests) \in Nat
        /\ k <= Len(obj[p].messages) \/ Len(obj[p].digests) > Len(obj[p].messages)
    BY <2>4, SkippedIs
  <2> QED BY <2>3, <2>5
<1> QED BY <1>2, ObjectsInvariant, PTL DEF CoreLoopEnds, CoreSpec

-----------------------------------------------------------------------------
(* What digest sync brings *)

\* Induction down from k.
LEMMA DownFrom ==
    ASSUME NEW k \in Nat, NEW S, k \in S, \A i \in 1 .. k : i \in S => i - 1 \in S
    PROVE  \A i \in 0 .. k : i \in S
<1> DEFINE T == {j \in Nat : k - j \in S}
<1>1. 0 \in T
  OBVIOUS
<1>2. ASSUME NEW j \in 0 .. k - 1, j \in T PROVE j + 1 \in T
  <2>1. k - j \in 1 .. k /\ (k - j) - 1 = k - (j + 1)
    OBVIOUS
  <2> QED BY <1>2, <2>1
<1>3. \A j \in 0 .. k : j \in T
  <2> HIDE DEF T
  <2> QED BY <1>1, <1>2, UpTo
<1> SUFFICES ASSUME NEW i \in 0 .. k PROVE i \in S
  OBVIOUS
<1>4. k - i \in 0 .. k /\ k - (k - i) = i
  OBVIOUS
<1>5. k - i \in T
  BY <1>3, <1>4
<1> QED BY <1>4, <1>5

\* An object whose index has messages alone.
Plain(o) == ToSet(o.digests) = Names(o)

LEMMA PlainIs ==
    ASSUME NEW o, NEW s, ObjectOK(o, s), Plain(o)
    PROVE  /\ Len(o.digests) = Len(o.messages) /\ Len(o.messages) \in Nat
           /\ DOMAIN o.messages = 1 .. Len(o.messages)
           /\ \A i \in 1 .. Len(o.messages) : o.digests[i] = Digest(o.messages[i])
<1>1. Len(o.messages) \in Nat /\ DOMAIN o.messages = 1 .. Len(o.messages)
  BY LenProperties DEF ObjectOK, IsObject
<1> QED BY <1>1 DEF ObjectOK, LogOK, IndexFollowsLog, Plain

LEMMA LogIs ==
    ASSUME kind \in CoreKinds, NEW o, NEW s, ObjectOK(o, s)
    PROVE  /\ Len(o.messages) \in Nat /\ DOMAIN o.messages = 1 .. Len(o.messages)
           /\ \A i \in 1 .. Len(o.messages) :
                  /\ o.messages[i] \in Messages[kind] /\ o.messages[i] \in ToSet(o.messages)
                  /\ Digest(o.messages[i]) \in Names(o)
                  /\ \A j \in 1 .. Len(o.messages) :
                        Digest(o.messages[i]) = Digest(o.messages[j]) => i = j
           /\ \A d \in Names(o) : \E i \in 1 .. Len(o.messages) : d = Digest(o.messages[i])
<1>1. o.messages \in Seq(Messages[kind])
  BY DEF ObjectOK, IsObject
<1>2. Len(o.messages) \in Nat /\ DOMAIN o.messages = 1 .. Len(o.messages)
  BY <1>1, LenProperties
<1>3. \A i \in 1 .. Len(o.messages) : o.messages[i] \in Messages[kind]
  BY <1>1, ElementOfSeq
<1> QED BY <1>2, <1>3 DEF ObjectOK, LogOK, IndexFollowsLog, Names, ToSet

\* Of the messages of a DAG up to heads that are in N, all are in N, if with each
\* message its parents are.
LEMMA BelowHeads ==
    ASSUME kind = "dag", NEW o, NEW s, ObjectOK(o, s), NEW hs, IsHeads(hs, o),
           NEW k \in Nat, k <= Len(o.messages), NEW N, hs[k] \subseteq N,
           \A i \in 1 .. k : o.messages[i].name \in N => ParentDigests(o.messages[i]) \subseteq N
    PROVE  \A i \in 1 .. k : o.messages[i].name \in N
<1> DEFINE log == o.messages
           S == {i \in 0 .. k : hs[i] \subseteq N}
<1>1. Len(log) \in Nat
  BY LogIs DEF CoreKinds
<1>2. \A i \in 1 .. k : /\ hs[i] = (hs[i - 1] \ ParentDigests(log[i])) \cup {log[i].name}
                        /\ log[i].name \in N => ParentDigests(log[i]) \subseteq N
  BY <1>1 DEF IsHeads
<1> HIDE DEF log
<1>3. ASSUME NEW i \in 1 .. k, i \in S PROVE i - 1 \in S
  <2>1. log[i].name \in hs[i] /\ hs[i - 1] \subseteq hs[i] \cup ParentDigests(log[i])
    BY <1>2
  <2>2. hs[i] \subseteq N /\ i - 1 \in 0 .. k
    BY <1>3
  <2> QED BY <1>2, <2>1, <2>2
<1>4. k \in S
  OBVIOUS
<1>5. \A i \in 0 .. k : i \in S
  <2> HIDE DEF S
  <2> QED BY <1>3, <1>4, DownFrom
<1> SUFFICES ASSUME NEW i \in 1 .. k PROVE log[i].name \in N
  BY DEF log
<1>6. hs[i] \subseteq N
  BY <1>5
<1> QED BY <1>2, <1>6

\* What Tells says of the object that is asked.
CanTell(o, since) ==
    CASE kind = "dag" -> since \in DOMAIN o.frontiers
      [] kind = "log" -> since \notin Names(o)
      [] OTHER -> since \in Names(o) \cup {NoDigest}

\* The messages that an answer of o leaves out are all in q, if o can tell.
LEMMA SkippedAreKnown ==
    ASSUME kind \in CoreKinds, NEW o, NEW s, ObjectOK(o, s), Plain(o),
           NEW q, NEW t, ObjectOK(q, t), Plain(q),
           NEW since, Had(q, since),
           \A m \in ToSet(o.messages) : SaysParents(m),
           \A m \in ToSet(q.messages) : SaysParents(m),
           CanTell(o, since)
    PROVE  /\ Skipped(o, since) \in Nat /\ Skipped(o, since) <= Len(o.messages)
           /\ \A i \in 1 .. Skipped(o, since) : Digest(o.messages[i]) \in Names(q)
<1> DEFINE k == Skipped(o, since)
           log == o.messages
<1>1. k \in Nat /\ k <= Len(log)
  BY SkippedIs, PlainIs
<1>2. /\ Len(log) \in Nat
      /\ \A i \in 1 .. Len(log) : log[i] \in Messages[kind] /\ log[i] \in ToSet(log)
  BY LogIs
<1>3. \A d \in Names(q) : \E j \in 1 .. Len(q.messages) :
          /\ d = Digest(q.messages[j]) /\ q.messages[j] \in Messages[kind]
          /\ q.messages[j] \in ToSet(q.messages)
  BY LogIs
<1>4. CASE kind = "log"
  <2>1. IsObject(o) /\ since \notin ToSet(o.digests)
    BY <1>4 DEF Plain, ObjectOK, CanTell
  <2>2. k = 0
    BY <1>4, <2>1, IndexIs DEF Skipped, LogSkips
  <2> QED BY <1>1, <2>2
<1>5. CASE kind = "dag"
  <2>1. PICK hs : IsHeads(hs, o)
    BY <1>5 DEF ObjectOK, LogOK, DagOK
  <2>2. k = o.frontiers[since] /\ since \in DOMAIN o.frontiers
    BY <1>5 DEF Skipped, DagSkips, CanTell
  <2>3. hs[k] \subseteq Names(q)
    BY <1>5, <2>1, <2>2 DEF IsHeads, Had
  <2>4. ASSUME NEW i \in 1 .. k, log[i].name \in Names(q)
        PROVE  ParentDigests(log[i]) \subseteq Names(q)
    <3> HIDE DEF k, log
    <3>1. i \in 1 .. Len(log)
      BY <1>1, <1>2
    <3>2. PICK j \in 1 .. Len(q.messages) :
              /\ log[i].name = q.messages[j].name /\ q.messages[j] \in Messages[kind]
              /\ q.messages[j] \in ToSet(q.messages)
      BY <1>3, <1>5, <2>4 DEF Digest
    <3>3. ParentDigests(log[i]) = ParentDigests(q.messages[j])
      BY <1>2, <3>1, <3>2, SameContent
    <3>4. ParentDigests(q.messages[j]) \subseteq Names(q)
      BY <1>5, <3>2 DEF ObjectOK, HeadsOK
    <3> QED BY <3>3, <3>4
  <2>5. \A i \in 1 .. k : log[i].name \in Names(q)
    <3> HIDE DEF k
    <3> QED BY <1>1, <1>5, <2>1, <2>3, <2>4, BelowHeads
  <2> QED BY <1>1, <1>5, <2>5 DEF Digest
<1>6. CASE kind = "blockchain"
  <2> DEFINE S == {i \in 0 .. k : i # 0 => log[i].name \in Names(q)}
  <2>1. ASSUME k # 0 PROVE log[k].name \in Names(q)
    <3>1. k = StateSkips(o, since)
      BY <1>6 DEF Skipped
    <3>2. since # NoDigest
      BY <2>1, <3>1 DEF StateSkips
    <3>3. since \in ToSet(o.digests) /\ since \in ToSet(q.digests)
      BY <1>6, <3>2 DEF Plain, Had, CanTell
    <3>4. Contains(o.digests, since)
      <4>1. o.digests \in Seq(KnownDigests)
        BY DEF ObjectOK, IsObject
      <4> QED BY <3>3, <4>1, LenProperties DEF Contains, ToSet
    <3>5. k = IndexOf(o, since)
      BY <2>1, <3>1, <3>4 DEF StateSkips
    <3>6. o.digests[k] = since
      BY <3>3, <3>5, IndexIs DEF ObjectOK
    <3>7. k \in 1 .. Len(log)
      <4> HIDE DEF k, log
      <4> QED BY <1>1, <1>2, <2>1
    <3>8. o.digests[k] = Digest(log[k])
      BY <3>7, PlainIs
    <3> QED BY <1>6, <3>3, <3>6, <3>8 DEF Plain, Digest
  <2>2. ASSUME NEW i \in 1 .. k, i \in S PROVE i - 1 \in S
    <3> SUFFICES ASSUME i # 1 PROVE log[i - 1].name \in Names(q)
      BY <1>1
    <3> HIDE DEF k, log
    <3>1. i \in 1 .. Len(log) /\ i - 1 \in 1 .. Len(log)
      BY <1>1, <1>2
    <3>2. log[i].name \in Names(q)
      BY <2>2
    <3>3. PICK j \in 1 .. Len(q.messages) :
              /\ log[i].name = q.messages[j].name /\ q.messages[j] \in Messages[kind]
      BY <1>3, <1>6, <3>2 DEF Digest
    <3>4. log[i].previous = q.messages[j].previous
      BY <1>2, <3>1, <3>3, SameContent
    <3>5. log[i].previous = log[i - 1].name /\ log[i - 1].name # NoDigest
      <4>1. log[i].previous = log[i - 1].name
        BY <1>6, <3>1, LogIs DEF ObjectOK, LogOK, ChainOK, log
      <4> QED BY <1>2, <3>1, <4>1, MessageIs
    <3>6. q.messages[j].previous =
            IF j = 1 THEN NoDigest ELSE q.messages[j - 1].name
      BY <1>6, LogIs DEF ObjectOK, LogOK, ChainOK
    <3>7. j - 1 \in 1 .. Len(q.messages) /\ log[i - 1].name = q.messages[j - 1].name
      <4>1. Len(q.messages) \in Nat
        BY LogIs
      <4>2. j # 1 /\ log[i - 1].name = q.messages[j - 1].name
        BY <3>4, <3>5, <3>6
      <4>3. j - 1 \in 1 .. Len(q.messages)
        BY ONLY j \in 1 .. Len(q.messages), <4>1, <4>2
      <4> QED BY <4>2, <4>3
    <3> QED BY <1>6, <3>7, LogIs DEF Digest
  <2>3. k \in S
    BY <1>1, <2>1
  <2>4. \A i \in 0 .. k : i \in S
    <3> HIDE DEF S, k, log
    <3> QED BY <1>1, <2>2, <2>3, DownFrom
  <2>5. ASSUME NEW i \in 1 .. k PROVE log[i].name \in Names(q)
    <3>1. i \in S /\ i # 0
      BY <1>1, <2>4
    <3> QED BY <3>1
  <2> QED BY <1>1, <1>6, <2>5 DEF Digest
<1>7. CASE kind \notin {"log", "dag", "blockchain"}
  <2>1. Len(log) = 0
    <3>1. ASSUME Len(log) # 0 PROVE FALSE
      <4>1. 1 \in 1 .. Len(log)
        BY <1>2, <3>1
      <4>2. SaysParents(log[1])
        BY <1>2, <4>1
      <4> QED BY <1>7, <4>2 DEF SaysParents
    <3> QED BY <3>1
  <2> HIDE DEF k, log
  <2>2. k = 0
    BY <1>1, <2>1
  <2> QED BY <1>1, <2>2 DEF k, log
<1> QED BY <1>4, <1>5, <1>6, <1>7

\* An object that has taken all that is stored, and nothing but messages.
Ready(s) == ObjectOK(s.obj, s.stored) /\ Remembers(s.obj, s.stored) /\ Plain(s.obj)

LEMMA ValidIsTaken ==
    ASSUME kind \in CoreKinds, NEW s, Ready(s), NEW m \in Messages[kind], IsValid(s.obj, m)
    PROVE  /\ Ready(Take(s, m)) /\ Names(s.obj) \subseteq Names(Take(s, m).obj)
           /\ Digest(m) \in Names(Take(s, m).obj)
           /\ Digest(m) \notin Names(s.obj) => Added(s.obj, m, Take(s, m).obj)
<1> DEFINE t == Take(s, m)
<1>1. /\ ObjectOK(s.obj, s.stored) /\ IsObject(s.obj) /\ Remembers(s.obj, s.stored)
      /\ ToSet(s.obj.digests) = Names(s.obj)
  BY DEF Ready, ObjectOK, Plain
<1>2. ObjectOK(t.obj, t.stored) /\ Grown(s, t)
  BY <1>1, TakeKeeps
<1>3. CASE m.hash \in s.stored
  <2>1. t = s /\ Digest(m) \in Names(s.obj)
    BY <1>1, <1>3 DEF Take, Remembers
  <2> HIDE DEF t
  <2> QED BY <2>1 DEF t
<1>4. CASE m.hash \notin s.stored
  <2>1. t.obj = AddMessage(s.obj, m)
    BY <1>4 DEF Take
  <2>2. Contains(s.obj.digests, Digest(m)) <=> Digest(m) \in Names(s.obj)
    <3>1. s.obj.digests \in Seq(KnownDigests)
      BY <1>1 DEF IsObject
    <3> QED BY <1>1, <3>1, LenProperties DEF Contains, ToSet
  <2>3. CASE Digest(m) \in Names(s.obj)
    <3>1. t.obj = s.obj
      BY <2>1, <2>2, <2>3 DEF AddMessage
    <3> HIDE DEF t
    <3> QED BY <1>1, <1>2, <2>3, <3>1 DEF Ready, Plain, Grown, t
  <2>4. CASE Digest(m) \notin Names(s.obj)
    <3>1. Added(s.obj, m, t.obj)
      BY <1>1, <2>1, <2>2, <2>4, AddMessageIs
    <3>2. Indexed(s.obj, m, t.obj)
      BY <1>1, <2>2, <2>4, <3>1, AddedIndex
    <3> HIDE DEF t
    <3>3. Plain(t.obj) /\ Digest(m) \in Names(t.obj)
      BY <1>1, <3>2 DEF Indexed, IsMore, Plain
    <3> QED BY <1>1, <1>2, <3>1, <3>3 DEF Ready, Grown, t
  <2> QED BY <2>3, <2>4
<1> QED BY <1>3, <1>4

\* If each message of an answer is valid in its turn, all are taken.
LEMMA AllAreTaken ==
    ASSUME kind \in CoreKinds, NEW s, Ready(s), NEW messages \in Seq(Messages[kind]),
           NEW f, f[0] = s,
           \A i \in 1 .. Len(messages) : f[i] = Take(f[i - 1], messages[i]),
           NEW J, 0 \in J,
           \A i \in 0 .. Len(messages) - 1 :
              /\ i \in J /\ Ready(f[i]) => IsValid(f[i].obj, messages[i + 1])
              /\ i \in J /\ Ready(f[i]) /\ Ready(f[i + 1]) => i + 1 \in J
    PROVE  \A m \in ToSet(messages) : Digest(m) \in Names(f[Len(messages)].obj)
<1> DEFINE n == Len(messages)
<1>1. /\ n \in Nat /\ DOMAIN messages = 1 .. n
      /\ \A i \in 1 .. n : messages[i] \in Messages[kind]
  BY LenProperties, ElementOfSeq
<1> DEFINE S == {i \in 0 .. n : /\ Ready(f[i]) /\ i \in J
                                /\ \A j \in 1 .. i : Digest(messages[j]) \in Names(f[i].obj)}
<1>2. 0 \in S
  BY <1>1
<1>3. \A i \in 0 .. n - 1 :
          /\ f[i + 1] = Take(f[i], messages[i + 1]) /\ messages[i + 1] \in Messages[kind]
          /\ i \in J /\ Ready(f[i]) => IsValid(f[i].obj, messages[i + 1])
          /\ i \in J /\ Ready(f[i]) /\ Ready(f[i + 1]) => i + 1 \in J
  <2> SUFFICES ASSUME NEW i \in 0 .. n - 1
               PROVE  /\ f[i + 1] = Take(f[i], messages[i + 1])
                      /\ messages[i + 1] \in Messages[kind]
    OBVIOUS
  <2>1. i + 1 \in 1 .. n /\ (i + 1) - 1 = i
    BY <1>1
  <2> HIDE DEF n
  <2> QED BY <1>1, <2>1 DEF n
<1> HIDE DEF n
<1>4. ASSUME NEW i \in 0 .. n - 1, i \in S PROVE i + 1 \in S
  <2>1. /\ Ready(f[i]) /\ i \in J
        /\ \A j \in 1 .. i : Digest(messages[j]) \in Names(f[i].obj)
    BY <1>4
  <2>2. /\ Ready(f[i + 1]) /\ Names(f[i].obj) \subseteq Names(f[i + 1].obj)
        /\ Digest(messages[i + 1]) \in Names(f[i + 1].obj)
    BY <1>3, <2>1, ValidIsTaken
  <2>3. \A j \in 1 .. i + 1 : j \in 1 .. i \/ j = i + 1
    OBVIOUS
  <2>4. i + 1 \in J /\ i + 1 \in 0 .. n
    BY <1>1, <1>3, <2>1, <2>2
  <2> QED BY <2>1, <2>2, <2>3, <2>4
<1> HIDE DEF S
<1>5. \A i \in 0 .. n : i \in S
  BY <1>1, <1>2, <1>4, UpTo
<1>6. \A j \in 1 .. n : Digest(messages[j]) \in Names(f[n].obj)
  BY <1>1, <1>5 DEF S
<1> QED BY <1>1, <1>6 DEF ToSet, n

\* A block that the tip takes is new and becomes the tip.
LEMMA BlockIsTaken ==
    ASSUME kind = "blockchain", NEW s, Ready(s), NEW m \in Messages[kind], IsValid(s.obj, m)
    PROVE  LET next == Take(s, m).obj
           IN  next.messages # <<>> /\ Last(next.messages) = m
<1> DEFINE log == s.obj.messages
           k == Len(log)
           next == Take(s, m).obj
<1>0. kind \in CoreKinds /\ ObjectOK(s.obj, s.stored)
  BY DEF CoreKinds, Ready
<1>1. /\ k \in Nat
      /\ \A i \in 1 .. k : /\ log[i] \in Messages[kind]
                           /\ log[i].name # NoDigest
                           /\ \A j \in 1 .. k : log[i].name = log[j].name => i = j
      /\ \A d \in Names(s.obj) : \E i \in 1 .. k : d = log[i].name
  <2>1. \A i \in 1 .. k : log[i] \in Messages[kind] /\ log[i].name # NoDigest
    BY <1>0, LogIs, MessageIs
  <2> QED BY <1>0, <2>1, LogIs DEF Digest
<1>2. \A i \in 1 .. k : log[i].previous = IF i = 1 THEN NoDigest ELSE log[i - 1].name
  BY <1>0, LogIs DEF ObjectOK, LogOK, ChainOK
<1>3. m.previous = IF k = 0 THEN NoDigest ELSE log[k].name
  <2>1. log = <<>> <=> k = 0
    BY <1>0, EmptySeq DEF ObjectOK, IsObject
  <2> QED BY <2>1 DEF IsValid, IsValidBlock, Last
<1>4. m.name \notin Names(s.obj)
  <2> SUFFICES ASSUME m.name \in Names(s.obj) PROVE FALSE
    OBVIOUS
  <2>1. PICK i \in 1 .. k : m.name = log[i].name
    BY <1>1
  <2> HIDE DEF log, k
  <2>2. m.previous = log[i].previous
    BY <1>0, <1>1, <2>1, SameContent
  <2>3. k # 0 /\ k \in 1 .. k
    BY <1>1, <2>1
  <2>4. log[k].name = IF i = 1 THEN NoDigest ELSE log[i - 1].name
    BY <1>2, <1>3, <2>2, <2>3
  <2>5. i # 1 /\ log[k].name = log[i - 1].name
    BY <1>1, <2>3, <2>4
  <2>6. i - 1 \in 1 .. k
    BY <1>1, <2>1, <2>5
  <2>7. k = i - 1
    BY <1>1, <2>3, <2>5, <2>6
  <2> QED BY <1>1, <2>1, <2>7
<1>5. Added(s.obj, m, next)
  BY <1>0, <1>4, ValidIsTaken DEF Digest
<1>6. next.messages = Append(log, m) /\ log \in Seq(Messages[kind])
  BY <1>0, <1>5 DEF Added, ObjectOK, IsObject
<1>7. IsMore(Append(log, m), log, m) /\ Append(log, m) \in Seq(Messages[kind])
  BY <1>6, Appended
<1>8. Append(log, m) # <<>> /\ Last(Append(log, m)) = m
  <2> DEFINE more == Append(log, m)
  <2>1. Len(more) = k + 1 /\ more[k + 1] = m /\ k \in Nat /\ more \in Seq(Messages[kind])
    BY <1>7 DEF IsMore
  <2> HIDE DEF more, log, k
  <2>2. Len(more) # 0
    BY <2>1
  <2>3. more # <<>>
    BY <2>1, <2>2, EmptySeq
  <2> QED BY <2>1, <2>3 DEF Last, more
<1> QED BY <1>6, <1>8

\* What an object had after heads that q has brings q, message by message, to the
\* heads that it had later.
LEMMA DagAnswer ==
    ASSUME kind = "dag", NEW o, NEW s, ObjectOK(o, s), NEW q, NEW t, ObjectOK(q, t),
           \A m \in ToSet(q.messages) : SaysParents(m),
           NEW hs, IsHeads(hs, o), NEW k \in Nat, k <= Len(o.messages), hs[k] = q.heads
    PROVE  \A d \in Names(q) : \E i \in 1 .. k : d = o.messages[i].name
<1> DEFINE log == o.messages
           n == Len(log)
           N == {log[i].name : i \in 1 .. k}
<1>0. kind \in CoreKinds
  BY DEF CoreKinds
<1>1. /\ n \in Nat
      /\ \A i \in 1 .. n : log[i] \in Messages[kind] /\ log[i].hasParents \in BOOLEAN
  BY <1>0, LogIs, MessageIs
<1>2. /\ hs[0] = {}
      /\ \A i \in 1 .. n :
            /\ hs[i] \subseteq hs[i - 1] \cup {log[i].name}
            /\ log[i].hasParents => log[i].parents \subseteq hs[i - 1]
  BY DEF IsHeads
<1> DEFINE S == {i \in 0 .. k : hs[i] \subseteq {log[j].name : j \in 1 .. i}}
<1>3. \A i \in 0 .. k : i \in S
  <2> HIDE DEF log, n
  <2>1. 0 \in S
    BY <1>2
  <2>2. ASSUME NEW i \in 0 .. k - 1, i \in S PROVE i + 1 \in S
    <3>1. i + 1 \in 1 .. n /\ (i + 1) - 1 = i
      BY <1>1 DEF n, log
    <3>2. hs[i + 1] \subseteq hs[i] \cup {log[i + 1].name}
      BY <1>2, <3>1
    <3>3. hs[i] \subseteq {log[j].name : j \in 1 .. i}
      BY <2>2
    <3>4. i + 1 \in 1 .. i + 1 /\ \A j \in 1 .. i : j \in 1 .. i + 1
      OBVIOUS
    <3>5. hs[i + 1] \subseteq {log[j].name : j \in 1 .. i + 1}
      BY <3>2, <3>3, <3>4
    <3>6. i + 1 \in 0 .. k
      OBVIOUS
    <3> QED BY <3>5, <3>6
  <2> HIDE DEF S
  <2> QED BY <2>1, <2>2, UpTo
<1>4. ASSUME NEW i \in 0 .. k PROVE hs[i] \subseteq N
  <2>1. hs[i] \subseteq {log[j].name : j \in 1 .. i}
    BY <1>3
  <2>2. \A j \in 1 .. i : j \in 1 .. k
    OBVIOUS
  <2> QED BY <2>1, <2>2
<1>5. q.heads \subseteq N
  BY <1>4
<1>6. PICK gs : IsHeads(gs, q)
  BY DEF ObjectOK, LogOK, DagOK
<1>7. Len(q.messages) \in Nat /\ gs[Len(q.messages)] = q.heads
  BY <1>0, <1>6, LogIs DEF IsHeads
<1>8. \A i \in 1 .. Len(q.messages) :
          q.messages[i] \in Messages[kind] /\ q.messages[i] \in ToSet(q.messages)
  BY <1>0, LogIs
<1>9. ASSUME NEW i \in 1 .. Len(q.messages), q.messages[i].name \in N
      PROVE  ParentDigests(q.messages[i]) \subseteq N
  <2> DEFINE e == q.messages[i]
  <2>1. PICK j \in 1 .. k : e.name = log[j].name
    BY <1>9
  <2>2. e \in Messages[kind] /\ SaysParents(e)
    BY <1>8
  <2>3. j \in 1 .. n /\ j - 1 \in 0 .. k
    BY <1>1
  <2>4. log[j] \in Messages[kind] /\ log[j].hasParents \in BOOLEAN
    BY <1>1, <2>3
  <2> HIDE DEF e, log, n
  <2>5. ParentDigests(e) = ParentDigests(log[j]) /\ SaysParents(log[j])
    BY <1>0, <2>1, <2>2, <2>4, SameContent
  <2>6. log[j].hasParents => log[j].parents \subseteq hs[j - 1]
    BY <1>2, <2>3
  <2>7. hs[j - 1] \subseteq N
    BY <1>4, <2>3
  <2>8. ParentDigests(log[j]) \subseteq N
    BY <2>4, <2>5, <2>6, <2>7 DEF ParentDigests, SaysParents
  <2> QED BY <2>5, <2>8 DEF e
<1> HIDE DEF N
<1>10. \A i \in 1 .. Len(q.messages) : q.messages[i].name \in N
  BY <1>5, <1>6, <1>7, <1>9, BelowHeads
<1>11. Names(q) \subseteq N
  BY <1>0, <1>10, LogIs DEF Digest
<1> QED BY <1>11 DEF N

LEMMA DagIsTaken ==
    ASSUME kind = "dag", NEW s, Ready(s), NEW m \in Messages[kind],
           m.hasParents => m.parents \subseteq s.obj.heads, m.name \notin Names(s.obj)
    PROVE  /\ IsValid(s.obj, m)
           /\ Take(s, m).obj.heads = (s.obj.heads \ ParentDigests(m)) \cup {m.name}
           /\ Names(Take(s, m).obj) = Names(s.obj) \cup {m.name}
<1>1. kind \in CoreKinds /\ Digest(m) = m.name /\ IsObject(s.obj)
  BY DEF CoreKinds, Digest, Ready, ObjectOK
<1>2. s.obj.heads \subseteq Names(s.obj) /\ ToSet(s.obj.digests) = Names(s.obj)
  BY DEF Ready, ObjectOK, HeadsOK, Plain
<1>3. IsValid(s.obj, m)
  BY <1>2 DEF IsValid, IsValidDag
<1>4. Added(s.obj, m, Take(s, m).obj)
  BY <1>1, <1>3, ValidIsTaken
<1>5. ~Contains(s.obj.digests, Digest(m))
  <2>1. s.obj.digests \in Seq(KnownDigests)
    BY <1>1 DEF IsObject
  <2> QED BY <1>1, <1>2, <2>1, LenProperties DEF Contains, ToSet
<1>6. Indexed(s.obj, m, Take(s, m).obj)
  BY <1>1, <1>4, <1>5, AddedIndex
<1>7. Names(Take(s, m).obj) = Names(s.obj) \cup {m.name}
  BY <1>1, <1>6 DEF Indexed
<1>8. Take(s, m).obj.heads = (s.obj.heads \ ParentDigests(m)) \cup {m.name}
  BY <1>4 DEF Added
<1> QED BY <1>3, <1>7, <1>8

LEMMA AnswerIsTaken ==
    ASSUME kind \in CoreKinds, NEW s, Ready(s), NEW messages,
           IsAnswer(messages, LatestDigest(s.obj)),
           \A m \in ToSet(s.obj.messages) : SaysParents(m),
           \A m \in ToSet(messages) : SaysParents(m),
           kind = "blockchain" /\ messages # <<>> => IsValid(s.obj, messages[1])
    PROVE  \A m \in ToSet(messages) : Digest(m) \in Names(TakeAll(s, messages).obj)
<1> DEFINE n == Len(messages)
           since == LatestDigest(s.obj)
<1>1. PICK o, u : /\ ObjectOK(o, u) /\ Skipped(o, since) <= Len(o.messages)
                  /\ messages = SubSeq(o.messages, Skipped(o, since) + 1, Len(o.messages))
  BY DEF IsAnswer
<1> DEFINE k == Skipped(o, since)
           log == o.messages
<1>2. k \in Nat /\ Len(log) \in Nat /\ log \in Seq(Messages[kind]) /\ k <= Len(log)
  BY <1>1, SkippedIs DEF ObjectOK, IsObject
<1>3. /\ messages \in Seq(Messages[kind]) /\ n = Len(log) - k
      /\ \A i \in 1 .. Len(log) - k : messages[i] = log[k + i]
  <2>1. messages = SubSeq(log, k + 1, Len(log))
    BY <1>1
  <2> HIDE DEF log, k
  <2> QED BY <1>2, <2>1, RestIs
<1>4. PICK f : /\ f[0] = s
               /\ \A i \in 1 .. Len(messages) : f[i] = Take(f[i - 1], messages[i])
               /\ TakeAll(s, messages) = f[Len(messages)]
  BY <1>2, <1>3, TakeAllIs
<1>5. /\ n \in Nat /\ DOMAIN messages = 1 .. n
      /\ \A i \in 0 .. n - 1 :
            /\ messages[i + 1] \in Messages[kind] /\ messages[i + 1] = log[k + i + 1]
            /\ f[i + 1] = Take(f[i], messages[i + 1])
            /\ k + i + 1 \in 1 .. Len(log)
  <2>1. n \in Nat /\ DOMAIN messages = 1 .. n
    BY <1>3, LenProperties
  <2> SUFFICES ASSUME NEW i \in 0 .. n - 1
               PROVE  /\ messages[i + 1] \in Messages[kind]
                      /\ messages[i + 1] = log[k + i + 1]
                      /\ f[i + 1] = Take(f[i], messages[i + 1])
                      /\ k + i + 1 \in 1 .. Len(log)
    BY <2>1
  <2> HIDE DEF k, log
  <2>2. /\ i + 1 \in 1 .. Len(log) - k /\ i + 1 \in 1 .. n /\ (i + 1) - 1 = i
        /\ k + (i + 1) = k + i + 1 /\ k + i + 1 \in 1 .. Len(log)
    BY <1>2, <1>3, <2>1
  <2> HIDE DEF n
  <2>3. messages[i + 1] \in Messages[kind]
    BY <1>3, <2>2, ElementOfSeq DEF n
  <2> QED BY <1>3, <1>4, <2>2, <2>3 DEF n
<1> SUFFICES \A m \in ToSet(messages) : Digest(m) \in Names(f[n].obj)
  BY <1>4
<1>6. CASE kind = "log"
  <2>1. \A i \in 0 .. n - 1 : IsValid(f[i].obj, messages[i + 1])
    BY <1>6 DEF IsValid
  <2>2. 0 \in 0 .. n /\ \A i \in 0 .. n - 1 : i + 1 \in 0 .. n
    BY <1>5
  <2> QED BY <1>3, <1>4, <2>1, <2>2, AllAreTaken
<1>7. CASE kind = "blockchain"
  <2> DEFINE J == {i \in 0 .. n : i < n => IsValid(f[i].obj, messages[i + 1])}
  <2>1. 0 \in J
    <3>1. 0 < n => messages # <<>>
      BY <1>3, <1>5, EmptySeq
    <3> QED BY <1>4, <1>5, <1>7, <3>1
  <2>2. ASSUME NEW i \in 0 .. n - 1, i \in J, Ready(f[i])
        PROVE  IsValid(f[i].obj, messages[i + 1]) /\ i + 1 \in J
    <3> HIDE DEF n, k, log
    <3>1. IsValid(f[i].obj, messages[i + 1])
      BY <1>5, <2>2
    <3>2. /\ f[i + 1].obj.messages # <<>>
          /\ Last(f[i + 1].obj.messages) = messages[i + 1]
      BY <1>5, <1>7, <2>2, <3>1, BlockIsTaken
    <3>3. ASSUME i + 1 < n PROVE IsValid(f[i + 1].obj, messages[i + 2])
      <4>1. i + 1 \in 0 .. n - 1 /\ (i + 1) + 1 = i + 2 /\ k + (i + 1) + 1 = k + i + 2
        BY <1>2, <1>5, <3>3
      <4>2. messages[i + 2] = log[k + i + 2] /\ k + i + 2 \in 1 .. Len(log)
        BY <1>5, <4>1
      <4>3. k + i + 2 # 1 /\ (k + i + 2) - 1 = k + i + 1
        BY <1>2, <1>5
      <4>4. log[k + i + 2].previous = log[k + i + 1].name
        <5>1. DOMAIN log = 1 .. Len(log)
          BY <1>2, LenProperties
        <5> QED BY <1>1, <1>7, <4>2, <4>3, <5>1 DEF ObjectOK, LogOK, ChainOK, log
      <4>5. messages[i + 2].previous = messages[i + 1].name
        BY <1>5, <4>2, <4>4
      <4> QED BY <1>7, <3>2, <4>5 DEF IsValid, IsValidBlock
    <3>4. i + 1 \in 0 .. n /\ (i + 1) + 1 = i + 2
      BY <1>5
    <3> QED BY <3>1, <3>3, <3>4
  <2> HIDE DEF J
  <2> QED BY <1>3, <1>4, <2>1, <2>2, AllAreTaken
<1>8. CASE kind = "dag"
  <2>1. PICK hs : IsHeads(hs, o)
    BY <1>1, <1>8 DEF ObjectOK, LogOK, DagOK
  <2>2. CASE since \notin DOMAIN o.frontiers
    <3>1. k = Len(log)
      BY <1>8, <2>2 DEF Skipped, DagSkips
    <3> HIDE DEF k, log
    <3>2. n = 0
      BY <1>2, <1>3, <3>1
    <3> HIDE DEF n
    <3>3. ToSet(messages) = {}
      BY <1>5, <3>2 DEF ToSet
    <3> QED BY <3>3
  <2>3. CASE since \in DOMAIN o.frontiers
    <3>1. hs[k] = s.obj.heads
      BY <1>8, <2>1, <2>3 DEF IsHeads, Skipped, DagSkips, LatestDigest
    <3> DEFINE UpToNow(i) == {log[j].name : j \in 1 .. k + i}
               J == {i \in 0 .. n : /\ f[i].obj.heads = hs[k + i]
                                    /\ Names(f[i].obj) \subseteq UpToNow(i)}
    <3>2. 0 \in J
      <4>1. ObjectOK(s.obj, s.stored)
        BY DEF Ready
      <4>2. \A d \in Names(s.obj) : \E i \in 1 .. k : d = log[i].name
        <5> HIDE DEF k
        <5> QED BY <1>1, <1>2, <1>8, <2>1, <3>1, <4>1, DagAnswer
      <4> HIDE DEF k, log, n
      <4>3. k + 0 = k /\ 0 \in 0 .. n
        BY <1>2, <1>5
      <4> QED BY <1>4, <3>1, <4>2, <4>3
    <3>3. ASSUME NEW i \in 0 .. n - 1, i \in J, Ready(f[i])
          PROVE  IsValid(f[i].obj, messages[i + 1]) /\ i + 1 \in J
      <4> DEFINE m == messages[i + 1]
                 j == k + i + 1
      <4>1. m = log[j] /\ m \in Messages[kind] /\ j \in 1 .. Len(log) /\ j - 1 = k + i
        <5>1. j - 1 = k + i
          BY ONLY <1>2, i \in 0 .. n - 1, <1>5
        <5> QED BY <1>5, <5>1
      <4>2. /\ hs[j] = (hs[k + i] \ ParentDigests(m)) \cup {m.name}
            /\ m.hasParents => m.parents \subseteq hs[k + i]
        BY <2>1, <4>1 DEF IsHeads
      <4>3. \A l \in 1 .. k + i : l \in 1 .. Len(log) /\ l # j /\ l \in 1 .. j
        <5> HIDE DEF k, log, n
        <5> QED BY <1>2, <1>5, <4>1
      <4>4. \A l \in 1 .. Len(log) : log[l].name = m.name => l = j
        BY <1>1, <1>8, <4>1, LogIs DEF Digest
      <4> HIDE DEF k, log, m, j
      <4>5. f[i].obj.heads = hs[k + i] /\ Names(f[i].obj) \subseteq UpToNow(i)
        BY <3>3
      <4>6. m.name \notin Names(f[i].obj)
        BY <4>3, <4>4, <4>5
      <4>7. /\ IsValid(f[i].obj, m)
            /\ Take(f[i], m).obj.heads = (f[i].obj.heads \ ParentDigests(m)) \cup {m.name}
            /\ Names(Take(f[i], m).obj) = Names(f[i].obj) \cup {m.name}
        <5>1. m.hasParents => m.parents \subseteq f[i].obj.heads
          BY <4>2, <4>5
        <5>2. m \in Messages[kind] /\ Ready(f[i])
          BY <3>3, <4>1
        <5> HIDE DEF UpToNow, J
        <5> QED BY <1>8, <4>6, <5>1, <5>2, DagIsTaken
      <4>8. f[i + 1] = Take(f[i], m) /\ k + (i + 1) = j /\ i + 1 \in 0 .. n
        <5>1. i + 1 \in 0 .. n /\ k + (i + 1) = k + i + 1
          BY <1>2, <1>5
        <5> QED BY <1>5, <5>1 DEF m, j
      <4>9. f[i + 1].obj.heads = hs[k + (i + 1)]
        BY <4>2, <4>5, <4>7, <4>8
      <4>10. Names(f[i + 1].obj) \subseteq UpToNow(i + 1)
        <5>1. j \in 1 .. j
          BY <4>1
        <5> QED BY <4>1, <4>3, <4>5, <4>7, <4>8, <5>1
      <4> QED BY <4>7, <4>8, <4>9, <4>10 DEF m
    <3> HIDE DEF J
    <3> QED BY <1>3, <1>4, <3>2, <3>3, AllAreTaken
  <2> QED BY <2>2, <2>3
<1>9. CASE kind \notin {"log", "dag", "blockchain"}
  BY <1>9 DEF SaysParents
<1> QED BY <1>6, <1>7, <1>8, <1>9

\* Digest sync leaves nothing out where the peer can tell what is lacking, and an
\* answer that joins is taken whole, although gossip, other digests and resets of
\* other nodes come between the request, the answer and its use (messages_since_digest,
\* gossip_messages, and the loop of node.rs over a MESSAGES_RESPONSE).
THEOREM SyncCatchesUp == CoreSpec => CoreSyncCatchesUp
<1> DEFINE Told(n) ==
               AnswerTo(n) /\ Tells(n, asked[n][1].of, asked[n][1].since) =>
                  LET p == asked[n][1].of
                  IN  /\ Len(asked'[n]) = 2
                      /\ Names(obj[p]) \subseteq
                            Names(obj[n]) \cup {Digest(m) : m \in ToSet(asked'[n][2])}
           Taken(n) ==
               TakeAnswer(n) /\ Joins(n) =>
                  {Digest(m) : m \in ToSet(asked[n][2])} \subseteq Names(obj'[n])
<1>1. ASSUME ObjectsOK, NEW n \in Nodes \ MayReset PROVE Told(n)
  <2> DEFINE r == asked[n][1]
             p == r.of
             o == obj[p]
             k == Skipped(o, r.since)
             answer == SubSeq(o.messages, k + 1, Len(o.messages))
  <2> SUFFICES ASSUME AnswerTo(n), Tells(n, p, r.since)
               PROVE  /\ Len(asked'[n]) = 2
                      /\ Names(o) \subseteq
                            Names(obj[n]) \cup {Digest(m) : m \in ToSet(asked'[n][2])}
    OBVIOUS
  <2>1. /\ kind \in CoreKinds /\ DOMAIN asked = Nodes /\ n \in Nodes
        /\ ObjectOK(obj[n], stored[n]) /\ AskedOK(asked[n])
        /\ Len(asked[n]) = 1
        /\ Kept(obj[n], stored[n], asked[n])
    BY <1>1 DEF ObjectsOK, AnswerTo
  <2>2. p \in Nodes /\ asked[n] # <<>>
    BY <2>1, RequestIs
  <2>3. ObjectOK(o, stored[p])
    BY <1>1, <2>2 DEF ObjectsOK
  <2>4. Had(obj[n], r.since)
    BY <2>1, <2>2 DEF Kept
  <2>5. /\ \A m \in ToSet(o.messages) : SaysParents(m)
        /\ \A m \in ToSet(obj[n].messages) : SaysParents(m)
        /\ Plain(o) /\ Plain(obj[n])
    BY DEF Tells, Checked, OnlyMessages, Plain
  <2>6. CanTell(o, r.since)
    BY DEF Tells, CanTell
  <2>7. /\ k \in Nat /\ k <= Len(o.messages)
        /\ \A i \in 1 .. k : Digest(o.messages[i]) \in Names(obj[n])
    <3> HIDE DEF r, o
    <3> QED BY <2>1, <2>3, <2>4, <2>5, <2>6, SkippedAreKnown
  <2>8. asked' = [asked EXCEPT ![n] = Append(asked[n], answer)]
    BY <2>7 DEF AnswerTo
  <2>9. asked'[n] = Append(asked[n], answer)
    BY <2>1, <2>8
  <2>10. Len(asked'[n]) = 2 /\ asked'[n][2] = answer
    BY <1>1, <2>1, <2>7, <2>9, AnswerIsOK
  <2>11. /\ Len(o.messages) \in Nat /\ o.messages \in Seq(Messages[kind])
         /\ \A d \in Names(o) : \E i \in 1 .. Len(o.messages) : d = Digest(o.messages[i])
    BY <2>1, <2>3, LogIs DEF ObjectOK, IsObject
  <2>12. \A i \in k + 1 .. Len(o.messages) : o.messages[i] \in ToSet(answer)
    <3> HIDE DEF k
    <3> QED BY <2>7, <2>11, RestIs
  <2>13. Names(o) \subseteq Names(obj[n]) \cup {Digest(m) : m \in ToSet(answer)}
    <3> SUFFICES ASSUME NEW d \in Names(o)
                 PROVE  d \in Names(obj[n]) \cup {Digest(m) : m \in ToSet(answer)}
      OBVIOUS
    <3>1. PICK i \in 1 .. Len(o.messages) : d = Digest(o.messages[i])
      BY <2>11
    <3> HIDE DEF o, k, answer
    <3>2. i \in 1 .. k \/ i \in k + 1 .. Len(o.messages)
      BY <2>7, <2>11
    <3> QED BY <2>7, <2>12, <3>1, <3>2
  <2> QED BY <2>10, <2>13
<1>2. ASSUME ObjectsOK, NEW n \in Nodes \ MayReset PROVE Taken(n)
  <2> DEFINE before == [obj |-> obj[n], stored |-> stored[n]]
             messages == asked[n][2]
  <2> SUFFICES ASSUME TakeAnswer(n), Joins(n)
               PROVE  {Digest(m) : m \in ToSet(messages)} \subseteq Names(obj'[n])
    OBVIOUS
  <2>1. /\ kind \in CoreKinds /\ DOMAIN obj = Nodes /\ n \in Nodes
        /\ ObjectOK(obj[n], stored[n]) /\ AskedOK(asked[n])
        /\ Len(asked[n]) = 2 /\ Kept(obj[n], stored[n], asked[n])
        /\ obj' = [obj EXCEPT ![n] = TakeAll(before, messages).obj]
    BY <1>2 DEF ObjectsOK, TakeAnswer
  <2>2. before.obj = obj[n] /\ before.stored = stored[n]
    OBVIOUS
  <2> HIDE DEF before
  <2>3. Ready(before)
    BY <2>1, <2>2 DEF Joins, OnlyMessages, Kept, Ready, Plain
  <2>4. IsAnswer(messages, LatestDigest(before.obj))
    BY <2>1, <2>2, RequestIs DEF Joins
  <2>5. /\ \A m \in ToSet(before.obj.messages) : SaysParents(m)
        /\ \A m \in ToSet(messages) : SaysParents(m)
        /\ kind = "blockchain" /\ messages # <<>> => IsValid(before.obj, messages[1])
    BY <2>2 DEF Joins, Checked
  <2> HIDE DEF messages
  <2>6. \A m \in ToSet(messages) : Digest(m) \in Names(TakeAll(before, messages).obj)
    BY <2>1, <2>3, <2>4, <2>5, AnswerIsTaken
  <2>7. obj'[n] = TakeAll(before, messages).obj
    BY <2>1
  <2>8. Names(obj'[n]) = Names(TakeAll(before, messages).obj)
    BY <2>7
  <2> QED BY <2>6, <2>8
<1>3. ObjectsOK => \A n \in Nodes \ MayReset : Told(n) /\ Taken(n)
  <2> HIDE DEF Told, Taken
  <2> QED BY <1>1, <1>2
<1>4. ObjectsOK /\ [CoreNext]_coreVars =>
        [\A n \in Nodes \ MayReset :
          /\ AnswerTo(n) /\ Tells(n, asked[n][1].of, asked[n][1].since) =>
                LET p == asked[n][1].of
                IN  /\ Len(asked'[n]) = 2
                    /\ Names(obj[p]) \subseteq
                            Names(obj[n]) \cup {Digest(m) : m \in ToSet(asked'[n][2])}
          /\ TakeAnswer(n) /\ Joins(n) =>
                {Digest(m) : m \in ToSet(asked[n][2])} \subseteq Names(obj'[n])]_coreVars
  BY <1>3, Zenon
<1> QED BY <1>4, ObjectsInvariant, PTL DEF CoreSyncCatchesUp, CoreSpec
=============================================================================
