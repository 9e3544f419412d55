------------------------------- MODULE Registry -------------------------------
(***************************************************************************)
(* The ApplicationObjectRegistry of one node with its pipeline, and two    *)
(* objects of shared_object.rs in it: SimpleSharedNumber ("number"), which *)
(* adds up integers and tells messages apart by their data, and            *)
(* MessageChain ("log"), which tells them apart by their hash.  "strict"   *)
(* stands for an object of an application whose is_valid refuses some      *)
(* messages and whose add_message may fail.  objects and                   *)
(* registration_order are updated together; objects_by_type, which the     *)
(* pipeline never reads, is left out.                                      *)
(***************************************************************************)
EXTENDS Sums

CONSTANTS
    ObjectIds,
    KindOf,          \* KindOf[i]: the kind of the object with id i
    RgMessages,
    Refused,         \* messages that a strict object finds invalid
    Resettable       \* ids of objects that their application may reset

VARIABLES
    order,           \* registration_order
    objects,         \* objects[i]: what the object with id i took, if it is there
    persisted,       \* messages in storage, with the ids that were registered then
    gone             \* ids that were registered before

rgVars == <<order, objects, persisted, gone>>

\* A message carries an integer; two may carry the same one.
ASSUME RgAssumption ==
    /\ KindOf \in [ObjectIds -> {"number", "log", "strict"}]
    /\ \A m \in RgMessages : m.data \in Int
    /\ Refused \subseteq RgMessages

Empty == [number |-> 0, messages |-> <<>>]

RgInit ==
    /\ order = <<>>
    /\ objects = [i \in {} |-> Empty]
    /\ persisted = {}
    /\ gone = {}

-----------------------------------------------------------------------------
DataOf(o) == {m.data : m \in ToSet(o.messages)}

Accepts(i, m) == ~(KindOf[i] = "strict" /\ m \in Refused)

HasSeen(i, m) ==
    CASE KindOf[i] = "number" -> m.data \in DataOf(objects[i])
      [] KindOf[i] = "log" -> Contains(objects[i].messages, m)
      [] OTHER -> FALSE

\* Mutant of Applied: a datum that comes again is counted again.
AppliedCountsAgain(i, m) ==
    [number |-> objects[i].number + (IF KindOf[i] = "number" THEN m.data ELSE 0),
     messages |-> IF HasSeen(i, m) THEN objects[i].messages
                  ELSE Append(objects[i].messages, m)]

\* add_message of the object with id i
Applied(i, m) ==
    IF HasSeen(i, m) THEN objects[i]
    ELSE [number |-> objects[i].number + (IF KindOf[i] = "number" THEN m.data ELSE 0),
          messages |-> Append(objects[i].messages, m)]

\* The objects registered at the first k places took the message.
AppliedToFirst(k, m) ==
    [i \in DOMAIN objects |->
        IF \E j \in 1 .. k : order[j] = i THEN Applied(i, m) ELSE objects[i]]

\* An object makes its own id, so a new one is not that of another; what was
\* removed is not registered again here.
Register(i) ==
    /\ i \notin gone
    /\ order' = Append(order, i)
    /\ objects' = [j \in DOMAIN objects \cup {i} |-> IF j = i THEN Empty ELSE objects[j]]
    /\ gone' = gone \cup {i}
    /\ UNCHANGED persisted

\* The order has an id once: what is left of it is the rest.
RemoveObject(i) ==
    /\ i \in DOMAIN objects
    /\ \E k \in DOMAIN order : order[k] = i /\ order' = RemoveAt(order, k)
    /\ objects' = [j \in DOMAIN objects \ {i} |-> objects[j]]
    /\ UNCHANGED <<persisted, gone>>

Clear ==
    /\ order # <<>>
    /\ order' = <<>>
    /\ objects' = [i \in {} |-> Empty]
    /\ UNCHANGED <<persisted, gone>>

Hashes == {s.message : s \in persisted}

\* process_message, for a message that the node has not stored: nothing happens
\* unless all objects accept it.  The node stores it when it succeeded.
ProcessMessage(m) ==
    /\ m \notin Hashes
    /\ \A i \in ToSet(order) : Accepts(i, m)
    /\ objects' = AppliedToFirst(Len(order), m)
    /\ persisted' = persisted \cup {[message |-> m, ids |-> ToSet(order)]}
    /\ UNCHANGED <<order, gone>>

\* Mutant: the message is stored although an object failed.
FailAndStore(m, k) ==
    /\ m \notin Hashes
    /\ \A i \in ToSet(order) : Accepts(i, m)
    /\ KindOf[order[k]] = "strict"
    /\ objects' = AppliedToFirst(k - 1, m)
    /\ persisted' = persisted \cup {[message |-> m, ids |-> ToSet(order)]}
    /\ UNCHANGED <<order, gone>>

\* add_message of the object at place k fails.  Objects before it keep the
\* message, and the node does not store it: it comes again.
FailHalfway(m, k) ==
    /\ m \notin Hashes
    /\ \A i \in ToSet(order) : Accepts(i, m)
    /\ KindOf[order[k]] = "strict"
    /\ objects' = AppliedToFirst(k - 1, m)
    /\ UNCHANGED <<order, persisted, gone>>

\* All objects took the message, and storage.put returned an error: it comes
\* again, to objects that all have it.
PutFails(m) ==
    /\ m \notin Hashes
    /\ \A i \in ToSet(order) : Accepts(i, m)
    /\ objects' = AppliedToFirst(Len(order), m)
    /\ UNCHANGED <<order, persisted, gone>>

\* Nothing calls reset but the application.
ResetObject(i) ==
    /\ i \in Resettable \cap DOMAIN objects
    /\ objects' = [objects EXCEPT ![i] = Empty]
    /\ UNCHANGED <<order, persisted, gone>>

RgNext ==
    \/ \E i \in ObjectIds : Register(i) \/ RemoveObject(i) \/ ResetObject(i)
    \/ Clear
    \/ \E m \in RgMessages :
          \/ ProcessMessage(m) \/ PutFails(m)
          \/ \E k \in DOMAIN order : FailHalfway(m, k)

RgSpec == RgInit /\ [][RgNext]_rgVars

-----------------------------------------------------------------------------
\* The order lists the ids of the objects, each once; what was stored came from
\* messages, for objects that were registered by then.
RgTypeOK ==
    /\ order \in Seq(ObjectIds)
    /\ ToSet(order) = DOMAIN objects
    /\ IsInjective(order)
    /\ DOMAIN objects \subseteq gone
    /\ gone \subseteq ObjectIds
    /\ \A i \in DOMAIN objects :
          objects[i] \in [number : Int, messages : Seq(RgMessages)]
    /\ persisted \subseteq [message : RgMessages, ids : SUBSET gone]

\* An object has all the data of every object that was registered after it:
\* a message that fails half way is lacking at the end of the order alone.
RgEarlierHasMore ==
    \A j, k \in DOMAIN order :
        j < k /\ order[j] \notin Resettable =>
            DataOf(objects[order[k]]) \subseteq DataOf(objects[order[j]])

\* A stored message is in every object that was registered when it came, in a
\* number by its data; after a removal or a failure too.
RgStoredEverywhere ==
    \A s \in persisted : \A i \in (s.ids \cap DOMAIN objects) \ Resettable :
        s.message.data \in DataOf(objects[i])
        /\ (KindOf[i] # "number" => Contains(objects[i].messages, s.message))

\* A number takes a datum once, although the message that failed behind it, or
\* in storage, came again; a log has a message once.
RgTakesOnce ==
    \A i \in DOMAIN objects :
        LET taken == objects[i].messages
        IN  /\ KindOf[i] = "number" =>
                  \A j, k \in DOMAIN taken : taken[j].data = taken[k].data => j = k
            /\ KindOf[i] = "log" => IsInjective(taken)

\* Order, objects and storage agree, through removals, failures half way
\* and puts that fail.
RgInv == RgTypeOK /\ RgEarlierHasMore /\ RgStoredEverywhere /\ RgTakesOnce

\* The sum of the data that an object took, one after the other.
DataSum(o) ==
    SumTo([k \in DOMAIN o.messages |-> o.messages[k].data], Len(o.messages))

\* A number is the sum of what it took, each message counted once, although
\* messages come again after a failure behind it or in storage.
RgCountsOnce ==
    \A i \in DOMAIN objects :
        KindOf[i] = "number" => objects[i].number = DataSum(objects[i])
=============================================================================
