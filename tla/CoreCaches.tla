------------------------------ MODULE CoreCaches ------------------------------
(***************************************************************************)
(* CacheObject, Mempool and DocumentCache of core_objects.rs: maps that    *)
(* keep the last value taken for a key.  Mempool and DocumentCache keep    *)
(* two maps that are always written together: map stands for both.  A key  *)
(* that is missing from a message is the digest of its content.            *)
(***************************************************************************)
EXTENDS AppNetwork

CONSTANTS
    CacheKeys,
    CacheValues,
    CaMessages       \* what may be published

VARIABLES
    cacheKind,
    caches           \* caches[n]: its map, and its CoreStorage, which it never reads

CacheKinds == {"cache", "mempool", "documents"}

IsCacheMessage(m) ==
    m \in [kind : {"put", "delete", "remove"}, key : CacheKeys,
           value : CacheValues, copy : Nat]

ASSUME CaAssumption == \A m \in CaMessages : IsCacheMessage(m)

caVars == <<got, cacheKind, caches>>

Partial(S, T) == UNION {[D -> T] : D \in SUBSET S}

CaInit ==
    /\ NetInit
    /\ cacheKind \in CacheKinds
    /\ caches = [n \in Nodes |-> [map |-> NoMap, store |-> NoMap]]

-----------------------------------------------------------------------------
Inserted(c, m) == [map |-> With(c.map, m.key, m.value),
                   store |-> With(c.store, m.key, m.value)]
\* Mutant: the storage keeps the key.
DeletedFromMap(c, m) == [c EXCEPT !.map = Without(c.map, m.key)]

Deleted(c, m) == [map |-> Without(c.map, m.key), store |-> Without(c.store, m.key)]

TakeCached(n, m) ==
    /\ cacheKind = "cache"
    /\ Receive(n, m)
    /\ caches' = [caches EXCEPT ![n] =
                    IF m.kind = "delete" THEN Deleted(@, m) ELSE Inserted(@, m)]
    /\ UNCHANGED cacheKind

\* A mempool removes; to delete is not known to it, and is a transaction.
TakePooled(n, m) ==
    /\ cacheKind = "mempool"
    /\ Receive(n, m)
    /\ caches' = [caches EXCEPT ![n] =
                    IF m.kind = "remove" THEN Deleted(@, m) ELSE Inserted(@, m)]
    /\ UNCHANGED cacheKind

TakeDocument(n, m) ==
    /\ cacheKind = "documents"
    /\ Receive(n, m)
    /\ caches' = [caches EXCEPT ![n] =
                    IF m.kind = "delete" THEN Deleted(@, m) ELSE Inserted(@, m)]
    /\ UNCHANGED cacheKind

\* The storage keeps what it has.
CaReset(n) ==
    /\ Reset(n)
    /\ caches' = [caches EXCEPT ![n] = [caches[n] EXCEPT !.map = NoMap]]
    /\ UNCHANGED cacheKind

CaNext ==
    \E n \in Nodes :
        \/ \E m \in CaMessages :
              TakeCached(n, m) \/ TakePooled(n, m) \/ TakeDocument(n, m)
        \/ CaReset(n)

CaSpec == CaInit /\ [][CaNext]_caVars

-----------------------------------------------------------------------------
\* Maps from keys to values, also after a message of a kind that is not known.
CaTypeOK ==
    /\ cacheKind \in CacheKinds
    /\ caches \in [Nodes -> [map : Partial(CacheKeys, CacheValues),
                             store : Partial(CacheKeys, CacheValues)]]

\* The storage has what the map has, and without a reset no more: no key that
\* was deleted comes back from it.
CaStoreKeepsMap ==
    \A n \in Nodes :
        /\ \A k \in DOMAIN caches[n].map :
              k \in DOMAIN caches[n].store /\ caches[n].store[k] = caches[n].map[k]
        /\ n \notin MayReset => caches[n].store = caches[n].map

\* Keys that two messages are about: a delete and a put, or a put again.
Disputed == {m.key : m \in {x \in Published : \E y \in Published : x # y /\ x.key = y.key}}

\* Nodes that took the same messages, in any order, have stored the same for
\* every key that one message is about.
CaAgree ==
    \A n1, n2 \in Nodes :
        got[n1] = got[n2] =>
            \A k \in CacheKeys \ Disputed :
                /\ k \in DOMAIN caches[n1].store <=> k \in DOMAIN caches[n2].store
                /\ k \in DOMAIN caches[n1].store =>
                        caches[n1].store[k] = caches[n2].store[k]

\* A map and its storage stay together, and so do the caches of two nodes.
CaInv == CaTypeOK /\ CaStoreKeepsMap /\ CaAgree
=============================================================================
