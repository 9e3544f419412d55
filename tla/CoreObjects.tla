----------------------------- MODULE CoreObjects -----------------------------
(***************************************************************************)
(* The merkelized objects of core_objects.rs and MessageChain ("log") of   *)
(* shared_object.rs, one kind on all nodes, fed by gossip and by digest    *)
(* sync.  The digest of a message is that of its content, whatever its     *)
(* hash; in a log it is the hash.  messages, digest_index and head_digests *)
(* are those of MerkelizedState; blocks, nodes and transactions repeat the *)
(* messages and are left out, and so is CoreStorage, which these objects   *)
(* write and never read.  A node looks up the hash of a message in its     *)
(* storage before it takes the message; operations of storage return no    *)
(* error here, as in MemoryStorage (what such an error does to a message   *)
(* is in NodeGossip, DigestSync and Registry).  Amounts and balances are   *)
(* f64 numbers, whose sums are rounded.                                    *)
(***************************************************************************)
EXTENDS Participants, Sums

CONSTANTS
    Messages,        \* Messages[k]: what may be published to objects of kind k
    NoDigest,        \* no previous_digest, "" or "genesis"
    AddedDigests,    \* digests that an application may add without a message
    Floats,          \* f64 numbers, in grains: a power of two that divides all amounts
    Exact,           \* 2^53 in grains: up to there no number is missing
    Infinite         \* 2^1024: the float after the last, which stands for infinity

VARIABLES
    kind,
    obj,             \* obj[n]: the object of n
    stored,          \* stored[n]: hashes in the storage of n, which a reset leaves
    asked,           \* asked[n]: the request of n for messages, with its answer
    listening        \* nodes whose receive loop runs

CoreKinds ==
    {"merkelized", "utxo", "balance", "blockchain", "dag", "transactions", "log"}
AllMessages == UNION {Messages[k] : k \in CoreKinds}

\* name is the digest of the content and parents the field of that name; a
\* content without that field may have a previous one.
IsCoreMessage(m) ==
    /\ DOMAIN m = {"hash", "name", "hasParents", "parents", "previous", "action",
                   "on", "to", "amount"}
    /\ m.hasParents \in BOOLEAN
    /\ m.action \in {"none", "add", "spend", "credit", "debit", "transfer"}
    /\ m.amount \in Floats \ {Infinite, -Infinite}

BalanceAccounts ==
    {m.on : m \in Messages["balance"]} \cup {m.to : m \in Messages["balance"]}

\* A hash is that of one message, and a digest of a content that of one content.
ASSUME CoreAssumption ==
    /\ \A m \in AllMessages : IsCoreMessage(m)
    /\ \A m, e \in AllMessages :
          /\ m.hash = e.hash => m = e
          /\ m.name = e.name => \A f \in DOMAIN m \ {"hash"} : m[f] = e[f]
    /\ IsFiniteSet(BalanceAccounts)
    /\ NoDigest \notin {m.name : m \in AllMessages} \cup {m.hash : m \in AllMessages}

ASSUME FloatsAssumption ==
    /\ Exact \in Nat /\ Infinite \in Nat /\ Exact < Infinite
    /\ -Exact .. Exact \cup {Infinite, -Infinite} \subseteq Floats
    /\ Floats \subseteq -Infinite .. Infinite

coreVars == <<kind, obj, stored, asked, listening>>

FreshObject ==
    [messages |-> <<>>, digests |-> <<>>, heads |-> {},
     frontiers |-> [h \in {{}} |-> 0], utxos |-> {},
     balances |-> [a \in BalanceAccounts |-> 0]]

CoreInit ==
    /\ kind \in CoreKinds
    /\ obj = [n \in Nodes |-> FreshObject]
    /\ stored = [n \in Nodes |-> {}]
    /\ asked = [n \in Nodes |-> <<>>]
    /\ listening = Nodes

-----------------------------------------------------------------------------
Digest(m) == IF kind = "log" THEN m.hash ELSE m.name

Names(o) == {Digest(o.messages[i]) : i \in DOMAIN o.messages}

\* extract_parent_digests
ParentDigests(m) == IF m.hasParents THEN m.parents ELSE {m.previous} \ {NoDigest}

IsValidUtxo(o, m) == m.action = "add" \/ (m.action = "spend" /\ m.on \in o.utxos)

IsValidBalance(o, m) ==
    \/ m.action = "credit"
    \/ m.action \in {"debit", "transfer"} /\ o.balances[m.on] >= m.amount

\* Only a content without previous_digest is first, only the tip is previous.
IsValidBlock(o, m) ==
    m.previous = IF o.messages = <<>> THEN NoDigest ELSE Last(o.messages).name

\* Mutant: parents that are not known are not looked at.
IsValidDagIfKnown(o, m) ==
    m.hasParents => m.parents \cap Names(o) \subseteq o.heads

\* All parents are heads still: previous_digest is not looked at.
IsValidDag(o, m) ==
    m.hasParents => m.parents \subseteq Names(o) /\ m.parents \subseteq o.heads

IsValid(o, m) ==
    \/ kind \in {"merkelized", "transactions", "log"}
    \/ kind = "utxo" /\ IsValidUtxo(o, m)
    \/ kind = "balance" /\ IsValidBalance(o, m)
    \/ kind = "blockchain" /\ IsValidBlock(o, m)
    \/ kind = "dag" /\ IsValidDag(o, m)

RecordMessage(o, m) ==
    [o EXCEPT !.messages = Append(@, m),
              !.digests = Append(@, m.name),
              !.heads = (@ \ ParentDigests(m)) \cup {m.name}]

\* A log keeps no heads.
LogMessage(o, m) ==
    [o EXCEPT !.messages = Append(@, m), !.digests = Append(@, m.hash)]

Record(o, m) == IF kind = "log" THEN LogMessage(o, m) ELSE RecordMessage(o, m)

UtxoEffect(o, m) ==
    [o EXCEPT !.utxos = IF m.action = "add" THEN @ \cup {m.on} ELSE @ \ {m.on}]

Apart(x, y) == IF x < y THEN y - x ELSE x - y

\* A nearest float; which of two is left open.
Rounded(x) == CHOOSE y \in Floats : \A z \in Floats : Apart(x, y) <= Apart(x, z)

\* The f64 sum of a balance and an amount, which is finite.
FloatSum(x, y) == IF x \in {Infinite, -Infinite} THEN x ELSE Rounded(x + y)

\* Both entries of a transfer are computed before the first is written, so a
\* transfer to oneself keeps the second.
Moved(b, m) ==
    LET more(a) == FloatSum(b[a], m.amount)
        less(a) == FloatSum(b[a], -m.amount)
    IN  CASE m.action = "credit" -> [b EXCEPT ![m.on] = more(m.on)]
          [] m.action = "debit" -> [b EXCEPT ![m.on] = less(m.on)]
          [] m.action = "transfer" ->
                [b EXCEPT ![m.on] = less(m.on), ![m.to] = more(m.to)]

BalanceEffect(o, m) == [o EXCEPT !.balances = Moved(@, m)]

WithFrontier(o, index) ==
    [h \in DOMAIN o.frontiers \cup {o.heads} |->
        IF h = o.heads THEN index ELSE o.frontiers[h]]

\* Mutant: the index of the next message.
DagEffectNext(o, m) == [o EXCEPT !.frontiers = WithFrontier(o, Len(o.messages) + 1)]

\* frontier_state_index: how many messages there were when these were the heads.
DagEffect(o, m) == [o EXCEPT !.frontiers = WithFrontier(o, Len(o.messages))]

Effect(o, m) ==
    CASE kind = "utxo" -> UtxoEffect(o, m)
      [] kind = "balance" -> BalanceEffect(o, m)
      [] kind = "dag" -> DagEffect(o, m)
      [] OTHER -> o

\* A digest that is known already, from a message or not, makes it a no-op.
AddMessage(o, m) == IF Contains(o.digests, Digest(m)) THEN o ELSE Effect(Record(o, m), m)

\* A message of an answer: one in storage or rejected is skipped.
Take(s, m) ==
    IF m.hash \in s.stored \/ ~IsValid(s.obj, m) THEN s
    ELSE [obj |-> AddMessage(s.obj, m), stored |-> s.stored \cup {m.hash}]

\* The messages of an answer, one after the other.
TakeAll(s, messages) ==
    LET after[i \in 0 .. Len(messages)] ==
            IF i = 0 THEN s ELSE Take(after[i - 1], messages[i])
    IN  after[Len(messages)]

LatestDigest(o) ==
    IF kind = "dag" THEN o.heads
    ELSE IF o.digests = <<>> THEN NoDigest ELSE Last(o.digests)

IndexOf(o, d) == SelectInSeq(o.digests, LAMBDA e : e = d)

\* Mutant: one too many.
StateSkipsOneMore(o, d) ==
    IF d = NoDigest \/ o.messages = <<>> THEN 0
    ELSE IF Contains(o.digests, d) THEN IndexOf(o, d) + 1 ELSE Len(o.messages)

\* messages_since_digest: for a digest that is not known no message is left.
\* The index is that of the digest, not that of a message.
StateSkips(o, d) ==
    IF d = NoDigest \/ o.messages = <<>> THEN 0
    ELSE IF Contains(o.digests, d) THEN IndexOf(o, d) ELSE Len(o.messages)

DagSkips(o, d) ==
    IF d \in DOMAIN o.frontiers THEN o.frontiers[d] ELSE Len(o.messages)

\* A log gives all it has for a digest that it does not know.
LogSkips(o, d) == IndexOf(o, d)

\* How many of the first messages an answer leaves out.
Skipped(o, d) ==
    CASE kind = "dag" -> DagSkips(o, d)
      [] kind = "log" -> LogSkips(o, d)
      [] OTHER -> StateSkips(o, d)

-----------------------------------------------------------------------------
\* A message from a peer, or from the application of n.
TakeMessage(n, m) ==
    /\ m \in Messages[kind]
    /\ m.hash \notin stored[n]
    /\ IsValid(obj[n], m)
    /\ obj' = [obj EXCEPT ![n] = AddMessage(@, m)]
    /\ stored' = [stored EXCEPT ![n] = @ \cup {m.hash}]
    /\ UNCHANGED <<kind, asked, listening>>

\* Digest sync: p has another digest than n, and n asks p for what came after
\* its own.  Nodes ask one request at a time here.
Ask(n, p) ==
    /\ n # p
    /\ {n, p} \subseteq listening
    /\ asked[n] = <<>>
    /\ LatestDigest(obj[n]) # LatestDigest(obj[p])
    /\ asked' = [asked EXCEPT ![n] = <<[of |-> p, since |-> LatestDigest(obj[n])]>>]
    /\ UNCHANGED <<kind, obj, stored, listening>>

\* p answers the request of n.  The slice of messages from beyond their end
\* panics, and with it the task of the receive loop.
AnswerTo(n) ==
    /\ Len(asked[n]) = 1
    /\ LET p == asked[n][1].of
           k == Skipped(obj[p], asked[n][1].since)
           messages == obj[p].messages
       IN  /\ p \in listening
           /\ IF k <= Len(messages)
              THEN /\ asked' = [asked EXCEPT ![n] =
                                    Append(@, SubSeq(messages, k + 1, Len(messages)))]
                   /\ UNCHANGED listening
              ELSE /\ asked' = [asked EXCEPT ![n] = <<>>]
                   /\ listening' = listening \ {p}
    /\ UNCHANGED <<kind, obj, stored>>

TakeAnswer(n) ==
    /\ Len(asked[n]) = 2
    /\ n \in listening
    /\ LET after == TakeAll([obj |-> obj[n], stored |-> stored[n]], asked[n][2])
       IN  /\ obj' = [obj EXCEPT ![n] = after.obj]
           /\ stored' = [stored EXCEPT ![n] = after.stored]
    /\ asked' = [asked EXCEPT ![n] = <<>>]
    /\ UNCHANGED <<kind, listening>>

\* The network loses the request or its answer.
LoseRequest(n) ==
    /\ asked[n] # <<>>
    /\ asked' = [asked EXCEPT ![n] = <<>>]
    /\ UNCHANGED <<kind, obj, stored, listening>>

\* add_digest: a digest without a message, from which on the index of a digest
\* is no longer that of its message, and whose message is never recorded.
AddDigest(n, d) ==
    /\ kind # "log"
    /\ ~Contains(obj[n].digests, d)
    /\ obj' = [obj EXCEPT ![n].digests = Append(@, d)]
    /\ UNCHANGED <<kind, stored, asked, listening>>

CoreReset(n) ==
    /\ n \in MayReset
    /\ obj' = [obj EXCEPT ![n] = FreshObject]
    /\ UNCHANGED <<kind, stored, asked, listening>>

CoreNext ==
    \E n \in Nodes :
        \/ \E m \in AllMessages : TakeMessage(n, m)
        \/ \E p \in Nodes : Ask(n, p)
        \/ AnswerTo(n)
        \/ TakeAnswer(n)
        \/ LoseRequest(n)
        \/ \E d \in AddedDigests : AddDigest(n, d)
        \/ CoreReset(n)

CoreSpec == CoreInit /\ [][CoreNext]_coreVars

-----------------------------------------------------------------------------
\* What the fields hold.
CoreTypeOK ==
    /\ listening \subseteq Nodes
    /\ \A n \in Nodes :
        /\ ToSet(obj[n].messages) \subseteq Messages[kind]
        /\ ToSet(obj[n].digests) \subseteq Names(obj[n]) \cup AddedDigests
        /\ obj[n].heads \subseteq Names(obj[n])
        /\ \A h \in DOMAIN obj[n].frontiers : obj[n].frontiers[h] \in Nat
        /\ obj[n].utxos \subseteq {m.on : m \in Messages["utxo"]}
        /\ obj[n].balances \in [BalanceAccounts -> Floats]
        /\ {m.hash : m \in ToSet(obj[n].messages)} \subseteq stored[n]
        /\ Len(asked[n]) \in 0 .. 2

\* Contents that say what they build on the way their kind checks it.
SaysParents(m) ==
    \/ kind = "dag" /\ (m.hasParents \/ m.previous = NoDigest)
    \/ kind = "blockchain" /\ ~m.hasParents
    \/ kind = "log"

Checked(n) == \A m \in ToSet(obj[n].messages) : SaysParents(m)

OnlyMessages(n) == ToSet(obj[n].digests) = Names(obj[n])

\* The heads are what nothing builds on, in a DAG and in a chain: no message
\* comes after one that builds on it, whatever comes when.
CoreHeadsAreLeaves ==
    \A n \in Nodes : Checked(n) /\ kind # "log" =>
        obj[n].heads =
            Names(obj[n]) \ UNION {ParentDigests(m) : m \in ToSet(obj[n].messages)}

\* Whether p can tell from the digest it is asked with what n lacks: in a DAG
\* or a chain if it has had these heads or this tip, in a log if it has not.
Tells(n, p, since) ==
    /\ Checked(n) /\ Checked(p)
    /\ OnlyMessages(n) /\ OnlyMessages(p)
    /\ CASE kind = "dag" -> since \in DOMAIN obj[p].frontiers
         [] kind = "log" -> since \notin Names(obj[p])
         [] OTHER -> since \in Names(obj[p]) \cup {NoDigest}

\* Whether the answer that n has got is one to the object that it has.
Joins(n) ==
    LET messages == asked[n][2]
    IN  /\ Checked(n) /\ OnlyMessages(n)
        /\ \A m \in ToSet(messages) : SaysParents(m)
        /\ asked[n][1].since = LatestDigest(obj[n])
        /\ kind = "blockchain" /\ messages # <<>> => IsValid(obj[n], messages[1])

\* A node that can tell what the one that asks lacks leaves nothing out of its
\* answer, however late it answers; and all of an answer joins the object of a
\* node that has the digest still that it asked with, if in a chain the first
\* block does: every message is valid in its turn.
CoreSyncCatchesUp ==
    [][\A n \in Nodes \ MayReset :
          /\ AnswerTo(n) /\ Tells(n, asked[n][1].of, asked[n][1].since) =>
                LET p == asked[n][1].of
                IN  /\ Len(asked'[n]) = 2
                    /\ Names(obj[p]) \subseteq
                            Names(obj[n]) \cup {Digest(m) : m \in ToSet(asked'[n][2])}
          /\ TakeAnswer(n) /\ Joins(n) =>
                {Digest(m) : m \in ToSet(asked[n][2])} \subseteq Names(obj'[n])]_coreVars

\* No request ends the receive loop of a node whose application added no digest
\* without a message.
CoreLoopEnds ==
    [][\A p \in listening \ listening' :
          Len(obj[p].digests) > Len(obj[p].messages)]_coreVars

\* The UTXOs are those that the log adds and does not spend after that.
CoreUtxosFollowLog ==
    kind = "utxo" =>
        \A n \in Nodes :
            LET log == obj[n].messages
            IN  obj[n].utxos =
                    {log[i].on : i \in {j \in DOMAIN log :
                        /\ log[j].action = "add"
                        /\ \A l \in j + 1 .. Len(log) :
                              log[l].action = "spend" => log[l].on # log[j].on}}

\* What a message adds to all accounts together: of what an account transfers to
\* itself nothing is taken.
Gained(m) ==
    CASE m.action = "credit" -> m.amount
      [] m.action = "debit" -> -m.amount
      [] m.action = "transfer" /\ m.on = m.to -> m.amount
      [] OTHER -> 0

\* What the first k messages of a log move.
Turnover(log, k) == SumTo([i \in DOMAIN log |-> Apart(log[i].amount, 0)], k)

\* No account goes below nothing unless an amount is negative, which nobody
\* checks, however the sums are rounded; and all accounts together have what the
\* messages of the log add as long as all that these move is at most what f64
\* numbers count without a gap.
CoreValueConserved ==
    kind = "balance" =>
        \A n \in Nodes :
            LET log == obj[n].messages
            IN  /\ (\A m \in ToSet(log) : m.amount >= 0) =>
                      \A a \in BalanceAccounts : obj[n].balances[a] >= 0
                /\ Turnover(log, Len(log)) <= Exact =>
                      SumOver(BalanceAccounts, obj[n].balances) =
                          SumTo([i \in DOMAIN log |-> Gained(log[i])], Len(log))

\* What an object keeps next to its log - heads, outputs, balances - is what the
\* log says, on every node and in whatever order the messages came.
CoreInv == CoreTypeOK /\ CoreHeadsAreLeaves /\ CoreUtxosFollowLog /\ CoreValueConserved
=============================================================================
