------------------------------- MODULE MCApps -------------------------------
(***************************************************************************)
(* The example objects, one application at a time: app says which one the  *)
(* nodes run.                                                              *)
(***************************************************************************)
EXTENDS Tendermint, Beacon, Snow, EcdsaLedger, Chatroom

VARIABLE app

appVars == <<got, tm, bc, protocol, snow, processed, ledger, chat, app>>

AppsInit ==
    /\ TmInit /\ BcInit /\ SnowInit /\ LgInit /\ ChInit
    /\ app \in {"tendermint", "beacon", "snow", "ledger", "chatroom"}
    /\ app # "snow" => protocol = "slush"

AppsNext ==
    /\ UNCHANGED app
    /\ \/ /\ app = "tendermint"
          /\ TmNext
          /\ UNCHANGED <<bc, protocol, snow, processed, ledger, chat>>
       \/ /\ app = "beacon"
          /\ BcNext
          /\ UNCHANGED <<tm, protocol, snow, processed, ledger, chat>>
       \/ /\ app = "snow"
          /\ SnowNext
          /\ UNCHANGED <<tm, bc, ledger, chat>>
       \/ /\ app = "ledger"
          /\ LgNext
          /\ UNCHANGED <<tm, bc, protocol, snow, processed, chat>>
       \/ /\ app = "chatroom"
          /\ ChNext
          /\ UNCHANGED <<tm, bc, protocol, snow, processed, ledger>>

AppsSpec == AppsInit /\ [][AppsNext]_appVars

-----------------------------------------------------------------------------
\* Tendermint: four validators of power one, one of which may vote twice.
MCWeight == [S \in SUBSET Validators |-> Cardinality(S)]

Precommit(v, b) ==
    [kind |-> "precommit", height |-> 1, round |-> 0, validator |-> v, block |-> b]

WholeSet == [kind |-> "validators", set |-> Validators]

MCTmMessages ==
    {WholeSet, [kind |-> "commit", height |-> 2, block |-> "B"],
     [Precommit("v1", "A") EXCEPT !.height = 2],
     [Precommit("v1", "B") EXCEPT !.kind = "prevote"]}
    \cup {Precommit(v, "A") : v \in {"v1", "v2", "v4"}}
    \cup {Precommit(v, "B") : v \in {"v2", "v3", "v4"}}

\* Beacon: two validators, one of which has two inputs for round 1.
Proof(r, v, i) ==
    [kind |-> "proof", round |-> r, validator |-> v, input |-> i]
Signature(r, v) == [kind |-> "signature", round |-> r, validator |-> v]

MCBcMessages ==
    {[kind |-> "registration", validator |-> v] : v \in BcValidators}
    \cup {Proof(1, "v1", 1), Proof(1, "v1", 2), Proof(1, "v2", 1),
          Proof(2, "v1", 1), Signature(1, "v1"), Signature(1, "v2"),
          [kind |-> "challenge", round |-> 1], [kind |-> "finalized", round |-> 1]}

\* Snow: the nodes are two of three voters; n1 sees two red votes for round 1
\* and two blue ones for round 2.
Vote(v, r, c, k) ==
    [kind |-> "vote", node |-> v, round |-> r, color |-> c, copy |-> k]

MCSnowVotes ==
    {Vote("n1", 1, "Blue", 1), Vote("n2", 1, "Red", 1), Vote("v3", 1, "Red", 1),
     Vote("n2", 2, "Blue", 1), Vote("v3", 2, "Blue", 1)}

\* Tendermint: the second node hears of block B alone.
\* Beacon says nothing of two nodes, so one moves; a node that starts over in
\* Snow takes no more votes.
FewStates ==
    /\ app = "tendermint" =>
          got["n2"] \subseteq {WholeSet} \cup {Precommit(v, "B") : v \in Validators}
    /\ app = "beacon" => got["n2"] = {}
    /\ app = "snow" => \A n \in Nodes : snow[n].votes \in {{}, got[n]}

\* Ledger: two amounts that a balance below Width does not hold together.
Transfer(f, t, x, k) ==
    [kind |-> "transfer", from |-> f, to |-> t, amount |-> x, nonce |-> k,
     signed |-> TRUE, copy |-> 1]

MCLgMessages ==
    {Transfer("a", "b", 2, 0), Transfer("a", "b", 3, 1), Transfer("b", "a", 1, 0),
     Transfer("b", "a", 3, 0), Transfer("b", "a", 1, 1),
     [Transfer("a", "b", 2, 0) EXCEPT !.signed = FALSE, !.copy = 2]}

\* Chatroom: one room that two keys create.
Chat(kind, by, who, signed) ==
    [kind |-> kind, room |-> "room", by |-> by, who |-> who, signed |-> signed,
     copy |-> 1]

MCChMessages ==
    {Chat("create", "k1", "k1", TRUE), Chat("create", "k2", "k2", TRUE),
     Chat("request", "k2", "k2", TRUE), Chat("accept", "k1", "k2", TRUE),
     Chat("post", "k2", "k2", TRUE), Chat("accept", "k1", "k3", FALSE)}
=============================================================================
