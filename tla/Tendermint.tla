------------------------------ MODULE Tendermint ------------------------------
(***************************************************************************)
(* examples/tendermint.rs: TendermintObject on any number of nodes.  The   *)
(* object counts precommits; who votes for what is up to the validators,   *)
(* of which some may vote twice.  current_round is never assigned anything *)
(* but 0, state nothing but Propose and the lock nothing but None, so they *)
(* are no variables here; votes of another round are ignored.              *)
(***************************************************************************)
EXTENDS AppNetwork

CONSTANTS
    Validators,      \* addresses
    Faulty,          \* validators that may precommit two blocks at a height
    Weight,          \* voting power of every set of validators
    BlockHashes,
    Nil,             \* block_hash: None
    TmMessages       \* what may be published

VARIABLE tm          \* tm[n]: the TendermintObject of n

TmVoteKinds == {"proposal", "prevote", "precommit"}
TmVotes == [kind : TmVoteKinds, height : Nat, validator : Validators,
            block : BlockHashes \cup {Nil}]

\* Voting power adds up, and a third of it at most is with the faulty.
ASSUME TmPowerAssumption ==
    /\ Faulty \subseteq Validators
    /\ Weight \in [SUBSET Validators -> Nat]
    /\ Weight[{}] = 0
    /\ \A S, T \in SUBSET Validators :
          Weight[S \cup T] + Weight[S \cap T] = Weight[S] + Weight[T]
    /\ 3 * Weight[Faulty] <= Weight[Validators]

IsTendermintMessage(m) ==
    \/ m \in [kind : TmVoteKinds, height : Nat, round : Nat,
              validator : Validators, block : BlockHashes \cup {Nil}]
    \/ m \in [kind : {"validators"}, set : SUBSET Validators]
    \/ m \in [kind : {"commit"}, height : Nat, block : BlockHashes]

ASSUME TmMessagesAssumption ==
    /\ Nil \notin BlockHashes
    /\ \A m \in TmMessages : IsTendermintMessage(m)

tmVars == <<got, tm>>

TmObjects ==
    [validators : SUBSET Validators, height : Nat, votes : SUBSET TmVotes,
     blocks : Seq([height : Nat, block : BlockHashes \cup {Nil},
                   byVotes : BOOLEAN])]

TmInit ==
    /\ NetInit
    /\ tm = [n \in Nodes |->
                [validators |-> {}, height |-> 1, votes |-> {},
                 blocks |-> <<[height |-> 0, block |-> Nil, byVotes |-> FALSE]>>]]

-----------------------------------------------------------------------------
\* Mutant of HasMajority: two thirds are compared with one third.
HasMajorityHalved(o, voters) == Weight[voters] * 3 > Weight[o.validators]

\* Power is counted for validators the object knows.
HasMajority(o, voters) == Weight[voters] * 3 > Weight[o.validators] * 2

\* Mutant of Voters: prevotes are taken for precommits.
VotersOfAnyKind(o, b) ==
    {v \in o.validators :
        \E vote \in o.votes : vote.height = o.height /\ vote.validator = v
                              /\ vote.block = b}

Voters(o, b) ==
    {v \in o.validators :
        [kind |-> "precommit", height |-> o.height, validator |-> v, block |-> b]
            \in o.votes}

CanCommit(o) == {b \in BlockHashes : HasMajority(o, Voters(o, b))}

\* Old proposals and votes go; byVotes remembers which branch committed.
CommitBlock(o, b, byVotes) ==
    [o EXCEPT !.blocks = Append(@, [height |-> o.height, block |-> b,
                                    byVotes |-> byVotes]),
              !.height = @ + 1,
              !.votes = {v \in @ : v.height >= o.height + 1}]

\* The check after every message that was processed.
Advance(o) ==
    IF CanCommit(o) = {} THEN o
    ELSE CommitBlock(o, CHOOSE b \in CanCommit(o) : TRUE, TRUE)

\* The maps are keyed by height and round, those of votes by validator too.
Replaces(new, old) ==
    /\ old.kind = new.kind
    /\ old.height = new.height
    /\ new.kind = "proposal" \/ old.validator = new.validator

WithVote(o, m) ==
    LET vote == [kind |-> m.kind, height |-> m.height,
                 validator |-> m.validator, block |-> m.block]
    IN  [o EXCEPT !.votes = {v \in @ : ~Replaces(vote, v)} \cup {vote}]

WithSet(o, set) == [o EXCEPT !.validators = @ \cup set]

IsCurrent(o, m) == m.height = o.height /\ m.round = 0

-----------------------------------------------------------------------------
\* A validator that is not faulty precommits one block at a height.
MayPublish(m) ==
    \/ m \in Published
    \/ m.kind # "precommit"
    \/ m.validator \in Faulty
    \/ \A p \in OfKind(Published, "precommit") :
          p.validator = m.validator /\ p.height = m.height => p.block = m.block

TakeVote(n, m) ==
    /\ m.kind \in TmVoteKinds
    /\ MayPublish(m)
    /\ Receive(n, m)
    /\ IsCurrent(tm[n], m)
    /\ tm' = [tm EXCEPT ![n] = Advance(WithVote(@, m))]

\* A vote for another height or round is stored by the node and lost here.
IgnoreVote(n, m) ==
    /\ m.kind \in TmVoteKinds
    /\ MayPublish(m)
    /\ Receive(n, m)
    /\ ~IsCurrent(tm[n], m)
    /\ UNCHANGED tm

TakeValidatorSet(n, m) ==
    /\ m.kind = "validators"
    /\ Receive(n, m)
    /\ tm' = [tm EXCEPT ![n] = Advance(WithSet(@, m.set))]

\* The height in the message is not looked at.
TakeBlockCommit(n, m) ==
    /\ m.kind = "commit"
    /\ Receive(n, m)
    /\ tm' = [tm EXCEPT ![n] = Advance(CommitBlock(@, m.block, FALSE))]

\* blocks and validators stay.
TmReset(n) ==
    /\ Reset(n)
    /\ tm' = [tm EXCEPT ![n].height = 1, ![n].votes = {}]

TmNext ==
    \/ \E n \in Nodes, m \in TmMessages :
          \/ TakeVote(n, m)
          \/ IgnoreVote(n, m)
          \/ TakeValidatorSet(n, m)
          \/ TakeBlockCommit(n, m)
    \/ \E n \in Nodes : TmReset(n)

TmSpec == TmInit /\ [][TmNext]_tmVars

-----------------------------------------------------------------------------
TmTypeOK ==
    /\ got \in [Nodes -> SUBSET Published]
    /\ tm \in [Nodes -> TmObjects]

\* Every validator set among the messages P is the whole set.
WholeIn(P) == \A m \in OfKind(P, "validators") : m.set = Validators

\* Validators with a precommit for block b at height h among the messages P.
Backing(P, h, b) ==
    {v \in Validators :
        \E m \in OfKind(P, "precommit") :
            m.validator = v /\ m.height = h /\ m.block = b}

Quorum(S) == 3 * Weight[S] > 2 * Weight[Validators]

\* What an object committed because it counted votes.
ByVotes(o) == {o.blocks[i] : i \in {j \in DOMAIN o.blocks : o.blocks[j].byVotes}}

\* Votes are for the height that the object is at, and precommits among them
\* were published.
VotesOK(o, P) ==
    \A v \in o.votes :
        /\ v.height = o.height
        /\ v.kind = "precommit" => v.validator \in Backing(P, v.height, v.block)

\* A block that was committed by counting votes has precommits of more than two
\* thirds of all voting power behind it: neither replaced votes, nor votes of
\* other heights, nor votes of who is no validator were counted.
BlocksOK(o, P) ==
    WholeIn(P) =>
        /\ o.validators \in {{}, Validators}
        /\ \A b \in ByVotes(o) : Quorum(Backing(P, b.height, b.block))

\* No object waits with votes enough to commit: nothing but the next message
\* would make it look at them again.
ObjectOK(o, P) == VotesOK(o, P) /\ BlocksOK(o, P) /\ CanCommit(o) = {}

HonestOnce(P) ==
    \A m1, m2 \in OfKind(P, "precommit") :
        /\ m1.validator \notin Faulty
        /\ m1.validator = m2.validator
        /\ m1.height = m2.height
        => m1.block = m2.block

\* Every block that a node committed by counting votes has a quorum behind it,
\* and no node waits with a quorum, although votes are replaced, lost with the
\* height they are for, counted before validators are known, and overtaken by
\* commit messages that nobody checks.
TmInv ==
    /\ TmTypeOK
    /\ HonestOnce(Published)
    /\ \A n \in Nodes : ObjectOK(tm[n], Published)

\* Agreement: nodes that count votes commit the same block at a height, also
\* when a node starts over, as long as every validator set they hear of is the
\* whole one and a third of the power at most votes twice.
TmAgreement ==
    WholeIn(Published) =>
        \A n1, n2 \in Nodes :
            \A b1 \in ByVotes(tm[n1]), b2 \in ByVotes(tm[n2]) :
                b1.height = b2.height => b1.block = b2.block
=============================================================================
