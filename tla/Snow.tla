--------------------------------- MODULE Snow ---------------------------------
(***************************************************************************)
(* examples/slush.rs, snowflake.rs and snowball.rs: three objects that     *)
(* vote on a colour.  They differ in process_round, so one module has all  *)
(* three; protocol says which one the nodes run.  color is the preference  *)
(* of Snowball and last the colour of its streak.  wins is its confidence; *)
(* for the other two it is only kept for the properties, and so is saw:    *)
(* the majorities an object found.  process_round is called by the         *)
(* application, for any round and as often as it likes.                    *)
(***************************************************************************)
EXTENDS AppNetwork

CONSTANTS
    NodeIds,         \* node ids that votes carry; nodes have one each
    SampleThreshold, \* alpha * k, cut to an integer
    Beta,
    Colorless,       \* no colour yet
    SnowVotes,       \* what may be published
    MaxProcessed     \* bound: calls of process_round, all nodes together

VARIABLES
    protocol,
    snow,            \* snow[n]: the object of n
    processed        \* calls of process_round so far

Colors == {"Red", "Blue"}
Other(c) == IF c = "Red" THEN "Blue" ELSE "Red"
Protocols == {"slush", "snowflake", "snowball"}

\* copy tells votes with the same content, published twice, apart.
IsSnowVote(m) ==
    m \in [kind : {"vote"}, node : NodeIds, round : Nat, color : Colors,
           copy : Nat]

\* A threshold below one would let Slush take a colour that nobody voted for.
ASSUME SnowAssumption ==
    /\ IsFiniteSet(NodeIds) /\ Nodes \subseteq NodeIds
    /\ SampleThreshold \in Nat \ {0}
    /\ Beta \in Nat
    /\ Colorless \notin Colors
    /\ \A m \in SnowVotes : IsSnowVote(m)

snowVars == <<got, protocol, snow, processed>>

FreshSnow ==
    [color |-> Colorless, accepted |-> Colorless, last |-> Colorless,
     count |-> 0, votes |-> {}, wins |-> [c \in Colors |-> 0], saw |-> {}]

SnowInit ==
    /\ NetInit
    /\ protocol \in Protocols
    /\ snow = [n \in Nodes |-> FreshSnow]
    /\ processed = 0

-----------------------------------------------------------------------------
\* Mutant of CountVotes: votes of every round count.
CountVotesOfAllRounds(n, r, c) ==
    Cardinality({m \in snow[n].votes : m.node # n /\ m.color = c})

\* Votes of the node itself do not count; a vote published twice counts twice.
CountVotes(n, r, c) ==
    Cardinality({m \in snow[n].votes : m.round = r /\ m.node # n /\ m.color = c})

EnoughVotes(n, r, c) == CountVotes(n, r, c) >= SampleThreshold

Majority(n, r) ==
    {c \in Colors : EnoughVotes(n, r, c)
                    /\ CountVotes(n, r, c) > CountVotes(n, r, Other(c))}

Won(o, r, c) ==
    [o EXCEPT !.wins = [o.wins EXCEPT ![c] = o.wins[c] + 1],
              !.saw = @ \cup {<<r, c>>}]

\* Red is asked first, and no majority over the other colour is asked for.
SlushRound(n, r) ==
    LET o == snow[n]
        flips == {c \in Colors : EnoughVotes(n, r, c) /\ o.color # c}
        c == IF "Red" \in flips THEN "Red" ELSE "Blue"
    IN  IF o.color = Colorless \/ flips = {} THEN o
        ELSE [o EXCEPT !.color = c, !.saw = @ \cup {<<r, c>>}]

\* A round without majority leaves the count as it is.
SnowflakeRound(o, c) ==
    LET count == IF o.color = c THEN o.count + 1 ELSE 1
    IN  [o EXCEPT !.color = c,
                  !.count = count,
                  !.accepted = IF count > Beta THEN c ELSE @]

\* Mutant of SnowballRound: the preference follows the majority.
SnowballRoundFollows(o, c) ==
    LET count == IF o.last = c THEN o.count + 1 ELSE 1
    IN  [o EXCEPT !.color = c,
                  !.last = c,
                  !.count = count,
                  !.accepted = IF count > Beta THEN c ELSE @]

\* The streak is of majorities, what is accepted is the preference.
SnowballRound(o, c) ==
    LET conf == [o.wins EXCEPT ![c] = o.wins[c] + 1]
        pref == IF o.color = Colorless \/ conf[c] > conf[o.color]
                THEN c ELSE o.color
        count == IF o.last = c THEN o.count + 1 ELSE 1
    IN  [o EXCEPT !.color = pref,
                  !.last = c,
                  !.count = count,
                  !.accepted = IF count > Beta THEN pref ELSE @]

\* The first vote that comes, from whomever, is the first colour.
FirstColor(o, m) == IF o.color = Colorless THEN [o EXCEPT !.color = m.color] ELSE o

FirstPreference(o, m) ==
    IF o.color = Colorless THEN [o EXCEPT !.color = m.color, !.last = m.color] ELSE o

SnowVote(n, m) ==
    /\ Receive(n, m)
    /\ LET o == [snow[n] EXCEPT !.votes = @ \cup {m}]
       IN  snow' = [snow EXCEPT ![n] =
               IF protocol = "snowball" THEN FirstPreference(o, m) ELSE FirstColor(o, m)]
    /\ UNCHANGED <<protocol, processed>>

Processing ==
    /\ processed < MaxProcessed
    /\ processed' = processed + 1
    /\ UNCHANGED <<got, protocol>>

ProcessSlush(n, r) ==
    /\ protocol = "slush"
    /\ Processing
    /\ snow' = [snow EXCEPT ![n] = SlushRound(n, r)]

ProcessSnowflake(n, r) ==
    /\ protocol = "snowflake"
    /\ Processing
    /\ IF Majority(n, r) = {} THEN UNCHANGED snow
       ELSE \E c \in Majority(n, r) :
              snow' = [snow EXCEPT ![n] = Won(SnowflakeRound(snow[n], c), r, c)]

ProcessSnowball(n, r) ==
    /\ protocol = "snowball"
    /\ Processing
    /\ IF Majority(n, r) = {} THEN UNCHANGED snow
       ELSE \E c \in Majority(n, r) :
              snow' = [snow EXCEPT ![n] = Won(SnowballRound(snow[n], c), r, c)]

\* Only Slush leaves it to the application when to accept.
Finalize(n) ==
    /\ protocol = "slush"
    /\ snow' = [snow EXCEPT ![n] = [snow[n] EXCEPT !.accepted = snow[n].color]]
    /\ UNCHANGED <<got, protocol, processed>>

SnowReset(n) ==
    /\ Reset(n)
    /\ snow' = [snow EXCEPT ![n] = FreshSnow]
    /\ UNCHANGED <<protocol, processed>>

SnowNext ==
    \E n \in Nodes :
        \/ \E m \in SnowVotes : SnowVote(n, m)
        \/ \E r \in {m.round : m \in SnowVotes} :
              \/ ProcessSlush(n, r)
              \/ ProcessSnowflake(n, r)
              \/ ProcessSnowball(n, r)
        \/ Finalize(n)
        \/ SnowReset(n)

SnowSpec == SnowInit /\ [][SnowNext]_snowVars

-----------------------------------------------------------------------------
SnowObject ==
    [color : Colors \cup {Colorless}, accepted : Colors \cup {Colorless},
     last : Colors \cup {Colorless}, count : Nat, votes : SUBSET SnowVotes,
     wins : [Colors -> Nat], saw : SUBSET (Nat \X Colors)]

SnowTypeOK ==
    /\ protocol \in Protocols
    /\ processed \in Nat
    /\ snow \in [Nodes -> SnowObject]

\* Validity: what a node prefers or accepts, some node voted for, in all three
\* protocols and whatever the application processes when.
SnowValidity ==
    \A n \in Nodes : \A c \in {snow[n].color, snow[n].accepted} \ {Colorless} :
        \E m \in OfKind(Published, "vote") : m.color = c

\* What Snowflake and Snowball accept has won more rounds than Beta.  In
\* Snowball the streak that makes a node accept may be of the other colour:
\* the preference leads it nevertheless.
SnowAcceptedEarned ==
    \A n \in Nodes :
        protocol # "slush" /\ snow[n].accepted # Colorless =>
            snow[n].wins[snow[n].accepted] > Beta

\* Snowball: no colour has won more rounds than the preference.
SnowPreferenceLeads ==
    protocol = "snowball" =>
        \A n \in Nodes : snow[n].color # Colorless =>
            snow[n].wins[snow[n].color] >= snow[n].wins[Other(snow[n].color)]

\* Types, validity, and what the rounds that a node won say of its preference
\* and of what it accepted, in all three protocols.
SnowInv == SnowTypeOK /\ SnowValidity /\ SnowAcceptedEarned /\ SnowPreferenceLeads

\* Node ids that voted more than once in round r.
Repeats(r) ==
    {v \in NodeIds :
        Cardinality({m \in OfKind(Published, "vote") :
                        m.round = r /\ m.node = v}) > 1}

\* No two nodes see opposite majorities in a round whose voters vote once, when
\* more than half of the voters make a majority.
SnowRoundsDontSplit ==
    2 * SampleThreshold > Cardinality(NodeIds) =>
        \A n1, n2 \in Nodes : \A x \in snow[n1].saw, y \in snow[n2].saw :
            x[1] = y[1] /\ Repeats(x[1]) = {} => x[2] = y[2]
=============================================================================
