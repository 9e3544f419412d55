-------------------------------- MODULE Beacon --------------------------------
(***************************************************************************)
(* examples/randomness_beacon.rs: RandomnessBeaconObject on any number of  *)
(* nodes.  A round is finalised by a number of proofs and a number of      *)
(* signatures; its randomness is the hash of the outputs of the proofs in  *)
(* the order in which they came.  An output is a function of round, input  *)
(* and validator, so the sequence of proofs stands for the randomness.     *)
(***************************************************************************)
EXTENDS AppNetwork

CONSTANTS
    BcValidators,
    Threshold,       \* "Minimum number of participants needed"
    Inputs,          \* inputs of proofs
    BcMessages       \* what may be published

VARIABLE bc          \* bc[n]: the RandomnessBeaconObject of n

BcProofs == [validator : BcValidators, input : Inputs]

IsBeaconMessage(m) ==
    \/ m \in [kind : {"proof"}, round : Nat, validator : BcValidators,
              input : Inputs]
    \/ m \in [kind : {"signature"}, round : Nat, validator : BcValidators]
    \/ m \in [kind : {"registration"}, validator : BcValidators]
    \/ m \in [kind : {"challenge"}, round : Nat]
    \/ m \in [kind : {"finalized"}, round : Nat]

ASSUME BcAssumption ==
    /\ Threshold \in Nat \ {0}
    /\ \A m \in BcMessages : IsBeaconMessage(m)

bcVars == <<got, bc>>

BcRounds == [proofs : Seq(BcProofs), signers : SUBSET BcValidators,
             challenges : SUBSET BcMessages]

FreshBeacon(validators) ==
    [validators |-> validators, round |-> 1, proofs |-> NoMap, sigs |-> NoMap,
     challenges |-> {}, rounds |-> NoMap]

BcInit ==
    /\ NetInit
    /\ bc = [n \in Nodes |-> FreshBeacon({})]

-----------------------------------------------------------------------------
\* Pending proofs and signatures are kept by round: proofs[r] are those of r in
\* the order in which they came, sigs[r] the validators that signed r.
ProofsOf(o, r) == IF r \in DOMAIN o.proofs THEN o.proofs[r] ELSE <<>>
SignersOf(o, r) == IF r \in DOMAIN o.sigs THEN o.sigs[r] ELSE {}
ChallengesOf(o, r) == {c \in o.challenges : c.round = r}

CanFinalizeRound(o) ==
    /\ Len(ProofsOf(o, o.round)) >= Threshold
    /\ Cardinality(SignersOf(o, o.round)) >= Threshold

FinalOf(o) ==
    [proofs |-> ProofsOf(o, o.round), signers |-> SignersOf(o, o.round),
     challenges |-> ChallengesOf(o, o.round)]

\* Mutant of FinalizeRound: the signatures of the round stay pending.
FinalizeRoundKeepsSigs(o) ==
    [o EXCEPT !.rounds = With(o.rounds, o.round, FinalOf(o)),
              !.proofs = Without(o.proofs, o.round),
              !.challenges = o.challenges \ ChallengesOf(o, o.round),
              !.round = o.round + 1]

FinalizeRound(o) ==
    [validators |-> o.validators, round |-> o.round + 1,
     proofs |-> Without(o.proofs, o.round), sigs |-> Without(o.sigs, o.round),
     challenges |-> o.challenges \ ChallengesOf(o, o.round),
     rounds |-> With(o.rounds, o.round, FinalOf(o))]

\* Mutant of Finalized: what comes late still goes to the round before.
FinalizedAgain(o) ==
    IF CanFinalizeRound(o) THEN FinalizeRound(o)
    ELSE IF o.round = 1 THEN o
    ELSE [o EXCEPT !.rounds[o.round - 1].signers = SignersOf(o, o.round)]

\* The check after every message that was processed; one round at a time.
Finalized(o) == IF CanFinalizeRound(o) THEN FinalizeRound(o) ELSE o

IsAdmitted(o, m) == m.round = o.round /\ m.validator \in o.validators

WithProof(o, m) ==
    [o EXCEPT !.proofs =
        With(o.proofs, m.round, Append(ProofsOf(o, m.round),
                                       [validator |-> m.validator, input |-> m.input]))]

WithSignature(o, m) ==
    [o EXCEPT !.sigs = With(o.sigs, m.round, SignersOf(o, m.round) \cup {m.validator})]

WithValidator(o, m) == [o EXCEPT !.validators = @ \cup {m.validator}]

WithChallenge(o, m) == [o EXCEPT !.challenges = @ \cup {m}]

-----------------------------------------------------------------------------
TakeProof(n, m) ==
    /\ m.kind = "proof"
    /\ Receive(n, m)
    /\ IsAdmitted(bc[n], m)
    /\ bc' = [bc EXCEPT ![n] = Finalized(WithProof(bc[n], m))]

TakeSignature(n, m) ==
    /\ m.kind = "signature"
    /\ Receive(n, m)
    /\ IsAdmitted(bc[n], m)
    /\ bc' = [bc EXCEPT ![n] = Finalized(WithSignature(bc[n], m))]

\* Another round, or a validator that is not registered here yet.
IgnoreContribution(n, m) ==
    /\ m.kind \in {"proof", "signature"}
    /\ Receive(n, m)
    /\ ~IsAdmitted(bc[n], m)
    /\ UNCHANGED bc

TakeRegistration(n, m) ==
    /\ m.kind = "registration"
    /\ Receive(n, m)
    /\ bc' = [bc EXCEPT ![n] = Finalized(WithValidator(bc[n], m))]

\* Challenges are taken for any round, finalised or to come.
TakeChallenge(n, m) ==
    /\ m.kind = "challenge"
    /\ Receive(n, m)
    /\ bc' = [bc EXCEPT ![n] = Finalized(WithChallenge(bc[n], m))]

\* A round that another node finalised is only noted.
TakeFinalized(n, m) ==
    /\ m.kind = "finalized"
    /\ Receive(n, m)
    /\ bc' = [bc EXCEPT ![n] = Finalized(bc[n])]

\* Validators stay registered.
BcReset(n) ==
    /\ Reset(n)
    /\ bc' = [bc EXCEPT ![n] = FreshBeacon(bc[n].validators)]

BcNext ==
    \/ \E n \in Nodes, m \in BcMessages :
          \/ TakeProof(n, m)
          \/ TakeSignature(n, m)
          \/ IgnoreContribution(n, m)
          \/ TakeRegistration(n, m)
          \/ TakeChallenge(n, m)
          \/ TakeFinalized(n, m)
    \/ \E n \in Nodes : BcReset(n)

BcSpec == BcInit /\ [][BcNext]_bcVars

-----------------------------------------------------------------------------
BcTypeOK ==
    /\ DOMAIN bc = Nodes
    /\ \A n \in Nodes :
          LET o == bc[n]
          IN  o \in [validators : SUBSET BcValidators, round : Nat \ {0},
                     proofs : [DOMAIN o.proofs -> Seq(BcProofs)],
                     sigs : [DOMAIN o.sigs -> SUBSET BcValidators],
                     challenges : SUBSET BcMessages,
                     rounds : [DOMAIN o.rounds -> BcRounds]]

\* The rounds that a node finalised are all rounds before the current one, and
\* what is pending belongs to the current one: nothing that was counted for a
\* round is counted again for the next, and no round is left out.
BcRoundsComplete ==
    \A n \in Nodes :
        /\ DOMAIN bc[n].rounds = 1 .. bc[n].round - 1
        /\ DOMAIN bc[n].proofs \cup DOMAIN bc[n].sigs \subseteq {bc[n].round}

\* Validators that submitted more than one proof for round r.
Repeaters(r) ==
    {v \in BcValidators :
        Cardinality({m \in OfKind(Published, "proof") :
                        m.round = r /\ m.validator = v}) > 1}

Participants(n, r) ==
    {bc[n].rounds[r].proofs[i].validator : i \in DOMAIN bc[n].rounds[r].proofs}

\* A finalised round has as many participants and signers as the threshold
\* asks for, as long as no validator submits two proofs for it.
BcEnoughParticipants ==
    \A n \in Nodes : \A r \in DOMAIN bc[n].rounds :
        /\ Cardinality(bc[n].rounds[r].signers) >= Threshold
        /\ Repeaters(r) = {} => Cardinality(Participants(n, r)) >= Threshold

\* No message leaves a round behind that could be finalised: nothing would
\* finalise it before the next message that is processed.
BcNoRoundWaits == \A n \in Nodes : ~CanFinalizeRound(bc[n])

\* What a node keeps of rounds is in order between any two messages: types,
\* the rounds before the current one and no others are finalised, with as many
\* participants as they need, and none waits.
BcInv == BcTypeOK /\ BcRoundsComplete /\ BcEnoughParticipants /\ BcNoRoundWaits

\* Randomness that was published for a round does not change, short of a
\* reset: late proofs and signatures of that round have no effect.
BcFinalizedStays ==
    [][\A n \in Nodes : \A r \in DOMAIN bc[n].rounds :
          bc'[n].round >= bc[n].round =>
             /\ r \in DOMAIN bc'[n].rounds
             /\ bc'[n].rounds[r] = bc[n].rounds[r]]_bcVars
=============================================================================
