----------------------------- MODULE EcdsaLedger -----------------------------
(***************************************************************************)
(* examples/ecdsa_ledger.rs: ECDSALedgerObject on any number of nodes.     *)
(* seen_tx_hashes holds exactly the transfers among the entries, so the    *)
(* entries stand for it.  Amounts are u64; a balance wraps at Width, as in *)
(* a build without overflow checks.                                        *)
(***************************************************************************)
EXTENDS AppNetwork, Sums

CONSTANTS
    Accounts,
    Width,           \* balances are below Width
    LgMessages       \* what may be published

VARIABLE ledger      \* ledger[n]: the ECDSALedgerObject of n

\* signed: the signature verifies under the key in the message.
IsLedgerMessage(m) ==
    m \in [kind : {"transfer"}, from : Accounts, to : Accounts,
           amount : 0 .. Width - 1, nonce : Nat, signed : BOOLEAN, copy : Nat]

ASSUME LgAssumption ==
    /\ Width \in Nat \ {0}
    /\ \A m \in LgMessages : IsLedgerMessage(m)

lgVars == <<got, ledger>>

\* mint: the sender had nothing, so nothing was taken from it.
LgEntries == [from : Accounts, to : Accounts, amount : 0 .. Width - 1,
              nonce : Nat, mint : BOOLEAN]

FreshLedger ==
    [entries |-> <<>>, balances |-> [a \in Accounts |-> 0],
     nonces |-> [a \in Accounts |-> 0]]

LgInit ==
    /\ NetInit
    /\ ledger = [n \in Nodes |-> FreshLedger]

-----------------------------------------------------------------------------
\* The same transfer in an earlier message, however signed.
IsSeen(o, m) ==
    \E i \in DOMAIN o.entries :
        /\ o.entries[i].from = m.from
        /\ o.entries[i].to = m.to
        /\ o.entries[i].amount = m.amount
        /\ o.entries[i].nonce = m.nonce

\* A sender without any balance may send what it likes.
IsCovered(o, m) == o.balances[m.from] >= m.amount \/ o.balances[m.from] = 0

\* Mutant of Applies: a nonce may be ahead of its turn.
AppliesAhead(o, m) ==
    /\ ~IsSeen(o, m)
    /\ m.signed
    /\ m.nonce >= o.nonces[m.from]
    /\ IsCovered(o, m)

Applies(o, m) ==
    /\ ~IsSeen(o, m)
    /\ m.signed
    /\ m.nonce = o.nonces[m.from]
    /\ IsCovered(o, m)

\* Mutant of Apply: a sender that sends all it has keeps it.
ApplySparesLast(o, m) ==
    LET debited == IF o.balances[m.from] <= m.amount THEN o.balances
                   ELSE [o.balances EXCEPT ![m.from] = @ - m.amount]
    IN  [entries |-> Append(o.entries,
                            [from |-> m.from, to |-> m.to, amount |-> m.amount,
                             nonce |-> m.nonce, mint |-> o.balances[m.from] < m.amount]),
         balances |-> [debited EXCEPT ![m.to] = (@ + m.amount) % Width],
         nonces |-> [o.nonces EXCEPT ![m.from] = m.nonce + 1]]

Apply(o, m) ==
    LET mint == o.balances[m.from] < m.amount
        debited == IF mint THEN o.balances
                   ELSE [o.balances EXCEPT ![m.from] = @ - m.amount]
    IN  [entries |-> Append(o.entries,
                            [from |-> m.from, to |-> m.to, amount |-> m.amount,
                             nonce |-> m.nonce, mint |-> mint]),
         balances |-> [debited EXCEPT ![m.to] = (@ + m.amount) % Width],
         nonces |-> [o.nonces EXCEPT ![m.from] = m.nonce + 1]]

TakeTransfer(n, m) ==
    /\ Receive(n, m)
    /\ Applies(ledger[n], m)
    /\ ledger' = [ledger EXCEPT ![n] = Apply(@, m)]

\* is_valid takes what is signed or seen; add_message then drops the transfer
\* for good when its turn has not come, or has passed.  A message that is
\* neither is refused and changes nothing.
DropTransfer(n, m) ==
    /\ IsSeen(ledger[n], m) \/ m.signed
    /\ Receive(n, m)
    /\ ~Applies(ledger[n], m)
    /\ UNCHANGED ledger

LgReset(n) ==
    /\ Reset(n)
    /\ ledger' = [ledger EXCEPT ![n] = FreshLedger]

LgNext ==
    \E n \in Nodes :
        \/ \E m \in LgMessages : TakeTransfer(n, m) \/ DropTransfer(n, m)
        \/ LgReset(n)

LgSpec == LgInit /\ [][LgNext]_lgVars

-----------------------------------------------------------------------------
LgTypeOK ==
    ledger \in [Nodes -> [entries : Seq(LgEntries),
                          balances : [Accounts -> 0 .. Width - 1],
                          nonces : [Accounts -> Nat]]]

\* The transfers of a sender enter the ledger in the order of their nonces,
\* without a gap and none twice, in whatever order, how often and with
\* whatever signatures their messages come.
LgNoncesInOrder ==
    \A n \in Nodes :
        LET entries == ledger[n].entries
            nonces == ledger[n].nonces
        IN  /\ \A i, j \in DOMAIN entries :
                  entries[i].from = entries[j].from /\ i < j =>
                      entries[i].nonce < entries[j].nonce
            /\ \A i \in DOMAIN entries : entries[i].nonce < nonces[entries[i].from]
            /\ \A a \in Accounts : \A k \in 0 .. nonces[a] - 1 :
                  \E i \in DOMAIN entries : entries[i].from = a /\ entries[i].nonce = k

\* What the entries of o say was sent to a, and sent by it.
Received(o, a) ==
    SumTo([i \in DOMAIN o.entries |->
              IF o.entries[i].to = a THEN o.entries[i].amount ELSE 0],
          Len(o.entries))

Sent(o, a) ==
    SumTo([i \in DOMAIN o.entries |->
              IF o.entries[i].from = a /\ ~o.entries[i].mint
              THEN o.entries[i].amount ELSE 0],
          Len(o.entries))

\* An account has what it was sent less what it sent, minted transfers aside,
\* unless it was sent more than a balance holds.
LgBacked ==
    \A n \in Nodes, a \in Accounts :
        Received(ledger[n], a) < Width =>
            ledger[n].balances[a] + Sent(ledger[n], a) = Received(ledger[n], a)

\* Senders that signed two transfers with one nonce.
Equivocates(a) ==
    \E m1, m2 \in OfKind(Published, "transfer") :
        /\ m1.from = a /\ m2.from = a /\ m1.nonce = m2.nonce
        /\ m1.to # m2.to \/ m1.amount # m2.amount

\* What two nodes have of a sender's transfers differs only in how far they
\* got, unless the sender used a nonce twice.
LgSameOrder ==
    \A n1, n2 \in Nodes :
        LET entries1 == ledger[n1].entries
            entries2 == ledger[n2].entries
        IN  \A i \in DOMAIN entries1, j \in DOMAIN entries2 :
                /\ entries1[i].from = entries2[j].from
                /\ entries1[i].nonce = entries2[j].nonce
                /\ ~Equivocates(entries1[i].from)
                => /\ entries1[i].to = entries2[j].to
                   /\ entries1[i].amount = entries2[j].amount

\* A ledger is in order for every sender, on its own and next to the ledgers of
\* other nodes.
LgInv == LgTypeOK /\ LgNoncesInOrder /\ LgSameOrder
=============================================================================
