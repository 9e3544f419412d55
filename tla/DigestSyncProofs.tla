-------------------------- MODULE DigestSyncProofs --------------------------
(***************************************************************************)
(* Proofs about DigestSync: chains are one chain, what storage has since   *)
(* the start went into the chain, and answers join onto the chain of the   *)
(* node that asked.  The inductive invariant adds that messages are from   *)
(* the past and that the digests nodes ask with stay in their chains.  A   *)
(* storage error leaves the chain longer and storage as it was or longer,  *)
(* which keeps all parts.                                                  *)
(***************************************************************************)
EXTENDS DigestSync, SequenceTheorems, TLAPS

-----------------------------------------------------------------------------
(* The chain of one node *)

\* The entries of a chain are the numbers below its length.
LEMMA HasDigestIs ==
    ASSUME TypeOK, OneChain, NEW n \in Nodes, NEW h \in Nat
    PROVE  HasDigest(n, h) <=> h < Len(chain[n])
<1>1. chain[n] \in Seq(Nat) /\ \A i \in DOMAIN chain[n] : chain[n][i] = i - 1
      BY DEF TypeOK, OneChain, Hash
<1>2. DOMAIN chain[n] = 1..Len(chain[n]) /\ Len(chain[n]) \in Nat
      BY <1>1
<1>3. ASSUME h < Len(chain[n]) PROVE HasDigest(n, h)
  <2>1. h + 1 \in DOMAIN chain[n] /\ chain[n][h + 1] = h
        BY <1>1, <1>2, <1>3
  <2> QED BY <2>1 DEF HasDigest
<1>4. ASSUME HasDigest(n, h) PROVE h < Len(chain[n])
      BY <1>1, <1>2, <1>4 DEF HasDigest
<1> QED BY <1>3, <1>4

\* The tip of a chain is a number below its length.
LEMMA LatestDigestIs ==
    ASSUME TypeOK, OneChain, NEW n \in Nodes
    PROVE  LatestDigest(n) \in Nat /\ LatestDigest(n) < Len(chain[n])
<1>1. /\ chain[n] \in Seq(Nat) /\ Len(chain[n]) > 0
      /\ \A i \in DOMAIN chain[n] : chain[n][i] = i - 1
      BY DEF TypeOK, OneChain, Hash
<1>2. Len(chain[n]) \in DOMAIN chain[n] /\ Len(chain[n]) \in Nat
      BY <1>1
<1> QED BY <1>1, <1>2 DEF LatestDigest

\* The entries since h are the ones that follow h, in a row.
LEMMA SinceIs ==
    ASSUME TypeOK, OneChain, NEW n \in Nodes, NEW h \in Nat
    PROVE  /\ Since(n, h) \in Seq(Nat)
           /\ \A j \in DOMAIN Since(n, h) : Since(n, h)[j] = h + j
<1>1. chain[n] \in Seq(Nat) /\ \A i \in DOMAIN chain[n] : chain[n][i] = i - 1
      BY DEF TypeOK, OneChain, Hash
<1>2. CASE ~HasDigest(n, h)
      BY <1>2 DEF Since
<1>3. CASE HasDigest(n, h)
  <2> DEFINE i == CHOOSE k \in DOMAIN chain[n] : chain[n][k] = h
  <2>1. i \in DOMAIN chain[n] /\ chain[n][i] = h
        BY <1>3 DEF HasDigest
  <2>2. i \in 1..Len(chain[n]) /\ i = h + 1
        BY <1>1, <2>1
  <2>3. Since(n, h) = SubSeq(chain[n], i + 1, Len(chain[n]))
        BY <1>3 DEF Since
  <2> HIDE DEF i
  <2>4. /\ Since(n, h) \in Seq(Nat)
        /\ \A j \in DOMAIN Since(n, h) :
              j \in Nat /\ i + j \in DOMAIN chain[n] /\ Since(n, h)[j] = chain[n][i + j]
    <3>1. /\ i + 1 \in 1..(Len(chain[n]) + 1) /\ Len(chain[n]) \in Nat
          /\ i \in Nat
          BY <1>1, <2>2
    <3>2. /\ SubSeq(chain[n], i + 1, Len(chain[n])) \in Seq(Nat)
          /\ Len(SubSeq(chain[n], i + 1, Len(chain[n]))) = Len(chain[n]) - i
          /\ \A j \in 1..(Len(chain[n]) - i) :
                SubSeq(chain[n], i + 1, Len(chain[n]))[j] = chain[n][i + 1 + j - 1]
      <4>1. \A k \in (i + 1)..Len(chain[n]) : chain[n][k] \in Nat
            BY <1>1, <3>1
      <4>2. i + 1 \in Int /\ Len(chain[n]) \in Int
            BY <3>1
      <4>3. Len(SubSeq(chain[n], i + 1, Len(chain[n]))) =
               IF i + 1 <= Len(chain[n]) THEN Len(chain[n]) - (i + 1) + 1 ELSE 0
            BY <4>1, <4>2, SubSeqProperties
      <4>4. /\ SubSeq(chain[n], i + 1, Len(chain[n])) \in Seq(Nat)
            /\ \A j \in 1..(Len(chain[n]) - (i + 1) + 1) :
                  SubSeq(chain[n], i + 1, Len(chain[n]))[j] = chain[n][i + 1 + j - 1]
            BY <4>1, <4>2, SubSeqProperties
      <4>5. Len(chain[n]) - (i + 1) + 1 = Len(chain[n]) - i
            BY <3>1
      <4> QED BY <3>1, <4>3, <4>4, <4>5
    <3>3. \A j \in 1..(Len(chain[n]) - i) : i + 1 + j - 1 = i + j /\ i + j \in 1..Len(chain[n])
          BY <3>1
    <3>4. DOMAIN Since(n, h) = 1..(Len(chain[n]) - i) /\ Since(n, h) \in Seq(Nat)
          BY <2>3, <3>2
    <3>5. DOMAIN chain[n] = 1..Len(chain[n])
          BY <1>1
    <3>6. ASSUME NEW j \in DOMAIN Since(n, h)
          PROVE  /\ j \in Nat /\ i + j \in DOMAIN chain[n]
                 /\ Since(n, h)[j] = chain[n][i + j]
      <4>1. j \in 1..(Len(chain[n]) - i)
            BY <3>4
      <4>2. SubSeq(chain[n], i + 1, Len(chain[n]))[j] = chain[n][i + j]
            BY <3>2, <3>3, <4>1
      <4>3. j \in Nat /\ i + j \in 1..Len(chain[n])
            BY <3>1, <3>3, <4>1
      <4> QED BY <2>3, <3>5, <4>2, <4>3
    <3> QED BY <3>4, <3>6
  <2> QED BY <1>1, <2>2, <2>4
<1> QED BY <1>2, <1>3

\* A valid entry goes into the chain, which stays one chain and does not shrink.
LEMMA Accepted ==
    ASSUME TypeOK, OneChain, NEW n \in Nodes, NEW h \in Nat,
           IsValid(n, h), AddMessage(n, h)
    PROVE  /\ chain' \in [Nodes -> Seq(Hash)]
           /\ OneChain'
           /\ \A k \in Nodes : Len(chain[k]) <= Len(chain'[k])
           /\ h < Len(chain'[n])
<1>1. /\ chain \in [Nodes -> Seq(Nat)]
      /\ \A k \in Nodes : /\ Len(chain[k]) > 0
                          /\ \A i \in DOMAIN chain[k] : chain[k][i] = i - 1
      BY DEF TypeOK, OneChain, Hash
<1>2. CASE HasDigest(n, h)
  <2>1. chain' = chain
        BY <1>2 DEF AddMessage
  <2>2. h < Len(chain[n])
        BY <1>2, HasDigestIs
  <2>3. \A k \in Nodes : Len(chain[k]) \in Nat
        BY <1>1
  <2> QED BY <1>1, <2>1, <2>2, <2>3 DEF OneChain, Hash
<1>3. CASE ~HasDigest(n, h)
  <2>1. chain' = [chain EXCEPT ![n] = Append(@, h)]
        BY <1>3 DEF AddMessage
  <2>2. ~(h < Len(chain[n]))
        BY <1>3, HasDigestIs
  <2>3. PICK i \in DOMAIN chain[n] : h = chain[n][i] + 1
        BY <1>3 DEF IsValid, NextHash
  <2>4. h = Len(chain[n])
    <3>1. i \in 1..Len(chain[n]) /\ chain[n][i] = i - 1 /\ Len(chain[n]) \in Nat
          BY <1>1
    <3> QED BY <2>2, <2>3, <3>1
  <2>5. chain'[n] = Append(chain[n], h)
        BY <1>1, <2>1
  <2>6. \A k \in Nodes : k # n => chain'[k] = chain[k]
        BY <1>1, <2>1
  <2>7. /\ Len(chain'[n]) = Len(chain[n]) + 1
        /\ \A j \in DOMAIN chain'[n] : chain'[n][j] = j - 1
        /\ Len(chain[n]) \in Nat
        BY <1>1, <2>4, <2>5
  <2>8. chain' \in [Nodes -> Seq(Nat)]
        BY <1>1, <2>1
  <2>9. OneChain'
    <3>1. \A k \in Nodes : k # n =>
             /\ Len(chain'[k]) > 0
             /\ \A j \in DOMAIN chain'[k] : chain'[k][j] = j - 1
          BY <1>1, <2>6
    <3>2. Len(chain'[n]) > 0
          BY <2>7
    <3> QED BY <2>7, <3>1, <3>2 DEF OneChain
  <2>10. \A k \in Nodes : Len(chain[k]) \in Nat
        BY <1>1
  <2>11. \A k \in Nodes : Len(chain[k]) <= Len(chain'[k])
        BY <2>6, <2>7, <2>10
  <2> QED BY <2>4, <2>7, <2>8, <2>9, <2>11 DEF Hash
<1> QED BY <1>2, <1>3

-----------------------------------------------------------------------------
(* The invariant *)

LEMMA InitInvariant == Init => IInv
<1> SUFFICES ASSUME Init PROVE IInv
    OBVIOUS
<1>1. chain = [n \in Nodes |-> <<0>>] /\ storage = [n \in Nodes |-> {}]
      BY DEF Init, Genesis
<1>2. /\ rx = [n \in Nodes |-> <<>>] /\ gap = {} /\ net = {} /\ life = 0
      /\ faults = 0 /\ aired = [n \in Nodes |-> {}]
      BY DEF Init
<1>3. born = [n \in Nodes |-> 0] /\ first \in [Nodes -> Nodes]
      BY DEF Init
<1>4. TypeOK
      BY <1>1, <1>2, <1>3 DEF TypeOK, Hash
<1>5. OneChain
      BY <1>1 DEF OneChain
<1>6. StoredIsInChain
      BY <1>1 DEF StoredIsInChain
<1>7. AnswersJoin
      BY <1>2 DEF AnswersJoin, Joins
<1>8. Dated /\ AskedInChain
      BY <1>1, <1>2 DEF Dated, AskedInChain
<1> QED BY <1>4, <1>5, <1>6, <1>7, <1>8 DEF IInv

\* What is asked and answered stays right while chains grow.
LEMMA Grow ==
    ASSUME TypeOK, AnswersJoin, AskedInChain,
           \A k \in Nodes : Len(chain'[k]) \in Nat,
           \A k \in Nodes : Len(chain[k]) <= Len(chain'[k]),
           UNCHANGED <<net, born>>
    PROVE  /\ AskedInChain'
           /\ \A k \in Nodes : \A messages \in Seq(Message) :
                 Joins(k, messages) => Joins(k, messages)'
           /\ \A k \in Nodes : born[k] = 0 =>
                 \A d \in net : d.type = "MESSAGES_RESPONSE" /\ d.dst = k =>
                    Joins(k, d.messages)'
<1>1. \A k \in Nodes : Len(chain[k]) \in Nat
      BY DEF TypeOK
<1>2. ASSUME NEW k \in Nodes, NEW messages \in Seq(Message), Joins(k, messages)
      PROVE  Joins(k, messages)'
  <2>1. \A i \in DOMAIN messages : messages[1].hash \in Nat
    <3>1. SUFFICES ASSUME NEW i \in DOMAIN messages PROVE messages[1] \in Message
          BY DEF Message, Hash
    <3> QED BY <3>1
  <2> QED BY <1>1, <1>2, <2>1 DEF Joins
<1>3. ASSUME NEW d \in net, d.type = "MESSAGES_RESPONSE"
      PROVE  d.messages \in Seq(Message)
      BY <1>3 DEF TypeOK, Control
<1>4. ASSUME NEW d \in net, d.type = "REQUEST_MESSAGES_SINCE"
      PROVE  d.src \in Nodes /\ d.digest \in Nat
      BY <1>4 DEF TypeOK, Control, Hash
<1>5. AskedInChain'
  <2>1. SUFFICES ASSUME NEW d \in net, d.type = "REQUEST_MESSAGES_SINCE", born[d.src] = 0
                 PROVE  d.digest < Len(chain'[d.src])
        BY DEF AskedInChain
  <2>2. d.digest < Len(chain[d.src])
        BY <2>1 DEF AskedInChain
  <2> QED BY <1>1, <1>4, <2>1, <2>2
<1>6. ASSUME NEW k \in Nodes, born[k] = 0, NEW d \in net,
             d.type = "MESSAGES_RESPONSE", d.dst = k
      PROVE  Joins(k, d.messages)'
  <2>1. Joins(k, d.messages)
        BY <1>6 DEF AnswersJoin
  <2> QED BY <1>2, <1>3, <1>6, <2>1
<1> QED BY <1>2, <1>5, <1>6

\* What put and broadcast do together, errors included.
Stores(n, m) ==
    /\ storage' \in {storage, [storage EXCEPT ![n] = @ \cup {m}]}
    /\ aired' \in {aired, [aired EXCEPT ![n] = @ \cup {m}]}
    /\ faults' \in Nat

\* A message goes through the pipeline of n and into its storage, or not.
LEMMA AcceptKeeps ==
    ASSUME IInv, NEW n \in Nodes, NEW m \in Message, m.life <= life,
           IsValid(n, m.hash), AddMessage(n, m.hash),
           Stores(n, m),
           UNCHANGED <<first, net, life, born>>
    PROVE  /\ chain' \in [Nodes -> Seq(Hash)]
           /\ storage' \in [Nodes -> SUBSET Message]
           /\ aired' \in [Nodes -> SUBSET Message]
           /\ OneChain' /\ StoredIsInChain' /\ AskedInChain'
           /\ \A k \in Nodes : \A old \in storage'[k] \cup aired'[k] : old.life <= life
           /\ \A k \in Nodes : Len(chain[k]) <= Len(chain'[k])
           /\ m.hash < Len(chain'[n])
<1> USE DEF IInv
<1>1. m.hash \in Nat
      BY DEF Message, Hash
<1>2. /\ chain' \in [Nodes -> Seq(Hash)] /\ OneChain'
      /\ \A k \in Nodes : Len(chain[k]) <= Len(chain'[k])
      /\ m.hash < Len(chain'[n])
      BY <1>1, Accepted
<1>3. \A k \in Nodes : Len(chain'[k]) \in Nat /\ Len(chain[k]) \in Nat
      BY <1>2 DEF TypeOK
<1>4. AskedInChain'
      BY <1>2, <1>3, Grow
<1>5. storage' \in [Nodes -> SUBSET Message] /\ aired' \in [Nodes -> SUBSET Message]
  <2>1. storage \in [Nodes -> SUBSET Message] /\ aired \in [Nodes -> SUBSET Message]
        BY DEF TypeOK
  <2> QED BY <2>1 DEF Stores
<1>6. \A k \in Nodes : \A old \in storage'[k] : old \in storage[k] \/ (k = n /\ old = m)
      BY DEF TypeOK, Stores
<1>7. \A k \in Nodes : \A old \in storage'[k] \cup aired'[k] : old.life <= life
  <2>1. \A k \in Nodes : \A old \in aired'[k] : old \in aired[k] \/ (k = n /\ old = m)
        BY DEF TypeOK, Stores
  <2> QED BY <1>6, <2>1 DEF Dated
<1>8. ASSUME NEW k \in Nodes, NEW old \in storage'[k], old.life >= born[k]
      PROVE  HasDigest(k, old.hash)'
  <2>1. old.hash \in Nat
        BY <1>5 DEF Message, Hash
  <2>2. old.hash < Len(chain'[k])
    <3>1. CASE old \in storage[k]
      <4>1. HasDigest(k, old.hash)
            BY <1>8, <3>1 DEF StoredIsInChain
      <4>2. old.hash < Len(chain[k])
            BY <2>1, <4>1, HasDigestIs
      <4> QED BY <1>2, <1>3, <2>1, <4>2
    <3>2. CASE k = n /\ old = m
          BY <1>2, <3>2
    <3> QED BY <1>6, <3>1, <3>2
  <2>3. /\ chain'[k] \in Seq(Nat)
        /\ \A i \in DOMAIN chain'[k] : chain'[k][i] = i - 1
        BY <1>2 DEF OneChain, Hash
  <2>4. old.hash + 1 \in DOMAIN chain'[k] /\ chain'[k][old.hash + 1] = old.hash
        BY <2>1, <2>2, <2>3
  <2> QED BY <2>4 DEF HasDigest
<1>9. StoredIsInChain'
      BY <1>8 DEF StoredIsInChain
<1> QED BY <1>2, <1>4, <1>5, <1>7, <1>9

\* After an accepted message: the rest of the invariant, for what is left of rx.
LEMMA AcceptInvariant ==
    ASSUME IInv, NEW n \in Nodes, NEW m \in Message, m.life <= life,
           IsValid(n, m.hash), AddMessage(n, m.hash),
           Stores(n, m),
           UNCHANGED <<first, net, life, born>>, gap' \subseteq Nodes,
           rx' \in [Nodes -> Seq(Message)],
           \A k \in Nodes : \A i \in DOMAIN rx'[k] : rx'[k][i].life <= life,
           \A k \in Nodes : born[k] = 0 /\ k \notin gap' => Joins(k, rx[k])'
    PROVE  IInv'
<1>1. /\ chain' \in [Nodes -> Seq(Hash)]
      /\ storage' \in [Nodes -> SUBSET Message]
      /\ aired' \in [Nodes -> SUBSET Message]
      /\ OneChain' /\ StoredIsInChain' /\ AskedInChain'
      /\ \A k \in Nodes : \A old \in storage'[k] \cup aired'[k] : old.life <= life
      /\ \A k \in Nodes : Len(chain[k]) <= Len(chain'[k])
      BY AcceptKeeps
<1>2. TypeOK'
      BY <1>1 DEF IInv, TypeOK, Stores
<1>3. \A k \in Nodes : Len(chain'[k]) \in Nat
      BY <1>1
<1>4. \A k \in Nodes : born[k] = 0 =>
         \A d \in net : d.type = "MESSAGES_RESPONSE" /\ d.dst = k =>
            Joins(k, d.messages)'
      BY <1>1, <1>3, Grow DEF IInv
<1>5. AnswersJoin'
      BY <1>4 DEF AnswersJoin
<1>6. Dated'
      BY <1>1 DEF IInv, Dated
<1> QED BY <1>1, <1>2, <1>5, <1>6 DEF IInv

\* The same when rx stays as it is.
LEMMA AcceptElsewhere ==
    ASSUME IInv, NEW n \in Nodes, NEW m \in Message, m.life <= life,
           IsValid(n, m.hash), AddMessage(n, m.hash),
           Stores(n, m),
           UNCHANGED <<rx, gap, first, net, life, born>>
    PROVE  IInv'
<1>1. /\ chain' \in [Nodes -> Seq(Hash)]
      /\ \A k \in Nodes : Len(chain[k]) <= Len(chain'[k])
      BY AcceptKeeps
<1>2. \A k \in Nodes : Len(chain'[k]) \in Nat
      BY <1>1
<1>3. /\ rx' = rx /\ rx \in [Nodes -> Seq(Message)]
      /\ gap' = gap /\ gap \subseteq Nodes
      BY DEF IInv, TypeOK
<1>4. \A k \in Nodes : \A messages \in Seq(Message) :
         Joins(k, messages) => Joins(k, messages)'
      BY <1>1, <1>2, Grow DEF IInv
<1>5. ASSUME NEW k \in Nodes, born[k] = 0, k \notin gap PROVE Joins(k, rx[k])'
  <2>1. Joins(k, rx[k]) /\ rx[k] \in Seq(Message)
        BY <1>3, <1>5 DEF IInv, AnswersJoin
  <2>2. PICK messages \in Seq(Message) : messages = rx[k]
        BY <2>1
  <2>3. Joins(k, messages)'
        BY <1>4, <2>1, <2>2
  <2> QED BY <1>3, <2>2, <2>3 DEF Joins
<1>6. \A k \in Nodes : \A i \in DOMAIN rx'[k] : rx'[k][i].life <= life
      BY <1>3 DEF IInv, Dated
<1> QED BY <1>3, <1>5, <1>6, AcceptInvariant

\* What is left of an answer when its first message is done with.
LEMMA TailJoins ==
    ASSUME NEW n \in Nodes, NEW messages \in Seq(Message), messages # <<>>,
           NEW top \in Nat, messages[1].hash < top,
           \A i \in DOMAIN messages : messages[i].hash = messages[1].hash + i - 1
    PROVE  \A i \in DOMAIN Tail(messages) :
              /\ Tail(messages)[i].hash = Tail(messages)[1].hash + i - 1
              /\ Tail(messages)[1].hash <= top
<1> SUFFICES ASSUME NEW i \in DOMAIN Tail(messages)
             PROVE  /\ Tail(messages)[i].hash = Tail(messages)[1].hash + i - 1
                    /\ Tail(messages)[1].hash <= top
    OBVIOUS
<1>1. i \in Nat /\ i + 1 \in DOMAIN messages /\ 2 \in DOMAIN messages
      /\ 1 \in DOMAIN messages
      BY HeadTailProperties
<1>2. Tail(messages)[i] = messages[i + 1] /\ Tail(messages)[1] = messages[2]
      BY <1>1, HeadTailProperties
<1>3. messages[1].hash \in Nat
  <2>1. messages[1] \in Message
        BY <1>1
  <2> QED BY <2>1 DEF Message, Hash
<1>4. /\ messages[i + 1].hash = messages[1].hash + (i + 1) - 1
      /\ messages[2].hash = messages[1].hash + 2 - 1
      BY <1>1
<1> DEFINE h == messages[1].hash
<1>5. messages[i + 1].hash = messages[2].hash + i - 1 /\ messages[2].hash <= top
  <2> HIDE DEF h
  <2>1. h \in Nat /\ h < top /\ h + (i + 1) - 1 = h + 2 - 1 + i - 1 /\ h + 2 - 1 <= top
    <3>1. h \in Nat /\ h < top
          BY <1>3 DEF h
    <3>2. i \in Nat /\ top \in Nat
          BY <1>1
    <3> QED BY <3>1, <3>2
  <2> QED BY <1>4, <2>1 DEF h
<1> QED BY <1>2, <1>5

\* A datagram more, fewer of the old ones, and the rest as it was.
LEMMA NetStep ==
    ASSUME IInv, NEW d \in Control, net' \subseteq net \cup {d},
           d.type = "MESSAGES_RESPONSE" =>
              /\ \A i \in DOMAIN d.messages : d.messages[i].life <= life
              /\ born[d.dst] = 0 => Joins(d.dst, d.messages),
           d.type = "REQUEST_MESSAGES_SINCE" /\ born[d.src] = 0 =>
              d.digest < Len(chain[d.src]),
           UNCHANGED <<chain, storage, aired, rx, gap, first, life, born>>,
           faults' \in Nat
    PROVE  IInv'
<1> USE DEF IInv
<1>1. TypeOK'
      BY DEF TypeOK
<1>2. OneChain' /\ StoredIsInChain'
      BY DEF OneChain, StoredIsInChain, HasDigest
<1>3. AnswersJoin'
      BY DEF AnswersJoin, Joins
<1>4. Dated'
      BY DEF Dated
<1>5. AskedInChain'
      BY DEF AskedInChain
<1> QED BY <1>1, <1>2, <1>3, <1>4, <1>5

\* The same for what a handler leaves and sends.
LEMMA SentStep ==
    ASSUME NEW left, left \subseteq net, NEW d
    PROVE  Sent(left, d) \subseteq net \cup {d}
BY DEF Sent

-----------------------------------------------------------------------------
(* The steps *)

LEMMA AcceptStores ==
    ASSUME IInv, NEW n \in Nodes, NEW m, Accept(n, m)
    PROVE  IsValid(n, m.hash) /\ AddMessage(n, m.hash) /\ Stores(n, m)
BY DEF Accept, Put, PutFails, Broadcast, Stores, IInv, TypeOK

LEMMA CreateStep ==
    ASSUME IInv, NEW n \in Nodes, NEW h \in 1..MaxHash, Create(n, h)
    PROVE  IInv'
<1> DEFINE m == NewMessage(n, h)
<1>1. m \in Message /\ m.life <= life /\ m.hash = h
      BY BoundsAssumption DEF IInv, TypeOK, NewMessage, Message, Hash
<1>2. Accept(n, m) /\ UNCHANGED <<rx, gap, first, net, life, born>>
      BY DEF Create, answer
<1> HIDE DEF m
<1>3. IsValid(n, m.hash) /\ AddMessage(n, m.hash) /\ Stores(n, m)
      BY <1>2, AcceptStores
<1> QED BY <1>1, <1>2, <1>3, AcceptElsewhere

LEMMA GossipStep ==
    ASSUME IInv, NEW n \in Nodes, NEW m \in UNION {aired[p] : p \in Nodes},
           HandleGossip(n, m)
    PROVE  IInv'
<1>1. m \in Message /\ m.life <= life
      BY DEF IInv, TypeOK, Dated
<1>2. /\ IsValid(n, m.hash) /\ AddMessage(n, m.hash) /\ Stores(n, m)
      /\ UNCHANGED <<rx, gap, first, net, life, born>>
      BY AcceptStores DEF HandleGossip, answer
<1> QED BY <1>1, <1>2, AcceptElsewhere

\* What the message at the head of an answer is known to be.
LEMMA HeadOfAnswer ==
    ASSUME IInv, NEW n \in Nodes, rx[n] # <<>>
    PROVE  /\ rx[n] \in Seq(Message) /\ 1 \in DOMAIN rx[n]
           /\ Head(rx[n]) = rx[n][1] /\ Head(rx[n]) \in Message
           /\ Head(rx[n]).life <= life
           /\ Head(rx[n]).hash \in Nat
           /\ born[n] = 0 /\ n \notin gap =>
                 /\ Joins(n, rx[n])
                 /\ Head(rx[n]).hash <= Len(chain[n])
<1>1. rx[n] \in Seq(Message)
      BY DEF IInv, TypeOK
<1>2. 1 \in DOMAIN rx[n] /\ Head(rx[n]) = rx[n][1] /\ Head(rx[n]) \in Message
      BY <1>1
<1>3. Head(rx[n]).life <= life
      BY <1>2 DEF IInv, Dated
<1>4. Head(rx[n]).hash \in Nat
      BY <1>2 DEF Message, Hash
<1>5. ASSUME born[n] = 0, n \notin gap
      PROVE  Joins(n, rx[n]) /\ Head(rx[n]).hash <= Len(chain[n])
      BY <1>2, <1>5 DEF IInv, AnswersJoin, Joins
<1> QED BY <1>1, <1>2, <1>3, <1>4, <1>5

\* What is left of an answer after its head, whatever was done with it.
LEMMA RestOfAnswer ==
    ASSUME IInv, NEW n \in Nodes, rx[n] # <<>>,
           rx' = [rx EXCEPT ![n] = Tail(@)]
    PROVE  /\ rx' \in [Nodes -> Seq(Message)]
           /\ \A k \in Nodes : \A i \in DOMAIN rx'[k] : rx'[k][i].life <= life
           /\ rx'[n] = Tail(rx[n])
           /\ \A k \in Nodes : k # n => rx'[k] = rx[k]
<1>1. /\ rx \in [Nodes -> Seq(Message)]
      /\ \A k \in Nodes : \A i \in DOMAIN rx[k] : rx[k][i].life <= life
      BY DEF IInv, TypeOK, Dated
<1>2. /\ Tail(rx[n]) \in Seq(Message)
      /\ \A i \in DOMAIN Tail(rx[n]) :
            i + 1 \in DOMAIN rx[n] /\ Tail(rx[n])[i] = rx[n][i + 1]
      BY <1>1, HeadTailProperties
<1>3. rx'[n] = Tail(rx[n]) /\ \A k \in Nodes : k # n => rx'[k] = rx[k]
      BY <1>1
<1>4. rx' \in [Nodes -> Seq(Message)]
      BY <1>1, <1>2
<1>5. ASSUME NEW k \in Nodes, NEW i \in DOMAIN rx'[k] PROVE rx'[k][i].life <= life
  <2>1. CASE k = n
        BY <1>1, <1>2, <1>3, <2>1
  <2>2. CASE k # n
        BY <1>1, <1>3, <2>2
  <2> QED BY <2>1, <2>2
<1> QED BY <1>3, <1>4, <1>5

LEMMA AcceptReplayedStep ==
    ASSUME IInv, NEW n \in Nodes, AcceptReplayed(n)
    PROVE  IInv'
<1> DEFINE m == Head(rx[n])
<1>1. /\ rx[n] # <<>> /\ IsValid(n, m.hash) /\ AddMessage(n, m.hash)
      /\ Stores(n, m)
      /\ rx' = [rx EXCEPT ![n] = Tail(@)]
      /\ UNCHANGED <<gap, first, net, life, born>>
      BY DEF AcceptReplayed, Put, PutFails, Broadcast, Stores, IInv, TypeOK
<1>2. /\ rx[n] \in Seq(Message) /\ m = rx[n][1] /\ m \in Message /\ m.life <= life
      /\ born[n] = 0 /\ n \notin gap => Joins(n, rx[n])
      /\ gap \subseteq Nodes /\ gap' \subseteq Nodes
      BY <1>1, HeadOfAnswer DEF IInv, TypeOK
<1> HIDE DEF m
<1>3. /\ chain' \in [Nodes -> Seq(Hash)]
      /\ \A k \in Nodes : Len(chain[k]) <= Len(chain'[k])
      /\ m.hash < Len(chain'[n])
      BY <1>1, <1>2, AcceptKeeps
<1>4. \A k \in Nodes : Len(chain'[k]) \in Nat
      BY <1>3
<1>5. /\ rx' \in [Nodes -> Seq(Message)]
      /\ \A k \in Nodes : \A i \in DOMAIN rx'[k] : rx'[k][i].life <= life
      /\ rx'[n] = Tail(rx[n])
      /\ \A k \in Nodes : k # n => rx'[k] = rx[k]
      BY <1>1, RestOfAnswer
<1>6. ASSUME born[n] = 0, n \notin gap PROVE Joins(n, rx[n])'
  <2>1. \A i \in DOMAIN rx[n] : rx[n][i].hash = rx[n][1].hash + i - 1
        BY <1>2, <1>6 DEF Joins
  <2>2. rx[n][1].hash < Len(chain'[n])
        BY <1>2, <1>3
  <2>3. \A i \in DOMAIN Tail(rx[n]) :
           /\ Tail(rx[n])[i].hash = Tail(rx[n])[1].hash + i - 1
           /\ Tail(rx[n])[1].hash <= Len(chain'[n])
        BY <1>1, <1>2, <1>4, <2>1, <2>2, TailJoins
  <2> QED BY <1>5, <2>3 DEF Joins
<1>7. \A k \in Nodes : \A messages \in Seq(Message) :
         Joins(k, messages) => Joins(k, messages)'
      BY <1>1, <1>3, <1>4, Grow DEF IInv
<1>8. ASSUME NEW k \in Nodes, k # n, born[k] = 0, k \notin gap PROVE Joins(k, rx[k])'
  <2>1. PICK messages \in Seq(Message) : messages = rx[k]
        BY DEF IInv, TypeOK
  <2>2. Joins(k, messages)
        BY <1>8, <2>1 DEF IInv, AnswersJoin
  <2>3. Joins(k, messages)'
        BY <1>7, <2>2
  <2> QED BY <1>5, <1>8, <2>1, <2>3 DEF Joins
<1>9. \A k \in Nodes : born[k] = 0 /\ k \notin gap' => Joins(k, rx[k])'
      BY <1>1, <1>6, <1>8
<1> QED BY <1>1, <1>2, <1>5, <1>9, AcceptInvariant

LEMMA SkipReplayedStep ==
    ASSUME IInv, NEW n \in Nodes, SkipReplayed(n)
    PROVE  IInv'
<1> DEFINE m == Head(rx[n])
<1>1. /\ rx[n] # <<>> /\ (m \in storage[n] \/ ~IsValid(n, m.hash))
      /\ rx' = [rx EXCEPT ![n] = Tail(@)]
      /\ UNCHANGED <<chain, storage, aired, gap, first, net, life, born, faults>>
      BY DEF SkipReplayed, Skipped, object
<1>2. /\ rx[n] \in Seq(Message) /\ m = rx[n][1] /\ m.hash \in Nat
      /\ born[n] = 0 /\ n \notin gap => Joins(n, rx[n]) /\ m.hash <= Len(chain[n])
      /\ m \in Message
      BY <1>1, HeadOfAnswer
<1> HIDE DEF m
<1>3. /\ rx' \in [Nodes -> Seq(Message)]
      /\ \A k \in Nodes : \A i \in DOMAIN rx'[k] : rx'[k][i].life <= life
      /\ rx'[n] = Tail(rx[n])
      /\ \A k \in Nodes : k # n => rx'[k] = rx[k]
      BY <1>1, RestOfAnswer
<1>4. /\ Len(chain[n]) \in Nat /\ Len(chain[n]) > 0 /\ DOMAIN chain[n] = 1..Len(chain[n])
      /\ \A i \in DOMAIN chain[n] : chain[n][i] = i - 1
      BY DEF IInv, TypeOK, OneChain
<1>5. ASSUME born[n] = 0, n \notin gap PROVE m.hash < Len(chain[n])
  <2>1. CASE m \in storage[n]
    <3>1. m.life >= born[n]
          BY <1>2, <1>5 DEF Message
    <3>2. HasDigest(n, m.hash)
          BY <2>1, <3>1 DEF IInv, StoredIsInChain
    <3> QED BY <1>2, <3>2, HasDigestIs DEF IInv
  <2>2. CASE ~IsValid(n, m.hash)
    <3>1. SUFFICES ASSUME m.hash = Len(chain[n]) PROVE FALSE
          BY <1>2, <1>4, <1>5
    <3>2. Len(chain[n]) \in DOMAIN chain[n] /\ m.hash = chain[n][Len(chain[n])] + 1
          BY <1>4, <3>1
    <3> QED BY <2>2, <3>2 DEF IsValid, NextHash
  <2> QED BY <1>1, <2>1, <2>2
<1>6. ASSUME born[n] = 0, n \notin gap PROVE Joins(n, rx[n])'
  <2>1. \A i \in DOMAIN rx[n] : rx[n][i].hash = rx[n][1].hash + i - 1
        BY <1>2, <1>6 DEF Joins
  <2>2. \A i \in DOMAIN Tail(rx[n]) :
           /\ Tail(rx[n])[i].hash = Tail(rx[n])[1].hash + i - 1
           /\ Tail(rx[n])[1].hash <= Len(chain[n])
        BY <1>1, <1>2, <1>4, <1>5, <1>6, <2>1, TailJoins
  <2> QED BY <1>1, <1>3, <2>2 DEF Joins
<1>7. \A k \in Nodes : born[k] = 0 /\ k # n /\ k \notin gap => Joins(k, rx[k])'
      BY <1>1, <1>3 DEF IInv, AnswersJoin, Joins
<1>8. \A k \in Nodes : born[k] = 0 => \A d \in net :
         d.type = "MESSAGES_RESPONSE" /\ d.dst = k => Joins(k, d.messages)'
      BY <1>1 DEF IInv, AnswersJoin, Joins
<1>9. AnswersJoin'
      BY <1>1, <1>6, <1>7, <1>8 DEF AnswersJoin
<1>10. TypeOK'
      BY <1>1, <1>3 DEF IInv, TypeOK
<1>11. OneChain' /\ StoredIsInChain' /\ AskedInChain'
      BY <1>1 DEF IInv, OneChain, StoredIsInChain, AskedInChain, HasDigest
<1>12. Dated'
      BY <1>1, <1>3 DEF IInv, Dated
<1> QED BY <1>9, <1>10, <1>11, <1>12 DEF IInv

LEMMA ExistsFailsStep ==
    ASSUME IInv, NEW n \in Nodes, ExistsFails(n)
    PROVE  IInv'
<1>1. /\ rx[n] # <<>> /\ rx' = [rx EXCEPT ![n] = Tail(@)] /\ gap' = gap \cup {n}
      /\ UNCHANGED <<chain, storage, aired, first, net, life, born>>
      /\ faults' \in Nat /\ gap' \subseteq Nodes
      BY DEF ExistsFails, object, IInv, TypeOK
<1>2. /\ rx' \in [Nodes -> Seq(Message)]
      /\ \A k \in Nodes : \A i \in DOMAIN rx'[k] : rx'[k][i].life <= life
      /\ \A k \in Nodes : k # n => rx'[k] = rx[k]
      BY <1>1, RestOfAnswer
<1>3. \A k \in Nodes : born[k] = 0 /\ k \notin gap' => Joins(k, rx[k])'
      BY <1>1, <1>2 DEF IInv, AnswersJoin, Joins
<1>4. \A k \in Nodes : born[k] = 0 => \A d \in net :
         d.type = "MESSAGES_RESPONSE" /\ d.dst = k => Joins(k, d.messages)'
      BY <1>1 DEF IInv, AnswersJoin, Joins
<1>5. AnswersJoin'
      BY <1>1, <1>3, <1>4 DEF AnswersJoin
<1>6. TypeOK'
      BY <1>1, <1>2 DEF IInv, TypeOK
<1>7. OneChain' /\ StoredIsInChain' /\ AskedInChain'
      BY <1>1 DEF IInv, OneChain, StoredIsInChain, AskedInChain, HasDigest
<1>8. Dated'
      BY <1>1, <1>2 DEF IInv, Dated
<1> QED BY <1>5, <1>6, <1>7, <1>8 DEF IInv

LEMMA RequestStep ==
    ASSUME IInv, NEW n \in Nodes, RequestDigest(n)
    PROVE  IInv'
<1> DEFINE d == [type |-> "REQUEST_DIGEST", src |-> n, dst |-> first[n]]
<1>1. d \in Control
      BY DEF IInv, TypeOK, Control
<1>2. net' \subseteq net \cup {d}
      BY SentStep DEF RequestDigest
<1>3. UNCHANGED <<chain, storage, aired, rx, gap, first, life, born>> /\ faults' \in Nat
      BY DEF RequestDigest, object, answer, IInv, TypeOK
<1>4. d.type = "REQUEST_DIGEST"
      OBVIOUS
<1> HIDE DEF d
<1> QED BY <1>1, <1>2, <1>3, <1>4, NetStep

LEMMA RequestDigestStep ==
    ASSUME IInv, NEW n \in Nodes, NEW c \in net, NEW left \in {net, net \ {c}},
           HandleRequestDigest(n, c, left)
    PROVE  IInv'
<1> DEFINE d == [type |-> "DIGEST_RESPONSE", src |-> n, dst |-> c.src,
                 digest |-> LatestDigest(n)]
<1>1. c.src \in Nodes
      BY DEF IInv, TypeOK, Control
<1>2. d \in Control /\ d.type = "DIGEST_RESPONSE"
      BY <1>1, LatestDigestIs DEF IInv, Control, Hash
<1>3. net' \subseteq net \cup {d}
  <2>1. net' = Sent(left, d) /\ left \subseteq net
        BY DEF HandleRequestDigest
  <2> QED BY <2>1, SentStep
<1>4. UNCHANGED <<chain, storage, aired, rx, gap, first, life, born>> /\ faults' \in Nat
      BY DEF HandleRequestDigest, Arrives, object, answer, IInv, TypeOK
<1> HIDE DEF d
<1> QED BY <1>2, <1>3, <1>4, NetStep

LEMMA DigestResponseStep ==
    ASSUME IInv, NEW n \in Nodes, NEW c \in net, NEW left \in {net, net \ {c}},
           HandleDigestResponse(n, c, left)
    PROVE  IInv'
<1> DEFINE d == [type |-> "REQUEST_MESSAGES_SINCE", src |-> n, dst |-> c.src,
                 digest |-> LatestDigest(n)]
<1>1. c.src \in Nodes
      BY DEF IInv, TypeOK, Control
<1>2. /\ d \in Control /\ d.type = "REQUEST_MESSAGES_SINCE"
      /\ d.src = n /\ d.digest < Len(chain[n])
      BY <1>1, LatestDigestIs DEF IInv, Control, Hash
<1>3. net' \subseteq net \cup {d}
  <2>1. (net' = left \/ net' = Sent(left, d)) /\ left \subseteq net
        BY DEF HandleDigestResponse
  <2> QED BY <2>1, SentStep
<1>4. UNCHANGED <<chain, storage, aired, rx, gap, first, life, born>> /\ faults' \in Nat
      BY DEF HandleDigestResponse, Arrives, object, answer, IInv, TypeOK
<1> HIDE DEF d
<1> QED BY <1>2, <1>3, <1>4, NetStep

LEMMA RequestSinceStep ==
    ASSUME IInv, NEW n \in Nodes, NEW c \in net, NEW left \in {net, net \ {c}},
           HandleRequestSince(n, c, left)
    PROVE  IInv'
<1> DEFINE since == Since(n, c.digest)
           messages == [i \in 1..Len(since) |-> NewMessage(n, since[i])]
           d == [type |-> "MESSAGES_RESPONSE", src |-> n, dst |-> c.src,
                 messages |-> messages]
<1>1. c.type = "REQUEST_MESSAGES_SINCE" /\ c.src \in Nodes /\ c.digest \in Nat
      BY DEF HandleRequestSince, IInv, TypeOK, Control, Hash
<1>2. since \in Seq(Nat) /\ \A i \in DOMAIN since : since[i] = c.digest + i
      BY <1>1, SinceIs DEF IInv
<1>3. net' \subseteq net \cup {d}
  <2>1. net' = Sent(left, d) /\ left \subseteq net
        BY DEF HandleRequestSince
  <2> QED BY <2>1, SentStep
<1>4. UNCHANGED <<chain, storage, aired, rx, gap, first, life, born>> /\ faults' \in Nat
      BY DEF HandleRequestSince, Arrives, object, answer, IInv, TypeOK
<1>5. /\ d.type = "MESSAGES_RESPONSE" /\ d.src = n /\ d.dst = c.src
      /\ d.messages = messages
      OBVIOUS
<1> HIDE DEF since
<1>6. DOMAIN since = 1..Len(since) /\ Len(since) \in Nat
      BY <1>2
<1>7. \A i \in 1..Len(since) :
         /\ messages[i] \in Message /\ messages[i].life <= life
         /\ messages[i].hash = c.digest + i
  <2>1. SUFFICES ASSUME NEW i \in 1..Len(since)
                 PROVE  /\ NewMessage(n, since[i]) \in Message
                        /\ NewMessage(n, since[i]).life <= life
                        /\ NewMessage(n, since[i]).hash = c.digest + i
        OBVIOUS
  <2>2. since[i] \in Nat /\ since[i] = c.digest + i
        BY <1>2, <1>6
  <2>3. life \in Nat
        BY DEF IInv, TypeOK
  <2> QED BY <2>2, <2>3 DEF NewMessage, Message, Hash
<1>8. messages \in Seq(Message) /\ DOMAIN messages = 1..Len(since)
      BY <1>6, <1>7
<1>9. ASSUME born[c.src] = 0 PROVE Joins(c.src, messages)
  <2>1. c.digest < Len(chain[c.src]) /\ Len(chain[c.src]) \in Nat
        BY <1>1, <1>9 DEF IInv, AskedInChain, TypeOK
  <2>2. ASSUME NEW i \in DOMAIN messages
        PROVE  /\ messages[i].hash = messages[1].hash + i - 1
               /\ messages[1].hash <= Len(chain[c.src])
    <3>1. i \in Nat /\ 1 \in 1..Len(since) /\ i \in 1..Len(since)
          BY <1>6, <1>8
    <3>2. messages[i].hash = c.digest + i /\ messages[1].hash = c.digest + 1
          BY <1>7, <3>1
    <3>3. c.digest + i = c.digest + 1 + i - 1 /\ c.digest + 1 <= Len(chain[c.src])
          BY <1>1, <2>1, <3>1
    <3> QED BY <3>2, <3>3
  <2> QED BY <2>2 DEF Joins
<1> HIDE DEF messages
<1>10. d \in Control
      BY <1>1, <1>8 DEF Control
<1>11. \A i \in DOMAIN d.messages : d.messages[i].life <= life
      BY <1>5, <1>7, <1>8
<1>12. born[d.dst] = 0 => Joins(d.dst, d.messages)
      BY <1>5, <1>9
<1> HIDE DEF d
<1>13. d.type # "REQUEST_MESSAGES_SINCE"
      BY <1>5
<1> QED BY <1>3, <1>4, <1>10, <1>11, <1>12, <1>13, NetStep

LEMMA MessagesResponseStep ==
    ASSUME IInv, NEW n \in Nodes, NEW c \in net, NEW left \in {net, net \ {c}},
           HandleMessagesResponse(n, c, left)
    PROVE  IInv'
<1>1. c.type = "MESSAGES_RESPONSE" /\ c.dst = n /\ c.messages \in Seq(Message)
      BY DEF HandleMessagesResponse, Arrives, IInv, TypeOK, Control
<1>2. /\ rx' = [rx EXCEPT ![n] = c.messages] /\ net' \subseteq net
      /\ gap' = gap \ {n}
      /\ UNCHANGED <<chain, storage, aired, first, life, born>> /\ faults' \in Nat
      BY DEF HandleMessagesResponse, Arrives, object, answer, IInv, TypeOK
<1>3. rx \in [Nodes -> Seq(Message)]
      BY DEF IInv, TypeOK
<1>4. rx' \in [Nodes -> Seq(Message)] /\ rx'[n] = c.messages
      /\ \A k \in Nodes : k # n => rx'[k] = rx[k]
      BY <1>1, <1>2, <1>3
<1>5. TypeOK'
      BY <1>2, <1>4 DEF IInv, TypeOK
<1>6. OneChain' /\ StoredIsInChain'
      BY <1>2 DEF IInv, OneChain, StoredIsInChain, HasDigest
<1>7. AskedInChain'
      BY <1>2 DEF IInv, AskedInChain
<1>8. \A i \in DOMAIN c.messages : c.messages[i].life <= life
      BY <1>1 DEF IInv, Dated
<1>9. Dated'
  <2>1. \A k \in Nodes : \A i \in DOMAIN rx'[k] : rx'[k][i].life <= life
        BY <1>4, <1>8 DEF IInv, Dated
  <2>2. \A d \in net' : d.type = "MESSAGES_RESPONSE" =>
           \A i \in DOMAIN d.messages : d.messages[i].life <= life
        BY <1>2 DEF IInv, Dated
  <2> QED BY <1>2, <2>1, <2>2 DEF IInv, Dated
<1>10. ASSUME NEW k \in Nodes, born[k] = 0, k \notin gap' PROVE Joins(k, rx[k])'
  <2>1. CASE k = n
    <3>1. Joins(k, c.messages)
          BY <1>1, <1>10, <2>1 DEF IInv, AnswersJoin
    <3> QED BY <1>2, <1>4, <2>1, <3>1 DEF Joins
  <2>2. CASE k # n
    <3>1. Joins(k, rx[k])
          BY <1>2, <1>10, <2>2 DEF IInv, AnswersJoin
    <3> QED BY <1>2, <1>4, <2>2, <3>1 DEF Joins
  <2> QED BY <2>1, <2>2
<1>11. ASSUME NEW k \in Nodes, born[k] = 0, NEW d \in net', d.type = "MESSAGES_RESPONSE",
              d.dst = k
       PROVE  Joins(k, d.messages)'
  <2>1. Joins(k, d.messages)
        BY <1>2, <1>11 DEF IInv, AnswersJoin
  <2> QED BY <1>2, <2>1 DEF Joins
<1>12. AnswersJoin'
      BY <1>2, <1>10, <1>11 DEF AnswersJoin
<1> QED BY <1>5, <1>6, <1>7, <1>9, <1>12 DEF IInv

LEMMA LoseStep ==
    ASSUME IInv, NEW c \in net, Lose(c)
    PROVE  IInv'
<1>1. c \in Control /\ net' \subseteq net /\ faults' \in Nat
      /\ UNCHANGED <<chain, storage, aired, rx, gap, first, life, born>>
      BY DEF Lose, object, answer, IInv, TypeOK
<1>2. TypeOK'
      BY <1>1 DEF IInv, TypeOK
<1>3. OneChain' /\ StoredIsInChain' /\ AnswersJoin'
      BY <1>1 DEF IInv, OneChain, StoredIsInChain, HasDigest, AnswersJoin, Joins
<1>4. Dated' /\ AskedInChain'
      BY <1>1 DEF IInv, Dated, AskedInChain
<1> QED BY <1>2, <1>3, <1>4 DEF IInv

\* A restart forgets the chain; what storage keeps is older than the new life.
LEMMA RestartStep ==
    ASSUME IInv, NEW n \in Nodes, NEW p \in Nodes, Restart(n, p)
    PROVE  IInv'
<1>1. /\ chain' = [chain EXCEPT ![n] = <<0>>] /\ rx' = [rx EXCEPT ![n] = <<>>]
      /\ first' = [first EXCEPT ![n] = p] /\ born' = [born EXCEPT ![n] = life + 1]
      /\ gap' = gap \ {n}
      /\ life' = life + 1 /\ UNCHANGED <<storage, aired, net, faults>>
      BY DEF Restart, Genesis
<1>2. /\ chain \in [Nodes -> Seq(Nat)] /\ rx \in [Nodes -> Seq(Message)]
      /\ born \in [Nodes -> Nat] /\ life \in Nat /\ first \in [Nodes -> Nodes]
      BY DEF IInv, TypeOK, Hash
<1>3. /\ chain'[n] = <<0>> /\ rx'[n] = <<>> /\ born'[n] = life + 1
      /\ \A k \in Nodes : k # n =>
            chain'[k] = chain[k] /\ rx'[k] = rx[k] /\ born'[k] = born[k]
      BY <1>1, <1>2
<1>4. TypeOK'
  <2>1. chain' \in [Nodes -> Seq(Nat)]
        BY <1>1, <1>2
  <2>2. rx' \in [Nodes -> Seq(Message)]
        BY <1>1, <1>2
  <2>3. born' \in [Nodes -> Nat] /\ first' \in [Nodes -> Nodes] /\ life' \in Nat
        BY <1>1, <1>2
  <2> QED BY <1>1, <2>1, <2>2, <2>3 DEF IInv, TypeOK, Hash
<1>5. OneChain'
      BY <1>3 DEF IInv, OneChain
<1>6. ASSUME NEW k \in Nodes, NEW m \in storage[k], m.life >= born'[k]
      PROVE  HasDigest(k, m.hash)'
  <2>1. m.life <= life /\ m.life \in Nat
        BY DEF IInv, Dated, TypeOK, Message
  <2>2. k # n
        BY <1>2, <1>3, <1>6, <2>1
  <2>3. HasDigest(k, m.hash)
        BY <1>3, <1>6, <2>2 DEF IInv, StoredIsInChain
  <2> QED BY <1>3, <2>2, <2>3 DEF HasDigest
<1>7. StoredIsInChain'
      BY <1>1, <1>6 DEF StoredIsInChain
<1>8. \A k \in Nodes : born'[k] = 0 => k # n /\ born[k] = 0
      BY <1>2, <1>3
<1>9. ASSUME NEW k \in Nodes, born'[k] = 0, k \notin gap' PROVE Joins(k, rx[k])'
  <2>1. Joins(k, rx[k])
        BY <1>1, <1>8, <1>9 DEF IInv, AnswersJoin
  <2> QED BY <1>3, <1>8, <1>9, <2>1 DEF Joins
<1>10. ASSUME NEW k \in Nodes, born'[k] = 0, NEW d \in net, d.type = "MESSAGES_RESPONSE",
              d.dst = k
       PROVE  Joins(k, d.messages)'
  <2>1. Joins(k, d.messages)
        BY <1>8, <1>10 DEF IInv, AnswersJoin
  <2> QED BY <1>3, <1>8, <1>10, <2>1 DEF Joins
<1>11. AnswersJoin'
      BY <1>1, <1>9, <1>10 DEF AnswersJoin
<1>12. Dated'
  <2>1. \A k \in Nodes : \A m \in storage[k] \cup aired[k] : m.life <= life + 1
        BY <1>2 DEF IInv, Dated, TypeOK, Message
  <2>2. \A k \in Nodes : \A i \in DOMAIN rx'[k] : rx'[k][i].life <= life + 1
    <3>1. ASSUME NEW k \in Nodes, k # n, NEW i \in DOMAIN rx[k]
          PROVE  rx[k][i].life <= life + 1
      <4>1. rx[k][i] \in Message /\ rx[k][i].life <= life
            BY <1>2 DEF IInv, Dated
      <4> QED BY <1>2, <4>1 DEF Message
    <3>2. DOMAIN rx'[n] = {}
          BY <1>3
    <3> QED BY <1>3, <3>1, <3>2
  <2>3. ASSUME NEW d \in net, d.type = "MESSAGES_RESPONSE", NEW i \in DOMAIN d.messages
        PROVE  d.messages[i].life <= life + 1
    <3>1. d.messages \in Seq(Message)
          BY <2>3 DEF IInv, TypeOK, Control
    <3>2. d.messages[i] \in Message /\ d.messages[i].life <= life
          BY <2>3, <3>1 DEF IInv, Dated
    <3> QED BY <1>2, <3>2 DEF Message
  <2> QED BY <1>1, <2>1, <2>2, <2>3 DEF Dated
<1>13. AskedInChain'
  <2>1. ASSUME NEW d \in net, d.type = "REQUEST_MESSAGES_SINCE", born'[d.src] = 0
        PROVE  d.digest < Len(chain'[d.src])
    <3>1. d.src \in Nodes
          BY <2>1 DEF IInv, TypeOK, Control
    <3> QED BY <1>3, <1>8, <2>1, <3>1 DEF IInv, AskedInChain
  <2> QED BY <1>1, <2>1 DEF AskedInChain
<1> QED BY <1>4, <1>5, <1>7, <1>11, <1>12, <1>13 DEF IInv

LEMMA StepInvariant == IInv /\ [Next]_vars => IInv'
<1> SUFFICES ASSUME IInv, [Next]_vars PROVE IInv'
    OBVIOUS
<1>1. CASE UNCHANGED vars
  <2>1. UNCHANGED <<chain, storage, aired, rx, gap, first, net, life, born, faults>>
        BY <1>1 DEF vars
  <2>2. TypeOK' /\ OneChain' /\ StoredIsInChain'
        BY <2>1 DEF IInv, TypeOK, OneChain, StoredIsInChain, HasDigest
  <2>3. AnswersJoin' /\ Dated' /\ AskedInChain'
        BY <2>1 DEF IInv, AnswersJoin, Joins, Dated, AskedInChain
  <2> QED BY <2>2, <2>3 DEF IInv
<1>2. ASSUME NEW n \in Nodes, NodeStep(n) PROVE IInv'
  <2>1. CASE \E h \in 1..MaxHash : Create(n, h)
        BY <2>1, CreateStep
  <2>2. CASE RequestDigest(n)
        BY <2>2, RequestStep
  <2>3. CASE AcceptReplayed(n)
        BY <2>3, AcceptReplayedStep
  <2>4. CASE SkipReplayed(n)
        BY <2>4, SkipReplayedStep
  <2>5. CASE \E m \in UNION {aired[p] : p \in Nodes} : HandleGossip(n, m)
        BY <2>5, GossipStep
  <2>6. ASSUME NEW d \in net, NEW left \in {net, net \ {d}}, Handle(n, d, left)
        PROVE  IInv'
        BY <2>6, RequestDigestStep, DigestResponseStep, RequestSinceStep,
           MessagesResponseStep DEF Handle
  <2>7. CASE ExistsFails(n)
        BY <2>7, ExistsFailsStep
  <2> QED BY <1>2, <2>1, <2>2, <2>3, <2>4, <2>5, <2>6, <2>7 DEF NodeStep
<1>3. ASSUME NEW d \in net, Lose(d) PROVE IInv'
      BY <1>3, LoseStep
<1>4. ASSUME NEW n \in Nodes, NEW p \in Nodes, Restart(n, p) PROVE IInv'
      BY <1>4, RestartStep
<1> QED BY <1>1, <1>2, <1>3, <1>4 DEF Next

-----------------------------------------------------------------------------
(* The theorems *)

\* All parts of the invariant together, storage errors, losses, repeats and
\* restarts included.
THEOREM Safety == Spec => []IInv
<1> QED BY InitInvariant, StepInvariant, PTL DEF Spec

\* MerkelizedChain::try_add_hash keeps every chain a prefix of the one chain.
THEOREM ChainsAreOne == Spec => []OneChain
<1>1. IInv => OneChain
      BY DEF IInv
<1> QED BY <1>1, InitInvariant, StepInvariant, PTL DEF Spec

\* What a node stored of messages made since its start is in its chain.
THEOREM StoredIsApplied == Spec => []StoredIsInChain
<1>1. IInv => StoredIsInChain
      BY DEF IInv
<1> QED BY <1>1, InitInvariant, StepInvariant, PTL DEF Spec

\* An answer to a node that did not restart joins onto its chain, so that
\* process_message rejects none of its messages.
THEOREM AnswersAreTaken == Spec => []AnswersJoin
<1>1. IInv => AnswersJoin
      BY DEF IInv
<1> QED BY <1>1, InitInvariant, StepInvariant, PTL DEF Spec
=============================================================================
