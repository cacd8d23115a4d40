------------------------- MODULE AddressClaim_proofs -------------------------
(***************************************************************************)
(* Proofs about the address claim, for any nodes, NAMEs, addresses, losses *)
(* and requests.                                                           *)
(***************************************************************************)
EXTENDS AddressClaim, TLAPS

\* What can be in an inbox: the claims carry the NAME of a node.
Sent ==
  [claim : {TRUE}, src : Addresses, name : {Name[n] : n \in Nodes}]
    \cup [claim : {FALSE}, dst : Destinations]

Lowest == {n \in Nodes : \A m \in Nodes : Name[n] <= Name[m]}

ClaimInv ==
  /\ s_source_address \in [Nodes -> Addresses]
  /\ up \subseteq Nodes /\ first \subseteq up /\ unsent \subseteq up
  /\ inbox \in [Nodes -> Seq(Sent)]
  /\ \A n \in Nodes \ up : inbox[n] = <<>>
  /\ {boots, losses, requests} \subseteq Nat
  /\ suspect \subseteq Addresses
  /\ \A n \in Lowest : s_source_address[n] = Preferred[n]

LEMMA ClaimSent ==
  ASSUME s_source_address \in [Nodes -> Addresses], NEW n \in Nodes
  PROVE  Claim(n) \in Sent
BY DEF Claim, Sent

LEMMA RequestSent ==
  ASSUME NEW a \in Destinations
  PROVE  Request(a) \in Sent
BY DEF Request, Sent

LEMMA BroadcastCorrect ==
  ASSUME inbox \in [Nodes -> Seq(Sent)],
         \A n \in Nodes \ up : inbox[n] = <<>>,
         suspect \subseteq Addresses,
         NEW m \in Sent, NEW to \in SUBSET up, NEW clear, Broadcast(m, to, clear)
  PROVE  /\ inbox' \in [Nodes -> Seq(Sent)]
         /\ \A n \in Nodes \ up : inbox'[n] = <<>>
         /\ suspect' \subseteq Addresses
<1> DEFINE room == {n \in to : Len(inbox[n]) < QueueLength}
<1>1. inbox' = [n \in Nodes |-> IF n \in room THEN Append(inbox[n], m) ELSE inbox[n]]
  BY DEF Broadcast
<1>2. ASSUME NEW n \in Nodes PROVE inbox'[n] \in Seq(Sent)
  <2>1. inbox[n] \in Seq(Sent) /\ Append(inbox[n], m) \in Seq(Sent)
    OBVIOUS
  <2> QED
    BY <1>1, <2>1
<1>3. \A n \in Nodes \ up : inbox'[n] = <<>>
  BY <1>1
<1>4. suspect' \subseteq Addresses
  BY DEF Broadcast
<1> QED
  BY <1>1, <1>2, <1>3, <1>4

LEMMA SendCorrect ==
  ASSUME ClaimInv, NEW n \in Nodes, SendAddressClaim(n)
  PROVE  /\ inbox' \in [Nodes -> Seq(Sent)]
         /\ \A k \in Nodes \ up : inbox'[k] = <<>>
         /\ suspect' \subseteq Addresses
         /\ losses' \in Nat
<1>1. CASE Broadcast(Claim(n), up \ {n}, {}) /\ UNCHANGED losses
  BY <1>1, ClaimSent, BroadcastCorrect DEF ClaimInv
<1>2. CASE losses > 0 /\ losses' = losses - 1 /\ suspect' = Addresses /\ UNCHANGED inbox
  BY <1>2 DEF ClaimInv
<1> QED
  BY <1>1, <1>2 DEF SendAddressClaim

LEMMA HandleCorrect ==
  ASSUME ClaimInv, NEW n \in Nodes, Handle(n)
  PROVE  /\ inbox' \in [Nodes -> Seq(Sent)]
         /\ \A k \in Nodes \ up : inbox'[k] = <<>>
         /\ Head(inbox[n]) \in Sent
         /\ n \in up
<1>1. inbox[n] \in Seq(Sent) /\ inbox[n] # <<>>
  BY DEF ClaimInv, Handle
<1>2. Head(inbox[n]) \in Sent /\ Tail(inbox[n]) \in Seq(Sent)
  BY <1>1
<1>3. inbox' = [inbox EXCEPT ![n] = Tail(@)] /\ n \in up
  BY DEF Handle
<1> QED
  BY <1>2, <1>3 DEF ClaimInv

\* Of the claims that are heard, none makes the node with the lowest NAME move.
LEMMA OutcomeCorrect ==
  ASSUME ClaimInv, NEW n \in Nodes, NEW m \in Sent, m.claim, Outcome(n, m)
  PROVE  /\ s_source_address' \in [Nodes -> Addresses]
         /\ \A k \in Lowest : s_source_address'[k] = Preferred[k]
         /\ unsent' = unsent \cup {n}
<1>1. PICK k \in Nodes : m.name = Name[k]
  BY DEF Sent
<1>2. Name[k] \in Nat /\ Name[n] \in Nat /\ ADDRESS_CLAIM_MAX_ADDRESS \in Nat
  BY AddressAssumption
<1>3. s_source_address' = [s_source_address EXCEPT ![n] =
        IF m.name < Name[n] /\ @ < ADDRESS_CLAIM_MAX_ADDRESS THEN @ + 1 ELSE @]
  BY DEF Outcome
<1>4. s_source_address' \in [Nodes -> Addresses]
  <2>1. s_source_address \in [Nodes -> Addresses] /\ s_source_address[n] \in Addresses
    BY DEF ClaimInv
  <2>2. s_source_address[n] < ADDRESS_CLAIM_MAX_ADDRESS => s_source_address[n] + 1 \in Addresses
    BY <1>2, <2>1 DEF Addresses
  <2> QED
    BY <1>3, <2>1, <2>2
<1>5. n \in Lowest => ~(m.name < Name[n])
  BY <1>1, <1>2 DEF Lowest
<1>6. \A j \in Lowest : s_source_address'[j] = Preferred[j]
  BY <1>3, <1>5 DEF ClaimInv, Lowest
<1> QED
  BY <1>4, <1>6 DEF Outcome

LEMMA ClaimStep ==
  ASSUME ClaimInv, [Next]_vars
  PROVE  ClaimInv'
<1>1. CASE UNCHANGED vars
  BY <1>1 DEF vars, bounds, ClaimInv
<1>2. ASSUME NEW n \in Nodes, Boot(n) PROVE ClaimInv'
  <2>1. Preferred[n] \in Addresses
    BY AddressAssumption DEF Addresses
  <2>2. s_source_address' \in [Nodes -> Addresses]
    BY <1>2, <2>1 DEF Boot, ClaimInv
  <2>3. \A k \in Lowest : s_source_address'[k] = Preferred[k]
    BY <1>2 DEF Boot, ClaimInv, Lowest
  <2>4. boots' \in Nat
    BY <1>2 DEF Boot, ClaimInv
  <2> QED
    BY <1>2, <2>2, <2>3, <2>4 DEF Boot, ClaimInv
<1>3. ASSUME NEW n \in Nodes, PowerLoss(n) PROVE ClaimInv'
  <2>1. inbox' \in [Nodes -> Seq(Sent)]
    BY <1>3 DEF PowerLoss, ClaimInv
  <2>2. \A k \in Nodes \ up' : inbox'[k] = <<>>
    BY <1>3 DEF PowerLoss, ClaimInv
  <2> QED
    BY <1>3, <2>1, <2>2 DEF PowerLoss, ClaimInv, bounds
<1>4. ASSUME NEW n \in Nodes, FirstClaim(n) \/ Reclaim(n) PROVE ClaimInv'
  <2>1. /\ SendAddressClaim(n)
        /\ first' \subseteq first /\ unsent' \subseteq unsent
        /\ UNCHANGED <<s_source_address, up, boots, requests>>
    BY <1>4 DEF FirstClaim, Reclaim
  <2> QED
    BY <2>1, SendCorrect DEF ClaimInv
<1>5. ASSUME NEW n \in Nodes, HandleAddressClaim(n) PROVE ClaimInv'
  <2>1. Handle(n) /\ Head(inbox[n]).claim /\ Outcome(n, Head(inbox[n]))
    BY <1>5 DEF HandleAddressClaim, Conflict
  <2>2. /\ inbox' \in [Nodes -> Seq(Sent)]
        /\ \A k \in Nodes \ up : inbox'[k] = <<>>
        /\ n \in up /\ Head(inbox[n]) \in Sent
    BY <2>1, HandleCorrect
  <2>3. /\ s_source_address' \in [Nodes -> Addresses]
        /\ \A k \in Lowest : s_source_address'[k] = Preferred[k]
        /\ unsent' = unsent \cup {n}
    BY <2>1, <2>2, OutcomeCorrect
  <2> QED
    BY <2>1, <2>2, <2>3 DEF Handle, ClaimInv, bounds
<1>6. ASSUME NEW n \in Nodes, HandleIsoRequest(n) \/ Ignore(n) PROVE ClaimInv'
  <2>1. Handle(n) /\ unsent' \subseteq unsent \cup {n} /\ UNCHANGED s_source_address
    BY <1>6 DEF HandleIsoRequest, Ignore
  <2>2. /\ inbox' \in [Nodes -> Seq(Sent)]
        /\ \A k \in Nodes \ up : inbox'[k] = <<>>
        /\ n \in up
    BY <2>1, HandleCorrect
  <2> QED
    BY <2>1, <2>2 DEF Handle, ClaimInv, bounds
<1>7. ASSUME NEW n \in Nodes, LoseMessage(n) PROVE ClaimInv'
  <2>1. inbox[n] \in Seq(Sent) /\ inbox[n] # <<>>
    BY <1>7 DEF LoseMessage, ClaimInv
  <2>2. Tail(inbox[n]) \in Seq(Sent)
    BY <2>1
  <2>3. inbox' \in [Nodes -> Seq(Sent)]
    BY <1>7, <2>2 DEF LoseMessage, ClaimInv
  <2>4. n \in up
    BY <2>1 DEF ClaimInv
  <2>5. \A k \in Nodes \ up : inbox'[k] = <<>>
    BY <1>7, <2>4 DEF LoseMessage, ClaimInv
  <2>6. losses' \in Nat
    BY <1>7 DEF LoseMessage, ClaimInv
  <2> QED
    BY <1>7, <2>3, <2>5, <2>6 DEF LoseMessage, ClaimInv
<1>8. ASSUME NEW a \in Destinations, IsoRequest(a) PROVE ClaimInv'
  <2>1. requests' \in Nat
    BY <1>8 DEF IsoRequest, ClaimInv
  <2>2. Broadcast(Request(a), up, IF a = Global THEN Addresses ELSE {a})
    BY <1>8 DEF IsoRequest
  <2>3. /\ inbox' \in [Nodes -> Seq(Sent)]
        /\ \A k \in Nodes \ up : inbox'[k] = <<>>
        /\ suspect' \subseteq Addresses
    BY <2>2, RequestSent, BroadcastCorrect DEF ClaimInv
  <2> QED
    BY <1>8, <2>1, <2>3 DEF IsoRequest, ClaimInv
<1> QED
  BY <1>1, <1>2, <1>3, <1>4, <1>5, <1>6, <1>7, <1>8 DEF Next, Handler

LEMMA ClaimInit ==
  ASSUME Init PROVE ClaimInv
<1>1. Preferred \in [Nodes -> Addresses]
  BY AddressAssumption DEF Addresses
<1>2. <<>> \in Seq(Sent)
  OBVIOUS
<1>3. {MaxBoots, MaxLost, MaxRequests} \subseteq Nat
  BY AddressAssumption
<1> QED
  BY <1>1, <1>2, <1>3 DEF Init, ClaimInv, Lowest

\* The types of the state: no address lies past the last one, and a node that is
\* off has nothing to handle or to send.
THEOREM TypeCorrect == Spec => []TypeOK
<1>1. ClaimInv => TypeOK
  <2>1. {Name[n] : n \in Nodes} \subseteq Nat
    BY AddressAssumption
  <2>2. Sent \subseteq Messages
    BY <2>1 DEF Sent, Messages
  <2>3. inbox \in [Nodes -> Seq(Sent)] => inbox \in [Nodes -> Seq(Messages)]
    BY <2>2
  <2> QED
    BY <2>3 DEF ClaimInv, TypeOK
<1> QED
  BY <1>1, ClaimInit, ClaimStep, PTL DEF Spec

\* Whatever is lost, asked for, switched on or off, and however claims cross: the
\* node with the lowest NAME stays at its preferred address.
THEOREM LowestCorrect == Spec => []LowestKeepsAddress
<1>1. ClaimInv => LowestKeepsAddress
  BY DEF ClaimInv, Lowest, LowestKeepsAddress
<1> QED
  BY <1>1, ClaimInit, ClaimStep, PTL DEF Spec

-----------------------------------------------------------------------------
(* Two nodes at one address. *)

In(q) == {q[i] : i \in 1 .. Len(q)}

\* The node n will claim its address: its first claim or an answer is still to be
\* sent, or it has still to hear what provokes one.
Stirred(n) ==
  \/ n \in first \cup unsent
  \/ \E m \in In(inbox[n]) : Conflict(n, m) \/ Asked(n, m)

\* Of two nodes that share an address which is not under suspicion, one at least
\* will claim it; and what one claims the other has then still to hear.
ConflictsStir ==
  \A m, n \in up :
    m # n /\ s_source_address[m] = s_source_address[n] /\ s_source_address[n] \notin suspect
      => Stirred(m) \/ Stirred(n)

LEMMA AppendIn ==
  ASSUME NEW S, NEW q \in Seq(S), NEW e
  PROVE  In(Append(q, e)) = In(q) \cup {e}
<1>1. /\ Len(Append(q, e)) = Len(q) + 1 /\ Len(q) \in Nat
      /\ \A i \in 1 .. Len(q) : Append(q, e)[i] = q[i]
      /\ Append(q, e)[Len(q) + 1] = e
  OBVIOUS
<1>2. \A i \in 1 .. Len(q) + 1 : i \in 1 .. Len(q) \/ i = Len(q) + 1
  BY <1>1
<1>3. 1 .. Len(q) \subseteq 1 .. Len(q) + 1 /\ Len(q) + 1 \in 1 .. Len(q) + 1
  BY <1>1
<1> QED
  BY <1>1, <1>2, <1>3 DEF In

LEMMA TailIn ==
  ASSUME NEW S, NEW q \in Seq(S), q # <<>>
  PROVE  In(q) \subseteq {Head(q)} \cup In(Tail(q))
<1>1. /\ Len(Tail(q)) = Len(q) - 1 /\ Len(q) \in Nat \ {0} /\ Head(q) = q[1]
      /\ \A i \in 1 .. Len(Tail(q)) : Tail(q)[i] = q[i + 1]
  OBVIOUS
<1> SUFFICES ASSUME NEW i \in 1 .. Len(q), i # 1 PROVE q[i] \in In(Tail(q))
  BY <1>1 DEF In
<1>2. i - 1 \in 1 .. Len(Tail(q)) /\ (i - 1) + 1 = i
  BY <1>1
<1>3. Tail(q)[i - 1] = q[i]
  BY <1>1, <1>2
<1> QED
  BY <1>2, <1>3 DEF In

\* A step that moves no node, sends nothing, and lets nothing be forgotten.
LEMMA StillStirred ==
  ASSUME ConflictsStir, up' \subseteq up,
         UNCHANGED s_source_address,
         suspect \subseteq suspect',
         \A n \in up' : Stirred(n) => Stirred(n)'
  PROVE  ConflictsStir'
BY DEF ConflictsStir

\* When everything is under suspicion there is nothing to show.
LEMMA Suspicious ==
  ASSUME ClaimInv', suspect' = Addresses
  PROVE  ConflictsStir'
BY DEF ConflictsStir, ClaimInv

\* A node that will claim its address has claimed it: whoever shares it will hear.
LEMMA SendStirs ==
  ASSUME ClaimInv, ClaimInv', ConflictsStir, NEW n \in up, SendAddressClaim(n),
         UNCHANGED <<s_source_address, up>>,
         first \subseteq first' \cup {n}, unsent \subseteq unsent' \cup {n}
  PROVE  ConflictsStir'
<1>1. CASE losses > 0 /\ losses' = losses - 1 /\ suspect' = Addresses /\ UNCHANGED inbox
  BY <1>1, Suspicious
<1>2. CASE Broadcast(Claim(n), up \ {n}, {})
  <2> DEFINE room == {k \in up \ {n} : Len(inbox[k]) < QueueLength}
  <2>1. CASE room # up \ {n}
    BY <1>2, <2>1, Suspicious DEF Broadcast
  <2>2. CASE room = up \ {n}
    <3>1. /\ suspect' = suspect
          /\ inbox' = [k \in Nodes |-> IF k \in up \ {n} THEN Append(inbox[k], Claim(n)) ELSE inbox[k]]
      BY <1>2, <2>2 DEF Broadcast
    <3>2. \A k \in up \ {n} : In(inbox'[k]) = In(inbox[k]) \cup {Claim(n)}
      <4> SUFFICES ASSUME NEW k \in up \ {n} PROVE In(inbox'[k]) = In(inbox[k]) \cup {Claim(n)}
        OBVIOUS
      <4>1. k \in Nodes /\ inbox[k] \in Seq(Sent)
        BY DEF ClaimInv
      <4>2. inbox'[k] = Append(inbox[k], Claim(n))
        BY <3>1, <4>1
      <4> QED
        BY <4>1, <4>2, AppendIn
    <3>3. \A k \in up \ {n} : s_source_address[k] = s_source_address[n] => Stirred(k)'
      <4> SUFFICES ASSUME NEW k \in up \ {n}, s_source_address[k] = s_source_address[n]
                   PROVE  Stirred(k)'
        OBVIOUS
      <4>1. k \in Nodes /\ n \in Nodes
        BY DEF ClaimInv
      <4>2. Name[n] # Name[k]
        BY <4>1, AddressAssumption
      <4>3. Conflict(k, Claim(n))'
        BY <4>2 DEF Conflict, Claim
      <4>4. Claim(n)' = Claim(n)
        BY DEF Claim
      <4> QED
        BY <3>2, <4>3, <4>4 DEF Stirred
    <3>4. \A k \in up \ {n} : Stirred(k) => Stirred(k)'
      <4> SUFFICES ASSUME NEW k \in up \ {n}, Stirred(k) PROVE Stirred(k)'
        OBVIOUS
      <4>1. CASE k \in first \cup unsent
        BY <4>1 DEF Stirred
      <4>2. CASE \E m \in In(inbox[k]) : Conflict(k, m) \/ Asked(k, m)
        BY <3>2, <4>2 DEF Stirred, Conflict, Asked
      <4> QED
        BY <4>1, <4>2 DEF Stirred
    <3> QED
      BY <3>1, <3>3, <3>4 DEF ConflictsStir
  <2> QED
    BY <2>1, <2>2
<1> QED
  BY <1>1, <1>2 DEF SendAddressClaim

\* A node that handles a message claims its address, or it was not concerned.
LEMMA HandleStirs ==
  ASSUME ClaimInv, ConflictsStir, NEW n \in Nodes,
         HandleAddressClaim(n) \/ HandleIsoRequest(n) \/ Ignore(n)
  PROVE  ConflictsStir'
<1>1. /\ n \in up /\ inbox[n] # <<>>
      /\ inbox' = [inbox EXCEPT ![n] = Tail(@)]
      /\ UNCHANGED <<up, first, suspect>>
      /\ s_source_address \in [Nodes -> Addresses] /\ inbox \in [Nodes -> Seq(Sent)] /\ up \subseteq Nodes
  BY DEF HandleAddressClaim, HandleIsoRequest, Ignore, Handle, ClaimInv
<1>2. /\ unsent \subseteq unsent'
      /\ \A k \in Nodes \ {n} : s_source_address'[k] = s_source_address[k]
  BY <1>1 DEF HandleAddressClaim, HandleIsoRequest, Ignore, Outcome
<1>3. \A k \in up \ {n} : Stirred(k) => Stirred(k)'
  <2> SUFFICES ASSUME NEW k \in up \ {n}, Stirred(k) PROVE Stirred(k)'
    OBVIOUS
  <2>1. inbox'[k] = inbox[k] /\ s_source_address'[k] = s_source_address[k]
    BY <1>1, <1>2
  <2> QED
    BY <1>1, <1>2, <2>1 DEF Stirred, Conflict, Asked
<1>4. CASE HandleAddressClaim(n) \/ HandleIsoRequest(n)
  <2>1. n \in unsent'
    BY <1>4 DEF HandleAddressClaim, HandleIsoRequest, Outcome
  <2>2. Stirred(n)'
    BY <2>1 DEF Stirred
  <2> QED
    BY <1>1, <1>2, <1>3, <2>2 DEF ConflictsStir
<1>5. CASE Ignore(n)
  <2>1. /\ ~Conflict(n, Head(inbox[n])) /\ ~Asked(n, Head(inbox[n]))
        /\ UNCHANGED <<s_source_address, unsent>>
    BY <1>5 DEF Ignore
  <2>2. inbox'[n] = Tail(inbox[n]) /\ inbox[n] \in Seq(Sent)
    BY <1>1
  <2>3. In(inbox[n]) \subseteq {Head(inbox[n])} \cup In(inbox'[n])
    BY <1>1, <2>2, TailIn
  <2>4. Stirred(n) => Stirred(n)'
    BY <1>1, <2>1, <2>3 DEF Stirred, Conflict, Asked
  <2> QED
    BY <1>1, <1>3, <2>1, <2>4, StillStirred
<1> QED
  BY <1>4, <1>5

LEMMA BootStirs ==
  ASSUME ClaimInv, ConflictsStir, NEW n \in Nodes, Boot(n)
  PROVE  ConflictsStir'
<1>1. /\ up' = up \cup {n} /\ first' = first \cup {n}
      /\ \A k \in Nodes \ {n} : s_source_address'[k] = s_source_address[k]
      /\ UNCHANGED <<unsent, inbox, suspect>>
      /\ up \subseteq Nodes
  BY DEF Boot, ClaimInv
<1>2. Stirred(n)'
  BY <1>1 DEF Stirred
<1>3. \A k \in up \ {n} : Stirred(k) => Stirred(k)'
  <2> SUFFICES ASSUME NEW k \in up \ {n}, Stirred(k) PROVE Stirred(k)'
    OBVIOUS
  <2>1. s_source_address'[k] = s_source_address[k] /\ k \in Nodes
    BY <1>1
  <2> QED
    BY <1>1, <2>1 DEF Stirred, Conflict, Asked
<1> QED
  BY <1>1, <1>2, <1>3 DEF ConflictsStir

LEMMA PowerLossStirs ==
  ASSUME ClaimInv, ConflictsStir, NEW n \in Nodes, PowerLoss(n)
  PROVE  ConflictsStir'
<1>1. /\ up' = up \ {n} /\ first' = first \ {n} /\ unsent' = unsent \ {n}
      /\ inbox' = [inbox EXCEPT ![n] = <<>>]
      /\ UNCHANGED <<s_source_address, suspect>>
      /\ up \subseteq Nodes /\ inbox \in [Nodes -> Seq(Sent)]
  BY DEF PowerLoss, ClaimInv
<1>2. \A k \in up' : Stirred(k) => Stirred(k)'
  <2> SUFFICES ASSUME NEW k \in up', Stirred(k) PROVE Stirred(k)'
    OBVIOUS
  <2>1. inbox'[k] = inbox[k] /\ k # n
    BY <1>1
  <2> QED
    BY <1>1, <2>1 DEF Stirred, Conflict, Asked
<1> QED
  BY <1>1, <1>2, StillStirred

\* An ISO request that gets through stirs every node at the addresses it clears.
LEMMA RequestStirs ==
  ASSUME ClaimInv, ClaimInv', ConflictsStir, NEW a \in Destinations, IsoRequest(a)
  PROVE  ConflictsStir'
<1> DEFINE clear == IF a = Global THEN Addresses ELSE {a}
           room == {k \in up : Len(inbox[k]) < QueueLength}
<1>1. Broadcast(Request(a), up, clear) /\ UNCHANGED <<s_source_address, up, first, unsent>>
  BY DEF IsoRequest
<1>2. CASE room # up
  BY <1>1, <1>2, Suspicious DEF Broadcast
<1>3. CASE room = up
  <2>1. /\ suspect' = suspect \ clear
        /\ inbox' = [k \in Nodes |-> IF k \in up THEN Append(inbox[k], Request(a)) ELSE inbox[k]]
    BY <1>1, <1>3 DEF Broadcast
  <2>2. \A k \in up : In(inbox'[k]) = In(inbox[k]) \cup {Request(a)}
    <3> SUFFICES ASSUME NEW k \in up PROVE In(inbox'[k]) = In(inbox[k]) \cup {Request(a)}
      OBVIOUS
    <3>1. k \in Nodes /\ inbox[k] \in Seq(Sent)
      BY DEF ClaimInv
    <3>2. inbox'[k] = Append(inbox[k], Request(a))
      BY <2>1, <3>1
    <3> QED
      BY <3>1, <3>2, AppendIn
  <2>3. \A k \in up : s_source_address[k] \in clear => Stirred(k)'
    <3> SUFFICES ASSUME NEW k \in up, s_source_address[k] \in clear PROVE Stirred(k)'
      OBVIOUS
    <3>1. Asked(k, Request(a))'
      BY <1>1 DEF Asked, Request
    <3>2. Request(a) \in In(inbox'[k])
      BY <2>2
    <3> QED
      BY <3>1, <3>2 DEF Stirred, Request
  <2>4. \A k \in up : Stirred(k) => Stirred(k)'
    BY <1>1, <2>2 DEF Stirred, Conflict, Asked
  <2> QED
    BY <1>1, <2>1, <2>3, <2>4 DEF ConflictsStir
<1> QED
  BY <1>2, <1>3

\* In whatever order nodes are switched on, move and hear each other: when there is
\* nothing left to hear or to say, two nodes share an address only where something
\* was lost since it was last asked for.
THEOREM DistinctCorrect == Spec => []SettledDistinct
<1>1. Init => ConflictsStir
  BY DEF Init, ConflictsStir
<1>2. ClaimInv /\ ClaimInv' /\ ConflictsStir /\ [Next]_vars => ConflictsStir'
  <2> SUFFICES ASSUME ClaimInv, ClaimInv', ConflictsStir, [Next]_vars PROVE ConflictsStir'
    OBVIOUS
  <2>1. CASE UNCHANGED vars
    BY <2>1 DEF vars, bounds, ConflictsStir, Stirred, Conflict, Asked
  <2>2. ASSUME NEW n \in Nodes, Boot(n) PROVE ConflictsStir'
    BY <2>2, BootStirs
  <2>3. ASSUME NEW n \in Nodes, PowerLoss(n) PROVE ConflictsStir'
    BY <2>3, PowerLossStirs
  <2>4. ASSUME NEW n \in Nodes, FirstClaim(n) PROVE ConflictsStir'
    BY <2>4, SendStirs DEF FirstClaim, ClaimInv
  <2>5. ASSUME NEW n \in Nodes, Reclaim(n) PROVE ConflictsStir'
    BY <2>5, SendStirs DEF Reclaim, ClaimInv
  <2>6. ASSUME NEW n \in Nodes, HandleAddressClaim(n) \/ HandleIsoRequest(n) \/ Ignore(n)
        PROVE  ConflictsStir'
    BY <2>6, HandleStirs
  <2>7. ASSUME NEW n \in Nodes, LoseMessage(n) PROVE ConflictsStir'
    BY <2>7, Suspicious DEF LoseMessage
  <2>8. ASSUME NEW a \in Destinations, IsoRequest(a) PROVE ConflictsStir'
    BY <2>8, RequestStirs
  <2> QED
    BY <2>1, <2>2, <2>3, <2>4, <2>5, <2>6, <2>7, <2>8 DEF Next, Handler
<1>3. ClaimInv /\ ConflictsStir => SettledDistinct
  <2> SUFFICES ASSUME ClaimInv, ConflictsStir, Settled,
                      NEW a \in Addresses, Shared(a), a \notin suspect
               PROVE  FALSE
    BY DEF SettledDistinct
  <2>1. PICK m, n \in up : m # n /\ s_source_address[m] = a /\ s_source_address[n] = a
    BY DEF Shared
  <2>2. Stirred(m) \/ Stirred(n)
    BY <2>1 DEF ConflictsStir
  <2>3. \A k \in up : In(inbox[k]) = {}
    BY DEF Settled, In
  <2> QED
    BY <2>1, <2>2, <2>3 DEF Stirred, Settled
<1> QED
  BY <1>1, <1>2, <1>3, ClaimInit, ClaimStep, PTL DEF Spec
=============================================================================
