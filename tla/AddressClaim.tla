---------------------------- MODULE AddressClaim ----------------------------
(***************************************************************************)
(* NMEA 2000 address claim between nodes that run this code.  Every node   *)
(* starts at its preferred address and claims it; a claim carries the      *)
(* node's NAME, and of two nodes at one address the one with the greater   *)
(* NAME moves to the next address (handle_address_claim).                  *)
(*                                                                         *)
(* A claim reaches all other nodes in the order of the bus, but each node  *)
(* handles what it has received in its own time, and its own claims are on *)
(* their way meanwhile.  A claim may fail to be sent, or be lost in a full *)
(* queue; it is not repeated, but any device may ask for the claims of all *)
(* nodes, or of those at one address, with an ISO request.                 *)
(***************************************************************************)
EXTENDS Naturals, Sequences

CONSTANTS
  Nodes,
  Name,        \* Name[n]: build_n2k_name of node n
  Preferred,   \* Preferred[n]: CZONE_DEVICE_PREFERRED_ADDRESS of node n
  ADDRESS_CLAIM_MAX_ADDRESS,
  Global,      \* N2K_GLOBAL_ADDRESS
  Destinations, \* where ISO requests are sent to: Global, single addresses
  QueueLength, \* how many messages a node can have still to handle
  MaxBoots,    \* bound of the model: how often nodes are switched on
  MaxLost,     \* bound of the model: claims and requests that are lost
  MaxRequests  \* bound of the model: ISO requests

ASSUME AddressAssumption ==
  /\ Name \in [Nodes -> Nat]
  /\ \A m, n \in Nodes : Name[m] = Name[n] => m = n
  /\ ADDRESS_CLAIM_MAX_ADDRESS \in Nat
  /\ Preferred \in [Nodes -> 0 .. ADDRESS_CLAIM_MAX_ADDRESS]
  /\ Global \in Nat /\ Global > ADDRESS_CLAIM_MAX_ADDRESS
  /\ Destinations \subseteq 0 .. ADDRESS_CLAIM_MAX_ADDRESS \cup {Global}
  /\ {QueueLength, MaxBoots, MaxLost, MaxRequests} \subseteq Nat

VARIABLES
  s_source_address,
  up,        \* the nodes that are on
  first,     \* the nodes whose protocol_task has still to send its first claim
  unsent,    \* the nodes whose handler has still to send a claim
  inbox,     \* inbox[n]: what node n has still to handle, oldest first
  boots,     \* how often a node may still be switched on
  losses,    \* how often something may still be lost
  requests,  \* how many ISO requests may still come
  suspect    \* history: the addresses not asked for since something was lost

bounds == <<boots, losses, requests>>
vars   == <<s_source_address, up, first, unsent, inbox, bounds, suspect>>

Addresses == 0 .. ADDRESS_CLAIM_MAX_ADDRESS

Claim(n)   == [claim |-> TRUE, src |-> s_source_address[n], name |-> Name[n]]
Request(a) == [claim |-> FALSE, dst |-> a]

Init ==
  /\ s_source_address = Preferred
  /\ up = {}
  /\ first = {}
  /\ unsent = {}
  /\ inbox = [n \in Nodes |-> <<>>]
  /\ boots = MaxBoots
  /\ losses = MaxLost
  /\ requests = MaxRequests
  /\ suspect = {}
-----------------------------------------------------------------------------
\* czone_can_init: the tasks run, the first claim is still to come.
Boot(n) ==
  /\ n \notin up
  /\ boots > 0
  /\ boots' = boots - 1
  /\ up' = up \cup {n}
  /\ first' = first \cup {n}
  /\ s_source_address' = [s_source_address EXCEPT ![n] = Preferred[n]]
  /\ UNCHANGED <<unsent, inbox, losses, requests, suspect>>

PowerLoss(n) ==
  /\ n \in up
  /\ boots > 0
  /\ up' = up \ {n}
  /\ first' = first \ {n}
  /\ unsent' = unsent \ {n}
  /\ inbox' = [inbox EXCEPT ![n] = <<>>]
  /\ UNCHANGED <<s_source_address, bounds, suspect>>

\* A message reaches every node of `to` that has room for it.  Where it does not
\* get through, any two nodes may now share an address unknowingly; `clear` are the
\* addresses it would have cleared of that suspicion.
Broadcast(m, to, clear) ==
  LET room == {n \in to : Len(inbox[n]) < QueueLength} IN
  /\ inbox' = [n \in Nodes |-> IF n \in room THEN Append(inbox[n], m) ELSE inbox[n]]
  /\ suspect' = IF room = to THEN suspect \ clear ELSE Addresses

\* send_address_claim reads the address when it sends.  When czone_can_send
\* fails, the claim is gone: its callers log the error at most.
SendAddressClaim(n) ==
  \/ /\ Broadcast(Claim(n), up \ {n}, {})
     /\ UNCHANGED losses
  \/ /\ losses > 0
     /\ losses' = losses - 1
     /\ suspect' = Addresses
     /\ UNCHANGED inbox

\* protocol_task begins with a claim, whatever the handler has heard by then.
FirstClaim(n) ==
  /\ n \in first
  /\ SendAddressClaim(n)
  /\ first' = first \ {n}
  /\ UNCHANGED <<s_source_address, up, unsent, boots, requests>>

Reclaim(n) ==
  /\ n \in unsent
  /\ SendAddressClaim(n)
  /\ unsent' = unsent \ {n}
  /\ UNCHANGED <<s_source_address, up, first, boots, requests>>

\* An ISO request for the address claim, from a device that claims no address
\* itself: a configuration tool, a display.
IsoRequest(a) ==
  /\ requests > 0
  /\ requests' = requests - 1
  /\ Broadcast(Request(a), up, IF a = Global THEN Addresses ELSE {a})
  /\ UNCHANGED <<s_source_address, up, first, unsent, boots, losses>>

\* A queue on the way is emptied after a bus-off: CanRx.
LoseMessage(n) ==
  /\ inbox[n] # <<>>
  /\ losses > 0
  /\ losses' = losses - 1
  /\ inbox' = [inbox EXCEPT ![n] = Tail(@)]
  /\ suspect' = Addresses
  /\ UNCHANGED <<s_source_address, up, first, unsent, boots, requests>>

\* Mutant of Outcome: after a lost conflict the new address is not claimed.
SilentOutcome(n, m) ==
  IF m.name < Name[n] /\ s_source_address[n] < ADDRESS_CLAIM_MAX_ADDRESS
  THEN /\ s_source_address' = [s_source_address EXCEPT ![n] = @ + 1]
       /\ UNCHANGED unsent
  ELSE /\ unsent' = unsent \cup {n}
       /\ UNCHANGED s_source_address

\* Mutant of Outcome: the lower NAME loses.
LowerLoses(n, m) ==
  /\ s_source_address' = [s_source_address EXCEPT ![n] =
       IF m.name > Name[n] /\ @ < ADDRESS_CLAIM_MAX_ADDRESS THEN @ + 1 ELSE @]
  /\ unsent' = unsent \cup {n}

\* Mutant of Outcome: the loser goes on past the last address.
PastTheLast(n, m) ==
  /\ s_source_address' = [s_source_address EXCEPT ![n] =
       IF m.name < Name[n] /\ @ <= ADDRESS_CLAIM_MAX_ADDRESS THEN @ + 1 ELSE @]
  /\ unsent' = unsent \cup {n}

\* Mutant of Outcome: the last address is never used.
StaysBelowLast(n, m) ==
  /\ s_source_address' = [s_source_address EXCEPT ![n] =
       IF m.name < Name[n] /\ @ + 1 < ADDRESS_CLAIM_MAX_ADDRESS THEN @ + 1 ELSE @]
  /\ unsent' = unsent \cup {n}

\* Node n hears the claim m of its own address.  At the last address there is
\* nowhere to go: it stays and claims again.
Outcome(n, m) ==
  /\ s_source_address' = [s_source_address EXCEPT ![n] =
       IF m.name < Name[n] /\ @ < ADDRESS_CLAIM_MAX_ADDRESS THEN @ + 1 ELSE @]
  /\ unsent' = unsent \cup {n}

Conflict(n, m) == m.claim /\ m.src = s_source_address[n] /\ m.name # Name[n]

\* Mutant of Asked: a request to all nodes is not for this one.
AskedByAddress(n, m) == ~m.claim /\ m.dst = s_source_address[n]

Asked(n, m) == ~m.claim /\ m.dst \in {s_source_address[n], Global}

\* What a handler sends is sent before the next message is handled.
Handle(n) ==
  /\ n \in up \ unsent
  /\ inbox[n] # <<>>
  /\ inbox' = [inbox EXCEPT ![n] = Tail(@)]
  /\ UNCHANGED <<up, first, bounds, suspect>>

HandleAddressClaim(n) ==
  /\ Handle(n)
  /\ Conflict(n, Head(inbox[n]))
  /\ Outcome(n, Head(inbox[n]))

HandleIsoRequest(n) ==
  /\ Handle(n)
  /\ Asked(n, Head(inbox[n]))
  /\ unsent' = unsent \cup {n}
  /\ UNCHANGED s_source_address

Ignore(n) ==
  /\ Handle(n)
  /\ ~Conflict(n, Head(inbox[n]))
  /\ ~Asked(n, Head(inbox[n]))
  /\ UNCHANGED <<s_source_address, unsent>>

Handler(n) == Reclaim(n) \/ HandleAddressClaim(n) \/ HandleIsoRequest(n) \/ Ignore(n)

Next ==
  \/ \E n \in Nodes : Boot(n) \/ PowerLoss(n) \/ FirstClaim(n) \/ Handler(n) \/ LoseMessage(n)
  \/ \E a \in Destinations : IsoRequest(a)

Spec == Init /\ [][Next]_vars

\* Both tasks of a node that is on run; nothing they do waits for another node.
Fairness == \A n \in Nodes : WF_vars(FirstClaim(n)) /\ WF_vars(Handler(n))

FairSpec == Spec /\ Fairness
-----------------------------------------------------------------------------
Messages ==
  [claim : {TRUE}, src : Addresses, name : Nat]
    \cup [claim : {FALSE}, dst : Destinations]

TypeOK ==
  /\ s_source_address \in [Nodes -> Addresses]
  /\ up \subseteq Nodes
  /\ first \subseteq up
  /\ unsent \subseteq up
  /\ inbox \in [Nodes -> Seq(Messages)]
  /\ \A n \in Nodes \ up : inbox[n] = <<>>
  /\ {boots, losses, requests} \subseteq Nat
  /\ suspect \subseteq Addresses

Settled == first = {} /\ unsent = {} /\ \A n \in up : inbox[n] = <<>>

Shared(a) == \E m, n \in up : m # n /\ s_source_address[m] = a /\ s_source_address[n] = a

\* When all messages have been heard, no two nodes use one address, in whatever
\* order they were switched on, moved and heard each other; and a conflict that a
\* lost claim has hidden is resolved by the next request to all nodes, or to the
\* address itself.
SettledDistinct == Settled => \A a \in Addresses : Shared(a) => a \in suspect

\* The node with the lowest NAME never loses its preferred address, whatever
\* claims are lost.
LowestKeepsAddress ==
  \A n \in Nodes : (\A m \in Nodes : Name[n] <= Name[m]) => s_source_address[n] = Preferred[n]

AtLast == {n \in up : s_source_address[n] = ADDRESS_CLAIM_MAX_ADDRESS}

\* The nodes come to an end with their claims and answers, and to distinct
\* addresses where nothing was lost since they were asked for, unless two of them
\* meet at the last address: there each claim provokes the other.
AddressesSettle ==
  <>[](\/ Settled /\ \A a \in Addresses : Shared(a) => a \in suspect
       \/ \E m, n \in AtLast : m # n)
=============================================================================
