------------------------- MODULE RelayControl_proofs -------------------------
(***************************************************************************)
(* First the numbering of the channels: its two directions are inverse to  *)
(* each other, and every status message determines the relays it is about, *)
(* so that a display that reads any of them knows the state of every relay.*)
(*                                                                         *)
(* Then the relay controller, for any set of commands and circuits and     *)
(* with any failures of the expander and of the bus: its mutex makes relay *)
(* operations atomic, the mask in memory is what the relays do, a bank     *)
(* command keeps the relays it does not name, the relays of a circuit stay *)
(* in step, and every command comes to an end.                             *)
(***************************************************************************)
EXTENDS RelayControl, TLAPS

\* The address of a relay's channel leads back to the relay
\* (docs/status-flow.md: "zcf_config_channel_for_relay() does the inverse").
THEOREM RelayChannelRelay ==
  \A r \in Relays : RelayForChannel(Dipswitch * 256 + ChannelForRelay(r)) = r
<1> SUFFICES ASSUME NEW r \in Relays
             PROVE RelayForChannel(Dipswitch * 256 + ChannelForRelay(r)) = r
  OBVIOUS
<1> DEFINE ch == ChannelForRelay(r)
           address == Dipswitch * 256 + ch
<1>1. r \in 1 .. 8 /\ Dipswitch \in 0 .. 255
  BY ChannelMapAssumption DEF Relays, BOARD_RELAY_COUNT
<1>2. ch \in 0 .. 15
  BY <1>1 DEF ChannelForRelay
<1>3. address % 256 = ch /\ address \div 256 = Dipswitch
  <2> HIDE DEF ch
  <2> QED BY <1>1, <1>2
<1>4. CASE Control1
  BY <1>1, <1>3, <1>4 DEF RelayForChannel, ChannelForRelay
<1>5. CASE ~Control1
  BY <1>1, <1>3, <1>5 DEF RelayForChannel, ChannelForRelay, BOARD_RELAY_COUNT
<1> QED BY <1>4, <1>5

Addresses == 0 .. 65535

\* A channel address that belongs to a relay of this module is the address of
\* that relay's channel; any other is refused.
THEOREM ChannelRelayChannel ==
  \A address \in Addresses :
    RelayForChannel(address) # 0 =>
      /\ RelayForChannel(address) \in Relays
      /\ Dipswitch * 256 + ChannelForRelay(RelayForChannel(address)) = address
<1> SUFFICES ASSUME NEW address \in Addresses, RelayForChannel(address) # 0
             PROVE /\ RelayForChannel(address) \in Relays
                   /\ Dipswitch * 256 + ChannelForRelay(RelayForChannel(address)) = address
  OBVIOUS
<1> DEFINE ch == address % 256
<1>1. ch \in 0 .. 255 /\ address = (address \div 256) * 256 + ch
  BY SMT DEF Addresses
<1>2. address \div 256 = Dipswitch
  BY DEF RelayForChannel
<1>3. address = Dipswitch * 256 + ch
  BY <1>1, <1>2 DEF Addresses
<1>4. /\ Control1 => \/ ch \in 12 .. 15 /\ RelayForChannel(address) = ch - 11
                     \/ ch < 4 /\ RelayForChannel(address) = ch + 5
      /\ ~Control1 => ch < 8 /\ RelayForChannel(address) = ch + 1
  BY <1>1, <1>2 DEF RelayForChannel, BOARD_RELAY_COUNT
<1> HIDE DEF ch
<1>5. RelayForChannel(address) \in 1 .. 8 /\ ChannelForRelay(RelayForChannel(address)) = ch
  <2>1. CASE Control1 /\ ch \in 12 .. 15
    BY <1>1, <1>4, <2>1 DEF ChannelForRelay
  <2>2. CASE Control1 /\ ch < 4
    BY <1>1, <1>4, <2>2 DEF ChannelForRelay
  <2>3. CASE ~Control1
    BY <1>1, <1>4, <2>3 DEF ChannelForRelay
  <2> QED BY <1>4, <2>1, <2>2, <2>3
<1>6. RelayForChannel(address) \in Relays
  BY <1>5 DEF Relays, BOARD_RELAY_COUNT
<1>7. Dipswitch * 256 + ChannelForRelay(RelayForChannel(address)) = address
  BY <1>3, <1>5
<1> QED BY <1>6, <1>7

LEMMA ChannelsDiffer ==
  ASSUME NEW r \in Relays, NEW q \in Relays, ChannelForRelay(r) = ChannelForRelay(q)
  PROVE  r = q
BY DEF ChannelForRelay, Relays, BOARD_RELAY_COUNT

LEMMA ChannelsFit ==
  ASSUME NEW r \in Relays
  PROVE  ChannelForRelay(r) \in Switches /\ ChannelForRelay(r) < 32
BY DEF ChannelForRelay, Relays, BOARD_RELAY_COUNT, Switches, SWITCHES_PER_BANK

\* Bit "channel of r" of PGN 65284 is the state of relay r.
THEOREM BitsShowRelays ==
  \A m \in SUBSET Relays : \A r \in Relays :
    ChannelForRelay(r) \in ChannelBits(m) <=> r \in m
<1> SUFFICES ASSUME NEW m \in SUBSET Relays, NEW r \in Relays
             PROVE ChannelForRelay(r) \in ChannelBits(m) <=> r \in m
  OBVIOUS
<1>1. ASSUME r \in m PROVE ChannelForRelay(r) \in ChannelBits(m)
  BY <1>1, ChannelsFit DEF ChannelBits
<1>2. ASSUME ChannelForRelay(r) \in ChannelBits(m) PROVE r \in m
  <2>1. PICK q \in m : ChannelForRelay(r) = ChannelForRelay(q)
    BY <1>2 DEF ChannelBits
  <2> QED BY <2>1, ChannelsDiffer
<1> QED BY <1>1, <1>2

\* PGN 127501 shows relay r at its output channel, and nothing at any other
\* switch (docs/status-flow.md: "keyed by outputChannel; channels we don't
\* drive = unavailable").
THEOREM BankShowsRelays ==
  \A m \in SUBSET Relays :
    /\ \A r \in Relays :
         SwitchBankStatus(m)[ChannelForRelay(r)] = (IF r \in m THEN "on" ELSE "off")
    /\ \A sw \in Switches :
         (\A r \in Relays : ChannelForRelay(r) # sw) => SwitchBankStatus(m)[sw] = "unavailable"
<1> SUFFICES ASSUME NEW m \in SUBSET Relays
             PROVE /\ \A r \in Relays :
                        SwitchBankStatus(m)[ChannelForRelay(r)] = (IF r \in m THEN "on" ELSE "off")
                   /\ \A sw \in Switches :
                        (\A r \in Relays : ChannelForRelay(r) # sw)
                          => SwitchBankStatus(m)[sw] = "unavailable"
  OBVIOUS
<1>1. \A r \in Relays : ChannelForRelay(r) \in Switches /\ ChannelForRelay(r) < SWITCHES_PER_BANK
  BY ChannelsFit DEF Switches, SWITCHES_PER_BANK
<1>2. ASSUME NEW r \in Relays
      PROVE SwitchBankStatus(m)[ChannelForRelay(r)] = (IF r \in m THEN "on" ELSE "off")
  <2>1. \A q \in Relays : ChannelForRelay(q) = ChannelForRelay(r) => q = r
    BY ChannelsDiffer
  <2> QED BY <1>1, <2>1 DEF SwitchBankStatus
<1>3. ASSUME NEW sw \in Switches, \A r \in Relays : ChannelForRelay(r) # sw
      PROVE SwitchBankStatus(m)[sw] = "unavailable"
  BY <1>3 DEF SwitchBankStatus
<1> QED BY <1>2, <1>3
-----------------------------------------------------------------------------
(* The relay controller *)

Busy(t) == pc[t] \in {"write", "store"}

\* Whoever is at work on the relays holds the mutex.
LockHeld == \A t \in Tasks : Busy(t) <=> s_lock = t

\* A task that has an operation to make knows which one.
WorkToDo == /\ \A t \in Tasks : pc[t] \in {"lock", "write", "store"} => Len(todo[t]) > 0
            /\ pc["rx"] = "bank" => cmd # None
            /\ page["proto"] \in 1 .. 3

\* What the holder has computed is still what it should be, and how far the
\* expander has come.
InHand == \A t \in Tasks :
  /\ Busy(t) => next[t] = Effect(Head(todo[t]), s_relay_mask)
  /\ pc[t] = "write" /\ ~unsure => outputs = s_relay_mask
  /\ pc[t] = "store" => outputs = next[t]

Inv == TypeOK /\ LockHeld /\ WorkToDo /\ InHand /\ OutputsMatch

LEMMA NoneIsNoTask == None \notin Tasks
BY RelayAssumption

LEMMA EffectTyped ==
  ASSUME NEW op \in Operation, NEW m \in SUBSET Relays
  PROVE  Effect(op, m) \in SUBSET Relays
BY DEF Effect, Operation

LEMMA SeqParts ==
  ASSUME NEW S, NEW s \in Seq(S), Len(s) > 0
  PROVE  /\ Head(s) \in S
         /\ Tail(s) \in Seq(S)
         /\ Len(s) \in Nat
         /\ Len(Tail(s)) = Len(s) - 1
OBVIOUS

LEMMA SingleTyped ==
  ASSUME NEW S, NEW e \in S
  PROVE  <<e>> \in Seq(S) /\ Len(<<e>>) = 1
OBVIOUS

\* The toggles of a press, one for each relay of the circuit.
LEMMA TogglesTyped ==
  ASSUME NEW s \in Circuits
  PROVE  /\ [i \in 1 .. Len(s) |-> Toggle(s[i])] \in Seq(Operation)
         /\ Len([i \in 1 .. Len(s) |-> Toggle(s[i])]) > 0
<1>1. s \in Seq(Relays) /\ s # <<>>
  BY RelayAssumption
<1>2. Len(s) \in Nat /\ Len(s) > 0 /\ \A i \in 1 .. Len(s) : s[i] \in Relays
  BY <1>1
<1>3. \A i \in 1 .. Len(s) : Toggle(s[i]) \in Operation
  BY <1>2 DEF Toggle, Operation
<1> QED BY <1>2, <1>3

LEMMA InitCorrect == Init => Inv
<1> SUFFICES ASSUME Init PROVE Inv
  OBVIOUS
<1>1. TypeOK
  <2>1. page \in [Tasks -> 1 .. Len(Pages)]
    BY DEF Init, Pages
  <2>2. todo \in [Tasks -> Seq(Operation)]
    BY DEF Init
  <2>3. /\ pc \in [Tasks -> {"idle", "bank", "lock", "write", "store", "look", "publish"}]
        /\ left \in Nat
        /\ DOMAIN shown = StatusPages
    BY RelayAssumption DEF Init
  <2> QED BY <2>1, <2>2, <2>3 DEF Init, TypeOK
<1>2. LockHeld
  BY NoneIsNoTask DEF Init, LockHeld, Busy
<1>3. WorkToDo
  BY DEF Init, WorkToDo, Tasks
<1>4. InHand /\ OutputsMatch
  BY DEF Init, InHand, OutputsMatch, Busy
<1> QED BY <1>1, <1>2, <1>3, <1>4 DEF Inv

\* A command fills in what the task has to do, and touches no relay.
LEMMA CommandsCorrect ==
  ASSUME Inv, \/ \E c \in BankCommands : SwitchBankControl(c)
              \/ \E s \in Circuits : PressSwitch(s)
              \/ \E op \in TermOps : TerminalCommand(op)
              \/ ApplyBank
  PROVE  Inv'
<1> USE DEF Inv, Goto, Forget, relays
<1>1. ASSUME NEW c \in BankCommands, SwitchBankControl(c) PROVE Inv'
  <2> USE <1>1 DEF SwitchBankControl, Command
  <2>1. TypeOK' BY DEF TypeOK, Tasks
  <2>2. WorkToDo' BY RelayAssumption DEF WorkToDo, TypeOK
  <2>3. LockHeld' BY DEF LockHeld, Busy, TypeOK
  <2>4. InHand' /\ OutputsMatch' BY DEF InHand, OutputsMatch, Busy, TypeOK
  <2> QED BY <2>1, <2>2, <2>3, <2>4
<1>2. ASSUME NEW s \in Circuits, PressSwitch(s) PROVE Inv'
  <2> USE <1>2 DEF PressSwitch, Command
  <2>1. TypeOK' BY TogglesTyped DEF TypeOK, Tasks
  <2>2. WorkToDo' BY TogglesTyped DEF WorkToDo, TypeOK
  <2>3. LockHeld' BY DEF LockHeld, Busy, TypeOK
  <2>4. InHand' /\ OutputsMatch' BY DEF InHand, OutputsMatch, Busy, TypeOK
  <2> QED BY <2>1, <2>2, <2>3, <2>4
<1>3. ASSUME NEW op \in TermOps, TerminalCommand(op) PROVE Inv'
  <2> USE <1>3 DEF TerminalCommand, Command
  <2>0. <<op>> \in Seq(Operation) /\ Len(<<op>>) = 1
    BY RelayAssumption, SingleTyped
  <2>1. TypeOK' BY <2>0 DEF TypeOK, Tasks
  <2>2. WorkToDo' BY <2>0 DEF WorkToDo, TypeOK
  <2>3. LockHeld' BY DEF LockHeld, Busy, TypeOK
  <2>4. InHand' /\ OutputsMatch' BY DEF InHand, OutputsMatch, Busy, TypeOK
  <2> QED BY <2>1, <2>2, <2>3, <2>4
<1>4. ASSUME ApplyBank PROVE Inv'
  <2> DEFINE m == Switched(cmd, s_relay_mask)
  <2> USE <1>4 DEF ApplyBank
  <2>0. m \in SUBSET Relays /\ <<Mask(m)>> \in Seq(Operation) /\ Len(<<Mask(m)>>) = 1
    <3>1. m \in SUBSET Relays BY DEF Switched
    <3>2. Mask(m) \in Operation BY <3>1 DEF Mask, Operation
    <3> QED BY <3>1, <3>2, SingleTyped
  <2>1. TypeOK' BY <2>0 DEF TypeOK, Tasks
  <2>2. WorkToDo' BY <2>0 DEF WorkToDo, TypeOK
  <2>3. LockHeld' BY DEF LockHeld, Busy, TypeOK
  <2>4. InHand' /\ OutputsMatch' BY DEF InHand, OutputsMatch, Busy, TypeOK
  <2> QED BY <2>1, <2>2, <2>3, <2>4
<1> QED BY <1>1, <1>2, <1>3, <1>4

LEMMA TakeLockCorrect ==
  ASSUME Inv, NEW t \in Tasks, TakeLock(t) PROVE Inv'
<1> USE DEF Inv, TakeLock, Goto
<1>1. todo[t] \in Seq(Operation) /\ Len(todo[t]) > 0 /\ Head(todo[t]) \in Operation
  BY SeqParts DEF TypeOK, WorkToDo
<1>2. Effect(Head(todo[t]), s_relay_mask) \in SUBSET Relays
  BY <1>1, EffectTyped DEF TypeOK
<1>3. TypeOK' BY <1>2 DEF TypeOK
<1>4. LockHeld' BY NoneIsNoTask DEF LockHeld, Busy, TypeOK
<1>5. WorkToDo' BY <1>1 DEF WorkToDo, TypeOK
<1>6. InHand' BY NoneIsNoTask DEF InHand, OutputsMatch, LockHeld, Busy, TypeOK
<1>7. OutputsMatch' BY NoneIsNoTask DEF OutputsMatch
<1> QED BY <1>3, <1>4, <1>5, <1>6, <1>7

LEMMA WriteOutputsCorrect ==
  ASSUME Inv, NEW t \in Tasks, WriteOutputs(t) PROVE Inv'
<1> USE DEF Inv, WriteOutputs, Goto
<1>1. s_lock = t BY DEF LockHeld, Busy
<1>2. TypeOK' BY DEF TypeOK
<1>3. LockHeld' BY DEF LockHeld, Busy, TypeOK
<1>4. WorkToDo' BY DEF WorkToDo, TypeOK
<1>5. InHand' BY <1>1 DEF InHand, LockHeld, Busy, TypeOK
<1>6. OutputsMatch' BY <1>1, NoneIsNoTask DEF OutputsMatch
<1> QED BY <1>2, <1>3, <1>4, <1>5, <1>6

LEMMA WriteFailsCorrect ==
  ASSUME Inv, NEW t \in Tasks, WriteFails(t) PROVE Inv'
<1> USE DEF Inv, WriteFails, Goto, Forget
<1>1. s_lock = t BY DEF LockHeld, Busy
<1>2. TypeOK'
  <2>1. todo' \in [Tasks -> Seq(Operation)]
    <3>1. <<>> \in Seq(Operation) OBVIOUS
    <3> QED BY <3>1 DEF TypeOK
  <2>2. next' \in [Tasks -> SUBSET Relays] /\ mask' \in [Tasks -> SUBSET Relays]
    BY DEF TypeOK
  <2>3. outputs' \in SUBSET Relays /\ seen' \subseteq {"typed", "failed"}
    BY DEF TypeOK
  <2>4. pc' \in [Tasks -> {"idle", "bank", "lock", "write", "store", "look", "publish"}]
    BY DEF TypeOK
  <2> QED BY <2>1, <2>2, <2>3, <2>4 DEF TypeOK
<1>3. LockHeld' BY <1>1, NoneIsNoTask DEF LockHeld, Busy, TypeOK
<1>4. WorkToDo' BY DEF WorkToDo, TypeOK
<1>5. InHand' BY <1>1 DEF InHand, LockHeld, Busy, TypeOK
<1>6. OutputsMatch' BY DEF OutputsMatch
<1> QED BY <1>2, <1>3, <1>4, <1>5, <1>6

LEMMA StoreMaskCorrect ==
  ASSUME Inv, NEW t \in Tasks, StoreMask(t) PROVE Inv'
<1> USE DEF Inv, StoreMask, Goto
<1>1. s_lock = t /\ outputs = next[t] BY DEF LockHeld, Busy, InHand
<1>2. /\ todo[t] \in Seq(Operation) /\ Len(todo[t]) \in Nat
      /\ Tail(todo[t]) \in Seq(Operation)
      /\ Len(Tail(todo[t])) = Len(todo[t]) - 1
  BY SeqParts DEF TypeOK, WorkToDo
<1>3. TypeOK' BY <1>2 DEF TypeOK
<1>4. LockHeld' BY <1>1, NoneIsNoTask DEF LockHeld, Busy, TypeOK
<1>5. WorkToDo' BY <1>2 DEF WorkToDo, TypeOK
<1>6. InHand' BY <1>1 DEF InHand, LockHeld, Busy, TypeOK
<1>7. OutputsMatch' BY <1>1 DEF OutputsMatch
<1> QED BY <1>3, <1>4, <1>5, <1>6, <1>7

\* Publishing touches nothing but the locals of the task and the bus.
LEMMA PublishingCorrect ==
  ASSUME Inv, \/ \E t \in Tasks : Look(t) \/ \E sent \in BOOLEAN : PublishNext(t, sent)
              \/ StartPeriod
              \/ \E p \in StatusPages, sent \in BOOLEAN : SendPeriodic(p, sent)
  PROVE  Inv'
<1> USE DEF Inv, Goto, Forget, relays
<1>1. ASSUME NEW t \in Tasks, Look(t) PROVE Inv'
  <2> USE <1>1 DEF Look
  <2>1. TypeOK' BY DEF TypeOK
  <2>2. WorkToDo' BY DEF WorkToDo, TypeOK
  <2>3. LockHeld' BY DEF LockHeld, Busy, TypeOK
  <2>4. InHand' /\ OutputsMatch' BY DEF InHand, OutputsMatch, Busy, TypeOK
  <2> QED BY <2>1, <2>2, <2>3, <2>4
<1>2. ASSUME NEW t \in Tasks, NEW sent \in BOOLEAN, PublishNext(t, sent) PROVE Inv'
  <2> USE <1>2 DEF PublishNext
  <2>1. TypeOK'
    <3>1. mask' \in [Tasks -> SUBSET Relays]
      BY DEF TypeOK
    <3>2. cmd' = None \/ cmd' \in BankCommands
      BY DEF TypeOK
    <3>3. page' \in [Tasks -> 1 .. Len(Pages)]
      BY DEF TypeOK, Pages
    <3>4. DOMAIN shown' = StatusPages
      BY DEF TypeOK
    <3>5. pc' \in [Tasks -> {"idle", "bank", "lock", "write", "store", "look", "publish"}]
      BY DEF TypeOK
    <3> QED BY <3>1, <3>2, <3>3, <3>4, <3>5 DEF TypeOK
  <2>2. WorkToDo' BY DEF WorkToDo, TypeOK
  <2>3. LockHeld' BY DEF LockHeld, Busy, TypeOK
  <2>4. InHand' /\ OutputsMatch' BY DEF InHand, OutputsMatch, Busy, TypeOK
  <2> QED BY <2>1, <2>2, <2>3, <2>4
<1>3. ASSUME StartPeriod PROVE Inv'
  <2> USE <1>3 DEF StartPeriod
  <2>1. TypeOK' BY DEF TypeOK
  <2>2. WorkToDo' BY DEF WorkToDo, TypeOK
  <2>3. LockHeld' BY DEF LockHeld, Busy, TypeOK
  <2>4. InHand' /\ OutputsMatch' BY DEF InHand, OutputsMatch, Busy, TypeOK
  <2> QED BY <2>1, <2>2, <2>3, <2>4
<1>4. ASSUME NEW p \in StatusPages, NEW sent \in BOOLEAN, SendPeriodic(p, sent) PROVE Inv'
  <2> USE <1>4 DEF SendPeriodic
  <2>0. /\ page["proto"] \in 1 .. 3
        /\ Len(ProtoPages) = 3 /\ Len(Pages) = 4
    BY DEF WorkToDo, ProtoPages, Pages
  <2>1. TypeOK' BY <2>0 DEF TypeOK, Tasks
  <2>2. WorkToDo' BY <2>0 DEF WorkToDo, TypeOK, Tasks
  <2>3. LockHeld' BY DEF LockHeld, Busy, TypeOK
  <2>4. InHand' /\ OutputsMatch' BY DEF InHand, OutputsMatch, Busy, TypeOK
  <2> QED BY <2>1, <2>2, <2>3, <2>4
<1> QED BY <1>1, <1>2, <1>3, <1>4

LEMMA NextCorrect == Inv /\ [Next]_vars => Inv'
<1> SUFFICES ASSUME Inv, [Next]_vars PROVE Inv'
  OBVIOUS
<1>1. CASE Next
  <2>1. Outcomes \subseteq BOOLEAN BY DEF Outcomes
  <2>2. ASSUME NEW t \in Tasks, Step(t) PROVE Inv'
    BY <2>1, <2>2, TakeLockCorrect, WriteOutputsCorrect, WriteFailsCorrect, StoreMaskCorrect,
       PublishingCorrect DEF Step
  <2>3. ASSUME Periodic PROVE Inv'
    BY <2>1, <2>3, PublishingCorrect DEF Periodic
  <2> QED BY <1>1, <2>2, <2>3, CommandsCorrect DEF Next
<1>2. CASE UNCHANGED vars
  BY <1>2 DEF vars, relays, Inv, TypeOK, LockHeld, WorkToDo, InHand, OutputsMatch, Busy
<1> QED BY <1>1, <1>2

\* The types of the state: the masks are relays the board has, and no task sends a
\* page that is not there.
THEOREM TypeCorrect == Spec => []TypeOK
<1>1. Inv => TypeOK
  BY DEF Inv
<1> QED BY <1>1, InitCorrect, NextCorrect, PTL DEF Spec

\* The mask in memory is what the relays do, but while an operation is under
\* way or after a write to the expander that failed.
THEOREM RelaysMatch == Spec => []OutputsMatch
<1>1. Inv => OutputsMatch
  BY DEF Inv
<1> QED BY <1>1, InitCorrect, NextCorrect, PTL DEF Spec

\* No relay operation is lost: each takes effect on what the one before left.
THEOREM OperationsAtomic == Spec => OperationsAreAtomic
<1>1. ASSUME Inv, NEW t \in Tasks, StoreMask(t)
      PROVE  s_relay_mask' = Effect(Head(todo[t]), s_relay_mask)
  BY <1>1 DEF Inv, InHand, Busy, StoreMask
<1>2. Inv => \A t \in Tasks : StoreMask(t) => s_relay_mask' = Effect(Head(todo[t]), s_relay_mask)
  BY <1>1
<1> QED BY <1>2, InitCorrect, NextCorrect, PTL DEF Spec, OperationsAreAtomic

-----------------------------------------------------------------------------
(* Until the terminal is used, the rx task is the only one that switches. *)

Working == pc["rx"] \in {"lock", "write", "store"}

\* What a bank command has computed from the mask is still what it should be.
Alone ==
  /\ pc["proto"] \in {"idle", "look", "publish"}
  /\ "typed" \notin seen =>
       /\ pc["term"] = "idle"
       /\ Working /\ cmd # None => todo["rx"] = <<Mask(Switched(cmd, s_relay_mask))>>

LEMMA MaskSets ==
  ASSUME NEW m \in SUBSET Relays, NEW n \in SUBSET Relays
  PROVE  Effect(Mask(n), m) = n
BY DEF Effect, Mask

\* A step that starts nothing.
LEMMA AloneKept ==
  ASSUME Alone, UNCHANGED <<s_relay_mask, cmd, todo>>, seen \subseteq seen',
         \A t \in Tasks : pc'[t] = pc[t] \/ (t # "term" /\ pc'[t] \in {"look", "publish"})
  PROVE  Alone'
BY DEF Alone, Working, Tasks

LEMMA AloneCommands ==
  ASSUME Inv, Alone, \/ \E c \in BankCommands : SwitchBankControl(c)
                     \/ \E s \in Circuits : PressSwitch(s)
                     \/ \E op \in TermOps : TerminalCommand(op)
                     \/ ApplyBank
  PROVE  Alone'
<1> DEFINE L == {"idle", "bank", "lock", "write", "store", "look", "publish"}
<1>0. pc \in [Tasks -> L] /\ todo \in [Tasks -> Seq(Operation)] /\ {"rx", "term", "proto"} = Tasks
  BY DEF Inv, TypeOK, Tasks
<1>1. ASSUME NEW c \in BankCommands, SwitchBankControl(c) PROVE Alone'
  BY <1>0, <1>1 DEF SwitchBankControl, Command, Goto, Alone, Working
<1>2. ASSUME NEW s \in Circuits, PressSwitch(s) PROVE Alone'
  <2>1. /\ cmd' = None /\ pc' = [pc EXCEPT !["rx"] = "lock"] /\ seen' = seen
    BY <1>2 DEF PressSwitch, Command, Goto
  <2> QED
    BY <1>0, <2>1 DEF Alone, Working
<1>3. ASSUME NEW op \in TermOps, TerminalCommand(op) PROVE Alone'
  <2>1. "typed" \in seen' /\ pc' = [pc EXCEPT !["term"] = "lock"]
    BY <1>3 DEF TerminalCommand, Command, Goto
  <2> QED
    BY <1>0, <2>1 DEF Alone
<1>4. ASSUME ApplyBank PROVE Alone'
  <2>1. /\ pc' = [pc EXCEPT !["rx"] = "lock"]
        /\ todo' = [todo EXCEPT !["rx"] = <<Mask(Switched(cmd, s_relay_mask))>>]
        /\ UNCHANGED <<s_relay_mask, seen, cmd>>
    BY <1>4 DEF ApplyBank, Goto, relays
  <2>2. todo'["rx"] = <<Mask(Switched(cmd', s_relay_mask'))>>
    BY <1>0, <2>1 DEF Switched
  <2> QED
    BY <1>0, <2>1, <2>2 DEF Alone
<1> QED
  BY <1>1, <1>2, <1>3, <1>4

LEMMA AloneOperations ==
  ASSUME Inv, Alone, NEW t \in Tasks,
         TakeLock(t) \/ WriteOutputs(t) \/ WriteFails(t) \/ StoreMask(t)
  PROVE  Alone'
<1> DEFINE L == {"idle", "bank", "lock", "write", "store", "look", "publish"}
<1>0. pc \in [Tasks -> L] /\ todo \in [Tasks -> Seq(Operation)] /\ {"rx", "term", "proto"} = Tasks
  BY DEF Inv, TypeOK, Tasks
<1>1. pc[t] \in {"lock", "write", "store"}
  BY DEF TakeLock, WriteOutputs, WriteFails, StoreMask
<1>2. t # "proto"
  BY <1>1 DEF Alone
<1>3. CASE t = "term"
  <2>1. "typed" \in seen
    BY <1>1, <1>3 DEF Alone
  <2>2. "typed" \in seen' /\ pc'["proto"] = pc["proto"]
    BY <1>0, <1>2, <2>1 DEF TakeLock, WriteOutputs, WriteFails, StoreMask, Goto
  <2> QED
    BY <2>2 DEF Alone
<1>4. CASE t = "rx"
  <2>1. pc'["term"] = pc["term"] /\ pc'["proto"] = pc["proto"] /\ seen \subseteq seen'
    BY <1>0, <1>4 DEF TakeLock, WriteOutputs, WriteFails, StoreMask, Goto
  <2>2. CASE TakeLock(t) \/ WriteOutputs(t)
    <3>1. UNCHANGED <<s_relay_mask, cmd, todo>>
      BY <2>2 DEF TakeLock, WriteOutputs
    <3> QED
      BY <1>1, <1>4, <2>1, <3>1 DEF Alone, Working
  <2>3. CASE WriteFails(t)
    <3>1. pc'["rx"] = "idle"
      BY <1>0, <1>4, <2>3 DEF WriteFails, Goto
    <3> QED
      BY <2>1, <3>1 DEF Alone, Working
  <2>4. CASE StoreMask(t)
    <3>1. /\ pc'["rx"] = (IF Len(todo["rx"]) > 1 THEN "lock"
                          ELSE IF cmd # None THEN "publish" ELSE "look")
          /\ cmd' = cmd
      BY <1>0, <1>4, <2>4 DEF StoreMask, Goto
    <3>2. ASSUME "typed" \notin seen', cmd # None PROVE ~(Len(todo["rx"]) > 1)
      <4>1. todo["rx"] = <<Mask(Switched(cmd, s_relay_mask))>>
        BY <1>1, <1>4, <2>1, <3>2 DEF Alone, Working
      <4>2. Len(<<Mask(Switched(cmd, s_relay_mask))>>) = 1
        OBVIOUS
      <4> QED
        BY <4>1, <4>2
    <3>3. "typed" \notin seen' /\ cmd' # None => pc'["rx"] = "publish"
      BY <3>1, <3>2
    <3>4. "typed" \notin seen' => pc'["term"] = "idle"
      BY <2>1 DEF Alone
    <3> QED
      BY <2>1, <3>3, <3>4 DEF Alone, Working
  <2> QED
    BY <2>2, <2>3, <2>4
<1> QED
  BY <1>0, <1>2, <1>3, <1>4

LEMMA AlonePublishing ==
  ASSUME Inv, Alone, \/ \E t \in Tasks : Look(t) \/ \E sent \in BOOLEAN : PublishNext(t, sent)
                     \/ StartPeriod
                     \/ \E p \in StatusPages, sent \in BOOLEAN : SendPeriodic(p, sent)
  PROVE  Alone'
<1> DEFINE L == {"idle", "bank", "lock", "write", "store", "look", "publish"}
<1>0. pc \in [Tasks -> L] /\ {"rx", "term", "proto"} = Tasks
  BY DEF Inv, TypeOK, Tasks
<1>1. ASSUME NEW t \in Tasks, Look(t) PROVE Alone'
  <2>1. /\ pc[t] = "look" /\ pc' = [pc EXCEPT ![t] = "publish"]
        /\ UNCHANGED <<s_relay_mask, seen, cmd, todo>>
    BY <1>1 DEF Look, Goto, relays
  <2> QED
    BY <1>0, <2>1 DEF Alone, Working
<1>2. ASSUME NEW t \in Tasks, NEW sent \in BOOLEAN, PublishNext(t, sent) PROVE Alone'
  <2>1. /\ pc[t] = "publish" /\ t # "proto"
        /\ \E l \in {"idle", "publish"} : pc' = [pc EXCEPT ![t] = l]
        /\ cmd' = cmd \/ (t = "rx" /\ cmd' = None)
        /\ UNCHANGED <<s_relay_mask, seen, todo>>
    BY <1>2 DEF PublishNext, Goto, Forget, relays
  <2> QED
    BY <1>0, <2>1 DEF Alone, Working
<1>3. ASSUME StartPeriod PROVE Alone'
  <2>1. /\ pc' = [pc EXCEPT !["proto"] = "look"]
        /\ UNCHANGED <<s_relay_mask, seen, cmd, todo>>
    BY <1>3 DEF StartPeriod, Goto, relays
  <2> QED
    BY <1>0, <2>1 DEF Alone, Working
<1>4. ASSUME NEW p \in StatusPages, NEW sent \in BOOLEAN, SendPeriodic(p, sent) PROVE Alone'
  <2>1. /\ \E l \in {"idle", "look"} : pc' = [pc EXCEPT !["proto"] = l]
        /\ UNCHANGED <<s_relay_mask, seen, cmd, todo>>
    BY <1>4 DEF SendPeriodic, Goto, Forget, relays
  <2> QED
    BY <1>0, <2>1 DEF Alone, Working
<1> QED
  BY <1>1, <1>2, <1>3, <1>4

LEMMA AloneInit == Init => Alone
BY DEF Init, Alone, Working, Tasks

LEMMA AloneNext == Inv /\ Alone /\ [Next]_vars => Alone'
<1> SUFFICES ASSUME Inv, Alone, [Next]_vars PROVE Alone'
  OBVIOUS
<1>1. Outcomes \subseteq BOOLEAN
  BY DEF Outcomes
<1>2. ASSUME NEW t \in Tasks, Step(t) PROVE Alone'
  BY <1>1, <1>2, AloneOperations, AlonePublishing DEF Step
<1>3. ASSUME Periodic PROVE Alone'
  BY <1>1, <1>3, AlonePublishing DEF Periodic
<1>4. CASE UNCHANGED vars
  BY <1>4 DEF vars, relays, Alone, Working, Switched
<1> QED
  BY <1>2, <1>3, <1>4, AloneCommands DEF Next

\* While nobody types, a switch bank command leaves alone every relay it does not
\* name, although the mutex is free between its reading of the mask and its
\* writing.
THEOREM BankCorrect == Spec => BankKeepsOthers
<1>1. ASSUME Inv, Alone, StoreMask("rx"), cmd # None, "typed" \notin seen
      PROVE  \A r \in Relays : cmd[r] = "keep" => (r \in s_relay_mask' <=> r \in s_relay_mask)
  <2> DEFINE m == Switched(cmd, s_relay_mask)
  <2>1. pc["rx"] = "store" /\ s_relay_mask' = next["rx"]
    BY <1>1 DEF StoreMask
  <2>2. next["rx"] = Effect(Head(todo["rx"]), s_relay_mask)
    BY <1>1, <2>1 DEF Inv, InHand, Busy, Tasks
  <2>3. todo["rx"] = <<Mask(m)>>
    BY <1>1, <2>1 DEF Alone, Working
  <2>4. m \in SUBSET Relays /\ s_relay_mask \subseteq Relays
    BY <1>1 DEF Switched, Inv, TypeOK
  <2> HIDE DEF m
  <2>5. s_relay_mask' = m
    <3>1. Head(<<Mask(m)>>) = Mask(m)
      OBVIOUS
    <3> QED
      BY <2>1, <2>2, <2>3, <2>4, <3>1, MaskSets
  <2> QED
    BY <2>5 DEF m, Switched
<1>2. Inv /\ Alone =>
        (StoreMask("rx") /\ cmd # None /\ "typed" \notin seen =>
           \A r \in Relays : cmd[r] = "keep" => (r \in s_relay_mask' <=> r \in s_relay_mask))
  BY <1>1
<1> QED
  BY <1>2, InitCorrect, NextCorrect, AloneInit, AloneNext, PTL DEF Spec, BankKeepsOthers

-----------------------------------------------------------------------------
(* A press, half done. *)

\* The first n relays of circuit s are toggled, the others not yet.
Toggled(s, n, m) ==
  \A i, j \in 1 .. Len(s) : (s[i] \in m <=> s[j] \in m) <=> (i <= n <=> j <= n)

\* The toggles of circuit u that are still to be made are q; all other circuits
\* are in step.
Press(u, q, m) ==
  /\ Len(q) \in 1 .. Len(u)
  /\ \A i \in 1 .. Len(q) : q[i] = Toggle(u[(Len(u) - Len(q)) + i])
  /\ \A s \in Circuits : KeptApart(s) =>
       IF s = u THEN Toggled(s, Len(u) - Len(q), m) ELSE InStep(s, m)

AllInStep(m) == \A s \in Circuits : KeptApart(s) => InStep(s, m)

PressInHand ==
  seen = {} =>
    IF Working /\ cmd = None
    THEN \E u \in Circuits : Press(u, todo["rx"], s_relay_mask)
    ELSE AllInStep(s_relay_mask)

LEMMA CircuitTyped ==
  ASSUME NEW s \in Circuits
  PROVE  Len(s) \in Nat \ {0} /\ \A i \in 1 .. Len(s) : s[i] \in Relays
<1>1. s \in Seq(Relays) /\ s # <<>>
  BY RelayAssumption
<1> QED
  BY <1>1

LEMMA ToggleSets ==
  ASSUME NEW r \in Relays, NEW m \in SUBSET Relays
  PROVE  \A x : x \in Effect(Toggle(r), m) <=> (IF x = r THEN r \notin m ELSE x \in m)
BY DEF Effect, Toggle

\* Before the first toggle, and after the last one, a circuit is in step.
LEMMA PressBegins ==
  ASSUME NEW u \in Circuits, NEW m, AllInStep(m)
  PROVE  Press(u, [i \in 1 .. Len(u) |-> Toggle(u[i])], m)
<1> DEFINE q == [i \in 1 .. Len(u) |-> Toggle(u[i])]
<1>1. Len(u) \in Nat \ {0}
  BY CircuitTyped
<1>2. Len(q) = Len(u) /\ \A i \in 1 .. Len(u) : q[i] = Toggle(u[i])
  BY <1>1
<1> HIDE DEF q
<1>3. Len(u) - Len(q) = 0 /\ \A i \in 1 .. Len(q) : 0 + i = i
  BY <1>1, <1>2
<1>4. \A s \in Circuits : KeptApart(s) => InStep(s, m)
  BY DEF AllInStep
<1>5. \A i \in 1 .. Len(u) : ~(i <= 0)
  OBVIOUS
<1>6. KeptApart(u) => Toggled(u, 0, m)
  BY <1>4, <1>5 DEF Toggled, InStep
<1>7. \A i \in 1 .. Len(q) : q[i] = Toggle(u[(Len(u) - Len(q)) + i])
  BY <1>2, <1>3
<1>8. Press(u, q, m)
  BY <1>1, <1>2, <1>3, <1>4, <1>6, <1>7 DEF Press
<1> QED
  BY <1>8 DEF q

LEMMA PressGoesOn ==
  ASSUME NEW u \in Circuits, NEW q \in Seq(Operation), NEW m \in SUBSET Relays, Press(u, q, m)
  PROVE  LET m2 == Effect(Head(q), m)
         IN IF Len(q) > 1 THEN Press(u, Tail(q), m2) ELSE AllInStep(m2)
<1> DEFINE n == Len(u) - Len(q)
           r == u[n + 1]
           m2 == Effect(Head(q), m)
<1>1. /\ Len(u) \in Nat \ {0} /\ Len(q) \in 1 .. Len(u) /\ n \in Nat /\ n + 1 \in 1 .. Len(u)
      /\ Len(q) = Len(u) - n
  BY CircuitTyped DEF Press
<1>2. r \in Relays /\ Head(q) = Toggle(r)
  <2>1. Head(q) = q[1] /\ 1 \in 1 .. Len(q)
    BY <1>1
  <2>2. q[1] = Toggle(u[n + 1])
    BY <2>1 DEF Press
  <2> QED
    BY <1>1, <2>1, <2>2, CircuitTyped
<1>3. /\ \A i \in 1 .. Len(q) : q[i] = Toggle(u[n + i])
      /\ \A s \in Circuits : KeptApart(s) => IF s = u THEN Toggled(s, n, m) ELSE InStep(s, m)
  BY DEF Press
<1> HIDE DEF n, r
<1>4. \A x : x \in m2 <=> (IF x = r THEN r \notin m ELSE x \in m)
  BY <1>2, ToggleSets
<1> HIDE DEF m2
<1>5. ASSUME NEW s \in Circuits, KeptApart(s), s # u
      PROVE  InStep(s, m2)
  <2>1. \A i \in 1 .. Len(s) : s[i] # r
    BY <1>1, <1>5 DEF KeptApart, r
  <2>2. \A i \in 1 .. Len(s) : s[i] \in m2 <=> s[i] \in m
    BY <1>4, <2>1
  <2> QED
    BY <1>3, <1>5, <2>2 DEF InStep
<1>6. ASSUME KeptApart(u)
      PROVE  Toggled(u, n + 1, m2)
  <2>1. \A i \in 1 .. Len(u) : u[i] = r <=> i = n + 1
    BY <1>1, <1>6 DEF KeptApart, r
  <2>2. \A i \in 1 .. Len(u) : (u[i] \in m2 <=> u[i] \in m) <=> i # n + 1
    BY <1>4, <2>1
  <2>3. \A i \in 1 .. Len(u) : (i <= n + 1 <=> i <= n) <=> i # n + 1
    BY <1>1
  <2>4. \A i, j \in 1 .. Len(u) : (u[i] \in m <=> u[j] \in m) <=> (i <= n <=> j <= n)
    BY <1>3, <1>6 DEF Toggled
  <2> QED
    BY <2>2, <2>3, <2>4 DEF Toggled
<1>7. CASE Len(q) > 1
  <2>1. /\ Tail(q) \in Seq(Operation) /\ Len(Tail(q)) = Len(q) - 1
        /\ \A i \in 1 .. Len(Tail(q)) : Tail(q)[i] = q[i + 1]
    BY <1>7
  <2>2. /\ Len(Tail(q)) \in 1 .. Len(u) /\ Len(u) - Len(Tail(q)) = n + 1
        /\ \A i \in 1 .. Len(Tail(q)) : i + 1 \in 1 .. Len(q) /\ n + (i + 1) = (n + 1) + i
    BY <1>1, <1>7, <2>1
  <2>3. \A i \in 1 .. Len(Tail(q)) : Tail(q)[i] = Toggle(u[(n + 1) + i])
    <3> SUFFICES ASSUME NEW i \in 1 .. Len(Tail(q)) PROVE Tail(q)[i] = Toggle(u[(n + 1) + i])
      OBVIOUS
    <3>1. Tail(q)[i] = q[i + 1] /\ q[i + 1] = Toggle(u[n + (i + 1)])
      BY <1>3, <2>1, <2>2
    <3> QED
      BY <2>2, <3>1
  <2>4. \A s \in Circuits : KeptApart(s) => IF s = u THEN Toggled(s, n + 1, m2) ELSE InStep(s, m2)
    BY <1>5, <1>6
  <2>5. Press(u, Tail(q), m2)
    BY <2>2, <2>3, <2>4 DEF Press
  <2> QED
    BY <1>7, <2>5 DEF m2
<1>8. CASE ~(Len(q) > 1)
  <2>1. n + 1 = Len(u)
    BY <1>1, <1>8
  <2>2. \A i \in 1 .. Len(u) : i <= n + 1
    BY <1>1, <2>1
  <2>3. KeptApart(u) => InStep(u, m2)
    BY <1>6, <2>2 DEF Toggled, InStep
  <2>4. AllInStep(m2)
    BY <1>5, <2>3 DEF AllInStep
  <2> QED
    BY <1>8, <2>4 DEF m2
<1> QED
  BY <1>7, <1>8

LEMMA BankInStep ==
  ASSUME NEW c \in BankCommands, NEW m \in SUBSET Relays, AllInStep(m)
  PROVE  AllInStep(Switched(c, m))
<1> SUFFICES ASSUME NEW s \in Circuits, KeptApart(s),
                    NEW i \in 1 .. Len(s), NEW j \in 1 .. Len(s)
             PROVE  s[i] \in Switched(c, m) <=> s[j] \in Switched(c, m)
  BY DEF AllInStep, InStep
<1>1. s[i] \in Relays /\ s[j] \in Relays /\ c[s[i]] = c[s[j]] /\ (s[i] \in m <=> s[j] \in m)
  BY CircuitTyped DEF KeptApart, AllInStep, InStep
<1> QED
  BY <1>1 DEF Switched

\* Steps that leave the relays and the press alone.
LEMMA PressKept ==
  ASSUME PressInHand, UNCHANGED s_relay_mask, seen \subseteq seen',
         \/ Working /\ cmd = None /\ Working' /\ cmd' = None /\ todo'["rx"] = todo["rx"]
         \/ ~(Working /\ cmd = None) /\ ~(Working' /\ cmd' = None)
  PROVE  PressInHand'
BY DEF PressInHand, AllInStep

LEMMA PressCommands ==
  ASSUME Inv, PressInHand,
         \/ \E c \in BankCommands : SwitchBankControl(c)
         \/ \E s \in Circuits : PressSwitch(s)
         \/ \E op \in TermOps : TerminalCommand(op)
         \/ ApplyBank
  PROVE  PressInHand'
<1> DEFINE L == {"idle", "bank", "lock", "write", "store", "look", "publish"}
<1>0. pc \in [Tasks -> L] /\ todo \in [Tasks -> Seq(Operation)] /\ "rx" \in Tasks
  BY DEF Inv, TypeOK, Tasks
<1>1. ASSUME NEW c \in BankCommands, SwitchBankControl(c) PROVE PressInHand'
  <2>1. /\ pc["rx"] = "idle" /\ pc'["rx"] = "bank" /\ UNCHANGED <<s_relay_mask, seen>>
    BY <1>0, <1>1 DEF SwitchBankControl, Command, Goto
  <2> QED
    BY <2>1, PressKept DEF Working
<1>2. ASSUME NEW s \in Circuits, PressSwitch(s) PROVE PressInHand'
  <2>1. /\ pc["rx"] = "idle" /\ pc'["rx"] = "lock" /\ UNCHANGED <<s_relay_mask, seen>>
        /\ todo'["rx"] = [i \in 1 .. Len(s) |-> Toggle(s[i])] /\ cmd' = None
    BY <1>0, <1>2 DEF PressSwitch, Command, Goto
  <2>2. seen = {} => AllInStep(s_relay_mask)
    BY <2>1 DEF PressInHand, Working
  <2>3. seen = {} => Press(s, todo'["rx"], s_relay_mask)
    BY <2>1, <2>2, PressBegins
  <2> QED
    BY <2>1, <2>3 DEF PressInHand, Working
<1>3. ASSUME NEW op \in TermOps, TerminalCommand(op) PROVE PressInHand'
  BY <1>3 DEF TerminalCommand, Command, PressInHand
<1>4. ASSUME ApplyBank PROVE PressInHand'
  <2>1. /\ pc["rx"] = "bank" /\ pc'["rx"] = "lock" /\ UNCHANGED <<s_relay_mask, seen, cmd>>
        /\ cmd # None
    BY <1>0, <1>4 DEF ApplyBank, Goto, relays, Inv, WorkToDo
  <2> QED
    BY <2>1, PressKept DEF Working
<1> QED
  BY <1>1, <1>2, <1>3, <1>4

LEMMA PressOperations ==
  ASSUME Inv, Alone, PressInHand, NEW t \in Tasks,
         TakeLock(t) \/ WriteOutputs(t) \/ WriteFails(t) \/ StoreMask(t)
  PROVE  PressInHand'
<1> DEFINE L == {"idle", "bank", "lock", "write", "store", "look", "publish"}
<1>0. pc \in [Tasks -> L] /\ todo \in [Tasks -> Seq(Operation)] /\ {"rx", "term", "proto"} = Tasks
      /\ s_relay_mask \in SUBSET Relays
  BY DEF Inv, TypeOK, Tasks
<1>1. pc[t] \in {"lock", "write", "store"} /\ seen \subseteq seen'
  BY DEF TakeLock, WriteOutputs, WriteFails, StoreMask
<1>2. CASE t # "rx"
  <2>1. t = "term"
    BY <1>0, <1>1, <1>2 DEF Alone
  <2>2. "typed" \in seen'
    BY <1>1, <2>1 DEF Alone
  <2> QED
    BY <2>2 DEF PressInHand
<1>3. CASE t = "rx"
  <2>1. Working
    BY <1>1, <1>3 DEF Working
  <2>2. CASE TakeLock(t) \/ WriteOutputs(t)
    <3>1. pc'["rx"] \in {"write", "store"} /\ UNCHANGED <<s_relay_mask, cmd, todo>>
      BY <1>0, <1>3, <2>2 DEF TakeLock, WriteOutputs, Goto
    <3> QED
      BY <1>1, <2>1, <3>1, PressKept DEF Working
  <2>3. CASE WriteFails(t)
    BY <2>3 DEF WriteFails, PressInHand
  <2>4. CASE StoreMask(t)
    <3> DEFINE q == todo["rx"]
    <3>1. /\ s_relay_mask' = Effect(Head(q), s_relay_mask)
          /\ todo'["rx"] = Tail(q) /\ UNCHANGED <<seen, cmd>>
          /\ pc'["rx"] = (IF Len(q) > 1 THEN "lock"
                          ELSE IF cmd # None THEN "publish" ELSE "look")
      BY <1>0, <1>3, <2>4 DEF StoreMask, Goto, Inv, InHand, Busy
    <3>2. q \in Seq(Operation)
      BY <1>0
    <3>3. CASE seen # {}
      BY <3>1, <3>3 DEF PressInHand
    <3>4. CASE seen = {} /\ cmd = None
      <4>1. PICK u \in Circuits : Press(u, q, s_relay_mask)
        BY <2>1, <3>4 DEF PressInHand
      <4> HIDE DEF q
      <4>2. IF Len(q) > 1 THEN Press(u, Tail(q), s_relay_mask') ELSE AllInStep(s_relay_mask')
        BY <1>0, <3>1, <3>2, <4>1, PressGoesOn
      <4>3. CASE Len(q) > 1
        BY <3>1, <3>4, <4>2, <4>3 DEF PressInHand, Working
      <4>4. CASE ~(Len(q) > 1)
        BY <3>1, <3>4, <4>2, <4>4 DEF PressInHand, Working, AllInStep
      <4> QED
        BY <4>3, <4>4
    <3>5. CASE seen = {} /\ cmd # None
      <4> DEFINE m == Switched(cmd, s_relay_mask)
      <4>1. q = <<Mask(m)>> /\ cmd \in BankCommands
        BY <2>1, <3>5 DEF Alone, Inv, TypeOK
      <4>2. AllInStep(s_relay_mask)
        BY <3>5 DEF PressInHand
      <4>3. AllInStep(m) /\ m \in SUBSET Relays
        BY <1>0, <4>1, <4>2, BankInStep DEF Switched
      <4>4. s_relay_mask' = m
        <5> HIDE DEF m
        <5>1. Head(<<Mask(m)>>) = Mask(m)
          OBVIOUS
        <5> QED
          BY <1>0, <3>1, <4>1, <4>3, <5>1, MaskSets
      <4>5. AllInStep(s_relay_mask')
        BY <4>3, <4>4
      <4> QED
        BY <3>1, <3>5, <4>5 DEF PressInHand, AllInStep
    <3> QED
      BY <3>3, <3>4, <3>5
  <2> QED
    BY <2>2, <2>3, <2>4
<1> QED
  BY <1>2, <1>3

LEMMA PressPublishing ==
  ASSUME Inv, PressInHand, \/ \E t \in Tasks : Look(t) \/ \E sent \in BOOLEAN : PublishNext(t, sent)
                           \/ StartPeriod
                           \/ \E p \in StatusPages, sent \in BOOLEAN : SendPeriodic(p, sent)
  PROVE  PressInHand'
<1> DEFINE L == {"idle", "bank", "lock", "write", "store", "look", "publish"}
<1>0. pc \in [Tasks -> L] /\ "rx" \in Tasks
  BY DEF Inv, TypeOK, Tasks
<1>1. ASSUME NEW t \in Tasks, Look(t) PROVE PressInHand'
  <2>1. /\ pc[t] = "look" /\ pc' = [pc EXCEPT ![t] = "publish"]
        /\ UNCHANGED <<s_relay_mask, seen, cmd, todo>>
    BY <1>1 DEF Look, Goto, relays
  <2>2. Working' <=> Working
    BY <1>0, <2>1 DEF Working
  <2> QED
    BY <2>1, <2>2, PressKept
<1>2. ASSUME NEW t \in Tasks, NEW sent \in BOOLEAN, PublishNext(t, sent) PROVE PressInHand'
  <2>1. /\ pc[t] = "publish" /\ t # "proto"
        /\ \E l \in {"idle", "publish"} : pc' = [pc EXCEPT ![t] = l]
        /\ cmd' = cmd \/ (t = "rx" /\ cmd' = None)
        /\ UNCHANGED <<s_relay_mask, seen, todo>>
    BY <1>2 DEF PublishNext, Goto, Forget, relays
  <2>2. Working' <=> Working
    BY <1>0, <2>1 DEF Working
  <2>3. t = "rx" => ~Working
    BY <2>1 DEF Working
  <2> QED
    BY <2>1, <2>2, <2>3, PressKept
<1>3. ASSUME StartPeriod PROVE PressInHand'
  <2>1. /\ pc' = [pc EXCEPT !["proto"] = "look"]
        /\ UNCHANGED <<s_relay_mask, seen, cmd, todo>>
    BY <1>3 DEF StartPeriod, Goto, relays
  <2>2. Working' <=> Working
    BY <1>0, <2>1 DEF Working
  <2> QED
    BY <2>1, <2>2, PressKept
<1>4. ASSUME NEW p \in StatusPages, NEW sent \in BOOLEAN, SendPeriodic(p, sent) PROVE PressInHand'
  <2>1. /\ \E l \in {"idle", "look"} : pc' = [pc EXCEPT !["proto"] = l]
        /\ UNCHANGED <<s_relay_mask, seen, cmd, todo>>
    BY <1>4 DEF SendPeriodic, Goto, Forget, relays
  <2>2. Working' <=> Working
    BY <1>0, <2>1 DEF Working
  <2> QED
    BY <2>1, <2>2, PressKept
<1> QED
  BY <1>1, <1>2, <1>3, <1>4

LEMMA PressInit == Init => PressInHand
<1> SUFFICES ASSUME Init PROVE PressInHand
  OBVIOUS
<1>1. ~Working /\ s_relay_mask = {}
  BY DEF Init, Working, Tasks
<1> QED
  BY <1>1 DEF PressInHand, AllInStep, InStep

LEMMA PressNext == Inv /\ Alone /\ PressInHand /\ [Next]_vars => PressInHand'
<1> SUFFICES ASSUME Inv, Alone, PressInHand, [Next]_vars PROVE PressInHand'
  OBVIOUS
<1>1. Outcomes \subseteq BOOLEAN
  BY DEF Outcomes
<1>2. ASSUME NEW t \in Tasks, Step(t) PROVE PressInHand'
  BY <1>1, <1>2, PressOperations, PressPublishing DEF Step
<1>3. ASSUME Periodic PROVE PressInHand'
  BY <1>1, <1>3, PressPublishing DEF Periodic
<1>4. CASE UNCHANGED vars
  <2>1. UNCHANGED <<s_relay_mask, seen, cmd, todo, pc>>
    BY <1>4 DEF vars, relays
  <2> QED
    BY <2>1, PressKept DEF Working
<1> QED
  BY <1>2, <1>3, <1>4, PressCommands DEF Next

\* The relays of a circuit are toggled one by one, each with the mutex taken anew.
\* While nobody types and no write fails they are in step whenever the rx task is
\* idle, provided the configuration keeps the circuit apart.
THEOREM CircuitCorrect == Spec => []CircuitInStep
<1>1. Inv /\ PressInHand => CircuitInStep
  BY DEF PressInHand, Working, AllInStep, CircuitInStep
<1> QED
  BY <1>1, InitCorrect, NextCorrect, AloneInit, AloneNext, PressInit, PressNext, PTL DEF Spec
-----------------------------------------------------------------------------
(* How long it takes *)

\* Whoever holds the mutex waits for nothing: it is about to write, or to store.
HolderAtWork == \A t \in Tasks : s_lock = t => Busy(t)

\* What a task has still to do at most until it is idle: three steps for each operation,
\* the reading of the mask, and the messages.
Pending(t) ==
  CASE pc[t] = "idle" -> 0
    [] pc[t] = "bank" -> 9
    [] pc[t] = "lock"  -> 3 * Len(todo[t]) + 5
    [] pc[t] = "write" -> 3 * Len(todo[t]) + 4
    [] pc[t] = "store" -> 3 * Len(todo[t]) + 3
    [] pc[t] = "look" -> IF t = "proto" THEN 8 - 2 * page[t] ELSE 5
    [] OTHER -> IF t = "proto" THEN 7 - 2 * page[t] ELSE 5 - page[t]

\* What a task has to do for a command, or for a period, shrinks with each of its
\* steps, and no other task adds to it, whatever fails.
CommandNears ==
  [][\A t \in Tasks : pc[t] # "idle" =>
       IF UNCHANGED <<pc[t], todo[t], page[t]>> THEN Pending(t)' = Pending(t)
       ELSE Pending(t)' \in 0 .. Pending(t) - 1]_vars

\* The mutex is held by a task that writes to the expander, which comes back with or
\* without an error, or stores the mask: no path of relay_controller.c keeps it.
THEOREM HolderCorrect == Spec => []HolderAtWork
<1>1. Inv => HolderAtWork
  BY DEF Inv, LockHeld, HolderAtWork
<1> QED
  BY <1>1, InitCorrect, NextCorrect, PTL DEF Spec

\* protocol_task never takes the mutex but to look.
OnlyLooks == pc["proto"] \in {"idle", "look", "publish"}

LEMMA OnlyLooksStep ==
  ASSUME Inv, OnlyLooks, [Next]_vars
  PROVE  OnlyLooks'
<1> USE DEF OnlyLooks, Goto
<1>1. pc \in [Tasks -> {"idle", "bank", "lock", "write", "store", "look", "publish"}] /\ "proto" \in Tasks
  BY DEF Inv, TypeOK, Tasks
<1>2. ASSUME NEW t \in Tasks, Step(t) PROVE OnlyLooks'
  <2>1. CASE TakeLock(t) \/ WriteOutputs(t) \/ WriteFails(t) \/ StoreMask(t)
    BY <1>1, <2>1 DEF TakeLock, WriteOutputs, WriteFails, StoreMask
  <2>2. CASE Look(t) \/ \E sent \in Outcomes : PublishNext(t, sent)
    BY <1>1, <2>2 DEF Look, PublishNext
  <2> QED
    BY <1>2, <2>1, <2>2 DEF Step
<1>3. CASE Periodic
  BY <1>1, <1>3 DEF Periodic, StartPeriod, SendPeriodic
<1>4. CASE \/ \E c \in BankCommands : SwitchBankControl(c)
           \/ \E s \in Circuits : PressSwitch(s)
           \/ \E op \in TermOps : TerminalCommand(op)
           \/ ApplyBank
  BY <1>1, <1>4 DEF SwitchBankControl, PressSwitch, TerminalCommand, ApplyBank
<1>5. CASE UNCHANGED vars
  BY <1>5 DEF vars
<1> QED
  BY <1>2, <1>3, <1>4, <1>5 DEF Next

Same(t) == UNCHANGED <<pc[t], todo[t], page[t]>>

Nearer(t) == Pending(t)' \in 0 .. Pending(t) - 1

\* What the others do leaves a task where it is.
LEMMA OthersStay ==
  ASSUME Inv, NEW t \in Tasks, NEW u \in Tasks \ {t},
         \/ Step(u)
         \/ u = "rx" /\ ApplyBank
         \/ u = "rx" /\ \E c \in BankCommands : SwitchBankControl(c)
         \/ u = "rx" /\ \E s \in Circuits : PressSwitch(s)
         \/ u = "term" /\ \E op \in TermOps : TerminalCommand(op)
         \/ u = "proto" /\ Periodic
  PROVE  Same(t)
<1> USE DEF Goto, Same
<1>1. t \in DOMAIN pc /\ t \in DOMAIN todo /\ t \in DOMAIN page
  BY DEF Inv, TypeOK
<1>2. CASE Step(u)
  <2>1. CASE TakeLock(u) \/ WriteOutputs(u)
    BY <1>1, <2>1 DEF TakeLock, WriteOutputs
  <2>2. CASE WriteFails(u) \/ StoreMask(u)
    BY <1>1, <2>2 DEF WriteFails, StoreMask
  <2>3. CASE Look(u) \/ \E sent \in Outcomes : PublishNext(u, sent)
    BY <1>1, <2>3 DEF Look, PublishNext
  <2> QED
    BY <1>2, <2>1, <2>2, <2>3 DEF Step
<1>3. CASE u = "rx" /\ (ApplyBank \/ \E c \in BankCommands : SwitchBankControl(c))
  BY <1>1, <1>3 DEF ApplyBank, SwitchBankControl, Command
<1>4. CASE u = "rx" /\ \E s \in Circuits : PressSwitch(s)
  BY <1>1, <1>4 DEF PressSwitch, Command
<1>5. CASE u = "term" /\ \E op \in TermOps : TerminalCommand(op)
  BY <1>1, <1>5 DEF TerminalCommand, Command
<1>6. CASE u = "proto" /\ Periodic
  BY <1>1, <1>6 DEF Periodic, StartPeriod, SendPeriodic
<1> QED
  BY <1>2, <1>3, <1>4, <1>5, <1>6

\* Its own operations on the relays, and what it publishes, take it nearer to the end.
LEMMA OwnStepNears ==
  ASSUME Inv, OnlyLooks, NEW t \in Tasks, Step(t)
  PROVE  Nearer(t)
<1> USE DEF Goto, Nearer
<1>1. /\ t \in DOMAIN pc /\ t \in DOMAIN todo /\ t \in DOMAIN page
      /\ page[t] \in 1 .. 4 /\ todo[t] \in Seq(Operation) /\ Len(todo[t]) \in Nat
      /\ pc[t] \in {"lock", "write", "store"} => Len(todo[t]) > 0 /\ t # "proto"
      /\ t = "proto" => page[t] \in 1 .. 3
  <2>1. Len(Pages) = 4
    BY DEF Pages
  <2> QED
    BY <2>1 DEF Inv, TypeOK, WorkToDo, OnlyLooks
<1>2. CASE TakeLock(t)
  <2>1. pc[t] = "lock" /\ pc'[t] = "write" /\ todo' = todo
    BY <1>1, <1>2 DEF TakeLock
  <2> QED
    BY <1>1, <2>1 DEF Pending
<1>3. CASE WriteOutputs(t)
  <2>1. pc[t] = "write" /\ pc'[t] = "store" /\ todo' = todo
    BY <1>1, <1>3 DEF WriteOutputs
  <2> QED
    BY <1>1, <2>1 DEF Pending
<1>4. CASE WriteFails(t)
  <2>1. pc[t] = "write" /\ pc'[t] = "idle"
    BY <1>1, <1>4 DEF WriteFails
  <2> QED
    BY <1>1, <2>1 DEF Pending
<1>5. CASE StoreMask(t)
  <2>1. /\ pc[t] = "store" /\ page' = page /\ todo'[t] = Tail(todo[t])
        /\ pc'[t] = IF Len(todo[t]) > 1 THEN "lock"
                    ELSE IF t = "rx" /\ cmd # None THEN "publish" ELSE "look"
    BY <1>1, <1>5 DEF StoreMask
  <2>2. Len(todo'[t]) = Len(todo[t]) - 1 /\ Len(todo[t]) > 0
    BY <1>1, <2>1, SeqParts
  <2>3. Pending(t) = 3 * Len(todo[t]) + 3
    BY <2>1 DEF Pending
  <2>4. CASE Len(todo[t]) > 1
    <3>1. Pending(t)' = 3 * (Len(todo[t]) - 1) + 5
      BY <2>1, <2>2, <2>4 DEF Pending
    <3> QED
      BY <1>1, <2>3, <2>4, <3>1
  <2>5. CASE ~(Len(todo[t]) > 1)
    <3>1. Pending(t)' \in 0 .. 5
      BY <1>1, <2>1, <2>5 DEF Pending
    <3> QED
      BY <1>1, <2>2, <2>3, <3>1
  <2> QED
    BY <2>4, <2>5
<1>6. CASE Look(t)
  <2>1. pc[t] = "look" /\ pc'[t] = "publish" /\ page' = page
    BY <1>1, <1>6 DEF Look
  <2> QED
    BY <1>1, <2>1 DEF Pending
<1>7. ASSUME NEW sent \in Outcomes, PublishNext(t, sent) PROVE Nearer(t)
  <2>1. /\ pc[t] = "publish" /\ t # "proto" /\ Len(Pages) = 4
        /\ \/ pc'[t] = "idle"
           \/ page[t] # 4 /\ pc'[t] = "publish" /\ page'[t] = page[t] + 1
    BY <1>1, <1>7 DEF PublishNext, Pages
  <2> QED
    BY <1>1, <2>1 DEF Pending
<1> QED
  BY <1>2, <1>3, <1>4, <1>5, <1>6, <1>7 DEF Step

\* What only one of the tasks does takes it nearer, too; a command or a period begins
\* only for a task that is idle.
LEMMA OwnTurnNears ==
  ASSUME Inv, NEW t \in Tasks, pc[t] # "idle",
         \/ t = "rx" /\ ApplyBank
         \/ t = "rx" /\ \E c \in BankCommands : SwitchBankControl(c)
         \/ t = "rx" /\ \E s \in Circuits : PressSwitch(s)
         \/ t = "term" /\ \E op \in TermOps : TerminalCommand(op)
         \/ t = "proto" /\ Periodic
  PROVE  Nearer(t)
<1> USE DEF Goto, Nearer
<1>1. t \in DOMAIN pc /\ t \in DOMAIN todo /\ t \in DOMAIN page
  BY DEF Inv, TypeOK
<1>2. ~ \/ t = "rx" /\ \E c \in BankCommands : SwitchBankControl(c)
        \/ t = "rx" /\ \E s \in Circuits : PressSwitch(s)
        \/ t = "term" /\ \E op \in TermOps : TerminalCommand(op)
        \/ StartPeriod /\ t = "proto"
  BY DEF SwitchBankControl, PressSwitch, TerminalCommand, Command, StartPeriod
<1>3. CASE t = "rx" /\ ApplyBank
  <2>1. /\ pc["rx"] = "bank" /\ pc'["rx"] = "lock"
        /\ todo'["rx"] = <<Mask(Switched(cmd, s_relay_mask))>>
    BY <1>1, <1>3 DEF ApplyBank
  <2>2. Len(todo'["rx"]) = 1
    BY <2>1
  <2> QED
    BY <1>3, <2>1, <2>2 DEF Pending
<1>4. ASSUME t = "proto", NEW p \in StatusPages, NEW sent \in Outcomes, SendPeriodic(p, sent)
      PROVE  Nearer(t)
  <2>1. /\ page["proto"] \in 1 .. 3 /\ pc["proto"] = "publish" /\ Len(ProtoPages) = 3
        /\ \/ pc'["proto"] = "idle"
           \/ page["proto"] # 3 /\ pc'["proto"] = "look" /\ page'["proto"] = page["proto"] + 1
    BY <1>1, <1>4 DEF SendPeriodic, ProtoPages, Inv, WorkToDo
  <2> QED
    BY <1>4, <2>1 DEF Pending
<1> QED
  BY <1>2, <1>3, <1>4 DEF Periodic

\* A command of any number of relays, and a period, takes a bounded number of steps:
\* the safety part of CommandsFinish, whose rest is that the tasks run and that the
\* mutex, which comes free by HolderCorrect, is not always another's.
THEOREM CommandNearsCorrect == Spec => CommandNears
<1> DEFINE Nears == \A t \in Tasks : pc[t] # "idle" =>
                      IF Same(t) THEN Pending(t)' = Pending(t) ELSE Nearer(t)
<1>1. Init => Inv /\ OnlyLooks
  BY InitCorrect DEF Init, OnlyLooks, Tasks
<1>2. Inv /\ OnlyLooks /\ [Next]_vars => (Inv /\ OnlyLooks)'
  BY NextCorrect, OnlyLooksStep
<1>3. Inv /\ OnlyLooks /\ [Next]_vars => [Nears]_vars
  <2> SUFFICES ASSUME Inv, OnlyLooks, Next, NEW t \in Tasks, pc[t] # "idle"
               PROVE  IF Same(t) THEN Pending(t)' = Pending(t) ELSE Nearer(t)
    OBVIOUS
  <2>1. Same(t) => Pending(t)' = Pending(t)
    BY DEF Same, Pending
  <2>2. Same(t) \/ Nearer(t)
    <3>1. PICK u \in Tasks :
            \/ Step(u)
            \/ u = "rx" /\ ApplyBank
            \/ u = "rx" /\ \E c \in BankCommands : SwitchBankControl(c)
            \/ u = "rx" /\ \E s \in Circuits : PressSwitch(s)
            \/ u = "term" /\ \E op \in TermOps : TerminalCommand(op)
            \/ u = "proto" /\ Periodic
      BY DEF Next, Tasks
    <3>2. CASE u # t
      BY <3>1, <3>2, OthersStay
    <3>3. CASE u = t
      BY <3>1, <3>3, OwnStepNears, OwnTurnNears
    <3> QED
      BY <3>2, <3>3
  <2> QED
    BY <2>1, <2>2
<1>4. Spec => [][Nears]_vars
  BY <1>1, <1>2, <1>3, PTL DEF Spec
<1> QED
  BY <1>4 DEF CommandNears, Same, Nearer
=============================================================================
