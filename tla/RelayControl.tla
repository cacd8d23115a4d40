----------------------------- MODULE RelayControl -----------------------------
(***************************************************************************)
(* The relays and the tasks that use them.  czone_protocol_rx_task applies *)
(* switch commands from the bus, terminal_task applies commands typed at   *)
(* the USB terminal, protocol_task reports the state once a second.  They  *)
(* share the relay controller, whose mutex protects one read or one write  *)
(* of the mask at a time, and they all publish what they have read.        *)
(*                                                                         *)
(* An operation on the relays is a record of the relays it switches off,   *)
(* on, and over, in this order.                                            *)
(***************************************************************************)
EXTENDS ChannelMap, Sequences

CONSTANTS
  Circuits,      \* what zcf_config_relays_for_circuit returns: sequences of relays
  BankCommands,  \* contents of PGN 127502, switch r - 1 as r: [Relays -> {"on", "off", "keep"}]
  TermOps,       \* operations typed at the terminal
  MaxCommands,   \* bound of the model: the commands that will be given
  I2cFails,      \* TRUE: writing to the expander may fail
  SendFails,     \* TRUE: the transmit queue may refuse a frame
  None           \* nobody, nothing

Tasks == {"rx", "term", "proto"}
Pages == <<"module", "oi", "brief", "bank">>   \* czone_protocol_publish_relay_state
ProtoPages == <<"module", "oi", "bank">>       \* protocol_task
StatusPages == {"module", "oi", "bank"}        \* the brief status has no relays in it

Operation == [off : SUBSET Relays, on : SUBSET Relays, flip : SUBSET Relays]
Toggle(r) == [off |-> {}, on |-> {}, flip |-> {r}]
Mask(m)   == [off |-> Relays, on |-> m, flip |-> {}]
Effect(op, m) == LET n == (m \ op.off) \cup op.on
                 IN (n \ op.flip) \cup (op.flip \ n)

ASSUME RelayAssumption ==
  /\ Circuits \subseteq Seq(Relays) \ {<<>>}
  /\ BankCommands \subseteq [Relays -> {"on", "off", "keep"}]
  /\ TermOps \subseteq Operation
  /\ MaxCommands \in Nat
  /\ I2cFails \in BOOLEAN
  /\ SendFails \in BOOLEAN
  /\ None \notin Tasks
  /\ None \notin BankCommands

VARIABLES
  s_relay_mask,  \* the relays taken to be on
  outputs,       \* the output register of the TCA9554
  s_lock,        \* the task that holds the mutex, or None
  pc,            \* pc[t]: what task t does next
  cmd,           \* the bank command the rx task is applying, or None
  todo,          \* todo[t]: the relay operations task t still has to make
  next,          \* next[t]: the local of a relay operation
  mask,          \* mask[t]: the mask task t publishes
  page,          \* page[t]: the status message it sends next
  shown,         \* shown[p]: the last message of kind p on the bus
  left,          \* how many more commands will be given
  unsure,        \* history: the last write to the expander failed
  seen           \* history: "typed", the terminal was used; "failed", a write failed

relays == <<s_relay_mask, outputs, s_lock, unsure, seen>>
vars   == <<relays, pc, cmd, todo, next, mask, page, shown, left>>

Report(p, m) == CASE p = "module" -> ChannelBits(m)
                  [] p = "oi"     -> OiRecords(m)
                  [] p = "bank"   -> SwitchBankStatus(m)

Init ==
  /\ s_relay_mask = {}
  /\ outputs = {}
  /\ s_lock = None
  /\ unsure = FALSE
  /\ seen = {}
  /\ pc = [t \in Tasks |-> "idle"]
  /\ cmd = None
  /\ todo = [t \in Tasks |-> <<>>]
  /\ next = [t \in Tasks |-> {}]
  /\ mask = [t \in Tasks |-> {}]
  /\ page = [t \in Tasks |-> 1]
  /\ shown = [p \in StatusPages |-> None]
  /\ left = MaxCommands

Goto(t, l) == pc' = [pc EXCEPT ![t] = l]

\* The locals of a handler that returns.
Forget(t) ==
  /\ mask' = [mask EXCEPT ![t] = {}]
  /\ cmd' = IF t = "rx" THEN None ELSE cmd
-----------------------------------------------------------------------------
(* Commands *)

Command(t) ==
  /\ pc[t] = "idle"
  /\ left > 0
  /\ left' = left - 1
  /\ seen' = IF t = "term" THEN seen \cup {"typed"} ELSE seen
  /\ UNCHANGED <<s_relay_mask, outputs, s_lock, unsure, next, mask, page, shown>>

\* handle_switch_bank_control begins by asking for the mask.
SwitchBankControl(c) ==
  /\ Command("rx")
  /\ cmd' = c
  /\ Goto("rx", "bank")
  /\ UNCHANGED todo

\* Mutant of PressSwitch: only the circuit's first relay is toggled.
PressOnce(s) ==
  /\ Command("rx")
  /\ cmd' = None
  /\ todo' = [todo EXCEPT !["rx"] = <<Toggle(Head(s))>>]
  /\ Goto("rx", "lock")

\* handle_ss_command, a press of a button of circuit s: toggle its relays one
\* after the other.  A release, an unknown command, another target and a circuit
\* without relays change nothing.
PressSwitch(s) ==
  /\ Command("rx")
  /\ cmd' = None
  /\ todo' = [todo EXCEPT !["rx"] = [i \in 1 .. Len(s) |-> Toggle(s[i])]]
  /\ Goto("rx", "lock")

\* on, off, toggle, mask, all.
TerminalCommand(op) ==
  /\ Command("term")
  /\ todo' = [todo EXCEPT !["term"] = <<op>>]
  /\ Goto("term", "lock")
  /\ UNCHANGED cmd

\* Mutant of Switched: a relay the command does not name is switched off.
SwitchedOff(c, m) == {r \in Relays : c[r] = "on"}

\* The mask is changed here, on the handler's stack, where no lock protects it.
Switched(c, m) == {r \in Relays : c[r] = "on" \/ (c[r] = "keep" /\ r \in m)}

ApplyBank ==
  /\ pc["rx"] = "bank"
  /\ s_lock = None
  /\ LET m == Switched(cmd, s_relay_mask)
     IN /\ todo' = [todo EXCEPT !["rx"] = <<Mask(m)>>]
        /\ mask' = [mask EXCEPT !["rx"] = m]
  /\ Goto("rx", "lock")
  /\ UNCHANGED <<relays, cmd, next, page, shown, left>>
-----------------------------------------------------------------------------
(* relay_controller_set_channel, _toggle_channel, _set_mask *)

\* Mutant of TakeLock: nobody waits for the mutex.
TakeNoLock(t) ==
  /\ pc[t] = "lock"
  /\ s_lock' = t
  /\ next' = [next EXCEPT ![t] = Effect(Head(todo[t]), s_relay_mask)]
  /\ Goto(t, "write")
  /\ UNCHANGED <<s_relay_mask, outputs, unsure, seen, cmd, todo, mask, page, shown, left>>

TakeLock(t) ==
  /\ pc[t] = "lock"
  /\ s_lock = None
  /\ s_lock' = t
  /\ next' = [next EXCEPT ![t] = Effect(Head(todo[t]), s_relay_mask)]
  /\ Goto(t, "write")
  /\ UNCHANGED <<s_relay_mask, outputs, unsure, seen, cmd, todo, mask, page, shown, left>>

\* Mutant of WriteOutputs: an error of the expander is overlooked.
WriteOrNot(t) ==
  /\ pc[t] = "write"
  /\ outputs' \in {outputs, next[t]}
  /\ Goto(t, "store")
  /\ UNCHANGED <<s_relay_mask, s_lock, unsure, seen, cmd, todo, next, mask, page, shown, left>>

WriteOutputs(t) ==
  /\ pc[t] = "write"
  /\ outputs' = next[t]
  /\ Goto(t, "store")
  /\ UNCHANGED <<s_relay_mask, s_lock, unsure, seen, cmd, todo, next, mask, page, shown, left>>

\* The expander may or may not have taken the value.  The command ends here:
\* nothing is published, a circuit's other relays are not toggled.
WriteFails(t) ==
  /\ I2cFails
  /\ pc[t] = "write"
  /\ outputs' \in {outputs, next[t]}
  /\ unsure' = TRUE
  /\ seen' = seen \cup {"failed"}
  /\ s_lock' = None
  /\ todo' = [todo EXCEPT ![t] = <<>>]
  /\ Goto(t, "idle")
  /\ Forget(t)
  /\ next' = [next EXCEPT ![t] = {}]
  /\ UNCHANGED <<s_relay_mask, page, shown, left>>

\* Mutant of StoreMask: after the last operation of a command the mutex is kept.
StoreKeepsLock(t) ==
  /\ pc[t] = "store"
  /\ s_relay_mask' = next[t]
  /\ s_lock' = IF Len(todo[t]) > 1 THEN None ELSE t
  /\ unsure' = FALSE
  /\ todo' = [todo EXCEPT ![t] = Tail(@)]
  /\ Goto(t, IF Len(todo[t]) > 1 THEN "lock"
             ELSE IF t = "rx" /\ cmd # None THEN "publish" ELSE "look")
  /\ next' = [next EXCEPT ![t] = {}]
  /\ UNCHANGED <<outputs, seen, cmd, mask, page, shown, left>>

\* The switch bank handler publishes the mask it has computed, the others ask.
StoreMask(t) ==
  /\ pc[t] = "store"
  /\ s_relay_mask' = next[t]
  /\ s_lock' = None
  /\ unsure' = FALSE
  /\ todo' = [todo EXCEPT ![t] = Tail(@)]
  /\ Goto(t, IF Len(todo[t]) > 1 THEN "lock"
             ELSE IF t = "rx" /\ cmd # None THEN "publish" ELSE "look")
  /\ next' = [next EXCEPT ![t] = {}]
  /\ UNCHANGED <<outputs, seen, cmd, mask, page, shown, left>>
-----------------------------------------------------------------------------
(* Publishing *)

\* relay_controller_get_mask
Look(t) ==
  /\ pc[t] = "look"
  /\ s_lock = None
  /\ mask' = [mask EXCEPT ![t] = s_relay_mask]
  /\ Goto(t, "publish")
  /\ UNCHANGED <<relays, cmd, todo, next, page, shown, left>>

\* Mutant of PublishNext: the next publication goes on where this one ended.
PublishOn(t, sent) ==
  /\ pc[t] = "publish"
  /\ t # "proto"
  /\ LET p    == Pages[page[t]]
         last == ~sent \/ page[t] = Len(Pages)
     IN /\ shown' = IF sent /\ p \in StatusPages
                    THEN [shown EXCEPT ![p] = Report(p, mask[t])] ELSE shown
        /\ page' = [page EXCEPT ![t] = @ + 1]
        /\ Goto(t, IF last THEN "idle" ELSE "publish")
        /\ IF last THEN Forget(t) ELSE UNCHANGED <<cmd, mask>>
  /\ UNCHANGED <<relays, todo, next, left>>

\* czone_protocol_publish_relay_state, one message at a time; the first failure
\* ends it.
PublishNext(t, sent) ==
  /\ pc[t] = "publish"
  /\ t # "proto"
  /\ LET p    == Pages[page[t]]
         last == ~sent \/ page[t] = Len(Pages)
     IN /\ shown' = IF sent /\ p \in StatusPages
                    THEN [shown EXCEPT ![p] = Report(p, mask[t])] ELSE shown
        /\ page' = [page EXCEPT ![t] = IF last THEN 1 ELSE @ + 1]
        /\ Goto(t, IF last THEN "idle" ELSE "publish")
        /\ IF last THEN Forget(t) ELSE UNCHANGED <<cmd, mask>>
  /\ UNCHANGED <<relays, todo, next, left>>

\* protocol_task: another CZONE_STATUS_INTERVAL_MS has passed.
StartPeriod ==
  /\ pc["proto"] = "idle"
  /\ Goto("proto", "look")
  /\ UNCHANGED <<relays, cmd, todo, next, mask, page, shown, left>>

\* Mutant of SendPeriodic: the first message ends the period.
SendOnePeriodic(p, sent) ==
  /\ pc["proto"] = "publish"
  /\ p = ProtoPages[page["proto"]]
  /\ shown' = IF sent THEN [shown EXCEPT ![p] = Report(p, mask["proto"])] ELSE shown
  /\ page' = [page EXCEPT !["proto"] = 1]
  /\ Goto("proto", "idle")
  /\ Forget("proto")
  /\ UNCHANGED <<relays, todo, next, left>>

\* Each of the three messages has a mask of its own; failures are only logged.
SendPeriodic(p, sent) ==
  /\ pc["proto"] = "publish"
  /\ p = ProtoPages[page["proto"]]
  /\ shown' = IF sent THEN [shown EXCEPT ![p] = Report(p, mask["proto"])] ELSE shown
  /\ LET last == page["proto"] = Len(ProtoPages)
     IN /\ page' = [page EXCEPT !["proto"] = IF last THEN 1 ELSE @ + 1]
        /\ Goto("proto", IF last THEN "idle" ELSE "look")
  /\ Forget("proto")
  /\ UNCHANGED <<relays, todo, next, left>>
-----------------------------------------------------------------------------
Outcomes == IF SendFails THEN BOOLEAN ELSE {TRUE}

Step(t) ==
  \/ TakeLock(t) \/ WriteOutputs(t) \/ WriteFails(t) \/ StoreMask(t) \/ Look(t)
  \/ \E sent \in Outcomes : PublishNext(t, sent)

Periodic == StartPeriod \/ \E p \in StatusPages, sent \in Outcomes : SendPeriodic(p, sent)

Next ==
  \/ \E c \in BankCommands : SwitchBankControl(c)
  \/ \E s \in Circuits : PressSwitch(s)
  \/ \E op \in TermOps : TerminalCommand(op)
  \/ ApplyBank
  \/ \E t \in Tasks : Step(t)
  \/ Periodic

Spec == Init /\ [][Next]_vars

\* The tasks run; a transmit queue that is full at times is not full every
\* second when the same message is due.
Fairness ==
  /\ WF_vars(Step("rx") \/ ApplyBank)
  /\ WF_vars(Step("term"))
  /\ WF_vars(Step("proto") \/ Periodic)
  /\ \A p \in StatusPages : SF_vars(SendPeriodic(p, TRUE))

FairSpec == Spec /\ Fairness
-----------------------------------------------------------------------------
TypeOK ==
  /\ s_relay_mask \in SUBSET Relays
  /\ outputs \in SUBSET Relays
  /\ s_lock \in Tasks \cup {None}
  /\ unsure \in BOOLEAN
  /\ seen \subseteq {"typed", "failed"}
  /\ pc \in [Tasks -> {"idle", "bank", "lock", "write", "store", "look", "publish"}]
  /\ cmd = None \/ cmd \in BankCommands
  /\ todo \in [Tasks -> Seq(Operation)]
  /\ next \in [Tasks -> SUBSET Relays]
  /\ mask \in [Tasks -> SUBSET Relays]
  /\ page \in [Tasks -> 1 .. Len(Pages)]
  /\ DOMAIN shown = StatusPages
  /\ left \in Nat

\* s_relay_mask is what the relays do, whenever nobody is at work on it and the
\* last write to the expander succeeded; one write that succeeds also makes up
\* for all that failed before.
OutputsMatch == s_lock = None /\ ~unsure => outputs = s_relay_mask

\* An operation takes effect on the mask as it is, not as it was when the task
\* read it: of two tasks that switch relays at the same time neither undoes
\* what the other has done.
OperationsAreAtomic ==
  [][\A t \in Tasks : StoreMask(t) => s_relay_mask' = Effect(Head(todo[t]), s_relay_mask)]_vars

\* A switch bank command leaves alone the relays it does not name, unless the
\* terminal has been used: handle_switch_bank_control reads the mask and
\* writes it back with the mutex released in between.
BankKeepsOthers ==
  [][StoreMask("rx") /\ cmd # None /\ "typed" \notin seen =>
       \A r \in Relays : cmd[r] = "keep" => (r \in s_relay_mask' <=> r \in s_relay_mask)]_vars

InStep(s, m) == \A i, j \in 1 .. Len(s) : s[i] \in m <=> s[j] \in m

\* A circuit that names no relay twice and shares none with another circuit, and
\* whose relays no bank command treats differently.
KeptApart(s) ==
  /\ \A i, j \in 1 .. Len(s) : s[i] = s[j] => i = j
  /\ \A u \in Circuits \ {s} : \A i \in 1 .. Len(s), j \in 1 .. Len(u) : s[i] # u[j]
  /\ \A c \in BankCommands : \A i, j \in 1 .. Len(s) : c[s[i]] = c[s[j]]

\* The relays of a circuit, toggled one by one, stay in step unless the terminal
\* has been used or a write to the expander has failed.
CircuitInStep ==
  pc["rx"] = "idle" /\ seen = {} =>
    \A s \in Circuits : KeptApart(s) => InStep(s, s_relay_mask)

\* Once no more commands are given, all three status messages come to tell what
\* the relays really do, whatever stale masks were published before: the tasks
\* publish in any order, and a mask may be old when it is sent.
StatusConverges ==
  <>[](unsure \/ \A p \in StatusPages : shown[p] = Report(p, outputs))

\* Every command comes to its end, after which the tasks are idle: no path keeps
\* the mutex.
CommandsFinish == <>[](pc["rx"] = "idle" /\ pc["term"] = "idle")
=============================================================================
