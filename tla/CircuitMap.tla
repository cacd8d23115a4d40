------------------------------ MODULE CircuitMap ------------------------------
(***************************************************************************)
(* The circuit-to-relay map: built from the stored ZCF by zcf_config_load, *)
(* used by handle_ss_command.  Three tasks build it, and nothing keeps     *)
(* them apart: app_main at boot, when the CAN tasks already run,           *)
(* czone_protocol_rx_task after an upload, terminal_task after a change of *)
(* the dipswitch.                                                          *)
(*                                                                         *)
(* The map is for one module address, the dipswitch, which the terminal    *)
(* sets and NVS keeps over a loss of power.                                *)
(***************************************************************************)
EXTENDS ZcfParser

CONSTANTS
  Files,        \* the configuration files
  Bytes,        \* Bytes[f]: what is in file f
  Meant,        \* Meant[f]: the outputs it was made of, or NoRecords
  NoRecords,    \* there is nothing of use in it
  NoFile,       \* there is no stored file
  Dipswitches,  \* module addresses
  Unset,        \* no dipswitch is stored in NVS
  CZONE_DEVICE_DIPSWITCH,
  CZONE_DEVICE_MODULE_TYPE,
  Circuits,     \* 16-bit circuit numbers a display sends
  Fallback,     \* temporary_ss_switch_to_relay: Fallback[s], or 0
  ZCF_MAP_MAX,
  NvsFails,     \* TRUE: NVS operations may fail
  LoadsFail,    \* TRUE: there may be no memory for a file, or it cannot be read
  Overlap       \* TRUE: a task may begin to load while another one does

BOARD_RELAY_COUNT == 8   \* handle_ss_command has room for so many relays

Names  == Seq(0 .. UINT8_MAX)
Entry  == [circuit : 0 .. UINT8_MAX, relay : 0 .. 8, level : 0 .. LEVEL_MAX,
           name : Names, load : Names]
Output == [circuit : 0 .. UINT8_MAX, address : 0 .. UINT16_MAX, level : 0 .. LEVEL_MAX,
           name : Names, load : Names]
Tasks  == {"main", "rx", "term"}

\* The bytes of a file, read as the parser reads them.
Sections == [f \in Files |-> SectionsOf(Bytes[f])]

ASSUME CircuitMapAssumption ==
  /\ Bytes \in [Files -> Seq(0 .. UINT8_MAX)]
  /\ Meant \in [Files -> Seq(Output) \cup {NoRecords}]
  /\ NoFile \notin Files
  /\ Circuits \subseteq 0 .. UINT16_MAX
  /\ Fallback \in [Circuits -> 0 .. 8]
  /\ ZCF_MAP_MAX \in Nat
  /\ NvsFails \in BOOLEAN /\ LoadsFail \in BOOLEAN /\ Overlap \in BOOLEAN

ASSUME DipswitchAssumption ==
  /\ CZONE_DEVICE_DIPSWITCH \in Dipswitches
  /\ Dipswitches \subseteq 0 .. UINT8_MAX
  /\ Unset \notin Dipswitches

VARIABLES
  zcf,           \* the file ZCF_PATH
  nvs,           \* the dipswitch in NVS
  s_dipswitch, s_inited,
  s_map, s_map_count, s_loaded,
  pc,            \* pc[t]: where task t is
  file,          \* file[t]: the one task t has in its buffer
  section,       \* section[t], output[t]: what it parses
  output,
  dipswitch,     \* the argument of the terminal's command
  stored,        \* stored[t]: what device_config_init has read from NVS
  switch,        \* the circuit of the press the rx task handles, or 0
  index,         \* its place in the map
  channels,      \* the relays it has found
  steady,        \* history: nothing else has changed or loaded the map since the press
  failed,        \* history: the last load found no memory, or could not read
  late,          \* history: since the last load began, device_config_init has read NVS at last
  drifted,       \* history: device_config_init has put back an overtaken value
  expected       \* history: the dipswitches that may be in use

settings == <<nvs, s_dipswitch, s_inited, dipswitch, stored, drifted, expected>>
map      == <<s_map, s_map_count, s_loaded, failed, late>>
parse    == <<file, section, output>>
press    == <<switch, index, channels, steady>>
vars     == <<zcf, settings, map, pc, parse, press>>

Chan(d) == INSTANCE ChannelMap WITH Dipswitch <- d

Free == [circuit |-> 0, relay |-> 0, level |-> 0, name |-> <<>>, load |-> <<>>]

\* What app_main finds after a reset.  The terminal runs before device_config_init,
\* the CAN tasks only after it.
Reset ==
  /\ s_dipswitch = CZONE_DEVICE_DIPSWITCH
  /\ s_inited = FALSE
  /\ s_map = [i \in 1 .. ZCF_MAP_MAX |-> Free]
  /\ s_map_count = 0
  /\ s_loaded = FALSE
  /\ pc = [t \in Tasks |-> CASE t = "main" -> "init" [] t = "rx" -> "off" [] OTHER -> "idle"]
  /\ file = [t \in Tasks |-> NoFile]
  /\ section = [t \in Tasks |-> 1]
  /\ output = [t \in Tasks |-> 1]
  /\ dipswitch = CZONE_DEVICE_DIPSWITCH
  /\ stored = [t \in Tasks |-> Unset]
  /\ switch = 0
  /\ index = 1
  /\ channels = <<>>
  /\ steady = FALSE
  /\ failed = FALSE
  /\ late = FALSE
  /\ drifted = FALSE

InUse(d) == IF d = Unset THEN CZONE_DEVICE_DIPSWITCH ELSE d

Init ==
  /\ zcf \in Files \cup {NoFile}
  /\ nvs \in Dipswitches \cup {Unset}
  /\ expected = {InUse(nvs)}
  /\ Reset

Goto(t, l) == pc' = [pc EXCEPT ![t] = l]

Loading(t) == pc[t] \in {"load", "read", "section", "output", "count"}
MayLoad(t) == Overlap \/ \A u \in Tasks \ {t} : ~Loading(u)
AtRest(t)  == pc[t] \in {"off", "idle", "look", "resolve", "switch"}
-----------------------------------------------------------------------------
(* The dipswitch: device_config.c *)

\* The terminal command "czone dipswitch".
SetDipswitch(d) ==
  /\ pc["term"] = "idle"
  /\ dipswitch' = d
  /\ Goto("term", IF s_inited THEN "persist" ELSE "init")
  /\ UNCHANGED <<zcf, nvs, s_dipswitch, s_inited, stored, drifted, expected, map, parse, press>>

\* device_config_init, by app_main, and by the terminal if it comes first.
AlreadyInited(t) ==
  /\ pc[t] = "init"
  /\ s_inited
  /\ Goto(t, IF t = "main" THEN "start" ELSE "persist")
  /\ UNCHANGED <<zcf, settings, map, parse, press>>

\* It may find NVS full or of another version, and erase it, or fail to read it
\* and go on without.
ReadNvs(t) ==
  /\ pc[t] = "init"
  /\ ~s_inited
  /\ \/ /\ nvs' = nvs
        /\ UNCHANGED expected
        /\ \E d \in {nvs} \cup (IF NvsFails THEN {Unset} ELSE {}) :
             stored' = [stored EXCEPT ![t] = d]
     \/ /\ NvsFails
        /\ nvs' = Unset
        /\ expected' = {CZONE_DEVICE_DIPSWITCH}
        /\ stored' = [stored EXCEPT ![t] = Unset]
  /\ Goto(t, "assign")
  /\ UNCHANGED <<zcf, s_dipswitch, s_inited, dipswitch, drifted, map, parse, press>>

\* Only "czone dipswitch" tries again.
NvsInitFails(t) ==
  /\ NvsFails
  /\ pc[t] = "init"
  /\ ~s_inited
  /\ Goto(t, IF t = "main" THEN "start" ELSE "idle")
  /\ UNCHANGED <<zcf, settings, map, parse, press>>

AssignStored(t) ==
  /\ pc[t] = "assign"
  /\ s_dipswitch' = IF stored[t] # Unset THEN stored[t] ELSE s_dipswitch
  /\ drifted' = (drifted \/ stored[t] # nvs)
  /\ s_inited' = TRUE
  /\ stored' = [stored EXCEPT ![t] = Unset]
  /\ late' = (late \/ pc["main"] \notin {"init", "assign", "start", "reload"})
  /\ Goto(t, IF t = "main" THEN "start" ELSE "persist")
  /\ UNCHANGED <<zcf, nvs, dipswitch, expected, s_map, s_map_count, s_loaded, failed,
                  parse, press>>

\* app_main goes on: the CAN tasks start, and it loads the map itself.
StartTasks ==
  /\ pc["main"] = "start"
  /\ pc' = [pc EXCEPT !["main"] = "reload", !["rx"] = "idle"]
  /\ UNCHANGED <<zcf, settings, map, parse, press>>

\* Mutant of Persist: nothing is committed.
PersistNothing ==
  /\ pc["term"] = "persist"
  /\ expected' = {dipswitch}
  /\ Goto("term", "use")
  /\ UNCHANGED <<zcf, nvs, s_dipswitch, s_inited, dipswitch, stored, drifted, map, parse, press>>

\* device_config_set_dipswitch: the new value is in NVS before it is used.
Persist ==
  /\ pc["term"] = "persist"
  /\ nvs' = dipswitch
  /\ expected' = expected \cup {dipswitch}
  /\ Goto("term", "use")
  /\ UNCHANGED <<zcf, s_dipswitch, s_inited, dipswitch, stored, drifted, map, parse, press>>

\* A failed nvs_open or nvs_set_u8 has stored nothing, a failed nvs_commit may have.
PersistFails ==
  /\ NvsFails
  /\ pc["term"] = "persist"
  /\ \/ UNCHANGED <<nvs, expected>>
     \/ nvs' = dipswitch /\ expected' = expected \cup {dipswitch}
  /\ Goto("term", "idle")
  /\ UNCHANGED <<zcf, s_dipswitch, s_inited, dipswitch, stored, drifted, map, parse, press>>

UseDipswitch ==
  /\ pc["term"] = "use"
  /\ s_dipswitch' = dipswitch
  /\ expected' = {dipswitch}
  /\ drifted' = FALSE
  /\ steady' = FALSE
  /\ Goto("term", "reload")
  /\ UNCHANGED <<zcf, nvs, s_inited, dipswitch, stored, map, parse,
                  switch, index, channels>>
-----------------------------------------------------------------------------
(* Who loads the map *)

\* handle_zcf_datablock commits an upload.
CommitUpload(f) ==
  /\ pc["rx"] = "idle" /\ MayLoad("rx")
  /\ zcf' = f
  /\ Goto("rx", "load")
  /\ UNCHANGED <<settings, map, parse, press>>

\* app_main, once the tasks run, and the terminal, after a change of the dipswitch.
Reload(t) ==
  /\ pc[t] = "reload" /\ MayLoad(t)
  /\ steady' = FALSE
  /\ Goto(t, "load")
  /\ UNCHANGED <<zcf, settings, map, parse, switch, index, channels>>

\* The power fails, or "reboot" restarts the module.
PowerLoss ==
  /\ s_dipswitch' = CZONE_DEVICE_DIPSWITCH
  /\ s_inited' = FALSE
  /\ s_map' = [i \in 1 .. ZCF_MAP_MAX |-> Free]
  /\ s_map_count' = 0
  /\ s_loaded' = FALSE
  /\ pc' = [t \in Tasks |-> CASE t = "main" -> "init" [] t = "rx" -> "off" [] OTHER -> "idle"]
  /\ file' = [t \in Tasks |-> NoFile]
  /\ section' = [t \in Tasks |-> 1]
  /\ output' = [t \in Tasks |-> 1]
  /\ dipswitch' = CZONE_DEVICE_DIPSWITCH
  /\ stored' = [t \in Tasks |-> Unset]
  /\ switch' = 0
  /\ index' = 1
  /\ channels' = <<>>
  /\ steady' = FALSE
  /\ failed' = FALSE
  /\ late' = FALSE
  /\ drifted' = FALSE
  /\ UNCHANGED <<zcf, nvs, expected>>
-----------------------------------------------------------------------------
(* zcf_config_load *)

Load(t) ==
  /\ pc[t] = "load"
  /\ s_map_count' = 0
  /\ s_loaded' = FALSE
  /\ failed' = FALSE
  /\ late' = FALSE
  /\ Goto(t, "read")
  /\ UNCHANGED <<zcf, settings, s_map, parse, press>>

ReadFile(t) ==
  /\ pc[t] = "read"
  /\ IF zcf = NoFile \/ ~Parsable(Bytes[zcf])
     THEN Goto(t, "idle") /\ UNCHANGED parse
     ELSE /\ file' = [file EXCEPT ![t] = zcf]
          /\ Goto(t, "section")
          /\ UNCHANGED <<section, output>>
  /\ UNCHANGED <<zcf, settings, map, press>>

ReadFails(t) ==
  /\ LoadsFail
  /\ pc[t] = "read"
  /\ zcf # NoFile
  /\ failed' = TRUE
  /\ Goto(t, "idle")
  /\ UNCHANGED <<zcf, settings, s_map, s_map_count, s_loaded, late, parse, press>>

\* Mutant of OpenSection: what a rejected section has left stays.
OpenSectionAppend(t) ==
  /\ pc[t] = "section"
  /\ section[t] <= Len(Sections[file[t]])
  /\ output' = [output EXCEPT ![t] = 1]
  /\ Goto(t, "output")
  /\ UNCHANGED <<zcf, settings, map, file, section, press>>

OpenSection(t) ==
  /\ pc[t] = "section"
  /\ section[t] <= Len(Sections[file[t]])
  /\ s_map_count' = 0
  /\ output' = [output EXCEPT ![t] = 1]
  /\ Goto(t, "output")
  /\ UNCHANGED <<zcf, settings, s_map, s_loaded, failed, late, file, section, press>>

Candidate(t) == Sections[file[t]][section[t]]
Current(t)   == Candidate(t).outputs[output[t]]

RelayOf(o) == Chan(s_dipswitch)!RelayForChannel(o.address)

\* Mutant of Ours: a channel this module does not drive goes into the map.
OursAnyChannel(o) == o.address \div 256 = s_dipswitch

Ours(o) == RelayOf(o) # 0

EntryOf(o) == [circuit |-> o.circuit, relay |-> RelayOf(o), level |-> o.level,
               name |-> o.name, load |-> o.load]

\* parse_control_records: an entry is filled in, then counted.
StoreOutput(t) ==
  /\ pc[t] = "output"
  /\ output[t] <= Len(Candidate(t).outputs)
  /\ Ours(Current(t)) /\ s_map_count < ZCF_MAP_MAX
  /\ s_map' = [s_map EXCEPT ![s_map_count + 1] = EntryOf(Current(t))]
  /\ Goto(t, "count")
  /\ UNCHANGED <<zcf, settings, s_map_count, s_loaded, failed, late, parse, press>>

CountOutput(t) ==
  /\ pc[t] = "count"
  /\ s_map_count' = s_map_count + 1
  /\ output' = [output EXCEPT ![t] = @ + 1]
  /\ Goto(t, "output")
  /\ UNCHANGED <<zcf, settings, s_map, s_loaded, failed, late, file, section, press>>

SkipOutput(t) ==
  /\ pc[t] = "output"
  /\ output[t] <= Len(Candidate(t).outputs)
  /\ ~(Ours(Current(t)) /\ s_map_count < ZCF_MAP_MAX)
  /\ output' = [output EXCEPT ![t] = @ + 1]
  /\ UNCHANGED <<zcf, settings, map, pc, file, section, press>>

RejectSection(t) ==
  /\ pc[t] = "output"
  /\ output[t] > Len(Candidate(t).outputs)
  /\ ~Candidate(t).exact
  /\ section' = [section EXCEPT ![t] = @ + 1]
  /\ Goto(t, "section")
  /\ UNCHANGED <<zcf, settings, map, file, output, press>>

\* The first section that is exact is the one; what the parser held is freed.
Finish(t) ==
  /\ \/ /\ pc[t] = "output"
        /\ output[t] > Len(Candidate(t).outputs)
        /\ Candidate(t).exact
        /\ s_loaded' = TRUE
     \/ /\ pc[t] = "section"
        /\ section[t] > Len(Sections[file[t]])
        /\ s_loaded' = FALSE
  /\ file' = [file EXCEPT ![t] = NoFile]
  /\ section' = [section EXCEPT ![t] = 1]
  /\ output' = [output EXCEPT ![t] = 1]
  /\ Goto(t, "idle")
  /\ UNCHANGED <<zcf, settings, s_map, s_map_count, failed, late, press>>
-----------------------------------------------------------------------------
(* handle_ss_command: the relays of a circuit *)

PressSwitch(s) ==
  /\ pc["rx"] = "idle"
  /\ switch' = s
  /\ steady' = (AtRest("main") /\ AtRest("term"))
  /\ Goto("rx", "look")
  /\ UNCHANGED <<zcf, settings, map, parse, index, channels>>

\* Mutant of LookUp: the search ends at the first entry of the circuit.
LookUpFirst ==
  /\ pc["rx"] = "look"
  /\ index <= s_map_count /\ index <= ZCF_MAP_MAX
  /\ LET found == s_map[index].circuit = switch % 256
     IN /\ channels' = IF found THEN <<s_map[index].relay>> ELSE channels
        /\ index' = IF found THEN s_map_count + 1 ELSE index + 1
  /\ UNCHANGED <<zcf, settings, map, pc, parse, switch, steady>>

\* zcf_config_relays_for_circuit compares the low byte of the circuit number.
LookUp ==
  /\ pc["rx"] = "look"
  /\ index <= s_map_count /\ index <= ZCF_MAP_MAX
  /\ Len(channels) < BOARD_RELAY_COUNT
  /\ channels' = IF s_map[index].circuit = switch % 256
                 THEN Append(channels, s_map[index].relay) ELSE channels
  /\ index' = index + 1
  /\ UNCHANGED <<zcf, settings, map, pc, parse, switch, steady>>

LookedUp ==
  /\ pc["rx"] = "look"
  /\ index > s_map_count \/ Len(channels) = BOARD_RELAY_COUNT
  /\ Goto("rx", "resolve")
  /\ UNCHANGED <<zcf, settings, map, parse, press>>

UseMap ==
  /\ pc["rx"] = "resolve"
  /\ channels # <<>>
  /\ Goto("rx", "switch")
  /\ UNCHANGED <<zcf, settings, map, parse, press>>

\* Mutant of UseFallback: also when a ZCF is loaded.
UseFallbackAlways ==
  /\ pc["rx"] = "resolve"
  /\ channels = <<>>
  /\ channels' = IF Fallback[switch] # 0 THEN <<Fallback[switch]>> ELSE <<>>
  /\ Goto("rx", "switch")
  /\ UNCHANGED <<zcf, settings, map, parse, switch, index, steady>>

\* The table of the bring-up, when no relay was found and no ZCF is loaded.
UseFallback ==
  /\ pc["rx"] = "resolve"
  /\ channels = <<>> /\ ~s_loaded
  /\ channels' = IF Fallback[switch] # 0 THEN <<Fallback[switch]>> ELSE <<>>
  /\ Goto("rx", "switch")
  /\ UNCHANGED <<zcf, settings, map, parse, switch, index, steady>>

UseNothing ==
  /\ pc["rx"] = "resolve"
  /\ channels = <<>> /\ s_loaded
  /\ Goto("rx", "switch")
  /\ UNCHANGED <<zcf, settings, map, parse, press>>

\* The relays found are switched, and the press is done with.
SwitchRelays ==
  /\ pc["rx"] = "switch"
  /\ switch' = 0 /\ index' = 1 /\ channels' = <<>> /\ steady' = FALSE
  /\ Goto("rx", "idle")
  /\ UNCHANGED <<zcf, settings, map, parse>>

Press == \/ \E s \in Circuits : PressSwitch(s)
         \/ LookUp \/ LookedUp \/ UseMap \/ UseFallback \/ UseNothing \/ SwitchRelays
-----------------------------------------------------------------------------
Loader(t) == \/ Load(t) \/ ReadFile(t) \/ ReadFails(t) \/ OpenSection(t) \/ StoreOutput(t) \/ CountOutput(t)
             \/ SkipOutput(t) \/ RejectSection(t) \/ Finish(t)

Settings(t) == AlreadyInited(t) \/ ReadNvs(t) \/ NvsInitFails(t) \/ AssignStored(t)

Next == \/ \E f \in Files : CommitUpload(f)
        \/ \E d \in Dipswitches : SetDipswitch(d)
        \/ \E t \in {"main", "term"} : Settings(t) \/ Reload(t)
        \/ Persist \/ PersistFails \/ UseDipswitch
        \/ StartTasks
        \/ \E t \in Tasks : Loader(t)
        \/ Press
        \/ PowerLoss

Spec == Init /\ [][Next]_vars
-----------------------------------------------------------------------------
Places ==
  {"off", "init", "assign", "start", "persist", "use", "reload", "idle", "load", "read",
   "section", "output", "count", "look", "resolve", "switch"}

TypeOK ==
  /\ zcf \in Files \cup {NoFile}
  /\ nvs \in Dipswitches \cup {Unset}
  /\ {s_dipswitch, dipswitch} \cup expected \subseteq Dipswitches
  /\ {s_inited, s_loaded, steady, failed, late, drifted} \subseteq BOOLEAN
  /\ s_map \in [1 .. ZCF_MAP_MAX -> Entry]
  /\ s_map_count \in 0 .. ZCF_MAP_MAX
  /\ pc \in [Tasks -> Places]
  /\ file \in [Tasks -> Files \cup {NoFile}]
  /\ section \in [Tasks -> Nat \ {0}]
  /\ output \in [Tasks -> Nat \ {0}]
  /\ stored \in [Tasks -> Dipswitches \cup {Unset}]
  /\ switch \in Circuits \cup {0}
  /\ index \in 1 .. ZCF_MAP_MAX + 1
  /\ channels \in Seq(1 .. 8)

\* The map of file f for this module: the outputs that are addressed to it, in
\* their order, as far as there is room.
HasRecords(f) == f # NoFile /\ Meant[f] # NoRecords
First(n, q) == SubSeq(q, 1, IF Len(q) < n THEN Len(q) ELSE n)
EntriesOf(o) == IF Ours(o) THEN <<EntryOf(o)>> ELSE <<>>
OwnOutputs(f) ==
  IF ~HasRecords(f) THEN <<>>
  ELSE First(ZCF_MAP_MAX, FlattenSeq([i \in DOMAIN Meant[f] |-> EntriesOf(Meant[f][i])]))
RelaysOf(f, c) ==
  LET own == OwnOutputs(f)
  IN First(BOARD_RELAY_COUNT,
           FlattenSeq([i \in DOMAIN own |-> IF own[i].circuit = c THEN <<own[i].relay>> ELSE <<>>]))

\* What a file was made of is what its first exact section says: nothing in the bytes
\* before it passes for another one.  The format cannot rule it out; for the files
\* that are loaded the two properties below depend on it.
Understood ==
  \A f \in Files :
    IF Parsable(Bytes[f]) /\ \E k \in DOMAIN Sections[f] : Sections[f][k].exact
    THEN /\ Meant[f] # NoRecords
         /\ \A k \in DOMAIN Sections[f] :
              Sections[f][k].exact /\ (\A j \in 1 .. k - 1 : ~Sections[f][j].exact) =>
                Meant[f] = Sections[f][k].outputs
    ELSE Meant[f] = NoRecords

\* What a file is like that is understood.  A record at o reaches over its name, its
\* commanders and its outputs, each as long as the bytes say, to the next one.
NameEnd(buf, o) == o + 8 + Byte(buf, o + 7)
OutsAt(buf, o)  == NameEnd(buf, o) + 4 + U32(buf, NameEnd(buf, o))

IsRecord(buf, o, next) ==
  /\ o + 8 <= next
  /\ NameEnd(buf, o) + 4 <= next
  /\ OutsAt(buf, o) + 6 <= next
  /\ OutsAt(buf, o) + 4 + U32(buf, OutsAt(buf, o)) = next

OutputsIn(buf, o) ==
  LET count == U16(buf, OutsAt(buf, o) + 4)
      at(j) == OutsAt(buf, o) + 6 + 5 * (j - 1)
  IN IF U32(buf, OutsAt(buf, o)) = 2 + 5 * count
     THEN [j \in 1 .. count |->
             [circuit |-> Byte(buf, o), address |-> U16(buf, at(j)),
              level   |-> U16(buf, at(j) + 2) % (LEVEL_MAX + 1),
              name    |-> NameOf(buf, o + 8, Byte(buf, o + 7)),
              load    |-> LoadName(buf, U16(buf, at(j)))]]
     ELSE <<>>

\* The section with its marker at i has its records, and its end, at r.
IsSection(buf, i, r) ==
  /\ i \in 6 .. Len(buf) - 4
  /\ Byte(buf, i) = 8 /\ Byte(buf, i + 2) = 5 /\ Byte(buf, i + 3) = 14
  /\ U16(buf, i - 2) # 0 /\ Len(r) = U16(buf, i - 2) + 1
  /\ r[1] = i + 4 /\ r[Len(r)] = i - 2 + U32(buf, i - 6) /\ r[Len(r)] <= Len(buf)
  /\ \A k \in 1 .. Len(r) - 1 : IsRecord(buf, r[k], r[k + 1])

NoneExact(buf, n) == \A j \in 6 .. n : Marked(buf, j) => ~SectionAt(buf, j).exact

\* The bytes of file f have one section, with its marker at i and its records at r,
\* and nothing before it that parses; or nothing at all that does.
LaidOut(f, i, r) ==
  IF Meant[f] = NoRecords
  THEN Parsable(Bytes[f]) => NoneExact(Bytes[f], Len(Bytes[f]) - 4)
  ELSE Parsable(Bytes[f]) /\ IsSection(Bytes[f], i, r) /\ NoneExact(Bytes[f], i - 1)

OutputsAt(buf, r) == FlattenSeq([k \in 1 .. Len(r) - 1 |-> OutputsIn(buf, r[k])])

Legible(marker, starts) ==
  \A f \in Files :
    /\ LaidOut(f, marker[f], starts[f])
    /\ Meant[f] # NoRecords => Meant[f] = OutputsAt(Bytes[f], starts[f])

\* "Safe to call repeatedly (replaces the previous mapping)" (zcf_config.h): at
\* rest the map is what the stored file was made of, for the present dipswitch,
\* whatever was loaded, and rejected, before, and whatever in the bytes of the file
\* looks like a section.  A load that fails leaves no part of a map.
MapIsOfFile ==
  ~late /\ (\A t \in Tasks : AtRest(t)) =>
    IF failed
    THEN s_map_count = 0 /\ ~s_loaded
    ELSE /\ s_loaded <=> HasRecords(zcf)
         /\ (s_loaded \/ zcf = NoFile) => SubSeq(s_map, 1, s_map_count) = OwnOutputs(zcf)

\* The dipswitch in use is the last one the terminal has reported as saved, through
\* any loss of power; where a command was cut short or has failed, it is that one
\* or the one before.  Excepted are a start that cannot read NVS, and a command that
\* overtakes app_main between its reading and its using the stored value.
DipswitchKept == s_inited /\ ~drifted => s_dipswitch \in expected

\* A press switches exactly the relays the stored file gives the circuit, and
\* those of the table of the bring-up only where there is no file ("used solely
\* before any ZCF is present", temporary_ss_switch_to_relay); unless another task
\* loads the map meanwhile, or the load has failed, or the file has no control
\* records (a press then uses what the last rejected section has left in the map).
PressFollowsFile ==
  [][/\ UseMap \/ UseFallback \/ UseNothing
     /\ steady /\ ~failed /\ ~late
     /\ zcf = NoFile \/ HasRecords(zcf)
     => channels' = IF HasRecords(zcf) THEN RelaysOf(zcf, switch % 256)
                    ELSE IF Fallback[switch] # 0 THEN <<Fallback[switch]>> ELSE <<>>]_vars
=============================================================================
