------------------------------ MODULE ChannelMap ------------------------------
(***************************************************************************)
(* Which output channel a relay is, and what the three status messages say *)
(* about a set of relays that are on.  The module type is a compile-time   *)
(* constant: types 28 and 31 number their channels 12..15, 0..3, any other *)
(* numbers them 0..7.                                                      *)
(***************************************************************************)
EXTENDS Naturals

CONSTANTS
  CZONE_DEVICE_MODULE_TYPE,   \* the kind of module this one presents itself as
  Dipswitch                   \* its address, the high byte of its channel addresses

ASSUME ChannelMapAssumption ==
  /\ CZONE_DEVICE_MODULE_TYPE \in 0 .. 255
  /\ Dipswitch \in 0 .. 255

BOARD_RELAY_COUNT == 8
SWITCHES_PER_BANK == 28
Relays   == 1 .. BOARD_RELAY_COUNT
Switches == 0 .. SWITCHES_PER_BANK - 1

Control1 == CZONE_DEVICE_MODULE_TYPE \in {28, 31}

\* The relay of a 16-bit channel address, or 0.
RelayForChannel(address) ==
  LET ch == address % 256
  IN IF address \div 256 # Dipswitch THEN 0
     ELSE IF Control1
     THEN IF ch \in 12 .. 15 THEN ch - 11 ELSE IF ch < 4 THEN ch + 5 ELSE 0
     ELSE IF ch < BOARD_RELAY_COUNT THEN ch + 1 ELSE 0

ChannelForRelay(r) ==
  IF Control1
  THEN IF r <= 4 THEN r + 11 ELSE r - 5
  ELSE r - 1

\* PGN 65284: the bits of the output channels that are on.
ChannelBits(mask) == {ChannelForRelay(r) : r \in {q \in mask : ChannelForRelay(q) < 32}}

\* PGN 127501: the state of every switch of the bank, by output channel.
SwitchBankStatus(mask) ==
  LET present == {r \in Relays : ChannelForRelay(r) < SWITCHES_PER_BANK}
  IN [sw \in Switches |->
        IF \E r \in present : ChannelForRelay(r) = sw
        THEN IF \E r \in present \cap mask : ChannelForRelay(r) = sw THEN "on" ELSE "off"
        ELSE "unavailable"]

\* PGN 130817: one record per relay, in the order of the relays.
OiRecords(mask) == mask
=============================================================================
