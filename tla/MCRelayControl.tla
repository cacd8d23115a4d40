---------------------------- MODULE MCRelayControl ----------------------------
(* RelayControl on a small instance: a circuit of two relays, one of each of    *)
(* the two groups of channels.                                                  *)
EXTENDS RelayControl

Bank(on, off) == [r \in Relays |-> IF r \in on THEN "on" ELSE IF r \in off THEN "off" ELSE "keep"]

MCCircuits     == {<<1, 5>>}
MCBankCommands == {Bank({2}, {3})}
MCTermOps      == {Toggle(3)}
=============================================================================
