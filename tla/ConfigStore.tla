----------------------------- MODULE ConfigStore -----------------------------
(***************************************************************************)
(* What the module promises a configuration tool about the ZCF, stated     *)
(* without blocks, files or acknowledgements: a client asks for a value to *)
(* be stored; the module takes responsibility for a value a client asked   *)
(* for; a value it answers for is committed whole and then applied; and a  *)
(* client is told "done" only of a value that is saved or answered for.    *)
(*                                                                         *)
(* The module may answer for a value before it has committed it:           *)
(* handle_zcf_datablock acknowledges the block that completes the file     *)
(* before it validates and renames it.  Everything it answers for must     *)
(* then be committed without further help from the client.                 *)
(***************************************************************************)
CONSTANTS Clients,   \* the configuration tools
          Values,    \* what can be stored
          Nothing    \* no value

VARIABLES wanted,    \* wanted[t]: the value client t waits for, or Nothing
          accepted,  \* the value the module answers for, or Nothing
          saved,     \* the value that survives a restart
          applied    \* the value the module works with

csvars == <<wanted, accepted, saved, applied>>

Init == /\ wanted = [t \in Clients |-> Nothing]
        /\ accepted = Nothing
        /\ saved \in Values \cup {Nothing}
        /\ applied = saved

Request(t, v) == /\ wanted[t] = Nothing
                 /\ wanted' = [wanted EXCEPT ![t] = v]
                 /\ UNCHANGED <<accepted, saved, applied>>

Accept(t) == /\ accepted = Nothing
             /\ wanted[t] # Nothing
             /\ accepted' = wanted[t]
             /\ UNCHANGED <<wanted, saved, applied>>

Commit == /\ accepted # Nothing
          /\ saved' = accepted
          /\ accepted' = Nothing
          /\ UNCHANGED <<wanted, applied>>

Apply == /\ applied' = saved
         /\ UNCHANGED <<wanted, accepted, saved>>

Confirm(t) == /\ wanted[t] \in {saved, accepted} \ {Nothing}
              /\ wanted' = [wanted EXCEPT ![t] = Nothing]
              /\ UNCHANGED <<accepted, saved, applied>>

Next == \/ \E t \in Clients : (\E v \in Values : Request(t, v)) \/ Accept(t) \/ Confirm(t)
        \/ Commit
        \/ Apply

Safety == Init /\ [][Next]_csvars

Spec == Safety /\ WF_csvars(Commit) /\ WF_csvars(Apply)
=============================================================================
