------------------------------ MODULE MCLedger ------------------------------
(***************************************************************************)
(* Instances of Ledger for TLC: a plain append, and the two-event batch of *)
(* record_runtime_signal("RED").                                           *)
(***************************************************************************)
EXTENDS Ledger, TLC

MCEventType == {"note", "csm_red", "red_breach"}

MCBatches == {<<"note">>, <<"csm_red", "red_breach">>}

MCWriters == {"cli", "chat"}
MCReaders == {"reporter"}
=============================================================================
