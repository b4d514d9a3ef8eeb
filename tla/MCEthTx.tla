------------------------------ MODULE MCEthTx ------------------------------
(* TLC instances of EthTx. *)
EXTENDS EthTx
=============================================================================
