------------------------------ MODULE MCEthRx ------------------------------
(* TLC instances of EthRx.  The pbufs are not made symmetric: symmetry is  *)
(* not sound for PoolRefilled.                                            *)
EXTENDS EthRx
=============================================================================
