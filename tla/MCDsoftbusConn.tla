--------------------------- MODULE MCDsoftbusConn ---------------------------
(***************************************************************************)
(* DsoftbusConn with two devices.                                           *)
(***************************************************************************)
EXTENDS DsoftbusConn
=============================================================================
