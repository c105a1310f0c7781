---------------------------- MODULE MCStateLock ----------------------------
(***************************************************************************)
(* Small instances of StateLock for TLC.  The constants, and with them     *)
(* which machines are described, are in the configurations.                *)
(***************************************************************************)
EXTENDS StateLock, TLC

Symmetric == Permutations(Proc)
=============================================================================
