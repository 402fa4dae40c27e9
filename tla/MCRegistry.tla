------------------------------ MODULE MCRegistry ------------------------------
(* Three slots that run through their generations up to retirement, three    *)
(* own serials of which the first two are left to mint, one other minter.    *)
EXTENDS Registry
=============================================================================
