---------------------------- MODULE MCTcpSession ----------------------------
(* Four messages in batches of two: a batch can be full, short, or cut off   *)
(* in the middle; and four bytes: two frames, or one that needs a second     *)
(* chunk for its header or its rest.                                         *)
EXTENDS TcpSession
=============================================================================
