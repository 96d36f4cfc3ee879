------------------------------ MODULE MCTunnel ------------------------------
(***************************************************************************)
(* Small instances of Tunnel for TLC.  The response is longer than the     *)
(* request.                                                                *)
(***************************************************************************)
EXTENDS Tunnel

Long == [client |-> 2, server |-> 5]
Short == [client |-> 2, server |-> 3]
=============================================================================
