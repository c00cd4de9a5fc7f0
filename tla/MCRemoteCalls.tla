---------------------------- MODULE MCRemoteCalls ----------------------------
(* A remote agent called and a page fetched over one bridge, closed once.  *)
EXTENDS RemoteCalls

CONSTANTS a1, f1
=============================================================================
