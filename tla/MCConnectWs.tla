---------------------------- MODULE MCConnectWs ----------------------------
(* The instance of ConnectWs is given by the .cfg files alone.              *)
EXTENDS ConnectWs
=============================================================================
