----------------------------- MODULE MCSession ------------------------------
(* Session at both ends of a tunnel, with queues small enough to fill up.    *)
EXTENDS Session

BothRoles == {"server", "client"}
ServerRole == {"server"}
ClientRole == {"client"}
=============================================================================
