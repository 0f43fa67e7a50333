--------------------------- MODULE MCCredentials ---------------------------
(* Instances of Credentials for TLC. *)
EXTENDS Credentials

MCModes == {"chainctl", "file", "literal"}
=============================================================================
