-------------------------- MODULE MCCredentialKeys --------------------------
(* One request at a time, as the rotation asks for.  A server's credential,    *)
(* which is rotated, and the data credential of a database, which is not.     *)
EXTENDS CredentialKeys
=============================================================================
