---- MODULE MCCredentialStore ----
(* Small instances of CredentialStore for TLC. *)
EXTENDS CredentialStore

CONSTANTS bot, cli
====
