------------------------- MODULE MCCredentialRefresh -------------------------
(***************************************************************************)
(* Instances of CredentialRefresh: two callers are enough for a leader and *)
(* a waiter, three tokens for a rotation and a new consent.                *)
(***************************************************************************)
EXTENDS CredentialRefresh
=============================================================================
