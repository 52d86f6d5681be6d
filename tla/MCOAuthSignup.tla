--------------------------- MODULE MCOAuthSignup ---------------------------
(***************************************************************************)
(* OAuthSignup for TLC: an app and a web page register one email address,  *)
(* each with its own key.                                                  *)
(***************************************************************************)
EXTENDS OAuthSignup

MCEmailOf == [r \in Regs |-> "email"]
MCKeyOf == [r \in Regs |-> r]
============================================================================
