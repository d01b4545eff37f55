---------------------------- MODULE MCUrlOwner ----------------------------
(* Three sources, two addresses, two attempts of a restoration.           *)
EXTENDS UrlOwner
============================================================================
