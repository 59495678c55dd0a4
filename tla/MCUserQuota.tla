---------------------------- MODULE MCUserQuota ----------------------------
(* TLC instance of UserQuota.                                              *)
EXTENDS UserQuota
=============================================================================
