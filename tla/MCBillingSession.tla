-------------------------- MODULE MCBillingSession --------------------------
(***************************************************************************)
(* TLC instances of BillingSession.                                        *)
(***************************************************************************)
EXTENDS BillingSession, TLC

Symmetry == Permutations(Sessions)

=============================================================================
