---------------------- MODULE MCSubscriptionLifecycle ----------------------
(***************************************************************************)
(* TLC instances of SubscriptionLifecycle.                                 *)
(***************************************************************************)
EXTENDS SubscriptionLifecycle, TLC

CONSTANTS p1, p2, o1, o2, v1, vip, pro, base, none

\* Two plans that upgrade to different groups, a long and a short one.
TwoGroups == p1 :> vip @@ p2 :> pro
LongShort == p1 :> 2 @@ p2 :> 1

\* One plan.
OnePlan == p1 :> vip
OneTick == p1 :> 1
NoLimit == p1 :> 0

\* The first plan may be bought once.
FirstOnce == p1 :> 1 @@ p2 :> 0

OneOrder == o1 :> p1
BothFirst == o1 :> p1 @@ o2 :> p1
RenewsFirst == v1 :> p1
NoInvoicePlan == <<>>

\* Orders of one plan are interchangeable.
OrderSymmetry == Permutations(Orders)
=============================================================================
