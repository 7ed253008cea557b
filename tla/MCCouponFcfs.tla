---------------------------- MODULE MCCouponFcfs ----------------------------
(***************************************************************************)
(* Model values for CouponFcfs.  The schedule keeps the shape of the      *)
(* scripts' stages (ramp up from the shortcut's startVUs of 1, hold, ramp  *)
(* down to 0) at a scale TLC can explore: three VUs, one tick per stage.   *)
(***************************************************************************)
EXTENDS CouponFcfs

MCStages == << Stage(1, 3), Stage(1, 3), Stage(1, 0) >>

(* Ramp up to three VUs and down again. *)
MCShortStages == << Stage(1, 3), Stage(1, 0) >>

(* The fixed pool of coupon-fcfs-quick/-spike, cut to two ids. *)
MCUserIds == << 1, 2 >>

(* A user-id range wider than the target's database, as config.userIdEnd  *)
(* defaults to 1000 whatever the database holds.                          *)
MCKnownUsers == {1, 2}
=============================================================================
