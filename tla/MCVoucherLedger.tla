-------------------------- MODULE MCVoucherLedger --------------------------
(***************************************************************************)
(* Small instances of VoucherLedger for TLC: one fee payment of 2 made on  *)
(* day 0 and one refund of half of it, and the clerks and listeners each   *)
(* run lets interleave.                                                    *)
(***************************************************************************)
EXTENDS VoucherLedger, TLC

CONSTANTS a, b, c

MCAmount == [x \in Payments |-> 2]
MCPaidOn == [x \in Payments |-> 0]
MCRefundOf == [r \in Refunds |-> CHOOSE x \in Payments : TRUE]
MCRefundAmount == [r \in Refunds |-> 1]

DayOrTwo == {<<0, 0>>, <<1, 1>>, <<0, 1>>}

BooksOps == [p \in Procs |-> IF p = a THEN {"create", "update", "post", "cancel"} ELSE
                            IF p = b THEN {"payment", "refund"}
                                     ELSE {"cancelAuto", "payment", "refund"}]
EveryOp == [p \in Procs |-> OpNames]
AnyVoucher == Permutations(Vouchers)
AnyVoucherAnyPeriod == Permutations(Vouchers) \cup Permutations(Periods)
=============================================================================
