---------------------------- MODULE DrawAccount ----------------------------
(***************************************************************************)
(* What recoverable base draw promises a rep, month by month: at least the *)
(* base draw is paid, every unit paid beyond what was earned is an advance,*)
(* a surplus pays advances back before it is paid out, and nothing else    *)
(* ever changes the advance (summarizeRepCommission, seen over a history   *)
(* of locked months).                                                      *)
(***************************************************************************)
EXTENDS Integers

CONSTANTS Reps, BaseDraw

VARIABLES
    settled,    \* number of months settled
    earned,     \* commission earned by each rep over the settled months
    paid,       \* cash paid to each rep over the settled months
    advance     \* draw paid in advance and not yet recovered

account == <<settled, earned, paid, advance>>

Init ==
    /\ settled = 0
    /\ earned = [r \in Reps |-> 0]
    /\ paid = [r \in Reps |-> 0]
    /\ advance = [r \in Reps |-> 0]

(* One rep's month, given what it earned and was paid in it. *)
FairMonth(r, e, p) ==
    /\ p >= BaseDraw[r]
    /\ advance'[r] = advance[r] + p - e
    /\ advance'[r] >= 0
    /\ e <= BaseDraw[r] => p = BaseDraw[r]
    /\ e > BaseDraw[r] /\ p > BaseDraw[r] => advance'[r] = 0

Settle ==
    /\ settled' = settled + 1
    /\ \A r \in Reps : FairMonth(r, earned'[r] - earned[r], paid'[r] - paid[r])

Spec == Init /\ [][Settle]_account
=============================================================================
