----------------------------- MODULE MCDispatch -----------------------------
(* Limits gives each run the operations its question needs.                 *)
EXTENDS Dispatch

Limits(f) == [op \in Ops |-> IF op \in DOMAIN f THEN f[op] ELSE 0]

CallLimit     == Limits([call |-> 2, timer |-> 1, fork |-> 1, send |-> 1])
TimerLimit    == Limits([timer |-> 2, expire |-> 1, remove |-> 1, fork |-> 1, send |-> 1])
TwoUsersLimit == Limits([timer |-> 2])
WrapLimit     == Limits([timer |-> 3, expire |-> 1])
SlowLoopLimit == Limits([call |-> 1, timer |-> 1, expire |-> 2])
=============================================================================
