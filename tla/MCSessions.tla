------------------------------- MODULE MCSessions -------------------------------
(***************************************************************************)
(* Instances of Sessions, and of the limiter that stands before its        *)
(* routes, for TLC.                                                        *)
(***************************************************************************)
EXTENDS Sessions, RateLimit, TLC

CONSTANTS ana, w1, w2, login, c1, c2

(* What is used together: sessions alone; accounts closed under them;      *)
(* passwords; roles; and the limiter by itself.                            *)
Mix(ops, n, k) == [ops |-> ops, tokens |-> n, orders |-> k]
MCLimiter == Mix({}, 0, 0)
MCMixes ==
  {Mix({"login", "refresh"}, 4, 0),
   Mix({"login", "refresh", "logout"}, 3, 0),
   Mix({"login", "refresh", "disable", "enable", "delete"}, 2, 2),
   Mix({"login", "reset", "disable", "delete", "revokeAll"}, 2, 2),
   Mix({"login", "guess", "reset"}, 3, 0),
   Mix({"login", "refresh", "changeRole", "use"}, 2, 2),
   MCLimiter}
MCMax == [k \in Buckets |-> 2]
MCWindow == [k \in Buckets |-> 3]
Symmetry == Permutations(Workers)

(* What a request does is possible whenever the limiter lets it through,   *)
(* so that its steps and those of the handlers are looked at apart.        *)
MCInit == Init /\ LimitInit
MCNext ==
  \/ mix # MCLimiter /\ Next /\ UNCHANGED limitVars
  \/ mix = MCLimiter /\ LimitNext /\ UNCHANGED vars
MCSpec == MCInit /\ [][MCNext]_<<vars, limitVars>>
================================================================================
