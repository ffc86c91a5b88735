---------------------------- MODULE MCSmsOutbox ----------------------------
(* SmsOutbox with interchangeable replies and poll cycles. *)
EXTENDS SmsOutbox, TLC

CONSTANTS m1, m2, m3, a1, a2
Symmetric == Permutations(Msg) \cup Permutations(Agents)
=============================================================================
