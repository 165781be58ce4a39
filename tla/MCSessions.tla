----------------------------- MODULE MCSessions -----------------------------
(* Instances of Sessions for TLC.                                          *)
EXTENDS Sessions, TLC

AnyOrder == Permutations(Logins) \cup Permutations(Logouts)
=============================================================================
