----------------------------- MODULE MCSessions -----------------------------
(* Instances of Sessions for TLC. *)
EXTENDS Sessions, TLC

\* Devices, sessions and request slots are interchangeable.
Symmetry == Permutations(Device) \cup Permutations(Session) \cup Permutations(Req)
=============================================================================
