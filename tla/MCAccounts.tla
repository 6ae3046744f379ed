----------------------------- MODULE MCAccounts -----------------------------
(* Instances of Accounts for TLC. *)
EXTENDS Accounts, TLC

\* Devices, sessions, request slots, tokens and auth keys are interchangeable.
Symmetry ==
    Permutations(Device) \cup Permutations(Session) \cup Permutations(Req)
        \cup Permutations(Token) \cup Permutations(AuthKey)
=============================================================================
