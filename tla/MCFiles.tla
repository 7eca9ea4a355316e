------------------------------ MODULE MCFiles -------------------------------
(* Two tasks of two users, one of them root, who share a file.  The groups  *)
(* are those of base/etc/users.                                            *)
EXTENDS Files

MCGidOf == [u \in Users |-> u]
MCFlags == {{"R"}, {"R", "W", "C"}, {"R", "W", "T"}}
MCMasks == {{"ur", "uw", "or"}}
=============================================================================
