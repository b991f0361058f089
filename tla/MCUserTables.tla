--------------------------- MODULE MCUserTables ----------------------------
(* Instances of UserTables for TLC.                                        *)
EXTENDS UserTables

CONSTANTS u1, u2, u3, u4

(* The second name begins with the first and shares its slot in a table of *)
(* two, as does the empty name that a user has before its own is copied;   *)
(* the third name does not.  The first two sockets share a slot in a table *)
(* of two, and not in one of three.                                        *)
SomeNames == {<<1>>, <<1, 2>>, <<3>>}

ThreeSockets == {<<4>>, <<5>>, <<6>>}
TwoSockets == {<<4>>, <<5>>}

ThreeUsers == {u1, u2, u3}
FourUsers == {u1, u2, u3, u4}

SomeKeys == SomeNames \cup ThreeSockets \cup {<<>>}

SomeHash == [k \in SomeKeys |->
               CASE k = <<1>> -> 0 [] k = <<1, 2>> -> 2 [] k = <<3>> -> 1
                 [] k = <<>> -> 4
                 [] k = <<4>> -> 0 [] k = <<5>> -> 2 [] k = <<6>> -> 1]

UserSymmetry == Permutations(Users)
=============================================================================
