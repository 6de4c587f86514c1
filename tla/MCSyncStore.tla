----------------------------- MODULE MCSyncStore -----------------------------
(* SyncStore on small instances. *)
EXTENDS SyncStore, TLC

CONSTANTS ann, bob, annPhone, annLaptop, bobPhone, team, club

TwoOnOne == [d \in Devices |-> IF d = bobPhone THEN bob ELSE ann]
BobOwnsTeam == [s \in Spaces |-> bob]
AnnOwns == [s \in Spaces |-> ann]
\* Once two transactions overlapped they have for good, and what is promised of those
\* that do not has nothing more to say.
Serial == ~overlapped

AnnsDevices == Permutations({annPhone, annLaptop})
=============================================================================
