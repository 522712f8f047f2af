--------------------------- MODULE MCIsuRegistry ---------------------------
(* Instances of IsuRegistry for TLC.  One user registers one ISU twice (r1 *)
(* and a retry r2), or two ISUs (r1 and r3); s1 is an ISU loaded by        *)
(* 1_InitData.sql.                                                         *)
EXTENDS IsuRegistry, TLC

CONSTANTS app1, app2, app3, u1, u2, alice, r1, r2, r3, s1, i1, i2

MCUuidOf  == [x \in Row |-> IF x \in {s1, r3} THEN u2 ELSE u1]
MCOwnerOf == [x \in Row |-> alice]

(* Hosts are interchangeable wherever Group = AppGroup. *)
HostSymmetry == Permutations(Group)
============================================================================
