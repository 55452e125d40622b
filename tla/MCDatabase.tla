----------------------------- MODULE MCDatabase -----------------------------
(* Small instances of Database: a spool file that changes four times,       *)
(* /etc/crontab or a drop-in that changes twice, or both and one change of  *)
(* either.  The shapes are two good contents, a spool file of its user, one *)
(* that others can access and one over the limits.                          *)
EXTENDS Database

Shape(u, f, c) == [uid |-> u, fault |-> f, content |-> c]

MCShapes == {Shape("root", "none", "c1"), Shape("owner", "none", "c2"),
             Shape("root", "mode", "c1"), Shape("owner", "none", "huge")}

MCOverLimit == {"huge"}

CONSTANTS c, d, s
MCHosts == {[paths |-> {s}, changes |-> 4],
            [paths |-> {c}, changes |-> 2], [paths |-> {d}, changes |-> 2],
            [paths |-> {c, d}, changes |-> 1]}
MCUserHosts == {[paths |-> {s}, changes |-> 2]}
=============================================================================
