---------------------------- MODULE MCBootstrap -----------------------------
(* Small instances of the bring-up for TLC.                                *)
EXTENDS Bootstrap, TLC

CONSTANTS p0, p1, p2

Launch(a, b, c) == p0 :> a @@ p1 :> b @@ p2 :> c

At(r, n) == [rank |-> r, size |-> n]

(* A proper launch, and the ways in which ranks and sizes do not fit: a    *)
(* rank given twice, one left out, one past the end, other sizes, two      *)
(* processes of rank 0, one of size 1, none, size 0.                       *)
SomeLaunches ==
    { Launch(At(0, 3), At(1, 3), At(2, 3)),
      Launch(At(0, 3), At(1, 3), At(1, 3)),
      Launch(At(0, 2), At(1, 2), At(1, 2)),
      Launch(At(0, 3), At(1, 3), At(3, 4)),
      Launch(At(0, 3), At(1, 3), At(2, 2)),
      Launch(At(0, 2), At(1, 2), At(0, 2)),
      Launch(At(0, 1), At(1, 3), At(2, 3)),
      Launch(At(0, 0), At(1, 3), At(2, 3)),
      Launch(At(1, 3), At(2, 3), At(3, 3)) }
=============================================================================
