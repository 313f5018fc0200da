--------------------------------- MODULE MCM61 ---------------------------------
(* Three programs: one that misuses three blocks, one that misuses two and     *)
(* asks once more, and one that allocates at three sites, which is one more    *)
(* than there are counters.                                                    *)
EXTENDS M61Properties

CONSTANTS b1, b2, b3, s1, s2, s3

MCWorkloads ==
    {[addresses |-> {b1, b2, b3}, sites |-> {s1}, sizes |-> {2},
      members |-> {0, 4}, calls |-> 3, misuses |-> TRUE],
     [addresses |-> {b1, b2}, sites |-> {s1}, sizes |-> {2},
      members |-> {0, 4}, calls |-> 4, misuses |-> TRUE],
     [addresses |-> {b1}, sites |-> {s1, s2, s3}, sizes |-> {1, 2, 6},
      members |-> {}, calls |-> 6, misuses |-> FALSE]}
=============================================================================
