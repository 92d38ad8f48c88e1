---------------------------- MODULE MCShareSystem ----------------------------
(***************************************************************************)
(* The instance of ShareSystem that TLC explores.  One of several small    *)
(* scenarios is chosen at the start, so that one run covers many mixes of  *)
(* commands and faults.                                                    *)
(***************************************************************************)
EXTENDS ShareSystem, TLC

Scenario(first, second, published, n) ==
    [jobs |-> ("c1" :> first \X {"r1"} @@ "c2" :> second \X {"r1"}),
     published |-> published, faults |-> n]

MCScenarios ==
    {Scenario({"start", "move"}, {}, {"r1"}, 1),
     Scenario({"restart"}, {}, {"r1"}, 2),
     Scenario({"stop", "delete"}, {}, {"r1"}, 1),
     Scenario({"publish"}, {"delete"}, {}, 1),
     Scenario({"restart"}, {"stop"}, {"r1"}, 0),
     Scenario({}, {}, {"r1"}, 4),
     Scenario({"restart"}, {}, {"r1", "r2"}, 0),
     Scenario({}, {}, {"r1", "r2"}, 2)}
=============================================================================
