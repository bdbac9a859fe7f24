-------------------------- MODULE MCModTransaction --------------------------
(* Two packages with two versions each over three paths, c being a config  *)
(* file.  Version 2 swaps the plugin paths of the two packages, so that a  *)
(* combined update moves each file from one owner to the other.            *)
EXTENDS ModTransaction, TLC

MCShips ==
    "A" :> ("v1" :> {"f", "c"} @@ "v2" :> {"g", "c"}) @@
    "B" :> ("v1" :> {"g"} @@ "v2" :> {"f"})

(* A fresh instance, and one with A disabled beside B. *)
MCStarts ==
    {[p \in Packages |-> NoRow],
     "A" :> [ver |-> "v1", man |-> {"f", "c"}, parked |-> {"f"}, enabled |-> "no"] @@
     "B" :> [ver |-> "v1", man |-> {"g"}, parked |-> {}, enabled |-> "yes"]}

(* No property speaks of what follows a kill inside RemoveAll or a         *)
(* rollback that could not write, so the search stops there.               *)
UpToMishap == hit \cap {"stuck", "cleanup"} = {}
=============================================================================
