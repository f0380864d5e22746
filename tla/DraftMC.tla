-------------------------------- MODULE DraftMC --------------------------------
(* Two subscriptions, one with a registry and a cluster and one with others;  *)
(* the user has manifests in one directory and a workflow, whose file system  *)
(* does not tell two of the names apart.                                      *)
EXTENDS Draft

MCSubs == {"s1", "s2"}
MCAcrsOf == [s \in MCSubs |-> IF s = "s1" THEN {"a1"} ELSE {}]
MCClustersOf == [s \in MCSubs |-> IF s = "s1" THEN {"c1"} ELSE {}]
MCRepos == {<<"s1", "a1", "r1">>}
MCNamespaces == {}
MCBranchesOf == [g \in {"g1", "g2"} |-> IF g = "g1" THEN {"main"} ELSE {"dev"}]
MCDefaultBranch == [g \in {"g1", "g2"} |-> IF g = "g1" THEN "main" ELSE "dev"]
MCVersionsOf == [l \in {"go", "java"} |-> IF l = "go" THEN {"1", "2"} ELSE {"8"}]
MCLowerOf == [n \in {"new", "old", "Old"} |-> IF n = "new" THEN "new" ELSE "old"]
MCFileOf == [n \in {"new", "old", "Old"} |-> <<MCLowerOf[n], "workflow">>]
MCUsersFiles == {<<"app", "manifests">>, <<"old", "workflow">>}
MCOpenings == {NoSelection, [NoSelection EXCEPT !.sub = "s1", !.cluster = "c1"]}
=============================================================================
