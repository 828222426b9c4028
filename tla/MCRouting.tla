----------------------------- MODULE MCRouting -----------------------------
(* Model-checking instance of Routing: a hub alone with one change at a    *)
(* time, a hub alone with changes that overlap, and two hubs with Redis.   *)
EXTENDS Routing, TLC
RowsAt(hosts, flags) == [host: hosts, enabled: flags, ver: {0}]
Alone(i, a) ==
    [hubs |-> {i}, redis |-> FALSE, asked |-> Hosts, handlers |-> {a}, changes |-> Changes,
     rows |-> RowsAt(Hosts \union {Wild}, {TRUE}), writes |-> 1, slow |-> TRUE]
Overlap(i) ==
    [hubs |-> {i}, redis |-> FALSE, asked |-> Hosts, handlers |-> Admins,
     changes |-> {"update", "delete"}, rows |-> RowsAt(Hosts, {TRUE}), writes |-> 1, slow |-> FALSE]
Cluster(h, a) ==
    [hubs |-> Instances, redis |-> TRUE, asked |-> {h}, handlers |-> {a},
     changes |-> {"create", "update", "delete"},
     rows |-> RowsAt({h}, BOOLEAN) \union RowsAt({Wild}, {TRUE}), writes |-> 1, slow |-> TRUE]
MCSetups ==
    {Alone(i, a) : i \in Instances, a \in Admins}
        \union {Overlap(i) : i \in Instances}
        \union {Cluster(h, a) : h \in Hosts, a \in Admins}
MCSymmetry == Permutations(Hosts) \union Permutations(Instances) \union Permutations(Admins)
=============================================================================
