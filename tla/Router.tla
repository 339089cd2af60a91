------------------------------- MODULE Router -------------------------------
(***************************************************************************)
(* The choice of a backend (include/router.h, BackendNode in               *)
(* include/common.h): one LoadBalancer per route key, smooth weighted      *)
(* round robin among its healthy nodes, and the group "*" for the models   *)
(* that have none.  main() registers the nodes of the configuration before *)
(* it starts serving; after that, the threads that handle requests call    *)
(* route(), which holds the lock all the way.  Weights are natural         *)
(* numbers, and Star is no model.                                          *)
(***************************************************************************)
EXTENDS Integers, Sequences

CONSTANTS           \* what is assumed of them: see Standalone
    Models,         \* values of the field model, route keys among them
    Star,           \* the route key "*"
    Local,          \* the model main() asks for at the start
    Configs,        \* the lists of backends in the configuration: group, name, weight
    Fallback,       \* the node main() adds if Local has no backend
    MaxPicks,       \* bound: requests
    MaxMarks,       \* bound: calls of mark_healthy and mark_unhealthy; 0 as the program is
    None

Groups == Models \cup {Star}

Names == {Fallback.name} \cup UNION {{cfg[i].name : i \in DOMAIN cfg} : cfg \in Configs}

VARIABLES
    config,         \* backends still to be registered
    serving,        \* has main() started to serve?
    nodes,          \* nodes[g]: nodes_ of the group
    cw,             \* cw[g]: cw_ of the group, 0 for a name that is not in it
    picks,          \* requests routed so far (bound)
    marks,          \* calls of mark_* so far (bound)
    \* history variables, read by no action's guard
    taken,          \* taken[g][i]: how often node i was picked in the group's present round
    waited,         \* waited[g][i]: picks of others since node i was picked last
    failed,         \* <<g, i>> of the nodes whose last transfer failed
    last            \* the node picked last, and whether it could have been avoided, or None

routerVars == <<config, serving, nodes, cw, picks, marks, taken, waited, failed, last>>

-----------------------------------------------------------------------------
Node(be) == [name |-> be.name, weight |-> be.weight, healthy |-> TRUE]

\* f[1] + ... + f[n]
SumUpTo(f, n) ==
    LET sum[i \in 0..n] == IF i = 0 THEN 0 ELSE sum[i - 1] + f[i]
    IN  sum[n]

\* The weight of the healthy nodes of a group
Healthy(g) ==
    SumUpTo([i \in DOMAIN nodes[g] |-> IF nodes[g][i].healthy THEN nodes[g][i].weight ELSE 0],
            Len(nodes[g]))

\* Router::register_node and LoadBalancer::add_node, for one backend of the configuration
Register ==
    /\ ~serving /\ config # <<>>
    /\ LET g == Head(config).group
       IN  /\ nodes' = [nodes EXCEPT ![g] = Append(@, Node(Head(config)))]
           /\ taken' = [taken EXCEPT ![g] = Append(@, 0)]
           /\ waited' = [waited EXCEPT ![g] = Append(@, 0)]
    /\ config' = Tail(config)
    /\ UNCHANGED <<serving, cw, picks, marks, failed, last>>

\* Mutant: the weight of a node that is not healthy grows as well.
RaisedAll(g) ==
    LET loop[i \in 0..Len(nodes[g])] ==
            IF i = 0 THEN [cw |-> cw[g], total |-> 0, best |-> None]
            ELSE LET acc == loop[i - 1]
                     n   == nodes[g][i]
                     w   == [acc.cw EXCEPT ![n.name] = @ + n.weight]
                 IN  IF ~n.healthy THEN [acc EXCEPT !.cw = w]
                     ELSE [cw    |-> w,
                           total |-> acc.total + n.weight,
                           best  |-> IF acc.best = None \/ w[n.name] > w[nodes[g][acc.best].name]
                                     THEN i ELSE acc.best]
    IN  loop[Len(nodes[g])]

\* Mutant: the weights are compared, not the current weights.
RaisedByWeight(g) ==
    LET loop[i \in 0..Len(nodes[g])] ==
            IF i = 0 THEN [cw |-> cw[g], total |-> 0, best |-> None]
            ELSE LET acc == loop[i - 1]
                     n   == nodes[g][i]
                 IN  IF ~n.healthy THEN acc
                     ELSE [cw    |-> [acc.cw EXCEPT ![n.name] = @ + n.weight],
                           total |-> acc.total + n.weight,
                           best  |-> IF acc.best = None \/ n.weight > nodes[g][acc.best].weight
                                     THEN i ELSE acc.best]
    IN  loop[Len(nodes[g])]

\* The loop of pick(): the weights are raised on the way to the first node of the highest.
Raised(g) ==
    LET loop[i \in 0..Len(nodes[g])] ==
            IF i = 0 THEN [cw |-> cw[g], total |-> 0, best |-> None]
            ELSE LET acc == loop[i - 1]
                     n   == nodes[g][i]
                     w   == [acc.cw EXCEPT ![n.name] = @ + n.weight]
                 IN  IF ~n.healthy THEN acc
                     ELSE [cw    |-> w,
                           total |-> acc.total + n.weight,
                           best  |-> IF acc.best = None \/ w[n.name] > w[nodes[g][acc.best].name]
                                     THEN i ELSE acc.best]
    IN  loop[Len(nodes[g])]

\* Mutant: the node that was picked gives up its own weight only.
LoweredByWeight(g, r) == [r.cw EXCEPT ![nodes[g][r.best].name] = @ - nodes[g][r.best].weight]

\* The node that was picked gives up the weight of all.
Lowered(g, r) == [r.cw EXCEPT ![nodes[g][r.best].name] = @ - r.total]

\* History: a round of a group is as many picks as its healthy nodes weigh.
Count(g, i) ==
    LET n == [taken[g] EXCEPT ![i] = @ + 1]
        done == SumUpTo(n, Len(nodes[g])) >= Healthy(g)
    IN  /\ taken' = [taken EXCEPT ![g] = IF done THEN [j \in DOMAIN n |-> 0] ELSE n]
        /\ waited' = [waited EXCEPT ![g] = [j \in DOMAIN n |-> IF j = i THEN 0 ELSE @[j] + 1]]
        /\ last' = [group |-> g, node |-> i, count |-> n[i],
                    avoidable |-> /\ <<g, i>> \in failed
                                  /\ \E j \in DOMAIN n : <<g, j>> \notin failed]

\* pick() in a group that has a healthy node
Pick(g) ==
    LET r == Raised(g)
    IN  /\ cw' = [cw EXCEPT ![g] = Lowered(g, r)]
        /\ Count(g, r.best)

HasHealthy(g) == \E i \in DOMAIN nodes[g] : nodes[g][i].healthy

\* route(): the group of the model, else "*", else none
Route(m) ==
    \/ HasHealthy(m) /\ Pick(m)
    \/ ~HasHealthy(m) /\ HasHealthy(Star) /\ Pick(Star)
    \/ ~HasHealthy(m) /\ ~HasHealthy(Star) /\ UNCHANGED <<cw, taken, waited, last>>

\* main() asks for a backend of Local, and adds one for it and for "*" if there is none.
Start ==
    /\ ~serving /\ config = <<>>
    /\ serving' = TRUE
    /\ IF HasHealthy(Local) \/ HasHealthy(Star)
       THEN Route(Local) /\ UNCHANGED nodes
       ELSE /\ nodes' = [g \in Groups |-> IF g \in {Local, Star} THEN Append(nodes[g], Node(Fallback))
                                          ELSE nodes[g]]
            /\ taken' = [g \in Groups |-> [i \in DOMAIN nodes'[g] |-> 0]]
            /\ waited' = taken'
            /\ UNCHANGED <<cw, last>>
    /\ UNCHANGED <<config, picks, marks, failed>>

\* A request for a model
Request(m) ==
    /\ serving /\ picks < MaxPicks
    /\ picks' = picks + 1
    /\ Route(m)
    /\ UNCHANGED <<config, serving, nodes, marks, failed>>

\* mark_healthy and mark_unhealthy: the first node of the name
Mark(g, name, health) ==
    /\ serving /\ marks < MaxMarks
    /\ \E i \in DOMAIN nodes[g] :
        /\ nodes[g][i].name = name /\ \A j \in 1..(i - 1) : nodes[g][j].name # name
        /\ nodes' = [nodes EXCEPT ![g][i].healthy = health]
    /\ marks' = marks + 1
    /\ UNCHANGED <<config, serving, cw, picks, taken, waited, failed, last>>

\* A transfer with the backend that was picked ends; the router does not hear of it.
Transfer(ok) ==
    /\ serving /\ last # None
    /\ failed' = IF ok THEN failed \ {<<last.group, last.node>>}
                 ELSE failed \cup {<<last.group, last.node>>}
    /\ UNCHANGED <<config, serving, nodes, cw, picks, marks, taken, waited, last>>

-----------------------------------------------------------------------------
Init ==
    /\ config \in Configs /\ serving = FALSE
    /\ nodes = [g \in Groups |-> <<>>]
    /\ cw = [g \in Groups |-> [n \in Names |-> 0]]
    /\ picks = 0 /\ marks = 0
    /\ taken = [g \in Groups |-> <<>>] /\ waited = [g \in Groups |-> <<>>]
    /\ failed = {} /\ last = None

Next ==
    \/ Register \/ Start
    \/ \E m \in Models : Request(m)
    \/ \E g \in Groups, name \in Names, health \in BOOLEAN : Mark(g, name, health)
    \/ \E ok \in BOOLEAN : Transfer(ok)

Spec == Init /\ [][Next]_routerVars

-----------------------------------------------------------------------------
(* Properties.                                                             *)

\* The weight of all nodes of a group
Total(g) == SumUpTo([i \in DOMAIN nodes[g] |-> nodes[g][i].weight], Len(nodes[g]))

\* The current weights of a group's nodes
Current(g) == [i \in DOMAIN nodes[g] |-> cw[g][nodes[g][i].name]]

\* Every variable stays in its domain.  What a pick adds to the current weights of a group it
\* takes off again, whatever is marked: they sum to zero.  As long as nothing is marked each
\* of them, an int in the code, keeps within bounds however long the program runs.
TypeOK ==
    /\ serving \in BOOLEAN
    /\ \A g \in Groups :
        /\ nodes[g] \in Seq([name : Names, weight : Nat, healthy : BOOLEAN])
        /\ cw[g] \in [Names -> Int]
        /\ taken[g] \in [DOMAIN nodes[g] -> Nat] /\ waited[g] \in [DOMAIN nodes[g] -> Nat]
        /\ SumUpTo(Current(g), Len(nodes[g])) = 0
        /\ marks = 0 => \A i \in DOMAIN nodes[g] :
                            Current(g)[i] \in (-Total(g))..((Len(nodes[g]) - 1) * Total(g))
    /\ last # None => last.node \in DOMAIN nodes[last.group]

\* As long as no node is marked, every node is picked in proportion to its weight, no more
\* often than it weighs in a round of picks, whatever the other groups do
\* (LoadBalancer::pick, weighted round robin).
WeightedShare ==
    marks = 0 /\ last # None /\ Healthy(last.group) > 0 =>
        last.count <= nodes[last.group][last.node].weight

\* As long as no node is marked, none that weighs anything is passed over for as long as the
\* others take in two rounds: the picks between two of its own may lie in two of them
\* (LoadBalancer::pick).
NoStarvation ==
    marks = 0 =>
        \A g \in Groups : \A i \in DOMAIN nodes[g] :
            nodes[g][i].weight > 0 => waited[g][i] <= 2 * (Total(g) - nodes[g][i].weight)

-----------------------------------------------------------------------------
(* What the documentation promises and the code does not keep.             *)

\* README.md:7 says that backends are checked for health: one whose last transfer failed is not picked while
\* another of its group has not failed.
FailedIsAvoided == last # None => ~last.avoidable
=============================================================================
