--------------------------- MODULE TopologyLayer ----------------------------
(***************************************************************************)
(* What a topology pull promises: the node routes by the file base and one *)
(* pulled layer on top of it, replaced as a whole.  There is no diff, no   *)
(* reuse and no history: the view is a function of the pull alone.         *)
(***************************************************************************)
EXTENDS TopologyPolicy

VARIABLE view   \* what of the current snapshot a request can tell

\* A registered instance speaks the dialect of the configured kind, and the limits in
\* force are the configured ones.
ViewOf(providers, routes) ==
    [providers |-> providers, routes |-> routes,
     kinds |-> [name \in Names |->
         IF providers[name] = Absent THEN Absent ELSE providers[name].kind],
     limits |-> [name \in Names |->
         IF providers[name] = Absent \/ providers[name].limits = Unlimited THEN Absent
         ELSE providers[name].limits]]

Init == view = ViewOf([name \in Names |-> BaseProvider(name)],
                      [model \in Models |-> BaseRoute(model)])

Install(pull) == view' = ViewOf(MergedProviders(pull), MergedRoutes(pull))

\* A pull that changes nothing is not installed.
Next == view' # view /\ \E pull \in Pulls : Install(pull)

Spec == Init /\ [][Next]_view
=============================================================================
