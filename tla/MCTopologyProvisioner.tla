----------------------- MODULE MCTopologyProvisioner -----------------------
EXTENDS TopologyProvisioner

MCStreamOf(c) == "commands"

\* Two manifests: the second declares one more durable.
MCOrder(p) == IF p = "old" THEN <<"commands">> ELSE <<"commands", "cell">>

Like(replicas, limit) == [DesiredConfig EXCEPT !.replicas = replicas, !.limit = limit]

\* Drift that is enlarged, and drift that is refused for each kind of reason.
Bounded == {Like(1, 1), Like(3, 3), [Like(3, 1) EXCEPT !.identity = FALSE],
            [Like(3, 2) EXCEPT !.forbidden = "inspected"],
            [Like(3, 1) EXCEPT !.forbidden = "other"]}
Unbounded == {Like(3, Unlimited)}
============================================================================
