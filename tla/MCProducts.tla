---- MODULE MCProducts ----
(* Instances of Products for TLC. *)
EXTENDS Products

\* A multitenant installation that has its cloud resources and dashboards and
\* installs the rest; the same with its rhsso, when a reconcile stops half way,
\* and when a namespace is lost; and the two Keycloaks side by side, with any
\* disturbance.
MCScenarios ==
    LET multitenant == AllProducts \ {"user-sso"}
        sso == {"cloud-resources", "rhsso", "user-sso"}
    IN {[stage |-> multitenant, done |-> {"cloud-resources", "grafana"},
         unfinished |-> {0}, disturbances |-> 0, perishable |-> {}],
        [stage |-> multitenant, done |-> {"cloud-resources", "grafana", "rhsso"},
         unfinished |-> {0}, disturbances |-> 1, perishable |-> {}],
        [stage |-> multitenant, done |-> {"cloud-resources", "grafana", "rhsso"},
         unfinished |-> {}, disturbances |-> 1, perishable |-> {"rhsso", "3scale"}],
        [stage |-> sso, done |-> {"cloud-resources"},
         unfinished |-> {0, 1}, disturbances |-> 1, perishable |-> {"user-sso"}]}
====
