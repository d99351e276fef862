---- MODULE Controllers ----
(* The controllers and the step beside the installation itself: the upgrade of the
   operator, pod distribution, and the add-on's controllers.  The parts share no state
   that the model tells apart, so a behaviour has one of them run, and the variables
   are those of the one that runs. *)
EXTENDS Naturals

CONSTANTS Releases, Workloads, Zones, Replicas, UpgradeMishaps, PodMishaps, AddonEvents

\* Releases of the operator are numbered.
ASSUME ReleasesAssumption == Releases \in Nat

VARIABLES which, x1, x2, x3, x4, x5, x6, x7, x8, x9, x10, x11

vars == <<which, x1, x2, x3, x4, x5, x6, x7, x8, x9, x10, x11>>

Upgrade == INSTANCE OperatorUpgrade WITH
    MaxMishaps <- UpgradeMishaps, plans <- x1, sub <- x2, cr <- x3, window <- x4,
    cache <- x5, queued <- x6, skipped <- x7, pass <- x8, mishaps <- x9
Pods == INSTANCE PodDistribution WITH
    MaxMishaps <- PodMishaps, pods <- x1, attempts <- x2, todo <- x3, victim <- x4,
    busy <- x5, hit <- x6, deleted <- x7, uncounted <- x8, mishaps <- x9
Addon == INSTANCE AddonInstance WITH
    MaxEvents <- AddonEvents, cr <- x1, stack <- x2, ns <- x3, cm <- x4, network <- x5,
    marked <- x6, conditions <- x7, asked <- x8, look <- x9, report <- x10, events <- x11

Init ==
    \/ which = "upgrade" /\ Upgrade!Init /\ x10 = 0 /\ x11 = 0
    \/ which = "pods" /\ Pods!Init /\ x10 = 0 /\ x11 = 0
    \/ which = "addon" /\ Addon!Init

InUpgrade == which = "upgrade" /\ UNCHANGED <<which, x10, x11>>
InPods    == which = "pods" /\ UNCHANGED <<which, x10, x11>>
InAddon   == which = "addon" /\ UNCHANGED which

Next ==
    \/ InUpgrade /\ Upgrade!Next
    \/ InPods /\ Pods!Next
    \/ InAddon /\ Addon!Next

\* The fairness of each part, while it is the one that runs.
Fairness ==
    /\ WF_vars(InUpgrade /\ Upgrade!Step) /\ WF_vars(InUpgrade /\ Upgrade!Install)
    /\ WF_vars(InUpgrade /\ Upgrade!AnnounceVersion)
    /\ WF_vars(InPods /\ Pods!Step)
    /\ \A w \in Workloads : WF_vars(InPods /\ Pods!Schedule(w))
    /\ WF_vars(InAddon /\ Addon!Look) /\ WF_vars(InAddon /\ Addon!Report)
    /\ WF_vars(InAddon /\ Addon!InstallRHMI) /\ WF_vars(InAddon /\ Addon!UninstallRHMI)
    /\ SF_vars(InAddon /\ Addon!CheckLabel("delete"))

Spec == Init /\ [][Next]_vars /\ Fairness

--------------------------------------------------------------------------------
\* Type invariant.
TypeOK ==
    CASE which = "upgrade" -> Upgrade!TypeOK
      [] which = "pods"    -> Pods!TypeOK
      [] which = "addon"   -> Addon!TypeOK

\* The operator approves no upgrade that affects the service, though it judges a
\* plan by a cached CSV and approves it some time after reading it.
OnlyHarmlessApproved == which = "upgrade" => Upgrade!OnlyHarmlessApproved

\* A harmless release is installed in the end without anyone, however the reconciles
\* fail on the way (HandleUpgrades), but for the two cases of NoHarmlessWaits.
HarmlessInstalled == <>[](which = "upgrade" => Upgrade!NoHarmlessWaits)

\* A service affecting upgrade that does not end finds the databases' windows open
\* again and again, however often they are closed: allowDatabaseUpdates is reached
\* until the upgrade ends.
WindowOpened == []<>(which = "upgrade" => Upgrade!OpenIfUnderWay)

\* Rebalancing takes no more pods from a workload than the attempts it is allowed,
\* but for those whose attempt could not be counted (forceRebalance).
DisruptionBounded == which = "pods" => Pods!DisruptionBounded

\* Every workload is spread over the zones in the end, or was tried three times.
RebalanceSettles == <>[](which = "pods" => Pods!Balanced)

\* The installation is deleted only after someone has asked for it, though the
\* controllers act on labels and marks they read earlier.
DeletedOnlyOnRequest == which = "addon" => Addon!DeletedOnlyOnRequest

\* An uninstall that was asked for happens, and what the status controller reports
\* settles on what is there.
ReportSettles == <>[](which = "addon" => Addon!ReportIsTrue)
====
