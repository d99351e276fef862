---- MODULE AddonInstance ----
(* The add-on's controllers.  The namespace label controller deletes the RHMI when
   a label of the deletion config map or of the operator's namespace asks for it,
   and copies the CIDR label to the network strategies.  The status controller
   deletes the RHMI when the AddonInstance is marked for deletion, and reports the
   installation in the AddonInstance's conditions.  Both read the RHMI that its own
   controller installs, uninstalls and changes, and each reconcile takes several
   requests.  Conditions are merged: one that is not reported again stays. *)
EXTENDS Naturals

CONSTANT MaxEvents   \* bound on requests to uninstall, failures and RHMIs created

VARIABLES
    cr,         \* RHMI: state, installed (status.version), complete (stage), late (2 hours)
    stack,      \* the MonitoringStack exists
    ns,         \* namespace: value of the delete label, and whether it has a CIDR label
    cm,         \* deletion config map: its delete label, or none when it does not exist
    network,    \* the CIDR in the network strategies, or none when there are none
    marked,     \* AddonInstance: spec.markedForDeletion
    conditions, \* AddonInstance: status.conditions
    asked,      \* someone has asked to uninstall
    look,       \* the namespace label controller's reconcile
    report,     \* the status controller's reconcile
    events

vars == <<cr, stack, ns, cm, network, marked, conditions, asked, look, report, events>>
rhmi    == <<cr, stack>>
request == <<ns, cm, marked, asked>>

Label == {"absent", "false", "true"}
NoCR  == [state |-> "none", installed |-> FALSE, complete |-> FALSE, late |-> FALSE]

Init ==
    /\ cr = NoCR /\ stack = FALSE
    /\ ns = [delete |-> "absent", cidr |-> FALSE] /\ cm = "none" /\ network = "none"
    /\ marked = FALSE /\ asked = FALSE
    /\ conditions = [installed |-> "unknown", degraded |-> "unknown", ready |-> FALSE]
    /\ look = [at |-> "idle", delete |-> "absent", cidr |-> FALSE]
    /\ report = [at |-> "idle", marked |-> FALSE, cr |-> NoCR] /\ events = 0

Event == events < MaxEvents /\ events' = events + 1
Fine  == UNCHANGED events

--------------------------------------------------------------------------------
\* The RHMI is created when the operator starts, or by a person.
CreateRHMI ==
    /\ cr.state = "none" /\ Event /\ cr' = [NoCR EXCEPT !.state = "live"]
    /\ UNCHANGED <<stack, request, network, conditions, look, report>>

\* Its controller creates the monitoring stack and completes the installation.
InstallRHMI ==
    /\ cr.state = "live"
    /\ \/ ~stack /\ stack' = TRUE /\ UNCHANGED cr
       \/ /\ stack /\ ~(cr.installed /\ cr.complete) /\ UNCHANGED stack
          /\ cr' = [cr EXCEPT !.installed = TRUE, !.complete = TRUE]
    /\ UNCHANGED <<request, network, conditions, look, report, events>>

Disturb ==
    /\ cr.state # "none" /\ Event
    /\ \/ ~cr.late /\ cr' = [cr EXCEPT !.late = TRUE]
       \/ cr.complete /\ cr' = [cr EXCEPT !.complete = FALSE]
    /\ UNCHANGED <<stack, request, network, conditions, look, report>>

\* It uninstalls the products, the monitoring stack among them.
UninstallRHMI ==
    /\ cr.state = "deleting"
    /\ \/ stack /\ stack' = FALSE /\ UNCHANGED cr
       \/ ~stack /\ cr' = NoCR /\ UNCHANGED stack
    /\ UNCHANGED <<request, network, conditions, look, report, events>>

\* A delete request sets the deletion timestamp.
Delete == cr' = IF cr.state = "live" THEN [cr EXCEPT !.state = "deleting", !.late = FALSE] ELSE cr

\* The ways to ask for it: mark the AddonInstance, or label the config map or the
\* namespace, where the value counts.
Request ==
    /\ Event
    /\ \/ ~marked /\ marked' = TRUE /\ asked' = TRUE /\ UNCHANGED <<ns, cm>>
       \/ cm' \in Label \ {cm} /\ asked' = (asked \/ cm' = "true") /\ UNCHANGED <<ns, marked>>
       \/ /\ \E v \in Label \ {ns.delete} :
               ns' = [ns EXCEPT !.delete = v] /\ asked' = (asked \/ v = "true")
          /\ UNCHANGED <<cm, marked>>
    /\ UNCHANGED <<rhmi, network, conditions, look, report>>

\* The CIDR label, and the network strategies of the cloud resources.
SetNetwork ==
    /\ \/ ~ns.cidr /\ ns' = [ns EXCEPT !.cidr = TRUE] /\ UNCHANGED network
       \/ network = "none" /\ network' = "" /\ UNCHANGED ns
    /\ UNCHANGED <<rhmi, cm, marked, asked, conditions, look, report, events>>

--------------------------------------------------------------------------------
\* Namespace label controller.  Without a RHMI it looks again a minute later; that
\* the namespace cannot be read is only logged, and it sees no labels.
ReconcileNamespace ==
    /\ look.at = "idle" /\ cr.state # "none"
    /\ \/ look' = [at |-> "config map", delete |-> ns.delete, cidr |-> ns.cidr] /\ Fine
       \/ look' = [at |-> "config map", delete |-> "absent", cidr |-> FALSE] /\ Event
    /\ UNCHANGED <<rhmi, request, network, conditions, report>>

\* Mutant: the label counts whatever its value is.
UninstallAnyValue(v) == IF v # "absent" THEN Delete ELSE UNCHANGED cr

\* The value of the label decides.
Uninstall(v) == IF v = "true" THEN Delete ELSE UNCHANGED cr

\* The reconcile ends here if there is no config map.  That the RHMI could not be
\* deleted is only logged.
CheckConfigMap ==
    /\ look.at = "config map"
    /\ \/ cm = "none" /\ look' = [look EXCEPT !.at = "idle"] /\ Fine /\ UNCHANGED cr
       \/ cm # "none" /\ look' = [look EXCEPT !.at = "labels"] /\ Fine /\ Uninstall(cm)
       \/ /\ Event /\ look' \in {[look EXCEPT !.at = "idle"], [look EXCEPT !.at = "labels"]}
          /\ UNCHANGED cr
    /\ UNCHANGED <<stack, request, network, conditions, report>>

\* The CIDR is written once.  An error here ends the loop over the labels.
CheckCidrValueAndUpdate == network' = IF look.cidr /\ network = "" THEN "cidr" ELSE network
CidrFails == look.cidr /\ network = "none"

\* The labels of the namespace, in the random order of a Go map.
CheckLabel(first) ==
    /\ look.at = "labels" /\ look' = [look EXCEPT !.at = "idle"]
    /\ \/ Fine /\ CheckCidrValueAndUpdate
          /\ IF first = "cidr" /\ CidrFails THEN UNCHANGED cr ELSE Uninstall(look.delete)
       \/ Event /\ UNCHANGED <<cr, network>>
    /\ UNCHANGED <<stack, request, conditions, report>>

--------------------------------------------------------------------------------
\* Status controller: it reads the AddonInstance, and then the RHMI, which it deletes
\* if the AddonInstance is marked.
ReadAddonInstance ==
    /\ report.at = "idle" /\ report' = [report EXCEPT !.at = "rhmi", !.marked = marked]
    /\ UNCHANGED <<rhmi, request, network, conditions, look, events>>

ReadRHMI ==
    /\ report.at = "rhmi"
    /\ \/ /\ report' = [report EXCEPT !.at = "stack", !.cr = cr] /\ Fine
          /\ IF report.marked THEN Delete ELSE UNCHANGED cr
       \/ report' = [report EXCEPT !.at = "idle"] /\ Event /\ UNCHANGED cr
    /\ UNCHANGED <<stack, request, network, conditions, look>>

\* With a RHMI and no monitoring stack there is no report.
ReadMonitoringStack ==
    /\ report.at = "stack"
    /\ report' = [report EXCEPT !.at = IF report.cr.state = "none" \/ stack THEN "pulse" ELSE "idle"]
    /\ UNCHANGED <<rhmi, request, network, conditions, look, events>>

\* Mutant: an installation that is gone is reported as uninstalled only.
ConditionsOfPresent(c) ==
    IF c.state = "none" THEN [conditions EXCEPT !.installed = "teardown"]
    ELSE [conditions EXCEPT !.installed = IF c.installed THEN "complete" ELSE @]

\* The conditions of the AddonInstance, merged with those of the RHMI that was read.
buildAddonInstanceConditions(c) ==
    IF c.state = "none" THEN [conditions EXCEPT !.installed = "teardown", !.ready = TRUE]
    ELSE [conditions EXCEPT
            !.installed = IF c.state = "deleting" /\ c.late THEN "teardown blocked"
                          ELSE IF c.installed THEN "complete"
                          ELSE IF c.state = "live" /\ c.late THEN "install blocked" ELSE @,
            !.degraded  = IF c.state = "live" /\ ~c.complete THEN "yes" ELSE "no"]

SendPulse ==
    /\ report.at = "pulse" /\ report' = [report EXCEPT !.at = "idle"]
    /\ \/ conditions' = buildAddonInstanceConditions(report.cr) /\ Fine
       \/ Event /\ UNCHANGED conditions
    /\ UNCHANGED <<rhmi, request, network, look>>

Look   == ReconcileNamespace \/ CheckConfigMap \/ \E first \in {"delete", "cidr"} : CheckLabel(first)
Report == ReadAddonInstance \/ ReadRHMI \/ ReadMonitoringStack \/ SendPulse

Next == CreateRHMI \/ InstallRHMI \/ Disturb \/ UninstallRHMI \/ Request \/ SetNetwork
        \/ Look \/ Report

\* Both controllers are called again and again, the RHMI's controller makes progress,
\* and neither order of the labels is left out for ever.
Fairness ==
    /\ WF_vars(Look) /\ WF_vars(Report) /\ WF_vars(InstallRHMI) /\ WF_vars(UninstallRHMI)
    /\ SF_vars(CheckLabel("delete"))

Spec == Init /\ [][Next]_vars /\ Fairness

--------------------------------------------------------------------------------
\* Type invariant.
TypeOK ==
    LET CR == [state : {"none", "live", "deleting"}, installed : BOOLEAN,
               complete : BOOLEAN, late : BOOLEAN] IN
    /\ cr \in CR /\ report.cr \in CR /\ report.at \in {"idle", "rhmi", "stack", "pulse"}
    /\ stack \in BOOLEAN /\ marked \in BOOLEAN /\ asked \in BOOLEAN
    /\ ns \in [delete : Label, cidr : BOOLEAN] /\ cm \in Label \union {"none"}
    /\ network \in {"none", "", "cidr"} /\ look.at \in {"idle", "config map", "labels"}

\* The installation is deleted only after someone has asked for it.
DeletedOnlyOnRequest == cr.state = "deleting" => asked

\* What the AddonInstance says is what is there: an uninstall that was asked for has
\* happened, the label of the namespace being heard only where the config map exists;
\* its end is reported, and so is a complete installation.
ReportIsTrue ==
    LET Wanted == marked \/ cm = "true" \/ (ns.delete = "true" /\ cm # "none") IN
    /\ Wanted => cr.state = "none"
    /\ cr.state = "none" => conditions.installed = "teardown" /\ conditions.ready
    /\ cr.state = "live" => conditions.installed = "complete" /\ conditions.degraded = "no"
====
