---------------------------- MODULE MCQuickstart ----------------------------
(* Two templates: this repository's databricks.yml, which names neither an *)
(* experiment nor a Lakebase, and one of the Lakebase templates that the   *)
(* command also serves, with the experiment of an app made in the UI.      *)
EXTENDS Quickstart

CONSTANTS old, db, p1, p2

MCTemplates == {
    [app |-> FALSE, experiment |-> Absent, variable |-> Absent,
     resource |-> Absent, listed |-> FALSE],
    [app |-> FALSE, experiment |-> 0, variable |-> "autoscaling",
     resource |-> [kind |-> "autoscaling", target |-> Empty], listed |-> TRUE] }

MCAppResources == {
    [experiment |-> 0, lakebase |-> Empty],
    [experiment |-> Empty, lakebase |-> [kind |-> "autoscaling", target |-> old]],
    [experiment |-> Empty, lakebase |-> [kind |-> "autoscaling", target |-> Empty]],
    [experiment |-> Empty, lakebase |-> [kind |-> "provisioned", target |-> db]] }
=============================================================================
