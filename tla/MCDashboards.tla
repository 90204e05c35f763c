---------------------------- MODULE MCDashboards ----------------------------
(***************************************************************************)
(* TLC instances of Dashboards.                                            *)
(***************************************************************************)
EXTENDS Dashboards

CONSTANTS w1, events, retired, c0, workbench

\* The template has one required widget.
OneWidget == <<[i |-> w1, component |-> events, config |-> c0]>>

\* Nothing stored, or the workbench of an older version with a retired widget.
OldWorkbench == [id |-> TemplateId, name |-> workbench,
                 layout |-> <<[i |-> w1, component |-> retired, config |-> c0]>>]
EmptyOrOld == {{}, {OldWorkbench}}
=============================================================================
