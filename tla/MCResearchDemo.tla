---------------------------- MODULE MCResearchDemo ----------------------------
(* The demo task alone: resets, approvals, autorun against single advances.  *)
EXTENDS ResearchLifecycle

CONSTANT demo

MCDemoTasks == {demo}
MCLiveTasks == {}
MCNone == {}
=============================================================================
