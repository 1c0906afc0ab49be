----------------------------- MODULE MCScheduler -----------------------------
(* A small instance of Scheduler: an address space of four frames (root,     *)
(* page, table, page), so that one user task, a kernel task and a second     *)
(* user task exhaust the frames at every point of spawn.                     *)
EXTENDS Scheduler

MCPlanPages == {2, 4}
=============================================================================
