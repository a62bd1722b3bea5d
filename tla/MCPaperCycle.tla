---------------------------- MODULE MCPaperCycle ----------------------------
(* Small instances of PaperCycle: two jobs of a bot with two units of
   capital, run by one worker process or by two. *)
EXTENDS PaperCycle

CONSTANTS j1, j2, w1, w2

TwoJobs == {j1, j2}
OneJob == {j1}
OneWorker == {w1}
TwoWorkers == {w1, w2}
=============================================================================
