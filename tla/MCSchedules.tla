----------------------------- MODULE MCSchedules -----------------------------
(* A job due in the first two minutes, and a job that does not parse. *)
EXTENDS Schedules

CONSTANTS job, bad, w1, w2, u1, group

MCJobs == {job, bad}
MCMalformed == {bad}
MCCron == [j \in Jobs |-> IF j = bad THEN {} ELSE {0, 1}]
OneWorker == {w1}
TwoWorkers == {w1, w2}
OneUser == {u1}
OneChat == {group}
AllUsers == [j \in Jobs |-> ToUsers]
TheChat == [j \in Jobs |-> group]
=============================================================================
