---------------------------- MODULE MCScheduler ----------------------------
(* The main frame and the async thread, each with an undelayed once; the    *)
(* main frame also has a delayed loop and the poll that schedules init.     *)
EXTENDS Scheduler

CONSTANTS dvars, frameLoop, poll, init

MCTasks == {dvars, frameLoop, poll, init}
MCHome == [t \in MCTasks |-> IF t = init THEN "async" ELSE "main"]
MCInterval == [t \in MCTasks |-> IF t = frameLoop THEN 1 ELSE 0]
MCKind == [t \in MCTasks |-> CASE t = frameLoop -> "loop" [] t = poll -> "poll"
                               [] OTHER -> "once"]
MCInner == [t \in MCTasks |-> init]
=============================================================================
