---------------------------- MODULE MCScheduler ----------------------------
(***************************************************************************)
(* TLC instances of Scheduler.                                             *)
(***************************************************************************)
EXTENDS Scheduler

Job(rid, prompt, max_tokens, choices, ns) ==
    [rid |-> rid, prompt |-> prompt, max_tokens |-> max_tokens, stop |-> {},
     choices |-> choices, ns |-> ns]

\* Two prompts that share their first block, and the same tokens under
\* another tenant.
PlainJobs ==
    { Job("r1", <<"a", "b", "a">>, 3, 1, "t1"),
      Job("r2", <<"a", "b">>, 4, 1, "t1"),
      Job("r3", <<"a", "b">>, 4, 1, "t2") }

\* The same with several choices each.
ForkJobs ==
    { Job("r1", <<"a", "b", "a">>, 3, 2, "t1"),
      Job("r2", <<"a", "b">>, 3, 2, "t1") }
=============================================================================
