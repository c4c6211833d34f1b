--------------------------- MODULE MCSpillEngine ---------------------------
(***************************************************************************)
(* TLC instances of SpillEngine.                                           *)
(***************************************************************************)
EXTENDS SpillEngine

Request(rid, prompt, max_tokens, choices, ns) ==
    [rid |-> rid, prompt |-> prompt, max_tokens |-> max_tokens, stop |-> {},
     choices |-> choices, ns |-> ns]

\* Two prompts of the default tenant that evict each other's blocks.  The
\* first has three full blocks: with one block held by the second, restoring
\* its last block takes a block it found resident or restored before.
DefaultJobs ==
    { Request("r1", <<"a", "b", "a", "a", "b", "a">>, 2, 1, "t1"),
      Request("r2", <<"b", "b">>, 2, 1, "t1") }

\* The same prompts, one of them from a tenant with a key of its own.
TenantJobs ==
    { Request("r1", <<"a", "b", "a", "a">>, 2, 1, "t2"),
      Request("r2", <<"b", "b">>, 2, 1, "t1") }

\* A cached prompt, and one whose second choice takes its block.
EvictingForkJobs ==
    { Request("r1", <<"b", "b">>, 2, 1, "t1"),
      Request("r2", <<"a", "b", "a">>, 2, 2, "t1") }
=============================================================================
