--------------------------- MODULE MCPlanKernel ---------------------------
(* Plans of the run: a chain of three tasks listed last first, beside a      *)
(* fourth that is independent of it; two tasks that conflict; a revision     *)
(* that supersedes the chain, and one that may not because its dependencies  *)
(* form a cycle.                                                             *)
EXTENDS PlanKernel, TLC

CONSTANTS t1, t2, t3, t4, r1, r2, r3, r4

Path(effect, path) ==
  [effect |-> effect, kind |-> "repository_path", value |-> path]

Reader(deps, path) ==
  [deps |-> deps, parent |-> Nil, effects |-> {"read"},
   intents |-> {Path("read", path)}]

Writer(deps, path) ==
  [deps |-> deps, parent |-> Nil, effects |-> {"read", "write"},
   intents |-> {Path("write", path)}]

Chain ==
  [supersedes |-> Nil, basis |-> TRUE, order |-> <<t3, t2, t1, t4>>,
   task |-> t1 :> Writer({}, <<"docs">>) @@ t2 :> Reader({t1}, <<"docs">>)
            @@ t3 :> Writer({t2}, <<"test">>)
            @@ t4 :> Writer({}, <<"src", "lib">>)]

Rivals ==
  [supersedes |-> Nil, basis |-> FALSE, order |-> <<t1, t4>>,
   task |-> t1 :> Reader({}, <<"src">>) @@ t4 :> Writer({}, <<"src", "lib">>)]

Smaller ==
  [supersedes |-> r1, basis |-> FALSE, order |-> <<t1>>,
   task |-> t1 :> Writer({}, <<"src">>)]

Cyclic ==
  [supersedes |-> r1, basis |-> FALSE, order |-> <<t1, t2>>,
   task |-> t1 :> Reader({t2}, <<"src">>) @@ t2 :> Reader({t1}, <<"src">>)]

Plans == r1 :> Chain @@ r2 :> Smaller @@ r3 :> Cyclic @@ r4 :> Rivals
(* The plans of the runs about threads: two independent tasks, and the       *)
(* revision that supersedes them.                                            *)
Pair ==
  [supersedes |-> Nil, basis |-> TRUE, order |-> <<t1, t4>>,
   task |-> t1 :> Reader({}, <<"docs">>) @@ t4 :> Writer({}, <<"src", "lib">>)]

Pairs == r1 :> Pair @@ r2 :> Smaller
===============================================================================
