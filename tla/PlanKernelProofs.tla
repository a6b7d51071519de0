-------------------------- MODULE PlanKernelProofs --------------------------
(***************************************************************************)
(* Proofs about plans and their child runs: the session can always be      *)
(* opened again, the records of a child agree, workers of conflicting      *)
(* tasks never run together, and the schedule is what its dependencies     *)
(* call for and offers what the kernel accepts, for every set of plans,    *)
(* every runner, any failing store and any number of runs, children and    *)
(* restarts.                                                               *)
(***************************************************************************)
EXTENDS PlanKernel, FiniteSetTheorems, WellFoundedInduction, TLAPS

-----------------------------------------------------------------------------
(* The types. *)

RunRecord ==
  [kind : {"plan", "control", "child"},
   status : {"awaiting_plan_decision", "awaiting_plan_revision", "running",
             "completed", "cancelled", "failed"}]

Attempt == [child : Nat, result : TaskOutcomes \cup {Nil}]

AllTasks == UNION {TaskIds(r) : r \in DOMAIN Revisions}

Executions == UNION {[S -> Seq(Attempt)] : S \in SUBSET AllTasks}

Entry ==
  [id : DOMAIN Revisions,
   decision : Decisions \cup {Nil},
   invalidated : BOOLEAN, by : Nat \cup {Nil}, exec : Executions]

Operation ==
  [worker : {"running", "ended"}, deadline : {"armed", "expired", "ended"},
   stop : BOOLEAN, halt : BOOLEAN]

Update ==
  {u \in [child : Nat, report : ReportKinds \cup {"deadline", "event", "ended"}] :
     u.child # Conversation => u.report \in ReportKinds \cup {"deadline"}}

TypeInv ==
  /\ runs \in Seq(RunRecord)
  /\ plan \in Seq(Entry)
  /\ active \in {Nil, Conversation} \cup DOMAIN runs
  /\ unusable \in BOOLEAN
  /\ DOMAIN ops \subseteq Nat
  /\ \A c \in DOMAIN ops : ops[c] \in Operation
  /\ queue \in Seq(Update) /\ batch \in Seq(Update)

-----------------------------------------------------------------------------
(* The attempts of a plan p, and what is known of them. *)

\* attempt k of task t in entry i is the child c
At(p, i, t, k, c) ==
  /\ i \in DOMAIN p /\ t \in DOMAIN p[i].exec /\ k \in DOMAIN p[i].exec[t]
  /\ p[i].exec[t][k].child = c

Attempted(p, c) == \E i, t, k : At(p, i, t, k, c)

\* the last attempt of task t in entry i is the child c and has no result
OpenAt(p, i, t, c) ==
  At(p, i, t, Len(p[i].exec[t]), c) /\ Last(p[i].exec[t]).result = Nil

EntriesInv(p) ==
  /\ \A i, j \in DOMAIN p : p[i].id = p[j].id => i = j
  /\ \A i \in DOMAIN p :
       /\ DOMAIN p[i].exec \subseteq TaskIds(p[i].id)
       /\ p[i].decision = Nil => DOMAIN p[i].exec = {}

ChildrenOnce(p) ==
  \A c, i, t, k, j, u, l :
    At(p, i, t, k, c) /\ At(p, j, u, l, c) => i = j /\ t = u /\ k = l

RetriesFirst(p) ==
  \A i, t, k, c :
    At(p, i, t, k, c) /\ k < Len(p[i].exec[t]) => p[i].exec[t][k].result = "retry"

StatusOf(result) == IF result = Nil THEN "running" ELSE RunStatusOf(result)

RunsMatch(p, rs) ==
  \A i, t, k, c : At(p, i, t, k, c) =>
    /\ c \in DOMAIN rs /\ rs[c].kind = "child"
    /\ rs[c].status = StatusOf(p[i].exec[t][k].result)

AttemptsOK(p, rs) ==
  EntriesInv(p) /\ ChildrenOnce(p) /\ RetriesFirst(p) /\ RunsMatch(p, rs)

AttemptsInv == AttemptsOK(plan, runs)

\* DispatchOf, of a plan p
TaskOf(p, c) ==
  CHOOSE d \in [rev : DOMAIN Revisions,
                task : UNION {TaskIds(r) : r \in DOMAIN Revisions}] :
    \E i \in DOMAIN p :
      /\ p[i].id = d.rev
      /\ d.task \in DOMAIN p[i].exec
      /\ \E k \in DOMAIN p[i].exec[d.task] : p[i].exec[d.task][k].child = c

\* The running workers of operations o are of tasks that do not conflict.
Independent(p, o) ==
  \A c, d \in DOMAIN o :
    /\ o[c].worker = "running" /\ o[d].worker = "running" /\ c # d
    /\ TaskOf(p, c).rev = Current(p).id /\ TaskOf(p, d).rev = Current(p).id
    => ~TaskResourceConflict(Task(Current(p).id, TaskOf(p, c).task),
                             Task(Current(p).id, TaskOf(p, d).task))

-----------------------------------------------------------------------------
(* What the kernel serves. *)

Awaiting == {"awaiting_plan_decision", "awaiting_plan_revision"}

AwaitingInv ==
  /\ \A i \in DOMAIN runs : runs[i].status \in Awaiting =>
       /\ runs[i].kind = "plan"
       /\ State(plan) \in {"proposed", "revision_requested", "invalidated"}
       /\ \A j \in DOMAIN runs : runs[j].status \in Awaiting => j = i
       /\ ~unusable => active = i
  /\ IsPlanning => runs[active].status \in Awaiting

FailureInv ==
  unusable => /\ active = Nil /\ DOMAIN children = {} /\ DOMAIN ops = {}
              /\ stream = "off" /\ queue = <<>> /\ batch = <<>> /\ joining = Nil

ChildrenInv ==
  /\ \A c \in DOMAIN children : \E i, t : OpenAt(plan, i, t, c)
  /\ \A c \in DOMAIN ops : Attempted(plan, c)
  /\ DOMAIN children = DOMAIN ops \ {joining}
  /\ joining # Nil => joining \in DOMAIN ops

IndependentInv == Independent(plan, ops)

PlanInv ==
  TypeInv /\ AttemptsInv /\ AwaitingInv /\ FailureInv /\ ChildrenInv /\ IndependentInv
-----------------------------------------------------------------------------
(* What the operations of the projection do to a plan. *)

(* A function of executions stays one when one task's attempts are replaced. *)
LEMMA ExecutionsEdit ==
  ASSUME NEW e \in Executions, NEW t \in DOMAIN e, NEW a \in Seq(Attempt)
  PROVE  [e EXCEPT ![t] = a] \in Executions
<1>1. PICK S \in SUBSET AllTasks : e \in [S -> Seq(Attempt)]
  BY DEF Executions
<1>2. [e EXCEPT ![t] = a] \in [S -> Seq(Attempt)]
  BY <1>1
<1> QED
  BY <1>2 DEF Executions

(* The attempts of a task are a sequence. *)
LEMMA ExecutionsType ==
  ASSUME NEW e \in Executions, NEW t \in DOMAIN e
  PROVE  e[t] \in Seq(Attempt)
<1>1. PICK S \in SUBSET AllTasks : e \in [S -> Seq(Attempt)]
  BY DEF Executions
<1> QED
  BY <1>1

(* The last entry of a plan that has one. *)
LEMMA CurrentType ==
  ASSUME NEW p \in Seq(Entry), p # <<>>
  PROVE  Len(p) \in DOMAIN p /\ Current(p) \in Entry /\ Current(p) = p[Len(p)]
<1>1. Len(p) \in 1..Len(p) /\ DOMAIN p = 1..Len(p)
  OBVIOUS
<1> QED
  BY <1>1 DEF Current

(* Replacing the last entry of a plan. *)
LEMMA CurrentEdit ==
  ASSUME NEW p \in Seq(Entry), p # <<>>, NEW e \in Entry
  PROVE  LET q == [p EXCEPT ![Len(p)] = e] IN
         /\ q \in Seq(Entry) /\ Len(q) = Len(p) /\ DOMAIN q = DOMAIN p
         /\ q[Len(p)] = e /\ q # <<>>
         /\ \A i \in DOMAIN p : i # Len(p) => q[i] = p[i]
<1>1. Len(p) \in 1..Len(p) /\ DOMAIN p = 1..Len(p)
  OBVIOUS
<1> QED
  BY <1>1

(* Propose adds an entry with no attempts, which awaits a decision. *)
LEMMA ProposeEffect ==
  ASSUME NEW p \in Seq(Entry), NEW r \in DOMAIN Revisions
  PROVE  LET q == Propose(p, r) IN
         /\ q \in Seq(Entry) /\ Len(q) = Len(p) + 1 /\ q # <<>>
         /\ DOMAIN q = 1..(Len(p) + 1) /\ DOMAIN p = 1..Len(p)
         /\ \A i \in DOMAIN p : q[i] = p[i]
         /\ q[Len(p) + 1].id = r /\ q[Len(p) + 1].decision = Nil
         /\ DOMAIN q[Len(p) + 1].exec = {}
         /\ State(q) = "proposed"
<1> DEFINE e == [id |-> r, decision |-> Nil, invalidated |-> FALSE, by |-> Nil,
                 exec |-> [t \in {} |-> <<>>]]
           q == Append(p, e)
<1>1. e.exec \in [{} -> Seq(Attempt)]
  OBVIOUS
<1>2. e \in Entry
  <2>1. e.exec \in Executions
    BY <1>1 DEF Executions
  <2> QED
    BY <2>1 DEF Entry
<1>3. /\ e.id = r /\ e.decision = Nil /\ e.invalidated = FALSE /\ DOMAIN e.exec = {}
  OBVIOUS
<1> HIDE DEF e
<1>4. /\ q \in Seq(Entry) /\ Len(q) = Len(p) + 1 /\ q # <<>>
      /\ DOMAIN q = 1..(Len(p) + 1) /\ DOMAIN p = 1..Len(p)
      /\ \A i \in DOMAIN p : q[i] = p[i]
      /\ q[Len(p) + 1] = e
  BY <1>2
<1>5. State(q) = "proposed"
  BY <1>3, <1>4 DEF State, Current
<1>6. Propose(p, r) = q
  BY DEF Propose, e
<1> QED
  BY <1>3, <1>4, <1>5, <1>6

(* An edit of the current entry that leaves its identity and its attempts. *)
Kept(p, q) ==
  /\ q \in Seq(Entry) /\ Len(q) = Len(p) /\ DOMAIN q = DOMAIN p /\ q # <<>>
  /\ \A i \in DOMAIN p : i # Len(p) => q[i] = p[i]
  /\ q[Len(p)].id = p[Len(p)].id

(* Invalidate leaves the attempts as they are. *)
LEMMA InvalidateEffect ==
  ASSUME plan \in Seq(Entry), plan # <<>>
  PROVE  /\ Kept(plan, Invalidate) /\ State(Invalidate) = "invalidated"
         /\ Invalidate[Len(plan)].exec = plan[Len(plan)].exec
         /\ Invalidate[Len(plan)].decision = plan[Len(plan)].decision
<1> DEFINE c == plan[Len(plan)]
           e == [c EXCEPT !.invalidated = TRUE]
<1>1. c \in Entry /\ Len(plan) \in DOMAIN plan
  BY CurrentType
<1>2. /\ e \in Entry /\ e.id = c.id /\ e.exec = c.exec /\ e.decision = c.decision
      /\ e.invalidated = TRUE
  BY <1>1 DEF Entry
<1>3. Invalidate = [plan EXCEPT ![Len(plan)] = e]
  BY DEF Invalidate
<1> HIDE DEF e
<1>4. /\ Invalidate \in Seq(Entry) /\ Len(Invalidate) = Len(plan)
      /\ DOMAIN Invalidate = DOMAIN plan /\ Invalidate # <<>>
      /\ Invalidate[Len(plan)] = e
      /\ \A i \in DOMAIN plan : i # Len(plan) => Invalidate[i] = plan[i]
  BY <1>2, <1>3, CurrentEdit
<1>5. State(Invalidate) = "invalidated"
  BY <1>2, <1>4 DEF State, Current
<1> QED
  BY <1>2, <1>4, <1>5 DEF Kept
(* A decision leaves the attempts as they are. *)
LEMMA DecisionEffect ==
  ASSUME plan \in Seq(Entry), plan # <<>>, State(plan) = "proposed",
         NEW d \in Decisions
  PROVE  LET q == [plan EXCEPT ![Len(plan)].decision = d] IN
         /\ Kept(plan, q) /\ State(q) = d
         /\ q[Len(plan)].exec = plan[Len(plan)].exec
         /\ q[Len(plan)].decision = d
<1> DEFINE c == plan[Len(plan)]
           e == [c EXCEPT !.decision = d]
           q == [plan EXCEPT ![Len(plan)] = e]
<1>1. c \in Entry /\ Len(plan) \in DOMAIN plan
  BY CurrentType
<1>2. /\ e \in Entry /\ e.id = c.id /\ e.exec = c.exec /\ e.decision = d
      /\ e.invalidated = c.invalidated
  BY <1>1 DEF Entry, Decisions
<1>3. c.invalidated = FALSE
  <2>1. ~c.invalidated
    BY DEF State, Current
  <2> QED
    BY <1>1, <2>1 DEF Entry
<1>4. [plan EXCEPT ![Len(plan)].decision = d] = q
  OBVIOUS
<1> HIDE DEF e
<1>5. /\ q \in Seq(Entry) /\ Len(q) = Len(plan) /\ DOMAIN q = DOMAIN plan
      /\ q # <<>> /\ q[Len(plan)] = e
      /\ \A i \in DOMAIN plan : i # Len(plan) => q[i] = plan[i]
  BY <1>2, CurrentEdit
<1> HIDE DEF q
<1>6. State(q) = d
  <2>1. d # Nil
    BY PlanAssumption DEF Decisions
  <2>2. q[Len(q)] = e /\ q # <<>>
    BY <1>5
  <2>3. e.decision = d /\ e.invalidated = FALSE
    BY <1>2, <1>3
  <2> QED
    BY <2>1, <2>2, <2>3 DEF State, Current
<1> QED
  BY <1>2, <1>4, <1>5, <1>6 DEF Kept

(* Materialize gives every task of the current revision its empty history. *)
LEMMA MaterializeEffect ==
  ASSUME NEW p \in Seq(Entry), p # <<>>, NEW run \in Nat
  PROVE  LET q == Materialize(p, run) IN
         /\ Kept(p, q) /\ State(q) = State(p)
         /\ q[Len(p)].exec = [t \in TaskIds(p[Len(p)].id) |-> <<>>]
         /\ q[Len(p)].decision = p[Len(p)].decision
<1> DEFINE c == p[Len(p)]
           x == [t \in TaskIds(c.id) |-> <<>>]
           e == [[c EXCEPT !.by = run] EXCEPT !.exec = x]
           q == [p EXCEPT ![Len(p)] = e]
<1>1. c \in Entry /\ Len(p) \in DOMAIN p /\ Current(p) = c
  BY CurrentType
<1>2. x \in Executions
  <2>1. x \in [TaskIds(c.id) -> Seq(Attempt)]
    OBVIOUS
  <2>2. TaskIds(c.id) \in SUBSET AllTasks
    BY <1>1 DEF Entry, AllTasks
  <2> QED
    BY <2>1, <2>2 DEF Executions
<1> HIDE DEF x
<1>3. /\ e \in Entry /\ e.id = c.id /\ e.exec = x /\ e.decision = c.decision
      /\ e.invalidated = c.invalidated
  BY <1>1, <1>2 DEF Entry
<1>4. Materialize(p, run) = q
  BY <1>1 DEF Materialize, x
<1> HIDE DEF e
<1>5. /\ q \in Seq(Entry) /\ Len(q) = Len(p) /\ DOMAIN q = DOMAIN p
      /\ q # <<>> /\ q[Len(p)] = e
      /\ \A i \in DOMAIN p : i # Len(p) => q[i] = p[i]
  BY <1>3, CurrentEdit
<1> HIDE DEF q
<1>6. State(q) = State(p)
  BY <1>3, <1>5 DEF State, Current
<1> QED
  BY <1>3, <1>4, <1>5, <1>6 DEF Kept, x

(* An edit of the attempts of task t of the current entry. *)
Edited(p, q, t, a) ==
  /\ Kept(p, q) /\ State(q) = State(p)
  /\ q[Len(p)].decision = p[Len(p)].decision
  /\ DOMAIN q[Len(p)].exec = DOMAIN p[Len(p)].exec
  /\ q[Len(p)].exec[t] = a
  /\ \A u \in DOMAIN p[Len(p)].exec : u # t => q[Len(p)].exec[u] = p[Len(p)].exec[u]

(* Replacing the attempts of one task of the last entry is an edit of the plan. *)
LEMMA EditEffect ==
  ASSUME NEW p \in Seq(Entry), p # <<>>, NEW t \in DOMAIN p[Len(p)].exec,
         NEW a \in Seq(Attempt)
  PROVE  Edited(p, [p EXCEPT ![Len(p)].exec[t] = a], t, a)
<1> DEFINE c == p[Len(p)]
           x == [c.exec EXCEPT ![t] = a]
           e == [c EXCEPT !.exec = x]
           q == [p EXCEPT ![Len(p)] = e]
<1>1. c \in Entry /\ Len(p) \in DOMAIN p /\ c.exec \in Executions
  BY CurrentType DEF Entry
<1>2. /\ x \in Executions /\ DOMAIN x = DOMAIN c.exec /\ x[t] = a
      /\ \A u \in DOMAIN c.exec : u # t => x[u] = c.exec[u]
  BY <1>1, ExecutionsEdit
<1>3. [p EXCEPT ![Len(p)].exec[t] = a] = q
  OBVIOUS
<1> HIDE DEF x
<1>4. /\ e \in Entry /\ e.id = c.id /\ e.exec = x /\ e.decision = c.decision
      /\ e.invalidated = c.invalidated
  BY <1>1, <1>2 DEF Entry
<1> HIDE DEF e
<1>5. /\ q \in Seq(Entry) /\ Len(q) = Len(p) /\ DOMAIN q = DOMAIN p
      /\ q # <<>> /\ q[Len(p)] = e
      /\ \A i \in DOMAIN p : i # Len(p) => q[i] = p[i]
  BY <1>4, CurrentEdit
<1> HIDE DEF q
<1>6. State(q) = State(p)
  BY <1>4, <1>5 DEF State, Current
<1> QED
  BY <1>2, <1>3, <1>4, <1>5, <1>6 DEF Kept, Edited

(* CreateChild adds an open attempt. *)
LEMMA CreateChildEffect ==
  ASSUME NEW p \in Seq(Entry), p # <<>>, NEW t \in DOMAIN p[Len(p)].exec,
         NEW c \in Nat
  PROVE  LET a == p[Len(p)].exec[t]
             b == Append(a, [child |-> c, result |-> Nil]) IN
         /\ Edited(p, CreateChild(p, t, c), t, b)
         /\ a \in Seq(Attempt) /\ b \in Seq(Attempt) /\ Len(b) = Len(a) + 1
         /\ DOMAIN a = 1..Len(a) /\ DOMAIN b = 1..(Len(a) + 1)
         /\ \A k \in DOMAIN a : b[k] = a[k]
         /\ b[Len(a) + 1].child = c /\ b[Len(a) + 1].result = Nil
<1> DEFINE a == p[Len(p)].exec[t]
           new == [child |-> c, result |-> Nil]
           b == Append(a, new)
<1>1. a \in Seq(Attempt)
  <2>1. p[Len(p)] \in Entry
    BY CurrentType
  <2>2. p[Len(p)].exec \in Executions
    BY <2>1 DEF Entry
  <2> QED
    BY <2>2, ExecutionsType
<1>2. new \in Attempt /\ new.child = c /\ new.result = Nil
  BY DEF Attempt
<1> HIDE DEF new
<1>3. /\ b \in Seq(Attempt) /\ Len(b) = Len(a) + 1
      /\ DOMAIN a = 1..Len(a) /\ DOMAIN b = 1..(Len(a) + 1)
      /\ \A k \in DOMAIN a : b[k] = a[k]
      /\ b[Len(a) + 1] = new
  BY <1>1, <1>2
<1>4. CreateChild(p, t, c) = [p EXCEPT ![Len(p)].exec[t] = b]
  BY DEF CreateChild, new
<1> HIDE DEF b
<1>5. Edited(p, CreateChild(p, t, c), t, b)
  <2>1. b \in Seq(Attempt)
    BY <1>3
  <2>2. Edited(p, [p EXCEPT ![Len(p)].exec[t] = b], t, b)
    BY <2>1, EditEffect
  <2> QED
    BY <1>4, <2>2
<1> QED
  BY <1>1, <1>2, <1>3, <1>5 DEF new, b

(* RecordResult closes the last attempt. *)
LEMMA RecordResultEffect ==
  ASSUME NEW p \in Seq(Entry), p # <<>>, NEW t \in DOMAIN p[Len(p)].exec,
         p[Len(p)].exec[t] # <<>>, NEW o \in TaskOutcomes
  PROVE  LET a == p[Len(p)].exec[t]
             b == RecordResult(p, t, o)[Len(p)].exec[t] IN
         /\ Edited(p, RecordResult(p, t, o), t, b)
         /\ a \in Seq(Attempt) /\ b \in Seq(Attempt) /\ Len(b) = Len(a)
         /\ DOMAIN a = 1..Len(a) /\ DOMAIN b = DOMAIN a /\ Len(a) \in DOMAIN a
         /\ \A k \in DOMAIN a : b[k].child = a[k].child
         /\ \A k \in DOMAIN a : k # Len(a) => b[k] = a[k]
         /\ b[Len(a)].result = o
<1> DEFINE a == p[Len(p)].exec[t]
           x == a[Len(a)]
           y == [x EXCEPT !.result = o]
           b == [a EXCEPT ![Len(a)] = y]
<1>1. a \in Seq(Attempt)
  <2>1. p[Len(p)] \in Entry
    BY CurrentType
  <2>2. p[Len(p)].exec \in Executions
    BY <2>1 DEF Entry
  <2> QED
    BY <2>2, ExecutionsType
<1>2. Len(a) \in 1..Len(a) /\ DOMAIN a = 1..Len(a)
  BY <1>1
<1>3. y \in Attempt /\ y.child = x.child /\ y.result = o
  <2>1. x \in Attempt
    BY <1>1, <1>2
  <2> HIDE DEF x
  <2> QED
    BY <2>1 DEF Attempt
<1> HIDE DEF y
<1>4. /\ b \in Seq(Attempt) /\ Len(b) = Len(a) /\ DOMAIN b = DOMAIN a
      /\ \A k \in DOMAIN a : k # Len(a) => b[k] = a[k]
      /\ b[Len(a)] = y
  BY <1>1, <1>2, <1>3
<1>5. RecordResult(p, t, o) = [p EXCEPT ![Len(p)].exec[t] = b]
  BY DEF RecordResult, y, Current
<1> HIDE DEF b
<1>6. Edited(p, RecordResult(p, t, o), t, b)
  BY <1>4, <1>5, EditEffect
<1>7. RecordResult(p, t, o)[Len(p)].exec[t] = b
  BY <1>6 DEF Edited
<1>8. \A k \in DOMAIN a : b[k].child = a[k].child
  BY <1>3, <1>4
<1> HIDE DEF a
<1> QED
  BY <1>1, <1>2, <1>3, <1>4, <1>6, <1>7, <1>8 DEF a
-----------------------------------------------------------------------------
(* What those operations leave of the attempts. *)

\* q has the attempts of p and no other
SameAttempts(p, q) ==
  /\ \A i, t, k, c : At(q, i, t, k, c) <=> At(p, i, t, k, c)
  /\ \A i, t, k, c : At(p, i, t, k, c) =>
       q[i].id = p[i].id /\ q[i].exec[t] = p[i].exec[t]

\* q has the attempts of p, with whatever result
Follows(p, q) ==
  \A i, t, k, c : At(p, i, t, k, c) => At(q, i, t, k, c) /\ q[i].id = p[i].id

\* the records of child runs stay as they are
ChildRunsKept(rs, rs2) ==
  \A c \in DOMAIN rs : rs[c].kind = "child" => c \in DOMAIN rs2 /\ rs2[c] = rs[c]

(* A change of the plan that leaves its attempts alone keeps what is said of them. *)
LEMMA SameAttemptsKeep ==
  ASSUME NEW p, NEW q, NEW rs, NEW rs2, SameAttempts(p, q), EntriesInv(q),
         AttemptsOK(p, rs), ChildRunsKept(rs, rs2)
  PROVE  AttemptsOK(q, rs2) /\ Follows(p, q)
<1>1. ChildrenOnce(q)
  BY DEF SameAttempts, ChildrenOnce, AttemptsOK
<1>2. RetriesFirst(q)
  BY DEF SameAttempts, RetriesFirst, AttemptsOK
<1>3. RunsMatch(q, rs2)
  BY DEF SameAttempts, RunsMatch, AttemptsOK, ChildRunsKept
<1>4. Follows(p, q)
  BY DEF SameAttempts, Follows
<1> QED
  BY <1>1, <1>2, <1>3, <1>4 DEF AttemptsOK

(* Propose leaves the attempts and the identities. *)
LEMMA ProposeKeeps ==
  ASSUME NEW p \in Seq(Entry), NEW r \in Proposable(p), EntriesInv(p)
  PROVE  SameAttempts(p, Propose(p, r)) /\ EntriesInv(Propose(p, r))
<1> DEFINE q == Propose(p, r)
<1>1. r \in DOMAIN Revisions /\ \A i \in DOMAIN p : p[i].id # r
  BY DEF Proposable, CanPropose
<1>2. /\ q \in Seq(Entry) /\ Len(q) = Len(p) + 1 /\ Len(p) \in Nat
      /\ DOMAIN q = 1..(Len(p) + 1) /\ DOMAIN p = 1..Len(p)
      /\ \A i \in DOMAIN p : q[i] = p[i]
      /\ q[Len(p) + 1].id = r /\ DOMAIN q[Len(p) + 1].exec = {}
  BY <1>1, ProposeEffect
<1> HIDE DEF q
<1>3. \A i \in DOMAIN q : i \in DOMAIN p \/ i = Len(p) + 1
  BY <1>2
<1>4. DOMAIN p \subseteq DOMAIN q
  BY <1>2
<1>5. SameAttempts(p, q)
  BY <1>2, <1>3, <1>4 DEF SameAttempts, At
<1>6. EntriesInv(q)
  BY <1>1, <1>2, <1>3, <1>4 DEF EntriesInv
<1> QED
  BY <1>5, <1>6 DEF q

(* So do the edits of the current entry that keep its attempts, or that give a
   history to an entry that had none. *)
LEMMA EditKeeps ==
  ASSUME NEW p \in Seq(Entry), p # <<>>, NEW q, Kept(p, q), EntriesInv(p),
         \/ q[Len(p)].exec = p[Len(p)].exec
         \/ /\ DOMAIN p[Len(p)].exec = {}
            /\ q[Len(p)].exec = [t \in TaskIds(p[Len(p)].id) |-> <<>>],
         q[Len(p)].decision = Nil => q[Len(p)].exec = p[Len(p)].exec /\ p[Len(p)].decision = Nil
  PROVE  SameAttempts(p, q) /\ EntriesInv(q)
<1> DEFINE n == Len(p)
<1>1. /\ n \in DOMAIN p /\ DOMAIN q = DOMAIN p /\ q[n].id = p[n].id
      /\ \A i \in DOMAIN p : i # n => q[i] = p[i]
  BY CurrentType DEF Kept
<1>2. DOMAIN q[n].exec \subseteq TaskIds(q[n].id)
  BY <1>1 DEF EntriesInv
<1>3. q[n].decision = Nil => DOMAIN q[n].exec = {}
  BY <1>1 DEF EntriesInv
<1>4. \A t, k, c : At(q, n, t, k, c) <=> At(p, n, t, k, c)
  <2>1. CASE q[n].exec = p[n].exec
    BY <1>1, <2>1 DEF At
  <2>2. CASE /\ DOMAIN p[n].exec = {}
             /\ q[n].exec = [t \in TaskIds(p[n].id) |-> <<>>]
    <3>1. \A t \in DOMAIN q[n].exec : DOMAIN q[n].exec[t] = {}
      BY <2>2
    <3> QED
      BY <2>2, <3>1 DEF At
  <2> QED
    BY <2>1, <2>2
<1>5. \A t, k, c : At(p, n, t, k, c) => q[n].exec[t] = p[n].exec[t]
  BY DEF At
<1> HIDE DEF n
<1>6. SameAttempts(p, q)
  <2>1. \A i, t, k, c : i # n => (At(q, i, t, k, c) <=> At(p, i, t, k, c))
    BY <1>1 DEF At
  <2>2. \A i, t, k, c : At(p, i, t, k, c) =>
          q[i].id = p[i].id /\ q[i].exec[t] = p[i].exec[t]
    BY <1>1, <1>5 DEF At
  <2> QED
    BY <1>4, <2>1, <2>2 DEF SameAttempts
<1>7. EntriesInv(q)
  BY <1>1, <1>2, <1>3 DEF EntriesInv
<1> QED
  BY <1>6, <1>7

(* The task of a child is determined by its attempt. *)
LEMMA TaskOfAttempt ==
  ASSUME NEW p \in Seq(Entry), EntriesInv(p), ChildrenOnce(p),
         NEW i, NEW t, NEW k, NEW c, At(p, i, t, k, c)
  PROVE  TaskOf(p, c).rev = p[i].id /\ TaskOf(p, c).task = t
<1> DEFINE D == [rev : DOMAIN Revisions,
                 task : UNION {TaskIds(r) : r \in DOMAIN Revisions}]
           Is(d) == \E j \in DOMAIN p :
             /\ p[j].id = d.rev
             /\ d.task \in DOMAIN p[j].exec
             /\ \E l \in DOMAIN p[j].exec[d.task] : p[j].exec[d.task][l].child = c
           x == [rev |-> p[i].id, task |-> t]
<1>1. p[i] \in Entry /\ i \in DOMAIN p
  BY DEF At
<1>2. p[i].id \in DOMAIN Revisions /\ t \in TaskIds(p[i].id)
  BY <1>1 DEF Entry, EntriesInv, At
<1>3. x \in D /\ x.rev = p[i].id /\ x.task = t
  BY <1>2
<1>4. Is(x)
  BY <1>3 DEF At
<1>5. ASSUME NEW d \in D, Is(d)
      PROVE  d.rev = p[i].id /\ d.task = t
  <2>1. PICK j \in DOMAIN p :
          /\ p[j].id = d.rev
          /\ d.task \in DOMAIN p[j].exec
          /\ \E l \in DOMAIN p[j].exec[d.task] : p[j].exec[d.task][l].child = c
    BY <1>5
  <2>2. PICK l : At(p, j, d.task, l, c)
    BY <2>1 DEF At
  <2>3. i = j /\ t = d.task
    BY <2>2 DEF ChildrenOnce
  <2> QED
    BY <2>1, <2>3
<1>6. TaskOf(p, c) = CHOOSE d \in D : Is(d)
  BY DEF TaskOf
<1> HIDE DEF D, Is, x
<1>7. TaskOf(p, c) \in D /\ Is(TaskOf(p, c))
  BY <1>3, <1>4, <1>6
<1> QED
  BY <1>5, <1>7
(* The task of a child stays the one it was dispatched for. *)
LEMMA TaskStays ==
  ASSUME NEW p \in Seq(Entry), EntriesInv(p), ChildrenOnce(p),
         NEW q \in Seq(Entry), EntriesInv(q), ChildrenOnce(q), Follows(p, q),
         NEW c, Attempted(p, c)
  PROVE  /\ TaskOf(q, c).rev = TaskOf(p, c).rev
         /\ TaskOf(q, c).task = TaskOf(p, c).task
<1>1. PICK i, t, k : At(p, i, t, k, c)
  BY DEF Attempted
<1>2. At(q, i, t, k, c) /\ q[i].id = p[i].id
  BY <1>1 DEF Follows
<1>3. TaskOf(p, c).rev = p[i].id /\ TaskOf(p, c).task = t
  BY <1>1, TaskOfAttempt
<1>4. TaskOf(q, c).rev = q[i].id /\ TaskOf(q, c).task = t
  BY <1>2, TaskOfAttempt
<1> QED
  BY <1>2, <1>3, <1>4

(* The attempts of an edited plan, elsewhere. *)
LEMMA EditedElsewhere ==
  ASSUME NEW p \in Seq(Entry), p # <<>>, NEW q, NEW t, NEW a, Edited(p, q, t, a)
  PROVE  /\ \A i, u, k, c : i # Len(p) \/ u # t =>
              /\ At(q, i, u, k, c) <=> At(p, i, u, k, c)
              /\ At(p, i, u, k, c) => q[i].exec[u] = p[i].exec[u]
         /\ \A i \in DOMAIN p : q[i].id = p[i].id
         /\ Len(p) \in DOMAIN p /\ DOMAIN q = DOMAIN p
<1>1. Len(p) \in DOMAIN p /\ DOMAIN q = DOMAIN p
  BY CurrentType DEF Edited, Kept
<1>2. \A i \in DOMAIN p : i # Len(p) => q[i] = p[i]
  BY DEF Edited, Kept
<1>3. q[Len(p)].id = p[Len(p)].id
  BY DEF Edited, Kept
<1>4. /\ DOMAIN q[Len(p)].exec = DOMAIN p[Len(p)].exec
      /\ \A u \in DOMAIN p[Len(p)].exec : u # t => q[Len(p)].exec[u] = p[Len(p)].exec[u]
  BY DEF Edited
<1>5. \A i, u, k, c : i # Len(p) \/ u # t =>
        /\ At(q, i, u, k, c) <=> At(p, i, u, k, c)
        /\ At(p, i, u, k, c) => q[i].exec[u] = p[i].exec[u]
  BY <1>1, <1>2, <1>4 DEF At
<1> QED
  BY <1>1, <1>2, <1>3, <1>5

(* An edited plan keeps what is known of its entries. *)
LEMMA EditedEntries ==
  ASSUME NEW p \in Seq(Entry), p # <<>>, NEW q, NEW t, NEW a, Edited(p, q, t, a),
         EntriesInv(p)
  PROVE  EntriesInv(q)
<1>1. Len(p) \in DOMAIN p /\ DOMAIN q = DOMAIN p
  BY CurrentType DEF Edited, Kept
<1>2. \A i \in DOMAIN p : i # Len(p) => q[i] = p[i]
  BY DEF Edited, Kept
<1>3. /\ q[Len(p)].id = p[Len(p)].id /\ q[Len(p)].decision = p[Len(p)].decision
      /\ DOMAIN q[Len(p)].exec = DOMAIN p[Len(p)].exec
  BY DEF Edited, Kept
<1> QED
  BY <1>1, <1>2, <1>3 DEF EntriesInv

(* Starting a run adds its record. *)
LEMMA AppendRun ==
  ASSUME NEW rs \in Seq(RunRecord), NEW r \in RunRecord
  PROVE  LET rs2 == Append(rs, r) IN
         /\ rs2 \in Seq(RunRecord) /\ DOMAIN rs2 = (DOMAIN rs) \cup {Len(rs) + 1}
         /\ rs2[Len(rs) + 1] = r /\ Len(rs) + 1 \notin DOMAIN rs
         /\ Len(rs) + 1 \in Nat \ {0}
         /\ \A i \in DOMAIN rs : rs2[i] = rs[i]
<1>1. /\ DOMAIN rs = 1..Len(rs) /\ Len(rs) \in Nat
      /\ DOMAIN Append(rs, r) = 1..(Len(rs) + 1)
  OBVIOUS
<1>2. 1..(Len(rs) + 1) = (1..Len(rs)) \cup {Len(rs) + 1}
  BY <1>1
<1> QED
  BY <1>1, <1>2

(* A new child: its attempt is the last of its task, and every other record is
   left as it was. *)
LEMMA CreateChildKeeps ==
  ASSUME NEW p \in Seq(Entry), p # <<>>, NEW t \in DOMAIN p[Len(p)].exec,
         AwaitsAttempt(p[Len(p)].exec[t]),
         NEW rs \in Seq(RunRecord), AttemptsOK(p, rs),
         NEW q, q = CreateChild(p, t, Len(rs) + 1),
         NEW rs2, rs2 = Append(rs, [kind |-> "child", status |-> "running"])
  PROVE  /\ AttemptsOK(q, rs2) /\ Follows(p, q) /\ q \in Seq(Entry)
         /\ OpenAt(q, Len(p), t, Len(rs) + 1)
         /\ \A i, u, d : OpenAt(p, i, u, d) => OpenAt(q, i, u, d)
<1> DEFINE n == Len(p)
           c == Len(rs) + 1
           a == p[n].exec[t]
           b == Append(a, [child |-> c, result |-> Nil])
           m == Len(a) + 1
<1>1. c \in Nat
  OBVIOUS
<1>2. /\ Edited(p, q, t, b)
      /\ a \in Seq(Attempt) /\ b \in Seq(Attempt) /\ Len(b) = m
      /\ DOMAIN a = 1..Len(a) /\ DOMAIN b = 1..m
      /\ \A k \in DOMAIN a : b[k] = a[k]
      /\ b[m].child = c /\ b[m].result = Nil
  BY <1>1, CreateChildEffect
<1> HIDE DEF b
<1>3. Len(a) \in Nat
  BY <1>2
<1>4. /\ \A k \in DOMAIN b : k \in DOMAIN a \/ k = m
      /\ m \in DOMAIN b /\ DOMAIN a \subseteq DOMAIN b /\ m \notin DOMAIN a
      /\ \A k \in DOMAIN a : k < m
  BY <1>2, <1>3
<1>5. q[n].exec[t] = b /\ q \in Seq(Entry)
  BY <1>2 DEF Edited, Kept
<1>6. /\ \A i, u, k, d : i # n \/ u # t =>
           /\ At(q, i, u, k, d) <=> At(p, i, u, k, d)
           /\ At(p, i, u, k, d) => q[i].exec[u] = p[i].exec[u]
      /\ \A i \in DOMAIN p : q[i].id = p[i].id
      /\ n \in DOMAIN p /\ DOMAIN q = DOMAIN p
  BY <1>2, EditedElsewhere
<1>7. DOMAIN q[n].exec = DOMAIN p[n].exec
  BY <1>2 DEF Edited
<1> HIDE DEF n, m, a, c
<1>8. \A k, d : At(q, n, t, k, d) <=> At(p, n, t, k, d) \/ (k = m /\ d = c)
  <2>1. \A k \in DOMAIN a : At(q, n, t, k, b[k].child) /\ At(p, n, t, k, b[k].child)
    BY <1>2, <1>4, <1>5, <1>6, <1>7 DEF At, n, a
  <2>2. At(q, n, t, m, c)
    BY <1>2, <1>4, <1>5, <1>6, <1>7 DEF At, n
  <2>3. \A k, d : At(p, n, t, k, d) => k \in DOMAIN a /\ d = a[k].child
    BY DEF At, a
  <2>4. \A k, d : At(q, n, t, k, d) => k \in DOMAIN b /\ d = b[k].child
    BY <1>5 DEF At
  <2> QED
    BY <1>2, <1>4, <2>1, <2>2, <2>3, <2>4
<1>9. \A i, u, k, d : At(q, i, u, k, d) <=>
        At(p, i, u, k, d) \/ (i = n /\ u = t /\ k = m /\ d = c)
  BY <1>6, <1>8
<1>10. \A i, u, k, d : At(p, i, u, k, d) => q[i].exec[u][k] = p[i].exec[u][k]
  <2>1. \A k, d : At(p, n, t, k, d) => q[n].exec[t][k] = p[n].exec[t][k]
    BY <1>2, <1>5 DEF At, a, n
  <2> QED
    BY <1>6, <2>1
<1>11. \A i, u, k, d : At(p, i, u, k, d) => d \in DOMAIN rs /\ d # c
  <2>1. \A i, u, k, d : At(p, i, u, k, d) => d \in DOMAIN rs
    BY DEF AttemptsOK, RunsMatch
  <2>2. DOMAIN rs = 1..Len(rs) /\ Len(rs) \in Nat
    OBVIOUS
  <2> QED
    BY <2>1, <2>2 DEF c
<1>12. EntriesInv(q)
  BY <1>2, EditedEntries DEF AttemptsOK
<1>13. ChildrenOnce(q)
  BY <1>9, <1>11 DEF ChildrenOnce, AttemptsOK
<1>14. RetriesFirst(q)
  <2> SUFFICES ASSUME NEW i, NEW u, NEW k, NEW d, At(q, i, u, k, d),
                      k < Len(q[i].exec[u])
               PROVE  q[i].exec[u][k].result = "retry"
    BY DEF RetriesFirst
  <2>1. CASE i # n \/ u # t
    <3>1. At(p, i, u, k, d)
      BY <1>6, <2>1
    <3>2. q[i].exec[u] = p[i].exec[u]
      BY <1>6, <2>1, <3>1
    <3>3. RetriesFirst(p)
      BY DEF AttemptsOK
    <3> QED
      BY <3>1, <3>2, <3>3 DEF RetriesFirst
  <2>2. CASE i = n /\ u = t
    <3>1. k \in DOMAIN b /\ k < m
      BY <1>2, <1>5, <2>2 DEF At
    <3>2. k \in DOMAIN a /\ a # <<>>
      BY <1>2, <1>4, <3>1
    <3>3. At(p, n, t, k, a[k].child)
      BY <1>6, <3>2 DEF At, a, n
    <3>4. Last(a).result = "retry" /\ Last(a) = a[Len(a)]
      BY <3>2 DEF AwaitsAttempt, Last, a, n
    <3>5. a[k].result = "retry"
      <4>1. CASE k = Len(a)
        BY <3>4, <4>1
      <4>2. CASE k < Len(a)
        BY <3>3, <4>2 DEF RetriesFirst, AttemptsOK, a
      <4> QED
        BY <1>2, <3>2, <4>1, <4>2
    <3> QED
      BY <1>2, <1>5, <2>2, <3>2, <3>5
  <2> QED
    BY <2>1, <2>2
<1>15. RunsMatch(q, rs2)
  <2>1. /\ rs2[c] = [kind |-> "child", status |-> "running"]
        /\ c \in DOMAIN rs2 /\ DOMAIN rs \subseteq DOMAIN rs2
        /\ \A d \in DOMAIN rs : rs2[d] = rs[d]
    <3>1. [kind |-> "child", status |-> "running"] \in RunRecord
      BY DEF RunRecord
    <3> QED
      BY <3>1, AppendRun DEF c
  <2>2. ASSUME NEW i, NEW u, NEW k, NEW d, At(p, i, u, k, d)
        PROVE  /\ d \in DOMAIN rs2 /\ rs2[d].kind = "child"
               /\ rs2[d].status = StatusOf(q[i].exec[u][k].result)
    BY <1>10, <1>11, <2>1, <2>2 DEF RunsMatch, AttemptsOK
  <2>3. rs2[c].kind = "child" /\ rs2[c].status = StatusOf(q[n].exec[t][m].result)
    <3>1. q[n].exec[t][m].result = Nil
      BY <1>2, <1>5
    <3>2. rs2[c].kind = "child" /\ rs2[c].status = "running"
      BY <2>1
    <3> QED
      BY <3>1, <3>2 DEF StatusOf
  <2> QED
    BY <1>9, <2>1, <2>2, <2>3 DEF RunsMatch
<1>16. Follows(p, q)
  <2>1. \A i, u, k, d : At(p, i, u, k, d) => i \in DOMAIN p
    BY DEF At
  <2> QED
    BY <1>6, <1>9, <2>1 DEF Follows
<1>17. OpenAt(q, n, t, c)
  BY <1>2, <1>5, <1>9 DEF OpenAt, Last
<1>18. ASSUME NEW i, NEW u, NEW d, OpenAt(p, i, u, d)
       PROVE  OpenAt(q, i, u, d)
  <2>1. i # n \/ u # t
    <3>1. SUFFICES ASSUME i = n, u = t PROVE FALSE
      OBVIOUS
    <3>2. Last(a).result = Nil /\ Len(a) \in DOMAIN a
      BY <1>18, <3>1 DEF OpenAt, At, a, n
    <3>3. Last(a).result = "retry"
      BY <1>2, <3>2 DEF AwaitsAttempt, a, n
    <3> QED
      BY <3>2, <3>3, PlanAssumption DEF TaskOutcomes
  <2> QED
    BY <1>6, <1>18, <2>1 DEF OpenAt
<1> QED
  BY <1>5, <1>12, <1>13, <1>14, <1>15, <1>16, <1>17, <1>18 DEF AttemptsOK, n, c
(* The status a run ends with. *)
LEMMA EndStatus ==
  ASSUME NEW o
  PROVE  RunStatusOf(o) \in {"completed", "cancelled", "failed"}
<1>1. CASE o = "completed"
  BY <1>1 DEF RunStatusOf
<1>2. CASE o \in {"cancelled", "timed_out"}
  BY <1>2 DEF RunStatusOf
<1>3. CASE ~(o = "completed") /\ ~(o \in {"cancelled", "timed_out"})
  BY <1>3 DEF RunStatusOf
<1> QED
  BY <1>1, <1>2, <1>3

(* Replacing one member of a sequence. *)
LEMMA SequenceEdit ==
  ASSUME NEW S, NEW q \in Seq(S), NEW i \in DOMAIN q, NEW x \in S
  PROVE  LET q2 == [q EXCEPT ![i] = x] IN
         /\ q2 \in Seq(S) /\ DOMAIN q2 = DOMAIN q /\ Len(q2) = Len(q)
         /\ q2[i] = x /\ \A j \in DOMAIN q : j # i => q2[j] = q[j]
  OBVIOUS

\* The run c ends with outcome o, and the others go on.
RunEnds(rs, rs2, c, o) ==
  /\ rs2 \in Seq(RunRecord) /\ DOMAIN rs2 = DOMAIN rs
  /\ rs2[c].kind = rs[c].kind /\ rs2[c].status = RunStatusOf(o)
  /\ \A d \in DOMAIN rs : d # c => rs2[d] = rs[d]

(* Setting the status of one run record ends that run and no other. *)
LEMMA RunEndsByEdit ==
  ASSUME NEW rs \in Seq(RunRecord), NEW c \in DOMAIN rs, NEW o
  PROVE  RunEnds(rs, [rs EXCEPT ![c].status = RunStatusOf(o)], c, o)
<1> DEFINE s == [rs[c] EXCEPT !.status = RunStatusOf(o)]
<1>1. rs[c] \in RunRecord
  OBVIOUS
<1>2. RunStatusOf(o) \in {"completed", "cancelled", "failed"}
  BY EndStatus
<1>3. s \in RunRecord /\ s.kind = rs[c].kind /\ s.status = RunStatusOf(o)
  BY <1>1, <1>2 DEF RunRecord
<1>4. [rs EXCEPT ![c].status = RunStatusOf(o)] = [rs EXCEPT ![c] = s]
  OBVIOUS
<1> HIDE DEF s
<1> QED
  BY <1>3, <1>4, SequenceEdit DEF RunEnds

(* A result closes its attempt and the run of it, and nothing else. *)
LEMMA RecordResultKeeps ==
  ASSUME NEW p \in Seq(Entry), p # <<>>, NEW t \in DOMAIN p[Len(p)].exec,
         NEW rs \in Seq(RunRecord), AttemptsOK(p, rs),
         NEW c, OpenAt(p, Len(p), t, c), NEW o \in TaskOutcomes,
         NEW q, q = RecordResult(p, t, o),
         NEW rs2, RunEnds(rs, rs2, c, o)
  PROVE  /\ AttemptsOK(q, rs2) /\ Follows(p, q) /\ q \in Seq(Entry)
         /\ Len(q) = Len(p) /\ State(q) = State(p) /\ q # <<>>
         /\ q[Len(p)].id = p[Len(p)].id
         /\ \A i, u, d : d # c /\ OpenAt(p, i, u, d) => OpenAt(q, i, u, d)
         /\ c \in DOMAIN rs /\ rs[c].kind = "child"
<1> DEFINE n == Len(p)
           a == p[n].exec[t]
           b == q[n].exec[t]
           m == Len(a)
<1>1. a # <<>> /\ a[m].child = c /\ a[m].result = Nil
  BY DEF OpenAt, At, Last
<1>2. /\ Edited(p, q, t, b)
      /\ a \in Seq(Attempt) /\ b \in Seq(Attempt) /\ Len(b) = m
      /\ DOMAIN a = 1..m /\ DOMAIN b = DOMAIN a /\ m \in DOMAIN a
      /\ \A k \in DOMAIN a : b[k].child = a[k].child
      /\ \A k \in DOMAIN a : k # m => b[k] = a[k]
      /\ b[m].result = o
  BY <1>1, RecordResultEffect
<1>3. /\ \A i, u, k, d : i # n \/ u # t =>
           /\ At(q, i, u, k, d) <=> At(p, i, u, k, d)
           /\ At(p, i, u, k, d) => q[i].exec[u] = p[i].exec[u]
      /\ \A i \in DOMAIN p : q[i].id = p[i].id
      /\ n \in DOMAIN p /\ DOMAIN q = DOMAIN p
  BY <1>2, EditedElsewhere
<1>4. /\ DOMAIN q[n].exec = DOMAIN p[n].exec /\ q \in Seq(Entry) /\ q # <<>>
      /\ Len(q) = n /\ State(q) = State(p) /\ q[n].id = p[n].id
  BY <1>2 DEF Edited, Kept
<1> HIDE DEF n, m, a, b
<1>5. \A k, d : At(q, n, t, k, d) <=> At(p, n, t, k, d)
  BY <1>2, <1>3, <1>4 DEF At, n, a, b
<1>6. \A i, u, k, d : At(q, i, u, k, d) <=> At(p, i, u, k, d)
  BY <1>3, <1>5
<1>7. At(p, n, t, m, c)
  BY DEF OpenAt, n, m, a
<1>8. \A i, u, k, d : At(p, i, u, k, d) /\ d # c =>
        q[i].exec[u][k] = p[i].exec[u][k]
  <2>1. \A k, d : At(p, n, t, k, d) /\ d # c => k # m /\ k \in DOMAIN a
    BY <1>1 DEF At, n, a
  <2>2. \A k, d : At(p, n, t, k, d) /\ d # c => q[n].exec[t][k] = p[n].exec[t][k]
    BY <1>2, <2>1 DEF n, a, b
  <2> QED
    BY <1>3, <2>2
<1>9. /\ c \in DOMAIN rs /\ rs[c].kind = "child"
  BY <1>7 DEF AttemptsOK, RunsMatch
<1>10. /\ rs2 \in Seq(RunRecord) /\ DOMAIN rs2 = DOMAIN rs
       /\ rs2[c].kind = rs[c].kind /\ rs2[c].status = RunStatusOf(o)
       /\ \A d \in DOMAIN rs : d # c => rs2[d] = rs[d]
  BY DEF RunEnds
<1>11. EntriesInv(q)
  BY <1>2, EditedEntries DEF AttemptsOK
<1>12. ChildrenOnce(q)
  BY <1>6 DEF ChildrenOnce, AttemptsOK
<1>13. RetriesFirst(q)
  <2> SUFFICES ASSUME NEW i, NEW u, NEW k, NEW d, At(q, i, u, k, d),
                      k < Len(q[i].exec[u])
               PROVE  q[i].exec[u][k].result = "retry"
    BY DEF RetriesFirst
  <2>1. At(p, i, u, k, d)
    BY <1>6
  <2>2. CASE i # n \/ u # t
    BY <1>3, <2>1, <2>2 DEF RetriesFirst, AttemptsOK
  <2>3. CASE i = n /\ u = t
    <3>1. k \in DOMAIN a /\ k < m
      BY <1>2, <2>1, <2>3 DEF At, a, b
    <3>2. a[k].result = "retry"
      BY <2>1, <2>3, <3>1 DEF RetriesFirst, AttemptsOK, a, m
    <3>3. b[k] = a[k]
      BY <1>2, <3>1
    <3> QED
      BY <2>3, <3>2, <3>3 DEF b
  <2> QED
    BY <2>2, <2>3
<1>14. RunsMatch(q, rs2)
  <2> SUFFICES ASSUME NEW i, NEW u, NEW k, NEW d, At(q, i, u, k, d)
               PROVE  /\ d \in DOMAIN rs2 /\ rs2[d].kind = "child"
                      /\ rs2[d].status = StatusOf(q[i].exec[u][k].result)
    BY DEF RunsMatch
  <2>1. At(p, i, u, k, d)
    BY <1>6
  <2>2. /\ d \in DOMAIN rs /\ rs[d].kind = "child"
        /\ rs[d].status = StatusOf(p[i].exec[u][k].result)
    BY <2>1 DEF AttemptsOK, RunsMatch
  <2>3. CASE d # c
    BY <1>8, <1>10, <2>1, <2>2, <2>3
  <2>4. CASE d = c
    <3>1. i = n /\ u = t /\ k = m
      BY <1>7, <2>1, <2>4 DEF AttemptsOK, ChildrenOnce
    <3>2. q[i].exec[u][k].result = o
      BY <1>2, <3>1 DEF b
    <3>3. StatusOf(o) = RunStatusOf(o)
      BY PlanAssumption DEF StatusOf
    <3> QED
      BY <1>9, <1>10, <2>4, <3>2, <3>3
  <2> QED
    BY <2>3, <2>4
<1>15. Follows(p, q)
  <2>1. \A i, u, k, d : At(p, i, u, k, d) => i \in DOMAIN p
    BY DEF At
  <2> QED
    BY <1>3, <1>6, <2>1 DEF Follows
<1>16. ASSUME NEW i, NEW u, NEW d, d # c, OpenAt(p, i, u, d)
       PROVE  OpenAt(q, i, u, d)
  <2>1. CASE i # n \/ u # t
    BY <1>3, <1>16, <2>1 DEF OpenAt
  <2>2. CASE i = n /\ u = t
    <3>1. a[m].child = d
      BY <1>16, <2>2 DEF OpenAt, At, a, m, n
    <3> QED
      BY <1>1, <1>16, <3>1
  <2> QED
    BY <2>1, <2>2
<1> QED
  BY <1>4, <1>9, <1>10, <1>11, <1>12, <1>13, <1>14, <1>15, <1>16 DEF AttemptsOK, n
-----------------------------------------------------------------------------
(* Conflicts, and the workers that run together. *)

(* Two intents are related whichever is named first. *)
LEMMA RelationSymmetric ==
  ASSUME NEW x, NEW y
  PROVE  IntentRelation(x, y) = IntentRelation(y, x)
<1> DEFINE paths == x.kind = "repository_path" /\ y.kind = "repository_path"
           parts == x.kind = "repository_component" /\ y.kind = "repository_component"
<1>1. CASE paths
  BY <1>1 DEF IntentRelation, PathsOverlap
<1>2. CASE parts
  BY <1>2 DEF IntentRelation
<1>3. CASE ~paths /\ ~parts
  BY <1>3 DEF IntentRelation
<1> QED
  BY <1>1, <1>2, <1>3

(* task_resource_conflict does not depend on the order of the tasks. *)
LEMMA ConflictSymmetric ==
  ASSUME NEW x, NEW y
  PROVE  TaskResourceConflict(x, y) <=> TaskResourceConflict(y, x)
BY RelationSymmetric DEF TaskResourceConflict

(* No worker starts: what ran together still may, and a new revision has no
   workers. *)
LEMMA IndependentStays ==
  ASSUME NEW p \in Seq(Entry), EntriesInv(p), ChildrenOnce(p),
         NEW q \in Seq(Entry), EntriesInv(q), ChildrenOnce(q), Follows(p, q),
         NEW o, NEW o2, Independent(p, o),
         \A c \in DOMAIN o : Attempted(p, c),
         DOMAIN o2 \subseteq DOMAIN o,
         \A c \in DOMAIN o2 : o2[c].worker = "running" => o[c].worker = "running",
         \/ Current(q).id = Current(p).id
         \/ \A i \in DOMAIN p : p[i].id # Current(q).id
  PROVE  Independent(q, o2)
<1>1. ASSUME NEW c \in DOMAIN o2, TaskOf(q, c).rev = Current(q).id
      PROVE  /\ TaskOf(p, c).rev = Current(p).id /\ Current(p).id = Current(q).id
             /\ TaskOf(p, c).task = TaskOf(q, c).task
  <2>1. PICK i, t, k : At(p, i, t, k, c)
    BY DEF Attempted
  <2>2. i \in DOMAIN p /\ TaskOf(p, c).rev = p[i].id
    BY <2>1, TaskOfAttempt DEF At
  <2>3. TaskOf(q, c).rev = p[i].id /\ TaskOf(q, c).task = TaskOf(p, c).task
    BY <2>2, TaskStays
  <2> QED
    BY <1>1, <2>2, <2>3
<1> QED
  BY <1>1 DEF Independent

(* A worker starts: dispatch_child compared its task with those of every other. *)
LEMMA IndependentStarts ==
  ASSUME NEW p \in Seq(Entry), EntriesInv(p), ChildrenOnce(p), p # <<>>,
         NEW q \in Seq(Entry), EntriesInv(q), ChildrenOnce(q), Follows(p, q),
         NEW o, NEW o2, Independent(p, o), NEW new, NEW t, NEW k,
         \A c \in DOMAIN o : Attempted(p, c),
         Current(q).id = Current(p).id, At(q, Len(q), t, k, new),
         DOMAIN o2 = (DOMAIN o) \cup {new},
         \A c \in DOMAIN o : o2[c] = o[c],
         \A c \in DOMAIN o :
           ~TaskResourceConflict(Task(Current(p).id, t),
                                 Task(Current(p).id, TaskOf(p, c).task))
  PROVE  Independent(q, o2)
<1>1. ASSUME NEW c \in DOMAIN o
      PROVE  TaskOf(q, c).rev = TaskOf(p, c).rev /\ TaskOf(q, c).task = TaskOf(p, c).task
  BY TaskStays
<1>2. TaskOf(q, new).task = t
  BY TaskOfAttempt
<1>3. ASSUME NEW c \in DOMAIN o
      PROVE  /\ ~TaskResourceConflict(Task(Current(q).id, TaskOf(q, new).task),
                                      Task(Current(q).id, TaskOf(q, c).task))
             /\ ~TaskResourceConflict(Task(Current(q).id, TaskOf(q, c).task),
                                      Task(Current(q).id, TaskOf(q, new).task))
  BY <1>1, <1>2, ConflictSymmetric
<1> SUFFICES ASSUME NEW c \in DOMAIN o2, NEW d \in DOMAIN o2,
                    o2[c].worker = "running", o2[d].worker = "running", c # d,
                    TaskOf(q, c).rev = Current(q).id, TaskOf(q, d).rev = Current(q).id
             PROVE  ~TaskResourceConflict(Task(Current(q).id, TaskOf(q, c).task),
                                          Task(Current(q).id, TaskOf(q, d).task))
  BY DEF Independent
<1>4. CASE c \in DOMAIN o /\ d \in DOMAIN o
  <2>1. o[c].worker = "running" /\ o[d].worker = "running"
    BY <1>4
  <2>2. TaskOf(p, c).rev = Current(p).id /\ TaskOf(p, d).rev = Current(p).id
    BY <1>1, <1>4
  <2>3. ~TaskResourceConflict(Task(Current(p).id, TaskOf(p, c).task),
                              Task(Current(p).id, TaskOf(p, d).task))
    BY <1>4, <2>1, <2>2 DEF Independent
  <2> QED
    BY <1>1, <1>4, <2>3
<1>5. CASE c = new /\ d \in DOMAIN o
  BY <1>3, <1>5
<1>6. CASE c \in DOMAIN o /\ d = new
  BY <1>3, <1>6
<1> QED
  BY <1>4, <1>5, <1>6
-----------------------------------------------------------------------------
(* The steps.  First those that many actions share. *)

(* A process that starts has no threads, no children and no queue. *)
LEMMA InitialState == Init => PlanInv
<1> SUFFICES ASSUME Init PROVE PlanInv
  OBVIOUS
<1>1. TypeInv
  <2>1. runs \in Seq(RunRecord) /\ plan \in Seq(Entry)
    BY DEF Init
  <2>2. queue \in Seq(Update) /\ batch \in Seq(Update)
    BY DEF Init
  <2>3. DOMAIN ops = {} /\ active = Nil /\ unusable = FALSE
    BY DEF Init
  <2> QED
    BY <2>1, <2>2, <2>3 DEF TypeInv
<1>2. \A i, t, k, c : ~At(plan, i, t, k, c)
  BY DEF Init, At
<1>3. AttemptsInv
  <2>1. EntriesInv(plan)
    BY DEF Init, EntriesInv
  <2> QED
    BY <1>2, <2>1 DEF AttemptsInv, AttemptsOK, ChildrenOnce, RetriesFirst, RunsMatch
<1>4. /\ DOMAIN runs = {} /\ active = Nil /\ DOMAIN children = {} /\ DOMAIN ops = {}
      /\ joining = Nil /\ unusable = FALSE
  BY DEF Init
<1>5. AwaitingInv /\ FailureInv /\ ChildrenInv
  BY <1>4 DEF AwaitingInv, FailureInv, ChildrenInv, IsPlanning
<1>6. IndependentInv
  BY DEF Init, IndependentInv, Independent
<1> QED
  BY <1>1, <1>3, <1>5, <1>6 DEF PlanInv

(* A failing store leaves the stored session and drops the rest. *)
LEMMA FailureStep ==
  ASSUME PlanInv, joining = Nil, PersistenceFailure,
         runs' \in Seq(RunRecord), plan' \in Seq(Entry), AttemptsInv',
         \A i \in DOMAIN runs' : runs'[i].status \in Awaiting =>
           /\ runs'[i].kind = "plan"
           /\ State(plan') \in {"proposed", "revision_requested", "invalidated"}
           /\ \A j \in DOMAIN runs' : runs'[j].status \in Awaiting => j = i
  PROVE  PlanInv'
<1>1. /\ unusable' = TRUE /\ active' = Nil /\ DOMAIN children' = {}
      /\ DOMAIN ops' = {} /\ stream' = "off" /\ queue' = <<>> /\ batch' = <<>>
      /\ joining' = Nil
  BY DEF PersistenceFailure, NoChildren, NoThreads
<1>2. TypeInv'
  BY <1>1 DEF TypeInv
<1>3. AwaitingInv'
  BY <1>1 DEF AwaitingInv, IsPlanning
<1>4. FailureInv' /\ ChildrenInv'
  BY <1>1 DEF FailureInv, ChildrenInv
<1>5. IndependentInv'
  BY <1>1 DEF IndependentInv, Independent
<1> QED
  BY <1>2, <1>3, <1>4, <1>5 DEF PlanInv

(* An operation whose append fails keeps the invariant. *)
LEMMA RefusedStep ==
  ASSUME PlanInv, joining = Nil, Refused
  PROVE  PlanInv'
<1>1. PersistenceFailure /\ runs' = runs /\ plan' = plan
  BY DEF Refused, durable
<1>2. AttemptsInv'
  BY <1>1 DEF PlanInv, AttemptsInv
<1>3. runs' \in Seq(RunRecord) /\ plan' \in Seq(Entry)
  BY <1>1 DEF PlanInv, TypeInv
<1>4. \A i \in DOMAIN runs' : runs'[i].status \in Awaiting =>
        /\ runs'[i].kind = "plan"
        /\ State(plan') \in {"proposed", "revision_requested", "invalidated"}
        /\ \A j \in DOMAIN runs' : runs'[j].status \in Awaiting => j = i
  BY <1>1 DEF PlanInv, AwaitingInv
<1> QED
  BY <1>1, <1>2, <1>3, <1>4, FailureStep

(* The threads of a child go on. *)
LEMMA ThreadStep ==
  ASSUME PlanInv, ~unusable, UNCHANGED <<runs, plan, active, unusable, joining>>,
         DOMAIN children' = DOMAIN children, DOMAIN ops' = DOMAIN ops,
         \A c \in DOMAIN ops :
           /\ ops'[c] \in Operation
           /\ ops'[c].worker = "running" => ops[c].worker = "running",
         queue' \in Seq(Update), batch' \in Seq(Update)
  PROVE  PlanInv'
<1>1. TypeInv'
  BY DEF PlanInv, TypeInv
<1>2. AttemptsInv'
  BY DEF PlanInv, AttemptsInv
<1>3. AwaitingInv'
  BY DEF PlanInv, AwaitingInv, IsPlanning
<1>4. FailureInv'
  BY DEF FailureInv
<1>5. ChildrenInv'
  BY DEF PlanInv, ChildrenInv
<1>6. IndependentInv'
  <2>1. Independent(plan, ops)
    BY DEF PlanInv, IndependentInv
  <2>2. Independent(plan, ops')
    BY <2>1 DEF Independent
  <2> QED
    BY <2>2 DEF IndependentInv
<1> QED
  BY <1>1, <1>2, <1>3, <1>4, <1>5, <1>6 DEF PlanInv

(* The plan changes and its attempts do not. *)
LEMMA PlanStep ==
  ASSUME PlanInv, ~unusable, UNCHANGED <<children, unusable, ops, queue, batch, joining>>,
         runs' \in Seq(RunRecord), plan' \in Seq(Entry),
         active' \in {Nil, Conversation} \cup DOMAIN runs',
         SameAttempts(plan, plan'), EntriesInv(plan'), ChildRunsKept(runs, runs'),
         \/ Current(plan').id = Current(plan).id
         \/ \A i \in DOMAIN plan : plan[i].id # Current(plan').id,
         AwaitingInv'
  PROVE  PlanInv'
<1>1. TypeInv'
  BY DEF PlanInv, TypeInv
<1>2. AttemptsOK(plan', runs') /\ Follows(plan, plan')
  BY SameAttemptsKeep DEF PlanInv, AttemptsInv
<1>3. AttemptsInv'
  BY <1>2 DEF AttemptsInv
<1>4. FailureInv'
  BY DEF FailureInv
<1>5. ChildrenInv'
  <2>1. ASSUME NEW i, NEW t, NEW c, OpenAt(plan, i, t, c)
        PROVE  OpenAt(plan', i, t, c)
    BY <2>1 DEF OpenAt, SameAttempts
  <2>2. \A c : Attempted(plan, c) => Attempted(plan', c)
    BY DEF Attempted, SameAttempts
  <2> QED
    BY <2>1, <2>2 DEF PlanInv, ChildrenInv
<1>6. IndependentInv'
  <2>1. /\ plan \in Seq(Entry) /\ EntriesInv(plan) /\ ChildrenOnce(plan)
        /\ Independent(plan, ops) /\ \A c \in DOMAIN ops : Attempted(plan, c)
    BY DEF PlanInv, TypeInv, AttemptsInv, AttemptsOK, IndependentInv, ChildrenInv
  <2>2. EntriesInv(plan') /\ ChildrenOnce(plan')
    BY <1>2 DEF AttemptsOK
  <2>3. Independent(plan', ops)
    BY <1>2, <2>1, <2>2, IndependentStays
  <2> QED
    BY <2>3 DEF IndependentInv
<1> QED
  BY <1>1, <1>3, <1>4, <1>5, <1>6 DEF PlanInv
(* Runs are numbered from one. *)
LEMMA RunNumbers ==
  ASSUME PlanInv
  PROVE  /\ \A i \in DOMAIN runs : i # Nil /\ i # Conversation /\ i \in Nat
         /\ IsPlanning => active \in DOMAIN runs
<1>1. runs \in Seq(RunRecord) /\ active \in {Nil, Conversation} \cup DOMAIN runs
  BY DEF PlanInv, TypeInv
<1>2. DOMAIN runs = 1..Len(runs) /\ Len(runs) \in Nat
  BY <1>1
<1> QED
  BY <1>1, <1>2, KernelAssumption DEF Conversation, IsPlanning

(* Without a planning run nothing awaits. *)
LEMMA NothingAwaits ==
  ASSUME PlanInv, ~unusable, ~IsPlanning
  PROVE  \A i \in DOMAIN runs : runs[i].status \notin Awaiting
BY RunNumbers DEF PlanInv, AwaitingInv, IsPlanning

(* A run is started beside those there are. *)
LEMMA RunStarts ==
  ASSUME PlanInv, ~unusable, ~IsPlanning,
         NEW kind \in {"plan", "control", "child"},
         NEW status \in {"awaiting_plan_decision", "running", "completed", "failed"}
  PROVE  LET rs == StartRun(kind, status) IN
         /\ rs \in Seq(RunRecord) /\ DOMAIN rs = (DOMAIN runs) \cup {NextRun}
         /\ NextRun \notin DOMAIN runs /\ NextRun \in Nat /\ NextRun # Conversation
         /\ rs[NextRun].kind = kind /\ rs[NextRun].status = status
         /\ ChildRunsKept(runs, rs)
         /\ \A i \in DOMAIN runs : rs[i].status \notin Awaiting
<1> DEFINE r == [kind |-> kind, status |-> status]
<1>1. r \in RunRecord /\ r.kind = kind /\ r.status = status
  BY DEF RunRecord
<1> HIDE DEF r
<1>2. runs \in Seq(RunRecord)
  BY DEF PlanInv, TypeInv
<1>3. StartRun(kind, status) = Append(runs, r) /\ NextRun = Len(runs) + 1
  BY DEF StartRun, NextRun, r
<1>4. \A i \in DOMAIN runs : runs[i].status \notin Awaiting
  BY NothingAwaits
<1> DEFINE rs == Append(runs, r)
<1>5. /\ rs \in Seq(RunRecord) /\ DOMAIN rs = (DOMAIN runs) \cup {NextRun}
      /\ rs[NextRun] = r /\ NextRun \notin DOMAIN runs /\ NextRun \in Nat \ {0}
      /\ \A i \in DOMAIN runs : rs[i] = runs[i]
  BY <1>1, <1>2, <1>3, AppendRun
<1> HIDE DEF rs
<1> QED
  BY <1>1, <1>3, <1>4, <1>5 DEF ChildRunsKept, Conversation, rs

(* The planning run changes its status. *)
LEMMA PlanningRunMoves ==
  ASSUME PlanInv, ~unusable, IsPlanning,
         NEW s \in {"awaiting_plan_decision", "awaiting_plan_revision", "completed"}
  PROVE  LET rs == [runs EXCEPT ![active].status = s] IN
         /\ rs \in Seq(RunRecord) /\ DOMAIN rs = DOMAIN runs /\ active \in DOMAIN runs
         /\ rs[active].kind = "plan" /\ rs[active].status = s
         /\ ChildRunsKept(runs, rs)
         /\ \A i \in DOMAIN runs : i # active => rs[i].status \notin Awaiting
<1> DEFINE r == [runs[active] EXCEPT !.status = s]
           rs == [runs EXCEPT ![active] = r]
<1>1. runs \in Seq(RunRecord) /\ active \in DOMAIN runs
  BY RunNumbers DEF PlanInv, TypeInv
<1>2. runs[active] \in RunRecord
  BY <1>1
<1>3. runs[active].kind = "plan"
  BY <1>1 DEF PlanInv, AwaitingInv
<1>4. r \in RunRecord /\ r.kind = "plan" /\ r.status = s
  BY <1>2, <1>3 DEF RunRecord
<1>5. [runs EXCEPT ![active].status = s] = rs
  OBVIOUS
<1>6. \A i \in DOMAIN runs : i # active => runs[i].status \notin Awaiting
  BY DEF PlanInv, AwaitingInv
<1> HIDE DEF r
<1>7. /\ rs \in Seq(RunRecord) /\ DOMAIN rs = DOMAIN runs /\ rs[active] = r
      /\ \A i \in DOMAIN runs : i # active => rs[i] = runs[i]
  BY <1>1, <1>4, SequenceEdit
<1> HIDE DEF rs
<1>8. ChildRunsKept(runs, rs)
  <2>1. "plan" # "child"
    OBVIOUS
  <2> QED
    BY <1>3, <1>7, <2>1 DEF ChildRunsKept
<1> QED
  BY <1>1, <1>4, <1>5, <1>6, <1>7, <1>8 DEF rs

(* The occupant of active changes, and it is not a planning run. *)
LEMMA OccupantStep ==
  ASSUME PlanInv, ~unusable, active \in {Nil, Conversation},
         active' \in {Nil, Conversation}, batch' \in Seq(Update),
         UNCHANGED <<runs, plan, children, unusable, ops, queue, joining>>
  PROVE  PlanInv'
<1>1. ~IsPlanning /\ ~IsPlanning'
  BY DEF IsPlanning
<1>2. \A i \in DOMAIN runs : runs[i].status \notin Awaiting
  BY <1>1, NothingAwaits
<1>3. AwaitingInv'
  BY <1>1, <1>2 DEF AwaitingInv
<1>4. TypeInv' /\ AttemptsInv' /\ ChildrenInv' /\ IndependentInv'
  BY DEF PlanInv, TypeInv, AttemptsInv, ChildrenInv, IndependentInv
<1>5. FailureInv'
  BY DEF FailureInv
<1> QED
  BY <1>3, <1>4, <1>5 DEF PlanInv

(* Converse keeps the invariant. *)
LEMMA ConverseStep ==
  ASSUME PlanInv, Converse
  PROVE  PlanInv'
<1>1. ~unusable /\ joining = Nil /\ active \in {Nil, Conversation}
  BY DEF Converse, Idle
<1>2. CASE Refused
  BY <1>1, <1>2, RefusedStep
<1>3. CASE ~Refused
  <2>1. /\ active' \in {Nil, Conversation} /\ batch' = batch
        /\ UNCHANGED <<runs, plan, children, unusable, ops, queue, joining>>
    BY <1>3 DEF Converse, durable, threads
  <2>2. batch' \in Seq(Update)
    BY <2>1 DEF PlanInv, TypeInv
  <2> QED
    BY <1>1, <2>1, <2>2, OccupantStep
<1> QED
  BY <1>2, <1>3

(* StartPlan keeps the invariant. *)
LEMMA StartPlanStep ==
  ASSUME PlanInv, NEW r \in DOMAIN Revisions, StartPlan(r)
  PROVE  PlanInv'
<1>1. joining = Nil /\ ~unusable /\ active = Nil /\ ~IsPlanning /\ r \in Proposable(plan)
  BY DEF StartPlan, CanStartRun, Idle, IsPlanning
<1>2. CASE Refused
  BY <1>1, <1>2, RefusedStep
<1>3. CASE ~Refused
  <2>1. /\ runs' = StartRun("plan", "awaiting_plan_decision")
        /\ plan' = Propose(plan, r) /\ active' = NextRun
        /\ UNCHANGED <<children, unusable, ops, queue, batch, joining>>
    BY <1>3 DEF StartPlan, threads
  <2>2. plan \in Seq(Entry) /\ EntriesInv(plan)
    BY DEF PlanInv, TypeInv, AttemptsInv, AttemptsOK
  <2>3. SameAttempts(plan, plan') /\ EntriesInv(plan')
    BY <1>1, <2>1, <2>2, ProposeKeeps
  <2>4. /\ plan' \in Seq(Entry) /\ State(plan') = "proposed"
        /\ plan'[Len(plan')].id = r
    BY <2>1, <2>2, ProposeEffect
  <2>5. \A i \in DOMAIN plan : plan[i].id # Current(plan').id
    BY <1>1, <2>4 DEF Proposable, CanPropose, Current
  <2>6. /\ runs' \in Seq(RunRecord) /\ DOMAIN runs' = (DOMAIN runs) \cup {NextRun}
        /\ NextRun \notin DOMAIN runs
        /\ runs'[NextRun].kind = "plan"
        /\ runs'[NextRun].status = "awaiting_plan_decision"
        /\ ChildRunsKept(runs, runs')
        /\ \A i \in DOMAIN runs : runs'[i].status \notin Awaiting
    BY <1>1, <2>1, RunStarts
  <2>7. AwaitingInv'
    BY <2>1, <2>4, <2>6 DEF AwaitingInv, Awaiting
  <2> QED
    BY <1>1, <2>1, <2>3, <2>4, <2>5, <2>6, <2>7, PlanStep
<1> QED
  BY <1>2, <1>3

(* RevisePlan keeps the invariant. *)
LEMMA RevisePlanStep ==
  ASSUME PlanInv, NEW r \in DOMAIN Revisions, RevisePlan(r)
  PROVE  PlanInv'
<1>1. joining = Nil /\ ~unusable /\ IsPlanning /\ r \in Proposable(plan)
  BY DEF RevisePlan, Idle
<1>2. CASE Refused
  BY <1>1, <1>2, RefusedStep
<1>3. CASE ~Refused
  <2>1. /\ runs' = [runs EXCEPT ![active].status = "awaiting_plan_decision"]
        /\ plan' = Propose(plan, r) /\ active' = active
        /\ UNCHANGED <<children, unusable, ops, queue, batch, joining>>
    BY <1>3 DEF RevisePlan, threads
  <2>2. plan \in Seq(Entry) /\ EntriesInv(plan)
    BY DEF PlanInv, TypeInv, AttemptsInv, AttemptsOK
  <2>3. SameAttempts(plan, plan') /\ EntriesInv(plan')
    BY <1>1, <2>1, <2>2, ProposeKeeps
  <2>4. /\ plan' \in Seq(Entry) /\ State(plan') = "proposed"
        /\ plan'[Len(plan')].id = r
    BY <2>1, <2>2, ProposeEffect
  <2>5. \A i \in DOMAIN plan : plan[i].id # Current(plan').id
    BY <1>1, <2>4 DEF Proposable, CanPropose, Current
  <2>6. /\ runs' \in Seq(RunRecord) /\ DOMAIN runs' = DOMAIN runs /\ active \in DOMAIN runs
        /\ runs'[active].kind = "plan"
        /\ runs'[active].status = "awaiting_plan_decision"
        /\ ChildRunsKept(runs, runs')
        /\ \A i \in DOMAIN runs : i # active => runs'[i].status \notin Awaiting
    BY <1>1, <2>1, PlanningRunMoves
  <2>7. AwaitingInv'
    <3>1. active' = active
      BY <2>1
    <3> QED
      BY <2>4, <2>6, <3>1 DEF AwaitingInv, Awaiting
  <2> QED
    BY <1>1, <2>1, <2>3, <2>4, <2>5, <2>6, <2>7, PlanStep
<1> QED
  BY <1>2, <1>3
(* DecideOnMovedBasis keeps the invariant. *)
LEMMA DecideOnMovedBasisStep ==
  ASSUME PlanInv, DecideOnMovedBasis
  PROVE  PlanInv'
<1>1. /\ joining = Nil /\ ~unusable /\ IsPlanning /\ State(plan) = "proposed"
      /\ plan # <<>>
  BY DEF DecideOnMovedBasis, Idle, State
<1>2. CASE Refused
  BY <1>1, <1>2, RefusedStep
<1>3. CASE ~Refused
  <2>1. /\ runs' = [runs EXCEPT ![active].status = "awaiting_plan_revision"]
        /\ plan' = Invalidate /\ active' = active
        /\ UNCHANGED <<children, unusable, ops, queue, batch, joining>>
    BY <1>3 DEF DecideOnMovedBasis, threads
  <2>2. plan \in Seq(Entry) /\ EntriesInv(plan)
    BY DEF PlanInv, TypeInv, AttemptsInv, AttemptsOK
  <2>3. /\ Kept(plan, plan') /\ State(plan') = "invalidated"
        /\ plan'[Len(plan)].exec = plan[Len(plan)].exec
        /\ plan'[Len(plan)].decision = plan[Len(plan)].decision
    BY <1>1, <2>1, <2>2, InvalidateEffect
  <2>4. SameAttempts(plan, plan') /\ EntriesInv(plan')
    BY <1>1, <2>2, <2>3, EditKeeps
  <2>5. plan' \in Seq(Entry) /\ Current(plan').id = Current(plan).id
    BY <2>3 DEF Kept, Current
  <2>6. /\ runs' \in Seq(RunRecord) /\ DOMAIN runs' = DOMAIN runs /\ active \in DOMAIN runs
        /\ runs'[active].kind = "plan"
        /\ runs'[active].status = "awaiting_plan_revision"
        /\ ChildRunsKept(runs, runs')
        /\ \A i \in DOMAIN runs : i # active => runs'[i].status \notin Awaiting
    BY <1>1, <2>1, PlanningRunMoves
  <2>7. AwaitingInv'
    <3>1. active' = active
      BY <2>1
    <3> QED
      BY <2>3, <2>6, <3>1 DEF AwaitingInv, Awaiting
  <2> QED
    BY <1>1, <2>1, <2>4, <2>5, <2>6, <2>7, PlanStep
<1> QED
  BY <1>2, <1>3

(* An approval or a rejection ends the planning run, a request leaves it. *)
LEMMA DecidePlanStep ==
  ASSUME PlanInv, NEW d \in Decisions, DecidePlan(d)
  PROVE  PlanInv'
<1> DEFINE decided == [plan EXCEPT ![Len(plan)].decision = d]
           ends == d \in {"approved", "rejected"}
           status == IF ends THEN "completed" ELSE "awaiting_plan_revision"
<1>1. /\ joining = Nil /\ ~unusable /\ IsPlanning /\ State(plan) = "proposed"
      /\ plan # <<>>
  BY DEF DecidePlan, Idle, State
<1>2. CASE Refused
  BY <1>1, <1>2, RefusedStep
<1>3. CASE ~Refused
  <2>1. /\ runs' = [runs EXCEPT ![active].status = status]
        /\ plan' = IF d = "approved" THEN Materialize(decided, active) ELSE decided
        /\ active' = IF ends THEN Nil ELSE active
        /\ UNCHANGED <<children, unusable, ops, queue, batch, joining>>
    BY <1>3 DEF DecidePlan, threads
  <2>2. plan \in Seq(Entry) /\ EntriesInv(plan)
    BY DEF PlanInv, TypeInv, AttemptsInv, AttemptsOK
  <2>3. /\ Kept(plan, decided) /\ State(decided) = d
        /\ decided[Len(plan)].exec = plan[Len(plan)].exec
        /\ decided[Len(plan)].decision = d
    BY <1>1, <2>2, DecisionEffect
  <2> HIDE DEF decided
  <2>4. /\ Kept(plan, plan') /\ State(plan') = d
        /\ plan'[Len(plan)].decision = d
        /\ \/ plan'[Len(plan)].exec = plan[Len(plan)].exec
           \/ plan'[Len(plan)].exec = [t \in TaskIds(plan[Len(plan)].id) |-> <<>>]
    <3>1. CASE d # "approved"
      BY <2>1, <2>3, <3>1
    <3>2. CASE d = "approved"
      <4>1. decided \in Seq(Entry) /\ decided # <<>> /\ Len(decided) = Len(plan)
        BY <2>3 DEF Kept
      <4>2. active \in Nat
        BY <1>1, RunNumbers
      <4>3. plan' = Materialize(decided, active)
        BY <2>1, <3>2
      <4>4. /\ Kept(decided, plan') /\ State(plan') = d
            /\ plan'[Len(plan)].exec = [t \in TaskIds(decided[Len(plan)].id) |-> <<>>]
            /\ plan'[Len(plan)].decision = d
        BY <2>3, <4>1, <4>2, <4>3, MaterializeEffect
      <4>5. Kept(plan, plan') /\ decided[Len(plan)].id = plan[Len(plan)].id
        BY <2>3, <4>1, <4>4 DEF Kept
      <4> QED
        BY <4>4, <4>5
    <3> QED
      BY <3>1, <3>2
  <2>5. DOMAIN plan[Len(plan)].exec = {}
    <3>1. plan[Len(plan)].decision = Nil
      <4>1. Current(plan).decision \in Decisions \cup {Nil}
        BY <1>1, <2>2, CurrentType DEF Entry
      <4> QED
        BY <1>1, <4>1 DEF State, Current, Decisions
    <3> QED
      BY <1>1, <2>2, <3>1, CurrentType DEF EntriesInv
  <2>6. d # Nil
    BY PlanAssumption
  <2>7. SameAttempts(plan, plan') /\ EntriesInv(plan')
    BY <1>1, <2>2, <2>4, <2>5, <2>6, EditKeeps
  <2>8. plan' \in Seq(Entry) /\ Current(plan').id = Current(plan).id
    BY <2>4 DEF Kept, Current
  <2>9. status \in {"awaiting_plan_decision", "awaiting_plan_revision", "completed"}
    OBVIOUS
  <2> HIDE DEF status
  <2>10. /\ runs' \in Seq(RunRecord) /\ DOMAIN runs' = DOMAIN runs /\ active \in DOMAIN runs
         /\ runs'[active].kind = "plan" /\ runs'[active].status = status
         /\ ChildRunsKept(runs, runs')
         /\ \A i \in DOMAIN runs : i # active => runs'[i].status \notin Awaiting
    BY <1>1, <2>1, <2>9, PlanningRunMoves
  <2>11. AwaitingInv'
    <3>1. CASE ends
      <4>1. active' = Nil /\ status = "completed"
        BY <2>1, <3>1 DEF status
      <4>2. \A i \in DOMAIN runs' : runs'[i].status \notin Awaiting
        BY <2>10, <4>1 DEF Awaiting
      <4> QED
        BY <4>1, <4>2 DEF AwaitingInv, IsPlanning
    <3>2. CASE ~ends
      <4>1. active' = active /\ status = "awaiting_plan_revision" /\ d = "revision_requested"
        BY <2>1, <3>2 DEF status, Decisions
      <4> QED
        BY <2>4, <2>10, <4>1 DEF AwaitingInv, Awaiting
    <3> QED
      BY <3>1, <3>2
  <2>12. active' \in {Nil, Conversation} \cup DOMAIN runs'
    <3>1. active' \in {Nil, active}
      BY <2>1
    <3> QED
      BY <2>10, <3>1
  <2>13. UNCHANGED <<children, unusable, ops, queue, batch, joining>>
    BY <2>1
  <2> QED
    BY <1>1, <2>7, <2>8, <2>10, <2>11, <2>12, <2>13, PlanStep
<1> QED
  BY <1>2, <1>3

(* A control run that leaves the attempts. *)
LEMMA ControlStep ==
  ASSUME PlanInv, CanStartRun, runs' = StartRun("control", "completed"),
         UNCHANGED <<active, children, unusable, ops, queue, batch, joining>>,
         plan' = plan \/ (plan # <<>> /\ plan' = Invalidate)
  PROVE  PlanInv'
<1>1. ~unusable /\ active = Nil /\ ~IsPlanning
  BY DEF CanStartRun, Idle, IsPlanning
<1>2. plan \in Seq(Entry) /\ EntriesInv(plan)
  BY DEF PlanInv, TypeInv, AttemptsInv, AttemptsOK
<1>3. SameAttempts(plan, plan') /\ EntriesInv(plan') /\ plan' \in Seq(Entry)
      /\ Current(plan').id = Current(plan).id
  <2>1. CASE plan' = plan
    BY <1>2, <2>1 DEF SameAttempts
  <2>2. CASE plan # <<>> /\ plan' = Invalidate
    <3>1. /\ Kept(plan, plan')
          /\ plan'[Len(plan)].exec = plan[Len(plan)].exec
          /\ plan'[Len(plan)].decision = plan[Len(plan)].decision
      BY <1>2, <2>2, InvalidateEffect
    <3>2. SameAttempts(plan, plan') /\ EntriesInv(plan')
      BY <1>2, <2>2, <3>1, EditKeeps
    <3>3. plan' \in Seq(Entry) /\ Current(plan').id = Current(plan).id
      BY <3>1 DEF Kept, Current
    <3> QED
      BY <3>2, <3>3
  <2> QED
    BY <2>1, <2>2
<1>4. /\ runs' \in Seq(RunRecord) /\ DOMAIN runs' = (DOMAIN runs) \cup {NextRun}
      /\ runs'[NextRun].status = "completed"
      /\ ChildRunsKept(runs, runs')
      /\ \A i \in DOMAIN runs : runs'[i].status \notin Awaiting
  BY <1>1, RunStarts
<1>5. AwaitingInv'
  <2>1. \A i \in DOMAIN runs' : runs'[i].status \notin Awaiting
    BY <1>4 DEF Awaiting
  <2> QED
    BY <1>1, <2>1 DEF AwaitingInv, IsPlanning
<1>6. active' = Nil
  BY <1>1
<1> QED
  BY <1>1, <1>3, <1>4, <1>5, <1>6, PlanStep

(* RevalidatePlanApproval keeps the invariant. *)
LEMMA RevalidateStep ==
  ASSUME PlanInv, RevalidatePlanApproval
  PROVE  PlanInv'
<1>1. CanStartRun /\ joining = Nil /\ plan # <<>>
  BY DEF RevalidatePlanApproval, CanStartRun, Idle, IsMaterialized, State
<1>2. CASE Refused
  BY <1>1, <1>2, RefusedStep
<1>3. CASE ~Refused
  BY <1>1, <1>3, ControlStep DEF RevalidatePlanApproval, threads
<1> QED
  BY <1>2, <1>3

(* dispatch_child, up to the transaction that creates the child. *)
LEMMA DispatchReady ==
  ASSUME PlanInv, NEW t, DispatchChild(t)
  PROVE  /\ joining = Nil /\ ~unusable /\ active = Nil /\ ~IsPlanning
         /\ plan \in Seq(Entry) /\ plan # <<>> /\ t \in DOMAIN plan[Len(plan)].exec
         /\ AwaitsAttempt(plan[Len(plan)].exec[t])
         /\ DOMAIN children = DOMAIN ops
         /\ \A c \in DOMAIN ops :
              ~TaskResourceConflict(Task(Current(plan).id, t),
                                    Task(Current(plan).id, TaskOf(plan, c).task))
<1>1. Idle /\ t \in Dispatchable
  BY DEF DispatchChild
<1>2. CanDispatch(t)
  BY <1>1 DEF Dispatchable
<1>3. joining = Nil /\ ~unusable /\ active = Nil /\ ~IsPlanning
  BY <1>1, <1>2 DEF Idle, CanDispatch, IsPlanning
<1>4. CanCreateChild(plan, Current(plan).id, t)
  BY <1>2 DEF CanDispatch
<1>5. /\ plan \in Seq(Entry) /\ plan # <<>> /\ t \in DOMAIN plan[Len(plan)].exec
      /\ AwaitsAttempt(plan[Len(plan)].exec[t])
  BY <1>4 DEF CanCreateChild, IsMaterialized, State, Current, PlanInv, TypeInv
<1>6. DOMAIN children = DOMAIN ops
  BY <1>3, KernelAssumption DEF PlanInv, TypeInv, ChildrenInv
<1>7. \A c \in DOMAIN children :
        ~TaskResourceConflict(Task(Current(plan).id, t),
                              Task(Current(plan).id, TaskOf(plan, c).task))
  BY <1>2 DEF CanDispatch, DispatchOf, TaskOf
<1> QED
  BY <1>3, <1>5, <1>6, <1>7

(* The transaction that creates the child. *)
LEMMA ChildCreated ==
  ASSUME PlanInv, NEW t, DispatchChild(t),
         NEW p, p = CreateChild(plan, t, NextRun),
         NEW rs, rs = StartRun("child", "running")
  PROVE  /\ AttemptsOK(p, rs) /\ Follows(plan, p) /\ p \in Seq(Entry) /\ p # <<>>
         /\ Len(p) = Len(plan) /\ Current(p).id = Current(plan).id
         /\ State(p) = State(plan)
         /\ t \in DOMAIN p[Len(p)].exec /\ OpenAt(p, Len(p), t, NextRun)
         /\ \A i, u, d : OpenAt(plan, i, u, d) => OpenAt(p, i, u, d)
         /\ rs \in Seq(RunRecord) /\ DOMAIN rs = (DOMAIN runs) \cup {NextRun}
         /\ \A i \in DOMAIN rs : rs[i].status \notin Awaiting
         /\ NextRun \notin DOMAIN runs
<1>1. /\ ~unusable /\ ~IsPlanning /\ plan \in Seq(Entry) /\ plan # <<>>
      /\ t \in DOMAIN plan[Len(plan)].exec
      /\ AwaitsAttempt(plan[Len(plan)].exec[t])
  BY DispatchReady
<1>2. runs \in Seq(RunRecord) /\ AttemptsOK(plan, runs) /\ NextRun = Len(runs) + 1
  BY DEF PlanInv, TypeInv, AttemptsInv, NextRun
<1>3. rs = Append(runs, [kind |-> "child", status |-> "running"])
  BY DEF StartRun
<1>4. p = CreateChild(plan, t, Len(runs) + 1)
  BY <1>2
<1>5. /\ AttemptsOK(p, rs) /\ Follows(plan, p) /\ p \in Seq(Entry)
      /\ OpenAt(p, Len(plan), t, NextRun)
      /\ \A i, u, d : OpenAt(plan, i, u, d) => OpenAt(p, i, u, d)
  BY <1>1, <1>2, <1>3, <1>4, CreateChildKeeps
<1>6. /\ rs \in Seq(RunRecord) /\ DOMAIN rs = (DOMAIN runs) \cup {NextRun}
      /\ rs[NextRun].status = "running" /\ NextRun \notin DOMAIN runs
      /\ NextRun \in Nat
      /\ \A i \in DOMAIN runs : rs[i].status \notin Awaiting
  BY <1>1, RunStarts
<1>7. PICK b : Edited(plan, p, t, b)
  BY <1>1, <1>6, CreateChildEffect
<1>8. /\ p # <<>> /\ Len(p) = Len(plan) /\ State(p) = State(plan)
      /\ p[Len(p)].id = plan[Len(plan)].id
      /\ DOMAIN p[Len(p)].exec = DOMAIN plan[Len(plan)].exec
  BY <1>7 DEF Edited, Kept
<1>9. \A i \in DOMAIN rs : rs[i].status \notin Awaiting
  BY <1>6 DEF Awaiting
<1> QED
  BY <1>1, <1>5, <1>6, <1>8, <1>9 DEF Current

(* A child that was launched keeps the invariant. *)
LEMMA LaunchedStep ==
  ASSUME PlanInv, NEW t, DispatchChild(t), Launched(t)
  PROVE  PlanInv'
<1> DEFINE c == NextRun
           new == [worker |-> "running", deadline |-> "armed", stop |-> FALSE,
                   halt |-> FALSE]
<1>1. /\ joining = Nil /\ ~unusable /\ active = Nil /\ plan \in Seq(Entry)
      /\ plan # <<>> /\ DOMAIN children = DOMAIN ops
      /\ \A d \in DOMAIN ops :
           ~TaskResourceConflict(Task(Current(plan).id, t),
                                 Task(Current(plan).id, TaskOf(plan, d).task))
  BY DispatchReady
<1>2. /\ runs' = StartRun("child", "running") /\ plan' = CreateChild(plan, t, c)
      /\ UNCHANGED <<active, unusable, queue, batch, joining>>
  BY DEF Launched
<1>3. /\ AttemptsOK(plan', runs') /\ Follows(plan, plan') /\ plan' \in Seq(Entry)
      /\ Current(plan').id = Current(plan).id
      /\ OpenAt(plan', Len(plan'), t, c)
      /\ \A i, u, d : OpenAt(plan, i, u, d) => OpenAt(plan', i, u, d)
      /\ runs' \in Seq(RunRecord)
      /\ \A i \in DOMAIN runs' : runs'[i].status \notin Awaiting
      /\ c \notin DOMAIN runs
  BY <1>2, ChildCreated
<1>4. c \in Nat
  BY DEF PlanInv, TypeInv, NextRun
<1>5. \A d \in DOMAIN ops : d # c
  BY <1>3 DEF PlanInv, ChildrenInv, Attempted, AttemptsInv, AttemptsOK, RunsMatch
<1>6. DOMAIN children' = (DOMAIN children) \cup {c}
  BY DEF Launched, With
<1>7. /\ DOMAIN ops' = (DOMAIN ops) \cup {c} /\ ops'[c] = new
      /\ \A d \in DOMAIN ops : ops'[d] = ops[d]
  BY <1>5 DEF Launched, With
<1>8. TypeInv'
  <2>1. new \in Operation
    BY DEF Operation
  <2>2. DOMAIN ops' \subseteq Nat
    BY <1>4, <1>7 DEF PlanInv, TypeInv
  <2>3. \A d \in DOMAIN ops' : ops'[d] \in Operation
    BY <1>7, <2>1 DEF PlanInv, TypeInv
  <2>4. active' = Nil
    BY <1>1, <1>2
  <2>5. UNCHANGED <<unusable, queue, batch>>
    BY <1>2
  <2> QED
    BY <1>3, <2>2, <2>3, <2>4, <2>5 DEF PlanInv, TypeInv
<1>9. AttemptsInv'
  BY <1>3 DEF AttemptsInv
<1>10. AwaitingInv'
  BY <1>1, <1>2, <1>3 DEF AwaitingInv, IsPlanning
<1>11. FailureInv'
  BY <1>1, <1>2 DEF FailureInv
<1>12. ChildrenInv'
  <2>1. \A d \in DOMAIN children' : \E i, u : OpenAt(plan', i, u, d)
    BY <1>3, <1>6 DEF PlanInv, ChildrenInv
  <2>2. \A d \in DOMAIN ops' : Attempted(plan', d)
    <3>1. Attempted(plan', c)
      BY <1>3 DEF Attempted, OpenAt
    <3>2. \A d \in DOMAIN ops : Attempted(plan', d)
      BY <1>3 DEF PlanInv, ChildrenInv, Attempted, Follows
    <3> QED
      BY <1>7, <3>1, <3>2
  <2>3. joining' = Nil /\ Nil \notin DOMAIN ops'
    BY <1>1, <1>2, <1>8, KernelAssumption DEF TypeInv
  <2> QED
    BY <1>1, <1>6, <1>7, <2>1, <2>2, <2>3 DEF ChildrenInv
<1>13. IndependentInv'
  <2>1. /\ EntriesInv(plan) /\ ChildrenOnce(plan) /\ EntriesInv(plan') /\ ChildrenOnce(plan')
    BY <1>3 DEF PlanInv, AttemptsInv, AttemptsOK
  <2>2. Independent(plan, ops) /\ \A d \in DOMAIN ops : Attempted(plan, d)
    BY DEF PlanInv, IndependentInv, ChildrenInv
  <2>3. PICK k : At(plan', Len(plan'), t, k, c)
    BY <1>3 DEF OpenAt
  <2> HIDE DEF c
  <2>4. Independent(plan', ops')
    BY <1>1, <1>3, <1>7, <2>1, <2>2, <2>3, IndependentStarts
  <2> QED
    BY <2>4 DEF IndependentInv
<1> QED
  BY <1>8, <1>9, <1>10, <1>11, <1>12, <1>13 DEF PlanInv

(* The child's threads could not be created: it is over, or open for good when
   the store fails too. *)
LEMMA LaunchFailedStep ==
  ASSUME PlanInv, NEW t, DispatchChild(t), LaunchFailed(t)
  PROVE  PlanInv'
<1> DEFINE c == NextRun
           p == CreateChild(plan, t, c)
           rs == StartRun("child", "running")
<1>1. /\ joining = Nil /\ ~unusable /\ active = Nil /\ ~IsPlanning /\ plan \in Seq(Entry)
  BY DispatchReady
<1>2. /\ AttemptsOK(p, rs) /\ Follows(plan, p) /\ p \in Seq(Entry) /\ p # <<>>
      /\ Len(p) = Len(plan) /\ Current(p).id = Current(plan).id
      /\ t \in DOMAIN p[Len(p)].exec /\ OpenAt(p, Len(p), t, c)
      /\ \A i, u, d : OpenAt(plan, i, u, d) => OpenAt(p, i, u, d)
      /\ rs \in Seq(RunRecord) /\ DOMAIN rs = (DOMAIN runs) \cup {c}
      /\ \A i \in DOMAIN rs : rs[i].status \notin Awaiting
      /\ c \notin DOMAIN runs
  BY ChildCreated
<1>3. CASE PersistenceFailure
  <2>1. runs' = rs /\ plan' = p
    BY <1>1, <1>3 DEF LaunchFailed, PersistenceFailure
  <2>2. AttemptsInv'
    BY <1>2, <2>1 DEF AttemptsInv
  <2> HIDE DEF rs, p
  <2> QED
    BY <1>1, <1>2, <1>3, <2>1, <2>2, FailureStep
<1>4. CASE ~PersistenceFailure
  <2>1. /\ runs' = StartRun("child", "failed")
        /\ plan' = RecordResult(p, t, "unavailable")
        /\ UNCHANGED <<active, children, unusable, ops, queue, batch, joining>>
    BY <1>4 DEF LaunchFailed, threads
  <2>2. RunEnds(rs, runs', c, "unavailable")
    <3>1. RunStatusOf("unavailable") = "failed"
      BY DEF RunStatusOf
    <3> DEFINE x == [kind |-> "child", status |-> "running"]
               y == [kind |-> "child", status |-> "failed"]
    <3>2. x \in RunRecord /\ y \in RunRecord
      BY DEF RunRecord
    <3>3. x.kind = "child" /\ y.kind = "child" /\ y.status = "failed"
      OBVIOUS
    <3>4. rs = Append(runs, x) /\ runs' = Append(runs, y)
      BY <2>1 DEF StartRun
    <3>5. runs \in Seq(RunRecord) /\ c = Len(runs) + 1
      BY DEF PlanInv, TypeInv, NextRun
    <3> HIDE DEF x, y, c, rs
    <3>6. /\ rs[c] = x /\ DOMAIN rs = (DOMAIN runs) \cup {c}
          /\ \A i \in DOMAIN runs : rs[i] = runs[i]
      BY <3>2, <3>4, <3>5, AppendRun
    <3>7. /\ runs'[c] = y /\ DOMAIN runs' = (DOMAIN runs) \cup {c}
          /\ \A i \in DOMAIN runs : runs'[i] = runs[i]
          /\ runs' \in Seq(RunRecord)
      BY <3>2, <3>4, <3>5, AppendRun
    <3> QED
      BY <3>1, <3>3, <3>6, <3>7 DEF RunEnds
  <2>3. "unavailable" \in TaskOutcomes
    BY DEF TaskOutcomes
  <2> HIDE DEF rs, p
  <2>4. /\ AttemptsOK(plan', runs') /\ Follows(p, plan') /\ plan' \in Seq(Entry)
        /\ Len(plan') = Len(p) /\ plan'[Len(p)].id = p[Len(p)].id
        /\ \A i, u, d : d # c /\ OpenAt(p, i, u, d) => OpenAt(plan', i, u, d)
    BY <1>2, <2>1, <2>2, <2>3, RecordResultKeeps
  <2>5. /\ Follows(plan, plan') /\ Current(plan').id = Current(plan).id
    <3>1. Follows(plan, plan')
      BY <1>2, <2>4 DEF Follows
    <3> QED
      BY <1>2, <2>4, <3>1 DEF Current
  <2>6. UNCHANGED <<active, children, unusable, ops, queue, batch, joining>>
    BY <2>1
  <2>7. active' = Nil
    BY <1>1, <2>6
  <2>8. TypeInv'
    BY <2>2, <2>4, <2>6, <2>7 DEF PlanInv, TypeInv, RunEnds
  <2>9. AttemptsInv'
    BY <2>4 DEF AttemptsInv
  <2>10. AwaitingInv'
    <3>1. runs'[c].status \notin Awaiting
      BY <2>2, EndStatus DEF Awaiting, RunEnds
    <3>2. \A i \in DOMAIN runs' : runs'[i].status \notin Awaiting
      BY <1>2, <2>2, <3>1 DEF RunEnds
    <3> QED
      BY <2>7, <3>2 DEF AwaitingInv, IsPlanning
  <2>11. FailureInv'
    BY <1>1, <2>6 DEF FailureInv
  <2>12. \A d \in DOMAIN ops : Attempted(plan, d) /\ d # c
    BY <1>2 DEF PlanInv, ChildrenInv, Attempted, AttemptsInv, AttemptsOK, RunsMatch
  <2>13. ChildrenInv'
    <3>1. ASSUME NEW d \in DOMAIN children
          PROVE  \E i, u : OpenAt(plan', i, u, d)
      <4>1. d # c
        BY <2>12 DEF PlanInv, ChildrenInv
      <4> QED
        BY <1>2, <2>4, <4>1 DEF PlanInv, ChildrenInv
    <3>2. \A d : Attempted(plan, d) => Attempted(plan', d)
      BY <2>5 DEF Attempted, Follows
    <3> QED
      BY <2>6, <3>1, <3>2 DEF PlanInv, ChildrenInv
  <2>14. IndependentInv'
    <3>1. /\ EntriesInv(plan) /\ ChildrenOnce(plan) /\ EntriesInv(plan') /\ ChildrenOnce(plan')
          /\ Independent(plan, ops)
      BY <2>4 DEF PlanInv, AttemptsInv, AttemptsOK, IndependentInv
    <3>2. Independent(plan', ops)
      BY <1>1, <2>4, <2>5, <2>12, <3>1, IndependentStays
    <3> QED
      BY <2>6, <3>2 DEF IndependentInv
  <2> QED
    BY <2>8, <2>9, <2>10, <2>11, <2>13, <2>14 DEF PlanInv
<1> QED
  BY <1>3, <1>4

(* DispatchChild keeps the invariant. *)
LEMMA DispatchChildStep ==
  ASSUME PlanInv, NEW t, DispatchChild(t)
  PROVE  PlanInv'
<1>1. joining = Nil
  BY DispatchReady
<1>2. Refused \/ Launched(t) \/ LaunchFailed(t)
  BY DEF DispatchChild
<1> QED
  BY <1>1, <1>2, RefusedStep, LaunchedStep, LaunchFailedStep
(* What a thread does to its own operation. *)
LEMMA OperationEdit ==
  ASSUME PlanInv, NEW c \in DOMAIN ops, NEW op \in Operation,
         op.worker = "running" => ops[c].worker = "running",
         ops' = [ops EXCEPT ![c] = op]
  PROVE  /\ DOMAIN ops' = DOMAIN ops
         /\ \A d \in DOMAIN ops :
              /\ ops'[d] \in Operation
              /\ ops'[d].worker = "running" => ops[d].worker = "running"
<1>1. \A d \in DOMAIN ops : ops[d] \in Operation
  BY DEF PlanInv, TypeInv
<1>2. DOMAIN ops' = DOMAIN ops
  OBVIOUS
<1>3. \A d \in DOMAIN ops : ops'[d] = IF d = c THEN op ELSE ops[d]
  OBVIOUS
<1> QED
  BY <1>1, <1>2, <1>3

(* While the kernel has operations it is usable. *)
LEMMA OperationsAreServed ==
  ASSUME PlanInv, NEW c \in DOMAIN ops
  PROVE  ~unusable /\ c \in Nat /\ ops[c] \in Operation
BY DEF PlanInv, FailureInv, TypeInv

(* CancelChild keeps the invariant. *)
LEMMA CancelChildStep ==
  ASSUME PlanInv, NEW c \in DOMAIN children, CancelChild(c)
  PROVE  PlanInv'
<1>1. joining = Nil /\ ~unusable
  BY DEF CancelChild, Idle
<1>2. CASE Refused
  BY <1>1, <1>2, RefusedStep
<1>3. CASE ~Refused
  <2> DEFINE op == [ops[c] EXCEPT !.stop = TRUE]
  <2>1. c \in DOMAIN ops
    BY DEF PlanInv, ChildrenInv
  <2>2. op \in Operation /\ op.worker = ops[c].worker
    BY <2>1, OperationsAreServed DEF Operation
  <2>3. ops' = [ops EXCEPT ![c] = op] /\ DOMAIN children' = DOMAIN children
    BY <1>3 DEF CancelChild
  <2> HIDE DEF op
  <2>4. UNCHANGED <<runs, plan, active, unusable, joining, queue, batch>>
    BY <1>3 DEF CancelChild, durable
  <2>5. queue' \in Seq(Update) /\ batch' \in Seq(Update)
    BY <2>4 DEF PlanInv, TypeInv
  <2>6. /\ DOMAIN ops' = DOMAIN ops
        /\ \A d \in DOMAIN ops :
             /\ ops'[d] \in Operation
             /\ ops'[d].worker = "running" => ops[d].worker = "running"
    BY <2>1, <2>2, <2>3, OperationEdit
  <2> QED
    BY <1>1, <2>3, <2>4, <2>5, <2>6, ThreadStep
<1> QED
  BY <1>2, <1>3

(* WorkerReports keeps the invariant. *)
LEMMA WorkerReportsStep ==
  ASSUME PlanInv, NEW c \in DOMAIN ops, WorkerReports(c)
  PROVE  PlanInv'
<1> DEFINE op == [ops[c] EXCEPT !.worker = "ended"]
<1>1. ~unusable /\ c \in Nat /\ ops[c] \in Operation
  BY OperationsAreServed
<1>2. op \in Operation /\ op.worker = "ended"
  BY <1>1 DEF Operation
<1>3. ops' = [ops EXCEPT ![c] = op]
  BY DEF WorkerReports
<1> HIDE DEF op
<1>4. /\ DOMAIN ops' = DOMAIN ops
      /\ \A d \in DOMAIN ops :
           /\ ops'[d] \in Operation
           /\ ops'[d].worker = "running" => ops[d].worker = "running"
  BY <1>2, <1>3, OperationEdit
<1>5. UNCHANGED <<runs, plan, active, unusable, joining, children, batch>>
  BY DEF WorkerReports, durable
<1>6. queue' \in Seq(Update) /\ batch' \in Seq(Update)
  <2>1. PICK report \in Reports : queue' = Append(queue, [child |-> c, report |-> report])
    BY DEF WorkerReports, Push
  <2>2. [child |-> c, report |-> report] \in Update
    BY <1>1, KernelAssumption DEF Update
  <2>3. queue \in Seq(Update) /\ batch \in Seq(Update)
    BY DEF PlanInv, TypeInv
  <2> QED
    BY <1>5, <2>1, <2>2, <2>3
<1> QED
  BY <1>1, <1>4, <1>5, <1>6, ThreadStep

(* DeadlineWakes keeps the invariant. *)
LEMMA DeadlineWakesStep ==
  ASSUME PlanInv, NEW c \in DOMAIN ops, DeadlineWakes(c)
  PROVE  PlanInv'
<1> DEFINE s == IF ops[c].halt THEN "ended" ELSE "expired"
           op == [ops[c] EXCEPT !.deadline = s]
<1>1. ~unusable /\ c \in Nat /\ ops[c] \in Operation
  BY OperationsAreServed
<1>2. s \in {"armed", "expired", "ended"}
  OBVIOUS
<1>3. ops' = [ops EXCEPT ![c] = op]
  BY DEF DeadlineWakes
<1> HIDE DEF s
<1>4. op \in Operation /\ op.worker = ops[c].worker
  BY <1>1, <1>2 DEF Operation
<1> HIDE DEF op
<1>5. /\ DOMAIN ops' = DOMAIN ops
      /\ \A d \in DOMAIN ops :
           /\ ops'[d] \in Operation
           /\ ops'[d].worker = "running" => ops[d].worker = "running"
  BY <1>3, <1>4, OperationEdit
<1>6. UNCHANGED <<runs, plan, active, unusable, joining, children, queue, batch>>
  BY DEF DeadlineWakes, durable
<1>7. queue' \in Seq(Update) /\ batch' \in Seq(Update)
  BY <1>6 DEF PlanInv, TypeInv
<1> QED
  BY <1>1, <1>5, <1>6, <1>7, ThreadStep

(* DeadlinePushes keeps the invariant. *)
LEMMA DeadlinePushesStep ==
  ASSUME PlanInv, NEW c \in DOMAIN ops, DeadlinePushes(c)
  PROVE  PlanInv'
<1> DEFINE op == [[ops[c] EXCEPT !.deadline = "ended"] EXCEPT !.stop = TRUE]
<1>1. ~unusable /\ c \in Nat /\ ops[c] \in Operation
  BY OperationsAreServed
<1>2. op \in Operation /\ op.worker = ops[c].worker
  BY <1>1 DEF Operation
<1>3. ops' = [ops EXCEPT ![c] = op]
  BY DEF DeadlinePushes
<1> HIDE DEF op
<1>4. /\ DOMAIN ops' = DOMAIN ops
      /\ \A d \in DOMAIN ops :
           /\ ops'[d] \in Operation
           /\ ops'[d].worker = "running" => ops[d].worker = "running"
  BY <1>2, <1>3, OperationEdit
<1>5. UNCHANGED <<runs, plan, active, unusable, joining, children, batch>>
  BY DEF DeadlinePushes, durable
<1>6. queue' \in Seq(Update) /\ batch' \in Seq(Update)
  <2>1. queue' = Append(queue, [child |-> c, report |-> "deadline"])
    BY DEF DeadlinePushes, Push
  <2>2. [child |-> c, report |-> "deadline"] \in Update
    BY <1>1 DEF Update
  <2>3. queue \in Seq(Update) /\ batch \in Seq(Update)
    BY DEF PlanInv, TypeInv
  <2> QED
    BY <1>5, <2>1, <2>2, <2>3
<1> QED
  BY <1>1, <1>4, <1>5, <1>6, ThreadStep

(* StreamPushes keeps the invariant. *)
LEMMA StreamPushesStep ==
  ASSUME PlanInv, StreamPushes
  PROVE  PlanInv'
<1>1. UNCHANGED <<runs, plan, active, unusable, joining, children, ops, batch>>
  BY DEF StreamPushes, durable
<1>2. PICK report \in {"event", "ended"} :
        queue' = Append(queue, [child |-> Conversation, report |-> report])
  BY DEF StreamPushes, Push
<1>3. [child |-> Conversation, report |-> report] \in Update
  BY DEF Update, Conversation
<1>4. queue \in Seq(Update) /\ batch \in Seq(Update) /\ queue' \in Seq(Update)
  BY <1>2, <1>3 DEF PlanInv, TypeInv
<1>5. CASE ~unusable
  <2>1. \A c \in DOMAIN ops : ops'[c] \in Operation
    BY <1>1 DEF PlanInv, TypeInv
  <2> QED
    BY <1>1, <1>4, <1>5, <2>1, ThreadStep
<1>6. CASE unusable
  BY <1>6 DEF PlanInv, FailureInv, StreamPushes
<1> QED
  BY <1>5, <1>6

(* Drain keeps the invariant. *)
LEMMA DrainStep ==
  ASSUME PlanInv, Drain
  PROVE  PlanInv'
<1>1. ~unusable /\ batch' = queue /\ queue' = <<>>
  BY DEF Drain, Idle
<1>2. UNCHANGED <<runs, plan, active, unusable, joining, children, ops>>
  BY DEF Drain, durable
<1>3. queue' \in Seq(Update) /\ batch' \in Seq(Update)
  BY <1>1 DEF PlanInv, TypeInv
<1>4. \A c \in DOMAIN ops : ops'[c] \in Operation
  BY <1>2 DEF PlanInv, TypeInv
<1> QED
  BY <1>1, <1>2, <1>3, <1>4, ThreadStep

(* The outcome a report stands for. *)
LEMMA OutcomeType ==
  ASSUME NEW report \in ReportKinds \cup {"deadline"}
  PROVE  OutcomeOf(report) \in TaskOutcomes
<1>1. CASE report = "over_budget"
  BY <1>1 DEF OutcomeOf, TaskOutcomes
<1>2. CASE report \in {"malformed", "protocol_failure", "internal_failure"}
  BY <1>2 DEF OutcomeOf, TaskOutcomes
<1>3. CASE report = "runner_busy"
  BY <1>3 DEF OutcomeOf, TaskOutcomes
<1>4. CASE report = "deadline"
  BY <1>4 DEF OutcomeOf, TaskOutcomes
<1>5. CASE report \in TaskOutcomes \ {"retry"}
  BY <1>5 DEF OutcomeOf, TaskOutcomes
<1> QED
  BY <1>1, <1>2, <1>3, <1>4, <1>5 DEF ReportKinds

(* A child ends: its attempt and its run are closed together, and the drain
   begins to join its threads. *)
LEMMA EndChildStep ==
  ASSUME PlanInv, joining = Nil, ~unusable, NEW c \in DOMAIN children,
         CanRecordResult(plan, DispatchOf(c).rev, DispatchOf(c).task, c),
         NEW o \in TaskOutcomes, EndChild(c, o), batch' \in Seq(Update),
         UNCHANGED <<active, unusable, queue>>
  PROVE  PlanInv'
<1> DEFINE t == TaskOf(plan, c).task
           n == Len(plan)
           op == [[ops[c] EXCEPT !.stop = TRUE] EXCEPT !.halt = TRUE]
<1>1. DispatchOf(c).task = t
  BY DEF DispatchOf, TaskOf
<1>2. /\ plan \in Seq(Entry) /\ runs \in Seq(RunRecord) /\ AttemptsOK(plan, runs)
      /\ Independent(plan, ops) /\ \A d \in DOMAIN ops : Attempted(plan, d)
  BY DEF PlanInv, TypeInv, AttemptsInv, IndependentInv, ChildrenInv
<1>3. /\ plan # <<>> /\ t \in DOMAIN plan[n].exec /\ plan[n].exec[t] # <<>>
      /\ Last(plan[n].exec[t]) = [child |-> c, result |-> Nil]
  BY <1>1 DEF CanRecordResult, Current
<1> HIDE DEF t
<1>4. OpenAt(plan, n, t, c)
  <2>1. plan[n] \in Entry /\ n \in DOMAIN plan
    BY <1>2, <1>3, CurrentType
  <2>2. plan[n].exec \in Executions
    BY <2>1 DEF Entry
  <2>3. plan[n].exec[t] \in Seq(Attempt)
    BY <1>3, <2>2, ExecutionsType
  <2>4. Len(plan[n].exec[t]) \in DOMAIN plan[n].exec[t]
    BY <1>3, <2>3
  <2>5. Last(plan[n].exec[t]) = plan[n].exec[t][Len(plan[n].exec[t])]
    BY DEF Last
  <2> HIDE DEF n
  <2> QED
    BY <1>3, <2>1, <2>4, <2>5 DEF OpenAt, At
<1>5. /\ plan' = RecordResult(plan, t, o)
      /\ runs' = [runs EXCEPT ![c].status = RunStatusOf(o)]
      /\ joining' = c
  BY <1>1 DEF EndChild
<1>6. c \in DOMAIN runs
  BY <1>2, <1>4 DEF OpenAt, AttemptsOK, RunsMatch
<1>7. RunEnds(runs, runs', c, o)
  BY <1>2, <1>5, <1>6, RunEndsByEdit
<1>8. /\ AttemptsOK(plan', runs') /\ Follows(plan, plan') /\ plan' \in Seq(Entry)
      /\ Len(plan') = n /\ State(plan') = State(plan)
      /\ plan'[n].id = plan[n].id
      /\ \A i, u, d : d # c /\ OpenAt(plan, i, u, d) => OpenAt(plan', i, u, d)
      /\ runs[c].kind = "child"
  BY <1>2, <1>3, <1>4, <1>5, <1>7, RecordResultKeeps
<1>9. Current(plan').id = Current(plan).id
  BY <1>8 DEF Current
<1>10. c \in DOMAIN ops /\ Nil \notin DOMAIN ops /\ c # Nil
  BY KernelAssumption DEF PlanInv, ChildrenInv, TypeInv
<1>11. /\ DOMAIN ops' = DOMAIN ops
       /\ \A d \in DOMAIN ops :
            /\ ops'[d] \in Operation
            /\ ops'[d].worker = "running" => ops[d].worker = "running"
  <2>1. op \in Operation /\ op.worker = ops[c].worker
    BY <1>10, OperationsAreServed DEF Operation
  <2>2. ops' = [ops EXCEPT ![c] = op]
    BY DEF EndChild
  <2> HIDE DEF op
  <2> QED
    BY <1>10, <2>1, <2>2, OperationEdit
<1>12. DOMAIN children' = DOMAIN children \ {c}
  BY DEF EndChild
<1>13. TypeInv'
  <2>1. runs' \in Seq(RunRecord) /\ DOMAIN runs' = DOMAIN runs
    BY <1>7 DEF RunEnds
  <2> QED
    BY <1>8, <1>11, <2>1 DEF PlanInv, TypeInv
<1>14. AttemptsInv'
  BY <1>8 DEF AttemptsInv
<1>15. AwaitingInv'
  <2>1. /\ DOMAIN runs' = DOMAIN runs
        /\ \A i \in DOMAIN runs : i # c => runs'[i] = runs[i]
        /\ runs'[c].status \notin Awaiting
    BY <1>7, EndStatus DEF RunEnds, Awaiting
  <2>2. runs[c].status \notin Awaiting
    BY <1>6, <1>8 DEF PlanInv, AwaitingInv
  <2>3. \A i \in DOMAIN runs' : runs'[i].status \in Awaiting =>
          i # c /\ i \in DOMAIN runs /\ runs[i].status \in Awaiting /\ runs'[i] = runs[i]
    BY <2>1
  <2>4. IsPlanning => active # c
    BY <2>2 DEF PlanInv, AwaitingInv
  <2>5. IsPlanning' => runs'[active'].status \in Awaiting
    BY <2>1, <2>4, RunNumbers DEF PlanInv, AwaitingInv, IsPlanning
  <2>6. \A i \in DOMAIN runs' : runs'[i].status \in Awaiting =>
          /\ runs'[i].kind = "plan"
          /\ State(plan') \in {"proposed", "revision_requested", "invalidated"}
          /\ \A j \in DOMAIN runs' : runs'[j].status \in Awaiting => j = i
          /\ ~unusable' => active' = i
    BY <1>8, <2>3 DEF PlanInv, AwaitingInv
  <2> QED
    BY <2>5, <2>6 DEF AwaitingInv
<1>16. FailureInv'
  BY DEF FailureInv
<1>17. ChildrenInv'
  <2>1. \A d \in DOMAIN children' : \E i, u : OpenAt(plan', i, u, d)
    BY <1>8, <1>12 DEF PlanInv, ChildrenInv
  <2>2. \A d \in DOMAIN ops' : Attempted(plan', d)
    BY <1>2, <1>8, <1>11 DEF Attempted, Follows
  <2>3. DOMAIN children' = DOMAIN ops' \ {joining'}
    BY <1>5, <1>10, <1>11, <1>12 DEF PlanInv, ChildrenInv
  <2> QED
    BY <1>5, <1>10, <1>11, <2>1, <2>2, <2>3 DEF ChildrenInv
<1>18. IndependentInv'
  <2>1. /\ EntriesInv(plan) /\ ChildrenOnce(plan) /\ EntriesInv(plan') /\ ChildrenOnce(plan')
    BY <1>2, <1>8 DEF AttemptsOK
  <2>2. Independent(plan', ops')
    BY <1>2, <1>8, <1>9, <1>11, <2>1, IndependentStays
  <2> QED
    BY <2>2 DEF IndependentInv
<1> QED
  BY <1>13, <1>14, <1>15, <1>16, <1>17, <1>18 DEF PlanInv

(* ProcessUpdate keeps the invariant. *)
LEMMA ProcessUpdateStep ==
  ASSUME PlanInv, ProcessUpdate
  PROVE  PlanInv'
<1> DEFINE u == Head(batch)
<1>1. batch # <<>> /\ joining = Nil /\ batch \in Seq(Update)
  BY DEF ProcessUpdate, PlanInv, TypeInv
<1>2. ~unusable /\ u \in Update /\ Tail(batch) \in Seq(Update)
  BY <1>1 DEF PlanInv, FailureInv
<1>3. CASE Ignored(u) /\ ~Refused
  <2>1. batch' = Tail(batch)
    BY <1>3 DEF ProcessUpdate
  <2>2. UNCHANGED <<runs, plan, active, unusable, joining, children, ops, queue>>
    BY <1>3 DEF ProcessUpdate, durable
  <2>3. \A c \in DOMAIN ops : ops'[c] \in Operation
    BY <2>2 DEF PlanInv, TypeInv
  <2>4. queue' \in Seq(Update) /\ batch' \in Seq(Update)
    BY <1>2, <2>1, <2>2 DEF PlanInv, TypeInv
  <2> QED
    BY <1>2, <2>2, <2>3, <2>4, ThreadStep
<1>4. CASE Refused
  BY <1>1, <1>4, RefusedStep
<1>5. CASE ~Ignored(u) /\ ~Refused
  <2> DEFINE o == IF children[u.child] THEN "cancelled" ELSE OutcomeOf(u.report)
  <2>1. /\ EndChild(u.child, o) /\ batch' = Tail(batch)
        /\ UNCHANGED <<active, unusable, queue>>
    BY <1>5 DEF ProcessUpdate
  <2>2. /\ u.child \in DOMAIN children
        /\ CanRecordResult(plan, DispatchOf(u.child).rev, DispatchOf(u.child).task, u.child)
    BY <1>5 DEF Ignored
  <2>3. o \in TaskOutcomes
    <3>1. u.report \in ReportKinds \cup {"deadline"}
      BY <1>2 DEF Update, ProcessUpdate
    <3>2. OutcomeOf(u.report) \in TaskOutcomes
      BY <3>1, OutcomeType
    <3> QED
      BY <3>2 DEF TaskOutcomes
  <2> HIDE DEF o, u
  <2> QED
    BY <1>1, <1>2, <2>1, <2>2, <2>3, EndChildStep
<1> QED
  BY <1>3, <1>4, <1>5

(* ProcessConversation keeps the invariant. *)
LEMMA ProcessConversationStep ==
  ASSUME PlanInv, ProcessConversation
  PROVE  PlanInv'
<1>1. batch # <<>> /\ joining = Nil /\ batch \in Seq(Update)
  BY DEF ProcessConversation, PlanInv, TypeInv
<1>2. ~unusable /\ Tail(batch) \in Seq(Update)
  BY <1>1 DEF PlanInv, FailureInv
<1>3. CASE Refused
  BY <1>1, <1>3, RefusedStep
<1>4. CASE ~Refused
  <2>1. /\ batch' = Tail(batch)
        /\ UNCHANGED <<runs, plan, children, unusable, ops, queue, joining>>
        /\ active' = active \/ (active = Conversation /\ active' = Nil)
    BY <1>4 DEF ProcessConversation, durable
  <2>2. CASE active' = active
    <3>1. \A c \in DOMAIN ops : ops'[c] \in Operation
      BY <2>1 DEF PlanInv, TypeInv
    <3>2. queue' \in Seq(Update)
      BY <2>1 DEF PlanInv, TypeInv
    <3> QED
      BY <1>2, <2>1, <2>2, <3>1, <3>2, ThreadStep
  <2>3. CASE active = Conversation /\ active' = Nil
    BY <1>2, <2>1, <2>3, OccupantStep
  <2> QED
    BY <2>1, <2>2, <2>3
<1> QED
  BY <1>3, <1>4

(* FinishChildOperation keeps the invariant. *)
LEMMA FinishChildOperationStep ==
  ASSUME PlanInv, FinishChildOperation
  PROVE  PlanInv'
<1>1. /\ joining # Nil /\ DOMAIN ops' = DOMAIN ops \ {joining} /\ joining' = Nil
      /\ \A c \in DOMAIN ops' : ops'[c] = ops[c]
      /\ UNCHANGED <<runs, plan, active, children, unusable, queue, batch>>
  BY DEF FinishChildOperation, durable
<1>2. ~unusable
  BY <1>1 DEF PlanInv, FailureInv
<1>3. TypeInv'
  BY <1>1 DEF PlanInv, TypeInv
<1>4. AttemptsInv'
  BY <1>1 DEF PlanInv, AttemptsInv
<1>5. AwaitingInv'
  BY <1>1 DEF PlanInv, AwaitingInv, IsPlanning
<1>6. FailureInv'
  BY <1>1, <1>2 DEF FailureInv
<1>7. ChildrenInv'
  <2>1. Nil \notin DOMAIN ops
    BY KernelAssumption DEF PlanInv, TypeInv
  <2> QED
    BY <1>1, <2>1 DEF PlanInv, ChildrenInv
<1>8. IndependentInv'
  <2>1. Independent(plan, ops)
    BY DEF PlanInv, IndependentInv
  <2>2. Independent(plan, ops')
    BY <1>1, <2>1 DEF Independent
  <2> QED
    BY <1>1, <2>2 DEF IndependentInv
<1> QED
  BY <1>3, <1>4, <1>5, <1>6, <1>7, <1>8 DEF PlanInv

(* open_durable takes up the run that awaits. *)
LEMMA RestartStep ==
  ASSUME PlanInv, Restart
  PROVE  PlanInv'
<1>1. /\ unusable' = FALSE /\ joining' = Nil /\ queue' = <<>> /\ batch' = <<>>
      /\ DOMAIN children' = {} /\ DOMAIN ops' = {} /\ runs' = runs /\ plan' = plan
  BY DEF Restart, NoChildren, NoThreads, durable
<1>2. AwaitingRuns = {i \in DOMAIN runs : runs[i].status \in Awaiting}
  BY DEF AwaitingRuns, Awaiting
<1>3. active' \in {Nil} \cup AwaitingRuns /\ (AwaitingRuns # {} => active' \in AwaitingRuns)
  <2>1. CASE AwaitingRuns = {}
    BY <2>1 DEF Restart
  <2>2. CASE AwaitingRuns # {}
    <3>1. active' = CHOOSE i \in AwaitingRuns : TRUE
      BY <2>2 DEF Restart
    <3> QED
      BY <2>2, <3>1
  <2> QED
    BY <2>1, <2>2
<1>4. TypeInv'
  <2>1. queue' \in Seq(Update) /\ batch' \in Seq(Update)
    BY <1>1
  <2>2. active' \in {Nil} \cup DOMAIN runs'
    BY <1>1, <1>2, <1>3
  <2> QED
    BY <1>1, <2>1, <2>2 DEF PlanInv, TypeInv
<1>5. AttemptsInv' /\ FailureInv' /\ ChildrenInv'
  BY <1>1 DEF PlanInv, AttemptsInv, FailureInv, ChildrenInv
<1>6. AwaitingInv'
  <2>1. \A i \in DOMAIN runs : runs[i].status \in Awaiting =>
          /\ runs[i].kind = "plan"
          /\ State(plan) \in {"proposed", "revision_requested", "invalidated"}
          /\ \A j \in DOMAIN runs : runs[j].status \in Awaiting => j = i
    BY DEF PlanInv, AwaitingInv
  <2>2. \A i \in DOMAIN runs : runs[i].status \in Awaiting => active' = i
    BY <1>2, <1>3, <2>1
  <2>3. active' # Nil => runs[active'].status \in Awaiting
    BY <1>2, <1>3
  <2> QED
    BY <1>1, <2>1, <2>2, <2>3 DEF AwaitingInv, IsPlanning
<1>7. IndependentInv'
  BY <1>1 DEF IndependentInv, Independent
<1> QED
  BY <1>4, <1>5, <1>6, <1>7 DEF PlanInv

(* A step that changes nothing keeps the invariant. *)
LEMMA StutterStep ==
  ASSUME PlanInv, UNCHANGED vars
  PROVE  PlanInv'
<1>1. UNCHANGED <<runs, plan, active, children, unusable, ops, stream, queue, batch,
                  joining>>
  BY DEF vars
<1>2. TypeInv' /\ AttemptsInv' /\ FailureInv' /\ ChildrenInv'
  BY <1>1 DEF PlanInv, TypeInv, AttemptsInv, FailureInv, ChildrenInv
<1>3. AwaitingInv' /\ IndependentInv'
  BY <1>1 DEF PlanInv, AwaitingInv, IndependentInv, IsPlanning
<1> QED
  BY <1>2, <1>3 DEF PlanInv

-----------------------------------------------------------------------------
(* The theorems. *)

(* The inductive invariant. *)
LEMMA PlanInvariant == Spec => []PlanInv
<1>1. PlanInv /\ [Next]_vars => PlanInv'
  <2> SUFFICES ASSUME PlanInv, [Next]_vars PROVE PlanInv'
    OBVIOUS
  <2>1. CASE UNCHANGED vars
    BY <2>1, StutterStep
  <2>2. CASE Next
    <3>1. CASE Converse
      BY <3>1, ConverseStep
    <3>2. CASE \E r \in DOMAIN Revisions : StartPlan(r) \/ RevisePlan(r)
      BY <3>2, StartPlanStep, RevisePlanStep
    <3>3. CASE DecideOnMovedBasis
      BY <3>3, DecideOnMovedBasisStep
    <3>4. CASE \E d \in Decisions : DecidePlan(d)
      BY <3>4, DecidePlanStep
    <3>5. CASE RevalidatePlanApproval
      BY <3>5, RevalidateStep
    <3>6. CASE \E t \in ActiveTasks(plan) : DispatchChild(t)
      BY <3>6, DispatchChildStep
    <3>7. CASE \E c \in DOMAIN children : CancelChild(c)
      BY <3>7, CancelChildStep
    <3>8. CASE \E c \in DOMAIN ops :
                 WorkerReports(c) \/ DeadlineWakes(c) \/ DeadlinePushes(c)
      BY <3>8, WorkerReportsStep, DeadlineWakesStep, DeadlinePushesStep
    <3>9. CASE \/ StreamPushes \/ Drain \/ ProcessUpdate \/ ProcessConversation
               \/ FinishChildOperation
      BY <3>9, StreamPushesStep, DrainStep, ProcessUpdateStep,
         ProcessConversationStep, FinishChildOperationStep
    <3>10. CASE Restart
      BY <3>10, RestartStep
    <3> QED
      BY <2>2, <3>1, <3>2, <3>3, <3>4, <3>5, <3>6, <3>7, <3>8, <3>9, <3>10 DEF Next
  <2> QED
    BY <2>1, <2>2
<1> QED
  BY <1>1, InitialState, PTL DEF Spec

(* The three records of a child agree in every reachable state: the attempts of
   the plan, the runs of the session and the operations of the kernel. *)
THEOREM RecordsOfChildrenAgree == Spec => []ChildrenMatchAttempts
<1>1. PlanInv => ChildrenMatchAttempts
  <2> SUFFICES ASSUME PlanInv PROVE ChildrenMatchAttempts
    OBVIOUS
  <2>1. RetriesFirst(plan) /\ RunsMatch(plan, runs)
    BY DEF PlanInv, AttemptsInv, AttemptsOK
  <2>2. ASSUME NEW i \in DOMAIN plan, NEW t \in DOMAIN plan[i].exec,
               NEW k \in DOMAIN plan[i].exec[t]
        PROVE  /\ k < Len(plan[i].exec[t]) => plan[i].exec[t][k].result = "retry"
               /\ runs[plan[i].exec[t][k].child].status =
                    IF plan[i].exec[t][k].result = Nil THEN "running"
                    ELSE RunStatusOf(plan[i].exec[t][k].result)
    <3>1. At(plan, i, t, k, plan[i].exec[t][k].child)
      BY DEF At
    <3>2. k < Len(plan[i].exec[t]) => plan[i].exec[t][k].result = "retry"
      BY <2>1, <3>1 DEF RetriesFirst
    <3>3. runs[plan[i].exec[t][k].child].status = StatusOf(plan[i].exec[t][k].result)
      BY <2>1, <3>1 DEF RunsMatch
    <3> QED
      BY <3>2, <3>3 DEF StatusOf
  <2>3. ASSUME NEW c \in DOMAIN children
        PROVE  runs[c].status = "running"
    <3>1. PICK i, t : OpenAt(plan, i, t, c)
      BY DEF PlanInv, ChildrenInv
    <3>2. runs[c].status = StatusOf(plan[i].exec[t][Len(plan[i].exec[t])].result)
      BY <2>1, <3>1 DEF OpenAt, RunsMatch
    <3>3. plan[i].exec[t][Len(plan[i].exec[t])].result = Nil
      BY <3>1 DEF OpenAt, Last
    <3> QED
      BY <3>2, <3>3 DEF StatusOf
  <2>4. DOMAIN children = DOMAIN ops \ {joining}
    BY DEF PlanInv, ChildrenInv
  <2> QED
    BY <2>2, <2>3, <2>4 DEF ChildrenMatchAttempts
<1> QED
  BY <1>1, PlanInvariant, PTL

(* Workers that run at the same time for the current revision are of tasks that
   do not conflict, also while the drain waits for one whose child is over. *)
THEOREM WorkersNeverConflict == Spec => []WorkersAreIndependent
<1>1. PlanInv => WorkersAreIndependent
  <2>1. \A c : DispatchOf(c) = TaskOf(plan, c)
    BY DEF DispatchOf, TaskOf
  <2>2. Independent(plan, ops) => WorkersAreIndependent
    BY <2>1 DEF Independent, WorkersAreIndependent
  <2> QED
    BY <2>2 DEF PlanInv, IndependentInv
<1> QED
  BY <1>1, PlanInvariant, PTL

(* The stored session can always be opened again, and until the store fails the
   planning run that awaits is the one the kernel serves. *)
THEOREM SessionReopens == Spec => []AwaitingPlanIsServed
<1>1. PlanInv => AwaitingPlanIsServed
  <2> SUFFICES ASSUME PlanInv PROVE AwaitingPlanIsServed
    OBVIOUS
  <2>1. AwaitingRuns = {i \in DOMAIN runs : runs[i].status \in Awaiting}
    BY DEF AwaitingRuns, Awaiting
  <2>2. Cardinality(AwaitingRuns) <= 1
    <3>1. CASE AwaitingRuns = {}
      <4>1. Cardinality(AwaitingRuns) = 0
        BY <3>1, FS_EmptySet
      <4> QED
        BY <4>1
    <3>2. CASE AwaitingRuns # {}
      <4>1. PICK i : i \in AwaitingRuns
        BY <3>2
      <4>2. AwaitingRuns = {i}
        BY <2>1, <4>1 DEF PlanInv, AwaitingInv
      <4>3. Cardinality({i}) = 1
        BY FS_Singleton
      <4> QED
        BY <4>2, <4>3
    <3> QED
      BY <3>1, <3>2
  <2>3. AwaitingRuns # {} =>
          State(plan) \in {"proposed", "revision_requested", "invalidated"}
    BY <2>1 DEF PlanInv, AwaitingInv
  <2>4. ASSUME ~unusable
        PROVE  AwaitingRuns = IF IsPlanning THEN {active} ELSE {}
    <3>1. CASE IsPlanning
      <4>1. active \in AwaitingRuns
        BY <2>1, <3>1, RunNumbers DEF PlanInv, AwaitingInv
      <4>2. \A i \in AwaitingRuns : i = active
        BY <2>1, <2>4 DEF PlanInv, AwaitingInv
      <4> QED
        BY <3>1, <4>1, <4>2
    <3>2. CASE ~IsPlanning
      BY <2>1, <2>4, <3>2, NothingAwaits
    <3> QED
      BY <3>1, <3>2
  <2> QED
    BY <2>2, <2>3, <2>4 DEF AwaitingPlanIsServed, CanReopen
<1> QED
  BY <1>1, PlanInvariant, PTL
-----------------------------------------------------------------------------
(* Recursion over numbers. *)

(* A set of numbers with 0 that is closed under successor holds them all. *)
LEMMA Counting ==
  ASSUME NEW T, 0 \in T, \A n \in Nat : n \in T => n + 1 \in T
  PROVE  Nat \subseteq T
<1> SUFFICES ASSUME ~(Nat \subseteq T) PROVE FALSE OBVIOUS
<1> DEFINE U == Nat \ T
           R == OpToRel(<, Nat)
<1>1. IsWellFoundedOn(R, Nat) BY NatLessThanWellFounded, Zenon
<1>2. U \subseteq Nat /\ U # {} OBVIOUS
<1>3. \A y, x \in Nat : <<y, x>> \in R <=> y < x BY DEF OpToRel
<1> HIDE DEF R
<1>4. PICK n \in U : \A y \in U : ~ (<<y, n>> \in R) BY <1>1, <1>2, WFMin
<1>5. n # 0 BY <1>4
<1>6. n - 1 \in Nat /\ n - 1 < n BY <1>4, <1>5
<1>7. n - 1 \in T BY <1>3, <1>4, <1>6
<1>8. (n - 1) + 1 \in T BY <1>6, <1>7
<1> QED BY <1>8, <1>6, <1>4

(* What holds at 0 and passes from each number to the next holds up to m. *)
LEMMA CountingTo ==
  ASSUME NEW m \in Nat, NEW T, 0 \in T, \A i \in 1..m : i - 1 \in T => i \in T
  PROVE  \A i \in 0..m : i \in T
<1> DEFINE U == {n \in Nat : n <= m => n \in T}
<1>1. 0 \in U OBVIOUS
<1>2. \A n \in Nat : n \in U => n + 1 \in U
  <2> SUFFICES ASSUME NEW n \in Nat, n \in U, n + 1 <= m PROVE n + 1 \in T
    OBVIOUS
  <2>1. n + 1 \in 1..m /\ (n + 1) - 1 = n /\ n <= m OBVIOUS
  <2>2. n \in T BY <2>1
  <2> QED BY <2>1, <2>2
<1> HIDE DEF U
<1>3. Nat \subseteq U BY <1>1, <1>2, Counting
<1> QED BY <1>3 DEF U

\* f starts with base and goes from each number to the next by F
Unrolls(f, S, base, m, F) ==
  /\ f \in [0..m -> S] /\ f[0] = base
  /\ \A i \in 1..m : f[i] = F[<<i, f[i - 1]>>]

(* A recursion whose steps are given by a function is well defined. *)
LEMMA Recursion ==
  ASSUME NEW S, NEW base \in S, NEW m \in Nat, NEW F \in [(1..m) \X S -> S]
  PROVE  \E f : Unrolls(f, S, base, m, F)
<1> DEFINE Upto(n, f) == /\ f \in [0..n -> S] /\ f[0] = base
                         /\ \A i \in 1..n : f[i] = F[<<i, f[i - 1]>>]
           T == {n \in 0..m : \E f : Upto(n, f)}
<1>1. 0 \in T
  <2> DEFINE f == [i \in 0..0 |-> base]
  <2>1. f \in [0..0 -> S] /\ f[0] = base /\ 1..0 = {} OBVIOUS
  <2>2. Upto(0, f) BY <2>1
  <2> HIDE DEF f, Upto
  <2> QED BY <2>2
<1>2. \A i \in 1..m : i - 1 \in T => i \in T
  <2> SUFFICES ASSUME NEW i \in 1..m, NEW f, Upto(i - 1, f)
               PROVE  \E g : Upto(i, g)
    <3> HIDE DEF Upto
    <3> QED OBVIOUS
  <2> DEFINE g == [j \in 0..i |-> IF j = i THEN F[<<i, f[i - 1]>>] ELSE f[j]]
  <2>1. i - 1 \in 0..(i - 1) /\ f[i - 1] \in S OBVIOUS
  <2>2. <<i, f[i - 1]>> \in (1..m) \X S BY <2>1
  <2>3. F[<<i, f[i - 1]>>] \in S BY <2>2
  <2>4. \A j \in 0..i : j # i => j \in 0..(i - 1) OBVIOUS
  <2>5. g \in [0..i -> S] BY <2>3, <2>4
  <2>6. g[0] = base OBVIOUS
  <2>7. ASSUME NEW j \in 1..i PROVE g[j] = F[<<j, g[j - 1]>>]
    <3>1. j - 1 \in 0..i /\ j - 1 # i /\ g[j - 1] = f[j - 1] OBVIOUS
    <3>2. CASE j = i BY <3>1, <3>2
    <3>3. CASE j # i
      <4>1. j \in 1..(i - 1) /\ g[j] = f[j] BY <3>3
      <4> QED BY <3>1, <4>1
    <3> QED BY <3>2, <3>3
  <2> HIDE DEF g
  <2>8. Upto(i, g) BY <2>5, <2>6, <2>7
  <2> QED BY <2>8
<1> HIDE DEF T
<1>3. m \in T BY <1>1, <1>2, CountingTo
<1> QED BY <1>3 DEF T, Unrolls
-----------------------------------------------------------------------------
(* The passes over the tasks of a revision r. *)

Fixed == {"running", "completed", "failed"}
Readiness == Fixed \cup {"ready", "waiting_for_dependencies", "blocked"}

StatesOf(r) == [TaskIds(r) -> Readiness]

(* The tasks of a revision are the members of its order. *)
LEMMA OrderType ==
  ASSUME NEW r \in DOMAIN Revisions
  PROVE  /\ Len(Revisions[r].order) \in Nat
         /\ DOMAIN Revisions[r].order = 1..Len(Revisions[r].order)
         /\ \A i \in 1..Len(Revisions[r].order) : Revisions[r].order[i] \in TaskIds(r)
         /\ \A t \in TaskIds(r) :
              \E i \in 1..Len(Revisions[r].order) : t = Revisions[r].order[i]
<1> DEFINE o == Revisions[r].order
<1>1. o \in Seq(DOMAIN Revisions[r].task) BY PlanAssumption
<1>2. Len(o) \in Nat /\ DOMAIN o = 1..Len(o) BY <1>1
<1>3. TaskIds(r) = {o[i] : i \in DOMAIN o} BY DEF TaskIds, ToSet
<1> QED BY <1>2, <1>3

(* The tasks of a revision are finitely many, and no more than its order lists. *)
LEMMA TasksFinite ==
  ASSUME NEW r \in DOMAIN Revisions
  PROVE  /\ IsFiniteSet(TaskIds(r))
         /\ Cardinality(TaskIds(r)) \in Nat
         /\ Cardinality(TaskIds(r)) <= Len(Revisions[r].order)
<1> DEFINE o == Revisions[r].order
           n == Len(o)
           f == [i \in 1..n |-> o[i]]
<1>1. n \in Nat /\ DOMAIN o = 1..n /\ (\A i \in 1..n : o[i] \in TaskIds(r))
      /\ \A t \in TaskIds(r) : \E i \in 1..n : t = o[i]
  BY OrderType
<1> HIDE DEF n, o
<1>2. f \in Surjection(1..n, TaskIds(r))
  BY <1>1 DEF Surjection
<1>3. IsFiniteSet(1..n) /\ Cardinality(1..n) = n BY <1>1, FS_Interval
<1>4. IsFiniteSet(TaskIds(r)) /\ Cardinality(TaskIds(r)) <= Cardinality(1..n)
  BY <1>2, <1>3, FS_Surjection
<1> QED BY <1>1, <1>3, <1>4, FS_CardinalityType DEF n, o

(* The tasks the attempts have decided about are the same in both. *)
SameFixed(s, u) == \A t \in DOMAIN s : s[t] \in Fixed \/ u[t] \in Fixed => u[t] = s[t]

(* Settling one task changes at most its own state, and never to or from one the
   attempts decide. *)
LEMMA SettleType ==
  ASSUME NEW r \in DOMAIN Revisions, NEW s \in StatesOf(r), NEW t \in TaskIds(r)
  PROVE  /\ Settle(r, s, t) \in StatesOf(r) /\ SameFixed(s, Settle(r, s, t))
         /\ \A u \in TaskIds(r) : u # t => Settle(r, s, t)[u] = s[u]
<1> DEFINE v == IF {d \in Task(r, t).deps : s[d] # "completed"} = {} THEN "ready"
                ELSE IF \E d \in {d \in Task(r, t).deps : s[d] # "completed"} :
                          s[d] \in {"failed", "blocked"}
                     THEN "blocked" ELSE "waiting_for_dependencies"
<1>1. v \in {"ready", "blocked", "waiting_for_dependencies"} OBVIOUS
<1>2. Settle(r, s, t) = IF s[t] \in Fixed THEN s ELSE [s EXCEPT ![t] = v]
  BY DEF Settle, Fixed
<1> HIDE DEF v
<1>3. CASE s[t] \in Fixed BY <1>2, <1>3 DEF SameFixed
<1>4. CASE s[t] \notin Fixed
  <2>1. v \in Readiness /\ v \notin Fixed BY <1>1 DEF Readiness, Fixed
  <2> QED BY <1>2, <1>4, <2>1 DEF StatesOf, SameFixed
<1> QED BY <1>3, <1>4

(* A pass, as the last of the states after each of its tasks. *)
LEMMA PassTable ==
  ASSUME NEW r \in DOMAIN Revisions, NEW s \in StatesOf(r)
  PROVE  \E f \in [0..Len(Revisions[r].order) -> StatesOf(r)] :
           /\ f[0] = s /\ Pass(r, s) = f[Len(Revisions[r].order)]
           /\ \A i \in 1..Len(Revisions[r].order) :
                f[i] = Settle(r, f[i - 1], Revisions[r].order[i])
<1> DEFINE o == Revisions[r].order
           n == Len(o)
           S == StatesOf(r)
           Table(f) == f = [i \in 0..n |-> IF i = 0 THEN s
                                            ELSE Settle(r, f[i - 1], o[i])]
           after[i \in 0..n] == IF i = 0 THEN s ELSE Settle(r, after[i - 1], o[i])
           F == [x \in (1..n) \X S |-> Settle(r, x[2], o[x[1]])]
<1>1. Pass(r, s) = after[n] BY DEF Pass
<1>2. after = CHOOSE f : Table(f) OBVIOUS
<1>3. n \in Nat /\ \A i \in 1..n : o[i] \in TaskIds(r) BY OrderType
<1> HIDE DEF n, o, S
<1>4. \A i \in 1..n : \A x \in S : Settle(r, x, o[i]) \in S
  BY <1>3, SettleType DEF S
<1>5. F \in [(1..n) \X S -> S] BY <1>4
<1>6. \A i \in 1..n : \A x \in S : F[<<i, x>>] = Settle(r, x, o[i]) OBVIOUS
<1> HIDE DEF F, after
<1>7. PICK g \in [0..n -> S] : g[0] = s /\ \A i \in 1..n : g[i] = F[<<i, g[i - 1]>>]
  <2>1. s \in S /\ n \in Nat BY <1>3 DEF S
  <2>2. PICK g : Unrolls(g, S, s, n, F) BY <1>5, <2>1, Recursion
  <2> QED BY <2>2 DEF Unrolls
<1>8. Table(g)
  <2>1. ASSUME NEW i \in 0..n
        PROVE  g[i] = IF i = 0 THEN s ELSE Settle(r, g[i - 1], o[i])
    <3>1. CASE i = 0 BY <1>7, <3>1
    <3>2. CASE i # 0
      <4>1. i \in 1..n /\ i - 1 \in 0..n /\ g[i - 1] \in S BY <1>3, <1>7, <3>2
      <4> QED BY <1>6, <1>7, <3>2, <4>1
    <3> QED BY <3>1, <3>2
  <2> QED BY <1>7, <2>1
<1>9. Table(after)
  <2> HIDE DEF Table
  <2> QED BY <1>2, <1>8
<1> DEFINE T == {i \in 0..n : after[i] \in S}
<1>10. after[0] = s BY <1>3, <1>9
<1>11. \A i \in 1..n : after[i] = Settle(r, after[i - 1], o[i])
  <2> TAKE i \in 1..n
  <2>1. i \in 0..n /\ i # 0 BY <1>3
  <2> QED BY <1>9, <2>1
<1>12. 0 \in T BY <1>3, <1>10 DEF S
<1>13. \A i \in 1..n : i - 1 \in T => i \in T BY <1>3, <1>4, <1>11
<1>14. \A i \in 0..n : i \in T
  <2> HIDE DEF T
  <2> QED BY <1>3, <1>12, <1>13, CountingTo
<1>15. after \in [0..n -> S] BY <1>9, <1>14
<1> QED BY <1>1, <1>10, <1>11, <1>15 DEF n, o, S
(* A pass keeps the type of the states and what the attempts decide. *)
LEMMA PassType ==
  ASSUME NEW r \in DOMAIN Revisions, NEW s \in StatesOf(r)
  PROVE  Pass(r, s) \in StatesOf(r)
<1>1. Len(Revisions[r].order) \in 0..Len(Revisions[r].order) BY OrderType
<1> QED BY <1>1, PassTable

(* The passes, as the last of the states after each. *)
LEMMA SettledTable ==
  ASSUME NEW r \in DOMAIN Revisions, NEW s \in StatesOf(r)
  PROVE  \E f \in [0..Len(Revisions[r].order) -> StatesOf(r)] :
           /\ f[0] = s /\ Settled(r, s) = f[Len(Revisions[r].order)]
           /\ \A i \in 1..Len(Revisions[r].order) : f[i] = Pass(r, f[i - 1])
<1> DEFINE n == Len(Revisions[r].order)
           S == StatesOf(r)
           Table(f) == f = [i \in 0..n |-> IF i = 0 THEN s ELSE Pass(r, f[i - 1])]
           after[i \in 0..n] == IF i = 0 THEN s ELSE Pass(r, after[i - 1])
           F == [x \in (1..n) \X S |-> Pass(r, x[2])]
<1>1. Settled(r, s) = after[n] BY DEF Settled
<1>2. after = CHOOSE f : Table(f) OBVIOUS
<1>3. n \in Nat BY OrderType
<1> HIDE DEF n, S
<1>4. \A x \in S : Pass(r, x) \in S BY PassType DEF S
<1>5. F \in [(1..n) \X S -> S] BY <1>4
<1>6. \A i \in 1..n : \A x \in S : F[<<i, x>>] = Pass(r, x) OBVIOUS
<1> HIDE DEF F, after
<1>7. PICK g \in [0..n -> S] : g[0] = s /\ \A i \in 1..n : g[i] = F[<<i, g[i - 1]>>]
  <2>1. s \in S /\ n \in Nat BY <1>3 DEF S
  <2>2. PICK g : Unrolls(g, S, s, n, F) BY <1>5, <2>1, Recursion
  <2> QED BY <2>2 DEF Unrolls
<1>8. Table(g)
  <2>1. ASSUME NEW i \in 0..n
        PROVE  g[i] = IF i = 0 THEN s ELSE Pass(r, g[i - 1])
    <3>1. CASE i = 0 BY <1>7, <3>1
    <3>2. CASE i # 0
      <4>1. i \in 1..n /\ i - 1 \in 0..n /\ g[i - 1] \in S BY <1>3, <1>7, <3>2
      <4> QED BY <1>6, <1>7, <3>2, <4>1
    <3> QED BY <3>1, <3>2
  <2> QED BY <1>7, <2>1
<1>9. Table(after)
  <2> HIDE DEF Table
  <2> QED BY <1>2, <1>8
<1> DEFINE T == {i \in 0..n : after[i] \in S}
<1>10. after[0] = s BY <1>3, <1>9
<1>11. \A i \in 1..n : after[i] = Pass(r, after[i - 1])
  <2> TAKE i \in 1..n
  <2>1. i \in 0..n /\ i # 0 BY <1>3
  <2> QED BY <1>9, <2>1
<1>12. 0 \in T BY <1>3, <1>10 DEF S
<1>13. \A i \in 1..n : i - 1 \in T => i \in T BY <1>3, <1>4, <1>11
<1>14. \A i \in 0..n : i \in T
  <2> HIDE DEF T
  <2> QED BY <1>3, <1>12, <1>13, CountingTo
<1>15. after \in [0..n -> S] BY <1>9, <1>14
<1> QED BY <1>1, <1>10, <1>11, <1>15 DEF n, S

-----------------------------------------------------------------------------
(* What the passes come to. *)

DoomClosed(r, own, S) ==
  \A t \in TaskIds(r) :
    /\ own[t] = "failed" => t \in S
    /\ own[t] = "ready" /\ Task(r, t).deps \cap S # {} => t \in S

\* Doomed, of the tasks of revision r in the states own
DoomedBy(r, own) ==
  {t \in TaskIds(r) : own[t] = "ready" /\
     \A S \in SUBSET TaskIds(r) : DoomClosed(r, own, S) => t \in S}

OwnStates(r) == [TaskIds(r) -> Fixed \cup {"ready"}]

(* A task is doomed exactly when one it depends on failed or is doomed. *)
LEMMA DoomedBecause ==
  ASSUME NEW r \in DOMAIN Revisions, NEW own \in OwnStates(r),
         NEW t \in TaskIds(r), own[t] = "ready", Task(r, t).deps \subseteq TaskIds(r)
  PROVE  t \in DoomedBy(r, own) <=>
           \E d \in Task(r, t).deps : own[d] = "failed" \/ d \in DoomedBy(r, own)
<1> DEFINE D == DoomedBy(r, own)
           W == D \cup {u \in TaskIds(r) : own[u] = "failed"}
<1>1. D \subseteq TaskIds(r) /\ \A u \in D : own[u] = "ready" BY DEF DoomedBy
<1>2. ASSUME NEW S \in SUBSET TaskIds(r), DoomClosed(r, own, S) PROVE W \subseteq S
  BY <1>2 DEF DoomClosed, DoomedBy
<1>3. ASSUME NEW u \in TaskIds(r), own[u] = "ready", Task(r, u).deps \cap W # {}
      PROVE  u \in D
  <2>1. ASSUME NEW S \in SUBSET TaskIds(r), DoomClosed(r, own, S) PROVE u \in S
    <3>1. Task(r, u).deps \cap S # {} BY <1>2, <1>3, <2>1
    <3> QED BY <1>3, <2>1, <3>1 DEF DoomClosed
  <2> QED BY <1>3, <2>1 DEF DoomedBy
<1>4. ASSUME t \in D PROVE Task(r, t).deps \cap W # {}
  <2> SUFFICES ASSUME Task(r, t).deps \cap W = {} PROVE FALSE OBVIOUS
  <2>1. ASSUME NEW u \in TaskIds(r)
        PROVE  /\ own[u] = "failed" => u \in W \ {t}
               /\ own[u] = "ready" /\ Task(r, u).deps \cap (W \ {t}) # {} =>
                    u \in W \ {t}
    <3>1. own[u] = "failed" => u \in W \ {t} OBVIOUS
    <3>2. ASSUME own[u] = "ready", Task(r, u).deps \cap (W \ {t}) # {}
          PROVE  u \in W \ {t}
      <4>1. Task(r, u).deps \cap W # {} BY <3>2
      <4> QED BY <1>3, <3>2, <4>1
    <3> QED BY <3>1, <3>2
  <2>2. DoomClosed(r, own, W \ {t}) BY <2>1 DEF DoomClosed
  <2>3. W \ {t} \in SUBSET TaskIds(r) BY <1>1
  <2>4. t \in W \ {t} BY <1>4, <2>2, <2>3 DEF DoomedBy
  <2> QED BY <2>4
<1>5. ASSUME Task(r, t).deps \cap W # {} PROVE t \in D BY <1>3, <1>5
<1>6. Task(r, t).deps \cap W # {} <=>
        \E d \in Task(r, t).deps : own[d] = "failed" \/ d \in D
  OBVIOUS
<1> QED BY <1>4, <1>5, <1>6

\* what a task's state must come to
Verdict(r, own, t) ==
  IF own[t] \in Fixed THEN own[t]
  ELSE IF \A d \in Task(r, t).deps : own[d] = "completed" THEN "ready"
  ELSE IF t \in DoomedBy(r, own) THEN "blocked"
  ELSE "waiting_for_dependencies"

\* the tasks of G and all they depend on have come to it in s
Reached(r, own, G, s) ==
  /\ s \in StatesOf(r) /\ SameFixed(own, s)
  /\ G \subseteq TaskIds(r)
  /\ \A t \in G : Task(r, t).deps \subseteq G /\ s[t] = Verdict(r, own, t)

(* The verdict on a task that may be a dependency. *)
LEMMA VerdictOf ==
  ASSUME NEW r \in DOMAIN Revisions, NEW own \in OwnStates(r),
         NEW t \in TaskIds(r), Task(r, t).deps \subseteq TaskIds(r)
  PROVE  /\ Verdict(r, own, t) \in Readiness
         /\ Verdict(r, own, t) = "completed" <=> own[t] = "completed"
         /\ Verdict(r, own, t) = "failed" <=> own[t] = "failed"
         /\ Verdict(r, own, t) = "running" <=> own[t] = "running"
         /\ Verdict(r, own, t) = "blocked" <=> t \in DoomedBy(r, own)
         /\ Verdict(r, own, t) = "ready" =>
              own[t] = "ready" /\ \A d \in Task(r, t).deps : own[d] = "completed"
<1>1. own[t] \in Fixed \cup {"ready"} BY DEF OwnStates
<1>2. t \in DoomedBy(r, own) =>
        own[t] = "ready" /\ \E d \in Task(r, t).deps : own[d] # "completed"
  <2> SUFFICES ASSUME t \in DoomedBy(r, own)
               PROVE  own[t] = "ready" /\ \E d \in Task(r, t).deps : own[d] # "completed"
    OBVIOUS
  <2>1. own[t] = "ready" BY DEF DoomedBy
  <2>2. PICK d \in Task(r, t).deps : own[d] = "failed" \/ d \in DoomedBy(r, own)
    BY <2>1, DoomedBecause
  <2>3. own[d] # "completed" BY <2>2 DEF DoomedBy
  <2> QED BY <2>1, <2>3
<1> QED BY <1>1, <1>2 DEF Verdict, Fixed, Readiness

(* A task whose dependencies have come to their verdict comes to its own when it
   is settled. *)
LEMMA SettleReaches ==
  ASSUME NEW r \in DOMAIN Revisions, NEW own \in OwnStates(r), NEW G, NEW s,
         \A u \in TaskIds(r) : Task(r, u).deps \subseteq TaskIds(r),
         Reached(r, own, G, s), NEW t \in TaskIds(r), Task(r, t).deps \subseteq G
  PROVE  Settle(r, s, t)[t] = Verdict(r, own, t)
<1>1. own[t] \in Fixed \cup {"ready"} /\ s \in StatesOf(r) /\ t \in DOMAIN own
  BY DEF OwnStates, Reached
<1>2. CASE own[t] \in Fixed
  <2>1. s[t] = own[t] BY <1>1, <1>2 DEF Reached, SameFixed
  <2> QED BY <1>2, <2>1 DEF Settle, Verdict, Fixed
<1>3. CASE own[t] \notin Fixed
  <2> DEFINE B == {d \in Task(r, t).deps : s[d] # "completed"}
  <2>1. own[t] = "ready" /\ s[t] \notin Fixed BY <1>1, <1>3 DEF Reached, SameFixed
  <2>2. \A d \in Task(r, t).deps :
          /\ s[d] = "completed" <=> own[d] = "completed"
          /\ s[d] \in {"failed", "blocked"} <=>
               own[d] = "failed" \/ d \in DoomedBy(r, own)
          /\ s[d] \in {"failed", "blocked"} => s[d] # "completed"
    <3> TAKE d \in Task(r, t).deps
    <3>1. d \in TaskIds(r) /\ s[d] = Verdict(r, own, d) BY DEF Reached
    <3> QED BY <3>1, VerdictOf
  <2>3. Settle(r, s, t)[t] =
          IF B = {} THEN "ready"
          ELSE IF \E d \in B : s[d] \in {"failed", "blocked"} THEN "blocked"
          ELSE "waiting_for_dependencies"
    <3>1. DOMAIN s = TaskIds(r) BY <1>1 DEF StatesOf
    <3> QED BY <2>1, <3>1 DEF Settle, Fixed
  <2>4. B = {} <=> \A d \in Task(r, t).deps : own[d] = "completed" BY <2>2
  <2>5. (\E d \in B : s[d] \in {"failed", "blocked"}) <=> t \in DoomedBy(r, own)
    <3>1. (\E d \in B : s[d] \in {"failed", "blocked"}) <=>
            \E d \in Task(r, t).deps : own[d] = "failed" \/ d \in DoomedBy(r, own)
      BY <2>2
    <3> QED BY <2>1, <3>1, DoomedBecause
  <2> HIDE DEF B
  <2> QED BY <1>3, <2>3, <2>4, <2>5 DEF Verdict
<1> QED BY <1>2, <1>3
(* Settling any task keeps what has been reached. *)
LEMMA SettleKeepsReached ==
  ASSUME NEW r \in DOMAIN Revisions, NEW own \in OwnStates(r), NEW G, NEW s,
         \A u \in TaskIds(r) : Task(r, u).deps \subseteq TaskIds(r),
         Reached(r, own, G, s), NEW t \in TaskIds(r)
  PROVE  Reached(r, own, G, Settle(r, s, t))
<1> DEFINE z == Settle(r, s, t)
<1>1. s \in StatesOf(r) /\ SameFixed(own, s) /\ G \subseteq TaskIds(r) BY DEF Reached
<1>2. z \in StatesOf(r) /\ SameFixed(s, z) /\ \A u \in TaskIds(r) : u # t => z[u] = s[u]
  BY <1>1, SettleType
<1>3. t \in G => z[t] = Verdict(r, own, t)
  <2> SUFFICES ASSUME t \in G PROVE z[t] = Verdict(r, own, t) OBVIOUS
  <2>1. Task(r, t).deps \subseteq G BY DEF Reached
  <2> QED BY <2>1, SettleReaches
<1> HIDE DEF z
<1>4. SameFixed(own, z)
  <2>1. DOMAIN own = TaskIds(r) /\ DOMAIN s = TaskIds(r)
    BY <1>1 DEF OwnStates, StatesOf
  <2> QED BY <1>1, <1>2, <2>1 DEF SameFixed
<1>5. \A u \in G : Task(r, u).deps \subseteq G /\ z[u] = Verdict(r, own, u)
  <2> TAKE u \in G
  <2>1. u \in TaskIds(r) /\ Task(r, u).deps \subseteq G /\ s[u] = Verdict(r, own, u)
    BY <1>1 DEF Reached
  <2> QED BY <1>2, <1>3, <2>1
<1> QED BY <1>1, <1>2, <1>4, <1>5 DEF Reached, z

(* A pass brings a task to its verdict when its dependencies are there. *)
LEMMA PassReaches ==
  ASSUME NEW r \in DOMAIN Revisions, NEW own \in OwnStates(r), NEW G, NEW s,
         \A u \in TaskIds(r) : Task(r, u).deps \subseteq TaskIds(r),
         Reached(r, own, G, s), NEW t \in TaskIds(r), Task(r, t).deps \subseteq G
  PROVE  Reached(r, own, G \cup {t}, Pass(r, s))
<1> DEFINE o == Revisions[r].order
           n == Len(o)
           H == G \cup {t}
<1>1. s \in StatesOf(r) /\ G \subseteq TaskIds(r) BY DEF Reached
<1>2. PICK f \in [0..n -> StatesOf(r)] :
        /\ f[0] = s /\ Pass(r, s) = f[n]
        /\ \A i \in 1..n : f[i] = Settle(r, f[i - 1], o[i])
  BY <1>1, PassTable
<1>3. /\ n \in Nat /\ \A i \in 1..n : o[i] \in TaskIds(r)
      /\ \E i \in 1..n : t = o[i]
  BY OrderType
<1> HIDE DEF n, o
<1> DEFINE T == {i \in 0..n : /\ Reached(r, own, G, f[i])
                              /\ \A j \in 1..i : o[j] = t => Reached(r, own, H, f[i])}
<1>4. 0 \in T
  <2>1. 0 \in 0..n /\ 1..0 = {} BY <1>3
  <2> QED BY <1>2, <2>1
<1>5. \A i \in 1..n : i - 1 \in T => i \in T
  <2> TAKE i \in 1..n
  <2> HAVE i - 1 \in T
  <2> DEFINE a == f[i - 1]
  <2>1. /\ Reached(r, own, G, a) /\ o[i] \in TaskIds(r)
        /\ \A j \in 1..(i - 1) : o[j] = t => Reached(r, own, H, a)
        /\ f[i] = Settle(r, a, o[i]) /\ i \in 0..n
    <3>1. i - 1 \in 0..n /\ Reached(r, own, G, a) OBVIOUS
    <3>2. \A j \in 1..(i - 1) : o[j] = t => Reached(r, own, H, a)
      <4> HIDE DEF H
      <4> QED OBVIOUS
    <3>3. o[i] \in TaskIds(r) /\ i \in 0..n BY <1>3
    <3>4. f[i] = Settle(r, a, o[i]) BY <1>2
    <3> HIDE DEF a, H
    <3> QED BY <3>1, <3>2, <3>3, <3>4
  <2> HIDE DEF a, H
  <2>2. Reached(r, own, G, f[i]) BY <2>1, SettleKeepsReached
  <2>3. ASSUME NEW j \in 1..i, o[j] = t PROVE Reached(r, own, H, f[i])
    <3>1. CASE j = i
      <4>1. f[i][t] = Verdict(r, own, t) BY <2>1, <2>3, <3>1, SettleReaches
      <4> QED BY <2>2, <4>1 DEF Reached, H
    <3>2. CASE j # i
      <4>1. j \in 1..(i - 1) BY <3>2, <1>3
      <4>2. Reached(r, own, H, a) BY <2>1, <2>3, <4>1
      <4> QED BY <2>1, <4>2, SettleKeepsReached
    <3> QED BY <3>1, <3>2
  <2> QED BY <2>1, <2>2, <2>3
<1>6. n \in T
  <2> HIDE DEF T
  <2>1. \A i \in 0..n : i \in T BY <1>3, <1>4, <1>5, CountingTo
  <2> QED BY <1>3, <2>1
<1>7. PICK i \in 1..n : t = o[i] BY <1>3
<1> QED BY <1>2, <1>6, <1>7

(* After as many passes as there are tasks every task has come to its verdict:
   as long as one has not, there is one whose dependencies all have, because they
   form no cycle. *)
LEMMA SettledVerdict ==
  ASSUME NEW r \in DOMAIN Revisions, ValidatePlanRevision(r), NEW own \in OwnStates(r)
  PROVE  /\ Settled(r, own) \in StatesOf(r)
         /\ \A t \in TaskIds(r) : Settled(r, own)[t] = Verdict(r, own, t)
<1> DEFINE n == Len(Revisions[r].order)
           V == TaskIds(r)
           edges == [t \in V |-> Task(r, t).deps]
<1>1. \A u \in V : Task(r, u).deps \subseteq V
  BY DEF ValidatePlanRevision, TaskIsValid
<1>2. Acyclic(edges) /\ DOMAIN edges = V BY DEF ValidatePlanRevision
<1>3. own \in StatesOf(r) BY DEF OwnStates, StatesOf, Readiness
<1>4. PICK f \in [0..n -> StatesOf(r)] :
        /\ f[0] = own /\ Settled(r, own) = f[n]
        /\ \A i \in 1..n : f[i] = Pass(r, f[i - 1])
  BY <1>3, SettledTable
<1>5. n \in Nat /\ IsFiniteSet(V) /\ Cardinality(V) \in Nat /\ Cardinality(V) <= n
  BY OrderType, TasksFinite
<1> HIDE DEF n, V
<1> DEFINE T == {i \in 0..n : \E G \in SUBSET V :
                   /\ Reached(r, own, G, f[i])
                   /\ G = V \/ Cardinality(G) >= i}
<1>6. 0 \in T
  <2>1. Reached(r, own, {}, f[0]) BY <1>3, <1>4 DEF Reached, SameFixed
  <2>2. Cardinality({}) = 0 BY FS_EmptySet
  <2>3. 0 \in 0..n /\ {} \in SUBSET V /\ 0 >= 0 BY <1>5
  <2> QED BY <2>1, <2>2, <2>3
<1>7. \A i \in 1..n : i - 1 \in T => i \in T
  <2> TAKE i \in 1..n
  <2> HAVE i - 1 \in T
  <2>1. PICK G \in SUBSET V : /\ Reached(r, own, G, f[i - 1])
                              /\ G = V \/ Cardinality(G) >= i - 1
    OBVIOUS
  <2>2. f[i] = Pass(r, f[i - 1]) /\ i \in 0..n /\ i \in Nat BY <1>4, <1>5
  <2>3. CASE G = V
    <3>1. CASE V = {}
      <4>1. i - 1 \in 0..n BY <1>5
      <4>2. f[i] \in StatesOf(r) BY <1>4, <2>2
      <4>3. SameFixed(own, f[i]) BY <3>1 DEF SameFixed, OwnStates, V
      <4>4. Reached(r, own, G, f[i]) BY <2>3, <3>1, <4>2, <4>3 DEF Reached
      <4> QED BY <2>2, <2>3, <4>4
    <3>2. CASE V # {}
      <4>1. PICK t \in V : TRUE BY <3>2
      <4>2. Task(r, t).deps \subseteq G /\ G \cup {t} = G BY <1>1, <2>3, <4>1
      <4>3. Reached(r, own, G \cup {t}, f[i])
        BY <1>1, <2>1, <2>2, <4>1, <4>2, PassReaches DEF V
      <4> QED BY <2>2, <2>3, <4>2, <4>3
    <3> QED BY <3>1, <3>2
  <2>4. CASE G # V
    <3> DEFINE C == V \ G
    <3>1. C \in (SUBSET DOMAIN edges) \ {{}} BY <1>2, <2>1, <2>4
    <3>2. PICK t \in C : edges[t] \cap C = {}
      <4> HIDE DEF C, edges
      <4> QED BY <1>2, <3>1 DEF Acyclic
    <3>3. t \in V /\ t \notin G /\ Task(r, t).deps \subseteq G BY <1>1, <3>2
    <3>4. Reached(r, own, G \cup {t}, f[i])
      BY <1>1, <2>1, <2>2, <3>3, PassReaches DEF V
    <3>5. IsFiniteSet(G) /\ Cardinality(G) \in Nat
      BY <1>5, <2>1, FS_Subset, FS_CardinalityType
    <3>6. Cardinality(G \cup {t}) = Cardinality(G) + 1 BY <3>3, <3>5, FS_AddElement
    <3>7. Cardinality(G \cup {t}) >= i BY <2>1, <2>2, <2>4, <3>5, <3>6
    <3>8. G \cup {t} \in SUBSET V BY <3>3
    <3> QED BY <2>2, <3>4, <3>7, <3>8
  <2> QED BY <2>3, <2>4
<1>8. n \in T
  <2> HIDE DEF T
  <2>1. \A i \in 0..n : i \in T BY <1>5, <1>6, <1>7, CountingTo
  <2> QED BY <1>5, <2>1
<1>9. PICK G \in SUBSET V : Reached(r, own, G, f[n]) /\ (G = V \/ Cardinality(G) >= n)
  BY <1>8
<1>10. G = V
  <2>1. Cardinality(G) \in Nat /\ Cardinality(G) <= Cardinality(V)
        /\ (Cardinality(V) = Cardinality(G) => V = G)
    BY <1>5, <1>9, FS_Subset, FS_CardinalityType
  <2> QED BY <1>5, <1>9, <2>1
<1> QED BY <1>4, <1>9, <1>10 DEF Reached, V
-----------------------------------------------------------------------------
(* The choice among the ready tasks. *)

\* what is true of the tasks chosen so far
ChoiceOK(r, states, running, c) ==
  /\ c \in Seq(TaskIds(r))
  /\ \A t \in ToSet(c) :
       /\ t \in TaskIds(r) /\ states[t] = "ready" /\ Cardinality(running) < MaxConcurrency
       /\ \A u \in running : ~TaskResourceConflict(Task(r, t), Task(r, u))

(* Considering one task keeps that, and with nothing running or chosen a ready
   task is chosen. *)
LEMMA SelectKeeps ==
  ASSUME NEW r, NEW states, NEW running, Cardinality(running) \in Nat,
         NEW c, ChoiceOK(r, states, running, c), NEW t \in TaskIds(r)
  PROVE  LET d == Select(r, states, running, c, t)
         IN /\ ChoiceOK(r, states, running, d)
            /\ c # <<>> => d # <<>>
            /\ running = {} /\ states[t] = "ready" => d # <<>>
<1> DEFINE d == Select(r, states, running, c, t)
           May == /\ states[t] = "ready"
                  /\ \A u \in running \cup ToSet(c) :
                       ~TaskResourceConflict(Task(r, t), Task(r, u))
                  /\ Len(c) + Cardinality(running) < MaxConcurrency
<1>1. d = IF May THEN Append(c, t) ELSE c BY DEF Select
<1>2. c \in Seq(TaskIds(r)) /\ Len(c) \in Nat /\ MaxConcurrency \in Nat
      /\ MaxConcurrency >= 1
  BY PlanAssumption DEF ChoiceOK
<1>3. CASE May
  <2>1. d = Append(c, t) BY <1>1, <1>3
  <2>2. d \in Seq(TaskIds(r)) /\ d # <<>> BY <1>2, <2>1
  <2>3. ToSet(d) = ToSet(c) \cup {t}
    <3>1. DOMAIN d = 1..(Len(c) + 1) /\ DOMAIN c = 1..Len(c) /\ d[Len(c) + 1] = t
          /\ \A i \in 1..Len(c) : d[i] = c[i]
      BY <1>2, <2>1
    <3>2. \A i \in 1..(Len(c) + 1) : i \in 1..Len(c) \/ i = Len(c) + 1 BY <1>2
    <3>3. 1..Len(c) \subseteq 1..(Len(c) + 1) /\ Len(c) + 1 \in 1..(Len(c) + 1)
      BY <1>2
    <3> HIDE DEF d
    <3> QED BY <3>1, <3>2, <3>3 DEF ToSet
  <2>4. Cardinality(running) < MaxConcurrency BY <1>2, <1>3
  <2> HIDE DEF d
  <2>5. ChoiceOK(r, states, running, d) BY <1>3, <2>2, <2>3, <2>4 DEF ChoiceOK
  <2> QED BY <2>2, <2>5 DEF d
<1>4. CASE ~May
  <2>1. d = c BY <1>1, <1>4
  <2>2. running = {} /\ states[t] = "ready" => c # <<>>
    <3> SUFFICES ASSUME running = {}, states[t] = "ready", c = <<>> PROVE FALSE
      OBVIOUS
    <3>1. ToSet(c) = {} /\ Len(c) = 0 BY DEF ToSet
    <3>2. Cardinality(running) = 0 BY FS_EmptySet
    <3> QED BY <1>2, <1>4, <3>1, <3>2
  <2> HIDE DEF May
  <2> QED BY <2>1, <2>2
<1> QED BY <1>3, <1>4

\* the tasks that run in given states
RunningIn(r, states) == {t \in TaskIds(r) : states[t] = "running"}

(* The tasks chosen are ready and independent of those that run, there is room
   for them, and if nothing runs some are chosen unless none is ready. *)
LEMMA ChosenTasks ==
  ASSUME NEW r \in DOMAIN Revisions, NEW states
  PROVE  /\ ChoiceOK(r, states, RunningIn(r, states), Chosen(r, states))
         /\ RunningIn(r, states) = {} /\ Chosen(r, states) = <<>> =>
              \A t \in TaskIds(r) : states[t] # "ready"
<1> DEFINE o == Revisions[r].order
           n == Len(o)
           W == {t \in TaskIds(r) : states[t] = "running"}
           S == {c \in Seq(TaskIds(r)) : ChoiceOK(r, states, W, c)}
           Table(f) == f = [i \in 0..n |-> IF i = 0 THEN <<>>
                              ELSE Select(r, states, W, f[i - 1], o[i])]
           after[i \in 0..n] ==
             IF i = 0 THEN <<>> ELSE Select(r, states, W, after[i - 1], o[i])
           F == [x \in (1..n) \X S |-> Select(r, states, W, x[2], o[x[1]])]
<1>1. Chosen(r, states) = after[n] BY DEF Chosen
<1>2. after = CHOOSE f : Table(f) OBVIOUS
<1>3. /\ n \in Nat /\ (\A i \in 1..n : o[i] \in TaskIds(r))
      /\ \A t \in TaskIds(r) : \E i \in 1..n : t = o[i]
  BY OrderType
<1>4. Cardinality(W) \in Nat
  BY TasksFinite, FS_Subset, FS_CardinalityType
<1>5. W = RunningIn(r, states) BY DEF RunningIn
<1> HIDE DEF n, o, W
<1>6. \A i \in 1..n : \A c \in S :
        /\ Select(r, states, W, c, o[i]) \in S
        /\ c # <<>> => Select(r, states, W, c, o[i]) # <<>>
        /\ W = {} /\ states[o[i]] = "ready" => Select(r, states, W, c, o[i]) # <<>>
  <2> TAKE i \in 1..n
  <2> TAKE c \in S
  <2> DEFINE d == Select(r, states, W, c, o[i])
  <2>1. ChoiceOK(r, states, W, c) /\ o[i] \in TaskIds(r) BY <1>3
  <2>2. /\ ChoiceOK(r, states, W, d)
        /\ c # <<>> => d # <<>>
        /\ W = {} /\ states[o[i]] = "ready" => d # <<>>
    BY <1>4, <2>1, SelectKeeps
  <2> HIDE DEF d
  <2>3. d \in Seq(TaskIds(r)) BY <2>2 DEF ChoiceOK
  <2>4. d \in S BY <2>2, <2>3
  <2> QED BY <2>2, <2>4 DEF d
<1>7. <<>> \in S BY DEF ChoiceOK, ToSet
<1> HIDE DEF S
<1>8. F \in [(1..n) \X S -> S] BY <1>6
<1>9. \A i \in 1..n : \A c \in S : F[<<i, c>>] = Select(r, states, W, c, o[i]) OBVIOUS
<1> HIDE DEF F, after
<1>10. PICK g \in [0..n -> S] :
         g[0] = <<>> /\ \A i \in 1..n : g[i] = F[<<i, g[i - 1]>>]
  <2>1. n \in Nat BY <1>3
  <2>2. PICK g : Unrolls(g, S, <<>>, n, F) BY <1>7, <1>8, <2>1, Recursion
  <2> QED BY <2>2 DEF Unrolls
<1>11. Table(g)
  <2>1. ASSUME NEW i \in 0..n
        PROVE  g[i] = IF i = 0 THEN <<>> ELSE Select(r, states, W, g[i - 1], o[i])
    <3>1. CASE i = 0 BY <1>10, <3>1
    <3>2. CASE i # 0
      <4>1. i \in 1..n /\ i - 1 \in 0..n /\ g[i - 1] \in S BY <1>3, <1>10, <3>2
      <4> QED BY <1>9, <1>10, <3>2, <4>1
    <3> QED BY <3>1, <3>2
  <2> QED BY <1>10, <2>1
<1>12. Table(after)
  <2> HIDE DEF Table
  <2> QED BY <1>2, <1>11
<1>13. after[0] = <<>> BY <1>3, <1>12
<1>14. \A i \in 1..n : after[i] = Select(r, states, W, after[i - 1], o[i])
  <2> TAKE i \in 1..n
  <2>1. i \in 0..n /\ i # 0 BY <1>3
  <2> QED BY <1>12, <2>1
<1> DEFINE Ready(i) == \E j \in 1..i : states[o[j]] = "ready"
           T == {i \in 0..n : after[i] \in S /\ (W = {} /\ Ready(i) => after[i] # <<>>)}
<1>15. 0 \in T
  <2>1. 0 \in 0..n /\ 1..0 = {} BY <1>3
  <2> QED BY <1>7, <1>13, <2>1
<1>16. \A i \in 1..n : i - 1 \in T => i \in T
  <2> TAKE i \in 1..n
  <2> HAVE i - 1 \in T
  <2> DEFINE a == after[i - 1]
  <2>1. a \in S /\ (W = {} /\ Ready(i - 1) => a # <<>>) OBVIOUS
  <2>2. after[i] = Select(r, states, W, a, o[i]) BY <1>14
  <2>3. Ready(i) => Ready(i - 1) \/ states[o[i]] = "ready"
    <3>1. \A j \in 1..i : j \in 1..(i - 1) \/ j = i BY <1>3
    <3> QED BY <3>1
  <2> HIDE DEF a, Ready
  <2>4. /\ after[i] \in S
        /\ a # <<>> => after[i] # <<>>
        /\ W = {} /\ states[o[i]] = "ready" => after[i] # <<>>
    BY <1>6, <2>1, <2>2
  <2>5. i \in 0..n BY <1>3
  <2>6. W = {} /\ Ready(i) => after[i] # <<>> BY <2>1, <2>3, <2>4
  <2> QED BY <2>4, <2>5, <2>6
<1>17. n \in T
  <2> HIDE DEF T
  <2>1. \A i \in 0..n : i \in T BY <1>3, <1>15, <1>16, CountingTo
  <2> QED BY <1>3, <2>1
<1>18. ChoiceOK(r, states, W, after[n]) BY <1>17 DEF S
<1>19. W = {} /\ after[n] = <<>> => \A t \in TaskIds(r) : states[t] # "ready"
  BY <1>3, <1>17
<1> QED BY <1>1, <1>5, <1>18, <1>19
-----------------------------------------------------------------------------
(* Every revision was validated, and an approved one has all its tasks. *)

Grounded(p) ==
  \A i \in DOMAIN p :
    /\ ValidatePlanRevision(p[i].id)
    /\ p[i].decision = "approved" => DOMAIN p[i].exec = TaskIds(p[i].id)

GroundedInv == Grounded(plan)

\* the same revisions with the same decisions and tasks
SameShape(p, q) ==
  /\ DOMAIN q = DOMAIN p
  /\ \A i \in DOMAIN p : /\ q[i].id = p[i].id /\ q[i].decision = p[i].decision
                         /\ DOMAIN q[i].exec = DOMAIN p[i].exec

(* Attempts and invalidations leave the shape of a plan. *)
LEMMA ShapeKeeps ==
  ASSUME NEW p, NEW q, Grounded(p), SameShape(p, q)
  PROVE  Grounded(q)
BY DEF Grounded, SameShape

(* An edit of the attempts of one task leaves the shape of the plan. *)
LEMMA EditedShape ==
  ASSUME NEW p \in Seq(Entry), p # <<>>, NEW q, NEW t, NEW a, Edited(p, q, t, a)
  PROVE  SameShape(p, q)
<1>1. Len(p) \in DOMAIN p BY CurrentType
<1> QED BY <1>1 DEF Edited, Kept, SameShape

(* A proposed revision has been validated and is not approved. *)
LEMMA ProposeGrounded ==
  ASSUME NEW p \in Seq(Entry), Grounded(p), NEW r \in Proposable(p)
  PROVE  Grounded(Propose(p, r))
<1> DEFINE q == Propose(p, r)
<1>1. r \in DOMAIN Revisions /\ ValidatePlanRevision(r) BY DEF Proposable, CanPropose
<1>2. /\ DOMAIN q = 1..(Len(p) + 1) /\ DOMAIN p = 1..Len(p)
      /\ \A i \in DOMAIN p : q[i] = p[i]
      /\ q[Len(p) + 1].id = r /\ q[Len(p) + 1].decision = Nil
  BY <1>1, ProposeEffect
<1>3. Nil # "approved" BY PlanAssumption DEF Decisions
<1>4. \A i \in DOMAIN q : i \in DOMAIN p \/ i = Len(p) + 1
  <2>1. Len(p) \in Nat OBVIOUS
  <2> HIDE DEF q
  <2> QED BY <1>2, <2>1
<1> HIDE DEF q
<1> QED BY <1>1, <1>2, <1>3, <1>4 DEF Grounded, q

(* An approval materializes the tasks in the same step. *)
LEMMA DecideGrounded ==
  ASSUME PlanInv, GroundedInv, NEW d \in Decisions, DecidePlan(d), ~Refused
  PROVE  GroundedInv'
<1> DEFINE decided == [plan EXCEPT ![Len(plan)].decision = d]
           n == Len(plan)
<1>1. plan # <<>> /\ State(plan) = "proposed" /\ plan \in Seq(Entry) /\ IsPlanning
  BY DEF DecidePlan, State, PlanInv, TypeInv
<1>2. plan' = IF d = "approved" THEN Materialize(decided, active) ELSE decided
  BY DEF DecidePlan
<1>3. /\ Kept(plan, decided) /\ decided[n].exec = plan[n].exec
      /\ decided[n].decision = d
  BY <1>1, DecisionEffect
<1> HIDE DEF decided
<1>4. n \in DOMAIN plan BY <1>1, CurrentType
<1>5. CASE d # "approved"
  <2>1. plan' = decided BY <1>2, <1>5
  <2> HIDE DEF n
  <2> QED BY <1>3, <1>4, <1>5, <2>1 DEF GroundedInv, Grounded, Kept, n
<1>6. CASE d = "approved"
  <2>1. decided \in Seq(Entry) /\ decided # <<>> /\ Len(decided) = n
    BY <1>3 DEF Kept
  <2>2. active \in Nat BY <1>1, RunNumbers
  <2>3. plan' = Materialize(decided, active) BY <1>2, <1>6
  <2>4. /\ Kept(decided, plan')
        /\ plan'[n].exec = [t \in TaskIds(decided[n].id) |-> <<>>]
    BY <2>1, <2>2, <2>3, MaterializeEffect
  <2>5. /\ DOMAIN plan' = DOMAIN plan /\ plan'[n].id = plan[n].id
        /\ DOMAIN plan'[n].exec = TaskIds(plan'[n].id)
        /\ \A i \in DOMAIN plan : i # n => plan'[i] = plan[i]
    BY <1>3, <1>4, <2>1, <2>4 DEF Kept
  <2> HIDE DEF n
  <2> QED BY <1>4, <2>5 DEF GroundedInv, Grounded
<1> QED BY <1>5, <1>6

(* Dispatching a task leaves the shape of the plan. *)
LEMMA DispatchGrounded ==
  ASSUME PlanInv, GroundedInv, NEW t, DispatchChild(t)
  PROVE  GroundedInv'
<1> DEFINE p == CreateChild(plan, t, NextRun)
<1>1. plan \in Seq(Entry) /\ plan # <<>> /\ t \in DOMAIN plan[Len(plan)].exec
  BY DispatchReady
<1>2. NextRun \in Nat BY DEF NextRun, PlanInv, TypeInv
<1>3. PICK b : Edited(plan, p, t, b) /\ b # <<>>
  <2> DEFINE b == Append(plan[Len(plan)].exec[t], [child |-> NextRun, result |-> Nil])
  <2>1. Edited(plan, p, t, b) /\ b \in Seq(Attempt)
        /\ plan[Len(plan)].exec[t] \in Seq(Attempt)
        /\ Len(b) = Len(plan[Len(plan)].exec[t]) + 1
    BY <1>1, <1>2, CreateChildEffect
  <2> HIDE DEF b, p
  <2>2. b # <<>> BY <2>1
  <2> QED BY <2>1, <2>2
<1> HIDE DEF p
<1>4. SameShape(plan, p) BY <1>1, <1>3, EditedShape
<1>5. /\ p \in Seq(Entry) /\ p # <<>> /\ Len(p) = Len(plan)
      /\ t \in DOMAIN p[Len(p)].exec /\ p[Len(p)].exec[t] # <<>>
  BY <1>1, <1>3 DEF Edited, Kept
<1>6. "unavailable" \in TaskOutcomes BY DEF TaskOutcomes
<1>7. SameShape(p, RecordResult(p, t, "unavailable"))
  <2> DEFINE q == RecordResult(p, t, "unavailable")
  <2>1. PICK a : Edited(p, q, t, a) BY <1>5, <1>6, RecordResultEffect
  <2> QED BY <1>5, <2>1, EditedShape
<1>8. plan' \in {plan, p, RecordResult(p, t, "unavailable")}
  BY DEF DispatchChild, Refused, durable, Launched, LaunchFailed, p
<1>9. Grounded(p) BY <1>4, ShapeKeeps DEF GroundedInv
<1>10. Grounded(RecordResult(p, t, "unavailable")) BY <1>7, <1>9, ShapeKeeps
<1> QED BY <1>8, <1>9, <1>10 DEF GroundedInv

(* Recording a result leaves the shape of the plan. *)
LEMMA ProcessGrounded ==
  ASSUME PlanInv, GroundedInv, ProcessUpdate
  PROVE  GroundedInv'
<1> DEFINE u == Head(batch)
<1>1. CASE plan' = plan BY <1>1 DEF GroundedInv
<1>2. CASE plan' # plan
  <2> DEFINE o == IF children[u.child] THEN "cancelled" ELSE OutcomeOf(u.report)
             t == DispatchOf(u.child).task
  <2>1. ~Ignored(u) /\ EndChild(u.child, o)
    BY <1>2 DEF ProcessUpdate, Refused, durable
  <2>2. batch # <<>> /\ batch \in Seq(Update) BY DEF ProcessUpdate, PlanInv, TypeInv
  <2>3. o \in TaskOutcomes
    <3>1. u \in Update BY <2>2
    <3>2. u.report \in ReportKinds \cup {"deadline"}
      BY <3>1 DEF Update, ProcessUpdate
    <3>3. OutcomeOf(u.report) \in TaskOutcomes BY <3>2, OutcomeType
    <3> QED BY <3>3 DEF TaskOutcomes
  <2>4. /\ plan \in Seq(Entry) /\ plan # <<>>
        /\ t \in DOMAIN plan[Len(plan)].exec /\ plan[Len(plan)].exec[t] # <<>>
    BY <2>1 DEF Ignored, CanRecordResult, Current, PlanInv, TypeInv
  <2>5. plan' = RecordResult(plan, t, o) BY <2>1 DEF EndChild
  <2> HIDE DEF o, t
  <2>6. PICK a : Edited(plan, plan', t, a) BY <2>3, <2>4, <2>5, RecordResultEffect
  <2>7. SameShape(plan, plan') BY <2>4, <2>6, EditedShape
  <2> QED BY <2>7, ShapeKeeps DEF GroundedInv
<1> QED BY <1>1, <1>2

(* Every step keeps the plans grounded. *)
LEMMA GroundedStep ==
  ASSUME PlanInv, GroundedInv, [Next]_vars
  PROVE  GroundedInv'
<1>0. plan \in Seq(Entry) BY DEF PlanInv, TypeInv
<1>1. CASE plan' = plan BY <1>1 DEF GroundedInv
<1>2. CASE plan' # plan
  <2>1. Next BY <1>2 DEF vars
  <2>2. ASSUME NEW r \in DOMAIN Revisions, StartPlan(r) \/ RevisePlan(r)
        PROVE  GroundedInv'
    <3>1. r \in Proposable(plan) /\ plan' = Propose(plan, r)
      BY <1>2, <2>2 DEF StartPlan, RevisePlan, Refused, durable
    <3> QED BY <1>0, <3>1, ProposeGrounded DEF GroundedInv
  <2>3. CASE DecideOnMovedBasis \/ RevalidatePlanApproval
    <3>1. plan # <<>> /\ plan' = Invalidate
      BY <1>2, <2>3 DEF DecideOnMovedBasis, RevalidatePlanApproval, Refused, durable,
                        IsMaterialized, State
    <3>2. /\ Kept(plan, Invalidate)
          /\ Invalidate[Len(plan)].exec = plan[Len(plan)].exec
          /\ Invalidate[Len(plan)].decision = plan[Len(plan)].decision
      BY <1>0, <3>1, InvalidateEffect
    <3>3. SameShape(plan, plan') BY <3>1, <3>2 DEF Kept, SameShape
    <3> QED BY <3>3, ShapeKeeps DEF GroundedInv
  <2>4. ASSUME NEW d \in Decisions, DecidePlan(d) PROVE GroundedInv'
    <3>1. ~Refused BY <1>2 DEF Refused, durable
    <3> QED BY <2>4, <3>1, DecideGrounded
  <2>5. ASSUME NEW t, DispatchChild(t) PROVE GroundedInv'
    BY <2>5, DispatchGrounded
  <2>6. CASE ProcessUpdate BY <2>6, ProcessGrounded
  <2>7. ~(Converse \/ ProcessConversation)
    BY <1>2 DEF Converse, ProcessConversation, Refused, durable
  <2>9. ~(\E c \in DOMAIN children : CancelChild(c))
    BY <1>2 DEF CancelChild, Refused, durable
  <2>10. ~(\E c \in DOMAIN ops :
            WorkerReports(c) \/ DeadlineWakes(c) \/ DeadlinePushes(c))
    BY <1>2 DEF WorkerReports, DeadlineWakes, DeadlinePushes, durable
  <2>11. ~(StreamPushes \/ Drain \/ FinishChildOperation \/ Restart)
    BY <1>2 DEF StreamPushes, Drain, FinishChildOperation, Restart, durable
  <2> QED
    BY <2>1, <2>2, <2>3, <2>4, <2>5, <2>6, <2>7, <2>9, <2>10, <2>11 DEF Next
<1> QED BY <1>1, <1>2

(* Grounded plans, in every reachable state. *)
LEMMA GroundedInvariant == Spec => [](PlanInv /\ GroundedInv)
<1>1. Init => GroundedInv BY DEF Init, GroundedInv, Grounded
<1>2. PlanInv /\ GroundedInv /\ [Next]_vars => GroundedInv' BY GroundedStep
<1> QED BY <1>1, <1>2, PlanInvariant, PTL DEF Spec
-----------------------------------------------------------------------------
(* The schedule of the current revision. *)

(* What the attempts of a task alone say. *)
LEMMA OwnStateIs ==
  ASSUME NEW a
  PROVE  /\ OwnState(a) \in Fixed \cup {"ready"}
         /\ OwnState(a) = "ready" => a = <<>> \/ Retryable(a)
         /\ OwnState(a) = "completed" => IsCompleted(a)
         /\ a # <<>> /\ Last(a).result = Nil => OwnState(a) = "running"
<1>1. Nil # "retry" BY PlanAssumption DEF TaskOutcomes
<1> QED BY <1>1 DEF OwnState, Fixed, IsCompleted, Retryable

(* The current revision of a materialized plan is valid and has all its tasks, so
   the schedule is what its verdicts say. *)
LEMMA ScheduleOf ==
  ASSUME PlanInv, GroundedInv, IsMaterialized(plan)
  PROVE  LET p == Current(plan)
             own == Own(p)
             schedule == AnalyzeTaskSchedule(p) IN
         /\ plan # <<>> /\ Len(plan) \in DOMAIN plan /\ p = plan[Len(plan)]
         /\ p.id \in DOMAIN Revisions /\ ValidatePlanRevision(p.id)
         /\ \A t \in TaskIds(p.id) : Task(p.id, t).deps \subseteq TaskIds(p.id)
         /\ DOMAIN p.exec = TaskIds(p.id)
         /\ \A t \in TaskIds(p.id) : p.exec[t] \in Seq(Attempt)
         /\ own \in OwnStates(p.id)
         /\ \A t \in TaskIds(p.id) : own[t] = OwnState(p.exec[t])
         /\ \A t \in TaskIds(p.id) : schedule.states[t] = Verdict(p.id, own, t)
         /\ ChoiceOK(p.id, schedule.states, RunningIn(p.id, schedule.states),
                     schedule.dispatchable)
         /\ RunningIn(p.id, schedule.states) = {} /\ schedule.dispatchable = <<>> =>
              \A t \in TaskIds(p.id) : schedule.states[t] # "ready"
<1> DEFINE p == Current(plan)
           own == Own(p)
           schedule == AnalyzeTaskSchedule(p)
           states == Settled(p.id, own)
<1>1. plan \in Seq(Entry) /\ State(plan) = "approved" /\ plan # <<>>
  BY DEF PlanInv, TypeInv, IsMaterialized, State
<1>2. Len(plan) \in DOMAIN plan /\ p \in Entry /\ p = plan[Len(plan)]
  BY <1>1, CurrentType
<1>3. p.decision = "approved" BY <1>1 DEF State
<1> HIDE DEF p
<1>4. /\ p.id \in DOMAIN Revisions /\ ValidatePlanRevision(p.id)
      /\ DOMAIN p.exec = TaskIds(p.id) /\ p.exec \in Executions
  BY <1>2, <1>3 DEF GroundedInv, Grounded, Entry
<1>5. \A t \in TaskIds(p.id) : Task(p.id, t).deps \subseteq TaskIds(p.id)
  BY <1>4 DEF ValidatePlanRevision, TaskIsValid
<1>6. \A t \in TaskIds(p.id) : p.exec[t] \in Seq(Attempt) BY <1>4, ExecutionsType
<1>7. /\ own \in OwnStates(p.id)
      /\ \A t \in TaskIds(p.id) : own[t] = OwnState(p.exec[t])
  BY <1>4, OwnStateIs DEF Own, OwnStates
<1> HIDE DEF own
<1>8. \A t \in TaskIds(p.id) : states[t] = Verdict(p.id, own, t)
  BY <1>4, <1>7, SettledVerdict
<1>9. schedule.states = states /\ schedule.dispatchable = Chosen(p.id, states)
  BY DEF AnalyzeTaskSchedule, own
<1> HIDE DEF states, schedule
<1>10. /\ ChoiceOK(p.id, states, RunningIn(p.id, states), Chosen(p.id, states))
       /\ RunningIn(p.id, states) = {} /\ Chosen(p.id, states) = <<>> =>
            \A t \in TaskIds(p.id) : states[t] # "ready"
  BY <1>4, ChosenTasks
<1>11. /\ \A t \in TaskIds(p.id) : schedule.states[t] = Verdict(p.id, own, t)
       /\ ChoiceOK(p.id, schedule.states, RunningIn(p.id, schedule.states),
                   schedule.dispatchable)
       /\ RunningIn(p.id, schedule.states) = {} /\ schedule.dispatchable = <<>> =>
            \A t \in TaskIds(p.id) : schedule.states[t] # "ready"
  BY <1>8, <1>9, <1>10
<1> QED BY <1>1, <1>2, <1>4, <1>5, <1>6, <1>7, <1>11 DEF p, own, schedule

(* The children of the current revision are of running tasks, one each. *)
LEMMA ChildrenRun ==
  ASSUME PlanInv, GroundedInv, ServesCurrentRevision
  PROVE  LET r == Current(plan).id
             W == RunningIn(r, AnalyzeTaskSchedule(Current(plan)).states) IN
         /\ \A c \in DOMAIN children : DispatchOf(c).task \in W
         /\ IsFiniteSet(W) /\ Cardinality(W) \in Nat
         /\ Cardinality(DOMAIN children) \in Nat
         /\ Cardinality(DOMAIN children) <= Cardinality(W)
<1> DEFINE p == Current(plan)
           r == p.id
           n == Len(plan)
           states == AnalyzeTaskSchedule(p).states
           W == RunningIn(r, states)
           Of(c) == DispatchOf(c).task
<1>1. IsMaterialized(plan) /\ \A c \in DOMAIN children : DispatchOf(c).rev = r
  BY DEF ServesCurrentRevision
<1>2. /\ p = plan[n] /\ n \in DOMAIN plan /\ r \in DOMAIN Revisions
      /\ \A t \in TaskIds(r) : Task(r, t).deps \subseteq TaskIds(r)
      /\ DOMAIN p.exec = TaskIds(r) /\ Own(p) \in OwnStates(r)
      /\ \A t \in TaskIds(r) : Own(p)[t] = OwnState(p.exec[t])
      /\ \A t \in TaskIds(r) : states[t] = Verdict(r, Own(p), t)
  BY <1>1, ScheduleOf
<1>3. plan \in Seq(Entry) /\ EntriesInv(plan) /\ ChildrenOnce(plan)
  BY DEF PlanInv, TypeInv, AttemptsInv, AttemptsOK
<1> HIDE DEF states
<1>4. ASSUME NEW c \in DOMAIN children
      PROVE  /\ Of(c) \in W
             /\ c = p.exec[Of(c)][Len(p.exec[Of(c)])].child
  <2>1. PICK i, t : OpenAt(plan, i, t, c) BY DEF PlanInv, ChildrenInv
  <2>2. At(plan, i, t, Len(plan[i].exec[t]), c) /\ Last(plan[i].exec[t]).result = Nil
    BY <2>1 DEF OpenAt
  <2>3. TaskOf(plan, c).rev = plan[i].id /\ TaskOf(plan, c).task = t
    BY <1>3, <2>2, TaskOfAttempt
  <2>4. DispatchOf(c) = TaskOf(plan, c) BY DEF DispatchOf, TaskOf
  <2>5. i \in DOMAIN plan /\ plan[i].id = plan[n].id
    BY <1>1, <1>2, <2>2, <2>3, <2>4 DEF At
  <2>6. i = n BY <1>2, <1>3, <2>5 DEF EntriesInv
  <2>7. /\ t \in TaskIds(r) /\ p.exec[t][Len(p.exec[t])].child = c
        /\ Last(p.exec[t]).result = Nil /\ p.exec[t] # <<>>
    BY <1>2, <2>2, <2>6 DEF At
  <2>8. Own(p)[t] = "running" BY <1>2, <2>7, OwnStateIs
  <2>9. states[t] = "running" BY <1>2, <2>7, <2>8, VerdictOf
  <2>10. t \in W BY <2>7, <2>9 DEF RunningIn
  <2> QED BY <2>3, <2>4, <2>7, <2>10
<1>5. IsFiniteSet(W) /\ Cardinality(W) \in Nat
  <2>1. W \in SUBSET TaskIds(r) BY DEF RunningIn
  <2>2. IsFiniteSet(TaskIds(r)) BY <1>2, TasksFinite
  <2> HIDE DEF W
  <2> QED BY <2>1, <2>2, FS_Subset, FS_CardinalityType
<1> DEFINE f == [c \in DOMAIN children |-> Of(c)]
<1>6. f \in Injection(DOMAIN children, W)
  <2> HIDE DEF W, Of, p
  <2>1. f \in [DOMAIN children -> W] BY <1>4
  <2>2. \A a, b \in DOMAIN children : f[a] = f[b] => a = b BY <1>4
  <2> QED BY <2>1, <2>2 DEF Injection, IsInjective
<1>7. IsFiniteSet(DOMAIN children) /\ Cardinality(DOMAIN children) <= Cardinality(W)
  <2> HIDE DEF f, W
  <2> QED BY <1>5, <1>6, FS_Injection
<1>8. Cardinality(DOMAIN children) \in Nat BY <1>7, FS_CardinalityType
<1> QED BY <1>4, <1>5, <1>7, <1>8 DEF states

(* Every task the schedule offers is one the kernel would dispatch, if the runner
   can take as many children as the schedule counts on.  The surface asks for the
   schedule with the default policy, whose concurrency of one every runner has. *)
THEOREM OffersAreAccepted ==
  ASSUME MaxConcurrency <= RunnerCapacity
  PROVE  Spec => []ScheduleIsAdmissible
<1>1. PlanInv /\ GroundedInv => ScheduleIsAdmissible
  <2> SUFFICES ASSUME PlanInv, GroundedInv, ServesCurrentRevision,
                      NEW t \in ToSet(AnalyzeTaskSchedule(Current(plan)).dispatchable)
               PROVE  t \in Dispatchable
    BY DEF ScheduleIsAdmissible
  <2> DEFINE p == Current(plan)
             r == p.id
             states == AnalyzeTaskSchedule(p).states
             W == RunningIn(r, states)
  <2>1. IsMaterialized(plan) /\ active = Nil BY DEF ServesCurrentRevision
  <2>2. /\ r \in DOMAIN Revisions /\ DOMAIN p.exec = TaskIds(r)
        /\ \A u \in TaskIds(r) : Task(r, u).deps \subseteq TaskIds(r)
        /\ \A u \in TaskIds(r) : p.exec[u] \in Seq(Attempt)
        /\ Own(p) \in OwnStates(r)
        /\ \A u \in TaskIds(r) : Own(p)[u] = OwnState(p.exec[u])
        /\ \A u \in TaskIds(r) : states[u] = Verdict(r, Own(p), u)
        /\ ChoiceOK(r, states, W, AnalyzeTaskSchedule(p).dispatchable)
    BY <2>1, ScheduleOf
  <2>3. /\ \A c \in DOMAIN children : DispatchOf(c).task \in W
        /\ Cardinality(W) \in Nat /\ Cardinality(DOMAIN children) \in Nat
        /\ Cardinality(DOMAIN children) <= Cardinality(W)
    BY ChildrenRun
  <2> HIDE DEF states
  <2>4. /\ t \in TaskIds(r) /\ states[t] = "ready" /\ Cardinality(W) < MaxConcurrency
        /\ \A u \in W : ~TaskResourceConflict(Task(r, t), Task(r, u))
    BY <2>2 DEF ChoiceOK
  <2>5. /\ Own(p)[t] = "ready"
        /\ \A d \in Task(r, t).deps : Own(p)[d] = "completed"
    BY <2>2, <2>4, VerdictOf
  <2>6. p.exec[t] = <<>> \/ Retryable(p.exec[t]) BY <2>2, <2>4, <2>5, OwnStateIs
  <2>7. AwaitsAttempt(p.exec[t]) BY <2>6 DEF Retryable, AwaitsAttempt
  <2>8. Len(p.exec[t]) + 1 <= MaxAttempts
    <3>1. MaxAttempts \in Nat /\ MaxAttempts >= 1 BY PlanAssumption
    <3>2. Len(p.exec[t]) \in Nat BY <2>2, <2>4
    <3>3. CASE p.exec[t] = <<>>
      <4>1. Len(p.exec[t]) = 0 BY <3>3
      <4> QED BY <3>1, <4>1
    <3>4. CASE Retryable(p.exec[t])
      <4>1. Len(p.exec[t]) < MaxAttempts BY <3>4 DEF Retryable
      <4> QED BY <3>1, <3>2, <4>1
    <3> QED BY <2>6, <3>3, <3>4
  <2>9. \A d \in Task(r, t).deps : IsCompleted(p.exec[d])
    BY <2>2, <2>4, <2>5, OwnStateIs
  <2>10. \A c \in DOMAIN children :
           /\ DispatchOf(c).task \in TaskIds(r)
           /\ ~TaskResourceConflict(Task(r, t), Task(r, DispatchOf(c).task))
    <3>1. W \subseteq TaskIds(r) BY DEF RunningIn
    <3> HIDE DEF W
    <3> QED BY <2>3, <2>4, <3>1
  <2>11. Cardinality(DOMAIN children) < DispatchCapacity
    <3>1. MaxConcurrency \in Nat /\ RunnerCapacity \in Nat
      BY PlanAssumption, KernelAssumption
    <3>2. DispatchCapacity = MaxConcurrency BY <3>1 DEF DispatchCapacity
    <3> HIDE DEF W
    <3> QED BY <2>3, <2>4, <3>1, <3>2
  <2>12. CanCreateChild(plan, r, t) BY <2>1, <2>2, <2>4, <2>7 DEF CanCreateChild
  <2>13. CanDispatch(t)
    BY <2>1, <2>8, <2>9, <2>10, <2>11, <2>12 DEF CanDispatch
  <2> QED BY <2>1, <2>4, <2>13 DEF Dispatchable, ActiveTasks
<1> QED BY <1>1, GroundedInvariant, PTL

(* The schedule calls a task blocked exactly when a failed task is among those it
   waits for, and while nothing runs it offers a task unless all are over or
   blocked. *)
THEOREM SchedulesNeverStall == Spec => []ScheduleNeverStalls
<1>1. PlanInv /\ GroundedInv => ScheduleNeverStalls
  <2> SUFFICES ASSUME PlanInv, GroundedInv, IsMaterialized(plan)
               PROVE  ScheduleNeverStalls
    BY DEF ScheduleNeverStalls
  <2> DEFINE p == Current(plan)
             r == p.id
             own == Own(p)
             schedule == AnalyzeTaskSchedule(p)
             states == schedule.states
             In(S) == {t \in TaskIds(r) : states[t] \in S}
  <2>1. /\ r \in DOMAIN Revisions /\ ValidatePlanRevision(r)
        /\ \A u \in TaskIds(r) : Task(r, u).deps \subseteq TaskIds(r)
        /\ own \in OwnStates(r)
        /\ \A u \in TaskIds(r) : states[u] = Verdict(r, own, u)
        /\ RunningIn(r, states) = {} /\ schedule.dispatchable = <<>> =>
             \A u \in TaskIds(r) : states[u] # "ready"
    BY ScheduleOf
  <2>2. Doomed(p) = DoomedBy(r, own) BY DEF Doomed, DoomedBy, DoomClosed
  <2> HIDE DEF schedule, own
  <2>3. \A u \in TaskIds(r) :
          /\ states[u] \in Readiness
          /\ states[u] = "completed" <=> own[u] = "completed"
          /\ states[u] = "failed" <=> own[u] = "failed"
          /\ states[u] = "blocked" <=> u \in DoomedBy(r, own)
    BY <2>1, VerdictOf
  <2>4. In({"blocked"}) = DoomedBy(r, own)
    <3>1. DoomedBy(r, own) \subseteq TaskIds(r) BY DEF DoomedBy
    <3> QED BY <2>3, <3>1
  <2>5. ASSUME In({"running"}) = {}, schedule.dispatchable = <<>>
        PROVE  In({"completed", "failed", "blocked"}) = TaskIds(r)
    <3> DEFINE C == In({"waiting_for_dependencies"})
               edges == [u \in TaskIds(r) |-> Task(r, u).deps]
    <3>1. \A u \in TaskIds(r) : states[u] \notin {"ready", "running"}
      BY <2>1, <2>5 DEF RunningIn
    <3>2. C = {}
      <4> SUFFICES ASSUME C # {} PROVE FALSE OBVIOUS
      <4>1. Acyclic(edges) /\ DOMAIN edges = TaskIds(r)
        BY <2>1 DEF ValidatePlanRevision
      <4>2. C \in (SUBSET DOMAIN edges) \ {{}} BY <4>1
      <4>3. PICK t \in C : edges[t] \cap C = {}
        <5> HIDE DEF C, edges
        <5> QED BY <4>1, <4>2 DEF Acyclic
      <4>4. /\ t \in TaskIds(r) /\ Task(r, t).deps \subseteq TaskIds(r)
            /\ \A d \in Task(r, t).deps : states[d] # "waiting_for_dependencies"
            /\ Verdict(r, own, t) = "waiting_for_dependencies"
        BY <2>1, <4>3
      <4>5. own[t] \in Fixed \cup {"ready"} BY <2>1, <4>4 DEF OwnStates
      <4>6. /\ own[t] = "ready" /\ t \notin DoomedBy(r, own)
            /\ \E d \in Task(r, t).deps : own[d] # "completed"
        BY <4>4, <4>5 DEF Verdict, Fixed
      <4>7. PICK d \in Task(r, t).deps : own[d] # "completed" BY <4>6
      <4>8. states[d] \in {"failed", "blocked"}
        BY <2>3, <3>1, <4>4, <4>7 DEF Readiness, Fixed
      <4>9. own[d] = "failed" \/ d \in DoomedBy(r, own) BY <2>3, <4>4, <4>8
      <4> QED BY <2>1, <4>4, <4>6, <4>9, DoomedBecause
    <3> QED BY <2>3, <3>1, <3>2 DEF Readiness, Fixed
  <2> QED BY <2>2, <2>4, <2>5 DEF ScheduleNeverStalls, schedule
<1> QED BY <1>1, GroundedInvariant, PTL
===============================================================================
