--------------------------- MODULE ToolSpendProofs ---------------------------
(***************************************************************************)
(* Proofs about money spent by tools: no process works from a log the      *)
(* store does not have, the stored session always replays, and what the    *)
(* provider charged is accounted for, for any number of processes, calls,  *)
(* faults and restarts.                                                    *)
(***************************************************************************)
EXTENDS ToolSpend, FiniteSetTheorems, SequenceTheorems, TLAPS

Kinds == {"ceiling", "runover", "inference", "cost", "proposed", "reserved",
          "started", "released", "finalized", "reconcile", "result", "errored"}
Event == [k : Kinds, call : Calls \cup {None}, amount : Nat \cup {Unknown}]
Process ==
  [at : AtTool \cup Recovering \cup AtRest, log : Seq(Event), tool : Calls \cup {None},
   batch : Seq(Event), then : {None, "idle", "inferring", "tools", "spawn"}]

(***************************************************************************)
(* The inductive invariant: TypesInv, of the variables; LedgerInv, of the  *)
(* store and the logs; ChargeInv, of the executors and their charges.      *)
(***************************************************************************)
TypesInv ==
  /\ store \in Seq(Event) /\ proc \in [Procs -> Process]
  /\ executor \in [Calls -> Procs \cup {None}] /\ sent \subseteq Calls
  /\ charge \in [Calls -> Nat] /\ \A c \in Calls : charge[c] <= Quote[c]
  /\ faults \in 0..MaxFaults /\ opens \in 0..MaxOpens

(* What a process holds, by where it is. *)
Holds(x) ==
  /\ x.at \in AtTool \cup Recovering <=> x.tool \in Calls
  /\ x.at \in Recovering <=> x.batch # <<>>
  /\ x.at \in Recovering => x.then \in {"idle", "tools"}

PrefixOf(s, t) == \E u \in Seq(Event) : t = s \o u

(* A log, and the batch that is appended to it, are acceptable to the ledger. *)
Replays(log) == \A i \in DOMAIN log : Accepts(SubSeq(log, 1, i - 1), log[i])
BatchOK(log, batch) ==
  \A i \in DOMAIN batch : Accepts(log \o SubSeq(batch, 1, i - 1), batch[i])

(* At most one call of a log is reserved and not settled, and it is open. *)
OneOpen(log) ==
  \A c \in Interrupted(log) : ~Terminal(log, c) /\ \A d \in Interrupted(log) : d = c

(* The batch settles the call c and nothing else, and c is its first. *)
Settles(log, c, batch) ==
  /\ BatchOK(log, batch) /\ Interrupted(log \o batch) = {}
  /\ batch[1].call = c
  /\ \A i \in DOMAIN batch : batch[i].k \in Settlements => batch[i].call = c

(* What the log of a process says of the call it holds. *)
LogOK(x) ==
  /\ OneOpen(x.log)
  /\ x.at \in {"idle", "inferring", "tools"} => Interrupted(x.log) = {}
  /\ x.tool \in Calls => Interrupted(x.log) = {x.tool} /\ Has(x.log, "started", x.tool)
  /\ x.at \in Recovering => Settles(x.log, x.tool, x.batch)

LedgerInv ==
  /\ Replays(store) /\ OneOpen(store)
  /\ \A p \in Procs : Holds(proc[p]) /\ LogOK(proc[p]) /\ PrefixOf(proc[p].log, store)

(* Who may still contact the provider, and what was charged: the provider is not
   contacted for a call whose release is stored or under way, and a call is
   finalized at no less than its charge. *)
Unclosed(st, c) == ~Has(st, "released", c) /\ ~Has(st, "finalized", c)
Owed(p, x, st, ex, sn, ch) ==
  /\ x.at = "spawn" => ex[x.tool] = None /\ x.tool \notin sn /\ Unclosed(st, x.tool)
  /\ x.at = "running" => ex[x.tool] = p
  /\ \A i \in DOMAIN x.batch :
       /\ x.batch[i].k = "released" => ex[x.tool] = None /\ x.tool \notin sn
       /\ x.batch[i].k = "finalized" =>
            ex[x.tool] = None /\ x.tool \in sn /\ ch[x.tool] <= x.batch[i].amount

ChargeInv ==
  /\ \A p, q \in Procs : proc[p].tool \in Calls /\ proc[q].tool = proc[p].tool => p = q
  /\ \A c \in Calls :
       /\ executor[c] # None => Has(store, "started", c) /\ Unclosed(store, c)
       /\ c \in sent => Has(store, "started", c) /\ ~Has(store, "released", c)
       /\ c \notin sent => charge[c] = 0
  /\ \A i \in DOMAIN store :
       store[i].k = "finalized" =>
         store[i].call \in Calls /\ charge[store[i].call] <= store[i].amount
  /\ \A p \in Procs : Owed(p, proc[p], store, executor, sent, charge)

SpendInv == TypesInv /\ LedgerInv /\ ChargeInv

(***************************************************************************)
(* Logs.                                                                   *)
(***************************************************************************)
(* The members of a concatenation. *)
LEMMA Concat ==
  ASSUME NEW S, NEW s \in Seq(S), NEW t \in Seq(S)
  PROVE  /\ s \o t \in Seq(S) /\ Len(s \o t) = Len(s) + Len(t)
         /\ Len(s) \in Nat /\ Len(t) \in Nat
         /\ DOMAIN s = 1..Len(s) /\ DOMAIN t = 1..Len(t)
         /\ DOMAIN (s \o t) = 1..(Len(s) + Len(t))
         /\ \A i \in DOMAIN s : i \in DOMAIN (s \o t) /\ (s \o t)[i] = s[i]
         /\ \A i \in DOMAIN t : /\ Len(s) + i \in DOMAIN (s \o t)
                                /\ (s \o t)[Len(s) + i] = t[i]
         /\ \A i \in DOMAIN (s \o t) :
              i \in DOMAIN s \/ (i - Len(s) \in DOMAIN t /\ i = Len(s) + (i - Len(s)))
  OBVIOUS

(* An event of a concatenation is of one of its parts. *)
LEMMA HasConcat ==
  ASSUME NEW s \in Seq(Event), NEW t \in Seq(Event), NEW k, NEW c
  PROVE  Has(s \o t, k, c) <=> Has(s, k, c) \/ Has(t, k, c)
<1>1. Has(s, k, c) => Has(s \o t, k, c)
  BY Concat DEF Has
<1>2. Has(t, k, c) => Has(s \o t, k, c)
  <2> SUFFICES ASSUME NEW i \in DOMAIN t, t[i].k = k, t[i].call = c
               PROVE  Has(s \o t, k, c)
    BY DEF Has
  <2>1. Len(s) + i \in DOMAIN (s \o t) /\ (s \o t)[Len(s) + i] = t[i]
    BY Concat
  <2> QED
    BY <2>1 DEF Has
<1>3. Has(s \o t, k, c) => Has(s, k, c) \/ Has(t, k, c)
  <2> SUFFICES ASSUME NEW i \in DOMAIN (s \o t), (s \o t)[i].k = k, (s \o t)[i].call = c
               PROVE  Has(s, k, c) \/ Has(t, k, c)
    BY DEF Has
  <2>1. CASE i \in DOMAIN s
    BY <2>1, Concat DEF Has
  <2>2. CASE i - Len(s) \in DOMAIN t /\ i = Len(s) + (i - Len(s))
    <3>1. (s \o t)[Len(s) + (i - Len(s))] = t[i - Len(s)]
      BY <2>2, Concat
    <3>2. (s \o t)[i] = t[i - Len(s)]
      BY <2>2, <3>1
    <3> QED
      BY <2>2, <3>2 DEF Has
  <2> QED
    BY <2>1, <2>2, Concat
<1> QED
  BY <1>1, <1>2, <1>3

(* The batches of one, two and three events. *)
LEMMA HasOne ==
  ASSUME NEW x, NEW k, NEW c
  PROVE  Has(<<x>>, k, c) <=> (x.k = k /\ x.call = c)
<1>1. DOMAIN <<x>> = {1} /\ <<x>>[1] = x
  OBVIOUS
<1> QED
  BY <1>1 DEF Has

(* Two events. *)
LEMMA HasTwo ==
  ASSUME NEW x, NEW y, NEW k, NEW c
  PROVE  Has(<<x, y>>, k, c) <=> (x.k = k /\ x.call = c) \/ (y.k = k /\ y.call = c)
<1>1. DOMAIN <<x, y>> = {1, 2} /\ <<x, y>>[1] = x /\ <<x, y>>[2] = y
  OBVIOUS
<1> QED
  BY <1>1 DEF Has

(* Three events. *)
LEMMA HasThree ==
  ASSUME NEW x, NEW y, NEW z, NEW k, NEW c
  PROVE  Has(<<x, y, z>>, k, c) <=>
           \/ (x.k = k /\ x.call = c) \/ (y.k = k /\ y.call = c)
           \/ (z.k = k /\ z.call = c)
<1>1. /\ DOMAIN <<x, y, z>> = {1, 2, 3}
      /\ <<x, y, z>>[1] = x /\ <<x, y, z>>[2] = y /\ <<x, y, z>>[3] = z
  OBVIOUS
<1> DEFINE q == <<x, y, z>>
<1>2. DOMAIN q = {1, 2, 3} /\ q[1] = x /\ q[2] = y /\ q[3] = z
  BY <1>1
<1> HIDE DEF q
<1>3. Has(q, k, c) <=> \/ (x.k = k /\ x.call = c) \/ (y.k = k /\ y.call = c)
                       \/ (z.k = k /\ z.call = c)
  BY <1>2 DEF Has
<1> QED
  BY <1>3 DEF q

(* An event has the fields it was made of. *)
LEMMA EventFields ==
  ASSUME NEW k \in Kinds, NEW c \in Calls \cup {None}, NEW a \in Nat \cup {Unknown}
  PROVE  /\ E(k, c, a) \in Event /\ E(k, c, a).k = k /\ E(k, c, a).call = c
         /\ E(k, c, a).amount = a
BY DEF E, Event

(* The status of a call, without the choice of a settlement. *)
IsSettled(log, c) == \E k \in Settlements : Has(log, k, c)

(* What each status of a call says of the log. *)
LEMMA StatusIs ==
  ASSUME NEW log, NEW c
  PROVE  /\ Status(log, c) = "reserved" <=> ~IsSettled(log, c) /\ Has(log, "reserved", c)
         /\ Status(log, c) = "none" <=> ~IsSettled(log, c) /\ ~Has(log, "reserved", c)
         /\ Status(log, c) \in Settlements <=> IsSettled(log, c)
         /\ Status(log, c) \in Settlements => Has(log, Status(log, c), c)
         /\ Status(log, c) \in Settlements \cup {"reserved", "none"}
<1>1. CASE IsSettled(log, c)
  <2>1. Status(log, c) = CHOOSE k \in Settlements : Has(log, k, c)
    BY <1>1 DEF Status, IsSettled
  <2>2. Status(log, c) \in Settlements /\ Has(log, Status(log, c), c)
    BY <1>1, <2>1 DEF IsSettled
  <2> QED
    BY <1>1, <2>2 DEF Settlements
<1>2. CASE ~IsSettled(log, c)
  <2>1. Status(log, c) = IF Has(log, "reserved", c) THEN "reserved" ELSE "none"
    BY <1>2 DEF Status, IsSettled
  <2> QED
    BY <1>2, <2>1 DEF Settlements
<1> QED
  BY <1>1, <1>2

(* A prefix of a log has less, and a log without an event of a call is one its
   prefixes have none of. *)
LEMMA PrefixHas ==
  ASSUME NEW s \in Seq(Event), NEW t \in Seq(Event), PrefixOf(s, t), NEW k, NEW c,
         Has(s, k, c)
  PROVE  Has(t, k, c)
BY HasConcat DEF PrefixOf

(* Prefixes are transitive under append. *)
LEMMA PrefixAppend ==
  ASSUME NEW s \in Seq(Event), NEW t \in Seq(Event), PrefixOf(s, t), NEW u \in Seq(Event)
  PROVE  PrefixOf(s, t \o u)
<1>1. PICK v \in Seq(Event) : t = s \o v
  BY DEF PrefixOf
<1>2. t \o u = s \o (v \o u)
  BY <1>1
<1>3. v \o u \in Seq(Event)
  BY <1>1
<1> QED
  BY <1>2, <1>3 DEF PrefixOf

(* A log as long as the log it is a prefix of is that log. *)
LEMMA PrefixWhole ==
  ASSUME NEW s \in Seq(Event), NEW t \in Seq(Event), PrefixOf(s, t),
         ~(Len(s) + 1 <= Len(t))
  PROVE  s = t
<1>1. PICK v \in Seq(Event) : t = s \o v
  BY DEF PrefixOf
<1>2. Len(v) = 0
  BY <1>1
<1>3. v = <<>>
  BY <1>2
<1> QED
  BY <1>1, <1>3

(* A log and the empty log are prefixes of the log. *)
LEMMA PrefixSelf ==
  ASSUME NEW s \in Seq(Event)
  PROVE  PrefixOf(s, s) /\ PrefixOf(<<>>, s)
<1>1. s = s \o <<>> /\ s = <<>> \o s /\ <<>> \in Seq(Event)
  OBVIOUS
<1> QED
  BY <1>1 DEF PrefixOf

(* PrefixOf is IsPrefix. *)
LEMMA PrefixIsPrefix ==
  ASSUME NEW s \in Seq(Event), NEW t \in Seq(Event), PrefixOf(s, t)
  PROVE  IsPrefix(s, t)
<1>1. PICK v \in Seq(Event) : t = s \o v
  BY DEF PrefixOf
<1>2. Len(s) <= Len(t)
  BY <1>1
<1>3. SubSeq(s, 1, Len(s)) = SubSeq(t, 1, Len(s))
  BY <1>1
<1> QED
  BY <1>2, <1>3 DEF IsPrefix

(* An accepted batch extends a log that replays. *)
LEMMA ReplaysConcat ==
  ASSUME NEW s \in Seq(Event), NEW t \in Seq(Event), Replays(s), BatchOK(s, t)
  PROVE  Replays(s \o t)
<1> SUFFICES ASSUME NEW i \in DOMAIN (s \o t)
             PROVE  Accepts(SubSeq(s \o t, 1, i - 1), (s \o t)[i])
  BY DEF Replays
<1>1. CASE i \in DOMAIN s
  <2>1. (s \o t)[i] = s[i]
    BY <1>1, Concat
  <2>2. SubSeq(s \o t, 1, i - 1) = SubSeq(s, 1, i - 1)
    BY <1>1
  <2> QED
    BY <1>1, <2>1, <2>2 DEF Replays
<1>2. CASE i - Len(s) \in DOMAIN t /\ i = Len(s) + (i - Len(s))
  <2> DEFINE j == i - Len(s)
  <2>1. (s \o t)[i] = t[j] /\ j \in DOMAIN t
    BY <1>2, Concat
  <2>2. SubSeq(s \o t, 1, i - 1) = s \o SubSeq(t, 1, j - 1)
    <3> DEFINE x == SubSeq(s \o t, 1, i - 1)
               v == SubSeq(t, 1, j - 1)
               y == s \o v
    <3>1. /\ Len(s) \in Nat /\ Len(t) \in Nat /\ j \in 1..Len(t) /\ i = Len(s) + j
          /\ Len(s \o t) = Len(s) + Len(t) /\ s \o t \in Seq(Event)
      BY <1>2, Concat
    <3>2. x \in Seq(Event) /\ Len(x) = i - 1
      BY <3>1
    <3>3. v \in Seq(Event) /\ Len(v) = j - 1
      BY <3>1
    <3>4. y \in Seq(Event) /\ Len(y) = Len(s) + (j - 1)
      BY <3>1, <3>3
    <3>5. ASSUME NEW n \in 1..(i - 1)
          PROVE  x[n] = y[n]
      <4>1. x[n] = (s \o t)[n]
        BY <3>1, SubSeqProperties
      <4>2. CASE n <= Len(s)
        BY <3>1, <3>3, <4>1, <4>2
      <4>3. CASE n > Len(s)
        <5>1. (s \o t)[n] = t[n - Len(s)]
          BY <3>1, <4>3
        <5>2. y[n] = v[n - Len(s)]
          BY <3>1, <3>3, <4>3
        <5>3. v[n - Len(s)] = t[n - Len(s)]
          BY <3>1, <4>3
        <5> QED
          BY <4>1, <5>1, <5>2, <5>3
      <4> QED
        BY <3>1, <4>2, <4>3
    <3> HIDE DEF x, y, v
    <3>6. Len(x) = Len(y) /\ \A n \in 1..Len(x) : x[n] = y[n]
      BY <3>1, <3>2, <3>4, <3>5
    <3>7. x = y
      BY <3>2, <3>4, <3>6, SeqEqual
    <3> QED
      BY <3>7 DEF x, y, v
  <2> QED
    BY <2>1, <2>2 DEF BatchOK
<1> QED
  BY <1>1, <1>2, Concat
(* What has an initial part of a log, the log has. *)
LEMMA SubSeqHas ==
  ASSUME NEW s \in Seq(Event), NEW i \in DOMAIN s, NEW k, NEW c,
         Has(SubSeq(s, 1, i - 1), k, c)
  PROVE  Has(s, k, c)
<1> DEFINE x == SubSeq(s, 1, i - 1)
<1>1. i \in 1..Len(s) /\ Len(s) \in Nat
  OBVIOUS
<1>2. x \in Seq(Event) /\ DOMAIN x = 1..(i - 1)
  BY <1>1
<1>3. \A n \in 1..(i - 1) : x[n] = s[n] /\ n \in DOMAIN s
  BY <1>1, SubSeqProperties
<1> HIDE DEF x
<1>4. Has(x, k, c)
  BY DEF x
<1> QED
  BY <1>2, <1>3, <1>4 DEF Has

(* A prefix of a log that replays does. *)
LEMMA ReplaysPrefix ==
  ASSUME NEW s \in Seq(Event), NEW t \in Seq(Event), PrefixOf(s, t), Replays(t)
  PROVE  Replays(s)
<1>1. PICK u \in Seq(Event) : t = s \o u
  BY DEF PrefixOf
<1>2. ASSUME NEW i \in DOMAIN s
      PROVE  Accepts(SubSeq(s, 1, i - 1), s[i])
  <2>1. t[i] = s[i] /\ i \in DOMAIN t
    BY <1>1, Concat
  <2>2. SubSeq(t, 1, i - 1) = SubSeq(s, 1, i - 1)
    BY <1>1
  <2> QED
    BY <2>1, <2>2 DEF Replays
<1> QED
  BY <1>2 DEF Replays

(* What apply() asks of an event, by its kind. *)
LEMMA AcceptsKinds ==
  ASSUME NEW log, NEW e
  PROVE  /\ e.k = "proposed" => (Accepts(log, e) <=> ~Has(log, "proposed", e.call))
         /\ e.k = "reserved" =>
              (Accepts(log, e) <=> /\ Has(log, "proposed", e.call)
                                   /\ Status(log, e.call) = "none"
                                   /\ ~Has(log, "started", e.call))
         /\ e.k = "started" =>
              (Accepts(log, e) <=> /\ Status(log, e.call) = "reserved"
                                   /\ ~Has(log, "started", e.call))
BY DEF Accepts

(* Of the settlements. *)
LEMMA AcceptsSettlements ==
  ASSUME NEW log, NEW e
  PROVE  /\ e.k = "released" =>
              (Accepts(log, e) <=> Status(log, e.call) = "reserved" /\ ~Terminal(log, e.call))
         /\ e.k = "finalized" =>
              (Accepts(log, e) <=>
                 /\ Status(log, e.call) = "reserved" /\ ~Terminal(log, e.call)
                 /\ Has(log, "started", e.call) /\ e.amount <= Quote[e.call])
         /\ e.k = "reconcile" =>
              (Accepts(log, e) <=>
                 /\ Status(log, e.call) = "reserved" /\ ~Terminal(log, e.call)
                 /\ Has(log, "started", e.call))
BY DEF Accepts

(* Of the ends of a call, and of the events no ledger refuses. *)
LEMMA AcceptsEnds ==
  ASSUME NEW log, NEW e
  PROVE  /\ e.k = "result" =>
              (Accepts(log, e) <=> /\ ~Terminal(log, e.call)
                                   /\ Status(log, e.call) \in Settlements)
         /\ e.k = "errored" =>
              (Accepts(log, e) <=> /\ Has(log, "proposed", e.call)
                                   /\ ~Terminal(log, e.call)
                                   /\ Status(log, e.call) # "reserved")
         /\ e.k \in {"ceiling", "runover", "inference", "cost"} => Accepts(log, e)
BY DEF Accepts

(* In a log that replays, a call that started or was settled was reserved, and one
   that was reserved was proposed. *)
LEMMA ReplayOrder ==
  ASSUME NEW log \in Seq(Event), Replays(log), NEW c
  PROVE  /\ Has(log, "started", c) \/ IsSettled(log, c) => Has(log, "reserved", c)
         /\ Has(log, "reserved", c) => Has(log, "proposed", c)
<1>1. ASSUME Has(log, "started", c) \/ IsSettled(log, c)
      PROVE  Has(log, "reserved", c)
  <2>1. PICK i \in DOMAIN log : log[i].k \in Settlements \cup {"started"} /\ log[i].call = c
    BY <1>1 DEF Has, IsSettled
  <2>2. Status(SubSeq(log, 1, i - 1), c) = "reserved"
    BY <2>1, AcceptsKinds, AcceptsSettlements DEF Replays, Settlements
  <2>3. Has(SubSeq(log, 1, i - 1), "reserved", c)
    BY <2>2, StatusIs
  <2> QED
    BY <2>3, SubSeqHas
<1>2. ASSUME Has(log, "reserved", c)
      PROVE  Has(log, "proposed", c)
  <2>1. PICK i \in DOMAIN log : log[i].k = "reserved" /\ log[i].call = c
    BY <1>2 DEF Has
  <2>2. Has(SubSeq(log, 1, i - 1), "proposed", c)
    BY <2>1, AcceptsKinds DEF Replays
  <2> QED
    BY <2>2, SubSeqHas
<1> QED
  BY <1>1, <1>2
(* The first events of a batch. *)
LEMMA FirstEvents ==
  ASSUME NEW s \in Seq(Event)
  PROVE  /\ SubSeq(s, 1, 1 - 1) = <<>>
         /\ Len(s) >= 1 => SubSeq(s, 1, 2 - 1) = <<s[1]>>
         /\ Len(s) >= 2 => SubSeq(s, 1, 3 - 1) = <<s[1], s[2]>>
<1>1. SubSeq(s, 1, 1 - 1) = <<>>
  OBVIOUS
<1>2. ASSUME Len(s) >= 1
      PROVE  SubSeq(s, 1, 2 - 1) = <<s[1]>>
  <2> DEFINE a == SubSeq(s, 1, 2 - 1)
             b == <<s[1]>>
  <2>1. s[1] \in Event
    BY <1>2
  <2>2. a \in Seq(Event) /\ b \in Seq(Event) /\ Len(a) = 1 /\ Len(b) = 1
    BY <1>2, <2>1
  <2>3. a[1] = s[1] /\ b[1] = s[1]
    BY <1>2
  <2> HIDE DEF a, b
  <2>4. \A i \in 1..Len(a) : a[i] = b[i]
    BY <2>2, <2>3
  <2>5. a = b
    BY <2>2, <2>4, SeqEqual
  <2> QED
    BY <2>5 DEF a, b
<1>3. ASSUME Len(s) >= 2
      PROVE  SubSeq(s, 1, 3 - 1) = <<s[1], s[2]>>
  <2> DEFINE a == SubSeq(s, 1, 3 - 1)
             b == <<s[1], s[2]>>
  <2>1. s[1] \in Event /\ s[2] \in Event
    BY <1>3
  <2>2. a \in Seq(Event) /\ b \in Seq(Event) /\ Len(a) = 2 /\ Len(b) = 2
    BY <1>3, <2>1
  <2>3. a[1] = s[1] /\ b[1] = s[1] /\ a[2] = s[2] /\ b[2] = s[2]
    BY <1>3
  <2> HIDE DEF a, b
  <2>4. \A i \in 1..Len(a) : a[i] = b[i]
    BY <2>2, <2>3
  <2>5. a = b
    BY <2>2, <2>4, SeqEqual
  <2> QED
    BY <2>5 DEF a, b
<1> QED
  BY <1>1, <1>2, <1>3

(* A batch is accepted event by event. *)
LEMMA BatchOne ==
  ASSUME NEW log \in Seq(Event), NEW x \in Event, Accepts(log, x)
  PROVE  BatchOK(log, <<x>>) /\ <<x>> \in Seq(Event)
<1> DEFINE q == <<x>>
<1>1. DOMAIN q = {1} /\ q[1] = x /\ q \in Seq(Event) /\ Len(q) = 1
  OBVIOUS
<1>2. log \o <<>> = log
  OBVIOUS
<1> HIDE DEF q
<1>3. log \o SubSeq(q, 1, 1 - 1) = log
  BY <1>1, <1>2, FirstEvents
<1>4. BatchOK(log, q)
  BY <1>1, <1>3 DEF BatchOK
<1> QED
  BY <1>1, <1>4 DEF q

(* A batch of two events. *)
LEMMA BatchTwo ==
  ASSUME NEW log \in Seq(Event), NEW x \in Event, NEW y \in Event,
         Accepts(log, x), Accepts(log \o <<x>>, y)
  PROVE  BatchOK(log, <<x, y>>) /\ <<x, y>> \in Seq(Event)
<1> DEFINE q == <<x, y>>
<1>1. DOMAIN q = {1, 2} /\ q[1] = x /\ q[2] = y /\ q \in Seq(Event) /\ Len(q) = 2
  OBVIOUS
<1>2. log \o <<>> = log
  OBVIOUS
<1> HIDE DEF q
<1>3. log \o SubSeq(q, 1, 1 - 1) = log /\ log \o SubSeq(q, 1, 2 - 1) = log \o <<x>>
  BY <1>1, <1>2, FirstEvents
<1>4. BatchOK(log, q)
  BY <1>1, <1>3 DEF BatchOK
<1> QED
  BY <1>1, <1>4 DEF q

(* A batch of three events. *)
LEMMA BatchThree ==
  ASSUME NEW log \in Seq(Event), NEW x \in Event, NEW y \in Event, NEW z \in Event,
         Accepts(log, x), Accepts(log \o <<x>>, y), Accepts(log \o <<x, y>>, z)
  PROVE  BatchOK(log, <<x, y, z>>) /\ <<x, y, z>> \in Seq(Event)
<1> DEFINE q == <<x, y, z>>
<1>1. /\ DOMAIN q = {1, 2, 3} /\ q[1] = x /\ q[2] = y /\ q[3] = z
      /\ q \in Seq(Event) /\ Len(q) = 3
  OBVIOUS
<1>2. log \o <<>> = log
  OBVIOUS
<1> HIDE DEF q
<1>3. /\ log \o SubSeq(q, 1, 1 - 1) = log /\ log \o SubSeq(q, 1, 2 - 1) = log \o <<x>>
      /\ log \o SubSeq(q, 1, 3 - 1) = log \o <<x, y>>
  BY <1>1, <1>2, FirstEvents
<1>4. BatchOK(log, q)
  BY <1>1, <1>3 DEF BatchOK
<1> QED
  BY <1>1, <1>4 DEF q

(* The open calls of a log depend on the events of paid calls alone. *)
LEMMA SameOpen ==
  ASSUME NEW s, NEW t,
         \A k \in {"reserved", "released", "finalized", "reconcile", "result", "errored"},
            c \in Calls : Has(s, k, c) <=> Has(t, k, c)
  PROVE  /\ Interrupted(s) = Interrupted(t) /\ OneOpen(s) <=> OneOpen(t)
         /\ \A c \in Calls : Terminal(s, c) <=> Terminal(t, c)
<1>1. ASSUME NEW c \in Calls
      PROVE  /\ Status(s, c) = "reserved" <=> Status(t, c) = "reserved"
             /\ Terminal(s, c) <=> Terminal(t, c)
  BY StatusIs DEF IsSettled, Settlements, Terminal
<1>2. Interrupted(s) = Interrupted(t)
  BY <1>1 DEF Interrupted
<1>3. Interrupted(s) \subseteq Calls
  BY DEF Interrupted
<1> QED
  BY <1>1, <1>2, <1>3 DEF OneOpen

(* Which calls a batch opens and closes. *)
LEMMA OpenAfter ==
  ASSUME NEW log \in Seq(Event), NEW batch \in Seq(Event), NEW c \in Calls
  PROVE  c \in Interrupted(log \o batch) <=>
           /\ Has(log, "reserved", c) \/ Has(batch, "reserved", c)
           /\ ~IsSettled(log, c) /\ ~IsSettled(batch, c)
BY HasConcat, StatusIs DEF Interrupted, IsSettled

(* The open calls, without the choice of a status. *)
LEMMA OpenNow ==
  ASSUME NEW log, NEW c \in Calls
  PROVE  c \in Interrupted(log) <=> Has(log, "reserved", c) /\ ~IsSettled(log, c)
BY StatusIs DEF Interrupted

(* A batch that settles the one open call leaves none. *)
LEMMA NoneOpenAfter ==
  ASSUME NEW log \in Seq(Event), NEW batch \in Seq(Event),
         \A c \in Interrupted(log) : IsSettled(batch, c),
         \A c \in Calls : ~Has(batch, "reserved", c)
  PROVE  Interrupted(log \o batch) = {} /\ OneOpen(log \o batch)
<1>1. Interrupted(log \o batch) \subseteq Calls
  BY DEF Interrupted
<1>2. Interrupted(log \o batch) = {}
  BY <1>1, OpenAfter, OpenNow
<1> QED
  BY <1>2 DEF OneOpen
(***************************************************************************)
(* What a step of one process has to show.                                 *)
(***************************************************************************)
(* A step that appends a batch the ledger accepts, or nothing, and leaves its
   process in order keeps the ledger in order: the process that appends has the
   whole store in its log. *)
LEMMA LedgerStep ==
  ASSUME TypesInv, LedgerInv, NEW p \in Procs, NEW x \in Process, NEW batch \in Seq(Event),
         proc' = [proc EXCEPT ![p] = x],
         \/ store' = store
         \/ /\ store = proc[p].log /\ store' = store \o batch
            /\ BatchOK(store, batch) /\ OneOpen(store \o batch),
         Holds(x), LogOK(x), PrefixOf(x.log, store')
  PROVE  store' \in Seq(Event) /\ proc' \in [Procs -> Process] /\ LedgerInv'
<1>1. store \in Seq(Event) /\ proc \in [Procs -> Process]
  BY DEF TypesInv
<1>2. store' \in Seq(Event)
  <2>1. store \o batch \in Seq(Event)
    BY <1>1, Concat
  <2> QED
    BY <1>1, <2>1
<1>3. proc' \in [Procs -> Process]
  BY <1>1
<1>4. proc'[p] = x /\ \A q \in Procs : q # p => proc'[q] = proc[q]
  BY <1>1
<1>5. Replays(store') /\ OneOpen(store')
  <2>1. CASE store' = store
    BY <2>1 DEF LedgerInv
  <2>2. CASE store' = store \o batch /\ BatchOK(store, batch) /\ OneOpen(store \o batch)
    <3>1. Replays(store \o batch)
      BY <1>1, <2>2, ReplaysConcat DEF LedgerInv
    <3> QED
      BY <2>2, <3>1
  <2> QED
    BY <2>1, <2>2
<1>6. ASSUME NEW q \in Procs
      PROVE  Holds(proc'[q]) /\ LogOK(proc'[q]) /\ PrefixOf(proc'[q].log, store')
  <2>1. CASE q = p
    BY <1>4, <2>1
  <2>2. CASE q # p
    <3>1. /\ Holds(proc[q]) /\ LogOK(proc[q]) /\ PrefixOf(proc[q].log, store)
          /\ proc[q].log \in Seq(Event)
      BY <1>1 DEF LedgerInv, Process
    <3>2. PrefixOf(proc[q].log, store')
      BY <1>1, <3>1, PrefixAppend
    <3> QED
      BY <1>4, <2>2, <3>1, <3>2
  <2> QED
    BY <2>1, <2>2
<1> QED
  BY <1>2, <1>3, <1>5, <1>6 DEF LedgerInv

(* The charges stay accounted for when a batch releases or finalizes only calls
   that no executor works on and no other process holds. *)
LEMMA ChargeStep ==
  ASSUME TypesInv, LedgerInv, ChargeInv, NEW p \in Procs, NEW x \in Process,
         NEW batch \in Seq(Event),
         proc' = [proc EXCEPT ![p] = x],
         store' = store \/ store' = store \o batch,
         sent' = sent, charge' = charge,
         executor' \in [Calls -> Procs \cup {None}],
         \A c \in Calls : executor'[c] # executor[c] =>
           \/ c = proc[p].tool
           \/ executor[c] = p /\ executor'[c] = None,
         \A c \in Calls : executor'[c] # None /\ executor'[c] # executor[c] =>
           Has(store', "started", c) /\ Unclosed(store', c),
         \A i \in DOMAIN batch : batch[i].k \in {"released", "finalized"} =>
           /\ batch[i].call \in Calls /\ executor'[batch[i].call] = None
           /\ \A q \in Procs \ {p} : proc[q].tool # batch[i].call,
         \A i \in DOMAIN batch : batch[i].k = "released" => batch[i].call \notin sent,
         \A i \in DOMAIN batch : batch[i].k = "finalized" =>
           charge[batch[i].call] <= batch[i].amount,
         x.tool \in Calls => \A q \in Procs \ {p} : proc[q].tool # x.tool,
         Owed(p, x, store', executor', sent, charge)
  PROVE  ChargeInv'
<1>1. /\ store \in Seq(Event) /\ proc \in [Procs -> Process]
      /\ executor \in [Calls -> Procs \cup {None}]
  BY DEF TypesInv
<1>2. proc'[p] = x /\ \A q \in Procs : q # p => proc'[q] = proc[q]
  BY <1>1
<1>3. ASSUME NEW k, NEW c
      PROVE  /\ Has(store', k, c) => Has(store, k, c) \/ Has(batch, k, c)
             /\ Has(store, k, c) => Has(store', k, c)
  <2>1. Has(store \o batch, k, c) <=> Has(store, k, c) \/ Has(batch, k, c)
    BY <1>1, HasConcat
  <2>2. CASE store' = store
    BY <2>2
  <2>3. CASE store' = store \o batch
    BY <2>1, <2>3
  <2> QED
    BY <2>2, <2>3
<1>5. ASSUME NEW c \in Calls, Has(batch, "released", c) \/ Has(batch, "finalized", c)
      PROVE  /\ executor'[c] = None /\ \A q \in Procs \ {p} : proc[q].tool # c
             /\ Has(batch, "released", c) => c \notin sent
  BY <1>5 DEF Has
<1>6. \A q, r \in Procs : proc'[q].tool \in Calls /\ proc'[r].tool = proc'[q].tool => q = r
  BY <1>2 DEF ChargeInv
<1>7. ASSUME NEW c \in Calls
      PROVE  /\ executor'[c] # None => Has(store', "started", c) /\ Unclosed(store', c)
             /\ c \in sent => Has(store', "started", c) /\ ~Has(store', "released", c)
             /\ c \notin sent => charge[c] = 0
  <2>1. executor'[c] # None => Has(store', "started", c) /\ Unclosed(store', c)
    BY <1>3, <1>5 DEF ChargeInv, Unclosed
  <2> QED
    BY <2>1, <1>3, <1>5 DEF ChargeInv
<1>8. ASSUME NEW i \in DOMAIN store', store'[i].k = "finalized"
      PROVE  store'[i].call \in Calls /\ charge[store'[i].call] <= store'[i].amount
  <2>1. CASE store' = store
    BY <2>1, <1>8 DEF ChargeInv
  <2>2. CASE store' = store \o batch
    <3>1. CASE i \in DOMAIN store
      BY <1>1, <1>8, <2>2, <3>1, Concat DEF ChargeInv
    <3>2. CASE i - Len(store) \in DOMAIN batch /\ i = Len(store) + (i - Len(store))
      <4>1. (store \o batch)[Len(store) + (i - Len(store))] = batch[i - Len(store)]
        BY <1>1, <3>2, Concat
      <4>2. store'[i] = batch[i - Len(store)]
        BY <2>2, <3>2, <4>1
      <4> QED
        BY <1>8, <3>2, <4>2
    <3> QED
      BY <1>1, <1>8, <2>2, <3>1, <3>2, Concat
  <2> QED
    BY <2>1, <2>2
<1>9. ASSUME NEW q \in Procs
      PROVE  Owed(q, proc'[q], store', executor', sent, charge)
  <2>1. CASE q = p
    BY <1>2, <2>1
  <2>2. CASE q # p
    <3> DEFINE y == proc[q]
    <3>1. Owed(q, y, store, executor, sent, charge) /\ y \in Process
      BY <1>1 DEF ChargeInv
    <3> SUFFICES Owed(q, y, store', executor', sent, charge)
      BY <1>2, <2>2
    <3>2. CASE y.tool \notin Calls
      <4>1. y.at \notin AtTool \cup Recovering /\ y.batch = <<>>
        BY <3>2 DEF LedgerInv, Holds
      <4> QED
        BY <4>1 DEF Owed, AtTool
    <3>3. CASE y.tool \in Calls
      <4>1. y.tool # proc[p].tool
        BY <2>2, <3>3 DEF ChargeInv
      <4>2. \/ executor'[y.tool] = executor[y.tool]
            \/ executor[y.tool] = p /\ executor'[y.tool] = None
        BY <3>3, <4>1
      <4>3. Unclosed(store, y.tool) => Unclosed(store', y.tool)
        BY <1>3, <1>5, <2>2, <3>3 DEF Unclosed
      <4>4. executor[y.tool] = None => executor'[y.tool] = None
        BY <3>3, <4>2
      <4>5. executor[y.tool] = q => executor'[y.tool] = q
        BY <2>2, <3>3, <4>2
      <4> QED
        BY <3>1, <4>3, <4>4, <4>5 DEF Owed
    <3> QED
      BY <3>2, <3>3
  <2> QED
    BY <2>1, <2>2
<1> QED
  BY <1>6, <1>7, <1>8, <1>9 DEF ChargeInv
(* A call that has not been reserved in the store has no executor, was not sent
   and is nobody's tool. *)
LEMMA Untouched ==
  ASSUME TypesInv, LedgerInv, ChargeInv, NEW c \in Calls, ~Has(store, "reserved", c)
  PROVE  executor[c] = None /\ c \notin sent /\ \A q \in Procs : proc[q].tool # c
<1>1. ~Has(store, "started", c)
  BY ReplayOrder DEF TypesInv, LedgerInv
<1>2. ASSUME NEW q \in Procs
      PROVE  proc[q].tool # c
  <2>1. PrefixOf(proc[q].log, store) /\ proc[q].log \in Seq(Event) /\ store \in Seq(Event)
    BY DEF TypesInv, LedgerInv, Process
  <2>2. ~Has(proc[q].log, "started", c)
    BY <1>1, <2>1, PrefixHas
  <2> QED
    BY <2>2 DEF LedgerInv, LogOK
<1> QED
  BY <1>1, <1>2 DEF ChargeInv

(* What commit() is given: a batch the ledger accepts after the log of the process,
   that leaves open only the call the process goes on with, and settles only the
   call it holds. *)
Offers(p, batch, then) ==
  LET log == proc[p].log IN
  /\ batch \in Seq(Event) /\ batch # <<>> /\ BatchOK(log, batch)
  /\ then \in {"idle", "inferring", "tools", "spawn"}
  /\ then # "spawn" => Interrupted(log \o batch) = {}
  /\ then = "spawn" =>
       /\ Head(batch).call \in Calls /\ ~Has(log, "reserved", Head(batch).call)
       /\ Interrupted(log \o batch) = {Head(batch).call}
       /\ ~Terminal(log \o batch, Head(batch).call)
       /\ Has(log \o batch, "started", Head(batch).call)
  /\ PaidTerminal(batch) =>
       /\ proc[p].tool \in Calls /\ then \in {"idle", "tools"}
       /\ batch[1].call = proc[p].tool
       /\ \A i \in DOMAIN batch :
            batch[i].k \in Settlements => batch[i].call = proc[p].tool

(* The settlement it is given is covered. *)
Covers(c, batch, ex, sn, ch) ==
  \A i \in DOMAIN batch :
    /\ batch[i].k = "released" => ex[c] = None /\ c \notin sn
    /\ batch[i].k = "finalized" => ex[c] = None /\ c \in sn /\ ch[c] <= batch[i].amount

(* An append is of the whole store, or is not written. *)
LEMMA AppendStep ==
  ASSUME TypesInv, LedgerInv, NEW p \in Procs, NEW batch,
         AppendWorks(p, batch) \/ AppendFails(p, batch)
  PROVE  /\ \/ store' = store
            \/ store = proc[p].log /\ store' = store \o batch
         /\ AppendWorks(p, batch) => store = proc[p].log /\ store' = store \o batch
         /\ faults' \in 0..MaxFaults
<1>1. /\ PrefixOf(proc[p].log, store) /\ proc[p].log \in Seq(Event) /\ store \in Seq(Event)
      /\ faults \in 0..MaxFaults /\ MaxFaults \in Nat
  BY SpendAssumption DEF TypesInv, LedgerInv, Process
<1>2. ~Conflict(p) => store = proc[p].log
  BY <1>1, PrefixWhole DEF Conflict
<1>3. faults' \in 0..MaxFaults
  BY <1>1 DEF AppendWorks, AppendFails
<1> QED
  BY <1>2, <1>3 DEF AppendWorks, AppendFails
(* Processes a step leads to. *)
LEMMA AdoptedFields ==
  ASSUME NEW a \in AtTool \cup Recovering \cup AtRest,
         NEW l \in Seq(Event), NEW t \in Calls \cup {None}
  PROVE  [at |-> a, log |-> l, batch |-> <<>>, then |-> None, tool |-> t] \in Process
<1> DEFINE e == <<>>
           R == AtTool \cup Recovering \cup AtRest
<1>1. e \in Seq(Event) /\ a \in R
  OBVIOUS
<1> HIDE DEF e
<1>2. [at |-> a, log |-> l, batch |-> e, then |-> None, tool |-> t] \in Process
  BY <1>1 DEF Process
<1> QED
  BY <1>2 DEF e

(* The process that is closed. *)
LEMMA ClosedFields ==
  /\ Closed \in Process /\ Closed.at = "closed" /\ Closed.log = <<>>
  /\ Closed.batch = <<>> /\ Closed.tool = None
<1> DEFINE l == <<>>
<1>1. /\ "closed" \in AtTool \cup Recovering \cup AtRest /\ None \in Calls \cup {None}
      /\ l \in Seq(Event)
  BY DEF AtRest
<1> HIDE DEF l
<1>2. [at |-> "closed", log |-> l, batch |-> <<>>, then |-> None, tool |-> None] \in Process
  BY <1>1, AdoptedFields
<1>3. Closed = [at |-> "closed", log |-> l, batch |-> <<>>, then |-> None, tool |-> None]
  BY DEF Closed, l
<1> QED
  BY <1>2, <1>3 DEF l

(* The process that has stopped. *)
LEMMA UnusableFields ==
  ASSUME NEW y \in Process
  PROVE  [y EXCEPT !.at = "unusable", !.tool = None, !.batch = <<>>, !.then = None]
           \in Process
<1> DEFINE e == <<>>
<1>1. e \in Seq(Event) /\ "unusable" \in AtTool \cup Recovering \cup AtRest
  BY DEF AtRest
<1> HIDE DEF e
<1>2. [y EXCEPT !.at = "unusable", !.tool = None, !.batch = e, !.then = None] \in Process
  BY <1>1 DEF Process
<1> QED
  BY <1>2 DEF e

(* The processes a commit leads to. *)
LEMMA CommitLeaves ==
  ASSUME SpendInv, NEW p \in Procs, NEW batch, NEW then, Offers(p, batch, then),
         NEW x, x \in {Adopted(p, batch, then), AfterFailure(p, batch, then)},
         x = Adopted(p, batch, then) => store = proc[p].log /\ store' = store \o batch,
         \/ store' = store
         \/ store = proc[p].log /\ store' = store \o batch
  PROVE  x \in Process /\ Holds(x) /\ LogOK(x) /\ PrefixOf(x.log, store')
<1> DEFINE log == proc[p].log
<1>1. /\ proc[p] \in Process /\ log \in Seq(Event) /\ store \in Seq(Event)
      /\ Holds(proc[p]) /\ LogOK(proc[p]) /\ PrefixOf(log, store)
  BY DEF SpendInv, TypesInv, LedgerInv, Process
<1>2. batch \in Seq(Event) /\ batch # <<>> /\ log \o batch \in Seq(Event)
  BY <1>1, Concat DEF Offers
<1>3. PrefixOf(log, store')
  BY <1>1, <1>2, PrefixAppend
<1>4. OneOpen(log \o batch)
  BY DEF Offers, OneOpen
<1>6. CASE x = Adopted(p, batch, then)
  <2>1. /\ x.at = then /\ x.log = log \o batch /\ x.batch = <<>> /\ x.then = None
        /\ x.tool = IF then = "spawn" THEN Head(batch).call ELSE None
    BY <1>6 DEF Adopted
  <2>2. then \in {"idle", "inferring", "tools", "spawn"}
    BY DEF Offers
  <2>3. x.tool \in Calls \cup {None} /\ (x.tool \in Calls <=> then = "spawn")
    BY <2>1, <2>2, SpendAssumption DEF Offers
  <2>4. x \in Process
    <3> DEFINE t == IF then = "spawn" THEN Head(batch).call ELSE None
    <3>1. then \in AtTool \cup Recovering \cup AtRest /\ t \in Calls \cup {None}
      BY <2>1, <2>2, <2>3 DEF AtTool, AtRest
    <3>2. x = [at |-> then, log |-> log \o batch, batch |-> <<>>, then |-> None, tool |-> t]
      BY <1>6 DEF Adopted
    <3> HIDE DEF t
    <3> QED
      BY <1>2, <3>1, <3>2, AdoptedFields
  <2>5. Holds(x)
    BY <2>1, <2>2, <2>3 DEF Holds, AtTool, Recovering
  <2>6. LogOK(x)
    BY <1>4, <2>1, <2>2, <2>3 DEF Offers, LogOK, Recovering
  <2>7. PrefixOf(x.log, store')
    <3>1. store' = log \o batch
      BY <1>6
    <3> QED
      BY <1>2, <2>1, <3>1, PrefixSelf
  <2> QED
    BY <2>4, <2>5, <2>6, <2>7
<1>7. CASE x = AfterFailure(p, batch, then) /\ PaidTerminal(batch)
  <2>1. x = [proc[p] EXCEPT !.at = "verify", !.batch = batch, !.then = then]
    BY <1>7 DEF AfterFailure
  <2>2. /\ x.at = "verify" /\ x.batch = batch /\ x.then = then /\ x.tool = proc[p].tool
        /\ x.log = log
    BY <1>1, <2>1 DEF Process
  <2>3. proc[p].tool \in Calls /\ then \in {"idle", "tools"}
    BY <1>7 DEF Offers
  <2>4. x \in Process
    BY <1>1, <1>2, <2>1, <2>3 DEF Process, Recovering
  <2>5. Holds(x)
    BY <1>2, <2>2, <2>3 DEF Holds, Recovering
  <2>6. Settles(log, proc[p].tool, batch)
    BY <1>7, <2>3 DEF Offers, Settles
  <2>7. LogOK(x)
    BY <1>1, <2>2, <2>3, <2>6 DEF LogOK
  <2> QED
    BY <1>3, <2>2, <2>4, <2>5, <2>7
<1>8. CASE x = AfterFailure(p, batch, then) /\ ~PaidTerminal(batch)
  <2>1. x = [proc[p] EXCEPT !.at = "unusable", !.tool = None, !.batch = <<>>, !.then = None]
    BY <1>8 DEF AfterFailure, Unusable
  <2>2. x.at = "unusable" /\ x.batch = <<>> /\ x.tool = None /\ x.log = log
    BY <1>1, <2>1 DEF Process
  <2>3. x \in Process
    BY <1>1, <2>1, UnusableFields
  <2>4. Holds(x)
    BY <2>2, SpendAssumption DEF Holds, AtTool, Recovering
  <2>5. LogOK(x)
    BY <1>1, <2>2, SpendAssumption DEF LogOK, Recovering
  <2> QED
    BY <1>3, <2>2, <2>3, <2>4, <2>5
<1> QED
  BY <1>6, <1>7, <1>8
(* commit() keeps the invariant whatever becomes of its append. *)
LEMMA CommitStep ==
  ASSUME SpendInv, NEW p \in Procs, NEW batch, NEW then, Offers(p, batch, then),
         Commit(p, batch, then),
         executor' \in [Calls -> Procs \cup {None}],
         \A c \in Calls : executor'[c] # executor[c] => c = proc[p].tool /\ executor'[c] = None,
         sent' = sent, charge' = charge, opens' = opens,
         Covers(proc[p].tool, batch, executor', sent, charge)
  PROVE  SpendInv'
<1> DEFINE log == proc[p].log
<1>1. /\ TypesInv /\ LedgerInv /\ ChargeInv /\ proc[p] \in Process
      /\ log \in Seq(Event) /\ store \in Seq(Event)
  BY DEF SpendInv, TypesInv, Process
<1>2. PICK x \in {Adopted(p, batch, then), AfterFailure(p, batch, then)} :
        /\ proc' = [proc EXCEPT ![p] = x]
        /\ \/ x = Adopted(p, batch, then) /\ AppendWorks(p, batch)
           \/ x = AfterFailure(p, batch, then) /\ AppendFails(p, batch)
  BY DEF Commit
<1>3. /\ \/ store' = store
         \/ store = log /\ store' = store \o batch
      /\ AppendWorks(p, batch) => store = log /\ store' = store \o batch
      /\ faults' \in 0..MaxFaults
  BY <1>1, <1>2, AppendStep
<1>4. batch \in Seq(Event) /\ BatchOK(log, batch) /\ OneOpen(log \o batch)
  BY DEF Offers, OneOpen
<1>5. Adopted(p, batch, then).batch = <<>>
  BY DEF Adopted
<1>6. AfterFailure(p, batch, then).batch \in {batch, <<>>}
  <2>1. PaidTerminal(batch) => AfterFailure(p, batch, then).batch = batch
    BY <1>1 DEF AfterFailure, Process
  <2>2. ~PaidTerminal(batch) => AfterFailure(p, batch, then).batch = <<>>
    BY <1>1 DEF AfterFailure, Unusable, Process
  <2> QED
    BY <2>1, <2>2
<1>7. x = Adopted(p, batch, then) => store = log /\ store' = store \o batch
  <2>1. CASE AppendWorks(p, batch)
    BY <1>3, <2>1
  <2>2. CASE AppendFails(p, batch) /\ x = AfterFailure(p, batch, then)
    <3>1. CASE PaidTerminal(batch)
      <4>1. AfterFailure(p, batch, then).at = "verify" /\ Adopted(p, batch, then).at = then
        BY <1>1, <3>1 DEF AfterFailure, Adopted, Process
      <4> QED
        BY <2>2, <4>1 DEF Offers
    <3>2. CASE ~PaidTerminal(batch)
      <4>1. AfterFailure(p, batch, then).at = "unusable" /\ Adopted(p, batch, then).at = then
        BY <1>1, <3>2 DEF AfterFailure, Unusable, Adopted, Process
      <4> QED
        BY <2>2, <4>1 DEF Offers
    <3> QED
      BY <3>1, <3>2
  <2> QED
    BY <1>2, <2>1, <2>2
<1>8. x \in Process /\ Holds(x) /\ LogOK(x) /\ PrefixOf(x.log, store')
  BY <1>2, <1>3, <1>7, CommitLeaves
<1>9. store' \in Seq(Event) /\ proc' \in [Procs -> Process] /\ LedgerInv'
  BY <1>1, <1>2, <1>3, <1>4, <1>8, LedgerStep
<1>10. TypesInv'
  BY <1>1, <1>3, <1>9 DEF TypesInv
<1> USE <1>1, <1>4
<1>11. ASSUME NEW i \in DOMAIN batch, batch[i].k \in {"released", "finalized"}
       PROVE  /\ batch[i].call = proc[p].tool /\ batch[i].call \in Calls
              /\ executor'[batch[i].call] = None
              /\ \A q \in Procs \ {p} : proc[q].tool # batch[i].call
  <2>1. PaidTerminal(batch)
    BY <1>11 DEF PaidTerminal, Settlements
  <2>2. batch[i].call = proc[p].tool /\ batch[i].call \in Calls
    BY <1>11, <2>1 DEF Offers, Settlements
  <2>3. executor'[proc[p].tool] = None
    BY <1>11 DEF Covers
  <2> QED
    BY <2>2, <2>3 DEF ChargeInv
<1>12. x.tool \in Calls => \A q \in Procs \ {p} : proc[q].tool # x.tool
  <2>1. CASE x = Adopted(p, batch, then)
    <3>1. x.tool = IF then = "spawn" THEN Head(batch).call ELSE None
      BY <2>1 DEF Adopted
    <3>2. CASE then = "spawn"
      <4>1. store = log
        BY <1>7, <2>1
      <4> QED
        BY <3>1, <3>2, <4>1, Untouched DEF Offers
    <3> QED
      BY <3>1, <3>2, SpendAssumption
  <2>2. CASE x = AfterFailure(p, batch, then)
    <3>1. x.tool \in {proc[p].tool, None}
      BY <2>2 DEF AfterFailure, Unusable, Process
    <3> QED
      BY <3>1, SpendAssumption DEF ChargeInv
  <2> QED
    BY <1>2, <2>1, <2>2
<1>13. Owed(p, x, store', executor', sent, charge)
  <2>1. CASE x = Adopted(p, batch, then)
    <3>1. /\ x.tool = IF then = "spawn" THEN Head(batch).call ELSE None
          /\ x.at = then /\ x.batch = <<>>
      BY <2>1 DEF Adopted
    <3>2. x.at # "running"
      BY <3>1 DEF Offers
    <3>3. CASE x.at = "spawn"
      <4> DEFINE c == x.tool
      <4>1. store = log /\ store' = store \o batch /\ c \in Calls
        BY <1>7, <2>1, <3>1, <3>3 DEF Offers
      <4>2. ~Has(store, "reserved", c)
        BY <3>1, <3>3, <4>1 DEF Offers
      <4>3. executor[c] = None /\ c \notin sent
        BY <4>1, <4>2, Untouched
      <4>4. ~IsSettled(store, c)
        BY <4>2, ReplayOrder DEF LedgerInv
      <4>5. ~PaidTerminal(batch)
        BY <3>1, <3>3 DEF Offers
      <4>6. Unclosed(store', c)
        BY <4>1, <4>4, <4>5, HasConcat DEF Unclosed, IsSettled, PaidTerminal, Settlements, Has
      <4> QED
        BY <3>1, <3>2, <4>1, <4>3, <4>6 DEF Owed
    <3> QED
      BY <3>1, <3>2, <3>3 DEF Owed
  <2>2. CASE x = AfterFailure(p, batch, then) /\ PaidTerminal(batch)
    <3>1. x.at = "verify" /\ x.batch = batch /\ x.tool = proc[p].tool
      BY <2>2 DEF AfterFailure, Process
    <3> QED
      BY <3>1 DEF Owed, Covers
  <2>3. CASE x = AfterFailure(p, batch, then) /\ ~PaidTerminal(batch)
    <3>1. x.at = "unusable" /\ x.batch = <<>>
      BY <2>3 DEF AfterFailure, Unusable, Process
    <3> QED
      BY <3>1 DEF Owed
  <2> QED
    BY <1>2, <2>1, <2>2, <2>3
<1>14. \A i \in DOMAIN batch : batch[i].k = "released" => batch[i].call \notin sent
  BY <1>11 DEF Covers
<1>15. \A i \in DOMAIN batch : batch[i].k = "finalized" =>
         charge[batch[i].call] <= batch[i].amount
  BY <1>11 DEF Covers
<1>16. ChargeInv'
  BY <1>2, <1>3, <1>8, <1>11, <1>12, <1>13, <1>14, <1>15, ChargeStep
<1> QED
  BY <1>9, <1>10, <1>16 DEF SpendInv
(***************************************************************************)
(* The batches of the operations.                                          *)
(***************************************************************************)
Runover == E("runover", None, 0)

(* A settlement of the open call, with the call's end, the run's or both. *)
SettleBatches(s, c, a, e) ==
  {<<E(s, c, a), E(e, c, 0)>>, <<E(s, c, a), Runover>>, <<E(s, c, a), E(e, c, 0), Runover>>}

(* It is accepted, and leaves nothing open. *)
LEMMA SettleBatch ==
  ASSUME NEW log \in Seq(Event), Replays(log), NEW c \in Calls, Interrupted(log) = {c},
         OneOpen(log), NEW s \in Settlements, NEW a \in Nat,
         s # "released" => Has(log, "started", c), s = "finalized" => a <= Quote[c],
         NEW e \in {"result", "errored"},
         NEW batch \in SettleBatches(s, c, a, e)
  PROVE  /\ batch \in Seq(Event) /\ batch # <<>> /\ Settles(log, c, batch)
         /\ PaidTerminal(batch)
         /\ \A i \in DOMAIN batch : batch[i].k \in Settlements => batch[i] = E(s, c, a)
<1> DEFINE x == E(s, c, a)
           y == E(e, c, 0)
           z == Runover
<1>1. /\ x \in Event /\ x.k = s /\ x.call = c /\ x.amount = a
      /\ y \in Event /\ y.k = e /\ y.call = c
      /\ z \in Event /\ z.k = "runover" /\ z.call = None
  <2>1. /\ s \in Kinds /\ e \in Kinds /\ "runover" \in Kinds /\ c \in Calls \cup {None}
        /\ a \in Nat \cup {Unknown} /\ 0 \in Nat \cup {Unknown}
    BY DEF Kinds, Settlements
  <2>2. x \in Event /\ x.k = s /\ x.call = c /\ x.amount = a
    BY <2>1, EventFields
  <2>3. y \in Event /\ y.k = e /\ y.call = c
    BY <2>1, EventFields
  <2>4. z \in Event /\ z.k = "runover" /\ z.call = None
    BY <2>1 DEF Runover, E, Event
  <2> QED
    BY <2>2, <2>3, <2>4
<1> HIDE DEF x, y, z
<1>2. Status(log, c) = "reserved" /\ ~Terminal(log, c) /\ Has(log, "proposed", c)
  <2>1. Status(log, c) = "reserved" /\ ~Terminal(log, c)
    BY DEF Interrupted, OneOpen
  <2> QED
    BY <2>1, StatusIs, ReplayOrder
<1>3. Accepts(log, x)
  BY <1>1, <1>2, AcceptsSettlements DEF Settlements
<1>4. log \o <<x>> \in Seq(Event) /\ <<x>> \in Seq(Event)
  BY <1>1
<1>5. /\ \A k : Has(log \o <<x>>, k, c) <=> Has(log, k, c) \/ k = s
      /\ Has(log \o <<x>>, "proposed", c)
  <2>1. ASSUME NEW k
        PROVE  Has(log \o <<x>>, k, c) <=> Has(log, k, c) \/ k = s
    BY <1>1, <1>4, HasConcat, HasOne
  <2> QED
    BY <1>2, <2>1
<1>6. ~Terminal(log \o <<x>>, c) /\ IsSettled(log \o <<x>>, c)
  BY <1>2, <1>5 DEF Terminal, IsSettled, Settlements
<1>7. Accepts(log \o <<x>>, y)
  BY <1>1, <1>5, <1>6, StatusIs, AcceptsEnds DEF Settlements
<1>8. \A l : Accepts(l, z)
  BY <1>1, AcceptsEnds
<1>9. BatchOK(log, batch) /\ batch \in Seq(Event)
  <2>1. BatchOK(log, <<x, y>>) /\ <<x, y>> \in Seq(Event)
    BY <1>1, <1>3, <1>7, BatchTwo
  <2>2. BatchOK(log, <<x, z>>) /\ <<x, z>> \in Seq(Event)
    BY <1>1, <1>3, <1>8, BatchTwo
  <2>3. BatchOK(log, <<x, y, z>>) /\ <<x, y, z>> \in Seq(Event)
    BY <1>1, <1>3, <1>7, <1>8, BatchThree
  <2> QED
    BY <2>1, <2>2, <2>3 DEF SettleBatches, x, y, z
<1>10. /\ DOMAIN batch \in {{1, 2}, {1, 2, 3}} /\ 1 \in DOMAIN batch
       /\ batch[1] = x /\ batch[2] \in {y, z} /\ (3 \in DOMAIN batch => batch[3] = z)
  <2>1. DOMAIN <<x, y>> = {1, 2} /\ <<x, y>>[1] = x /\ <<x, y>>[2] = y
    OBVIOUS
  <2>2. DOMAIN <<x, z>> = {1, 2} /\ <<x, z>>[1] = x /\ <<x, z>>[2] = z
    OBVIOUS
  <2>3. /\ DOMAIN <<x, y, z>> = {1, 2, 3} /\ <<x, y, z>>[1] = x /\ <<x, y, z>>[2] = y
        /\ <<x, y, z>>[3] = z
    OBVIOUS
  <2>4. batch \in {<<x, y>>, <<x, z>>, <<x, y, z>>}
    BY DEF SettleBatches, x, y, z
  <2>5. CASE batch = <<x, y>>
    BY <2>1, <2>5
  <2>6. CASE batch = <<x, z>>
    BY <2>2, <2>6
  <2>7. CASE batch = <<x, y, z>>
    BY <2>3, <2>7
  <2> QED
    BY <2>4, <2>5, <2>6, <2>7
<1>11. \A i \in DOMAIN batch : batch[i].k \in Settlements \cup {"reserved"} => batch[i] = x
  <2>1. y.k \notin Settlements \cup {"reserved"} /\ z.k \notin Settlements \cup {"reserved"}
    BY <1>1 DEF Settlements
  <2> QED
    BY <1>10, <2>1
<1>12. IsSettled(batch, c) /\ PaidTerminal(batch)
  BY <1>1, <1>10 DEF IsSettled, PaidTerminal, Has
<1>13. \A d \in Calls : ~Has(batch, "reserved", d)
  BY <1>1, <1>11 DEF Has, Settlements
<1>14. Interrupted(log \o batch) = {}
  BY <1>9, <1>12, <1>13, NoneOpenAfter
<1>15. Settles(log, c, batch)
  BY <1>1, <1>9, <1>10, <1>11, <1>14 DEF Settles
<1>16. batch # <<>>
  BY <1>10
<1> QED
  BY <1>9, <1>11, <1>12, <1>15, <1>16 DEF x

(* A batch that neither reserves nor settles is offered by a process at rest. *)
LEMMA QuietOffer ==
  ASSUME SpendInv, NEW p \in Procs, proc[p].at \in {"idle", "inferring", "tools"},
         NEW batch \in Seq(Event), batch # <<>>, BatchOK(proc[p].log, batch),
         \A i \in DOMAIN batch : batch[i].k \notin Settlements \cup {"reserved"},
         NEW then \in {"idle", "inferring", "tools"}, NEW ex
  PROVE  Offers(p, batch, then) /\ Covers(proc[p].tool, batch, ex, sent, charge)
<1>1. proc[p].log \in Seq(Event) /\ Interrupted(proc[p].log) = {}
  BY DEF SpendInv, TypesInv, LedgerInv, Process, LogOK
<1>2. \A c \in Calls : ~Has(batch, "reserved", c)
  BY DEF Has
<1>3. Interrupted(proc[p].log \o batch) = {}
  BY <1>1, <1>2, NoneOpenAfter
<1>4. ~PaidTerminal(batch)
  BY DEF PaidTerminal
<1>5. Covers(proc[p].tool, batch, ex, sent, charge)
  BY DEF Covers, Settlements
<1> QED
  BY <1>3, <1>4, <1>5 DEF Offers

(* The same, of the whole step. *)
LEMMA QuietStep ==
  ASSUME SpendInv, NEW p \in Procs, proc[p].at \in {"idle", "inferring", "tools"},
         NEW batch \in Seq(Event), batch # <<>>, BatchOK(proc[p].log, batch),
         \A i \in DOMAIN batch : batch[i].k \notin Settlements \cup {"reserved"},
         NEW then \in {"idle", "inferring", "tools"},
         Commit(p, batch, then), UNCHANGED <<executor, sent, charge, opens>>
  PROVE  SpendInv'
<1>1. Offers(p, batch, then) /\ Covers(proc[p].tool, batch, executor', sent, charge)
  BY QuietOffer
<1>2. /\ executor' \in [Calls -> Procs \cup {None}] /\ sent' = sent /\ charge' = charge
      /\ opens' = opens /\ executor' = executor
  BY DEF SpendInv, TypesInv
<1> QED
  BY <1>1, <1>2, CommitStep
(* Batches of events that no ledger refuses. *)
LEMMA NeutralBatch ==
  ASSUME NEW log \in Seq(Event), NEW batch \in Seq(Event),
         \A i \in DOMAIN batch : batch[i].k \in {"ceiling", "runover", "inference", "cost"}
  PROVE  /\ BatchOK(log, batch)
         /\ \A i \in DOMAIN batch : batch[i].k \notin Settlements \cup {"reserved"}
BY AcceptsEnds DEF BatchOK, Settlements

(* The process at rest, its log and what it accepts. *)
LEMMA AtRestLog ==
  ASSUME SpendInv, NEW p \in Procs
  PROVE  /\ proc[p] \in Process /\ proc[p].log \in Seq(Event) /\ Replays(proc[p].log)
         /\ store \in Seq(Event) /\ PrefixOf(proc[p].log, store)
         /\ Holds(proc[p]) /\ LogOK(proc[p])
<1>1. /\ proc[p] \in Process /\ proc[p].log \in Seq(Event) /\ store \in Seq(Event)
      /\ PrefixOf(proc[p].log, store) /\ Replays(store) /\ Holds(proc[p]) /\ LogOK(proc[p])
  BY DEF SpendInv, TypesInv, LedgerInv, Process
<1> QED
  BY <1>1, ReplaysPrefix

(* SetCeiling keeps the invariant. *)
LEMMA SetCeilingStep ==
  ASSUME SpendInv, NEW p \in Procs, NEW a \in Ceilings, SetCeiling(p, a)
  PROVE  SpendInv'
<1> DEFINE x == E("ceiling", None, a)
           batch == <<x, Runover>>
<1>1. a \in Nat \cup {Unknown}
  BY SpendAssumption
<1>2. x \in Event /\ x.k = "ceiling"
  BY <1>1, EventFields DEF Kinds
<1>3. Runover \in Event /\ Runover.k = "runover"
  BY EventFields DEF Kinds, Runover
<1> HIDE DEF x
<1>4. /\ batch \in Seq(Event) /\ batch # <<>> /\ DOMAIN batch = {1, 2}
      /\ batch[1] = x /\ batch[2] = Runover
  BY <1>2, <1>3
<1>5. Commit(p, batch, "idle") /\ proc[p].at = "idle"
  BY DEF SetCeiling, x, Runover
<1>6. UNCHANGED <<executor, sent, charge, opens>>
  BY DEF SetCeiling
<1> HIDE DEF batch
<1>7. \A i \in DOMAIN batch : batch[i].k \in {"ceiling", "runover", "inference", "cost"}
  BY <1>2, <1>3, <1>4
<1> QED
  BY <1>4, <1>5, <1>6, <1>7, AtRestLog, NeutralBatch, QuietStep

(* Submit and Continue begin an inference. *)
LEMMA InferenceStep ==
  ASSUME SpendInv, NEW p \in Procs, Submit(p) \/ Continue(p)
  PROVE  SpendInv'
<1> DEFINE x == E("inference", None, 0)
           batch == <<x>>
<1>1. x \in Event /\ x.k = "inference"
  BY EventFields DEF Kinds
<1> HIDE DEF x
<1>2. batch \in Seq(Event) /\ batch # <<>> /\ DOMAIN batch = {1} /\ batch[1] = x
  BY <1>1
<1>3. Commit(p, batch, "inferring") /\ proc[p].at \in {"idle", "tools"}
  BY DEF Submit, Continue, x
<1>4. UNCHANGED <<executor, sent, charge, opens>>
  BY DEF Submit, Continue
<1> HIDE DEF batch
<1>5. \A i \in DOMAIN batch : batch[i].k \in {"ceiling", "runover", "inference", "cost"}
  BY <1>1, <1>2
<1> QED
  BY <1>2, <1>3, <1>4, <1>5, AtRestLog, NeutralBatch, QuietStep

(* EndInference keeps the invariant. *)
LEMMA EndInferenceStep ==
  ASSUME SpendInv, NEW p \in Procs, NEW a \in Costs, EndInference(p, a)
  PROVE  SpendInv'
<1> DEFINE x == E("cost", None, a)
<1>1. a \in Nat \cup {Unknown}
  BY SpendAssumption
<1>2. x \in Event /\ x.k = "cost"
  <2>1. "cost" \in Kinds /\ None \in Calls \cup {None}
    BY DEF Kinds
  <2> QED
    BY <1>1, <2>1, EventFields
<1>3. Runover \in Event /\ Runover.k = "runover"
  BY EventFields DEF Kinds, Runover
<1>4. proc[p].at = "inferring" /\ UNCHANGED <<executor, sent, charge, opens>>
  BY DEF EndInference
<1>5. Commit(p, <<x>>, "tools") \/ Commit(p, <<x, Runover>>, "idle")
  BY DEF EndInference, Runover
<1> HIDE DEF x
<1>6. CASE Commit(p, <<x>>, "tools")
  <2> DEFINE batch == <<x>>
  <2>1. batch \in Seq(Event) /\ batch # <<>> /\ DOMAIN batch = {1} /\ batch[1] = x
    BY <1>2
  <2>2. Commit(p, batch, "tools")
    BY <1>6
  <2> HIDE DEF batch
  <2>3. \A i \in DOMAIN batch : batch[i].k \in {"ceiling", "runover", "inference", "cost"}
    BY <1>2, <2>1
  <2> QED
    BY <1>4, <2>1, <2>2, <2>3, AtRestLog, NeutralBatch, QuietStep
<1>7. CASE Commit(p, <<x, Runover>>, "idle")
  <2> DEFINE batch == <<x, Runover>>
  <2>1. /\ batch \in Seq(Event) /\ batch # <<>> /\ DOMAIN batch = {1, 2}
        /\ batch[1] = x /\ batch[2] = Runover
    BY <1>2, <1>3
  <2>2. Commit(p, batch, "idle")
    BY <1>7
  <2> HIDE DEF batch
  <2>3. \A i \in DOMAIN batch : batch[i].k \in {"ceiling", "runover", "inference", "cost"}
    BY <1>2, <1>3, <2>1
  <2> QED
    BY <1>4, <2>1, <2>2, <2>3, AtRestLog, NeutralBatch, QuietStep
<1> QED
  BY <1>5, <1>6, <1>7

(* A batch of one event of a call that neither reserves nor settles. *)
LEMMA OneEventStep ==
  ASSUME SpendInv, NEW p \in Procs, proc[p].at \in {"idle", "inferring", "tools"},
         NEW x \in Event, Accepts(proc[p].log, x), x.k \notin Settlements \cup {"reserved"},
         NEW then \in {"idle", "inferring", "tools"},
         Commit(p, <<x>>, then), UNCHANGED <<executor, sent, charge, opens>>
  PROVE  SpendInv'
<1> DEFINE batch == <<x>>
<1>1. batch \in Seq(Event) /\ batch # <<>> /\ DOMAIN batch = {1} /\ batch[1] = x
  OBVIOUS
<1>2. BatchOK(proc[p].log, batch)
  <2>1. proc[p].log \in Seq(Event)
    BY AtRestLog
  <2> QED
    BY <2>1, BatchOne
<1>3. Commit(p, batch, then)
  OBVIOUS
<1> HIDE DEF batch
<1>4. \A i \in DOMAIN batch : batch[i].k \notin Settlements \cup {"reserved"}
  BY <1>1
<1> QED
  BY <1>1, <1>2, <1>3, <1>4, QuietStep

(* Propose keeps the invariant. *)
LEMMA ProposeStep ==
  ASSUME SpendInv, NEW p \in Procs, NEW c \in Calls, Propose(p, c)
  PROVE  SpendInv'
<1> DEFINE x == E("proposed", c, 0)
<1>1. x \in Event /\ x.k = "proposed" /\ x.call = c
  BY EventFields DEF Kinds
<1>2. /\ proc[p].at = "inferring" /\ ~Has(proc[p].log, "proposed", c)
      /\ Commit(p, <<x>>, "inferring") /\ UNCHANGED <<executor, sent, charge, opens>>
  BY DEF Propose
<1> HIDE DEF x
<1>3. Accepts(proc[p].log, x)
  BY <1>1, <1>2, AcceptsKinds
<1>4. x.k \notin Settlements \cup {"reserved"}
  BY <1>1 DEF Settlements
<1> QED
  BY <1>1, <1>2, <1>3, <1>4, OneEventStep
(* The calls waiting for a launch. *)
LEMMA PendingIs ==
  ASSUME NEW log \in Seq(Event), Replays(log), NEW c \in Pending(log)
  PROVE  /\ c \in Calls /\ Has(log, "proposed", c) /\ ~Terminal(log, c)
         /\ ~IsSettled(log, c) /\ ~Has(log, "reserved", c) /\ ~Has(log, "started", c)
<1>1. c \in Calls /\ Has(log, "proposed", c) /\ ~Terminal(log, c) /\ Status(log, c) = "none"
  BY DEF Pending, Positions, Has
<1> QED
  BY <1>1, StatusIs, ReplayOrder

(* Launch keeps the invariant. *)
LEMMA LaunchStep ==
  ASSUME SpendInv, NEW p \in Procs, NEW c \in Calls, Launch(p, c)
  PROVE  SpendInv'
<1> DEFINE log == proc[p].log
<1>1. log \in Seq(Event) /\ Replays(log) /\ LogOK(proc[p]) /\ Holds(proc[p])
  BY AtRestLog
<1>2. /\ proc[p].at = "tools" /\ c \in Pending(log)
      /\ UNCHANGED <<executor, sent, charge, opens>>
  BY DEF Launch
<1>3. /\ Has(log, "proposed", c) /\ ~Terminal(log, c) /\ ~IsSettled(log, c)
      /\ ~Has(log, "reserved", c) /\ ~Has(log, "started", c)
  BY <1>1, <1>2, PendingIs
<1>4. CASE Commit(p, <<E("errored", c, 0)>>, "tools")
  <2> DEFINE x == E("errored", c, 0)
  <2>1. x \in Event /\ x.k = "errored" /\ x.call = c
    BY EventFields DEF Kinds
  <2>2. Commit(p, <<x>>, "tools")
    BY <1>4
  <2> HIDE DEF x
  <2>3. Accepts(log, x) /\ x.k \notin Settlements \cup {"reserved"}
    BY <1>3, <2>1, AcceptsEnds, StatusIs DEF Settlements
  <2> QED
    BY <1>2, <2>1, <2>2, <2>3, OneEventStep
<1>5. CASE Commit(p, <<E("reserved", c, Quote[c]), E("started", c, 0)>>, "spawn")
  <2> DEFINE a == Quote[c]
             x == E("reserved", c, a)
             y == E("started", c, 0)
             batch == <<x, y>>
  <2>1. a \in Nat \cup {Unknown} /\ "reserved" \in Kinds /\ "started" \in Kinds
    BY SpendAssumption DEF Kinds
  <2> HIDE DEF a
  <2>2. x \in Event /\ x.k = "reserved" /\ x.call = c
    BY <2>1, EventFields
  <2>3. y \in Event /\ y.k = "started" /\ y.call = c
    BY <2>1, EventFields
  <2>4. Commit(p, batch, "spawn")
    BY <1>5 DEF a
  <2> HIDE DEF x, y
  <2>5. Accepts(log, x)
    BY <1>3, <2>2, AcceptsKinds, StatusIs
  <2>6. <<x>> \in Seq(Event)
    BY <2>2
  <2>7. ASSUME NEW k
        PROVE  Has(log \o <<x>>, k, c) <=> Has(log, k, c) \/ k = "reserved"
    <3>1. Has(log \o <<x>>, k, c) <=> Has(log, k, c) \/ Has(<<x>>, k, c)
      BY <1>1, <2>6, HasConcat
    <3> QED
      BY <2>2, <3>1, HasOne
  <2>8. Accepts(log \o <<x>>, y)
    BY <1>3, <2>3, <2>7, AcceptsKinds, StatusIs DEF IsSettled, Settlements
  <2>9. BatchOK(log, batch) /\ batch \in Seq(Event)
    BY <1>1, <2>2, <2>3, <2>5, <2>8, BatchTwo
  <2>10. DOMAIN batch = {1, 2} /\ batch[1] = x /\ batch[2] = y /\ batch # <<>> /\ Head(batch) = x
    OBVIOUS
  <2> HIDE DEF batch
  <2>11. ~PaidTerminal(batch) /\ \A d : ~IsSettled(batch, d)
    BY <2>2, <2>3, <2>10 DEF PaidTerminal, IsSettled, Settlements, Has
  <2>12. \A d : Has(batch, "reserved", d) <=> d = c
    BY <2>2, <2>3, <2>10 DEF Has
  <2>13. Interrupted(log) = {}
    BY <1>1, <1>2 DEF LogOK
  <2>14. Interrupted(log \o batch) = {c}
    <3>1. Interrupted(log \o batch) \subseteq Calls
      BY DEF Interrupted
    <3>2. ASSUME NEW d \in Calls
          PROVE  d \in Interrupted(log \o batch) <=> d = c
      BY <1>1, <1>3, <2>9, <2>11, <2>12, <2>13, OpenAfter, OpenNow
    <3> QED
      BY <3>1, <3>2
  <2>15. Has(batch, "started", c) /\ ~Has(batch, "result", c) /\ ~Has(batch, "errored", c)
    BY <2>2, <2>3, <2>10 DEF Has
  <2>16. Has(log \o batch, "started", c) /\ ~Terminal(log \o batch, c)
    BY <1>1, <1>3, <2>9, <2>15, HasConcat DEF Terminal
  <2>17. Offers(p, batch, "spawn")
    BY <1>3, <2>2, <2>9, <2>10, <2>11, <2>14, <2>16 DEF Offers
  <2>18. Covers(proc[p].tool, batch, executor', sent, charge)
    BY <2>2, <2>3, <2>10 DEF Covers
  <2>19. /\ executor' \in [Calls -> Procs \cup {None}] /\ sent' = sent /\ charge' = charge
         /\ opens' = opens /\ executor' = executor
    BY <1>2 DEF SpendInv, TypesInv
  <2> QED
    BY <2>4, <2>17, <2>18, <2>19, CommitStep
<1> QED
  BY <1>4, <1>5 DEF Launch
(* SetToSeq lists a finite set without repetition. *)
LEMMA ListedOnce ==
  ASSUME NEW S, IsFiniteSet(S)
  PROVE  /\ Cardinality(S) \in Nat
         /\ SetToSeq(S) \in [1..Cardinality(S) -> S]
         /\ \A i, j \in 1..Cardinality(S) : SetToSeq(S)[i] = SetToSeq(S)[j] => i = j
<1>1. Cardinality(S) \in Nat /\ ExistsBijection(1..Cardinality(S), S)
  BY FS_CardinalityType
<1>2. PICK f \in [1..Cardinality(S) -> S] : IsInjective(f)
  BY <1>1 DEF ExistsBijection, Bijection, Injection
<1>3. SetToSeq(S) \in [1..Cardinality(S) -> S] /\ IsInjective(SetToSeq(S))
  BY <1>2 DEF SetToSeq
<1> QED
  BY <1>1, <1>3 DEF IsInjective

(* The calls of a cancelled run are closed one by one. *)
LEMMA CloseBatch ==
  ASSUME NEW log \in Seq(Event), Replays(log), NEW n \in Nat,
         NEW f \in [1..n -> Pending(log)], \A i, j \in 1..n : f[i] = f[j] => i = j,
         NEW closed \in Seq(Event), Len(closed) = n,
         \A i \in 1..n : closed[i] = E("errored", f[i], 0)
  PROVE  /\ closed \o <<Runover>> \in Seq(Event) /\ closed \o <<Runover>> # <<>>
         /\ BatchOK(log, closed \o <<Runover>>)
         /\ \A i \in DOMAIN (closed \o <<Runover>>) :
              (closed \o <<Runover>>)[i].k \notin Settlements \cup {"reserved"}
<1> DEFINE batch == closed \o <<Runover>>
<1>1. Runover \in Event /\ Runover.k = "runover"
  BY EventFields DEF Kinds, Runover
<1>2. ASSUME NEW i \in 1..n
      PROVE  closed[i].k = "errored" /\ closed[i].call = f[i]
  BY DEF E
<1>3. DOMAIN closed = 1..n
  OBVIOUS
<1>4. <<Runover>> \in Seq(Event) /\ Len(<<Runover>>) = 1 /\ <<Runover>>[1] = Runover
  BY <1>1
<1>5. /\ batch \in Seq(Event) /\ Len(batch) = n + 1 /\ DOMAIN batch = 1..(n + 1)
      /\ \A i \in 1..n : batch[i] = closed[i]
      /\ batch[n + 1] = Runover
  BY <1>3, <1>4
<1> HIDE DEF batch
<1>6. ASSUME NEW i \in DOMAIN batch
      PROVE  Accepts(log \o SubSeq(batch, 1, i - 1), batch[i])
  <2>1. CASE i = n + 1
    BY <1>1, <1>5, <2>1, AcceptsEnds
  <2>2. CASE i \in 1..n
    <3> DEFINE part == SubSeq(batch, 1, i - 1)
               c == f[i]
    <3>1. part \in Seq(Event) /\ DOMAIN part = 1..(i - 1)
      BY <1>5, <2>2
    <3>2. \A j \in 1..(i - 1) : part[j] = closed[j] /\ j \in 1..n /\ j # i
      BY <1>5, <2>2, SubSeqProperties
    <3> HIDE DEF part
    <3>3. ASSUME NEW j \in DOMAIN part
          PROVE  part[j].k = "errored" /\ part[j].call # c
      <4>1. part[j] = closed[j] /\ j \in 1..n /\ j # i
        BY <3>1, <3>2
      <4>2. closed[j].k = "errored" /\ closed[j].call = f[j]
        BY <1>2, <4>1
      <4>3. f[j] # f[i]
        BY <2>2, <4>1
      <4> QED
        BY <4>1, <4>2, <4>3
    <3>4. /\ c \in Calls /\ Has(log, "proposed", c) /\ ~Terminal(log, c)
          /\ ~Has(log, "reserved", c)
      BY <2>2, PendingIs
    <3>5. ~Has(part, "errored", c) /\ ~Has(part, "result", c) /\ ~Has(part, "reserved", c)
      BY <3>3 DEF Has
    <3>6. /\ Has(log \o part, "proposed", c) /\ ~Terminal(log \o part, c)
          /\ ~Has(log \o part, "reserved", c)
      BY <3>1, <3>4, <3>5, HasConcat DEF Terminal
    <3>7. batch[i].k = "errored" /\ batch[i].call = c
      BY <1>2, <1>5, <2>2
    <3>8. Accepts(log \o part, batch[i])
      BY <3>6, <3>7, AcceptsEnds, StatusIs
    <3> QED
      BY <3>8 DEF part
  <2> QED
    BY <1>5, <2>1, <2>2
<1>7. \A i \in DOMAIN batch : batch[i].k \notin Settlements \cup {"reserved"}
  BY <1>1, <1>2, <1>5 DEF Settlements
<1>8. batch # <<>>
  BY <1>5
<1>9. BatchOK(log, batch)
  BY <1>6 DEF BatchOK
<1> QED
  BY <1>5, <1>7, <1>8, <1>9 DEF batch

(* EndRun keeps the invariant. *)
LEMMA EndRunStep ==
  ASSUME SpendInv, NEW p \in Procs, EndRun(p)
  PROVE  SpendInv'
<1> DEFINE log == proc[p].log
           open == SetToSeq(Pending(log))
           n == Cardinality(Pending(log))
<1>1. log \in Seq(Event) /\ Replays(log)
  BY AtRestLog
<1>2. IsFiniteSet(Pending(log))
  <2>1. Pending(log) \in SUBSET Calls
    BY DEF Pending
  <2> QED
    BY <2>1, SpendAssumption, FS_Subset
<1>3. /\ n \in Nat /\ open \in [1..n -> Pending(log)]
      /\ \A i, j \in 1..n : open[i] = open[j] => i = j
  BY <1>2, ListedOnce
<1>4. PICK closed \in {<<>>, [i \in DOMAIN open |-> E("errored", open[i], 0)]} :
        Commit(p, closed \o <<Runover>>, "idle")
  BY DEF EndRun, Runover
<1>5. proc[p].at = "tools" /\ UNCHANGED <<executor, sent, charge, opens>>
  BY DEF EndRun
<1> HIDE DEF open, n
<1>6. /\ closed \o <<Runover>> \in Seq(Event) /\ closed \o <<Runover>> # <<>>
      /\ BatchOK(log, closed \o <<Runover>>)
      /\ \A i \in DOMAIN (closed \o <<Runover>>) :
           (closed \o <<Runover>>)[i].k \notin Settlements \cup {"reserved"}
  <2>1. CASE closed = <<>>
    <3>1. Runover \in Event /\ Runover.k = "runover"
      BY EventFields DEF Kinds, Runover
    <3>2. closed \o <<Runover>> = <<Runover>>
      BY <2>1, <3>1
    <3>3. <<Runover>> \in Seq(Event) /\ DOMAIN <<Runover>> = {1} /\ <<Runover>>[1] = Runover
      BY <3>1
    <3>4. BatchOK(log, <<Runover>>)
      <4>1. Accepts(log, Runover)
        BY <3>1, AcceptsEnds
      <4> QED
        BY <1>1, <3>1, <4>1, BatchOne
    <3>5. Runover.k \notin Settlements \cup {"reserved"}
      BY <3>1 DEF Settlements
    <3> DEFINE b == <<Runover>>
    <3>6. \A i \in DOMAIN b : b[i].k \notin Settlements \cup {"reserved"}
      BY <3>3, <3>5
    <3>7. b # <<>> /\ b \in Seq(Event) /\ BatchOK(log, b)
      BY <3>3, <3>4
    <3> HIDE DEF b
    <3>8. closed \o <<Runover>> = b
      BY <3>2 DEF b
    <3> QED
      BY <3>6, <3>7, <3>8
  <2>2. CASE closed = [i \in DOMAIN open |-> E("errored", open[i], 0)]
    <3>1. DOMAIN open = 1..n
      BY <1>3
    <3>2. \A i \in 1..n : closed[i] = E("errored", open[i], 0)
      BY <2>2, <3>1
    <3>3. ASSUME NEW i \in 1..n
          PROVE  E("errored", open[i], 0) \in Event
      <4>1. open[i] \in Calls /\ "errored" \in Kinds
        BY <1>1, <1>3, PendingIs DEF Kinds
      <4> QED
        BY <4>1 DEF E, Event
    <3>4. closed \in [1..n -> Event]
      BY <2>2, <3>1, <3>3
    <3>5. closed \in Seq(Event) /\ Len(closed) = n
      BY <1>3, <3>4
    <3> HIDE DEF log
    <3> QED
      BY <1>1, <1>3, <3>2, <3>5, CloseBatch
  <2> QED
    BY <1>4, <2>1, <2>2
<1> QED
  BY <1>4, <1>5, <1>6, QuietStep
(* The settlement of the call a process holds: released only if no executor works
   on it and the provider was not contacted, finalized only at no less than what
   was charged. *)
LEMMA SettleStep ==
  ASSUME SpendInv, NEW p \in Procs, proc[p].at \in AtTool,
         NEW c, c = proc[p].tool, NEW s \in Settlements, NEW a \in Nat,
         NEW e \in {"result", "errored"},
         NEW batch \in SettleBatches(s, c, a, e),
         NEW then \in {"idle", "tools"}, Commit(p, batch, then),
         executor' \in [Calls -> Procs \cup {None}],
         \A d \in Calls : executor'[d] # executor[d] => d = c /\ executor'[d] = None,
         sent' = sent, charge' = charge, opens' = opens,
         s = "released" => executor'[c] = None /\ c \notin sent,
         s = "finalized" => /\ executor'[c] = None /\ c \in sent
                            /\ charge[c] <= a /\ a <= Quote[c]
  PROVE  SpendInv'
<1> DEFINE log == proc[p].log
<1>1. /\ log \in Seq(Event) /\ Replays(log) /\ OneOpen(log) /\ c \in Calls
      /\ Interrupted(log) = {c} /\ Has(log, "started", c)
  BY AtRestLog DEF Holds, LogOK
<1>2. /\ batch \in Seq(Event) /\ batch # <<>> /\ Settles(log, c, batch) /\ PaidTerminal(batch)
      /\ \A i \in DOMAIN batch : batch[i].k \in Settlements => batch[i] = E(s, c, a)
  <2>1. (s # "released" => Has(log, "started", c)) /\ (s = "finalized" => a <= Quote[c])
    BY <1>1
  <2> HIDE DEF log
  <2> QED
    BY <1>1, <2>1, SettleBatch
<1>3. Offers(p, batch, then)
  BY <1>1, <1>2 DEF Offers, Settles
<1>4. E(s, c, a).k = s /\ E(s, c, a).amount = a
  BY DEF E
<1>5. Covers(c, batch, executor', sent, charge)
  <2> SUFFICES ASSUME NEW i \in DOMAIN batch, batch[i].k \in {"released", "finalized"}
               PROVE  /\ batch[i].k = "released" => executor'[c] = None /\ c \notin sent
                      /\ batch[i].k = "finalized" =>
                           executor'[c] = None /\ c \in sent /\ charge[c] <= batch[i].amount
    BY DEF Covers
  <2>1. batch[i] = E(s, c, a)
    BY <1>2 DEF Settlements
  <2> QED
    BY <1>4, <2>1
<1> QED
  BY <1>3, <1>5, CommitStep

(* SpawnFails keeps the invariant. *)
LEMMA SpawnFailsStep ==
  ASSUME SpendInv, NEW p \in Procs, SpawnFails(p)
  PROVE  SpendInv'
<1> DEFINE c == proc[p].tool
<1>1. proc[p].at = "spawn" /\ proc[p].at \in AtTool
  BY DEF SpawnFails, AtTool
<1>2. executor[c] = None /\ c \notin sent
  BY <1>1 DEF SpendInv, ChargeInv, Owed
<1>3. /\ executor' \in [Calls -> Procs \cup {None}] /\ executor' = executor
      /\ sent' = sent /\ charge' = charge /\ opens' = opens
  BY DEF SpawnFails, SpendInv, TypesInv
<1> DEFINE batch == <<E("released", c, 0), E("errored", c, 0)>>
<1>4. Commit(p, batch, "tools") /\ batch \in SettleBatches("released", c, 0, "errored")
  BY DEF SpawnFails, SettleBatches
<1>5. "released" \in Settlements
  BY DEF Settlements
<1> HIDE DEF c, batch
<1>6. c = proc[p].tool
  BY DEF c
<1> QED
  BY <1>1, <1>2, <1>3, <1>4, <1>5, <1>6, SettleStep

(* CloseEarly keeps the invariant. *)
LEMMA CloseEarlyStep ==
  ASSUME SpendInv, NEW p \in Procs, CloseEarly(p)
  PROVE  SpendInv'
<1> DEFINE c == proc[p].tool
           x == E("reconcile", c, 0)
           y == E("errored", c, 0)
<1>1. proc[p].at \in AtTool
  BY DEF CloseEarly, AtTool
<1>2. /\ executor' \in [Calls -> Procs \cup {None}] /\ executor' = executor
      /\ sent' = sent /\ charge' = charge /\ opens' = opens
  BY DEF CloseEarly, SpendInv, TypesInv
<1>3. PICK batch \in SettleBatches("reconcile", c, 0, "errored"), then \in {"idle", "tools"} :
        Commit(p, batch, then)
  BY DEF CloseEarly, SettleBatches, Runover
<1>4. "reconcile" \in Settlements
  BY DEF Settlements
<1> HIDE DEF c
<1>5. c = proc[p].tool
  BY DEF c
<1> QED
  BY <1>1, <1>2, <1>3, <1>4, <1>5, SettleStep

(* Report keeps the invariant. *)
LEMMA ReportStep ==
  ASSUME SpendInv, NEW p \in Procs, Report(p)
  PROVE  SpendInv'
<1> DEFINE c == proc[p].tool
<1>1. proc[p].at \in AtTool
  BY DEF Report, AtTool
<1>2. c \in Calls
  BY <1>1, AtRestLog DEF Holds
<1>3. sent' = sent /\ charge' = charge /\ opens' = opens
  BY DEF Report
<1>4. executor' = [executor EXCEPT ![c] = None]
  BY DEF Report
<1>5. executor \in [Calls -> Procs \cup {None}] /\ charge \in [Calls -> Nat]
  BY DEF SpendInv, TypesInv
<1>6. /\ executor' \in [Calls -> Procs \cup {None}] /\ executor'[c] = None
      /\ \A d \in Calls : executor'[d] # executor[d] => d = c /\ executor'[d] = None
  BY <1>2, <1>4, <1>5
<1>7. \/ \E end \in {"result", "errored"} :
           \/ /\ c \in sent
              /\ \E a \in charge[c]..Quote[c] :
                   Commit(p, <<E("finalized", c, a), E(end, c, 0)>>, "tools")
           \/ c \notin sent /\ Commit(p, <<E("released", c, 0), E(end, c, 0)>>, "tools")
           \/ Commit(p, <<E("reconcile", c, 0), E(end, c, 0)>>, "tools")
      \/ Commit(p, <<E("reconcile", c, 0), E("errored", c, 0), Runover>>, "idle")
  BY DEF Report, ReconcileBatch, Runover
<1>8. {"released", "finalized", "reconcile"} \subseteq Settlements
  BY DEF Settlements
<1>9. charge[c] \in Nat /\ Quote[c] \in Nat
  BY <1>2, <1>5, SpendAssumption
<1> HIDE DEF c
<1>10. c = proc[p].tool
  BY DEF c
<1>11. ASSUME NEW end \in {"result", "errored"}, c \in sent, NEW a \in charge[c]..Quote[c],
              Commit(p, <<E("finalized", c, a), E(end, c, 0)>>, "tools")
       PROVE  SpendInv'
  <2>1. a \in Nat /\ charge[c] <= a /\ a <= Quote[c]
    BY <1>9
  <2> DEFINE batch == <<E("finalized", c, a), E(end, c, 0)>>
  <2>2. /\ Commit(p, batch, "tools")
        /\ batch \in SettleBatches("finalized", c, a, end)
    BY <1>11 DEF SettleBatches
  <2> HIDE DEF batch
  <2> QED
    BY <1>1, <1>3, <1>6, <1>8, <1>10, <1>11, <2>1, <2>2, SettleStep
<1>12. ASSUME NEW end \in {"result", "errored"}, c \notin sent,
              Commit(p, <<E("released", c, 0), E(end, c, 0)>>, "tools")
       PROVE  SpendInv'
  <2> DEFINE batch == <<E("released", c, 0), E(end, c, 0)>>
  <2>1. /\ Commit(p, batch, "tools")
        /\ batch \in SettleBatches("released", c, 0, end)
    BY <1>12 DEF SettleBatches
  <2> HIDE DEF batch
  <2> QED
    BY <1>1, <1>3, <1>6, <1>8, <1>10, <1>12, <2>1, SettleStep
<1>13. ASSUME NEW end \in {"result", "errored"},
              Commit(p, <<E("reconcile", c, 0), E(end, c, 0)>>, "tools")
       PROVE  SpendInv'
  <2> DEFINE batch == <<E("reconcile", c, 0), E(end, c, 0)>>
  <2>1. /\ Commit(p, batch, "tools")
        /\ batch \in SettleBatches("reconcile", c, 0, end)
    BY <1>13 DEF SettleBatches
  <2> HIDE DEF batch
  <2> QED
    BY <1>1, <1>3, <1>6, <1>8, <1>10, <1>13, <2>1, SettleStep
<1>14. ASSUME Commit(p, <<E("reconcile", c, 0), E("errored", c, 0), Runover>>, "idle")
       PROVE  SpendInv'
  <2> DEFINE batch == <<E("reconcile", c, 0), E("errored", c, 0), Runover>>
  <2>1. /\ Commit(p, batch, "idle")
        /\ batch \in SettleBatches("reconcile", c, 0, "errored")
    BY <1>14 DEF SettleBatches
  <2> HIDE DEF batch
  <2> QED
    BY <1>1, <1>3, <1>6, <1>8, <1>10, <1>14, <2>1, SettleStep
<1> QED
  BY <1>7, <1>11, <1>12, <1>13, <1>14
(***************************************************************************)
(* The recovery of a settlement.                                           *)
(***************************************************************************)
(* A process that goes on with the settlement it has under way, or gives up. *)
LEMMA RecoveryLeaves ==
  ASSUME SpendInv, NEW p \in Procs, proc[p].at \in Recovering, NEW x,
         \/ x = Adopted(p, proc[p].batch, proc[p].then)
         \/ x = Stopped(p)
         \/ x = Unusable(p)
  PROVE  /\ x \in Process /\ Holds(x) /\ LogOK(x) /\ x.tool = None /\ x.batch = <<>>
         /\ x.at \notin AtTool
         /\ x.log = IF x = Unusable(p) THEN proc[p].log ELSE proc[p].log \o proc[p].batch
<1> DEFINE log == proc[p].log
           batch == proc[p].batch
           then == proc[p].then
<1>1. /\ proc[p] \in Process /\ log \in Seq(Event) /\ batch \in Seq(Event)
      /\ batch # <<>> /\ then \in {"idle", "tools"} /\ Settles(log, proc[p].tool, batch)
      /\ LogOK(proc[p])
  BY AtRestLog DEF Process, Holds, LogOK
<1>2. Interrupted(log \o batch) = {} /\ OneOpen(log \o batch) /\ log \o batch \in Seq(Event)
  BY <1>1, Concat DEF Settles, OneOpen
<1>3. log # log \o batch
  <2> HIDE DEF log, batch
  <2>1. Len(batch) \in Nat /\ Len(batch) # 0 /\ Len(log) \in Nat
    BY <1>1, EmptySeq
  <2>2. Len(log \o batch) = Len(log) + Len(batch)
    BY <1>1, Concat
  <2> QED
    BY <2>1, <2>2
<1>4. CASE x = Adopted(p, batch, then)
  <2>1. x = [at |-> then, log |-> log \o batch, batch |-> <<>>, then |-> None, tool |-> None]
    BY <1>1, <1>4 DEF Adopted
  <2>2. /\ x.at = then /\ x.log = log \o batch /\ x.batch = <<>> /\ x.then = None
        /\ x.tool = None
    BY <2>1
  <2>3. x \in Process
    <3>1. then \in AtTool \cup Recovering \cup AtRest /\ None \in Calls \cup {None}
      BY <1>1 DEF AtRest
    <3> HIDE DEF log, batch, then
    <3> QED
      BY <1>2, <2>1, <3>1, AdoptedFields
  <2>4. Holds(x) /\ LogOK(x) /\ x.at \notin AtTool
    BY <1>1, <1>2, <2>2, SpendAssumption DEF Holds, LogOK, AtTool, Recovering
  <2>5. Unusable(p).log = log
    BY <1>1 DEF Unusable, Process
  <2> QED
    BY <1>3, <2>2, <2>3, <2>4, <2>5
<1>5. /\ Unusable(p) \in Process /\ Unusable(p).at = "unusable" /\ Unusable(p).tool = None
      /\ Unusable(p).batch = <<>> /\ Unusable(p).log = log
  <2>1. Unusable(p) \in Process
    BY <1>1, UnusableFields DEF Unusable
  <2> QED
    BY <1>1, <2>1 DEF Unusable, Process
<1>6. CASE x = Unusable(p)
  <2>1. Holds(x) /\ LogOK(x) /\ x.at \notin AtTool
    BY <1>1, <1>5, <1>6, SpendAssumption DEF Holds, LogOK, AtTool, Recovering
  <2> QED
    BY <1>5, <1>6, <2>1
<1>7. CASE x = Stopped(p)
  <2>1. x = [Unusable(p) EXCEPT !.log = log \o batch]
    BY <1>5, <1>7 DEF Stopped, Process
  <2>2. /\ x \in Process /\ x.at = "unusable" /\ x.tool = None /\ x.batch = <<>>
        /\ x.log = log \o batch
    BY <1>2, <1>5, <2>1 DEF Process
  <2>3. Holds(x) /\ LogOK(x) /\ x.at \notin AtTool
    BY <1>2, <2>2, SpendAssumption DEF Holds, LogOK, AtTool, Recovering
  <2> QED
    BY <1>3, <1>5, <2>2, <2>3
<1> QED
  BY <1>4, <1>6, <1>7

(* A step of a recovering process that adopts or drops its settlement, once it has
   seen it stored, or appends it. *)
LEMMA RecoveryStep ==
  ASSUME SpendInv, NEW p \in Procs, proc[p].at \in Recovering, NEW x,
         proc' = [proc EXCEPT ![p] = x],
         \/ x = Adopted(p, proc[p].batch, proc[p].then)
         \/ x = Stopped(p)
         \/ x = Unusable(p),
         \/ store' = store
         \/ store = proc[p].log /\ store' = store \o proc[p].batch,
         x # Unusable(p) => store' = proc[p].log \o proc[p].batch,
         UNCHANGED <<executor, sent, charge>>, faults' \in 0..MaxFaults, opens' = opens
  PROVE  SpendInv'
<1> DEFINE log == proc[p].log
           batch == proc[p].batch
<1>1. /\ TypesInv /\ LedgerInv /\ ChargeInv /\ proc[p] \in Process
      /\ log \in Seq(Event) /\ store \in Seq(Event) /\ batch \in Seq(Event)
      /\ executor \in [Calls -> Procs \cup {None}] /\ executor' = executor
      /\ sent' = sent /\ charge' = charge
      /\ Holds(proc[p]) /\ LogOK(proc[p]) /\ PrefixOf(log, store)
      /\ Owed(p, proc[p], store, executor, sent, charge)
  BY DEF SpendInv, TypesInv, LedgerInv, ChargeInv, Process
<1>2. /\ x \in Process /\ Holds(x) /\ LogOK(x) /\ x.tool = None /\ x.batch = <<>>
      /\ x.at \notin AtTool /\ x.log = IF x = Unusable(p) THEN log ELSE log \o batch
  BY RecoveryLeaves
<1>3. proc[p].tool \in Calls /\ Settles(log, proc[p].tool, batch)
  BY <1>1 DEF Holds, LogOK
<1>4. BatchOK(log, batch) /\ OneOpen(log \o batch) /\ log \o batch \in Seq(Event)
  BY <1>1, <1>3, Concat DEF Settles, OneOpen
<1>5. PrefixOf(x.log, store')
  <2>1. CASE x = Unusable(p)
    BY <1>1, <1>2, <2>1, PrefixAppend
  <2>2. CASE x # Unusable(p)
    BY <1>2, <1>4, <2>2, PrefixSelf
  <2> QED
    BY <2>1, <2>2
<1>6. store' \in Seq(Event) /\ proc' \in [Procs -> Process] /\ LedgerInv'
  BY <1>1, <1>2, <1>4, <1>5, LedgerStep
<1>7. TypesInv'
  BY <1>1, <1>6 DEF TypesInv
<1>8. ASSUME NEW i \in DOMAIN batch, batch[i].k \in {"released", "finalized"}
      PROVE  /\ batch[i].call \in Calls /\ executor'[batch[i].call] = None
             /\ \A q \in Procs \ {p} : proc[q].tool # batch[i].call
             /\ batch[i].k = "released" => batch[i].call \notin sent
             /\ batch[i].k = "finalized" => charge[batch[i].call] <= batch[i].amount
  <2>1. batch[i].call = proc[p].tool
    BY <1>3, <1>8 DEF Settles, Settlements
  <2>2. /\ executor[proc[p].tool] = None
        /\ batch[i].k = "released" => proc[p].tool \notin sent
        /\ batch[i].k = "finalized" => charge[proc[p].tool] <= batch[i].amount
    BY <1>1, <1>8 DEF Owed
  <2> QED
    BY <1>1, <1>3, <2>1, <2>2 DEF ChargeInv
<1>9. Owed(p, x, store', executor', sent, charge)
  BY <1>2 DEF Owed, AtTool
<1>10. x.tool \notin Calls
  BY <1>2, SpendAssumption
<1>11. ChargeInv'
  BY <1>1, <1>2, <1>8, <1>9, <1>10, ChargeStep
<1> QED
  BY <1>6, <1>7, <1>11 DEF SpendInv
(* The process with another step of the recovery, and another batch. *)
Restated(p, x, a, b) ==
  /\ x.at = a /\ x.batch = b /\ x.tool = proc[p].tool /\ x.log = proc[p].log
  /\ x.then = proc[p].then

(* It is a process. *)
LEMMA RestatedIs ==
  ASSUME NEW p, proc[p] \in Process, NEW a \in Recovering, NEW b \in Seq(Event),
         NEW x, x = [proc[p] EXCEPT !.at = a, !.batch = b]
  PROVE  x \in Process /\ Restated(p, x, a, b)
BY DEF Process, Restated

(* A step of a recovering process that goes on recovering, with a settlement of
   its call that is covered. *)
LEMMA RestateStep ==
  ASSUME SpendInv, NEW p \in Procs, proc[p].at \in Recovering,
         NEW a \in Recovering, NEW b \in Seq(Event), b # <<>>,
         Settles(proc[p].log, proc[p].tool, b),
         Covers(proc[p].tool, b, executor, sent, charge),
         NEW x \in Process, Restated(p, x, a, b), proc' = [proc EXCEPT ![p] = x],
         \/ store' = store
         \/ store = proc[p].log /\ store' = store \o b,
         UNCHANGED <<executor, sent, charge>>, faults' \in 0..MaxFaults, opens' = opens
  PROVE  SpendInv'
<1> DEFINE log == proc[p].log
           c == proc[p].tool
<1>1. /\ TypesInv /\ LedgerInv /\ ChargeInv /\ proc[p] \in Process
      /\ log \in Seq(Event) /\ store \in Seq(Event)
      /\ executor \in [Calls -> Procs \cup {None}] /\ executor' = executor
      /\ sent' = sent /\ charge' = charge
      /\ Holds(proc[p]) /\ LogOK(proc[p]) /\ PrefixOf(log, store)
  BY DEF SpendInv, TypesInv, LedgerInv, Process
<1>2. /\ x \in Process /\ x.at = a /\ x.batch = b /\ x.tool = c /\ x.log = log
      /\ x.then = proc[p].then
  BY DEF Restated
<1>3. proc' = [proc EXCEPT ![p] = x]
  OBVIOUS
<1>4. c \in Calls /\ proc[p].then \in {"idle", "tools"}
  BY <1>1 DEF Holds
<1>5. BatchOK(log, b) /\ OneOpen(log \o b)
  BY DEF Settles, OneOpen
<1>6. Holds(x) /\ LogOK(x)
  <2>1. Holds(x)
    BY <1>2, <1>4 DEF Holds
  <2>2. a \notin {"idle", "inferring", "tools"}
    BY DEF Recovering
  <2>3. LogOK(x)
    BY <1>1, <1>2, <1>4, <2>2 DEF LogOK
  <2> QED
    BY <2>1, <2>3
<1>7. PrefixOf(x.log, store')
  BY <1>1, <1>2, PrefixAppend
<1>8. store' \in Seq(Event) /\ proc' \in [Procs -> Process] /\ LedgerInv'
  BY <1>1, <1>2, <1>3, <1>5, <1>6, <1>7, LedgerStep
<1>9. TypesInv'
  BY <1>1, <1>8 DEF TypesInv
<1>10. ASSUME NEW i \in DOMAIN b, b[i].k \in {"released", "finalized"}
       PROVE  /\ b[i].call \in Calls /\ executor'[b[i].call] = None
              /\ \A q \in Procs \ {p} : proc[q].tool # b[i].call
              /\ b[i].k = "released" => b[i].call \notin sent
              /\ b[i].k = "finalized" => charge[b[i].call] <= b[i].amount
  <2>1. b[i].call = c
    BY <1>10 DEF Settles, Settlements
  <2>2. /\ executor[c] = None
        /\ b[i].k = "released" => c \notin sent
        /\ b[i].k = "finalized" => charge[c] <= b[i].amount
    BY <1>10 DEF Covers
  <2> QED
    BY <1>1, <1>4, <2>1, <2>2 DEF ChargeInv
<1>11. Owed(p, x, store', executor', sent, charge)
  <2>1. x.at # "spawn" /\ x.at # "running"
    BY <1>2 DEF Recovering
  <2> QED
    BY <1>1, <1>2, <2>1 DEF Owed, Covers
<1>12. x.tool \in Calls => \A q \in Procs \ {p} : proc[q].tool # x.tool
  BY <1>1, <1>2 DEF ChargeInv
<1>13. /\ \A i \in DOMAIN b : b[i].k \in {"released", "finalized"} =>
            /\ b[i].call \in Calls /\ executor'[b[i].call] = None
            /\ \A q \in Procs \ {p} : proc[q].tool # b[i].call
       /\ \A i \in DOMAIN b : b[i].k = "released" => b[i].call \notin sent
       /\ \A i \in DOMAIN b : b[i].k = "finalized" => charge[b[i].call] <= b[i].amount
  BY <1>10
<1>14. /\ \A d \in Calls : executor'[d] = executor[d]
       /\ executor' \in [Calls -> Procs \cup {None}]
       /\ store' = store \/ store' = store \o b
  BY <1>1
<1>15. ChargeInv'
  <2>1. x \in Process /\ TypesInv /\ LedgerInv /\ ChargeInv /\ sent' = sent /\ charge' = charge
    BY <1>1, <1>2
  <2>2. \A d \in Calls : executor'[d] # executor[d] =>
          \/ d = proc[p].tool
          \/ executor[d] = p /\ executor'[d] = None
    BY <1>14
  <2>3. \A d \in Calls : executor'[d] # None /\ executor'[d] # executor[d] =>
          Has(store', "started", d) /\ Unclosed(store', d)
    BY <1>14
  <2> QED
    BY <1>3, <1>11, <1>12, <1>13, <1>14, <2>1, <2>2, <2>3, ChargeStep
<1> QED
  BY <1>8, <1>9, <1>15 DEF SpendInv

(* What a recovering process has under way. *)
LEMMA UnderWay ==
  ASSUME SpendInv, NEW p \in Procs, proc[p].at \in Recovering
  PROVE  /\ proc[p] \in Process /\ proc \in [Procs -> Process]
         /\ proc[p].log \in Seq(Event) /\ proc[p].batch \in Seq(Event)
         /\ proc[p].batch # <<>> /\ proc[p].tool \in Calls
         /\ Settles(proc[p].log, proc[p].tool, proc[p].batch)
         /\ Covers(proc[p].tool, proc[p].batch, executor, sent, charge)
         /\ faults \in 0..MaxFaults /\ MaxFaults \in Nat
<1>1. /\ proc[p] \in Process /\ proc \in [Procs -> Process] /\ faults \in 0..MaxFaults
      /\ Holds(proc[p]) /\ LogOK(proc[p])
      /\ Owed(p, proc[p], store, executor, sent, charge)
  BY DEF SpendInv, TypesInv, LedgerInv, ChargeInv
<1>2. Covers(proc[p].tool, proc[p].batch, executor, sent, charge)
  BY <1>1 DEF Owed, Covers
<1> QED
  BY <1>1, <1>2, SpendAssumption DEF Process, Holds, LogOK

(* Verify keeps the invariant. *)
LEMMA VerifyStep ==
  ASSUME SpendInv, NEW p \in Procs, Verify(p)
  PROVE  SpendInv'
<1> DEFINE log == proc[p].log
           batch == proc[p].batch
           c == proc[p].tool
<1>1. /\ proc[p].at = "verify" /\ proc[p].at \in Recovering
      /\ proc' = [proc EXCEPT ![p] = AfterReplay(p)]
      /\ UNCHANGED <<executor, sent, charge>> /\ store' = store
      /\ faults' = faults /\ opens' = opens
  BY DEF Verify, Recovering
<1>2. /\ proc[p] \in Process /\ log \in Seq(Event) /\ batch \in Seq(Event)
      /\ batch # <<>> /\ c \in Calls /\ Settles(log, c, batch)
      /\ Covers(c, batch, executor, sent, charge) /\ faults' \in 0..MaxFaults
  BY <1>1, UnderWay
<1>3. CASE WasStored(p, batch)
  <2>1. AfterReplay(p) = Adopted(p, batch, proc[p].then)
    BY <1>3 DEF AfterReplay
  <2>2. store' = log \o batch
    BY <1>1, <1>3 DEF WasStored
  <2> QED
    BY <1>1, <1>2, <2>1, <2>2, RecoveryStep
<1>4. CASE ~WasStored(p, batch) /\ ~NothingStored(p)
  <2>1. AfterReplay(p) = Unusable(p)
    BY <1>4 DEF AfterReplay
  <2> QED
    BY <1>1, <1>2, <2>1, RecoveryStep
<1>5. CASE ~WasStored(p, batch) /\ NothingStored(p) /\ ~Finalizes(batch)
  <2>1. AfterReplay(p) = [proc[p] EXCEPT !.at = "retry"]
    BY <1>5 DEF AfterReplay
  <2>2. [proc[p] EXCEPT !.at = "retry"] = [proc[p] EXCEPT !.at = "retry", !.batch = batch]
    BY <1>2 DEF Process
  <2> DEFINE x == [proc[p] EXCEPT !.at = "retry", !.batch = batch]
  <2>3. proc' = [proc EXCEPT ![p] = x]
    BY <1>1, <2>1, <2>2
  <2>4. "retry" \in Recovering
    BY DEF Recovering
  <2>5. x = [proc[p] EXCEPT !.at = "retry", !.batch = batch]
    OBVIOUS
  <2> HIDE DEF x
  <2>6. x \in Process /\ Restated(p, x, "retry", batch)
    BY <1>2, <2>4, <2>5, RestatedIs
  <2> QED
    BY <1>1, <1>2, <2>3, <2>4, <2>6, RestateStep
<1>6. CASE ~WasStored(p, batch) /\ NothingStored(p) /\ Finalizes(batch)
  <2> DEFINE b == ReconcileBatch(c)
  <2>1. AfterReplay(p) = [proc[p] EXCEPT !.at = "reconcile", !.batch = b]
    <3>1. AfterReplay(p) =
            [proc[p] EXCEPT !.at = "reconcile", !.batch = ReconcileBatch(batch[1].call)]
      BY <1>2, <1>6 DEF AfterReplay, Process
    <3>2. batch[1].call = c
      BY <1>2 DEF Settles
    <3> QED
      BY <3>1, <3>2
  <2>2. b \in SettleBatches("reconcile", c, 0, "errored")
    BY DEF SettleBatches, ReconcileBatch, Runover
  <2>3. /\ Replays(log) /\ Interrupted(log) = {c} /\ OneOpen(log)
        /\ Has(log, "started", c)
    BY <1>2, AtRestLog DEF LogOK
  <2>4. "reconcile" \in Settlements /\ "reconcile" \in Recovering
    BY DEF Settlements, Recovering
  <2>5. /\ b \in Seq(Event) /\ b # <<>> /\ Settles(log, c, b)
        /\ \A i \in DOMAIN b : b[i].k \in Settlements => b[i] = E("reconcile", c, 0)
    <3> HIDE DEF b, log, c
    <3> QED
      BY <1>2, <2>2, <2>3, <2>4, SettleBatch
  <2> HIDE DEF b
  <2>6. Covers(c, b, executor, sent, charge)
    BY <2>5 DEF Covers, Settlements, E
  <2>7. AfterReplay(p) \in Process /\ Restated(p, AfterReplay(p), "reconcile", b)
    BY <1>2, <2>1, <2>4, <2>5, RestatedIs
  <2> QED
    BY <1>1, <1>2, <2>4, <2>5, <2>6, <2>7, RestateStep
<1> QED
  BY <1>3, <1>4, <1>5, <1>6

(* Retry keeps the invariant. *)
LEMMA RetryStep ==
  ASSUME SpendInv, NEW p \in Procs, Retry(p)
  PROVE  SpendInv'
<1> DEFINE log == proc[p].log
           batch == proc[p].batch
           retry == proc[p].at = "retry"
<1>1. /\ proc[p].at \in {"retry", "reconcile"} /\ proc[p].at \in Recovering
      /\ UNCHANGED <<executor, sent, charge>> /\ opens' = opens
  BY DEF Retry, Recovering
<1>2. /\ proc[p] \in Process /\ proc \in [Procs -> Process]
      /\ log \in Seq(Event) /\ batch \in Seq(Event)
      /\ batch # <<>> /\ Settles(log, proc[p].tool, batch)
      /\ Covers(proc[p].tool, batch, executor, sent, charge)
  BY <1>1, UnderWay
<1>3. TypesInv /\ LedgerInv
  BY DEF SpendInv
<1>4. CASE /\ AppendWorks(p, batch)
           /\ proc' = [proc EXCEPT ![p] =
                         IF retry THEN Adopted(p, @.batch, @.then) ELSE Stopped(p)]
  <2> DEFINE x == IF retry THEN Adopted(p, batch, proc[p].then) ELSE Stopped(p)
  <2>1. proc' = [proc EXCEPT ![p] = x]
    BY <1>2, <1>4
  <2>2. store = log /\ store' = store \o batch /\ faults' \in 0..MaxFaults
    BY <1>3, <1>4, AppendStep
  <2>3. x = Adopted(p, batch, proc[p].then) \/ x = Stopped(p)
    OBVIOUS
  <2> HIDE DEF x
  <2> QED
    BY <1>1, <2>1, <2>2, <2>3, RecoveryStep
<1>5. CASE /\ AppendFails(p, batch)
           /\ proc' = [proc EXCEPT ![p].at =
                         IF retry THEN "verify_retry" ELSE "verify_reconcile"]
  <2> DEFINE a == IF retry THEN "verify_retry" ELSE "verify_reconcile"
  <2>1. proc' = [proc EXCEPT ![p] = [proc[p] EXCEPT !.at = a]]
    BY <1>2, <1>5
  <2>2. [proc[p] EXCEPT !.at = a] = [proc[p] EXCEPT !.at = a, !.batch = batch]
    BY <1>2 DEF Process
  <2> DEFINE x == [proc[p] EXCEPT !.at = a, !.batch = batch]
  <2>3. proc' = [proc EXCEPT ![p] = x]
    BY <2>1, <2>2
  <2>4. a \in Recovering
    BY DEF Recovering
  <2>5. /\ \/ store' = store
           \/ store = log /\ store' = store \o batch
        /\ faults' \in 0..MaxFaults
    BY <1>3, <1>5, AppendStep
  <2> HIDE DEF a
  <2>6. x \in Process /\ Restated(p, x, a, batch)
    BY <1>2, <2>4, RestatedIs
  <2> HIDE DEF x
  <2> QED
    BY <1>1, <1>2, <2>3, <2>4, <2>5, <2>6, RestateStep
<1> QED
  BY <1>4, <1>5 DEF Retry

(* VerifyRetry keeps the invariant. *)
LEMMA VerifyRetryStep ==
  ASSUME SpendInv, NEW p \in Procs, VerifyRetry(p)
  PROVE  SpendInv'
<1> DEFINE batch == proc[p].batch
           x == IF ~WasStored(p, batch) THEN Unusable(p)
                ELSE IF proc[p].at = "verify_retry" THEN Adopted(p, batch, proc[p].then)
                ELSE Stopped(p)
<1>1. /\ proc[p].at \in Recovering /\ UNCHANGED <<executor, sent, charge>>
      /\ store' = store /\ faults' = faults /\ opens' = opens
  BY DEF VerifyRetry, Recovering
<1>2. proc \in [Procs -> Process] /\ faults' \in 0..MaxFaults
  BY <1>1, UnderWay
<1>3. proc' = [proc EXCEPT ![p] = x]
  BY <1>2 DEF VerifyRetry
<1>4. /\ x = Adopted(p, batch, proc[p].then) \/ x = Stopped(p) \/ x = Unusable(p)
      /\ x # Unusable(p) => store' = proc[p].log \o batch
  BY <1>1 DEF WasStored
<1> HIDE DEF x
<1> QED
  BY <1>1, <1>2, <1>3, <1>4, RecoveryStep

(* ReplayFails keeps the invariant. *)
LEMMA ReplayFailsStep ==
  ASSUME SpendInv, NEW p \in Procs, ReplayFails(p)
  PROVE  SpendInv'
<1>1. /\ proc[p].at \in Recovering /\ UNCHANGED <<executor, sent, charge>>
      /\ store' = store /\ opens' = opens /\ proc' = [proc EXCEPT ![p] = Unusable(p)]
      /\ faults < MaxFaults /\ faults' = faults + 1
  BY DEF ReplayFails, Recovering
<1>2. faults' \in 0..MaxFaults
  BY <1>1, UnderWay
<1> QED
  BY <1>1, <1>2, RecoveryStep
(***************************************************************************)
(* The life of a process and of an executor.                               *)
(***************************************************************************)
(* A step that appends nothing and leaves its process without a call. *)
LEMMA RestStep ==
  ASSUME SpendInv, NEW p \in Procs, NEW x \in Process, x.tool = None, x.batch = <<>>,
         x.at \in AtRest, proc' = [proc EXCEPT ![p] = x],
         Interrupted(x.log) = {} \/ (x.at \in {"closed", "opening"} /\ OneOpen(x.log)),
         PrefixOf(x.log, store'), NEW batch \in Seq(Event),
         \/ store' = store
         \/ /\ store = proc[p].log /\ store' = store \o batch
            /\ BatchOK(store, batch) /\ OneOpen(store \o batch),
         \A i \in DOMAIN batch : batch[i].k # "finalized",
         \A i \in DOMAIN batch : batch[i].k = "released" =>
           /\ batch[i].call \in Calls /\ executor'[batch[i].call] = None
           /\ \A q \in Procs \ {p} : proc[q].tool # batch[i].call
           /\ batch[i].call \notin sent,
         executor' \in [Calls -> Procs \cup {None}],
         \A c \in Calls : executor'[c] # executor[c] => executor[c] = p /\ executor'[c] = None,
         sent' = sent, charge' = charge, faults' \in 0..MaxFaults, opens' \in 0..MaxOpens
  PROVE  SpendInv'
<1>1. TypesInv /\ LedgerInv /\ ChargeInv
  BY DEF SpendInv
<1>2. Holds(x)
  BY SpendAssumption DEF Holds, AtTool, Recovering, AtRest
<1>3. LogOK(x)
  BY SpendAssumption DEF LogOK, OneOpen, Recovering, AtRest
<1>4. store' \in Seq(Event) /\ proc' \in [Procs -> Process] /\ LedgerInv'
  BY <1>1, <1>2, <1>3, LedgerStep
<1>5. TypesInv'
  BY <1>1, <1>4 DEF TypesInv
<1>6. Owed(p, x, store', executor', sent, charge)
  BY DEF Owed, AtRest
<1>7. x.tool \notin Calls
  BY SpendAssumption
<1>8. ChargeInv'
  BY <1>1, <1>6, <1>7, ChargeStep
<1> QED
  BY <1>4, <1>5, <1>8 DEF SpendInv

(* Open keeps the invariant. *)
LEMMA OpenStep ==
  ASSUME SpendInv, NEW p \in Procs, Open(p)
  PROVE  SpendInv'
<1> DEFINE x == [Closed EXCEPT !.at = "opening", !.log = store]
           batch == <<>>
<1>1. /\ store \in Seq(Event) /\ OneOpen(store) /\ opens \in 0..MaxOpens /\ MaxOpens \in Nat
      /\ executor \in [Calls -> Procs \cup {None}] /\ faults \in 0..MaxFaults
  BY SpendAssumption DEF SpendInv, TypesInv, LedgerInv
<1>2. /\ proc' = [proc EXCEPT ![p] = x] /\ opens < MaxOpens /\ opens' = opens + 1
      /\ store' = store /\ executor' = executor /\ sent' = sent /\ charge' = charge
      /\ faults' = faults
  BY DEF Open
<1>3. Closed \in Process /\ Closed.batch = <<>> /\ Closed.tool = None
  BY ClosedFields
<1>4. "opening" \in AtTool \cup Recovering \cup AtRest /\ "opening" \in AtRest
  BY DEF AtRest
<1>5. x \in Process
  BY <1>1, <1>3, <1>4 DEF Process
<1>6. x.at = "opening" /\ x.log = store /\ x.batch = <<>> /\ x.tool = None /\ x.at \in AtRest
  BY <1>3, <1>4 DEF Process
<1>7. PrefixOf(x.log, store')
  BY <1>1, <1>2, <1>6, PrefixSelf
<1>8. batch \in Seq(Event) /\ DOMAIN batch = {}
  OBVIOUS
<1> HIDE DEF x, batch
<1>9. opens' \in 0..MaxOpens
  BY <1>1, <1>2
<1> QED
  BY <1>1, <1>2, <1>5, <1>6, <1>7, <1>8, <1>9, RestStep

(* Die keeps the invariant. *)
LEMMA DieStep ==
  ASSUME SpendInv, NEW p \in Procs, Die(p)
  PROVE  SpendInv'
<1> DEFINE x == Closed
           batch == <<>>
<1>1. /\ store \in Seq(Event) /\ opens \in 0..MaxOpens
      /\ executor \in [Calls -> Procs \cup {None}] /\ faults \in 0..MaxFaults
  BY DEF SpendInv, TypesInv
<1>2. /\ proc' = [proc EXCEPT ![p] = x] /\ opens' = opens
      /\ executor' = [c \in Calls |-> IF executor[c] = p THEN None ELSE executor[c]]
      /\ store' = store /\ sent' = sent /\ charge' = charge /\ faults' = faults
  BY DEF Die
<1>5. x \in Process
  BY ClosedFields
<1>6. x.at = "closed" /\ x.log = <<>> /\ x.batch = <<>> /\ x.tool = None /\ x.at \in AtRest
  BY ClosedFields DEF AtRest
<1>7. PrefixOf(x.log, store')
  BY <1>1, <1>2, <1>6, PrefixSelf
<1>8. batch \in Seq(Event) /\ DOMAIN batch = {}
  OBVIOUS
<1>9. ~Has(<<>>, "reserved", None) /\ Interrupted(x.log) = {}
  <2>1. \A k, c : ~Has(<<>>, k, c)
    BY DEF Has
  <2>2. \A c \in Calls : c \notin Interrupted(<<>>)
    BY <2>1, OpenNow
  <2>3. Interrupted(<<>>) \subseteq Calls
    BY DEF Interrupted
  <2> QED
    BY <1>6, <2>1, <2>2, <2>3
<1> HIDE DEF x, batch
<1>10. /\ executor' \in [Calls -> Procs \cup {None}]
       /\ \A c \in Calls : executor'[c] # executor[c] => executor[c] = p /\ executor'[c] = None
  BY <1>1, <1>2
<1> QED
  BY <1>1, <1>2, <1>5, <1>6, <1>7, <1>8, <1>9, <1>10, RestStep
(* Nothing is open in the empty log. *)
LEMMA EmptyLog == Interrupted(<<>>) = {} /\ OneOpen(<<>>)
<1>1. \A k, c : ~Has(<<>>, k, c)
  BY DEF Has
<1>2. \A c \in Calls : c \notin Interrupted(<<>>)
  BY <1>1, OpenNow
<1>3. Interrupted(<<>>) \subseteq Calls
  BY DEF Interrupted
<1> QED
  BY <1>2, <1>3 DEF OneOpen

(* The one element of a sequence of one sequence. *)
LEMMA FlattenOne ==
  ASSUME NEW S, NEW s \in Seq(S), NEW q, q = [i \in 1..1 |-> s]
  PROVE FlattenSeq(q) = s
<1> DEFINE g == [i \in 1..1 |-> q[i]]
           P(f) == f = [i \in 1..1 |-> IF i = 1 THEN q[i] ELSE f[i-1] \o q[i]]
<1>1. Len(q) = 1
  OBVIOUS
<1>2. P(g)
  OBVIOUS
<1>3. \A f : P(f) => f[1] = s
  OBVIOUS
<1>4. FlattenSeq(q) = (CHOOSE f : P(f))[1]
  BY <1>1 DEF FlattenSeq
<1> HIDE DEF P
<1> QED
  BY <1>2, <1>3, <1>4

(* A set of one element is listed in one way. *)
LEMMA SeqOfOne ==
  ASSUME NEW c
  PROVE  SetToSeq({c}) = [i \in 1..1 |-> c]
<1>1. Cardinality({c}) = 1
  BY FS_Singleton
<1>2. \A f \in [1..1 -> {c}] : f = [i \in 1..1 |-> c]
  OBVIOUS
<1>3. [i \in 1..1 |-> c] \in [1..1 -> {c}]
  OBVIOUS
<1>4. IsInjective([i \in 1..1 |-> c])
  BY DEF IsInjective
<1> QED
  BY <1>1, <1>2, <1>3, <1>4 DEF SetToSeq
(* The recovery batch of the one interrupted call. *)
LEMMA RecoveryOfOne ==
  ASSUME NEW log, NEW c \in Calls, Interrupted(log) = {c}
  PROVE  RecoveryBatch(log) \in
           SettleBatches(IF Has(log, "started", c) THEN "reconcile" ELSE "released",
                         c, 0, "errored")
<1> DEFINE s == IF Has(log, "started", c) THEN "reconcile" ELSE "released"
           pair == <<E(s, c, 0), E("errored", c, 0)>>
           q == [i \in 1..Cardinality(Interrupted(log)) |->
                   Settle(log, SetToSeq(Interrupted(log))[i])]
<1>1. Cardinality({c}) = 1
  BY FS_Singleton
<1>2. SetToSeq({c})[1] = c
  <2>1. SetToSeq({c}) = [i \in 1..1 |-> c]
    BY SeqOfOne
  <2>2. [i \in 1..1 |-> c][1] = c
    OBVIOUS
  <2> QED
    BY <2>1, <2>2
<1>3. Settle(log, c) = pair
  BY DEF Settle
<1>4. q = [i \in 1..1 |-> pair]
  <2>1. q = [i \in 1..1 |-> Settle(log, SetToSeq({c})[i])]
    BY <1>1
  <2>2. \A i \in 1..1 : Settle(log, SetToSeq({c})[i]) = pair
    BY <1>2, <1>3
  <2> HIDE DEF pair, q
  <2> QED
    BY <2>1, <2>2
<1>5. "errored" \in Kinds /\ s \in Kinds
  BY DEF Kinds
<1>6. E(s, c, 0) \in Event /\ E("errored", c, 0) \in Event /\ Runover \in Event
  BY <1>5 DEF E, Event, Runover, Kinds
<1>7. pair \in Seq(Event)
  BY <1>6
<1>8. FlattenSeq(q) = pair
  <2> HIDE DEF pair, q
  <2> QED
    BY <1>4, <1>7, FlattenOne
<1>9. RecoveryBatch(log) = pair \o <<Runover>>
  BY <1>8 DEF RecoveryBatch, Runover
<1>10. ASSUME NEW x \in Event, NEW y \in Event, NEW z \in Event
       PROVE  <<x, y>> \o <<z>> = <<x, y, z>>
  <2> DEFINE a == <<x, y>> \o <<z>>
             b == <<x, y, z>>
  <2>1. a \in Seq(Event) /\ b \in Seq(Event) /\ Len(a) = 3 /\ Len(b) = 3
    OBVIOUS
  <2>2. a[1] = x /\ a[2] = y /\ a[3] = z /\ b[1] = x /\ b[2] = y /\ b[3] = z
    OBVIOUS
  <2> HIDE DEF a, b
  <2>3. \A i \in 1..Len(a) : a[i] = b[i]
    BY <2>1, <2>2
  <2>4. a = b
    BY <2>1, <2>3, SeqEqual
  <2> QED
    BY <2>4 DEF a, b
<1>11. RecoveryBatch(log) = <<E(s, c, 0), E("errored", c, 0), Runover>>
  BY <1>6, <1>9, <1>10
<1> QED
  BY <1>11 DEF SettleBatches

(* OpenSettle keeps the invariant. *)
LEMMA OpenSettleStep ==
  ASSUME SpendInv, NEW p \in Procs, OpenSettle(p)
  PROVE  SpendInv'
<1> DEFINE log == proc[p].log
           batch == RecoveryBatch(log)
<1>1. /\ proc[p] \in Process /\ log \in Seq(Event) /\ Replays(log) /\ store \in Seq(Event)
      /\ PrefixOf(log, store) /\ Holds(proc[p]) /\ LogOK(proc[p])
  BY AtRestLog
<1>2. proc[p].at = "opening" /\ UNCHANGED <<executor, sent, charge, opens>>
  BY DEF OpenSettle
<1>3. /\ executor \in [Calls -> Procs \cup {None}] /\ executor' = executor
      /\ sent' = sent /\ charge' = charge /\ opens' = opens /\ opens \in 0..MaxOpens
      /\ faults \in 0..MaxFaults /\ proc \in [Procs -> Process]
      /\ TypesInv /\ LedgerInv /\ ChargeInv
  BY <1>2 DEF SpendInv, TypesInv
<1>4. proc[p].tool = None /\ proc[p].batch = <<>>
  BY <1>1, <1>2 DEF Process, Holds, AtTool, Recovering
<1>5. CASE /\ Interrupted(log) = {}
           /\ \E at \in {"idle"} \cup (IF Recoverable(log) THEN {"tools"} ELSE {}) :
                proc' = [proc EXCEPT ![p].at = at]
           /\ UNCHANGED <<store, faults>>
  <2>1. PICK at \in {"idle", "tools"} : proc' = [proc EXCEPT ![p].at = at]
    BY <1>5
  <2> DEFINE x == [proc[p] EXCEPT !.at = at]
             none == <<>>
  <2>2. proc' = [proc EXCEPT ![p] = x]
    BY <1>3, <2>1
  <2>3. at \in AtTool \cup Recovering \cup AtRest /\ at \in AtRest
    BY <2>1 DEF AtRest
  <2>4. x \in Process /\ x.at = at /\ x.log = log /\ x.tool = None /\ x.batch = <<>>
    BY <1>1, <1>4, <2>3 DEF Process
  <2>5. none \in Seq(Event) /\ DOMAIN none = {}
    OBVIOUS
  <2>6. store' = store /\ faults' = faults
    BY <1>5
  <2> HIDE DEF x, none
  <2> QED
    BY <1>1, <1>3, <1>5, <2>2, <2>3, <2>4, <2>5, <2>6, RestStep
<1>6. CASE /\ Interrupted(log) # {}
           /\ \/ /\ AppendWorks(p, batch)
                 /\ proc' = [proc EXCEPT ![p] = Adopted(p, batch, "idle")]
              \/ AppendFails(p, batch) /\ proc' = [proc EXCEPT ![p] = Closed]
  <2>1. PICK c \in Calls : Interrupted(log) = {c}
    BY <1>1, <1>6 DEF LogOK, OneOpen, Interrupted
  <2> DEFINE s == IF Has(log, "started", c) THEN "reconcile" ELSE "released"
  <2>2. batch \in SettleBatches(s, c, 0, "errored")
    BY <2>1, RecoveryOfOne
  <2>3. s \in Settlements /\ s # "finalized" /\ (s # "released" => Has(log, "started", c))
    BY DEF Settlements
  <2>4. OneOpen(log)
    BY <1>1 DEF LogOK
  <2>5. s = "released" => ~Has(log, "started", c)
    OBVIOUS
  <2> HIDE DEF s, batch
  <2>6. /\ batch \in Seq(Event) /\ batch # <<>> /\ Settles(log, c, batch)
        /\ \A i \in DOMAIN batch : batch[i].k \in Settlements => batch[i] = E(s, c, 0)
    <3> HIDE DEF log
    <3> QED
      BY <1>1, <2>1, <2>2, <2>3, <2>4, SettleBatch
  <2>7. /\ \/ store' = store
           \/ store = log /\ store' = store \o batch
        /\ AppendWorks(p, batch) => store = log /\ store' = store \o batch
        /\ faults' \in 0..MaxFaults
    BY <1>3, <1>6, AppendStep
  <2>8. BatchOK(log, batch) /\ Interrupted(log \o batch) = {} /\ OneOpen(log \o batch)
    BY <2>6 DEF Settles, OneOpen
  <2>9. \A i \in DOMAIN batch : batch[i].k # "finalized"
    BY <2>3, <2>6 DEF Settlements, E
  <2>10. CASE store' = store \o batch /\ store = log
    <3>1. ASSUME NEW i \in DOMAIN batch, batch[i].k = "released"
          PROVE  /\ batch[i].call \in Calls /\ executor'[batch[i].call] = None
                 /\ \A q \in Procs \ {p} : proc[q].tool # batch[i].call
                 /\ batch[i].call \notin sent
      <4>1. batch[i].call = c /\ s = "released"
        BY <2>6, <3>1 DEF Settlements, E
      <4>2. ~Has(store, "started", c)
        BY <2>5, <2>10, <4>1
      <4>3. executor[c] = None /\ c \notin sent
        BY <1>3, <4>2 DEF ChargeInv
      <4>4. ASSUME NEW q \in Procs
            PROVE  proc[q].tool # c
        <5>1. /\ proc[q].log \in Seq(Event) /\ PrefixOf(proc[q].log, store)
              /\ LogOK(proc[q])
          BY AtRestLog
        <5>2. ~Has(proc[q].log, "started", c)
          BY <1>1, <4>2, <5>1, PrefixHas
        <5> QED
          BY <5>1, <5>2 DEF LogOK
      <4> QED
        BY <1>3, <4>1, <4>3, <4>4
    <3>2. CASE proc' = [proc EXCEPT ![p] = Adopted(p, batch, "idle")]
      <4> DEFINE x == Adopted(p, batch, "idle")
      <4>1. x = [at |-> "idle", log |-> log \o batch, batch |-> <<>>, then |-> None,
                 tool |-> None]
        BY DEF Adopted
      <4>2. /\ "idle" \in AtTool \cup Recovering \cup AtRest /\ "idle" \in AtRest
            /\ None \in Calls \cup {None} /\ log \o batch \in Seq(Event)
        BY <1>1, <2>6, Concat DEF AtRest
      <4>3. x \in Process
        <5> HIDE DEF log
        <5> QED
          BY <4>1, <4>2, AdoptedFields
      <4>4. x.at = "idle" /\ x.log = log \o batch /\ x.batch = <<>> /\ x.tool = None
        BY <4>1
      <4>5. PrefixOf(x.log, store')
        BY <2>10, <4>2, <4>4, PrefixSelf
      <4>6. proc' = [proc EXCEPT ![p] = x]
        BY <3>2
      <4> HIDE DEF x
      <4> QED
        BY <1>3, <2>6, <2>7, <2>8, <2>9, <2>10, <3>1, <4>2, <4>3, <4>4, <4>5, <4>6, RestStep
    <3>3. CASE proc' = [proc EXCEPT ![p] = Closed]
      <4>1. /\ Closed \in Process /\ Closed.at = "closed" /\ Closed.log = <<>>
            /\ Closed.batch = <<>> /\ Closed.tool = None /\ Closed.at \in AtRest
        BY ClosedFields DEF AtRest
      <4>2. PrefixOf(Closed.log, store') /\ OneOpen(Closed.log)
        <5>1. store \o batch \in Seq(Event)
          BY <1>1, <2>6, Concat
        <5>2. PrefixOf(<<>>, store \o batch)
          BY <5>1, PrefixSelf
        <5> QED
          BY <2>10, <4>1, <5>2, EmptyLog
      <4> QED
        BY <1>3, <2>6, <2>7, <2>8, <2>9, <2>10, <3>1, <3>3, <4>1, <4>2, RestStep
    <3> QED
      BY <1>6, <3>2, <3>3
  <2>11. CASE store' = store /\ proc' = [proc EXCEPT ![p] = Closed]
    <3> DEFINE none == <<>>
    <3>1. /\ Closed \in Process /\ Closed.at = "closed" /\ Closed.log = <<>>
          /\ Closed.batch = <<>> /\ Closed.tool = None /\ Closed.at \in AtRest
      BY ClosedFields DEF AtRest
    <3>2. PrefixOf(Closed.log, store') /\ OneOpen(Closed.log)
      BY <3>1, <1>1, <2>11, PrefixSelf, EmptyLog
    <3>3. none \in Seq(Event) /\ DOMAIN none = {}
      OBVIOUS
    <3> HIDE DEF none
    <3> QED
      BY <1>3, <2>7, <2>11, <3>1, <3>2, <3>3, RestStep
  <2> QED
    BY <1>6, <2>7, <2>10, <2>11
<1> QED
  BY <1>5, <1>6 DEF OpenSettle
(* Spawn keeps the invariant. *)
LEMMA SpawnStep ==
  ASSUME SpendInv, NEW p \in Procs, Spawn(p)
  PROVE  SpendInv'
<1> DEFINE c == proc[p].tool
           x == [proc[p] EXCEPT !.at = "running"]
           none == <<>>
<1>1. /\ TypesInv /\ LedgerInv /\ ChargeInv /\ proc \in [Procs -> Process]
      /\ proc[p] \in Process /\ proc[p].log \in Seq(Event) /\ store \in Seq(Event)
      /\ executor \in [Calls -> Procs \cup {None}]
      /\ Holds(proc[p]) /\ LogOK(proc[p]) /\ PrefixOf(proc[p].log, store)
      /\ Owed(p, proc[p], store, executor, sent, charge)
  BY DEF SpendInv, TypesInv, LedgerInv, ChargeInv, Process
<1>2. /\ proc[p].at = "spawn" /\ proc' = [proc EXCEPT ![p] = x]
      /\ executor' = [executor EXCEPT ![c] = p]
      /\ store' = store /\ sent' = sent /\ charge' = charge /\ faults' = faults
      /\ opens' = opens
  BY <1>1 DEF Spawn
<1>3. c \in Calls /\ Has(proc[p].log, "started", c) /\ proc[p].batch = <<>>
  BY <1>1, <1>2 DEF Holds, LogOK, AtTool, Recovering
<1>4. Has(store, "started", c) /\ Unclosed(store, c)
  BY <1>1, <1>2, <1>3, PrefixHas DEF Owed
<1>5. "running" \in AtTool \cup Recovering \cup AtRest /\ "running" \in AtTool
  BY DEF AtTool
<1>6. /\ x \in Process /\ x.at = "running" /\ x.tool = c /\ x.batch = <<>>
      /\ x.log = proc[p].log
  BY <1>1, <1>3, <1>5 DEF Process
<1>7. none \in Seq(Event) /\ DOMAIN none = {}
  OBVIOUS
<1> HIDE DEF x, none
<1>8. Holds(x)
  BY <1>3, <1>5, <1>6 DEF Holds, Recovering
<1>9. LogOK(x)
  BY <1>1, <1>3, <1>6 DEF LogOK, Recovering
<1>10. PrefixOf(x.log, store')
  BY <1>1, <1>2, <1>6
<1>11. store' \in Seq(Event) /\ proc' \in [Procs -> Process] /\ LedgerInv'
  BY <1>1, <1>2, <1>6, <1>7, <1>8, <1>9, <1>10, LedgerStep
<1>12. /\ executor' \in [Calls -> Procs \cup {None}] /\ executor'[c] = p
       /\ \A d \in Calls : executor'[d] # executor[d] => d = c
  BY <1>1, <1>2, <1>3
<1>13. TypesInv'
  BY <1>1, <1>2, <1>11, <1>12 DEF TypesInv
<1>14. Owed(p, x, store', executor', sent, charge)
  <2>1. DOMAIN x.batch = {}
    BY <1>6
  <2> QED
    BY <1>6, <1>12, <2>1 DEF Owed
<1>15. x.tool \in Calls => \A q \in Procs \ {p} : proc[q].tool # x.tool
  BY <1>1, <1>6 DEF ChargeInv
<1>16. \A d \in Calls : executor'[d] # None /\ executor'[d] # executor[d] =>
         Has(store', "started", d) /\ Unclosed(store', d)
  BY <1>2, <1>4, <1>12
<1>17. ChargeInv'
  BY <1>1, <1>2, <1>6, <1>7, <1>12, <1>14, <1>15, <1>16, ChargeStep
<1> QED
  BY <1>11, <1>13, <1>17 DEF SpendInv

(* Contact keeps the invariant. *)
LEMMA ContactStep ==
  ASSUME SpendInv, NEW c \in Calls, Contact(c)
  PROVE  SpendInv'
<1>1. /\ executor[c] # None /\ c \notin sent /\ sent' = sent \cup {c}
      /\ store' = store /\ proc' = proc /\ executor' = executor /\ faults' = faults
      /\ opens' = opens
  BY DEF Contact
<1>2. PICK a \in 0..Quote[c] : charge' = [charge EXCEPT ![c] = a]
  BY DEF Contact
<1>3. TypesInv /\ LedgerInv /\ ChargeInv /\ charge \in [Calls -> Nat] /\ Quote[c] \in Nat
  BY SpendAssumption DEF SpendInv, TypesInv
<1>4. /\ charge' \in [Calls -> Nat] /\ charge'[c] = a /\ a <= Quote[c]
      /\ \A d \in Calls : d # c => charge'[d] = charge[d]
  BY <1>2, <1>3
<1>5. TypesInv'
  BY <1>1, <1>3, <1>4 DEF TypesInv
<1>6. LedgerInv'
  BY <1>1, <1>3 DEF LedgerInv
<1>7. Has(store, "started", c) /\ Unclosed(store, c)
  BY <1>1, <1>3 DEF ChargeInv
<1>8. ASSUME NEW d \in Calls
      PROVE  /\ executor'[d] # None => Has(store', "started", d) /\ Unclosed(store', d)
             /\ d \in sent' => Has(store', "started", d) /\ ~Has(store', "released", d)
             /\ d \notin sent' => charge'[d] = 0
  BY <1>1, <1>3, <1>4, <1>7 DEF ChargeInv, Unclosed
<1>9. ASSUME NEW i \in DOMAIN store', store'[i].k = "finalized"
      PROVE  store'[i].call \in Calls /\ charge'[store'[i].call] <= store'[i].amount
  <2>1. store'[i].call # c
    BY <1>1, <1>7, <1>9 DEF Unclosed, Has
  <2> QED
    BY <1>1, <1>3, <1>4, <1>9, <2>1 DEF ChargeInv
<1>10. ASSUME NEW q \in Procs
       PROVE  Owed(q, proc'[q], store', executor', sent', charge')
  <2> DEFINE y == proc[q]
  <2>1. /\ Owed(q, y, store, executor, sent, charge) /\ y \in Process
        /\ Holds(y) /\ LogOK(y)
    BY <1>3 DEF ChargeInv, LedgerInv, TypesInv
  <2> SUFFICES Owed(q, y, store, executor, sent', charge')
    BY <1>1
  <2>2. CASE y.tool \notin Calls
    <3>1. y.at \notin AtTool \cup Recovering /\ y.batch = <<>>
      BY <2>1, <2>2 DEF Holds
    <3> QED
      BY <3>1 DEF Owed, AtTool
  <2>3. CASE y.tool \in Calls /\ y.tool # c
    <3>1. charge'[y.tool] = charge[y.tool] /\ (y.tool \in sent' <=> y.tool \in sent)
      BY <1>1, <1>4, <2>3
    <3> QED
      BY <2>1, <3>1 DEF Owed
  <2>4. CASE y.tool = c
    <3>1. /\ y.at # "spawn"
          /\ \A i \in DOMAIN y.batch : y.batch[i].k # "released" /\ y.batch[i].k # "finalized"
      BY <1>1, <2>1, <2>4 DEF Owed
    <3> QED
      BY <2>1, <3>1 DEF Owed
  <2> QED
    BY <2>2, <2>3, <2>4
<1>11. ChargeInv'
  BY <1>1, <1>3, <1>8, <1>9, <1>10 DEF ChargeInv
<1> QED
  BY <1>5, <1>6, <1>11 DEF SpendInv

(* ExecutorEnds keeps the invariant. *)
LEMMA ExecutorEndsStep ==
  ASSUME SpendInv, NEW c \in Calls, ExecutorEnds(c)
  PROVE  SpendInv'
<1> DEFINE p == executor[c]
           x == proc[p]
           none == <<>>
<1>1. /\ executor[c] # None /\ proc[p].tool # c /\ executor' = [executor EXCEPT ![c] = None]
      /\ store' = store /\ proc' = proc /\ sent' = sent /\ charge' = charge
      /\ faults' = faults /\ opens' = opens
  BY DEF ExecutorEnds
<1>2. /\ TypesInv /\ LedgerInv /\ ChargeInv /\ proc \in [Procs -> Process]
      /\ executor \in [Calls -> Procs \cup {None}]
  BY DEF SpendInv, TypesInv
<1>3. p \in Procs /\ x \in Process /\ proc' = [proc EXCEPT ![p] = x]
  BY <1>1, <1>2
<1>4. /\ executor' \in [Calls -> Procs \cup {None}] /\ executor'[c] = None
      /\ \A d \in Calls : executor'[d] # executor[d] => d = c
  BY <1>1, <1>2
<1>5. TypesInv'
  BY <1>1, <1>2, <1>4 DEF TypesInv
<1>6. LedgerInv'
  BY <1>1, <1>2 DEF LedgerInv
<1>7. \A d \in Calls : executor'[d] # executor[d] =>
        executor[d] = p /\ executor'[d] = None
  BY <1>4
<1>8. none \in Seq(Event) /\ DOMAIN none = {}
  OBVIOUS
<1>9. Owed(p, x, store', executor', sent, charge)
  <2>1. Owed(p, x, store, executor, sent, charge) /\ Holds(x)
    BY <1>2, <1>3 DEF ChargeInv, LedgerInv
  <2>2. CASE x.tool \notin Calls
    <3>1. x.at \notin AtTool \cup Recovering /\ x.batch = <<>>
      BY <2>1, <2>2 DEF Holds
    <3> HIDE DEF x
    <3> QED
      BY <3>1 DEF Owed, AtTool
  <2>3. CASE x.tool \in Calls
    <3>1. executor'[x.tool] = executor[x.tool]
      BY <1>1, <1>4, <2>3
    <3> HIDE DEF x
    <3> QED
      BY <1>1, <2>1, <3>1 DEF Owed
  <2> QED
    BY <2>2, <2>3
<1>10. x.tool \in Calls => \A q \in Procs \ {p} : proc[q].tool # x.tool
  BY <1>2, <1>3 DEF ChargeInv
<1> HIDE DEF none, p, x
<1>11. ChargeInv'
  BY <1>1, <1>2, <1>3, <1>4, <1>7, <1>8, <1>9, <1>10, ChargeStep
<1> QED
  BY <1>5, <1>6, <1>11 DEF SpendInv

(***************************************************************************)
(* The invariant and the theorems.                                         *)
(***************************************************************************)
(* The invariant holds at first. *)
LEMMA SpendInit == Init => SpendInv
<1> SUFFICES ASSUME Init PROVE SpendInv
  OBVIOUS
<1>1. /\ store = <<>> /\ proc = [p \in Procs |-> Closed]
      /\ executor = [c \in Calls |-> None] /\ sent = {} /\ charge = [c \in Calls |-> 0]
      /\ faults = 0 /\ opens = 0
  BY DEF Init
<1>2. /\ Closed \in Process /\ Closed.at = "closed" /\ Closed.log = <<>>
      /\ Closed.batch = <<>> /\ Closed.tool = None
  BY ClosedFields
<1>3. TypesInv
  BY <1>1, <1>2, SpendAssumption DEF TypesInv
<1>4. Holds(Closed) /\ LogOK(Closed)
  BY <1>2, EmptyLog, SpendAssumption DEF Holds, LogOK, AtTool, Recovering
<1>5. LedgerInv
  <2>1. PrefixOf(<<>>, <<>>)
    <3>1. <<>> \in Seq(Event)
      OBVIOUS
    <3> QED
      BY <3>1, PrefixSelf
  <2>2. Replays(<<>>)
    BY DEF Replays
  <2> QED
    BY <1>1, <1>2, <1>4, <2>1, <2>2, EmptyLog DEF LedgerInv
<1>6. ChargeInv
  <2>1. \A p \in Procs : proc[p] = Closed
    BY <1>1
  <2>2. ASSUME NEW p \in Procs
        PROVE  Owed(p, proc[p], store, executor, sent, charge)
    BY <1>2, <2>1 DEF Owed
  <2>3. \A p \in Procs : proc[p].tool \notin Calls
    BY <1>2, <2>1, SpendAssumption
  <2> QED
    BY <1>1, <2>2, <2>3 DEF ChargeInv
<1> QED
  BY <1>3, <1>5, <1>6 DEF SpendInv

(* Every step keeps the invariant. *)
LEMMA SpendNext ==
  ASSUME SpendInv, [Next]_vars
  PROVE  SpendInv'
<1>1. CASE UNCHANGED vars
  BY <1>1 DEF vars, SpendInv, TypesInv, LedgerInv, ChargeInv
<1>2. ASSUME NEW p \in Procs,
             Open(p) \/ OpenSettle(p) \/ Die(p) \/ Verify(p) \/ Retry(p)
               \/ VerifyRetry(p) \/ ReplayFails(p)
      PROVE  SpendInv'
  BY <1>2, OpenStep, OpenSettleStep, DieStep, VerifyStep, RetryStep, VerifyRetryStep,
     ReplayFailsStep
<1>3. ASSUME NEW p \in Procs,
             Submit(p) \/ Continue(p) \/ EndRun(p) \/ Spawn(p) \/ SpawnFails(p)
               \/ CloseEarly(p) \/ Report(p)
      PROVE  SpendInv'
  BY <1>3, InferenceStep, EndRunStep, SpawnStep, SpawnFailsStep, CloseEarlyStep, ReportStep
<1>4. ASSUME NEW p \in Procs, NEW a \in Ceilings, SetCeiling(p, a)
      PROVE  SpendInv'
  BY <1>4, SetCeilingStep
<1>5. ASSUME NEW p \in Procs, NEW a \in Costs, EndInference(p, a)
      PROVE  SpendInv'
  BY <1>5, EndInferenceStep
<1>6. ASSUME NEW p \in Procs, NEW c \in Calls, Propose(p, c) \/ Launch(p, c)
      PROVE  SpendInv'
  BY <1>6, ProposeStep, LaunchStep
<1>7. ASSUME NEW c \in Calls, Contact(c) \/ ExecutorEnds(c)
      PROVE  SpendInv'
  BY <1>7, ContactStep, ExecutorEndsStep
<1> QED
  BY <1>1, <1>2, <1>3, <1>4, <1>5, <1>6, <1>7 DEF Next

(* The inductive invariant holds in every state. *)
LEMMA SpendInvariant == Spec => []SpendInv
<1>1. Init => SpendInv
  BY SpendInit
<1>2. SpendInv /\ [Next]_vars => SpendInv'
  BY SpendNext
<1> QED
  BY <1>1, <1>2, PTL DEF Spec

(* MemoryIsStored, for any number of processes: no process works from a log the
   store does not have, whatever appends conflict, fail or are written by a store
   that says they failed (commit and recover_paid_terminal_persistence). *)
THEOREM LogsAreStored == Spec => []MemoryIsStored
<1>1. SpendInv => MemoryIsStored
  <2> SUFFICES ASSUME SpendInv, NEW p \in Procs
               PROVE  IsPrefix(proc[p].log, store)
    BY DEF MemoryIsStored
  <2>1. /\ proc[p].log \in Seq(Event) /\ store \in Seq(Event)
        /\ PrefixOf(proc[p].log, store)
    BY AtRestLog
  <2> QED
    BY <2>1, PrefixIsPrefix
<1> QED
  BY <1>1, SpendInvariant, PTL

(* StoreReplays, for any number of processes and faults: every stored event was
   acceptable to ToolSpendLedgerProjection::apply after those before it, so that
   open_durable never refuses the session. *)
THEOREM SessionsReplay == Spec => []StoreReplays
<1>1. SpendInv => StoreReplays
  BY DEF SpendInv, LedgerInv, Replays, StoreReplays
<1> QED
  BY <1>1, SpendInvariant, PTL

(* ChargesAreAccounted, for any quotes, processes and faults: what the provider
   charged for a call is at most what the stored session counts for it, whether the
   call was settled, interrupted, or left for reconciliation. *)
THEOREM ChargesAreCovered == Spec => []ChargesAreAccounted
<1>1. SpendInv => ChargesAreAccounted
  <2> SUFFICES ASSUME SpendInv, NEW c \in Calls
               PROVE  charge[c] <= Charged(store, c)
    BY DEF ChargesAreAccounted
  <2>1. /\ store \in Seq(Event) /\ Replays(store) /\ charge[c] \in Nat
        /\ charge[c] <= Quote[c]
        /\ c \in sent => Has(store, "started", c) /\ ~Has(store, "released", c)
        /\ c \notin sent => charge[c] = 0
    BY DEF SpendInv, TypesInv, LedgerInv, ChargeInv
  <2>2. CASE Status(store, c) \in {"reserved", "reconcile"}
    <3>1. Charged(store, c) = Quote[c]
      BY <2>2 DEF Charged
    <3> QED
      BY <2>1, <3>1
  <2>3. CASE Status(store, c) = "finalized"
    <3> DEFINE e == CHOOSE e \in ToSet(store) : e.k = "finalized" /\ e.call = c
    <3>1. Has(store, "finalized", c)
      BY <2>3, StatusIs DEF Settlements
    <3>2. \E f \in ToSet(store) : f.k = "finalized" /\ f.call = c
      BY <3>1 DEF Has, ToSet
    <3>3. e \in ToSet(store) /\ e.k = "finalized" /\ e.call = c
      BY <3>2
    <3>4. Charged(store, c) = e.amount
      BY <2>3 DEF Charged
    <3> HIDE DEF e
    <3>5. charge[c] <= e.amount
      BY <3>3 DEF ToSet, SpendInv, ChargeInv
    <3> QED
      BY <3>4, <3>5
  <2>4. CASE Status(store, c) \in {"released", "none"}
    <3>1. Charged(store, c) = 0
      BY <2>4 DEF Charged
    <3>2. c \notin sent
      BY <2>1, <2>4, StatusIs, ReplayOrder DEF Settlements
    <3> QED
      BY <2>1, <3>1, <3>2
  <2> QED
    BY <2>2, <2>3, <2>4, StatusIs DEF Settlements
<1> QED
  BY <1>1, SpendInvariant, PTL
===============================================================================
