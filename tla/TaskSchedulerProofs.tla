------------------------- MODULE TaskSchedulerProofs ------------------------
(***************************************************************************)
(* Theorems about TaskScheduler, for any number of tasks.                  *)
(*                                                                         *)
(* A pass or a step of a task decides on what memory shows; its commit is  *)
(* published later, after those before it.  LineInv says what the commits  *)
(* on the line may do to the memory they will change: each task is in one  *)
(* of them at most, whatever it reads stays as it was read, and a record   *)
(* follows from the one before it.  Every decision is lawful in this sense *)
(* (StepKinds), so LineInv is inductive (LineStep).  From it follow what   *)
(* is published, which keeps the promise of TaskPromise, and what holds of *)
(* tasks an earlier Harness left behind, of aborts and of waits.           *)
(*                                                                         *)
(* #validateWait (scheduler.ts 2470-2472): "Invariant: the wait-for graph  *)
(* is acyclic.  Only a wait adds an edge between existing tasks, as a new  *)
(* task has only incoming edges, so checking each wait maintains it."  The *)
(* theorems on acyclic views are the parts of this argument; GraphInv      *)
(* carries it along the commits that are decided and not published.        *)
(***************************************************************************)
EXTENDS TaskScheduler, TLAPS

\* Any tasks have a latest one.
Ordered == \A S \in SUBSET Tasks : S # {} => \E z \in S : \A x \in S : x <= z

\* What the proofs use of where a plan puts its tasks
Placed ==
    /\ Ordered
    /\ \A t \in Tasks :
           /\ tree[t].above \subseteq Tasks /\ tree[t].over \subseteq tree[t].above
           /\ \A a \in tree[t].above : a < t /\ tree[a].above \subseteq tree[t].above
           /\ \A a \in tree[t].over, b \in tree[t].above : a < b => b \in tree[t].over /\ a \in tree[b].over
           /\ \A a \in tree[t].over : tree[a].over \subseteq tree[t].over
           /\ tree[t].parent # 0 => /\ tree[t].parent \in Tasks
                                    /\ tree[t].above = {tree[t].parent} \cup tree[tree[t].parent].above
           /\ tree[t].parent = 0 => tree[t].above = {}
           /\ tree[t].how = "child" => tree[t].parent # 0 /\ tree[t].parent \in tree[t].over
           /\ tree[t].how = "background" => tree[t].over = {}
-----------------------------------------------------------------------------
(* Where tasks are: walks up *)

Up(up)      == up \in [Tasks -> Nat] /\ \A x \in Tasks : up[x] < x
UpTo(up, t) == Above(up, t) \cup {t}

LEMMA PlanPlaced == Ordered /\ plan \in DOMAIN Plans => Placed
<1>UpInTasks. ASSUME NEW up, Up(up), NEW x \in Tasks
              PROVE  up[x] \in Nat /\ up[x] < x /\ (up[x] # 0 => up[x] \in Tasks)
  BY <1>UpInTasks, BoundsAssumption DEF Up, Tasks
\* The walk up from t is the least set around t that up does not leave.
<1>UpToLeast. ASSUME NEW up, Up(up), NEW t \in Tasks
              PROVE  /\ t \in UpTo(up, t) /\ UpTo(up, t) \in SUBSET Tasks
                     /\ \A x \in UpTo(up, t) : up[x] \in UpTo(up, t) \cup {0}
                     /\ \A R \in SUBSET Tasks :
                           t \in R /\ (\A x \in R : up[x] \in R \cup {0}) => UpTo(up, t) \subseteq R
  <2>. USE <1>UpToLeast
  <2>1. t \in UpTo(up, t) /\ UpTo(up, t) \in SUBSET Tasks
    BY Zenon DEF UpTo, Above
  <2>2. \A R \in SUBSET Tasks :
            t \in R /\ (\A x \in R : up[x] \in R \cup {0}) => UpTo(up, t) \subseteq R
    BY Zenon DEF UpTo, Above
  <2>3. ASSUME NEW x \in UpTo(up, t), up[x] # 0 PROVE up[x] \in UpTo(up, t)
    <3>1. \A R \in SUBSET Tasks :
            t \in R /\ (\A z \in R : up[z] \in R \cup {0}) => up[x] \in R
      BY Zenon, <2>2, <2>3
    <3>2. up[x] \in Tasks
      BY Zenon, <2>1, <2>3, <1>UpInTasks
    <3>. QED  BY Zenon, <3>1, <3>2 DEF UpTo, Above
  <2>. QED  BY Zenon, <2>1, <2>2, <2>3
<1>UpToLess. ASSUME NEW up, Up(up), NEW t \in Tasks, NEW s \in UpTo(up, t)
             PROVE  s \in Tasks /\ s <= t
  <2>. USE <1>UpToLess
  <2>. DEFINE R == {x \in Tasks : x <= t}
  <2>1. R \in SUBSET Tasks /\ t \in R
    BY DEF Tasks
  <2>2. \A x \in R : up[x] \in R \cup {0}
    <3>. SUFFICES ASSUME NEW x \in R, up[x] # 0 PROVE up[x] \in R
      BY Zenon
    <3>1. up[x] \in Tasks /\ up[x] < x
      BY Zenon, <1>UpInTasks
    <3>. QED  BY <3>1 DEF Tasks
  <2>3. UpTo(up, t) \subseteq R
    BY Zenon, <2>1, <2>2, <1>UpToLeast
  <2>. QED  BY Zenon, <2>3
<1>UpToAgain. ASSUME NEW up, Up(up), NEW t \in Tasks, NEW s \in UpTo(up, t)
              PROVE  UpTo(up, s) \subseteq UpTo(up, t)
  <2>. USE <1>UpToAgain
  <2>1. s \in Tasks
    BY Zenon, <1>UpToLess
  <2>. QED  BY Zenon, <2>1, <1>UpToLeast
\* One step at a time
<1>UpToStep. ASSUME NEW up, Up(up), NEW t \in Tasks
             PROVE  UpTo(up, t) = {t} \cup (IF up[t] = 0 THEN {} ELSE UpTo(up, up[t]))
  <2>. USE <1>UpToStep
  <2>. DEFINE R == {t} \cup (IF up[t] = 0 THEN {} ELSE UpTo(up, up[t]))
  <2>1. up[t] # 0 => /\ up[t] \in UpTo(up, up[t]) /\ UpTo(up, up[t]) \in SUBSET Tasks
                     /\ \A x \in UpTo(up, up[t]) : up[x] \in UpTo(up, up[t]) \cup {0}
    BY Zenon, <1>UpInTasks, <1>UpToLeast
  <2>2. R \in SUBSET Tasks /\ t \in R /\ \A x \in R : up[x] \in R \cup {0}
    BY Zenon, <2>1
  <2>3. UpTo(up, t) \subseteq R
    <3>. HIDE DEF R
    <3>. QED  BY Zenon, <2>2, <1>UpToLeast
  <2>4. t \in UpTo(up, t) /\ up[t] \in UpTo(up, t) \cup {0}
    BY Zenon, <1>UpToLeast
  <2>5. up[t] # 0 => UpTo(up, up[t]) \subseteq UpTo(up, t)
    BY Zenon, <2>4, <1>UpToAgain
  <2>. QED  BY Zenon, <2>3, <2>4, <2>5
\* Of two tasks on one walk up, the walk from the later passes the earlier.
<1>UpToLinear. ASSUME NEW up, Up(up), NEW t \in Tasks, NEW a \in UpTo(up, t), NEW b \in UpTo(up, t), a <= b
               PROVE  a \in UpTo(up, b)
  <2>. USE <1>UpToLinear
  <2>. DEFINE R == UpTo(up, b) \cup {x \in Tasks : b \in UpTo(up, x)}
  <2>1. a \in Tasks /\ b \in Tasks
    BY Zenon, <1>UpToLess
  <2>2. R \in SUBSET Tasks /\ t \in R
    BY Zenon, <2>1, <1>UpToLeast
  <2>3. ASSUME NEW x \in R, up[x] # 0 PROVE up[x] \in R
    <3>1. CASE x \in UpTo(up, b)
      BY Zenon, <2>1, <2>3, <3>1, <1>UpToLeast
    <3>2. CASE x \in Tasks /\ b \in UpTo(up, x) /\ x # b
      <4>1. UpTo(up, x) = {x} \cup UpTo(up, up[x])
        BY Zenon, <2>3, <3>2, <1>UpToStep
      <4>. QED  BY SMTT(30), <2>3, <3>2, <4>1, <1>UpInTasks
    <3>3. b \in UpTo(up, b)
      BY Zenon, <2>1, <1>UpToLeast
    <3>. QED  BY Zenon, <3>1, <3>2, <3>3
  <2>4. UpTo(up, t) \subseteq R
    <3>. HIDE DEF R
    <3>. QED  BY Zenon, <2>2, <2>3, <1>UpToLeast
  <2>5. CASE b \in UpTo(up, a)
    <3>1. b <= a
      BY Zenon, <2>1, <2>5, <1>UpToLess
    <3>2. a = b
      BY <2>1, <3>1 DEF Tasks
    <3>. QED  BY Zenon, <2>1, <3>2, <1>UpToLeast
  <2>. QED  BY Zenon, <2>4, <2>5
\* By a function that stops earlier, a walk up passes the same tasks until it stops.
<1>StopsEarlier. ASSUME NEW up, Up(up), NEW st, Up(st), \A x \in Tasks : st[x] \in {0, up[x]},
                        NEW t \in Tasks
                 PROVE  /\ UpTo(st, t) \subseteq UpTo(up, t)
                        /\ \A a \in UpTo(st, t), b \in UpTo(up, t) : a <= b => b \in UpTo(st, t)
  <2>. USE <1>StopsEarlier
  <2>1. UpTo(st, t) \subseteq UpTo(up, t)
    <3>1. UpTo(up, t) \in SUBSET Tasks /\ t \in UpTo(up, t)
          /\ \A x \in UpTo(up, t) : up[x] \in UpTo(up, t) \cup {0}
      BY Zenon, <1>UpToLeast
    <3>2. \A x \in UpTo(up, t) : st[x] \in UpTo(up, t) \cup {0}
      BY Zenon, <3>1
    <3>. QED  BY Zenon, <3>1, <3>2, <1>UpToLeast
  <2>2. ASSUME NEW a \in UpTo(st, t), NEW b \in UpTo(up, t), a <= b PROVE b \in UpTo(st, t)
    <3>. DEFINE R == UpTo(st, t) \cup {x \in Tasks : x < a}
    <3>1. /\ a \in Tasks /\ b \in Tasks /\ t \in UpTo(st, t) /\ UpTo(st, t) \in SUBSET Tasks
          /\ \A x \in UpTo(st, t) : st[x] \in UpTo(st, t) \cup {0}
      BY Zenon, <1>UpToLess, <1>UpToLeast
    <3>2. ASSUME NEW x \in UpTo(st, t), st[x] = 0 PROVE x <= a
      <4>1. x \in Tasks /\ UpTo(st, x) = {x}
        BY Zenon, <3>1, <3>2, <1>UpToStep
      <4>2. CASE a <= x
        <5>1. a \in UpTo(st, x)
          BY Zenon, <4>2, <1>UpToLinear
        <5>. QED  BY <3>1, <4>1, <5>1 DEF Tasks
      <4>. QED  BY <3>1, <4>1, <4>2 DEF Tasks
    <3>3. ASSUME NEW x \in R, up[x] # 0 PROVE up[x] \in R
      <4>1. x \in Tasks /\ up[x] \in Tasks /\ up[x] < x
        BY Zenon, <3>1, <3>3, <1>UpInTasks
      <4>2. CASE x < a
        BY <3>1, <4>1, <4>2 DEF Tasks
      <4>3. CASE x \in UpTo(st, t) /\ st[x] = 0
        BY <3>1, <3>2, <4>1, <4>3 DEF Tasks
      <4>4. CASE x \in UpTo(st, t) /\ st[x] # 0
        BY Zenon, <3>1, <4>1, <4>4
      <4>. QED  BY Zenon, <4>2, <4>3, <4>4
    <3>4. R \in SUBSET Tasks /\ t \in R
      BY Zenon, <3>1
    <3>5. UpTo(up, t) \subseteq R
      <4>. HIDE DEF R
      <4>. QED  BY Zenon, <3>3, <3>4, <1>UpToLeast
    <3>. QED  BY <2>2, <3>1, <3>5 DEF Tasks
  <2>. QED  BY Zenon, <2>1, <2>2
<1>AboveUpTo. ASSUME NEW up, Up(up), NEW t \in Tasks
              PROVE  /\ Above(up, t) = UpTo(up, t) \ {t}
                     /\ \A s : s \in Above(up, t) <=> s \in UpTo(up, t) /\ s # t
  BY Zenon, <1>AboveUpTo DEF UpTo, Above
<1>. SUFFICES ASSUME Ordered, plan \in DOMAIN Plans, NEW t \in Tasks
     PROVE  /\ tree[t].above \subseteq Tasks /\ tree[t].over \subseteq tree[t].above
            /\ \A a \in tree[t].above : a < t /\ tree[a].above \subseteq tree[t].above
            /\ \A a \in tree[t].over, b \in tree[t].above : a < b => b \in tree[t].over /\ a \in tree[b].over
            /\ \A a \in tree[t].over : tree[a].over \subseteq tree[t].over
            /\ tree[t].parent # 0 => /\ tree[t].parent \in Tasks
                                     /\ tree[t].above = {tree[t].parent} \cup tree[tree[t].parent].above
            /\ tree[t].parent = 0 => tree[t].above = {}
            /\ tree[t].how = "child" => tree[t].parent # 0 /\ tree[t].parent \in tree[t].over
            /\ tree[t].how = "background" => tree[t].over = {}
  BY Zenon DEF Placed
<1>. DEFINE places == Plans[plan].places
            parent == [x \in Tasks |-> IF x > Len(places) THEN 0 ELSE places[x][1]]
            how == [x \in Tasks |-> IF x > Len(places) THEN "never" ELSE places[x][2]]
            held == [x \in Tasks |-> IF how[x] = "background" THEN 0 ELSE parent[x]]
<1>1. /\ places \in Seq(Nat \X Hows) /\ Len(places) \in Nat
      /\ \A x \in DOMAIN places : places[x][1] < x /\ places[x] # <<0, "child">>
  BY PlansAssumption
<1>2. \A x \in Tasks : x > Len(places) \/ (x \in DOMAIN places /\ places[x] \in Nat \X Hows)
  BY <1>1, BoundsAssumption DEF Tasks
<1>3. Up(parent) /\ Up(held) /\ \A x \in Tasks : held[x] \in {0, parent[x]}
  BY <1>1, <1>2, BoundsAssumption DEF Up, Tasks
<1>4. ASSUME NEW x \in Tasks, how[x] = "child" PROVE parent[x] # 0 /\ held[x] = parent[x]
  <2>1. x \in DOMAIN places /\ places[x] \in Nat \X Hows /\ ~(x > Len(places))
    BY <1>2, <1>4
  <2>2. parent[x] = places[x][1] /\ places[x][2] = "child"
    BY <1>4, <2>1
  <2>3. places[x] # <<0, "child">>
    BY <1>1, <2>1
  <2>4. places[x][1] # 0
    BY <2>1, <2>2, <2>3
  <2>. QED  BY <1>4, <2>2, <2>4
<1>5. \A x \in Tasks : /\ tree[x].parent = parent[x] /\ tree[x].how = how[x]
                       /\ tree[x].above = Above(parent, x) /\ tree[x].over = Above(held, x)
  BY Zenon DEF tree, Forest, Laid
<1>6. \A x \in Tasks : how[x] = "background" => held[x] = 0
  BY Zenon
<1>. HIDE DEF parent, how, held, places
<1>7. \A x \in Tasks : /\ \A s : s \in tree[x].above <=> s \in UpTo(parent, x) /\ s # x
                       /\ \A s : s \in tree[x].over <=> s \in UpTo(held, x) /\ s # x
  <2>1. \A x \in Tasks : /\ \A s : s \in Above(parent, x) <=> s \in UpTo(parent, x) /\ s # x
                         /\ \A s : s \in Above(held, x) <=> s \in UpTo(held, x) /\ s # x
    BY Zenon, <1>3, <1>AboveUpTo
  <2>. QED  BY <1>5, <2>1
<1>8. \A x \in Tasks : \A s \in tree[x].above : s \in Tasks /\ s <= x /\ s # x /\ s < x
  <2>1. \A x \in Tasks : \A s \in tree[x].above : s \in Tasks /\ s <= x /\ s # x
    BY Zenon, <1>3, <1>7, <1>UpToLess
  <2>. QED  BY <2>1 DEF Tasks
<1>9. tree[t].above \subseteq Tasks /\ tree[t].over \subseteq tree[t].above
  BY Zenon, <1>3, <1>7, <1>8, <1>StopsEarlier
<1>10. ASSUME NEW a \in tree[t].above PROVE a < t /\ tree[a].above \subseteq tree[t].above
  <2>1. a \in Tasks /\ a < t /\ t \in Tasks
    BY Zenon, <1>8
  <2>2. UpTo(parent, a) \subseteq UpTo(parent, t)
    BY Zenon, <1>3, <1>7, <1>10, <1>UpToAgain
  <2>3. \A s \in tree[a].above : s \in Tasks /\ s < a
    BY Zenon, <1>8, <2>1
  <2>. QED  BY <1>7, <2>1, <2>2, <2>3 DEF Tasks
<1>11. ASSUME NEW a \in tree[t].over PROVE tree[a].over \subseteq tree[t].over
  <2>1. a \in Tasks /\ a < t /\ t \in Tasks
    BY Zenon, <1>8, <1>9
  <2>2. UpTo(held, a) \subseteq UpTo(held, t)
    BY Zenon, <1>3, <1>7, <1>11, <1>UpToAgain
  <2>3. \A s \in tree[a].over : s \in Tasks /\ s <= a
    BY Zenon, <1>3, <1>7, <2>1, <1>UpToLess
  <2>. QED  BY <1>7, <2>1, <2>2, <2>3 DEF Tasks
<1>12. ASSUME NEW a \in tree[t].over, NEW b \in tree[t].above, a < b
       PROVE  b \in tree[t].over /\ a \in tree[b].over
  <2>1. a \in Tasks /\ b \in Tasks /\ a <= b /\ a # b
    BY <1>8, <1>9, <1>12 DEF Tasks
  <2>2. a \in UpTo(held, t) /\ b \in UpTo(parent, t) /\ b # t
    BY Zenon, <1>7
  <2>3. b \in UpTo(held, t)
    BY Zenon, <1>3, <2>1, <2>2, <1>StopsEarlier
  <2>4. a \in UpTo(held, b)
    BY Zenon, <1>3, <2>1, <2>2, <2>3, <1>UpToLinear
  <2>. QED  BY Zenon, <1>7, <2>1, <2>2, <2>3, <2>4
<1>13. ASSUME tree[t].parent # 0
       PROVE  /\ tree[t].parent \in Tasks
              /\ tree[t].above = {tree[t].parent} \cup tree[tree[t].parent].above
  <2>. DEFINE q == parent[t]
  <2>1. q # 0 /\ q \in Tasks /\ q < t /\ tree[t].parent = q
    BY Zenon, <1>3, <1>5, <1>13, <1>UpInTasks
  <2>2. UpTo(parent, t) = {t} \cup UpTo(parent, q)
    BY Zenon, <1>3, <2>1, <1>UpToStep
  <2>3. q \in UpTo(parent, q) /\ t \notin UpTo(parent, q)
    <3>1. q \in UpTo(parent, q)
      BY Zenon, <1>3, <2>1, <1>UpToLeast
    <3>2. ~(t <= q)
      BY <2>1 DEF Tasks
    <3>. QED  BY Zenon, <1>3, <2>1, <3>1, <3>2, <1>UpToLess
  <2>. HIDE DEF q
  <2>. QED  BY <1>7, <2>1, <2>2, <2>3
<1>14. ASSUME tree[t].parent = 0 PROVE tree[t].above = {}
  <2>1. UpTo(parent, t) = {t}
    BY <1>3, <1>5, <1>14, <1>UpToStep
  <2>. QED  BY Zenon, <1>7, <2>1
<1>15. ASSUME tree[t].how = "child" PROVE tree[t].parent # 0 /\ tree[t].parent \in tree[t].over
  <2>. DEFINE q == held[t]
  <2>1. q # 0 /\ q = tree[t].parent
    BY Zenon, <1>4, <1>5, <1>15
  <2>2. q < t /\ t \in Tasks /\ q \in Tasks
    BY Zenon, <1>3, <2>1, <1>UpInTasks
  <2>3. q \in UpTo(held, t)
    BY Zenon, <1>3, <2>1, <1>UpToLeast
  <2>4. q # t
    BY <2>2 DEF Tasks
  <2>. QED  BY Zenon, <1>7, <2>1, <2>3, <2>4
<1>16. ASSUME tree[t].how = "background" PROVE tree[t].over = {}
  <2>1. UpTo(held, t) = {t}
    BY <1>3, <1>5, <1>6, <1>16, <1>UpToStep
  <2>. QED  BY Zenon, <1>7, <2>1
<1>. QED  BY Zenon, <1>9, <1>10, <1>11, <1>12, <1>13, <1>14, <1>15, <1>16
-----------------------------------------------------------------------------
(* Records *)

Records ==
    [st : Statuses, out : Outcomes, mark : Marks, restarts : Nat, on : SUBSET Tasks,
     failFast : BOOLEAN, until : Nat]

\* A function from some tasks to records
Writings == UNION {[D -> Records] : D \in SUBSET Tasks}

LEMMA RecordFields ==
    ASSUME NEW r \in Records
    PROVE  /\ r.st \in Statuses /\ r.out \in Outcomes /\ r.mark \in Marks /\ r.restarts \in Nat
           /\ r.on \in SUBSET Tasks /\ r.failFast \in BOOLEAN /\ r.until \in Nat
           /\ r = [st |-> r.st, out |-> r.out, mark |-> r.mark, restarts |-> r.restarts, on |-> r.on,
                   failFast |-> r.failFast, until |-> r.until]
BY Zenon DEF Records

LEMMA NewRecords ==
    /\ NoTask \in Records /\ NewTask \in Records
    /\ NoTask.st = "none" /\ NoTask.mark = "none" /\ NoTask.out = "none"
    /\ NewTask.st = "pending" /\ NewTask.mark = "none" /\ NewTask.out = "none"
BY Zenon DEF NoTask, NewTask, Records, Statuses, Outcomes, Marks

LEMMA StatusRecord ==
    ASSUME NEW r \in Records, NEW st \in Statuses
    PROVE  LET q == withStatus(r, st)
           IN q \in Records /\ q.st = st /\ q.out = r.out /\ q.mark = r.mark /\ q.on = {}
BY Zenon DEF withStatus, Records

Waiting(r, on, f) == [progressed(r) EXCEPT !.st = "waiting", !.on = on, !.failFast = f]

LEMMA OpenRecord ==
    ASSUME NEW r \in Records, NEW n \in Nat
    PROVE  LET q == [withStatus(r, "pending") EXCEPT !.restarts = n]
           IN q \in Records /\ q.st = "pending" /\ q.out = r.out /\ q.mark = r.mark /\ q.on = {}
BY Zenon DEF withStatus, Records, Statuses

LEMMA Writing ==
    ASSUME NEW w
    PROVE  /\ w \in Writings => DOMAIN w \in SUBSET Tasks /\ \A t \in DOMAIN w : w[t] \in Records
           /\ w \in Writings => w = [t \in DOMAIN w |-> w[t]]
           /\ DOMAIN w \in SUBSET Tasks /\ (\A t \in DOMAIN w : w[t] \in Records)
                /\ w = [t \in DOMAIN w |-> w[t]] => w \in Writings
BY DEF Writings

LEMMA OneWriting ==
    ASSUME NEW t \in Tasks, NEW r \in Records
    PROVE  One(t, r) \in Writings /\ DOMAIN One(t, r) = {t} /\ One(t, r)[t] = r
<1>1. /\ DOMAIN One(t, r) = {t} /\ One(t, r)[t] = r
      /\ One(t, r) = [x \in DOMAIN One(t, r) |-> One(t, r)[x]]
  BY Zenon DEF One
<1>2. DOMAIN One(t, r) \in SUBSET Tasks /\ \A x \in DOMAIN One(t, r) : One(t, r)[x] \in Records
  BY Zenon, <1>1
<1>. QED  BY Zenon, <1>1, <1>2, Writing

LEMMA NoWriting == Nothing \in Writings /\ DOMAIN Nothing = {}
BY Zenon DEF Nothing, Writings
-----------------------------------------------------------------------------
(* The commits on the line, against the memory m they will change *)

Unsettled == {"pending", "running", "waiting", "sleeping"}
Keys      == {"task", "owned", "intent"} \X Nat
Commits   == [w : Writings, keys : SUBSET Keys]

\* A record q may replace r: no mark and no outcome is taken back.
Follows(r, q) ==
    /\ r.mark # "none" => q.mark # "none"
    /\ \/ r.st = "none" /\ q = NewTask
       \/ r.st \in Unsettled /\ q.st \in Unsettled /\ q.out = r.out
       \/ r.st \in Unsettled /\ q.st \in {"completing", "terminal"} /\ q.out # "none"
       \/ r.st = "completing" /\ q.st \in {"completing", "terminal"} /\ q.out = r.out

\* z is the nearest live task above y.
Nearest(m, y, z) ==
    z \in tree[y].above /\ Live(m, z) /\ \A x \in tree[y].above : Live(m, x) => x <= z

\* No two commits write the same task, and each is known by the keys of what it writes.
Single(p) ==
    /\ \A i, j \in DOMAIN p : i # j => DOMAIN p[i].w \cap DOMAIN p[j].w = {}
    /\ \A n \in DOMAIN p : \A t \in DOMAIN p[n].w : <<"task", t>> \in p[n].keys

Follow(m, p) == \A n \in DOMAIN p : \A t \in DOMAIN p[n].w : Follows(m[t], p[n].w[t])

\* What is above a task was published before it was created.
Rooted(m, p) ==
    /\ \A t \in Tasks : m[t].st # "none" => \A a \in tree[t].above : m[a].st # "none"
    /\ \A n \in DOMAIN p : \A t \in DOMAIN p[n].w : \A a \in tree[t].above : m[a].st # "none"

\* A commit that creates y writes the membership of the nearest live task above it,
\* and no other commit ends that one.
Joined(m, p) ==
    \A n \in DOMAIN p : \A y \in DOMAIN p[n].w, z \in Tasks :
        m[y].st = "none" /\ Nearest(m, y, z) =>
            /\ <<"owned", z>> \in p[n].keys
            /\ \A i \in DOMAIN p \ {n} : z \in DOMAIN p[i].w => p[i].w[z].st # "terminal"

\* What a task that is ended still holds ends by then, and no commit adds to it.
Emptied(m, p) ==
    \A n \in DOMAIN p : \A t \in DOMAIN p[n].w : p[n].w[t].st = "terminal" =>
        \A u \in Tasks : t \in tree[u].over =>
            /\ Live(m, u) => \E i \in 1..n : u \in DOMAIN p[i].w /\ p[i].w[u].st = "terminal"
            /\ m[u].st = "none" => \A i \in DOMAIN p : u \notin DOMAIN p[i].w

\* Waits name tasks there are.
Named(m, p) ==
    /\ \A t \in Tasks : m[t].st = "waiting" => \A u \in m[t].on : m[u].st # "none"
    /\ \A n \in DOMAIN p : \A t \in DOMAIN p[n].w : p[n].w[t].st = "waiting" =>
          \A u \in p[n].w[t].on : m[u].st # "none" \/ u \in DOMAIN p[n].w

Line(m, p) ==
    Single(p) /\ Follow(m, p) /\ Rooted(m, p) /\ Joined(m, p) /\ Emptied(m, p) /\ Named(m, p)

\* What a decision that read `reads' gives to each task t that it writes
LawfulAt(w, reads, t) ==
    /\ \A n \in DOMAIN pend : t \notin DOMAIN pend[n].w
    /\ Follows(mem[t], w[t])
    /\ mem[t].st = "none" => \A a \in tree[t].above : mem[a].st # "none"
    /\ w[t].st = "terminal" =>
          /\ <<"owned", t>> \in reads
          /\ \A u \in Tasks : t \in tree[u].over =>
                /\ Live(mem, u) => u \in DOMAIN w /\ w[u].st = "terminal"
                /\ mem[u].st = "none" => u \notin DOMAIN w
    /\ w[t].st = "waiting" => \A u \in w[t].on : mem[u].st # "none" \/ u \in DOMAIN w

Lawful(w, reads) == \A t \in DOMAIN w : LawfulAt(w, reads, t)

\* Above a task, the nearest live one is no earlier than any live one.
LEMMA NearestThere ==
    ASSUME Placed, NEW m, NEW y \in Tasks, NEW t \in tree[y].above, Live(m, t)
    PROVE  \E z \in Tasks : Nearest(m, y, z) /\ t <= z
<1>. DEFINE S == {x \in tree[y].above : Live(m, x)}
<1>1. S \in SUBSET Tasks /\ S # {}
  BY Zenon DEF Placed
<1>2. PICK z \in S : \A x \in S : x <= z
  BY Zenon, <1>1 DEF Placed, Ordered
<1>. QED  BY Zenon, <1>1, <1>2 DEF Nearest

\* If t holds y, then it is, or it holds, the nearest live task above y.
LEMMA NearestHeld ==
    ASSUME Placed, NEW m, NEW y \in Tasks, NEW t \in tree[y].over, Live(m, t)
    PROVE  \E z \in Tasks : Nearest(m, y, z) /\ (z = t \/ t \in tree[z].over)
<1>1. t \in tree[y].above /\ t \in Tasks
  BY Zenon DEF Placed
<1>2. PICK z \in Tasks : Nearest(m, y, z) /\ t <= z
  BY Zenon, <1>1, NearestThere
<1>3. CASE t # z
  <2>1. t < z /\ z \in tree[y].above
    BY <1>1, <1>2, <1>3 DEF Nearest, Tasks
  <2>. QED  BY Zenon, <1>2, <2>1 DEF Placed
<1>. QED  BY Zenon, <1>2, <1>3

\* The nearest live task above one that w creates: the commit reads its record, so
\* that no other one writes it, and writes its membership.
LEMMA CreatedBelow ==
    ASSUME mem \in [Tasks -> Records], Placed, Line(mem, pend), NEW w \in Writings, NEW reads,
           Lawful(w, reads), Published(reads \cup TaskKeys(Chains(w) \ DOMAIN w)),
           NEW y \in DOMAIN w, mem[y].st = "none", NEW z \in Tasks, Nearest(mem, y, z)
    PROVE  <<"owned", z>> \in Writes(w) /\ \A n \in DOMAIN pend : z \notin DOMAIN pend[n].w
<1>1. DOMAIN w \in SUBSET Tasks /\ y \in Tasks
  BY Zenon, Writing
<1>2. ASSUME NEW x \in tree[y].above, Live(Staged(w), x) PROVE x <= z
  <2>1. x \in Tasks /\ mem[x].st # "none"
    BY Zenon, <1>1 DEF Placed, Lawful, LawfulAt
  <2>2. Live(mem, x)
    <3>1. CASE x \in DOMAIN w
      <4>1. Follows(mem[x], w[x]) /\ w[x].st \notin {"none", "terminal"}
        BY Zenon, <1>2, <2>1, <3>1 DEF Lawful, LawfulAt, Live, Staged
      <4>. QED  BY Zenon, <2>1, <4>1 DEF Follows, Live, Unsettled
    <3>2. CASE x \notin DOMAIN w
      BY Zenon, <1>2, <2>1, <3>2 DEF Live, Staged
    <3>. QED  BY Zenon, <3>1, <3>2
  <2>. QED  BY Zenon, <2>2 DEF Nearest
<1>3. z \in Chains(w)
  <2>1. z \in chain(Staged(w), y)
    BY Zenon, <1>2 DEF chain, Nearest
  <2>2. y \in Relisted(w)
    BY Zenon DEF Relisted
  <2>. QED  BY Zenon, <2>1, <2>2 DEF Chains
<1>4. <<"owned", z>> \in Writes(w)
  BY Zenon, <1>3 DEF Writes, membershipKeys, OwnedKeys
<1>5. ASSUME NEW n \in DOMAIN pend PROVE z \notin DOMAIN pend[n].w
  <2>1. CASE z \in DOMAIN w
    BY Zenon, <2>1 DEF Lawful, LawfulAt
  <2>2. CASE z \notin DOMAIN w
    <3>1. <<"task", z>> \in TaskKeys(Chains(w) \ DOMAIN w)
      BY Zenon, <1>3, <2>2 DEF TaskKeys
    <3>2. <<"task", z>> \notin pend[n].keys
      BY Zenon, <3>1 DEF Published
    <3>. QED  BY Zenon, <3>2 DEF Line, Single
  <2>. QED  BY Zenon, <2>1, <2>2
<1>. QED  BY Zenon, <1>4, <1>5

\* Under a task that w ends, no commit has created anything.
LEMMA NothingJoins ==
    ASSUME Placed, Line(mem, pend), NEW w \in Writings, NEW reads,
           Lawful(w, reads), Published(reads),
           NEW t \in DOMAIN w, w[t].st = "terminal", Live(mem, t),
           NEW u \in Tasks, t \in tree[u].over, mem[u].st = "none"
    PROVE  \A n \in DOMAIN pend : u \notin DOMAIN pend[n].w
<1>1. DOMAIN w \in SUBSET Tasks
  BY Zenon, Writing
<1>2. PICK z \in Tasks : Nearest(mem, u, z) /\ (z = t \/ t \in tree[z].over)
  BY Zenon, NearestHeld
<1>3. z \in DOMAIN w /\ w[z].st = "terminal"
  BY Zenon, <1>2 DEF Nearest, Lawful, LawfulAt
<1>4. <<"owned", z>> \in reads
  BY Zenon, <1>3 DEF Lawful, LawfulAt
<1>5. \A n \in DOMAIN pend : <<"owned", z>> \notin pend[n].keys
  BY Zenon, <1>4 DEF Published
<1>. QED  BY Zenon, <1>2, <1>5 DEF Line, Joined

LEMMA EndsLive ==
    ASSUME NEW r, NEW q, Follows(r, q), q.st = "terminal"
    PROVE  r.st \notin {"none", "terminal"}
BY Zenon DEF Follows, Unsettled, NewTask, NoTask

\* A commit takes its place at the end of the line.
Appended(p, c, q) ==
    LET N == Len(p) + 1
    IN /\ DOMAIN p = 1..Len(p) /\ Len(p) \in Nat /\ DOMAIN q = 1..N /\ Len(q) = N
       /\ N \notin DOMAIN p /\ DOMAIN q = DOMAIN p \cup {N}
       /\ q[N] = c /\ \A n \in DOMAIN p : q[n] = p[n]

LEMMA AppendedThere ==
    ASSUME pend \in Seq(Commits), NEW c \in Commits
    PROVE  /\ Appended(pend, c, Append(pend, c)) /\ Append(pend, c) \in Seq(Commits)
<1>1. DOMAIN pend = 1..Len(pend) /\ Len(pend) \in Nat
  OBVIOUS
<1>. QED  BY <1>1 DEF Appended

LEMMA LineCommit ==
    ASSUME mem \in [Tasks -> Records], Placed, Line(mem, pend),
           NEW w \in Writings, NEW reads, Lawful(w, reads),
           Published(reads \cup TaskKeys(Chains(w) \ DOMAIN w)),
           NEW q, Appended(pend, [w |-> w, keys |-> Writes(w)], q)
    PROVE  Line(mem, q)
<1>. DEFINE N == Len(pend) + 1
<1>1. /\ DOMAIN pend = 1..Len(pend) /\ Len(pend) \in Nat /\ N \notin DOMAIN pend
      /\ DOMAIN q = DOMAIN pend \cup {N} /\ DOMAIN q = 1..N
      /\ q[N].w = w /\ q[N].keys = Writes(w) /\ \A n \in DOMAIN pend : q[n] = pend[n]
  BY DEF Appended
<1>2. DOMAIN w \in SUBSET Tasks /\ \A t \in DOMAIN w : w[t] \in Records
  BY Zenon, Writing
<1>3. Published(reads)
  BY Zenon DEF Published
<1>4. \A t \in DOMAIN w : <<"task", t>> \in Writes(w)
  BY Zenon DEF Writes, TaskKeys
<1>. HIDE DEF N
<1>5. Single(q)
  BY Zenon, <1>1, <1>4 DEF Line, Single, Lawful, LawfulAt
<1>6. Follow(mem, q)
  BY Zenon, <1>1 DEF Line, Follow, Lawful, LawfulAt
<1>7. Rooted(mem, q)
  <2>1. ASSUME NEW t \in DOMAIN w, NEW a \in tree[t].above PROVE mem[a].st # "none"
    BY Zenon, <1>2 DEF Line, Rooted, Lawful, LawfulAt
  <2>2. \A n \in DOMAIN q : \A t \in DOMAIN q[n].w : \A a \in tree[t].above : mem[a].st # "none"
    BY Zenon, <1>1, <2>1 DEF Line, Rooted
  <2>. QED  BY Zenon, <2>2 DEF Line, Rooted
<1>8. Joined(mem, q)
  <2>. SUFFICES ASSUME NEW n \in DOMAIN q, NEW y \in DOMAIN q[n].w, NEW z \in Tasks,
                       mem[y].st = "none", Nearest(mem, y, z)
                PROVE  /\ <<"owned", z>> \in q[n].keys
                       /\ \A i \in DOMAIN q \ {n} : z \in DOMAIN q[i].w => q[i].w[z].st # "terminal"
    BY Zenon DEF Joined
  <2>1. CASE n = N
    <3>1. y \in DOMAIN w
      BY Zenon, <1>1, <2>1
    <3>2. <<"owned", z>> \in Writes(w) /\ \A i \in DOMAIN pend : z \notin DOMAIN pend[i].w
      BY Zenon, <3>1, CreatedBelow
    <3>. QED  BY Zenon, <1>1, <2>1, <3>2
  <2>2. CASE n \in DOMAIN pend
    <3>1. /\ y \in DOMAIN pend[n].w /\ <<"owned", z>> \in pend[n].keys
          /\ \A i \in DOMAIN pend \ {n} : z \in DOMAIN pend[i].w => pend[i].w[z].st # "terminal"
      BY Zenon, <1>1, <2>2 DEF Line, Joined
    <3>2. z \in DOMAIN w => w[z].st # "terminal"
      BY Zenon, <1>3, <2>2, <3>1 DEF Lawful, LawfulAt, Published
    <3>. QED  BY Zenon, <1>1, <2>2, <3>1, <3>2
  <2>. QED  BY Zenon, <1>1, <2>1, <2>2
<1>9. Emptied(mem, q)
  <2>. SUFFICES ASSUME NEW n \in DOMAIN q, NEW t \in DOMAIN q[n].w, q[n].w[t].st = "terminal",
                       NEW u \in Tasks, t \in tree[u].over
                PROVE  /\ Live(mem, u) => \E i \in 1..n : u \in DOMAIN q[i].w /\ q[i].w[u].st = "terminal"
                       /\ mem[u].st = "none" => \A i \in DOMAIN q : u \notin DOMAIN q[i].w
    BY Zenon DEF Emptied
  <2>1. CASE n = N
    <3>1. t \in DOMAIN w /\ w[t].st = "terminal" /\ n \in 1..n
      BY Zenon, <1>1, <2>1
    <3>2. Live(mem, t)
      BY Zenon, <3>1, EndsLive DEF Lawful, LawfulAt, Live
    <3>3. Live(mem, u) => u \in DOMAIN q[n].w /\ q[n].w[u].st = "terminal"
      BY Zenon, <1>1, <2>1, <3>1 DEF Lawful, LawfulAt
    <3>4. mem[u].st = "none" => u \notin DOMAIN w /\ \A i \in DOMAIN pend : u \notin DOMAIN pend[i].w
      <4>1. mem[u].st = "none" => u \notin DOMAIN w
        BY Zenon, <3>1 DEF Lawful, LawfulAt
      <4>2. mem[u].st = "none" => \A i \in DOMAIN pend : u \notin DOMAIN pend[i].w
        BY Zenon, <1>3, <3>1, <3>2, NothingJoins
      <4>. QED  BY Zenon, <4>1, <4>2
    <3>. QED  BY Zenon, <1>1, <3>1, <3>3, <3>4
  <2>2. CASE n \in DOMAIN pend
    <3>1. /\ t \in DOMAIN pend[n].w /\ pend[n].w[t].st = "terminal" /\ 1..n \subseteq DOMAIN pend
          /\ Follows(mem[t], pend[n].w[t])
      BY <1>1, <2>2 DEF Line, Follow
    <3>2. Live(mem, t)
      BY Zenon, <3>1, EndsLive DEF Live
    <3>3. /\ Live(mem, u) => \E i \in 1..n : u \in DOMAIN pend[i].w /\ pend[i].w[u].st = "terminal"
          /\ mem[u].st = "none" => \A i \in DOMAIN pend : u \notin DOMAIN pend[i].w
      BY Zenon, <2>2, <3>1 DEF Line, Emptied
    <3>4. ASSUME mem[u].st = "none", u \in DOMAIN w PROVE FALSE
      <4>1. PICK z \in Tasks : Nearest(mem, u, z) /\ (z = t \/ t \in tree[z].over)
        BY Zenon, <3>2, NearestHeld
      <4>2. \A i \in DOMAIN pend : z \notin DOMAIN pend[i].w
        BY Zenon, <3>4, <4>1, CreatedBelow
      <4>3. Live(mem, z)
        BY Zenon, <4>1 DEF Nearest
      <4>4. \E i \in DOMAIN pend : z \in DOMAIN pend[i].w
        BY Zenon, <2>2, <3>1, <4>1, <4>3 DEF Line, Emptied
      <4>. QED  BY Zenon, <4>2, <4>4
    <3>. QED  BY Zenon, <1>1, <3>1, <3>3, <3>4
  <2>. QED  BY Zenon, <1>1, <2>1, <2>2
<1>10. Named(mem, q)
  BY Zenon, <1>1 DEF Line, Named, Lawful, LawfulAt
<1>. QED  BY Zenon, <1>5, <1>6, <1>7, <1>8, <1>9, <1>10 DEF Line

LEMMA FollowsThere ==
    ASSUME NEW r, NEW q, Follows(r, q)
    PROVE  /\ q.st # "none" /\ r.st # "terminal"
           /\ r.st # "none" => r.st \in Unsettled \cup {"completing"}
           /\ q.st # "terminal" => q.st \in Unsettled \cup {"completing"}
           /\ r.mark # "none" => q.mark # "none"
BY Zenon DEF Follows, Unsettled, NewTask, NoTask

\* The first commit leaves the line.
Shifted(p, q) ==
    /\ DOMAIN p = 1..Len(p) /\ Len(p) \in Nat \ {0} /\ 1 \in DOMAIN p
    /\ DOMAIN q = 1..(Len(p) - 1) /\ Len(q) = Len(p) - 1
    /\ \A n \in DOMAIN q : n + 1 \in DOMAIN p /\ n + 1 # 1 /\ q[n] = p[n + 1]
    /\ \A n \in DOMAIN p : n # 1 => n - 1 \in DOMAIN q /\ q[n - 1] = p[n]

LEMMA ShiftedThere ==
    ASSUME pend \in Seq(Commits), pend # <<>>
    PROVE  Shifted(pend, Tail(pend)) /\ Tail(pend) \in Seq(Commits) /\ Head(pend) = pend[1]
<1>1. DOMAIN pend = 1..Len(pend) /\ Len(pend) \in Nat \ {0}
  OBVIOUS
<1>2. /\ Tail(pend) \in Seq(Commits) /\ Head(pend) = pend[1] /\ Len(Tail(pend)) = Len(pend) - 1
      /\ \A n \in 1..(Len(pend) - 1) : Tail(pend)[n] = pend[n + 1]
  BY <1>1
<1>3. DOMAIN Tail(pend) = 1..(Len(pend) - 1)
  BY <1>2
<1>. QED  BY <1>1, <1>2, <1>3 DEF Shifted

\* What the publication of the first commit makes of memory
LEMMA Published1 ==
    ASSUME Line(mem, pend), 1 \in DOMAIN pend, NEW m, m = Staged(pend[1].w), NEW t \in Tasks
    PROVE  /\ t \in DOMAIN pend[1].w => m[t] = pend[1].w[t] /\ Follows(mem[t], m[t])
           /\ t \notin DOMAIN pend[1].w => m[t] = mem[t]
           /\ mem[t].st # "none" => m[t].st # "none"
           /\ Live(m, t) /\ mem[t].st # "none" => Live(mem, t)
           /\ mem[t].mark # "none" => m[t].mark # "none"
<1>1. t \in DOMAIN pend[1].w => m[t] = pend[1].w[t] /\ Follows(mem[t], m[t])
  BY Zenon DEF Staged, Line, Follow
<1>2. t \notin DOMAIN pend[1].w => m[t] = mem[t]
  BY Zenon DEF Staged
<1>. QED  BY Zenon, <1>1, <1>2, FollowsThere DEF Live

LEMMA LinePublish ==
    ASSUME Placed, Line(mem, pend),
           \A n \in DOMAIN pend : pend[n].w \in Writings, mem \in [Tasks -> Records],
           NEW m, NEW q, Shifted(pend, q), m = Staged(pend[1].w)
    PROVE  Line(m, q)
<1>. DEFINE c == pend[1].w
<1>0. \A n \in DOMAIN pend : /\ DOMAIN pend[n].w \in SUBSET Tasks
                              /\ \A t \in DOMAIN pend[n].w : pend[n].w[t] \in Records
  BY Zenon, Writing
<1>1. /\ 1 \in DOMAIN pend /\ DOMAIN c \in SUBSET Tasks
      /\ \A n \in DOMAIN q : n + 1 \in DOMAIN pend /\ n + 1 # 1 /\ q[n] = pend[n + 1]
  BY Zenon, <1>0 DEF Shifted
<1>2. \A t \in Tasks : /\ t \in DOMAIN c => m[t] = c[t] /\ Follows(mem[t], m[t])
                       /\ t \notin DOMAIN c => m[t] = mem[t]
                       /\ mem[t].st # "none" => m[t].st # "none"
                       /\ Live(m, t) /\ mem[t].st # "none" => Live(mem, t)
  BY Zenon, <1>1, Published1
<1>3. \A n \in DOMAIN q : \A t \in DOMAIN q[n].w : t \in Tasks /\ t \notin DOMAIN c /\ m[t] = mem[t]
  <2>1. \A n \in DOMAIN q : \A t \in DOMAIN q[n].w : t \in Tasks /\ t \notin DOMAIN c
    BY Zenon, <1>0, <1>1 DEF Line, Single
  <2>. QED  BY Zenon, <1>2, <2>1
<1>. HIDE DEF c
<1>4. Single(q)
  <2>1. \A i, j \in DOMAIN q : i # j => i + 1 # j + 1
    BY DEF Shifted
  <2>. QED  BY Zenon, <1>1, <2>1 DEF Line, Single
<1>5. Follow(m, q)
  BY Zenon, <1>1, <1>3 DEF Line, Follow
<1>6. Rooted(m, q)
  <2>1. ASSUME NEW t \in Tasks, m[t].st # "none", NEW a \in tree[t].above PROVE m[a].st # "none"
    <3>1. mem[a].st # "none" /\ a \in Tasks
      <4>1. CASE t \in DOMAIN c
        BY Zenon, <1>1, <4>1 DEF Line, Rooted, Placed, c
      <4>2. CASE t \notin DOMAIN c
        BY <1>2, <2>1, <4>2 DEF Line, Rooted, Placed
      <4>. QED  BY Zenon, <4>1, <4>2
    <3>. QED  BY Zenon, <1>2, <3>1
  <2>2. ASSUME NEW n \in DOMAIN q, NEW t \in DOMAIN q[n].w, NEW a \in tree[t].above
        PROVE  m[a].st # "none"
    <3>1. mem[a].st # "none" /\ a \in Tasks
      BY <1>1, <1>3 DEF Line, Rooted, Placed
    <3>. QED  BY Zenon, <1>2, <3>1
  <2>. QED  BY Zenon, <2>1, <2>2 DEF Rooted
<1>7. Joined(m, q)
  <2>. SUFFICES ASSUME NEW n \in DOMAIN q, NEW y \in DOMAIN q[n].w, NEW z \in Tasks,
                       m[y].st = "none", Nearest(m, y, z)
                PROVE  /\ <<"owned", z>> \in q[n].keys
                       /\ \A i \in DOMAIN q \ {n} : z \in DOMAIN q[i].w => q[i].w[z].st # "terminal"
    BY Zenon DEF Joined
  <2>1. /\ y \in Tasks /\ mem[y].st = "none" /\ n + 1 \in DOMAIN pend /\ n + 1 # 1
        /\ y \in DOMAIN pend[n + 1].w /\ tree[y].above \in SUBSET Tasks
    BY <1>1, <1>3 DEF Placed
  <2>2. \A a \in tree[y].above : mem[a].st # "none"
    BY Zenon, <2>1 DEF Line, Rooted
  <2>3. z \in tree[y].above /\ Live(mem, z)
    BY Zenon, <1>2, <2>1, <2>2 DEF Nearest
  <2>4. ASSUME NEW x \in tree[y].above, Live(mem, x) PROVE x <= z
    <3>1. PICK z0 \in Tasks : Nearest(mem, y, z0) /\ x <= z0
      BY Zenon, <2>1, <2>4, NearestThere
    <3>2. 1 \in DOMAIN pend \ {n + 1}
      BY Zenon, <1>1, <2>1
    <3>3. z0 \in DOMAIN c => c[z0].st # "terminal"
      BY Zenon, <2>1, <3>1, <3>2 DEF Line, Joined, c
    <3>4. Live(m, z0)
      <4>1. CASE z0 \in DOMAIN c
        <5>1. m[z0].st # "none" /\ m[z0].st # "terminal"
          BY Zenon, <1>2, <3>3, <4>1, FollowsThere
        <5>. QED  BY Zenon, <5>1 DEF Live
      <4>2. CASE z0 \notin DOMAIN c
        BY Zenon, <1>2, <3>1, <4>2 DEF Nearest, Live
      <4>. QED  BY Zenon, <4>1, <4>2
    <3>5. z0 <= z
      BY Zenon, <3>1, <3>4 DEF Nearest
    <3>6. x \in Tasks
      BY Zenon, <2>1
    <3>. QED  BY <3>1, <3>5, <3>6 DEF Tasks
  <2>5. Nearest(mem, y, z)
    BY Zenon, <2>3, <2>4 DEF Nearest
  <2>6. /\ <<"owned", z>> \in pend[n + 1].keys
        /\ \A i \in DOMAIN pend \ {n + 1} : z \in DOMAIN pend[i].w => pend[i].w[z].st # "terminal"
    BY Zenon, <2>1, <2>5 DEF Line, Joined
  <2>7. \A i \in DOMAIN q \ {n} : i + 1 \in DOMAIN pend \ {n + 1} /\ q[i] = pend[i + 1]
    BY <1>1 DEF Shifted
  <2>. QED  BY Zenon, <1>1, <2>6, <2>7
<1>8. Emptied(m, q)
  <2>. SUFFICES ASSUME NEW n \in DOMAIN q, NEW t \in DOMAIN q[n].w, q[n].w[t].st = "terminal",
                       NEW u \in Tasks, t \in tree[u].over
                PROVE  /\ Live(m, u) => \E i \in 1..n : u \in DOMAIN q[i].w /\ q[i].w[u].st = "terminal"
                       /\ m[u].st = "none" => \A i \in DOMAIN q : u \notin DOMAIN q[i].w
    BY Zenon DEF Emptied
  <2>1. n + 1 \in DOMAIN pend /\ t \in DOMAIN pend[n + 1].w /\ pend[n + 1].w[t].st = "terminal"
    BY Zenon, <1>1
  <2>2. /\ Live(mem, u) => \E i \in 1..(n + 1) : u \in DOMAIN pend[i].w /\ pend[i].w[u].st = "terminal"
        /\ mem[u].st = "none" => \A i \in DOMAIN pend : u \notin DOMAIN pend[i].w
    BY Zenon, <2>1 DEF Line, Emptied
  <2>3. ASSUME Live(m, u)
        PROVE  \E i \in 1..n : u \in DOMAIN q[i].w /\ q[i].w[u].st = "terminal"
    <3>1. mem[u].st # "none"
      <4>. SUFFICES ASSUME mem[u].st = "none" PROVE FALSE
        BY Zenon
      <4>1. u \notin DOMAIN c
        BY Zenon, <1>1, <2>2 DEF c
      <4>. QED  BY Zenon, <1>2, <2>3, <4>1 DEF Live
    <3>2. PICK i \in 1..(n + 1) : u \in DOMAIN pend[i].w /\ pend[i].w[u].st = "terminal"
      BY Zenon, <1>2, <2>2, <2>3, <3>1
    <3>3. i # 1
      BY Zenon, <1>2, <2>3, <3>2 DEF Live, c
    <3>4. i - 1 \in 1..n /\ q[i - 1] = pend[i]
      <4>1. /\ DOMAIN pend = 1..Len(pend) /\ Len(pend) \in Nat /\ n + 1 \in 1..Len(pend) /\ n \in Nat
            /\ \A k \in DOMAIN pend : k # 1 => q[k - 1] = pend[k]
        BY <2>1 DEF Shifted
      <4>2. i \in 1..Len(pend) /\ i - 1 \in 1..n
        BY <3>2, <3>3, <4>1
      <4>. QED  BY Zenon, <3>3, <4>1, <4>2
    <3>. QED  BY Zenon, <3>2, <3>4
  <2>4. ASSUME m[u].st = "none", NEW i \in DOMAIN q PROVE u \notin DOMAIN q[i].w
    BY Zenon, <1>1, <1>2, <2>2, <2>4
  <2>. QED  BY Zenon, <2>3, <2>4
<1>9. Named(m, q)
  <2>1. ASSUME NEW t \in Tasks, m[t].st = "waiting", NEW u \in m[t].on PROVE m[u].st # "none"
    <3>1. CASE t \in DOMAIN c
      <4>1. mem[u].st # "none" \/ u \in DOMAIN c
        BY Zenon, <1>1, <1>2, <2>1, <3>1 DEF Line, Named, c
      <4>2. u \in Tasks
        <5>1. c[t] \in Records /\ u \in c[t].on
          BY Zenon, <1>0, <1>1, <1>2, <2>1, <3>1 DEF c
        <5>. QED  BY Zenon, <5>1, RecordFields
      <4>3. u \in DOMAIN c => m[u].st # "none"
        BY Zenon, <1>2, <4>2, FollowsThere
      <4>. QED  BY Zenon, <1>2, <4>1, <4>2, <4>3
    <3>2. CASE t \notin DOMAIN c
      <4>1. mem[u].st # "none" /\ u \in Tasks
        BY Zenon, <1>2, <2>1, <3>2, RecordFields DEF Line, Named
      <4>. QED  BY Zenon, <1>2, <4>1
    <3>. QED  BY Zenon, <3>1, <3>2
  <2>2. ASSUME NEW n \in DOMAIN q, NEW t \in DOMAIN q[n].w, q[n].w[t].st = "waiting",
               NEW u \in q[n].w[t].on
        PROVE  m[u].st # "none" \/ u \in DOMAIN q[n].w
    <3>1. mem[u].st # "none" \/ u \in DOMAIN q[n].w
      BY Zenon, <1>1, <2>2 DEF Line, Named
    <3>2. u \in Tasks
      <4>1. q[n].w[t] \in Records
        BY Zenon, <1>0, <1>1
      <4>. QED  BY Zenon, <4>1, RecordFields
    <3>. QED  BY Zenon, <1>2, <3>1, <3>2
  <2>. QED  BY Zenon, <2>1, <2>2 DEF Named
<1>. QED  BY Zenon, <1>4, <1>5, <1>6, <1>7, <1>8, <1>9 DEF Line

TypeOK ==
    /\ plan \in DOMAIN Plans
    /\ mem \in [Tasks -> Records] /\ \A t \in Tasks : mem[t].st = "none" => mem[t] = NoTask
    /\ pend \in Seq(Commits)
    /\ inv \in [Tasks -> {"none", "start", "phase", "progressed", "abort"}]
    /\ runnable \subseteq Tasks /\ finalizeChecks \subseteq Tasks /\ failFastChecks \subseteq Tasks
    /\ abandoned \subseteq Tasks /\ lost \subseteq Tasks /\ now \in Nat

\* A writing that closes no wait: at most one task is created, and no other one
\* comes to wait.
Calm(w) ==
    /\ \A t \in DOMAIN w : mem[t].st # "none" /\ w[t].st = "waiting" /\ w[t].mark = "none" =>
          mem[t].st = "waiting" /\ w[t].on = mem[t].on
    /\ \A t, u \in DOMAIN w : mem[t].st = "none" /\ mem[u].st = "none" => t = u

Decision == \E w \in Writings : \E reads : Lawful(w, reads) /\ Calm(w) /\ Commit(w, reads)

LEMMA WritesKeys ==
    ASSUME Placed, NEW w \in Writings
    PROVE  [w |-> w, keys |-> Writes(w)] \in Commits
<1>1. DOMAIN w \in SUBSET Tasks /\ Tasks \in SUBSET Nat
  BY Writing DEF Tasks
<1>2. Chains(w) \in SUBSET Tasks
  <2>1. \A t \in DOMAIN w : chain(Staged(w), t) \in SUBSET Tasks
    BY Zenon, <1>1 DEF chain, Placed
  <2>. QED  BY Zenon, <2>1 DEF Chains, Relisted
<1>3. Writes(w) \in SUBSET Keys
  <2>1. TaskKeys(DOMAIN w) \subseteq Keys
    BY <1>1 DEF TaskKeys, Keys
  <2>2. membershipKeys(w) \subseteq Keys
    BY <1>1, <1>2 DEF membershipKeys, OwnedKeys, Keys
  <2>3. {INTENT_KEY} \subseteq Keys
    BY DEF INTENT_KEY, Keys
  <2>. QED  BY Zenon, <2>1, <2>2, <2>3 DEF Writes
<1>. QED  BY Zenon, <1>3 DEF Commits

LEMMA CommitKeepsLine ==
    ASSUME TypeOK, Placed, Line(mem, pend), NEW w \in Writings, NEW reads,
           Lawful(w, reads), Commit(w, reads)
    PROVE  /\ pend' \in Seq(Commits) /\ Line(mem, pend')
           /\ pend' = pend \/ (DOMAIN w # {} /\ Appended(pend, [w |-> w, keys |-> Writes(w)], pend'))
           /\ DOMAIN w = {} => pend' = pend
           /\ Published(reads)
<1>1. CASE DOMAIN w = {}
  BY Zenon, <1>1 DEF Commit, TypeOK, Published
<1>2. CASE DOMAIN w # {}
  <2>1. /\ pend' = Append(pend, [w |-> w, keys |-> Writes(w)])
        /\ Published(reads \cup TaskKeys(Chains(w) \ DOMAIN w))
    BY Zenon, <1>2 DEF Commit
  <2>2. [w |-> w, keys |-> Writes(w)] \in Commits
    BY Zenon, WritesKeys
  <2>3. Appended(pend, [w |-> w, keys |-> Writes(w)], pend') /\ pend' \in Seq(Commits)
    BY Zenon, <2>1, <2>2, AppendedThere DEF TypeOK
  <2>4. Line(mem, pend')
    BY Zenon, <2>1, <2>3, LineCommit DEF TypeOK
  <2>. QED  BY Zenon, <1>2, <2>1, <2>3, <2>4 DEF Published
<1>. QED  BY Zenon, <1>1, <1>2

\* A decision that read a task's record is the only one to write it.
LEMMA ReadIsFree ==
    ASSUME Line(mem, pend), NEW t, NEW keys, <<"task", t>> \in keys, Published(keys)
    PROVE  \A n \in DOMAIN pend : t \notin DOMAIN pend[n].w
BY Zenon DEF Line, Single, Published

Untouched(t) == \A n \in DOMAIN pend : t \notin DOMAIN pend[n].w

LEMMA UnbornIs ==
    ASSUME TypeOK, NEW u \in Unborn
    PROVE  /\ u \in Tasks /\ mem[u] = NoTask /\ mem[u].st = "none" /\ mem[u].mark = "none"
           /\ tree[u].how # "never" /\ Untouched(u) /\ \A x \in Unborn : x = u
<1>1. u \in Tasks /\ tree[u].how # "never" /\ mem[u].st = "none" /\ Untouched(u)
  BY Zenon DEF Unborn, Untouched
<1>2. \A x \in Unborn : x \in Tasks /\ x <= u /\ u <= x
  BY Zenon DEF Unborn
<1>3. \A x \in Unborn : x = u
  BY <1>1, <1>2 DEF Tasks
<1>4. mem[u] = NoTask
  BY Zenon, <1>1 DEF TypeOK
<1>. QED  BY Zenon, <1>1, <1>3, <1>4, NewRecords

\* What is above a task that can be created is published.
LEMMA CreatableRoots ==
    ASSUME Placed, Line(mem, pend), NEW u \in Tasks, Creatable(u)
    PROVE  \A a \in tree[u].above : mem[a].st # "none"
<1>1. CASE tree[u].parent = 0
  BY Zenon, <1>1 DEF Placed
<1>2. CASE tree[u].parent # 0
  <2>. DEFINE q == tree[u].parent
  <2>1. q \in Tasks /\ tree[u].above = {q} \cup tree[q].above /\ mem[q].st # "none"
    BY Zenon, <1>2 DEF Placed, Creatable, Ownable, HasConversation, Live
  <2>2. \A a \in tree[q].above : mem[a].st # "none"
    BY Zenon, <2>1 DEF Line, Rooted
  <2>. QED  BY Zenon, <2>1, <2>2
<1>. QED  BY Zenon, <1>1, <1>2

LEMMA CreatedIs ==
    ASSUME TypeOK, Placed, Line(mem, pend), NEW t \in Tasks, mem[t].st # "none",
           NEW ending, NEW created \in Created(t, ending)
    PROVE  /\ created \in Writings /\ t \notin DOMAIN created
           /\ \A u \in DOMAIN created :
                 /\ u \in Unborn /\ u \in Tasks /\ created[u] = NewTask
                 /\ \A a \in tree[u].above : mem[a].st # "none"
<1>. DEFINE next == {u \in Unborn : Creatable(u) /\ ~(ending /\ Owns(t, u))}
<1>1. CASE created = Nothing
  BY Zenon, <1>1, NoWriting
<1>2. CASE created # Nothing
  <2>1. created \in {One(u, NewTask) : u \in next}
    BY Zenon, <1>2 DEF Created
  <2>2. \A u \in next : u \in Unborn /\ Creatable(u)
    BY Zenon
  <2>. HIDE DEF next
  <2>3. PICK u \in Unborn : Creatable(u) /\ created = One(u, NewTask)
    BY Zenon, <2>1, <2>2
  <2>4. u \in Tasks /\ u # t
    BY Zenon, UnbornIs
  <2>5. created \in Writings /\ DOMAIN created = {u} /\ created[u] = NewTask
    BY Zenon, <2>3, <2>4, NewRecords, OneWriting
  <2>6. \A a \in tree[u].above : mem[a].st # "none"
    BY Zenon, <2>3, <2>4, CreatableRoots
  <2>. QED  BY Zenon, <2>4, <2>5, <2>6
<1>. QED  BY Zenon, <1>1, <1>2

\* The record that t may get in a commit that also creates
MayWrite(t, created, r, reads) ==
    /\ r \in Records /\ Follows(mem[t], r)
    /\ r.st = "terminal" => /\ <<"owned", t>> \in reads
                            /\ \A u \in Tasks : t \in tree[u].over =>
                                  ~Live(mem, u) /\ u \notin DOMAIN created
    /\ r.st = "waiting" => \A u \in r.on : mem[u].st # "none" \/ u \in DOMAIN created

LEMMA WalksFromTop ==
    ASSUME NEW v, NEW t PROVE <<"owned", t>> \in firstDown(v, t) /\ <<"owned", t>> \in walkDown(v, t)
BY Zenon DEF firstDown, walkDown, OwnedKeys

\* What a pass may write of a task
MayPass(w, reads, t) ==
    /\ t \in Tasks /\ Live(mem, t) /\ Untouched(t) /\ w[t] \in Records /\ Follows(mem[t], w[t])
    /\ w[t].st = "waiting" => mem[t].st = "waiting" /\ w[t].on = mem[t].on
    /\ w[t].st = "terminal" =>
          /\ <<"owned", t>> \in reads
          /\ \A u \in Tasks : t \in tree[u].over /\ Live(mem, u) => u \in DOMAIN w /\ w[u].st = "terminal"

\* What a commit of a wait is: the wait it adds, in the view v that the check had
Wait(t, created, on, w, reads) ==
    LET v     == Staged(created)
        named == {u \in on : Live(v, u) /\ ~Owns(t, u)}
    IN /\ created \in Created(t, FALSE) /\ on \in SUBSET Tasks
       /\ mem[t].st = "running" /\ mem[t].mark = "none" /\ Untouched(t)
       /\ \A u \in on : v[u].st # "none"
       /\ t \notin Reach(v, named) /\ reads = waitReads(v, t, on)
       /\ w \in Writings /\ Lawful(w, reads) /\ Commit(w, reads)
       /\ DOMAIN w = DOMAIN created \cup {t} /\ w[t].st = "waiting" /\ w[t].on = on
       /\ \A u \in DOMAIN created : w[u] = NewTask /\ u # t

WaitDecision == \E t \in Tasks : \E created, on, w, reads : Wait(t, created, on, w, reads)

\* What a step does to the records and the line
Idles     == UNCHANGED <<plan, mem, pend>>
Decides   == Decision /\ UNCHANGED <<plan, mem>>
Waits     == WaitDecision /\ UNCHANGED <<plan, mem>>
Publishes == /\ pend # <<>> /\ mem' = Staged(Head(pend).w) /\ pend' = Tail(pend) /\ plan' = plan
Reopens   ==
    /\ \E stopped : open(stopped)
    /\ pend' = <<>> /\ plan' = plan
    /\ \E stopped : mem' = [t \in Tasks |->
                  IF mem[t].st # "running" THEN mem[t]
                  ELSE [withStatus(mem[t], "pending") EXCEPT
                           !.restarts = IF t \in stopped THEN @ ELSE @ + 1]]

LEMMA OpenIs == ASSUME NEW stopped, open(stopped) PROVE Reopens
BY Zenon DEF open, Reopens

LEMMA StepKinds ==
    ASSUME TypeOK, Placed, Line(mem, pend), [Next]_vars
    PROVE  Idles \/ Decides \/ Waits \/ Publishes \/ Reopens
<1>MarkedRecord. ASSUME NEW r \in Records, NEW m \in Marks
                 PROVE  LET q == withAbortMark(r, m)
                        IN q \in Records /\ q.st = r.st /\ q.out = r.out /\ q.mark = m /\ q.on = r.on
  BY Zenon, <1>MarkedRecord DEF withAbortMark, Records
<1>OutcomeRecord. ASSUME NEW r \in Records, NEW st \in Statuses, NEW out \in Outcomes
                  PROVE  LET q == withOutcome(r, st, out)
                         IN q \in Records /\ q.st = st /\ q.out = out /\ q.mark = r.mark /\ q.on = {}
  BY Zenon, <1>OutcomeRecord DEF withOutcome, Records
<1>ProgressRecord. ASSUME NEW r \in Records
                   PROVE  LET q == progressed(r)
                          IN q \in Records /\ q.st = r.st /\ q.out = r.out /\ q.mark = r.mark /\ q.on = r.on
  BY Zenon, <1>ProgressRecord DEF progressed, Records
<1>WaitRecord. ASSUME NEW r \in Records, NEW on \in SUBSET Tasks, NEW f \in BOOLEAN
               PROVE  LET q == Waiting(r, on, f)
                      IN q \in Records /\ q.st = "waiting" /\ q.out = r.out /\ q.mark = r.mark /\ q.on = on
  BY Zenon, <1>WaitRecord DEF progressed, Records, Statuses, Waiting
<1>SleepRecord. ASSUME NEW r \in Records, NEW n \in Nat
                PROVE  LET q == [progressed(r) EXCEPT !.st = "sleeping", !.until = n]
                       IN q \in Records /\ q.st = "sleeping" /\ q.out = r.out /\ q.mark = r.mark /\ q.on = r.on
  BY Zenon, <1>SleepRecord DEF progressed, Records, Statuses
<1>BothWriting. ASSUME NEW w1 \in Writings, NEW w2 \in Writings
                PROVE  /\ Both(w1, w2) \in Writings /\ DOMAIN Both(w1, w2) = DOMAIN w1 \cup DOMAIN w2
                       /\ \A t \in DOMAIN w2 : Both(w1, w2)[t] = w2[t]
                       /\ \A t \in DOMAIN w1 \ DOMAIN w2 : Both(w1, w2)[t] = w1[t]
  <2>. USE <1>BothWriting
  <2>1. /\ DOMAIN Both(w1, w2) = DOMAIN w1 \cup DOMAIN w2
        /\ \A t \in DOMAIN w2 : Both(w1, w2)[t] = w2[t]
        /\ \A t \in DOMAIN w1 \ DOMAIN w2 : Both(w1, w2)[t] = w1[t]
        /\ Both(w1, w2) = [x \in DOMAIN Both(w1, w2) |-> Both(w1, w2)[x]]
    BY Zenon DEF Both
  <2>2. /\ DOMAIN w1 \in SUBSET Tasks /\ \A t \in DOMAIN w1 : w1[t] \in Records
        /\ DOMAIN w2 \in SUBSET Tasks /\ \A t \in DOMAIN w2 : w2[t] \in Records
    BY Zenon, Writing
  <2>3. /\ DOMAIN Both(w1, w2) \in SUBSET Tasks
        /\ \A x \in DOMAIN Both(w1, w2) : Both(w1, w2)[x] \in Records
    BY Zenon, <2>1, <2>2
  <2>. QED  BY Zenon, <2>1, <2>3, Writing
<1>LiveIs. ASSUME mem \in [Tasks -> Records], NEW t \in Tasks
           PROVE  /\ Live(mem, t) <=> mem[t].st \in Unsettled \cup {"completing"}
                  /\ mem[t] \in Records
  BY Zenon, <1>LiveIs, RecordFields DEF Live, Unsettled, Statuses
\* Marking a live task changes nothing else of it.
<1>MarkIsLawful. ASSUME TypeOK, Line(mem, pend), NEW w, NEW reads, NEW t \in Tasks, Live(mem, t),
                        \A n \in DOMAIN pend : t \notin DOMAIN pend[n].w,
                        NEW m \in Marks, m # "none", w[t] = withAbortMark(mem[t], m)
                 PROVE  LawfulAt(w, reads, t) /\ w[t] \in Records /\ w[t].mark # "none"
  <2>. USE <1>MarkIsLawful
  <2>1. mem[t] \in Records /\ mem[t].st \in Unsettled \cup {"completing"}
    BY Zenon, <1>LiveIs DEF TypeOK
  <2>2. /\ w[t] \in Records /\ w[t].st = mem[t].st /\ w[t].out = mem[t].out /\ w[t].mark = m
        /\ w[t].on = mem[t].on
    BY <2>1, <1>MarkedRecord
  <2>3. Follows(mem[t], w[t])
    BY Zenon, <2>1, <2>2 DEF Follows
  <2>4. mem[t].st \notin {"none", "terminal"}
    BY Zenon, <2>1 DEF Unsettled
  <2>5. w[t].st = "waiting" => \A u \in w[t].on : mem[u].st # "none"
    BY Zenon, <2>2 DEF Line, Named
  <2>. QED  BY Zenon, <2>2, <2>3, <2>4, <2>5 DEF LawfulAt
\* Every task that w writes is only marked.
<1>MarksAreLawful. ASSUME TypeOK, Line(mem, pend), NEW w, NEW reads,
                          w = [t \in DOMAIN w |-> w[t]],
                          \A t \in DOMAIN w : /\ t \in Tasks /\ Live(mem, t)
                                              /\ \A n \in DOMAIN pend : t \notin DOMAIN pend[n].w
                                              /\ \E m \in Marks \ {"none"} : w[t] = withAbortMark(mem[t], m)
                   PROVE  w \in Writings /\ Lawful(w, reads) /\ Calm(w)
  <2>. USE <1>MarksAreLawful
  <2>1. \A t \in DOMAIN w : LawfulAt(w, reads, t) /\ w[t] \in Records /\ w[t].mark # "none"
    BY Zenon, <1>MarkIsLawful
  <2>2. \A t \in DOMAIN w : mem[t].st # "none"
    BY Zenon DEF Live
  <2>. QED  BY Zenon, <2>1, <2>2, Writing DEF Lawful, Calm
<1>BirthIsLawful. ASSUME TypeOK, Line(mem, pend), NEW u \in Unborn, NEW w, NEW reads, w[u] = NewTask,
                         \A a \in tree[u].above : mem[a].st # "none"
                  PROVE  LawfulAt(w, reads, u)
  <2>. USE <1>BirthIsLawful
  <2>1. mem[u].st = "none" /\ mem[u].mark = "none" /\ Untouched(u)
    BY Zenon, UnbornIs
  <2>2. Follows(mem[u], w[u])
    BY Zenon, <2>1 DEF Follows
  <2>. QED  BY Zenon, <2>1, <2>2, NewRecords DEF LawfulAt, Untouched
\* What a running task commits, with what the commit creates
<1>TaskCommit. ASSUME TypeOK, Placed, Line(mem, pend), NEW t \in Tasks, mem[t].st # "none", Untouched(t),
                      NEW ending, NEW created \in Created(t, ending), NEW r, NEW reads,
                      MayWrite(t, created, r, reads), NEW w, w = Both(created, One(t, r))
               PROVE  /\ w \in Writings /\ Lawful(w, reads)
                      /\ r.st # "waiting" => Calm(w)
                      /\ DOMAIN w = DOMAIN created \cup {t} /\ w[t] = r
                      /\ \A u \in DOMAIN created : w[u] = NewTask /\ u # t
  <2>. USE <1>TaskCommit
  <2>1. /\ created \in Writings /\ t \notin DOMAIN created
        /\ \A u \in DOMAIN created :
              /\ u \in Unborn /\ u \in Tasks /\ created[u] = NewTask
              /\ \A a \in tree[u].above : mem[a].st # "none"
    BY Zenon, CreatedIs
  <2>2. One(t, r) \in Writings /\ DOMAIN One(t, r) = {t} /\ One(t, r)[t] = r
    BY Zenon, OneWriting DEF MayWrite
  <2>3. /\ w \in Writings /\ DOMAIN w = DOMAIN created \cup {t} /\ w[t] = r
        /\ \A u \in DOMAIN created : w[u] = NewTask /\ u # t
    <3>1. /\ w \in Writings /\ DOMAIN w = DOMAIN created \cup DOMAIN One(t, r)
          /\ \A x \in DOMAIN One(t, r) : w[x] = One(t, r)[x]
          /\ \A x \in DOMAIN created \ DOMAIN One(t, r) : w[x] = created[x]
      <4>. DEFINE b == Both(created, One(t, r))
      <4>1. /\ b \in Writings /\ DOMAIN b = DOMAIN created \cup DOMAIN One(t, r)
            /\ \A x \in DOMAIN One(t, r) : b[x] = One(t, r)[x]
            /\ \A x \in DOMAIN created \ DOMAIN One(t, r) : b[x] = created[x]
        BY Zenon, <2>1, <2>2, <1>BothWriting
      <4>2. w = b
        BY Zenon
      <4>. HIDE DEF b
      <4>. QED  BY Zenon, <4>1, <4>2
    <3>. QED  BY Zenon, <2>1, <2>2, <3>1
  <2>4. LawfulAt(w, reads, t)
    <3>1. \A u \in Tasks : t \in tree[u].over => u # t
      BY DEF Placed, Tasks
    <3>2. w[t].st = "terminal" => \A u \in Tasks : t \in tree[u].over => ~Live(mem, u) /\ u \notin DOMAIN w
      BY Zenon, <2>3, <3>1 DEF MayWrite
    <3>. QED  BY Zenon, <2>3, <3>2 DEF LawfulAt, Untouched, MayWrite
  <2>5. \A u \in DOMAIN created : LawfulAt(w, reads, u)
    BY Zenon, <2>1, <2>3, <1>BirthIsLawful
  <2>6. r.st # "waiting" => Calm(w)
    <3>1. \A u, x \in DOMAIN created : u = x
      BY Zenon, <2>1, UnbornIs
    <3>2. \A u \in DOMAIN w : mem[u].st = "none" => u \in DOMAIN created
      BY Zenon, <2>3
    <3>3. \A u \in DOMAIN w : mem[u].st # "none" => u = t
      BY Zenon, <2>1, <2>3, UnbornIs
    <3>. QED  BY Zenon, <2>3, <3>1, <3>2, <3>3 DEF Calm
  <2>. QED  BY Zenon, <2>3, <2>4, <2>5, <2>6 DEF Lawful
<1>NothingCreated. ASSUME NEW t, NEW r, NEW ending
                   PROVE  Nothing \in Created(t, ending) /\ One(t, r) = Both(Nothing, One(t, r))
  <2>. USE <1>NothingCreated
  <2>1. Nothing \in Created(t, ending)
    BY Zenon DEF Created
  <2>2. One(t, r) = Both(Nothing, One(t, r))
    BY Zenon DEF Both, Nothing, One
  <2>. QED  BY Zenon, <2>1, <2>2
<1>TaskWrite. ASSUME TypeOK, Placed, Line(mem, pend), NEW t \in Tasks, mem[t].st # "none", Untouched(t),
                     NEW r \in Records, NEW reads, Follows(mem[t], r), r.st # "waiting",
                     r.st = "terminal" => /\ <<"owned", t>> \in reads
                                          /\ \A u \in Tasks : t \in tree[u].over => ~Live(mem, u)
              PROVE  One(t, r) \in Writings /\ Lawful(One(t, r), reads) /\ Calm(One(t, r))
  <2>. USE <1>TaskWrite
  <2>. DEFINE w == One(t, r)
  <2>1. w = Both(Nothing, One(t, r)) /\ Nothing \in Created(t, TRUE) /\ DOMAIN Nothing = {}
    BY Zenon, <1>NothingCreated, NoWriting
  <2>2. r.st = "terminal" => /\ <<"owned", t>> \in reads
                             /\ \A u \in Tasks : t \in tree[u].over => ~Live(mem, u) /\ u \notin DOMAIN Nothing
    BY Zenon, <2>1
  <2>. HIDE DEF w
  <2>3. MayWrite(t, Nothing, r, reads)
    BY Zenon, <2>2 DEF MayWrite
  <2>4. w \in Writings /\ Lawful(w, reads) /\ (r.st # "waiting" => Calm(w))
    BY ZenonT(60), <2>1, <2>3, <1>TaskCommit
  <2>. QED  BY Zenon, <2>4 DEF w
<1>TerminateIs. ASSUME mem \in [Tasks -> Records], NEW t \in Tasks, mem[t].st \in Unsettled,
                       NEW v, v[t] = mem[t], NEW out \in Outcomes \ {"none"}, NEW r, r = terminate(v, t, out)
                PROVE  /\ r \in Records /\ Follows(mem[t], r) /\ r.st # "waiting"
                       /\ r.st = "terminal" => ownedLive(v, t) = {}
  <2>. USE <1>TerminateIs
  <2>. DEFINE st == IF ownedLive(v, t) = {} THEN "terminal" ELSE "completing"
  <2>1. st \in Statuses /\ st \in {"completing", "terminal"} /\ (st = "terminal" => ownedLive(v, t) = {})
    BY Zenon DEF Statuses
  <2>2. r = withOutcome(mem[t], st, out)
    BY Zenon DEF terminate
  <2>. HIDE DEF st
  <2>3. r \in Records /\ r.st = st /\ r.out = out /\ r.mark = mem[t].mark
    BY <2>1, <2>2, <1>OutcomeRecord
  <2>. QED  BY Zenon, <2>1, <2>3 DEF Follows
<1>DecideCreate. ASSUME TypeOK, Placed, Line(mem, pend), createTask PROVE Decision
  <2>. USE <1>DecideCreate
  <2>1. PICK u \in Unborn : Creatable(u) /\ Commit(One(u, NewTask), {})
    BY Zenon DEF createTask
  <2>2. u \in Tasks
    BY Zenon, UnbornIs
  <2>3. /\ One(u, NewTask) \in Writings /\ DOMAIN One(u, NewTask) = {u}
        /\ One(u, NewTask)[u] = NewTask
    BY Zenon, <2>2, NewRecords, OneWriting
  <2>4. \A a \in tree[u].above : mem[a].st # "none"
    BY Zenon, <2>1, <2>2, CreatableRoots
  <2>5. Lawful(One(u, NewTask), {})
    BY Zenon, <2>3, <2>4, <1>BirthIsLawful DEF Lawful
  <2>6. Calm(One(u, NewTask))
    BY Zenon, <2>3, UnbornIs DEF Calm
  <2>. QED  BY Zenon, <2>1, <2>3, <2>5, <2>6 DEF Decision
<1>DecideAbort. ASSUME TypeOK, Placed, Line(mem, pend), NEW t \in Tasks, abort(t) PROVE Decision
  <2>. USE <1>DecideAbort
  <2>. DEFINE idle == inv[t] = "none" /\ mem[t].st # "completing"
              orphan == idle /\ ownedLive(mem, t) = {} /\ t \in blocked
              reads == TaskKeys({t}) \cup (IF idle THEN firstDown(mem, t) ELSE {})
  <2>1. /\ Live(mem, t)
        /\ Commit(IF orphan THEN One(t, terminate(mem, t, "failed"))
                  ELSE IF mem[t].mark = "request" THEN Nothing
                  ELSE One(t, withAbortMark(mem[t], "request")), reads)
    BY Zenon DEF abort
  <2>2. Published(reads) /\ <<"task", t>> \in reads
    BY Zenon, <2>1 DEF Commit, Published, TaskKeys
  <2>3. Untouched(t)
    BY Zenon, <2>2, ReadIsFree DEF Untouched
  <2>4. mem \in [Tasks -> Records] /\ mem[t] \in Records /\ mem[t].st \in Unsettled \cup {"completing"}
    BY Zenon, <2>1, <1>LiveIs DEF TypeOK
  <2>5. CASE orphan
    <3>. DEFINE r == terminate(mem, t, "failed")
                w == One(t, r)
    <3>1. mem[t].st \in Unsettled /\ "failed" \in Outcomes \ {"none"}
      BY Zenon, <2>4, <2>5 DEF Outcomes
    <3>2. r \in Records /\ Follows(mem[t], r) /\ r.st # "waiting"
      BY Zenon, <2>4, <3>1, <1>TerminateIs
    <3>3. <<"owned", t>> \in reads
      BY Zenon, <2>5, WalksFromTop
    <3>4. \A u \in Tasks : t \in tree[u].over => ~Live(mem, u)
      BY Zenon, <2>5 DEF ownedLive
    <3>6. mem[t].st # "none"
      BY Zenon, <3>1 DEF Unsettled
    <3>. HIDE DEF r, reads
    <3>7. w \in Writings /\ Lawful(w, reads) /\ Calm(w)
      BY Zenon, <2>3, <3>2, <3>3, <3>4, <3>6, <1>TaskWrite
    <3>8. Commit(w, reads)
      BY Zenon, <2>1, <2>5 DEF r, reads
    <3>. QED  BY Zenon, <3>2, <3>7, <3>8 DEF Decision
  <2>6. CASE ~orphan /\ mem[t].mark = "request"
    <3>1. Commit(Nothing, reads)
      BY Zenon, <2>1, <2>6
    <3>2. Lawful(Nothing, reads) /\ Calm(Nothing)
      BY Zenon, NoWriting DEF Lawful, Calm
    <3>. QED  BY Zenon, <3>1, <3>2, NoWriting DEF Decision
  <2>7. CASE ~orphan /\ mem[t].mark # "request"
    <3>. DEFINE r == withAbortMark(mem[t], "request")
                w == One(t, r)
    <3>1. Commit(w, reads)
      BY Zenon, <2>1, <2>7
    <3>2. "request" \in Marks \ {"none"}
      BY Zenon DEF Marks
    <3>3. r \in Records
      BY Zenon, <2>4, <3>2, <1>MarkedRecord
    <3>. HIDE DEF r
    <3>4. w \in Writings /\ DOMAIN w = {t} /\ w[t] = r
      BY Zenon, <3>3, OneWriting
    <3>5. w = [x \in DOMAIN w |-> w[x]]
      BY Zenon, <3>4, Writing
    <3>. HIDE DEF w, reads
    <3>6. Lawful(w, reads) /\ Calm(w)
      BY Zenon, <2>1, <2>3, <3>2, <3>4, <3>5, <1>MarksAreLawful DEF r, Untouched
    <3>. QED  BY Zenon, <3>1, <3>4, <3>6 DEF Decision
  <2>. QED  BY Zenon, <2>5, <2>6, <2>7
<1>DecideAbortConversation. ASSUME TypeOK, Placed, Line(mem, pend), abortConversation PROVE Decision
  <2>. USE <1>DecideAbortConversation
  <2>1. PICK p \in 0..MaxTasks, across \in BOOLEAN :
            Commit([t \in {u \in InConversation(p, across) : mem[u].mark # "request"} |->
                          withAbortMark(mem[t], "request")], {})
    BY Zenon DEF abortConversation
  <2>. DEFINE D == {u \in InConversation(p, across) : mem[u].mark # "request"}
              w == [t \in D |-> withAbortMark(mem[t], "request")]
  <2>2. pend = <<>> /\ \A n \in DOMAIN pend : FALSE
    BY DEF abortConversation
  <2>3. \A t \in D : t \in Tasks /\ Live(mem, t)
    BY Zenon DEF InConversation
  <2>4. "request" \in Marks \ {"none"}
    BY Zenon DEF Marks
  <2>. HIDE DEF D
  <2>5. /\ DOMAIN w = D /\ w = [t \in DOMAIN w |-> w[t]]
        /\ \A t \in D : w[t] = withAbortMark(mem[t], "request")
    BY Zenon
  <2>6. Commit(w, {})
    BY Zenon, <2>1 DEF D
  <2>. HIDE DEF w
  <2>7. w \in Writings /\ Lawful(w, {}) /\ Calm(w)
    BY Zenon, <2>2, <2>3, <2>4, <2>5, <1>MarksAreLawful
  <2>. QED  BY Zenon, <2>6, <2>7 DEF Decision
<1>DecideAbandoned. ASSUME TypeOK, Placed, Line(mem, pend), reserveAbandoned PROVE Decision
  <2>. USE <1>DecideAbandoned
  <2>. DEFINE D == {a \in abandoned : Live(mem, a) /\ mem[a].mark = "none"}
              w == [t \in D |-> withAbortMark(mem[t], "restart")]
              reads == TaskKeys(abandoned)
  <2>1. Commit(w, reads)
    BY Zenon DEF reserveAbandoned
  <2>2. Published(reads)
    BY Zenon, <2>1 DEF Commit, Published
  <2>3. \A t \in D : t \in Tasks /\ Live(mem, t) /\ <<"task", t>> \in reads
    BY Zenon DEF TypeOK, TaskKeys
  <2>4. "restart" \in Marks \ {"none"}
    BY Zenon DEF Marks
  <2>. HIDE DEF D, reads
  <2>5. /\ DOMAIN w = D /\ w = [t \in DOMAIN w |-> w[t]]
        /\ \A t \in D : w[t] = withAbortMark(mem[t], "restart")
    BY Zenon
  <2>. HIDE DEF w
  <2>6. \A t \in D : \A n \in DOMAIN pend : t \notin DOMAIN pend[n].w
    BY Zenon, <2>2, <2>3, ReadIsFree
  <2>7. w \in Writings /\ Lawful(w, reads) /\ Calm(w)
    BY Zenon, <2>3, <2>4, <2>5, <2>6, <1>MarksAreLawful
  <2>. QED  BY Zenon, <2>1, <2>7 DEF Decision
\* A running task whose record was read: what a write of it must keep
<1>RunningIs. ASSUME TypeOK, Line(mem, pend), NEW t \in Tasks, mem[t].st = "running",
                     Published(TaskKeys({t}))
              PROVE  /\ mem \in [Tasks -> Records] /\ mem[t] \in Records /\ mem[t].st \in Unsettled
                     /\ mem[t].st # "none" /\ Untouched(t)
  <2>. USE <1>RunningIs
  <2>1. <<"task", t>> \in TaskKeys({t})
    BY Zenon DEF TaskKeys
  <2>2. Untouched(t)
    BY Zenon, <2>1, ReadIsFree DEF Untouched
  <2>. QED  BY Zenon, <2>2 DEF TypeOK, Unsettled
<1>DecideHandover. ASSUME TypeOK, Placed, Line(mem, pend), NEW t \in Tasks, stepHandover(t) PROVE Decision
  <2>. USE <1>DecideHandover
  <2>. DEFINE r == withStatus(mem[t], "pending")
  <2>1. Commit(One(t, r), {}) /\ mem[t].st = "running" /\ Published(TaskKeys({t}))
    BY Zenon DEF stepHandover, Proceeds
  <2>2. /\ mem[t] \in Records /\ mem[t].st \in Unsettled /\ mem[t].st # "none" /\ Untouched(t)
    BY Zenon, <2>1, <1>RunningIs
  <2>3. r \in Records /\ r.st = "pending" /\ r.out = mem[t].out /\ r.mark = mem[t].mark
    BY Zenon, <2>2, StatusRecord DEF Statuses
  <2>. HIDE DEF r
  <2>4. Follows(mem[t], r) /\ r.st # "waiting" /\ r.st # "terminal"
    BY Zenon, <2>2, <2>3 DEF Follows, Unsettled
  <2>5. One(t, r) \in Writings /\ Lawful(One(t, r), {}) /\ Calm(One(t, r))
    BY Zenon, <2>2, <2>3, <2>4, <1>TaskWrite
  <2>. QED  BY Zenon, <2>1, <2>5 DEF Decision
<1>DecideFault. ASSUME TypeOK, Placed, Line(mem, pend), NEW t \in Tasks, stepFault(t) PROVE Decision
  <2>. USE <1>DecideFault
  <2>. DEFINE r == terminate(mem, t, "failed")
              reads == firstDown(mem, t)
  <2>1. Commit(One(t, r), reads) /\ mem[t].st = "running" /\ Published(TaskKeys({t}))
    BY Zenon DEF stepFault, Proceeds
  <2>2. /\ mem \in [Tasks -> Records] /\ mem[t] \in Records /\ mem[t].st \in Unsettled
        /\ mem[t].st # "none" /\ Untouched(t)
    BY Zenon, <2>1, <1>RunningIs
  <2>3. /\ r \in Records /\ Follows(mem[t], r) /\ r.st # "waiting"
        /\ r.st = "terminal" => ownedLive(mem, t) = {}
    BY Zenon, <2>2, <1>TerminateIs DEF Outcomes
  <2>. HIDE DEF r
  <2>4. r.st = "terminal" => /\ <<"owned", t>> \in reads
                             /\ \A u \in Tasks : t \in tree[u].over => ~Live(mem, u)
    BY Zenon, <2>3, WalksFromTop DEF ownedLive
  <2>. HIDE DEF reads
  <2>5. One(t, r) \in Writings /\ Lawful(One(t, r), reads) /\ Calm(One(t, r))
    BY Zenon, <2>2, <2>3, <2>4, <1>TaskWrite
  <2>. QED  BY Zenon, <2>1, <2>5 DEF Decision
<1>DecideProgress. ASSUME TypeOK, Placed, Line(mem, pend), NEW t \in Tasks, commitProgress(t) PROVE Decision
  <2>. USE <1>DecideProgress
  <2>. DEFINE r == progressed(mem[t])
  <2>1. mem[t].st = "running" /\ Published(TaskKeys({t}))
    BY Zenon DEF commitProgress, gated
  <2>2. PICK created \in Created(t, FALSE) : Commit(Both(created, One(t, r)), {})
    BY Zenon DEF commitProgress
  <2>3. /\ mem[t] \in Records /\ mem[t].st \in Unsettled /\ mem[t].st # "none" /\ Untouched(t)
    BY Zenon, <2>1, <1>RunningIs
  <2>4. r \in Records /\ r.st = mem[t].st /\ r.out = mem[t].out /\ r.mark = mem[t].mark
    BY Zenon, <2>3, <1>ProgressRecord
  <2>. HIDE DEF r
  <2>5. Follows(mem[t], r) /\ r.st # "waiting" /\ r.st # "terminal"
    BY Zenon, <2>1, <2>3, <2>4 DEF Follows
  <2>. DEFINE w == Both(created, One(t, r))
  <2>6. Commit(w, {}) /\ w = Both(created, One(t, r))
    BY Zenon, <2>2
  <2>. HIDE DEF w
  <2>7. MayWrite(t, created, r, {})
    BY Zenon, <2>4, <2>5 DEF MayWrite
  <2>8. w \in Writings /\ Lawful(w, {}) /\ (r.st # "waiting" => Calm(w))
    BY ZenonT(60), <2>3, <2>6, <2>7, <1>TaskCommit
  <2>. QED  BY Zenon, <2>5, <2>6, <2>8 DEF Decision
<1>DecideSleep. ASSUME TypeOK, Placed, Line(mem, pend), NEW t \in Tasks, sleepUntil(t) PROVE Decision
  <2>. USE <1>DecideSleep
  <2>. DEFINE r == [progressed(mem[t]) EXCEPT !.st = "sleeping", !.until = now + 1]
  <2>1. Commit(One(t, r), {}) /\ mem[t].st = "running" /\ Published(TaskKeys({t}))
    BY Zenon DEF sleepUntil, gated
  <2>2. /\ mem[t] \in Records /\ mem[t].st \in Unsettled /\ mem[t].st # "none" /\ Untouched(t)
    BY Zenon, <2>1, <1>RunningIs
  <2>3. now + 1 \in Nat
    BY DEF TypeOK
  <2>4. r \in Records /\ r.st = "sleeping" /\ r.out = mem[t].out /\ r.mark = mem[t].mark
    BY Zenon, <2>2, <2>3, <1>SleepRecord
  <2>. HIDE DEF r
  <2>5. Follows(mem[t], r) /\ r.st # "waiting" /\ r.st # "terminal"
    BY Zenon, <2>2, <2>4 DEF Follows, Unsettled
  <2>6. One(t, r) \in Writings /\ Lawful(One(t, r), {}) /\ Calm(One(t, r))
    BY Zenon, <2>2, <2>4, <2>5, <1>TaskWrite
  <2>. QED  BY Zenon, <2>1, <2>6 DEF Decision
\* What a commit creates is live in its view of the records.
<1>StagedCreated. ASSUME NEW t \in Tasks, NEW created, t \notin DOMAIN created,
                         \A u \in DOMAIN created : u \in Tasks /\ created[u] = NewTask
                  PROVE  /\ \A u \in DOMAIN created : Staged(created)[u] = NewTask /\ Live(Staged(created), u)
                         /\ \A u \in Tasks : u \notin DOMAIN created => Staged(created)[u] = mem[u]
                         /\ Staged(created)[t] = mem[t]
  BY Zenon, <1>StagedCreated, NewRecords DEF Staged, Live
<1>DecideOutcome. ASSUME TypeOK, Placed, Line(mem, pend), NEW t \in Tasks, commitOutcome(t) PROVE Decision
  <2>. USE <1>DecideOutcome
  <2>1. mem[t].st = "running" /\ Published(TaskKeys({t}))
    BY Zenon DEF commitOutcome, gated
  <2>2. PICK created \in Created(t, TRUE), out \in {"completed", "failed"} :
            Commit(Both(created, One(t, terminate(Staged(created), t, out))), firstDown(Staged(created), t))
    BY Zenon DEF commitOutcome
  <2>. DEFINE v == Staged(created)
              r == terminate(v, t, out)
              reads == firstDown(v, t)
              w == Both(created, One(t, r))
  <2>3. /\ mem \in [Tasks -> Records] /\ mem[t].st \in Unsettled
        /\ mem[t].st # "none" /\ Untouched(t)
    BY Zenon, <2>1, <1>RunningIs
  <2>4. /\ \A u \in DOMAIN created : Live(v, u)
        /\ \A u \in Tasks : u \notin DOMAIN created => v[u] = mem[u]
        /\ v[t] = mem[t]
    <3>1. mem[t].st # "none"
      BY Zenon, <2>3
    <3>2. /\ t \notin DOMAIN created
          /\ \A u \in DOMAIN created : u \in Tasks /\ created[u] = NewTask
      BY Zenon, <3>1, CreatedIs
    <3>. QED  BY Zenon, <3>2, <1>StagedCreated
  <2>5. Commit(w, reads) /\ w = Both(created, One(t, r))
    BY Zenon, <2>2
  <2>6. <<"owned", t>> \in reads
    BY Zenon, WalksFromTop
  <2>. HIDE DEF v, reads
  <2>7. out \in Outcomes \ {"none"}
    BY Zenon DEF Outcomes
  <2>8. /\ r \in Records /\ Follows(mem[t], r) /\ r.st # "waiting"
        /\ r.st = "terminal" => ownedLive(v, t) = {}
    BY Zenon, <2>3, <2>4, <2>7, <1>TerminateIs
  <2>. HIDE DEF r, w
  <2>9. r.st = "terminal" => /\ <<"owned", t>> \in reads
                             /\ \A u \in Tasks : t \in tree[u].over => ~Live(mem, u) /\ u \notin DOMAIN created
    BY Zenon, <2>4, <2>6, <2>8 DEF ownedLive, Live
  <2>10. MayWrite(t, created, r, reads)
    BY Zenon, <2>8, <2>9 DEF MayWrite
  <2>11. w \in Writings /\ Lawful(w, reads) /\ (r.st # "waiting" => Calm(w))
    BY ZenonT(60), <2>3, <2>5, <2>10, <1>TaskCommit
  <2>. QED  BY Zenon, <2>5, <2>8, <2>11 DEF Decision
<1>PassIsLawful. ASSUME TypeOK, Line(mem, pend), NEW w, NEW reads, w = [t \in DOMAIN w |-> w[t]],
                        \A t \in DOMAIN w : MayPass(w, reads, t)
                 PROVE  w \in Writings /\ Lawful(w, reads) /\ Calm(w)
  <2>. USE <1>PassIsLawful
  <2>1. \A t \in DOMAIN w : t \in Tasks /\ w[t] \in Records /\ mem[t].st # "none"
    BY Zenon DEF MayPass, Live
  <2>2. w \in Writings
    BY Zenon, <2>1, Writing
  <2>3. ASSUME NEW t \in DOMAIN w PROVE LawfulAt(w, reads, t)
    <3>1. w[t].st = "waiting" => \A u \in w[t].on : mem[u].st # "none"
      BY Zenon, <2>1 DEF MayPass, Line, Named
    <3>. QED  BY Zenon, <2>1, <3>1 DEF MayPass, LawfulAt, Untouched
  <2>4. Calm(w)
    BY Zenon, <2>1 DEF MayPass, Calm
  <2>. QED  BY Zenon, <2>2, <2>3, <2>4 DEF Lawful
<1>OutcomeFollows. ASSUME NEW r \in Records, r.st \in Unsettled, NEW st \in {"completing", "terminal"},
                          NEW out \in {"completed", "failed"}, NEW q, q = withOutcome(r, st, out)
                   PROVE  q \in Records /\ Follows(r, q) /\ q.st = st
  <2>. USE <1>OutcomeFollows
  <2>1. st \in Statuses /\ out \in Outcomes
    BY Zenon DEF Statuses, Outcomes
  <2>2. q \in Records /\ q.st = st /\ q.out = out /\ q.mark = r.mark
    BY <2>1, <1>OutcomeRecord
  <2>. QED  BY Zenon, <2>2 DEF Follows
<1>HeldFollows. ASSUME NEW r \in Records, r.st = "completing", NEW m \in Records, m.st = r.st, m.out = r.out,
                       r.mark # "none" => m.mark # "none", NEW q, q = withOutcome(m, "terminal", r.out)
                PROVE  q \in Records /\ Follows(r, q) /\ q.st = "terminal"
  <2>. USE <1>HeldFollows
  <2>1. "terminal" \in Statuses /\ r.out \in Outcomes
    BY Zenon, RecordFields DEF Statuses
  <2>2. q \in Records /\ q.st = "terminal" /\ q.out = r.out /\ q.mark = m.mark
    BY <2>1, <1>OutcomeRecord
  <2>. QED  BY Zenon, <2>2 DEF Follows
<1>TakenFollows. ASSUME NEW r \in Records, r.st \in Unsettled, NEW q, q = withStatus(r, "running")
                 PROVE  q \in Records /\ Follows(r, q) /\ q.st = "running"
  <2>. USE <1>TakenFollows
  <2>1. q \in Records /\ q.st = "running" /\ q.out = r.out /\ q.mark = r.mark
    BY Zenon, StatusRecord DEF Statuses
  <2>. QED  BY Zenon, <2>1 DEF Follows, Unsettled
<1>DecideReserve. ASSUME TypeOK, Placed, Line(mem, pend), reserve PROVE Decision
  <2>. USE <1>DecideReserve
  <2>. DEFINE cands == Candidates
              kept == cands \ Dropped(cands)
              cascading == Cascading(kept)
              ready == kept \ cascading
              cutOff == {t \in ready : mem[t].restarts >= RestartLimit}
              orphans == {t \in (ready \ cutOff) \cap blocked : mem[t].mark = "request"}
              ending == cutOff \cup orphans
              starting == ready \ (cutOff \cup blocked)
              running == {u \in starting : mem[u].st # "running"}
              taken == [t \in running |-> withStatus(mem[t], "running")]
              reads == reserveReads(cands, kept, cutOff)
              Ended(gone) == [t \in ending |->
                                 withOutcome(mem[t], IF t \in gone THEN "terminal" ELSE "completing", "failed")]
  <2>1. PICK gone \in SUBSET ending : /\ \A t \in gone : ownedLive(mem, t) \subseteq gone
                                      /\ Commit(Both(Ended(gone), taken), reads)
    BY Zenon DEF reserve
  <2>. DEFINE w == Both(Ended(gone), taken)
  <2>2. /\ DOMAIN w = ending \cup running /\ w = [t \in DOMAIN w |-> w[t]]
        /\ \A t \in running : w[t] = withStatus(mem[t], "running")
        /\ \A t \in ending \ running :
              w[t] = withOutcome(mem[t], IF t \in gone THEN "terminal" ELSE "completing", "failed")
    BY Zenon DEF Both
  <2>3. Commit(w, reads) /\ Published(reads)
    BY Zenon, <2>1 DEF Commit, Published
  <2>4. ending \cap running = {} /\ ending \subseteq ready /\ running \subseteq ready /\ ready \subseteq kept
    BY Zenon
  <2>5. ASSUME NEW t \in kept
        PROVE  /\ t \in Tasks /\ Live(mem, t) /\ Untouched(t) /\ inv[t] = "none"
               /\ mem[t] \in Records /\ mem[t].st \in Unsettled
    <3>1. t \in Tasks
      BY Zenon DEF Candidates, Due, TypeOK
    <3>2. inv[t] = "none" /\ Live(mem, t) /\ mem[t].st # "completing"
      BY Zenon DEF Dropped
    <3>3. <<"task", t>> \in reads
      BY Zenon, <3>2 DEF reserveReads, TaskKeys
    <3>4. Untouched(t)
      <4>. HIDE DEF reads
      <4>. QED  BY Zenon, <2>3, <3>3, ReadIsFree DEF Untouched
    <3>. QED  BY Zenon, <3>1, <3>2, <3>4, <1>LiveIs DEF TypeOK
  <2>6. ASSUME NEW t \in ending PROVE <<"owned", t>> \in reads
    <3>1. t \in kept /\ inv[t] = "none" /\ Live(mem, t)
      BY Zenon, <2>5
    <3>2. t \in cutOff \/ mem[t].mark # "none"
      BY Zenon
    <3>3. <<"owned", t>> \in firstDown(mem, t)
      BY Zenon, WalksFromTop
    <3>. QED  BY Zenon, <3>1, <3>2, <3>3 DEF reserveReads
  <2>7. gone \in SUBSET ending
    BY Zenon
  <2>. HIDE DEF w, reads, kept, ready, cutOff, orphans, ending, starting, running
  <2>8. ASSUME NEW t \in DOMAIN w PROVE MayPass(w, reads, t)
    <3>1. /\ t \in Tasks /\ Live(mem, t) /\ Untouched(t) /\ mem[t] \in Records /\ mem[t].st \in Unsettled
      BY Zenon, <2>2, <2>4, <2>5
    <3>2. CASE t \in running
      <4>1. w[t] \in Records /\ Follows(mem[t], w[t]) /\ w[t].st = "running"
        BY Zenon, <2>2, <3>1, <3>2, <1>TakenFollows
      <4>. QED  BY Zenon, <3>1, <4>1 DEF MayPass
    <3>3. CASE t \in ending
      <4>. DEFINE st == IF t \in gone THEN "terminal" ELSE "completing"
      <4>1. st \in {"completing", "terminal"} /\ w[t] = withOutcome(mem[t], st, "failed")
        BY Zenon, <2>2, <2>4, <3>3
      <4>2. st = "terminal" => t \in gone
        BY Zenon
      <4>. HIDE DEF st
      <4>3. w[t] \in Records /\ Follows(mem[t], w[t]) /\ w[t].st = st
        <5>1. mem[t] \in Records /\ mem[t].st \in Unsettled /\ st \in {"completing", "terminal"} /\ "failed" \in {"completed", "failed"}
          BY Zenon, <3>1, <4>1
        <5>2. w[t] = withOutcome(mem[t], st, "failed")
          BY Zenon, <4>1
        <5>3. PICK q : q = withOutcome(mem[t], st, "failed")
          BY Zenon
        <5>4. q \in Records /\ Follows(mem[t], q) /\ q.st = st
          BY Zenon, <5>1, <5>3, <1>OutcomeFollows
        <5>. QED  BY Zenon, <5>2, <5>3, <5>4
      <4>4. ASSUME NEW u \in gone PROVE u \in DOMAIN w /\ w[u].st = "terminal"
        <5>1. u \in ending /\ w[u] = withOutcome(mem[u], "terminal", "failed")
          BY Zenon, <2>2, <2>4, <2>7
        <5>2. mem[u] \in Records /\ mem[u].st \in Unsettled
          BY Zenon, <2>4, <2>5, <5>1
        <5>. QED  BY Zenon, <2>2, <5>1, <5>2, <1>OutcomeFollows
      <4>5. st = "terminal" => \A u \in Tasks : t \in tree[u].over /\ Live(mem, u) => u \in gone
        BY Zenon, <2>1, <4>2 DEF ownedLive
      <4>6. <<"owned", t>> \in reads
        BY Zenon, <2>6, <3>3
      <4>. QED  BY Zenon, <3>1, <4>1, <4>3, <4>4, <4>5, <4>6 DEF MayPass
    <3>. QED  BY Zenon, <2>2, <3>2, <3>3
  <2>9. w \in Writings /\ Lawful(w, reads) /\ Calm(w)
    BY Zenon, <2>2, <2>8, <1>PassIsLawful
  <2>. QED  BY Zenon, <2>3, <2>9 DEF Decision
<1>FinalizesMore. ASSUME NEW A, NEW B, A \subseteq B, NEW t, Finalizes(t, A) PROVE Finalizes(t, B)
  BY Zenon, <1>FinalizesMore DEF Finalizes
\* What #finalize ends held its outcome only for what it ends too.
<1>FinalizedIs. \A t \in finalized : t \in Tasks /\ mem[t].st = "completing" /\ ownedLive(mem, t) \subseteq finalized
  <2>. DEFINE G == {t \in finalized : Finalizes(t, finalized)}
  <2>1. ASSUME NEW x \in Tasks, Finalizes(x, finalized) PROVE x \in finalized
    <3>1. SUFFICES ASSUME NEW done \in SUBSET Tasks, \A y \in Tasks : Finalizes(y, done) => y \in done
                   PROVE  x \in done
      BY Zenon DEF finalized
    <3>2. finalized \subseteq done
      BY Zenon, <3>1 DEF finalized
    <3>. QED  BY Zenon, <2>1, <3>1, <3>2, <1>FinalizesMore
  <2>2. G \in SUBSET Tasks /\ G \subseteq finalized
    BY Zenon DEF finalized
  <2>3. ASSUME NEW x \in Tasks, Finalizes(x, G) PROVE x \in G
    <3>1. Finalizes(x, finalized)
      <4>. HIDE DEF G
      <4>. QED  BY Zenon, <2>2, <2>3, <1>FinalizesMore
    <3>. QED  BY Zenon, <2>1, <3>1
  <2>4. finalized \subseteq G
    <3>. HIDE DEF G
    <3>. QED  BY Zenon, <2>2, <2>3 DEF finalized
  <2>. QED  BY Zenon, <2>2, <2>4 DEF Finalizes
<1>SomeReads. ASSUME NEW e
              PROVE  /\ TaskKeys(failFastChecks \cup UNION {mem[t].on : t \in failFastChecks}) \subseteq reconcileReads(e)
                     /\ UNION {firstDown(mem, t) : t \in {x \in finalizeChecks \cup e : mem[x].st = "completing"}}
                           \subseteq reconcileReads(e)
  <2>. USE <1>SomeReads
  <2>. DEFINE cancelled == {t \in Tasks : cancellationIntent(mem, t)}
              below     == {t \in Tasks : Live(mem, t) /\ belowCancelled(mem, t)}
              freed(t)  == {s \in tree[t].over :
                               \A x \in tree[t].over : Live(mem, x) /\ x \notin e => x <= s}
              A == {INTENT_KEY} \cup TaskKeys(cancelled \cup below \cup finalizeChecks \cup e)
              B == TaskKeys(UNION {freed(t) : t \in e})
              C == UNION {walkDown(mem, t) : t \in cancelled}
              D == TaskKeys(failFastChecks \cup UNION {mem[t].on : t \in failFastChecks})
              F == UNION {firstDown(mem, t) : t \in {x \in finalizeChecks \cup e : mem[x].st = "completing"}}
  <2>1. reconcileReads(e) = A \cup B \cup C \cup D \cup F
    BY Zenon DEF reconcileReads
  <2>. HIDE DEF A, B, C, D, F
  <2>2. D \subseteq reconcileReads(e) /\ F \subseteq reconcileReads(e)
    BY Zenon, <2>1
  <2>. QED  BY Zenon, <2>2 DEF D, F
\* What #planMarks marks is live, and a pass has read it.
<1>MarksAre. ASSUME NEW ended
             PROVE  /\ marks = [t \in DOMAIN marks |-> marks[t]]
                    /\ \A t \in DOMAIN marks :
                          /\ t \in Tasks => Live(mem, t)
                          /\ <<"task", t>> \in reconcileReads(ended)
                          /\ \E m \in Marks \ {"none"} : marks[t] = withAbortMark(mem[t], m)
  <2>. USE <1>MarksAre
  <2>. DEFINE below   == {t \in Tasks : Live(mem, t) /\ belowCancelled(mem, t)}
              members == {t \in UNION {mem[x].on : x \in Failing} : Live(mem, t) /\ ~failedOutcome(mem[t])}
              requests == {t \in members \cup {b \in below : ~restartBelow(Canceller(b))} :
                          mem[t].mark # "request"}
              restarts == {t \in below \ requests : mem[t].mark = "none"}
  <2>1. marks = [t \in requests \cup restarts |->
                    withAbortMark(mem[t], IF t \in requests THEN "request" ELSE "restart")]
    BY Zenon DEF marks
  <2>2. requests \cup restarts \subseteq members \cup below
    BY Zenon
  <2>3. \A t \in members : Live(mem, t) /\ \E x \in failFastChecks : t \in mem[x].on
    BY Zenon DEF Failing
  <2>4. \A t \in below : Live(mem, t)
    BY Zenon
  <2>5. \A t \in below : <<"task", t>> \in reconcileReads(ended)
    BY Zenon DEF reconcileReads, TaskKeys
  <2>. HIDE DEF members, below
  <2>6. \A t \in members : <<"task", t>> \in reconcileReads(ended)
    <3>1. \A t \in members : t \in UNION {mem[x].on : x \in failFastChecks}
      BY Zenon, <2>3
    <3>. DEFINE S == UNION {mem[x].on : x \in failFastChecks}
    <3>2. TaskKeys(failFastChecks \cup S) \subseteq reconcileReads(ended)
      BY Zenon, <1>SomeReads
    <3>. HIDE DEF S
    <3>3. \A t \in S : <<"task", t>> \in TaskKeys(failFastChecks \cup S)
      BY Zenon DEF TaskKeys
    <3>. QED  BY Zenon, <3>1, <3>2, <3>3 DEF S
  <2>. HIDE DEF requests, restarts
  <2>7. /\ DOMAIN marks = requests \cup restarts /\ marks = [t \in DOMAIN marks |-> marks[t]]
        /\ \A t \in requests \cup restarts :
              marks[t] = withAbortMark(mem[t], IF t \in requests THEN "request" ELSE "restart")
    BY Zenon, <2>1
  <2>8. "request" \in Marks \ {"none"} /\ "restart" \in Marks \ {"none"}
    BY Zenon DEF Marks
  <2>9. \A t \in requests \cup restarts : \E m \in Marks \ {"none"} : marks[t] = withAbortMark(mem[t], m)
    BY Zenon, <2>7, <2>8
  <2>. QED  BY Zenon, <2>2, <2>3, <2>4, <2>5, <2>6, <2>7, <2>9
<1>DecideReconcile. ASSUME TypeOK, Placed, Line(mem, pend), reconcile PROVE Decision
  <2>. USE <1>DecideReconcile
  <2>. DEFINE m == marks
              e == finalized
              ends == [t \in e |-> withOutcome(Staged(m)[t], "terminal", mem[t].out)]
              w == Both(m, ends)
              reads == reconcileReads(e)
  <2>1. Commit(w, reads) /\ Published(reads)
    BY Zenon DEF reconcile, Commit, Published
  <2>2. \A t \in e : t \in Tasks /\ mem[t].st = "completing" /\ ownedLive(mem, t) \subseteq e
    BY Zenon, <1>FinalizedIs
  <2>3. \A t \in DOMAIN m : /\ t \in Tasks => Live(mem, t)
                            /\ <<"task", t>> \in reads
                            /\ \E k \in Marks \ {"none"} : m[t] = withAbortMark(mem[t], k)
    BY Zenon, <1>MarksAre
  <2>4. \A t \in e : <<"task", t>> \in reads
    BY Zenon DEF reconcileReads, TaskKeys
  <2>5. \A t \in e : <<"owned", t>> \in reads
    <3>1. SUFFICES ASSUME NEW t \in e PROVE <<"owned", t>> \in reads
      BY Zenon
    <3>2. <<"owned", t>> \in firstDown(mem, t) /\ mem[t].st = "completing"
      BY Zenon, <2>2, WalksFromTop
    <3>. DEFINE checks == {x \in finalizeChecks \cup e : mem[x].st = "completing"}
                downs  == UNION {firstDown(mem, x) : x \in checks}
    <3>3. downs \subseteq reads
      BY Zenon, <1>SomeReads
    <3>4. t \in checks
      BY Zenon, <3>2
    <3>. HIDE DEF reads, checks
    <3>5. <<"owned", t>> \in downs
      BY Zenon, <3>2, <3>4
    <3>. HIDE DEF downs
    <3>. QED  BY Zenon, <3>3, <3>5
  <2>6. \A t \in DOMAIN m : t \in Tasks
    <3>1. \A t \in failFastChecks : mem[t].on \subseteq Tasks
      BY Zenon, RecordFields DEF TypeOK
    <3>. QED  BY Zenon, <3>1 DEF marks, Failing
  <2>. HIDE DEF reads, e, m
  <2>7. /\ DOMAIN w = DOMAIN m \cup e /\ w = [t \in DOMAIN w |-> w[t]]
        /\ \A t \in e : w[t] = withOutcome(Staged(m)[t], "terminal", mem[t].out)
        /\ \A t \in DOMAIN m \ e : w[t] = m[t]
    BY Zenon DEF Both
  <2>. HIDE DEF w
  <2>8. ASSUME NEW t \in e
        PROVE  w[t] \in Records /\ Follows(mem[t], w[t]) /\ w[t].st = "terminal"
    <3>1. mem[t] \in Records /\ mem[t].st = "completing" /\ t \in Tasks
      BY Zenon, <2>2 DEF TypeOK
    <3>. DEFINE s == Staged(m)[t]
    <3>2. s = IF t \in DOMAIN m THEN m[t] ELSE mem[t]
      BY Zenon, <3>1 DEF Staged
    <3>3. s \in Records /\ s.st = mem[t].st /\ s.out = mem[t].out /\ (mem[t].mark # "none" => s.mark # "none")
      <4>1. CASE t \in DOMAIN m
        <5>1. PICK k \in Marks \ {"none"} : m[t] = withAbortMark(mem[t], k)
          BY Zenon, <2>3, <4>1
        <5>2. withAbortMark(mem[t], k) \in Records /\ withAbortMark(mem[t], k).st = mem[t].st
              /\ withAbortMark(mem[t], k).out = mem[t].out /\ withAbortMark(mem[t], k).mark = k
          BY Zenon, <3>1, <1>MarkedRecord
        <5>3. s = withAbortMark(mem[t], k) /\ k # "none"
          BY Zenon, <3>2, <4>1, <5>1
        <5>. QED  BY Zenon, <5>2, <5>3
      <4>2. CASE t \notin DOMAIN m
        BY Zenon, <3>1, <3>2, <4>2
      <4>. QED  BY Zenon, <4>1, <4>2
    <3>4. w[t] = withOutcome(s, "terminal", mem[t].out)
      BY Zenon, <2>7
    <3>. HIDE DEF s
    <3>. QED  BY Zenon, <3>1, <3>3, <3>4, <1>HeldFollows
  <2>9. ASSUME NEW t \in DOMAIN w PROVE MayPass(w, reads, t)
    <3>1. t \in Tasks /\ <<"task", t>> \in reads
      BY Zenon, <2>2, <2>3, <2>4, <2>6, <2>7
    <3>2. Live(mem, t)
      BY Zenon, <2>2, <2>3, <2>6, <2>7 DEF Live
    <3>3. Untouched(t)
      BY Zenon, <2>1, <3>1, ReadIsFree DEF Untouched
    <3>4. CASE t \in e
      <4>1. w[t] \in Records /\ Follows(mem[t], w[t]) /\ w[t].st = "terminal" /\ <<"owned", t>> \in reads
        BY Zenon, <2>5, <2>8, <3>4
      <4>2. \A u \in Tasks : t \in tree[u].over /\ Live(mem, u) => u \in DOMAIN w /\ w[u].st = "terminal"
        BY Zenon, <2>2, <2>7, <2>8, <3>4 DEF ownedLive
      <4>. QED  BY Zenon, <3>1, <3>2, <3>3, <4>1, <4>2 DEF MayPass
    <3>5. CASE t \notin e
      <4>1. PICK k \in Marks \ {"none"} : w[t] = withAbortMark(mem[t], k)
        BY Zenon, <2>3, <2>7, <3>5
      <4>2. mem[t] \in Records /\ mem[t].st \in Unsettled \cup {"completing"}
        BY Zenon, <3>1, <3>2, <1>LiveIs DEF TypeOK
      <4>3. w[t] \in Records /\ w[t].st = mem[t].st /\ w[t].out = mem[t].out /\ w[t].mark = k
            /\ w[t].on = mem[t].on
        <5>1. k \in Marks /\ mem[t] \in Records
          BY Zenon, <4>1, <4>2
        <5>2. withAbortMark(mem[t], k) \in Records /\ withAbortMark(mem[t], k).st = mem[t].st
              /\ withAbortMark(mem[t], k).out = mem[t].out /\ withAbortMark(mem[t], k).mark = k
              /\ withAbortMark(mem[t], k).on = mem[t].on
          BY <5>1, <1>MarkedRecord
        <5>. QED  BY Zenon, <4>1, <5>2
      <4>4. Follows(mem[t], w[t]) /\ w[t].st # "terminal"
        BY Zenon, <4>2, <4>3 DEF Follows, Unsettled
      <4>. QED  BY Zenon, <3>1, <3>2, <3>3, <4>3, <4>4 DEF MayPass
    <3>. QED  BY Zenon, <3>4, <3>5
  <2>10. w \in Writings /\ Lawful(w, reads) /\ Calm(w)
    BY Zenon, <2>7, <2>9, <1>PassIsLawful
  <2>. QED  BY Zenon, <2>1, <2>10 DEF Decision
<1>DecideWait. ASSUME TypeOK, Placed, Line(mem, pend), NEW t \in Tasks, commitWait(t) PROVE WaitDecision
  <2>. USE <1>DecideWait
  <2>1. mem[t].st = "running" /\ Published(TaskKeys({t})) /\ mem[t].mark = "none"
    BY Zenon DEF commitWait, gated
  <2>2. PICK created \in Created(t, FALSE), on \in (SUBSET Tasks) \ {{}}, failFast \in BOOLEAN :
            LET v == Staged(created)
                r == [progressed(mem[t]) EXCEPT !.st = "waiting", !.on = on, !.failFast = failFast]
            IN /\ ValidWait(v, t, on, failFast)
               /\ Commit(Both(created, One(t, r)), waitReads(v, t, on))
    BY Zenon DEF commitWait
  <2>. DEFINE v == Staged(created)
              r == Waiting(mem[t], on, failFast)
              w == Both(created, One(t, r))
              reads == waitReads(v, t, on)
  <2>3. /\ mem[t] \in Records /\ mem[t].st \in Unsettled /\ mem[t].st # "none" /\ Untouched(t)
    BY Zenon, <2>1, <1>RunningIs
  <2>4. on \in SUBSET Tasks
    BY Zenon
  <2>5. r \in Records /\ r.st = "waiting" /\ r.out = mem[t].out /\ r.mark = mem[t].mark /\ r.on = on
    <3>1. mem[t] \in Records
      BY Zenon, <2>3
    <3>. QED  BY Zenon, <2>4, <3>1, <1>WaitRecord
  <2>6. /\ ValidWait(v, t, on, failFast) /\ Commit(w, reads) /\ w = Both(created, One(t, r))
    BY Zenon, <2>2 DEF Waiting
  <2>. HIDE DEF r
  <2>7. /\ \A u \in on : v[u].st # "none"
        /\ t \notin Reach(v, {u \in on : Live(v, u) /\ ~Owns(t, u)})
    BY Zenon, <2>6 DEF ValidWait
  <2>8. \A u \in on : mem[u].st # "none" \/ u \in DOMAIN created
    BY Zenon, <2>4, <2>7 DEF Staged
  <2>. HIDE DEF w, reads
  <2>9. MayWrite(t, created, r, reads)
    BY Zenon, <2>3, <2>5, <2>8 DEF MayWrite, Follows, Unsettled
  <2>10. /\ w \in Writings /\ Lawful(w, reads) /\ (r.st # "waiting" => Calm(w))
         /\ DOMAIN w = DOMAIN created \cup {t} /\ w[t] = r
         /\ \A u \in DOMAIN created : w[u] = NewTask /\ u # t
    <3>1. w \in Writings /\ Lawful(w, reads) /\ (r.st # "waiting" => Calm(w))
      BY ZenonT(60), <2>3, <2>6, <2>9, <1>TaskCommit
    <3>2. DOMAIN w = DOMAIN created \cup {t}
      BY ZenonT(60), <2>3, <2>6, <2>9, <1>TaskCommit
    <3>3. w[t] = r
      BY Zenon, <2>6 DEF Both, One
    <3>4. t \notin DOMAIN created /\ \A u \in DOMAIN created : created[u] = NewTask
      BY Zenon, <2>3, CreatedIs
    <3>5. \A u \in DOMAIN created : w[u] = NewTask /\ u # t
      BY Zenon, <2>6, <3>4 DEF Both, One
    <3>. QED  BY Zenon, <3>1, <3>2, <3>3, <3>5
  <2>11. Wait(t, created, on, w, reads)
    BY Zenon, <2>1, <2>3, <2>4, <2>5, <2>6, <2>7, <2>10 DEF Wait, reads
  <2>. QED  BY Zenon, <2>11 DEF WaitDecision
<1>. USE DEF Idles, Decides, Waits, host
<1>1. CASE UNCHANGED vars
  BY Zenon, <1>1 DEF vars
<1>2. CASE createTask
  BY Zenon, <1>2, <1>DecideCreate DEF createTask
<1>3. CASE abortConversation
  BY Zenon, <1>3, <1>DecideAbortConversation DEF abortConversation
<1>4. CASE Publish
  BY Zenon, <1>4 DEF Publish, Publishes
<1>5. CASE reserveAbandoned
  BY Zenon, <1>5, <1>DecideAbandoned DEF reserveAbandoned
<1>6. CASE reserve
  BY Zenon, <1>6, <1>DecideReserve DEF reserve
<1>7. CASE reconcile
  BY Zenon, <1>7, <1>DecideReconcile DEF reconcile
<1>8. CASE resume
  BY Zenon, <1>8 DEF resume
<1>9. CASE Tick
  BY Zenon, <1>9 DEF Tick
<1>10. CASE TimerFires
  BY Zenon, <1>10 DEF TimerFires
<1>11. CASE Crash
  BY Zenon, <1>11, OpenIs DEF Crash
<1>12. CASE Close
  BY Zenon, <1>12, OpenIs DEF Close
<1>13. ASSUME NEW t \in Tasks, abort(t) PROVE Decides
  BY Zenon, <1>13, <1>DecideAbort DEF abort
<1>14. ASSUME NEW t \in Tasks, RegistryChange(t) \/ stepEnds(t) \/ stepCascade(t) \/ stepContinue(t) PROVE Idles
  BY Zenon, <1>14 DEF RegistryChange, stepEnds, stepCascade, stepContinue
<1>15. ASSUME NEW t \in Tasks, stepHandover(t) PROVE Decides
  BY Zenon, <1>15, <1>DecideHandover DEF stepHandover
<1>16. ASSUME NEW t \in Tasks, stepFault(t) PROVE Decides
  BY Zenon, <1>16, <1>DecideFault DEF stepFault
<1>17. ASSUME NEW t \in Tasks, commitProgress(t) PROVE Decides
  BY Zenon, <1>17, <1>DecideProgress DEF commitProgress
<1>18. ASSUME NEW t \in Tasks, commitWait(t) PROVE Waits
  BY Zenon, <1>18, <1>DecideWait DEF commitWait
<1>19. ASSUME NEW t \in Tasks, sleepUntil(t) PROVE Decides
  BY Zenon, <1>19, <1>DecideSleep DEF sleepUntil
<1>20. ASSUME NEW t \in Tasks, commitOutcome(t) PROVE Decides
  BY Zenon, <1>20, <1>DecideOutcome DEF commitOutcome
<1>. HIDE DEF Idles, Decides, Waits
<1>21. CASE Next
  BY Zenon, <1>2, <1>3, <1>4, <1>5, <1>6, <1>7, <1>8, <1>9, <1>10, <1>11, <1>12, <1>13, <1>14,
     <1>15, <1>16, <1>17, <1>18, <1>19, <1>20, <1>21 DEF Next
<1>. QED  BY Zenon, <1>1, <1>21
-----------------------------------------------------------------------------
(* The records and the line in every reachable state *)

LineInv == TypeOK /\ Placed /\ Line(mem, pend)

LEMMA StagedTypes ==
    ASSUME mem \in [Tasks -> Records], NEW w \in Writings
    PROVE  /\ Staged(w) \in [Tasks -> Records] /\ DOMAIN w \in SUBSET Tasks
           /\ \A t \in DOMAIN w : Staged(w)[t] = w[t]
           /\ \A t \in Tasks : t \notin DOMAIN w => Staged(w)[t] = mem[t]
<1>1. DOMAIN w \in SUBSET Tasks /\ \A t \in DOMAIN w : w[t] \in Records
  BY Zenon, Writing
<1>. QED  BY Zenon, <1>1 DEF Staged

LEMMA MaxOf ==
    ASSUME Placed, NEW S \in SUBSET Tasks, S # {} PROVE Max(S) \in S /\ \A x \in S : x <= Max(S)
<1>1. \E z \in S : \A x \in S : x <= z
  BY Zenon DEF Placed, Ordered
<1>2. \E z \in S : \A x \in S : z >= x
  BY Zenon, <1>1 DEF Tasks
<1>3. Max(S) \in S /\ \A x \in S : Max(S) >= x
  BY Zenon, <1>2 DEF Max
<1>. QED  BY Zenon, <1>3 DEF Tasks

LEMMA ReleasedAre ==
    ASSUME Placed, NEW v, NEW ended \in SUBSET Tasks PROVE released(v, ended) \in SUBSET Tasks
<1>. DEFINE O(t) == {s \in tree[t].over : Live(v, s)}
<1>1. ASSUME NEW t \in ended, O(t) # {} PROVE Max(O(t)) \in Tasks
  <2>1. O(t) \in SUBSET Tasks
    BY Zenon DEF Placed
  <2>. HIDE DEF O
  <2>. QED  BY Zenon, <1>1, <2>1, MaxOf
<1>2. released(v, ended) = {Max(O(t)) : t \in {u \in ended : O(u) # {}}}
  BY Zenon DEF released
<1>. HIDE DEF O
<1>. QED  BY Zenon, <1>1, <1>2

LEMMA FollowsBorn == ASSUME NEW r, NEW q, Follows(r, q) PROVE q.st # "none"
BY Zenon, NewRecords DEF Follows, Unsettled

LEMMA TypePublish ==
    ASSUME LineInv, Placed, Publish PROVE TypeOK'
<1>. DEFINE w == Head(pend).w
            v == Staged(w)
            changed == DOMAIN w
            ended == {t \in changed : v[t].st = "terminal"}
            held == {t \in changed : v[t].st = "completing"}
            failed == {t \in changed : failedOutcome(v[t]) /\ ~failedOutcome(mem[t])}
            freed == released(v, ended)
            failFast == {t \in Tasks : v[t].st = "waiting" /\ v[t].failFast
                                      /\ (v[t].on \cap failed # {} \/ mem[t].st # "waiting")}
<1>1. /\ pend # <<>> /\ mem' = v /\ pend' = Tail(pend)
      /\ runnable' = (runnable \cup (changed \ held)
                              \cup {f \in freed : v[f].st # "completing" /\ v[f].mark # "none"}
                              \cup {t \in Tasks : v[t].st = "waiting" /\ v[t].on \cap ended # {}})
                         \ (held \cup ended)
      /\ finalizeChecks' = (finalizeChecks \cup held
                                    \cup {f \in freed : v[f].st = "completing"}) \ ended
      /\ failFastChecks' = (failFastChecks \cup failFast) \ ended
      /\ UNCHANGED <<inv, abandoned, lost, plan, now>>
  BY Zenon DEF Publish, host
<1>2. pend \in Seq(Commits) /\ mem \in [Tasks -> Records]
  BY Zenon DEF LineInv, TypeOK
<1>3. Tail(pend) \in Seq(Commits) /\ Head(pend) = pend[1] /\ 1 \in DOMAIN pend
  BY Zenon, <1>1, <1>2, ShiftedThere DEF Shifted
<1>4. w \in Writings
  <2>1. pend[1] \in Commits
    BY <1>2, <1>3
  <2>. QED  BY Zenon, <1>3, <2>1 DEF Commits
<1>5. /\ v \in [Tasks -> Records] /\ changed \in SUBSET Tasks
      /\ \A t \in changed : v[t] = w[t]
      /\ \A t \in Tasks : t \notin changed => v[t] = mem[t]
  BY Zenon, <1>2, <1>4, StagedTypes
<1>6. \A t \in changed : v[t].st # "none"
  BY Zenon, <1>3, <1>5, FollowsBorn DEF LineInv, Line, Follow
<1>7. ended \in SUBSET Tasks /\ held \in SUBSET Tasks
  BY Zenon, <1>5
<1>. HIDE DEF v, changed, ended, held, failed, w
<1>8. freed \in SUBSET Tasks
  BY Zenon, <1>7, ReleasedAre
<1>. HIDE DEF freed
<1>9. runnable' \subseteq Tasks /\ finalizeChecks' \subseteq Tasks /\ failFastChecks' \subseteq Tasks
  BY Zenon, <1>1, <1>5, <1>7, <1>8 DEF LineInv, TypeOK
<1>10. \A t \in Tasks : v[t].st = "none" => v[t] = NoTask
  BY Zenon, <1>5, <1>6 DEF LineInv, TypeOK
<1>. QED  BY Zenon, <1>1, <1>3, <1>5, <1>9, <1>10 DEF LineInv, TypeOK

LEMMA TypeOpen ==
    ASSUME LineInv, Placed, NEW stopped, open(stopped) PROVE TypeOK'
<1>. DEFINE Next1(t) == IF mem[t].st # "running" THEN mem[t]
                        ELSE [withStatus(mem[t], "pending") EXCEPT
                                 !.restarts = IF t \in stopped THEN @ ELSE @ + 1]
<1>1. mem' = [t \in Tasks |-> Next1(t)] /\ pend' = <<>> /\ inv' = [t \in Tasks |-> "none"]
  BY Zenon DEF open
<1>2. ASSUME NEW t \in Tasks PROVE Next1(t) \in Records /\ (Next1(t).st = "none" => Next1(t) = NoTask)
  <2>1. mem[t] \in Records /\ (mem[t].st = "none" => mem[t] = NoTask)
    BY Zenon DEF LineInv, TypeOK
  <2>2. CASE mem[t].st = "running"
    <3>. DEFINE s == withStatus(mem[t], "pending")
                n == IF t \in stopped THEN s.restarts ELSE s.restarts + 1
    <3>1. s.restarts \in Nat
      BY Zenon, <2>1, StatusRecord, RecordFields DEF Statuses
    <3>2. n \in Nat
      BY <3>1
    <3>3. Next1(t) = [s EXCEPT !.restarts = n]
      BY Zenon, <2>2
    <3>. HIDE DEF n
    <3>. QED  BY Zenon, <2>1, <3>2, <3>3, OpenRecord
  <2>. QED  BY Zenon, <2>1, <2>2
<1>. HIDE DEF Next1
<1>3. /\ runnable' \subseteq Tasks /\ finalizeChecks' \subseteq Tasks /\ failFastChecks' \subseteq Tasks
      /\ abandoned' \subseteq Tasks /\ lost' \subseteq Tasks
  BY Zenon, BoundsAssumption DEF open, leftBehind
<1>4. UNCHANGED <<plan, now>>
  BY Zenon DEF open
<1>5. pend' \in Seq(Commits)
  BY <1>1
<1>. QED  BY Zenon, <1>1, <1>2, <1>3, <1>4, <1>5 DEF LineInv, TypeOK

\* The rest of the state in a step that keeps memory: where invocations are, and
\* what the passes are to look at
Attends ==
    /\ plan' = plan /\ mem' = mem /\ now' \in Nat
    /\ inv' \in [Tasks -> {"none", "start", "phase", "progressed", "abort"}]
    /\ runnable' \subseteq Tasks /\ finalizeChecks' \subseteq Tasks /\ failFastChecks' \subseteq Tasks
    /\ abandoned' \subseteq Tasks /\ lost' \subseteq Tasks

LEMMA StepAttends ==
    ASSUME TypeOK, [Next]_vars
    PROVE  Attends \/ Publish \/ \E stopped : open(stopped)
<1>. USE DEF Attends, TypeOK, memory, signals, cascade, host
<1>1. CASE UNCHANGED vars
  BY Zenon, <1>1 DEF vars
<1>2. CASE createTask
  BY Zenon, <1>2 DEF createTask
<1>3. CASE abortConversation
  BY Zenon, <1>3 DEF abortConversation
<1>5. CASE reserveAbandoned
  BY Zenon, <1>5 DEF reserveAbandoned
<1>6. CASE reserve
  <2>. DEFINE kept == Candidates \ Dropped(Candidates)
  <2>1. \E starting : /\ runnable' = kept \ starting
                      /\ inv' = [t \in Tasks |-> IF t \notin starting THEN inv[t]
                                    ELSE IF mem[t].mark = "none" THEN "start" ELSE "abort"]
    BY Zenon, <1>6, Zenon DEF reserve
  <2>2. UNCHANGED <<plan, mem, now, finalizeChecks, failFastChecks, abandoned, lost>>
    BY Zenon, <1>6 DEF reserve
  <2>3. kept \subseteq Tasks
    BY Zenon DEF Candidates, Due
  <2>. HIDE DEF kept
  <2>. QED  BY Zenon, <2>1, <2>2, <2>3
<1>7. CASE reconcile
  BY Zenon, <1>7 DEF reconcile
<1>8. CASE resume
  BY Zenon, <1>8 DEF resume, Due
<1>9. CASE Tick
  BY <1>9 DEF Tick
<1>10. CASE TimerFires
  BY Zenon, <1>10 DEF TimerFires, Due
<1>13. ASSUME NEW t \in Tasks, abort(t) PROVE Attends
  BY Zenon, <1>13 DEF abort
<1>14. ASSUME NEW t \in Tasks, RegistryChange(t) PROVE Attends
  BY Zenon, <1>14 DEF RegistryChange
<1>15. ASSUME NEW t \in Tasks, end(t), UNCHANGED <<plan, mem, now, finalizeChecks, failFastChecks, abandoned, lost>>
       PROVE  Attends
  BY Zenon, <1>15 DEF end
<1>16. ASSUME NEW t \in Tasks, stepEnds(t) \/ stepCascade(t) \/ stepHandover(t) \/ stepFault(t) PROVE Attends
  BY Zenon, <1>15, <1>16 DEF stepEnds, stepCascade, stepHandover, stepFault
<1>17. ASSUME NEW t \in Tasks, stepContinue(t) PROVE Attends
  BY Zenon, <1>17 DEF stepContinue
<1>18. ASSUME NEW t \in Tasks, commitProgress(t) PROVE Attends
  BY Zenon, <1>18 DEF commitProgress
<1>19. ASSUME NEW t \in Tasks, commitWait(t) \/ sleepUntil(t) \/ commitOutcome(t) PROVE Attends
  BY Zenon, <1>19 DEF commitWait, sleepUntil, commitOutcome
<1>. HIDE DEF Attends, TypeOK
<1>20. CASE Next
  BY Zenon, <1>2, <1>3, <1>5, <1>6, <1>7, <1>8, <1>9, <1>10, <1>13, <1>14, <1>16, <1>17, <1>18, <1>19, <1>20
     DEF Next, Crash, Close
<1>. QED  BY Zenon, <1>1, <1>20

\* `tree' is fixed by the plan.
LEMMA LineNext ==
    ASSUME plan' = plan, Line(mem', pend') PROVE Line(mem, pend)'
<1>1. tree' = tree
  BY Zenon DEF tree
<1>2. Single(pend)' /\ Follow(mem, pend)' /\ Named(mem, pend)'
  BY Zenon DEF Line, Single, Follow, Named
<1>3. Rooted(mem, pend)'
  BY Zenon, <1>1 DEF Line, Rooted
<1>4. Joined(mem, pend)'
  <2>1. \A y, z : Nearest(mem, y, z)' <=> Nearest(mem', y, z)
    BY Zenon, <1>1 DEF Nearest, Live
  <2>. QED  BY Zenon, <2>1 DEF Line, Joined
<1>5. Emptied(mem, pend)'
  BY Zenon, <1>1 DEF Line, Emptied, Live
<1>. QED  BY Zenon, <1>2, <1>3, <1>4, <1>5 DEF Line

LEMMA LineOpen ==
    ASSUME LineInv, Placed, Reopens
    PROVE  /\ Line(mem', pend')
           /\ \A t \in Tasks : \/ mem'[t] = mem[t]
                               \/ /\ mem[t].st = "running" /\ mem'[t].st = "pending"
                                  /\ mem'[t].out = mem[t].out /\ mem'[t].mark = mem[t].mark
<1>1. PICK stopped : mem' = [t \in Tasks |->
                  IF mem[t].st # "running" THEN mem[t]
                  ELSE [withStatus(mem[t], "pending") EXCEPT
                           !.restarts = IF t \in stopped THEN @ ELSE @ + 1]]
  BY Zenon DEF Reopens
<1>2. ASSUME NEW t \in Tasks
      PROVE  \/ mem'[t] = mem[t]
             \/ /\ mem[t].st = "running" /\ mem'[t].st = "pending"
                /\ mem'[t].out = mem[t].out /\ mem'[t].mark = mem[t].mark
  <2>1. mem[t] \in Records
    BY Zenon DEF LineInv, TypeOK
  <2>2. CASE mem[t].st = "running"
    <3>. DEFINE s == withStatus(mem[t], "pending")
                n == IF t \in stopped THEN s.restarts ELSE s.restarts + 1
    <3>1. mem'[t] = [s EXCEPT !.restarts = n]
      BY Zenon, <1>1, <2>2
    <3>2. s \in Records /\ s.st = "pending" /\ s.out = mem[t].out /\ s.mark = mem[t].mark
      BY Zenon, <2>1, StatusRecord DEF Statuses
    <3>. HIDE DEF n, s
    <3>. QED  BY Zenon, <2>2, <3>1, <3>2 DEF Records
  <2>. QED  BY Zenon, <1>1, <2>2
<1>3. pend' = <<>> /\ \A n \in DOMAIN pend' : FALSE
  BY DEF Reopens
<1>4. \A t \in Tasks : mem'[t].st = "none" <=> mem[t].st = "none"
  BY Zenon, <1>2
<1>5. Single(pend') /\ Follow(mem', pend') /\ Joined(mem', pend') /\ Emptied(mem', pend')
  BY Zenon, <1>3 DEF Single, Follow, Joined, Emptied
<1>6. Rooted(mem', pend')
  BY Zenon, <1>3, <1>4 DEF LineInv, Line, Rooted, Placed
<1>7. Named(mem', pend')
  <2>1. \A t \in Tasks : mem[t].on \in SUBSET Tasks
    BY Zenon, RecordFields DEF LineInv, TypeOK
  <2>. QED  BY Zenon, <1>2, <1>3, <1>4, <2>1 DEF LineInv, Line, Named
<1>. QED  BY Zenon, <1>2, <1>5, <1>6, <1>7 DEF Line

LEMMA CommitsAre ==
    ASSUME TypeOK
    PROVE  \A n \in DOMAIN pend : pend[n] \in Commits /\ pend[n].w \in Writings
<1>1. \A n \in DOMAIN pend : pend[n] \in Commits
  BY DEF TypeOK
<1>. QED  BY Zenon, <1>1 DEF Commits

LEMMA LinePublished ==
    ASSUME LineInv, Placed, Publishes PROVE Line(mem', pend')
<1>1. pend \in Seq(Commits) /\ pend # <<>> /\ mem \in [Tasks -> Records]
  BY Zenon DEF LineInv, TypeOK, Publishes
<1>2. Shifted(pend, pend') /\ Head(pend) = pend[1]
  BY Zenon, <1>1, ShiftedThere DEF Publishes
<1>3. mem' = Staged(pend[1].w)
  BY Zenon, <1>2 DEF Publishes
<1>4. \A n \in DOMAIN pend : pend[n].w \in Writings
  BY Zenon, CommitsAre DEF LineInv
<1>5. Line(mem, pend)
  BY Zenon DEF LineInv
<1>. QED  BY Zenon, <1>1, <1>2, <1>3, <1>4, <1>5, LinePublish

LEMMA LineStep ==
    ASSUME LineInv, [Next]_vars PROVE LineInv'
<1>1. TypeOK /\ Line(mem, pend) /\ Placed
  BY Zenon DEF LineInv
<1>2. Idles \/ Decides \/ Waits \/ Publishes \/ Reopens
  BY Zenon, <1>1, StepKinds
<1>3. plan' = plan
  BY Zenon, <1>2 DEF Idles, Decides, Waits, Publishes, Reopens
<1>4. Line(mem', pend') /\ (mem' = mem => pend' \in Seq(Commits))
  <2>1. CASE Idles
    BY Zenon, <1>1, <2>1 DEF Idles, TypeOK
  <2>2. CASE Decides
    <3>1. PICK w \in Writings : \E reads : Lawful(w, reads) /\ Calm(w) /\ Commit(w, reads)
      BY Zenon, <2>2 DEF Decides, Decision
    <3>2. Line(mem, pend') /\ pend' \in Seq(Commits)
      BY Zenon, <1>1, <3>1, CommitKeepsLine
    <3>3. mem' = mem
      BY Zenon, <2>2 DEF Decides
    <3>. QED  BY Zenon, <3>2, <3>3
  <2>3. CASE Waits
    <3>1. PICK t \in Tasks : \E created, on, w, reads : Wait(t, created, on, w, reads)
      BY Zenon, <2>3 DEF Waits, WaitDecision
    <3>2. PICK created, on, w, reads : Wait(t, created, on, w, reads)
      BY Zenon, <3>1
    <3>3. w \in Writings /\ Lawful(w, reads) /\ Commit(w, reads)
      BY Zenon, <3>2 DEF Wait
    <3>4. Line(mem, pend') /\ pend' \in Seq(Commits)
      BY Zenon, <1>1, <3>3, CommitKeepsLine
    <3>5. mem' = mem
      BY Zenon, <2>3 DEF Waits
    <3>. QED  BY Zenon, <3>4, <3>5
  <2>4. CASE Publishes
    <3>1. pend' \in Seq(Commits)
      BY Zenon, <1>1, <2>4, ShiftedThere DEF Publishes, TypeOK
    <3>. QED  BY Zenon, <1>1, <2>4, <3>1, LinePublished
  <2>5. CASE Reopens
    <3>1. pend' \in Seq(Commits)
      BY <2>5 DEF Reopens
    <3>. QED  BY Zenon, <1>1, <2>5, <3>1, LineOpen
  <2>. QED  BY Zenon, <1>2, <2>1, <2>2, <2>3, <2>4, <2>5
<1>5. Line(mem, pend)'
  BY Zenon, <1>3, <1>4, LineNext
<1>6. TypeOK'
  <2>1. CASE Attends
    <3>1. pend' \in Seq(Commits) /\ mem' = mem
      BY Zenon, <1>4, <2>1 DEF Attends
    <3>. QED  BY Zenon, <1>1, <2>1, <3>1 DEF Attends, TypeOK
  <2>2. CASE Publish
    BY Zenon, <1>1, <2>2, TypePublish
  <2>3. CASE \E stopped : open(stopped)
    BY Zenon, <1>1, <2>3, TypeOpen
  <2>. QED  BY Zenon, <1>1, <2>1, <2>2, <2>3, StepAttends
<1>7. Placed'
  <2>1. tree' = tree
    BY Zenon, <1>3 DEF tree
  <2>. QED  BY Zenon, <1>1, <2>1 DEF Placed, Ordered
<1>. QED  BY Zenon, <1>5, <1>6, <1>7 DEF LineInv
-----------------------------------------------------------------------------
(* What the published records promise *)

Life(r) == CASE r.st = "none" -> "none" [] r.st = "completing" -> "held"
             [] r.st = "terminal" -> "ended" [] OTHER -> "live"

LEMMA LifeFollows ==
    ASSUME NEW r, NEW q, Follows(r, q), r.st = "none" => r = NoTask
    PROVE  \/ Life(q) = Life(r) /\ q.out = r.out
           \/ Life(r) = "none" /\ Life(q) = "live" /\ q.out = "none"
           \/ Life(r) = "live" /\ Life(q) \in {"held", "ended"} /\ q.out # "none"
           \/ Life(r) = "held" /\ Life(q) = "ended" /\ q.out = r.out
BY Zenon, NewRecords DEF Follows, Life, Unsettled

LEMMA PromiseSame ==
    ASSUME plan' = plan, \A t \in Tasks : Life(mem'[t]) = Life(mem[t]) /\ mem'[t].out = mem[t].out
    PROVE  UNCHANGED Promise!vars
<1>1. tree' = tree
  BY Zenon DEF tree
<1>2. [t \in Tasks |-> Life(mem[t])]' = [t \in Tasks |-> Life(mem[t])]
  BY Zenon DEF Life
<1>3. [t \in Tasks |-> mem[t].out]' = [t \in Tasks |-> mem[t].out]
  BY Zenon
<1>4. [t \in Tasks |-> tree[t].over]' = [t \in Tasks |-> tree[t].over]
  BY Zenon, <1>1
<1>. QED  BY Zenon, <1>2, <1>3, <1>4 DEF Promise!vars, Life

LEMMA PromisePublished ==
    ASSUME LineInv, Placed, Publishes
    PROVE  Promise!Commit
<1>. DEFINE w == pend[1].w
<1>1. pend \in Seq(Commits) /\ pend # <<>> /\ mem \in [Tasks -> Records] /\ Line(mem, pend)
      /\ \A t \in Tasks : mem[t].st = "none" => mem[t] = NoTask
  BY Zenon DEF LineInv, TypeOK, Publishes
<1>2. Shifted(pend, pend') /\ Head(pend) = pend[1] /\ 1 \in DOMAIN pend
  BY Zenon, <1>1, ShiftedThere DEF Publishes, Shifted
<1>3. mem' = Staged(w) /\ plan' = plan
  BY Zenon, <1>2 DEF Publishes
<1>4. tree' = tree
  BY Zenon, <1>3 DEF tree
<1>5. ASSUME NEW t \in Tasks
      PROVE  /\ t \in DOMAIN w => mem'[t] = w[t] /\ Follows(mem[t], mem'[t])
             /\ t \notin DOMAIN w => mem'[t] = mem[t]
             /\ mem[t].st # "none" => mem'[t].st # "none"
             /\ Live(mem', t) /\ mem[t].st # "none" => Live(mem, t)
  <2>1. mem' = Staged(pend[1].w)
    BY Zenon, <1>3
  <2>. QED  BY Zenon, <1>1, <1>2, <2>1, Published1
<1>. DEFINE L(t) == \/ Life(mem'[t]) = Life(mem[t]) /\ mem'[t].out = mem[t].out
                    \/ Life(mem[t]) = "none" /\ Life(mem'[t]) = "live" /\ mem'[t].out = "none"
                    \/ Life(mem[t]) = "live" /\ Life(mem'[t]) \in {"held", "ended"} /\ mem'[t].out # "none"
                    \/ Life(mem[t]) = "held" /\ Life(mem'[t]) = "ended" /\ mem'[t].out = mem[t].out
            E(t) == Life(mem[t]) # "ended" /\ Life(mem'[t]) = "ended"
            W(t) == {u \in Tasks : Life(mem'[u]) \in {"live", "held"} /\ t \in tree[u].over}
<1>6. ASSUME NEW t \in Tasks PROVE L(t)
  <2>1. CASE t \in DOMAIN w
    BY Zenon, <1>1, <1>5, <2>1, LifeFollows
  <2>2. CASE t \notin DOMAIN w
    BY Zenon, <1>5, <2>2
  <2>. QED  BY Zenon, <2>1, <2>2
<1>7. ASSUME NEW t \in Tasks, E(t) PROVE W(t) = {}
  <2>1. t \in DOMAIN w /\ w[t].st = "terminal"
    BY Zenon, <1>5, <1>7 DEF Life
  <2>2. ASSUME NEW u \in Tasks, t \in tree[u].over PROVE ~Live(mem', u)
    <3>1. /\ Live(mem, u) => \E i \in 1..1 : u \in DOMAIN pend[i].w /\ pend[i].w[u].st = "terminal"
          /\ mem[u].st = "none" => u \notin DOMAIN w
      BY Zenon, <1>1, <1>2, <2>1, <2>2 DEF Line, Emptied
    <3>2. Live(mem, u) => u \in DOMAIN w /\ w[u].st = "terminal"
      BY <3>1
    <3>3. CASE Live(mem, u)
      BY Zenon, <1>5, <3>2, <3>3 DEF Live
    <3>4. CASE mem[u].st = "none"
      BY Zenon, <1>5, <3>1, <3>4 DEF Live
    <3>5. CASE mem[u].st # "none" /\ ~Live(mem, u)
      BY Zenon, <1>5, <3>5
    <3>. QED  BY Zenon, <3>3, <3>4, <3>5
  <2>. QED  BY Zenon, <2>2 DEF Live, Life
<1>. HIDE DEF w
<1>8. [t \in Tasks |-> tree[t].over]' = [t \in Tasks |-> tree[t].over]
  BY Zenon, <1>4
<1>9. ASSUME NEW t \in Tasks PROVE Promise!Lives(t) /\ (Promise!Ends(t) => Promise!Working(t)' = {})
  <2>1. L(t) /\ (E(t) => W(t) = {})
    BY Zenon, <1>6, <1>7
  <2>2. Promise!Lives(t)
    BY Zenon, <2>1 DEF Promise!Lives, Life
  <2>3. Promise!Ends(t) => E(t)
    BY Zenon DEF Promise!Ends, Life
  <2>4. Promise!Working(t)' = W(t)
    BY Zenon, <1>4 DEF Promise!Working, Life
  <2>. QED  BY Zenon, <2>1, <2>2, <2>3, <2>4
<1>. QED  BY Zenon, <1>8, <1>9 DEF Promise!Commit
-----------------------------------------------------------------------------
(* What an earlier Harness left behind *)

\* How invocations move in a step that neither opens nor applies #abandoned
Moves(t) ==
    \/ inv'[t] = inv[t] \/ inv'[t] = "none"
    \/ reserve /\ inv'[t] \in {"start", "abort"}
    \/ inv[t] \in {"phase", "progressed"} /\ inv'[t] = "progressed"
    \/ stepContinue(t)

Carries == abandoned' = abandoned /\ lost' = lost /\ \A t \in Tasks : Moves(t)

LEMMA StepMoves ==
    ASSUME TypeOK, [Next]_vars
    PROVE  \/ \E stopped : open(stopped)
           \/ reserveAbandoned
           \/ Carries
<1>. USE DEF memory, signals, cascade, host
<1>0. ASSUME UNCHANGED <<abandoned, lost, inv>> PROVE Carries
  BY Zenon, <1>0 DEF Carries, Moves
<1>1. CASE UNCHANGED vars
  BY Zenon, <1>0, <1>1 DEF vars
<1>2. CASE createTask
  BY Zenon, <1>0, <1>2 DEF createTask
<1>3. CASE abortConversation
  BY Zenon, <1>0, <1>3 DEF abortConversation
<1>4. CASE Publish
  BY Zenon, <1>0, <1>4 DEF Publish
<1>6. CASE reserve
  <2>1. \E starting : inv' = [t \in Tasks |-> IF t \notin starting THEN inv[t]
                                    ELSE IF mem[t].mark = "none" THEN "start" ELSE "abort"]
    BY Zenon, <1>6, Zenon DEF reserve
  <2>2. UNCHANGED <<abandoned, lost>>
    BY Zenon, <1>6 DEF reserve
  <2>. QED  BY Zenon, <1>6, <2>1, <2>2 DEF Carries, Moves
<1>7. CASE reconcile
  BY Zenon, <1>0, <1>7 DEF reconcile
<1>8. CASE resume
  BY Zenon, <1>0, <1>8 DEF resume
<1>9. CASE Tick
  BY Zenon, <1>0, <1>9 DEF Tick
<1>10. CASE TimerFires
  BY Zenon, <1>0, <1>10 DEF TimerFires
<1>13. ASSUME NEW t \in Tasks, abort(t) PROVE Carries
  BY Zenon, <1>0, <1>13 DEF abort
<1>14. ASSUME NEW t \in Tasks, RegistryChange(t) PROVE Carries
  BY Zenon, <1>0, <1>14 DEF RegistryChange
<1>15. ASSUME NEW t \in Tasks, end(t), UNCHANGED <<abandoned, lost>> PROVE Carries
  BY Zenon, <1>15 DEF end, Carries, Moves, TypeOK
<1>16. ASSUME NEW t \in Tasks, stepEnds(t) \/ stepCascade(t) \/ stepHandover(t) \/ stepFault(t) PROVE Carries
  BY Zenon, <1>15, <1>16 DEF stepEnds, stepCascade, stepHandover, stepFault
<1>17. ASSUME NEW t \in Tasks, stepContinue(t) PROVE Carries
  <2>1. UNCHANGED <<abandoned, lost>> /\ inv' = [inv EXCEPT ![t] = "phase"]
    BY Zenon, <1>17 DEF stepContinue
  <2>. QED  BY Zenon, <1>17, <2>1 DEF Carries, Moves, TypeOK
<1>18. ASSUME NEW t \in Tasks, commitProgress(t) PROVE Carries
  <2>1. /\ UNCHANGED <<abandoned, lost>> /\ inv[t] \in {"phase", "progressed", "abort"}
        /\ inv' = [inv EXCEPT ![t] = IF @ = "abort" THEN "abort" ELSE "progressed"]
    BY Zenon, <1>18 DEF commitProgress, gated
  <2>. QED  BY Zenon, <2>1 DEF Carries, Moves, TypeOK
<1>19. ASSUME NEW t \in Tasks, commitWait(t) \/ sleepUntil(t) \/ commitOutcome(t) PROVE Carries
  BY Zenon, <1>0, <1>19 DEF commitWait, sleepUntil, commitOutcome
<1>20. CASE Next
  BY Zenon, <1>2, <1>3, <1>4, <1>6, <1>7, <1>8, <1>9, <1>10, <1>13, <1>14, <1>16, <1>17, <1>18, <1>19, <1>20
     DEF Next, Crash, Close
<1>. QED  BY Zenon, <1>1, <1>20

\* An unpublished commit marks s.
MarkPending(p, s) ==
    \E n \in DOMAIN p : /\ s \in DOMAIN p[n].w /\ p[n].w[s].mark # "none"
                        /\ INTENT_KEY \in p[n].keys

\* A task left behind is marked, or about to be, before anything is invoked.
LostInv ==
    /\ abandoned \subseteq lost
    /\ abandoned # {} => \A t \in Tasks : inv[t] = "none"
    /\ \A s \in lost :
          /\ mem[s].st # "none"
          /\ Live(mem, s) => mem[s].mark # "none" \/ s \in abandoned \/ MarkPending(pend, s)

LEMMA LostInit == Init => LostInv
BY Zenon DEF Init, LostInv

LEMMA LostOpen ==
    ASSUME LineInv, Placed, NEW stopped, open(stopped) PROVE LostInv' /\ \A t \in Tasks : inv'[t] = "none"
<1>1. Reopens
  BY Zenon, OpenIs
<1>2. LineInv => \A t \in Tasks : mem[t].st # "none" => mem'[t].st # "none"
  BY Zenon, <1>1, LineOpen
<1>3. /\ abandoned' = {t \in Abandonable : Live(mem, t)} /\ lost' = abandoned'
      /\ inv' = [t \in Tasks |-> "none"]
  BY Zenon DEF open, leftBehind
<1>4. \A s \in lost' : s \in Tasks /\ mem[s].st # "none"
  BY Zenon, <1>3, BoundsAssumption DEF Live
<1>. QED  BY Zenon, <1>2, <1>3, <1>4 DEF LostInv

\* The line after a commit
LEMMA MarkPendingAppended ==
    ASSUME NEW c, Appended(pend, c, pend'), NEW s
    PROVE  /\ MarkPending(pend, s) => MarkPending(pend', s)
           /\ s \in DOMAIN c.w /\ c.w[s].mark # "none" /\ INTENT_KEY \in c.keys => MarkPending(pend', s)
BY Zenon DEF Appended, MarkPending

\* The tasks left behind stay marked in a step that only decides or publishes.
LEMMA LostCarried ==
    ASSUME LineInv, Placed, Idles \/ Decides \/ Waits \/ Publishes,
           NEW s \in Tasks, mem[s].st # "none"
    PROVE  /\ mem'[s].st # "none"
           /\ Live(mem', s) => Live(mem, s)
           /\ Live(mem', s) /\ mem[s].mark # "none" => mem'[s].mark # "none"
           /\ MarkPending(pend, s) => mem'[s].mark # "none" \/ MarkPending(pend', s)
<1>0. TypeOK /\ Line(mem, pend) /\ pend \in Seq(Commits)
  BY Zenon DEF LineInv, TypeOK
<1>2. CASE Idles
  BY Zenon, <1>2 DEF Idles, Live
<1>3. CASE Decides \/ Waits
  <2>1. mem' = mem
    BY Zenon, <1>3 DEF Decides, Waits
  <2>2. \E w \in Writings : \E reads : Lawful(w, reads) /\ Commit(w, reads)
    <3>1. CASE Decides
      BY Zenon, <3>1 DEF Decides, Decision
    <3>2. CASE Waits
      <4>1. PICK t \in Tasks : \E created, on, w, reads : Wait(t, created, on, w, reads)
        BY Zenon, <3>2 DEF Waits, WaitDecision
      <4>2. PICK created, on, w, reads : Wait(t, created, on, w, reads)
        BY Zenon, <4>1
      <4>. QED  BY Zenon, <4>2 DEF Wait
    <3>. QED  BY Zenon, <1>3, <3>1, <3>2
  <2>3. PICK w \in Writings : \E reads : Lawful(w, reads) /\ Commit(w, reads)
    BY Zenon, <2>2
  <2>4. pend' = pend \/ Appended(pend, [w |-> w, keys |-> Writes(w)], pend')
    BY Zenon, <1>0, <2>3, CommitKeepsLine
  <2>5. MarkPending(pend, s) => MarkPending(pend', s)
    BY Zenon, <2>4, MarkPendingAppended
  <2>. QED  BY Zenon, <2>1, <2>5 DEF Live
<1>4. CASE Publishes
  <2>1. Shifted(pend, pend') /\ Head(pend) = pend[1] /\ 1 \in DOMAIN pend
    BY Zenon, <1>0, <1>4, ShiftedThere DEF Publishes, Shifted
  <2>2. mem' = Staged(pend[1].w)
    BY Zenon, <1>4, <2>1 DEF Publishes
  <2>3. /\ s \in DOMAIN pend[1].w => mem'[s] = pend[1].w[s]
        /\ mem'[s].st # "none"
        /\ Live(mem', s) => Live(mem, s)
        /\ mem[s].mark # "none" => mem'[s].mark # "none"
    BY Zenon, <1>0, <2>1, <2>2, Published1
  <2>4. ASSUME MarkPending(pend, s) PROVE mem'[s].mark # "none" \/ MarkPending(pend', s)
    <3>1. PICK n \in DOMAIN pend : /\ s \in DOMAIN pend[n].w /\ pend[n].w[s].mark # "none"
                                   /\ INTENT_KEY \in pend[n].keys
      BY Zenon, <2>4 DEF MarkPending
    <3>2. CASE n = 1
      BY Zenon, <2>3, <3>1, <3>2
    <3>3. CASE n # 1
      BY Zenon, <2>1, <3>1, <3>3 DEF Shifted, MarkPending
    <3>. QED  BY Zenon, <3>2, <3>3
  <2>. QED  BY Zenon, <2>3, <2>4
<1>. QED  BY Zenon, <1>2, <1>3, <1>4

LEMMA AbandonedMarks ==
    ASSUME LineInv, Placed, reserveAbandoned, NEW s \in abandoned, s \in Tasks, Live(mem, s), mem[s].mark = "none"
    PROVE  MarkPending(pend', s)
<1>. DEFINE D == {a \in abandoned : Live(mem, a) /\ mem[a].mark = "none"}
            w == [t \in D |-> withAbortMark(mem[t], "restart")]
            reads == TaskKeys(abandoned)
<1>1. Commit(w, reads)
  BY Zenon DEF reserveAbandoned
<1>2. s \in D /\ mem[s] \in Records
  BY Zenon DEF LineInv, TypeOK
<1>3. DOMAIN w = D /\ w[s] = withAbortMark(mem[s], "restart")
  BY Zenon, <1>2
<1>4. w[s].mark = "restart"
  BY Zenon, <1>2, <1>3 DEF withAbortMark, Records
<1>5. INTENT_KEY \in Writes(w)
  BY Zenon, <1>2, <1>3, <1>4 DEF Writes, intentChanges
<1>. DEFINE c == [w |-> w, keys |-> Writes(w)]
<1>. HIDE DEF w, D
<1>6. pend' = Append(pend, c) /\ pend \in Seq(Commits)
  BY Zenon, <1>1, <1>2, <1>3 DEF Commit, LineInv, TypeOK
<1>7. Append(pend, c)[Len(pend) + 1] = c /\ Len(pend) + 1 \in DOMAIN Append(pend, c)
  BY <1>6
<1>. QED  BY <1>2, <1>3, <1>4, <1>5, <1>6, <1>7 DEF MarkPending

LEMMA LostStep ==
    ASSUME LineInv, LostInv, [Next]_vars PROVE LostInv'
<1>1. TypeOK /\ Line(mem, pend) /\ Placed /\ lost \subseteq Tasks
  BY Zenon DEF LineInv, TypeOK
<1>2. CASE \E stopped : open(stopped)
  BY Zenon, <1>1, <1>2, LostOpen
<1>3. CASE ~\E stopped : open(stopped)
  <2>1. Idles \/ Decides \/ Waits \/ Publishes
    BY Zenon, <1>1, <1>3, StepKinds DEF Reopens
  <2>2. ASSUME NEW s \in lost
        PROVE  /\ mem'[s].st # "none"
               /\ Live(mem', s) => mem'[s].mark # "none" \/ s \in abandoned \/ MarkPending(pend', s)
    <3>1. s \in Tasks /\ mem[s].st # "none"
      BY Zenon, <1>1 DEF LostInv
    <3>2. /\ mem'[s].st # "none"
          /\ Live(mem', s) => Live(mem, s)
          /\ Live(mem', s) /\ mem[s].mark # "none" => mem'[s].mark # "none"
          /\ MarkPending(pend, s) => mem'[s].mark # "none" \/ MarkPending(pend', s)
      BY Zenon, <1>1, <2>1, <3>1, LostCarried
    <3>. QED  BY Zenon, <3>2 DEF LostInv
  <2>3. CASE reserveAbandoned
    <3>1. abandoned' = {} /\ lost' = lost /\ mem' = mem
      BY Zenon, <2>3 DEF reserveAbandoned
    <3>2. ASSUME NEW s \in lost, Live(mem, s), mem[s].mark = "none", s \in abandoned PROVE MarkPending(pend', s)
      BY Zenon, <1>1, <2>3, <3>2, AbandonedMarks
    <3>3. \A s \in lost : Live(mem, s)' => mem'[s].mark # "none" \/ MarkPending(pend', s)
      BY Zenon, <2>2, <3>1, <3>2 DEF Live
    <3>. QED  BY Zenon, <2>2, <3>1, <3>3 DEF LostInv, MarkPending
  <2>4. CASE Carries
    <3>1. abandoned' = abandoned /\ lost' = lost
      BY Zenon, <2>4 DEF Carries
    <3>2. abandoned # {} => \A t \in Tasks : inv'[t] = "none"
      BY Zenon, <2>4 DEF Carries, Moves, LostInv, reserve, stepContinue
    <3>3. \A s \in lost : Live(mem, s)' => mem'[s].mark # "none" \/ s \in abandoned \/ MarkPending(pend', s)
      BY Zenon, <2>2 DEF Live
    <3>. QED  BY Zenon, <2>2, <3>1, <3>2, <3>3 DEF LostInv, MarkPending
  <2>. QED  BY Zenon, <1>1, <1>3, <2>3, <2>4, StepMoves
<1>. QED  BY Zenon, <1>2, <1>3

\* A step into a phase has read that neither the task nor an owner is left behind.
LEMMA PhaseIsFree ==
    ASSUME LineInv, LostInv, Placed, NEW t \in Tasks, stepContinue(t)
    PROVE  t \notin lost /\ \A s \in tree[t].over \cap lost : ~Live(mem, s)
<1>1. /\ abandoned = {} /\ Published(TaskKeys({t})) /\ mem[t].st = "running" /\ mem[t].mark = "none"
      /\ tree[t].how # "background" => Published({INTENT_KEY})
      /\ ~belowCancelled(mem, t)
  BY Zenon DEF stepContinue, Proceeds, LostInv
<1>2. t \notin lost
  <2>1. SUFFICES ASSUME t \in lost PROVE FALSE
    BY Zenon
  <2>2. MarkPending(pend, t)
    BY Zenon, <1>1, <2>1 DEF LostInv, Live
  <2>3. \A n \in DOMAIN pend : t \notin DOMAIN pend[n].w
    <3>1. <<"task", t>> \in TaskKeys({t}) /\ Line(mem, pend)
      BY Zenon DEF TaskKeys, LineInv
    <3>. QED  BY Zenon, <1>1, <3>1, ReadIsFree
  <2>. QED  BY Zenon, <2>2, <2>3 DEF MarkPending
<1>3. ASSUME NEW s \in tree[t].over \cap lost, Live(mem, s) PROVE FALSE
  <2>1. Published({INTENT_KEY})
    BY Zenon, <1>1 DEF Placed
  <2>2. ~MarkPending(pend, s)
    BY Zenon, <2>1 DEF MarkPending, Published
  <2>3. mem[s].mark # "none"
    BY Zenon, <1>1, <1>3, <2>2 DEF LostInv
  <2>. QED  BY Zenon, <1>1, <1>3, <2>3 DEF belowCancelled, cancellationIntent
<1>. QED  BY Zenon, <1>2, <1>3

LEMMA AbandonedStep ==
    ASSUME LineInv, LostInv, AbandonedNeverRuns, [Next]_vars PROVE AbandonedNeverRuns'
<1>1. TypeOK /\ Line(mem, pend) /\ Placed /\ lost \subseteq Tasks
  BY Zenon DEF LineInv, TypeOK
<1>2. CASE \E stopped : open(stopped)
  <2>1. \A t \in Tasks : inv'[t] = "none"
    BY Zenon, <1>1, <1>2, LostOpen
  <2>. QED  BY Zenon, <2>1 DEF AbandonedNeverRuns
<1>3. CASE ~\E stopped : open(stopped)
  <2>1. Idles \/ Decides \/ Waits \/ Publishes
    BY Zenon, <1>1, <1>3, StepKinds DEF Reopens
  <2>2. \A s \in lost : Live(mem', s) => Live(mem, s)
    BY Zenon, <1>1, <2>1, LostCarried DEF LostInv
  <2>3. tree' = tree
    BY Zenon, <2>1 DEF Idles, Decides, Waits, Publishes, tree
  <2>4. lost' = lost /\ \A t \in Tasks : Moves(t) \/ inv'[t] = inv[t]
    BY Zenon, <1>1, <1>3, StepMoves DEF Carries, reserveAbandoned
  <2>5. ASSUME NEW t \in Tasks, inv'[t] \in {"phase", "progressed"}
        PROVE  t \notin lost /\ \A s \in tree[t].over \cap lost : ~Live(mem, s)
    <3>1. CASE stepContinue(t)
      BY Zenon, <1>1, <3>1, PhaseIsFree
    <3>2. CASE inv[t] \in {"phase", "progressed"}
      BY Zenon, <3>2 DEF AbandonedNeverRuns
    <3>. QED  BY Zenon, <2>4, <2>5, <3>1, <3>2 DEF Moves
  <2>6. ASSUME NEW t \in Tasks, inv'[t] \in {"phase", "progressed"}
        PROVE  t \notin lost' /\ \A s \in tree'[t].over \cap lost' : ~Live(mem', s)
    BY Zenon, <2>2, <2>3, <2>4, <2>5, <2>6
  <2>. QED  BY Zenon, <2>6 DEF AbandonedNeverRuns, Live
<1>. QED  BY Zenon, <1>2, <1>3
-----------------------------------------------------------------------------
(* The records once everything decided is published *)

Writer(p, t) == \E n \in DOMAIN p : t \in DOMAIN p[n].w

LEMMA TipIs ==
    ASSUME LineInv, NEW t \in Tasks
    PROVE  /\ \A n \in DOMAIN pend : t \in DOMAIN pend[n].w => Tip[t] = pend[n].w[t]
           /\ ~Writer(pend, t) => Tip[t] = mem[t]
<1>. DEFINE S == {i \in 1..Len(pend) : t \in DOMAIN pend[i].w}
<1>1. Tip[t] = IF S = {} THEN mem[t] ELSE pend[Max(S)].w[t]
  BY Zenon DEF Tip
<1>2. DOMAIN pend = 1..Len(pend) /\ Len(pend) \in Nat
  BY DEF LineInv, TypeOK
<1>3. ASSUME NEW n \in DOMAIN pend, t \in DOMAIN pend[n].w PROVE Tip[t] = pend[n].w[t]
  <2>1. n \in S /\ \A i \in S : i = n
    BY Zenon, <1>2, <1>3 DEF LineInv, Line, Single
  <2>2. S = {n}
    BY Zenon, <2>1
  <2>. HIDE DEF S
  <2>3. n \in {n} /\ \A y \in {n} : n >= y
    BY <1>2
  <2>4. Max({n}) = n
    BY Zenon, <2>3 DEF Max
  <2>. QED  BY Zenon, <1>1, <2>2, <2>4
<1>4. ~Writer(pend, t) => Tip[t] = mem[t]
  BY Zenon, <1>1, <1>2 DEF Writer
<1>. QED  BY Zenon, <1>3, <1>4

\* If the membership of a live task with nothing live below it was read, no
\* unpublished commit adds to it.
LEMMA NothingPending ==
    ASSUME LineInv, Placed, NEW t \in Tasks, Live(mem, t), ownedLive(mem, t) = {},
           NEW reads, Published(reads), <<"owned", t>> \in reads
    PROVE  ownedLive(Tip, t) = {}
<1>1. SUFFICES ASSUME NEW y \in Tasks, Live(Tip, y), t \in tree[y].over PROVE FALSE
  BY Zenon DEF ownedLive
<1>2. ~Live(mem, y)
  BY Zenon, <1>1 DEF ownedLive
<1>3. Writer(pend, y)
  BY Zenon, <1>1, <1>2, TipIs DEF Live
<1>4. PICK n \in DOMAIN pend : y \in DOMAIN pend[n].w
  BY Zenon, <1>3 DEF Writer
<1>5. Follows(mem[y], pend[n].w[y])
  BY Zenon, <1>4 DEF LineInv, Line, Follow
<1>6. mem[y].st = "none"
  BY Zenon, <1>2, <1>5, FollowsThere DEF Live
<1>7. PICK z \in Tasks : Nearest(mem, y, z) /\ (z = t \/ t \in tree[z].over)
  BY Zenon, <1>1, NearestHeld
<1>8. z = t
  BY Zenon, <1>7 DEF Nearest, ownedLive
<1>9. <<"owned", t>> \in pend[n].keys
  BY Zenon, <1>4, <1>6, <1>7, <1>8 DEF LineInv, Line, Joined
<1>. QED  BY Zenon, <1>9 DEF Published

LEMMA ReservedAborts ==
    ASSUME LineInv, Placed, reserve, NEW t \in Tasks, inv[t] # "abort", inv'[t] = "abort"
    PROVE  ownedLive(Tip, t) = {}
<1>. DEFINE cands == Candidates
            kept == cands \ Dropped(cands)
            ready == kept \ Cascading(kept)
            cutOff == {x \in ready : mem[x].restarts >= RestartLimit}
            starting == ready \ (cutOff \cup blocked)
            reads == reserveReads(cands, kept, cutOff)
<1>1. \E w : Commit(w, reads)
  BY Zenon DEF reserve
<1>2. inv' = [x \in Tasks |-> IF x \notin starting THEN inv[x]
                              ELSE IF mem[x].mark = "none" THEN "start" ELSE "abort"]
  BY Zenon DEF reserve
<1>3. Published(reads)
  BY Zenon, <1>1 DEF Commit, Published
<1>4. t \in starting /\ mem[t].mark # "none"
  BY Zenon, <1>2
<1>5. t \in cands /\ inv[t] = "none" /\ Live(mem, t) /\ waitingOn(mem, t) = {}
  BY Zenon, <1>4 DEF Dropped
<1>6. ownedLive(mem, t) = {}
  BY Zenon, <1>4, <1>5 DEF waitingOn
<1>7. <<"owned", t>> \in firstDown(mem, t)
  BY Zenon, WalksFromTop
<1>8. <<"owned", t>> \in reads
  BY Zenon, <1>4, <1>5, <1>7 DEF reserveReads
<1>. HIDE DEF reads
<1>. QED  BY Zenon, <1>3, <1>5, <1>6, <1>8, NothingPending
-----------------------------------------------------------------------------
(* The wait-for graph of a view of the records *)

After(v, x)  == {y \in Tasks : Edge(v, x, y)}
Acyclic(v)   == \A x \in Tasks : x \notin Reach(v, After(v, x))
Only(v, w, t) == \A x \in Tasks \ {t} : w[x] = v[x]
-----------------------------------------------------------------------------
\* What is not reached is outside some closed set.
LEMMA Unreached ==
    ASSUME NEW v, NEW S, NEW x \in Tasks, x \notin Reach(v, S)
    PROVE  \E R \in SUBSET Tasks : S \subseteq R /\ Closed(v, R) /\ x \notin R
BY Zenon DEF Reach

LEMMA Outside ==
    ASSUME NEW v, NEW S, NEW x, NEW R \in SUBSET Tasks,
           S \subseteq R, Closed(v, R), x \notin R
    PROVE  x \notin Reach(v, S)
BY Zenon DEF Reach

\* Reach is the least closed set around S.
LEMMA ReachClosed ==
    ASSUME NEW v, NEW S \in SUBSET Tasks
    PROVE  /\ S \subseteq Reach(v, S) /\ Reach(v, S) \in SUBSET Tasks
           /\ Closed(v, Reach(v, S))
           /\ \A R \in SUBSET Tasks : S \subseteq R /\ Closed(v, R) => Reach(v, S) \subseteq R
<1>1. S \subseteq Reach(v, S) /\ Reach(v, S) \in SUBSET Tasks
  BY Zenon DEF Reach
<1>2. \A R \in SUBSET Tasks : S \subseteq R /\ Closed(v, R) => Reach(v, S) \subseteq R
  BY Zenon DEF Reach
<1>3. ASSUME NEW x \in Reach(v, S), NEW y \in Tasks, Edge(v, x, y) PROVE y \in Reach(v, S)
  <2>1. SUFFICES ASSUME NEW R \in SUBSET Tasks, S \subseteq R, Closed(v, R) PROVE y \in R
    BY Zenon DEF Reach
  <2>2. x \in R
    BY Zenon, <1>2, <2>1
  <2>. QED  BY Zenon, <1>3, <2>1, <2>2 DEF Closed
<1>. QED  BY Zenon, <1>1, <1>2, <1>3 DEF Closed

LEMMA UnionClosed ==
    ASSUME NEW v, NEW R1 \in SUBSET Tasks, NEW R2 \in SUBSET Tasks,
           Closed(v, R1), Closed(v, R2)
    PROVE  Closed(v, R1 \cup R2)
BY Zenon DEF Closed
-----------------------------------------------------------------------------
\* Aborting, ending, waking and starting a task take edges away and add none, so
\* they cannot close a cycle.
THEOREM FewerEdgesKeepAcyclic ==
    ASSUME NEW v, NEW w, Acyclic(v),
           \A x, y \in Tasks : Edge(w, x, y) => Edge(v, x, y)
    PROVE  Acyclic(w)
<1>. SUFFICES ASSUME NEW x \in Tasks PROVE x \notin Reach(w, After(w, x))
  BY Zenon DEF Acyclic
<1>1. PICK R \in SUBSET Tasks : After(v, x) \subseteq R /\ Closed(v, R) /\ x \notin R
  BY Unreached DEF Acyclic
<1>2. After(w, x) \subseteq R
  BY Zenon, <1>1 DEF After
<1>3. Closed(w, R)
  BY Zenon, <1>1 DEF Closed
<1>. QED  BY SMTT(30), <1>1, <1>2, <1>3, Outside

\* A task that is created, with nothing live below it yet, has only edges that
\* lead to it (createTask).
THEOREM CreationKeepsAcyclic ==
    ASSUME NEW v, NEW w, NEW t \in Tasks, Acyclic(v), Only(v, w, t),
           v[t] = NoTask, w[t] = NewTask,
           t \notin tree[t].over,
           \A u \in Tasks : t \in tree[u].over => ~Live(v, u)
    PROVE  Acyclic(w)
<1>. SUFFICES ASSUME NEW x \in Tasks PROVE x \notin Reach(w, After(w, x))
  BY Zenon DEF Acyclic
<1>1. \A y \in Tasks : ~Edge(w, t, y)
  BY Zenon DEF Edge, Only, NewTask, NoTask, Live
<1>2. \A z, y \in Tasks : Edge(w, z, y) => z # t /\ (Edge(v, z, y) \/ y = t)
  BY Zenon, <1>1 DEF Edge, Only, Live
<1>3. CASE x = t
  <2>1. After(w, x) = {}
    BY Zenon, <1>1, <1>3 DEF After
  <2>2. Closed(w, {})
    BY Zenon DEF Closed
  <2>. QED  BY SMTT(30), <2>1, <2>2, Outside
<1>4. CASE x # t
  <2>1. PICK R \in SUBSET Tasks : After(v, x) \subseteq R /\ Closed(v, R) /\ x \notin R
    BY Unreached DEF Acyclic
  <2>2. After(w, x) \subseteq R \cup {t}
    BY Zenon, <1>2, <2>1 DEF After
  <2>3. Closed(w, R \cup {t})
    BY Zenon, <1>2, <2>1 DEF Closed
  <2>. QED  BY Zenon, <1>4, <2>1, <2>2, <2>3, Outside
<1>. QED  BY Zenon, <1>3, <1>4

\* A wait that #checkWait accepts closes no cycle (commitWait): not at the task
\* itself, and at no other task either.  That a child is below its owner is how
\* the tree is laid.
THEOREM CheckedWaitKeepsAcyclic ==
    ASSUME NEW v, NEW w, NEW t \in Tasks, NEW on \in SUBSET Tasks, NEW failFast,
           Acyclic(v), Only(v, w, t), ValidWait(v, t, on, failFast),
           v[t].st = "running", w[t].st = "waiting", w[t].on = on,
           \A u \in Tasks : Owns(t, u) => t \in tree[u].over
    PROVE  Acyclic(w)
<1>. DEFINE named == {u \in on : Live(v, u) /\ ~Owns(t, u)}
<1>1. \A x \in Tasks : Live(w, x) <=> Live(v, x)
  BY Zenon DEF Live, Only
<1>2. \A x, y \in Tasks : x # t => (Edge(w, x, y) <=> Edge(v, x, y))
  BY Zenon, <1>1 DEF Edge, Only
<1>3. After(w, t) \subseteq After(v, t) \cup named
  BY Zenon, <1>1 DEF After, Edge
\* The task itself: what it waits for and what it owns lead to a closed set
\* without it.
<1>4. PICK A \in SUBSET Tasks : After(w, t) \subseteq A /\ Closed(v, A) /\ t \notin A
  <2>1. PICK R1 \in SUBSET Tasks : After(v, t) \subseteq R1 /\ Closed(v, R1) /\ t \notin R1
    BY Unreached DEF Acyclic
  <2>2. t \notin Reach(v, named)
    BY Zenon DEF ValidWait
  <2>3. PICK R2 \in SUBSET Tasks : named \subseteq R2 /\ Closed(v, R2) /\ t \notin R2
    BY <2>2, Unreached
  <2>4. Closed(v, R1 \cup R2)
    BY SMTT(30), <2>1, <2>3, UnionClosed
  <2>. QED  BY SMTT(30), <1>3, <2>1, <2>3, <2>4
<1>5. \A R \in SUBSET Tasks : Closed(v, R) /\ (t \in R => After(w, t) \subseteq R) => Closed(w, R)
  BY Zenon, <1>2 DEF Closed, After
<1>6. t \notin Reach(w, After(w, t))
  BY SMTT(30), <1>4, <1>5, Outside
<1>7. ASSUME NEW x \in Tasks, x # t PROVE x \notin Reach(w, After(w, x))
  <2>. DEFINE X == Reach(v, After(v, x))
  <2>1. After(w, x) = After(v, x) /\ After(v, x) \in SUBSET Tasks
    BY Zenon, <1>2, <1>7 DEF After
  <2>2. /\ After(v, x) \subseteq X /\ X \in SUBSET Tasks /\ Closed(v, X)
        /\ \A R \in SUBSET Tasks : After(v, x) \subseteq R /\ Closed(v, R) => X \subseteq R
    BY Zenon, <2>1, ReachClosed
  <2>3. x \notin X
    BY Zenon DEF Acyclic
  <2>. HIDE DEF X
  <2>4. CASE t \notin X
    BY SMTT(30), <1>5, <2>1, <2>2, <2>3, <2>4, Outside
  \* x leads to t; were it in A, which is closed, t would be too.
  <2>5. CASE t \in X
    <3>1. x \notin A
      <4>. SUFFICES ASSUME x \in A PROVE FALSE
        BY Zenon
      <4>1. After(v, x) \subseteq A
        BY Zenon, <1>4 DEF Closed, After
      <4>. QED  BY SMTT(30), <1>4, <2>2, <2>5, <4>1
    <3>2. Closed(v, X \cup A)
      BY SMTT(30), <1>4, <2>2, UnionClosed
    <3>3. Closed(w, X \cup A)
      BY SMTT(30), <1>4, <1>5, <2>2, <3>2
    <3>. QED  BY SMTT(30), <1>4, <2>1, <2>2, <2>3, <3>1, <3>3, Outside
  <2>. QED  BY Zenon, <2>4, <2>5
<1>. QED  BY Zenon, <1>6, <1>7 DEF Acyclic

\* In an acyclic graph no task that waits is reached from what it waits for, so
\* the records as all decided commits leave them satisfy NoWaitCycle.
THEOREM AcyclicMeansNoWaitCycle ==
    ASSUME Acyclic(Tip), \A t \in Tasks : Tip[t].on \subseteq Tasks
    PROVE  NoWaitCycle
<1>. DEFINE tip == Tip
<1>1. Acyclic(tip) /\ \A t \in Tasks : tip[t].on \subseteq Tasks
  BY Zenon
<1>. HIDE DEF tip
<1>2. ASSUME NEW t \in Tasks, tip[t].st = "waiting", tip[t].mark = "none"
      PROVE  t \notin Reach(tip, {u \in tip[t].on : Live(tip, u)})
  <2>1. PICK R \in SUBSET Tasks : After(tip, t) \subseteq R /\ Closed(tip, R) /\ t \notin R
    BY <1>1, Unreached DEF Acyclic
  <2>2. {u \in tip[t].on : Live(tip, u)} \subseteq R
    BY Zenon, <1>1, <1>2, <2>1 DEF After, Edge, Live
  <2>. QED  BY Zenon, <2>1, <2>2, Outside
<1>. QED  BY Zenon, <1>2 DEF NoWaitCycle, tip
-----------------------------------------------------------------------------
(* The wait-for graph along the line *)

\* v is what the first n commits of p make of m.
Shows(v, m, p, n) ==
    \A t \in Tasks :
        /\ \A i \in 1..n : t \in DOMAIN p[i].w => v[t] = p[i].w[t]
        /\ (\A i \in 1..n : t \notin DOMAIN p[i].w) => v[t] = m[t]

\* Whatever part of the line is stored when the process ends, the graph has no cycle.
Graph(m, p) == \A n \in 0..Len(p) : \A v : Shows(v, m, p, n) => Acyclic(v)

LEMMA TipShows ==
    ASSUME LineInv PROVE Shows(Tip, mem, pend, Len(pend))
<1>1. DOMAIN pend = 1..Len(pend)
  BY DEF LineInv, TypeOK
<1>. QED  BY Zenon, <1>1, TipIs DEF Shows, Writer

\* With the tasks that w creates
Born(w)     == {u \in DOMAIN w : mem[u].st = "none"}
WithBorn(w) == [u \in Tasks |-> IF u \in Born(w) THEN NewTask ELSE Tip[u]]

LEMMA BornAcyclic ==
    ASSUME LineInv, Placed, Acyclic(Tip), NEW w \in Writings, NEW reads, Lawful(w, reads),
           \A x, y \in Born(w) : x = y
    PROVE  Acyclic(WithBorn(w))
<1>. DEFINE c == WithBorn(w)
<1>1. \A u \in Tasks : u \notin Born(w) => c[u] = Tip[u]
  BY Zenon DEF WithBorn
<1>2. DOMAIN w \in SUBSET Tasks
  BY Zenon, Writing
<1>3. CASE Born(w) = {}
  <2>1. \A x, y \in Tasks : Edge(c, x, y) => Edge(Tip, x, y)
    BY Zenon, <1>1, <1>3 DEF Edge, Live
  <2>. HIDE DEF c
  <2>2. Acyclic(c)
    BY Zenon, <2>1, FewerEdgesKeepAcyclic
  <2>. QED  BY Zenon, <2>2 DEF c
<1>4. CASE Born(w) # {}
  <2>1. PICK t \in Born(w) : TRUE
    BY Zenon, <1>4
  <2>2. t \in Tasks /\ mem[t].st = "none" /\ Born(w) = {t} /\ t \in DOMAIN w
    BY Zenon, <1>2, <2>1 DEF Born
  <2>3. c[t] = NewTask /\ Only(Tip, c, t)
    BY Zenon, <1>1, <2>2 DEF Only, WithBorn
  <2>4. Tip[t] = NoTask
    <3>1. ~Writer(pend, t)
      BY Zenon, <2>2 DEF Writer, Lawful, LawfulAt
    <3>. QED  BY Zenon, <2>2, <3>1, TipIs DEF LineInv, TypeOK
  <2>5. t \notin tree[t].over
    <3>1. t \in Tasks
      BY Zenon, <2>2
    <3>2. tree[t].over \subseteq tree[t].above /\ \A a \in tree[t].above : a < t
      BY Zenon, <3>1 DEF Placed
    <3>. QED  BY <3>1, <3>2 DEF Tasks
  <2>6. ASSUME NEW u \in Tasks, t \in tree[u].over PROVE ~Live(Tip, u)
    <3>1. t \in tree[u].above
      BY Zenon, <2>6 DEF Placed
    <3>2. mem[u].st = "none"
      BY Zenon, <2>2, <3>1 DEF LineInv, Line, Rooted
    <3>3. ~Writer(pend, u)
      BY Zenon, <2>2, <3>1 DEF Writer, LineInv, Line, Rooted
    <3>. QED  BY Zenon, <3>2, <3>3, TipIs DEF Live
  <2>. HIDE DEF c
  <2>7. Acyclic(c)
    BY Zenon, <2>2, <2>3, <2>4, <2>5, <2>6, CreationKeepsAcyclic
  <2>. QED  BY Zenon, <2>7 DEF c
<1>. QED  BY Zenon, <1>3, <1>4

\* The end of the line after a commit
Extends(v, w) == \A t \in Tasks : v[t] = IF t \in DOMAIN w THEN w[t] ELSE Tip[t]

LEMMA CalmAcyclic ==
    ASSUME LineInv, Placed, Acyclic(Tip), NEW w \in Writings, NEW reads, Lawful(w, reads), Calm(w),
           NEW v, Extends(v, w)
    PROVE  Acyclic(v)
<1>. DEFINE c == WithBorn(w)
<1>1. DOMAIN w \in SUBSET Tasks
  BY Zenon, Writing
<1>2. Acyclic(c)
  BY Zenon, BornAcyclic DEF Calm, Born
<1>3. ASSUME NEW t \in Tasks
      PROVE  \/ v[t] = c[t]
             \/ /\ t \in DOMAIN w /\ v[t] = w[t] /\ c[t] = mem[t] /\ Follows(mem[t], w[t]) /\ mem[t].st # "none"
  <2>1. CASE t \notin DOMAIN w
    BY Zenon, <2>1 DEF Extends, WithBorn, Born
  <2>2. CASE t \in DOMAIN w /\ mem[t].st = "none"
    <3>1. w[t] = NewTask
      BY Zenon, <2>2 DEF Lawful, LawfulAt, Follows, Unsettled
    <3>. QED  BY Zenon, <2>2, <3>1 DEF Extends, WithBorn, Born
  <2>3. CASE t \in DOMAIN w /\ mem[t].st # "none"
    <3>1. ~Writer(pend, t) /\ Follows(mem[t], w[t])
      BY Zenon, <2>3 DEF Lawful, LawfulAt, Writer
    <3>2. c[t] = mem[t]
      BY Zenon, <2>3, <3>1, TipIs DEF WithBorn, Born
    <3>. QED  BY Zenon, <2>3, <3>1, <3>2 DEF Extends
  <2>. QED  BY Zenon, <2>1, <2>2, <2>3
<1>. HIDE DEF c
<1>4. ASSUME NEW t \in Tasks
      PROVE  /\ Live(v, t) => Live(c, t)
             /\ v[t].st = "waiting" /\ v[t].mark = "none" =>
                   c[t].st = "waiting" /\ c[t].mark = "none" /\ c[t].on = v[t].on
  <2>1. CASE v[t] = c[t]
    BY Zenon, <2>1 DEF Live
  <2>2. CASE t \in DOMAIN w /\ v[t] = w[t] /\ c[t] = mem[t] /\ Follows(mem[t], w[t]) /\ mem[t].st # "none"
    <3>1. Live(v, t) => Live(c, t)
      BY Zenon, <2>2, FollowsThere DEF Live
    <3>2. mem[t].mark # "none" => w[t].mark # "none"
      BY Zenon, <2>2, FollowsThere
    <3>. QED  BY Zenon, <2>2, <3>1, <3>2 DEF Calm
  <2>. QED  BY Zenon, <1>3, <2>1, <2>2
<1>5. \A x, y \in Tasks : Edge(v, x, y) => Edge(c, x, y)
  BY Zenon, <1>4 DEF Edge
<1>. QED  BY Zenon, <1>2, <1>5, FewerEdgesKeepAcyclic

\* A decision's view and the end of the line agree on the records it has read.
LEMMA ReadAgrees ==
    ASSUME LineInv, NEW created, DOMAIN created = Born(created),
           \A u \in DOMAIN created : u \in Tasks /\ created[u] = NewTask,
           NEW reads, Published(reads), NEW x \in Tasks, <<"task", x>> \in reads
    PROVE  WithBorn(created)[x] = Staged(created)[x]
<1>1. CASE x \in DOMAIN created
  BY Zenon, <1>1 DEF WithBorn, Staged
<1>2. CASE x \notin DOMAIN created
  <2>1. ~Writer(pend, x)
    BY Zenon, ReadIsFree DEF Writer, LineInv
  <2>2. Tip[x] = mem[x]
    BY Zenon, <2>1, TipIs
  <2>. QED  BY Zenon, <1>2, <2>2 DEF WithBorn, Staged
<1>. QED  BY Zenon, <1>1, <1>2

\* What #validateWait reached in memory is closed in the records at the end of the
\* line too: it read all that could have added an edge out of it.
LEMMA ReachedIsClosed ==
    ASSUME LineInv, Placed, NEW created, DOMAIN created = Born(created),
           \A u \in DOMAIN created : u \in Tasks /\ created[u] = NewTask,
           NEW R \in SUBSET Tasks, Closed(Staged(created), R), NEW reads, Published(reads),
           \A x \in R : <<"task", x>> \in reads /\ <<"owned", x>> \in reads
    PROVE  Closed(WithBorn(created), R)
<1>. DEFINE s == Staged(created)
            c == WithBorn(created)
<1>1. \A x \in R : c[x] = s[x]
  BY Zenon, ReadAgrees
<1>2. \A x \in Tasks : /\ x \in DOMAIN created => s[x] = NewTask /\ c[x] = NewTask /\ mem[x].st = "none"
                       /\ x \notin DOMAIN created => s[x] = mem[x] /\ c[x] = Tip[x]
  BY Zenon DEF Staged, WithBorn, Born
<1>3. \A x, y \in Tasks : x \in R /\ Edge(s, x, y) => y \in R
  BY Zenon DEF Closed
<1>4. NewTask.st = "pending"
  BY Zenon, NewRecords
<1>. HIDE DEF s, c
<1>5. ASSUME NEW x \in R, NEW y \in Tasks, Edge(c, x, y), ~Live(s, y) PROVE FALSE
  <2>1. x \in Tasks /\ Live(c, y) /\ Live(s, x)
    BY Zenon, <1>1, <1>5 DEF Edge, Live
  <2>2. y \notin DOMAIN created /\ ~Live(mem, y) /\ Live(Tip, y)
    BY Zenon, <1>2, <1>4, <1>5, <2>1 DEF Live
  <2>3. Writer(pend, y)
    BY Zenon, <2>2, TipIs DEF Live
  <2>4. PICK n \in DOMAIN pend : y \in DOMAIN pend[n].w
    BY Zenon, <2>3 DEF Writer
  <2>5. Follows(mem[y], pend[n].w[y])
    BY Zenon, <2>4 DEF LineInv, Line, Follow
  <2>6. mem[y].st = "none"
    BY Zenon, <2>2, <2>5, FollowsThere DEF Live
  <2>7. CASE s[x].st = "waiting" /\ y \in s[x].on
    <3>1. x \notin DOMAIN created /\ s[x] = mem[x]
      BY Zenon, <1>2, <1>4, <2>1, <2>7
    <3>. QED  BY Zenon, <2>1, <2>6, <2>7, <3>1 DEF LineInv, Line, Named
  <2>8. CASE x \in tree[y].over
    <3>1. mem[x].st # "none"
      BY Zenon, <2>4, <2>8 DEF Placed, LineInv, Line, Rooted
    <3>2. x \notin DOMAIN created /\ Live(mem, x)
      BY Zenon, <1>2, <2>1, <3>1 DEF Live
    <3>3. PICK z \in Tasks : Nearest(mem, y, z) /\ (z = x \/ x \in tree[z].over)
      BY Zenon, <2>8, <3>2, NearestHeld
    <3>4. Live(mem, z) /\ Live(s, z)
      BY Zenon, <1>2, <3>3 DEF Nearest, Live
    <3>5. z \in R
      BY Zenon, <1>3, <2>1, <3>3, <3>4 DEF Edge
    <3>6. <<"owned", z>> \in reads
      BY Zenon, <3>5
    <3>7. <<"owned", z>> \in pend[n].keys
      BY Zenon, <2>4, <2>6, <3>3 DEF LineInv, Line, Joined
    <3>. QED  BY Zenon, <3>6, <3>7 DEF Published
  <2>. QED  BY Zenon, <1>1, <1>5, <2>7, <2>8 DEF Edge
<1>6. ASSUME NEW x \in R, NEW y \in Tasks, Edge(c, x, y) PROVE Edge(s, x, y)
  BY Zenon, <1>1, <1>5, <1>6 DEF Edge, Live
<1>7. Closed(c, R)
  BY Zenon, <1>3, <1>6 DEF Closed
<1>. QED  BY Zenon, <1>7 DEF c

LEMMA WaitAcyclic ==
    ASSUME LineInv, Placed, Acyclic(Tip), NEW t \in Tasks, NEW created, NEW on, NEW w, NEW reads,
           Wait(t, created, on, w, reads), NEW v, Extends(v, w)
    PROVE  Acyclic(v)
<1>. DEFINE s     == Staged(created)
            c     == WithBorn(created)
            named == {u \in on : Live(s, u) /\ ~Owns(t, u)}
            R     == Reach(s, named)
<1>1. /\ created \in Created(t, FALSE) /\ on \in SUBSET Tasks
      /\ mem[t].st = "running" /\ mem[t].mark = "none" /\ Untouched(t)
      /\ \A u \in on : s[u].st # "none"
      /\ t \notin R /\ reads = waitReads(s, t, on)
      /\ w \in Writings /\ Lawful(w, reads) /\ Commit(w, reads)
      /\ DOMAIN w = DOMAIN created \cup {t} /\ w[t].st = "waiting" /\ w[t].on = on
      /\ \A u \in DOMAIN created : w[u] = NewTask /\ u # t
  BY Zenon DEF Wait
<1>2. TypeOK /\ Line(mem, pend) /\ mem[t].st # "none"
  BY Zenon, <1>1 DEF LineInv
<1>3. /\ t \notin DOMAIN created
      /\ \A u \in DOMAIN created : u \in Unborn /\ u \in Tasks /\ created[u] = NewTask
  BY Zenon, <1>1, <1>2, CreatedIs
<1>4. \A u \in DOMAIN created : mem[u].st = "none" /\ \A x \in DOMAIN created : u = x
  BY Zenon, <1>2, <1>3, UnbornIs
<1>5. Born(created) = DOMAIN created /\ Born(w) = DOMAIN created
  BY Zenon, <1>1, <1>2, <1>4 DEF Born
<1>6. Acyclic(c)
  <2>1. Acyclic(WithBorn(w))
    BY Zenon, <1>1, <1>4, <1>5, BornAcyclic
  <2>2. WithBorn(w) = WithBorn(created)
    BY Zenon, <1>5 DEF WithBorn
  <2>. QED  BY Zenon, <2>1, <2>2
<1>7. Published(reads)
  BY Zenon, <1>1 DEF Commit, Published
<1>8. named \in SUBSET Tasks
  BY Zenon, <1>1
<1>9. named \subseteq R /\ R \in SUBSET Tasks /\ Closed(s, R)
  <2>. HIDE DEF named, s
  <2>. QED  BY Zenon, <1>8, ReachClosed
<1>10. /\ \A x \in on : <<"task", x>> \in reads
       /\ \A x \in R : <<"task", x>> \in reads /\ <<"owned", x>> \in reads
  <2>1. reads = TaskKeys(on \cup R) \cup UNION {walkDown(s, x) : x \in R}
    BY Zenon, <1>1, Zenon DEF waitReads
  <2>2. \A x \in R : <<"owned", x>> \in walkDown(s, x)
    BY Zenon, WalksFromTop
  <2>. HIDE DEF R, s
  <2>3. \A x \in on \cup R : <<"task", x>> \in TaskKeys(on \cup R)
    BY Zenon DEF TaskKeys
  <2>. QED  BY Zenon, <2>1, <2>2, <2>3
<1>11. Closed(c, R)
  <2>1. \A u \in DOMAIN created : u \in Tasks /\ created[u] = NewTask
    BY Zenon, <1>3
  <2>2. DOMAIN created = Born(created) /\ R \in SUBSET Tasks /\ Closed(Staged(created), R)
    BY Zenon, <1>5, <1>9
  <2>. HIDE DEF R
  <2>. QED  BY Zenon, <1>7, <1>10, <2>1, <2>2, ReachedIsClosed
<1>12. \A u \in on : c[u] = s[u]
  <2>1. \A u \in DOMAIN created : u \in Tasks /\ created[u] = NewTask
    BY Zenon, <1>3
  <2>. HIDE DEF R
  <2>. QED  BY Zenon, <1>1, <1>5, <1>7, <1>10, <2>1, ReadAgrees
<1>. DEFINE namedC == {u \in on : Live(c, u) /\ ~Owns(t, u)}
<1>13. namedC \subseteq R
  <2>1. namedC \subseteq named
    BY Zenon, <1>12 DEF Live
  <2>. HIDE DEF named, namedC, R
  <2>. QED  BY Zenon, <1>9, <2>1
<1>14. t \notin Reach(c, namedC)
  <2>. HIDE DEF namedC, R, c
  <2>. QED  BY Zenon, <1>1, <1>9, <1>11, <1>13, Outside
<1>15. ValidWait(c, t, on, FALSE)
  <2>1. \A u \in on : c[u].st # "none"
    BY Zenon, <1>1, <1>12
  <2>. HIDE DEF c
  <2>. QED  BY Zenon, <1>14, <2>1 DEF ValidWait
<1>16. c[t].st = "running"
  <2>1. ~Writer(pend, t)
    BY Zenon, <1>1 DEF Untouched, Writer
  <2>2. Tip[t] = mem[t]
    BY Zenon, <2>1, TipIs
  <2>. QED  BY Zenon, <1>1, <1>3, <1>5, <2>2 DEF WithBorn
<1>17. Only(c, v, t) /\ v[t].st = "waiting" /\ v[t].on = on
  BY Zenon, <1>1, <1>5 DEF Only, Extends, WithBorn
<1>18. \A u \in Tasks : Owns(t, u) => t \in tree[u].over
  <2>1. \A u \in Tasks : tree[u].how = "child" => tree[u].parent \in tree[u].over
    BY Zenon DEF Placed
  <2>. QED  BY Zenon, <2>1 DEF Owns
<1>. HIDE DEF c
<1>19. on \in SUBSET Tasks
  BY Zenon, <1>1
<1>. QED  BY Zenon, <1>6, <1>15, <1>16, <1>17, <1>18, <1>19, CheckedWaitKeepsAcyclic

LEMMA GraphAppended ==
    ASSUME LineInv, Placed, Graph(mem, pend), NEW w, NEW keys, NEW q,
           Appended(pend, [w |-> w, keys |-> keys], q),
           \A v : Extends(v, w) => Acyclic(v)
    PROVE  Graph(mem, q)
<1>. DEFINE N == Len(pend) + 1
<1>1. /\ Len(pend) \in Nat /\ Len(q) = N /\ DOMAIN pend = 1..Len(pend) /\ q[N].w = w
      /\ \A i \in 1..Len(pend) : q[i] = pend[i]
  BY DEF Appended
<1>. SUFFICES ASSUME NEW n \in 0..Len(q), NEW v, Shows(v, mem, q, n) PROVE Acyclic(v)
  BY Zenon DEF Graph
<1>2. CASE n # N
  <2>1. n \in 0..Len(pend) /\ \A i \in 1..n : q[i] = pend[i]
    BY <1>1, <1>2
  <2>2. Shows(v, mem, pend, n)
    BY Zenon, <2>1 DEF Shows
  <2>. QED  BY Zenon, <2>1, <2>2 DEF Graph
<1>3. CASE n = N
  <2>1. Shows(Tip, mem, pend, Len(pend))
    BY Zenon, TipShows
  <2>2. N \in 1..N /\ \A i \in 1..N : i = N \/ i \in 1..Len(pend)
    BY <1>1
  <2>3. \A i \in 1..Len(pend) : i \in 1..N
    BY <1>1
  <2>. HIDE DEF N
  <2>4. ASSUME NEW t \in Tasks PROVE v[t] = IF t \in DOMAIN w THEN w[t] ELSE Tip[t]
    <3>1. CASE t \in DOMAIN w
      BY Zenon, <1>1, <1>3, <2>2, <3>1 DEF Shows
    <3>2. CASE t \notin DOMAIN w /\ \E i \in 1..Len(pend) : t \in DOMAIN pend[i].w
      <4>1. PICK i \in 1..Len(pend) : t \in DOMAIN pend[i].w
        BY Zenon, <3>2
      <4>2. i \in 1..N /\ q[i] = pend[i]
        BY Zenon, <1>1, <2>3
      <4>3. v[t] = q[i].w[t]
        BY Zenon, <1>3, <4>1, <4>2 DEF Shows
      <4>4. Tip[t] = pend[i].w[t]
        BY Zenon, <2>1, <4>1 DEF Shows
      <4>. QED  BY Zenon, <3>2, <4>2, <4>3, <4>4
    <3>3. CASE t \notin DOMAIN w /\ \A i \in 1..Len(pend) : t \notin DOMAIN pend[i].w
      <4>1. \A i \in 1..N : t \notin DOMAIN q[i].w
        BY Zenon, <1>1, <2>2, <3>3
      <4>2. v[t] = mem[t] /\ Tip[t] = mem[t]
        BY Zenon, <1>3, <2>1, <3>3, <4>1 DEF Shows
      <4>. QED  BY Zenon, <3>3, <4>2
    <3>. QED  BY Zenon, <3>1, <3>2, <3>3
  <2>. QED  BY Zenon, <2>4 DEF Extends
<1>. QED  BY Zenon, <1>2, <1>3

LEMMA GraphPublished ==
    ASSUME LineInv, Placed, Graph(mem, pend), NEW m, NEW q, Shifted(pend, q), m = Staged(pend[1].w)
    PROVE  Graph(m, q)
<1>1. /\ DOMAIN pend = 1..Len(pend) /\ Len(pend) \in Nat \ {0} /\ 1 \in DOMAIN pend
      /\ Len(q) = Len(pend) - 1 /\ DOMAIN q = 1..(Len(pend) - 1)
  BY Zenon DEF Shifted
<1>. SUFFICES ASSUME NEW n \in 0..Len(q), NEW v, Shows(v, m, q, n) PROVE Acyclic(v)
  BY Zenon DEF Graph
<1>2. n + 1 \in 0..Len(pend)
  BY <1>1
<1>3. ASSUME NEW i \in 1..(n + 1), i # 1 PROVE i - 1 \in 1..n /\ q[i - 1] = pend[i] /\ i \in DOMAIN pend
  <2>1. i \in 1..Len(pend) /\ i - 1 \in 1..n /\ i - 1 \in 1..(Len(pend) - 1) /\ (i - 1) + 1 = i
    BY <1>1, <1>3
  <2>. QED  BY <1>1, <2>1 DEF Shifted
<1>4. ASSUME NEW j \in 1..n PROVE j + 1 \in 1..(n + 1) /\ q[j] = pend[j + 1] /\ j + 1 # 1 /\ j + 1 \in DOMAIN pend
  BY <1>1 DEF Shifted
<1>5. ASSUME NEW t \in Tasks
      PROVE  /\ \A i \in 1..(n + 1) : t \in DOMAIN pend[i].w => v[t] = pend[i].w[t]
             /\ (\A i \in 1..(n + 1) : t \notin DOMAIN pend[i].w) => v[t] = mem[t]
  <2>1. ASSUME NEW i \in 1..(n + 1), t \in DOMAIN pend[i].w PROVE v[t] = pend[i].w[t]
    <3>1. CASE i = 1
      <4>1. \A j \in DOMAIN pend : j # 1 => t \notin DOMAIN pend[j].w
        BY Zenon, <1>1, <2>1, <3>1 DEF LineInv, Line, Single
      <4>2. \A j \in 1..n : t \notin DOMAIN q[j].w
        BY Zenon, <1>4, <4>1
      <4>3. v[t] = m[t]
        BY Zenon, <4>2 DEF Shows
      <4>. QED  BY Zenon, <2>1, <3>1, <4>3 DEF Staged
    <3>2. CASE i # 1
      <4>1. i - 1 \in 1..n /\ q[i - 1] = pend[i]
        BY Zenon, <1>3, <3>2
      <4>. QED  BY Zenon, <2>1, <4>1 DEF Shows
    <3>. QED  BY Zenon, <3>1, <3>2
  <2>2. ASSUME \A i \in 1..(n + 1) : t \notin DOMAIN pend[i].w PROVE v[t] = mem[t]
    <3>1. \A j \in 1..n : t \notin DOMAIN q[j].w
      BY Zenon, <1>4, <2>2
    <3>2. v[t] = m[t] /\ 1 \in 1..(n + 1)
      BY <3>1 DEF Shows
    <3>. QED  BY Zenon, <2>2, <3>2 DEF Staged
  <2>. QED  BY Zenon, <2>1, <2>2
<1>6. Shows(v, mem, pend, n + 1)
  BY Zenon, <1>5 DEF Shows
<1>. QED  BY Zenon, <1>2, <1>6 DEF Graph

LEMMA MemAcyclic == ASSUME LineInv, Graph(mem, pend) PROVE Acyclic(mem) /\ Acyclic(Tip)
<1>1. Len(pend) \in Nat
  BY DEF LineInv, TypeOK
<1>2. 0 \in 0..Len(pend) /\ Len(pend) \in 0..Len(pend) /\ 1..0 = {}
  BY <1>1
<1>3. Shows(mem, mem, pend, 0)
  BY Zenon, <1>2 DEF Shows
<1>. QED  BY Zenon, <1>2, <1>3, TipShows DEF Graph

LEMMA GraphEmpty ==
    ASSUME NEW m, Acyclic(m) PROVE Graph(m, <<>>)
<1>. SUFFICES ASSUME NEW v, Shows(v, m, <<>>, 0) PROVE Acyclic(v)
  BY DEF Graph
<1>1. \A t \in Tasks : v[t] = m[t]
  BY DEF Shows
<1>2. \A x, y \in Tasks : Edge(v, x, y) => Edge(m, x, y)
  BY Zenon, <1>1 DEF Edge, Live
<1>. QED  BY Zenon, <1>2, FewerEdgesKeepAcyclic

GraphInv == LineInv /\ Graph(mem, pend)

LEMMA GraphInit == Init => Graph(mem, pend)
<1>. SUFFICES ASSUME Init PROVE Graph(mem, pend)
  BY Zenon
<1>1. pend = <<>> /\ \A x, y \in Tasks : ~Edge(mem, x, y)
  BY Zenon, NewRecords DEF Init, Edge, Live
<1>2. Acyclic(mem)
  <2>1. \A x \in Tasks : After(mem, x) = {}
    BY Zenon, <1>1 DEF After
  <2>2. Closed(mem, {})
    BY Zenon DEF Closed
  <2>3. \A x \in Tasks : x \notin Reach(mem, {})
    BY Zenon, <2>2 DEF Reach
  <2>. QED  BY Zenon, <2>1, <2>3 DEF Acyclic
<1>. QED  BY Zenon, <1>1, <1>2, GraphEmpty

\* `tree' is fixed by the plan, and with it the graph.
LEMMA GraphNext ==
    ASSUME plan' = plan, Graph(mem', pend') PROVE Graph(mem, pend)'
<1>1. tree' = tree
  BY Zenon DEF tree
<1>2. \A v, x, y : Edge(v, x, y)' <=> Edge(v, x, y)
  BY Zenon, <1>1 DEF Edge, Live
<1>3. \A v, R : Closed(v, R)' <=> Closed(v, R)
  BY Zenon, <1>2 DEF Closed
<1>4. \A v, S : Reach(v, S)' = Reach(v, S)
  BY Zenon, <1>3 DEF Reach
<1>5. \A v, x : After(v, x)' = After(v, x)
  BY Zenon, <1>2 DEF After
<1>6. \A v : Acyclic(v)' <=> Acyclic(v)
  BY Zenon, <1>4, <1>5 DEF Acyclic
<1>. QED  BY Zenon, <1>6 DEF Graph, Shows

LEMMA GraphStep ==
    ASSUME GraphInv, [Next]_vars PROVE Graph(mem, pend)'
<1>1. LineInv /\ TypeOK /\ Line(mem, pend) /\ Placed /\ Graph(mem, pend) /\ pend \in Seq(Commits)
  BY Zenon DEF GraphInv, LineInv, TypeOK
<1>2. Idles \/ Decides \/ Waits \/ Publishes \/ Reopens
  BY Zenon, <1>1, StepKinds
<1>3. plan' = plan
  BY Zenon, <1>2 DEF Idles, Decides, Waits, Publishes, Reopens
<1>4. Acyclic(mem) /\ Acyclic(Tip)
  BY Zenon, <1>1, MemAcyclic
<1>5. Graph(mem', pend')
  <2>1. CASE Idles
    BY Zenon, <1>1, <2>1 DEF Idles
  <2>2. ASSUME NEW w \in Writings, NEW reads, Lawful(w, reads), Commit(w, reads), mem' = mem,
               \A v : Extends(v, w) => Acyclic(v)
        PROVE  Graph(mem', pend')
    <3>1. pend' = pend \/ Appended(pend, [w |-> w, keys |-> Writes(w)], pend')
      BY Zenon, <1>1, <2>2, CommitKeepsLine
    <3>2. CASE pend' = pend
      BY Zenon, <1>1, <2>2, <3>2
    <3>3. CASE Appended(pend, [w |-> w, keys |-> Writes(w)], pend')
      <4>1. Graph(mem, pend')
        BY Zenon, <1>1, <2>2, <3>3, GraphAppended
      <4>. QED  BY Zenon, <2>2, <4>1
    <3>. QED  BY Zenon, <3>1, <3>2, <3>3
  <2>3. CASE Decides
    <3>1. PICK w \in Writings : \E reads : Lawful(w, reads) /\ Calm(w) /\ Commit(w, reads)
      BY Zenon, <2>3 DEF Decides, Decision
    <3>2. PICK reads : Lawful(w, reads) /\ Calm(w) /\ Commit(w, reads)
      BY Zenon, <3>1
    <3>3. \A v : Extends(v, w) => Acyclic(v)
      BY Zenon, <1>1, <1>4, <3>2, CalmAcyclic
    <3>4. mem' = mem
      BY Zenon, <2>3 DEF Decides
    <3>. QED  BY Zenon, <2>2, <3>2, <3>3, <3>4
  <2>4. CASE Waits
    <3>1. PICK t \in Tasks : \E created, on, w, reads : Wait(t, created, on, w, reads)
      BY Zenon, <2>4 DEF Waits, WaitDecision
    <3>2. PICK created, on, w, reads : Wait(t, created, on, w, reads)
      BY Zenon, <3>1
    <3>3. \A v : Extends(v, w) => Acyclic(v)
      BY Zenon, <1>1, <1>4, <3>2, WaitAcyclic
    <3>4. mem' = mem
      BY Zenon, <2>4 DEF Waits
    <3>5. w \in Writings /\ Lawful(w, reads) /\ Commit(w, reads)
      BY Zenon, <3>2 DEF Wait
    <3>. QED  BY Zenon, <2>2, <3>3, <3>4, <3>5
  <2>5. CASE Publishes
    <3>1. Shifted(pend, pend') /\ Head(pend) = pend[1]
      BY Zenon, <1>1, <2>5, ShiftedThere DEF Publishes
    <3>2. mem' = Staged(pend[1].w)
      BY Zenon, <2>5, <3>1 DEF Publishes
    <3>. QED  BY Zenon, <1>1, <3>1, <3>2, GraphPublished
  <2>6. CASE Reopens
    <3>1. \A t \in Tasks : \/ mem'[t] = mem[t]
                           \/ mem[t].st = "running" /\ mem'[t].st = "pending"
      BY Zenon, <1>1, <2>6, LineOpen
    <3>2. \A x, y \in Tasks : Edge(mem', x, y) => Edge(mem, x, y)
      BY Zenon, <3>1 DEF Edge, Live
    <3>3. Acyclic(mem')
      BY Zenon, <1>4, <3>2, FewerEdgesKeepAcyclic
    <3>4. Graph(mem', <<>>) /\ pend' = <<>>
      BY Zenon, <2>6, <3>3, GraphEmpty DEF Reopens
    <3>. QED  BY Zenon, <3>4
  <2>. QED  BY Zenon, <1>2, <2>1, <2>3, <2>4, <2>5, <2>6
<1>. QED  BY Zenon, <1>3, <1>5, GraphNext
-----------------------------------------------------------------------------
(* From every initial state *)

INSTANCE WellFoundedInduction

LEMMA Latest ==
    ASSUME NEW S \in SUBSET Tasks, S # {}
    PROVE  \E z \in S : \A x \in S : x <= z
<1>. DEFINE R == OpToRel(<, Nat)
            T == {MaxTasks - x : x \in S}
<1>1. T \subseteq Nat /\ T # {}
  <2>1. \A x \in S : MaxTasks - x \in Nat
    BY BoundsAssumption DEF Tasks
  <2>2. PICK x : x \in S
    BY Zenon
  <2>3. MaxTasks - x \in T
    BY Zenon, <2>2
  <2>. QED  BY Zenon, <2>1, <2>3
<1>2. IsWellFoundedOn(R, Nat)
  BY Zenon, NatLessThanWellFounded
<1>3. \A i, j \in Nat : i < j => <<i, j>> \in R
  BY Zenon DEF OpToRel
<1>. HIDE DEF R
<1>4. PICK k \in T : \A j \in T : ~(<<j, k>> \in R)
  BY Zenon, <1>1, <1>2, WFMin
<1>5. PICK z \in S : k = MaxTasks - z
  BY Zenon, <1>4
<1>6. ASSUME NEW x \in S PROVE x <= z
  <2>1. MaxTasks - x \in Nat /\ MaxTasks - z \in Nat /\ x \in Nat /\ z \in Nat /\ MaxTasks \in Nat
    BY BoundsAssumption DEF Tasks
  <2>2. ~(MaxTasks - x < MaxTasks - z)
    BY Zenon, <1>3, <1>4, <1>5, <2>1
  <2>. QED  BY <2>1, <2>2
<1>. QED  BY Zenon, <1>6

LEMMA OrderedTasks == Ordered
BY Zenon, Latest DEF Ordered

LEMMA LineInit == Init => LineInv
<1>. SUFFICES ASSUME Init PROVE LineInv
  BY Zenon
<1>1. pend = <<>> /\ \A n \in DOMAIN pend : FALSE
  BY DEF Init
<1>2. mem \in [Tasks -> Records] /\ \A t \in Tasks : mem[t] = NoTask /\ mem[t].st = "none"
  BY Zenon, NewRecords DEF Init
<1>3. TypeOK
  BY <1>1, <1>2 DEF TypeOK, Init
<1>4. Line(mem, pend)
  BY Zenon, <1>1, <1>2 DEF Line, Single, Follow, Rooted, Joined, Emptied, Named
<1>5. Placed
  BY Zenon, OrderedTasks, PlanPlaced DEF Init
<1>. QED  BY Zenon, <1>3, <1>4, <1>5 DEF LineInv

LEMMA LineAlways == Spec => []LineInv
<1>1. LineInv /\ [Next]_vars => LineInv'
  BY Zenon, LineStep
<1>. QED  BY <1>1, LineInit, PTL DEF Spec

LEMMA PromiseStarts == Init => Promise!Init
<1>. SUFFICES ASSUME Init PROVE Promise!Init
  BY Zenon
<1>1. Placed
  BY Zenon, OrderedTasks, PlanPlaced DEF Init
<1>2. \A t \in Tasks : tree[t].over \in SUBSET Tasks
  BY Zenon, <1>1 DEF Placed
<1>3. \A t \in Tasks : mem[t].st = "none" /\ mem[t].out = "none"
  BY Zenon, NewRecords DEF Init
<1>. QED  BY Zenon, <1>2, <1>3 DEF Promise!Init

\* The published records of every behaviour of the scheduler implement TaskPromise:
\* no interleaving of decisions, publications, crashes and restarts gives a task two
\* outcomes or ends it before the ordinary work below it (#decide, #observe).
THEOREM TasksKeepTheirPromise == Spec => KeepsTaskPromise
<1>1. Init => Promise!Init
  BY Zenon, PromiseStarts
<1>2. LineInv /\ [Next]_vars => [Promise!Commit]_(Promise!vars)
  <2>. SUFFICES ASSUME LineInv, [Next]_vars PROVE [Promise!Commit]_(Promise!vars)
    BY Zenon
  <2>1. TypeOK /\ Line(mem, pend) /\ Placed
    BY Zenon DEF LineInv, TypeOK
  <2>2. Idles \/ Decides \/ Waits \/ Publishes \/ Reopens
    BY Zenon, <2>1, StepKinds
  <2>3. CASE Idles \/ Decides \/ Waits
    <3>1. plan' = plan /\ mem' = mem
      BY Zenon, <2>3 DEF Idles, Decides, Waits
    <3>. QED  BY Zenon, <3>1, PromiseSame
  <2>4. CASE Publishes
    BY Zenon, <2>1, <2>4, PromisePublished
  <2>5. CASE Reopens
    <3>1. plan' = plan
      BY Zenon, <2>5 DEF Reopens
    <3>2. \A t \in Tasks : Life(mem'[t]) = Life(mem[t]) /\ mem'[t].out = mem[t].out
      BY Zenon, <2>1, <2>5, LineOpen DEF Life
    <3>. QED  BY Zenon, <3>1, <3>2, PromiseSame
  <2>. QED  BY Zenon, <2>2, <2>3, <2>4, <2>5
<1>. QED  BY <1>1, <1>2, LineAlways, PTL DEF Spec, KeepsTaskPromise, Promise!Spec

\* No task that an earlier Harness left behind with abandonOnRestart, and no ordinary
\* work below a live one, runs a phase again, however many restarts there are (#abandoned).
THEOREM LeftBehindNeverRuns == Spec => []AbandonedNeverRuns
<1>1. Init => AbandonedNeverRuns
  BY Zenon DEF Init, AbandonedNeverRuns
<1>2. LineInv /\ LostInv /\ [Next]_vars => LostInv'
  BY Zenon, LostStep
<1>3. LineInv /\ LostInv /\ AbandonedNeverRuns /\ [Next]_vars => AbandonedNeverRuns'
  BY Zenon, AbandonedStep
<1>. QED  BY <1>1, <1>2, <1>3, LostInit, LineAlways, PTL DEF Spec

\* An abort handler starts only when no ordinary work below its task is live,
\* published or not: what decides it, memory, lacks the commits still on the line
\* (#planReservation, with the keys it notes).
THEOREM AbortsRunBottomUp == Spec => AbortBottomUp
<1>1. LineInv /\ [Next]_vars =>
         [\A t \in Tasks : inv[t] # "abort" /\ inv'[t] = "abort" => ownedLive(Tip, t) = {}]_vars
  <2>. SUFFICES ASSUME LineInv, [Next]_vars, NEW t \in Tasks, inv[t] # "abort", inv'[t] = "abort"
                PROVE  ownedLive(Tip, t) = {}
    BY Zenon
  <2>1. TypeOK /\ Placed
    BY Zenon DEF LineInv, TypeOK
  <2>2. CASE \E stopped : open(stopped)
    <3>1. inv'[t] = "none"
      BY Zenon, <2>2 DEF open
    <3>. QED  BY Zenon, <3>1
  <2>3. CASE reserveAbandoned
    BY Zenon, <2>3 DEF reserveAbandoned
  <2>4. CASE Carries
    <3>1. reserve \/ stepContinue(t)
      BY Zenon, <2>4 DEF Carries, Moves
    <3>2. stepContinue(t) => inv'[t] = "phase"
      BY Zenon, <2>1 DEF stepContinue, TypeOK
    <3>. QED  BY Zenon, <2>1, <3>1, <3>2, ReservedAborts
  <2>. QED  BY Zenon, <2>1, <2>2, <2>3, <2>4, StepMoves
<1>. QED  BY <1>1, LineAlways, PTL DEF Spec, AbortBottomUp

\* No task waits for one that cannot settle before it does, in any behaviour: not
\* in memory, and not in what any number of commits on the line will make of it.
\* Each wait is checked against memory only (#validateWait), and a crash may lose any
\* part of the line.
THEOREM WaitsNeverClose == Spec => []NoWaitCycle
<1>1. GraphInv /\ [Next]_vars => GraphInv'
  BY Zenon, GraphStep, LineStep DEF GraphInv
<1>2. GraphInv => NoWaitCycle
  <2>. SUFFICES ASSUME GraphInv PROVE NoWaitCycle
    BY Zenon
  <2>1. Acyclic(Tip)
    BY Zenon, MemAcyclic DEF GraphInv
  <2>2. ASSUME NEW t \in Tasks PROVE Tip[t].on \subseteq Tasks
    <3>1. CASE Writer(pend, t)
      <4>1. PICK n \in DOMAIN pend : t \in DOMAIN pend[n].w
        BY Zenon, <3>1 DEF Writer
      <4>2. pend[n].w \in Writings
        BY Zenon, CommitsAre DEF GraphInv, LineInv
      <4>3. pend[n].w[t] \in Records
        BY Zenon, <4>1, <4>2, Writing
      <4>. QED  BY Zenon, <4>1, <4>3, TipIs, RecordFields DEF GraphInv
    <3>2. CASE ~Writer(pend, t)
      BY Zenon, <3>2, TipIs, RecordFields DEF GraphInv, LineInv, TypeOK
    <3>. QED  BY Zenon, <3>1, <3>2
  <2>. QED  BY Zenon, <2>1, <2>2, AcyclicMeansNoWaitCycle
<1>3. Init => GraphInv
  BY Zenon, GraphInit, LineInit DEF GraphInv
<1>. QED  BY <1>1, <1>2, <1>3, PTL DEF Spec
=============================================================================
