-------------------------- MODULE AutomationProofs --------------------------
(***************************************************************************)
(* Proofs, for any number of tasks, any configurations and any max_fails,   *)
(* of the types of Automation and of its three properties.  The invariant   *)
(* says whose the tasks are: one that cron or health checks have spawned is *)
(* in start_app's hands or in the row, or was detached; what a task that is *)
(* about to restart the row has seen; and that a row that was stopped has   *)
(* no watcher, and none on its way, unless a launch was racing the stop.    *)
(***************************************************************************)
EXTENDS Automation, TLAPS

AgentState == [kind : TaskKinds \cup {"none"}, pc : AgentPcs, fails : 0..(MaxFails - 1)]

Types ==
  /\ row \in {"none", "down", "waiting", "online", "stopping"}
  /\ config \subseteq Kinds
  /\ handle \in [Registered -> Agents \cup {NoAgent}]
  /\ armed \in Agents \cup {NoAgent}
  /\ agent \in [Agents -> AgentState]
  /\ user \in [pc : UserPcs, task : Agents \cup {NoAgent}]
  /\ dropping \in BOOLEAN /\ crossed \in BOOLEAN /\ stopped \in BOOLEAN /\ raced \in BOOLEAN
  /\ earned \subseteq Agents /\ own \subseteq Agents /\ detached \subseteq Agents

\* start_app stores each handle once, in a row that has none; what it is about
\* to store runs as long as the row is there.
Storing ==
  /\ user.pc \in {"cronStore", "healthStore"} =>
       /\ user.task \in Agents
       /\ row # "none" =>
            agent[user.task].kind = IF user.pc = "cronStore" THEN "cron" ELSE "health"
  /\ user.pc \notin {"cronStore", "healthStore"} => user.task = NoAgent
  /\ user.pc \in {"cron", "cronStore"} => handle["cron"] = NoAgent
  /\ user.pc \in {"cron", "cronStore", "health", "healthStore"} => handle["health"] = NoAgent

\* A handle in the row is of a task that runs.
Handles ==
  \A k \in Registered : handle[k] # NoAgent => agent[handle[k]].kind = k /\ row # "none"

\* A watcher wakes the task that was spawned for it, which may have ended.
Wakes == armed # NoAgent => agent[armed].kind \in {"watch", "none"}

\* A task spawned for a row is that row's, as long as nobody lost it.
Owned ==
  \A a \in Agents : agent[a].kind \in Registered =>
    \/ a \in detached
    \/ row # "none" /\ a \in own /\ (user.task = a \/ handle[agent[a].kind] = a)

\* A delete under way is of the row that has gone, or a new row has crossed it.
Dropping == dropping /\ row # "none" => crossed

\* A launch that nobody aborts has yet to look after the watcher.
Pends(a) == agent[a].pc \in {"launched", "arm"} /\ agent[a].kind # "aborted"

\* What is up, or about to be, is watched, or about to be.
Watched ==
  "watch" \in config /\ row \in {"online", "waiting"} /\ ~crossed =>
    \/ \E a \in Agents : Pends(a)
    \/ armed # NoAgent /\ agent[armed].kind = "watch"

\* What was stopped has no watcher, and gets none, but for a launch that raced the stop.
Quiet ==
  (stopped \/ row = "stopping") /\ ~raced => armed = NoAgent /\ ~Launching

StoppedIsDown == stopped => row = "down"

\* What a task that restarts the row, or is about to, has seen.
Verdict(a) ==
  /\ agent[a].kind = "health" /\ agent[a].pc \in {"check", "restart"} => a \in earned
  /\ agent[a].kind = "memory" /\ agent[a].pc = "restart" => a \in earned
  /\ agent[a].kind = "watch" /\ agent[a].pc \in {"debounce", "look", "restart"} =>
       a \in earned \/ raced

Verdicts == \A a \in Agents : Verdict(a)

\* Only cron and watchers look at the table before they restart.
Placed == \A a \in Agents : agent[a].pc = "look" => agent[a].kind \notin {"health", "memory"}

\* A slot without a task is free.
Unspawned == \A a \in Agents : agent[a].kind = "none" => agent[a] = Free

IInv == /\ Types /\ Storing /\ Handles /\ Wakes /\ Owned /\ Dropping /\ Watched /\ Quiet
        /\ StoppedIsDown /\ Verdicts /\ Placed /\ Unspawned

-----------------------------------------------------------------------------
(* What the histories record.                                              *)

LEMMA Spawned ==
  /\ Free \in AgentState /\ Free.kind = "none" /\ Free.pc = "none"
  /\ \A kind \in TaskKinds, pc \in AgentPcs :
       /\ Fresh(kind, pc) \in AgentState
       /\ Fresh(kind, pc).kind = kind /\ Fresh(kind, pc).pc = pc /\ Fresh(kind, pc) # Free
  BY AutomationAssumption DEF Free, Fresh, AgentState, AgentPcs, TaskKinds, Kinds, Registered

LEMMA KindNames ==
  /\ "cron" \in Registered /\ "health" \in Registered /\ "watch" \notin Registered
  /\ "memory" \notin Registered /\ "none" \notin Registered /\ "aborted" \notin Registered
  /\ "user" \notin Registered /\ Registered \subseteq TaskKinds /\ "watch" \in TaskKinds
  /\ "memory" \in TaskKinds /\ "user" \in TaskKinds /\ "aborted" \in TaskKinds
  /\ \A k \in Registered : k = "cron" \/ k = "health"
  BY DEF Registered, Kinds, TaskKinds

LEMMA Histories ==
  ASSUME Types, Observe
  PROVE  /\ crossed' \in BOOLEAN /\ stopped' \in BOOLEAN /\ raced' \in BOOLEAN
         /\ earned' \subseteq Agents /\ own' \subseteq Agents /\ detached' \subseteq Agents
         /\ crossed /\ row' # "none" => crossed'
         /\ stopped' => row' = "down"
         /\ raced /\ Watching' => raced'
  BY DEF Types, Observe

\* Whose a task is, it stays.
LEMMA Owners ==
  ASSUME Observe, NEW a \in Agents, agent'[a].kind \in Registered
  PROVE  /\ a \in own /\ row' # "none" => a \in own'
         /\ agent[a] = Free /\ row' # "none" => a \in own'
         /\ a \in detached => a \in detached'
         /\ user.task = a /\ row' = "none" => a \in detached'
  BY DEF Observe, Alive

\* A verdict that is earned stays so on the way to the restart.
LEMMA Earnings ==
  ASSUME Observe, NEW a \in Agents, agent'[a].kind \in {"health", "memory", "watch"},
         agent'[a].pc \in {"check", "debounce", "look", "restart"},
         IF agent[a].pc \in {"check", "debounce", "look", "restart"} THEN a \in earned ELSE Earns(a)
  PROVE  a \in earned'
  BY DEF Observe, Deciding, Kinds, Registered

\* A step keeps what was stopped quiet that arms a watcher only for a launch, launches
\* nothing that stays down, and disarms what it stops.
LEMMA QuietKeeps ==
  ASSUME Types, Quiet, StoppedIsDown, Observe,
         armed' \in {armed, NoAgent} \/ Launching,
         Launching' => Launching \/ row' # "down",
         row' = "stopping" => row = "stopping" \/ armed' = NoAgent
  PROVE  Quiet' /\ StoppedIsDown'
<1>1. StoppedIsDown'
  BY Histories DEF StoppedIsDown
<1>2. Quiet'
  <2> SUFFICES ASSUME stopped' \/ row' = "stopping", ~raced'
               PROVE  armed' = NoAgent /\ ~Launching'
    BY DEF Quiet
  <2>1. Launching' => Watching'
    BY DEF Watching
  <2>2. Launching' /\ (Stop \/ row' = "stopping") => raced'
    BY <2>1 DEF Observe
  <2>3. CASE raced
    BY <2>3, Histories DEF Watching
  <2>4. CASE ~raced /\ row' = "stopping"
    BY <2>2, <2>4 DEF Quiet
  <2>5. CASE ~raced /\ stopped' /\ row' # "stopping"
    <3>1. row' = "down" /\ (stopped \/ Stop \/ Stopped)
      BY <2>5 DEF Observe
    <3>2. CASE Stop
      BY <2>2, <3>2 DEF Stop
    <3>3. CASE stopped \/ Stopped
      <4>1. armed = NoAgent /\ ~Launching
        BY <2>5, <3>3 DEF Quiet, Stopped
      <4> QED
        BY <3>1, <4>1
    <3> QED
      BY <3>1, <3>2, <3>3
  <2> QED
    BY <2>3, <2>4, <2>5
<1> QED
  BY <1>1, <1>2

\* What a task has seen, it knows until it restarts the row.
LEMMA VerdictKeeps ==
  ASSUME IInv, Observe, NEW a \in Agents,
         \/ agent'[a] = agent[a]
         \/ agent'[a].kind \notin {"health", "memory", "watch"}
         \/ agent'[a].pc \notin {"check", "debounce", "look", "restart"}
         \/ agent[a].pc \notin {"check", "debounce", "look", "restart"} /\ Earns(a)
         \/ agent[a].pc = "sleep" /\ agent'[a].kind = "watch" /\ armed = a
         \/ /\ agent'[a].kind = agent[a].kind
            /\ \/ agent[a].kind = "health" /\ agent[a].pc = "check"
               \/ agent[a].kind = "watch" /\ agent[a].pc \in {"debounce", "look"}
  PROVE  Verdict(a)'
<1>1. agent'[a].kind = "watch" /\ raced => raced'
  BY Histories DEF IInv, Watching
<1>2. CASE agent[a].pc = "sleep" /\ agent'[a].kind = "watch" /\ armed = a /\ ~Earns(a)
  <2>1. stopped
    BY <1>2, Spawned, AutomationAssumption DEF Earns, IInv, Wakes, Unspawned
  <2> QED
    BY <1>1, <1>2, <2>1, AutomationAssumption DEF Verdict, IInv, Quiet
<1>3. CASE agent[a].pc \notin {"check", "debounce", "look", "restart"} /\ Earns(a)
  BY <1>3, Earnings DEF Verdict
<1>4. CASE agent'[a].kind \notin {"health", "memory", "watch"}
           \/ agent'[a].pc \notin {"check", "debounce", "look", "restart"}
  BY <1>4 DEF Verdict
<1>5. CASE agent'[a].kind = agent[a].kind /\ Verdict(a)
           /\ (agent'[a] = agent[a]
               \/ (agent[a].kind = "health" /\ agent[a].pc = "check")
               \/ (agent[a].kind = "watch" /\ agent[a].pc \in {"debounce", "look"}))
  BY <1>1, <1>5, Earnings DEF Verdict
<1> QED
  BY <1>2, <1>3, <1>4, <1>5 DEF IInv, Verdicts

-----------------------------------------------------------------------------
(* Tasks.                                                                  *)

\* The tasks of cron and health checks, whether there is a row and what start_app
\* is about to store stay as they are.
LEMMA TasksStay ==
  ASSUME IInv, Observe, agent' \in [Agents -> AgentState], UNCHANGED handle,
         \A b \in Agents : /\ agent[b].kind \in Registered =>
                                row = "none" \/ agent'[b].kind = agent[b].kind
                           /\ agent'[b].kind \in Registered => agent'[b].kind = agent[b].kind,
         row = "none" <=> row' = "none",
         user' = user \/ (user.pc = "launch" /\ user' = [user EXCEPT !.pc = "idle"])
  PROVE  Storing' /\ Handles' /\ Owned'
<1>1. user'.task = user.task /\ (user'.pc = user.pc \/ (user.pc = "launch" /\ user'.pc = "idle"))
  BY DEF IInv, Types
<1>2. Storing'
  BY <1>1, KindNames DEF IInv, Storing
<1>3. Handles'
  BY DEF IInv, Types, Handles
<1>4. Owned'
  <2> SUFFICES ASSUME NEW b \in Agents, agent'[b].kind \in Registered
               PROVE  \/ b \in detached'
                      \/ row' # "none" /\ b \in own' /\ (user'.task = b \/ handle'[agent'[b].kind] = b)
    BY DEF Owned
  <2>1. agent'[b].kind = agent[b].kind
    OBVIOUS
  <2> QED
    BY <1>1, <2>1, Owners DEF IInv, Owned
<1> QED
  BY <1>2, <1>3, <1>4

\* A task moves on, ends or begins, and may bring the row up.
LEMMA TaskMoves ==
  ASSUME IInv, Observe, NEW a \in Agents, UNCHANGED <<config, handle, armed, dropping>>,
         row' = row \/ (row \in {"down", "waiting"} /\ row' = "online"),
         user' = user \/ (user.pc = "launch" /\ user' = [user EXCEPT !.pc = "idle"]),
         agent' \in [Agents -> AgentState], \A b \in Agents \ {a} : agent'[b] = agent[b],
         \/ agent'[a].kind = agent[a].kind
         \/ /\ agent'[a].kind \notin Registered
            /\ row = "none" \/ (agent[a].kind \notin Registered /\ armed # a)
            /\ armed = a => agent'[a].kind = "none",
         agent'[a].kind = "none" => agent'[a] = Free,
         agent'[a].pc = "look" => agent'[a].kind \notin {"health", "memory"},
         Verdict(a)',
         Pends(a) => Pends(a)' \/ "watch" \notin config \/ row \in {"none", "down"},
         agent'[a].pc \in {"launched", "arm"} =>
           agent[a].pc \in {"launched", "arm"} \/ row' # "down",
         row = "down" /\ row' = "online" => Pends(a)' \/ crossed'
  PROVE  IInv'
<1>1. Types'
  <2>1. user' \in [pc : UserPcs, task : Agents \cup {NoAgent}]
    BY DEF IInv, Types, UserPcs
  <2> QED
    BY <2>1, Histories DEF IInv, Types
<1>2. Storing' /\ Handles' /\ Owned'
  <2>1. \A b \in Agents : /\ agent[b].kind \in Registered =>
                               row = "none" \/ agent'[b].kind = agent[b].kind
                          /\ agent'[b].kind \in Registered => agent'[b].kind = agent[b].kind
    OBVIOUS
  <2>2. row = "none" <=> row' = "none"
    OBVIOUS
  <2> QED
    BY <2>1, <2>2, TasksStay
<1>3. Wakes' /\ Placed' /\ Unspawned'
  BY KindNames DEF IInv, Types, Wakes, Placed, Unspawned
<1>4. Dropping'
  BY Histories DEF IInv, Dropping
<1>5. Watched'
  <2> SUFFICES ASSUME "watch" \in config, row' \in {"online", "waiting"}, ~crossed'
               PROVE  \/ \E b \in Agents : Pends(b)'
                      \/ armed # NoAgent /\ agent'[armed].kind = "watch"
    BY DEF Watched, Pends
  <2>1. ~crossed
    BY Histories DEF IInv
  <2>2. CASE row = "down"
    BY <2>2
  <2>3. CASE row # "down"
    <3>1. \/ \E b \in Agents : Pends(b)
          \/ armed # NoAgent /\ agent[armed].kind = "watch"
      BY <2>1, <2>3 DEF IInv, Watched
    <3>2. ASSUME NEW b \in Agents, Pends(b)
          PROVE  Pends(b)'
      BY <2>3, <3>2 DEF Pends
    <3>3. CASE armed # NoAgent /\ agent[armed].kind = "watch"
      BY <3>3 DEF IInv, Types
    <3> QED
      BY <3>1, <3>2, <3>3
  <2> QED
    BY <2>2, <2>3
<1>6. Quiet' /\ StoppedIsDown'
  <2>1. Launching' => Launching \/ row' # "down"
    BY DEF Launching
  <2>2. row' = "stopping" => row = "stopping"
    OBVIOUS
  <2> QED
    BY <2>1, <2>2, QuietKeeps DEF IInv
<1>7. Verdicts'
  BY VerdictKeeps DEF Verdicts
<1> QED
  BY <1>1, <1>2, <1>3, <1>4, <1>5, <1>6, <1>7 DEF IInv

LEMMA WatcherKeeps ==
  ASSUME IInv, Observe, NEW a \in Agents, FileChange(a) \/ Debounced(a) \/ Closed(a)
  PROVE  IInv'
<1>1. /\ UNCHANGED <<row, config, handle, armed, user, dropping>> /\ agent[a].kind = "watch"
      /\ agent[a].pc \in {"sleep", "debounce"}
  BY DEF FileChange, Debounced, Closed, At
<1>2. agent \in [Agents -> AgentState]
  BY DEF IInv, Types
<1>3. ASSUME NEW pc \in {"debounce", "look"}, agent' = [agent EXCEPT ![a].pc = pc],
             \/ agent[a].pc = "sleep" /\ pc = "debounce" /\ armed = a
             \/ agent[a].pc = "debounce"
      PROVE  IInv'
  <2>1. /\ agent' \in [Agents -> AgentState] /\ agent'[a].kind = agent[a].kind
        /\ \A b \in Agents \ {a} : agent'[b] = agent[b]
    BY <1>2, <1>3 DEF AgentState, AgentPcs
  <2>2. agent'[a].pc = pc
    BY <1>2, <1>3 DEF AgentState
  <2>3. Verdict(a)'
    BY <1>1, <1>3, <2>1, VerdictKeeps
  <2> QED
    BY <1>1, <1>3, <2>1, <2>2, <2>3, TaskMoves DEF Pends
<1>4. CASE Closed(a)
  <2>1. agent' = [agent EXCEPT ![a] = Free] /\ armed # a
    BY <1>4 DEF Closed, Woken
  <2>2. /\ agent' \in [Agents -> AgentState] /\ agent'[a] = Free
        /\ \A b \in Agents \ {a} : agent'[b] = agent[b]
    BY <1>2, <2>1, Spawned
  <2>3. Verdict(a)'
    BY <2>2, Spawned DEF Verdict
  <2> QED
    BY <1>1, <2>1, <2>2, <2>3, Spawned, KindNames, TaskMoves DEF Pends
<1> QED
  BY <1>3, <1>4 DEF FileChange, Debounced, Goes, Woken, At

LEMMA LookKeeps ==
  ASSUME IInv, Observe, NEW a \in Agents, CronDue(a) \/ Look(a)
  PROVE  IInv'
<1>1. UNCHANGED <<row, config, handle, armed, user, dropping>>
  BY DEF CronDue, Look
<1>2. agent \in [Agents -> AgentState]
  BY DEF IInv, Types
<1>3. CASE Look(a) /\ row = "none"
  <2>1. agent' = [agent EXCEPT ![a] = Free]
    BY <1>3 DEF Look
  <2>2. /\ agent' \in [Agents -> AgentState] /\ agent'[a] = Free
        /\ \A b \in Agents \ {a} : agent'[b] = agent[b]
    BY <1>2, <2>1, Spawned
  <2>3. Verdict(a)'
    BY <2>2, Spawned DEF Verdict
  <2> QED
    BY <1>1, <1>3, <2>2, <2>3, Spawned, KindNames, TaskMoves
<1>4. CASE CronDue(a)
  <2>1. agent' = [agent EXCEPT ![a].pc = "look"] /\ agent[a].kind = "cron" /\ agent[a].pc = "sleep"
    BY <1>4 DEF CronDue, Goes, At
  <2>2. /\ agent' \in [Agents -> AgentState] /\ agent'[a].kind = "cron" /\ agent'[a].pc = "look"
        /\ \A b \in Agents \ {a} : agent'[b] = agent[b]
    BY <1>2, <2>1 DEF AgentState, AgentPcs
  <2>3. Verdict(a)'
    BY <2>2 DEF Verdict
  <2> QED
    BY <1>1, <2>1, <2>2, <2>3, TaskMoves DEF Pends
<1>5. CASE Look(a) /\ row # "none"
  <2>1. agent' = [agent EXCEPT ![a].pc = "restart"] /\ agent[a].pc = "look"
    BY <1>5 DEF Look, Goes
  <2>2. /\ agent' \in [Agents -> AgentState] /\ agent'[a].kind = agent[a].kind
        /\ agent'[a].pc = "restart" /\ \A b \in Agents \ {a} : agent'[b] = agent[b]
    BY <1>2, <2>1 DEF AgentState, AgentPcs
  <2>3. agent[a].kind \notin {"none", "health", "memory"}
    BY <2>1, Spawned DEF IInv, Unspawned, Placed
  <2>4. Verdict(a)'
    BY <2>1, <2>2, <2>3, VerdictKeeps
  <2> QED
    BY <1>1, <2>1, <2>2, <2>3, <2>4, TaskMoves DEF Pends
<1> QED
  BY <1>3, <1>4, <1>5

LEMMA CheckKeeps ==
  ASSUME IInv, Observe, NEW a \in Agents, Check(a) \/ \E healthy \in BOOLEAN : Checked(a, healthy)
  PROVE  IInv'
<1>1. UNCHANGED <<row, config, handle, armed, user, dropping>> /\ agent[a].kind = "health"
  BY DEF Check, Checked, At
<1>0. agent[a].pc \in {"sleep", "check"}
  BY DEF Check, Checked, At
<1>2. agent \in [Agents -> AgentState] /\ agent[a].fails \in 0..(MaxFails - 1)
  BY DEF IInv, Types, AgentState
<1>3. armed # a
  BY <1>1, AutomationAssumption DEF IInv, Wakes
<1>4. \/ row = "none" /\ agent' = [agent EXCEPT ![a] = Free]
      \/ \E o \in AgentState :
           /\ agent' = [agent EXCEPT ![a] = o] /\ o.kind = "health"
           /\ \/ o.pc = "sleep"
              \/ o.pc = "check" /\ row = "online" /\ agent[a].pc = "sleep"
              \/ o.pc = "restart" /\ agent[a].pc = "check"
  <2>1. CASE Check(a)
    <3>1. CASE row = "none"
      BY <2>1, <3>1 DEF Check
    <3>2. CASE row \in {"down", "waiting", "stopping"}
      <4>1. agent' = [agent EXCEPT ![a] = [agent[a] EXCEPT !.fails = 0]] /\ agent[a].pc = "sleep"
        BY <2>1, <3>2 DEF Check, At
      <4>2. [agent[a] EXCEPT !.fails = 0] \in AgentState
        BY <1>2, AutomationAssumption DEF AgentState
      <4> QED
        BY <1>1, <1>2, <4>1, <4>2 DEF AgentState
    <3>3. CASE row = "online"
      <4>1. agent' = [agent EXCEPT ![a] = [agent[a] EXCEPT !.pc = "check"]] /\ agent[a].pc = "sleep"
        BY <2>1, <3>3 DEF Check, At
      <4>2. [agent[a] EXCEPT !.pc = "check"] \in AgentState
        BY <1>2 DEF AgentState, AgentPcs
      <4> QED
        BY <1>1, <1>2, <3>3, <4>1, <4>2 DEF AgentState
    <3> QED
      BY <3>1, <3>2, <3>3 DEF IInv, Types
  <2>2. CASE \E healthy \in BOOLEAN : Checked(a, healthy)
    <3>1. PICK healthy \in BOOLEAN : Checked(a, healthy)
      BY <2>2
    <3>2. CASE healthy \/ agent[a].fails + 1 >= MaxFails
      <4>1. PICK pc \in {"sleep", "restart"} : agent' = [agent EXCEPT ![a] = Fresh("health", pc)]
        BY <1>2, <3>1, <3>2 DEF Checked
      <4>2. /\ Fresh("health", pc) \in AgentState
            /\ Fresh("health", pc).kind = "health" /\ Fresh("health", pc).pc = pc
        BY Spawned, KindNames DEF AgentPcs
      <4> QED
        BY <3>1, <4>1, <4>2 DEF Checked, At
    <3>3. CASE ~(healthy \/ agent[a].fails + 1 >= MaxFails)
      <4> DEFINE o == [agent[a] EXCEPT !.pc = "sleep", !.fails = agent[a].fails + 1]
      <4>1. agent' = [agent EXCEPT ![a] = o]
        <5>1. agent[a].kind = "health" /\ agent[a] \in AgentState /\ ~healthy
              /\ ~(agent[a].fails + 1 >= MaxFails)
          BY <1>1, <1>2, <3>3
        <5>2. agent' = [agent EXCEPT ![a] = [agent[a] EXCEPT !.pc = "sleep", !.fails = @ + 1]]
          BY <3>1, <5>1 DEF Checked
        <5>3. [agent[a] EXCEPT !.pc = "sleep", !.fails = @ + 1] = o
          BY <5>1 DEF AgentState
        <5> QED
          BY <5>2, <5>3
      <4>2. o \in AgentState /\ o.kind = "health" /\ o.pc = "sleep"
        <5>1. agent[a].fails + 1 \in 0..(MaxFails - 1)
          BY <1>2, <3>3, AutomationAssumption
        <5> QED
          BY <1>1, <1>2, <5>1 DEF AgentState, AgentPcs
      <4> HIDE DEF o
      <4> QED
        BY <4>1, <4>2
    <3> QED
      BY <3>2, <3>3
  <2> QED
    BY <2>1, <2>2
<1>5. CASE row = "none" /\ agent' = [agent EXCEPT ![a] = Free]
  <2>1. /\ agent' \in [Agents -> AgentState] /\ agent'[a] = Free
        /\ \A b \in Agents \ {a} : agent'[b] = agent[b]
    BY <1>2, <1>5, Spawned
  <2>2. Verdict(a)'
    BY <2>1, Spawned DEF Verdict
  <2> QED
    BY <1>1, <1>3, <1>5, <2>1, <2>2, Spawned, KindNames, TaskMoves
<1>6. ASSUME NEW o \in AgentState, agent' = [agent EXCEPT ![a] = o], o.kind = "health",
             \/ o.pc = "sleep"
             \/ o.pc = "check" /\ row = "online" /\ agent[a].pc = "sleep"
             \/ o.pc = "restart" /\ agent[a].pc = "check"
      PROVE  IInv'
  <2>1. /\ agent' \in [Agents -> AgentState] /\ agent'[a] = o
        /\ \A b \in Agents \ {a} : agent'[b] = agent[b]
    BY <1>2, <1>6
  <2>2. Verdict(a)'
    BY <1>1, <1>6, <2>1, VerdictKeeps DEF Earns
  <2>3. ~Pends(a) /\ o.pc \notin {"launched", "arm", "look"}
    BY <1>0, <1>6 DEF Pends
  <2> QED
    BY <1>1, <1>6, <2>1, <2>2, <2>3, TaskMoves
<1> QED
  BY <1>4, <1>5, <1>6

LEMMA OverLimitKeeps ==
  ASSUME IInv, Observe, NEW a \in Agents, OverLimit(a)
  PROVE  IInv'
<1>1. /\ UNCHANGED <<row, config, handle, armed, user, dropping>> /\ row \in {"online", "stopping"}
      /\ agent[a] = Free /\ armed # a /\ agent' = [agent EXCEPT ![a] = Fresh("memory", "restart")]
  BY DEF OverLimit, Over, Unused
<1>2. /\ agent' \in [Agents -> AgentState] /\ agent'[a].kind = "memory"
      /\ agent'[a].pc = "restart" /\ \A b \in Agents \ {a} : agent'[b] = agent[b]
  <2>1. /\ Fresh("memory", "restart") \in AgentState /\ Fresh("memory", "restart").kind = "memory"
        /\ Fresh("memory", "restart").pc = "restart"
    BY Spawned, KindNames DEF AgentPcs
  <2> QED
    BY <1>1, <2>1 DEF IInv, Types
<1>3. Verdict(a)'
  BY <1>1, <1>2, Spawned, VerdictKeeps DEF Earns
<1> QED
  BY <1>1, <1>2, <1>3, Spawned, KindNames, TaskMoves DEF Pends

\* A request is launched by start_app or comes by itself.
LEMMA RequestKeeps ==
  ASSUME IInv, Observe, NEW a \in Agents, Request(a),
         UNCHANGED <<row, config, handle, armed, dropping>>,
         user' = user \/ (user.pc = "launch" /\ user' = [user EXCEPT !.pc = "idle"])
  PROVE  IInv'
<1>1. agent[a] = Free /\ armed # a /\ agent' = [agent EXCEPT ![a] = Fresh("user", "restart")]
  BY DEF Request, Unused
<1>2. /\ agent' \in [Agents -> AgentState] /\ agent'[a].kind = "user"
      /\ agent'[a].pc = "restart" /\ \A b \in Agents \ {a} : agent'[b] = agent[b]
  <2>1. /\ Fresh("user", "restart") \in AgentState /\ Fresh("user", "restart").kind = "user"
        /\ Fresh("user", "restart").pc = "restart"
    BY Spawned, KindNames DEF AgentPcs
  <2> QED
    BY <1>1, <2>1 DEF IInv, Types
<1>3. Verdict(a)'
  BY <1>2, VerdictKeeps
<1> QED
  BY <1>1, <1>2, <1>3, Spawned, KindNames, TaskMoves DEF Pends

-----------------------------------------------------------------------------
(* Restarts and the watcher that follows a launch.                         *)

\* A task that has done its work sleeps again or ends.
LEMMA Ends ==
  ASSUME IInv, Observe, NEW a \in Agents, agent[a].pc \in {"restart", "launched", "arm"}
  PROVE  /\ Again(a) \in [Agents -> AgentState]
         /\ \A b \in Agents \ {a} : Again(a)[b] = agent[b]
         /\ Again(a)[a].pc \in {"sleep", "none"}
         /\ \/ Again(a)[a].kind = agent[a].kind /\ Again(a)[a].kind # "none"
            \/ /\ Again(a)[a] = Free /\ agent[a].kind \notin Registered /\ armed # a
<1>1. armed = a => agent[a].kind \in {"watch", "none"}
  BY AutomationAssumption DEF IInv, Wakes
<1>2. agent \in [Agents -> AgentState] /\ agent[a].kind # "none"
  BY Spawned DEF IInv, Types, Unspawned
<1>3. CASE agent[a].kind \in {"cron", "health", "watch"}
  <2>1. Again(a) = [agent EXCEPT ![a] = [agent[a] EXCEPT !.pc = "sleep"]]
    BY <1>3 DEF Again
  <2>2. /\ [agent[a] EXCEPT !.pc = "sleep"] \in AgentState
        /\ [agent[a] EXCEPT !.pc = "sleep"].kind = agent[a].kind
        /\ [agent[a] EXCEPT !.pc = "sleep"].pc = "sleep"
    BY <1>2 DEF AgentState, AgentPcs
  <2> QED
    BY <1>2, <2>1, <2>2
<1>4. CASE agent[a].kind \notin {"cron", "health", "watch"}
  <2>1. Again(a) = [agent EXCEPT ![a] = Free]
    BY <1>4 DEF Again
  <2> QED
    BY <1>1, <1>2, <1>4, <2>1, Spawned, KindNames
<1> QED
  BY <1>3, <1>4

LEMMA RestartKeeps ==
  ASSUME IInv, Observe, NEW a \in Agents, Restart(a)
  PROVE  IInv'
<1>1. UNCHANGED <<config, handle, armed, user, dropping>> /\ agent[a].pc = "restart"
  BY DEF Restart
<1>2. agent \in [Agents -> AgentState] /\ agent[a].kind # "none"
  BY <1>1, Spawned DEF IInv, Types, Unspawned
<1>3. ~Pends(a)
  BY <1>1 DEF Pends
<1>4. CASE agent' = Again(a) /\ (UNCHANGED row \/ (row = "waiting" /\ row' = "online"))
  <2>1. Verdict(a)'
    BY <1>1, <1>4, Ends, VerdictKeeps
  <2> QED
    BY <1>1, <1>3, <1>4, <2>1, Ends, Spawned, KindNames, TaskMoves
<1>5. CASE /\ Goes(a, "launched")
           /\ \/ row = "down" /\ row' = "online"
              \/ row \in {"waiting", "online", "stopping"} /\ UNCHANGED row
  <2>1. /\ agent' \in [Agents -> AgentState] /\ agent'[a].kind = agent[a].kind
        /\ agent'[a].pc = "launched" /\ \A b \in Agents \ {a} : agent'[b] = agent[b]
    BY <1>2, <1>5 DEF Goes, AgentState, AgentPcs
  <2>2. Verdict(a)'
    BY <2>1, VerdictKeeps
  <2>3. row = "down" => Pends(a)' \/ crossed'
    <3>1. row = "down" /\ agent[a].kind = "aborted" => crossed'
      BY <1>1, <1>5 DEF Observe, At
    <3> QED
      BY <2>1, <3>1 DEF Pends
  <2> QED
    BY <1>1, <1>2, <1>3, <1>5, <2>1, <2>2, <2>3, TaskMoves
<1> QED
  BY <1>4, <1>5 DEF Restart

LEMMA RegisterWatcherKeeps ==
  ASSUME IInv, Observe, NEW a \in Agents, RegisterWatcher(a)
  PROVE  IInv'
<1>1. UNCHANGED <<row, config, handle, armed, user, dropping>> /\ agent[a].pc = "launched"
  BY DEF RegisterWatcher
<1>2. agent \in [Agents -> AgentState] /\ agent[a].kind # "none"
  BY <1>1, Spawned DEF IInv, Types, Unspawned
<1>3. CASE Goes(a, "arm")
  <2>1. /\ agent' \in [Agents -> AgentState] /\ agent'[a].kind = agent[a].kind
        /\ agent'[a].pc = "arm" /\ \A b \in Agents \ {a} : agent'[b] = agent[b]
    BY <1>2, <1>3 DEF Goes, AgentState, AgentPcs
  <2>2. Verdict(a)'
    BY <2>1, VerdictKeeps
  <2> QED
    BY <1>1, <1>2, <2>1, <2>2, TaskMoves DEF Pends
<1>4. CASE agent' = Again(a) /\ ("watch" \notin config \/ row \in {"none", "down"})
  <2>1. Verdict(a)'
    BY <1>1, <1>4, Ends, VerdictKeeps
  <2> QED
    BY <1>1, <1>4, <2>1, Ends, Spawned, KindNames, TaskMoves
<1> QED
  BY <1>3, <1>4 DEF RegisterWatcher

LEMMA AbortEndsKeeps ==
  ASSUME IInv, Observe, NEW a \in Agents, AbortEnds(a)
  PROVE  IInv'
<1>1. /\ UNCHANGED <<row, config, handle, armed, user, dropping>>
      /\ agent[a].kind = "aborted" /\ agent' = [agent EXCEPT ![a] = Free]
  BY DEF AbortEnds, At
<1>2. /\ agent' \in [Agents -> AgentState] /\ agent'[a] = Free
      /\ \A b \in Agents \ {a} : agent'[b] = agent[b]
  BY <1>1, Spawned DEF IInv, Types
<1>3. armed # a
  BY <1>1, AutomationAssumption DEF IInv, Wakes
<1>4. Verdict(a)'
  BY <1>2, Spawned DEF Verdict
<1> QED
  BY <1>1, <1>2, <1>3, <1>4, Spawned, KindNames, TaskMoves DEF Pends

LEMMA InsertWatcherKeeps ==
  ASSUME IInv, Observe, NEW a \in Agents, InsertWatcher(a)
  PROVE  IInv'
<1>1. /\ UNCHANGED <<row, config, handle, user, dropping>> /\ agent[a].pc = "arm"
  BY DEF InsertWatcher
<1>2. PICK w \in Agents : /\ agent[w] = Free /\ armed # w /\ armed' = w
                          /\ agent' = [Again(a) EXCEPT ![w] = Fresh("watch", "sleep")]
  BY DEF InsertWatcher, Unused
<1>3. w # a
  BY <1>1, <1>2, Spawned
<1>4. /\ agent' \in [Agents -> AgentState] /\ agent'[w].kind = "watch" /\ agent'[w].pc = "sleep"
      /\ agent'[a] = Again(a)[a] /\ \A b \in Agents \ {a, w} : agent'[b] = agent[b]
  BY <1>1, <1>2, <1>3, Ends, Spawned, KindNames DEF AgentPcs
<1>5. Types'
  BY <1>1, <1>2, <1>4, Histories DEF IInv, Types
<1>6. Storing' /\ Handles' /\ Owned'
  <2>1. \A b \in Agents : /\ agent[b].kind \in Registered => agent'[b].kind = agent[b].kind
                          /\ agent'[b].kind \in Registered => agent'[b].kind = agent[b].kind
    BY <1>1, <1>2, <1>4, Ends, Spawned, KindNames
  <2> QED
    BY <1>1, <1>4, <2>1, TasksStay
<1>7. Wakes' /\ Placed' /\ Unspawned'
  BY <1>1, <1>2, <1>4, Ends, Spawned DEF IInv, Types, Wakes, Placed, Unspawned
<1>8. Dropping' /\ Watched'
  BY <1>1, <1>2, <1>4, Histories, AutomationAssumption DEF IInv, Dropping, Watched
<1>9. Quiet' /\ StoppedIsDown'
  <2>1. Launching /\ (Launching' => Launching \/ row' # "down")
    BY <1>1 DEF Launching
  <2> QED
    BY <1>1, <2>1, QuietKeeps DEF IInv
<1>10. Verdicts'
  <2> SUFFICES ASSUME NEW b \in Agents
               PROVE  Verdict(b)'
    BY DEF Verdicts
  <2>1. agent'[b] = agent[b] \/ agent'[b].pc \in {"sleep", "none"}
    BY <1>1, <1>4, Ends
  <2> QED
    BY <2>1, VerdictKeeps
<1> QED
  BY <1>5, <1>6, <1>7, <1>8, <1>9, <1>10 DEF IInv

-----------------------------------------------------------------------------
(* Launches, stops and exits.                                              *)

LEMMA LaunchKeeps ==
  ASSUME IInv, Observe, Launch
  PROVE  IInv'
<1>1. /\ UNCHANGED <<row, config, handle, armed, dropping>>
      /\ user.pc = "launch" /\ user' = [user EXCEPT !.pc = "idle"]
  BY DEF Launch
<1>2. CASE \E a \in Agents : Request(a)
  BY <1>1, <1>2, RequestKeeps
<1>3. CASE UNCHANGED agent
  <2>1. Types'
    <3>1. user' \in [pc : UserPcs, task : Agents \cup {NoAgent}]
      BY <1>1 DEF IInv, Types, UserPcs
    <3> QED
      BY <1>1, <1>3, <3>1, Histories DEF IInv, Types
  <2>2. Storing' /\ Handles' /\ Owned'
    BY <1>1, <1>3, TasksStay DEF IInv, Types
  <2>3. Wakes' /\ Placed' /\ Unspawned'
    BY <1>1, <1>3 DEF IInv, Wakes, Placed, Unspawned
  <2>4. Dropping' /\ Watched'
    BY <1>1, <1>3, Histories DEF IInv, Dropping, Watched, Pends
  <2>5. Quiet' /\ StoppedIsDown'
    <3>1. Launching' => Launching
      BY <1>3 DEF Launching
    <3> QED
      BY <1>1, <3>1, QuietKeeps DEF IInv
  <2>6. Verdicts'
    BY <1>3, VerdictKeeps DEF Verdicts
  <2> QED
    BY <2>1, <2>2, <2>3, <2>4, <2>5, <2>6 DEF IInv
<1> QED
  BY <1>2, <1>3 DEF Launch

LEMMA ManualRestartKeeps ==
  ASSUME IInv, Observe, NEW a \in Agents, ManualRestart(a)
  PROVE  IInv'
  BY RequestKeeps DEF ManualRestart

\* The row changes, the tasks stay as they are.
LEMMA RowMoves ==
  ASSUME IInv, Observe, UNCHANGED <<config, handle, agent, user, dropping>>,
         armed' \in {armed, NoAgent},
         row' \in {"none", "down", "waiting", "online", "stopping"},
         row = "none" <=> row' = "none",
         row' \in {"online", "waiting"} =>
           row \in {"online", "waiting"} /\ armed' = armed,
         row' = "stopping" => row = "stopping" \/ armed' = NoAgent
  PROVE  IInv'
<1>1. Types'
  BY Histories DEF IInv, Types
<1>2. Storing' /\ Handles' /\ Owned'
  BY TasksStay DEF IInv, Types
<1>3. Wakes' /\ Placed' /\ Unspawned'
  BY DEF IInv, Wakes, Placed, Unspawned
<1>4. Dropping' /\ Watched'
  BY Histories DEF IInv, Dropping, Watched, Pends
<1>5. Quiet' /\ StoppedIsDown'
  <2>1. Launching' => Launching
    BY DEF Launching
  <2> QED
    BY <2>1, QuietKeeps DEF IInv
<1>6. Verdicts'
  BY VerdictKeeps DEF Verdicts
<1> QED
  BY <1>1, <1>2, <1>3, <1>4, <1>5, <1>6 DEF IInv

LEMMA StopKeeps ==
  ASSUME IInv, Observe, Stop \/ Stopped \/ Exit
  PROVE  IInv'
<1>1. row \in {"none", "down", "waiting", "online", "stopping"}
  BY DEF IInv, Types
<1>2. CASE Stop
  BY <1>1, <1>2, RowMoves DEF Stop
<1>3. CASE Stopped
  BY <1>3, RowMoves DEF Stopped
<1>4. CASE Exit
  BY <1>4, RowMoves DEF Exit
<1> QED
  BY <1>2, <1>3, <1>4

-----------------------------------------------------------------------------
(* The row comes and goes.                                                 *)

LEMMA InsertKeeps ==
  ASSUME IInv, Observe, Insert
  PROVE  IInv'
<1>1. /\ UNCHANGED <<armed, agent, dropping>> /\ row = "none" /\ row' = "down"
      /\ config' \in Configs
      /\ handle' = [k \in Registered |-> NoAgent]
      /\ user' = [pc |-> "cron", task |-> NoAgent]
  BY DEF Insert
<1>2. Types'
  BY <1>1, Histories, KindNames, AutomationAssumption DEF IInv, Types, UserPcs
<1>3. Storing' /\ Handles'
  BY <1>1, KindNames DEF Storing, Handles
<1>4. Owned'
  <2> SUFFICES ASSUME NEW b \in Agents, agent[b].kind \in Registered
               PROVE  b \in detached'
    BY <1>1 DEF Owned
  <2>1. b \in detached /\ agent'[b].kind \in Registered
    BY <1>1 DEF IInv, Owned
  <2> QED
    BY <2>1, Owners
<1>5. Wakes' /\ Placed' /\ Unspawned' /\ Watched'
  BY <1>1 DEF IInv, Wakes, Placed, Unspawned, Watched
<1>6. Dropping'
  BY <1>1 DEF Observe, Dropping
<1>7. Verdicts'
  BY <1>1, VerdictKeeps DEF Verdicts
<1>8. Quiet' /\ StoppedIsDown'
  <2>1. Launching' => Launching
    BY <1>1 DEF Launching
  <2> QED
    BY <1>1, <2>1, QuietKeeps DEF IInv
<1> QED
  BY <1>2, <1>3, <1>4, <1>5, <1>6, <1>7, <1>8 DEF IInv

\* start_app goes on to the next thing it does, and has nothing to store.
LEMMA AfterNothing ==
  ASSUME NEW k \in Registered
  PROVE  /\ After(k) \in UserPcs \ {"cronStore", "healthStore"}
         /\ k = "cron" => After(k) = "health"
         /\ k = "health" => After(k) = "launch"
  BY DEF After, UserPcs, Registered

LEMMA RegisterKeeps ==
  ASSUME IInv, Observe, NEW k \in Registered, Register(k)
  PROVE  IInv'
<1>1. UNCHANGED <<row, config, handle, armed, dropping>> /\ user.pc = k
  BY DEF Register
<1>2. agent \in [Agents -> AgentState] /\ user \in [pc : UserPcs, task : Agents \cup {NoAgent}]
  BY DEF IInv, Types
<1>3. user.task = NoAgent
  BY <1>1, KindNames DEF IInv, Storing
<1>4. Dropping'
  BY <1>1, Histories DEF IInv, Dropping
<1>5. CASE user' = [user EXCEPT !.pc = After(k)] /\ UNCHANGED agent
  <2>1. /\ user'.pc = After(k) /\ user'.task = NoAgent
        /\ user' \in [pc : UserPcs, task : Agents \cup {NoAgent}]
    BY <1>2, <1>3, <1>5, AfterNothing
  <2>2. Types'
    BY <1>1, <1>5, <2>1, Histories DEF IInv, Types
  <2>3. Storing' /\ Handles'
    BY <1>1, <1>5, <2>1, AfterNothing, KindNames DEF IInv, Storing, Handles
  <2>4. Owned'
    <3> SUFFICES ASSUME NEW b \in Agents, agent[b].kind \in Registered
                 PROVE  b \in detached' \/ (row # "none" /\ b \in own' /\ handle[agent[b].kind] = b)
      BY <1>1, <1>5 DEF Owned
    <3>1. agent'[b] = agent[b]
      BY <1>5
    <3> QED
      BY <1>1, <1>3, <3>1, Owners, AutomationAssumption DEF IInv, Owned
  <2>5. Wakes' /\ Placed' /\ Unspawned'
    BY <1>1, <1>5 DEF IInv, Wakes, Placed, Unspawned
  <2>6. Watched'
    BY <1>1, <1>5, Histories DEF IInv, Watched, Pends
  <2>7. Verdicts'
    BY <1>5, VerdictKeeps DEF Verdicts
  <2>8. Quiet' /\ StoppedIsDown'
    <3>1. Launching' => Launching
      BY <1>5 DEF Launching
    <3> QED
      BY <1>1, <3>1, QuietKeeps DEF IInv
  <2> QED
    BY <1>4, <2>2, <2>3, <2>4, <2>5, <2>6, <2>7, <2>8 DEF IInv
<1>6. ASSUME NEW a \in Agents, Unused(a), agent' = [agent EXCEPT ![a] = Fresh(k, "sleep")],
             user' = [pc |-> IF k = "cron" THEN "cronStore" ELSE "healthStore", task |-> a],
             row # "none"
      PROVE  IInv'
  <2>1. agent[a] = Free /\ armed # a
    BY <1>6 DEF Unused
  <2>2. /\ agent' \in [Agents -> AgentState] /\ agent'[a].kind = k /\ agent'[a].pc = "sleep"
        /\ agent'[a] # Free /\ \A b \in Agents \ {a} : agent'[b] = agent[b]
    BY <1>2, <1>6, Spawned, KindNames DEF AgentPcs
  <2>3. Types'
    BY <1>1, <1>6, <2>2, Histories DEF IInv, Types, UserPcs
  <2>4. Storing'
    BY <1>1, <1>6, <2>2, KindNames, AutomationAssumption DEF IInv, Storing
  <2>5. Handles'
    BY <1>1, <2>1, <2>2, Spawned, KindNames DEF IInv, Types, Handles
  <2>6. Owned'
    <3> SUFFICES ASSUME NEW b \in Agents, agent'[b].kind \in Registered
                 PROVE  \/ b \in detached'
                        \/ b \in own' /\ (a = b \/ handle[agent'[b].kind] = b)
      BY <1>1, <1>6 DEF Owned
    <3>1. CASE b = a
      BY <1>1, <1>6, <2>1, <3>1, Owners
    <3>2. CASE b # a
      <4>1. agent'[b] = agent[b]
        BY <2>2, <3>2
      <4> QED
        BY <1>1, <1>3, <1>6, <4>1, Owners, AutomationAssumption DEF IInv, Owned
    <3> QED
      BY <3>1, <3>2
  <2>7. Wakes' /\ Placed' /\ Unspawned'
    BY <1>1, <2>1, <2>2, KindNames DEF IInv, Types, Wakes, Placed, Unspawned
  <2>8. Watched'
    BY <1>1, <2>1, <2>2, Spawned, Histories DEF IInv, Types, Watched, Pends
  <2>9. Verdicts'
    <3> SUFFICES ASSUME NEW b \in Agents
                 PROVE  Verdict(b)'
      BY DEF Verdicts
    <3> QED
      BY <2>2, VerdictKeeps
  <2>10. Quiet' /\ StoppedIsDown'
    <3>1. Launching' => Launching
      BY <2>2 DEF Launching
    <3> QED
      BY <1>1, <3>1, QuietKeeps DEF IInv
  <2> QED
    BY <1>4, <2>3, <2>4, <2>5, <2>6, <2>7, <2>8, <2>9, <2>10 DEF IInv
<1> QED
  BY <1>5, <1>6 DEF Register

LEMMA StoreKeeps ==
  ASSUME IInv, Observe, NEW k \in Registered, Store(k)
  PROVE  IInv'
<1>1. /\ UNCHANGED <<row, config, armed, dropping>>
      /\ user.pc = (IF k = "cron" THEN "cronStore" ELSE "healthStore")
      /\ user' = [pc |-> After(k), task |-> NoAgent]
  BY DEF Store
<1>2. agent \in [Agents -> AgentState] /\ handle \in [Registered -> Agents \cup {NoAgent}]
  BY DEF IInv, Types
<1>3. user.task \in Agents /\ (row # "none" => agent[user.task].kind = k) /\ handle[k] = NoAgent
  BY <1>1, KindNames DEF IInv, Storing
<1>4. agent' = agent /\ (row = "none" => handle' = handle)
                     /\ (row # "none" => handle' = [handle EXCEPT ![k] = user.task])
  <2>1. Aborted({handle[k]}) = agent
    BY <1>2, <1>3, AutomationAssumption DEF Aborted
  <2> QED
    BY <2>1 DEF Store
<1>5. Types'
  BY <1>1, <1>2, <1>3, <1>4, AfterNothing, Histories DEF IInv, Types
<1>6. Storing'
  BY <1>1, <1>2, <1>4, AfterNothing, KindNames DEF IInv, Storing
<1>7. Handles'
  BY <1>1, <1>2, <1>3, <1>4 DEF IInv, Handles
<1>8. Owned'
  <2> SUFFICES ASSUME NEW b \in Agents, agent[b].kind \in Registered
               PROVE  b \in detached' \/ (row # "none" /\ b \in own' /\ handle'[agent[b].kind] = b)
    BY <1>1, <1>4 DEF Owned
  <2>1. agent'[b].kind \in Registered
    BY <1>4
  <2>2. CASE b \in detached
    BY <2>1, <2>2, Owners
  <2>3. CASE /\ row # "none" /\ b \in own /\ b \notin detached
             /\ user.task = b \/ handle[agent[b].kind] = b
    <3>1. b \in own'
      BY <1>1, <2>1, <2>3, Owners
    <3>2. handle'[agent[b].kind] = b
      BY <1>2, <1>3, <1>4, <2>3, AutomationAssumption
    <3> QED
      BY <2>3, <3>1, <3>2
  <2> QED
    BY <2>2, <2>3 DEF IInv, Owned
<1>9. Wakes' /\ Placed' /\ Unspawned'
  BY <1>1, <1>4 DEF IInv, Wakes, Placed, Unspawned
<1>10. Dropping' /\ Watched'
  BY <1>1, <1>4, Histories DEF IInv, Dropping, Watched, Pends
<1>11. Verdicts'
  BY <1>4, VerdictKeeps DEF Verdicts
<1>12. Quiet' /\ StoppedIsDown'
  <2>1. Launching' => Launching
    BY <1>4 DEF Launching
  <2> QED
    BY <1>1, <2>1, QuietKeeps DEF IInv
<1> QED
  BY <1>5, <1>6, <1>7, <1>8, <1>9, <1>10, <1>11, <1>12 DEF IInv

\* What an abort leaves of the tasks whose handles are in the row.
LEMMA AbortedTasks ==
  ASSUME IInv
  PROVE  LET tasks == {handle[k] : k \in Registered}
         IN  /\ Aborted(tasks) \in [Agents -> AgentState]
             /\ \A b \in Agents \ tasks : Aborted(tasks)[b] = agent[b]
             /\ \A b \in Agents \cap tasks :
                  \/ Aborted(tasks)[b] = Free
                  \/ /\ Aborted(tasks)[b].kind = "aborted"
                     /\ Aborted(tasks)[b].pc = agent[b].pc
<1> DEFINE tasks == {handle[k] : k \in Registered}
<1>1. agent \in [Agents -> AgentState]
  BY DEF IInv, Types
<1>2. ASSUME NEW b \in Agents
      PROVE  /\ Aborted(tasks)[b] \in AgentState
             /\ b \notin tasks => Aborted(tasks)[b] = agent[b]
             /\ b \in tasks => \/ Aborted(tasks)[b] = Free
                               \/ /\ Aborted(tasks)[b].kind = "aborted"
                                  /\ Aborted(tasks)[b].pc = agent[b].pc
  <2>1. /\ [agent[b] EXCEPT !.kind = "aborted"] \in AgentState
        /\ [agent[b] EXCEPT !.kind = "aborted"].kind = "aborted"
        /\ [agent[b] EXCEPT !.kind = "aborted"].pc = agent[b].pc
    BY <1>1, KindNames DEF AgentState
  <2> HIDE DEF tasks
  <2> QED
    BY <1>1, <2>1, Spawned DEF Aborted
<1>3. Aborted(tasks) \in [Agents -> AgentState]
  <2> HIDE DEF tasks
  <2> QED
    BY <1>2 DEF Aborted
<1> QED
  BY <1>2, <1>3

LEMMA DeleteKeeps ==
  ASSUME IInv, Observe, Delete
  PROVE  IInv'
<1> DEFINE tasks == {handle[k] : k \in Registered}
<1>1. /\ row # "none" /\ row' = "none" /\ dropping' = TRUE /\ UNCHANGED <<armed, user>>
      /\ config' = {}
      /\ agent' = Aborted(tasks) /\ handle' = [k \in Registered |-> NoAgent]
  BY DEF Delete
<1>2. /\ agent' \in [Agents -> AgentState]
      /\ \A b \in Agents \ tasks : agent'[b] = agent[b]
      /\ \A b \in Agents \cap tasks : \/ agent'[b] = Free
                                      \/ agent'[b].kind = "aborted" /\ agent'[b].pc = agent[b].pc
  BY <1>1, AbortedTasks
<1>3. \A b \in Agents \cap tasks : agent[b].kind \in Registered
  BY AutomationAssumption DEF IInv, Handles
<1> HIDE DEF tasks
<1>4. Types'
  BY <1>1, <1>2, Histories DEF IInv, Types
<1>5. Storing' /\ Handles' /\ Dropping' /\ Watched'
  BY <1>1, KindNames DEF IInv, Storing, Handles, Dropping, Watched
<1>6. Owned'
  <2> SUFFICES ASSUME NEW b \in Agents, agent'[b].kind \in Registered
               PROVE  b \in detached'
    BY DEF Owned
  <2>1. b \notin tasks /\ agent'[b] = agent[b]
    BY <1>2, KindNames, Spawned
  <2>2. b \in detached \/ user.task = b
    BY <2>1 DEF IInv, Owned, tasks
  <2> QED
    BY <1>1, <2>2, Owners
<1>7. Wakes'
  <2>1. ASSUME armed \in Agents
        PROVE  armed \notin tasks
    BY <1>3, <2>1, KindNames, AutomationAssumption DEF IInv, Wakes
  <2> QED
    BY <1>1, <1>2, <2>1 DEF IInv, Types, Wakes
<1>8. Placed' /\ Unspawned'
  BY <1>2, Spawned DEF IInv, Placed, Unspawned
<1>9. Verdicts'
  <2> SUFFICES ASSUME NEW b \in Agents
               PROVE  Verdict(b)'
    BY DEF Verdicts
  <2>1. agent'[b] = agent[b] \/ agent'[b].kind \in {"none", "aborted"}
    BY <1>2, Spawned
  <2> QED
    BY <2>1, VerdictKeeps
<1>10. Quiet' /\ StoppedIsDown'
  BY <1>1, QuietKeeps DEF IInv
<1> QED
  BY <1>4, <1>5, <1>6, <1>7, <1>8, <1>9, <1>10 DEF IInv

LEMMA DropWatcherKeeps ==
  ASSUME IInv, Observe, DropWatcher
  PROVE  IInv'
<1>1. /\ UNCHANGED <<row, config, handle, agent, user>> /\ armed' = NoAgent
      /\ dropping = TRUE /\ dropping' = FALSE
  BY DEF DropWatcher, IInv, Types
<1>2. row = "none" \/ crossed'
  BY <1>1, Histories DEF IInv, Dropping
<1>3. Types'
  BY <1>1, Histories DEF IInv, Types
<1>4. Storing' /\ Handles' /\ Owned'
  BY <1>1, TasksStay DEF IInv, Types
<1>5. Wakes' /\ Placed' /\ Unspawned' /\ Dropping' /\ Watched'
  BY <1>1, <1>2 DEF IInv, Wakes, Placed, Unspawned, Dropping, Watched
<1>6. Quiet' /\ StoppedIsDown'
  <2>1. Launching' => Launching
    BY <1>1 DEF Launching
  <2> QED
    BY <1>1, <2>1, QuietKeeps DEF IInv
<1>7. Verdicts'
  BY <1>1, VerdictKeeps DEF Verdicts
<1> QED
  BY <1>3, <1>4, <1>5, <1>6, <1>7 DEF IInv

-----------------------------------------------------------------------------
(* The theorems.                                                           *)

LEMMA InitInv == Init => IInv
<1> SUFFICES ASSUME Init
             PROVE  IInv
  OBVIOUS
<1>1. \A a \in Agents : agent[a] = Free
  BY DEF Init
<1>2. Types
  BY Spawned DEF Init, Types, UserPcs
<1>3. Storing /\ Handles /\ Wakes /\ Dropping /\ Watched /\ Quiet /\ StoppedIsDown
  BY DEF Init, Storing, Handles, Wakes, Dropping, Watched, Quiet, StoppedIsDown
<1>4. Owned /\ Verdicts /\ Placed /\ Unspawned
  BY <1>1, Spawned, KindNames DEF Init, Owned, Verdicts, Verdict, Placed, Unspawned
<1> QED
  BY <1>2, <1>3, <1>4 DEF IInv

LEMMA StepKeeps ==
  ASSUME IInv, Next, Observe
  PROVE  IInv'
<1>1. CASE Process
  <2>1. CASE \E k \in Registered : Register(k) \/ Store(k)
    BY <2>1, RegisterKeeps, StoreKeeps
  <2> QED
    BY <1>1, <2>1, InsertKeeps, LaunchKeeps, ManualRestartKeeps, StopKeeps, DeleteKeeps,
       DropWatcherKeeps DEF Process
<1>2. ASSUME NEW a \in Agents, Step(a)
      PROVE  IInv'
  BY <1>2, WatcherKeeps, LookKeeps, CheckKeeps, OverLimitKeeps, RestartKeeps,
     RegisterWatcherKeeps, InsertWatcherKeeps, AbortEndsKeeps DEF Step
<1> QED
  BY <1>1, <1>2 DEF Next

\* The invariant holds in every reachable state, for any number of tasks.
THEOREM AutomationInductive == Spec => []IInv
<1>1. IInv /\ [Next /\ Observe]_vars => IInv'
  <2> SUFFICES ASSUME IInv, [Next /\ Observe]_vars
               PROVE  IInv'
    OBVIOUS
  <2>1. CASE UNCHANGED vars
    BY <2>1 DEF vars, state, IInv, Types, Storing, Handles, Wakes, Owned, Dropping, Watched, Pends,
                Quiet, Launching, StoppedIsDown, Verdicts, Verdict, Placed, Unspawned
  <2> QED
    BY <2>1, StepKeeps
<1> QED
  BY <1>1, InitInv, PTL DEF Spec

\* Every variable keeps its type, and a handle in the row is of a task that runs
\* (cron.rs:34-43, health.rs:60-70).
THEOREM AutomationTypes == Spec => []TypeOK
<1>1. IInv => TypeOK
  BY DEF IInv, Types, Handles, Wakes, TypeOK, AgentState
<1> QED
  BY <1>1, AutomationInductive, PTL

\* A process that is up and asks for it is watched, or its launch has yet to see to
\* that; unless its row was inserted while another's delete was under way, or a task
\* that was aborted when it launched it (supervisor.rs:506-530, watcher.rs:16-92).
THEOREM WatchArmedAlways == Spec => []WatchArmed
<1>1. IInv => WatchArmed
  BY DEF IInv, Types, Watched, Pends, Launching, WatchArmed
<1> QED
  BY <1>1, AutomationInductive, PTL

\* What is down is brought up only by cron, on request, by a task aborted too late, or
\* by a task that has seen the process run; by a watcher also if it saw the change when
\* the row was not stopped, or if a launch was racing the stop (CHANGELOG.md:46;
\* health.rs:31-42, worker.rs:204-227, watcher.rs:16-92).
THEOREM RevivalsAreStale == Spec => RevivalIsStale
<1>1. IInv => [\A a \in Agents :
                 Restart(a) /\ row \in {"down", "waiting"}
                   => \/ agent[a].kind \in {"cron", "user", "aborted"}
                      \/ a \in earned
                      \/ agent[a].kind = "watch" /\ raced]_vars
  <2> SUFFICES ASSUME IInv, NEW a \in Agents, Restart(a)
               PROVE  \/ agent[a].kind \in {"cron", "user", "aborted"}
                      \/ a \in earned
                      \/ agent[a].kind = "watch" /\ raced
    OBVIOUS
  <2>1. agent[a].pc = "restart" /\ agent[a] \in AgentState /\ agent[a].kind # "none" /\ Verdict(a)
    BY Spawned DEF Restart, IInv, Types, Unspawned, Verdicts
  <2> QED
    BY <2>1 DEF Verdict, AgentState, TaskKinds, Kinds, Registered
<1> QED
  BY <1>1, AutomationInductive, PTL DEF RevivalIsStale

\* A cron or health task that may still restart a row restarts none but its own, unless
\* it was detached before it was registered; one that was aborted when it was about to
\* is "aborted" and not meant (cron.rs:8, health.rs:12).
THEOREM ForeignersAreLate == Spec => ForeignIsLate
<1>1. IInv => [\A a \in Agents :
                 /\ Restart(a) /\ row # "none"
                 /\ agent[a].kind \in Registered /\ a \notin own
                 => a \in detached]_vars
  BY DEF IInv, Owned
<1> QED
  BY <1>1, AutomationInductive, PTL DEF ForeignIsLate

=============================================================================
