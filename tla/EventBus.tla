------------------------------ MODULE EventBus ------------------------------
(***************************************************************************)
(* Events on their way from the daemon to a subscriber: Ctx::publish, the   *)
(* broadcast ring, handle and forward_events of daemon/rpc.rs, the socket,  *)
(* and the clients that read it (client.rs, cli/logs.rs, monit/mod.rs).     *)
(*                                                                         *)
(* The ring keeps the last Cap events and never makes a publisher wait.     *)
(* `log` is all that was ever published; a receiver is its position in it.  *)
(***************************************************************************)
EXTENDS Naturals, Sequences

CONSTANTS
  Subscribers,  \* connections that send a subscribe request
  Names,        \* names of apps
  NoName,
  Topics,       \* topics of the events about a process
  Kill,         \* topic of the event that the daemon shuts down
  Asks,         \* requests: sets of topics with targets
  MaxId,        \* bound: the ids are 0 .. MaxId
  Cap,          \* events that the ring holds
  WireCap,      \* frames that a socket holds
  MaxEvents     \* bound: events published in all

Ids == 0 .. MaxId

\* Target, with "none" for the request that has none.
TargetSet == [kind : {"none", "all"}, of : {{}}]
             \cup [kind : {"ids"}, of : SUBSET Ids] \cup [kind : {"names"}, of : SUBSET Names]

ASSUME BusAssumption ==
  /\ MaxId \in Nat /\ Cap \in Nat \ {0} /\ WireCap \in Nat \ {0} /\ MaxEvents \in Nat
  /\ NoName \notin Names /\ Kill \notin Topics
  /\ Asks \subseteq [topics : SUBSET (Topics \cup {Kill}), target : TargetSet]

\* The event of the daemon's end is about no process: pm_id() is None.
Events == [topic : Topics, id : Ids, name : Names]
          \cup {[topic |-> Kill, id |-> 0, name |-> NoName]}
IsAboutProcess(e) == e.topic # Kill

\* What a client reads: an event, or how many were skipped.  `from` is the position in
\* the log of the event or of the first one skipped, which only the properties read.
Frames == [lagged : BOOLEAN, from : Nat, n : Nat]
NoFrame == [lagged |-> FALSE, from |-> 0, n |-> 0]

VARIABLES
  table,    \* the name under each id, NoName if there is no row
  nextId,   \* ProcessTable::next_id
  had,      \* names that each id has had: pumps of those that have gone may still read
  log,      \* all events published
  up,       \* "up", "ending" after the daemon's last event, "down"
  sub,      \* per connection: the handler, its request, receiver and pending frame
  sent,     \* per connection: all frames written to the socket
  client    \* per connection: the client, and how many of the frames it has read

vars == <<table, nextId, had, log, up, sub, sent, client>>
world == <<table, nextId, had, log, up>>

NoAsk == [topics |-> {}, target |-> [kind |-> "none", of |-> {}]]
IdleSub == [pc |-> "idle", ask |-> NoAsk, ids |-> {}, since |-> 0, next |-> 0, frame |-> NoFrame]

\* The handler: forward_events has the pcs from "attach" to "write".
SubPcs == {"idle", "asked", "attach", "resolve", "select", "write", "gone"}
Attached(s) == sub[s].pc \in {"resolve", "select", "write"}

\* The client has hung up, or the program behind it has ended.
Closed(s) == client[s].pc \in {"ended", "closed"}

-----------------------------------------------------------------------------
(* The daemon: rows and publishers.                                        *)

Rows == {i \in Ids : table[i] # NoName}

\* alloc_id, then the row: ids restart at 0 when the table is empty.
Insert(a) ==
  LET i == IF Rows = {} THEN 0 ELSE nextId
  IN /\ up = "up" /\ i <= MaxId
     /\ table' = [table EXCEPT ![i] = a]
     /\ had' = [had EXCEPT ![i] = @ \cup {a}]
     /\ nextId' = i + 1
     /\ UNCHANGED <<log, up, sub, sent, client>>

\* remove_proc
Remove(i) ==
  /\ up # "down" /\ table[i] # NoName
  /\ table' = [table EXCEPT ![i] = NoName]
  /\ UNCHANGED <<nextId, had, log, up, sub, sent, client>>

\* Supervisors and operations publish what happens to a process, pumps its lines: with
\* the id and name they were started with, also when the row has gone since.
Publish(t, i, a) ==
  /\ up # "down" /\ Len(log) < MaxEvents
  /\ a \in had[i]
  /\ log' = Append(log, [topic |-> t, id |-> i, name |-> a])
  /\ UNCHANGED <<table, nextId, had, up, sub, sent, client>>

\* graceful_shutdown begins with an event of its own.
ShutDown ==
  /\ up = "up"
  /\ up' = "ending"
  /\ log' = IF Len(log) < MaxEvents THEN Append(log, [topic |-> Kill, id |-> 0, name |-> NoName])
            ELSE log
  /\ UNCHANGED <<table, nextId, had, sub, sent, client>>

\* exit(0), or a crash: every handler ends with the process.
Exit ==
  /\ up # "down"
  /\ up' = "down"
  /\ sub' = [s \in Subscribers |-> [sub[s] EXCEPT !.pc = IF @ = "idle" THEN "idle" ELSE "gone"]]
  /\ UNCHANGED <<table, nextId, had, log, sent, client>>

-----------------------------------------------------------------------------
(* A connection in handle, then forward_events.                            *)

Goes(s, place) == sub' = [sub EXCEPT ![s].pc = place]

\* The client's request has arrived.
Ask(s, r) ==
  /\ up # "down" /\ sub[s].pc = "idle"
  /\ sub' = [sub EXCEPT ![s] = [IdleSub EXCEPT !.pc = "asked", !.ask = r]]
  /\ client' = [client EXCEPT ![s].pc = "waiting"]
  /\ UNCHANGED <<world, sent>>

\* The answer is sent first...
Reply(s) ==
  /\ sub[s].pc = "asked"
  /\ IF Closed(s) THEN Goes(s, "gone") /\ UNCHANGED client
     ELSE Goes(s, "attach") /\ client' = [client EXCEPT ![s].pc = "reading"]
  /\ UNCHANGED <<world, sent>>

\* ...then the receiver is made: bus.subscribe() puts it behind the last event.
Attach(s) ==
  /\ sub[s].pc = "attach"
  /\ sub' = [sub EXCEPT ![s].pc = "resolve", ![s].since = Len(log) + 1, ![s].next = Len(log) + 1]
  /\ UNCHANGED <<world, sent, client>>

\* Variant: the rows are not looked up, every id is wanted.
ResolvedAll(target) == Ids

\* ProcessTable::resolve; a request without a target has no list of ids.
Resolved(target) ==
  CASE target.kind = "none" -> {}
    [] target.kind = "all" -> Rows
    [] target.kind = "ids" -> target.of \cap Rows
    [] target.kind = "names" -> {i \in Rows : table[i] \in target.of}

ResolveTarget(s) ==
  /\ sub[s].pc = "resolve"
  /\ sub' = [sub EXCEPT ![s].pc = "select", ![s].ids = Resolved(sub[s].ask.target)]
  /\ UNCHANGED <<world, sent, client>>

TopicAsked(r, e) == r.topics = {} \/ e.topic \in r.topics

\* Variant: a list of ids, whatever the target was.
MatchesIdsOnly(s, e) ==
  LET r == sub[s].ask
  IN TopicAsked(r, e) /\ (IsAboutProcess(e) /\ r.target.kind # "none" => e.id \in sub[s].ids)

\* The filters: name targets follow a name to other ids, lists of ids are fixed.
Matches(s, e) ==
  LET r == sub[s].ask
  IN /\ TopicAsked(r, e)
     /\ IsAboutProcess(e) /\ r.target.kind # "none" =>
          e.id \in sub[s].ids \/ (r.target.kind = "names" /\ e.name \in r.target.of)

\* The oldest event that the ring still holds.
Oldest == IF Len(log) > Cap THEN Len(log) - Cap + 1 ELSE 1

\* recv has a result: the next event, or that it has been overwritten.
Ready(s) == sub[s].pc = "select" /\ sub[s].next <= Len(log)

\* Variant: skipped events are not worth a frame.
SkipSilently(s) ==
  /\ Ready(s) /\ sub[s].next < Oldest
  /\ sub' = [sub EXCEPT ![s].next = Oldest]
  /\ UNCHANGED <<world, sent, client>>

\* Variant: a receiver that lags is taken for one that has nothing to read.
LagIsEmpty(s) == FALSE /\ UNCHANGED vars

\* RecvError::Lagged: the receiver moves to the oldest event, the client is told.
RecvLagged(s) ==
  /\ Ready(s) /\ sub[s].next < Oldest
  /\ sub' = [sub EXCEPT ![s].pc = "write", ![s].next = Oldest,
                        ![s].frame = [lagged |-> TRUE, from |-> sub[s].next,
                                      n |-> Oldest - sub[s].next]]
  /\ UNCHANGED <<world, sent, client>>

RecvEvent(s) ==
  LET p == sub[s].next
  IN /\ Ready(s) /\ p >= Oldest
     /\ sub' = IF Matches(s, log[p])
               THEN [sub EXCEPT ![s].pc = "write", ![s].next = p + 1,
                                ![s].frame = [lagged |-> FALSE, from |-> p, n |-> 1]]
               ELSE [sub EXCEPT ![s].next = p + 1]
     /\ UNCHANGED <<world, sent, client>>

\* Variant: only the receiver is polled.
HangUpUnseen(s) == FALSE /\ UNCHANGED vars

\* The read half of the connection is at its end.
HangUp(s) ==
  /\ sub[s].pc = "select" /\ Closed(s)
  /\ Goes(s, "gone")
  /\ UNCHANGED <<world, sent, client>>

\* write_frame waits while the socket is full and fails when the client has gone.
Write(s) ==
  /\ sub[s].pc = "write"
  /\ IF Closed(s) THEN Goes(s, "gone") /\ UNCHANGED sent
     ELSE /\ Len(sent[s]) - client[s].read < WireCap
          /\ sent' = [sent EXCEPT ![s] = Append(@, sub[s].frame)]
          /\ sub' = [sub EXCEPT ![s].pc = "select", ![s].frame = NoFrame]
  /\ UNCHANGED <<world, client>>

HandlerStep(s) ==
  \/ Reply(s) \/ Attach(s) \/ ResolveTarget(s)
  \/ RecvLagged(s) \/ RecvEvent(s) \/ HangUp(s) \/ Write(s)

-----------------------------------------------------------------------------
(* The client.                                                             *)

\* EventStream::next: a lagged frame holds no event, so it is an Err; `pmr logs` and
\* the dashboard end at an Err, a program of its own may go on.
Read(s) ==
  /\ client[s].pc = "reading" /\ client[s].read < Len(sent[s])
  /\ \E place \in IF sent[s][client[s].read + 1].lagged THEN {"reading", "ended"} ELSE {"reading"} :
       client' = [client EXCEPT ![s] = [pc |-> place, read |-> @.read + 1]]
  /\ UNCHANGED <<world, sub, sent>>

\* The daemon has gone: read_line returns 0 after what was in the socket.
Eof(s) ==
  /\ up = "down" /\ client[s].pc \in {"waiting", "reading"}
  /\ client[s].read = Len(sent[s])
  /\ client' = [client EXCEPT ![s].pc = "ended"]
  /\ UNCHANGED <<world, sub, sent>>

\* The user ends the client.
Close(s) ==
  /\ client[s].pc \in {"waiting", "reading"}
  /\ client' = [client EXCEPT ![s].pc = "closed"]
  /\ UNCHANGED <<world, sub, sent>>

-----------------------------------------------------------------------------
Init ==
  /\ table = [i \in Ids |-> NoName] /\ nextId = 0 /\ had = [i \in Ids |-> {}]
  /\ log = <<>> /\ up = "up"
  /\ sub = [s \in Subscribers |-> IdleSub]
  /\ sent = [s \in Subscribers |-> <<>>]
  /\ client = [s \in Subscribers |-> [pc |-> "idle", read |-> 0]]

Next ==
  \/ \E a \in Names : Insert(a)
  \/ \E i \in Ids : Remove(i)
  \/ \E t \in Topics, i \in Ids, a \in Names : Publish(t, i, a)
  \/ ShutDown \/ Exit
  \/ \E s \in Subscribers :
       \/ \E r \in Asks : Ask(s, r)
       \/ HandlerStep(s)
       \/ Read(s) \/ Eof(s) \/ Close(s)

Spec == Init /\ [][Next]_vars

\* The runtime runs a handler that can go on.  Nothing is assumed of clients.
FairSpec == Spec /\ \A s \in Subscribers : WF_vars(HandlerStep(s))

-----------------------------------------------------------------------------
(* Properties.                                                             *)

SubType == [pc : SubPcs, ask : Asks \cup {NoAsk}, ids : SUBSET Ids, since : Nat, next : Nat,
            frame : Frames]
ClientType == [pc : {"idle", "waiting", "reading", "ended", "closed"}, read : Nat]

\* Every variable has its type.
TypeOK ==
  /\ table \in [Ids -> Names \cup {NoName}]
  /\ nextId \in Nat
  /\ had \in [Ids -> SUBSET Names]
  /\ log \in Seq(Events)
  /\ up \in {"up", "ending", "down"}
  /\ sub \in [Subscribers -> SubType]
  /\ sent \in [Subscribers -> Seq(Frames)]
  /\ client \in [Subscribers -> ClientType]

\* What the request is for, in the terms of who asked: the events of the apps named,
\* wherever they run, or of the rows that were there when the list was resolved.
Asked(s, e) ==
  LET r == sub[s].ask
  IN /\ TopicAsked(r, e)
     /\ IsAboutProcess(e) /\ r.target.kind # "none" =>
          IF r.target.kind = "names" THEN e.name \in r.target.of ELSE e.id \in sub[s].ids

\* Frames written or about to be, in order.
Stream(s) == IF sub[s].pc = "write" THEN Append(sent[s], sub[s].frame) ELSE sent[s]

Covers(f, p) == f.from <= p /\ p < f.from + f.n

\* A client that is attached gets every event it asked for once and in order, or is
\* told at that place that events were skipped; nothing is lost in silence
\* (forward_events, rpc.rs:225-272, over a ring that overwrites).
NothingLostSilently ==
  \A s \in Subscribers :
    LET st == Stream(s)
    IN /\ sub[s].pc \in {"select", "write"} =>
            \A p \in sub[s].since .. sub[s].next - 1 :
              Asked(s, log[p]) => \E k \in 1 .. Len(st) : Covers(st[k], p)
       /\ \A j, k \in 1 .. Len(st) : j < k => st[j].from + st[j].n <= st[k].from

\* A subscription by name shows an event of another app only if both apps have had the
\* id: it was given out again when the table had become empty, before the subscription,
\* while a pump of the old app still reads, or after it (rpc.rs:255-262 against alloc_id,
\* state.rs:173-180).
ForeignAfterReuse ==
  \A s \in Subscribers : \A k \in 1 .. Len(Stream(s)) :
    LET f == Stream(s)[k]
        e == log[f.from]
    IN ~ f.lagged /\ ~ Asked(s, e) =>
         /\ TopicAsked(sub[s].ask, e)
         /\ e.name \in had[e.id] /\ had[e.id] \cap sub[s].ask.target.of # {}

\* A handler whose client has gone ends, also when no event it asked for is ever
\* published again (rpc.rs:226-236; CHANGELOG.md:59).
DeadSubscribersLeave ==
  \A s \in Subscribers : Closed(s) ~> sub[s].pc \in {"idle", "gone"}

\* Publishers never wait for a subscriber, and a subscriber waits for no other: what is
\* published after it has attached is dealt with, unless its own socket stays full.
Forwarded ==
  \A s \in Subscribers : \A p \in 1 .. MaxEvents :
    (Attached(s) /\ Len(log) = p) ~>
      \/ sub[s].next > p \/ sub[s].pc = "gone"
      \/ sub[s].pc = "write" /\ Len(sent[s]) - client[s].read = WireCap

\* "Event bus; subscribers that lag simply drop events" (state.rs:212): a stream that
\* was not closed does not end while the daemon is up.
LagOnlyDrops == \A s \in Subscribers : client[s].pc = "ended" => up # "up"

=============================================================================
