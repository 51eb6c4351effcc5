------------------------------ MODULE Adapters ------------------------------
(***************************************************************************)
(* The agent's ACP plugin (addons/agent/plugins/acp.js, acp_client.js,     *)
(* inbox.js): it polls the inbox of its host (api/routes/helpers.py), runs *)
(* an adapter process per task, asks it three requests over its pipes, and *)
(* posts the end of the task to the inbox.  Tasks under way or just ended  *)
(* are remembered in memory only.  A row's place in the log stands for its *)
(* timestamp.  The inbox looks for the ends of tasks in the rows of a day, *)
(* and in the newest 500 of those; other limits of queries are not         *)
(* reached, all tasks are for roles of the plugin, and what an adapter     *)
(* says is left out.                                                       *)
(***************************************************************************)
EXTENDS Naturals, Sequences, FiniteSets

CONSTANTS
  Errands,     \* correlations of approved dispatches
  Commandless, \* those whose target has no command
  Inboxes,     \* polls that can be under way at once
  MaxSnags,    \* bound: calls and processes that fail, reloads, restarts
  MaxAged      \* bound: rows that get out of the window

VARIABLES
  inbox,    \* rows of the delta store that carry the host, oldest first
  lapsed,   \* rows up to here are out of the window in which ends are looked for
  cursor,   \* state.last_seen
  visits,   \* the polls under way
  run,      \* dispatchOne() for each task
  proc,     \* the adapter of its latest run
  recent,   \* recentlyCompleted
  dangling, \* tasks with a request that could not be sent and awaits the exit
  replies,  \* replies on their way that nobody awaits
  puts,     \* history: how often each task was put to an adapter
  endsLost, \* history: how often the last end in the window got out of it for a task
            \* whose dispatch was not behind the cursor
  snags,    \* things gone wrong so far (bounds the environment)
  unended,  \* history: tasks whose end was not heard of or not written
  crashed   \* history: a rejection that nobody handles ended the agent

adapterVars == <<inbox, lapsed, cursor, visits, run, proc, recent, dangling, replies,
                 puts, endsLost, snags, unended, crashed>>
memory == <<run, proc, recent, dangling>>

AcpRequests == {"initialize", "session/new", "session/prompt"}
NoInboxPoll == [on |-> FALSE, since |-> 0, floor |-> 0, old |-> FALSE, over |-> {}]
InboxRow(kind, c) == [kind |-> kind, task |-> c]
RowsOf(kinds, c, n) == {i \in 1..n : inbox[i].kind \in kinds /\ inbox[i].task = c}
EndKinds == {"complete", "error"}
Ended(c) == RowsOf(EndKinds, c, Len(inbox)) # {}
InFlight == {c \in Errands : run[c] # "idle"}

AdaptersInit ==
  /\ inbox = << >> /\ lapsed = 0 /\ cursor = 0
  /\ visits = [v \in Inboxes |-> NoInboxPoll]
  /\ run = [c \in Errands |-> "idle"] /\ proc = [c \in Errands |-> "none"]
  /\ recent = {} /\ dangling = {} /\ replies = {}
  /\ puts = [c \in Errands |-> 0] /\ endsLost = [c \in Errands |-> 0]
  /\ snags = 0 /\ unended = {} /\ crashed = FALSE

Snag == snags < MaxSnags /\ snags' = snags + 1
Does(ok) == IF ok THEN UNCHANGED snags ELSE Snag

Approve(c) ==
  /\ RowsOf({"dispatch"}, c, Len(inbox)) = {}
  /\ inbox' = Append(inbox, InboxRow("dispatch", c))
  /\ UNCHANGED <<lapsed, endsLost, cursor, visits, memory, replies, puts, snags, unended, crashed>>

\* A poll that asks from k on, and is sure to see the first n rows, can get the task
\* when its ends up to i are out of the window: the dispatch at the cursor comes with
\* every answer, and only an end in the window hides it.
Unhidden(c, k, n, i) ==
  (\E d \in RowsOf({"dispatch"}, c, Len(inbox)) : d >= k) /\ RowsOf(EndKinds, c, n) \subseteq 1..i

EndIsLost(c, i) ==
  \/ Unhidden(c, cursor, Len(inbox), i)
  \/ \E v \in Inboxes : visits[v].on /\ Unhidden(c, visits[v].since, visits[v].floor, i)

\* The next end of a task gets out of the window.  No poll takes so long.
EndAges ==
  /\ \E i \in lapsed + 1..Len(inbox) :
       /\ i <= MaxAged /\ inbox[i].kind \in EndKinds
       /\ \A j \in lapsed + 1..i - 1 : inbox[j].kind \notin EndKinds
       /\ \A v \in Inboxes : visits[v].on => i <= visits[v].floor
       /\ lapsed' = i
       /\ endsLost' = IF EndIsLost(inbox[i].task, i) THEN [endsLost EXCEPT ![inbox[i].task] = @ + 1] ELSE endsLost
  /\ UNCHANGED <<inbox, cursor, visits, memory, replies, puts, snags, unended, crashed>>

-----------------------------------------------------------------------------
(* pollOnce()                                                              *)

PollStarts(v) ==
  /\ ~visits[v].on
  /\ visits' = [visits EXCEPT ![v] = [NoInboxPoll EXCEPT !.on = TRUE, !.since = cursor, !.floor = Len(inbox)]]
  /\ UNCHANGED <<lapsed, endsLost, inbox, cursor, memory, replies, puts, snags, unended, crashed>>

\* get_inbox(): the dispatches from the cursor on as they were at one moment,
\* without the tasks that have an end in the window of a later one.
DueTasks(since, n, later) ==
  {c \in Errands : /\ \E i \in RowsOf({"dispatch"}, c, n) : i >= since
                   /\ RowsOf(EndKinds, c, later) \subseteq 1..lapsed}
NextCursor(since, n) ==
  LET new == {i \in 1..n : inbox[i].kind = "dispatch" /\ i > since}
  IN  IF new = {} THEN since ELSE CHOOSE i \in new : \A j \in new : j <= i

\* Variant: tasks that have just ended are left to the inbox.
NewTasksByInbox(items) == items \ InFlight

NewTasks(items) == items \ (InFlight \cup recent)

\* dispatchOne() up to its first wait: an adapter for each new task, or an
\* error for one whose target has no command.
PollReturns(v) ==
  /\ visits[v].on
  /\ \E n \in visits[v].floor..Len(inbox) : \E later \in n..Len(inbox) :
       LET new == NewTasks(DueTasks(visits[v].since, n, later))
           spawned == new \ Commandless
       IN  /\ run' = [c \in Errands |-> IF c \in spawned THEN "initialize" ELSE run[c]]
           /\ proc' = [c \in Errands |-> IF c \in spawned THEN "up" ELSE proc[c]]
           /\ dangling' = dangling \ spawned
           /\ puts' = [c \in Errands |-> puts[c] + IF c \in spawned THEN 1 ELSE 0]
           /\ replies' = replies \cup {InboxRow("error", c) : c \in new \cap Commandless}
           /\ cursor' = IF visits[v].old THEN cursor ELSE NextCursor(visits[v].since, n)
  /\ visits' = [visits EXCEPT ![v] = NoInboxPoll]
  /\ UNCHANGED <<lapsed, endsLost, inbox, recent, snags, unended, crashed>>

InboxFails(v) ==
  /\ visits[v].on /\ Snag
  /\ visits' = [visits EXCEPT ![v] = NoInboxPoll]
  /\ UNCHANGED <<lapsed, endsLost, inbox, cursor, memory, replies, puts, unended, crashed>>

-----------------------------------------------------------------------------
(* dispatchOne() and its AcpClient                                         *)

\* The next request is written to an adapter whose input is open; otherwise
\* it fails, and its promise stays among those that wait for the exit.
Send(c, request) ==
  IF proc[c] = "up"
  THEN run' = [run EXCEPT ![c] = request] /\ UNCHANGED dangling
  ELSE run' = [run EXCEPT ![c] = "error"] /\ dangling' = dangling \cup {c}

Answers(c) ==
  /\ proc[c] \in {"up", "closing"} /\ run[c] \in AcpRequests
  /\ CASE run[c] = "initialize" -> Send(c, "session/new") /\ UNCHANGED replies
       [] run[c] = "session/new" -> Send(c, "session/prompt") /\ replies' = replies \cup {InboxRow("spawn", c)}
       [] run[c] = "session/prompt" -> run' = [run EXCEPT ![c] = "complete"] /\ UNCHANGED <<dangling, replies>>
  /\ UNCHANGED <<lapsed, endsLost, inbox, cursor, visits, proc, recent, puts, snags, unended, crashed>>

\* An error for an answer, or no session.
Refuses(c) ==
  /\ proc[c] \in {"up", "closing"} /\ run[c] \in AcpRequests
  /\ run' = [run EXCEPT ![c] = "error"]
  /\ UNCHANGED <<lapsed, endsLost, inbox, cursor, visits, proc, recent, dangling, replies, puts, snags, unended, crashed>>

\* Variant: a request has no time limit.
TimesOutNever(c) == FALSE /\ UNCHANGED adapterVars

TimesOut(c) ==
  /\ run[c] \in AcpRequests
  /\ run' = [run EXCEPT ![c] = "error"]
  /\ UNCHANGED <<lapsed, endsLost, inbox, cursor, visits, proc, recent, dangling, replies, puts, snags, unended, crashed>>

\* The agent's process ends: all that it remembers is gone, its adapters lose
\* their input.  It is started again and looks a minute back.
Dies ==
  /\ run' = [c \in Errands |-> "idle"]
  /\ proc' = [c \in Errands |-> "none"]
  /\ recent' = {} /\ dangling' = {} /\ replies' = {}
  /\ visits' = [v \in Inboxes |-> NoInboxPoll]
  /\ cursor' \in lapsed + 1..Len(inbox) + 1
  /\ unended' = unended \cup InFlight \cup {c \in Errands : ~Ended(c)}

\* The adapter exits: the request under way is rejected, and so is one that
\* could not be sent, whose rejection nobody handles.
Exits(c) ==
  /\ proc[c] \in {"up", "closing"}
  /\ IF c \in dangling
     THEN Dies /\ crashed' = TRUE
     ELSE /\ proc' = [proc EXCEPT ![c] = "none"]
          /\ run' = IF run[c] \in AcpRequests THEN [run EXCEPT ![c] = "error"] ELSE run
          /\ UNCHANGED <<cursor, visits, recent, dangling, replies, unended, crashed>>
  /\ UNCHANGED <<lapsed, endsLost, inbox, puts, snags>>

\* The reply that ends the task, and the end of dispatchOne(): the adapter's
\* input is closed, and the task remembered for a while.  A completion that
\* is not confirmed is followed by an error, an error by nothing.
Reply(c, ok, lands) ==
  /\ run[c] \in {"complete", "error"}
  /\ ok => lands
  /\ Does(ok)
  /\ inbox' = IF lands THEN Append(inbox, InboxRow(run[c], c)) ELSE inbox
  /\ IF ok \/ run[c] = "error"
     THEN /\ run' = [run EXCEPT ![c] = "idle"]
          /\ recent' = recent \cup {c}
          /\ proc' = IF proc[c] = "up" THEN [proc EXCEPT ![c] = "closing"] ELSE proc
          /\ visits' = [v \in Inboxes |-> IF visits[v].on THEN [visits[v] EXCEPT !.over = @ \cup {c}] ELSE visits[v]]
     ELSE run' = [run EXCEPT ![c] = "error"] /\ UNCHANGED <<recent, proc, visits>>
  /\ unended' = IF ok THEN unended ELSE unended \cup {c}
  /\ UNCHANGED <<lapsed, endsLost, cursor, dangling, replies, puts, crashed>>

\* COMPLETED_GRACE_MS later.  No poll takes so long.
Forget(c) ==
  /\ c \in recent /\ \A v \in Inboxes : c \notin visits[v].over
  /\ recent' = recent \ {c}
  /\ UNCHANGED <<lapsed, endsLost, inbox, cursor, visits, run, proc, dangling, replies, puts, snags, unended, crashed>>

Lands(r) ==
  /\ r \in replies
  /\ replies' = replies \ {r} /\ inbox' = Append(inbox, r)
  /\ UNCHANGED <<lapsed, endsLost, cursor, visits, memory, puts, snags, unended, crashed>>

IsLost(r) ==
  /\ r \in replies /\ Snag
  /\ replies' = replies \ {r}
  /\ UNCHANGED <<lapsed, endsLost, inbox, cursor, visits, memory, puts, unended, crashed>>

-----------------------------------------------------------------------------
\* The plugin is stopped and started again by the local page (index.js): the
\* adapters' inputs are closed, polls under way keep the cursor to themselves.
Reload ==
  /\ Snag
  /\ cursor' \in lapsed + 1..Len(inbox) + 1
  /\ visits' = [v \in Inboxes |-> [visits[v] EXCEPT !.old = visits[v].on]]
  /\ proc' = [c \in Errands |-> IF c \in InFlight /\ proc[c] = "up" THEN "closing" ELSE proc[c]]
  /\ unended' = unended \cup {c \in Errands : ~Ended(c) /\ run[c] = "idle"}
  /\ UNCHANGED <<lapsed, endsLost, inbox, run, recent, dangling, replies, puts, crashed>>

AgentComesBack == Snag /\ Dies /\ UNCHANGED <<lapsed, endsLost, inbox, puts, crashed>>

PollInbox(v) == PollStarts(v) \/ PollReturns(v)
Progress(c) == TimesOut(c) \/ Answers(c) \/ Refuses(c) \/ Reply(c, TRUE, TRUE)

AdaptersNext ==
  \/ Reload \/ AgentComesBack \/ EndAges
  \/ \E v \in Inboxes : PollInbox(v) \/ InboxFails(v)
  \/ \E r \in replies : Lands(r) \/ IsLost(r)
  \/ \E c \in Errands : \/ Approve(c) \/ Progress(c) \/ Exits(c) \/ Forget(c)
                        \/ \E lands \in BOOLEAN : Reply(c, FALSE, lands)

\* The timers of the polls, of the requests and of the agent's own calls.
AdaptersFairness ==
  /\ \A v \in Inboxes : WF_adapterVars(PollStarts(v)) /\ WF_adapterVars(PollReturns(v))
  /\ \A c \in Errands : /\ WF_adapterVars(TimesOut(c)) /\ WF_adapterVars(Reply(c, TRUE, TRUE))
                        /\ \A r \in {InboxRow("error", c)} : WF_adapterVars(Lands(r))
AdaptersSpec == AdaptersInit /\ [][AdaptersNext]_adapterVars
-----------------------------------------------------------------------------
\* Every variable has its type, and what the agent remembers of a task fits
\* together.
AdaptersTypeOK ==
  /\ inbox \in Seq([kind : {"dispatch", "spawn", "complete", "error"}, task : Errands])
  /\ cursor \in 0..Len(inbox) + 1 /\ lapsed \in 0..Len(inbox)
  /\ \A v \in Inboxes : visits[v].floor \in 0..Len(inbox) /\ (visits[v].on \/ visits[v] = NoInboxPoll)
  /\ run \in [Errands -> AcpRequests \cup {"idle", "complete", "error"}]
  /\ proc \in [Errands -> {"none", "up", "closing"}]
  /\ InFlight \cap recent \cap Commandless = {} /\ dangling \subseteq Errands
  /\ replies \subseteq [kind : {"spawn", "error"}, task : Errands]
  /\ puts \in [Errands -> Nat] /\ endsLost \in [Errands -> Nat]
  /\ snags \in 0..MaxSnags /\ unended \subseteq Errands /\ crashed \in BOOLEAN

\* A task is put to an adapter once more only if its end could not be written for
\* certain or the agent was started again before, or for an end of it that got out
\* of the window while its dispatch was still the one at the cursor.
AskedOnce == \A c \in Errands \ unended : puts[c] <= 1 + endsLost[c]

\* A dispatched task ends with a row, however its adapter fails or hangs,
\* unless the reply fails or a restart comes in between.
ErrandsEnd == \A c \in Errands : RowsOf({"dispatch"}, c, Len(inbox)) # {} ~> (Ended(c) \/ c \in unended)

\* "Agents that hang get a SIGTERM", the rest exits quietly (acp.js): the
\* plugin can be reloaded at any time without an end of the agent.
ReloadsAreQuiet == ~crashed
=============================================================================
