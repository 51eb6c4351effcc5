------------------------------- MODULE Helpers -------------------------------
(***************************************************************************)
(* A helper task from its dispatch to the message that wakes Fathom:       *)
(*   - the inbox of the host (api/routes/helpers.py),                      *)
(*   - the agent's kitty plugin, which polls it, opens a window with a     *)
(*     session per task, joins the session to the task and reports windows *)
(*     that vanish (addons/agent/plugins/kitty.js, inbox.js),              *)
(*   - the watcher, which polls the delta store and puts the end of a task *)
(*     into the thread (api/loop/claude_code_watcher.py).                  *)
(* They talk through rows of the delta store only.  A row's place in the   *)
(* log stands for its timestamp.  Limits of queries (50 to 500 rows) and   *)
(* the 24 hours of the inbox are not reached; tasks have one dispatch row. *)
(***************************************************************************)
EXTENDS Naturals, Sequences, FiniteSets

CONSTANTS
  Tasks,      \* correlations of approved dispatches
  Polls,      \* polls of the agent that can be under way at once
  MaxSays,    \* bound: replies of a session
  MaxTrouble  \* bound: calls that fail, restarts, windows lost

VARIABLES
  log,        \* rows of the delta store, oldest first
  window,     \* the window of each task on the agent's machine
  open,       \* openTasks: how far the agent has got with each task
  known,      \* knownCompletedCorrs
  seen,       \* state.task_seen_at, in memory
  saved,      \* the same in the state file
  poll,       \* what each poll has received so far
  posts,      \* replies the agent has on their way to the inbox
  prompts,    \* history: how often each task was put to a session
  watcher,    \* the watcher's task: where it stands and what it has read
  minted,     \* _last_minted, 0 where it has no entry
  wakes,     \* the rows whose messages are in the thread, in order
  trouble,    \* things gone wrong so far (bounds the environment)
  spoilt,     \* history: which tasks a failure has touched, and how
  rewound     \* history: tasks whose dispatch a late poll has moved the cursor back behind

agentVars == <<window, open, known, seen, saved, poll, posts, prompts, rewound>>
watcherVars == <<watcher, minted, wakes>>
helperVars == <<log, agentVars, watcherVars, trouble, spoilt>>

\* The kinds of rows: a dispatch; the first hook of a session, which carries
\* the task's mark; the join of session and task; a session's reply; and the
\* ends of a task, written by the session, with text or without any, or by the
\* agent.
RowKinds == {"dispatch", "hook", "spawn", "says", "complete", "blank", "abandoned"}
Closures == {"complete", "blank"}
Ends == Closures \cup {"abandoned"}

Places(kinds, c, n) == {i \in 1..n : log[i].kind \in kinds /\ log[i].task = c}
Has(kinds, c) == Places(kinds, c, Len(log)) # {}
Top(S) == IF S = {} THEN 0 ELSE CHOOSE x \in S : \A y \in S : y <= x

Append1(kind, c) == log' = Append(log, [kind |-> kind, task |-> c])

NoPoll == [on |-> FALSE, since |-> 0, floor |-> 0]
Nothing == [c \in Tasks |-> 0]
Asleep == [at |-> "sleep", floor |-> 0, active |-> {}, closing |-> Nothing, hand |-> 0]

HelpersInit ==
  /\ log = << >>
  /\ window = [c \in Tasks |-> "none"] /\ open = [c \in Tasks |-> "no"]
  /\ known = {} /\ seen = 0 /\ saved = 0
  /\ poll = [p \in Polls |-> NoPoll] /\ posts = {}
  /\ prompts = [c \in Tasks |-> 0] /\ rewound = {}
  /\ watcher = [Asleep EXCEPT !.at = "prime"]
  /\ minted = [c \in Tasks |-> 0] /\ wakes = << >>
  /\ trouble = 0 /\ spoilt = {}

Trouble == trouble < MaxTrouble /\ trouble' = trouble + 1
Spoil(ok, what) ==
  IF ok THEN UNCHANGED <<trouble, spoilt>> ELSE Trouble /\ spoilt' = spoilt \cup what

-----------------------------------------------------------------------------
(* What happens outside: approvals, windows and sessions.                  *)

\* approve_helper_dispatch() writes the dispatch under a new correlation.
Dispatch(c) ==
  /\ ~Has({"dispatch"}, c)
  /\ Append1("dispatch", c)
  /\ UNCHANGED <<agentVars, watcherVars, trouble, spoilt>>

\* The window's input field is ready and the prompt is submitted: the session
\* pushes its first hook row.
SessionStarts(c) ==
  /\ window[c] = "starting"
  /\ window' = [window EXCEPT ![c] = "up"]
  /\ Append1("hook", c)
  /\ UNCHANGED <<open, known, seen, saved, poll, posts, prompts, rewound, watcherVars, trouble, spoilt>>

SessionSays(c) ==
  /\ window[c] = "up"
  /\ Cardinality(Places({"says"}, c, Len(log))) < MaxSays
  /\ Append1("says", c)
  /\ UNCHANGED <<agentVars, watcherVars, trouble, spoilt>>

\* The session writes the closure the prompt asks for, once.
SessionCompletes(c) ==
  /\ window[c] = "up" /\ ~Has(Closures, c)
  /\ \E kind \in Closures : Append1(kind, c)
  /\ UNCHANGED <<agentVars, watcherVars, trouble, spoilt>>

\* The window never comes up, is closed by hand, or crashes.
WindowLost(c) ==
  /\ window[c] \in {"starting", "up"}
  /\ Trouble
  /\ window' = [window EXCEPT ![c] = "gone"]
  /\ UNCHANGED <<log, open, known, seen, saved, poll, posts, prompts, rewound, watcherVars, spoilt>>

-----------------------------------------------------------------------------
(* The agent: a poll is three concurrent reads, then one turn of its event *)
(* loop.  What a read returns is the log as it was at some moment between. *)

\* pollOnce() starts on a timer, whether or not the last one has returned.
PollStart(p) ==
  /\ ~poll[p].on
  /\ poll' = [poll EXCEPT ![p] = [on |-> TRUE, since |-> seen, floor |-> Len(log)]]
  /\ UNCHANGED <<log, window, open, known, seen, saved, posts, prompts, rewound, watcherVars, trouble, spoilt>>

\* get_inbox(): the dispatches at or after the cursor, without those of tasks
\* that ended with a row carrying the host, which the agent's reports do and
\* the sessions' own closures do not.
Pending(since, n) ==
  {c \in Tasks : (\E i \in Places({"dispatch"}, c, n) : i >= since) /\ Places({"abandoned"}, c, n) = {}}
Latest(since, n) == Top({since} \cup {i \in 1..n : log[i].kind = "dispatch" /\ i >= since})
DispatchPlace(c) == Top(Places({"dispatch"}, c, Len(log)))

\* A read of ends or hooks fails: the whole poll is dropped.
PollFails(p) ==
  /\ poll[p].on
  /\ Trouble
  /\ poll' = [poll EXCEPT ![p] = NoPoll]
  /\ UNCHANGED <<log, window, open, known, seen, saved, posts, prompts, rewound, watcherVars, spoilt>>

\* Variant: the guard on the cursor is left to the server.
FreshServerSide(items) == items \ known

\* dispatchClaudeCodeTask() for the items after the cursor: tasks known to
\* have ended are ignored, the others are put into their open window, or into
\* a new one.
Fresh(items) == {c \in items : DispatchPlace(c) > seen /\ c \notin known}

\* Variant: a window that is gone is only forgotten.
LostTasksForgotten(opened) == {}

\* The windows that are gone although their tasks have no end.
LostTasks(opened) == {c \in opened : window[c] = "gone"}

\* What pollOnce() does with the three answers: dispatch, join sessions with
\* the tasks that wait for one, close the windows of ended tasks, report the
\* windows that are gone, forget the aged tasks (6 hours), save the cursor.
HandleAnswers(items, cursor, ended, hooks, aged) ==
  LET fresh    == Fresh(items)
      isOpen   == {c \in Tasks : open[c] # "no"}
      spawning == fresh \ {c \in isOpen : window[c] = "up"}
      joined   == {c \in hooks \ spawning : open[c] = "waiting"}
      closed   == (isOpen \cup spawning) \cap ended
      vanished == LostTasks((isOpen \ closed) \ spawning)
  IN  /\ prompts' = [c \in Tasks |-> prompts[c] + IF c \in fresh THEN 1 ELSE 0]
      /\ window' = [c \in Tasks |->
           IF c \in closed THEN "gone" ELSE IF c \in spawning THEN "starting" ELSE window[c]]
      /\ open' = [c \in Tasks |->
           IF c \in closed \cup vanished \cup aged THEN "no"
           ELSE IF c \in joined THEN "joined"
           ELSE IF c \in spawning THEN "waiting" ELSE open[c]]
      /\ known' = known \cup ended \cup vanished
      /\ posts' = posts \cup {[kind |-> "spawn", task |-> c] : c \in joined}
                        \cup {[kind |-> "abandoned", task |-> c] : c \in vanished}
      /\ seen' = cursor
      /\ rewound' = rewound \cup {c \in Tasks : cursor < DispatchPlace(c) /\ DispatchPlace(c) <= seen}
      /\ saved' = IF items # {} THEN seen' ELSE saved

Since(p) == poll[p].floor..Len(log)
Reads(p, kinds) == {{c \in Tasks : Places(kinds, c, n) # {}} : n \in Since(p)}

PollTurn(p, aged) ==
  /\ poll[p].on
  /\ aged \subseteq {c \in Tasks : open[c] # "no"}
  /\ Spoil(aged = {}, {<<"abandoned", c>> : c \in aged})
  /\ \E i \in Since(p), ended \in Reads(p, Ends), hooks \in Reads(p, {"hook"}) :
       HandleAnswers(Pending(poll[p].since, i), Latest(poll[p].since, i), ended, hooks, aged)
  /\ poll' = [poll EXCEPT ![p] = NoPoll]
  /\ UNCHANGED <<log, watcherVars>>

\* The inbox cannot be read: no items, and the cursor as it was by then.
PollTurnBlind(p) ==
  /\ poll[p].on
  /\ Spoil(FALSE, {})
  /\ \E cursor \in {poll[p].since, seen}, ended \in Reads(p, Ends), hooks \in Reads(p, {"hook"}) :
       HandleAnswers({}, cursor, ended, hooks, {})
  /\ poll' = [poll EXCEPT ![p] = NoPoll]
  /\ UNCHANGED <<log, watcherVars>>

\* post_reply() writes the row, or the call fails and is only logged.
PostLands(r) ==
  /\ r \in posts
  /\ posts' = posts \ {r}
  /\ Append1(r.kind, r.task)
  /\ UNCHANGED <<window, open, known, seen, saved, poll, prompts, rewound, watcherVars, trouble, spoilt>>

PostFails(r) ==
  /\ r \in posts
  /\ Spoil(FALSE, {<<r.kind, r.task>>})
  /\ posts' = posts \ {r}
  /\ UNCHANGED <<log, window, open, known, seen, saved, poll, prompts, rewound, watcherVars>>

\* The agent starts again: windows live on, but it knows none of them.  It
\* resumes from the state file, which is written with every item and when the
\* agent is stopped; without one it starts from now.
AgentRestart ==
  /\ Spoil(FALSE, {<<"abandoned", c>> : c \in {x \in Tasks : open[x] # "no"}}
                  \cup {<<r.kind, r.task>> : r \in posts})
  /\ open' = [c \in Tasks |-> "no"] /\ known' = {}
  /\ seen' \in {seen, IF saved = 0 THEN Len(log) ELSE saved} /\ saved' \in {saved, seen}
  /\ poll' = [p \in Polls |-> NoPoll] /\ posts' = {}
  /\ UNCHANGED <<log, window, prompts, rewound, watcherVars>>

-----------------------------------------------------------------------------
(* The watcher.                                                            *)

Watch(w) ==
  /\ watcher' = w
  /\ UNCHANGED <<log, agentVars, minted, wakes, trouble, spoilt>>

\* _prime_last_minted(): ends of tasks are taken for dealt with; tasks without
\* an end get the time at which priming began.  It is repeated until both
\* queries succeed.
PrimeEnds ==
  /\ watcher.at = "prime"
  /\ watcher' = [watcher EXCEPT !.at = "primeSpawns", !.floor = Len(log)]
  /\ minted' = [c \in Tasks |-> Top({minted[c]} \cup Places(Ends, c, Len(log)))]
  /\ UNCHANGED <<log, agentVars, wakes, trouble, spoilt>>

PrimeSpawns ==
  /\ watcher.at = "primeSpawns"
  /\ watcher' = Asleep
  /\ minted' = [c \in Tasks |->
       IF minted[c] = 0 /\ Has({"spawn"}, c) THEN watcher.floor ELSE minted[c]]
  /\ UNCHANGED <<log, agentVars, wakes, trouble, spoilt>>

PrimeFails ==
  /\ watcher.at = "primeSpawns"
  /\ Trouble
  /\ watcher' = [watcher EXCEPT !.at = "prime"]
  /\ UNCHANGED <<log, agentVars, minted, wakes, spoilt>>

TickStart == watcher.at = "sleep" /\ Watch([Asleep EXCEPT !.at = "gather", !.floor = Len(log)])

GatherFails ==
  /\ watcher.at = "gather"
  /\ Trouble
  /\ watcher' = Asleep
  /\ UNCHANGED <<log, agentVars, minted, wakes, spoilt>>

\* The newest end among the rows read; the agent's reports carry both tags.
Closure(c, completes, abandons) ==
  Top(Places(Ends, c, completes) \cup Places({"abandoned"}, c, abandons))

\* _correlation_state(): three concurrent queries, each of which reads the log
\* as it is at a moment of its own.  Nothing joined: nothing to do.
Gathered ==
  /\ watcher.at = "gather"
  /\ \E spawns, completes, abandons \in watcher.floor..Len(log) :
       LET joined == {c \in Tasks : Places({"spawn"}, c, spawns) # {}}
           end(c) == Closure(c, completes, abandons)
       IN  Watch(IF joined = {} THEN Asleep
                 ELSE [Asleep EXCEPT !.at = "tick", !.active = {c \in joined : end(c) = 0},
                        !.closing = [c \in Tasks |-> IF c \in joined THEN end(c) ELSE 0]])

\* An active task: intents for the session's replies since the last one, or
\* since the join.
Replies(c) ==
  {i \in Places({"says"}, c, Len(log)) :
     i > IF minted[c] # 0 THEN minted[c] ELSE Top(Places({"spawn"}, c, Len(log)))}

WatchActive(c) ==
  /\ c \in watcher.active
  /\ watcher' = [watcher EXCEPT !.active = @ \ {c}]
  /\ minted' = [minted EXCEPT ![c] = Top({@} \cup Replies(c))]
  /\ UNCHANGED <<log, agentVars, wakes, trouble, spoilt>>

\* The query or the intent fails: the replies are left for the next tick.
WatchActiveFails(c) ==
  /\ c \in watcher.active /\ Replies(c) # {}
  /\ Trouble
  /\ watcher' = [watcher EXCEPT !.active = @ \ {c}]
  /\ UNCHANGED <<log, agentVars, minted, wakes, spoilt>>

\* Variant: the floor is not consulted.
IsNewAlways(c) == TRUE

\* Variant: a task with an intent is taken for one that has been closed.
IsNewUnlessMinted(c) == minted[c] = 0

IsNew(c) == minted[c] < watcher.closing[c]

\* Variant: the closure stays in hand when its intent cannot be minted.
AfterIntentStuck(c, ok) ==
  [watcher EXCEPT !.closing[c] = 0, !.hand = IF ok THEN watcher.closing[c] ELSE Len(log) + 1]

AfterIntent(c, ok) == [watcher EXCEPT !.closing[c] = 0, !.hand = watcher.closing[c]]

\* A task with an end: the closure is mirrored into the puddle and minted as
\* an intent, unless that is done already.  One without text is passed over.
WatchClosing(c, ok) ==
  /\ watcher.active = {} /\ watcher.hand = 0 /\ watcher.closing[c] # 0
  /\ IF IsNew(c) /\ log[watcher.closing[c]].kind # "blank"
     THEN /\ Spoil(ok, {<<"mint", c>>})
          /\ minted' = IF ok THEN [minted EXCEPT ![c] = watcher.closing[c]] ELSE minted
          /\ watcher' = AfterIntent(c, ok)
     ELSE /\ ok
          /\ minted' = IF IsNew(c) THEN [minted EXCEPT ![c] = watcher.closing[c]] ELSE minted
          /\ watcher' = [watcher EXCEPT !.closing[c] = 0]
          /\ UNCHANGED <<trouble, spoilt>>
  /\ UNCHANGED <<log, agentVars, wakes>>

\* Then, whether or not the intent was minted, it is put into the thread.
WatchAppend(ok) ==
  /\ watcher.hand # 0
  /\ Spoil(ok, {<<"append", log[watcher.hand].task>>})
  /\ wakes' = IF ok THEN Append(wakes, watcher.hand) ELSE wakes
  /\ watcher' = [watcher EXCEPT !.hand = 0]
  /\ UNCHANGED <<log, agentVars, minted>>

TickDone ==
  /\ watcher.at = "tick" /\ watcher.active = {} /\ watcher.closing = Nothing /\ watcher.hand = 0
  /\ Watch(Asleep)

\* The api starts again; the task in hand does not get its message.
WatcherRestart ==
  /\ Spoil(FALSE, {<<"append", c>> : c \in {x \in Tasks : watcher.hand # 0 /\ log[watcher.hand].task = x}})
  /\ watcher' = [Asleep EXCEPT !.at = "prime"]
  /\ minted' = [c \in Tasks |-> 0]
  /\ UNCHANGED <<log, agentVars, wakes>>

-----------------------------------------------------------------------------
Session ==
  \E c \in Tasks :
    Dispatch(c) \/ SessionStarts(c) \/ SessionSays(c) \/ SessionCompletes(c) \/ WindowLost(c)

Agent(p) == PollStart(p) \/ PollTurn(p, {})
Deliver == \E r \in posts : PostLands(r)

Watcher ==
  \/ PrimeEnds \/ PrimeSpawns \/ TickStart \/ Gathered \/ WatchAppend(TRUE) \/ TickDone
  \/ \E c \in Tasks : WatchActive(c) \/ WatchClosing(c, TRUE)

Failures ==
  \/ \E p \in Polls : PollTurnBlind(p) \/ PollFails(p) \/ \E c \in Tasks : PollTurn(p, {c})
  \/ \E r \in posts : PostFails(r)
  \/ AgentRestart \/ PrimeFails \/ GatherFails \/ WatcherRestart \/ WatchAppend(FALSE)
  \/ \E c \in Tasks : WatchActiveFails(c) \/ WatchClosing(c, FALSE)

HelpersNext == Session \/ (\E p \in Polls : Agent(p)) \/ Deliver \/ Watcher \/ Failures

\* Timers drive the agent and the watcher, and a call returns; sessions and
\* operators do as they please.
Fairness == WF_helperVars(Watcher) /\ WF_helperVars(Deliver) /\ \A p \in Polls : WF_helperVars(Agent(p))
HelpersSpec == HelpersInit /\ [][HelpersNext]_helperVars /\ Fairness
-----------------------------------------------------------------------------
Rows == [kind : RowKinds, task : Tasks]
Spots == 0..Len(log)
\* Every variable has its type: cursors and floors lie in the log, a poll holds
\* a moment before now, the watcher works on tasks only between its
\* queries and its sleep, and only ends of tasks get into the thread.
HelpersTypeOK ==
  /\ log \in Seq(Rows)
  /\ window \in [Tasks -> {"none", "starting", "up", "gone"}]
  /\ open \in [Tasks -> {"no", "waiting", "joined"}]
  /\ known \subseteq Tasks /\ seen \in Spots /\ saved \in Spots
  /\ poll \in [Polls -> [on : BOOLEAN, since : Spots, floor : Spots]]
  /\ posts \subseteq [kind : {"spawn", "abandoned"}, task : Tasks]
  /\ rewound \subseteq Tasks /\ prompts \in [Tasks -> Nat] /\ minted \in [Tasks -> Spots]
  /\ watcher \in [at : {"prime", "primeSpawns", "sleep", "gather", "tick"}, floor : Spots,
                  active : SUBSET Tasks, closing : [Tasks -> Spots], hand : Spots]
  /\ \A i \in 1..Len(wakes) : log[wakes[i]].kind \in Ends
  /\ trouble \in 0..MaxTrouble

\* A task is put to a session once, although the inbox returns its dispatch
\* again and again and the agent may have to start over, unless a poll that was
\* overtaken by a later one has moved the cursor back behind the dispatch.
PutToSessionsOnce == \A c \in Tasks : prompts[c] <= 1 \/ c \in rewound

\* The end of a task wakes Fathom once, over all ticks and restarts of the api,
\* unless its intent could not be minted.
WokenOnce ==
  \A i, j \in 1..Len(wakes) :
    (wakes[i] = wakes[j] /\ <<"mint", log[wakes[i]].task>> \notin spoilt) => i = j

\* A helper task acts once at either end: its dispatch is put to one session
\* and its end wakes Fathom once, over failed calls, overlapping polls and the
\* restarts of the agent and the api.
HelpersActOnce == PutToSessionsOnce /\ WokenOnce

\* A window that is lost while the agent looks after it ends its task.
LostWindowsAreReported ==
  \A c \in Tasks :
    (window[c] = "gone" /\ open[c] # "no") ~> (Has(Ends, c) \/ <<"abandoned", c>> \in spoilt)

\* The watcher is to take up an end of the task.
NewEnd(c) ==
  /\ watcher.at \notin {"prime", "primeSpawns"}
  /\ Has({"spawn"}, c) /\ minted[c] < Top(Places(Ends, c, Len(log)))
Woken(c) == \E i \in 1..Len(wakes) : log[wakes[i]].task = c
Primed == watcher.at = "prime"

\* The newest end of the task is without text.
EndsBlank(c) == \E i \in Places({"blank"}, c, Len(log)) : i = Top(Places(Ends, c, Len(log)))

\* The end of a joined task wakes Fathom, unless it is without text, the watcher
\* is started again or the message cannot be written.
EndsWake ==
  \A c \in Tasks : NewEnd(c) ~> (Woken(c) \/ Primed \/ <<"append", c>> \in spoilt \/ EndsBlank(c))

\* The same where the session says nothing more after its closure.
LastEndsWake ==
  \A c \in Tasks :
    NewEnd(c) ~> \/ Woken(c) \/ Primed \/ <<"append", c>> \in spoilt \/ EndsBlank(c)
                 \/ Top(Places({"says"}, c, Len(log))) > Top(Places(Closures, c, Len(log)))
=============================================================================
