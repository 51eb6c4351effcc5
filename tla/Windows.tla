------------------------------ MODULE Windows ------------------------------
(* How the agent's kitty plugin puts a helper's prompts before a session     *)
(* (addons/agent/plugins/kitty.js).  The first dispatch of a task opens a    *)
(* window and waits until its input field is drawn; a later one goes into    *)
(* the window that is open.  Either way a prompt is typed, and submitted by  *)
(* a key press 800 ms later; nothing orders these two steps of different     *)
(* dispatches.  The end of a task, or a window that stays away for 15 s,     *)
(* closes the task to dispatches.                                            *)
EXTENDS Naturals, Sequences, FiniteSets
CONSTANTS
  Jobs,       \* correlations of tasks
  MaxOrders,  \* bound: dispatches
  MaxJams     \* bound: windows lost, calls of kitten that fail, displays missing
ASSUME WindowBounds == MaxOrders \in Nat /\ MaxJams \in Nat

VARIABLES
  orders,     \* the task of each dispatch, in the order they are taken up
  panes,      \* every window that was asked for
  opened,     \* openTasks: the window of each task, 0 for none
  finished,   \* knownCompletedCorrs
  injection,  \* for each dispatch, how far its prompt has come
  jams

windowVars == <<orders, panes, opened, finished, injection, jams>>

\* shape: refused for want of a display, starting without a socket, up with one,
\* ready with its input field drawn, gone.  old: 15 s have passed; late: 20 s.
\* line: what is typed and not submitted; sent: what was submitted.
\* clash: prompts overlapped, or a step failed, or the field was not waited for.
Pane(job, shape) == [job |-> job, shape |-> shape, old |-> FALSE, late |-> FALSE,
                     line |-> <<>>, sent |-> <<>>, clash |-> FALSE]
Alive(w) == w # 0 /\ panes[w].shape \in {"up", "ready"}
Orders == 1..Len(orders)
UnderWay(w) == {i \in Orders : injection[i].pane = w /\ injection[i].pc # "done"}
Jam == jams < MaxJams /\ jams' = jams + 1

WindowsInit ==
  /\ orders = <<>> /\ panes = <<>> /\ opened = [c \in Jobs |-> 0] /\ finished = {}
  /\ injection = <<>> /\ jams = 0
-----------------------------------------------------------------------------
Take(c, pane, pc) ==
  /\ Len(orders) < MaxOrders
  /\ orders' = Append(orders, c) /\ injection' = Append(injection, [pane |-> pane, pc |-> pc])

\* A task that is over takes no prompts any more.
Ignore(c) ==
  /\ c \in finished /\ Take(c, 0, "done")
  /\ UNCHANGED <<panes, opened, finished, jams>>

\* A later prompt of a task goes to the window whose socket is there.
Continue(c) ==
  /\ c \notin finished /\ Alive(opened[c])
  /\ Take(c, opened[c], "types")
  /\ panes' = [panes EXCEPT ![opened[c]].clash = @ \/ UnderWay(opened[c]) # {}]
  /\ UNCHANGED <<opened, finished, jams>>

\* Else a window is asked for, and entered for the task even if it is refused.
Open(c, display) ==
  /\ c \notin finished /\ ~Alive(opened[c])
  /\ IF display THEN UNCHANGED jams ELSE Jam
  /\ Take(c, Len(panes) + 1, IF display THEN "waits" ELSE "done")
  /\ panes' = Append(panes, Pane(c, IF display THEN "starting" ELSE "refused"))
  /\ opened' = [opened EXCEPT ![c] = Len(panes) + 1]
  /\ UNCHANGED finished
-----------------------------------------------------------------------------
Grows(w, from, to) ==
  /\ panes[w].shape = from /\ panes' = [panes EXCEPT ![w].shape = to]
  /\ UNCHANGED <<orders, opened, finished, injection, jams>>

Lost(w) ==
  /\ panes[w].shape \in {"starting", "up", "ready"} /\ Jam
  /\ panes' = [panes EXCEPT ![w].shape = "gone"]
  /\ UNCHANGED <<orders, opened, finished, injection>>

Ages(w) ==
  /\ ~panes[w].late
  /\ panes' = [panes EXCEPT ![w].old = TRUE, ![w].late = panes[w].old]
  /\ UNCHANGED <<orders, opened, finished, injection, jams>>

\* The field is drawn, or the wait for it is over after 20 s.
Waited(i) ==
  LET w == injection[i].pane
  IN  /\ injection[i].pc = "waits" /\ (panes[w].shape = "ready" \/ panes[w].late)
      /\ injection' = [injection EXCEPT ![i].pc = "types"]
      /\ panes' = [panes EXCEPT ![w].clash = @ \/ panes[w].shape # "ready"]
      /\ UNCHANGED <<orders, opened, finished, jams>>

\* Typing does nothing without the socket.  What is typed before the field is drawn
\* may be read by it later or not at all.
Types(i, ok, kept) ==
  LET w == injection[i].pane
      into == ok /\ Alive(w)
  IN  /\ injection[i].pc = "types"
      /\ IF ok THEN UNCHANGED jams ELSE Jam
      /\ kept \/ (ok /\ panes[w].shape = "up")
      /\ injection' = [injection EXCEPT ![i].pc = IF into THEN "enters" ELSE "done"]
      /\ panes' = IF into /\ kept THEN [panes EXCEPT ![w].line = Append(@, i)]
                  ELSE [panes EXCEPT ![w].clash = @ \/ ~ok]
      /\ UNCHANGED <<orders, opened, finished>>

\* 800 ms later, the key that submits the line, whoever typed it.
PressesEnter(i, ok) ==
  LET w == injection[i].pane
      pressed == ok /\ panes[w].shape = "ready"
  IN  /\ injection[i].pc = "enters"
      /\ IF ok THEN UNCHANGED jams ELSE Jam
      /\ injection' = [injection EXCEPT ![i].pc = "done"]
      /\ panes' = IF pressed THEN [panes EXCEPT ![w].sent = Append(@, panes[w].line), ![w].line = <<>>]
                  ELSE [panes EXCEPT ![w].clash = TRUE]
      /\ UNCHANGED <<orders, opened, finished>>
-----------------------------------------------------------------------------
\* A poll that finds the end of a task closes its window, if there is a socket.
Completed(c) ==
  /\ finished' = finished \cup {c} /\ opened' = [opened EXCEPT ![c] = 0]
  /\ panes' = IF Alive(opened[c]) THEN [panes EXCEPT ![opened[c]].shape = "gone"] ELSE panes
  /\ UNCHANGED <<orders, injection, jams>>

\* A task whose socket is not there after 15 s is given up.
Abandon(c) ==
  LET w == opened[c]
  IN  /\ w # 0 /\ ~Alive(w) /\ panes[w].old
      /\ finished' = finished \cup {c} /\ opened' = [opened EXCEPT ![c] = 0]
      /\ UNCHANGED <<orders, panes, injection, jams>>

WindowsNext ==
  \/ \E c \in Jobs : Ignore(c) \/ Continue(c) \/ Open(c, TRUE) \/ Open(c, FALSE) \/ Abandon(c)
                     \/ (c \notin finished /\ c \in {orders[i] : i \in Orders} /\ Completed(c))
  \/ \E w \in DOMAIN panes : Grows(w, "starting", "up") \/ Grows(w, "up", "ready") \/ Lost(w) \/ Ages(w)
  \/ \E i \in Orders : \/ Waited(i)
                       \/ \E ok, kept \in BOOLEAN : Types(i, ok, kept)
                       \/ \E ok \in BOOLEAN : PressesEnter(i, ok)

WindowsSpec == WindowsInit /\ [][WindowsNext]_windowVars
-----------------------------------------------------------------------------
WindowsTypeOK ==
  /\ orders \in Seq(Jobs) /\ Len(injection) = Len(orders)
  /\ \A i \in Orders : injection[i].pc \in {"waits", "types", "enters", "done"}
  /\ \A w \in DOMAIN panes : panes[w].shape \in {"refused", "starting", "up", "ready", "gone"}
  /\ \A c \in Jobs : opened[c] # 0 => panes[opened[c]].job = c
  /\ jams \in 0..MaxJams

\* While no prompts overlap and no step fails, a window is sent its task's prompts
\* only, one at a time, in the order of the dispatches.
PromptsAreWhole ==
  \A w \in DOMAIN panes :
    LET sent == panes[w].sent
    IN  ~panes[w].clash =>
          /\ \A k \in DOMAIN sent : Len(sent[k]) = 1 /\ orders[sent[k][1]] = panes[w].job
          /\ \A k \in DOMAIN sent : k > 1 => sent[k - 1][1] < sent[k][1]

\* However they overlap, no prompt is typed twice.
LineAt(w, k) == IF k = 0 THEN panes[w].line ELSE IF k <= Len(panes[w].sent) THEN panes[w].sent[k] ELSE <<>>
PlacesOf(i) == {at \in (DOMAIN panes) \X (0..MaxOrders) : \E n \in DOMAIN LineAt(at[1], at[2]) : LineAt(at[1], at[2])[n] = i}
TypedOnce == \A i \in Orders : Cardinality(PlacesOf(i)) <= 1

\* Stated for the reader, and broken: the prompts of a task share its window.  A
\* dispatch that comes before the socket opens a second one.
OneWindowATask ==
  \A v, w \in DOMAIN panes :
    panes[v].job = panes[w].job /\ panes[v].shape \in {"starting", "up", "ready"}
    /\ panes[w].shape \in {"starting", "up", "ready"} => v = w
\* Stated for the reader, and broken: what is submitted is one prompt.
LinesArePrompts == \A w \in DOMAIN panes : \A k \in DOMAIN panes[w].sent : Len(panes[w].sent[k]) = 1
\* Stated for the reader, and broken: a task that was given up is not begun.  A
\* window that takes between 15 and 20 s still gets its prompt.
OverIsOver == [][\A i \in Orders : injection[i].pc = "waits" /\ injection'[i].pc = "types" => orders[i] \notin finished]_windowVars
=============================================================================
