------------------------------ MODULE Watchers ------------------------------
(***************************************************************************)
(* The agent's sources: the Home Assistant plugin polls states             *)
(* (plugins/homeassistant.js), the vault plugin watches notes              *)
(* (plugins/vault.js), both push what differs from what they have seen, on *)
(* the pusher's queue.  What they have seen is an object per start of the  *)
(* plugin and a file.  The local page changes the configuration and has    *)
(* index.js stop the plugin and start it with the new one (local-ui.js);   *)
(* polls that are under way go on with the object of their start.          *)
(*                                                                         *)
(* An instance is one thing, an entity or a note; images are left out, and *)
(* so is what the pusher does to a delta (Pusher).                         *)
(***************************************************************************)
EXTENDS Naturals, Sequences, SequencesExt

CONSTANTS
  Things,    \* what can be watched
  Rounds,    \* polls that can be under way at once
  MaxStarts, \* bound: starts of the plugin
  MaxTurns   \* bound: changes of the things, and of the configuration

ASSUME WatchersBounds == MaxStarts \in Nat \ {0}

VARIABLES
  plugin,  \* "entities" or "notes"
  world,   \* the things: 0 where there is none, else a value
  config,  \* agent.json: is the plugin enabled, and what it watches
  starts,  \* starts of the plugin so far, 0 before the first
  running, \* does the last start run, and with which things?
  objects, \* the object of each start: the value seen last, 0 for none
  stateJson, \* the state file
  round,   \* the polls under way
  reported, \* notes: what the watcher has reported last
  waiting, \* the pusher's queue
  stories, \* the rows of each thing in the lake
  changes, \* changes so far (bounds the environment)
  astray   \* history: things whose rows are excused

watchersVars == <<plugin, world, config, starts, running, objects, stateJson, round, reported, waiting, stories, changes, astray>>
unwatched == <<plugin, changes, config, starts, running>>

Values == {0, 1, 2}
NoneSeen == [t \in Things |-> 0]
NoRound == [on |-> FALSE, start |-> 0, thing |-> 0, read |-> FALSE, value |-> 0]
Seen == objects[starts]

WatchersInit ==
  /\ plugin \in {"entities", "notes"}
  /\ world = [t \in Things |-> 1]
  /\ config = [enabled |-> TRUE, things |-> Things]
  /\ starts = 1 /\ running = Things
  /\ objects = [s \in 1..MaxStarts |-> NoneSeen] /\ stateJson = NoneSeen
  /\ round = [r \in Rounds |-> NoRound]
  /\ reported = NoneSeen /\ waiting = << >>
  /\ stories = [t \in Things |-> << >>]
  /\ changes = 0 /\ astray = {}

Turn == changes < MaxTurns /\ changes' = changes + 1

\* The thing changes, or is deleted.
Changes(t) ==
  /\ Turn
  /\ \E v \in Values \ {world[t]} : world' = [world EXCEPT ![t] = v]
  /\ UNCHANGED <<plugin, config, starts, running, objects, stateJson, round, reported, waiting, stories, astray>>

\* The pusher posts the head of its queue.
Posted ==
  /\ waiting # << >>
  /\ LET d == Head(waiting) IN stories' = [stories EXCEPT ![d.thing] = Append(@, d.value)]
  /\ waiting' = Tail(waiting)
  /\ UNCHANGED <<unwatched, world, objects, stateJson, round, reported, astray>>

PushChange(t, v) == waiting' = Append(waiting, [thing |-> t, value |-> v])

-----------------------------------------------------------------------------
(* Entities: pollInstance() in a tick.                                     *)

TickStarts(r, t) ==
  /\ plugin = "entities" /\ t \in running /\ ~round[r].on
  /\ round' = [round EXCEPT ![r] = [NoRound EXCEPT !.on = TRUE, !.start = starts, !.thing = t]]
  /\ UNCHANGED <<unwatched, world, objects, stateJson, reported, waiting, stories, astray>>

TickReads(r) ==
  /\ round[r].on /\ ~round[r].read
  /\ round' = [round EXCEPT ![r].read = TRUE, ![r].value = world[round[r].thing]]
  /\ UNCHANGED <<unwatched, world, objects, stateJson, reported, waiting, stories, astray>>

\* Variant: the file is only written when the plugin is stopped.
SavedOnStop(object) == stateJson

Saved(object) == object

\* The value is pushed if it is not the one seen last, and the object saved;
\* an entity that is not there is passed over.  A poll of an earlier start
\* does so with its own object.
TickReturns(r) ==
  /\ round[r].on /\ round[r].read
  /\ LET k == round[r].start
         t == round[r].thing
         v == round[r].value
     IN  /\ IF v # 0 /\ v # objects[k][t]
            THEN objects' = [objects EXCEPT ![k][t] = v] /\ PushChange(t, v)
            ELSE UNCHANGED <<objects, waiting>>
         /\ stateJson' = Saved(objects'[k])
         /\ astray' = IF k = starts THEN astray ELSE Things
  /\ round' = [round EXCEPT ![r] = NoRound]
  /\ UNCHANGED <<unwatched, world, reported, stories>>

\* The poll fails, and the object is saved as it is.
TickFails(r) ==
  /\ round[r].on
  /\ Turn
  /\ stateJson' = Saved(objects[round[r].start])
  /\ astray' = IF round[r].start = starts THEN astray ELSE Things
  /\ round' = [round EXCEPT ![r] = NoRound]
  /\ UNCHANGED <<plugin, world, config, starts, running, objects, reported, waiting, stories>>

-----------------------------------------------------------------------------
(* Notes: handleFile(), handleDelete(), and the timer that saves.          *)

NoteChanged(t) ==
  /\ plugin = "notes" /\ t \in running /\ reported[t] # world[t]
  /\ reported' = [reported EXCEPT ![t] = world[t]]
  /\ IF Seen[t] # world[t] \/ world[t] = 0
     THEN objects' = [objects EXCEPT ![starts][t] = world[t]] /\ PushChange(t, world[t])
     ELSE UNCHANGED <<objects, waiting>>
  /\ UNCHANGED <<unwatched, world, stateJson, round, stories, astray>>

Persists ==
  /\ plugin = "notes" /\ running # {} /\ stateJson # Seen
  /\ stateJson' = Seen
  /\ UNCHANGED <<unwatched, world, objects, round, reported, waiting, stories, astray>>

-----------------------------------------------------------------------------
(* local-ui.js and reloadPlugin()                                          *)

\* A start takes the state file for its object, and a watcher reports all
\* notes that are there.  A plugin without things does nothing.
Starts(c, saved) ==
  /\ starts < MaxStarts /\ starts' = starts + 1
  /\ running' = IF c.enabled THEN c.things ELSE {}
  /\ objects' = [objects EXCEPT ![starts + 1] = saved]
  /\ reported' = NoneSeen

\* A change of agent.json is followed by a stop, which saves the object, and a
\* start.
EditConfig(c) ==
  /\ c # config
  /\ Turn
  /\ config' = c
  /\ stateJson' = IF running # {} THEN Seen ELSE stateJson
  /\ Starts(c, stateJson')
  /\ UNCHANGED <<plugin, world, round, waiting, stories, astray>>

EnablePlugin == EditConfig([config EXCEPT !.enabled = ~@])
AddInstance(t) == EditConfig([config EXCEPT !.things = @ \cup {t}])
DeleteInstance(t) == EditConfig([config EXCEPT !.things = @ \ {t}])

\* The agent ends and is started again; what waits in the queue is gone.  An
\* interrupt stops the plugins first.  A file cut off in the middle of a write
\* counts as empty.
AgentRestarts(interrupt, cut) ==
  /\ Turn
  /\ ~(interrupt /\ cut)
  /\ stateJson' = IF cut THEN NoneSeen ELSE IF interrupt /\ running # {} THEN Seen ELSE stateJson
  /\ Starts(config, stateJson')
  /\ astray' = CASE cut -> Things
                 [] OTHER -> astray \cup {waiting[i].thing : i \in DOMAIN waiting}
                                    \cup {t \in Things : plugin = "notes" /\ stateJson'[t] # Seen[t]}
  /\ waiting' = << >> /\ round' = [r \in Rounds |-> NoRound]
  /\ UNCHANGED <<plugin, world, config, stories>>

WatchersNext ==
  \/ Posted \/ Persists \/ EnablePlugin
  \/ \E t \in Things : Changes(t) \/ NoteChanged(t) \/ AddInstance(t) \/ DeleteInstance(t)
  \/ \E r \in Rounds : TickReads(r) \/ TickReturns(r) \/ TickFails(r) \/ \E t \in Things : TickStarts(r, t)
  \/ \E interrupt, cut \in BOOLEAN : AgentRestarts(interrupt, cut)

WatchersSpec == WatchersInit /\ [][WatchersNext]_watchersVars
-----------------------------------------------------------------------------
\* Every variable has its type, and only what is configured is watched.
WatchersTypeOK ==
  /\ plugin \in {"entities", "notes"} /\ world \in [Things -> Values]
  /\ config.things \subseteq Things /\ config.enabled \in BOOLEAN
  /\ running = IF config.enabled THEN config.things ELSE {}
  /\ starts \in 1..MaxStarts /\ objects \in [1..MaxStarts -> [Things -> Values]] /\ stateJson \in [Things -> Values]
  /\ \A r \in Rounds : round[r].on => round[r].start \in 1..starts /\ round[r].thing \in Things
  /\ reported \in [Things -> Values] /\ waiting \in Seq([thing : Things, value : Values])
  /\ stories \in [Things -> Seq(Values)] /\ changes \in 0..MaxTurns /\ astray \subseteq Things

\* The places of a thing's rows in the queue, and 0 for the last one in the lake.
StoryPlaces(t) == {i \in 0..Len(waiting) : IF i = 0 THEN stories[t] # << >> ELSE waiting[i].thing = t}
ValueAt(t, i) == IF i = 0 THEN Last(stories[t]) ELSE waiting[i].value
NewestAt(t, i) == \A j \in StoryPlaces(t) : j <= i
Follows(t, i, j) == i < j /\ \A k \in StoryPlaces(t) : ~(i < k /\ k < j)

\* Over all reloads and restarts, the rows of a thing are its changes: no value
\* twice in a row, and the last one is what the plugin has seen - unless the
\* agent ended before its queue or its file was written, or a poll from
\* before a reload came back after it.
NoEchoes ==
  \A t \in Things \ astray :
    /\ \A i \in 1..Len(stories[t]) - 1 : stories[t][i] # stories[t][i + 1]
    /\ \A i, j \in StoryPlaces(t) : Follows(t, i, j) => ValueAt(t, i) # ValueAt(t, j)
    /\ \A i \in StoryPlaces(t) : NewestAt(t, i) => ValueAt(t, i) = Seen[t]

\* "State is persisted ... so restarts don't re-emit a wave of no-op deltas"
\* (homeassistant.js) is broken by a reload while a poll is under way.
ReloadsDontEcho == \A t \in Things : \A i \in 1..Len(stories[t]) - 1 : stories[t][i] # stories[t][i + 1]
=============================================================================
