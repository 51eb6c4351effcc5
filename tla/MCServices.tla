----------------------------- MODULE MCServices -----------------------------
(* The services around the loop on small instances.  They share no state, so *)
(* a behaviour runs one of them - its part, chosen at the start - and the    *)
(* states of the parts add up instead of multiplying.  Sources and Contacts  *)
(* come twice: the bounds of one part are wide where the other's are narrow. *)
EXTENDS Routines, Helpers, Backup, Sources, Contacts, Proposals, Moods, Completions, Orient, Plugins,
  Drives, Deposits, Introductions, Vault, Standpoint, Timelines
CONSTANTS Parts   \* the services that a run checks
CONSTANT ThePoll  \* the poll that runs where none overlaps it
VARIABLE part


\* One form to create, with two moments of which the second is beyond the
\* horizon of the first, and edits of workspace, schedule and flags.
MCForms == {[body |-> "p", ws |-> "w1", cron |-> {2, 3}, enabled |-> TRUE,
             single |-> TRUE, deleted |-> FALSE]}
MCPatches == {[ws |-> "w2"], [single |-> FALSE, cron |-> {3}]}

\* Tables of five rows: talk, beats that are collapsed, and noise that is left
\* out, within the gap of each other or not.
Sources5 == {<<"t", "t", "t", "t", "t">>, <<"t", "b", "b", "b", "t">>, <<"b", "b", "b", "b", "b">>,
             <<"t", "x", "b", "b", "t">>, <<"x", "t", "t", "b", "b">>}
MCTables ==
  {LET at[i \in 1..5] == IF i = 1 THEN 0 ELSE at[i - 1] + apart[i - 1]
   IN  [i \in 1..5 |-> [at |-> at[i], src |-> src[i]]] : src \in Sources5, apart \in [1..4 -> {1, 3}] \cup [1..4 -> {2}]}

\* Plans whose search repeats what a filter found, and whose union repeats two steps.
MCMoments == <<"self", "own">>
PlanStep(id, act, of) == [id |-> id, act |-> act, of |-> of]
MCPlans ==
  {<<PlanStep("a", "filter", <<>>), PlanStep("b", "search", <<>>)>>,
   <<PlanStep("a", "search", <<>>), PlanStep("b", "chain", <<"a">>), PlanStep("c", "union", <<"a", "b">>)>>}

\* What a standpoint may meet, and the tags of a row about conclusions.
MCSights ==
  {[kind |-> k, src |-> "-"] : k \in {"conclusion", "card", "identity", "orient", "alert", "mood"}}
    \cup {[kind |-> "picture", src |-> s] : s \in {"a", "b"}}
MCStances == {<<"refutes">>, <<"from", "refutes">>, <<"refutes", "from">>, <<"from">>}
\* Two trees, a lake in which two summaries cite one row, one with a cycle, and one
\* with a summary that cites more rows than a request reads.
MCLakes ==
  {<<<<2, 3>>, <<4>>, <<5>>, <<>>, <<>>>>, <<<<2, 3>>, <<4>>, <<>>, <<5>>, <<>>>>,
   <<<<2, 3>>, <<4, 5>>, <<5>>, <<>>, <<>>>>, <<<<2>>, <<3>>, <<4>>, <<1, 5>>, <<>>>>,
   <<<<2, 3, 4, 5>>, <<>>, <<>>, <<>>, <<>>>>}
MCRoots == {<<1>>, <<2, 3>>, <<1, 2>>}
\* Up to two groups that cite moments, episodes and nothing that is there.
Cited == {<<>>} \cup {<<i>> : i \in {"m", "e", "f", "x"}} \cup {<<i, j>> : i, j \in {"m", "e", "f", "x"}}
Group(title, these) == [title |-> title, ids |-> these]
MCGroupings ==
  {<<>>} \cup {<<Group(t, these)>> : t \in {"", "t"}, these \in Cited} \cup {<<Group("t", these), Group("t", these)>> : these \in Cited}
    \cup {<<Group("t", these), Group("t", other)>> : these \in Cited, other \in {<<"e", "f">>}}


\* What a part may start with in more than one way, the others start with in one.
Init ==
  /\ part \in Parts
  /\ IF part = "proposals" THEN TRUE ELSE kind = "helper" /\ origin = "chat" /\ lenient = FALSE
  /\ IF part \in {"admins", "visits"} THEN TRUE ELSE role = [p \in People |-> "admin"]
  /\ IF part = "watchers" THEN TRUE ELSE plugin = "notes"
  /\ IF part = "timelines" THEN TRUE ELSE table = (CHOOSE t \in MCTables : TRUE) /\ landed = 5
  /\ shows = [t \in Tabs |-> CHOOSE page \in Pages \ Shunned : TRUE] /\ front = CHOOSE t \in Tabs : TRUE
  /\ CrystalInit /\ PusherInit /\ ReliefInit /\ TimelinesInit /\ VaultInit /\ WatchersInit
  /\ IF part = "centroids" THEN TRUE ELSE cites = (CHOOSE l \in MCLakes : TRUE) /\ vectors = DOMAIN cites
  /\ StandInit /\ TransferInit /\ CentroidsInit /\ DraftersInit
  /\ FeedInit /\ BellInit /\ RecallInit /\ IntroductionsInit /\ FollowInit
  /\ CompletionsInit /\ OrientInit /\ AdaptersInit /\ WindowsInit
  /\ RoutinesInit /\ HelpersInit /\ BackupInit /\ SourcesInit /\ ContactsInit /\ ProposalsInit /\ MoodsInit
  /\ origin = "routine" => kind = "helper"

\* The variables of the parts that do not run stay as they are.
Keep(parts, vars) == IF part \in parts THEN TRUE ELSE UNCHANGED vars
Others ==
  /\ Keep({"routines"}, routineVars) /\ Keep({"helpers", "overlaps"}, helperVars) /\ Keep({"backup"}, backupVars)
  /\ Keep({"source", "polls"}, sourceVars) /\ Keep({"completions"}, completionVars)
  /\ Keep({"admins", "visits"}, contactVars) /\ Keep({"proposals"}, proposalVars)
  /\ Keep({"crystal"}, crystalVars) /\ Keep({"pusher"}, pusherVars) /\ Keep({"relief"}, reliefVars)
  /\ Keep({"timelines"}, timelineVars) /\ Keep({"moods"}, moodVars) /\ Keep({"vault"}, vaultVars)
  /\ Keep({"adapters", "errands"}, adapterVars) /\ Keep({"watchers"}, watchersVars)
  /\ Keep({"feed"}, feedVars) /\ Keep({"pleas", "chimes"}, bellVars) /\ Keep({"thumbs", "flaws"}, orientVars)
  /\ Keep({"recall", "index", "layers"}, recallVars) /\ Keep({"windows"}, windowVars)
  /\ Keep({"accepts", "lists"}, introVars)
  /\ Keep({"shots", "scrolls"}, followVars) /\ Keep({"refutes", "sights"}, standVars)
  /\ Keep({"transfers"}, transferVars) /\ Keep({"centroids"}, centroidVars) /\ Keep({"drafts"}, drafterVars)
  /\ UNCHANGED part

\* The parts that are proved about have trouble in short behaviours.
RunRoutines == part = "routines" /\ RoutinesNext /\ Others
RunHelpers ==
  /\ part \in {"helpers", "overlaps"} /\ HelpersNext
  /\ (part = "helpers" =>
        /\ \A p \in Polls \ {ThePoll} : poll'[p] = NoPoll
        /\ ~{"says", "blank"} \subseteq {log'[i].kind : i \in DOMAIN log'})
  /\ (part = "overlaps" =>
        /\ UNCHANGED watcherVars /\ \A i \in DOMAIN log' : log'[i].kind \notin {"says", "blank"}
        /\ \A c \in Tasks : window'[c] = "gone" => open'[c] = "no")
  /\ Others
RunBackup == part = "backup" /\ BackupNext /\ (mishaps' = 0 \/ dumps' <= 3) /\ Others
RunSources ==
  /\ part \in {"source", "polls"} /\ SourcesNext
  /\ (part = "source" => \A p \in Pollers \ {TheLoop} : polling'[p].pc = "no")
  /\ (part = "polls" => feed' \subseteq {1})
  /\ Others
RunCompletions == part = "completions" /\ CompletionsNext /\ Others
RunContacts ==
  /\ part \in {"admins", "visits"} /\ ContactsNext
  /\ (part = "admins" => visit' = visit) /\ (part = "visits" => edits' <= 1 /\ glitches' = 0)
  /\ Others
RunProposals ==
  /\ part = "proposals" /\ ProposalsNext
  /\ \/ misses' = 0
     \/ /\ origin # "elsewhere" /\ (kind = "helper" => clicks' <= 1)
        /\ \A t \in Deciders : ~task'[t].edited
  /\ Others
RunCrystal == part = "crystal" /\ CrystalNext /\ Others
RunPusher == part = "pusher" /\ PusherNext /\ Others
RunRelief == part = "relief" /\ ReliefNext /\ (hitches' = 0 \/ presses' = 0) /\ Others
RunTimelines == part = "timelines" /\ TimelinesNext /\ Others
RunMoods == part = "moods" /\ MoodsNext /\ (upsets' = 0 \/ Len(rows') <= 2) /\ Others
RunVault == part = "vault" /\ VaultNext /\ (broken' => events' <= 2) /\ Others
RunAdapters ==
  /\ part \in {"adapters", "errands"} /\ AdaptersNext
  /\ (part = "adapters" => lapsed' = 0 /\ \A i \in DOMAIN inbox' : inbox'[i].task \notin Commandless)
  /\ (part = "errands" =>
        /\ snags' = 0 /\ Cardinality({v \in Inboxes : visits'[v].on}) <= 1
        /\ lapsed' > 0 => Len(inbox') <= 4)
  /\ Others
RunWatchers == part = "watchers" /\ WatchersNext /\ Others
RunFeed == part = "feed" /\ FeedNext /\ (gaps' = 0 \/ boots' = 0) /\ Others
RunBell ==
  /\ part \in {"pleas", "chimes"} /\ BellNext
  /\ (part = "pleas" => moment' = 0) /\ (part = "chimes" => petitions' = <<>>)
  /\ Others
RunOrient ==
  /\ part \in {"thumbs", "flaws"} /\ OrientNext
  /\ (part = "thumbs" => flaws' = flaws) /\ (part = "flaws" => Len(signals') <= 2)
  /\ Others
\* Summaries of summaries, and then the recall of what is at the bottom.
Layering ==
  /\ Len(memories') > Len(memories) => minute = 0 /\ \A s \in Recalls : recalls[s].pc = "idle"
  /\ \A s \in Recalls : LET r == recalls'[s] IN
       /\ ~r.armed /\ ~r.talk /\ r.view = "timeline" /\ (r.pc # "idle" => minute' = 1)
       /\ r.pc = "executes" => r.deep /\ r.plan[1].act = "search"
       /\ r.pc = "descends" => UNION {r.shown[k].rows : k \in DOMAIN r.shown} \subseteq {1}
RunRecall ==
  /\ part \in {"recall", "index", "layers"} /\ RecallNext
  /\ (part = "recall" =>
        /\ minute' = minute /\ Len(memories') <= IF stumbles' = 0 THEN 4 ELSE 3
        /\ Len(memories') > Len(memories) => \A s \in Recalls : recalls[s].pc \in {"idle", "thinks"})
  /\ (part = "index" => Len(memories') <= 3) /\ (part = "layers" => Layering)
  /\ Others
RunWindows == part = "windows" /\ WindowsNext /\ Others
RunIntroductions ==
  /\ part \in {"accepts", "lists"} /\ IntroductionsNext
  /\ (part = "accepts" => look' = look /\ Len(intros') <= 1) /\ (part = "lists" => deciding' = deciding)
  /\ Others
UserReads ==
  /\ front' = front /\ armed' = armed /\ blocklist' = blocklist /\ revoking' = revoking /\ tick' = tick
  /\ \A k \in DOMAIN shots' : shots'[k].reason # "manual"
RunFollow ==
  /\ part \in {"shots", "scrolls"} /\ FollowNext
  /\ (part = "shots" => timers' = timers /\ bumps' = bumps /\ \A k \in DOMAIN shots' : shots'[k].reason # "scroll")
  /\ (part = "scrolls" => UserReads)
  /\ Others
\* One part looks at refutations only, the other at one kind of sight at a time, with at
\* most one row that arrives while the standpoint is gathered.
Views == <<"identity", "affect", "alerts", "visuals">>
ViewsFrom(k) == {Views[i] : i \in k..4}
Thoughts == {"endorsements", "understanding"}
SightGroups == {{"identity", "orient"}, {"alert", "card"}, {"picture"}, {"mood"}}
Refuting ==
  /\ \A i \in DOMAIN scenery' : scenery'[i].kind = IF scenery'[i].tags = <<>> THEN "conclusion" ELSE "card"
  /\ gather'.due \subseteq Thoughts \/ \E k \in 1..4 : gather'.due = Thoughts \cup ViewsFrom(k)
  /\ gather.due \subseteq Thoughts \/ (scenery' = scenery /\ hour' = hour)
  /\ blanks' = 0
Sighting ==
  /\ \A i \in DOMAIN scenery' : scenery'[i].tags = <<>>
  /\ \E kinds \in SightGroups : \A i \in DOMAIN scenery' : scenery'[i].kind \in kinds
  /\ gather'.due \in {StandFields, StandFields \ {"endorsements"}} \cup {ViewsFrom(k) : k \in 1..5}
  /\ gather.due \cap Thoughts = {} \/ (scenery' = scenery /\ hour' = hour)
  /\ hour' <= 1 /\ (gather.pc = "idle" \/ Len(scenery') <= gather.began + 1)
RunStandpoint ==
  /\ part \in {"refutes", "sights"} /\ StandNext
  /\ (part = "refutes" => Refuting) /\ (part = "sights" => Sighting)
  /\ Others
\* Transfers bring one content and single writes the other; either the loop or the
\* backfill has a row in hand.
RunTransfer ==
  /\ part = "transfers" /\ TransferNext
  /\ \A i \in DOMAIN tx'.lines : tx'.lines[i].body = "y"
  /\ rewrites' # rewrites => \A k \in DOMAIN shelf : shelf'[k] = shelf[k] \/ shelf'[k].body # "y"
  /\ loop'.key = "none" \/ refill'.key = "none"
  /\ Others
\* One thing goes wrong: a row goes, or a request fails.
RunCentroids == part = "centroids" /\ CentroidsNext /\ (drops' = 0 \/ remains' = DOMAIN cites') /\ Others
\* Rows arrive before the run, and may go while the model groups them.
RunDrafters ==
  /\ part = "drafts" /\ DraftersNext
  /\ Len(pool') > Len(pool) =>
       draft.pc = "idle" /\ pool' \in {<<"m">>, <<"e">>, <<"m", "e">>, <<"e", "f">>, <<"m", "e", "f">>}
  /\ Len(pool') < Len(pool) => draft.pc = "compose"
  /\ Others
Next ==
  \/ RunRoutines \/ RunHelpers \/ RunBackup \/ RunSources \/ RunCompletions
  \/ RunContacts \/ RunProposals \/ RunCrystal \/ RunPusher \/ RunRelief
  \/ RunTimelines \/ RunMoods \/ RunVault \/ RunAdapters \/ RunWatchers
  \/ RunFeed \/ RunBell \/ RunOrient \/ RunRecall \/ RunWindows \/ RunIntroductions \/ RunFollow
  \/ RunStandpoint \/ RunTransfer \/ RunCentroids \/ RunDrafters
vars == <<part, routineVars, helperVars, backupVars, sourceVars, completionVars, contactVars, proposalVars, crystalVars,
          pusherVars, reliefVars, timelineVars, moodVars, vaultVars, adapterVars, watchersVars, feedVars, bellVars, orientVars, recallVars, windowVars, introVars,
          followVars, standVars, transferVars, centroidVars, drafterVars>>
Spec == Init /\ [][Next]_vars

\* What each service's scheduling justifies, for its own part.
RoutinesFair ==
  /\ WF_routineVars(part = "routines" /\ Scheduler)
  /\ \A u \in Users : WF_routineVars(part = "routines" /\ Proceed(u))
HelpersFair ==
  /\ WF_helperVars(part = "helpers" /\ Watcher) /\ WF_helperVars(part = "helpers" /\ Deliver)
  /\ WF_helperVars(part = "helpers" /\ Agent(ThePoll))
SourcesFair ==
  /\ WF_sourceVars(part \in {"source", "polls"} /\ LoopPolls)
  /\ \A p \in Pollers : WF_sourceVars(part \in {"source", "polls"} /\ Poll(p))
CompletionsFair == \A r \in Requests : WF_completionVars(part = "completions" /\ PollFinds(r))
PusherFair ==
  \A f \in Flushes : /\ WF_pusherVars(part = "pusher" /\ Flush(f))
                     /\ WF_pusherVars(part = "pusher" /\ PostAccepted(f))
AdaptersFair ==
  LET runs == part \in {"adapters", "errands"}
  IN  /\ \A v \in Inboxes : WF_adapterVars(runs /\ PollStarts(v)) /\ WF_adapterVars(runs /\ PollReturns(v))
      /\ \A c \in Errands : /\ WF_adapterVars(runs /\ TimesOut(c)) /\ WF_adapterVars(runs /\ Reply(c, TRUE, TRUE))
                            /\ WF_adapterVars(runs /\ Lands(InboxRow("error", c)))
-----------------------------------------------------------------------------
\* Every variable of the service that runs has its type, and the data it keeps are
\* consistent: cursors lie in the log, results name rows that were written.
ServicesTypeOK ==
  CASE part = "routines" -> RoutinesTypeOK
    [] part \in {"helpers", "overlaps"} -> HelpersTypeOK
    [] part = "backup" -> BackupTypeOK
    [] part \in {"source", "polls"} -> SourcesTypeOK
    [] part = "completions" -> CompletionsTypeOK
    [] part \in {"admins", "visits"} -> ContactsTypeOK
    [] part = "proposals" -> ProposalsTypeOK
    [] part = "crystal" -> CrystalTypeOK
    [] part = "pusher" -> PusherTypeOK
    [] part = "relief" -> ReliefTypeOK
    [] part = "timelines" -> TimelinesTypeOK
    [] part = "moods" -> MoodsTypeOK
    [] part = "vault" -> VaultTypeOK
    [] part \in {"adapters", "errands"} -> AdaptersTypeOK
    [] part = "watchers" -> WatchersTypeOK
    [] part = "feed" -> FeedTypeOK
    [] part \in {"pleas", "chimes"} -> BellTypeOK
    [] part \in {"thumbs", "flaws"} -> OrientTypeOK
    [] part \in {"recall", "index", "layers"} -> RecallTypeOK
    [] part = "windows" -> WindowsTypeOK
    [] part \in {"accepts", "lists"} -> IntroductionsTypeOK
    [] part \in {"shots", "scrolls"} -> FollowTypeOK
    [] part \in {"refutes", "sights"} -> StandpointTypeOK
    [] part = "transfers" -> TransferTypeOK
    [] part = "centroids" -> CentroidsTypeOK
    [] part = "drafts" -> DraftersTypeOK

\* Routines: a routine that is due is fired.
DueFires == RoutinesFair => DueIsFired
\* Helpers and Adapters: a window that is lost while the agent looks after it
\* ends its task, and so does an adapter, however it fails.
TasksEnd == (HelpersFair => LostWindowsAreReported) /\ (AdaptersFair => ErrandsEnd)
\* Helpers: the last word of a session wakes Fathom.
EndsWakeIfLast == HelpersFair => LastEndsWake
\* Sources and Pusher: an item that stays in the feed of a live source is
\* written, and a delta that a plugin has pushed arrives or is refused.
EverythingGetsIn == (SourcesFair => NothingMissed) /\ (PusherFair => PushedArrives)
\* Completions: a turn that Fathom answers returns to its client.
AnsweredTurnsReturn == CompletionsFair => AnsweredReturn
=============================================================================
