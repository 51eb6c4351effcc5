------------------------------- MODULE Drives -------------------------------
(* What acts on a clock of its own, and what the dashboard and the extension *)
(* show of what happened: the poller that regenerates the crystal, the tiers *)
(* that relieve the pressure, the tabs that send screenshots, and the feed.  *)
(* The first three have a cool-down, which each keeps where the others do    *)
(* not look; the last two tell what is elsewhere, and may tell it late.      *)
EXTENDS Crystal, Relief, Follow, Feed

\* Crystal, Relief and Follow: the poller's regenerations keep their distance, a
\* tier's prompts that of its cool-down, and a tab's screenshots theirs.
DrivesAreSpaced == RegensAreSpaced /\ TiersAreSpaced /\ ShotsAreSpaced

\* Feed: what is owed is shown, and shown once.  Follow: an undisturbed screenshot
\* shows its own page, none is taken of what was paused or blocked, and the popup
\* lists the newest.
FeedIsTrue == ShowsAll /\ ShowsOnce /\ ShotsAreTrue /\ RecentsAreTrue
=============================================================================
