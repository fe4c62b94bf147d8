----------------------------- MODULE MCLoadPath -----------------------------
(* Two runs of one dataset: catching up on different days, on the same day  *)
(* (a rerun), and one run that has to catch up on two days.                 *)
EXTENDS LoadPath, TLC

CONSTANTS A, B

Setting(m, s, n, k, d, f) ==
    [mode |-> m, strategy |-> s, named |-> n, keyed |-> k, soft |-> d, fresh |-> f]

OtherDays == A :> {1} @@ B :> {2}
SameDay == A :> {1} @@ B :> {1}
CatchUp == A :> {1, 2} @@ B :> {2}

Snapshot(soft) == Setting("snapshot", "clone", FALSE, TRUE, soft, FALSE)

\* Day 1 gains a record, loses it, or has one in the place of another.
MCSources == <<{{1}, {2}, {1, 2}}, {{1, 2}}>>

MCScenarios ==
    {<<Snapshot(TRUE), SameDay>>,
     <<Snapshot(FALSE), OtherDays>>,
     <<Snapshot(FALSE), SameDay>>,
     <<Snapshot(TRUE), CatchUp>>,
     <<Setting("full_refresh", "clone", FALSE, FALSE, TRUE, FALSE), OtherDays>>,
     <<Setting("full_refresh", "clone", FALSE, TRUE, TRUE, FALSE), SameDay>>,
     <<Setting("delta_update", "clone", TRUE, TRUE, TRUE, FALSE), OtherDays>>,
     <<Setting("delta_update", "clone", FALSE, FALSE, FALSE, TRUE), SameDay>>,
     <<Setting("snapshot", "staging", FALSE, TRUE, TRUE, FALSE), SameDay>>,
     <<Setting("snapshot", "direct", FALSE, TRUE, TRUE, TRUE), SameDay>>}

SharedScenarios == {<<Setting("snapshot", "clone", TRUE, TRUE, TRUE, FALSE), OtherDays>>}
=============================================================================
