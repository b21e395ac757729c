----------------------------- MODULE MCDailySync -----------------------------
(* Small instances of DailySync for TLC: days, calendars and write targets.  *)
EXTENDS DailySync, TLC

Legacy == {"legacy"}
Both   == {"legacy", "v2"}

\* The published calendar reaches past the last day.
FullCalendar == [d \in Days |-> MaxDay + 1]

MCSymmetry == Permutations(Runs) \cup Permutations(Codes)
=============================================================================
