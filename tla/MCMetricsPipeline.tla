------------------------- MODULE MCMetricsPipeline -------------------------
(* The scheduled jobs beside one POST /aggregate or POST /export; a        *)
(* behaviour is about a few of the tables, the events that matter to them  *)
(* and what can go wrong with them.                                        *)
EXTENDS MetricsPipeline

CONSTANTS p1, q1

MCPost == {p1}
MCPostExport == {q1}

Event(user, movie, type, day, device, progress) ==
  [user |-> user, movie |-> movie, type |-> type, day |-> day,
   device |-> device, progress |-> progress]
Start(day) == Event("u1", 1, "VIEW_STARTED", day, 1, 0)
Finish(movie, day) == Event("u1", movie, "VIEW_FINISHED", day, 1, 60)
Like == Event("u2", 2, "LIKED", 1, 2, -1)
Pause == Event("u2", 1, "VIEW_PAUSED", 2, 2, 30)

Scenario(t, e, n, last, r, x, f, sec) ==
  [tables |-> t, events |-> e, arrivals |-> n, lastDay |-> last, runs |-> r, exporters |-> x,
   failures |-> f, seconds |-> sec]
Both == {Start(1), Finish(1, 1)}
Late == {Start(1), Finish(1, 4)}

MCScenarios ==
  { \* overlapping runs: of the conversion metrics, of the top list, of two tables
   Scenario({"conversion"}, Both, 2, 2, Run, {}, 0, 0),
   Scenario({"top"}, {Finish(1, 1), Finish(2, 1)}, 2, 2, Run, {}, 0, 0),
   Scenario({"dau", "device"}, {Like, Finish(1, 1)}, 1, 2, Run, {}, 0, 0),
   \* ... that store their metrics in the same second, or fail once
   Scenario({"conversion"}, {Start(1)}, 1, 2, Run, {}, 0, 1),
   Scenario({"conversion"}, {Start(1)}, 1, 2, Run, {}, 1, 0),
   Scenario({"top"}, {Finish(1, 1), Finish(2, 1)}, 2, 2, {"schedule"}, {}, 1, 0),
   \* a return on the late day, stamped ahead or not, with the scheduled runs or a
   \* posted one, and a return of the next day
   Scenario({"retention"}, Late, 2, 4, {"schedule"}, {}, 0, 0),
   Scenario({"retention"}, Late, 2, 4, Post, {"schedule"}, 0, 0),
   Scenario({"retention"}, {Start(1), Finish(1, 2)}, 2, 3, {"schedule"}, {}, 0, 0),
   \* exports that race each other and the runs, or fail once
   Scenario({"conversion"}, {Start(1)}, 1, 2, {"schedule"}, Exporter, 0, 0),
   Scenario({"conversion"}, {Start(1)}, 1, 2, {"schedule"}, {"schedule"}, 1, 0),
   \* more events, for the queries, and one so late that its lifecycle_day wraps
   Scenario({"avg", "cohorts"}, {Like, Pause, Start(2), Finish(1, 1), Finish(1, 258)}, 3, 2, {"schedule"}, {}, 0, 0),
   \* nothing but a table that is not copied to PostgreSQL
   Scenario({"cohorts"}, {Start(1)}, 1, 2, {"schedule"}, {"schedule"}, 2, 0),
   \* every attempt to store the metrics fails
   Scenario({"avg"}, {Finish(1, 1)}, 1, 2, {"schedule"}, {}, 2, 0)}
=============================================================================
