-------------------------- MODULE MCEventPublisher --------------------------
(* Two requests beside short sessions with every fault, and long sessions  *)
(* at the ends of the random ranges.                                       *)
EXTENDS EventPublisher

CONSTANTS h1, h2

MCHandler == {h1, h2}

Posting(user, type, progress) ==
  [user |-> user, movie |-> "movie-1", type |-> type, progress |-> progress,
   query |-> FALSE, time |-> 0, session |-> 0]

Short == [finish |-> 3600, pause |-> 120, resume |-> 60, pauseAgain |-> 90, resumeAgain |-> 30,
          gap |-> 20, like |-> 15, paused |-> FALSE, pausedAgain |-> FALSE, finished |-> TRUE,
          liked |-> FALSE, searched |-> FALSE]
Long(pause, resume, pauseAgain, resumeAgain) ==
  [Short EXCEPT !.pause = pause, !.resume = resume, !.pauseAgain = pauseAgain,
                !.resumeAgain = resumeAgain, !.paused = TRUE, !.pausedAgain = TRUE,
                !.liked = TRUE, !.searched = TRUE]

Scenario(b, d, f, n, s, r) ==
  [bodies |-> b, draws |-> d, faults |-> f, posts |-> n, sessions |-> s, restarts |-> r]
Like == Posting("user-1", "LIKED", 1)

MCScenarios ==
  { \* two requests; a request beside a session; a session and a restart
   Scenario({Like, Posting("user-2", "LIKED", None)}, {}, Faults, 2, 0, 0),
   Scenario({Like}, {Short}, {"delivery"}, 1, 1, 0),
   Scenario({Like}, {Short}, {"timeout"}, 1, 1, 0),
   Scenario({Like}, {[Short EXCEPT !.finished = FALSE]}, {"delivery", "timeout"}, 1, 1, 0),
   Scenario({}, {Short}, {"timeout"}, 0, 2, 1),
   \* bodies that are refused, by the model or by the encoder
   Scenario({Posting("user-1", "VIEW_PAUSED", None), Posting("", "LIKED", 1),
             Posting("user-1", "SEARCHED", 1), Posting("user-1", "LIKED", MaxProgress + 1)},
            {}, {}, 2, 0, 0),
   \* a session with failing deliveries; whole sessions
   Scenario({}, {[Long(120, 900, 1200, 30) EXCEPT !.pausedAgain = FALSE]}, {"delivery"}, 0, 1, 0),
   Scenario({}, {Long(p, r, pa, ra) : p \in {120, 1800}, r \in {60, 900},
                                      pa \in {90, 1200}, ra \in {30, 600}}, {}, 0, 1, 0)}
=============================================================================
