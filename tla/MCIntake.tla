----------------------------- MODULE MCIntake ------------------------------
(* Values for the constants of Intake: one film, and the two names its      *)
(* encode goes through.                                                    *)
EXTENDS Intake

CONSTANTS sched, post, c1

OneFilm    == {"m.avi"}
FilmPaths  == <<"m.avi", "m.mkv", "m.sqzarr-tmp.avi">>
FilmTemp   == [f \in OneFilm |-> "m.sqzarr-tmp.avi"]
FilmOutput == [f \in OneFilm |-> "m.mkv"]

TheScheduler == {sched}
OneRequest   == {post}
NoRequest    == {}
OneClient    == {c1}
NoClient     == {}
=============================================================================
