----------------------------- MODULE MCStaging -----------------------------
(* Values for the constants of Staging. Names stand for files of one       *)
(* directory: "m.mkv" is a film and also the name OutputName gives to      *)
(* "m.avi"; "m_1.mkv" and "m_2.mkv" are the names OutputPath tries next.   *)
EXTENDS Staging

CONSTANTS w1, w2, u1, u2

OneWorker  == {w1}
TwoWorkers == {w1, w2}
NoUser     == {}
OneUser    == {u1}
TwoUsers   == {u1, u2}
OneJob    == {1}
TwoJobs   == {1, 2}
ThreeJobs == {1, 2, 3}

TwoRecords   == {1, 2}
ThreeRecords == {1, 2, 3}
FourRecords  == {1, 2, 3, 4}

\* One film, whose outputs may be enqueued in turn.
OneFilm      == {"m.mkv"}
FilmAndCopy  == {"m.mkv", "m_1.mkv"}
FilmNames    == {"m.mkv", "m_1.mkv", "m_2.mkv", "m_3.mkv", "m_out.mkv",
                 "m_1_1.mkv", "m_1_2.mkv", "m_1_3.mkv", "m_1_out.mkv"}
FilmOutputs  == [n \in FilmAndCopy |->
                    IF n = "m.mkv"
                    THEN <<"m.mkv", "m_1.mkv", "m_2.mkv", "m_3.mkv">>
                    ELSE <<"m_1.mkv", "m_1_1.mkv", "m_1_2.mkv", "m_1_3.mkv">>]
FilmFallback == [n \in FilmAndCopy |->
                    IF n = "m.mkv" THEN "m_out.mkv" ELSE "m_1_out.mkv"]

\* One film, whose outputs are left alone.
LoneNames    == {"m.mkv", "m_1.mkv", "m_2.mkv", "m_out.mkv"}
LoneOutputs  == [n \in OneFilm |-> <<"m.mkv", "m_1.mkv", "m_2.mkv">>]
LoneFallback == [n \in OneFilm |-> "m_out.mkv"]

\* Two films whose outputs do not compete for a name.
TwoFilms      == {"a.mkv", "b.avi"}
TwoFilmNames  == {"a.mkv", "a_1.mkv", "a_2.mkv", "a_out.mkv",
                  "b.avi", "b.mkv", "b_1.mkv", "b_out.mkv"}
TwoFilmOutputs == [n \in TwoFilms |-> IF n = "a.mkv"
                                      THEN <<"a.mkv", "a_1.mkv", "a_2.mkv">>
                                      ELSE <<"b.mkv", "b_1.mkv">>]
TwoFilmFallback == [n \in TwoFilms |-> IF n = "a.mkv" THEN "a_out.mkv"
                                       ELSE "b_out.mkv"]

\* Two films that do: the same name but for the extension.
Twins         == {"m.mkv", "m.avi"}
TwinNames     == {"m.avi", "m.mkv", "m_1.mkv", "m_2.mkv", "m_3.mkv",
                  "m_out.mkv"}
TwinOutputs   == [n \in Twins |-> <<"m.mkv", "m_1.mkv", "m_2.mkv", "m_3.mkv">>]
TwinFallback  == [n \in Twins |-> "m_out.mkv"]
=============================================================================
