--------------------------- MODULE MCClientPages ---------------------------
(* Values for the constants of ClientPages. The two tasks of a page are    *)
(* alike.                                                                  *)
EXTENDS ClientPages, TLC

CONSTANTS t1, t2, w1, w2, p1, p2

TwoTasks     == {t1, t2}
TwoWriters   == {w1, w2}
TwoPasswords == {p1, p2}
Alike        == Permutations(TwoTasks)

\* What tells two states apart: the parts that stand still are the same in
\* all states in which they do (StandsStill).
Moving ==
    <<openPage,
      CASE openPage = "/review"      -> reviewVars
        [] openPage = "/history"     -> historyVars
        [] openPage = "/directories" -> dirVars
        [] openPage = "/queue"       -> liveVars
        [] openPage = "picker"       -> pickVars
        [] openPage = "/settings"    -> settingsVars
        [] openPage = "/login"       -> sessionVars>>

\* History: a full page of ends, one of them not to be retried; and one
\* with a job that still runs.
EndedAndActive == {<<"failed", "done", "failed">>,
                   <<"failed", "active", "none">>}

\* Directories: one row, whose age is 0.
TwoPaths == {"p", "q"}
TwoAges  == {0, 7}
OneRow   == {<<Row("p", 0), NoRow>>}

\* Queue and Dashboard: one film, which has no row yet.
OneFilm  == {1}
NotKnown == {1 :> "none"}

\* Pickers: two roots with a folder each, one of them, or none.
Tree  == {<<>>, <<"m">>, <<"m", "a">>, <<"n">>, <<"n", "b">>}
Lists == {<<<<"m">>, <<"n">>>>, <<>>, <<<<"n">>>>}
=============================================================================
