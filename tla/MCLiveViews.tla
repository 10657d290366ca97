---------------------------- MODULE MCLiveViews ----------------------------
(* Values for the constants of LiveViews: two films wait.                  *)
EXTENDS LiveViews, TLC

CONSTANT l1

OneLoad     == {l1}
TwoFilms    == {1, 2}
BothWaiting == {(1 :> "pending") @@ (2 :> "pending")}
=============================================================================
