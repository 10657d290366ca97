----------------------------- MODULE MCJobQueue -----------------------------
(* Values for the constants of JobQueue. *)
EXTENDS JobQueue, TLC

CONSTANTS s1, s2, c1, c2

OneSlot    == {s1}
TwoSlots   == {s1, s2}
OneClient  == {c1}
TwoClients == {c1, c2}

OneJob   == {1}
TwoJobs  == {1, 2}
ThreeJobs == {1, 2, 3}

NoStop   == {}
OnlyCrash == {"crash"}
Graceful == {"sigterm"}
AnyStop  == {"sigterm", "crash"}

OnePriority == {0}
TwoPriorities == {0, 1}

\* One value below, one above and those within the limits of SetConcurrency.
AroundLimit == 0..MaxConcurrency + 1
NoRequests == {}

\* Goroutines and requests are interchangeable; jobs are ordered.
Interchangeable == Permutations(Slots) \cup Permutations(Clients)
=============================================================================
