--------------------------- MODULE MCTlsLifecycle ---------------------------
(* Scans, workers and published events for the TLC runs of TlsLifecycle.   *)
EXTENDS TlsLifecycle, TLC

CONSTANTS a, b, d, g, u1, url1, url2, s1, c1, f1, s2, c2

MCUserOwner == [s \in Scans |-> u1]
\* d and g belong to a user, the others to the catalog.
MCMixedOwners == [s \in Scans |-> IF s \in {d, g} THEN u1 ELSE NilUser]
MCUrl == [s \in Scans |-> url1]
\* Every result repeats the endpoint and says default for catalog scans.
MCEchoed == [s \in Scans |-> [url |-> Url[s], default |-> OfCatalog(s)]]
\* The result of the user's scan d names another URL than its endpoint.
MCStrayResult == [MCEchoed EXCEPT ![d].url = url2]
MCLimitOne == [u \in Users |-> 1]
MCNoLimit == [u \in Users |-> 0]

MCOneInstance == (s1 :> "started") @@ (c1 :> "completed") @@ (f1 :> "failed")
MCTwoInstances ==
    (s1 :> "started") @@ (c1 :> "completed") @@ (s2 :> "started") @@ (c2 :> "completed")

\* A second completion worker of another instance.
MCTwoCompleters == MCOneInstance @@ (c2 :> "completed")

\* How many copies of each event are published; the others none.
Copies(counts) == [e \in Events |-> IF e \in DOMAIN counts THEN counts[e] ELSE 0]

\* One outcome per scan: two catalog scans of one URL, one of which completes,
\* and a user's two scans, one completed twice, the other failed.
MCOneOutcome ==
    Copies((<<"started", a>> :> 1) @@ (<<"completed", a>> :> 1) @@ (<<"started", b>> :> 1) @@
           (<<"completed", d>> :> 2) @@ (<<"failed", g>> :> 1))

\* Both outcomes of a, one of them on two instances, race for its row and its
\* ledger key.
MCContended ==
    Copies((<<"started", a>> :> 1) @@ (<<"completed", a>> :> 2) @@ (<<"failed", a>> :> 1))

\* Both outcomes of one scan.
MCTwoOutcomes == Copies((<<"completed", a>> :> 1) @@ (<<"failed", a>> :> 1))

\* Two scans of one user complete, on two instances.
MCTwoCompletions == Copies((<<"completed", a>> :> 1) @@ (<<"completed", b>> :> 1))

\* A start and a completion of the same scan.
MCStartComplete == Copies((<<"started", a>> :> 1) @@ (<<"completed", a>> :> 1))
=============================================================================
