------------------------- MODULE MCWalletTransition -------------------------
(* Bodies, spellings and legacy rows for the TLC runs of WalletTransition. *)
EXTENDS WalletTransition, TLC

CONSTANTS s1, s2, u1, u2

MCScans == {s1}

\* s2 is sent no command: it is a legacy row at the same address, or nothing.
MCScansShared == {s1, s2}

MCAddresses == {"0xa"}
MCSpellings == {"0xa", " 0xA", " "}
MCNormalize == [x \in MCSpellings |-> IF x = " " THEN "" ELSE "0xa"]
MCTids == {"t1", "t2", "t3"}
MCRawTids == {"t1", "t2 ", "t3", " "}
MCTrimId == [x \in MCRawTids |-> CASE x = "t2 " -> "t2" [] x = " " -> "" [] OTHER -> x]

Start(s, tid) ==
    [scan |-> s, header |-> u1, user |-> u1, address |-> " 0xA", tid |-> tid,
     sources |-> {"PENDING"}, target |-> "RUNNING", quota |-> "none",
     result |-> None, error |-> None]
Complete(s, tid) ==
    [Start(s, tid) EXCEPT !.sources = {"PENDING", "RUNNING"}, !.target = "SUCCESS",
                          !.quota = "keep", !.result = "0xa"]
Fail(s, tid) ==
    [Start(s, tid) EXCEPT !.sources = {"PENDING", "RUNNING"}, !.target = "FAILED",
                          !.quota = "release", !.error = "text"]

\* The three commands of one scan, each of which may be sent again.
MCOneScan == {Start(s1, "t1"), Complete(s1, "t2 "), Fail(s1, "t3")}

\* The two outcomes of one scan, and a start that reopens a failed one: a row
\* leaves a command's sources and comes back to them between two statements.
MCReopened ==
    {[Start(s1, "t1") EXCEPT !.sources = {"FAILED"}], Complete(s1, "t2 "), Fail(s1, "t3")}

\* Bodies that transitionCommand turns away, one per condition it tests.
MCInvalid ==
    {[Start(s1, "t1") EXCEPT !.user = None], [Start(s1, "t1") EXCEPT !.user = u2],
     [Start(s1, "t1") EXCEPT !.address = " "], [Start(s1, "t1") EXCEPT !.tid = " "],
     [Start(s1, "t1") EXCEPT !.sources = {}], [Start(s1, "t1") EXCEPT !.sources = {None}],
     [Start(s1, "t1") EXCEPT !.quota = "release"],
     [Start(s1, "t1") EXCEPT !.target = "TIMEOUT"],
     [Start(s1, "t1") EXCEPT !.error = "text"],
     [Complete(s1, "t2 ") EXCEPT !.result = None],
     [Complete(s1, "t2 ") EXCEPT !.result = " "],
     [Fail(s1, "t3") EXCEPT !.error = ""]}

MCOneScanInvalid == MCOneScan \union MCInvalid

\* Commands whose sources include terminal states, which the API accepts.
MCAnySources ==
    {[Start(s1, "t1") EXCEPT !.sources = {"SUCCESS", "FAILED"}],
     [Complete(s1, "t2 ") EXCEPT !.sources = {"RUNNING", "FAILED"}],
     [Fail(s1, "t3") EXCEPT !.sources = {"RUNNING"}]}

Legacy(status) ==
    [status |-> status, tid |-> None, user |-> u1, addr |-> "0xa", deleted |-> FALSE]
MCLegacy == {Legacy("")}
MCNoLegacy == {}

\* Handlers run the same code on the same requests.
MCSymmetry == Permutations(Handlers)
=============================================================================
