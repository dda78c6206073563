----------------------------- MODULE MCScanReads -----------------------------
(* Rows and network names for the TLC run of ScanReads.                    *)
EXTENDS ScanReads, TLC

CONSTANTS me, other, eth, ethPadded, poly, one, blank

\* Row 3 belongs to somebody else.
MCOwner == [s \in Ids |-> IF s = 3 THEN other ELSE me]
MCNetSets == {{eth, ethPadded}, {eth, poly}, {one, blank}}
MCChainOf == (eth :> 1) @@ (ethPadded :> 0) @@ (poly :> 137) @@ (one :> 0) @@ (blank :> 0)
MCNumberOf == (eth :> 0) @@ (ethPadded :> 0) @@ (poly :> 0) @@ (one :> 1) @@ (blank :> 0)
MCTrimmed == (eth :> "ethereum") @@ (ethPadded :> "ethereum") @@ (poly :> "polygon")
             @@ (one :> "1") @@ (blank :> "")
=============================================================================
