--------------------------- MODULE MCNonceLedger ---------------------------
(***************************************************************************)
(* TLC instances of NonceLedger: two bundles that share a nonce, one that  *)
(* is disjoint from the first, a forged one and one that repeats a nonce.  *)
(***************************************************************************)
EXTENDS NonceLedger, TLC

CONSTANTS n1, n2, n3, left, middle, right, forged, twice

MCNonces == {n1, n2, n3}
MCBundles == {left, middle, right, forged, twice}
MCNoncesOf == (left :> {n1, n2}) @@ (middle :> {n2, n3}) @@ (right :> {n3})
              @@ (forged :> {n1}) @@ (twice :> {n3})
MCGenuine == {left, middle, right, twice}
MCRepeating == {twice}

=============================================================================
