--------------------------- MODULE MCImageFactory ---------------------------
(***************************************************************************)
(* A small instance of ImageFactory: a minor of which a prerelease is out, *)
(* or the first patch too, and two patches that may follow, one extension, *)
(* and two TalosConfigs, of which it does not matter which asks for what.  *)
(***************************************************************************)
EXTENDS ImageFactory

CONSTANTS c1, c2

MCVersions == 0 .. 2
MCPrereleases == {0}
MCEstablished == {{0}, {0, 1}}
MCRequests == {[version |-> Bare, extensions |-> {"e"}],
               [version |-> 1, extensions |-> {"e"}],
               [version |-> 1, extensions |-> {}],
               [version |-> Malformed, extensions |-> {}]}

\* The second TalosConfig asks for nothing that the first could ask for instead.
Rank(r) == CASE r = None -> 0
             [] r # None /\ r.version = Malformed -> 1
             [] r # None /\ r.version = Bare -> 2
             [] OTHER -> 3
MCCreated == {w \in [Configs -> MCRequests \cup {None}] : Rank(w[c1]) >= Rank(w[c2])}
=============================================================================
