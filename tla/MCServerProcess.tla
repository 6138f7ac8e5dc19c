--------------------------- MODULE MCServerProcess ---------------------------
(***************************************************************************)
(* Instances of ServerProcess for TLC.                                     *)
(***************************************************************************)
EXTENDS ServerProcess, TLC

CONSTANTS none, blank, s1, s2, old, new, edited, sum1, sum2, sum3, v0, v1, v2

\* The former binary, its successor with a migration more, and one whose first
\* migration has been edited.
Manifests ==
    old :> <<sum1, none>> @@ new :> <<sum1, sum2>> @@ edited :> <<sum3, none>>
BinaryVersions == old :> v1 @@ new :> v2 @@ edited :> v2

\* An upgrade while the former server is still started.
BuildsOf == s1 :> {old} @@ s2 :> {new, edited}

\* A database from before the checksums and before the stored version.
OldLedger == <<blank, none>>

=============================================================================
