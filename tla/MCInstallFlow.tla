---------------------------- MODULE MCInstallFlow ----------------------------
(***************************************************************************)
(* A finite instance of InstallFlow for TLC, and the short versions that   *)
(* are compared in it.                                                     *)
(***************************************************************************)
EXTENDS InstallFlow, TLC

Core(minor) == [major |-> <<1>>, minor |-> minor, patch |-> <<0>>, prerelease |-> <<>>]

\* 1.9.0 and 1.10.0
MCVersions == {Core(<<9>>), Core(<<1, 0>>)}

RoleSymmetry == Permutations(Promoters)

-----------------------------------------------------------------------------
(* Short versions: 0 to 9 are digits, -1 is the hyphen and 10 a letter.    *)

Texts == {<<a>> : a \in {-1, 0, 9, 10}} \cup {<<a, b>> : a \in {1, 10}, b \in {-1, 0}}

Prereleases == {<<>>} \cup {<<a>> : a \in Texts} \cup {<<a, b>> : a, b \in Texts}

Numbers == {n \in Texts : IsNumeric(n)}

SampleVersions ==
    {v \in [major : {<<9>>}, minor : Numbers, patch : Numbers, prerelease : {<<>>}]
           \cup [major : {<<9>>, <<1, 0>>}, minor : {<<0>>}, patch : {<<9>>},
                  prerelease : Prereleases] : ValidVersion(v)}

=============================================================================
