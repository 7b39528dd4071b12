-------------------------------- MODULE SemVer --------------------------------
(***************************************************************************)
(* How the update client compares two versions, and the precedence that    *)
(* SemVer 2.0.0 gives them.                                                *)
(*                                                                         *)
(* A version is split at its dots.  An identifier is the sequence of its   *)
(* characters, a character the place it has in ASCII: the digits are 0 to  *)
(* 9, the hyphen is below them and the letters are above.  Build metadata, *)
(* which both leave out, has no place here.                                *)
(*                                                                         *)
(* Source: pkg/forgeupdate/version.go, internal/release/version.go.        *)
(***************************************************************************)
EXTENDS Integers, Sequences

IsNumeric(identifier) == identifier # <<>> /\ \A i \in DOMAIN identifier : identifier[i] \in 0..9

NoLeadingZero(identifier) == Len(identifier) > 1 => identifier[1] # 0

Version == [major : Seq(Int), minor : Seq(Int), patch : Seq(Int), prerelease : Seq(Seq(Int))]

\* What the server lets a release be called and the client can parse.
ValidVersion(v) ==
    /\ v \in Version
    /\ \A part \in {v.major, v.minor, v.patch} : IsNumeric(part) /\ NoLeadingZero(part)
    /\ \A i \in DOMAIN v.prerelease :
        /\ v.prerelease[i] # <<>>
        /\ IsNumeric(v.prerelease[i]) => NoLeadingZero(v.prerelease[i])

-----------------------------------------------------------------------------
(* The comparison of the client                                            *)

Sign(n) == IF n < 0 THEN -1 ELSE IF n > 0 THEN 1 ELSE 0

\* The loops that return the first comparison that is not 0.
FirstDifference(comparisons) ==
    LET places == {i \in DOMAIN comparisons : comparisons[i] # 0} IN
    IF places = {} THEN 0 ELSE comparisons[CHOOSE i \in places : \A j \in places : i <= j]

Common(left, right) == 1..(IF Len(left) < Len(right) THEN Len(left) ELSE Len(right))

\* Lists that do not differ in any position they have in common differ in their lengths.
CompareLists(left, right, comparisons) ==
    LET first == FirstDifference(comparisons)
    IN  IF first # 0 THEN first ELSE Sign(Len(left) - Len(right))

\* Go's < on strings.
CompareText(left, right) ==
    CompareLists(left, right, [i \in Common(left, right) |-> Sign(left[i] - right[i])])

\* No number of digits overflows: the longer of two numbers is the greater.
CompareNumericIdentifier(left, right) ==
    IF Len(left) # Len(right) THEN Sign(Len(left) - Len(right)) ELSE CompareText(left, right)

CompareIdentifier(a, b) ==
    IF IsNumeric(a) /\ IsNumeric(b) THEN CompareNumericIdentifier(a, b)
    ELSE IF IsNumeric(a) THEN -1
    ELSE IF IsNumeric(b) THEN 1
    ELSE CompareText(a, b)

ComparePrerelease(left, right) ==
    IF left = <<>> /\ right = <<>> THEN 0
    ELSE IF left = <<>> THEN 1
    ELSE IF right = <<>> THEN -1
    ELSE CompareLists(left, right,
             [i \in Common(left, right) |-> CompareIdentifier(left[i], right[i])])

\* Mutant: numbers are compared as strings.
CompareVersionsAsText(a, b) ==
    LET core == FirstDifference(<<CompareText(a.major, b.major),
                    CompareText(a.minor, b.minor), CompareText(a.patch, b.patch)>>)
    IN  IF core # 0 THEN core ELSE ComparePrerelease(a.prerelease, b.prerelease)

CompareVersions(a, b) ==
    LET core == FirstDifference(<<CompareNumericIdentifier(a.major, b.major),
                    CompareNumericIdentifier(a.minor, b.minor),
                    CompareNumericIdentifier(a.patch, b.patch)>>)
    IN  IF core # 0 THEN core ELSE ComparePrerelease(a.prerelease, b.prerelease)

-----------------------------------------------------------------------------
(* The precedence of SemVer 2.0.0, section 11                              *)

\* The number that the first digits make, for each number of them.
Prefixes(identifier) ==
    LET prefix[n \in 0..Len(identifier)] ==
            IF n = 0 THEN 0 ELSE 10 * prefix[n - 1] + identifier[n]
    IN  prefix

Value(identifier) == Prefixes(identifier)[Len(identifier)]

TextBelow(a, b) ==
    \E n \in 0..Len(a) :
        /\ n < Len(b)
        /\ \A i \in 1..n : a[i] = b[i]
        /\ IF n = Len(a) THEN TRUE ELSE a[n + 1] < b[n + 1]

IdentifierBelow(a, b) ==
    IF IsNumeric(a) THEN IsNumeric(b) => Value(a) < Value(b)
    ELSE ~IsNumeric(b) /\ TextBelow(a, b)

CoreBelow(a, b) ==
    \/ Value(a.major) < Value(b.major)
    \/ /\ Value(a.major) = Value(b.major)
       /\ Value(a.minor) < Value(b.minor)
    \/ /\ Value(a.major) = Value(b.major) /\ Value(a.minor) = Value(b.minor)
       /\ Value(a.patch) < Value(b.patch)

PrereleaseBelow(a, b) ==
    /\ a # <<>>
    /\ \/ b = <<>>
       \/ \E n \in 0..Len(a) :
            /\ n < Len(b)
            /\ \A i \in 1..n : a[i] = b[i]
            /\ IF n = Len(a) THEN TRUE ELSE IdentifierBelow(a[n + 1], b[n + 1])

Precedes(a, b) ==
    \/ CoreBelow(a, b)
    \/ /\ ~CoreBelow(b, a)
       /\ PrereleaseBelow(a.prerelease, b.prerelease)

\* A release that goes before or after another one, or is another build of it.
Precedence(a, b) == IF Precedes(a, b) THEN -1 ELSE IF Precedes(b, a) THEN 1 ELSE 0

=============================================================================
