----------------------------- MODULE MCRequestGate -----------------------------
(***************************************************************************)
(* A finite instance of RequestGate for TLC.                               *)
(***************************************************************************)
EXTENDS RequestGate, TLC

CONSTANTS t1, t2, k1, shared

MCKeys == {t1, t2, k1, shared}
MCRate == [c \in Classes |-> 1]
\* An idle time fills all buckets but the one of installations, which gains from being
\* forgotten.
MCBurst == [c \in Classes |-> IF c = "read" THEN 4 ELSE 2]

\* Four uploads, which a burst of two does not cover; eight installations, the bursts of a
\* bucket that is forgotten in between; both beside each other; tokens and what becomes of
\* those who use them; accounts; the first start of a server.
MCLoads ==
    {[ops |-> {"upload"}, most |-> 4, until |-> 3, booted |-> TRUE],
     [ops |-> {"install"}, most |-> 8, until |-> 3, booted |-> TRUE],
     [ops |-> {"upload", "install"}, most |-> 3, until |-> 3, booted |-> TRUE],
     [ops |-> {"issue", "revoke"}, most |-> 3, until |-> 2, booted |-> TRUE],
     [ops |-> {"account", "issue"}, most |-> 3, until |-> 1, booted |-> TRUE],
     [ops |-> {"account"}, most |-> 1, until |-> 1, booted |-> FALSE]}

\* The threads of the server are interchangeable, and so are tokens and the
\* bootstrap commands.
ThreadSymmetry == Permutations(Requests) \cup Permutations(Operators) \cup Permutations({t1, t2})

=============================================================================
