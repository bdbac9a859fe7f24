----------------------------- MODULE MCWorldSwap -----------------------------
EXTENDS WorldSwap

CONSTANTS s1, s2

\* Every phase whose call may return an error.
AllPhases == Phases

\* The phases before the first rename: staging, marking and the stop check.
BeforeSwap == {"stage", "staging", "mark", "assert"}

TwoSaves == {s1, s2}

=============================================================================
