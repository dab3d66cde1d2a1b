----------------------------- MODULE MCRetention -----------------------------
EXTENDS Retention

\* The clock runs, or is set back.
MCClockSteps == {1, -1}

\* One list shows that a cycle starts afresh on the next one.
MCMaxEntries == <<1, 3>>
=============================================================================
