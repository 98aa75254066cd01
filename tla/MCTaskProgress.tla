--------------------------- MODULE MCTaskProgress ---------------------------
EXTENDS TaskProgress, TLC

\* The second plan waits for a file; the third one lacks a confirmation at
\* its end and is refused.
MCPlans == {<<"repair", "confirm">>, <<"upload", "confirm">>, <<"repair">>}

\* A file whose label is in no step's label, and one that names the repair
\* and the confirmation of it.
MCLabels == {{}, {"repair", "confirm"}}
Interchangeable == Permutations(Requests)
=============================================================================
