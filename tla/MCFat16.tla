------------------------------- MODULE MCFat16 -------------------------------
\* Model values and bounds for checking Fat16 with TLC.
EXTENDS Fat16, TLC

CONSTANTS file_a, file_b, file_c, x, y

\* An empty file, which has one cluster all the same, and one of two.
MCContent == {<<>>, <<y, x>>}
=============================================================================
