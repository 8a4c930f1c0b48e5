------------------------------ MODULE MCRollup ------------------------------
EXTENDS Rollup
CONSTANTS s1, s2
TwoServers == {s1, s2}
TwoPlaces  == {1, 2}
\* s1 is polled in every hour, twice in the last one of the older version.
Samples    == {<<s1, 0, 1>>, <<s1, 1, 1>>, <<s1, 1, 2>>, <<s1, 2, 1>>, <<s2, 1, 1>>}
=============================================================================
