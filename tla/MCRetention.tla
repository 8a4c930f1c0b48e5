---------------------------- MODULE MCRetention ----------------------------
EXTENDS Retention
CONSTANTS s1, s2, f1, f2
OneServer == {s1}
TwoServers == {s1, s2}
OneFile == {f1}
TwoFiles == {f1, f2}
=============================================================================
