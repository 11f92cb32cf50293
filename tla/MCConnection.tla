---------------------------- MODULE MCConnection ----------------------------
EXTENDS Connection

\* Three requests: with content, without, and with less content than head.
Heads  == <<2, 1, 2>>
Bodies == <<2, 0, 1>>
=============================================================================
