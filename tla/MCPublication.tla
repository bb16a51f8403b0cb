---------------------------- MODULE MCPublication ----------------------------
\* Publication with one or two sources and one directly written file.
EXTENDS Publication
=============================================================================
