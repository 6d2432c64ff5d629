--------------------------- MODULE MCStagedCommit ---------------------------
EXTENDS StagedCommit
=============================================================================
