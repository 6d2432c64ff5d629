---------------------------- MODULE MCSwmrAppend ----------------------------
EXTENDS SwmrAppend
=============================================================================
