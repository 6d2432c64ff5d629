------------------------- MODULE MCBufferedAppender -------------------------
(* Elements of two bytes in chunks of two elements.                        *)
EXTENDS BufferedAppender
=============================================================================
