---------------------------- MODULE MCIntegerUnit ----------------------------
\* Values at the edges of a byte, decimal bytes and bytes that are not, and one word.
EXTENDS IntegerUnit

MCStart == {0, 9, 25, 127, 128, 153, 255}
MCOperands == {0, 1, 57, 128, 255, 32768}
=============================================================================
