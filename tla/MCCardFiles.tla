---------------------------- MODULE MCCardFiles ----------------------------
EXTENDS CardFiles

\* A sector is half of the buffer that the program's writes fill: writes of a
\* full buffer and of one and a half sectors.
mcLengths  == {3, 4}
mcSymmetry == Permutations(Names)
=============================================================================
