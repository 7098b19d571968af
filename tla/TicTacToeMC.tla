---------------------------- MODULE TicTacToeMC ----------------------------
(***************************************************************************)
(* Model checking of TicTacToe: the squares of the board are alike.        *)
(***************************************************************************)
EXTENDS TicTacToe

CONSTANTS s1, s2, s3

Squares == {s1, s2, s3}
Symmetric == Permutations(Squares)

=============================================================================
