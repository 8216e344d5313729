-------------------------------- MODULE GF4 --------------------------------
(* The field of four elements, which the configurations give to Fountain in *)
(* place of GF(256): the smallest field of characteristic two in which two  *)
(* combinations of the same chunks can cancel in part.  2 and 3 are the     *)
(* roots of x^2 + x + 1, so 1, 2, 3 are the powers 0, 1, 2 of 2.            *)
EXTENDS Naturals

GF4 == 0 .. 3

GF4Add(x, y) ==
  LET bit(n, b) == (n \div b) % 2
      xor(b) == ((bit(x, b) + bit(y, b)) % 2) * b
  IN  xor(1) + xor(2)

GF4Mul(x, y) == IF x = 0 \/ y = 0 THEN 0 ELSE 1 + (((x - 1) + (y - 1)) % 3)

GF4Inv(x) == IF x = 0 THEN 0 ELSE 1 + ((4 - x) % 3)

\* Every sequence of coefficients a generator could give.
AllDraws(n) == [0 .. n - 1 -> GF4 \ {0}]

\* Those that begin with 1.  solve normalises what it keeps, so a combination
\* and its multiples have the same effect.
NormalDraws(n) == {g \in AllDraws(n) : g[0] = 1}

\* A single seed, whose coefficients are all 1: two combinations of the same
\* chunks are never independent.
OneDraw(n) == {[i \in 0 .. n - 1 |-> 1]}
=============================================================================
