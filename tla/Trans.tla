------------------------------- MODULE Trans -------------------------------
(***************************************************************************)
(* The matrix transposes of src/cachelab/trans.c as the moves they make,   *)
(* B[j][i] = A[i][j], and the memory accesses those moves are.             *)
(*                                                                         *)
(* A position is the state of the loops: the block, the row i in it and    *)
(* the C variable diagonal.  A step of the model is one run of the         *)
(* innermost loop, over j, or eight turns of it in trans().                *)
(***************************************************************************)
EXTENDS Integers, Sequences

ClosedMin(x, y) == IF x >= y THEN y - 1 ELSE x  \* mutant: the limit is left out

min(x, y) == IF x > y THEN y ELSE x

Squares == {<<32, 32>>, <<64, 64>>}

(* The branch of transpose_submit() a size takes: its block size, 0 when   *)
(* no branch is meant for it.                                              *)
Block(M, N) == IF <<M, N>> = <<32, 32>> THEN 8
               ELSE IF <<M, N>> = <<64, 64>> THEN 4
               ELSE IF M = 61 THEN 16
               ELSE 0

(* Where the loops over i and j of a block stop.                           *)
RowEnd(M, N, p) == IF <<M, N>> \in Squares THEN p.row_blk + Block(M, N)
                   ELSE min(p.row_blk + Block(M, N), N)
ColEnd(M, N, p) == IF <<M, N>> \in Squares THEN p.col_blk + Block(M, N)
                   ELSE min(p.col_blk + Block(M, N), M)

(* diagonal after the loop over j *)
Diagonal(M, N, p) ==
  IF <<M, N>> \in Squares /\ p.i \in p.col_blk .. ColEnd(M, N, p) - 1
  THEN p.i ELSE p.diagonal

Cells(i, first, last) == [k \in 1 .. last - first + 1 |-> <<i, first + k - 1>>]

AtOnce(M, N, p) ==  \* mutant: the diagonal is copied with the rest of its row
  Cells(p.i, p.col_blk, ColEnd(M, N, p) - 1)

(* The elements <<i, j>> a row of a block moves, in order: in a square the *)
(* one on the diagonal waits for the end of the row.                       *)
SubmitRow(M, N, p) ==
  LET last == ColEnd(M, N, p) - 1
      d    == Diagonal(M, N, p)
  IN  IF <<M, N>> \notin Squares THEN Cells(p.i, p.col_blk, last)
      ELSE IF p.i \notin p.col_blk .. last THEN Cells(p.i, p.col_blk, last)
      ELSE Cells(p.i, p.col_blk, p.i - 1) \o Cells(p.i, p.i + 1, last)
           \o IF p.row_blk = p.col_blk THEN <<<<d, d>>>> ELSE <<>>

Start == [row_blk |-> 0, col_blk |-> 0, i |-> 0, diagonal |-> -1]

(* The position after this row: the next row, the next block of the band,  *)
(* or the first block of the next band.                                    *)
SubmitNext(M, N, p) ==
  LET q == [p EXCEPT !.diagonal = Diagonal(M, N, p)]
      band == p.row_blk + Block(M, N)
  IN  IF p.i + 1 < RowEnd(M, N, p) THEN [q EXCEPT !.i = p.i + 1]
      ELSE IF p.col_blk + Block(M, N) < M
      THEN [q EXCEPT !.col_blk = p.col_blk + Block(M, N), !.i = p.row_blk]
      ELSE [q EXCEPT !.row_blk = band, !.col_blk = 0, !.i = band]

(* trans(), the row-wise baseline, eight elements of a row of A at a time. *)
BaselineRow(M, p)  == Cells(p.i, p.col_blk, min(p.col_blk + 8, M) - 1)
BaselineNext(M, p) ==
  IF p.col_blk + 8 < M THEN [p EXCEPT !.col_blk = p.col_blk + 8]
  ELSE [p EXCEPT !.i = p.i + 1, !.col_blk = 0]

(* func_list after registerFunctions(), in order *)
func_list == <<"transpose_submit", "trans">>

Row(f, M, N, p) ==
  IF f = "trans" THEN BaselineRow(M, p) ELSE SubmitRow(M, N, p)
NextRow(f, M, N, p) ==
  IF f = "trans" THEN BaselineNext(M, p) ELSE SubmitNext(M, N, p)
Finished(f, M, N, p) ==
  IF f = "trans" THEN p.i >= N ELSE Block(M, N) = 0 \/ p.row_blk >= N

----------------------------------------------------------------------------
(* tracegen's static int A[256][256] and B[256][256], one behind the other *)
(* at a line boundary; the functions use them as A[N][M] and B[M][N].      *)
SizeOfInt == 4
AddrA(M, i, j) == SizeOfInt * (i * M + j)
AddrB(N, j, i) == SizeOfInt * (256 * 256 + j * N + i)

(* Moving an element loads it from A and stores it into B. *)
Accesses(M, N, cells) ==
  [k \in 1 .. 2 * Len(cells) |->
     LET c == cells[(k + 1) \div 2]
     IN  IF k % 2 = 1 THEN AddrA(M, c[1], c[2]) ELSE AddrB(N, c[2], c[1])]

(* B with those elements moved; an element of B is named by the one of A   *)
(* it was copied from.                                                     *)
Moved(B, cells) ==
  [j \in DOMAIN B |->
     [i \in DOMAIN B[j] |->
        IF \E k \in DOMAIN cells : cells[k] = <<i, j>> THEN <<i, j>> ELSE B[j][i]]]

(* What initMatrix() leaves in B: numbers that are none of A's.            *)
Junk(M, N) == [j \in 0 .. M - 1 |-> [i \in 0 .. N - 1 |-> <<>>]]

(* What validate() finds different from correctTrans(), of which it prints *)
(* the first; is_transpose() makes the same comparison.                    *)
Mismatches(M, N, B) == {c \in (0 .. N - 1) \X (0 .. M - 1) : B[c[2]][c[1]] # c}
is_transpose(M, N, B) == Mismatches(M, N, B) = {}
=============================================================================
