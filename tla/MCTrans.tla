------------------------------ MODULE MCTrans ------------------------------
EXTENDS TestTrans
(* A size no branch of transpose_submit() is for, and one that only shares *)
(* M with a graded one.                                                    *)
MCByHand == {<<8, 8>>, <<61, 20>>}
=============================================================================
