---------------------------- MODULE MCViewChain ----------------------------
(***************************************************************************)
(* Views of small arrays of every rank up to three, with bytes of three    *)
(* bits: elements of two bits share bytes, those of three are bytes.       *)
(***************************************************************************)
EXTENDS ViewChain

TestShapes == {<<>>, <<6>>, <<2, 3>>, <<2, 1, 3>>, <<4>>, <<2, 2>>, <<2>>, <<3, 1>>,
               <<0, 5>>}

Part(start, stop, step) == [start |-> start, stop |-> stop, step |-> step]
TestSlices == {<<Part(1, 9, 1)>>, <<Part(0, 3, 2)>>, <<Part(0, 2, 1), Part(1, 3, 1)>>,
               <<Part(0, 9, 1), Part(0, 9, 2)>>, <<Part(2, 1, 1)>>}

TestSpare == {0, 2}

=============================================================================
