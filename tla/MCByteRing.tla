----------------------------- MODULE MCByteRing -----------------------------
(***************************************************************************)
(* A ring of four cells whose counters wrap at eight.  Messages are of   *)
(* one to three bytes, and one is too long for any ring of this size.      *)
(***************************************************************************)
EXTENDS ByteRing

SmallMessages == {<<1>>, <<0, 1>>, <<1, 1, 0>>, <<1, 0, 1, 0, 1>>}
=============================================================================
