-------------------------- MODULE MCBookRefinement --------------------------
(***************************************************************************)
(* The instances of MCOrderBook, with the requests recorded.               *)
(***************************************************************************)
EXTENDS MCOrderBook, BookRefinement
=============================================================================
