-------------------------------- MODULE MCFiles --------------------------------
(* A small instance of Files: one write fits the pipe, one must be split. *)
EXTENDS Files

MCBuffers == {<<0>>, <<1, 0, 1>>}
===============================================================================
