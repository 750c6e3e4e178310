---------------------------- MODULE MCServerlessIO ----------------------------
(* Model-checking instance of ServerlessIO: two sessions whose Writes run  *)
(* concurrently, response bodies of up to three lines.                     *)
EXTENDS ServerlessIO

MCMaxLines == 3
=============================================================================
