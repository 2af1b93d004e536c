------------------------------ MODULE MCCodegen ------------------------------
(* Literals and runtime entry points for checking Codegen. *)
EXTENDS Codegen

MCConstants ==
    {<<Scalar("Integer"), "1">>, <<Scalar("Boolean"), "T">>, <<Scalar("Boolean"), "F">>,
     <<Scalar("Text"), <<"x">>>>, <<Scalar("Rational"), "1/2">>}

MCRuntimeCalls == DOMAIN Received
=============================================================================
