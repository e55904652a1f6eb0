---------------------------- MODULE MCRestClient ----------------------------
(***************************************************************************)
(* TLC instance of RestClient: the series walked at once are model values. *)
(***************************************************************************)
EXTENDS RestClient

CONSTANTS s1, s2, s3

MCCallers == {s1, s2, s3}

=============================================================================
