--------------------------- MODULE MCScopedProvider ---------------------------
(***************************************************************************)
(* Two listings of one region.                                             *)
(***************************************************************************)
EXTENDS ScopedProvider

MCKey == {<<"list_volumes", "us-east-1">>, <<"list_images", "us-east-1">>}
===============================================================================
