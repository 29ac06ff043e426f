--------------------------- MODULE MCSessionState ---------------------------
(***************************************************************************)
(* SessionState for TLC: gates over the first pin or over none, texts of   *)
(* strings.                                                                *)
(***************************************************************************)
EXTENDS SessionState

AnyString == STRING

SmallWirings == { <<1, 0, 0>>, <<0, 0, 0>> }

=============================================================================
