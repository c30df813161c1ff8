----------------------------- MODULE MCOngForm -----------------------------
(***************************************************************************)
(* One accepted and one refused content, two photos and two uploads: a     *)
(* second save and a second photo while the first upload is under way, and *)
(* completions in either order.  One failure; the clock leaves one update  *)
(* of the stock after the profile was read.                                *)
(***************************************************************************)
EXTENDS OngForm
=============================================================================
