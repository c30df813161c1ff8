----------------------------- MODULE MCExplorar -----------------------------
(***************************************************************************)
(* Two NGOs and two photos, which they may share, one change of photo; two *)
(* lists, so that a list can arrive for a view model already replaced, and *)
(* four photo screens; one failure.                                        *)
(***************************************************************************)
EXTENDS Explorar
=============================================================================
