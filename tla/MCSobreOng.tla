----------------------------- MODULE MCSobreOng -----------------------------
(***************************************************************************)
(* One NGO with one photo or none and one change between the two; two      *)
(* lists, so that a list can arrive for a view model already replaced, and *)
(* five screens built; one failure.                                        *)
(***************************************************************************)
EXTENDS SobreOng
=============================================================================
