------------------------------ MODULE MCSessao ------------------------------
(***************************************************************************)
(* Two accounts, two sign-ins under way, four login screens: two sign-ins  *)
(* of one screen answered in either order, a Logout between an answer and  *)
(* its completion, a screen replaced with a sign-in under way, a restart.  *)
(***************************************************************************)
EXTENDS Sessao
=============================================================================
