----------------------------- MODULE MCFormItem -----------------------------
(***************************************************************************)
(* Two devices, one item everyone has and one that may be added.  Two      *)
(* operations are enough for an item deleted by one device and edited by   *)
(* the other (or by the same form, which stays open), and for an item      *)
(* added by one device and deleted by the other while the answer to the    *)
(* addition is lost; one failure loses the answers of a stream or the      *)
(* writes not yet persisted.  An operation is two writes, so the pipeline  *)
(* of three is full with the two operations of one device, and a stream    *)
(* may die with three committed writes unanswered.                         *)
(***************************************************************************)
EXTENDS FormItem, TLC

CONSTANTS k1, k2, a

MCInicial == (k1 :> a) @@ (k2 :> Ausente)
=============================================================================
