------------------------------- MODULE MCForm -------------------------------
(***************************************************************************)
(* A form of two pages.                                                    *)
(***************************************************************************)
EXTENDS FormSession

CONSTANT a

Small == INSTANCE SmallForms

MCValues == {Empty, a}
TwoPages == Small!TwoPages
============================================================================
