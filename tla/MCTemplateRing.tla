---------------------------- MODULE MCTemplateRing ----------------------------
(* The template thread with a small ring, or with the sizes of the code.     *)
EXTENDS TemplateRing
=============================================================================
