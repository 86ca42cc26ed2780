----------------------------- MODULE MCConsent -----------------------------
(* One client that asks for one window's grant, and two who act on its page. *)
EXTENDS AuthConsent

CONSTANTS w1, c1, t1, Page

MCOneGrant == {[target |-> w1, window |-> w1, terms |-> t1]}
=============================================================================
