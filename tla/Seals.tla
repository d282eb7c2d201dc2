------------------------------- MODULE Seals -------------------------------
(***************************************************************************)
(* Domain-separated seals, shared by every store of the package.           *)
(*                                                                         *)
(* canonical.py computes SHA-256 over a domain tag and the canonical       *)
(* encoding of a body.  What the stores rely on is that two seals are      *)
(* equal exactly when their domains and their bodies are: the model keeps  *)
(* the pre-image, and the digest stands for it.                            *)
(***************************************************************************)

Seal(domain, body) == <<domain, body>>
=============================================================================
