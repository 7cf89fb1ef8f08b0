----------------------------- MODULE MCWindows -----------------------------
(***************************************************************************)
(* Windows with two window objects, a render texture, which is a texture   *)
(* with a framebuffer, and a renderer; windows are opened three times.     *)
(***************************************************************************)
EXTENDS Windows, TLC

CONSTANTS a, b, target, renderer

Symmetry == Permutations({a, b})
=============================================================================
