--------------------------- MODULE MCEffectLoader ---------------------------
(* Instances of EffectLoader for TLC. *)
EXTENDS EffectLoader

CONSTANTS blur, fade, cube

(* A built-in effect, a script and a plugin. *)
OneEach == (blur :> "builtin") @@ (fade :> "scripted") @@ (cube :> "plugin")
=============================================================================
