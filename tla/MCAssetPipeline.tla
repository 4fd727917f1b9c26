-------------------------- MODULE MCAssetPipeline --------------------------
(* Instances of AssetPipeline for TLC. *)
EXTENDS AssetPipeline

=============================================================================
