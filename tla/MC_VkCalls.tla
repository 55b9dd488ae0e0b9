----------------------------- MODULE MC_VkCalls -----------------------------
(* Model-checking instance of VkCalls. *)
EXTENDS VkCalls
=============================================================================
