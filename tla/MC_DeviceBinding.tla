------------------------- MODULE MC_DeviceBinding -------------------------
(* Model-checking instance of DeviceBinding: passwords and devices are     *)
(* interchangeable.  Once no edit is left an open form can neither be saved *)
(* nor replaced, and it is read by a property only where a step changes    *)
(* it: the view drops it.                                                  *)
EXTENDS DeviceBinding, TLC

BindingSymmetry == Permutations(Users) \cup Permutations(Devices)

BindingView ==
    <<table, dev, rows, devrows, peers, wrap, behind, IF Left THEN form ELSE NoForm,
      snap, made, edits, torn, halfway, ghosts, stale, unkeyed, lost>>
=============================================================================
