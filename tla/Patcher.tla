------------------------------- MODULE Patcher -------------------------------
(***************************************************************************)
(* What a user of ps3patch may rely on, whatever is interrupted: every     *)
(* path holds no file, a clean PS3 executable, one that was patched once,  *)
(* or something the tool refuses.  A file is patched from a clean one      *)
(* only, and while it is written, or if that is abandoned, it is neither   *)
(* clean nor patched.                                                      *)
(***************************************************************************)
CONSTANT Paths

VARIABLES
  kind,   \* what each path holds
  job     \* the path being written, or "none"

Kinds == {"absent", "clean", "patched", "refused"}

Init == kind \in [Paths -> Kinds] /\ job = "none"

Begin(in, out) ==
  /\ job = "none"
  /\ kind[in] = "clean"
  /\ kind' = [kind EXCEPT ![out] = "refused"]
  /\ job' = out

Finish ==
  /\ job # "none"
  /\ kind' = [kind EXCEPT ![job] = "patched"]
  /\ job' = "none"

Abandon ==
  /\ job # "none"
  /\ job' = "none"
  /\ UNCHANGED kind

Next == (\E in, out \in Paths : Begin(in, out)) \/ Finish \/ Abandon

Spec == Init /\ [][Next]_<< kind, job >>
=============================================================================
