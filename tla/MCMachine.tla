----------------------------- MODULE MCMachine -----------------------------
(***************************************************************************)
(* Machine for TLC: all four roles, or the three that differ.              *)
(***************************************************************************)
EXTENDS Machine

FourRoles == {"etcd", "apiserver", "controller-manager", "scheduler"}
ThreeRoles == {"etcd", "apiserver", "scheduler"}
=============================================================================
