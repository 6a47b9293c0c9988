-------------------------- MODULE MCPackageInstall --------------------------
(* PackageInstall on three sources, one more than a batch of Concurrency 1 *)
(* holds, and two runs over the same disk.                                 *)
EXTENDS PackageInstall
=============================================================================
