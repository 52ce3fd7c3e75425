-------------------------- MODULE MCProcessMemory --------------------------
(* Instances of ProcessMemory for TLC.                                     *)
EXTENDS ProcessMemory

\* Permissions.
OnlyReadWrite == {ReadWrite}
=============================================================================
