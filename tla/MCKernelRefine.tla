---------------------------- MODULE MCKernelRefine ----------------------------
(* Small instance of the kernel whose pages have contents.                 *)
EXTENDS KernelImplements, MCKernel
===============================================================================
