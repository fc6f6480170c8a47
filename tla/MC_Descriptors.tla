---------------------------- MODULE MC_Descriptors ----------------------------
(* Three descriptor numbers: enough for a pipe and one more descriptor, so *)
(* that a creation can find the table full.  Descriptor numbers are       *)
(* interchangeable in the model (it lets the kernel pick any free one).   *)
EXTENDS Descriptors, TLC

CONSTANTS d1, d2, d3

MCFds == {d1, d2, d3}
MCSymmetry == Permutations(MCFds)
MCAnyKernel == BOOLEAN
MCModernKernel == {TRUE}
MCOldKernel == {FALSE}
=============================================================================
