------------------------- MODULE MCKernelIntegrity -------------------------
(***************************************************************************)
(* KernelIntegrity with digests of two bytes, and clients whose buffers    *)
(* are smaller than, as large as and larger than the digits of a digest.   *)
(***************************************************************************)
EXTENDS KernelIntegrity

Digest == <<9, 171>>
Types == {ValueAndBuffer, BufferOnly}
ClientSizes == {3, 4, 5, 6}
=============================================================================
