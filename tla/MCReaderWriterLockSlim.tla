---------------------- MODULE MCReaderWriterLockSlim ----------------------
(* Constants for model-checking ReaderWriterLockSlim. *)
EXTENDS ReaderWriterLockSlim

CONSTANTS t1, t2, t3

AnyMode == [t \in Threads |-> AllModes]

\* A reader, a thread that may do anything, and one that writes, directly or by
\* upgrading.
MixedModes ==
  [t \in Threads |-> CASE t = t1 -> {"read"}
                       [] t = t2 -> AllModes
                       [] t = t3 -> {"upgrade", "write"}]
=============================================================================
