--------------------------- MODULE MCStreamHandle ---------------------------
(* Small instances of StreamHandle for TLC. *)
EXTENDS StreamHandle

\* 0..MaxBytes for forward reads, an offset past the trigger but below every
\* pinned buffer, one inside the longer buffer, and the pseudo end of file.
MCOffsets == 0..MaxBytes \cup {PSEUDO_EOF - 3, PSEUDO_EOF - 1, PSEUDO_EOF}

\* Forward reads only.
MCForward == 0..MaxBytes
=============================================================================
