------------------------------- MODULE MCQBuf -------------------------------
(***************************************************************************)
(* A buffer over two byte values, created with 0 (RAW_SIZE), 1 or 3 bytes  *)
(* and growing to at most 8, driven by chunks of at most 2 bytes.          *)
(***************************************************************************)
EXTENDS QBufMachine

CONSTANTS low, high

MCByte == {low, high}
MCNewSizes == {0, 1, 3}

=============================================================================
