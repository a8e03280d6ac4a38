--------------------------- MODULE MCOutboxKernel ---------------------------
(* Model checking of OutboxKernel.                                          *)
EXTENDS OutboxKernel
=============================================================================
