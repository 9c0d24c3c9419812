--------------------------- MODULE MCInterceptor ---------------------------
(* The constants are numbers: see MCInterceptor.cfg.                       *)
EXTENDS Interceptor

=============================================================================
