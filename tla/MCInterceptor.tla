---------------------------- MODULE MCInterceptor ----------------------------
(* Interceptor on small programs.                                          *)
EXTENDS Interceptor

CONSTANTS t1, t2, a1, a2

Opposite == (t1 :> <<a1, a2>>) @@ (t2 :> <<a2, a1>>)
Ordered  == (t1 :> <<a1, a2>>) @@ (t2 :> <<a1, a2>>)
OneLock  == (t1 :> <<a1>>) @@ (t2 :> <<a1>>)

=============================================================================
