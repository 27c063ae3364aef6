---------------------------- MODULE MCHttpServer ----------------------------
(* HttpServer on a small instance: no definition of it needs an override. *)
EXTENDS HttpServer
=============================================================================
