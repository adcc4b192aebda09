---------------------------- MODULE MCHttpServer ----------------------------
(* Instances of HttpServer for TLC: which clients there are and what they send. *)
EXTENDS HttpServer

LongRequest == <<"get1", "get2", "hdr1", "hdr2", "cr", "lf">>
ShortRequest == <<"get1", "get2", "cr", "lf">>

\* One client whose two requests may be cut anywhere, and two clients that each
\* send one at once.
OneCutTwoWhole ==
  {[clients |-> {1}, script |-> LongRequest \o ShortRequest, split |-> TRUE],
   [clients |-> {1, 2}, script |-> ShortRequest, split |-> FALSE]}

=============================================================================
