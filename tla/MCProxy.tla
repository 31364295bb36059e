------------------------------ MODULE MCProxy ------------------------------
(***************************************************************************)
(* Small instances of the proxy: what a batch may hold.                    *)
(***************************************************************************)
EXTENDS Proxy

Traces(gzip, sound, spans) ==
  [signal |-> "traces", gzip |-> gzip, sound |-> sound, spans |-> spans]
Other(signal, gzip) ==
  [signal |-> signal, gzip |-> gzip, sound |-> TRUE, spans |-> <<>>]

(* A gateway's span over a failed and a good call, compressed; a batch     *)
(* with a span that cannot be counted; damaged batches; plain metrics.     *)
Contained ==
  {Traces(TRUE, TRUE, <<"parent", "call", "failed">>),
   Traces(FALSE, TRUE, <<"call", "bad", "other">>),
   Traces(TRUE, FALSE, <<>>),
   Other("metrics", FALSE)}
=============================================================================
