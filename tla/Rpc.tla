--------------------------------- MODULE Rpc ---------------------------------
(***************************************************************************)
(* The calls to the daemon: rpc_call and direct_post of main.cpp with the  *)
(* checks their callers make.  A reply is how far the transfer came        *)
(* (libcurl, the HTTP status, whether the body is JSON) and what the JSON  *)
(* holds.  A call that throws has no other effect.                         *)
(***************************************************************************)
EXTENDS Naturals, Sequences

Reply(fields, values) ==
  [curl |-> "ok", http_code |-> 200, json |-> TRUE, fields |-> fields, values |-> values]
Heights(h) == Reply({"height"}, <<h>>)
Counts(values) == Reply({"distributions", "amount 0"}, values)
Outs(values) == Reply({"outs"}, values)
Error == Reply({"error"}, <<>>)

\* A transfer that ends early, noticed by libcurl or not.
CutOff(r) == {[r EXCEPT !.curl = "partial file", !.json = FALSE], [r EXCEPT !.json = FALSE]}

\* No connection, a stalled transfer, an HTTP error; an empty result.
Failures(r) ==
  CutOff(r) \cup {[r EXCEPT !.curl = "failed"], [r EXCEPT !.http_code = 500],
                  [r EXCEPT !.fields = {}]}

----------------------------------------------------------------------------

DirectPostThrows(r) == r.curl # "ok" \/ r.http_code # 200 \/ ~r.json

RpcCallThrows(r) == DirectPostThrows(r) \/ "error" \in r.fields

FetchChainHeightThrows(r) == RpcCallThrows(r) \/ "height" \notin r.fields

FetchChunkThrows(r) ==
  RpcCallThrows(r) \/ ~({"distributions", "amount 0"} \subseteq r.fields)

\* The slip: the number of results goes unchecked.
SlipFetchOutsThrows(r, asked) ==
  DirectPostThrows(r) \/ "error" \in r.fields \/ "outs" \notin r.fields

FetchOutsThrows(r, asked) ==
  \/ DirectPostThrows(r)
  \/ "error" \in r.fields \/ "outs" \notin r.fields
  \/ Len(r.values) # asked
=============================================================================
