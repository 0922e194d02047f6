---------------------------- MODULE MCPayloadStore ----------------------------
(* Instances of PayloadStore for TLC. *)
EXTENDS PayloadStore

\* Requests, an index source, a downloaded payload, a generated one, and one that
\* no kept build references.
CONSTANTS c1, c2, src1, payload, media, stale

\* The row of the one no build keeps declares no MD5.
StaleUnchecked == {<<src1, stale>>}
===============================================================================
