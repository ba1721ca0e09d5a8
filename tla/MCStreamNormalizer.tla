-------------------------- MODULE MCStreamNormalizer --------------------------
(* Model-checking instance of StreamNormalizer: two pods, a document that is *)
(* fetched twice, one that cannot be read, and a malformed last record.      *)
EXTENDS StreamNormalizer

MCHash == {"a", "b"}
MCContentOf == <<"a", "b", "a", "b">>
===============================================================================
