------------------------------- MODULE Crypto -------------------------------
(***************************************************************************)
(* A hash, a MAC and a signature stand for what they are computed from:    *)
(* Hmac(k, x) and Sign(k, x) can be computed only from k and x, and two of *)
(* them are equal only if both are.                                        *)
(***************************************************************************)

\* sha256 of the canonical JSON: of the values themselves, whatever order or
\* layout they were written in.
Hash(bytes)         == [hash |-> bytes]
Hmac(secret, bytes) == [hmac |-> secret, of |-> bytes]
Sign(key, bytes)    == [by |-> key, of |-> bytes]
=============================================================================
