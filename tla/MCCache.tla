------------------------------- MODULE MCCache --------------------------------
(* One ZIP key and a Markdown key, two threads, contents of size two and three,
   two urls that may serve the same bytes.  A ZIP, its sidecar and the Markdown
   exceed the limit unless both contents are the smaller one. *)
EXTENDS Cache, TLC

CONSTANTS t1, t2, k1, m1, p, q, u1, u2

MCThreads == {t1, t2}
MCZipKeys == {k1}
MCMdKeys == {m1}
MCPayloads == {p, q}
MCUrls == {u1, u2}
MCSize == p :> 2 @@ q :> 3
=============================================================================
