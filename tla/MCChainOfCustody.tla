-------------------------- MODULE MCChainOfCustody --------------------------
(* Small instances of ChainOfCustody for TLC.                              *)
EXTENDS ChainOfCustody

CONSTANTS i1, i2, upload, ingest, note, download1, download2, other

\* The hash is modelled by its preimage: equal hashes have equal inputs.
MCHash(i, n, what, prev) == <<i, n, what, prev>>

MCEntry(id, i, what, strict) == [id |-> id, incident |-> i, what |-> what, strict |-> strict]

\* upload: upload_job_evidence.  ingest: process_s3_upload_background of the same
\* job.  note: POST /chain-of-custody.  download1/2: exports of two incidents
\* downloaded by one user in one second, which gives them the same entry id.
\* other: a request on the second incident.
MCPlan ==
  [r \in Request |->
     CASE r = upload    -> <<MCEntry("coc-job", i1, "uploaded", TRUE),
                             MCEntry("coc-lock-job", i1, "locked", FALSE),
                             MCEntry("coc-complete-job", i1, "completed", FALSE)>>
       [] r = ingest    -> <<MCEntry("coc-job", i1, "ingested", TRUE)>>
       [] r = note      -> <<MCEntry("note", i1, "noted", TRUE)>>
       [] r = download1 -> <<MCEntry("coc-download", i1, "downloaded", FALSE)>>
       [] r = download2 -> <<MCEntry("coc-download", i2, "downloaded", FALSE)>>
       [] r = other     -> <<MCEntry("other", i2, "created", FALSE)>>]
=============================================================================
