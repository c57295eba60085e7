---------------------------- MODULE MCRagIngest ----------------------------
(* Instances of RagIngest: the rag_ingest_mode settings to cover.          *)
EXTENDS RagIngest

MCAllSettings == {"sync", "auto", "celery", "background"}
MCCelery == {"celery"}
=============================================================================
