----------------------------- MODULE MCKconfig -----------------------------
EXTENDS KconfigSession, KconfigPrograms
=============================================================================
