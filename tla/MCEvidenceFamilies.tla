------------------------- MODULE MCEvidenceFamilies -------------------------
EXTENDS EvidenceFamilies

MCExperiments == {"primary", "strong_local"}
MCStrongLocal == {"strong_local"}
MCEvaluationOf == <<1, 2>>
MCAnalysisOf == <<1, 1>>
=============================================================================
