------------------------------ MODULE MCSurvey -------------------------------
EXTENDS Survey
==============================================================================
