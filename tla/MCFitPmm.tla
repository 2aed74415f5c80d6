------------------------------ MODULE MCFitPmm ------------------------------
(* The runs of FitPmm give every constant its value in the configuration.  *)
EXTENDS FitPmm
=============================================================================
