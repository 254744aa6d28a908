-------------------------- MODULE MCCaptureStandby --------------------------
(***************************************************************************)
(* Instances of CaptureStandby for TLC.                                    *)
(***************************************************************************)
EXTENDS CaptureStandby

=============================================================================
