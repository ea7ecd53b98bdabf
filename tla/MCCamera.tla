------------------------------ MODULE MCCamera ------------------------------
(* Camera with overlapping exposures, aborts, window changes and lost drivers. *)
EXTENDS Camera

W(reqs, n, max, saved, dies) ==
  [reqs |-> reqs, n |-> n, max |-> max, saved |-> saved, dies |-> dies]
MCWorkloads ==
  {W({"StartExposure"}, 2, 2, {"CLIENT"}, FALSE),
   W({"StartExposure"}, 1, 1, {"LOCAL"}, TRUE),
   W({"StartExposure", "AbortExposure"}, 2, 2, {"CLIENT"}, FALSE),
   W({"StartExposure", "AbortExposure"}, 1, 2, {"CLIENT"}, TRUE),
   W({"setFrame"}, 2, 3, {"CLIENT"}, FALSE),
   W({"setFrame"}, 1, 2, {"CLIENT"}, TRUE),
   W({"SetSetCCDTemperature"}, 2, 2, {"CLIENT"}, TRUE)}
=============================================================================
