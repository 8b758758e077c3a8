--------------------------- MODULE MCLiveService ---------------------------
(* TLC instance of LiveService, with and without a notifier: three runs,    *)
(* the fewest with which a run can be orphaned, and a payload that may      *)
(* raise two alerts.                                                        *)
EXTENDS LiveService
=============================================================================
