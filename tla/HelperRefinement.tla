-------------------------- MODULE HelperRefinement --------------------------
(***************************************************************************)
(* The transport implements the abstract request: an id is asked for when  *)
(* it is handed to adb, its outcome is what the app found, and its result  *)
(* is there when the last line of it has been written to logcat.           *)
(***************************************************************************)
EXTENDS HelperTransport

Focus == INSTANCE FocusRequest WITH
  asked   <- Req \ fresh,
  outcome <- verdict

\* Whatever is lost, late, garbled, killed or started again, a request is
\* performed at most once or refused, given at most one result and answered
\* once, with that result or an error (request_smart_next and
\* request_focus_command over the app's dispatchers).
ImplementsFocusRequest == Focus!Spec

=============================================================================
