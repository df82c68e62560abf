----------------------------- MODULE MCAuthFlows -----------------------------
(***************************************************************************)
(* AuthFlows with the steps of the source: nothing in it is bounded.       *)
(***************************************************************************)
EXTENDS AuthFlows

SourceSteps ==
  {"checkToken", "loadExternalProviders", "externalProvider", "popupDisposing",
   "openSignInPopup", "openRegisterPopup", "openChangePasswordPopup",
   "openResetPasswordPopup", "signIn", "sendInstructions", "createAccount",
   "changePassword", "resetPassword"}
=============================================================================
