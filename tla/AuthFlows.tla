------------------------------ MODULE AuthFlows ------------------------------
(***************************************************************************)
(* The four authentication flows (shared.UI/src/flows/auth) on the runner  *)
(* of FlowRunner and on the surface manager of the browser host            *)
(* (shared.UI.EJS, EjsUiSurfaceManager and PopupBase).                     *)
(*                                                                         *)
(* An action is one event of the browser with the promise callbacks that   *)
(* follow it: a click, an answered request, a surface that is shown or     *)
(* closed.  A flow waits for its popup to be disposed and then for its     *)
(* substeps; the user owes it nothing.  ApiHandler aborts a request after  *)
(* UI_API_REQUEST_TIMEOUT_MS; only the session's request for the platform's*)
(* permissions, a fetch of auth-client.ts, has no limit and may never      *)
(* answer.                                                                 *)
(***************************************************************************)
EXTENDS FlowRunner, Sequences

Flow == {"signin", "register", "changePassword", "resetPassword"}

\* The popup's step of each flow, and the substeps that send credentials.
MainStep ==
  [f \in Flow |-> CASE f = "signin" -> "openSignInPopup"
                    [] f = "register" -> "openRegisterPopup"
                    [] f = "changePassword" -> "openChangePasswordPopup"
                    [] f = "resetPassword" -> "openResetPasswordPopup"]
Commands ==
  [f \in Flow |-> CASE f = "signin" -> {"signIn", "sendInstructions"}
                    [] f = "register" -> {"createAccount"}
                    [] f = "changePassword" -> {"changePassword"}
                    [] f = "resetPassword" -> {"resetPassword"}]

AllSteps ==
  {"checkToken", "loadExternalProviders", "externalProvider", "popupDisposing"}
    \cup {MainStep[f] : f \in Flow} \cup UNION {Commands[f] : f \in Flow}

ASSUME StepsAssumption == AllSteps \subseteq Step /\ None \notin Step \cup Flow

\* What a substep awaits: an answer of the API, the session, or the closing
\* of a message after which it closes the popup, stays or does what is decided.
Await == {"nothing", "call", "session", "close", "stay", "decide"}
Messages == {"close", "stay", "decide"}

VARIABLES
  flow,       \* FlowRunner.running
  phase,      \* "idle", "inspecting", "refusing", "open" or "closing"
  execution,  \* FlowExecution and ctx.flow
  awaits,     \* what each substep's promise is pending on
  surfaces,   \* SurfaceManager.entries: the step that owns each, bottom first
  busy,       \* the popup's state.busy
  user        \* somebody is signed in

flowVars == <<flow, phase, execution, awaits, surfaces, busy, user>>

FlowsInit ==
  /\ flow = None
  /\ phase = "idle"
  /\ execution = NewExecution
  /\ awaits = [s \in Step |-> "nothing"]
  /\ surfaces = <<>>
  /\ busy = FALSE
  /\ user \in BOOLEAN

-----------------------------------------------------------------------------
Top(s) == surfaces # <<>> /\ surfaces[Len(surfaces)] = s
PopupOnTop == flow # None /\ Top(MainStep[flow])

\* Mutant: nobody asks whether the popup is still there.
Unchecked == TRUE
IsOpen == phase = "open"

Await_(s, what) == awaits' = [awaits EXCEPT ![s] = what]

\* The popup is mounted and, before any click, shown: its flow waits and the
\* providers it may offer are requested.
Opened(f, e) ==
  LET waiting == Waiting(Executed(e, MainStep[f]), MainStep[f])
  IN  /\ phase' = "open"
      /\ surfaces' = <<MainStep[f]>>
      /\ IF f \in {"signin", "register"}
         THEN /\ execution' = Begun(waiting, "loadExternalProviders")
              /\ Await_("loadExternalProviders", "call")
         ELSE execution' = waiting /\ UNCHANGED awaits

Refused(e) ==
  /\ phase' = "refusing"
  /\ surfaces' = <<"checkToken">>
  /\ execution' = Executed(e, "checkToken")
  /\ UNCHANGED awaits

\* run(), unless a flow is running: its promise is all a caller gets then.
\* Whoever is signed in is not asked to sign in or to register: the flow ends
\* with its first step.
Run(f) ==
  /\ flow = None
  /\ f \in {"signin", "register"} => ~user
  /\ flow' = f
  /\ IF f # "resetPassword"
     THEN Opened(f, NewExecution)
     ELSE \/ /\ phase' = "inspecting"
             /\ execution' = Executed(NewExecution, "checkToken")
             /\ UNCHANGED <<awaits, surfaces>>
          \/ Refused(NewExecution)   \* there is no token
  /\ UNCHANGED <<busy, user>>

InspectionSettles(answer) ==
  /\ phase = "inspecting"
  /\ \/ answer = "valid" /\ Opened(flow, Completed(execution, "checkToken"))
     \/ answer = "invalid" /\ Refused(execution)
     \/ /\ answer = "error"
        /\ phase' = "closing"
        /\ execution' = [execution EXCEPT !.status["checkToken"] = "failed"]
        /\ UNCHANGED <<awaits, surfaces>>
  /\ UNCHANGED <<flow, busy, user>>

\* The sequence is over and no substep is in flight: ctx.flow is dropped.
EndFlow ==
  /\ phase = "closing"
  /\ Drained(execution)
  /\ flow' = None
  /\ phase' = "idle"
  /\ execution' = NewExecution
  /\ UNCHANGED <<awaits, surfaces, busy, user>>

-----------------------------------------------------------------------------
\* The popup is disposed: its observers run popupDisposing, and the flow's
\* own step goes on to drain().
Disposing(e) == Ended(Begun(e, "popupDisposing"), "popupDisposing", "completed")

ClosePopup(e) ==
  /\ phase' = "closing"
  /\ surfaces' = <<>>
  /\ busy' = FALSE
  /\ execution' = e

\* Mutant: the popup stays busy under its message.
StillBusy(s, then) ==
  /\ surfaces' = Append(surfaces, s)
  /\ UNCHANGED busy
  /\ Await_(s, then)

\* A message of substep s comes up over the popup; what follows its closing.
Tell(s, then) ==
  /\ surfaces' = Append(surfaces, s)
  /\ busy' = FALSE
  /\ Await_(s, then)

\* Disposing the popup aborts the request, which settles it as well.
ProvidersSettle ==
  /\ awaits["loadExternalProviders"] = "call"
  /\ execution' = Ended(execution, "loadExternalProviders", "completed")
  /\ Await_("loadExternalProviders", "nothing")
  /\ UNCHANGED <<flow, phase, surfaces, busy, user>>

\* A button of the popup: rules or inputs stop the substep at once, or it
\* makes the popup busy and calls the API.
Command(s, filledIn) ==
  /\ PopupOnTop /\ ~busy
  /\ s \in Commands[flow]
  /\ CanBegin(execution, s)
  /\ IF filledIn
     THEN /\ execution' = Begun(execution, s)
          /\ busy' = TRUE
          /\ Await_(s, "call")
     ELSE /\ execution' = Ended(Begun(execution, s), s, "completed")
          /\ UNCHANGED <<busy, awaits>>
  /\ UNCHANGED <<flow, phase, surfaces, user>>

\* An external provider: signing in leaves the page or fails to; registering
\* is not available yet and says so.
ChooseProvider(starts) ==
  /\ PopupOnTop /\ ~busy
  /\ flow \in {"signin", "register"}
  /\ CanBegin(execution, "externalProvider")
  /\ IF starts
     THEN /\ execution' = Ended(Begun(execution, "externalProvider"), "externalProvider", "completed")
          /\ UNCHANGED <<surfaces, busy, awaits>>
     ELSE /\ execution' = Begun(execution, "externalProvider")
          /\ Tell("externalProvider", IF flow = "signin" THEN "decide" ELSE "stay")
  /\ UNCHANGED <<flow, phase, user>>

-----------------------------------------------------------------------------
Calling(s) == s # "loadExternalProviders" /\ awaits[s] = "call"

\* The substep returns because its popup is gone.
GivesUp(s) ==
  /\ execution' = Ended(execution, s, "completed")
  /\ Await_(s, "nothing")
  /\ UNCHANGED <<phase, surfaces, busy>>

CallSucceeds(s) ==
  /\ Calling(s)
  /\ IF s = "signIn"
     THEN /\ user' = TRUE
          /\ Await_(s, "session")
          /\ UNCHANGED <<phase, execution, surfaces, busy>>
     ELSE /\ UNCHANGED user
          /\ IF IsOpen THEN Tell(s, "close") /\ UNCHANGED <<phase, execution>>
             ELSE GivesUp(s)
  /\ UNCHANGED <<flow>>

\* The API refuses or the request is aborted; the session refuses the user.
CallFails(s) ==
  /\ Calling(s)
  /\ IF IsOpen
     THEN /\ Tell(s, IF flow = "signin" THEN "decide" ELSE "stay")
          /\ UNCHANGED <<phase, execution>>
     ELSE GivesUp(s)
  /\ UNCHANGED <<flow, user>>

\* signedIn() has the platform's permissions, or learns that there is no
\* session any more: neither is an error to the flow.
SessionSettles(expired) ==
  /\ awaits["signIn"] = "session"
  /\ IF IsOpen
     THEN ClosePopup(Ended(Disposing(execution), "signIn", "completed")) /\ Await_("signIn", "nothing")
     ELSE GivesUp("signIn")
  /\ user' = (user /\ ~expired)
  /\ UNCHANGED <<flow>>

\* The message after which the popup closes: a success, or an error that is
\* not to be retried.
CloseMessage(s) ==
  /\ Top(s) /\ awaits[s] \in {"close", "decide"}
  /\ ClosePopup(Ended(Disposing(execution), s, "completed"))
  /\ Await_(s, "nothing")
  /\ UNCHANGED <<flow, user>>

BackToPopup(s, outcome) ==
  /\ surfaces' = <<MainStep[flow]>>
  /\ execution' = Ended(execution, s, outcome)
  /\ Await_(s, "nothing")

\* A message after which the popup stays.
Acknowledge(s) ==
  /\ Top(s) /\ awaits[s] = "stay"
  /\ BackToPopup(s, "completed")
  /\ UNCHANGED <<flow, phase, busy, user>>

\* Retry in an error of the sign-in popup: the command's loop goes round, or
\* finds no credentials any more; a provider is started once more and, when it
\* throws again, fails the substep.
Retry(s, goes) ==
  /\ Top(s) /\ awaits[s] = "decide"
  /\ \/ /\ s \in Commands[flow] /\ goes
        /\ surfaces' = <<MainStep[flow]>>
        /\ busy' = TRUE
        /\ Await_(s, "call")
        /\ UNCHANGED execution
     \/ /\ s = "signIn" /\ ~goes
        /\ BackToPopup(s, "completed")
        /\ UNCHANGED busy
     \/ /\ s = "externalProvider"
        /\ BackToPopup(s, IF goes THEN "completed" ELSE "failed")
        /\ UNCHANGED busy
  /\ UNCHANGED <<flow, phase, user>>

\* "This password link is invalid": the flow stops with its first step.
AnswerRefusal ==
  /\ phase = "refusing"
  /\ phase' = "closing"
  /\ surfaces' = <<>>
  /\ UNCHANGED <<flow, execution, awaits, busy, user>>

-----------------------------------------------------------------------------
\* The user closes the popup; a busy one, or one under a message, stays.
Dismiss ==
  /\ PopupOnTop /\ ~busy
  /\ ClosePopup(Disposing(execution))
  /\ UNCHANGED <<flow, awaits, user>>

\* The page leaves: the host closes every surface, the topmost first and
\* busy or not; the substep that awaited a message finds the popup gone.
HostCloses ==
  /\ surfaces # <<>>
  /\ LET top == surfaces[Len(surfaces)]
         closed == IF IsOpen THEN Disposing(execution) ELSE execution
     IN  IF awaits[top] \in Messages
         THEN ClosePopup(Ended(closed, top, "completed")) /\ Await_(top, "nothing")
         ELSE ClosePopup(closed) /\ UNCHANGED awaits
  /\ UNCHANGED <<flow, user>>

\* The session ends elsewhere: signing out, expiry, an outage.
SessionEnds ==
  /\ user
  /\ user' = FALSE
  /\ UNCHANGED <<flow, phase, execution, awaits, surfaces, busy>>

Settles ==
  \/ \E answer \in {"valid", "invalid", "error"} : InspectionSettles(answer)
  \/ ProvidersSettle

CallSettles(s) == CallSucceeds(s) \/ CallFails(s)

FlowsNext ==
  \/ \E f \in Flow : Run(f)
  \/ EndFlow
  \/ \E s \in Step, filledIn \in BOOLEAN : Command(s, filledIn)
  \/ \E starts \in BOOLEAN : ChooseProvider(starts)
  \/ \E s \in Step : CallSettles(s)
  \/ Settles
  \/ \E expired \in BOOLEAN : SessionSettles(expired)
  \/ \E s \in Step : CloseMessage(s) \/ Acknowledge(s)
  \/ \E s \in Step, goes \in BOOLEAN : Retry(s, goes)
  \/ AnswerRefusal
  \/ Dismiss
  \/ HostCloses
  \/ SessionEnds

\* Requests made through ApiHandler settle: it aborts the ones that stall.
\* Promise callbacks run.  Nothing is assumed of SessionSettles.
Fairness ==
  /\ WF_flowVars(Settles)
  /\ \A s \in Step : WF_flowVars(CallSettles(s))
  /\ WF_flowVars(EndFlow)

FlowsSpec == FlowsInit /\ [][FlowsNext]_flowVars /\ Fairness

-----------------------------------------------------------------------------
FlowsTypeOK ==
  /\ flow \in Flow \cup {None}
  /\ phase \in {"idle", "inspecting", "refusing", "open", "closing"}
  /\ execution \in Execution
  /\ awaits \in [Step -> Await]
  /\ busy \in BOOLEAN /\ user \in BOOLEAN
  /\ surfaces \in Seq(Step)

\* Unless the session's request stalls for good, a popup under a running
\* command is released again, and a flow that has no surface left ends or
\* opens one: nothing else keeps the user from the next flow, which run()
\* refuses to start until then.
SessionAnswers == []<>(awaits["signIn"] # "session")
FlowsSettle ==
  SessionAnswers =>
    /\ busy ~> ~busy
    /\ (flow # None /\ surfaces = <<>>) ~> (flow = None \/ surfaces # <<>>)

\* A surface never outlives what it belongs to.  A message is on top of its
\* flow's popup while its substep awaits it, and no command runs under it; a
\* flow that ends leaves no surface, no busy popup and no substep in flight,
\* whenever the host closes its surfaces.
SurfacesBelongToSteps ==
  /\ surfaces \in {<<>>} \cup
       IF phase = "open"
       THEN {<<MainStep[flow]>>} \cup {<<MainStep[flow], s>> : s \in execution.active}
       ELSE IF phase = "refusing" THEN {<<"checkToken">>} ELSE {}
  /\ \A s \in Step :
       /\ awaits[s] # "nothing" <=> s \in execution.active
       /\ awaits[s] \in Messages <=> Len(surfaces) = 2 /\ Top(s)
  /\ busy <=> phase = "open" /\ \E s \in Step : Calling(s) \/ awaits[s] = "session"
  /\ flow = None => surfaces = <<>> /\ Drained(execution)

\* The pointer of ctx.flow names a step that goes on, unless that step ended
\* while another had the pointer: substeps that begin during one another and
\* end in the same order leave the pointer on the first.
CurrentStepGoesOn ==
  LET s == execution.current
  IN  s # None /\ execution.status[s] \in Over =>
        s \in execution.overtaken \/ phase = "closing"
=============================================================================
