---------------------------- MODULE MCManagement ----------------------------
(* Model checking of WifiOperation, PairingScreen and SecureSession in one  *)
(* run: they share no state, so each behaviour is of one of them and leaves *)
(* the others in one of their initial states.                               *)
EXTENDS WifiOperation, PairingScreen, SecureSession

VARIABLE system     \* the part that runs

allVars == <<system, serviceVars, screenVars, linkVars>>

Service(step_) ==
  system = "service" /\ step_ /\ UNCHANGED <<system, screenVars, linkVars>>
Screen(step_) ==
  system = "screen" /\ step_ /\ UNCHANGED <<system, serviceVars, linkVars>>
Link(step_) ==
  system = "link" /\ step_ /\ UNCHANGED <<system, serviceVars, screenVars>>

Init ==
  /\ system \in {"service", "screen", "link"}
  /\ ServiceInit /\ (system # "service" => nextId = 1)
  /\ ScreenInit
  /\ system # "screen" => displayReady /\ ~pageDirty /\ commandSequence = 0
  /\ LinkInit

Next == Service(ServiceNext) \/ Screen(ScreenNext) \/ Link(LinkNext)

\* Each task runs on when it can, and a display is in the end initialised.
Fairness ==
  /\ WF_allVars(Service(OwnerStep))
  /\ WF_allVars(Service(NetStep))
  /\ WF_allVars(Service(AppStep))
  /\ WF_allVars(Screen(OwnerWork))
  /\ WF_allVars(Screen(UiWork))
  /\ SF_allVars(Screen(Receive /\ displayReady'))

FairSpec == Init /\ [][Next]_allVars /\ Fairness
=============================================================================
