----------------------------- MODULE MCVisitors ------------------------------
(***************************************************************************)
(* What a visitor answers, on small instances: the consents of forms and   *)
(* the answers to the cookie banner.  They share no rows that these models *)
(* follow, so in every behaviour one of them moves and the other stays as  *)
(* it is.                                                                  *)
(***************************************************************************)
EXTENDS MCConsentRecording, CookieBanner

VARIABLE part       \* the component that moves

\* The component that stays as it is starts in one of its states.
FirstStates ==
  /\ part # "banner" => ~tabs
  /\ part # "consents" => \A t \in Templates : template[t].fields = "combined"

VisitorsInit ==
  /\ part \in {"consents", "banner"}
  /\ RecordingInit /\ CookieBannerInit
  /\ FirstStates

visitorsVars == <<part, allVars, bannerVars>>

ConsentsMove ==
  /\ part = "consents"
  /\ RecordingNext
  /\ UNCHANGED <<part, bannerVars>>

BannerMove ==
  /\ part = "banner"
  /\ CookieBannerNext
  /\ UNCHANGED <<part, allVars>>

VisitorsNext == ConsentsMove \/ BannerMove

VisitorsSpec == VisitorsInit /\ [][VisitorsNext]_visitorsVars
=============================================================================
