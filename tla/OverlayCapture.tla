---------------------------- MODULE OverlayCapture ----------------------------
(* Overlay implements Capture: the session is the one with a child. *)
EXTENDS Overlay

Session    == IF process THEN status ELSE "NONE"
Alive      == child.state = "running"
Paused     == status = "RECORD" /\ process /\ paused
Screenshot == shot
Selecting  == selector.started

C == INSTANCE Capture WITH session    <- Session,
                           alive      <- Alive,
                           paused     <- Paused,
                           screenshot <- Screenshot,
                           selecting  <- Selecting

\* Every step of the overlay is a step of Capture or leaves its state alone.
ImplementsCapture == C!Spec
=============================================================================
